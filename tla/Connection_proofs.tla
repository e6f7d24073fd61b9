-------------------------- MODULE Connection_proofs --------------------------
(***************************************************************************)
(* Theorems about a telnet connection, for every host that keeps to        *)
(* RFC 854 and RFC 2355, whatever it says and wherever TCP cuts it: both   *)
(* ends agree, and the connection is a channel for the host's data and for *)
(* its commands.                                                           *)
(***************************************************************************)
EXTENDS Connection, TLAPS, FiniteSetTheorems, SequenceTheorems, WellFoundedInduction

-----------------------------------------------------------------------------
(* Numbers.                                                                *)

LEMMA LeastNumber ==
    ASSUME NEW T, T \subseteq Nat, T # {}
    PROVE  \E n \in T : \A k \in T : n <= k
<1>1. PICK x \in T : \A y \in T : ~ (<<y, x>> \in OpToRel(<, Nat))
  BY NatLessThanWellFounded, WFMin, Zenon
<1>2. \A y \in T : <<y, x>> \notin {ss \in Nat \X Nat : ss[1] < ss[2]}
  BY <1>1, Zenon DEF OpToRel
<1>3. \A y \in T : ~(y < x)
  BY <1>2
<1> QED
  BY <1>3

\* What holds of 0, and with a number of its successor, holds up to n
LEMMA UpTo ==
    ASSUME NEW n \in Nat, NEW P, 0 \in P, \A k \in 1 .. n : k - 1 \in P => k \in P
    PROVE  \A k \in 0 .. n : k \in P
<1> DEFINE T == {k \in 0 .. n : k \notin P}
<1>1. T \subseteq Nat
  OBVIOUS
<1> SUFFICES ASSUME T # {} PROVE FALSE
  OBVIOUS
<1>2. PICK m \in T : \A k \in T : m <= k
  <2> HIDE DEF T
  <2> QED
    BY <1>1, LeastNumber
<1>3. m \in 1 .. n /\ m \notin P
  <2>1. m \in 0 .. n /\ m \notin P
    BY <1>2
  <2> QED
    BY <2>1
<1>4. m - 1 \notin P /\ m - 1 \in 0 .. n /\ ~(m <= m - 1)
  BY <1>3
<1>5. m - 1 \in T
  BY <1>4
<1> QED
  BY <1>2, <1>4, <1>5

LEMMA MinOfNumbers ==
    ASSUME NEW T, T \subseteq Nat, T # {}
    PROVE  Min(T) \in T /\ \A k \in T : Min(T) <= k
BY LeastNumber DEF Min

LEMMA MaxOfNumbers ==
    ASSUME NEW n \in Nat, NEW T, T \subseteq 0 .. n, T # {}
    PROVE  Max(T) \in T /\ \A k \in T : k <= Max(T)
<1> DEFINE U == {n - k : k \in T}
<1>1. U \subseteq Nat /\ U # {}
  <2>1. \A k \in T : k \in 0 .. n /\ n - k \in Nat
    OBVIOUS
  <2> QED
    BY <2>1
<1>2. PICK m \in U : \A k \in U : m <= k
  <2> HIDE DEF U
  <2> QED
    BY <1>1, LeastNumber
<1>3. PICK x \in T : m = n - x
  BY <1>2
<1>4. \A k \in T : k <= x
  <2> TAKE k \in T
  <2>1. m <= n - k
    BY <1>2
  <2> QED
    BY <1>3, <2>1
<1> QED
  BY <1>3, <1>4 DEF Max

LEMMA IntervalTop ==
    ASSUME NEW n \in Nat, NEW m \in 1 .. n
    PROVE  1 .. m # {} /\ 1 .. m \in SUBSET (1 .. n) /\ Max(1 .. m) = m
           /\ (1 .. m) \ {m} = 1 .. m - 1
<1>1. m \in 1 .. m /\ \A j \in 1 .. m : m >= j
  OBVIOUS
<1>2. m \in Nat /\ 1 .. m \subseteq 0 .. m /\ 1 .. m # {}
  BY <1>1
<1>3. Max(1 .. m) \in 1 .. m /\ \A j \in 1 .. m : j <= Max(1 .. m)
  <2>1. \A T : T \subseteq 0 .. m /\ T # {} => Max(T) \in T /\ \A k \in T : k <= Max(T)
    BY <1>2, MaxOfNumbers
  <2> QED
    BY <1>2, <2>1
<1>4. Max(1 .. m) = m
  BY <1>1, <1>2, <1>3
<1> QED
  BY <1>2, <1>4

-----------------------------------------------------------------------------
(* Sequences, and what is put together of them.                            *)

\* f lists what the first pieces make
Pieced(ss, f) ==
    f = [i \in 1 .. Len(ss) |-> IF i = 1 THEN ss[i] ELSE f[i - 1] \o ss[i]]

\* f lists what the first n of them make
PiecedUpTo(ss, S, n, f) ==
    /\ f \in [1 .. n -> Seq(S)]
    /\ \A i \in 1 .. n : f[i] = IF i = 1 THEN ss[i] ELSE f[i - 1] \o ss[i]

LEMMA PiecedExists ==
    ASSUME NEW S, NEW ss \in Seq(Seq(S))
    PROVE  \E f : Pieced(ss, f) /\ f \in [1 .. Len(ss) -> Seq(S)]
<1> DEFINE P == {n \in 0 .. Len(ss) : \E f : PiecedUpTo(ss, S, n, f)}
<1>0. Len(ss) \in Nat /\ \A i \in 1 .. Len(ss) : ss[i] \in Seq(S)
  OBVIOUS
<1>1. 0 \in P
  <2> DEFINE f == [i \in 1 .. 0 |-> <<>>]
  <2>1. f \in [1 .. 0 -> Seq(S)] /\ \A i \in 1 .. 0 : f[i] = IF i = 1 THEN ss[i] ELSE f[i - 1] \o ss[i]
    OBVIOUS
  <2> HIDE DEF f
  <2>2. PiecedUpTo(ss, S, 0, f)
    BY <2>1 DEF PiecedUpTo
  <2> QED
    BY <2>2, <1>0
<1>2. \A n \in 1 .. Len(ss) : n - 1 \in P => n \in P
  <2> SUFFICES ASSUME NEW n \in 1 .. Len(ss), NEW f, PiecedUpTo(ss, S, n - 1, f)
               PROVE  \E g : PiecedUpTo(ss, S, n, g)
    BY <1>0
  <2> DEFINE last == IF n = 1 THEN ss[n] ELSE f[n - 1] \o ss[n]
             g == [i \in 1 .. n |-> IF i < n THEN f[i] ELSE last]
  <2>0. n \in Nat /\ n \in 1 .. n
    BY <1>0
  <2>1. \A i \in 1 .. n - 1 : f[i] \in Seq(S) /\ g[i] = f[i] /\ f[i] = IF i = 1 THEN ss[i] ELSE f[i - 1] \o ss[i]
    <3> HIDE DEF last
    <3>1. f \in [1 .. n - 1 -> Seq(S)] /\ \A i \in 1 .. n - 1 : f[i] = IF i = 1 THEN ss[i] ELSE f[i - 1] \o ss[i]
      BY DEF PiecedUpTo
    <3>2. \A i \in 1 .. n - 1 : i \in 1 .. n /\ i < n
      BY <2>0
    <3> QED
      BY <3>1, <3>2
  <2>2. g[n] = (IF n = 1 THEN ss[n] ELSE f[n - 1] \o ss[n]) /\ ss[n] \in Seq(S)
    BY <2>0, <1>0
  <2> HIDE DEF last
  <2>3. g[n] \in Seq(S)
    <3>1. CASE n = 1
      BY <3>1, <2>2
    <3>2. CASE n # 1
      <4>1. n - 1 \in 1 .. n - 1
        BY <3>2
      <4>2. f[n - 1] \in Seq(S)
        BY <4>1, <2>1
      <4> HIDE DEF g
      <4> QED
        BY <3>2, <4>2, <2>2
    <3> QED
      BY <3>1, <3>2
  <2>4. g \in [1 .. n -> Seq(S)]
    <3>1. \A i \in 1 .. n : g[i] \in Seq(S)
      <4> TAKE i \in 1 .. n
      <4>1. i \in 1 .. n - 1 \/ i = n
        OBVIOUS
      <4> HIDE DEF g
      <4> QED
        BY <4>1, <2>1, <2>3
    <3> QED
      BY <3>1
  <2>5. \A i \in 1 .. n : g[i] = IF i = 1 THEN ss[i] ELSE g[i - 1] \o ss[i]
    <3> TAKE i \in 1 .. n
    <3>1. CASE i < n
      <4>1. i \in 1 .. n - 1 /\ (i # 1 => i - 1 \in 1 .. n - 1)
        BY <3>1
      <4> HIDE DEF g
      <4> QED
        BY <4>1, <2>1
    <3>2. CASE i = n
      <4>1. i # 1 => i - 1 \in 1 .. n - 1
        BY <3>2
      <4> HIDE DEF g
      <4> QED
        BY <3>2, <4>1, <2>1, <2>2
    <3> QED
      BY <3>1, <3>2
  <2> HIDE DEF g
  <2>6. PiecedUpTo(ss, S, n, g)
    BY <2>4, <2>5 DEF PiecedUpTo
  <2> QED
    BY <2>6
<1>3. \A n \in 0 .. Len(ss) : n \in P
  <2> HIDE DEF P
  <2> QED
    BY <1>0, <1>1, <1>2, UpTo
<1>4. PICK f : PiecedUpTo(ss, S, Len(ss), f)
  <2>1. Len(ss) \in P
    <3> HIDE DEF P
    <3> QED
      BY <1>0, <1>3
  <2> QED
    BY <2>1
<1>5. /\ f \in [1 .. Len(ss) -> Seq(S)]
      /\ f = [i \in 1 .. Len(ss) |-> IF i = 1 THEN ss[i] ELSE f[i - 1] \o ss[i]]
  BY <1>4 DEF PiecedUpTo
<1> QED
  BY <1>5 DEF Pieced

LEMMA FlattenIsPieced ==
    ASSUME NEW S, NEW ss \in Seq(Seq(S))
    PROVE  /\ Len(ss) = 0 => FlattenSeq(ss) = <<>>
           /\ Len(ss) # 0 => \E f : /\ Pieced(ss, f) /\ f \in [1 .. Len(ss) -> Seq(S)]
                                    /\ FlattenSeq(ss) = f[Len(ss)]
<1> DEFINE f == CHOOSE f : Pieced(ss, f)
<1>0. Len(ss) \in Nat
  OBVIOUS
<1>1. Pieced(ss, f)
  BY PiecedExists
<1>2. f \in [1 .. Len(ss) -> Seq(S)]
  <2>1. PICK g : Pieced(ss, g) /\ g \in [1 .. Len(ss) -> Seq(S)]
    BY PiecedExists
  <2> HIDE DEF f
  <2> DEFINE P == {n \in 0 .. Len(ss) : n # 0 => f[n] = g[n]}
  <2>2. 0 \in P
    OBVIOUS
  <2>3. \A n \in 1 .. Len(ss) : n - 1 \in P => n \in P
    <3> TAKE n \in 1 .. Len(ss)
    <3>1. f[n] = IF n = 1 THEN ss[n] ELSE f[n - 1] \o ss[n]
      BY <1>1 DEF Pieced
    <3>2. g[n] = IF n = 1 THEN ss[n] ELSE g[n - 1] \o ss[n]
      BY <2>1 DEF Pieced
    <3>3. n - 1 \in 0 .. Len(ss) /\ (n # 1 => n - 1 # 0) /\ n \in 0 .. Len(ss)
      BY <1>0
    <3> QED
      BY <3>1, <3>2, <3>3
  <2>4. \A n \in 0 .. Len(ss) : n \in P
    <3> HIDE DEF P
    <3> QED
      BY <1>0, <2>2, <2>3, UpTo
  <2>5. \A n \in 1 .. Len(ss) : f[n] = g[n]
    BY <2>4
  <2> QED
    BY <2>1, <2>5, <1>1 DEF Pieced
<1>3. Len(ss) # 0 => FlattenSeq(ss) = f[Len(ss)]
  BY DEF FlattenSeq, Pieced
<1>4. Len(ss) = 0 => FlattenSeq(ss) = <<>>
  BY DEF FlattenSeq
<1> HIDE DEF f
<1> QED
  BY <1>1, <1>2, <1>3, <1>4

LEMMA Appending ==
    ASSUME NEW T, NEW ss \in Seq(T), NEW x \in T
    PROVE  /\ Append(ss, x) \in Seq(T) /\ Len(ss) \in Nat
           /\ Len(Append(ss, x)) = Len(ss) + 1 /\ Append(ss, x)[Len(ss) + 1] = x
           /\ \A i \in 1 .. Len(ss) : Append(ss, x)[i] = ss[i] /\ ss[i] \in T
           /\ Append(ss, x) = ss \o <<x>>
OBVIOUS

LEMMA Joining ==
    ASSUME NEW T, NEW ss \in Seq(T), NEW tt \in Seq(T)
    PROVE  /\ ss \o <<>> = ss /\ <<>> \o ss = ss
           /\ ss \o tt \in Seq(T) /\ Len(ss \o tt) = Len(ss) + Len(tt)
           /\ \A x \in T : ss \o Append(tt, x) = Append(ss \o tt, x)
OBVIOUS

LEMMA JoinedPlaces ==
    ASSUME NEW T, NEW ss \in Seq(T), NEW tt \in Seq(T)
    PROVE  /\ Len(ss) \in Nat /\ Len(tt) \in Nat
           /\ ss \o tt \in Seq(T) /\ Len(ss \o tt) = Len(ss) + Len(tt)
           /\ \A i \in 1 .. Len(ss) : (ss \o tt)[i] = ss[i]
           /\ \A i \in 1 .. Len(tt) : (ss \o tt)[Len(ss) + i] = tt[i]
OBVIOUS

LEMMA SameSeq ==
    ASSUME NEW S, NEW s \in Seq(S), NEW r \in Seq(S), Len(s) = Len(r), \A i \in 1 .. Len(r) : s[i] = r[i]
    PROVE  s = r
OBVIOUS

LEMMA Associates ==
    ASSUME NEW S, NEW x \in Seq(S), NEW y \in Seq(S), NEW z \in Seq(S)
    PROVE  (x \o y) \o z = x \o (y \o z) /\ x \o y \in Seq(S) /\ y \o z \in Seq(S)
<1> DEFINE l == (x \o y) \o z
           r == x \o (y \o z)
           a == x \o y
           b == y \o z
<1>1. /\ a \in Seq(S) /\ Len(x) \in Nat /\ Len(y) \in Nat /\ Len(z) \in Nat /\ Len(a) = Len(x) + Len(y)
      /\ \A i \in 1 .. Len(x) : a[i] = x[i]
      /\ \A i \in 1 .. Len(y) : a[Len(x) + i] = y[i]
  BY JoinedPlaces
<1>2. /\ b \in Seq(S) /\ Len(b) = Len(y) + Len(z)
      /\ \A i \in 1 .. Len(y) : b[i] = y[i]
      /\ \A i \in 1 .. Len(z) : b[Len(y) + i] = z[i]
  BY JoinedPlaces
<1> HIDE DEF a, b
<1>3. /\ l \in Seq(S) /\ Len(l) = Len(a) + Len(z)
      /\ \A i \in 1 .. Len(a) : l[i] = a[i]
      /\ \A i \in 1 .. Len(z) : l[Len(a) + i] = z[i]
  <2>1. /\ a \o z \in Seq(S) /\ Len(a \o z) = Len(a) + Len(z)
        /\ \A i \in 1 .. Len(a) : (a \o z)[i] = a[i]
        /\ \A i \in 1 .. Len(z) : (a \o z)[Len(a) + i] = z[i]
    <3>1. a \in Seq(S)
      BY <1>1
    <3> QED
      BY <3>1, JoinedPlaces
  <2> QED
    BY <2>1 DEF a
<1>4. /\ r \in Seq(S) /\ Len(r) = Len(x) + Len(b)
      /\ \A i \in 1 .. Len(x) : r[i] = x[i]
      /\ \A i \in 1 .. Len(b) : r[Len(x) + i] = b[i]
  <2>1. /\ x \o b \in Seq(S) /\ Len(x \o b) = Len(x) + Len(b)
        /\ \A i \in 1 .. Len(x) : (x \o b)[i] = x[i]
        /\ \A i \in 1 .. Len(b) : (x \o b)[Len(x) + i] = b[i]
    <3>1. b \in Seq(S)
      BY <1>2
    <3> QED
      BY <3>1, JoinedPlaces
  <2> QED
    BY <2>1 DEF b
<1> HIDE DEF l, r
<1>5. ASSUME NEW i \in 1 .. Len(r) PROVE l[i] = r[i]
  <2>1. CASE i \in 1 .. Len(x)
    BY <1>1, <1>2, <1>3, <1>4, <2>1
  <2>2. CASE i - Len(x) \in 1 .. Len(y)
    <3> DEFINE k == i - Len(x)
    <3>1. k \in 1 .. Len(y) /\ k \in 1 .. Len(b) /\ Len(x) + k \in 1 .. Len(a) /\ Len(x) + k = i
      BY <1>1, <1>2, <2>2
    <3> HIDE DEF k
    <3>2. a[Len(x) + k] = y[k] /\ b[k] = y[k] /\ l[Len(x) + k] = a[Len(x) + k] /\ r[Len(x) + k] = b[k]
      BY <1>1, <1>2, <1>3, <1>4, <3>1
    <3> QED
      BY <3>1, <3>2
  <2>3. CASE i - Len(a) \in 1 .. Len(z)
    <3> DEFINE k == i - Len(a)
    <3>1. k \in 1 .. Len(z) /\ Len(y) + k \in 1 .. Len(b) /\ Len(x) + (Len(y) + k) = i /\ Len(a) + k = i
      BY <1>1, <1>2, <2>3
    <3> HIDE DEF k
    <3>2. l[Len(a) + k] = z[k] /\ b[Len(y) + k] = z[k] /\ r[Len(x) + (Len(y) + k)] = b[Len(y) + k]
      BY <1>1, <1>2, <1>3, <1>4, <3>1
    <3> QED
      BY <3>1, <3>2
  <2> QED
    BY <1>1, <1>2, <1>4, <2>1, <2>2, <2>3
<1>6. l = r
  <2>1. l \in Seq(S) /\ r \in Seq(S) /\ Len(l) = Len(r)
    BY <1>1, <1>2, <1>3, <1>4
  <2> QED
    BY <1>5, <2>1, SameSeq
<1> QED
  BY <1>1, <1>2, <1>6 DEF l, r, a, b

LEMMA Beginning ==
    ASSUME NEW T, NEW tt \in Seq(T)
    PROVE  /\ Len(tt) \in Nat
           /\ SubSeq(tt, 1, 0) = <<>> /\ SubSeq(tt, 1, Len(tt)) = tt
           /\ \A k \in 0 .. Len(tt) : SubSeq(tt, 1, k) \in Seq(T) /\ Len(SubSeq(tt, 1, k)) = k
           /\ \A k \in 1 .. Len(tt) : /\ k - 1 \in 0 .. Len(tt) /\ tt[k] \in T
                                     /\ SubSeq(tt, 1, k) = Append(SubSeq(tt, 1, k - 1), tt[k])
OBVIOUS

LEMMA Taking ==
    ASSUME NEW T, NEW ss \in Seq(T), ss # <<>>
    PROVE  /\ ss[1] \in T /\ Tail(ss) \in Seq(T) /\ <<ss[1]>> \in Seq(T) /\ ss = <<ss[1]>> \o Tail(ss)
           /\ Len(Tail(ss)) = Len(ss) - 1 /\ Len(ss) \in Nat \ {0}
           /\ \A i \in 1 .. Len(ss) - 1 : Tail(ss)[i] = ss[i + 1]
OBVIOUS

\* ss and tt begin with the same n
SameStart(ss, tt, n) ==
    /\ Len(ss) \in Nat /\ Len(tt) \in Nat /\ n \in 0 .. Len(ss) /\ n <= Len(tt)
    /\ \A i \in 1 .. n : ss[i] = tt[i]

LEMMA PiecedSame ==
    ASSUME NEW ss, NEW tt, NEW n, SameStart(ss, tt, n), NEW f, Pieced(ss, f), NEW g, Pieced(tt, g)
    PROVE  \A i \in 1 .. n : f[i] = g[i]
<1> DEFINE P == {k \in 0 .. n : k # 0 => f[k] = g[k]}
<1> USE DEF SameStart
<1>1. 0 \in P
  OBVIOUS
<1>2. \A k \in 1 .. n : k - 1 \in P => k \in P
  <2> TAKE k \in 1 .. n
  <2>0. k \in 1 .. Len(ss) /\ k \in 1 .. Len(tt) /\ ss[k] = tt[k]
    OBVIOUS
  <2>1. f[k] = IF k = 1 THEN ss[k] ELSE f[k - 1] \o ss[k]
    BY <2>0 DEF Pieced
  <2>2. g[k] = IF k = 1 THEN tt[k] ELSE g[k - 1] \o tt[k]
    BY <2>0 DEF Pieced
  <2>3. k - 1 \in 0 .. n /\ k \in 0 .. n /\ (k # 1 => k - 1 # 0)
    OBVIOUS
  <2> QED
    BY <2>0, <2>1, <2>2, <2>3
<1>3. n \in Nat
  OBVIOUS
<1>4. \A k \in 0 .. n : k \in P
  <2> HIDE DEF P
  <2> QED
    BY <1>1, <1>2, <1>3, UpTo
<1> QED
  BY <1>4

LEMMA FlattenNone == FlattenSeq(<<>>) = <<>>
BY DEF FlattenSeq

LEMMA FlattenType ==
    ASSUME NEW S, NEW ss \in Seq(Seq(S))
    PROVE  FlattenSeq(ss) \in Seq(S)
<1>0. Len(ss) \in Nat
  OBVIOUS
<1>1. CASE Len(ss) = 0
  <2>1. FlattenSeq(ss) = <<>>
    BY <1>1, FlattenIsPieced
  <2> QED
    BY <2>1
<1>2. CASE Len(ss) # 0
  <2>1. PICK f : Pieced(ss, f) /\ f \in [1 .. Len(ss) -> Seq(S)] /\ FlattenSeq(ss) = f[Len(ss)]
    BY <1>2, FlattenIsPieced
  <2>2. Len(ss) \in 1 .. Len(ss)
    BY <1>0, <1>2
  <2> QED
    BY <2>1, <2>2
<1> QED
  BY <1>1, <1>2

LEMMA FlattenAppend ==
    ASSUME NEW S, NEW ss \in Seq(Seq(S)), NEW s \in Seq(S)
    PROVE  FlattenSeq(Append(ss, s)) = FlattenSeq(ss) \o s
<1> DEFINE tt == Append(ss, s)
<1>0. /\ Len(ss) \in Nat /\ Len(tt) = Len(ss) + 1 /\ tt \in Seq(Seq(S)) /\ tt[Len(tt)] = s
      /\ \A i \in 1 .. Len(ss) : ss[i] = tt[i]
  BY Appending
<1> HIDE DEF tt
<1>1. PICK g : Pieced(tt, g) /\ FlattenSeq(tt) = g[Len(tt)]
  <2>1. Len(tt) # 0
    BY <1>0
  <2> QED
    BY <1>0, <2>1, FlattenIsPieced
<1>2. g[Len(tt)] = IF Len(tt) = 1 THEN s ELSE g[Len(tt) - 1] \o s
  <2>1. Len(tt) \in 1 .. Len(tt)
    BY <1>0
  <2>2. g[Len(tt)] = IF Len(tt) = 1 THEN tt[Len(tt)] ELSE g[Len(tt) - 1] \o tt[Len(tt)]
    BY <2>1, <1>1 DEF Pieced
  <2> QED
    BY <1>0, <2>2
<1>3. CASE Len(ss) = 0
  <2>1. FlattenSeq(ss) = <<>>
    BY <1>3, FlattenIsPieced
  <2> QED
    BY <1>0, <1>1, <1>2, <1>3, <2>1 DEF tt
<1>4. CASE Len(ss) # 0
  <2>1. PICK f : Pieced(ss, f) /\ FlattenSeq(ss) = f[Len(ss)]
    BY <1>4, FlattenIsPieced
  <2>2. Len(ss) \in 0 .. Len(ss) /\ Len(ss) <= Len(tt) /\ Len(tt) \in Nat
    BY <1>0
  <2>3. \A i \in 1 .. Len(ss) : f[i] = g[i]
    <3>1. SameStart(ss, tt, Len(ss))
      BY <1>0, <2>2 DEF SameStart
    <3> QED
      BY <1>1, <2>1, <3>1, PiecedSame
  <2>4. f[Len(ss)] = g[Len(tt) - 1] /\ Len(tt) # 1
    BY <1>0, <1>4, <2>3
  <2> QED
    BY <1>1, <1>2, <2>1, <2>4 DEF tt
<1> QED
  BY <1>3, <1>4

LEMMA FlattenConcat ==
    ASSUME NEW S, NEW ss \in Seq(Seq(S)), NEW tt \in Seq(Seq(S))
    PROVE  FlattenSeq(ss \o tt) = FlattenSeq(ss) \o FlattenSeq(tt)
<1> DEFINE T == Seq(S)
           P == {k \in 0 .. Len(tt) : FlattenSeq(ss \o SubSeq(tt, 1, k))
                                        = FlattenSeq(ss) \o FlattenSeq(SubSeq(tt, 1, k))}
<1>0. /\ Len(tt) \in Nat /\ FlattenSeq(ss) \in Seq(S) /\ SubSeq(tt, 1, Len(tt)) = tt
      /\ ss \in Seq(T) /\ tt \in Seq(T)
  BY FlattenType, Beginning
<1>1. 0 \in P
  <2> HIDE DEF T, P
  <2>1. SubSeq(tt, 1, 0) = <<>> /\ ss \o <<>> = ss
    BY <1>0, Beginning, Joining
  <2>2. FlattenSeq(ss) \o <<>> = FlattenSeq(ss)
    BY <1>0, Joining
  <2>3. FlattenSeq(ss \o SubSeq(tt, 1, 0)) = FlattenSeq(ss) \o FlattenSeq(SubSeq(tt, 1, 0))
    BY <2>1, <2>2, FlattenNone
  <2> QED
    BY <1>0, <2>3 DEF P
<1>2. \A k \in 1 .. Len(tt) : k - 1 \in P => k \in P
  <2> SUFFICES ASSUME NEW k \in 1 .. Len(tt), k - 1 \in P
               PROVE  k \in P
    OBVIOUS
  <2> DEFINE r == SubSeq(tt, 1, k - 1)
             x == tt[k]
  <2>1. FlattenSeq(ss \o r) = FlattenSeq(ss) \o FlattenSeq(r)
    OBVIOUS
  <2> HIDE DEF P
  <2>2. SubSeq(tt, 1, k) = Append(r, x) /\ x \in T /\ r \in Seq(T) /\ k \in 0 .. Len(tt)
    <3> HIDE DEF T
    <3> QED
      BY <1>0, Beginning
  <2> HIDE DEF r, x
  <2>3. ss \o Append(r, x) = Append(ss \o r, x) /\ ss \o r \in Seq(T)
    <3> HIDE DEF T
    <3>1. ss \in Seq(T) /\ r \in Seq(T) /\ x \in T
      BY <1>0, <2>2
    <3> QED
      BY <3>1, Joining
  <2>4. FlattenSeq(Append(ss \o r, x)) = FlattenSeq(ss \o r) \o x
    BY <2>2, <2>3, FlattenAppend
  <2>5. FlattenSeq(Append(r, x)) = FlattenSeq(r) \o x /\ FlattenSeq(r) \in Seq(S)
    BY <2>2, FlattenAppend, FlattenType
  <2>6. (FlattenSeq(ss) \o FlattenSeq(r)) \o x = FlattenSeq(ss) \o (FlattenSeq(r) \o x)
    <3> DEFINE a == FlattenSeq(ss)
               b == FlattenSeq(r)
    <3>1. a \in Seq(S) /\ b \in Seq(S) /\ x \in Seq(S)
      BY <1>0, <2>2, <2>5
    <3> HIDE DEF a, b, T
    <3>2. (a \o b) \o x = a \o (b \o x)
      BY <3>1, Associates, SMTT(40)
    <3> QED
      BY <3>2 DEF a, b
  <2>7. FlattenSeq(ss \o SubSeq(tt, 1, k)) = FlattenSeq(ss) \o FlattenSeq(SubSeq(tt, 1, k))
    BY <2>1, <2>2, <2>3, <2>4, <2>5, <2>6
  <2> QED
    BY <2>2, <2>7 DEF P
<1>3. \A k \in 0 .. Len(tt) : k \in P
  <2> HIDE DEF P
  <2> QED
    BY <1>0, <1>1, <1>2, UpTo
<1>4. Len(tt) \in P
  <2> HIDE DEF P
  <2> QED
    BY <1>0, <1>3
<1> QED
  BY <1>0, <1>4

LEMMA FlattenOne ==
    ASSUME NEW S, NEW s \in Seq(S)
    PROVE  FlattenSeq(<<s>>) = s
<1> DEFINE none == <<>>
<1>1. none \in Seq(Seq(S)) /\ Append(none, s) = <<s>>
  OBVIOUS
<1>2. FlattenSeq(Append(none, s)) = FlattenSeq(none) \o s
  <2> HIDE DEF none
  <2> QED
    BY <1>1, FlattenAppend
<1>3. <<>> \o s = s
  BY Joining
<1> QED
  BY <1>1, <1>2, <1>3, FlattenNone

LEMMA FlattenHead ==
    ASSUME NEW S, NEW ss \in Seq(Seq(S)), ss # <<>>
    PROVE  FlattenSeq(ss) = ss[1] \o FlattenSeq(Tail(ss))
<1> DEFINE T == Seq(S)
           a == <<ss[1]>>
           b == Tail(ss)
<1>1. ss = a \o b /\ ss[1] \in Seq(S) /\ b \in Seq(T) /\ a \in Seq(T)
  <2>1. ss \in Seq(T)
    OBVIOUS
  <2> HIDE DEF T
  <2>2. ss = a \o b /\ ss[1] \in T /\ b \in Seq(T) /\ a \in Seq(T)
    BY <2>1, Taking
  <2> QED
    BY <2>2 DEF T
<1>2. FlattenSeq(a) = ss[1]
  BY <1>1, FlattenOne
<1> HIDE DEF a, b
<1>3. FlattenSeq(a \o b) = FlattenSeq(a) \o FlattenSeq(b)
  BY <1>1, FlattenConcat
<1> QED
  BY <1>1, <1>2, <1>3 DEF b

\* What F makes of the members of ss, put together
Gather(F, ss) == FlattenSeq([i \in 1 .. Len(ss) |-> F[ss[i]]])

LEMMA Parts ==
    ASSUME NEW U, NEW T, NEW F \in [U -> T], NEW ss \in Seq(U)
    PROVE  [i \in 1 .. Len(ss) |-> F[ss[i]]] \in Seq(T)
OBVIOUS

LEMMA PartsJoin ==
    ASSUME NEW U, NEW T, NEW F \in [U -> T], NEW ss \in Seq(U), NEW tt \in Seq(U)
    PROVE  [i \in 1 .. Len(ss \o tt) |-> F[(ss \o tt)[i]]]
              = [i \in 1 .. Len(ss) |-> F[ss[i]]] \o [i \in 1 .. Len(tt) |-> F[tt[i]]]
<1> DEFINE a == [i \in 1 .. Len(ss) |-> F[ss[i]]]
           b == [i \in 1 .. Len(tt) |-> F[tt[i]]]
           d == [i \in 1 .. Len(ss \o tt) |-> F[(ss \o tt)[i]]]
<1>1. a \in Seq(T) /\ b \in Seq(T) /\ d \in Seq(T)
  OBVIOUS
<1>2. Len(a) = Len(ss) /\ Len(b) = Len(tt) /\ Len(d) = Len(ss) + Len(tt)
  OBVIOUS
<1>3. \A i \in 1 .. Len(ss) : d[i] = a[i]
  OBVIOUS
<1>4. \A i \in Len(ss) + 1 .. Len(ss) + Len(tt) : d[i] = b[i - Len(ss)]
  OBVIOUS
<1>5. Len(ss) \in Nat /\ Len(tt) \in Nat
  OBVIOUS
<1> HIDE DEF a, b, d
<1> QED
  BY <1>1, <1>2, <1>3, <1>4, <1>5 DEF a, b, d

LEMMA GatherNone == ASSUME NEW F PROVE Gather(F, <<>>) = <<>>
<1>1. [i \in 1 .. Len(<<>>) |-> F[<<>>[i]]] = <<>>
  OBVIOUS
<1> QED
  BY <1>1, FlattenNone DEF Gather

\* F makes a sequence over S of each member of U
Makes(F, U, S) == F \in [U -> Seq(S)]

LEMMA GatherType ==
    ASSUME NEW U, NEW S, NEW F, Makes(F, U, S), NEW ss \in Seq(U)
    PROVE  Gather(F, ss) \in Seq(S)
<1> DEFINE a == [i \in 1 .. Len(ss) |-> F[ss[i]]]
           T == Seq(S)
<1>0. F \in [U -> T]
  BY DEF Makes
<1>1. a \in Seq(T)
  <2> HIDE DEF T
  <2> QED
    BY <1>0, Parts
<1> HIDE DEF a
<1> QED
  BY <1>1, FlattenType DEF Gather, a

LEMMA GatherJoin ==
    ASSUME NEW U, NEW S, NEW F, Makes(F, U, S), NEW ss \in Seq(U), NEW tt \in Seq(U)
    PROVE  Gather(F, ss \o tt) = Gather(F, ss) \o Gather(F, tt)
<1> DEFINE a == [i \in 1 .. Len(ss) |-> F[ss[i]]]
           b == [i \in 1 .. Len(tt) |-> F[tt[i]]]
           T == Seq(S)
<1>1. a \in Seq(T) /\ b \in Seq(T) /\ [i \in 1 .. Len(ss \o tt) |-> F[(ss \o tt)[i]]] = a \o b
  <2>1. F \in [U -> T]
    BY DEF Makes
  <2> HIDE DEF T
  <2> QED
    BY <2>1, Parts, PartsJoin
<1> HIDE DEF a, b
<1>2. FlattenSeq(a \o b) = FlattenSeq(a) \o FlattenSeq(b)
  BY <1>1, FlattenConcat
<1> QED
  BY <1>1, <1>2 DEF Gather, a, b

LEMMA GatherOne ==
    ASSUME NEW U, NEW S, NEW F, Makes(F, U, S), NEW u \in U
    PROVE  Gather(F, <<u>>) = F[u]
<1>1. [i \in 1 .. Len(<<u>>) |-> F[<<u>>[i]]] = <<F[u]>> /\ F[u] \in Seq(S)
  <2> DEFINE a == [i \in 1 .. Len(<<u>>) |-> F[<<u>>[i]]]
  <2>1. Len(a) = 1 /\ a[1] = F[u]
    OBVIOUS
  <2> QED
    BY <2>1 DEF Makes
<1> QED
  BY <1>1, FlattenOne DEF Gather

LEMMA GatherAppend ==
    ASSUME NEW U, NEW S, NEW F, Makes(F, U, S), NEW ss \in Seq(U), NEW u \in U
    PROVE  Gather(F, Append(ss, u)) = Gather(F, ss) \o F[u]
<1> DEFINE a == <<u>>
<1>1. Append(ss, u) = ss \o a
  BY Appending
<1>2. a \in Seq(U)
  OBVIOUS
<1>3. Gather(F, a) = F[u]
  BY GatherOne
<1> HIDE DEF a
<1>4. Gather(F, ss \o a) = Gather(F, ss) \o Gather(F, a)
  BY <1>2, GatherJoin
<1> QED
  BY <1>1, <1>3, <1>4

LEMMA GatherHead ==
    ASSUME NEW U, NEW S, NEW F, Makes(F, U, S), NEW ss \in Seq(U), ss # <<>>
    PROVE  Gather(F, ss) = F[ss[1]] \o Gather(F, Tail(ss))
<1> DEFINE a == <<ss[1]>>
           b == Tail(ss)
<1>1. ss = a \o b /\ ss[1] \in U /\ a \in Seq(U) /\ b \in Seq(U)
  BY Taking
<1>2. Gather(F, a) = F[ss[1]]
  BY <1>1, GatherOne
<1> HIDE DEF a, b
<1>4. a \in Seq(U) /\ b \in Seq(U)
  BY <1>1
<1>3. Gather(F, a \o b) = Gather(F, a) \o Gather(F, b)
  BY <1>4, GatherJoin
<1> QED
  BY <1>1, <1>2, <1>3 DEF b

\* What is gathered is in one of the parts
LEMMA GatherMembers ==
    ASSUME NEW U, NEW S, NEW F, Makes(F, U, S), NEW ss \in Seq(U), NEW y
    PROVE  (\E m \in 1 .. Len(Gather(F, ss)) : Gather(F, ss)[m] = y)
              <=> \E i \in 1 .. Len(ss) : \E j \in 1 .. Len(F[ss[i]]) : F[ss[i]][j] = y
<1> DEFINE Has(s) == \E m \in 1 .. Len(s) : s[m] = y
           P == {k \in 0 .. Len(ss) : Has(Gather(F, SubSeq(ss, 1, k)))
                                        <=> \E i \in 1 .. k : Has(F[ss[i]])}
<1>0. Len(ss) \in Nat /\ SubSeq(ss, 1, Len(ss)) = ss
  BY Beginning
<1>1. 0 \in P
  <2>0. SubSeq(ss, 1, 0) = <<>>
    BY Beginning
  <2>1. Gather(F, <<>>) = <<>> /\ ~Has(<<>>)
    BY GatherNone
  <2>2. ~Has(Gather(F, SubSeq(ss, 1, 0)))
    BY <2>0, <2>1
  <2> HIDE DEF Has
  <2> QED
    BY <1>0, <2>2
<1>2. \A k \in 1 .. Len(ss) : k - 1 \in P => k \in P
  <2> SUFFICES ASSUME NEW k \in 1 .. Len(ss), k - 1 \in P
               PROVE  k \in P
    OBVIOUS
  <2> DEFINE r == Gather(F, SubSeq(ss, 1, k - 1))
             x == F[ss[k]]
  <2>1. Has(r) <=> \E i \in 1 .. k - 1 : Has(F[ss[i]])
    OBVIOUS
  <2> HIDE DEF P
  <2>2. /\ SubSeq(ss, 1, k) = Append(SubSeq(ss, 1, k - 1), ss[k]) /\ ss[k] \in U
        /\ SubSeq(ss, 1, k - 1) \in Seq(U) /\ k \in 0 .. Len(ss)
    BY <1>0, Beginning
  <2>3. Gather(F, SubSeq(ss, 1, k)) = r \o x /\ r \in Seq(S) /\ x \in Seq(S)
    <3> DEFINE q == SubSeq(ss, 1, k - 1)
               u == ss[k]
    <3>1. q \in Seq(U) /\ u \in U /\ SubSeq(ss, 1, k) = Append(q, u) /\ F[u] \in Seq(S)
      BY <2>2 DEF Makes
    <3> HIDE DEF q, u
    <3>2. Gather(F, Append(q, u)) = Gather(F, q) \o F[u] /\ Gather(F, q) \in Seq(S)
      BY <3>1, GatherAppend, GatherType
    <3> QED
      BY <3>1, <3>2 DEF q, u
  <2> HIDE DEF r, x
  <2>4. Has(r \o x) <=> Has(r) \/ Has(x)
    <3>1. \A m \in 1 .. Len(r) : (r \o x)[m] = r[m] /\ m \in 1 .. Len(r \o x)
      BY <2>3
    <3>2. \A m \in 1 .. Len(x) : (r \o x)[m + Len(r)] = x[m] /\ m + Len(r) \in 1 .. Len(r \o x)
      BY <2>3
    <3>3. \A m \in 1 .. Len(r \o x) : m \notin 1 .. Len(r) => m - Len(r) \in 1 .. Len(x) /\ (r \o x)[m] = x[m - Len(r)]
      BY <2>3
    <3> QED
      BY <3>1, <3>2, <3>3
  <2>5. (\E i \in 1 .. k : Has(F[ss[i]])) <=> (\E i \in 1 .. k - 1 : Has(F[ss[i]])) \/ Has(x)
    <3>1. \A i \in 1 .. k : i \in 1 .. k - 1 \/ i = k
      OBVIOUS
    <3>2. k \in 1 .. k /\ \A i \in 1 .. k - 1 : i \in 1 .. k
      OBVIOUS
    <3> HIDE DEF Has
    <3> QED
      BY <3>1, <3>2 DEF x
  <2>6. Has(Gather(F, SubSeq(ss, 1, k))) <=> \E i \in 1 .. k : Has(F[ss[i]])
    <3> HIDE DEF Has
    <3> QED
      BY <2>1, <2>3, <2>4, <2>5
  <2> QED
    BY <2>2, <2>6 DEF P
<1>3. \A k \in 0 .. Len(ss) : k \in P
  <2> HIDE DEF P
  <2> QED
    BY <1>0, <1>1, <1>2, UpTo
<1>4. Len(ss) \in P
  <2> HIDE DEF P
  <2> QED
    BY <1>0, <1>3
<1> QED
  BY <1>0, <1>4

\* If each part is one thing, the parts are what is gathered
LEMMA GatherSingles ==
    ASSUME NEW U, NEW S, NEW F, Makes(F, U, S), NEW ss \in Seq(U), NEW tt \in Seq(S),
           Len(tt) = Len(ss), \A i \in 1 .. Len(ss) : F[ss[i]] = <<tt[i]>>
    PROVE  Gather(F, ss) = tt
<1> DEFINE P == {k \in 0 .. Len(ss) : Gather(F, SubSeq(ss, 1, k)) = SubSeq(tt, 1, k)}
<1>0. Len(ss) \in Nat /\ SubSeq(ss, 1, Len(ss)) = ss /\ SubSeq(tt, 1, Len(ss)) = tt
  BY Beginning
<1>1. 0 \in P
  <2>1. SubSeq(ss, 1, 0) = <<>>
    BY Beginning
  <2>2. SubSeq(tt, 1, 0) = <<>>
    BY Beginning
  <2>3. Gather(F, <<>>) = <<>>
    BY GatherNone
  <2>4. Gather(F, SubSeq(ss, 1, 0)) = SubSeq(tt, 1, 0)
    BY <2>1, <2>2, <2>3
  <2> QED
    BY <1>0, <2>4
<1>2. \A k \in 1 .. Len(ss) : k - 1 \in P => k \in P
  <2> SUFFICES ASSUME NEW k \in 1 .. Len(ss), k - 1 \in P
               PROVE  k \in P
    OBVIOUS
  <2>1. Gather(F, SubSeq(ss, 1, k - 1)) = SubSeq(tt, 1, k - 1)
    OBVIOUS
  <2>0. k \in 1 .. Len(tt)
    OBVIOUS
  <2> HIDE DEF P
  <2>2. /\ SubSeq(ss, 1, k) = Append(SubSeq(ss, 1, k - 1), ss[k]) /\ ss[k] \in U
        /\ SubSeq(ss, 1, k - 1) \in Seq(U) /\ k \in 0 .. Len(ss)
    <3>1. k - 1 \in 0 .. Len(ss) /\ k \in 0 .. Len(ss)
      BY <1>0
    <3> QED
      BY <3>1, Beginning
  <2>3. Gather(F, SubSeq(ss, 1, k)) = SubSeq(tt, 1, k - 1) \o <<tt[k]>>
    <3> DEFINE r == SubSeq(ss, 1, k - 1)
               x == ss[k]
    <3>1. r \in Seq(U) /\ x \in U /\ SubSeq(ss, 1, k) = Append(r, x) /\ F[x] = <<tt[k]>>
      BY <2>2
    <3>2. Gather(F, r) = SubSeq(tt, 1, k - 1)
      BY <2>1
    <3> HIDE DEF r, x
    <3>4. r \in Seq(U) /\ x \in U
      BY <3>1
    <3>3. Gather(F, Append(r, x)) = Gather(F, r) \o F[x]
      BY <3>4, GatherAppend
    <3> QED
      BY <3>1, <3>2, <3>3
  <2>4. SubSeq(tt, 1, k) = SubSeq(tt, 1, k - 1) \o <<tt[k]>>
    <3> DEFINE r == SubSeq(tt, 1, k - 1)
               x == tt[k]
    <3>1. SubSeq(tt, 1, k) = Append(r, x) /\ x \in S /\ r \in Seq(S)
      BY <2>0, Beginning
    <3> HIDE DEF r, x
    <3>2. Append(r, x) = r \o <<x>>
      BY <3>1, Appending
    <3> QED
      BY <3>1, <3>2 DEF r, x
  <2> QED
    BY <2>2, <2>3, <2>4 DEF P
<1>3. \A k \in 0 .. Len(ss) : k \in P
  <2> HIDE DEF P
  <2> QED
    BY <1>0, <1>1, <1>2, UpTo
<1>4. Len(ss) \in P
  <2> HIDE DEF P
  <2> QED
    BY <1>0, <1>3
<1> QED
  BY <1>0, <1>4

-----------------------------------------------------------------------------
(* Escapes.                                                                *)

\* Bytes are strings; those named are ones that the prover does not know as such
Byte == STRING \cup {"IAC", "EOR", "SE", "0", "DATA", "SSCP_LU"} \cup Verbs

LEMMA FirstIsNotEscaped ==
    ASSUME NEW b, NEW from \in Nat
    PROVE  ~IsEscaped(b, from, from)
<1>1. {j \in from .. from - 1 : \A m \in j .. from - 1 : b[m] = "IAC"} = {}
  OBVIOUS
<1> QED
  BY <1>1, FS_EmptySet DEF IsEscaped

\* A byte is escaped if it follows an IAC that is not
LEMMA NextIsEscaped ==
    ASSUME NEW b, NEW from \in Nat, NEW i \in Nat, from <= i
    PROVE  IsEscaped(b, from, i + 1) <=> b[i] = "IAC" /\ ~IsEscaped(b, from, i)
<1> DEFINE T == {j \in from .. i - 1 : \A m \in j .. i - 1 : b[m] = "IAC"}
           V == {j \in from .. i + 1 - 1 : \A m \in j .. i + 1 - 1 : b[m] = "IAC"}
<1>1. IsFiniteSet(T) /\ Cardinality(T) \in Nat /\ i \notin T
  <2>1. IsFiniteSet(from .. i - 1)
    BY FS_Interval
  <2>2. T \subseteq from .. i - 1
    OBVIOUS
  <2>3. IsFiniteSet(T)
    <3> HIDE DEF T
    <3> QED
      BY <2>1, <2>2, FS_Subset
  <2>4. Cardinality(T) \in Nat
    <3> HIDE DEF T
    <3> QED
      BY <2>3, FS_CardinalityType
  <2> QED
    BY <2>3, <2>4
<1>2. CASE b[i] # "IAC"
  <2>1. V = {}
    BY <1>2
  <2>2. Cardinality(V) = 0
    BY <2>1, FS_EmptySet
  <2> QED
    BY <1>2, <2>2 DEF IsEscaped
<1>3. CASE b[i] = "IAC"
  <2>1. V = T \cup {i}
    <3>1. \A j \in from .. i - 1 : j \in V <=> j \in T
      BY <1>3
    <3>2. i \in V
      BY <1>3
    <3>3. \A j \in V : j \in from .. i - 1 \/ j = i
      OBVIOUS
    <3>4. \A j \in T : j \in from .. i - 1
      OBVIOUS
    <3> HIDE DEF T, V
    <3> QED
      BY <3>1, <3>2, <3>3, <3>4
  <2>2. Cardinality(V) = Cardinality(T) + 1
    <3> HIDE DEF T, V
    <3> QED
      BY <1>1, <2>1, FS_AddElement
  <2>3. IsEscaped(b, from, i + 1) <=> Cardinality(V) % 2 = 1
    BY DEF IsEscaped
  <2>4. IsEscaped(b, from, i) <=> Cardinality(T) % 2 = 1
    BY DEF IsEscaped
  <2> HIDE DEF T, V
  <2> QED
    BY <1>1, <1>3, <2>2, <2>3, <2>4
<1> QED
  BY <1>2, <1>3

\* whether it is depends on what precedes it
LEMMA SameIsEscaped ==
    ASSUME NEW b, NEW d, NEW from \in Nat, NEW i \in Nat,
           \A m \in from .. i - 1 : b[m] = d[m]
    PROVE  IsEscaped(b, from, i) <=> IsEscaped(d, from, i)
<1>1. {j \in from .. i - 1 : \A m \in j .. i - 1 : b[m] = "IAC"}
         = {j \in from .. i - 1 : \A m \in j .. i - 1 : d[m] = "IAC"}
  <2>1. \A j \in from .. i - 1 : \A m \in j .. i - 1 : m \in from .. i - 1
    OBVIOUS
  <2> QED
    BY <2>1
<1> QED
  BY <1>1 DEF IsEscaped

\* Bytes with no IAC that is left without its escape
Sealed(e) ==
    /\ ~IsEscaped(e, 1, Len(e) + 1)
    /\ \A i \in 1 .. Len(e) :
          e[i] = "IAC" /\ ~IsEscaped(e, 1, i) => i < Len(e) /\ e[i + 1] = "IAC"

LEMMA EscapesGrow ==
    ASSUME NEW e \in Seq(Byte), NEW a \in Byte
    PROVE  /\ \A i \in 1 .. Len(e) + 1 : IsEscaped(Append(e, a), 1, i) <=> IsEscaped(e, 1, i)
           /\ IsEscaped(Append(e, a), 1, Len(e) + 2) <=> a = "IAC" /\ ~IsEscaped(e, 1, Len(e) + 1)
<1> DEFINE f == Append(e, a)
<1>1. Len(e) \in Nat /\ f[Len(e) + 1] = a /\ \A i \in 1 .. Len(e) : f[i] = e[i]
  BY Appending
<1> HIDE DEF f
<1>2. \A i \in 1 .. Len(e) + 1 : IsEscaped(f, 1, i) <=> IsEscaped(e, 1, i)
  <2> TAKE i \in 1 .. Len(e) + 1
  <2>1. i \in Nat /\ \A m \in 1 .. i - 1 : f[m] = e[m]
    BY <1>1
  <2> QED
    BY <2>1, SameIsEscaped
<1>3. Len(e) + 1 \in Nat /\ 1 <= Len(e) + 1 /\ Len(e) + 1 + 1 = Len(e) + 2 /\ Len(e) + 1 \in 1 .. Len(e) + 1
  BY <1>1
<1>4. IsEscaped(f, 1, Len(e) + 1 + 1) <=> f[Len(e) + 1] = "IAC" /\ ~IsEscaped(f, 1, Len(e) + 1)
  BY <1>3, NextIsEscaped
<1> QED
  BY <1>1, <1>2, <1>3, <1>4 DEF f

LEMMA UnescapedGrows ==
    ASSUME NEW e \in Seq(Byte), NEW a \in Byte
    PROVE  /\ Unescaped(e) \in Seq(Byte)
           /\ Unescaped(Append(e, a)) =
                 Unescaped(e) \o (IF a = "IAC" /\ IsEscaped(e, 1, Len(e) + 1) THEN <<>> ELSE <<a>>)
<1> DEFINE T == Seq(Byte)
           Part(s, i) == IF s[i] = "IAC" /\ IsEscaped(s, 1, i) THEN <<>> ELSE <<s[i]>>
           f == Append(e, a)
           p == [i \in 1 .. Len(e) |-> Part(e, i)]
           q == [i \in 1 .. Len(f) |-> Part(f, i)]
           x == IF a = "IAC" /\ IsEscaped(e, 1, Len(e) + 1) THEN <<>> ELSE <<a>>
<1>1. /\ Len(e) \in Nat /\ Len(f) = Len(e) + 1 /\ f[Len(e) + 1] = a
      /\ \A i \in 1 .. Len(e) : f[i] = e[i] /\ e[i] \in Byte
  <2> HIDE DEF T, p, q, x
  <2> QED
    OBVIOUS
<1>0. <<>> \in T /\ \A y \in Byte : <<y>> \in T
  OBVIOUS
<1>2. \A i \in 1 .. Len(e) + 1 : IsEscaped(f, 1, i) <=> IsEscaped(e, 1, i)
  BY EscapesGrow
<1> HIDE DEF f
<1>3. \A i \in 1 .. Len(e) : Part(f, i) = Part(e, i) /\ Part(e, i) \in T
  <2> TAKE i \in 1 .. Len(e)
  <2>1. i \in 1 .. Len(e) + 1 /\ f[i] = e[i] /\ e[i] \in Byte
    BY <1>1
  <2>2. IsEscaped(f, 1, i) <=> IsEscaped(e, 1, i)
    BY <1>2, <2>1
  <2>3. Part(f, i) = Part(e, i)
    BY <2>1, <2>2
  <2> HIDE DEF T
  <2>4. Part(e, i) \in T
    BY <2>1, <1>0
  <2> QED
    BY <2>3, <2>4
<1>4. Part(f, Len(e) + 1) = x /\ x \in T
  <2>1. Len(e) + 1 \in 1 .. Len(e) + 1
    BY <1>1
  <2> HIDE DEF T
  <2>2. Part(f, Len(e) + 1) = x
    BY <1>1, <1>2, <2>1
  <2>3. x \in T
    BY <1>0
  <2> QED
    BY <2>2, <2>3
<1>5. p \in Seq(T) /\ Len(p) = Len(e)
  <2> HIDE DEF T, Part
  <2> QED
    BY <1>1, <1>3
<1>6. q = Append(p, x)
  <2> HIDE DEF T, Part, x
  <2>1. q \in Seq(T)
    <3>1. \A i \in 1 .. Len(f) : Part(f, i) \in T
      <4> TAKE i \in 1 .. Len(f)
      <4>1. i \in 1 .. Len(e) \/ i = Len(e) + 1
        BY <1>1
      <4> QED
        BY <1>3, <1>4, <4>1
    <3>2. Len(f) \in Nat
      BY <1>1
    <3> QED
      BY <3>1, <3>2
  <2>2. Len(q) = Len(e) + 1 /\ q[Len(e) + 1] = x /\ \A i \in 1 .. Len(e) : q[i] = p[i]
    BY <1>1, <1>3, <1>4
  <2> HIDE DEF p, q
  <2> QED
    BY <1>1, <1>4, <1>5, <2>1, <2>2
<1> HIDE DEF p, q, x
<1>7. FlattenSeq(Append(p, x)) = FlattenSeq(p) \o x /\ FlattenSeq(p) \in Seq(Byte)
  BY <1>4, <1>5, FlattenAppend, FlattenType
<1> QED
  BY <1>6, <1>7 DEF Unescaped, p, q, x, f

LEMMA SealedPlain ==
    ASSUME NEW e \in Seq(Byte), Sealed(e), NEW a \in Byte, a # "IAC"
    PROVE  Sealed(Append(e, a))
<1> DEFINE f == Append(e, a)
<1>1. /\ Len(e) \in Nat /\ Len(f) = Len(e) + 1 /\ f[Len(e) + 1] = a
      /\ \A i \in 1 .. Len(e) : f[i] = e[i]
  BY Appending
<1>2. /\ \A i \in 1 .. Len(e) + 1 : IsEscaped(f, 1, i) <=> IsEscaped(e, 1, i)
      /\ ~IsEscaped(f, 1, Len(e) + 2)
  BY EscapesGrow
<1> HIDE DEF f
<1>3. \A i \in 1 .. Len(f) : f[i] = "IAC" /\ ~IsEscaped(f, 1, i) => i < Len(f) /\ f[i + 1] = "IAC"
  <2> SUFFICES ASSUME NEW i \in 1 .. Len(f), f[i] = "IAC", ~IsEscaped(f, 1, i)
               PROVE  i < Len(f) /\ f[i + 1] = "IAC"
    OBVIOUS
  <2>1. i \in 1 .. Len(e) /\ i \in 1 .. Len(e) + 1
    BY <1>1
  <2>2. e[i] = "IAC" /\ ~IsEscaped(e, 1, i)
    BY <1>1, <1>2, <2>1
  <2>3. i < Len(e) /\ e[i + 1] = "IAC" /\ i + 1 \in 1 .. Len(e)
    BY <2>1, <2>2 DEF Sealed
  <2> QED
    BY <1>1, <2>3
<1>4. Len(f) + 1 = Len(e) + 2
  BY <1>1
<1>5. Sealed(f)
  BY <1>2, <1>3, <1>4 DEF Sealed
<1> QED
  BY <1>5 DEF f

LEMMA SealedPair ==
    ASSUME NEW e \in Seq(Byte), Sealed(e), "IAC" \in Byte
    PROVE  Sealed(Append(Append(e, "IAC"), "IAC"))
<1> DEFINE f == Append(e, "IAC")
           g == Append(f, "IAC")
<1>1. /\ Len(e) \in Nat /\ Len(f) = Len(e) + 1 /\ f[Len(e) + 1] = "IAC" /\ f \in Seq(Byte)
      /\ \A i \in 1 .. Len(e) : f[i] = e[i]
  BY Appending
<1>2. /\ \A i \in 1 .. Len(e) + 1 : IsEscaped(f, 1, i) <=> IsEscaped(e, 1, i)
      /\ IsEscaped(f, 1, Len(e) + 2)
  BY EscapesGrow DEF Sealed
<1> HIDE DEF f
<1>3. /\ Len(g) = Len(f) + 1 /\ g[Len(f) + 1] = "IAC"
      /\ \A i \in 1 .. Len(f) : g[i] = f[i]
  BY <1>1, Appending
<1>4. /\ \A i \in 1 .. Len(f) + 1 : IsEscaped(g, 1, i) <=> IsEscaped(f, 1, i)
      /\ IsEscaped(g, 1, Len(f) + 2) <=> ~IsEscaped(f, 1, Len(f) + 1)
  BY <1>1, EscapesGrow
<1> HIDE DEF g
<1>5. \A i \in 1 .. Len(e) : g[i] = e[i] /\ (IsEscaped(g, 1, i) <=> IsEscaped(e, 1, i))
  <2> TAKE i \in 1 .. Len(e)
  <2>1. i \in 1 .. Len(f) /\ i \in 1 .. Len(f) + 1 /\ i \in 1 .. Len(e) + 1
    BY <1>1
  <2>2. g[i] = f[i] /\ (IsEscaped(g, 1, i) <=> IsEscaped(f, 1, i))
    BY <1>3, <1>4, <2>1
  <2>3. f[i] = e[i] /\ (IsEscaped(f, 1, i) <=> IsEscaped(e, 1, i))
    BY <1>1, <1>2, <2>1
  <2> QED
    BY <2>2, <2>3
<1>6. Len(f) + 1 = Len(e) + 2 /\ Len(g) = Len(e) + 2 /\ Len(g) + 1 = Len(f) + 2
  BY <1>1, <1>3
<1>7. IsEscaped(f, 1, Len(f) + 1) /\ ~IsEscaped(g, 1, Len(g) + 1)
  BY <1>2, <1>4, <1>6
<1>8. g[Len(e) + 1] = "IAC" /\ g[Len(e) + 2] = "IAC"
  <2>1. Len(e) + 1 \in 1 .. Len(f) /\ Len(f) + 1 = Len(e) + 2
    BY <1>1
  <2> QED
    BY <1>1, <1>3, <2>1
<1>9. IsEscaped(g, 1, Len(e) + 2)
  <2>1. Len(e) + 2 \in 1 .. Len(f) + 1
    BY <1>1
  <2> QED
    BY <1>2, <1>4, <2>1
<1>10. \A i \in 1 .. Len(g) : g[i] = "IAC" /\ ~IsEscaped(g, 1, i) => i < Len(g) /\ g[i + 1] = "IAC"
  <2> SUFFICES ASSUME NEW i \in 1 .. Len(g), g[i] = "IAC", ~IsEscaped(g, 1, i)
               PROVE  i < Len(g) /\ g[i + 1] = "IAC"
    OBVIOUS
  <2>1. i \in 1 .. Len(e) \/ i = Len(e) + 1 \/ i = Len(e) + 2
    BY <1>1, <1>6
  <2>2. CASE i \in 1 .. Len(e)
    <3>1. e[i] = "IAC" /\ ~IsEscaped(e, 1, i)
      BY <1>5, <2>2
    <3>2. i < Len(e) /\ e[i + 1] = "IAC" /\ i + 1 \in 1 .. Len(e)
      BY <2>2, <3>1 DEF Sealed
    <3> QED
      BY <1>1, <1>5, <1>6, <3>2
  <2>3. CASE i = Len(e) + 1
    BY <1>1, <1>6, <1>8, <2>3
  <2>4. CASE i = Len(e) + 2
    BY <1>9, <2>4
  <2> QED
    BY <2>1, <2>2, <2>3, <2>4
<1>11. Sealed(g)
  BY <1>7, <1>10 DEF Sealed
<1> QED
  BY <1>11 DEF f, g

\* what stands for a byte of data
EscapeOf == [a \in Byte |-> IF a = "IAC" THEN <<"IAC", "IAC">> ELSE <<a>>]

LEMMA EscapeIsBytes == Makes(EscapeOf, Byte, Byte) /\ "IAC" \in Byte /\ "EOR" \in Byte
<1>1. "IAC" \in Byte /\ "EOR" \in Byte
  BY DEF Byte
<1>2. <<"IAC", "IAC">> \in Seq(Byte)
  BY <1>1
<1>3. \A a \in Byte : <<a>> \in Seq(Byte)
  OBVIOUS
<1>4. EscapeOf \in [Byte -> Seq(Byte)]
  BY <1>2, <1>3 DEF EscapeOf
<1> QED
  BY <1>1, <1>4 DEF Makes

LEMMA EscapedIsGathered ==
    ASSUME NEW x \in Seq(Byte)
    PROVE  Escaped(x) = Gather(EscapeOf, x)
<1>1. [i \in 1 .. Len(x) |-> IF x[i] = "IAC" THEN <<"IAC", "IAC">> ELSE <<x[i]>>]
        = [i \in 1 .. Len(x) |-> EscapeOf[x[i]]]
  BY DEF EscapeOf
<1> QED
  BY <1>1 DEF Escaped, Gather

LEMMA UnescapedNone == Unescaped(<<>>) = <<>>
<1>1. [i \in 1 .. Len(<<>>) |->
        IF <<>>[i] = "IAC" /\ IsEscaped(<<>>, 1, i) THEN <<>> ELSE <<<<>>[i]>>] = <<>>
  OBVIOUS
<1> QED
  BY <1>1, FlattenNone DEF Unescaped

\* Escaping leaves no IAC alone, and unescaping undoes it
LEMMA EscapesAreUndone ==
    ASSUME NEW x \in Seq(Byte)
    PROVE  Escaped(x) \in Seq(Byte) /\ Sealed(Escaped(x)) /\ Unescaped(Escaped(x)) = x
<1> DEFINE E(k) == Gather(EscapeOf, SubSeq(x, 1, k))
           P == {k \in 0 .. Len(x) : E(k) \in Seq(Byte) /\ Sealed(E(k)) /\ Unescaped(E(k)) = SubSeq(x, 1, k)}
<1>0. Len(x) \in Nat /\ SubSeq(x, 1, Len(x)) = x
  BY Beginning
<1>1. 0 \in P
  <2>1. SubSeq(x, 1, 0) = <<>>
    BY Beginning
  <2>2. E(0) = <<>>
    <3>1. Gather(EscapeOf, <<>>) = <<>>
      BY GatherNone
    <3> QED
      BY <2>1, <3>1
  <2>3. Sealed(<<>>)
    <3>1. ~IsEscaped(<<>>, 1, 1)
      BY FirstIsNotEscaped
    <3> QED
      BY <3>1 DEF Sealed
  <2>4. Unescaped(<<>>) = <<>> /\ <<>> \in Seq(Byte)
    BY UnescapedNone
  <2> HIDE DEF E
  <2>5. E(0) \in Seq(Byte) /\ Sealed(E(0)) /\ Unescaped(E(0)) = SubSeq(x, 1, 0)
    BY <2>1, <2>2, <2>3, <2>4
  <2> QED
    BY <1>0, <2>5
<1>2. \A k \in 1 .. Len(x) : k - 1 \in P => k \in P
  <2> SUFFICES ASSUME NEW k \in 1 .. Len(x), k - 1 \in P
               PROVE  k \in P
    OBVIOUS
  <2> DEFINE r == SubSeq(x, 1, k - 1)
             a == x[k]
             e == E(k - 1)
  <2>1. e \in Seq(Byte) /\ Sealed(e) /\ Unescaped(e) = r /\ e = Gather(EscapeOf, r)
    OBVIOUS
  <2> HIDE DEF P
  <2>2. SubSeq(x, 1, k) = Append(r, a) /\ a \in Byte /\ r \in Seq(Byte) /\ k \in 0 .. Len(x)
    BY <1>0, Beginning
  <2> HIDE DEF r, a, e
  <2>3. Gather(EscapeOf, Append(r, a)) = e \o EscapeOf[a]
    <3>1. r \in Seq(Byte) /\ a \in Byte /\ Makes(EscapeOf, Byte, Byte)
      BY <2>2, EscapeIsBytes
    <3>2. Gather(EscapeOf, Append(r, a)) = Gather(EscapeOf, r) \o EscapeOf[a]
      BY <3>1, GatherAppend
    <3> QED
      BY <2>1, <3>2
  <2>4. Append(r, a) = r \o <<a>>
    BY <2>2, Appending
  <2>5. CASE a # "IAC"
    <3>1. EscapeOf[a] = <<a>> /\ Append(e, a) = e \o <<a>> /\ Append(e, a) \in Seq(Byte)
      BY <2>1, <2>2, <2>5, Appending DEF EscapeOf
    <3>2. Unescaped(Append(e, a)) = r \o <<a>>
      BY <2>1, <2>2, <2>5, UnescapedGrows
    <3>3. Sealed(Append(e, a))
      BY <2>1, <2>2, <2>5, SealedPlain
    <3>4. E(k) = Append(e, a)
      BY <2>2, <2>3, <3>1
    <3> HIDE DEF E
    <3> QED
      BY <2>2, <2>4, <3>1, <3>2, <3>3, <3>4 DEF P
  <2>6. CASE a = "IAC"
    <3> DEFINE f == Append(e, "IAC")
               g == Append(f, "IAC")
    <3>0. "IAC" \in Byte /\ f \in Seq(Byte) /\ Len(f) = Len(e) + 1 /\ Len(e) \in Nat
      BY <2>1, EscapeIsBytes, Appending
    <3>1. g \in Seq(Byte)
      BY <3>0, Appending
    <3>2. e \o <<"IAC", "IAC">> = g
      BY <2>1, <3>0
    <3>3. EscapeOf[a] = <<"IAC", "IAC">>
      BY <2>2, <2>6 DEF EscapeOf
    <3>4. Sealed(g)
      BY <2>1, <3>0, SealedPair
    <3>5. ~IsEscaped(e, 1, Len(e) + 1)
      BY <2>1 DEF Sealed
    <3>6. IsEscaped(f, 1, Len(f) + 1)
      <4>1. IsEscaped(Append(e, "IAC"), 1, Len(e) + 2)
        BY <2>1, <3>0, <3>5, EscapesGrow
      <4>2. Len(f) + 1 = Len(e) + 2
        BY <3>0
      <4> QED
        BY <4>1, <4>2
    <3>7. Unescaped(f) = r \o <<"IAC">>
      BY <2>1, <3>0, <3>5, UnescapedGrows
    <3> HIDE DEF f
    <3>8. Unescaped(g) = Unescaped(f) \o <<>> /\ Unescaped(f) \in Seq(Byte)
      BY <3>0, <3>6, UnescapedGrows
    <3> HIDE DEF g
    <3>9. Unescaped(g) = Unescaped(f)
      BY <3>8, Joining
    <3>10. E(k) = g
      BY <2>2, <2>3, <3>2, <3>3
    <3> HIDE DEF E
    <3>11. Unescaped(E(k)) = SubSeq(x, 1, k)
      BY <2>2, <2>4, <2>6, <3>7, <3>9, <3>10
    <3> QED
      BY <2>2, <3>1, <3>4, <3>10, <3>11 DEF P
  <2> QED
    BY <2>5, <2>6
<1>3. \A k \in 0 .. Len(x) : k \in P
  <2> HIDE DEF P
  <2> QED
    BY <1>0, <1>1, <1>2, UpTo
<1>4. Len(x) \in P
  <2> HIDE DEF P
  <2> QED
    BY <1>0, <1>3
<1>5. E(Len(x)) = Escaped(x)
  BY <1>0, EscapedIsGathered
<1> HIDE DEF E
<1> QED
  BY <1>0, <1>4, <1>5

-----------------------------------------------------------------------------
(* Ends of records and of subnegotiations.                                 *)

\* b is the beginning of w
Begins(b, w) ==
    /\ Len(b) \in Nat /\ Len(w) \in Nat /\ Len(b) <= Len(w)
    /\ \A i \in 1 .. Len(b) : b[i] = w[i]

\* w is closed by a mark, that ends it
Closed(w, from, mark) ==
    /\ Len(w) \in Nat /\ from \in Nat \ {0} /\ from < Len(w)
    /\ Ends(w, from, mark) = {Len(w) - 1}

LEMMA SameEnds ==
    ASSUME NEW b, NEW w, Begins(b, w), NEW from \in Nat \ {0}, NEW mark, NEW i \in from .. Len(b) - 1
    PROVE  i \in Ends(b, from, mark) <=> i \in Ends(w, from, mark)
<1>1. i \in 1 .. Len(b) /\ i + 1 \in 1 .. Len(b) /\ i \in Nat /\ i \in from .. Len(w) - 1
  BY DEF Begins
<1>2. b[i] = w[i] /\ b[i + 1] = w[i + 1]
  BY <1>1 DEF Begins
<1>3. IsEscaped(b, from, i) <=> IsEscaped(w, from, i)
  <2>1. \A m \in from .. i - 1 : b[m] = w[m]
    <3> TAKE m \in from .. i - 1
    <3>1. m \in 1 .. Len(b)
      BY <1>1 DEF Begins
    <3> QED
      BY <3>1 DEF Begins
  <2> QED
    BY <1>1, <2>1, SameIsEscaped
<1> QED
  BY <1>1, <1>2, <1>3 DEF Ends

LEMMA EndIsFound ==
    ASSUME NEW b, NEW w, Begins(w, b), NEW from, NEW mark, Closed(w, from, mark)
    PROVE  Ends(b, from, mark) # {} /\ Min(Ends(b, from, mark)) = Len(w) - 1
<1> DEFINE T == Ends(b, from, mark)
           n == Len(w) - 1
<1>1. from \in Nat \ {0} /\ n \in from .. Len(w) - 1 /\ n \in Nat /\ Len(w) \in Nat
  BY DEF Closed
<1>2. \A i \in from .. Len(w) - 1 : i \in T <=> i = n
  <2> TAKE i \in from .. Len(w) - 1
  <2>1. i \in Ends(w, from, mark) <=> i = n
    BY DEF Closed
  <2>2. i \in Ends(w, from, mark) <=> i \in Ends(b, from, mark)
    BY <1>1, SameEnds
  <2> QED
    BY <2>1, <2>2
<1>3. T \subseteq from .. Len(b) - 1 /\ T \subseteq Nat
  <2>1. T \subseteq from .. Len(b) - 1
    BY DEF Ends
  <2>2. Len(b) \in Nat
    BY DEF Begins
  <2> HIDE DEF T
  <2> QED
    BY <1>1, <2>1, <2>2
<1>4. n \in T
  BY <1>1, <1>2
<1> HIDE DEF T
<1>5. Min(T) \in T /\ Min(T) <= n
  BY <1>3, <1>4, MinOfNumbers
<1>6. Min(T) \in from .. Len(w) - 1
  <2> DEFINE m == Min(T)
  <2>2. m \in from .. Len(b) - 1 /\ m \in Nat
    BY <1>3, <1>5
  <2> HIDE DEF m
  <2>1. m \in Nat /\ m >= from
    BY <1>1, <2>2
  <2> QED
    BY <1>1, <1>5, <2>1 DEF m
<1>7. Min(T) = n
  BY <1>2, <1>5, <1>6
<1> QED
  BY <1>4, <1>7 DEF T

LEMMA EndIsNotThere ==
    ASSUME NEW b, NEW w, Begins(b, w), Len(b) < Len(w), NEW from, NEW mark, Closed(w, from, mark)
    PROVE  Ends(b, from, mark) = {}
<1> SUFFICES ASSUME NEW i \in Ends(b, from, mark) PROVE FALSE
  OBVIOUS
<1>1. i \in from .. Len(b) - 1 /\ from \in Nat \ {0}
  BY DEF Ends, Closed
<1>2. i \in Ends(w, from, mark)
  BY <1>1, SameEnds
<1>3. i = Len(w) - 1
  BY <1>2 DEF Closed
<1> QED
  BY <1>1, <1>3 DEF Begins

Mark == <<"IAC", "EOR">>

\* A record ends where its data, escaped, ends
LEMMA RecordEnds ==
    ASSUME InRecords, NEW e \in Seq(Byte), Sealed(e)
    PROVE  /\ e \o Mark \in Seq(Byte) /\ Len(e \o Mark) = Len(e) + 2 /\ Len(e) \in Nat
           /\ Begins(e, e \o Mark)
           /\ (e \o Mark)[Len(e) + 1] = "IAC" /\ (e \o Mark)[Len(e) + 2] = "EOR"
           /\ Closed(e \o Mark, 1, "EOR")
<1> DEFINE w == e \o Mark
           n == Len(e)
<1>0. Mark \in Seq(Byte) /\ Len(Mark) = 2 /\ Mark[1] = "IAC" /\ Mark[2] = "EOR"
  BY EscapeIsBytes DEF Mark
<1>1. /\ n \in Nat /\ w \in Seq(Byte) /\ Len(w) = n + 2 /\ \A i \in 1 .. n : w[i] = e[i]
      /\ w[n + 1] = "IAC" /\ w[n + 2] = "EOR"
  <2>0. Mark \in Seq(Byte)
    BY <1>0
  <2>1. /\ Len(e) \in Nat /\ w \in Seq(Byte) /\ Len(w) = Len(e) + Len(Mark)
        /\ \A i \in 1 .. Len(e) : w[i] = e[i]
        /\ \A i \in 1 .. Len(Mark) : w[Len(e) + i] = Mark[i]
    BY <2>0, JoinedPlaces
  <2>2. 1 \in 1 .. Len(Mark) /\ 2 \in 1 .. Len(Mark)
    BY <1>0
  <2>3. w[Len(e) + 1] = Mark[1] /\ w[Len(e) + 2] = Mark[2]
    BY <2>1, <2>2
  <2> HIDE DEF w
  <2> QED
    BY <1>0, <2>1, <2>3
<1> HIDE DEF w, n
<1>2. \A i \in 1 .. n + 1 : IsEscaped(w, 1, i) <=> IsEscaped(e, 1, i)
  <2> TAKE i \in 1 .. n + 1
  <2>1. i \in Nat /\ \A m \in 1 .. i - 1 : w[m] = e[m]
    BY <1>1
  <2> QED
    BY <2>1, SameIsEscaped
<1>3. \A i \in 1 .. n + 1 : i \in Ends(w, 1, "EOR") <=> i = n + 1
  <2> TAKE i \in 1 .. n + 1
  <2>1. i \in Ends(w, 1, "EOR") <=> w[i] = "IAC" /\ w[i + 1] = "EOR" /\ ~IsEscaped(w, 1, i)
    BY <1>1 DEF Ends
  <2>2. CASE i = n + 1
    <3>1. ~IsEscaped(e, 1, n + 1)
      BY DEF Sealed, n
    <3>2. n + 1 \in 1 .. n + 1 /\ n + 1 + 1 = n + 2
      BY <1>1
    <3> QED
      BY <1>1, <1>2, <2>1, <2>2, <3>1, <3>2
  <2>3. CASE i # n + 1
    <3> SUFFICES ASSUME i \in Ends(w, 1, "EOR") PROVE FALSE
      BY <2>3
    <3>1. i \in 1 .. n /\ w[i] = e[i]
      BY <1>1, <2>3
    <3>2. e[i] = "IAC" /\ ~IsEscaped(e, 1, i)
      BY <1>2, <2>1, <3>1
    <3>3. i < n /\ e[i + 1] = "IAC"
      BY <3>1, <3>2 DEF Sealed, n
    <3>4. w[i + 1] = "IAC"
      BY <1>1, <3>1, <3>3
    <3> QED
      BY <2>1, <3>4
  <2> QED
    BY <2>2, <2>3
<1>4. Ends(w, 1, "EOR") = {n + 1}
  <2>1. \A i \in Ends(w, 1, "EOR") : i \in 1 .. n + 1
    BY <1>1 DEF Ends
  <2>2. n + 1 \in 1 .. n + 1
    BY <1>1
  <2> QED
    BY <1>3, <2>1, <2>2
<1>5. Closed(w, 1, "EOR")
  BY <1>1, <1>4 DEF Closed
<1>6. Begins(e, w)
  BY <1>1 DEF Begins, n
<1> QED
  BY <1>1, <1>5, <1>6 DEF w, n

\* A record starts with an escape, or not with an IAC
LEMMA SealedStart ==
    ASSUME NEW e \in Seq(Byte), Sealed(e), e # <<>>
    PROVE  Len(e) >= 1 /\ (e[1] = "IAC" => Len(e) >= 2 /\ e[2] = "IAC")
<1>1. Len(e) \in Nat /\ Len(e) >= 1 /\ 1 \in 1 .. Len(e)
  OBVIOUS
<1>2. ~IsEscaped(e, 1, 1)
  BY FirstIsNotEscaped
<1> QED
  BY <1>1, <1>2 DEF Sealed

\* What holds no IAC is its own escape
LEMMA PlainIsEscaped ==
    ASSUME NEW x \in Seq(Byte), \A i \in 1 .. Len(x) : x[i] # "IAC"
    PROVE  Escaped(x) = x
<1>1. \A i \in 1 .. Len(x) : EscapeOf[x[i]] = <<x[i]>>
  <2> TAKE i \in 1 .. Len(x)
  <2>1. x[i] \in Byte /\ x[i] # "IAC"
    OBVIOUS
  <2> QED
    BY <2>1 DEF EscapeOf
<1>2. Gather(EscapeOf, x) = x
  BY <1>1, EscapeIsBytes, GatherSingles
<1> QED
  BY <1>2, EscapedIsGathered

-----------------------------------------------------------------------------
(* The connection, and what it takes from its buffer at a turn.            *)

Letter == Byte \cup Nat \cup Verbs \cup
    {"", "extended", "plain", "SB", "TTYPE", "IS", "NAWS", "SIZE", "NEW_ENVIRON", "TN3270E",
     "DEVICE_TYPE", "FUNCTIONS", "REQUEST", "HEADER", "SENT", "TIMING_MARK"}
Message == Seq(Letter)
Datum == Byte \cup Seq(Byte)
Item == Seq(Byte)

Conn == [
    sock : {"none", "dialing", "up"}, option : BOOLEAN, buf : Seq(Byte),
    data : Seq(Datum), commands : Seq(Item), out : Seq(Message),
    envReplies : Nat, device : {"", "extended", "plain"}, headers : BOOLEAN, sendSeq : Nat,
    echoes : BOOLEAN, xoff : BOOLEAN, sendQueue : Seq(Message)]

LEMMA ConnBuf ==
    ASSUME NEW d \in Conn, NEW r \in Seq(Byte)
    PROVE  [d EXCEPT !.buf = r] \in Conn /\ [d EXCEPT !.buf = r].buf = r
<1> DEFINE T == Seq(Byte)
           M == Seq(Message)
           I == Seq(Item)
           D == Seq(Datum)
<1> HIDE DEF T, M, I, D
<1>1. r \in T
  BY DEF T
<1> QED
  BY <1>1 DEF Conn, T, M, I, D

LEMMA Cutting ==
    ASSUME NEW T, NEW w \in Seq(T), NEW rest \in Seq(T)
    PROVE  /\ Begins(w, w \o rest) /\ Len(w \o rest) = Len(w) + Len(rest)
           /\ Len(w) \in Nat /\ Len(rest) \in Nat
           /\ SubSeq(w \o rest, Len(w) + 1, Len(w \o rest)) = rest
           /\ \A k \in 0 .. Len(w) : SubSeq(w \o rest, 1, k) = SubSeq(w, 1, k)
           /\ SubSeq(w, 1, Len(w)) = w
           /\ \A j, k \in 1 .. Len(w) : SubSeq(w \o rest, j, k) = SubSeq(w, j, k)
<1>1. Begins(w, w \o rest)
  BY DEF Begins
<1>2. SubSeq(w \o rest, Len(w) + 1, Len(w \o rest)) = rest
  OBVIOUS
<1> QED
  BY <1>1, <1>2

\* d, as far as its buffer goes: w, then rest
HasAhead(d, w, rest) == d \in Conn /\ w \in Seq(Byte) /\ rest \in Seq(Byte) /\ d.buf = w \o rest

LEMMA Ahead ==
    ASSUME NEW d, NEW w, NEW rest, HasAhead(d, w, rest)
    PROVE  /\ Begins(w, d.buf) /\ Len(d.buf) = Len(w) + Len(rest) /\ Len(w) \in Nat /\ Len(rest) \in Nat
           /\ \A i \in 1 .. Len(w) : d.buf[i] = w[i]
           /\ SubSeq(d.buf, Len(w) + 1, Len(d.buf)) = rest
           /\ From(d, Len(w) + 1) = [d EXCEPT !.buf = rest]
<1>1. /\ w \in Seq(Byte) /\ rest \in Seq(Byte) /\ d.buf = w \o rest
  BY DEF HasAhead
<1>2. /\ Begins(w, w \o rest) /\ Len(w \o rest) = Len(w) + Len(rest) /\ Len(w) \in Nat /\ Len(rest) \in Nat
      /\ SubSeq(w \o rest, Len(w) + 1, Len(w \o rest)) = rest
  BY <1>1, Cutting
<1>3. From(d, Len(w) + 1) = [d EXCEPT !.buf = rest]
  BY <1>1, <1>2 DEF From
<1> QED
  BY <1>1, <1>2, <1>3 DEF Begins

LEMMA TakeNothing ==
    ASSUME NEW d, NEW x, NEW rest, HasAhead(d, <<"IAC", x>>, rest), x \notin Verbs \cup {"SB", "IAC"}
    PROVE  Take(d) = [d EXCEPT !.buf = rest]
<1> DEFINE w == <<"IAC", x>>
<1>1. Len(w) = 2 /\ w[1] = "IAC" /\ w[2] = x
  OBVIOUS
<1> HIDE DEF w
<1>2. /\ Len(d.buf) = 2 + Len(rest) /\ Len(rest) \in Nat /\ d.buf[1] = "IAC" /\ d.buf[2] = x
      /\ From(d, 3) = [d EXCEPT !.buf = rest]
  <2>0. HasAhead(d, w, rest)
    BY DEF w
  <2>1. Len(d.buf) = Len(w) + Len(rest) /\ Len(rest) \in Nat /\ From(d, Len(w) + 1) = [d EXCEPT !.buf = rest]
    BY <2>0, Ahead
  <2>2. \A i \in 1 .. Len(w) : d.buf[i] = w[i]
    BY <2>0, Ahead
  <2> QED
    BY <1>1, <2>1, <2>2
<1>3. d.buf # <<>> /\ Len(d.buf) >= 2
  BY <1>2
<1>4. Take(d) = TakeCommand(d)
  BY <1>2, <1>3 DEF Take
<1>5. TakeCommand(d) = From(d, 3)
  BY <1>2, <1>3 DEF TakeCommand
<1> QED
  BY <1>2, <1>4, <1>5

LEMMA TakeVerb ==
    ASSUME NEW d, NEW verb \in Verbs, NEW option, NEW rest, HasAhead(d, <<"IAC", verb, option>>, rest)
    PROVE  Take(d) = handleNegotiation(
                        [[d EXCEPT !.buf = rest] EXCEPT !.commands = Append(@, <<verb, option>>)],
                        verb, option)
<1> DEFINE w == <<"IAC", verb, option>>
<1>1. Len(w) = 3 /\ w[1] = "IAC" /\ w[2] = verb /\ w[3] = option
  OBVIOUS
<1> HIDE DEF w
<1>2. /\ Len(d.buf) = 3 + Len(rest) /\ Len(rest) \in Nat
      /\ d.buf[1] = "IAC" /\ d.buf[2] = verb /\ d.buf[3] = option
      /\ From(d, 4) = [d EXCEPT !.buf = rest]
  <2>0. HasAhead(d, w, rest)
    BY DEF w
  <2>1. Len(d.buf) = Len(w) + Len(rest) /\ Len(rest) \in Nat /\ From(d, Len(w) + 1) = [d EXCEPT !.buf = rest]
    BY <2>0, Ahead
  <2>2. \A i \in 1 .. Len(w) : d.buf[i] = w[i]
    BY <2>0, Ahead
  <2> QED
    BY <1>1, <2>1, <2>2
<1>3. d.buf # <<>> /\ Len(d.buf) >= 3 /\ Len(d.buf) >= 2 /\ verb # "IAC" /\ verb # "SB"
  BY <1>2 DEF Verbs
<1>4. Take(d) = TakeCommand(d)
  BY <1>2, <1>3 DEF Take
<1>5. TakeCommand(d) = handleNegotiation(
                        [From(d, 4) EXCEPT !.commands = Append(@, <<verb, option>>)],
                        verb, option)
  BY <1>2, <1>3 DEF TakeCommand
<1> QED
  BY <1>2, <1>4, <1>5

\* w says item, a subnegotiation
IsSub(item, w) ==
    /\ item \in Seq(Byte) /\ Len(item) >= 2 /\ item[1] = "SB"
    /\ w = <<"IAC">> \o item \o <<"IAC", "SE">> /\ Closed(w, 3, "SE")

LEMMA TakeSub ==
    ASSUME NEW d, NEW item, NEW w, IsSub(item, w), NEW rest, HasAhead(d, w, rest)
    PROVE  Take(d) = handleSubnegotiation(
                        [[d EXCEPT !.buf = rest] EXCEPT !.commands = Append(@, item)], Tail(item))
<1> DEFINE n == Len(item)
           end == n + 2
           b == d.buf
<1>0. "IAC" \in Byte /\ "SE" \in Byte
  BY DEF Byte
<1>1. Len(w) = n + 3 /\ w[1] = "IAC" /\ \A i \in 1 .. n : w[i + 1] = item[i]
  BY <1>0 DEF IsSub
<1>2. n \in Nat /\ n >= 2 /\ w[2] = "SB" /\ item \in Seq(Byte) /\ Closed(w, 3, "SE")
  <2>1. item \in Seq(Byte) /\ Len(item) >= 2 /\ item[1] = "SB" /\ Closed(w, 3, "SE")
    BY DEF IsSub
  <2> QED
    BY <1>1, <2>1
<1> HIDE DEF n
<1>3. /\ Len(b) = n + 3 + Len(rest) /\ Len(rest) \in Nat /\ Begins(w, b)
      /\ b[1] = "IAC" /\ b[2] = "SB" /\ \A i \in 1 .. n : b[i + 1] = item[i]
      /\ From(d, end + 2) = [d EXCEPT !.buf = rest]
  <2>1. /\ Begins(w, b) /\ Len(b) = Len(w) + Len(rest) /\ Len(rest) \in Nat
        /\ From(d, Len(w) + 1) = [d EXCEPT !.buf = rest]
    BY Ahead
  <2>4. \A i \in 1 .. Len(w) : b[i] = w[i]
    BY Ahead
  <2>2. Len(w) + 1 = end + 2 /\ \A i \in 1 .. n : i + 1 \in 1 .. Len(w)
    BY <1>1, <1>2
  <2>3. 1 \in 1 .. Len(w) /\ 2 \in 1 .. Len(w)
    BY <1>1, <1>2
  <2> QED
    BY <1>1, <1>2, <2>1, <2>2, <2>3, <2>4
<1>4. Ends(b, 3, "SE") # {} /\ Min(Ends(b, 3, "SE")) = end
  <2>1. Ends(b, 3, "SE") # {} /\ Min(Ends(b, 3, "SE")) = Len(w) - 1
    <3>1. Begins(w, b)
      BY <1>3
    <3> HIDE DEF b
    <3> QED
      BY <1>2, <3>1, EndIsFound
  <2> QED
    BY <1>1, <1>2, <2>1
<1>5. SubSeq(b, 3, end - 1) = Tail(item)
  <2> DEFINE s == SubSeq(b, 3, end - 1)
             t == Tail(item)
  <2>0. b \in Seq(Byte)
    BY DEF HasAhead, Conn
  <2>1. s \in Seq(Byte) /\ Len(s) = n - 1 /\ \A i \in 1 .. n - 1 : s[i] = b[i + 2]
    <3>3. Len(b) = n + 3 + Len(rest) /\ Len(rest) \in Nat /\ n \in Nat /\ n >= 2
      BY <1>2, <1>3
    <3>1. 3 \in Nat /\ end - 1 \in Nat /\ end - 1 <= Len(b) /\ 3 <= end
      BY <3>3
    <3>2. end - 1 - 3 + 1 = n - 1
      BY <1>2
    <3> HIDE DEF b, end
    <3> QED
      BY <1>2, <2>0, <3>1, <3>2
  <2>2. t \in Seq(Byte) /\ Len(t) = n - 1 /\ \A i \in 1 .. n - 1 : t[i] = item[i + 1]
    BY <1>2 DEF n
  <2>3. \A i \in 1 .. n - 1 : s[i] = t[i]
    <3> TAKE i \in 1 .. n - 1
    <3>1. i + 1 \in 1 .. n /\ i + 1 + 1 = i + 2
      BY <1>2
    <3>2. b[i + 1 + 1] = item[i + 1]
      BY <1>3, <3>1
    <3> QED
      BY <2>1, <2>2, <3>1, <3>2
  <2> HIDE DEF s, t
  <2>4. s = t
    BY <1>2, <2>1, <2>2, <2>3
  <2> QED
    BY <2>4 DEF s, t
<1>6. <<"SB">> \o Tail(item) = item
  <2>1. item # <<>> /\ item \in Seq(Byte)
    BY <1>2 DEF n
  <2>2. item = <<item[1]>> \o Tail(item) /\ item[1] = "SB"
    BY <2>1, Taking DEF IsSub
  <2> QED
    BY <2>2
<1>7. b # <<>> /\ Len(b) >= 2 /\ "SB" \notin Verbs /\ "SB" # "IAC"
  BY <1>2, <1>3 DEF Verbs
<1> HIDE DEF end
<1>8. Take(d) = TakeCommand(d)
  BY <1>3, <1>7 DEF Take
<1>10. Len(d.buf) >= 2 /\ d.buf[2] = "SB" /\ Ends(d.buf, 3, "SE") # {} /\ Min(Ends(d.buf, 3, "SE")) = end
       /\ SubSeq(d.buf, 3, end - 1) = Tail(item)
  BY <1>3, <1>4, <1>5, <1>7
<1> HIDE DEF b
<1>9. TakeCommand(d) = handleSubnegotiation(
                        [From(d, end + 2) EXCEPT !.commands = Append(@, <<"SB">> \o Tail(item))],
                        Tail(item))
  <2>1. TakeCommand(d) =
           LET m == Min(Ends(d.buf, 3, "SE"))
               sub == SubSeq(d.buf, 3, m - 1)
           IN  handleSubnegotiation(
                  [From(d, m + 2) EXCEPT !.commands = Append(@, <<"SB">> \o sub)], sub)
    BY <1>7, <1>10 DEF TakeCommand
  <2> QED
    BY <1>10, <2>1
<1> QED
  BY <1>3, <1>6, <1>8, <1>9

LEMMA TakeRecordThere ==
    ASSUME InRecords, NEW x \in Seq(Byte), x # <<>>, NEW d, NEW rest,
           HasAhead(d, Escaped(x) \o Mark, rest)
    PROVE  Take(d) = onRecord([d EXCEPT !.buf = rest], x)
<1> DEFINE e == Escaped(x)
           w == e \o Mark
           b == d.buf
<1>1. e \in Seq(Byte) /\ Sealed(e) /\ Unescaped(e) = x /\ e # <<>>
  <2>1. e \in Seq(Byte) /\ Sealed(e) /\ Unescaped(e) = x
    BY EscapesAreUndone
  <2>2. Unescaped(<<>>) = <<>>
    BY UnescapedNone
  <2> HIDE DEF e
  <2> QED
    BY <2>1, <2>2
<1>2. HasAhead(d, w, rest)
  OBVIOUS
<1> HIDE DEF e
<1>3. /\ Len(w) = Len(e) + 2 /\ Len(e) \in Nat /\ Begins(e, w) /\ Closed(w, 1, "EOR")
      /\ w[Len(e) + 1] = "IAC"
  BY <1>1, RecordEnds
<1> HIDE DEF w
<1>4. Len(e) >= 1 /\ (e[1] = "IAC" => Len(e) >= 2 /\ e[2] = "IAC")
  BY <1>1, SealedStart
<1>5. /\ Begins(w, b) /\ Len(b) = Len(w) + Len(rest) /\ Len(rest) \in Nat
      /\ From(d, Len(w) + 1) = [d EXCEPT !.buf = rest]
  BY <1>2, Ahead
<1>6. \A i \in 1 .. Len(e) : b[i] = e[i]
  <2> TAKE i \in 1 .. Len(e)
  <2>1. w[i] = e[i]
    BY <1>3 DEF Begins
  <2>2. i \in 1 .. Len(w)
    BY <1>3
  <2>3. b[i] = w[i]
    BY <1>5, <2>2 DEF Begins
  <2> QED
    BY <2>1, <2>3
<1>7. /\ b # <<>> /\ Len(b) >= 1
      /\ b[1] = "IAC" => Len(b) >= 2 /\ b[2] = "IAC"
  <2>1. Len(b) >= Len(e) /\ Len(b) >= 1
    BY <1>3, <1>4, <1>5
  <2>2. 1 \in 1 .. Len(e) /\ (Len(e) >= 2 => 2 \in 1 .. Len(e))
    BY <1>3, <1>4
  <2>3. b[1] = e[1] /\ (Len(e) >= 2 => b[2] = e[2])
    BY <1>6, <2>2
  <2> HIDE DEF b
  <2>4. b # <<>>
    BY <2>1
  <2> QED
    BY <1>3, <1>4, <2>1, <2>3, <2>4
<1>8. Take(d) = TakeRecord(d)
  BY <1>7 DEF Take
<1>9. Ends(b, 1, "EOR") # {} /\ Min(Ends(b, 1, "EOR")) = Len(e) + 1
  <2>1. Begins(w, b) /\ Closed(w, 1, "EOR")
    BY <1>3, <1>5
  <2>2. Ends(b, 1, "EOR") # {} /\ Min(Ends(b, 1, "EOR")) = Len(w) - 1
    <3> HIDE DEF b
    <3> QED
      BY <2>1, EndIsFound
  <2> QED
    BY <1>3, <2>2
<1>10. SubSeq(b, 1, Len(e)) = e
  <2>1. b \in Seq(Byte)
    BY <1>2 DEF HasAhead, Conn
  <2>2. Len(e) <= Len(b)
    BY <1>3, <1>5
  <2> HIDE DEF b
  <2>3. SubSeq(b, 1, Len(e)) \in Seq(Byte) /\ Len(SubSeq(b, 1, Len(e))) = Len(e)
        /\ \A i \in 1 .. Len(e) : SubSeq(b, 1, Len(e))[i] = b[i]
    BY <1>3, <2>1, <2>2
  <2> QED
    BY <1>1, <1>6, <2>3
<1>11. TakeRecord(d) = onRecord(From(d, Len(e) + 3), Unescaped(SubSeq(b, 1, Len(e))))
  <2>1. Len(e) + 1 + 2 = Len(e) + 3 /\ Len(e) + 1 - 1 = Len(e)
    BY <1>3
  <2>2. TakeRecord(d) = onRecord(From(d, Min(Ends(b, 1, "EOR")) + 2),
                                 Unescaped(SubSeq(b, 1, Min(Ends(b, 1, "EOR")) - 1)))
    BY <1>9 DEF TakeRecord
  <2> QED
    BY <1>9, <2>1, <2>2
<1>12. Len(e) + 3 = Len(w) + 1
  BY <1>3
<1> HIDE DEF b
<1> QED
  BY <1>1, <1>5, <1>8, <1>10, <1>11, <1>12

LEMMA TakeTextThere ==
    ASSUME ~InRecords, NEW x \in Byte, NEW d, NEW rest, HasAhead(d, EscapeOf[x], rest),
           kind = "hp6530" => x \notin {"DC1", "DC3"}
    PROVE  Take(d) = [[d EXCEPT !.buf = rest] EXCEPT !.data = Append(@, x)]
<1> DEFINE w == EscapeOf[x]
           b == d.buf
           f == [d EXCEPT !.buf = rest]
<1>0. w = IF x = "IAC" THEN <<"IAC", "IAC">> ELSE <<x>>
  BY DEF EscapeOf
<1> HIDE DEF w
<1>1. HasAhead(d, w, rest)
  BY DEF w
<1>2. b \in Seq(Byte) /\ d \in Conn
  BY <1>1 DEF HasAhead, Conn
<1>3. Len(b) = Len(w) + Len(rest) /\ Len(rest) \in Nat /\ From(d, Len(w) + 1) = f
  BY <1>1, Ahead
<1>4. \A i \in 1 .. Len(w) : b[i] = w[i]
  BY <1>1, Ahead
<1>5. ASSUME NEW g, g.buf # <<>>, Head(g.buf) = x, From(g, 2) = f
      PROVE  TakeText(g) = [f EXCEPT !.data = Append(@, x)]
  <2> HIDE DEF f, w, b
  <2> QED
    BY <1>5 DEF TakeText
<1>6. CASE x # "IAC"
  <2>1. Len(w) = 1 /\ w[1] = x
    BY <1>0, <1>6
  <2>2. b # <<>> /\ b[1] = x /\ Head(b) = x /\ From(d, 2) = f
    BY <1>2, <1>3, <1>4, <2>1
  <2>3. Take(d) = TakeText(d)
    BY <1>6, <2>2 DEF Take
  <2> QED
    BY <1>5, <2>2, <2>3
<1>7. CASE x = "IAC"
  <2>1. Len(w) = 2 /\ w[1] = x /\ w[2] = x
    BY <1>0, <1>7
  <2>2. b # <<>> /\ Len(b) >= 2 /\ b[1] = x /\ b[2] = x /\ From(d, 3) = f
    BY <1>2, <1>3, <1>4, <2>1
  <2>3. Take(d) = TakeText(From(d, 2))
    BY <1>7, <2>2 DEF Take
  <2> DEFINE g == From(d, 2)
  <2>7. SubSeq(b, 2, Len(b)) \in Seq(Byte)
    BY <1>2
  <2>4. g.buf = SubSeq(b, 2, Len(b)) /\ g \in Conn
    BY <1>2, <2>7, ConnBuf DEF From
  <2>5. g.buf # <<>> /\ Head(g.buf) = x
    BY <1>2, <2>2, <2>4
  <2>6. From(g, 2) = f
    <3>1. SubSeq(g.buf, 2, Len(g.buf)) = SubSeq(b, 3, Len(b))
      BY <1>2, <2>2, <2>4
    <3>2. From(g, 2) = [d EXCEPT !.buf = SubSeq(b, 3, Len(b))]
      BY <1>2, <3>1 DEF From, Conn
    <3>3. From(d, 3) = [d EXCEPT !.buf = SubSeq(b, 3, Len(b))]
      BY DEF From
    <3> QED
      BY <2>2, <3>2, <3>3
  <2> HIDE DEF g
  <2> QED
    BY <1>5, <2>3, <2>5, <2>6 DEF g
<1> QED
  BY <1>6, <1>7

LEMMA TakeFlow ==
    ASSUME kind = "hp6530", NEW x \in {"DC1", "DC3"}, NEW d, NEW rest, HasAhead(d, <<x>>, rest)
    PROVE  Take(d) = IF x = "DC3" THEN [[d EXCEPT !.buf = rest] EXCEPT !.xoff = TRUE]
                     ELSE flushSendQueue([d EXCEPT !.buf = rest])
<1> DEFINE w == <<x>>
           b == d.buf
<1>0. Len(w) = 1 /\ w[1] = x
  OBVIOUS
<1> HIDE DEF w
<1>1. HasAhead(d, w, rest)
  BY DEF w
<1>2. b \in Seq(Byte) /\ d \in Conn
  BY <1>1 DEF HasAhead, Conn
<1>3. Len(b) = Len(w) + Len(rest) /\ Len(rest) \in Nat /\ From(d, Len(w) + 1) = [d EXCEPT !.buf = rest]
  BY <1>1, Ahead
<1>4. \A i \in 1 .. Len(w) : b[i] = w[i]
  BY <1>1, Ahead
<1>5. b # <<>> /\ b[1] = x /\ Head(b) = x /\ From(d, 2) = [d EXCEPT !.buf = rest] /\ x # "IAC" /\ ~InRecords
  BY <1>0, <1>2, <1>3, <1>4 DEF InRecords, RecordKinds
<1>6. Take(d) = TakeText(d)
  BY <1>5 DEF Take
<1> QED
  BY <1>5, <1>6 DEF TakeText

\* d has some of w in its buffer, and w will not be all there
HasPart(d, w) == d \in Conn /\ Begins(d.buf, w) /\ Len(d.buf) < Len(w)

LEMMA Waits ==
    ASSUME NEW d, NEW w, HasPart(d, w)
    PROVE  /\ d.buf \in Seq(Byte) /\ Len(d.buf) \in Nat /\ Len(d.buf) < Len(w) /\ Len(w) \in Nat
           /\ \A i \in 1 .. Len(d.buf) : d.buf[i] = w[i]
           /\ d.buf = <<>> => Take(d) = d
           /\ d.buf # <<>> => Len(d.buf) >= 1 /\ d.buf[1] = w[1]
           /\ Len(d.buf) >= 2 => d.buf[2] = w[2]
           /\ d.buf # <<>> /\ w[1] = "IAC" /\ Len(d.buf) < 2 => Take(d) = d
<1> DEFINE b == d.buf
<1>1. b \in Seq(Byte)
  BY DEF HasPart, Conn
<1>2. Begins(b, w) /\ Len(b) < Len(w)
  BY DEF HasPart
<1>3. Len(b) \in Nat /\ Len(w) \in Nat /\ \A i \in 1 .. Len(b) : b[i] = w[i]
  BY <1>2 DEF Begins
<1>4. b = <<>> => Take(d) = d
  BY DEF Take
<1>5. b # <<>> => Len(b) >= 1
  BY <1>1
<1>6. Len(b) >= 1 => b[1] = w[1]
  BY <1>3
<1>7. Len(b) >= 2 => b[2] = w[2]
  BY <1>3
<1>8. ASSUME b # <<>>, w[1] = "IAC", Len(b) < 2 PROVE Take(d) = d
  <2>1. b[1] = "IAC" /\ ~(Len(b) >= 2)
    BY <1>3, <1>5, <1>6, <1>8
  <2>2. Take(d) = TakeCommand(d)
    BY <2>1, <1>8 DEF Take
  <2>3. TakeCommand(d) = d
    BY <1>8 DEF TakeCommand
  <2> QED
    BY <2>2, <2>3
<1> QED
  BY <1>1, <1>2, <1>3, <1>4, <1>5, <1>6, <1>7, <1>8

LEMMA ShortWaits ==
    ASSUME NEW d, NEW w, HasPart(d, w), Len(w) <= 2, w[1] = "IAC" \/ Len(w) = 1
    PROVE  Take(d) = d
<1>1. Len(d.buf) \in Nat /\ d.buf \in Seq(Byte) /\ Len(d.buf) < Len(w) /\ Len(w) \in Nat
  BY Waits
<1>2. CASE d.buf = <<>>
  BY <1>2, Waits
<1>3. CASE d.buf # <<>>
  <2>1. Len(d.buf) >= 1
    BY <1>3, Waits
  <2> DEFINE m == Len(d.buf)
             n == Len(w)
  <2>3. m \in Nat /\ n \in Nat /\ m < n /\ n <= 2 /\ m >= 1
    BY <1>1, <2>1
  <2> HIDE DEF m, n
  <2>4. m < 2 /\ n # 1
    BY <2>3
  <2>2. w[1] = "IAC" /\ Len(d.buf) < 2
    BY <2>4 DEF m, n
  <2> QED
    BY <1>3, <2>2, Waits
<1> QED
  BY <1>2, <1>3

LEMMA VerbWaits ==
    ASSUME NEW d, NEW verb \in Verbs, NEW option, HasPart(d, <<"IAC", verb, option>>)
    PROVE  Take(d) = d
<1> DEFINE w == <<"IAC", verb, option>>
<1>0. Len(w) = 3 /\ w[1] = "IAC" /\ w[2] = verb /\ HasPart(d, w)
  OBVIOUS
<1> HIDE DEF w
<1>1. Len(d.buf) \in Nat /\ Len(d.buf) < 3
  BY <1>0, Waits
<1>2. CASE d.buf = <<>>
  BY <1>0, <1>2, Waits
<1>3. CASE d.buf # <<>> /\ Len(d.buf) < 2
  BY <1>0, <1>3, Waits
<1>4. CASE d.buf # <<>> /\ Len(d.buf) >= 2
  <2>1. d.buf[1] = "IAC"
    BY <1>0, <1>4, Waits
  <2>2. d.buf[2] = verb
    BY <1>0, <1>4, Waits
  <2>3. verb # "IAC" /\ verb # "SB"
    BY DEF Verbs
  <2>4. Take(d) = TakeCommand(d)
    BY <1>4, <2>1, <2>2, <2>3 DEF Take
  <2>5. TakeCommand(d) = d
    BY <1>1, <1>4, <2>2, <2>3 DEF TakeCommand
  <2> QED
    BY <2>4, <2>5
<1> QED
  BY <1>1, <1>2, <1>3, <1>4

LEMMA SubWaits ==
    ASSUME NEW d, NEW item, NEW w, IsSub(item, w), HasPart(d, w)
    PROVE  Take(d) = d
<1>0. w[1] = "IAC" /\ w[2] = "SB" /\ Closed(w, 3, "SE")
  <2>1. "IAC" \in Byte /\ "SE" \in Byte
    BY DEF Byte
  <2>2. Len(item) >= 2 /\ item[1] = "SB" /\ item \in Seq(Byte)
    BY DEF IsSub
  <2>3. w = <<"IAC">> \o item \o <<"IAC", "SE">>
    BY DEF IsSub
  <2>4. w[1] = "IAC" /\ w[2] = item[1]
    BY <2>1, <2>2, <2>3
  <2> QED
    BY <2>2, <2>4 DEF IsSub
<1>1. CASE d.buf = <<>>
  BY <1>1, Waits
<1>2. CASE d.buf # <<>> /\ Len(d.buf) < 2
  BY <1>0, <1>2, Waits
<1>3. CASE d.buf # <<>> /\ Len(d.buf) >= 2
  <2>1. d.buf[1] = "IAC"
    BY <1>0, <1>3, Waits
  <2>2. d.buf[2] = "SB"
    BY <1>0, <1>3, Waits
  <2>3. Ends(d.buf, 3, "SE") = {}
    <3>1. Begins(d.buf, w) /\ Len(d.buf) < Len(w)
      BY DEF HasPart
    <3> QED
      BY <1>0, <3>1, EndIsNotThere
  <2>4. Take(d) = TakeCommand(d)
    BY <1>3, <2>1, <2>2 DEF Take
  <2>5. TakeCommand(d) = d
    BY <1>3, <2>2, <2>3 DEF TakeCommand, Verbs
  <2> QED
    BY <2>4, <2>5
<1>4. Len(d.buf) \in Nat
  BY Waits
<1> QED
  BY <1>1, <1>2, <1>3, <1>4

LEMMA RecordWaits ==
    ASSUME InRecords, NEW x \in Seq(Byte), NEW d, HasPart(d, Escaped(x) \o Mark)
    PROVE  Take(d) = d
<1> DEFINE e == Escaped(x)
           w == e \o Mark
           b == d.buf
<1>1. e \in Seq(Byte) /\ Sealed(e)
  BY EscapesAreUndone
<1>2. HasPart(d, w)
  OBVIOUS
<1> HIDE DEF e
<1>3. /\ Len(w) = Len(e) + 2 /\ Len(e) \in Nat /\ Begins(e, w) /\ Closed(w, 1, "EOR")
      /\ w[Len(e) + 1] = "IAC"
  BY <1>1, RecordEnds
<1> HIDE DEF w
<1>4. Len(e) >= 2 /\ w[1] = "IAC" => w[2] = "IAC"
  <2> SUFFICES ASSUME Len(e) >= 2, w[1] = "IAC" PROVE w[2] = "IAC"
    OBVIOUS
  <2>1. e # <<>> /\ 1 \in 1 .. Len(e) /\ 2 \in 1 .. Len(e)
    BY <1>1, <1>3
  <2>2. w[1] = e[1] /\ w[2] = e[2]
    BY <1>3, <2>1 DEF Begins
  <2> QED
    BY <1>1, <2>1, <2>2, SealedStart
<1>5. Len(e) = 1 => w[1] # "IAC"
  <2> SUFFICES ASSUME Len(e) = 1, w[1] = "IAC" PROVE FALSE
    OBVIOUS
  <2>1. e # <<>> /\ 1 \in 1 .. Len(e)
    BY <1>1, <1>3
  <2>2. w[1] = e[1]
    BY <1>3, <2>1 DEF Begins
  <2> QED
    BY <1>1, <2>1, <2>2, SealedStart
<1>6. CASE b = <<>>
  BY <1>2, <1>6, Waits
<1>7. CASE b # <<>> /\ w[1] = "IAC" /\ Len(b) < 2
  BY <1>2, <1>7, Waits
<1>8. CASE b # <<>> /\ (w[1] # "IAC" \/ Len(b) >= 2)
  <2>1. Ends(b, 1, "EOR") = {}
    <3>1. Begins(b, w) /\ Len(b) < Len(w)
      BY <1>2 DEF HasPart
    <3> QED
      BY <1>3, <3>1, EndIsNotThere
  <2>2. b[1] = w[1] /\ Len(b) \in Nat /\ Len(b) < Len(w) /\ (Len(b) >= 2 => b[2] = w[2])
    BY <1>2, <1>8, Waits
  <2>3. b[1] = "IAC" => Len(b) >= 2 /\ b[2] = "IAC"
    <3> SUFFICES ASSUME w[1] = "IAC" PROVE Len(b) >= 2 /\ w[2] = "IAC"
      BY <1>8, <2>2
    <3>1. Len(b) >= 2 /\ Len(e) >= 1
      BY <1>3, <1>8, <2>2
    <3> QED
      BY <1>3, <1>4, <1>5, <3>1
  <2>4. Take(d) = TakeRecord(d)
    BY <1>8, <2>3 DEF Take
  <2>5. TakeRecord(d) = d
    BY <2>1 DEF TakeRecord
  <2> QED
    BY <2>4, <2>5
<1>9. Len(b) \in Nat
  BY <1>2, Waits
<1> QED
  BY <1>6, <1>7, <1>8, <1>9

LEMMA TextWaits ==
    ASSUME NEW x \in Byte, NEW d, HasPart(d, EscapeOf[x])
    PROVE  Take(d) = d
<1> DEFINE w == EscapeOf[x]
<1>0. w = IF x = "IAC" THEN <<"IAC", "IAC">> ELSE <<x>>
  BY DEF EscapeOf
<1>1. Len(w) <= 2 /\ (w[1] = "IAC" \/ Len(w) = 1)
  <2> HIDE DEF w
  <2>1. CASE x = "IAC"
    BY <1>0, <2>1
  <2>2. CASE x # "IAC"
    BY <1>0, <2>2
  <2> QED
    BY <2>1, <2>2
<1> HIDE DEF w
<1>2. HasPart(d, w)
  BY DEF w
<1> QED
  BY <1>1, <1>2, ShortWaits

-----------------------------------------------------------------------------
(* What is written, and in which order.                                    *)

LEMMA SentJoin ==
    ASSUME NEW ss \in Seq(Message), NEW tt \in Seq(Message)
    PROVE  /\ SentOf(ss) \in Seq(Message) /\ SentOf(<<>>) = <<>>
           /\ SentOf(ss \o tt) = SentOf(ss) \o SentOf(tt)
           /\ \A m \in Message : SentOf(Append(ss, m)) =
                 IF m[1] = "SENT" THEN Append(SentOf(ss), m) ELSE SentOf(ss)
<1> DEFINE F == [m \in Message |-> IF m[1] = "SENT" THEN <<m>> ELSE <<>>]
<1>1. Makes(F, Message, Message)
  <2>1. \A m \in Message : <<m>> \in Seq(Message)
    <3> DEFINE M == Message
    <3> HIDE DEF M
    <3>1. \A m \in M : <<m>> \in Seq(M)
      OBVIOUS
    <3> QED
      BY <3>1 DEF M
  <2>2. <<>> \in Seq(Message)
    OBVIOUS
  <2>3. F \in [Message -> Seq(Message)]
    BY <2>1, <2>2
  <2> HIDE DEF F
  <2> QED
    BY <2>3 DEF Makes
<1>2. \A uu \in Seq(Message) : SentOf(uu) = Gather(F, uu)
  <2> TAKE uu \in Seq(Message)
  <2>1. \A i \in 1 .. Len(uu) : uu[i] \in Message
    OBVIOUS
  <2>2. [i \in 1 .. Len(uu) |-> IF uu[i][1] = "SENT" THEN <<uu[i]>> ELSE <<>>]
          = [i \in 1 .. Len(uu) |-> F[uu[i]]]
    BY <2>1
  <2> HIDE DEF F
  <2> QED
    BY <2>2 DEF SentOf, Gather
<1>3. \A m \in Message : F[m] = IF m[1] = "SENT" THEN <<m>> ELSE <<>>
  OBVIOUS
<1> HIDE DEF F
<1>4. SentOf(ss) = Gather(F, ss) /\ SentOf(tt) = Gather(F, tt) /\ SentOf(<<>>) = <<>>
  <2>1. <<>> \in Seq(Message) /\ Gather(F, <<>>) = <<>>
    BY GatherNone
  <2> QED
    BY <1>2, <2>1
<1>5. SentOf(ss) \in Seq(Message)
  BY <1>1, <1>4, GatherType
<1>6. SentOf(ss \o tt) = SentOf(ss) \o SentOf(tt)
  <2>1. ss \o tt \in Seq(Message)
    BY Joining
  <2>2. Gather(F, ss \o tt) = Gather(F, ss) \o Gather(F, tt)
    BY <1>1, GatherJoin
  <2> QED
    BY <1>2, <1>4, <2>1, <2>2
<1>7. ASSUME NEW m \in Message
      PROVE  SentOf(Append(ss, m)) = IF m[1] = "SENT" THEN Append(SentOf(ss), m) ELSE SentOf(ss)
  <2>1. Append(ss, m) \in Seq(Message)
    BY Appending
  <2>2. Gather(F, Append(ss, m)) = Gather(F, ss) \o F[m]
    BY <1>1, GatherAppend
  <2>3. SentOf(Append(ss, m)) = SentOf(ss) \o F[m]
    BY <1>2, <1>4, <2>1, <2>2
  <2> DEFINE s == SentOf(ss)
  <2>4. s \in Seq(Message) /\ s \o <<>> = s
    BY <1>5, Joining
  <2>5. Append(s, m) = s \o <<m>>
    BY <2>4, Appending
  <2> QED
    BY <1>3, <2>3, <2>4, <2>5
<1> QED
  BY <1>4, <1>5, <1>6, <1>7

\* m was written, or waits to be, if the socket is there
Put(d, e, m) ==
    /\ e \in Conn
    /\ e.sock = d.sock /\ e.option = d.option /\ e.buf = d.buf /\ e.data = d.data
    /\ e.commands = d.commands /\ e.envReplies = d.envReplies /\ e.device = d.device
    /\ e.headers = d.headers /\ e.sendSeq = d.sendSeq /\ e.xoff = d.xoff
    /\ \/ d.sock # "up" /\ e.out = d.out /\ e.sendQueue = d.sendQueue
       \/ d.sock = "up" /\ e.out = Append(d.out, m) /\ e.sendQueue = d.sendQueue
       \/ d.sock = "up" /\ d.xoff /\ e.out = d.out /\ e.sendQueue = Append(d.sendQueue, m)

LEMMA ConnSet ==
    ASSUME NEW d \in Conn
    PROVE  /\ \A x \in Seq(Message) : [d EXCEPT !.out = x] \in Conn
           /\ \A x \in Seq(Message) : [d EXCEPT !.sendQueue = x] \in Conn
           /\ \A x \in Seq(Item) : [d EXCEPT !.commands = x] \in Conn
           /\ \A x \in Seq(Datum) : [d EXCEPT !.data = x] \in Conn
           /\ \A x \in BOOLEAN : [d EXCEPT !.headers = x] \in Conn /\ [d EXCEPT !.echoes = x] \in Conn
           /\ \A x \in Nat : [d EXCEPT !.envReplies = x] \in Conn /\ [d EXCEPT !.sendSeq = x] \in Conn
           /\ \A x \in {"", "extended", "plain"} : [d EXCEPT !.device = x] \in Conn
           /\ d.out \in Seq(Message) /\ d.sendQueue \in Seq(Message)
           /\ d.commands \in Seq(Item) /\ d.data \in Seq(Datum) /\ d.buf \in Seq(Byte)
<1> DEFINE B == Seq(Byte)
           M == Seq(Message)
           I == Seq(Item)
           D == Seq(Datum)
<1> HIDE DEF B, M, I, D
<1> QED
  BY DEF Conn, B, M, I, D

LEMMA Writing ==
    ASSUME NEW d \in Conn, NEW m \in Message
    PROVE  /\ Put(d, Write(d, m), m)
           /\ d.sock = "up" => Write(d, m).out = Append(d.out, m) /\ Write(d, m).sendQueue = d.sendQueue
<1>1. Append(d.out, m) \in Seq(Message)
  BY ConnSet, Appending
<1>2. [d EXCEPT !.out = Append(d.out, m)] \in Conn
  BY <1>1, ConnSet
<1> DEFINE q == Append(d.out, m)
<1>3. Write(d, m) = IF d.sock = "up" THEN [d EXCEPT !.out = q] ELSE d
  BY DEF Write
<1> HIDE DEF q
<1>4. d.sock = "up" => Put(d, [d EXCEPT !.out = q], m) /\ [d EXCEPT !.out = q].out = q
                      /\ [d EXCEPT !.out = q].sendQueue = d.sendQueue
  <2> DEFINE e == [d EXCEPT !.out = q]
  <2>1. /\ e.sock = d.sock /\ e.option = d.option /\ e.buf = d.buf /\ e.data = d.data
        /\ e.commands = d.commands /\ e.envReplies = d.envReplies /\ e.device = d.device
        /\ e.headers = d.headers /\ e.sendSeq = d.sendSeq /\ e.xoff = d.xoff
        /\ e.out = q /\ e.sendQueue = d.sendQueue
    BY DEF Conn
  <2>2. e \in Conn
    BY <1>2 DEF q
  <2> HIDE DEF e
  <2> QED
    BY <2>1, <2>2 DEF Put, e, q
<1>5. d.sock # "up" => Put(d, d, m)
  BY DEF Put
<1> QED
  BY <1>3, <1>4, <1>5 DEF q

LEMMA SendingRaw ==
    ASSUME NEW d \in Conn, NEW m \in Message
    PROVE  /\ Put(d, sendRaw(d, m), m)
           /\ d.sock = "up" /\ ~d.xoff =>
                 sendRaw(d, m).out = Append(d.out, m) /\ sendRaw(d, m).sendQueue = d.sendQueue
<1>1. Append(d.sendQueue, m) \in Seq(Message)
  BY ConnSet, Appending
<1> DEFINE q == Append(d.sendQueue, m)
           e == [d EXCEPT !.sendQueue = q]
<1>2. e \in Conn
  BY <1>1, ConnSet
<1>3. sendRaw(d, m) = IF d.sock = "up" /\ d.xoff THEN e ELSE Write(d, m)
  BY DEF sendRaw
<1> HIDE DEF q
<1>4. /\ e.sock = d.sock /\ e.option = d.option /\ e.buf = d.buf /\ e.data = d.data
      /\ e.commands = d.commands /\ e.envReplies = d.envReplies /\ e.device = d.device
      /\ e.headers = d.headers /\ e.sendSeq = d.sendSeq /\ e.xoff = d.xoff
      /\ e.out = d.out /\ e.sendQueue = q
  BY DEF Conn
<1> HIDE DEF e
<1>5. d.sock = "up" /\ d.xoff => Put(d, e, m)
  BY <1>2, <1>4 DEF Put, q
<1> QED
  BY <1>3, <1>5, Writing

\* XOFF delays, on a 6530; the others do not know it
Flow(k, d, asks) ==
    IF k = "hp6530"
    THEN d.sock = "up" => /\ SentOf(d.out) \o SentOf(d.sendQueue) = asks
                          /\ d.sendQueue # <<>> => d.xoff
    ELSE ~d.xoff /\ d.sendQueue = <<>>

Told(d, m) == \E i \in 1 .. Len(d.out) : d.out[i] = m

LEMMA ReplyKeepsFlow ==
    ASSUME NEW d \in Conn, NEW e, NEW m \in Message, Put(d, e, m), m[1] # "SENT",
           NEW k, NEW asks, Flow(k, d, asks)
    PROVE  Flow(k, e, asks)
<1>1. d.out \in Seq(Message) /\ d.sendQueue \in Seq(Message)
  BY ConnSet
<1>2. /\ SentOf(Append(d.out, m)) = SentOf(d.out)
      /\ SentOf(Append(d.sendQueue, m)) = SentOf(d.sendQueue)
  BY <1>1, SentJoin
<1>3. e.sock = d.sock /\ e.xoff = d.xoff
  BY DEF Put
<1>4. \/ e.out = d.out /\ e.sendQueue = d.sendQueue
      \/ e.out = Append(d.out, m) /\ e.sendQueue = d.sendQueue
      \/ e.out = d.out /\ e.sendQueue = Append(d.sendQueue, m) /\ d.xoff
  BY DEF Put
<1> QED
  BY <1>2, <1>3, <1>4 DEF Flow

LEMMA ToldMore ==
    ASSUME NEW d \in Conn, NEW e, NEW m \in Message, Put(d, e, m), NEW l
    PROVE  /\ Told(d, l) => Told(e, l)
           /\ l # m => (Told(e, l) <=> Told(d, l))
           /\ e.out = Append(d.out, m) => Told(e, m)
<1> DEFINE q == d.out
           r == e.out
<1>1. q \in Seq(Message) /\ (r = q \/ r = Append(q, m))
  BY ConnSet DEF Put
<1>2. /\ Len(q) \in Nat /\ Len(Append(q, m)) = Len(q) + 1 /\ Append(q, m)[Len(q) + 1] = m
      /\ \A i \in 1 .. Len(q) : Append(q, m)[i] = q[i]
  BY <1>1, Appending
<1> HIDE DEF q, r
<1>3. (\E i \in 1 .. Len(Append(q, m)) : Append(q, m)[i] = l) <=> (\E i \in 1 .. Len(q) : q[i] = l) \/ l = m
  <2>1. \A i \in 1 .. Len(q) + 1 : i \in 1 .. Len(q) \/ i = Len(q) + 1
    BY <1>2
  <2>2. Len(q) + 1 \in 1 .. Len(q) + 1 /\ \A i \in 1 .. Len(q) : i \in 1 .. Len(q) + 1
    BY <1>2
  <2> QED
    BY <1>2, <2>1, <2>2
<1>4. r = Append(q, m) => \E i \in 1 .. Len(r) : r[i] = m
  BY <1>2
<1>5. Told(d, l) <=> \E i \in 1 .. Len(q) : q[i] = l
  BY DEF Told, q
<1>6. Told(e, l) <=> \E i \in 1 .. Len(r) : r[i] = l
  BY DEF Told, r
<1>7. Told(e, m) <=> \E i \in 1 .. Len(r) : r[i] = m
  BY DEF Told, r
<1> QED
  BY <1>1, <1>3, <1>4, <1>5, <1>6, <1>7 DEF q, r

-----------------------------------------------------------------------------
(* What is done with a command.                                            *)

LEMMA Messages ==
    /\ \A a, b \in Letter : <<a, b>> \in Message
    /\ \A a, b, x \in Letter : <<a, b, x>> \in Message
    /\ \A a, b, x, y \in Letter : <<a, b, x, y>> \in Message
    /\ \A a, b, x, y, z \in Letter : <<a, b, x, y, z>> \in Message
BY DEF Message

LEMMA Letters ==
    /\ Byte \subseteq Letter /\ Nat \subseteq Letter /\ Verbs \subseteq Letter
    /\ {"", "extended", "plain", "SB", "TTYPE", "IS", "NAWS", "SIZE", "NEW_ENVIRON", "TN3270E",
        "DEVICE_TYPE", "FUNCTIONS", "REQUEST", "HEADER", "SENT", "TIMING_MARK"} \subseteq Letter
<1>1. Byte \subseteq Letter /\ Nat \subseteq Letter /\ Verbs \subseteq Letter
  BY DEF Letter
<1>2. {"", "extended", "plain", "SB", "TTYPE", "IS", "NAWS", "SIZE", "NEW_ENVIRON", "TN3270E",
        "DEVICE_TYPE", "FUNCTIONS", "REQUEST", "HEADER", "SENT", "TIMING_MARK"} \subseteq Letter
  BY DEF Letter
<1> QED
  BY <1>1, <1>2

\* From d to e, nothing is heard, and the order of what is sent stands
Carries(d, e) ==
    /\ e \in Conn
    /\ e.option = d.option /\ e.buf = d.buf /\ e.data = d.data
    /\ e.commands = d.commands /\ e.sendSeq = d.sendSeq
    /\ e.sock \in {d.sock, "none"} /\ (kind # "tn5250" => e.sock = d.sock)
    /\ \A asks : Flow(kind, d, asks) => Flow(kind, e, asks)

FunctionsAre == <<"SB", "TN3270E", "FUNCTIONS", "IS">>
FunctionsWanted == <<"SB", "TN3270E", "FUNCTIONS", "REQUEST">>
Dont == <<"DONT", "TN3270E">>
Do == <<"DO", "TN3270E">>
Wont == <<"WONT", "TN3270E">>

\* ... nor do both ends come to use headers
Keeps(d, e) == Carries(d, e) /\ (Told(e, FunctionsAre) <=> Told(d, FunctionsAre)) /\ e.envReplies = d.envReplies

LEMMA PutKeeps ==
    ASSUME NEW d \in Conn, NEW e, NEW m \in Message, Put(d, e, m), m[1] # "SENT"
    PROVE  /\ Carries(d, e) /\ e.headers = d.headers /\ e.envReplies = d.envReplies
           /\ m # FunctionsAre => Keeps(d, e)
<1>1. \A asks : Flow(kind, d, asks) => Flow(kind, e, asks)
  BY ReplyKeepsFlow
<1>2. m # FunctionsAre => (Told(e, FunctionsAre) <=> Told(d, FunctionsAre))
  BY ToldMore
<1>3. /\ e \in Conn /\ e.sock = d.sock /\ e.option = d.option /\ e.buf = d.buf /\ e.data = d.data
      /\ e.commands = d.commands /\ e.envReplies = d.envReplies /\ e.device = d.device
      /\ e.headers = d.headers /\ e.sendSeq = d.sendSeq /\ e.xoff = d.xoff
  BY DEF Put
<1>4. Carries(d, e)
  BY <1>1, <1>3 DEF Carries
<1> QED
  BY <1>2, <1>3, <1>4 DEF Keeps

LEMMA SelfKeeps == ASSUME NEW d \in Conn PROVE Keeps(d, d)
BY DEF Keeps, Carries

LEMMA KeepsTwice ==
    ASSUME NEW d, NEW e, NEW f, Keeps(d, e), Keeps(e, f)
    PROVE  Keeps(d, f)
BY DEF Keeps, Carries

\* f is e but for headers, echoes, device
Alike(e, f) ==
    /\ f \in Conn
    /\ e.sock = f.sock /\ e.option = f.option /\ e.buf = f.buf /\ e.data = f.data
    /\ e.commands = f.commands /\ e.envReplies = f.envReplies
    /\ e.sendSeq = f.sendSeq /\ e.xoff = f.xoff /\ e.out = f.out /\ e.sendQueue = f.sendQueue

LEMMA AlikeKeeps ==
    ASSUME NEW e, NEW f, Alike(e, f)
    PROVE  Keeps(e, f)
<1>1. Told(f, FunctionsAre) <=> Told(e, FunctionsAre)
  BY DEF Told, Alike
<1>2. \A asks : Flow(kind, e, asks) => Flow(kind, f, asks)
  BY DEF Flow, Alike
<1> QED
  BY <1>1, <1>2 DEF Keeps, Carries, Alike

LEMMA AlikeSet ==
    ASSUME NEW e \in Conn
    PROVE  /\ \A x \in BOOLEAN : /\ Alike(e, [e EXCEPT !.headers = x]) /\ [e EXCEPT !.headers = x].headers = x
                                 /\ Alike(e, [e EXCEPT !.echoes = x])
                                 /\ [e EXCEPT !.echoes = x].headers = e.headers
           /\ \A x \in {"", "extended", "plain"} : /\ Alike(e, [e EXCEPT !.device = x])
                                                   /\ [e EXCEPT !.device = x].headers = e.headers
<1>1. ASSUME NEW x \in BOOLEAN
      PROVE  /\ Alike(e, [e EXCEPT !.headers = x]) /\ [e EXCEPT !.headers = x].headers = x
             /\ Alike(e, [e EXCEPT !.echoes = x]) /\ [e EXCEPT !.echoes = x].headers = e.headers
  <2> DEFINE f == [e EXCEPT !.headers = x]
             g == [e EXCEPT !.echoes = x]
  <2>1. f \in Conn /\ g \in Conn
    BY ConnSet
  <2>2. /\ e.sock = f.sock /\ e.option = f.option /\ e.buf = f.buf /\ e.data = f.data
        /\ e.commands = f.commands /\ e.envReplies = f.envReplies
        /\ e.sendSeq = f.sendSeq /\ e.xoff = f.xoff /\ e.out = f.out /\ e.sendQueue = f.sendQueue
        /\ f.headers = x
    BY DEF Conn
  <2>3. /\ e.sock = g.sock /\ e.option = g.option /\ e.buf = g.buf /\ e.data = g.data
        /\ e.commands = g.commands /\ e.envReplies = g.envReplies
        /\ e.sendSeq = g.sendSeq /\ e.xoff = g.xoff /\ e.out = g.out /\ e.sendQueue = g.sendQueue
        /\ g.headers = e.headers
    BY DEF Conn
  <2> HIDE DEF f, g
  <2> QED
    BY <2>1, <2>2, <2>3 DEF Alike, f, g
<1>2. ASSUME NEW x \in {"", "extended", "plain"}
      PROVE  Alike(e, [e EXCEPT !.device = x]) /\ [e EXCEPT !.device = x].headers = e.headers
  <2> DEFINE f == [e EXCEPT !.device = x]
  <2>1. f \in Conn
    BY ConnSet
  <2>2. /\ e.sock = f.sock /\ e.option = f.option /\ e.buf = f.buf /\ e.data = f.data
        /\ e.commands = f.commands /\ e.envReplies = f.envReplies
        /\ e.sendSeq = f.sendSeq /\ e.xoff = f.xoff /\ e.out = f.out /\ e.sendQueue = f.sendQueue
        /\ f.headers = e.headers
    BY DEF Conn
  <2> HIDE DEF f
  <2> QED
    BY <2>1, <2>2 DEF Alike, f
<1> QED
  BY <1>1, <1>2

LEMMA WriteKeeps ==
    ASSUME NEW d \in Conn, NEW m \in Message, m[1] # "SENT", m # FunctionsAre
    PROVE  /\ Keeps(d, Write(d, m)) /\ Write(d, m).headers = d.headers
           /\ Keeps(d, sendRaw(d, m)) /\ sendRaw(d, m).headers = d.headers
<1>1. Put(d, Write(d, m), m)
  BY Writing
<1>2. Put(d, sendRaw(d, m), m)
  BY SendingRaw
<1> QED
  BY <1>1, <1>2, PutKeeps

LEMMA Answering ==
    ASSUME NEW d \in Conn, NEW verb \in Verbs, NEW option \in Byte
    PROVE  Keeps(d, Answer(d, verb, option)) /\ Answer(d, verb, option).headers = d.headers
<1>1. \A x \in Verbs : <<x, option>> \in Message /\ <<x, option>>[1] # "SENT" /\ <<x, option>> # FunctionsAre
  <2> TAKE x \in Verbs
  <2>1. x \in Letter /\ option \in Letter
    BY Letters
  <2>2. <<x, option>> \in Message
    BY <2>1, Messages
  <2>3. x # "SENT" /\ x # "SB"
    BY DEF Verbs
  <2> QED
    BY <2>2, <2>3 DEF FunctionsAre
<1>2. \A x \in Verbs : /\ Keeps(d, Write(d, <<x, option>>))
                       /\ Write(d, <<x, option>>).headers = d.headers
  <2> TAKE x \in Verbs
  <2> DEFINE m == <<x, option>>
  <2>1. m \in Message /\ m[1] # "SENT" /\ m # FunctionsAre
    BY <1>1
  <2> HIDE DEF m
  <2>2. Keeps(d, Write(d, m)) /\ Write(d, m).headers = d.headers
    BY <2>1, WriteKeeps
  <2> QED
    BY <2>2 DEF m
<1>3. Keeps(d, d)
  BY SelfKeeps
<1>4. \/ Answer(d, verb, option) = d
      \/ \E x \in Verbs : Answer(d, verb, option) = Write(d, <<x, option>>)
  <2> DEFINE W(x) == Write(d, <<x, option>>)
  <2> HIDE DEF W
  <2>1. verb = "DO" => Answer(d, verb, option) = W("WILL") \/ Answer(d, verb, option) = W("WONT")
    BY DEF Answer, W
  <2>2. verb = "WILL" => Answer(d, verb, option) \in {d, W("DO"), W("DONT")}
    BY DEF Answer, W
  <2>3. verb = "DONT" => Answer(d, verb, option) = W("WONT")
    BY DEF Answer, W
  <2>4. verb = "WONT" => Answer(d, verb, option) \in {d, W("DONT")}
    BY DEF Answer, W
  <2>5. verb \in {"DO", "DONT", "WILL", "WONT"}
    BY DEF Verbs
  <2>6. \A x \in {"DO", "DONT", "WILL", "WONT"} : x \in Verbs
    BY DEF Verbs
  <2>7. \/ Answer(d, verb, option) = d
        \/ \E x \in Verbs : Answer(d, verb, option) = W(x)
    BY <2>1, <2>2, <2>3, <2>4, <2>5, <2>6
  <2> QED
    BY <2>7 DEF W
<1> DEFINE a == Answer(d, verb, option)
<1>5. CASE a = d
  BY <1>3, <1>5
<1>6. CASE \E x \in Verbs : a = Write(d, <<x, option>>)
  <2>1. PICK x \in Verbs : a = Write(d, <<x, option>>)
    BY <1>6
  <2>2. Keeps(d, Write(d, <<x, option>>)) /\ Write(d, <<x, option>>).headers = d.headers
    BY <1>2
  <2> HIDE DEF a
  <2> QED
    BY <2>1, <2>2 DEF a
<1> QED
  BY <1>4, <1>5, <1>6

LEMMA Negotiating ==
    ASSUME NEW d \in Conn, NEW verb \in Verbs, NEW option \in Byte
    PROVE  /\ Keeps(d, handleNegotiation(d, verb, option))
           /\ handleNegotiation(d, verb, option).headers =
                 IF kind = "tn3270" /\ <<verb, option>> = Dont THEN FALSE ELSE d.headers
<1> DEFINE e == Answer(d, verb, option)
           f == handleNegotiation(d, verb, option)
           m == <<"SB", "NAWS", "SIZE">>
<1>1. Keeps(d, e) /\ e.headers = d.headers /\ e \in Conn
  BY Answering DEF Keeps, Carries
<1>2. <<verb, option>> = Dont <=> verb = "DONT" /\ option = "TN3270E"
  BY DEF Dont
<1>3. \/ /\ kind = "tn3270" /\ verb = "DONT" /\ option = "TN3270E"
         /\ f = [e EXCEPT !.headers = FALSE]
      \/ /\ ~(kind = "tn3270" /\ verb = "DONT" /\ option = "TN3270E")
         /\ \/ f = Write(e, m)
            \/ f = [e EXCEPT !.echoes = TRUE] \/ f = [e EXCEPT !.echoes = FALSE]
            \/ f = e
  <2> HIDE DEF e, m
  <2>1. verb = "WILL" => [e EXCEPT !.echoes = verb = "WILL"] = [e EXCEPT !.echoes = TRUE]
    OBVIOUS
  <2>2. verb # "WILL" => [e EXCEPT !.echoes = verb = "WILL"] = [e EXCEPT !.echoes = FALSE]
    OBVIOUS
  <2>3. verb \in {"WILL", "WONT"} \/ verb \notin {"WILL", "WONT"}
    OBVIOUS
  <2> QED
    BY <2>1, <2>2 DEF handleNegotiation, e, m
<1>4. Keeps(e, Write(e, m)) /\ Write(e, m).headers = e.headers
  <2>1. m \in Message
    BY Messages, Letters
  <2>2. m[1] # "SENT" /\ m # FunctionsAre
    BY DEF FunctionsAre
  <2> HIDE DEF m, e
  <2> QED
    BY <1>1, <2>1, <2>2, WriteKeeps
<1>5. \A x \in BOOLEAN : /\ Keeps(e, [e EXCEPT !.headers = x]) /\ [e EXCEPT !.headers = x].headers = x
                         /\ Keeps(e, [e EXCEPT !.echoes = x]) /\ [e EXCEPT !.echoes = x].headers = e.headers
  BY <1>1, AlikeSet, AlikeKeeps
<1>6. Keeps(e, e)
  BY <1>1, SelfKeeps
<1> HIDE DEF e, f, m
<1>7. Keeps(e, f) /\ f.headers = IF kind = "tn3270" /\ <<verb, option>> = Dont THEN FALSE ELSE d.headers
  BY <1>1, <1>2, <1>3, <1>4, <1>5, <1>6
<1>8. Keeps(d, f)
  BY <1>1, <1>7, KeepsTwice
<1> QED
  BY <1>7, <1>8 DEF f

\* what an answer to NEW_ENVIRON changes: the connection is given up, or one more is written
Environs(d, e, sub) ==
    \/ e.sock = "none"
    \/ /\ e.envReplies = d.envReplies + 1
       /\ ~(d.envReplies > 0 /\ d.option /\ Contains(sub, "DEVNAME") /\ sub[2] = "SEND")

LEMMA GivingUp ==
    ASSUME NEW d \in Conn, kind = "tn5250"
    PROVE  Carries(d, CleanedUp(d)) /\ CleanedUp(d).sock = "none"
           /\ CleanedUp(d).headers = d.headers /\ (Told(CleanedUp(d), FunctionsAre) <=> Told(d, FunctionsAre))
<1> DEFINE e == CleanedUp(d)
           M == Seq(Message)
           B == Seq(Byte)
           I == Seq(Item)
           D == Seq(Datum)
<1>1. <<>> \in M
  OBVIOUS
<1> HIDE DEF M, B, I, D
<1>2. e \in Conn
  BY <1>1 DEF Conn, CleanedUp, M, B, I, D
<1>3. /\ e.sock = "none" /\ e.xoff = FALSE /\ e.sendQueue = <<>> /\ e.headers = d.headers
      /\ e.option = d.option /\ e.buf = d.buf /\ e.data = d.data /\ e.out = d.out
      /\ e.commands = d.commands /\ e.sendSeq = d.sendSeq
  BY DEF Conn, CleanedUp
<1> HIDE DEF e
<1>4. \A asks : Flow(kind, d, asks) => Flow(kind, e, asks)
  BY <1>3 DEF Flow
<1>5. Carries(d, e)
  BY <1>2, <1>3, <1>4 DEF Carries
<1>6. Told(e, FunctionsAre) <=> Told(d, FunctionsAre)
  BY <1>3 DEF Told
<1> QED
  BY <1>3, <1>5, <1>6 DEF e

LEMMA Environing ==
    ASSUME NEW d \in Conn, NEW sub, kind = "tn5250"
    PROVE  /\ Carries(d, handleEnviron(d, sub)) /\ handleEnviron(d, sub).headers = d.headers
           /\ Told(handleEnviron(d, sub), FunctionsAre) <=> Told(d, FunctionsAre)
           /\ Environs(d, handleEnviron(d, sub), sub)
<1> DEFINE again0 == d.envReplies > 0 /\ d.option /\ Contains(sub, "DEVNAME") /\ sub[2] = "SEND"
           m == <<"SB", "NEW_ENVIRON", "IS">>
           e == sendRaw(d, m)
           f == [e EXCEPT !.envReplies = @ + 1]
<1>1. handleEnviron(d, sub) = IF again0 THEN CleanedUp(d) ELSE f
  BY DEF handleEnviron
<1>2. Keeps(d, e) /\ e.headers = d.headers
  <2>1. m \in Message
    BY Messages, Letters
  <2>2. m[1] # "SENT" /\ m # FunctionsAre
    BY DEF FunctionsAre
  <2> HIDE DEF m
  <2> QED
    BY <2>1, <2>2, WriteKeeps
<1> HIDE DEF e, m
<1>3. e \in Conn /\ e.envReplies = d.envReplies /\ d.envReplies \in Nat
  BY <1>2 DEF Keeps, Carries, Conn
<1>4. f \in Conn
  <2>1. e.envReplies + 1 \in Nat
    BY <1>3
  <2> QED
    BY <1>3, <2>1, ConnSet
<1>5. /\ f.sock = e.sock /\ f.option = e.option /\ f.buf = e.buf /\ f.data = e.data
      /\ f.commands = e.commands /\ f.sendSeq = e.sendSeq /\ f.headers = e.headers /\ f.out = e.out
      /\ f.xoff = e.xoff /\ f.sendQueue = e.sendQueue /\ f.envReplies = d.envReplies + 1
  BY <1>3 DEF Conn
<1> HIDE DEF f
<1>6. Carries(d, f) /\ f.headers = d.headers /\ (Told(f, FunctionsAre) <=> Told(d, FunctionsAre))
  <2>1. \A asks : Flow(kind, e, asks) => Flow(kind, f, asks)
    BY <1>5 DEF Flow
  <2>2. Told(f, FunctionsAre) <=> Told(e, FunctionsAre)
    BY <1>5 DEF Told
  <2> QED
    BY <1>2, <1>4, <1>5, <2>1, <2>2 DEF Keeps, Carries
<1>7. CASE again0
  <2>1. handleEnviron(d, sub) = CleanedUp(d)
    BY <1>1, <1>7
  <2> DEFINE g == CleanedUp(d)
  <2>2. Carries(d, g) /\ g.sock = "none" /\ g.headers = d.headers
        /\ (Told(g, FunctionsAre) <=> Told(d, FunctionsAre))
    BY GivingUp
  <2> HIDE DEF g
  <2>3. Environs(d, g, sub)
    BY <2>2 DEF Environs
  <2> QED
    BY <2>1, <2>2, <2>3 DEF g
<1>8. CASE ~again0
  <2>1. handleEnviron(d, sub) = f
    BY <1>1, <1>8
  <2>2. Environs(d, f, sub)
    BY <1>5, <1>8 DEF Environs
  <2> QED
    BY <1>6, <2>1, <2>2
<1> QED
  BY <1>7, <1>8

\* what the functions that are agreed on give
Grants(item) == item \in {FunctionsAre, FunctionsWanted}

LEMMA SubParts ==
    ASSUME NEW item \in Item, Len(item) >= 2
    PROVE  /\ Tail(item) # <<>> /\ Tail(item)[1] = item[2] /\ Len(Tail(item)) = Len(item) - 1
           /\ Len(item) >= 3 => Tail(item)[2] = item[3]
           /\ Len(item) >= 4 => Tail(item)[3] = item[4]
           /\ Len(item) \in Nat
<1>1. \A s \in Seq(Byte) : Len(s) >= 2 =>
         /\ Tail(s) \in Seq(Byte) /\ Len(Tail(s)) = Len(s) - 1 /\ Len(s) \in Nat
         /\ \A i \in 1 .. Len(s) - 1 : Tail(s)[i] = s[i + 1]
  OBVIOUS
<1>2. item \in Seq(Byte)
  BY DEF Item
<1> DEFINE t == Tail(item)
<1>3. t \in Seq(Byte) /\ Len(t) = Len(item) - 1 /\ Len(item) \in Nat
      /\ \A i \in 1 .. Len(item) - 1 : t[i] = item[i + 1]
  BY <1>1, <1>2
<1> HIDE DEF t
<1>4. t[1] = item[2] /\ t # <<>>
  BY <1>3
<1>5. Len(item) >= 3 => t[2] = item[3]
  <2> SUFFICES ASSUME Len(item) >= 3 PROVE t[2] = item[3]
    OBVIOUS
  <2>1. 2 \in 1 .. Len(item) - 1
    BY <1>3
  <2> QED
    BY <1>3, <2>1
<1>6. Len(item) >= 4 => t[3] = item[4]
  <2> SUFFICES ASSUME Len(item) >= 4 PROVE t[3] = item[4]
    OBVIOUS
  <2>1. 3 \in 1 .. Len(item) - 1
    BY <1>3
  <2> QED
    BY <1>3, <2>1
<1> QED
  BY <1>3, <1>4, <1>5, <1>6 DEF t

LEMMA GrantParts ==
    ASSUME NEW item \in Item, Len(item) >= 2
    PROVE  /\ item = FunctionsAre <=> /\ Len(item) = 4 /\ item[1] = "SB" /\ item[2] = "TN3270E"
                                      /\ item[3] = "FUNCTIONS" /\ item[4] = "IS"
           /\ item = FunctionsWanted <=> /\ Len(item) = 4 /\ item[1] = "SB" /\ item[2] = "TN3270E"
                                         /\ item[3] = "FUNCTIONS" /\ item[4] = "REQUEST"
<1> DEFINE p == <<"SB", "TN3270E", "FUNCTIONS", "IS">>
           q == <<"SB", "TN3270E", "FUNCTIONS", "REQUEST">>
<1>1. /\ Len(p) = 4 /\ p[1] = "SB" /\ p[2] = "TN3270E" /\ p[3] = "FUNCTIONS" /\ p[4] = "IS"
      /\ Len(q) = 4 /\ q[1] = "SB" /\ q[2] = "TN3270E" /\ q[3] = "FUNCTIONS" /\ q[4] = "REQUEST"
  OBVIOUS
<1>2. p \in Seq(Letter) /\ q \in Seq(Letter)
  BY Messages, Letters DEF Message
<1> HIDE DEF p, q
<1>3. \A s \in Seq(Byte) : \A r \in Seq(Letter) :
         Len(s) = 4 /\ Len(r) = 4 /\ s[1] = r[1] /\ s[2] = r[2] /\ s[3] = r[3] /\ s[4] = r[4] => s = r
  OBVIOUS
<1>4. item \in Seq(Byte)
  BY DEF Item
<1>5. item = p <=> Len(item) = 4 /\ item[1] = p[1] /\ item[2] = p[2] /\ item[3] = p[3] /\ item[4] = p[4]
  BY <1>1, <1>2, <1>3, <1>4
<1>6. item = q <=> Len(item) = 4 /\ item[1] = q[1] /\ item[2] = q[2] /\ item[3] = q[3] /\ item[4] = q[4]
  BY <1>1, <1>2, <1>3, <1>4
<1> QED
  BY <1>1, <1>5, <1>6 DEF p, q, FunctionsAre, FunctionsWanted

LEMMA Rfc2355 ==
    ASSUME NEW item \in Item, Len(item) >= 2, item[1] = "SB", InRfc2355(item)
    PROVE  /\ Len(item) >= 4 /\ item[2] = "TN3270E"
           /\ \/ item[3] = "SEND" /\ item[4] = "DEVICE_TYPE"
              \/ item[3] = "DEVICE_TYPE" /\ item[4] = "REJECT"
              \/ item[3] = "DEVICE_TYPE" /\ item[4] = "IS"
              \/ item[3] = "FUNCTIONS" /\ item[4] = "IS" /\ Len(item) = 4
              \/ item[3] = "FUNCTIONS" /\ item[4] = "REQUEST"
<1>1. item[1] \notin {"DO", "DONT"}
  OBVIOUS
<1>2. CASE item \in {<<"SB", "TN3270E", "SEND", "DEVICE_TYPE">>,
                     <<"SB", "TN3270E", "DEVICE_TYPE", "REJECT">>,
                     <<"SB", "TN3270E", "DEVICE_TYPE", "IS">>,
                     <<"SB", "TN3270E", "FUNCTIONS", "IS">>}
  BY <1>2
<1>3. CASE Len(item) >= 4 /\ SubSeq(item, 1, 4) = FunctionsWanted
  <2> DEFINE s == SubSeq(item, 1, 4)
  <2>1. s[2] = item[2] /\ s[3] = item[3] /\ s[4] = item[4]
    BY <1>3 DEF Item
  <2>2. s[2] = "TN3270E" /\ s[3] = "FUNCTIONS" /\ s[4] = "REQUEST"
    <3> DEFINE q == <<"SB", "TN3270E", "FUNCTIONS", "REQUEST">>
    <3>1. q[2] = "TN3270E" /\ q[3] = "FUNCTIONS" /\ q[4] = "REQUEST"
      OBVIOUS
    <3>2. s = q
      BY <1>3 DEF FunctionsWanted
    <3> HIDE DEF s, q
    <3> QED
      BY <3>1, <3>2
  <2> QED
    BY <1>3, <2>1, <2>2
<1> QED
  BY <1>1, <1>2, <1>3 DEF InRfc2355, FunctionsWanted

LEMMA Subnegotiating3270 ==
    ASSUME NEW d \in Conn, NEW item \in Item, Len(item) >= 2, item[1] = "SB", InRfc2355(item)
    PROVE  /\ Carries(d, handleTN3270ESubneg(d, Tail(item)))
           /\ handleTN3270ESubneg(d, Tail(item)).envReplies = d.envReplies
           /\ handleTN3270ESubneg(d, Tail(item)).headers = (d.headers \/ Grants(item))
           /\ item # FunctionsWanted =>
                 (Told(handleTN3270ESubneg(d, Tail(item)), FunctionsAre) <=> Told(d, FunctionsAre))
           /\ item = FunctionsWanted /\ d.sock = "up" /\ ~d.xoff =>
                 Told(handleTN3270ESubneg(d, Tail(item)), FunctionsAre)
<1> DEFINE sub == Tail(item)
           e == handleTN3270ESubneg(d, sub)
           request(type) == sendRaw([d EXCEPT !.device = type],
                                    <<"SB", "TN3270E", "DEVICE_TYPE", "REQUEST", type>>)
           functions(op) == sendRaw(d, <<"SB", "TN3270E", "FUNCTIONS", op>>)
<1>1. /\ Len(item) >= 4 /\ item[2] = "TN3270E"
      /\ \/ item[3] = "SEND" /\ item[4] = "DEVICE_TYPE"
         \/ item[3] = "DEVICE_TYPE" /\ item[4] = "REJECT"
         \/ item[3] = "DEVICE_TYPE" /\ item[4] = "IS"
         \/ item[3] = "FUNCTIONS" /\ item[4] = "IS" /\ Len(item) = 4
         \/ item[3] = "FUNCTIONS" /\ item[4] = "REQUEST"
  BY Rfc2355
<1>2. sub[2] = item[3] /\ sub[3] = item[4] /\ Len(sub) = Len(item) - 1 /\ Len(item) \in Nat
  BY <1>1, SubParts
<1> HIDE DEF sub
<1>3. \A type \in {"extended", "plain"} : Keeps(d, request(type)) /\ request(type).headers = d.headers
  <2> TAKE type \in {"extended", "plain"}
  <2> DEFINE m == <<"SB", "TN3270E", "DEVICE_TYPE", "REQUEST", type>>
             g == [d EXCEPT !.device = type]
  <2>1. m \in Message
    <3>1. type \in Letter
      BY Letters
    <3> QED
      BY <3>1, Messages, Letters
  <2>2. m[1] # "SENT" /\ m # FunctionsAre
    BY DEF FunctionsAre
  <2>3. Keeps(d, g) /\ g.headers = d.headers /\ g \in Conn
    <3>1. Alike(d, g) /\ g.headers = d.headers
      BY AlikeSet
    <3>2. Keeps(d, g)
      BY <3>1, AlikeKeeps
    <3> QED
      BY <3>1, <3>2 DEF Alike
  <2> HIDE DEF m, g
  <2>4. Keeps(g, sendRaw(g, m)) /\ sendRaw(g, m).headers = g.headers
    BY <2>1, <2>2, <2>3, WriteKeeps
  <2>5. Keeps(d, sendRaw(g, m)) /\ sendRaw(g, m).headers = d.headers
    BY <2>3, <2>4, KeepsTwice
  <2> QED
    BY <2>5 DEF m, g
<1>4. Keeps(d, functions("REQUEST")) /\ functions("REQUEST").headers = d.headers
  <2> DEFINE m == <<"SB", "TN3270E", "FUNCTIONS", "REQUEST">>
  <2>1. m \in Message
    BY Messages, Letters
  <2>2. m[1] # "SENT" /\ m # FunctionsAre
    BY DEF FunctionsAre
  <2> HIDE DEF m
  <2>3. Keeps(d, sendRaw(d, m)) /\ sendRaw(d, m).headers = d.headers
    BY <2>1, <2>2, WriteKeeps
  <2> QED
    BY <2>3 DEF m
<1> DEFINE g == functions("IS")
           h == [g EXCEPT !.headers = TRUE]
<1>5. /\ Carries(d, h) /\ h.headers = TRUE /\ h.envReplies = d.envReplies
      /\ d.sock = "up" /\ ~d.xoff => Told(h, FunctionsAre)
  <2> DEFINE m == FunctionsAre
  <2>1. m \in Message /\ m[1] # "SENT"
    BY Messages, Letters DEF FunctionsAre
  <2>2. g = sendRaw(d, m)
    BY DEF FunctionsAre
  <2> HIDE DEF m, g
  <2>3. /\ Put(d, g, m)
        /\ d.sock = "up" /\ ~d.xoff => g.out = Append(d.out, m)
    BY <2>1, <2>2, SendingRaw
  <2>4. Carries(d, g) /\ g.envReplies = d.envReplies /\ g \in Conn
    BY <2>1, <2>3, PutKeeps DEF Carries
  <2>5. g.out = Append(d.out, m) => Told(g, m)
    BY <2>1, <2>3, ToldMore
  <2>6. Keeps(g, h) /\ h.headers = TRUE
    BY <2>4, AlikeSet, AlikeKeeps
  <2> HIDE DEF h
  <2>7. Carries(d, h) /\ h.envReplies = d.envReplies /\ (Told(h, FunctionsAre) <=> Told(g, FunctionsAre))
    BY <2>4, <2>6 DEF Keeps, Carries
  <2> QED
    BY <2>3, <2>5, <2>6, <2>7 DEF m
<1>6. Keeps(d, [d EXCEPT !.headers = TRUE]) /\ [d EXCEPT !.headers = TRUE].headers = TRUE
  BY AlikeSet, AlikeKeeps
<1>7. Keeps(d, d) /\ d.headers \in BOOLEAN
  BY SelfKeeps DEF Conn
<1>8. /\ item = FunctionsAre <=> item[3] = "FUNCTIONS" /\ item[4] = "IS"
      /\ item = FunctionsWanted <=> item[3] = "FUNCTIONS" /\ item[4] = "REQUEST" /\ Len(item) = 4
  BY <1>1, GrantParts
<1>9. /\ sub[2] = "SEND" /\ sub[3] = "DEVICE_TYPE" => e = request("extended")
      /\ sub[2] = "DEVICE_TYPE" /\ sub[3] = "IS" => e = functions("REQUEST")
      /\ sub[2] = "DEVICE_TYPE" /\ sub[3] = "REJECT" => e = request("plain") \/ e = d
      /\ sub[2] = "FUNCTIONS" /\ sub[3] = "IS" => e = [d EXCEPT !.headers = TRUE]
      /\ sub[2] = "FUNCTIONS" /\ sub[3] = "REQUEST" =>
            e = IF Len(sub) = 3 THEN h ELSE functions("REQUEST")
  BY DEF handleTN3270ESubneg
<1>10. ASSUME Keeps(d, e), e.headers = d.headers, item \notin {FunctionsAre, FunctionsWanted}
       PROVE  /\ Carries(d, e) /\ e.envReplies = d.envReplies /\ e.headers = (d.headers \/ Grants(item))
              /\ item # FunctionsWanted => (Told(e, FunctionsAre) <=> Told(d, FunctionsAre))
              /\ item # FunctionsWanted
  BY <1>7, <1>10 DEF Keeps, Grants
<1> HIDE DEF e, request, functions, h, g
<1>11. CASE item[3] = "SEND" /\ item[4] = "DEVICE_TYPE"
  <2>1. e = request("extended") /\ item \notin {FunctionsAre, FunctionsWanted}
    BY <1>2, <1>8, <1>9, <1>11
  <2>2. Keeps(d, e) /\ e.headers = d.headers
    BY <1>3, <2>1
  <2> QED
    BY <1>10, <2>1, <2>2 DEF e, sub
<1>12. CASE item[3] = "DEVICE_TYPE" /\ item[4] = "REJECT"
  <2>1. (e = request("plain") \/ e = d) /\ item \notin {FunctionsAre, FunctionsWanted}
    BY <1>2, <1>8, <1>9, <1>12
  <2>2. Keeps(d, e) /\ e.headers = d.headers
    BY <1>3, <1>7, <2>1
  <2> QED
    BY <1>10, <2>1, <2>2 DEF e, sub
<1>13. CASE item[3] = "DEVICE_TYPE" /\ item[4] = "IS"
  <2>1. e = functions("REQUEST") /\ item \notin {FunctionsAre, FunctionsWanted}
    BY <1>2, <1>8, <1>9, <1>13
  <2>2. Keeps(d, e) /\ e.headers = d.headers
    BY <1>4, <2>1
  <2> QED
    BY <1>10, <2>1, <2>2 DEF e, sub
<1>14. CASE item[3] = "FUNCTIONS" /\ item[4] = "IS" /\ Len(item) = 4
  <2>1. e = [d EXCEPT !.headers = TRUE] /\ item = FunctionsAre /\ item # FunctionsWanted
    BY <1>2, <1>8, <1>9, <1>14
  <2>2. Keeps(d, e) /\ e.headers = TRUE
    BY <1>6, <2>1
  <2>3. Carries(d, e) /\ e.envReplies = d.envReplies /\ (Told(e, FunctionsAre) <=> Told(d, FunctionsAre))
    BY <2>2 DEF Keeps
  <2>4. e.headers = (d.headers \/ Grants(item))
    BY <2>1, <2>2 DEF Grants
  <2> QED
    BY <2>1, <2>3, <2>4 DEF e, sub
<1>15. CASE item[3] = "FUNCTIONS" /\ item[4] = "REQUEST" /\ Len(item) = 4
  <2>1. e = h /\ item = FunctionsWanted
    BY <1>2, <1>8, <1>9, <1>15
  <2>2. e.headers = (d.headers \/ Grants(item))
    BY <1>5, <2>1 DEF Grants
  <2> QED
    BY <1>5, <2>1, <2>2 DEF e, sub
<1>16. CASE item[3] = "FUNCTIONS" /\ item[4] = "REQUEST" /\ Len(item) # 4
  <2>1. e = functions("REQUEST") /\ item \notin {FunctionsAre, FunctionsWanted}
    <3>1. Len(sub) # 3
      BY <1>2, <1>16
    <3> QED
      BY <1>2, <1>8, <1>9, <1>16, <3>1
  <2>2. Keeps(d, e) /\ e.headers = d.headers
    BY <1>4, <2>1
  <2> QED
    BY <1>10, <2>1, <2>2 DEF e, sub
<1> QED
  BY <1>1, <1>11, <1>12, <1>13, <1>14, <1>15, <1>16

\* an item that the host sends as a subnegotiation, where TN3270E has its own
IsRequest(item) ==
    /\ item \in Item /\ Len(item) >= 2 /\ item[1] = "SB"
    /\ item[2] = "TN3270E" => kind = "tn3270" /\ InRfc2355(item)

\* what an item gives that is heard, and what it takes
Gave(d, e, item) ==
    /\ e.headers = IF kind = "tn3270" /\ item = Dont THEN FALSE ELSE (d.headers \/ Grants(item))
    /\ item # FunctionsWanted => (Told(e, FunctionsAre) <=> Told(d, FunctionsAre))
    /\ item = FunctionsWanted /\ d.sock = "up" /\ ~d.xoff => Told(e, FunctionsAre)
    /\ IF kind = "tn5250" /\ item[1] = "SB" /\ item[2] = "NEW_ENVIRON"
       THEN Environs(d, e, Tail(item))
       ELSE e.envReplies = d.envReplies

Hears(d, e, item) == Carries(d, e) /\ Gave(d, e, item)

LEMMA KeepsHears ==
    ASSUME NEW d \in Conn, NEW e, Keeps(d, e), e.headers = d.headers,
           NEW item \in Item, Len(item) >= 2,
           ~Grants(item), ~(kind = "tn3270" /\ item = Dont),
           ~(kind = "tn5250" /\ item[1] = "SB" /\ item[2] = "NEW_ENVIRON")
    PROVE  Hears(d, e, item)
<1>1. d.headers \in BOOLEAN
  BY DEF Conn
<1> QED
  BY <1>1 DEF Hears, Gave, Keeps, Grants

LEMMA Subnegotiating ==
    ASSUME NEW d \in Conn, NEW item, IsRequest(item)
    PROVE  Hears(d, handleSubnegotiation(d, Tail(item)), item)
<1> DEFINE sub == Tail(item)
           e == handleSubnegotiation(d, sub)
           m == <<"SB", "TTYPE", "IS">>
<1>1. /\ item \in Item /\ Len(item) >= 2 /\ item[1] = "SB"
      /\ item[2] = "TN3270E" => kind = "tn3270" /\ InRfc2355(item)
  BY DEF IsRequest
<1>2. sub # <<>> /\ sub[1] = item[2] /\ Len(sub) = Len(item) - 1 /\ Len(item) \in Nat
  BY <1>1, SubParts
<1>3. item # Dont
  <2>1. Dont[1] = "DONT"
    BY DEF Dont
  <2> HIDE DEF Dont
  <2> QED
    BY <1>1, <2>1
<1>4. Grants(item) => item[2] = "TN3270E"
  BY <1>1, GrantParts DEF Grants
<1>5. Keeps(d, sendRaw(d, m)) /\ sendRaw(d, m).headers = d.headers
  <2>1. m \in Message
    BY Messages, Letters
  <2>2. m[1] # "SENT" /\ m # FunctionsAre
    BY DEF FunctionsAre
  <2> HIDE DEF m
  <2> QED
    BY <2>1, <2>2, WriteKeeps
<1>6. Keeps(d, d)
  BY SelfKeeps
<1> HIDE DEF sub
<1>7. /\ sub[1] = "TTYPE" => e = sendRaw(d, m) \/ e = d
      /\ sub[1] = "NEW_ENVIRON" /\ kind = "tn5250" => e = handleEnviron(d, sub)
      /\ sub[1] = "TN3270E" /\ kind = "tn3270" /\ Len(sub) >= 3 => e = handleTN3270ESubneg(d, sub)
      /\ sub[1] # "TTYPE" /\ ~(sub[1] = "NEW_ENVIRON" /\ kind = "tn5250")
         /\ ~(sub[1] = "TN3270E" /\ kind = "tn3270" /\ Len(sub) >= 3) => e = d
  BY <1>2 DEF handleSubnegotiation
<1> HIDE DEF e, m
<1>8. CASE item[2] = "NEW_ENVIRON" /\ kind = "tn5250"
  <2> DEFINE f == handleEnviron(d, sub)
  <2>1. /\ Carries(d, f) /\ f.headers = d.headers
        /\ Told(f, FunctionsAre) <=> Told(d, FunctionsAre)
        /\ Environs(d, f, sub)
    BY <1>8, Environing
  <2>2. e = f
    BY <1>2, <1>7, <1>8
  <2>3. ~Grants(item) /\ item # FunctionsWanted /\ kind # "tn3270" /\ d.headers \in BOOLEAN
    BY <1>4, <1>8 DEF Grants, Conn
  <2> HIDE DEF f
  <2>4. Hears(d, e, item)
    BY <1>1, <1>8, <2>1, <2>2, <2>3 DEF Hears, Gave, sub
  <2> QED
    BY <2>4 DEF e, sub
<1>9. CASE item[2] = "TN3270E"
  <2>0. kind = "tn3270" /\ InRfc2355(item)
    BY <1>1, <1>9
  <2>1. Len(item) >= 4
    BY <1>1, <2>0, Rfc2355
  <2> DEFINE f == handleTN3270ESubneg(d, sub)
  <2>2. e = f
    <3>1. Len(sub) >= 3
      BY <1>2, <2>1
    <3> QED
      BY <1>2, <1>7, <1>9, <2>0, <3>1
  <2>3. /\ Carries(d, f) /\ f.envReplies = d.envReplies
        /\ f.headers = (d.headers \/ Grants(item))
        /\ item # FunctionsWanted => (Told(f, FunctionsAre) <=> Told(d, FunctionsAre))
        /\ item = FunctionsWanted /\ d.sock = "up" /\ ~d.xoff => Told(f, FunctionsAre)
    BY <1>1, <2>0, Subnegotiating3270 DEF sub
  <2> HIDE DEF f
  <2>4. Hears(d, f, item)
    BY <1>3, <2>0, <2>3 DEF Hears, Gave
  <2> QED
    BY <2>2, <2>4 DEF e, sub
<1>10. CASE item[2] # "TN3270E" /\ ~(item[2] = "NEW_ENVIRON" /\ kind = "tn5250")
  <2>1. ~Grants(item)
    BY <1>4, <1>10
  <2>2. e = d \/ e = sendRaw(d, m)
    BY <1>2, <1>7, <1>10
  <2>3. Keeps(d, e) /\ e.headers = d.headers
    BY <1>5, <1>6, <2>2
  <2>4. ~(kind = "tn5250" /\ item[1] = "SB" /\ item[2] = "NEW_ENVIRON")
    BY <1>10
  <2>5. Hears(d, e, item)
    BY <1>1, <1>3, <2>1, <2>3, <2>4, KeepsHears
  <2> QED
    BY <2>5 DEF e, sub
<1> QED
  BY <1>8, <1>9, <1>10

LEMMA Negotiated ==
    ASSUME NEW d \in Conn, NEW verb \in Verbs, NEW option \in Byte
    PROVE  Hears(d, handleNegotiation(d, verb, option), <<verb, option>>)
<1> DEFINE e == handleNegotiation(d, verb, option)
           item == <<verb, option>>
<1>1. Keeps(d, e) /\ e.headers = IF kind = "tn3270" /\ item = Dont THEN FALSE ELSE d.headers
  BY Negotiating
<1>2. item[1] = verb /\ item[2] = option /\ Len(item) = 2 /\ verb # "SB"
  BY DEF Verbs
<1>3. FunctionsAre[1] = "SB" /\ FunctionsWanted[1] = "SB"
  BY DEF FunctionsAre, FunctionsWanted
<1> HIDE DEF e, item
<1>4. ~Grants(item) /\ item # FunctionsWanted
  BY <1>2, <1>3 DEF Grants
<1>5. d.headers \in BOOLEAN
  BY DEF Conn
<1>6. Hears(d, e, item)
  BY <1>1, <1>2, <1>4, <1>5 DEF Hears, Gave, Keeps
<1> QED
  BY <1>6 DEF e, item

-----------------------------------------------------------------------------
(* What the host says, in the pieces that the scanner takes.               *)

Token == [bytes : Seq(Byte), data : Seq(Datum), command : Seq(Item), headers : BOOLEAN]

RecordData(r, headers) ==
    IF ~headers THEN <<r>>
    ELSE IF Len(r) > 5 /\ r[1] \in {"DATA", "SSCP_LU"} THEN <<SubSeq(r, 6, Len(r))>> ELSE <<>>

NothingFits(t, x) ==
    /\ x \notin Verbs \cup {"SB", "IAC"} /\ t.bytes = <<"IAC", x>>
    /\ t.data = <<>> /\ t.command = <<>>

VerbFits(k, t, verb, option) ==
    /\ verb \in Verbs /\ option \in Byte /\ t.bytes = <<"IAC", verb, option>>
    /\ t.data = <<>> /\ t.command = <<<<verb, option>>>>
    /\ option = "TN3270E" => k = "tn3270"

SubFits(k, t, item) ==
    /\ IsSub(item, t.bytes) /\ t.data = <<>> /\ t.command = <<item>>
    /\ item[2] = "TN3270E" => k = "tn3270" /\ InRfc2355(item)

RecordFits(k, t, r) ==
    /\ k \in RecordKinds /\ r \in Seq(Byte) /\ r # <<>> /\ t.bytes = Escaped(r) \o Mark
    /\ t.data = RecordData(r, t.headers) /\ t.command = <<>>

TextFits(k, t, x) ==
    /\ k \notin RecordKinds /\ x \in Byte /\ t.bytes = EscapeOf[x]
    /\ t.data = <<x>> /\ t.command = <<>>
    /\ k = "hp6530" => x \notin {"DC1", "DC3"}

FlowFits(k, t, x) ==
    /\ k = "hp6530" /\ x \in {"DC1", "DC3"} /\ t.bytes = <<x>>
    /\ t.data = <<>> /\ t.command = <<>>

Fits(k, t) ==
    /\ t \in Token
    /\ \/ \E x : NothingFits(t, x)
       \/ \E verb, option : VerbFits(k, t, verb, option)
       \/ \E item : SubFits(k, t, item)
       \/ \E r : RecordFits(k, t, r)
       \/ \E x : TextFits(k, t, x)
       \/ \E x : FlowFits(k, t, x)

\* from d to e, t is taken, and rest is left
Takes(d, e, t, rest) ==
    /\ e \in Conn
    /\ e.buf = rest /\ e.option = d.option /\ e.sendSeq = d.sendSeq
    /\ e.data = d.data \o t.data /\ e.commands = d.commands \o t.command
    /\ e.sock \in {d.sock, "none"} /\ (kind # "tn5250" => e.sock = d.sock)
    /\ \A asks : Flow(kind, d, asks) => Flow(kind, e, asks)
    /\ t.command = <<>> =>
          /\ e.envReplies = d.envReplies
          /\ InRecords => e.headers = d.headers /\ (Told(e, FunctionsAre) <=> Told(d, FunctionsAre))
    /\ \A item : t.command = <<item>> => Gave(d, e, item)

LEMMA EmptyJoins ==
    ASSUME NEW d \in Conn
    PROVE  d.data \o <<>> = d.data /\ d.commands \o <<>> = d.commands
<1>1. \A s \in Seq(Datum) : s \o <<>> = s
  BY Joining
<1>2. \A s \in Seq(Item) : s \o <<>> = s
  BY Joining
<1>3. d.data \in Seq(Datum) /\ d.commands \in Seq(Item)
  BY ConnSet
<1> QED
  BY <1>1, <1>2, <1>3

\* nothing but the buffer, the data and XOFF changed
LEMMA TookData ==
    ASSUME NEW d \in Conn, NEW e \in Conn, NEW t, NEW rest,
           e.buf = rest, e.option = d.option, e.sendSeq = d.sendSeq, e.sock = d.sock,
           e.data = d.data \o t.data, e.commands = d.commands, t.command = <<>>,
           e.envReplies = d.envReplies, e.headers = d.headers, InRecords => e.out = d.out,
           \A asks : Flow(kind, d, asks) => Flow(kind, e, asks)
    PROVE  Takes(d, e, t, rest)
<1>1. InRecords => (Told(e, FunctionsAre) <=> Told(d, FunctionsAre))
  BY DEF Told
<1>2. e.commands = d.commands \o t.command
  BY EmptyJoins
<1>3. \A item : t.command # <<item>>
  OBVIOUS
<1> QED
  BY <1>1, <1>2, <1>3 DEF Takes

LEMMA BufferFlow ==
    ASSUME NEW d, NEW e, e.sock = d.sock, e.out = d.out, e.sendQueue = d.sendQueue, e.xoff = d.xoff
    PROVE  \A asks : Flow(kind, d, asks) => Flow(kind, e, asks)
BY DEF Flow

LEMMA NothingTaken ==
    ASSUME NEW d, NEW t, NEW x, NothingFits(t, x), NEW rest, HasAhead(d, t.bytes, rest)
    PROVE  Takes(d, Take(d), t, rest)
<1> DEFINE e == [d EXCEPT !.buf = rest]
<1>0. d \in Conn /\ rest \in Seq(Byte)
  BY DEF HasAhead
<1>1. Take(d) = e
  <2>1. HasAhead(d, <<"IAC", x>>, rest) /\ x \notin Verbs \cup {"SB", "IAC"}
    BY DEF NothingFits
  <2> QED
    BY <2>1, TakeNothing
<1>2. e \in Conn /\ e.buf = rest
  BY <1>0, ConnBuf
<1>3. /\ e.option = d.option /\ e.sendSeq = d.sendSeq /\ e.sock = d.sock /\ e.data = d.data
      /\ e.commands = d.commands /\ e.envReplies = d.envReplies /\ e.headers = d.headers
      /\ e.out = d.out /\ e.sendQueue = d.sendQueue /\ e.xoff = d.xoff
  BY <1>0 DEF Conn
<1> HIDE DEF e
<1>4. t.command = <<>> /\ e.data = d.data \o t.data
  BY <1>0, <1>3, EmptyJoins DEF NothingFits
<1>5. \A asks : Flow(kind, d, asks) => Flow(kind, e, asks)
  BY <1>3, BufferFlow
<1>6. Takes(d, e, t, rest)
  BY <1>0, <1>2, <1>3, <1>4, <1>5, TookData
<1> QED
  BY <1>1, <1>6

\* d with the item put to what is heard
LEMMA Hearing ==
    ASSUME NEW d \in Conn, NEW rest \in Seq(Byte), NEW item \in Item, NEW t,
           t.data = <<>>, t.command = <<item>>, NEW e,
           Hears([[d EXCEPT !.buf = rest] EXCEPT !.commands = Append(@, item)], e, item)
    PROVE  Takes(d, e, t, rest)
<1> DEFINE f == [d EXCEPT !.buf = rest]
           g == [f EXCEPT !.commands = Append(@, item)]
<1>1. f \in Conn /\ f.buf = rest
  BY ConnBuf
<1>2. /\ f.option = d.option /\ f.sendSeq = d.sendSeq /\ f.sock = d.sock /\ f.data = d.data
      /\ f.commands = d.commands /\ f.envReplies = d.envReplies /\ f.headers = d.headers
      /\ f.out = d.out /\ f.sendQueue = d.sendQueue /\ f.xoff = d.xoff
  BY DEF Conn
<1>3. d.commands \in Seq(Item) /\ Append(d.commands, item) \in Seq(Item)
      /\ Append(d.commands, item) = d.commands \o <<item>>
  <2> DEFINE q == d.commands
  <2>1. q \in Seq(Item)
    BY ConnSet
  <2> HIDE DEF q
  <2> QED
    BY <2>1, Appending DEF q
<1> HIDE DEF f
<1>4. g = [f EXCEPT !.commands = Append(d.commands, item)]
  BY <1>2
<1>5. /\ g.option = f.option /\ g.sendSeq = f.sendSeq /\ g.sock = f.sock /\ g.data = f.data
      /\ g.envReplies = f.envReplies /\ g.headers = f.headers /\ g.buf = f.buf
      /\ g.out = f.out /\ g.sendQueue = f.sendQueue /\ g.xoff = f.xoff
      /\ g.commands = Append(d.commands, item)
  BY <1>1, <1>4 DEF Conn
<1>6. Hears(g, e, item)
  BY DEF f
<1> HIDE DEF g
<1>7. Carries(g, e) /\ Gave(g, e, item)
  BY <1>6 DEF Hears
<1>8. Gave(d, e, item)
  <2>1. Told(g, FunctionsAre) <=> Told(d, FunctionsAre)
    BY <1>2, <1>5 DEF Told
  <2>2. Environs(g, e, Tail(item)) => Environs(d, e, Tail(item))
    BY <1>2, <1>5 DEF Environs
  <2> QED
    BY <1>2, <1>5, <1>7, <2>1, <2>2 DEF Gave
<1>9. \A asks : Flow(kind, d, asks) => Flow(kind, e, asks)
  <2>1. \A asks : Flow(kind, d, asks) => Flow(kind, g, asks)
    <3>1. g.sock = d.sock /\ g.out = d.out /\ g.sendQueue = d.sendQueue /\ g.xoff = d.xoff
      BY <1>2, <1>5
    <3> QED
      BY <3>1, BufferFlow
  <2> QED
    BY <1>7, <2>1 DEF Carries
<1>10. e.data = d.data \o t.data /\ e.commands = d.commands \o t.command
  <2>1. e.data = d.data /\ e.commands = Append(d.commands, item)
    BY <1>2, <1>5, <1>7 DEF Carries
  <2> QED
    BY <1>3, <2>1, EmptyJoins
<1>11. /\ e \in Conn /\ e.buf = rest /\ e.option = d.option /\ e.sendSeq = d.sendSeq
       /\ e.sock \in {d.sock, "none"} /\ (kind # "tn5250" => e.sock = d.sock)
  BY <1>1, <1>2, <1>5, <1>7 DEF Carries
<1>12. t.command # <<>> /\ \A i : t.command = <<i>> => i = item
  OBVIOUS
<1> QED
  BY <1>8, <1>9, <1>10, <1>11, <1>12 DEF Takes

LEMMA VerbTaken ==
    ASSUME NEW d, NEW t, NEW verb, NEW option, VerbFits(kind, t, verb, option),
           NEW rest, HasAhead(d, t.bytes, rest)
    PROVE  Takes(d, Take(d), t, rest)
<1> DEFINE item == <<verb, option>>
           f == [d EXCEPT !.buf = rest]
           g == [f EXCEPT !.commands = Append(@, item)]
           e == handleNegotiation(g, verb, option)
<1>0. d \in Conn /\ rest \in Seq(Byte) /\ verb \in Verbs /\ option \in Byte
  BY DEF HasAhead, VerbFits
<1>1. Take(d) = e
  <2>1. HasAhead(d, <<"IAC", verb, option>>, rest)
    BY DEF VerbFits
  <2> QED
    BY <1>0, <2>1, TakeVerb
<1>2. item \in Item
  <2>1. verb \in Byte
    BY <1>0 DEF Byte
  <2> QED
    BY <1>0, <2>1 DEF Item
<1>3. g \in Conn
  <2>1. f \in Conn
    BY <1>0, ConnBuf
  <2>2. Append(f.commands, item) \in Seq(Item)
    BY <1>2, <2>1, ConnSet, Appending
  <2> HIDE DEF f, item
  <2> QED
    BY <2>1, <2>2, ConnSet
<1>4. Hears(g, e, item)
  <2> HIDE DEF g
  <2> QED
    BY <1>0, <1>3, Negotiated
<1>5. t.data = <<>> /\ t.command = <<item>>
  BY DEF VerbFits
<1> HIDE DEF e
<1>6. Hears([[d EXCEPT !.buf = rest] EXCEPT !.commands = Append(@, item)], e, item)
  BY <1>4
<1> HIDE DEF item
<1>7. Takes(d, e, t, rest)
  BY <1>0, <1>2, <1>5, <1>6, Hearing
<1> QED
  BY <1>1, <1>7

LEMMA SubTaken ==
    ASSUME NEW d, NEW t, NEW item, SubFits(kind, t, item), NEW rest, HasAhead(d, t.bytes, rest)
    PROVE  Takes(d, Take(d), t, rest)
<1> DEFINE f == [d EXCEPT !.buf = rest]
           g == [f EXCEPT !.commands = Append(@, item)]
           e == handleSubnegotiation(g, Tail(item))
<1>0. d \in Conn /\ rest \in Seq(Byte) /\ item \in Item /\ IsSub(item, t.bytes)
  BY DEF HasAhead, SubFits, IsSub, Item
<1>1. Take(d) = e
  BY <1>0, TakeSub
<1>3. g \in Conn
  <2>1. f \in Conn
    BY <1>0, ConnBuf
  <2>2. Append(f.commands, item) \in Seq(Item)
    BY <1>0, <2>1, ConnSet, Appending
  <2> HIDE DEF f
  <2> QED
    BY <2>1, <2>2, ConnSet
<1>4. Hears(g, e, item)
  <2>1. IsRequest(item)
    BY <1>0 DEF SubFits, IsRequest, IsSub
  <2> HIDE DEF g
  <2> QED
    BY <1>3, <2>1, Subnegotiating
<1>5. t.data = <<>> /\ t.command = <<item>>
  BY DEF SubFits
<1> HIDE DEF e
<1>6. Hears([[d EXCEPT !.buf = rest] EXCEPT !.commands = Append(@, item)], e, item)
  BY <1>4
<1>7. Takes(d, e, t, rest)
  BY <1>0, <1>5, <1>6, Hearing
<1> QED
  BY <1>1, <1>7

LEMMA RecordTaken ==
    ASSUME NEW d, NEW t, NEW r, RecordFits(kind, t, r), t.headers = d.headers,
           NEW rest, HasAhead(d, t.bytes, rest)
    PROVE  Takes(d, Take(d), t, rest)
<1> DEFINE f == [d EXCEPT !.buf = rest]
           e == onRecord(f, r)
           more == RecordData(r, d.headers)
<1>0. /\ d \in Conn /\ rest \in Seq(Byte) /\ r \in Seq(Byte) /\ r # <<>> /\ InRecords
      /\ t.data = more /\ t.command = <<>>
  BY DEF HasAhead, RecordFits, InRecords
<1>1. Take(d) = e
  <2>1. HasAhead(d, Escaped(r) \o Mark, rest)
    BY DEF RecordFits
  <2> QED
    BY <1>0, <2>1, TakeRecordThere
<1>2. f \in Conn /\ f.buf = rest
  BY <1>0, ConnBuf
<1>3. /\ f.option = d.option /\ f.sendSeq = d.sendSeq /\ f.sock = d.sock /\ f.data = d.data
      /\ f.commands = d.commands /\ f.envReplies = d.envReplies /\ f.headers = d.headers
      /\ f.out = d.out /\ f.sendQueue = d.sendQueue /\ f.xoff = d.xoff
  BY <1>0 DEF Conn
<1> HIDE DEF f
<1>4. SubSeq(r, 6, Len(r)) \in Seq(Byte)
  BY <1>0
<1>5. \A x \in Datum : Append(f.data, x) \in Seq(Datum) /\ Append(f.data, x) = f.data \o <<x>>
  <2> DEFINE q == f.data
  <2>1. q \in Seq(Datum)
    BY <1>2, ConnSet
  <2> HIDE DEF q
  <2> QED
    BY <2>1, Appending DEF q
<1>6. r \in Datum /\ SubSeq(r, 6, Len(r)) \in Datum
  BY <1>0, <1>4 DEF Datum
<1> DEFINE g(x) == [f EXCEPT !.data = Append(@, x)]
<1>7. \A x \in Datum :
         /\ g(x) \in Conn /\ g(x).data = f.data \o <<x>>
         /\ g(x).option = f.option /\ g(x).sendSeq = f.sendSeq /\ g(x).sock = f.sock /\ g(x).buf = f.buf
         /\ g(x).commands = f.commands /\ g(x).envReplies = f.envReplies /\ g(x).headers = f.headers
         /\ g(x).out = f.out /\ g(x).sendQueue = f.sendQueue /\ g(x).xoff = f.xoff
  <2> TAKE x \in Datum
  <2> DEFINE y == Append(f.data, x)
  <2>1. y \in Seq(Datum) /\ y = f.data \o <<x>>
    BY <1>5
  <2> HIDE DEF y
  <2>2. [f EXCEPT !.data = y] \in Conn
    BY <1>2, <2>1, ConnSet
  <2>3. g(x) = [f EXCEPT !.data = y]
    BY DEF y
  <2>4. g(x).data = y
    BY <1>2, <2>3 DEF Conn
  <2>5. /\ g(x).option = f.option /\ g(x).sendSeq = f.sendSeq /\ g(x).sock = f.sock /\ g(x).buf = f.buf
        /\ g(x).commands = f.commands /\ g(x).envReplies = f.envReplies /\ g(x).headers = f.headers
        /\ g(x).out = f.out /\ g(x).sendQueue = f.sendQueue /\ g(x).xoff = f.xoff
    BY <1>2, <2>3 DEF Conn
  <2> HIDE DEF g
  <2> QED
    BY <2>1, <2>2, <2>3, <2>4, <2>5
<1>8. f.data \o <<>> = f.data
  BY <1>2, EmptyJoins
<1>9. \/ e = f /\ more = <<>>
      \/ \E x \in Datum : e = g(x) /\ more = <<x>>
  <2> DEFINE s == SubSeq(r, 6, Len(r))
             typed == Len(r) > 5 /\ r[1] \in {"DATA", "SSCP_LU"}
  <2>1. CASE ~d.headers
    <3>1. e = g(r)
      BY <1>0, <1>3, <2>1 DEF onRecord
    <3>2. more = <<r>>
      BY <2>1 DEF RecordData
    <3> HIDE DEF e, g, more
    <3> QED
      BY <1>6, <3>1, <3>2
  <2>2. CASE d.headers /\ typed
    <3>1. e = g(s)
      BY <1>0, <1>3, <2>2 DEF onRecord
    <3>2. more = <<s>>
      BY <2>2 DEF RecordData
    <3>3. s \in Datum
      BY <1>6
    <3> HIDE DEF e, g, more, s
    <3> QED
      BY <3>1, <3>2, <3>3
  <2>3. CASE d.headers /\ ~typed
    <3>1. e = f
      BY <1>0, <1>3, <2>3 DEF onRecord
    <3>2. more = <<>>
      BY <2>3 DEF RecordData
    <3> QED
      BY <3>1, <3>2
  <2> QED
    BY <2>1, <2>2, <2>3
<1> HIDE DEF g, e, more
<1>10. /\ e \in Conn /\ e.data = f.data \o more
       /\ e.option = f.option /\ e.sendSeq = f.sendSeq /\ e.sock = f.sock /\ e.buf = f.buf
       /\ e.commands = f.commands /\ e.envReplies = f.envReplies /\ e.headers = f.headers
       /\ e.out = f.out /\ e.sendQueue = f.sendQueue /\ e.xoff = f.xoff
  BY <1>2, <1>7, <1>8, <1>9
<1>11. \A asks : Flow(kind, d, asks) => Flow(kind, e, asks)
  <2>1. e.sock = d.sock /\ e.out = d.out /\ e.sendQueue = d.sendQueue /\ e.xoff = d.xoff
    BY <1>3, <1>10
  <2> QED
    BY <2>1, BufferFlow
<1>12. e.data = d.data \o t.data
  BY <1>0, <1>3, <1>10
<1>13. Takes(d, e, t, rest)
  BY <1>0, <1>2, <1>3, <1>10, <1>11, <1>12, TookData
<1> QED
  BY <1>1, <1>13

LEMMA TextTaken ==
    ASSUME NEW d, NEW t, NEW x, TextFits(kind, t, x), NEW rest, HasAhead(d, t.bytes, rest)
    PROVE  Takes(d, Take(d), t, rest)
<1> DEFINE f == [d EXCEPT !.buf = rest]
           e == [f EXCEPT !.data = Append(@, x)]
<1>0. /\ d \in Conn /\ rest \in Seq(Byte) /\ x \in Byte /\ ~InRecords
      /\ t.data = <<x>> /\ t.command = <<>>
  BY DEF HasAhead, TextFits, InRecords
<1>1. Take(d) = e
  <2>1. HasAhead(d, EscapeOf[x], rest) /\ (kind = "hp6530" => x \notin {"DC1", "DC3"})
    BY DEF TextFits
  <2> QED
    BY <1>0, <2>1, TakeTextThere
<1>2. f \in Conn /\ f.buf = rest
  BY <1>0, ConnBuf
<1>3. /\ f.option = d.option /\ f.sendSeq = d.sendSeq /\ f.sock = d.sock /\ f.data = d.data
      /\ f.commands = d.commands /\ f.envReplies = d.envReplies /\ f.headers = d.headers
      /\ f.out = d.out /\ f.sendQueue = d.sendQueue /\ f.xoff = d.xoff
  BY <1>0 DEF Conn
<1> HIDE DEF f
<1> DEFINE y == Append(d.data, x)
<1>4. y \in Seq(Datum) /\ y = d.data \o <<x>>
  <2> DEFINE q == d.data
  <2>1. q \in Seq(Datum) /\ x \in Datum
    BY <1>0, ConnSet DEF Datum
  <2> HIDE DEF q
  <2> QED
    BY <2>1, Appending DEF q
<1> HIDE DEF y
<1>5. e = [f EXCEPT !.data = y]
  BY <1>3 DEF y
<1>6. e \in Conn
  BY <1>2, <1>4, <1>5, ConnSet
<1>7. /\ e.option = f.option /\ e.sendSeq = f.sendSeq /\ e.sock = f.sock /\ e.data = y
      /\ e.commands = f.commands /\ e.envReplies = f.envReplies /\ e.headers = f.headers
      /\ e.out = f.out /\ e.sendQueue = f.sendQueue /\ e.xoff = f.xoff /\ e.buf = f.buf
  BY <1>2, <1>5 DEF Conn
<1> HIDE DEF e
<1>8. \A asks : Flow(kind, d, asks) => Flow(kind, e, asks)
  <2>1. e.sock = d.sock /\ e.out = d.out /\ e.sendQueue = d.sendQueue /\ e.xoff = d.xoff
    BY <1>3, <1>7
  <2> QED
    BY <2>1, BufferFlow
<1>9. e.data = d.data \o t.data
  BY <1>0, <1>4, <1>7
<1>10. Takes(d, e, t, rest)
  BY <1>0, <1>2, <1>3, <1>6, <1>7, <1>8, <1>9, TookData
<1> QED
  BY <1>1, <1>10

LEMMA FlowTaken ==
    ASSUME NEW d, NEW t, NEW x, FlowFits(kind, t, x), NEW rest, HasAhead(d, t.bytes, rest)
    PROVE  Takes(d, Take(d), t, rest)
<1> DEFINE f == [d EXCEPT !.buf = rest]
           e == Take(d)
<1>0. /\ d \in Conn /\ rest \in Seq(Byte) /\ x \in {"DC1", "DC3"} /\ kind = "hp6530" /\ ~InRecords
      /\ t.data = <<>> /\ t.command = <<>>
  BY DEF HasAhead, FlowFits, InRecords, RecordKinds
<1>1. e = IF x = "DC3" THEN [f EXCEPT !.xoff = TRUE] ELSE flushSendQueue(f)
  <2>1. HasAhead(d, <<x>>, rest)
    BY DEF FlowFits
  <2> QED
    BY <1>0, <2>1, TakeFlow
<1>2. f \in Conn /\ f.buf = rest
  BY <1>0, ConnBuf
<1>3. /\ f.option = d.option /\ f.sendSeq = d.sendSeq /\ f.sock = d.sock /\ f.data = d.data
      /\ f.commands = d.commands /\ f.envReplies = d.envReplies /\ f.headers = d.headers
      /\ f.out = d.out /\ f.sendQueue = d.sendQueue /\ f.xoff = d.xoff
  BY <1>0 DEF Conn
<1> HIDE DEF f
<1> DEFINE q == d.out \o d.sendQueue
<1>4. /\ q \in Seq(Message) /\ SentOf(q) = SentOf(d.out) \o SentOf(d.sendQueue)
      /\ SentOf(<<>>) = <<>> /\ SentOf(q) \o <<>> = SentOf(q)
  <2> DEFINE a == d.out
             b == d.sendQueue
  <2>1. a \in Seq(Message) /\ b \in Seq(Message)
    BY <1>0, ConnSet
  <2> HIDE DEF a, b
  <2>2. a \o b \in Seq(Message)
    BY <2>1, Joining
  <2>3. SentOf(a \o b) = SentOf(a) \o SentOf(b) /\ SentOf(<<>>) = <<>>
    BY <2>1, SentJoin
  <2>4. SentOf(a \o b) \in Seq(Message)
    BY <2>1, <2>2, SentJoin
  <2> DEFINE s == SentOf(a \o b)
  <2>5. s \in Seq(Message)
    BY <2>4
  <2> HIDE DEF s
  <2>6. s \o <<>> = s
    BY <2>5, Joining
  <2> QED
    BY <2>2, <2>3, <2>6 DEF a, b, s
<1> HIDE DEF q
<1>5. CASE x = "DC3"
  <2>1. e = [f EXCEPT !.xoff = TRUE]
    BY <1>1, <1>5
  <2> HIDE DEF e
  <2>2. e \in Conn
    <3> DEFINE M == Seq(Message)
               B == Seq(Byte)
               I == Seq(Item)
               D == Seq(Datum)
    <3> HIDE DEF M, B, I, D
    <3> QED
      BY <1>2, <2>1 DEF Conn, M, B, I, D
  <2>3. /\ e.option = f.option /\ e.sendSeq = f.sendSeq /\ e.sock = f.sock /\ e.data = f.data
        /\ e.commands = f.commands /\ e.envReplies = f.envReplies /\ e.headers = f.headers
        /\ e.out = f.out /\ e.sendQueue = f.sendQueue /\ e.xoff = TRUE /\ e.buf = f.buf
    BY <1>2, <2>1 DEF Conn
  <2>4. \A asks : Flow(kind, d, asks) => Flow(kind, e, asks)
    BY <1>0, <1>3, <2>3 DEF Flow
  <2>5. e.data = d.data \o t.data
    BY <1>0, <1>3, <2>3, EmptyJoins
  <2> QED
    BY <1>0, <1>2, <1>3, <2>2, <2>3, <2>4, <2>5, TookData DEF e
<1>6. CASE x = "DC1"
  <2>1. e = [f EXCEPT !.xoff = FALSE, !.out = q, !.sendQueue = <<>>]
    <3>1. e = flushSendQueue(f)
      BY <1>1, <1>6
    <3>2. f.out \o f.sendQueue = q
      BY <1>3 DEF q
    <3> HIDE DEF e
    <3> QED
      BY <3>1, <3>2 DEF flushSendQueue
  <2> HIDE DEF e
  <2>2. e \in Conn
    <3> DEFINE M == Seq(Message)
               B == Seq(Byte)
               I == Seq(Item)
               D == Seq(Datum)
    <3>1. q \in M /\ <<>> \in M
      BY <1>4
    <3> HIDE DEF M, B, I, D
    <3> QED
      BY <1>2, <2>1, <3>1 DEF Conn, M, B, I, D
  <2>3. /\ e.option = f.option /\ e.sendSeq = f.sendSeq /\ e.sock = f.sock /\ e.data = f.data
        /\ e.commands = f.commands /\ e.envReplies = f.envReplies /\ e.headers = f.headers
        /\ e.out = q /\ e.sendQueue = <<>> /\ e.xoff = FALSE /\ e.buf = f.buf
    BY <1>2, <2>1 DEF Conn
  <2>4. \A asks : Flow(kind, d, asks) => Flow(kind, e, asks)
    BY <1>0, <1>3, <1>4, <2>3 DEF Flow
  <2>5. e.data = d.data \o t.data
    BY <1>0, <1>3, <2>3, EmptyJoins
  <2> QED
    BY <1>0, <1>2, <1>3, <2>2, <2>3, <2>4, <2>5, TookData DEF e
<1> QED
  BY <1>0, <1>5, <1>6

\* the scanner takes what is there whole ...
LEMMA TokenTaken ==
    ASSUME NEW d, NEW t, Fits(kind, t), InRecords => t.headers = d.headers,
           NEW rest, HasAhead(d, t.bytes, rest)
    PROVE  Takes(d, Take(d), t, rest)
<1>1. CASE \E x : NothingFits(t, x)
  BY <1>1, NothingTaken
<1>2. CASE \E verb, option : VerbFits(kind, t, verb, option)
  BY <1>2, VerbTaken
<1>3. CASE \E item : SubFits(kind, t, item)
  BY <1>3, SubTaken
<1>4. CASE \E r : RecordFits(kind, t, r)
  <2>1. PICK r : RecordFits(kind, t, r)
    BY <1>4
  <2>2. t.headers = d.headers
    BY <2>1 DEF RecordFits, InRecords
  <2> QED
    BY <2>1, <2>2, RecordTaken
<1>5. CASE \E x : TextFits(kind, t, x)
  BY <1>5, TextTaken
<1>6. CASE \E x : FlowFits(kind, t, x)
  BY <1>6, FlowTaken
<1> QED
  BY <1>1, <1>2, <1>3, <1>4, <1>5, <1>6 DEF Fits

\* ... and waits for what is not
LEMMA TokenAwaited ==
    ASSUME NEW d, NEW t, Fits(kind, t), HasPart(d, t.bytes)
    PROVE  Take(d) = d
<1>1. CASE \E x : NothingFits(t, x)
  <2>1. PICK x : NothingFits(t, x)
    BY <1>1
  <2> DEFINE w == <<"IAC", x>>
  <2>2. HasPart(d, w)
    BY <2>1 DEF NothingFits
  <2>3. Len(w) <= 2 /\ w[1] = "IAC"
    OBVIOUS
  <2> HIDE DEF w
  <2> QED
    BY <2>2, <2>3, ShortWaits
<1>2. CASE \E verb, option : VerbFits(kind, t, verb, option)
  BY <1>2, VerbWaits DEF VerbFits
<1>3. CASE \E item : SubFits(kind, t, item)
  BY <1>3, SubWaits DEF SubFits
<1>4. CASE \E r : RecordFits(kind, t, r)
  BY <1>4, RecordWaits DEF RecordFits, InRecords
<1>5. CASE \E x : TextFits(kind, t, x)
  BY <1>5, TextWaits DEF TextFits
<1>6. CASE \E x : FlowFits(kind, t, x)
  <2>1. PICK x : FlowFits(kind, t, x)
    BY <1>6
  <2> DEFINE w == <<x>>
  <2>2. HasPart(d, w)
    BY <2>1 DEF FlowFits
  <2>3. Len(w) = 1 /\ Len(w) <= 2
    OBVIOUS
  <2> HIDE DEF w
  <2> QED
    BY <2>2, <2>3, ShortWaits
<1> QED
  BY <1>1, <1>2, <1>3, <1>4, <1>5, <1>6 DEF Fits

LEMMA TokenHasBytes ==
    ASSUME NEW k, NEW t, Fits(k, t)
    PROVE  t.bytes \in Seq(Byte) /\ Len(t.bytes) \in Nat /\ Len(t.bytes) >= 1
<1>0. t.bytes \in Seq(Byte) /\ Len(t.bytes) \in Nat
  BY DEF Fits, Token
<1>1. CASE \E x : NothingFits(t, x)
  <2>1. PICK x : t.bytes = <<"IAC", x>>
    BY <1>1 DEF NothingFits
  <2>2. Len(<<"IAC", x>>) = 2
    OBVIOUS
  <2> QED
    BY <1>0, <2>1, <2>2
<1>2. CASE \E verb, option : VerbFits(k, t, verb, option)
  <2>1. PICK verb, option : t.bytes = <<"IAC", verb, option>>
    BY <1>2 DEF VerbFits
  <2>2. Len(<<"IAC", verb, option>>) = 3
    OBVIOUS
  <2> QED
    BY <1>0, <2>1, <2>2
<1>3. CASE \E item : SubFits(k, t, item)
  <2>1. PICK item : SubFits(k, t, item)
    BY <1>3
  <2>2. item \in Seq(Byte) /\ t.bytes = <<"IAC">> \o item \o <<"IAC", "SE">> /\ "IAC" \in Byte /\ "SE" \in Byte
    BY <2>1 DEF SubFits, IsSub, Byte
  <2> QED
    BY <2>2
<1>4. CASE \E r : RecordFits(k, t, r)
  <2>1. PICK r : RecordFits(k, t, r)
    BY <1>4
  <2>2. Escaped(r) \in Seq(Byte) /\ t.bytes = Escaped(r) \o Mark
    BY <2>1, EscapesAreUndone DEF RecordFits
  <2>3. Mark \in Seq(Byte) /\ Len(Mark) = 2
    BY DEF Mark, Byte
  <2> QED
    BY <2>2, <2>3
<1>5. CASE \E x : TextFits(k, t, x)
  BY <1>5 DEF TextFits, EscapeOf
<1>6. CASE \E x : FlowFits(k, t, x)
  <2>1. PICK x : t.bytes = <<x>>
    BY <1>6 DEF FlowFits
  <2>2. Len(<<x>>) = 1
    OBVIOUS
  <2> QED
    BY <1>0, <2>1, <2>2
<1> QED
  BY <1>0, <1>1, <1>2, <1>3, <1>4, <1>5, <1>6 DEF Fits

-----------------------------------------------------------------------------
(* The pieces that are not taken yet, and a turn of the scanner.           *)

BytesOfToken == [t \in Token |-> t.bytes]
DataOfToken == [t \in Token |-> t.data]
CommandOfToken == [t \in Token |-> t.command]
Bytes(ts) == Gather(BytesOfToken, ts)
Datas(ts) == Gather(DataOfToken, ts)
Commands(ts) == Gather(CommandOfToken, ts)

LEMMA TokenParts ==
    /\ Makes(BytesOfToken, Token, Byte) /\ Makes(DataOfToken, Token, Datum)
    /\ Makes(CommandOfToken, Token, Item)
<1> DEFINE B == Seq(Byte)
           D == Seq(Datum)
           I == Seq(Item)
<1>1. \A t \in Token : t.bytes \in B /\ t.data \in D /\ t.command \in I
  <2> HIDE DEF B, D, I
  <2> QED
    BY DEF Token, B, D, I
<1> HIDE DEF B, D, I
<1>2. /\ BytesOfToken \in [Token -> B] /\ DataOfToken \in [Token -> D]
      /\ CommandOfToken \in [Token -> I]
  BY <1>1 DEF BytesOfToken, DataOfToken, CommandOfToken
<1> QED
  BY <1>2 DEF Makes, B, D, I

LEMMA StreamHead ==
    ASSUME NEW ts \in Seq(Token), ts # <<>>
    PROVE  /\ Bytes(ts) = ts[1].bytes \o Bytes(Tail(ts))
           /\ Datas(ts) = ts[1].data \o Datas(Tail(ts))
           /\ Commands(ts) = ts[1].command \o Commands(Tail(ts))
           /\ Tail(ts) \in Seq(Token) /\ ts[1] \in Token
<1>1. Tail(ts) \in Seq(Token) /\ ts[1] \in Token
  BY Taking
<1>2. /\ BytesOfToken[ts[1]] = ts[1].bytes /\ DataOfToken[ts[1]] = ts[1].data
      /\ CommandOfToken[ts[1]] = ts[1].command
  BY <1>1 DEF BytesOfToken, DataOfToken, CommandOfToken
<1>3. /\ Gather(BytesOfToken, ts) = BytesOfToken[ts[1]] \o Gather(BytesOfToken, Tail(ts))
      /\ Gather(DataOfToken, ts) = DataOfToken[ts[1]] \o Gather(DataOfToken, Tail(ts))
      /\ Gather(CommandOfToken, ts) = CommandOfToken[ts[1]] \o Gather(CommandOfToken, Tail(ts))
  BY TokenParts, GatherHead
<1> QED
  BY <1>1, <1>2, <1>3 DEF Bytes, Datas, Commands

LEMMA StreamType ==
    ASSUME NEW ts \in Seq(Token)
    PROVE  /\ Bytes(ts) \in Seq(Byte) /\ Datas(ts) \in Seq(Datum) /\ Commands(ts) \in Seq(Item)
           /\ Bytes(<<>>) = <<>> /\ Datas(<<>>) = <<>> /\ Commands(<<>>) = <<>>
BY TokenParts, GatherType, GatherNone DEF Bytes, Datas, Commands

LEMMA StreamJoin ==
    ASSUME NEW ts \in Seq(Token), NEW uu \in Seq(Token)
    PROVE  /\ Bytes(ts \o uu) = Bytes(ts) \o Bytes(uu)
           /\ Datas(ts \o uu) = Datas(ts) \o Datas(uu)
           /\ Commands(ts \o uu) = Commands(ts) \o Commands(uu)
<1>1. Gather(BytesOfToken, ts \o uu) = Gather(BytesOfToken, ts) \o Gather(BytesOfToken, uu)
  BY TokenParts, GatherJoin
<1>2. Gather(DataOfToken, ts \o uu) = Gather(DataOfToken, ts) \o Gather(DataOfToken, uu)
  BY TokenParts, GatherJoin
<1>3. Gather(CommandOfToken, ts \o uu) = Gather(CommandOfToken, ts) \o Gather(CommandOfToken, uu)
  BY TokenParts, GatherJoin
<1> QED
  BY <1>1, <1>2, <1>3 DEF Bytes, Datas, Commands

Stream(k, ts) == ts \in Seq(Token) /\ \A i \in 1 .. Len(ts) : Fits(k, ts[i])

Of(x, s) == \E i \in 1 .. Len(s) : s[i] = x

LEMMA OfGathered ==
    ASSUME NEW U, NEW S, NEW F, Makes(F, U, S), NEW ss \in Seq(U), NEW y
    PROVE  Of(y, Gather(F, ss)) <=> \E i \in 1 .. Len(ss) : Of(y, F[ss[i]])
<1>1. (\E m \in 1 .. Len(Gather(F, ss)) : Gather(F, ss)[m] = y)
         <=> \E i \in 1 .. Len(ss) : \E j \in 1 .. Len(F[ss[i]]) : F[ss[i]][j] = y
  BY GatherMembers
<1> QED
  BY <1>1, Zenon DEF Of

\* Parts with nothing in them make nothing
LEMMA GatherEmpties ==
    ASSUME NEW U, NEW S, NEW F, Makes(F, U, S), NEW ss \in Seq(U),
           \A i \in 1 .. Len(ss) : F[ss[i]] = <<>>
    PROVE  Gather(F, ss) = <<>>
<1> DEFINE g == Gather(F, ss)
<1>1. g \in Seq(S)
  BY GatherType
<1>2. \A y : Of(y, g) <=> \E i \in 1 .. Len(ss) : Of(y, F[ss[i]])
  BY OfGathered
<1> HIDE DEF g
<1>3. \A y : ~Of(y, <<>>)
  BY DEF Of
<1>4. \A y : ~Of(y, g)
  BY <1>2, <1>3
<1>5. SUFFICES ASSUME g # <<>> PROVE FALSE
  BY DEF g
<1>6. 1 \in 1 .. Len(g)
  BY <1>1, <1>5
<1> QED
  BY <1>4, <1>6 DEF Of

LEMMA OfJoin ==
    ASSUME NEW S, NEW s \in Seq(S), NEW r \in Seq(S), NEW x
    PROVE  Of(x, s \o r) <=> Of(x, s) \/ Of(x, r)
<1> DEFINE q == s \o r
<1>1. /\ Len(s) \in Nat /\ Len(r) \in Nat /\ Len(q) = Len(s) + Len(r)
      /\ \A i \in 1 .. Len(s) : q[i] = s[i]
      /\ \A i \in 1 .. Len(r) : q[Len(s) + i] = r[i]
  OBVIOUS
<1> HIDE DEF q
<1>2. \A i \in 1 .. Len(q) : i \in 1 .. Len(s) \/ (i - Len(s) \in 1 .. Len(r) /\ Len(s) + (i - Len(s)) = i)
  BY <1>1
<1>3. (\A i \in 1 .. Len(s) : i \in 1 .. Len(q)) /\ (\A i \in 1 .. Len(r) : Len(s) + i \in 1 .. Len(q))
  BY <1>1
<1>4. ASSUME Of(x, q) PROVE Of(x, s) \/ Of(x, r)
  <2>1. PICK i \in 1 .. Len(q) : q[i] = x
    BY <1>4 DEF Of
  <2>2. CASE i \in 1 .. Len(s)
    BY <1>1, <2>1, <2>2 DEF Of
  <2>3. CASE i - Len(s) \in 1 .. Len(r) /\ Len(s) + (i - Len(s)) = i
    BY <1>1, <2>1, <2>3 DEF Of
  <2> QED
    BY <1>2, <2>2, <2>3
<1>5. Of(x, s) => Of(x, q)
  BY <1>1, <1>3 DEF Of
<1>6. Of(x, r) => Of(x, q)
  BY <1>1, <1>3 DEF Of
<1> QED
  BY <1>4, <1>5, <1>6 DEF q

LEMMA OfOne == \A x, y : (Of(x, <<y>>) <=> x = y) /\ ~Of(x, <<>>)
<1> TAKE x, y
<1> DEFINE s == <<y>>
<1>1. Len(s) = 1 /\ s[1] = y
  OBVIOUS
<1> HIDE DEF s
<1>2. Of(x, s) <=> x = y
  <2>1. 1 .. Len(s) = {1}
    BY <1>1
  <2> QED
    BY <1>1, <2>1 DEF Of
<1>3. ~Of(x, <<>>)
  BY DEF Of
<1> QED
  BY <1>2, <1>3 DEF s

Grant(t) == t.command \in {<<FunctionsAre>>, <<FunctionsWanted>>}
NoDont(ts, n) == \A j \in 1 .. n : ts[j].command # <<Dont>>

\* Headers of records: as what is heard has them; each record that is on its way was
\* said with headers if it finds them; functions are only granted to who waits for it
Headed(k, d, ts) ==
    k \in RecordKinds =>
        /\ d.headers <=> (Of(FunctionsAre, d.commands) \/ Told(d, FunctionsAre)) /\ ~Of(Dont, d.commands)
        /\ \A i \in 1 .. Len(ts) :
              ts[i].headers <=> (d.headers \/ (i > 1 /\ Grant(ts[1]))) /\ NoDont(ts, i - 1)
        /\ \A i \in 2 .. Len(ts) : ~Grant(ts[i])
        /\ ts # <<>> /\ Grant(ts[1]) =>
              Of(Do, d.commands) /\ ~Of(Dont, d.commands) /\ ~Told(d, Wont)

LEMMA CommandFits ==
    ASSUME NEW k, NEW t, Fits(k, t)
    PROVE  \/ t.command = <<>>
           \/ \E item \in Item : /\ t.command = <<item>>
                                 /\ Grants(item) \/ item = Dont => k = "tn3270"
<1>1. CASE \E verb, option : VerbFits(k, t, verb, option)
  <2>1. PICK verb, option : VerbFits(k, t, verb, option)
    BY <1>1
  <2> DEFINE item == <<verb, option>>
  <2>2. verb \in Verbs /\ option \in Byte /\ t.command = <<item>> /\ (option = "TN3270E" => k = "tn3270")
    BY <2>1 DEF VerbFits
  <2>3. item \in Item
    BY <2>2 DEF Item, Byte
  <2>4. item[1] # "SB" /\ (item = Dont => option = "TN3270E")
    BY <2>2 DEF Verbs, Dont
  <2>5. FunctionsAre[1] = "SB" /\ FunctionsWanted[1] = "SB"
    BY DEF FunctionsAre, FunctionsWanted
  <2> HIDE DEF item
  <2>6. ~Grants(item)
    BY <2>4, <2>5 DEF Grants
  <2> QED
    BY <2>2, <2>3, <2>4, <2>6
<1>2. CASE \E item : SubFits(k, t, item)
  <2>1. PICK item : SubFits(k, t, item)
    BY <1>2
  <2>2. item \in Item /\ Len(item) >= 2 /\ item[1] = "SB" /\ t.command = <<item>>
        /\ (item[2] = "TN3270E" => k = "tn3270")
    BY <2>1 DEF SubFits, IsSub, Item
  <2>3. Dont[1] = "DONT"
    BY DEF Dont
  <2>4. item # Dont
    BY <2>2, <2>3
  <2>5. Grants(item) => item[2] = "TN3270E"
    BY <2>2, GrantParts DEF Grants
  <2> QED
    BY <2>2, <2>4, <2>5
<1>3. CASE \E x : NothingFits(t, x)
  BY <1>3 DEF NothingFits
<1>4. CASE \E r : RecordFits(k, t, r)
  BY <1>4 DEF RecordFits
<1>5. CASE \E x : TextFits(k, t, x)
  BY <1>5 DEF TextFits
<1>6. CASE \E x : FlowFits(k, t, x)
  BY <1>6 DEF FlowFits
<1> QED
  BY <1>1, <1>2, <1>3, <1>4, <1>5, <1>6 DEF Fits

LEMMA FunctionsDiffer == FunctionsAre # FunctionsWanted /\ FunctionsAre # Dont /\ FunctionsWanted # Dont
BY DEF FunctionsAre, FunctionsWanted, Dont

\* what t does to the headers, and to what they rest on
HeadersMove(d, e, t) ==
    /\ e.headers <=> (d.headers \/ Grant(t)) /\ t.command # <<Dont>>
    /\ t.command # <<FunctionsWanted>> => (Told(e, FunctionsAre) <=> Told(d, FunctionsAre))
    /\ t.command = <<FunctionsWanted>> /\ d.sock = "up" /\ ~d.xoff => Told(e, FunctionsAre)
    /\ \A x : Of(x, e.commands) <=> Of(x, d.commands) \/ t.command = <<x>>

LEMMA HeadersAfter ==
    ASSUME NEW d \in Conn, NEW e, NEW t, Fits(kind, t), NEW rest, Takes(d, e, t, rest), InRecords
    PROVE  HeadersMove(d, e, t)
<1>1. d.headers \in BOOLEAN /\ e.headers \in BOOLEAN /\ e \in Conn
  BY DEF Takes, Conn
<1>2. \A x : Of(x, t.command) <=> t.command = <<x>>
  <2>1. CASE t.command = <<>>
    <3>1. \A x : <<>> # <<x>>
      OBVIOUS
    <3> QED
      BY <2>1, <3>1, OfOne
  <2>2. CASE \E item \in Item : t.command = <<item>>
    <3>1. PICK item \in Item : t.command = <<item>>
      BY <2>2
    <3>2. \A x : <<item>> = <<x>> <=> x = item
      OBVIOUS
    <3> QED
      BY <3>1, <3>2, OfOne
  <2> QED
    BY <2>1, <2>2, CommandFits
<1>3. \A x : Of(x, e.commands) <=> Of(x, d.commands) \/ t.command = <<x>>
  <2>1. d.commands \in Seq(Item) /\ t.command \in Seq(Item) /\ e.commands = d.commands \o t.command
    <3>1. t.command \in Seq(Item)
      <4> DEFINE B == Seq(Byte)
                 D == Seq(Datum)
                 I == Seq(Item)
      <4>1. t \in Token
        BY DEF Fits
      <4> HIDE DEF I, D, B
      <4>2. t.command \in I
        BY <4>1 DEF Token, I, D, B
      <4> QED
        BY <4>2 DEF I
    <3> QED
      BY <3>1, ConnSet DEF Takes
  <2>2. \A x : Of(x, d.commands \o t.command) <=> Of(x, d.commands) \/ Of(x, t.command)
    <3> DEFINE p == d.commands
               q == t.command
    <3>1. p \in Seq(Item) /\ q \in Seq(Item)
      BY <2>1
    <3> HIDE DEF p, q
    <3>2. \A x : Of(x, p \o q) <=> Of(x, p) \/ Of(x, q)
      BY <3>1, OfJoin
    <3> QED
      BY <3>2 DEF p, q
  <2> QED
    BY <1>2, <2>1, <2>2
<1>4. CASE t.command = <<>>
  <2>1. ~Grant(t) /\ t.command # <<Dont>> /\ t.command # <<FunctionsWanted>>
    BY <1>4 DEF Grant
  <2>2. e.headers = d.headers /\ (Told(e, FunctionsAre) <=> Told(d, FunctionsAre))
    BY <1>4 DEF Takes
  <2> QED
    BY <1>1, <1>3, <2>1, <2>2 DEF HeadersMove
<1>5. CASE \E item \in Item : /\ t.command = <<item>>
                              /\ Grants(item) \/ item = Dont => kind = "tn3270"
  <2>1. PICK item \in Item : /\ t.command = <<item>>
                             /\ Grants(item) \/ item = Dont => kind = "tn3270"
    BY <1>5
  <2>2. Gave(d, e, item)
    BY <2>1 DEF Takes
  <2>3. \A x : t.command = <<x>> <=> item = x
    <3>1. \A x : <<item>> = <<x>> <=> item = x
      OBVIOUS
    <3> QED
      BY <2>1, <3>1
  <2>4. Grant(t) <=> Grants(item)
    BY <2>3 DEF Grant, Grants
  <2>5. e.headers = IF item = Dont THEN FALSE ELSE (d.headers \/ Grants(item))
    BY <2>1, <2>2 DEF Gave
  <2>6. /\ item # FunctionsWanted => (Told(e, FunctionsAre) <=> Told(d, FunctionsAre))
        /\ item = FunctionsWanted /\ d.sock = "up" /\ ~d.xoff => Told(e, FunctionsAre)
    BY <2>2 DEF Gave
  <2> QED
    BY <1>1, <1>3, <2>3, <2>4, <2>5, <2>6 DEF HeadersMove
<1> QED
  BY <1>4, <1>5, CommandFits

LEMMA NoDontTail ==
    ASSUME NEW ts \in Seq(Token), ts # <<>>, NEW n \in Nat, n < Len(ts)
    PROVE  NoDont(ts, n + 1) <=> ts[1].command # <<Dont>> /\ NoDont(Tail(ts), n)
<1> DEFINE r == Tail(ts)
<1>1. Len(ts) \in Nat /\ Len(r) = Len(ts) - 1 /\ \A i \in 1 .. Len(ts) - 1 : r[i] = ts[i + 1]
  OBVIOUS
<1> HIDE DEF r
<1>2. \A j \in 1 .. n : r[j] = ts[j + 1] /\ j + 1 \in 1 .. n + 1
  BY <1>1
<1>3. \A j \in 1 .. n + 1 : j = 1 \/ (j - 1 \in 1 .. n /\ ts[j] = r[j - 1])
  BY <1>1
<1>4. 1 \in 1 .. n + 1
  OBVIOUS
<1> QED
  BY <1>2, <1>3, <1>4 DEF NoDont, r

LEMMA HeadedTurn ==
    ASSUME NEW d \in Conn, NEW e, NEW ts, Stream(kind, ts), ts # <<>>, NEW rest,
           Takes(d, e, ts[1], rest), Headed(kind, d, ts),
           kind = "tn3270" => d.sock = "up", InRecords => ~d.xoff
    PROVE  Headed(kind, e, Tail(ts))
<1> DEFINE t == ts[1]
           r == Tail(ts)
<1>1. ts \in Seq(Token) /\ Fits(kind, t) /\ Len(ts) \in Nat /\ Len(ts) >= 1
  <2>1. ts \in Seq(Token) /\ \A i \in 1 .. Len(ts) : Fits(kind, ts[i])
    BY DEF Stream
  <2>2. Len(ts) \in Nat /\ Len(ts) >= 1
    BY <2>1
  <2> QED
    BY <2>1, <2>2
<1>2. /\ Len(r) = Len(ts) - 1 /\ \A i \in 1 .. Len(r) : r[i] = ts[i + 1]
      /\ r # <<>> => Len(r) >= 1
  BY <1>1
<1> SUFFICES ASSUME InRecords PROVE Headed(kind, e, r)
  BY DEF Headed, InRecords
<1>3. /\ e.headers <=> (d.headers \/ Grant(t)) /\ t.command # <<Dont>>
      /\ t.command # <<FunctionsWanted>> => (Told(e, FunctionsAre) <=> Told(d, FunctionsAre))
      /\ t.command = <<FunctionsWanted>> /\ d.sock = "up" /\ ~d.xoff => Told(e, FunctionsAre)
      /\ \A x : Of(x, e.commands) <=> Of(x, d.commands) \/ t.command = <<x>>
  <2>1. Fits(kind, t) /\ Takes(d, e, t, rest)
    BY <1>1
  <2> HIDE DEF t
  <2>2. HeadersMove(d, e, t)
    BY <2>1, HeadersAfter
  <2> QED
    BY <2>2 DEF HeadersMove
<1>4. /\ d.headers <=> (Of(FunctionsAre, d.commands) \/ Told(d, FunctionsAre)) /\ ~Of(Dont, d.commands)
      /\ \A i \in 1 .. Len(ts) :
              ts[i].headers <=> (d.headers \/ (i > 1 /\ Grant(t))) /\ NoDont(ts, i - 1)
      /\ \A i \in 2 .. Len(ts) : ~Grant(ts[i])
      /\ Grant(t) => Of(Do, d.commands) /\ ~Of(Dont, d.commands) /\ ~Told(d, Wont)
  BY DEF Headed, InRecords
<1>5. t.command = <<FunctionsWanted>> => d.sock = "up" /\ ~d.xoff
  <2> SUFFICES ASSUME t.command = <<FunctionsWanted>> PROVE kind = "tn3270"
    OBVIOUS
  <2>1. t.command # <<>>
    OBVIOUS
  <2>2. PICK item \in Item : /\ t.command = <<item>>
                             /\ Grants(item) \/ item = Dont => kind = "tn3270"
    BY <1>1, <2>1, CommandFits
  <2>3. item = FunctionsWanted
    BY <2>2
  <2> QED
    BY <2>2, <2>3 DEF Grants
<1>6. /\ <<FunctionsAre>> # <<FunctionsWanted>> /\ <<FunctionsAre>> # <<Dont>>
      /\ <<FunctionsWanted>> # <<Dont>>
  BY FunctionsDiffer
<1> HIDE DEF r, t
<1>7. e.headers <=> (Of(FunctionsAre, e.commands) \/ Told(e, FunctionsAre)) /\ ~Of(Dont, e.commands)
  <2>1. CASE t.command = <<FunctionsAre>>
    BY <1>3, <1>4, <1>6, <2>1 DEF Grant
  <2>2. CASE t.command = <<FunctionsWanted>>
    BY <1>3, <1>4, <1>5, <1>6, <2>2 DEF Grant
  <2>3. CASE t.command \notin {<<FunctionsAre>>, <<FunctionsWanted>>}
    BY <1>3, <1>4, <2>3 DEF Grant
  <2> QED
    BY <2>1, <2>2, <2>3
<1>8. \A i \in 1 .. Len(r) : ~Grant(r[i])
  <2> TAKE i \in 1 .. Len(r)
  <2>1. i + 1 \in 2 .. Len(ts) /\ r[i] = ts[i + 1]
    BY <1>1, <1>2
  <2> QED
    BY <1>4, <2>1
<1>9. ASSUME NEW i \in 1 .. Len(r)
      PROVE  r[i].headers <=> (e.headers \/ (i > 1 /\ Grant(r[1]))) /\ NoDont(r, i - 1)
  <2>1. i + 1 \in 1 .. Len(ts) /\ r[i] = ts[i + 1] /\ i + 1 > 1 /\ i + 1 - 1 = i - 1 + 1
        /\ i - 1 \in Nat /\ i - 1 < Len(ts) /\ 1 \in 1 .. Len(r)
    BY <1>1, <1>2
  <2>2. NoDont(ts, i - 1 + 1) <=> t.command # <<Dont>> /\ NoDont(r, i - 1)
    BY <1>1, <2>1, NoDontTail DEF t, r
  <2>3. r[i].headers <=> (d.headers \/ Grant(t)) /\ NoDont(ts, i - 1 + 1)
    BY <1>4, <2>1
  <2>4. ~Grant(r[1])
    BY <1>8, <2>1
  <2> QED
    BY <1>3, <2>2, <2>3, <2>4
<1>10. (\A i \in 2 .. Len(r) : ~Grant(r[i])) /\ (r # <<>> => ~Grant(r[1]))
  <2>1. \A i \in 2 .. Len(r) : i \in 1 .. Len(r)
    BY <1>1, <1>2
  <2>2. r # <<>> => 1 \in 1 .. Len(r)
    BY <1>1, <1>2
  <2> QED
    BY <1>8, <2>1, <2>2
<1> QED
  BY <1>7, <1>9, <1>10 DEF Headed

\* 5250: who asks for the name again is answered, but not given it
AsksName(m) == m[1] = "SB" /\ Len(m) >= 3 /\ m[2] = "NEW_ENVIRON" /\ m[3] = "SEND"

Asked(d) == \A i \in 1 .. Len(d.commands) : AsksName(d.commands[i]) => d.envReplies > 0

NameOnce(s) ==
    \A i, j \in 1 .. Len(s) : i < j /\ AsksName(s[i]) /\ AsksName(s[j]) => ~Contains(s[j], "DEVNAME")

Named(k, d) == k = "tn5250" /\ d.sock = "up" => Asked(d) /\ (d.option => NameOnce(d.commands))

LEMMA NameAskedAgain ==
    ASSUME NEW s \in Seq(Item), NEW item \in Item, NameOnce(s),
           (\E i \in 1 .. Len(s) : AsksName(s[i])) /\ AsksName(item) => ~Contains(item, "DEVNAME")
    PROVE  NameOnce(Append(s, item))
<1> DEFINE q == Append(s, item)
<1>1. /\ Len(s) \in Nat /\ Len(q) = Len(s) + 1 /\ q[Len(s) + 1] = item
      /\ \A i \in 1 .. Len(s) : q[i] = s[i]
  BY Appending
<1> HIDE DEF q
<1>2. ASSUME NEW i \in 1 .. Len(q), NEW j \in 1 .. Len(q), i < j, AsksName(q[i]), AsksName(q[j])
      PROVE  ~Contains(q[j], "DEVNAME")
  <2>1. i \in 1 .. Len(s) /\ q[i] = s[i]
    BY <1>1, <1>2
  <2>2. CASE j \in 1 .. Len(s)
    BY <1>1, <1>2, <2>1, <2>2 DEF NameOnce
  <2>3. CASE j = Len(s) + 1
    BY <1>1, <1>2, <2>1, <2>3
  <2> QED
    BY <1>1, <2>2, <2>3
<1> QED
  BY <1>2 DEF NameOnce, q

LEMMA NamedTurn ==
    ASSUME NEW d \in Conn, NEW e, NEW t, Fits(kind, t), NEW rest, Takes(d, e, t, rest), Named(kind, d)
    PROVE  Named(kind, e)
<1> SUFFICES ASSUME kind = "tn5250", e.sock = "up" PROVE Asked(e) /\ (e.option => NameOnce(e.commands))
  BY DEF Named
<1>1. e.option = d.option /\ d.sock = "up" /\ e.commands = d.commands \o t.command
  BY DEF Takes
<1>2. Asked(d) /\ (d.option => NameOnce(d.commands))
  BY <1>1 DEF Named
<1>3. d.envReplies \in Nat /\ d.commands \in Seq(Item)
  BY ConnSet DEF Conn
<1>4. CASE t.command = <<>>
  <2>1. e.commands = d.commands /\ e.envReplies = d.envReplies
    BY <1>1, <1>4, EmptyJoins DEF Takes
  <2> QED
    BY <1>1, <1>2, <2>1 DEF Asked
<1>5. CASE \E item \in Item : t.command = <<item>>
  <2>1. PICK item \in Item : t.command = <<item>>
    BY <1>5
  <2>2. Gave(d, e, item)
    BY <2>1 DEF Takes
  <2> DEFINE s == d.commands
             q == Append(s, item)
  <2>3. /\ Len(s) \in Nat /\ Len(q) = Len(s) + 1 /\ q[Len(s) + 1] = item
        /\ \A i \in 1 .. Len(s) : q[i] = s[i]
        /\ e.commands = q /\ s \in Seq(Item)
    <3>1. s \in Seq(Item)
      BY <1>3
    <3> HIDE DEF s
    <3>2. q = s \o <<item>>
      BY <3>1, Appending
    <3>3. e.commands = q
      BY <1>1, <2>1, <3>2 DEF s
    <3> QED
      BY <3>1, <3>3, Appending
  <2> HIDE DEF s, q
  <2>4. CASE item[1] = "SB" /\ item[2] = "NEW_ENVIRON"
    <3>1. e.envReplies = d.envReplies + 1
          /\ ~(d.envReplies > 0 /\ d.option /\ Contains(Tail(item), "DEVNAME") /\ Tail(item)[2] = "SEND")
      BY <2>2, <2>4 DEF Gave, Environs
    <3>2. Asked(e)
      BY <1>3, <3>1 DEF Asked
    <3>3. ASSUME d.option, NEW i \in 1 .. Len(s), AsksName(s[i]), AsksName(item), Contains(item, "DEVNAME")
          PROVE  FALSE
      <4>1. d.envReplies > 0
        BY <1>2, <3>3 DEF Asked, s
      <4>2. Len(item) >= 3 /\ item[3] = "SEND"
        BY <3>3 DEF AsksName
      <4>3. Tail(item)[2] = "SEND" /\ Len(Tail(item)) = Len(item) - 1 /\ Len(item) \in Nat
        BY <4>2, SubParts
      <4>4. PICK l \in 1 .. Len(item) : item[l] = "DEVNAME"
        BY <3>3 DEF Contains
      <4>5. l - 1 \in 1 .. Len(item) - 1 /\ l - 1 + 1 = l
        <5>1. l # 1
          BY <2>4, <4>4
        <5> QED
          BY <4>3, <5>1
      <4>6. \A r \in Seq(Byte) : \A i0 \in 1 .. Len(r) - 1 : Tail(r)[i0] = r[i0 + 1]
        OBVIOUS
      <4>7. Tail(item)[l - 1] = "DEVNAME"
        <5>1. item \in Seq(Byte)
          BY DEF Item
        <5>2. Tail(item)[l - 1] = item[l - 1 + 1]
          BY <4>5, <4>6, <5>1
        <5> QED
          BY <4>4, <4>5, <5>2
      <4>8. Contains(Tail(item), "DEVNAME")
        BY <4>3, <4>5, <4>7 DEF Contains
      <4> QED
        BY <3>1, <3>3, <4>1, <4>3, <4>8
    <3>4. d.option => NameOnce(q)
      BY <1>2, <2>3, <3>3, NameAskedAgain DEF s, q
    <3> QED
      BY <1>1, <2>3, <3>2, <3>4
  <2>5. CASE ~(item[1] = "SB" /\ item[2] = "NEW_ENVIRON")
    <3>1. ~AsksName(item) /\ e.envReplies = d.envReplies
      BY <2>2, <2>5 DEF AsksName, Gave
    <3>2. Asked(e)
      <4> SUFFICES ASSUME NEW i \in 1 .. Len(q), AsksName(q[i]) PROVE d.envReplies > 0
        BY <2>3, <3>1 DEF Asked
      <4>1. i \in 1 .. Len(s) /\ q[i] = s[i]
        BY <2>3, <3>1
      <4> QED
        BY <1>2, <4>1 DEF Asked, s
    <3>3. d.option => NameOnce(q)
      BY <1>2, <2>3, <3>1, NameAskedAgain DEF s, q
    <3> QED
      BY <1>1, <2>3, <3>2, <3>3
  <2> QED
    BY <2>4, <2>5
<1> QED
  BY <1>4, <1>5, CommandFits

\* The scanner is in step: what is in the buffer and what comes after it are the pieces
\* ts, and of all the data and commands these are what is not heard yet
InStep(d, ts, more, data, commands, asks) ==
    /\ d \in Conn /\ Stream(kind, ts) /\ more \in Seq(Byte)
    /\ d.buf \o more = Bytes(ts)
    /\ d.data \o Datas(ts) = data /\ d.commands \o Commands(ts) = commands
    /\ Headed(kind, d, ts) /\ Named(kind, d) /\ Flow(kind, d, asks)
    /\ kind = "tn3270" => d.sock = "up"

\* nothing more can be taken
Settled(d, ts) == ts = <<>> \/ Len(d.buf) < Len(ts[1].bytes)

\* e comes after d
Later(d, e) ==
    /\ e.option = d.option /\ e.sendSeq = d.sendSeq /\ e.sock \in {d.sock, "none"}
    /\ \E x \in Seq(Datum) : e.data = d.data \o x
    /\ \E x \in Seq(Item) : e.commands = d.commands \o x

LEMMA StreamFirst ==
    ASSUME NEW k, NEW ts, Stream(k, ts), ts # <<>>
    PROVE  /\ ts \in Seq(Token) /\ Fits(k, ts[1]) /\ Stream(k, Tail(ts)) /\ ts[1] \in Token
           /\ Len(ts[1].bytes) \in Nat /\ Len(ts[1].bytes) >= 1 /\ ts[1].bytes \in Seq(Byte)
<1>1. ts \in Seq(Token) /\ \A i \in 1 .. Len(ts) : Fits(k, ts[i])
  BY DEF Stream
<1>2. /\ Len(ts) \in Nat /\ Len(ts) >= 1 /\ Tail(ts) \in Seq(Token) /\ Len(Tail(ts)) = Len(ts) - 1
      /\ \A i \in 1 .. Len(ts) - 1 : Tail(ts)[i] = ts[i + 1] /\ i + 1 \in 1 .. Len(ts)
  BY <1>1
<1>3. Fits(k, ts[1])
  BY <1>1, <1>2
<1>4. Stream(k, Tail(ts))
  BY <1>1, <1>2 DEF Stream
<1> QED
  BY <1>1, <1>3, <1>4, TokenHasBytes DEF Fits

\* b is w and something that more goes on from, to make r
Reaches(S, b, more, w, r) == \E x \in Seq(S) : b = w \o x /\ x \o more = r

LEMMA Cut ==
    ASSUME NEW S, NEW b \in Seq(S), NEW more \in Seq(S), NEW w \in Seq(S), NEW r \in Seq(S),
           b \o more = w \o r
    PROVE  /\ Len(b) >= Len(w) => Reaches(S, b, more, w, r)
           /\ Len(b) < Len(w) => Begins(b, w)
<1> DEFINE q == b \o more
<1>1. /\ Len(b) \in Nat /\ Len(w) \in Nat /\ Len(r) \in Nat /\ Len(more) \in Nat
      /\ Len(q) = Len(b) + Len(more) /\ Len(q) = Len(w) + Len(r)
      /\ \A i \in 1 .. Len(b) : q[i] = b[i]
      /\ \A i \in 1 .. Len(more) : q[Len(b) + i] = more[i]
      /\ \A i \in 1 .. Len(w) : q[i] = w[i]
      /\ \A i \in 1 .. Len(r) : q[Len(w) + i] = r[i]
  <2>1. Len(q) = Len(b) + Len(more) /\ (\A i \in 1 .. Len(b) : q[i] = b[i])
        /\ \A i \in 1 .. Len(more) : q[Len(b) + i] = more[i]
    OBVIOUS
  <2>2. q = w \o r
    OBVIOUS
  <2> HIDE DEF q
  <2>3. Len(q) = Len(w) + Len(r) /\ (\A i \in 1 .. Len(w) : q[i] = w[i])
        /\ \A i \in 1 .. Len(r) : q[Len(w) + i] = r[i]
    BY <2>2
  <2>4. Len(b) \in Nat /\ Len(w) \in Nat /\ Len(r) \in Nat /\ Len(more) \in Nat
    OBVIOUS
  <2> QED
    BY <2>1, <2>3, <2>4
<1> HIDE DEF q
<1>2. ASSUME Len(b) >= Len(w) PROVE Reaches(S, b, more, w, r)
  <2> DEFINE n == Len(w)
             x == SubSeq(b, n + 1, Len(b))
  <2>1. /\ x \in Seq(S) /\ Len(x) = Len(b) - n
        /\ \A i \in 1 .. Len(b) - n : x[i] = b[n + i]
    BY <1>1, <1>2
  <2> HIDE DEF x
  <2>2. b = w \o x
    <3> DEFINE y == w \o x
    <3>1. /\ y \in Seq(S) /\ Len(y) = Len(b)
          /\ \A i \in 1 .. n : y[i] = w[i]
          /\ \A i \in n + 1 .. Len(b) : y[i] = x[i - n]
      BY <1>1, <1>2, <2>1
    <3> HIDE DEF y
    <3>2. \A i \in 1 .. Len(b) : y[i] = b[i]
      <4> TAKE i \in 1 .. Len(b)
      <4>1. CASE i \in 1 .. n
        BY <1>1, <3>1, <4>1
      <4>2. CASE i \in n + 1 .. Len(b)
        <5>1. i - n \in 1 .. Len(b) - n /\ n + (i - n) = i
          BY <1>1, <4>2
        <5> QED
          BY <2>1, <3>1, <4>2, <5>1
      <4> QED
        BY <1>1, <1>2, <4>1, <4>2
    <3>3. y = b
      BY <3>1, <3>2, SameSeq
    <3> QED
      BY <3>3 DEF y
  <2>3. x \o more = r
    <3> DEFINE y == x \o more
    <3>1. /\ y \in Seq(S) /\ Len(y) = Len(r)
          /\ \A i \in 1 .. Len(x) : y[i] = x[i]
          /\ \A i \in Len(x) + 1 .. Len(r) : y[i] = more[i - Len(x)]
      <4>1. x \in Seq(S)
        BY <2>1
      <4>2. /\ y \in Seq(S) /\ Len(y) = Len(x) + Len(more) /\ Len(x) \in Nat
            /\ \A i \in 1 .. Len(x) : y[i] = x[i]
            /\ \A i \in 1 .. Len(more) : y[Len(x) + i] = more[i]
        BY <4>1, JoinedPlaces
      <4> HIDE DEF y
      <4>3. Len(y) = Len(r)
        BY <1>1, <1>2, <2>1, <4>2
      <4>4. ASSUME NEW i \in Len(x) + 1 .. Len(r) PROVE y[i] = more[i - Len(x)]
        <5>1. i - Len(x) \in 1 .. Len(more) /\ Len(x) + (i - Len(x)) = i
          BY <1>1, <4>2, <4>3
        <5> QED
          BY <4>2, <5>1
      <4> QED
        BY <4>2, <4>3, <4>4
    <3> HIDE DEF y
    <3>2. \A i \in 1 .. Len(r) : y[i] = r[i]
      <4> TAKE i \in 1 .. Len(r)
      <4>0. r[i] = q[n + i]
        BY <1>1
      <4>1. CASE i \in 1 .. Len(x)
        <5>1. n + i \in 1 .. Len(b)
          BY <1>1, <2>1, <4>1
        <5> QED
          BY <1>1, <2>1, <3>1, <4>0, <4>1, <5>1
      <4>2. CASE i \in Len(x) + 1 .. Len(r)
        <5>1. i - Len(x) \in 1 .. Len(more) /\ Len(b) + (i - Len(x)) = n + i
          BY <1>1, <2>1, <4>2
        <5>2. q[Len(b) + (i - Len(x))] = more[i - Len(x)]
          BY <1>1, <5>1
        <5> QED
          BY <3>1, <4>0, <4>2, <5>1, <5>2
      <4> QED
        BY <1>1, <2>1, <4>1, <4>2
    <3>3. y = r
      BY <3>1, <3>2, SameSeq
    <3> QED
      BY <3>3 DEF y
  <2> QED
    BY <2>1, <2>2, <2>3 DEF Reaches
<1>3. ASSUME Len(b) < Len(w) PROVE Begins(b, w)
  <2>1. \A i \in 1 .. Len(b) : i \in 1 .. Len(w) /\ b[i] = w[i]
    BY <1>1, <1>3
  <2> QED
    BY <1>1, <1>3, <2>1 DEF Begins
<1> QED
  BY <1>2, <1>3

LEMMA TurnTaken ==
    ASSUME NEW d, NEW ts, NEW more, NEW data, NEW commands, NEW asks,
           InStep(d, ts, more, data, commands, asks), ~Settled(d, ts)
    PROVE  /\ InStep(Take(d), Tail(ts), more, data, commands, asks)
           /\ Later(d, Take(d)) /\ Len(Take(d).buf) < Len(d.buf) /\ Len(d.buf) \in Nat
<1> DEFINE t == ts[1]
           r == Tail(ts)
           e == Take(d)
<1>1. /\ d \in Conn /\ Stream(kind, ts) /\ more \in Seq(Byte) /\ d.buf \o more = Bytes(ts)
      /\ d.data \o Datas(ts) = data /\ d.commands \o Commands(ts) = commands
      /\ Headed(kind, d, ts) /\ Named(kind, d) /\ Flow(kind, d, asks)
      /\ kind = "tn3270" => d.sock = "up"
  BY DEF InStep
<1>2. ts # <<>> /\ ~(Len(d.buf) < Len(t.bytes))
  BY DEF Settled
<1>3. /\ ts \in Seq(Token) /\ Fits(kind, t) /\ Stream(kind, r) /\ t \in Token /\ r \in Seq(Token)
      /\ Len(t.bytes) \in Nat /\ Len(t.bytes) >= 1 /\ t.bytes \in Seq(Byte)
  BY <1>1, <1>2, StreamFirst DEF Stream
<1>4. /\ Bytes(ts) = t.bytes \o Bytes(r) /\ Datas(ts) = t.data \o Datas(r)
      /\ Commands(ts) = t.command \o Commands(r)
  BY <1>2, <1>3, StreamHead
<1>5. /\ Bytes(r) \in Seq(Byte) /\ Datas(r) \in Seq(Datum) /\ Commands(r) \in Seq(Item)
      /\ d.buf \in Seq(Byte) /\ d.data \in Seq(Datum) /\ d.commands \in Seq(Item)
  BY <1>1, <1>3, StreamType, ConnSet
<1>6. t.data \in Seq(Datum) /\ t.command \in Seq(Item)
  <2> DEFINE B == Seq(Byte)
             D == Seq(Datum)
             I == Seq(Item)
  <2> HIDE DEF B, D, I, t
  <2>1. t.data \in D /\ t.command \in I
    BY <1>3 DEF Token, B, D, I
  <2> QED
    BY <2>1 DEF D, I
<1> HIDE DEF t, r
<1>7. PICK rest \in Seq(Byte) : d.buf = t.bytes \o rest /\ rest \o more = Bytes(r)
  <2> DEFINE b == d.buf
             w == t.bytes
             q == Bytes(r)
  <2>1. b \in Seq(Byte) /\ w \in Seq(Byte) /\ q \in Seq(Byte) /\ b \o more = w \o q /\ Len(b) >= Len(w)
        /\ more \in Seq(Byte)
    <3>1. Len(b) \in Nat
      BY <1>5
    <3> QED
      BY <1>1, <1>2, <1>3, <1>4, <1>5, <3>1
  <2> HIDE DEF b, w, q
  <2>2. Reaches(Byte, b, more, w, q)
    BY <2>1, Cut
  <2> QED
    BY <2>2 DEF b, w, q, Reaches
<1>8. Takes(d, e, t, rest)
  <2>1. HasAhead(d, t.bytes, rest)
    BY <1>1, <1>3, <1>7 DEF HasAhead
  <2>2. InRecords => t.headers = d.headers
    <3> SUFFICES ASSUME InRecords PROVE t.headers = d.headers
      OBVIOUS
    <3>1. 1 \in 1 .. Len(ts) /\ ~(1 > 1) /\ NoDont(ts, 1 - 1)
      BY <1>2, <1>3 DEF NoDont
    <3>2. t.headers <=> d.headers
      BY <1>1, <3>1 DEF Headed, InRecords, t
    <3>3. t.headers \in BOOLEAN /\ d.headers \in BOOLEAN
      BY <1>1, <1>3 DEF Token, Conn
    <3> QED
      BY <3>2, <3>3
  <2> QED
    BY <1>3, <2>1, <2>2, TokenTaken
<1> HIDE DEF e
<1>9. e \in Conn /\ e.buf = rest /\ e.data = d.data \o t.data /\ e.commands = d.commands \o t.command
      /\ e.option = d.option /\ e.sendSeq = d.sendSeq /\ e.sock \in {d.sock, "none"}
      /\ (kind # "tn5250" => e.sock = d.sock) /\ Flow(kind, e, asks)
  BY <1>1, <1>8 DEF Takes
<1>10. e.data \o Datas(r) = data
  <2> DEFINE a == d.data
             b == t.data
             q == Datas(r)
  <2>1. a \in Seq(Datum) /\ b \in Seq(Datum) /\ q \in Seq(Datum)
    BY <1>5, <1>6
  <2> HIDE DEF a, b, q
  <2>2. (a \o b) \o q = a \o (b \o q)
    BY <2>1, Joining
  <2> QED
    BY <1>1, <1>4, <1>9, <2>2 DEF a, b, q
<1>11. e.commands \o Commands(r) = commands
  <2> DEFINE a == d.commands
             b == t.command
             q == Commands(r)
  <2>1. a \in Seq(Item) /\ b \in Seq(Item) /\ q \in Seq(Item)
    BY <1>5, <1>6
  <2> HIDE DEF a, b, q
  <2>2. (a \o b) \o q = a \o (b \o q)
    BY <2>1, Joining
  <2> QED
    BY <1>1, <1>4, <1>9, <2>2 DEF a, b, q
<1>12. Headed(kind, e, r)
  <2>1. InRecords => ~d.xoff
    BY <1>1 DEF Flow, InRecords, RecordKinds
  <2> QED
    BY <1>1, <1>2, <1>8, <2>1, HeadedTurn DEF t, r
<1>13. Named(kind, e)
  BY <1>1, <1>3, <1>8, NamedTurn
<1>14. InStep(e, r, more, data, commands, asks)
  BY <1>1, <1>3, <1>7, <1>9, <1>10, <1>11, <1>12, <1>13 DEF InStep
<1>15. Later(d, e)
  BY <1>6, <1>9 DEF Later
<1>16. Len(e.buf) < Len(d.buf) /\ Len(d.buf) \in Nat
  <2>1. Len(t.bytes \o rest) = Len(t.bytes) + Len(rest) /\ Len(rest) \in Nat
    <3> DEFINE w == t.bytes
    <3>1. w \in Seq(Byte)
      BY <1>3
    <3> HIDE DEF w
    <3>2. Len(w \o rest) = Len(w) + Len(rest) /\ Len(rest) \in Nat
      BY <3>1
    <3> QED
      BY <3>2 DEF w
  <2> QED
    BY <1>3, <1>7, <1>9, <2>1
<1> QED
  BY <1>14, <1>15, <1>16 DEF e, r

LEMMA TurnIdle ==
    ASSUME NEW d, NEW ts, NEW more, NEW data, NEW commands, NEW asks,
           InStep(d, ts, more, data, commands, asks), Settled(d, ts)
    PROVE  Take(d) = d
<1>1. d \in Conn /\ Stream(kind, ts) /\ more \in Seq(Byte) /\ d.buf \o more = Bytes(ts)
  BY DEF InStep
<1>2. d.buf \in Seq(Byte)
  BY <1>1, ConnSet
<1>3. CASE ts = <<>>
  <2>1. d.buf \o more = <<>>
    <3>1. <<>> \in Seq(Token)
      OBVIOUS
    <3> QED
      BY <1>1, <1>3, <3>1, StreamType
  <2>2. d.buf = <<>>
    <3> DEFINE b == d.buf
    <3>1. b \in Seq(Byte) /\ b \o more = <<>>
      BY <1>2, <2>1
    <3> HIDE DEF b
    <3>2. Len(b \o more) = Len(b) + Len(more) /\ Len(b) \in Nat /\ Len(more) \in Nat
      BY <1>1, <3>1
    <3>3. Len(b) = 0
      BY <3>1, <3>2
    <3>4. b = <<>>
      BY <3>1, <3>3
    <3> QED
      BY <3>4 DEF b
  <2> QED
    BY <2>2 DEF Take
<1>4. CASE ts # <<>> /\ Len(d.buf) < Len(ts[1].bytes)
  <2> DEFINE t == ts[1]
             r == Tail(ts)
  <2>1. ts \in Seq(Token) /\ Fits(kind, t) /\ t.bytes \in Seq(Byte) /\ r \in Seq(Token)
    BY <1>1, <1>4, StreamFirst DEF Stream
  <2>2. Bytes(ts) = t.bytes \o Bytes(r) /\ Bytes(r) \in Seq(Byte)
    BY <1>4, <2>1, StreamHead, StreamType
  <2> HIDE DEF t, r
  <2>3. Begins(d.buf, t.bytes)
    <3> DEFINE b == d.buf
               w == t.bytes
               q == Bytes(r)
    <3>1. b \in Seq(Byte) /\ w \in Seq(Byte) /\ q \in Seq(Byte) /\ b \o more = w \o q /\ Len(b) < Len(w)
      BY <1>1, <1>2, <1>4, <2>1, <2>2 DEF t
    <3> HIDE DEF b, w, q
    <3>2. Begins(b, w)
      BY <1>1, <3>1, Cut
    <3> QED
      BY <3>2 DEF b, w
  <2>4. HasPart(d, t.bytes)
    BY <1>1, <1>4, <2>3 DEF HasPart, t
  <2> QED
    BY <2>1, <2>4, TokenAwaited
<1> QED
  BY <1>3, <1>4 DEF Settled

LEMMA LaterTwice ==
    ASSUME NEW d \in Conn, NEW e, NEW f, Later(d, e), Later(e, f)
    PROVE  Later(d, f)
<1>1. d.data \in Seq(Datum) /\ d.commands \in Seq(Item)
  BY ConnSet
<1>2. PICK x \in Seq(Datum), y \in Seq(Datum) : e.data = d.data \o x /\ f.data = e.data \o y
  BY DEF Later
<1>3. PICK u \in Seq(Item), v \in Seq(Item) : e.commands = d.commands \o u /\ f.commands = e.commands \o v
  BY DEF Later
<1>4. f.data = d.data \o (x \o y) /\ x \o y \in Seq(Datum)
  <2> DEFINE a == d.data
  <2>1. a \in Seq(Datum)
    BY <1>1
  <2> HIDE DEF a
  <2>2. (a \o x) \o y = a \o (x \o y) /\ x \o y \in Seq(Datum)
    BY <2>1, Associates, SMTT(40)
  <2> QED
    BY <1>2, <2>2 DEF a
<1>5. f.commands = d.commands \o (u \o v) /\ u \o v \in Seq(Item)
  <2> DEFINE a == d.commands
  <2>1. a \in Seq(Item)
    BY <1>1
  <2> HIDE DEF a
  <2>2. (a \o u) \o v = a \o (u \o v) /\ u \o v \in Seq(Item)
    BY <2>1, Associates
  <2> QED
    BY <1>3, <2>2 DEF a
<1> QED
  BY <1>4, <1>5 DEF Later

-----------------------------------------------------------------------------
(* feed() takes turns until nothing more can be taken.                     *)

\* f is the fold over every set of the first n places
Iteration(base, n, f) ==
    f = [T \in SUBSET (1 .. n) |-> IF T = {} THEN base ELSE Take(f[T \ {Max(T)}])]

Turned(base, n) == (CHOOSE f : Iteration(base, n, f))[1 .. n]

LEMMA FeedTurns ==
    ASSUME NEW d \in Conn, NEW bytes \in Seq(Byte)
    PROVE  Feed(d, bytes) = Turned([d EXCEPT !.buf = @ \o bytes], Len([d EXCEPT !.buf = @ \o bytes].buf))
<1> DEFINE e == [d EXCEPT !.buf = @ \o bytes]
<1>1. Feed(d, bytes) = FoldLeft(LAMBDA f, byte : Take(f), e, e.buf)
  BY DEF Feed
<1>2. d.buf \o bytes \in Seq(Byte)
  <2> DEFINE b == d.buf
  <2>1. b \in Seq(Byte)
    BY ConnSet
  <2> HIDE DEF b
  <2>2. b \o bytes \in Seq(Byte)
    BY <2>1
  <2> QED
    BY <2>2 DEF b
<1>3. e.buf = d.buf \o bytes
  BY DEF Conn
<1> HIDE DEF e
<1>4. DOMAIN e.buf = 1 .. Len(e.buf)
  BY <1>2, <1>3
<1>5. FoldLeft(LAMBDA f, byte : Take(f), e, e.buf) = Turned(e, Len(e.buf))
  BY <1>4 DEF FoldLeft, MapThenFoldSet, Turned, Iteration
<1> QED
  BY <1>1, <1>5 DEF e

LEMMA IterationGrows ==
    ASSUME NEW base, NEW n \in Nat, NEW f, Iteration(base, n, f)
    PROVE  \E g : Iteration(base, n + 1, g)
<1> DEFINE g == [s \in SUBSET (1 .. n + 1) |-> IF s = {} THEN base ELSE Take(f[s \ {Max(s)}])]
<1>1. \A s \in SUBSET (1 .. n + 1) :
         s # {} => s \ {Max(s)} \in SUBSET (1 .. n) /\ f[s \ {Max(s)}] = g[s \ {Max(s)}]
  <2> SUFFICES ASSUME NEW s \in SUBSET (1 .. n + 1), s # {}
               PROVE  s \ {Max(s)} \in SUBSET (1 .. n) /\ f[s \ {Max(s)}] = g[s \ {Max(s)}]
    OBVIOUS
  <2> DEFINE r == s \ {Max(s)}
  <2>1. Max(s) \in s /\ \A k \in s : k <= Max(s)
    <3>1. s \subseteq 0 .. n + 1 /\ n + 1 \in Nat
      OBVIOUS
    <3> QED
      BY <3>1, MaxOfNumbers
  <2>2. \A k \in r : k \in 1 .. n
    <3> TAKE k \in r
    <3>1. k \in 1 .. n + 1 /\ Max(s) \in 1 .. n + 1 /\ k <= Max(s) /\ k # Max(s)
      BY <2>1
    <3> QED
      BY <3>1
  <2>3. r \in SUBSET (1 .. n) /\ r \in SUBSET (1 .. n + 1)
    BY <2>2
  <2> HIDE DEF r
  <2>4. f[r] = IF r = {} THEN base ELSE Take(f[r \ {Max(r)}])
    BY <2>3 DEF Iteration
  <2>5. g[r] = IF r = {} THEN base ELSE Take(f[r \ {Max(r)}])
    BY <2>3
  <2> QED
    BY <2>3, <2>4, <2>5 DEF r
<1>2. g = [s \in SUBSET (1 .. n + 1) |-> IF s = {} THEN base ELSE Take(g[s \ {Max(s)}])]
  BY <1>1
<1> QED
  BY <1>2 DEF Iteration

LEMMA IterationExists ==
    ASSUME NEW base, NEW n \in Nat
    PROVE  \E f : Iteration(base, n, f)
<1> DEFINE Done == {m \in 0 .. n : \E f : Iteration(base, m, f)}
<1>1. 0 \in Done
  <2> DEFINE f == [s \in SUBSET (1 .. 0) |-> base]
  <2>1. \A s \in SUBSET (1 .. 0) : s = {}
    OBVIOUS
  <2>2. f = [s \in SUBSET (1 .. 0) |-> IF s = {} THEN base ELSE Take(f[s \ {Max(s)}])]
    BY <2>1
  <2> QED
    BY <2>2 DEF Iteration
<1>2. \A m \in 1 .. n : m - 1 \in Done => m \in Done
  <2> SUFFICES ASSUME NEW m \in 1 .. n, m - 1 \in Done PROVE m \in Done
    OBVIOUS
  <2>1. PICK f : Iteration(base, m - 1, f)
    OBVIOUS
  <2>2. m - 1 \in Nat /\ m - 1 + 1 = m
    OBVIOUS
  <2>3. \E g : Iteration(base, m - 1 + 1, g)
    BY <2>1, <2>2, IterationGrows
  <2>4. \E g : Iteration(base, m, g)
    BY <2>2, <2>3
  <2> QED
    BY <2>4
<1>3. \A m \in 0 .. n : m \in Done
  <2> HIDE DEF Done
  <2> QED
    BY <1>1, <1>2, UpTo
<1> QED
  BY <1>3

\* g lists what the turns lead to
Turns(base, n, g) ==
    /\ g[0] = base
    /\ \A k \in 1 .. n : g[k] = Take(g[k - 1])
    /\ Turned(base, n) = g[n]

LEMMA TurnByTurn ==
    ASSUME NEW base, NEW n \in Nat
    PROVE  \E g : Turns(base, n, g)
<1> DEFINE f == CHOOSE f : Iteration(base, n, f)
           g == [k \in 0 .. n |-> f[1 .. k]]
<1>1. Iteration(base, n, f)
  <2>1. \E h : Iteration(base, n, h)
    BY IterationExists
  <2> QED
    BY <2>1
<1>2. f[1 .. n] = Turned(base, n)
  BY DEF Turned
<1> HIDE DEF f
<1>3. g[0] = base
  <2>1. 1 .. 0 = {} /\ {} \in SUBSET (1 .. n)
    OBVIOUS
  <2> QED
    BY <1>1, <2>1 DEF Iteration
<1>4. \A k \in 1 .. n : g[k] = Take(g[k - 1])
  <2> TAKE k \in 1 .. n
  <2> DEFINE U == 1 .. k
  <2>3. U # {} /\ U \in SUBSET (1 .. n) /\ Max(U) = k /\ U \ {k} = 1 .. k - 1
    BY IntervalTop
  <2>4. f[U] = Take(f[U \ {Max(U)}])
    <3> HIDE DEF U, g
    <3> QED
      BY <1>1, <2>3 DEF Iteration
  <2>1. f[1 .. k] = Take(f[1 .. k - 1])
    BY <2>3, <2>4
  <2>2. k \in 0 .. n /\ k - 1 \in 0 .. n
    OBVIOUS
  <2> QED
    BY <2>1, <2>2
<1>5. g[n] = f[1 .. n]
  OBVIOUS
<1> HIDE DEF g
<1>6. Turns(base, n, g)
  BY <1>2, <1>3, <1>4, <1>5 DEF Turns
<1> QED
  BY <1>6

\* in step after k of n turns
Scanned(d, e, more, data, commands, asks, left) ==
    \E ts : /\ InStep(e, ts, more, data, commands, asks)
            /\ Later(d, e)
            /\ Settled(e, ts) \/ Len(e.buf) <= left

LEMMA LaterSelf == ASSUME NEW d \in Conn PROVE Later(d, d)
<1>1. d.data \o <<>> = d.data /\ d.commands \o <<>> = d.commands
  BY EmptyJoins
<1>2. <<>> \in Seq(Datum) /\ <<>> \in Seq(Item)
  OBVIOUS
<1> QED
  BY <1>1, <1>2 DEF Later

LEMMA StepBuffer ==
    ASSUME NEW d, NEW ts, NEW more, NEW data, NEW commands, NEW asks,
           InStep(d, ts, more, data, commands, asks)
    PROVE  d \in Conn /\ d.buf \in Seq(Byte) /\ Len(d.buf) \in Nat
<1>1. d \in Conn
  BY DEF InStep
<1>2. d.buf \in Seq(Byte)
  BY <1>1, ConnSet
<1> DEFINE b == d.buf
<1>3. b \in Seq(Byte)
  BY <1>2
<1> HIDE DEF b
<1>4. Len(b) \in Nat
  BY <1>3
<1> QED
  BY <1>1, <1>3, <1>4 DEF b

LEMMA Turning ==
    ASSUME NEW d, NEW ts0, NEW more, NEW data, NEW commands, NEW asks,
           InStep(d, ts0, more, data, commands, asks)
    PROVE  \E ts : /\ InStep(Turned(d, Len(d.buf)), ts, more, data, commands, asks)
                   /\ Later(d, Turned(d, Len(d.buf))) /\ Settled(Turned(d, Len(d.buf)), ts)
<1> DEFINE n == Len(d.buf)
<1>1. d \in Conn /\ n \in Nat
  BY StepBuffer
<1> HIDE DEF n
<1>2. PICK g : Turns(d, n, g)
  BY <1>1, TurnByTurn
<1> DEFINE Done == {k \in 0 .. n : Scanned(d, g[k], more, data, commands, asks, n - k)}
<1>3. 0 \in Done
  <2>1. g[0] = d /\ Later(d, d) /\ Len(d.buf) <= n - 0
    BY <1>1, <1>2, LaterSelf DEF Turns, n
  <2>2. Scanned(d, d, more, data, commands, asks, n - 0)
    BY <2>1 DEF Scanned
  <2> QED
    BY <1>1, <2>1, <2>2
<1>4. \A k \in 1 .. n : k - 1 \in Done => k \in Done
  <2> SUFFICES ASSUME NEW k \in 1 .. n, k - 1 \in Done
               PROVE  Scanned(d, g[k], more, data, commands, asks, n - k)
    OBVIOUS
  <2> DEFINE e == g[k - 1]
             f == g[k]
  <2>1. f = Take(e)
    BY <1>2 DEF Turns
  <2>2. Scanned(d, e, more, data, commands, asks, n - (k - 1))
    OBVIOUS
  <2> HIDE DEF e, f
  <2>3. PICK ts : /\ InStep(e, ts, more, data, commands, asks) /\ Later(d, e)
                  /\ Settled(e, ts) \/ Len(e.buf) <= n - (k - 1)
    BY <2>2 DEF Scanned
  <2>4. CASE Settled(e, ts)
    <3>1. f = e
      BY <2>1, <2>3, <2>4, TurnIdle
    <3> QED
      BY <2>3, <2>4, <3>1 DEF Scanned, f
  <2>5. CASE ~Settled(e, ts)
    <3>1. /\ InStep(f, Tail(ts), more, data, commands, asks) /\ Later(e, f)
          /\ Len(f.buf) < Len(e.buf) /\ Len(e.buf) \in Nat
      BY <2>1, <2>3, <2>5, TurnTaken
    <3>2. Later(d, f)
      BY <1>1, <2>3, <3>1, LaterTwice
    <3>3. Len(f.buf) \in Nat
      BY <3>1, StepBuffer
    <3>4. Len(f.buf) <= n - k
      BY <1>1, <2>3, <2>5, <3>1, <3>3
    <3> QED
      BY <3>1, <3>2, <3>4 DEF Scanned, f
  <2> QED
    BY <2>4, <2>5
<1>5. n \in Done
  <2>1. \A k \in 0 .. n : k \in Done
    <3> HIDE DEF Done
    <3> QED
      BY <1>1, <1>3, <1>4, UpTo
  <2> QED
    BY <1>1, <2>1
<1> DEFINE e == g[n]
<1>6. Scanned(d, e, more, data, commands, asks, n - n) /\ e = Turned(d, n)
  BY <1>2, <1>5 DEF Turns
<1> HIDE DEF e
<1>7. PICK ts : /\ InStep(e, ts, more, data, commands, asks) /\ Later(d, e)
                /\ Settled(e, ts) \/ Len(e.buf) <= n - n
  BY <1>6 DEF Scanned
<1>8. Settled(e, ts)
  <2> SUFFICES ASSUME ts # <<>>, Len(e.buf) <= 0 PROVE Len(e.buf) < Len(ts[1].bytes)
    BY <1>1, <1>7 DEF Settled
  <2>1. Len(ts[1].bytes) \in Nat /\ Len(ts[1].bytes) >= 1
    BY <1>7, StreamFirst DEF InStep
  <2>2. Len(e.buf) \in Nat
    BY <1>7, StepBuffer
  <2> QED
    BY <2>1, <2>2
<1> QED
  BY <1>6, <1>7, <1>8 DEF n

LEMMA Fed ==
    ASSUME NEW d, NEW ts, NEW bytes \in Seq(Byte), NEW more \in Seq(Byte), NEW data, NEW commands, NEW asks,
           InStep(d, ts, bytes \o more, data, commands, asks)
    PROVE  \E uu : /\ InStep(Feed(d, bytes), uu, more, data, commands, asks)
                   /\ Later(d, Feed(d, bytes)) /\ Settled(Feed(d, bytes), uu)
<1> DEFINE e == [d EXCEPT !.buf = @ \o bytes]
<1>1. /\ d \in Conn /\ Stream(kind, ts) /\ d.buf \o (bytes \o more) = Bytes(ts)
      /\ d.data \o Datas(ts) = data /\ d.commands \o Commands(ts) = commands
      /\ Headed(kind, d, ts) /\ Named(kind, d) /\ Flow(kind, d, asks)
      /\ kind = "tn3270" => d.sock = "up"
  BY DEF InStep
<1>2. d.buf \o bytes \in Seq(Byte) /\ (d.buf \o bytes) \o more = d.buf \o (bytes \o more)
  <2> DEFINE b == d.buf
  <2>1. b \in Seq(Byte)
    BY <1>1, ConnSet
  <2> HIDE DEF b
  <2>2. b \o bytes \in Seq(Byte) /\ (b \o bytes) \o more = b \o (bytes \o more)
    BY <2>1
  <2> QED
    BY <2>2 DEF b
<1>3. e \in Conn /\ e.buf = d.buf \o bytes
  <2>1. [d EXCEPT !.buf = d.buf \o bytes] \in Conn
    BY <1>1, <1>2, ConnBuf
  <2> QED
    BY <1>1, <2>1 DEF Conn
<1>4. /\ e.option = d.option /\ e.sendSeq = d.sendSeq /\ e.sock = d.sock /\ e.data = d.data
      /\ e.commands = d.commands /\ e.envReplies = d.envReplies /\ e.headers = d.headers
      /\ e.out = d.out /\ e.sendQueue = d.sendQueue /\ e.xoff = d.xoff
  BY <1>1 DEF Conn
<1>0. Feed(d, bytes) = Turned(e, Len(e.buf))
  BY <1>1, FeedTurns
<1> HIDE DEF e
<1>5. Headed(kind, e, ts)
  BY <1>1, <1>4 DEF Headed, Told
<1>6. Named(kind, e)
  BY <1>1, <1>4 DEF Named, Asked
<1>7. Flow(kind, e, asks)
  BY <1>1, <1>4, BufferFlow
<1>8. InStep(e, ts, more, data, commands, asks)
  BY <1>1, <1>2, <1>3, <1>4, <1>5, <1>6, <1>7 DEF InStep
<1> DEFINE f == Turned(e, Len(e.buf))
<1>9. PICK uu : InStep(f, uu, more, data, commands, asks) /\ Later(e, f) /\ Settled(f, uu)
  BY <1>8, Turning
<1> HIDE DEF f
<1>10. Later(d, f)
  BY <1>4, <1>9 DEF Later
<1> QED
  BY <1>0, <1>9, <1>10 DEF f

-----------------------------------------------------------------------------
(* What is said comes in such pieces.                                      *)

Spoken(u, hostHas, h, uu) ==
    /\ Stream(kind, uu)
    /\ Bytes(uu) = OnWire(u, hostHas) /\ Datas(uu) = DataIn(u) /\ Commands(uu) = CommandIn(u)
    /\ \A i \in 1 .. Len(uu) : uu[i].headers = h
    /\ InRecords => Len(uu) = 1

LEMMA NewToken ==
    ASSUME NEW b \in Seq(Byte), NEW d \in Seq(Datum), NEW m \in Seq(Item), NEW h \in BOOLEAN
    PROVE  [bytes |-> b, data |-> d, command |-> m, headers |-> h] \in Token
<1> DEFINE B == Seq(Byte)
           D == Seq(Datum)
           I == Seq(Item)
<1>1. b \in B /\ d \in D /\ m \in I
  OBVIOUS
<1> HIDE DEF B, D, I
<1> QED
  BY <1>1 DEF Token, B, D, I

LEMMA OneSpoken ==
    ASSUME NEW t, Fits(kind, t), NEW u, NEW hostHas, NEW h,
           t.bytes = OnWire(u, hostHas), t.data = DataIn(u), t.command = CommandIn(u), t.headers = h
    PROVE  \E uu : Spoken(u, hostHas, h, uu)
<1> DEFINE uu == <<t>>
<1>1. t \in Token
  BY DEF Fits
<1>2. uu \in Seq(Token) /\ Len(uu) = 1 /\ uu[1] = t
  BY <1>1
<1>3. /\ BytesOfToken[t] = t.bytes /\ DataOfToken[t] = t.data /\ CommandOfToken[t] = t.command
  BY <1>1 DEF BytesOfToken, DataOfToken, CommandOfToken
<1>4. /\ Gather(BytesOfToken, uu) = BytesOfToken[t]
      /\ Gather(DataOfToken, uu) = DataOfToken[t]
      /\ Gather(CommandOfToken, uu) = CommandOfToken[t]
  BY <1>1, TokenParts, GatherOne
<1> HIDE DEF uu
<1>5. \A i \in 1 .. Len(uu) : uu[i] = t
  BY <1>2
<1>6. Stream(kind, uu)
  BY <1>2, <1>5 DEF Stream
<1>7. Spoken(u, hostHas, h, uu)
  BY <1>2, <1>3, <1>4, <1>5, <1>6 DEF Spoken, Bytes, Datas, Commands
<1> QED
  BY <1>7

LEMMA SaidPlain ==
    ASSUME NEW u, Sayable(kind, u)
    PROVE  /\ u.item \in Seq(Byte) /\ Len(u.item) \in Nat
           /\ u.as \in {"data", "command", "TN3270E", "flow", "skipped"}
           /\ u.type # "DATA" => kind = "tn3270" /\ u.as \in {"data", "skipped"}
<1>1. \A s \in Seq(STRING) : s \in Seq(Byte) /\ Len(s) \in Nat
  <2>1. STRING \subseteq Byte
    BY DEF Byte
  <2> DEFINE U == STRING
             V == Byte
  <2>2. U \subseteq V
    BY <2>1
  <2> HIDE DEF U, V
  <2>3. \A s \in Seq(U) : s \in Seq(V) /\ Len(s) \in Nat
    BY <2>2
  <2> QED
    BY <2>3 DEF U, V
<1>2. u.item \in Seq(STRING)
  BY DEF Sayable
<1> QED
  BY <1>1, <1>2 DEF Sayable

LEMMA SaidNothing ==
    ASSUME NEW u, NEW x \in Byte, x \notin Verbs \cup {"SB", "IAC"}, NEW hostHas, NEW h \in BOOLEAN,
           OnWire(u, hostHas) = <<"IAC", x>>, DataIn(u) = <<>>, CommandIn(u) = <<>>
    PROVE  \E uu : Spoken(u, hostHas, h, uu)
<1> DEFINE b == <<"IAC", x>>
           t == [bytes |-> b, data |-> <<>>, command |-> <<>>, headers |-> h]
<1>1. b \in Seq(Byte)
  BY EscapeIsBytes
<1>2. <<>> \in Seq(Datum) /\ <<>> \in Seq(Item)
  OBVIOUS
<1>3. t \in Token
  <2> HIDE DEF b
  <2> QED
    BY <1>1, <1>2, NewToken
<1>4. t.bytes = b /\ t.data = <<>> /\ t.command = <<>> /\ t.headers = h
  OBVIOUS
<1> HIDE DEF t
<1>5. NothingFits(t, x)
  BY <1>4 DEF NothingFits
<1>6. Fits(kind, t)
  BY <1>3, <1>5 DEF Fits
<1> QED
  BY <1>4, <1>6, OneSpoken

LEMMA ThreeBytes ==
    ASSUME NEW x \in Byte, NEW y \in Byte
    PROVE  <<"IAC">> \o <<x, y>> = <<"IAC", x, y>>
<1> DEFINE a == <<"IAC">>
           b == <<x, y>>
           r == <<"IAC", x, y>>
<1>1. /\ a \in Seq(Byte) /\ b \in Seq(Byte) /\ r \in Seq(Byte) /\ Len(a) = 1 /\ Len(b) = 2 /\ Len(r) = 3
      /\ a[1] = "IAC" /\ b[1] = x /\ b[2] = y /\ r[1] = "IAC" /\ r[2] = x /\ r[3] = y
  BY EscapeIsBytes
<1> HIDE DEF a, b, r
<1> DEFINE s == a \o b
<1>2. s \in Seq(Byte) /\ Len(s) = 3 /\ s[1] = a[1] /\ s[2] = b[1] /\ s[3] = b[2]
  <2>0. a \in Seq(Byte) /\ b \in Seq(Byte)
    BY <1>1
  <2>1. /\ a \o b \in Seq(Byte) /\ Len(a \o b) = Len(a) + Len(b)
        /\ \A i \in 1 .. Len(a) : (a \o b)[i] = a[i]
        /\ \A i \in 1 .. Len(b) : (a \o b)[Len(a) + i] = b[i]
    BY <2>0, JoinedPlaces
  <2>2. s = a \o b
    OBVIOUS
  <2>3. 1 \in 1 .. 1 /\ 1 \in 1 .. 2 /\ 2 \in 1 .. 2
    OBVIOUS
  <2> HIDE DEF s
  <2>4. /\ s \in Seq(Byte) /\ Len(s) = 3
        /\ \A i \in 1 .. 1 : s[i] = a[i]
        /\ \A i \in 1 .. 2 : s[1 + i] = b[i]
    BY <1>1, <2>1, <2>2
  <2> QED
    BY <2>3, <2>4
<1> HIDE DEF s
<1>3. \A i \in 1 .. 3 : s[i] = r[i]
  <2>1. \A i \in 1 .. 3 : i = 1 \/ i = 2 \/ i = 3
    OBVIOUS
  <2> QED
    BY <1>1, <1>2, <2>1
<1>4. s = r
  BY <1>1, <1>2, <1>3, SameSeq
<1> QED
  BY <1>4 DEF s, a, b, r

LEMMA SaidVerb ==
    ASSUME NEW u, Sayable(kind, u), u.as \in {"command", "TN3270E"}, u.item[1] \in Verbs,
           NEW hostHas, NEW h \in BOOLEAN
    PROVE  \E uu : Spoken(u, hostHas, h, uu)
<1> DEFINE verb == u.item[1]
           option == u.item[2]
           b == <<"IAC", verb, option>>
           t == [bytes |-> b, data |-> <<>>, command |-> <<u.item>>, headers |-> h]
<1>1. u.item \in Seq(Byte)
  BY SaidPlain
<1>2. Len(u.item) = 2 /\ (option = "TN3270E" => kind = "tn3270")
  BY DEF Sayable, IsCommand, Verbs
<1>3. verb \in Byte /\ option \in Byte /\ u.item = <<verb, option>>
  BY <1>1, <1>2
<1>4. b \in Seq(Byte) /\ <<"IAC">> \o u.item = b
  <2>1. <<"IAC">> \o <<verb, option>> = b
    BY <1>3, ThreeBytes
  <2>2. b \in Seq(Byte)
    BY <1>3, EscapeIsBytes
  <2> QED
    BY <1>3, <2>1, <2>2
<1>5. <<>> \in Seq(Datum) /\ <<u.item>> \in Seq(Item)
  <2>1. u.item \in Item
    BY <1>1 DEF Item
  <2> QED
    BY <2>1
<1>6. OnWire(u, hostHas) = b /\ DataIn(u) = <<>> /\ CommandIn(u) = <<u.item>>
  <2>1. OnWire(u, hostHas) = <<"IAC">> \o u.item
    <3>1. u.item[1] # "SB" /\ u.as # "data"
      BY DEF Verbs
    <3> QED
      BY <3>1 DEF OnWire
  <2> QED
    BY <1>4, <2>1 DEF DataIn, CommandIn
<1>7. t \in Token
  <2> HIDE DEF b
  <2> QED
    BY <1>4, <1>5, NewToken
<1>8. t.bytes = b /\ t.data = <<>> /\ t.command = <<u.item>> /\ t.headers = h
  OBVIOUS
<1> HIDE DEF t
<1>9. VerbFits(kind, t, verb, option)
  BY <1>2, <1>3, <1>8 DEF VerbFits
<1> HIDE DEF verb, option
<1>10. Fits(kind, t)
  BY <1>7, <1>9 DEF Fits
<1> QED
  BY <1>6, <1>8, <1>10, OneSpoken

LEMMA SaidSub ==
    ASSUME NEW u, Sayable(kind, u), u.as \in {"command", "TN3270E"}, u.item[1] \notin Verbs,
           NEW hostHas, NEW h \in BOOLEAN
    PROVE  \E uu : Spoken(u, hostHas, h, uu)
<1> DEFINE item == u.item
           b == <<"IAC">> \o item \o <<"IAC", "SE">>
           t == [bytes |-> b, data |-> <<>>, command |-> <<item>>, headers |-> h]
<1>1. item \in Seq(Byte) /\ Len(item) \in Nat
  BY SaidPlain
<1>2. /\ Len(item) >= 2 /\ item[1] = "SB" /\ ClosesOnce(kind, b)
      /\ item[2] = "TN3270E" => kind = "tn3270" /\ InRfc2355(item)
  BY DEF Sayable, IsCommand
<1>3. OnWire(u, hostHas) = b /\ DataIn(u) = <<>> /\ CommandIn(u) = <<item>>
  BY <1>2 DEF OnWire, DataIn, CommandIn
<1> HIDE DEF item
<1>4. b \in Seq(Byte) /\ Len(b) = Len(item) + 3
  <2>1. "IAC" \in Byte /\ "SE" \in Byte
    BY DEF Byte
  <2> QED
    BY <1>1, <2>1
<1>5. <<>> \in Seq(Datum) /\ <<item>> \in Seq(Item)
  <2>1. item \in Item
    BY <1>1 DEF Item
  <2> QED
    BY <2>1
<1>6. IsSub(item, b)
  <2> DEFINE w == b
  <2>1. Len(w) \in Nat /\ 3 < Len(w) /\ ClosesOnce(kind, w)
    BY <1>1, <1>2, <1>4
  <2> HIDE DEF w
  <2>2. \A i \in 3 .. Len(w) - 1 : i \in Ends(w, 3, "SE") <=> i = Len(w) - 1
    BY <2>1 DEF ClosesOnce, Ends, InRecords
  <2>3. Ends(w, 3, "SE") \subseteq 3 .. Len(w) - 1 /\ Len(w) - 1 \in 3 .. Len(w) - 1
    BY <2>1 DEF Ends
  <2>4. Ends(w, 3, "SE") = {Len(w) - 1}
    BY <2>2, <2>3
  <2>5. Closed(w, 3, "SE")
    BY <2>1, <2>4 DEF Closed
  <2> QED
    BY <1>1, <1>2, <2>5 DEF IsSub, w
<1>7. t \in Token
  <2> HIDE DEF b
  <2> QED
    BY <1>4, <1>5, NewToken
<1>8. t.bytes = b /\ t.data = <<>> /\ t.command = <<item>> /\ t.headers = h
  OBVIOUS
<1> HIDE DEF t, b
<1>9. SubFits(kind, t, item)
  BY <1>2, <1>6, <1>8 DEF SubFits
<1>10. Fits(kind, t)
  BY <1>7, <1>9 DEF Fits
<1> QED
  BY <1>3, <1>8, <1>10, OneSpoken DEF b

LEMMA SaidFlow ==
    ASSUME NEW u, Sayable(kind, u), u.as = "flow", NEW hostHas, NEW h \in BOOLEAN
    PROVE  \E uu : Spoken(u, hostHas, h, uu)
<1>1. u.item \in Seq(Byte) /\ kind = "hp6530" /\ u.item \in {<<"DC1">>, <<"DC3">>}
  BY SaidPlain DEF Sayable
<1>2. PICK x \in {"DC1", "DC3"} : u.item = <<x>>
  BY <1>1
<1> DEFINE b == u.item
           t == [bytes |-> b, data |-> <<>>, command |-> <<>>, headers |-> h]
<1>3. <<>> \in Seq(Datum) /\ <<>> \in Seq(Item)
  OBVIOUS
<1>4. OnWire(u, hostHas) = b /\ DataIn(u) = <<>> /\ CommandIn(u) = <<>>
  BY DEF OnWire, DataIn, CommandIn
<1>5. t \in Token
  <2>1. b \in Seq(Byte)
    BY <1>1
  <2> HIDE DEF b
  <2> QED
    BY <1>3, <2>1, NewToken
<1>6. t.bytes = b /\ t.data = <<>> /\ t.command = <<>> /\ t.headers = h
  OBVIOUS
<1> HIDE DEF t
<1>7. FlowFits(kind, t, x)
  BY <1>1, <1>2, <1>6 DEF FlowFits
<1>8. Fits(kind, t)
  BY <1>5, <1>7 DEF Fits
<1> QED
  BY <1>4, <1>6, <1>8, OneSpoken

LEMMA SaidSkipped ==
    ASSUME NEW u, Sayable(kind, u), u.as = "skipped", u.type = "DATA", NEW hostHas, NEW h \in BOOLEAN
    PROVE  \E uu : Spoken(u, hostHas, h, uu)
<1>1. /\ u.item \in Seq(Byte) /\ Len(u.item) = 2 /\ u.item[1] = "IAC"
      /\ u.item[2] \notin Verbs \cup {"SB", "IAC"}
  BY SaidPlain DEF Sayable
<1> DEFINE x == u.item[2]
<1>2. x \in Byte /\ u.item = <<"IAC", x>>
  BY <1>1
<1>3. OnWire(u, hostHas) = u.item /\ DataIn(u) = <<>> /\ CommandIn(u) = <<>>
  BY DEF OnWire, DataIn, CommandIn
<1>4. x \notin Verbs \cup {"SB", "IAC"} /\ OnWire(u, hostHas) = <<"IAC", x>>
  BY <1>1, <1>2, <1>3
<1> HIDE DEF x
<1> QED
  BY <1>2, <1>3, <1>4, SaidNothing

\* records, with and without a header
LEMMA SaidRecord ==
    ASSUME NEW u, NEW r \in Seq(Byte), r # <<>>, NEW h \in BOOLEAN, InRecords,
           OnWire(u, h) = Escaped(r) \o Mark, DataIn(u) = RecordData(r, h), CommandIn(u) = <<>>,
           DataIn(u) \in Seq(Datum)
    PROVE  \E uu : Spoken(u, h, h, uu)
<1> DEFINE b == Escaped(r) \o Mark
           d == DataIn(u)
           t == [bytes |-> b, data |-> d, command |-> <<>>, headers |-> h]
<1>1. b \in Seq(Byte)
  <2> DEFINE e == Escaped(r)
  <2>1. e \in Seq(Byte)
    BY EscapesAreUndone
  <2>2. Mark \in Seq(Byte)
    BY EscapeIsBytes DEF Mark
  <2> HIDE DEF e
  <2>3. e \o Mark \in Seq(Byte)
    BY <2>1, <2>2
  <2> QED
    BY <2>3 DEF e
<1>2. <<>> \in Seq(Item)
  OBVIOUS
<1>3. t \in Token
  <2> HIDE DEF b, d
  <2>1. d \in Seq(Datum)
    BY DEF d
  <2> QED
    BY <1>1, <1>2, <2>1, NewToken
<1>4. t.bytes = b /\ t.data = DataIn(u) /\ t.command = <<>> /\ t.headers = h
  OBVIOUS
<1> HIDE DEF t, d
<1>5. RecordFits(kind, t, r)
  BY <1>4 DEF RecordFits, InRecords
<1>6. Fits(kind, t)
  BY <1>3, <1>5 DEF Fits
<1> QED
  BY <1>4, <1>6, OneSpoken

LEMMA SaidOtherRecord ==
    ASSUME NEW u, Sayable(kind, u), u.as = "skipped", u.type # "DATA"
    PROVE  \E uu : Spoken(u, TRUE, TRUE, uu)
<1>1. u.item \in Seq(Byte) /\ Len(u.item) \in Nat /\ kind = "tn3270" /\ InRecords /\ IsOtherRecord(u)
  BY SaidPlain DEF Sayable, InRecords, RecordKinds
<1> DEFINE i0 == u.item
           n == Len(i0)
           r == SubSeq(i0, 1, n - 2)
<1>2. /\ n >= 3 /\ n \in Nat /\ i0[1] = u.type /\ u.type \notin {"DATA", "SSCP_LU"}
      /\ i0[n - 1] = "IAC" /\ i0[n] = "EOR"
      /\ \A i \in 1 .. n - 2 : i0[i] # "IAC"
      /\ i0 \in Seq(Byte)
  BY <1>1 DEF IsOtherRecord
<1>3. OnWire(u, TRUE) = i0 /\ DataIn(u) = <<>> /\ CommandIn(u) = <<>>
  BY DEF OnWire, DataIn, CommandIn
<1> HIDE DEF i0
<1>4. r \in Seq(Byte) /\ Len(r) = n - 2 /\ \A i \in 1 .. n - 2 : r[i] = i0[i]
  BY <1>2
<1> HIDE DEF r
<1>5. r # <<>> /\ r[1] = u.type
  BY <1>2, <1>4
<1>6. Escaped(r) = r
  <2>1. \A i \in 1 .. Len(r) : r[i] # "IAC"
    BY <1>2, <1>4
  <2> QED
    BY <1>4, <2>1, PlainIsEscaped
<1>7. i0 = r \o Mark
  <2> DEFINE y == r \o Mark
  <2>1. Mark \in Seq(Byte) /\ Len(Mark) = 2 /\ Mark[1] = "IAC" /\ Mark[2] = "EOR"
    BY EscapeIsBytes DEF Mark
  <2>2. /\ y \in Seq(Byte) /\ Len(y) = Len(r) + 2
        /\ \A i \in 1 .. Len(r) : y[i] = r[i]
        /\ y[Len(r) + 1] = "IAC" /\ y[Len(r) + 2] = "EOR"
    <3> DEFINE m == Mark
    <3> HIDE DEF m
    <3>1. /\ y \in Seq(Byte) /\ Len(y) = Len(r) + Len(m) /\ Len(r) \in Nat
          /\ \A i \in 1 .. Len(r) : y[i] = r[i]
          /\ \A i \in 1 .. Len(m) : y[Len(r) + i] = m[i]
      <4>1. m \in Seq(Byte) /\ r \in Seq(Byte)
        BY <1>4, <2>1 DEF m
      <4>2. /\ \A i \in 1 .. Len(r) : y[i] = r[i]
            /\ \A i \in 1 .. Len(m) : y[Len(r) + i] = m[i]
        BY <4>1, JoinedPlaces DEF m
      <4>3. \A a, b \in Seq(Byte) : a \o b \in Seq(Byte) /\ Len(a \o b) = Len(a) + Len(b) /\ Len(a) \in Nat
        OBVIOUS
      <4>4. y = r \o m
        BY DEF m
      <4> HIDE DEF y
      <4> QED
        BY <4>1, <4>2, <4>3, <4>4
    <3>2. Len(m) = 2 /\ m[1] = "IAC" /\ m[2] = "EOR" /\ 1 \in 1 .. 2 /\ 2 \in 1 .. 2
      BY <2>1 DEF m
    <3> HIDE DEF y
    <3> QED
      BY <3>1, <3>2
  <2> HIDE DEF y
  <2>3. Len(r) + 1 = n - 1 /\ Len(r) + 2 = n
    BY <1>2, <1>4
  <2>4. \A i \in 1 .. n : y[i] = i0[i]
    <3> TAKE i \in 1 .. n
    <3>1. i \in 1 .. n - 2 \/ i = n - 1 \/ i = n
      BY <1>2
    <3> QED
      BY <1>2, <1>4, <2>2, <2>3, <3>1
  <2>5. y = i0
    BY <1>2, <2>2, <2>3, <2>4, SameSeq
  <2> QED
    BY <2>5 DEF y
<1>8. RecordData(r, TRUE) = <<>>
  BY <1>2, <1>5 DEF RecordData
<1>9. OnWire(u, TRUE) = Escaped(r) \o Mark /\ DataIn(u) = RecordData(r, TRUE) /\ DataIn(u) \in Seq(Datum)
  <2>1. <<>> \in Seq(Datum)
    OBVIOUS
  <2> DEFINE w == OnWire(u, TRUE)
             d == DataIn(u)
             e == Escaped(r)
             z == RecordData(r, TRUE)
  <2>2. w = i0 /\ d = <<>> /\ e = r /\ z = <<>>
    BY <1>3, <1>6, <1>8
  <2> HIDE DEF w, d, e, z
  <2>3. w = e \o Mark /\ d = z /\ d \in Seq(Datum)
    BY <1>7, <2>1, <2>2
  <2> QED
    BY <2>3 DEF w, d, e, z
<1> QED
  BY <1>1, <1>3, <1>4, <1>5, <1>9, SaidRecord

LEMMA SaidData ==
    ASSUME NEW u, Sayable(kind, u), u.as = "data", InRecords, NEW h \in BOOLEAN
    PROVE  \E uu : Spoken(u, h, h, uu)
<1> DEFINE i0 == u.item
           header == <<u.type, "0", "0", "0", "IAC">>
<1>1. i0 \in Seq(Byte) /\ Len(i0) \in Nat /\ u.type \in {"DATA", "SSCP_LU"}
  BY SaidPlain DEF Sayable
<1>2. /\ OnWire(u, h) = Escaped((IF h THEN header ELSE <<>>) \o i0) \o Mark
      /\ DataIn(u) = (IF i0 = <<>> THEN <<>> ELSE <<i0>>) /\ CommandIn(u) = <<>>
  BY DEF OnWire, DataIn, CommandIn, Mark
<1>3. DataIn(u) \in Seq(Datum)
  <2>1. i0 \in Datum
    BY <1>1 DEF Datum
  <2> HIDE DEF i0
  <2>2. <<>> \in Seq(Datum) /\ <<i0>> \in Seq(Datum)
    BY <2>1
  <2> QED
    BY <1>2, <2>2
<1> HIDE DEF i0
<1>4. CASE h = TRUE
  <2> DEFINE r == header \o i0
  <2>1. /\ header \in Seq(Byte) /\ Len(header) = 5 /\ header[1] = u.type
    <3>1. u.type \in Byte /\ "0" \in Byte /\ "IAC" \in Byte
      BY <1>1 DEF Byte
    <3> QED
      BY <3>1
  <2> HIDE DEF header
  <2>2. /\ r \in Seq(Byte) /\ Len(r) = 5 + Len(i0) /\ r[1] = u.type
        /\ SubSeq(r, 6, Len(r)) = i0
    <3> DEFINE g == header
    <3>0. g \in Seq(Byte) /\ i0 \in Seq(Byte) /\ r = g \o i0 /\ Len(g) = 5
      BY <1>1, <2>1
    <3> HIDE DEF g, r
    <3>1. /\ r \in Seq(Byte) /\ Len(r) = 5 + Len(i0)
          /\ \A i \in 1 .. 5 : r[i] = g[i]
      <4>0. g \in Seq(Byte) /\ i0 \in Seq(Byte)
        BY <3>0
      <4>1. \A i \in 1 .. Len(g) : (g \o i0)[i] = g[i]
        BY <4>0, JoinedPlaces
      <4>2. \A a, b \in Seq(Byte) : a \o b \in Seq(Byte) /\ Len(a \o b) = Len(a) + Len(b) /\ Len(a) \in Nat
        OBVIOUS
      <4> QED
        BY <3>0, <4>1, <4>2
    <3>2. SubSeq(g \o i0, Len(g) + 1, Len(g \o i0)) = i0
      <4>1. g \in Seq(Byte) /\ i0 \in Seq(Byte)
        BY <3>0
      <4> QED
        BY <4>1, Cutting
    <3>4. g[1] = u.type /\ SubSeq(r, 6, Len(r)) = i0
      BY <2>1, <3>0, <3>2 DEF g
    <3>3. 1 \in 1 .. 5
      OBVIOUS
    <3> QED
      BY <3>1, <3>3, <3>4
  <2> HIDE DEF r
  <2>3. r # <<>> /\ RecordData(r, TRUE) = (IF Len(r) > 5 THEN <<i0>> ELSE <<>>)
    <3>1. r # <<>> /\ r[1] \in {"DATA", "SSCP_LU"} /\ SubSeq(r, 6, Len(r)) = i0
      BY <1>1, <2>2
    <3>2. RecordData(r, TRUE) = IF Len(r) > 5 THEN <<SubSeq(r, 6, Len(r))>> ELSE <<>>
      BY <3>1 DEF RecordData
    <3> QED
      BY <3>1, <3>2
  <2>4. Len(r) > 5 <=> i0 # <<>>
    BY <1>1, <2>2
  <2>5. OnWire(u, h) = Escaped(r) \o Mark /\ DataIn(u) = RecordData(r, h)
    BY <1>2, <1>4, <2>3, <2>4 DEF r
  <2> QED
    BY <1>2, <1>3, <2>2, <2>3, <2>5, SaidRecord
<1>5. CASE h = FALSE /\ i0 # <<>>
  <2>1. <<>> \o i0 = i0
    BY <1>1
  <2>2. OnWire(u, h) = Escaped(i0) \o Mark /\ DataIn(u) = RecordData(i0, h)
    BY <1>2, <1>5, <2>1 DEF RecordData
  <2> QED
    BY <1>1, <1>2, <1>3, <1>5, <2>2, SaidRecord
<1>6. CASE h = FALSE /\ i0 = <<>>
  <2>1. OnWire(u, h) = Escaped(<<>>) \o Mark
    <3>1. <<>> \o <<>> = <<>>
      OBVIOUS
    <3> QED
      BY <1>2, <1>6, <3>1
  <2>2. Escaped(<<>>) = <<>>
    <3>1. <<>> \in Seq(Byte) /\ \A i \in 1 .. Len(<<>>) : <<>>[i] # "IAC"
      OBVIOUS
    <3> QED
      BY <3>1, PlainIsEscaped
  <2>3. <<>> \o Mark = <<"IAC", "EOR">>
    BY DEF Mark
  <2>4. "EOR" \in Byte /\ "EOR" \notin Verbs \cup {"SB", "IAC"}
    BY EscapeIsBytes DEF Verbs
  <2>5. OnWire(u, h) = <<"IAC", "EOR">> /\ DataIn(u) = <<>>
    BY <1>2, <1>6, <2>1, <2>2, <2>3
  <2> QED
    BY <1>2, <2>4, <2>5, SaidNothing
<1> QED
  BY <1>4, <1>5, <1>6

LEMMA SaidText ==
    ASSUME NEW u, Sayable(kind, u), u.as = "data", ~InRecords, NEW hostHas, NEW h \in BOOLEAN
    PROVE  \E uu : Spoken(u, hostHas, h, uu)
<1> DEFINE s == u.item
           tok(x) == [bytes |-> EscapeOf[x], data |-> <<x>>, command |-> <<>>, headers |-> h]
           uu == [i \in 1 .. Len(s) |-> tok(s[i])]
<1>1. /\ s \in Seq(Byte) /\ Len(s) \in Nat
      /\ kind = "hp6530" => \A i \in 1 .. Len(s) : s[i] \notin {"DC1", "DC3"}
  BY SaidPlain DEF Sayable
<1>2. /\ OnWire(u, hostHas) = Escaped(s) /\ DataIn(u) = s /\ CommandIn(u) = <<>>
  BY DEF OnWire, DataIn, CommandIn
<1> HIDE DEF s
<1>3. ASSUME NEW x \in Byte
      PROVE  /\ tok(x) \in Token /\ tok(x).bytes = EscapeOf[x] /\ tok(x).data = <<x>>
             /\ tok(x).command = <<>> /\ tok(x).headers = h
  <2>1. EscapeOf[x] \in Seq(Byte)
    BY EscapeIsBytes DEF Makes
  <2>2. <<x>> \in Seq(Datum)
    <3>1. x \in Datum
      BY DEF Datum
    <3> QED
      BY <3>1
  <2>3. <<>> \in Seq(Item)
    OBVIOUS
  <2> DEFINE b == EscapeOf[x]
             d == <<x>>
  <2>4. b \in Seq(Byte) /\ d \in Seq(Datum)
    BY <2>1, <2>2
  <2> HIDE DEF b, d
  <2>5. [bytes |-> b, data |-> d, command |-> <<>>, headers |-> h] \in Token
    BY <2>3, <2>4, NewToken
  <2> QED
    BY <2>5 DEF b, d
<1> HIDE DEF tok
<1>4. uu \in Seq(Token) /\ Len(uu) = Len(s) /\ \A i \in 1 .. Len(s) : uu[i] = tok(s[i]) /\ s[i] \in Byte
  BY <1>1, <1>3
<1> HIDE DEF uu
<1>5. \A i \in 1 .. Len(uu) : Fits(kind, uu[i])
  <2> TAKE i \in 1 .. Len(uu)
  <2> DEFINE x == s[i]
             t == uu[i]
  <2>1. x \in Byte /\ t = tok(x) /\ (kind = "hp6530" => x \notin {"DC1", "DC3"})
    BY <1>1, <1>4
  <2> HIDE DEF x, t
  <2>2. TextFits(kind, t, x) /\ t \in Token
    BY <1>3, <2>1 DEF TextFits, InRecords
  <2>3. Fits(kind, t)
    BY <2>2 DEF Fits
  <2> QED
    BY <2>3 DEF t
<1>6. Bytes(uu) = Escaped(s)
  <2>1. \A i \in 1 .. Len(s) : BytesOfToken[uu[i]] = EscapeOf[s[i]]
    BY <1>3, <1>4 DEF BytesOfToken
  <2>2. [i \in 1 .. Len(uu) |-> BytesOfToken[uu[i]]] = [i \in 1 .. Len(s) |-> EscapeOf[s[i]]]
    BY <1>4, <2>1
  <2>3. Escaped(s) = Gather(EscapeOf, s)
    BY <1>1, EscapedIsGathered
  <2> QED
    BY <2>2, <2>3 DEF Bytes, Gather
<1>7. Datas(uu) = s
  <2>1. \A i \in 1 .. Len(uu) : DataOfToken[uu[i]] = <<s[i]>>
    BY <1>3, <1>4 DEF DataOfToken
  <2>2. s \in Seq(Datum)
    BY <1>1 DEF Datum
  <2> QED
    BY <1>4, <2>1, <2>2, TokenParts, GatherSingles DEF Datas
<1>8. Commands(uu) = <<>>
  <2> DEFINE G == CommandOfToken
  <2>1. \A i \in 1 .. Len(uu) : G[uu[i]] = <<>>
    BY <1>3, <1>4 DEF CommandOfToken
  <2>2. Makes(G, Token, Item) /\ uu \in Seq(Token)
    BY <1>4, TokenParts
  <2>3. Commands(uu) = Gather(G, uu)
    BY DEF Commands
  <2> HIDE DEF G
  <2> QED
    BY <2>1, <2>2, <2>3, GatherEmpties
<1>9. \A i \in 1 .. Len(uu) : uu[i].headers = h
  BY <1>3, <1>4
<1>10. Spoken(u, hostHas, h, uu)
  BY <1>2, <1>4, <1>5, <1>6, <1>7, <1>8, <1>9 DEF Spoken, Stream
<1> QED
  BY <1>10

\* every unit, then
LEMMA UnitSpoken ==
    ASSUME NEW u, Sayable(kind, u), NEW hostHas \in BOOLEAN, NEW h \in BOOLEAN,
           InRecords /\ (u.as = "data" \/ u.type # "DATA") => h = hostHas,
           u.type # "DATA" => hostHas
    PROVE  \E uu : Spoken(u, hostHas, h, uu)
<1>1. /\ u.as \in {"data", "command", "TN3270E", "flow", "skipped"}
      /\ u.type # "DATA" => kind = "tn3270" /\ u.as \in {"data", "skipped"}
  BY SaidPlain
<1>2. CASE u.as = "data" /\ InRecords
  <2>1. h = hostHas
    BY <1>2
  <2> QED
    BY <1>2, <2>1, SaidData
<1>3. CASE u.as = "data" /\ ~InRecords
  BY <1>3, SaidText
<1>4. CASE u.as \in {"command", "TN3270E"} /\ u.item[1] \in Verbs
  BY <1>4, SaidVerb
<1>5. CASE u.as \in {"command", "TN3270E"} /\ u.item[1] \notin Verbs
  BY <1>5, SaidSub
<1>6. CASE u.as = "flow"
  BY <1>6, SaidFlow
<1>7. CASE u.as = "skipped" /\ u.type = "DATA"
  BY <1>7, SaidSkipped
<1>8. CASE u.as = "skipped" /\ u.type # "DATA"
  <2>1. hostHas = TRUE /\ h = TRUE
    BY <1>1, <1>8 DEF InRecords, RecordKinds
  <2> QED
    BY <1>8, <2>1, SaidOtherRecord
<1> QED
  BY <1>1, <1>2, <1>3, <1>4, <1>5, <1>6, <1>7, <1>8

-----------------------------------------------------------------------------
(* What the host said, and what it makes of TN3270E.                       *)

DataInOf(k, u) ==
    IF u.as # "data" THEN <<>>
    ELSE IF ~(k \in RecordKinds) THEN u.item
    ELSE IF u.item = <<>> THEN <<>> ELSE <<u.item>>

DataOfUnit(k) == [u \in Units[k] |-> DataInOf(k, u)]
CommandOfUnit(k) == [u \in Units[k] |-> CommandIn(u)]

LEMMA UnitParts ==
    ASSUME kind \in Kinds
    PROVE  /\ Makes(DataOfUnit(kind), Units[kind], Datum) /\ Makes(CommandOfUnit(kind), Units[kind], Item)
           /\ \A u \in Units[kind] : DataOfUnit(kind)[u] = DataIn(u) /\ CommandOfUnit(kind)[u] = CommandIn(u)
<1> DEFINE D == Seq(Datum)
           I == Seq(Item)
<1>1. ASSUME NEW u \in Units[kind]
      PROVE  DataInOf(kind, u) = DataIn(u) /\ DataIn(u) \in D /\ CommandIn(u) \in I
  <2>1. Sayable(kind, u)
    BY UnitsAssumption
  <2> DEFINE s == u.item
  <2>2. s \in Seq(Byte)
    BY <2>1, SaidPlain
  <2>3. <<>> \in D /\ <<>> \in I /\ s \in D /\ <<s>> \in D /\ <<s>> \in I
    <3> HIDE DEF s
    <3>1. s \in Datum /\ s \in Item
      BY <2>2 DEF Datum, Item
    <3>2. s \in Seq(Datum)
      BY <2>2 DEF Datum
    <3> QED
      BY <3>1, <3>2
  <2>4. DataInOf(kind, u) = DataIn(u)
    BY DEF DataInOf, DataIn, InRecords
  <2> HIDE DEF D, I
  <2> QED
    BY <2>3, <2>4 DEF DataIn, CommandIn
<1> HIDE DEF D, I
<1>2. DataOfUnit(kind) \in [Units[kind] -> D] /\ CommandOfUnit(kind) \in [Units[kind] -> I]
  BY <1>1 DEF DataOfUnit, CommandOfUnit
<1>3. \A u \in Units[kind] : DataOfUnit(kind)[u] = DataIn(u) /\ CommandOfUnit(kind)[u] = CommandIn(u)
  BY <1>1 DEF DataOfUnit, CommandOfUnit
<1> QED
  BY <1>2, <1>3 DEF Makes, D, I

LEMMA SaidIsGathered ==
    ASSUME kind \in Kinds, NEW ss \in Seq(Units[kind])
    PROVE  DataOf(ss) = Gather(DataOfUnit(kind), ss) /\ CommandsOf(ss) = Gather(CommandOfUnit(kind), ss)
<1>1. \A i \in 1 .. Len(ss) : ss[i] \in Units[kind]
  OBVIOUS
<1>2. [i \in 1 .. Len(ss) |-> DataIn(ss[i])] = [i \in 1 .. Len(ss) |-> DataOfUnit(kind)[ss[i]]]
  BY <1>1, UnitParts
<1>3. [i \in 1 .. Len(ss) |-> CommandIn(ss[i])] = [i \in 1 .. Len(ss) |-> CommandOfUnit(kind)[ss[i]]]
  BY <1>1, UnitParts
<1> QED
  BY <1>2, <1>3 DEF DataOf, CommandsOf, Gather

LEMMA SaidMore ==
    ASSUME kind \in Kinds, NEW ss \in Seq(Units[kind]), NEW u \in Units[kind]
    PROVE  /\ Append(ss, u) \in Seq(Units[kind])
           /\ DataOf(ss) \in Seq(Datum) /\ CommandsOf(ss) \in Seq(Item)
           /\ DataIn(u) \in Seq(Datum) /\ CommandIn(u) \in Seq(Item)
           /\ DataOf(Append(ss, u)) = DataOf(ss) \o DataIn(u)
           /\ CommandsOf(Append(ss, u)) = CommandsOf(ss) \o CommandIn(u)
<1> DEFINE U == Units[kind]
           F == DataOfUnit(kind)
           G == CommandOfUnit(kind)
           r == Append(ss, u)
<1>1. ss \in Seq(U) /\ u \in U /\ r \in Seq(U) /\ Makes(F, U, Datum) /\ Makes(G, U, Item)
  BY UnitParts, Appending
<1>2. F[u] = DataIn(u) /\ G[u] = CommandIn(u)
  BY UnitParts
<1>3. /\ DataOf(ss) = Gather(F, ss) /\ CommandsOf(ss) = Gather(G, ss)
      /\ DataOf(r) = Gather(F, r) /\ CommandsOf(r) = Gather(G, r)
  BY <1>1, SaidIsGathered
<1> HIDE DEF U, F, G
<1>4. Gather(F, r) = Gather(F, ss) \o F[u] /\ Gather(G, r) = Gather(G, ss) \o G[u]
  BY <1>1, GatherAppend
<1>5. Gather(F, ss) \in Seq(Datum) /\ Gather(G, ss) \in Seq(Item)
  BY <1>1, GatherType
<1>6. F[u] \in Seq(Datum) /\ G[u] \in Seq(Item)
  BY <1>1 DEF Makes
<1> QED
  BY <1>1, <1>2, <1>3, <1>4, <1>5, <1>6 DEF U

LEMMA SaidYetNothing ==
    ASSUME kind \in Kinds
    PROVE  DataOf(<<>>) = <<>> /\ CommandsOf(<<>>) = <<>> /\ <<>> \in Seq(Units[kind])
<1>1. <<>> \in Seq(Units[kind])
  OBVIOUS
<1> QED
  BY <1>1, SaidIsGathered, GatherNone

LEMMA SaysOf ==
    ASSUME kind \in Kinds, said \in Seq(Units[kind]), NEW x, x[2] = "TN3270E"
    PROVE  Says(x) <=> Of(x, CommandsOf(said))
<1> DEFINE U == Units[kind]
           G == CommandOfUnit(kind)
           g == CommandsOf(said)
<1>1. said \in Seq(U) /\ Makes(G, U, Item) /\ g = Gather(G, said)
  BY UnitParts, SaidIsGathered
<1>2. \A i \in 1 .. Len(said) : said[i] \in U /\ G[said[i]] = CommandIn(said[i])
  BY UnitParts
<1>3. \A u \in U : Sayable(kind, u)
  BY UnitsAssumption
<1> HIDE DEF U, G, g
<1>4. Of(x, g) <=> \E i \in 1 .. Len(said) : Of(x, G[said[i]])
  BY <1>1, OfGathered
<1>5. ASSUME Of(x, g) PROVE Says(x)
  <2>1. PICK i \in 1 .. Len(said) : Of(x, G[said[i]])
    BY <1>4, <1>5
  <2> DEFINE u == said[i]
  <2>2. u \in U /\ Sayable(kind, u) /\ Of(x, CommandIn(u))
    BY <1>2, <1>3, <2>1
  <2>3. u.as \in {"command", "TN3270E"} /\ u.item = x
    BY <2>2, OfOne DEF CommandIn
  <2>4. u.as = "TN3270E"
    BY <2>2, <2>3 DEF Sayable
  <2> QED
    BY <2>3, <2>4 DEF Says
<1>6. ASSUME Says(x) PROVE Of(x, g)
  <2>1. PICK i \in 1 .. Len(said) : said[i].as = "TN3270E" /\ said[i].item = x
    BY <1>6 DEF Says
  <2>2. CommandIn(said[i]) = <<x>>
    BY <2>1 DEF CommandIn
  <2>3. Of(x, G[said[i]])
    BY <1>2, <2>2, OfOne
  <2> QED
    BY <1>4, <2>3
<1> QED
  BY <1>5, <1>6 DEF g

\* the host's view of headers, from what it said and was told
Agreed(d, s) == (Of(FunctionsAre, s) \/ Told(d, FunctionsAre)) /\ ~Of(Dont, s)

LEMMA HostsView ==
    ASSUME kind \in Kinds, said \in Seq(Units[kind])
    PROVE  LET s == CommandsOf(said)
           IN  /\ HostHasHeaders <=> Agreed(c, s)
               /\ HostNegotiates <=> /\ Of(Do, s) /\ ~Of(Dont, s)
                                     /\ ~Agreed(c, s) /\ ~Told(c, Wont)
<1>1. FunctionsAre[2] = "TN3270E" /\ Dont[2] = "TN3270E" /\ Do[2] = "TN3270E"
  BY DEF FunctionsAre, Dont, Do
<1>2. /\ Says(FunctionsAre) <=> Of(FunctionsAre, CommandsOf(said))
      /\ Says(Dont) <=> Of(Dont, CommandsOf(said))
      /\ Says(Do) <=> Of(Do, CommandsOf(said))
  BY <1>1, SaysOf
<1>3. HostHasHeaders <=> (Says(FunctionsAre) \/ Told(c, FunctionsAre)) /\ ~Says(Dont)
  BY DEF HostHasHeaders, WasTold, Told, FunctionsAre, Dont
<1>4. HostNegotiates <=> Says(Do) /\ ~Says(Dont) /\ ~HostHasHeaders /\ ~Told(c, Wont)
  BY DEF HostNegotiates, WasTold, Told, Do, Dont, Wont
<1> QED
  BY <1>2, <1>3, <1>4 DEF Agreed

LEMMA CommandsHave ==
    ASSUME NEW ts, Stream(kind, ts), NEW x
    PROVE  Of(x, Commands(ts)) <=> \E i \in 1 .. Len(ts) : ts[i].command = <<x>>
<1> DEFINE G == CommandOfToken
<1>1. ts \in Seq(Token) /\ (\A i \in 1 .. Len(ts) : Fits(kind, ts[i]) /\ ts[i] \in Token)
  BY DEF Stream, Fits
<1>2. Makes(G, Token, Item) /\ \A i \in 1 .. Len(ts) : G[ts[i]] = ts[i].command
  BY <1>1, TokenParts DEF CommandOfToken
<1>3. Commands(ts) = Gather(G, ts)
  BY DEF Commands
<1> HIDE DEF G
<1>4. Of(x, Gather(G, ts)) <=> \E i \in 1 .. Len(ts) : Of(x, G[ts[i]])
  BY <1>1, <1>2, OfGathered
<1>5. Of(x, Commands(ts)) <=> \E i \in 1 .. Len(ts) : Of(x, ts[i].command)
  BY <1>2, <1>3, <1>4
<1>6. \A i \in 1 .. Len(ts) : Of(x, ts[i].command) <=> ts[i].command = <<x>>
  <2> TAKE i \in 1 .. Len(ts)
  <2>1. CASE ts[i].command = <<>>
    BY <2>1, OfOne
  <2>2. CASE \E item \in Item : ts[i].command = <<item>>
    <3>1. PICK item : ts[i].command = <<item>>
      BY <2>2
    <3>2. <<item>> = <<x>> <=> item = x
      OBVIOUS
    <3> QED
      BY <3>1, <3>2, OfOne
  <2> QED
    BY <1>1, <2>1, <2>2, CommandFits
<1> QED
  BY <1>5, <1>6

\* what is said now, as to the headers of records
NextHeaders(d, ts) == (d.headers \/ (ts # <<>> /\ Grant(ts[1]))) /\ NoDont(ts, Len(ts))

LEMMA HeadersOfNext ==
    ASSUME kind \in Kinds, InRecords, c \in Conn, said \in Seq(Units[kind]), NEW ts, Stream(kind, ts),
           Headed(kind, c, ts), c.commands \o Commands(ts) = CommandsOf(said)
    PROVE  /\ ~HostNegotiates => (NextHeaders(c, ts) <=> HostHasHeaders)
           /\ HostHasHeaders => NextHeaders(c, ts)
<1> DEFINE s == CommandsOf(said)
           A == Of(FunctionsAre, c.commands)
           T == Told(c, FunctionsAre)
           D == Of(Dont, c.commands)
<1>1. \A x : Of(x, s) <=> Of(x, c.commands) \/ \E i \in 1 .. Len(ts) : ts[i].command = <<x>>
  <2>1. c.commands \in Seq(Item) /\ Commands(ts) \in Seq(Item)
    <3>1. ts \in Seq(Token)
      BY DEF Stream
    <3> QED
      BY <3>1, StreamType, ConnSet
  <2> TAKE x
  <2>2. Of(x, c.commands \o Commands(ts)) <=> Of(x, c.commands) \/ Of(x, Commands(ts))
    BY <2>1, OfJoin
  <2> QED
    BY <2>2, CommandsHave
<1>2. /\ HostHasHeaders <=> Agreed(c, s)
      /\ HostNegotiates <=> Of(Do, s) /\ ~Of(Dont, s) /\ ~Agreed(c, s) /\ ~Told(c, Wont)
  BY HostsView
<1>3. /\ c.headers <=> (A \/ T) /\ ~D
      /\ \A i \in 2 .. Len(ts) : ~Grant(ts[i])
      /\ ts # <<>> /\ Grant(ts[1]) => Of(Do, c.commands) /\ ~D /\ ~Told(c, Wont)
  BY DEF Headed, InRecords
<1>4. Len(ts) \in Nat /\ (ts # <<>> => 1 \in 1 .. Len(ts)) /\ (ts = <<>> => Len(ts) = 0)
  <2>1. ts \in Seq(Token)
    BY DEF Stream
  <2> QED
    BY <2>1
<1>5. Of(Dont, s) <=> D \/ ~NoDont(ts, Len(ts))
  BY <1>1 DEF NoDont
<1>6. Of(FunctionsAre, s) <=> A \/ (ts # <<>> /\ ts[1].command = <<FunctionsAre>>)
  <2>1. \A i \in 2 .. Len(ts) : ts[i].command # <<FunctionsAre>>
    BY <1>3 DEF Grant
  <2>2. \A i \in 1 .. Len(ts) : i = 1 \/ i \in 2 .. Len(ts)
    BY <1>4
  <2>3. (\E i \in 1 .. Len(ts) : ts[i].command = <<FunctionsAre>>)
           <=> ts # <<>> /\ ts[1].command = <<FunctionsAre>>
    BY <1>4, <2>1, <2>2
  <2>4. Of(FunctionsAre, s) <=> Of(FunctionsAre, c.commands)
                                   \/ \E i \in 1 .. Len(ts) : ts[i].command = <<FunctionsAre>>
    BY <1>1
  <2> QED
    BY <2>3, <2>4
<1>7. Of(Do, c.commands) => Of(Do, s)
  BY <1>1
<1> HIDE DEF s, A, T, D
<1>8. Agreed(c, s) <=> (Of(FunctionsAre, s) \/ T) /\ ~Of(Dont, s)
  BY DEF Agreed, T
<1>9. CASE ~NoDont(ts, Len(ts))
  BY <1>2, <1>5, <1>8, <1>9 DEF NextHeaders
<1>10. CASE NoDont(ts, Len(ts)) /\ ~(ts # <<>> /\ Grant(ts[1]))
  <2>1. Of(FunctionsAre, s) <=> A
    BY <1>6, <1>10 DEF Grant
  <2> QED
    BY <1>2, <1>3, <1>5, <1>8, <1>10, <2>1 DEF NextHeaders
<1>11. CASE NoDont(ts, Len(ts)) /\ ts # <<>> /\ Grant(ts[1])
  <2>1. ~D /\ ~Told(c, Wont) /\ Of(Do, s) /\ ~Of(Dont, s) /\ NextHeaders(c, ts)
    BY <1>3, <1>5, <1>7, <1>11 DEF NextHeaders
  <2> QED
    BY <1>2, <2>1
<1> QED
  BY <1>9, <1>10, <1>11

LEMMA QuietIsEmpty ==
    ASSUME NEW d \in Conn, NEW ts, Stream(kind, ts), d.buf \o <<>> = Bytes(ts), Settled(d, ts)
    PROVE  ts = <<>> /\ d.buf = <<>>
<1>1. d.buf \in Seq(Byte) /\ ts \in Seq(Token)
  BY ConnSet DEF Stream
<1>2. d.buf = Bytes(ts)
  <2>1. \A b \in Seq(Byte) : b \o <<>> = b
    BY Joining
  <2> QED
    BY <1>1, <2>1
<1>3. ASSUME ts # <<>> PROVE FALSE
  <2>1. /\ Len(ts[1].bytes) \in Nat /\ ts[1].bytes \in Seq(Byte) /\ Tail(ts) \in Seq(Token)
        /\ Bytes(ts) = ts[1].bytes \o Bytes(Tail(ts))
    BY <1>1, <1>3, StreamFirst, StreamHead
  <2>2. Bytes(Tail(ts)) \in Seq(Byte)
    BY <2>1, StreamType
  <2> DEFINE x == ts[1].bytes
             y == Bytes(Tail(ts))
  <2>3. x \in Seq(Byte) /\ y \in Seq(Byte)
    BY <2>1, <2>2
  <2> HIDE DEF x, y
  <2>4. Len(x \o y) = Len(x) + Len(y) /\ Len(x) \in Nat /\ Len(y) \in Nat
    BY <2>3
  <2>5. Len(d.buf) = Len(x) + Len(y) /\ Len(d.buf) < Len(x)
    BY <1>2, <1>3, <2>1, <2>4 DEF Settled, x, y
  <2> QED
    BY <2>4, <2>5
<1>4. ts = <<>>
  BY <1>3
<1> QED
  BY <1>1, <1>2, <1>4, StreamType

\* a host that is quiet says functions; what it grants, then, comes at once
LEMMA GrantIsMade ==
    ASSUME kind \in Kinds, NEW u \in Units[kind], HostSays(u), NEW x, x \in {FunctionsAre, FunctionsWanted},
           CommandIn(u) = <<x>>
    PROVE  wire = <<>> /\ HostNegotiates
<1>1. Sayable(kind, u)
  BY UnitsAssumption
<1>2. u.item = x /\ u.as \in {"command", "TN3270E"}
  BY DEF CommandIn
<1>3. x[1] = "SB" /\ x[2] = "TN3270E" /\ x[3] = "FUNCTIONS"
  BY DEF FunctionsAre, FunctionsWanted
<1>4. u.as = "TN3270E"
  BY <1>1, <1>2, <1>3 DEF Sayable
<1>5. HostMaySay(u.item)
  BY <1>4 DEF HostSays
<1>6. x # <<"DO", "TN3270E">> /\ x # <<"DONT", "TN3270E">>
  BY DEF FunctionsAre, FunctionsWanted
<1>7. x[3] # "SEND" /\ x[3] # "DEVICE_TYPE"
  BY <1>3
<1> QED
  BY <1>2, <1>3, <1>5, <1>6, <1>7 DEF HostMaySay

LEMMA NoPieces == Bytes(<<>>) = <<>> /\ Datas(<<>>) = <<>> /\ Commands(<<>>) = <<>>
<1>1. <<>> \in Seq(Token)
  OBVIOUS
<1> QED
  BY <1>1, StreamType

\* h is what a piece that is said now has for headers
MayFollow(d, ts, uu, h) ==
    InRecords =>
        /\ Len(uu) = 1 /\ uu[1].headers = h
        /\ h <=> NextHeaders(d, ts)
        /\ Grant(uu[1]) => /\ ts = <<>> /\ Of(Do, d.commands) /\ ~Of(Dont, d.commands)
                           /\ ~Told(d, Wont)

LEMMA HeadedMore ==
    ASSUME NEW d, NEW ts \in Seq(Token), NEW uu \in Seq(Token), NEW h, Headed(kind, d, ts),
           MayFollow(d, ts, uu, h)
    PROVE  Headed(kind, d, ts \o uu)
<1> SUFFICES ASSUME InRecords PROVE Headed(kind, d, ts \o uu)
  BY DEF Headed, InRecords
<1> DEFINE r == ts \o uu
           n == Len(ts)
<1>1. /\ n \in Nat /\ Len(r) = n + 1 /\ r # <<>> /\ Len(uu) = 1
      /\ \A i \in 1 .. n : r[i] = ts[i]
      /\ r[n + 1] = uu[1]
  <2>1. Len(uu) = 1
    BY DEF MayFollow
  <2>2. /\ n \in Nat /\ Len(ts \o uu) = n + Len(uu)
        /\ \A i \in 1 .. n : (ts \o uu)[i] = ts[i]
        /\ \A i \in 1 .. Len(uu) : (ts \o uu)[n + i] = uu[i]
        /\ ts \o uu \in Seq(Token)
    BY JoinedPlaces
  <2>3. 1 \in 1 .. Len(uu)
    BY <2>1
  <2> HIDE DEF n
  <2>4. r \in Seq(Token) /\ Len(r) = n + 1
    BY <2>1, <2>2
  <2> HIDE DEF r
  <2>5. r # <<>>
    BY <2>2, <2>4
  <2> QED
    BY <2>1, <2>2, <2>3, <2>4, <2>5 DEF r
<1>2. /\ d.headers <=> (Of(FunctionsAre, d.commands) \/ Told(d, FunctionsAre)) /\ ~Of(Dont, d.commands)
      /\ \A i \in 1 .. n : ts[i].headers <=> (d.headers \/ (i > 1 /\ Grant(ts[1]))) /\ NoDont(ts, i - 1)
      /\ \A i \in 2 .. n : ~Grant(ts[i])
      /\ ts # <<>> /\ Grant(ts[1]) => Of(Do, d.commands) /\ ~Of(Dont, d.commands) /\ ~Told(d, Wont)
  BY DEF Headed, InRecords
<1>3. /\ uu[1].headers <=> NextHeaders(d, ts)
      /\ Grant(uu[1]) => /\ ts = <<>> /\ Of(Do, d.commands) /\ ~Of(Dont, d.commands)
                         /\ ~Told(d, Wont)
  BY DEF MayFollow
<1>4. (ts = <<>> <=> n = 0) /\ (ts # <<>> => n >= 1)
  OBVIOUS
<1> HIDE DEF r, n
<1>5. \A j \in 0 .. n : NoDont(r, j) <=> NoDont(ts, j)
  BY <1>1 DEF NoDont
<1>6. n >= 1 => r[1] = ts[1]
  BY <1>1
<1>7. \A i \in 1 .. Len(r) :
         r[i].headers <=> (d.headers \/ (i > 1 /\ Grant(r[1]))) /\ NoDont(r, i - 1)
  <2> TAKE i \in 1 .. Len(r)
  <2>1. CASE i \in 1 .. n
    <3>1. r[i] = ts[i] /\ r[1] = ts[1] /\ i - 1 \in 0 .. n
      BY <1>1, <1>6, <2>1
    <3>2. NoDont(r, i - 1) <=> NoDont(ts, i - 1)
      BY <1>5, <3>1
    <3>3. ts[i].headers <=> (d.headers \/ (i > 1 /\ Grant(ts[1]))) /\ NoDont(ts, i - 1)
      BY <1>2, <2>1
    <3> QED
      BY <3>1, <3>2, <3>3
  <2>2. CASE i = n + 1
    <3>1. r[i] = uu[1] /\ i - 1 = n /\ n \in 0 .. n
      BY <1>1, <2>2
    <3>2. NoDont(r, n) <=> NoDont(ts, n)
      BY <1>5, <3>1
    <3>3. i > 1 <=> ts # <<>>
      BY <1>1, <1>4, <2>2
    <3>4. ts # <<>> => r[1] = ts[1]
      BY <1>4, <1>6
    <3>5. uu[1].headers <=> (d.headers \/ (ts # <<>> /\ Grant(ts[1]))) /\ NoDont(ts, n)
      BY <1>3 DEF NextHeaders, n
    <3> QED
      BY <3>1, <3>2, <3>3, <3>4, <3>5
  <2> QED
    BY <1>1, <2>1, <2>2
<1>8. \A i \in 2 .. Len(r) : ~Grant(r[i])
  <2> TAKE i \in 2 .. Len(r)
  <2>1. CASE i \in 2 .. n
    BY <1>1, <1>2, <2>1
  <2>2. CASE i = n + 1
    <3>1. r[i] = uu[1] /\ n >= 1
      BY <1>1, <2>2
    <3> QED
      BY <1>3, <1>4, <3>1
  <2> QED
    BY <1>1, <2>1, <2>2
<1>9. Grant(r[1]) => Of(Do, d.commands) /\ ~Of(Dont, d.commands) /\ ~Told(d, Wont)
  <2>1. CASE n >= 1
    BY <1>2, <1>4, <1>6, <2>1
  <2>2. CASE n = 0
    <3>1. r[1] = uu[1]
      BY <1>1, <2>2
    <3> QED
      BY <1>3, <3>1
  <2> QED
    BY <1>1, <2>1, <2>2
<1>10. Headed(kind, d, r)
  BY <1>2, <1>7, <1>8, <1>9 DEF Headed
<1> QED
  BY <1>10 DEF r

LEMMA StreamMore ==
    ASSUME NEW ts, NEW uu, Stream(kind, ts), Stream(kind, uu)
    PROVE  Stream(kind, ts \o uu) /\ ts \in Seq(Token) /\ uu \in Seq(Token)
<1> DEFINE r == ts \o uu
<1>1. ts \in Seq(Token) /\ uu \in Seq(Token)
  BY DEF Stream
<1>2. /\ r \in Seq(Token) /\ Len(ts) \in Nat /\ Len(uu) \in Nat /\ Len(r) = Len(ts) + Len(uu)
      /\ \A i \in 1 .. Len(ts) : r[i] = ts[i]
      /\ \A i \in 1 .. Len(uu) : r[Len(ts) + i] = uu[i]
  BY <1>1, JoinedPlaces
<1> HIDE DEF r
<1>3. ASSUME NEW i \in 1 .. Len(r) PROVE Fits(kind, r[i])
  <2>1. CASE i \in 1 .. Len(ts)
    BY <1>2, <2>1 DEF Stream
  <2>2. CASE i - Len(ts) \in 1 .. Len(uu)
    <3>1. r[Len(ts) + (i - Len(ts))] = uu[i - Len(ts)] /\ Len(ts) + (i - Len(ts)) = i
      BY <1>2, <2>2
    <3> QED
      BY <2>2, <3>1 DEF Stream
  <2> QED
    BY <1>2, <2>1, <2>2
<1> QED
  BY <1>1, <1>2, <1>3 DEF Stream, r

\* what is on its way, and what is said now after it
LEMMA InStepMore ==
    ASSUME NEW d, NEW ts, NEW uu, NEW more, NEW data, NEW commands, NEW asks, NEW h,
           InStep(d, ts, more, data, commands, asks), Settled(d, ts),
           Stream(kind, uu), MayFollow(d, ts, uu, h)
    PROVE  /\ InStep(d, ts \o uu, more \o Bytes(uu), data \o Datas(uu), commands \o Commands(uu), asks)
           /\ Settled(d, ts \o uu)
<1>1. /\ d \in Conn /\ Stream(kind, ts) /\ more \in Seq(Byte) /\ d.buf \o more = Bytes(ts)
      /\ d.data \o Datas(ts) = data /\ d.commands \o Commands(ts) = commands
      /\ Headed(kind, d, ts) /\ Named(kind, d) /\ Flow(kind, d, asks)
      /\ kind = "tn3270" => d.sock = "up"
  BY DEF InStep
<1> DEFINE r == ts \o uu
<1>2. Stream(kind, r) /\ ts \in Seq(Token) /\ uu \in Seq(Token)
  BY <1>1, StreamMore
<1>3. Headed(kind, d, r)
  BY <1>1, <1>2, HeadedMore
<1>4. Bytes(r) = Bytes(ts) \o Bytes(uu) /\ Datas(r) = Datas(ts) \o Datas(uu)
      /\ Commands(r) = Commands(ts) \o Commands(uu)
  BY <1>2, StreamJoin
<1>5. /\ Bytes(ts) \in Seq(Byte) /\ Datas(ts) \in Seq(Datum) /\ Commands(ts) \in Seq(Item)
      /\ Bytes(uu) \in Seq(Byte) /\ Datas(uu) \in Seq(Datum) /\ Commands(uu) \in Seq(Item)
  BY <1>2, StreamType
<1>6. d.buf \in Seq(Byte) /\ d.data \in Seq(Datum) /\ d.commands \in Seq(Item)
  BY <1>1, ConnSet
<1> DEFINE b == d.buf
           w == Bytes(uu)
           dd == d.data
           cc == d.commands
           t1 == Datas(ts)
           t2 == Datas(uu)
           m1 == Commands(ts)
           m2 == Commands(uu)
<1>7. /\ b \in Seq(Byte) /\ w \in Seq(Byte) /\ dd \in Seq(Datum) /\ t1 \in Seq(Datum)
      /\ t2 \in Seq(Datum) /\ cc \in Seq(Item) /\ m1 \in Seq(Item) /\ m2 \in Seq(Item)
      /\ more \in Seq(Byte)
  BY <1>1, <1>5, <1>6
<1>70. /\ b \o more = Bytes(ts) /\ Bytes(r) = Bytes(ts) \o w
       /\ Datas(r) = t1 \o t2 /\ dd \o t1 = data
       /\ Commands(r) = m1 \o m2 /\ cc \o m1 = commands
  BY <1>1, <1>4
<1> HIDE DEF b, w, dd, cc, t1, t2, m1, m2, r
<1>8. d.buf \o (more \o Bytes(uu)) = Bytes(r) /\ more \o Bytes(uu) \in Seq(Byte)
  <2>1. b \o (more \o w) = Bytes(r) /\ more \o w \in Seq(Byte)
    <3>1. b \in Seq(Byte) /\ w \in Seq(Byte) /\ more \in Seq(Byte)
      BY <1>7
    <3>2. b \o more = Bytes(ts) /\ Bytes(r) = Bytes(ts) \o w
      BY <1>70
    <3>3. (b \o more) \o w = b \o (more \o w) /\ more \o w \in Seq(Byte)
      BY <3>1, Associates
    <3> QED
      BY <3>2, <3>3
  <2> QED
    BY <2>1 DEF b, w
<1>9. d.data \o Datas(r) = data \o Datas(uu) /\ d.commands \o Commands(r) = commands \o Commands(uu)
  <2> DEFINE p == data \o t2
             q == commands \o m2
  <2>0. p = data \o t2 /\ q = commands \o m2
    OBVIOUS
  <2> HIDE DEF p, q
  <2>1. dd \o (t1 \o t2) = p
    <3>1. dd \o t1 = data /\ p = data \o t2
      BY <1>70, <2>0
    <3>2. dd \in Seq(Datum) /\ t1 \in Seq(Datum) /\ t2 \in Seq(Datum)
      BY <1>7
    <3>3. (dd \o t1) \o t2 = dd \o (t1 \o t2)
      BY <3>2, Associates
    <3> QED
      BY <3>1, <3>3
  <2>2. cc \o (m1 \o m2) = q
    <3>1. cc \o m1 = commands /\ q = commands \o m2
      BY <1>70, <2>0
    <3>2. cc \in Seq(Item) /\ m1 \in Seq(Item) /\ m2 \in Seq(Item)
      BY <1>7
    <3>3. (cc \o m1) \o m2 = cc \o (m1 \o m2)
      BY <3>2, Associates
    <3> QED
      BY <3>1, <3>3
  <2> QED
    BY <1>70, <2>0, <2>1, <2>2 DEF dd, t2, cc, m2
<1>10. InStep(d, r, more \o Bytes(uu), data \o Datas(uu), commands \o Commands(uu), asks)
  BY <1>1, <1>2, <1>3, <1>8, <1>9 DEF InStep
<1>11. ts # <<>> => Settled(d, r)
  <2> SUFFICES ASSUME ts # <<>> PROVE Settled(d, r)
    OBVIOUS
  <2>1. Len(d.buf) < Len(ts[1].bytes)
    BY DEF Settled
  <2>2. r[1] = ts[1]
    <3>1. 1 \in 1 .. Len(ts)
      BY <1>2
    <3>2. \A i \in 1 .. Len(ts) : (ts \o uu)[i] = ts[i]
      BY <1>2, JoinedPlaces
    <3> QED
      BY <3>1, <3>2 DEF r
  <2> QED
    BY <2>1, <2>2 DEF Settled
<1>12. ts = <<>> => Settled(d, r)
  <2> SUFFICES ASSUME ts = <<>> PROVE Settled(d, r)
    OBVIOUS
  <2>1. r = uu
    <3>1. <<>> \o uu = uu
      BY <1>2
    <3> QED
      BY <3>1 DEF r
  <2>2. d.buf = <<>>
    <3>1. d.buf \o more = <<>>
      BY <1>1, NoPieces
    <3>2. \A x, y \in Seq(Byte) : x \o y = <<>> => x = <<>>
      <4> TAKE x, y \in Seq(Byte)
      <4>1. Len(x \o y) = Len(x) + Len(y) /\ Len(x) \in Nat /\ Len(y) \in Nat /\ Len(<<>>) = 0
        OBVIOUS
      <4>2. Len(x) = 0 => x = <<>>
        OBVIOUS
      <4> QED
        BY <4>1, <4>2
    <3> QED
      BY <1>1, <1>6, <3>1, <3>2
  <2>3. uu # <<>> => Len(uu[1].bytes) >= 1 /\ Len(uu[1].bytes) \in Nat
    BY StreamFirst
  <2>4. Len(<<>>) = 0
    OBVIOUS
  <2> QED
    BY <2>1, <2>2, <2>3, <2>4 DEF Settled
<1> QED
  BY <1>10, <1>11, <1>12 DEF r

LEMMA HostSpeaks ==
    ASSUME kind \in Kinds, said \in Seq(Units[kind]), NEW u \in Units[kind], HostSays(u),
           NEW ts, InStep(c, ts, wire, DataOf(said), CommandsOf(said), asked), Settled(c, ts)
    PROVE  \E rr : /\ InStep(c, rr, wire \o OnWire(u, HostHasHeaders),
                            DataOf(Append(said, u)), CommandsOf(Append(said, u)), asked)
                   /\ Settled(c, rr)
<1>1. /\ c \in Conn /\ Stream(kind, ts) /\ c.buf \o wire = Bytes(ts) /\ Headed(kind, c, ts)
      /\ c.commands \o Commands(ts) = CommandsOf(said)
  BY DEF InStep
<1>2. Sayable(kind, u)
  BY UnitsAssumption
<1> DEFINE hh == HostHasHeaders
           h == NextHeaders(c, ts)
           s == CommandsOf(said)
<1>3. hh \in BOOLEAN /\ h \in BOOLEAN
  <2>1. c.headers \in BOOLEAN
    BY <1>1 DEF Conn
  <2> QED
    BY <2>1 DEF HostHasHeaders, NextHeaders, NoDont
<1>4. InRecords => (~HostNegotiates => (h <=> hh)) /\ (hh => h)
  BY <1>1, HeadersOfNext
<1>5. InRecords /\ (u.as = "data" \/ u.type # "DATA") => h = hh
  <2>1. u.as \in {"data", "command", "TN3270E", "flow", "skipped"}
        /\ (u.type # "DATA" => kind = "tn3270" /\ u.as \in {"data", "skipped"})
    BY <1>2, SaidPlain
  <2>2. u.as = "data" => ~HostNegotiates
    BY DEF HostSays
  <2>3. u.type # "DATA" => hh
    BY DEF HostSays
  <2> QED
    BY <1>3, <1>4, <2>1, <2>2, <2>3
<1>6. u.type # "DATA" => hh
  BY DEF HostSays
<1> HIDE DEF h, hh
<1>7. PICK uu : Spoken(u, hh, h, uu)
  BY <1>2, <1>3, <1>5, <1>6, UnitSpoken
<1>8. /\ Stream(kind, uu) /\ Bytes(uu) = OnWire(u, hh) /\ Datas(uu) = DataIn(u) /\ Commands(uu) = CommandIn(u)
      /\ \A i \in 1 .. Len(uu) : uu[i].headers = h
      /\ InRecords => Len(uu) = 1
  BY <1>7 DEF Spoken
<1>9. MayFollow(c, ts, uu, h)
  <2> SUFFICES ASSUME InRecords
               PROVE  /\ Len(uu) = 1 /\ uu[1].headers = h /\ (h <=> NextHeaders(c, ts))
                      /\ Grant(uu[1]) => /\ ts = <<>> /\ Of(Do, c.commands) /\ ~Of(Dont, c.commands)
                                         /\ ~Told(c, Wont)
    BY DEF MayFollow
  <2>1. Len(uu) = 1 /\ uu[1].headers = h
    <3>1. Len(uu) = 1 /\ 1 \in 1 .. 1
      BY <1>8
    <3> QED
      BY <1>8, <3>1
  <2>2. ASSUME Grant(uu[1])
        PROVE  ts = <<>> /\ Of(Do, c.commands) /\ ~Of(Dont, c.commands) /\ ~Told(c, Wont)
    <3>1. PICK x \in {FunctionsAre, FunctionsWanted} : uu[1].command = <<x>>
      BY <2>2 DEF Grant
    <3>2. CommandIn(u) = <<x>>
      <4>1. Of(x, Commands(uu))
        <5>1. 1 \in 1 .. Len(uu)
          BY <2>1
        <5> QED
          BY <1>8, <3>1, <5>1, CommandsHave
      <4>2. Of(x, CommandIn(u))
        BY <1>8, <4>1
      <4> QED
        BY <4>2, OfOne DEF CommandIn
    <3>3. wire = <<>> /\ HostNegotiates
      BY <3>2, GrantIsMade
    <3>4. ts = <<>>
      BY <1>1, <3>3, QuietIsEmpty
    <3>5. s = c.commands
      <4>1. Commands(ts) = <<>>
        BY <3>4, NoPieces
      <4> QED
        BY <1>1, <4>1, EmptyJoins
    <3>6. Of(Do, s) /\ ~Of(Dont, s) /\ ~Told(c, Wont)
      BY <3>3, HostsView
    <3> QED
      BY <3>4, <3>5, <3>6
  <2> QED
    BY <2>1, <2>2 DEF h
<1>10. /\ InStep(c, ts \o uu, wire \o Bytes(uu), DataOf(said) \o Datas(uu), s \o Commands(uu), asked)
       /\ Settled(c, ts \o uu)
  <2>1. InStep(c, ts, wire, DataOf(said), s, asked)
    BY DEF s
  <2>2. /\ InStep(c, ts \o uu, wire \o Bytes(uu), DataOf(said) \o Datas(uu), s \o Commands(uu), asked)
        /\ Settled(c, ts \o uu)
    <3> HIDE DEF s
    <3> QED
      BY <1>8, <1>9, <2>1, InStepMore
  <2> QED
    BY <2>2
<1>11. DataOf(Append(said, u)) = DataOf(said) \o DataIn(u) /\ CommandsOf(Append(said, u)) = s \o CommandIn(u)
  BY SaidMore
<1>12. wire \o OnWire(u, HostHasHeaders) = wire \o Bytes(uu)
  BY <1>8 DEF hh
<1> HIDE DEF s
<1>13. InStep(c, ts \o uu, wire \o OnWire(u, HostHasHeaders), DataOf(Append(said, u)),
              CommandsOf(Append(said, u)), asked)
  BY <1>8, <1>10, <1>11, <1>12
<1> QED
  BY <1>10, <1>13

-----------------------------------------------------------------------------
(* Sending.                                                                *)

\* e is d but for what is written
Wrote(d, e) ==
    /\ e \in Conn
    /\ e.sock = d.sock /\ e.option = d.option /\ e.buf = d.buf /\ e.data = d.data
    /\ e.commands = d.commands /\ e.envReplies = d.envReplies /\ e.headers = d.headers
    /\ Told(e, FunctionsAre) <=> Told(d, FunctionsAre)
    /\ Told(e, Wont) <=> Told(d, Wont)

LEMMA PutWrote ==
    ASSUME NEW d \in Conn, NEW e, NEW m \in Message, Put(d, e, m), m[1] \notin {"SB", "WONT"}
    PROVE  Wrote(d, e)
<1>1. FunctionsAre[1] = "SB" /\ Wont[1] = "WONT"
  BY DEF FunctionsAre, Wont
<1>2. FunctionsAre # m /\ Wont # m
  BY <1>1
<1>3. /\ Told(e, FunctionsAre) <=> Told(d, FunctionsAre)
      /\ Told(e, Wont) <=> Told(d, Wont)
  BY <1>2, ToldMore
<1> QED
  BY <1>3 DEF Put, Wrote

LEMMA InStepWrote ==
    ASSUME NEW d, NEW e, NEW ts, NEW more, NEW data, NEW commands, NEW asks, NEW others,
           InStep(d, ts, more, data, commands, asks), Settled(d, ts), Wrote(d, e), Flow(kind, e, others)
    PROVE  InStep(e, ts, more, data, commands, others) /\ Settled(e, ts)
<1>1. /\ d \in Conn /\ Stream(kind, ts) /\ more \in Seq(Byte) /\ d.buf \o more = Bytes(ts)
      /\ d.data \o Datas(ts) = data /\ d.commands \o Commands(ts) = commands
      /\ Headed(kind, d, ts) /\ Named(kind, d)
      /\ kind = "tn3270" => d.sock = "up"
  BY DEF InStep
<1>2. /\ e \in Conn /\ e.sock = d.sock /\ e.option = d.option /\ e.buf = d.buf /\ e.data = d.data
      /\ e.commands = d.commands /\ e.envReplies = d.envReplies /\ e.headers = d.headers
      /\ Told(e, FunctionsAre) <=> Told(d, FunctionsAre)
      /\ Told(e, Wont) <=> Told(d, Wont)
  BY DEF Wrote
<1>3. Headed(kind, e, ts)
  BY <1>1, <1>2 DEF Headed
<1>4. Named(kind, e)
  BY <1>1, <1>2 DEF Named, Asked
<1>5. Settled(e, ts)
  BY <1>2 DEF Settled
<1> QED
  BY <1>1, <1>2, <1>3, <1>4, <1>5 DEF InStep

\* 6530: it is sent now or, after XOFF, later
LEMMA SentInOrder ==
    ASSUME kind = "hp6530", NEW d \in Conn, d.sock = "up", NEW m \in Message, m[1] = "SENT",
           NEW asks, Flow(kind, d, asks)
    PROVE  Flow(kind, sendRaw(d, m), Append(asks, m))
<1> DEFINE q == d.sendQueue
           o == d.out
           e == sendRaw(d, m)
<1>1. q \in Seq(Message) /\ o \in Seq(Message)
  BY ConnSet
<1>2. SentOf(o) \o SentOf(q) = asks /\ (q # <<>> => d.xoff)
  BY DEF Flow
<1>3. \/ e.out = Append(o, m) /\ e.sendQueue = q /\ ~d.xoff
      \/ e.out = o /\ e.sendQueue = Append(q, m) /\ d.xoff
  <2>1. CASE ~d.xoff
    BY <2>1, SendingRaw
  <2>2. CASE d.xoff
    <3>1. e = [d EXCEPT !.sendQueue = Append(q, m)]
      BY <2>2 DEF sendRaw
    <3> QED
      BY <2>2, <3>1 DEF Conn
  <2> QED
    BY <2>1, <2>2
<1>4. e.sock = "up" /\ e.xoff = d.xoff
  BY SendingRaw DEF Put
<1> HIDE DEF q, o, e
<1>5. /\ SentOf(o) \in Seq(Message) /\ SentOf(q) \in Seq(Message) /\ SentOf(<<>>) = <<>>
      /\ SentOf(Append(o, m)) = Append(SentOf(o), m) /\ SentOf(Append(q, m)) = Append(SentOf(q), m)
  BY <1>1, SentJoin
<1> DEFINE x == SentOf(o)
           y == SentOf(q)
<1>6. x \o Append(y, m) = Append(x \o y, m)
  <2>1. x \in Seq(Message) /\ y \in Seq(Message)
    BY <1>5
  <2> HIDE DEF x, y
  <2> QED
    BY <2>1, Joining
<1>7. CASE e.out = Append(o, m) /\ e.sendQueue = q /\ ~d.xoff
  <2>1. q = <<>> /\ x \o <<>> = x /\ y = <<>>
    <3>1. q = <<>> /\ x \in Seq(Message) /\ y = <<>>
      BY <1>2, <1>5, <1>7
    <3>2. \A s \in Seq(Message) : s \o <<>> = s
      BY Joining
    <3> QED
      BY <3>1, <3>2
  <2>2. Append(x, m) \in Seq(Message)
    BY <1>5, Appending
  <2>3. Append(x, m) \o <<>> = Append(x, m)
    <3> DEFINE z == Append(x, m)
    <3>1. z \in Seq(Message)
      BY <2>2
    <3> HIDE DEF z
    <3>2. z \o <<>> = z
      BY <3>1, Joining
    <3> QED
      BY <3>2 DEF z
  <2>4. SentOf(e.out) \o SentOf(e.sendQueue) = Append(asks, m)
    <3>1. SentOf(e.out) = Append(x, m) /\ SentOf(e.sendQueue) = <<>> /\ asks = x
      BY <1>2, <1>5, <1>7, <2>1
    <3> HIDE DEF x
    <3> QED
      BY <2>3, <3>1
  <2> QED
    BY <1>7, <2>1, <2>4 DEF Flow, e
<1>8. CASE e.out = o /\ e.sendQueue = Append(q, m) /\ d.xoff
  <2>1. SentOf(e.out) = x /\ SentOf(e.sendQueue) = Append(y, m) /\ asks = x \o y
    BY <1>2, <1>5, <1>8
  <2>2. SentOf(e.out) \o SentOf(e.sendQueue) = Append(asks, m)
    <3> HIDE DEF x, y
    <3> QED
      BY <1>6, <2>1
  <2> QED
    BY <1>4, <1>8, <2>2 DEF Flow, e
<1> QED
  BY <1>3, <1>7, <1>8 DEF e

\* the others send at once
LEMMA PutFlow ==
    ASSUME kind # "hp6530", NEW d \in Conn, NEW e, NEW m, Put(d, e, m), NEW asks, NEW others,
           Flow(kind, d, asks)
    PROVE  Flow(kind, e, others)
BY DEF Put, Flow

-----------------------------------------------------------------------------
(* The invariant.                                                          *)

Inv(p, g, d, ss, w, asks) ==
    /\ kind \in Kinds /\ g \in BOOLEAN
    /\ p \in {"none", "pending", "resolved", "rejected", "left"}
    /\ d \in Conn /\ ss \in Seq(Units[kind]) /\ asks \in Seq(Message)
    /\ d.sendSeq <= Len(asks)
    /\ d.sock = "dialing" <=> p = "pending"
    /\ d.sock = "dialing" => d = New(d.option) /\ ss = <<>> /\ asks = <<>>
    /\ d.sock # "up" => w = <<>>
    /\ d.sock = "up" =>
          \E ts : InStep(d, ts, w, DataOf(ss), CommandsOf(ss), asks) /\ Settled(d, ts)

IInv == Inv(promise, again, c, said, wire, asked)

LEMMA NewConn ==
    ASSUME NEW option \in BOOLEAN
    PROVE  /\ New(option) \in Conn /\ New(option).option = option /\ New(option).sock = "dialing"
           /\ New(option).sendSeq = 0
           /\ CleanedUp(New(option)) \in Conn /\ CleanedUp(New(option)).sock = "none"
           /\ CleanedUp(New(option)).sendSeq = 0
<1> DEFINE B == Seq(Byte)
           M == Seq(Message)
           I == Seq(Item)
           D == Seq(Datum)
<1>1. <<>> \in B /\ <<>> \in M /\ <<>> \in I /\ <<>> \in D
  OBVIOUS
<1> HIDE DEF B, M, I, D
<1> QED
  BY <1>1 DEF Conn, New, CleanedUp, B, M, I, D

LEMMA CleanConn ==
    ASSUME NEW d \in Conn
    PROVE  /\ CleanedUp(d) \in Conn /\ CleanedUp(d).sock = "none" /\ CleanedUp(d).sendSeq = d.sendSeq
           /\ CleanedUp(d).data = d.data /\ CleanedUp(d).commands = d.commands
<1> DEFINE B == Seq(Byte)
           M == Seq(Message)
           I == Seq(Item)
           D == Seq(Datum)
<1>1. <<>> \in M
  OBVIOUS
<1> HIDE DEF B, M, I, D
<1> QED
  BY <1>1 DEF Conn, CleanedUp, B, M, I, D

LEMMA Starts ==
    ASSUME kind \in Kinds, NEW option \in BOOLEAN
    PROVE  LET d == [New(option) EXCEPT !.sock = "up"]
           IN  /\ d \in Conn /\ d.sock = "up" /\ d.sendSeq = 0 /\ d.data = <<>> /\ d.commands = <<>>
               /\ InStep(d, <<>>, <<>>, DataOf(<<>>), CommandsOf(<<>>), <<>>) /\ Settled(d, <<>>)
<1> DEFINE d == [New(option) EXCEPT !.sock = "up"]
<1>1. d \in Conn
  <2> DEFINE B == Seq(Byte)
             M == Seq(Message)
             I == Seq(Item)
             D == Seq(Datum)
  <2>1. <<>> \in B /\ <<>> \in M /\ <<>> \in I /\ <<>> \in D
    OBVIOUS
  <2> HIDE DEF B, M, I, D
  <2> QED
    BY <2>1 DEF Conn, New, B, M, I, D
<1>2. /\ d.sock = "up" /\ d.sendSeq = 0 /\ d.data = <<>> /\ d.commands = <<>> /\ d.buf = <<>>
      /\ d.out = <<>> /\ d.headers = FALSE /\ d.xoff = FALSE /\ d.sendQueue = <<>>
  BY DEF New
<1> HIDE DEF d
<1>3. Len(<<>>) = 0 /\ 1 .. 0 = {} /\ 2 .. 0 = {}
  OBVIOUS
<1>4. Headed(kind, d, <<>>)
  <2>1. ~Told(d, FunctionsAre) /\ \A x : ~Of(x, d.commands)
    BY <1>2, <1>3 DEF Told, Of
  <2> QED
    BY <1>2, <1>3, <2>1 DEF Headed
<1>5. Named(kind, d)
  BY <1>2, <1>3 DEF Named, Asked, NameOnce
<1>6. Flow(kind, d, <<>>)
  <2>1. SentOf(<<>>) = <<>> /\ <<>> \o <<>> = <<>>
    <3>1. <<>> \in Seq(Message)
      OBVIOUS
    <3> QED
      BY <3>1, SentJoin, Joining
  <2> QED
    BY <1>2, <2>1 DEF Flow
<1>7. Stream(kind, <<>>)
  BY <1>3 DEF Stream
<1>8. DataOf(<<>>) = <<>> /\ CommandsOf(<<>>) = <<>> /\ <<>> \o <<>> = <<>> /\ <<>> \in Seq(Byte)
  BY SaidYetNothing
<1>9. InStep(d, <<>>, <<>>, DataOf(<<>>), CommandsOf(<<>>), <<>>)
  BY <1>1, <1>2, <1>4, <1>5, <1>6, <1>7, <1>8, NoPieces DEF InStep
<1>10. Settled(d, <<>>)
  BY DEF Settled
<1> QED
  BY <1>1, <1>2, <1>9, <1>10 DEF d

LEMMA InvStarts ==
    ASSUME Init
    PROVE  IInv
<1>1. CleanedUp(New(FALSE)) \in Conn /\ CleanedUp(New(FALSE)).sock = "none" /\ CleanedUp(New(FALSE)).sendSeq = 0
  BY NewConn
<1>2. <<>> \in Seq(Units[kind]) /\ <<>> \in Seq(Message) /\ Len(<<>>) = 0
  OBVIOUS
<1> DEFINE d == CleanedUp(New(FALSE))
<1>3. /\ kind \in Kinds /\ promise = "none" /\ again = FALSE /\ c = d
      /\ said = <<>> /\ wire = <<>> /\ asked = <<>>
  BY DEF Init
<1>4. d \in Conn /\ d.sock = "none" /\ d.sendSeq = 0
  BY <1>1
<1> HIDE DEF d
<1>5. Inv("none", FALSE, d, <<>>, <<>>, <<>>)
  BY <1>2, <1>3, <1>4 DEF Inv
<1> QED
  BY <1>3, <1>5 DEF IInv

\* the connection ends: nothing more comes of it
LEMMA InvEnds ==
    ASSUME IInv, NEW d \in Conn, d.sock = "none", d.sendSeq = c.sendSeq,
           NEW p \in {"none", "resolved", "rejected", "left"}
    PROVE  Inv(p, again, d, said, <<>>, asked)
BY DEF IInv, Inv

LEMMA ConnectKeeps ==
    ASSUME IInv, NEW option \in Options[kind], connect(option)
    PROVE  Inv(promise', again', c', said', wire', asked')
<1>1. option \in BOOLEAN
  BY OptionsAssumption DEF IInv, Inv
<1>2. c' = New(option) /\ promise' = "pending" /\ said' = <<>> /\ wire' = <<>> /\ asked' = <<>>
      /\ again' \in BOOLEAN
  BY DEF connect
<1>3. <<>> \in Seq(Units[kind]) /\ <<>> \in Seq(Message) /\ Len(<<>>) = 0
  OBVIOUS
<1>4. kind \in Kinds
  BY DEF IInv, Inv
<1>5. /\ c' \in Conn /\ c'.option = option /\ c'.sock = "dialing" /\ c'.sendSeq = 0 /\ c' = New(c'.option)
  BY <1>1, <1>2, NewConn
<1> QED
  BY <1>2, <1>3, <1>4, <1>5 DEF Inv

LEMMA ConnectedKeeps ==
    ASSUME IInv, onConnected
    PROVE  Inv(promise', again', c', said', wire', asked')
<1>1. /\ c.sock = "dialing" /\ c = New(c.option) /\ said = <<>> /\ asked = <<>> /\ wire = <<>>
      /\ kind \in Kinds /\ again \in BOOLEAN /\ c \in Conn
  BY DEF onConnected, IInv, Inv
<1> DEFINE option == c.option
           d == [New(option) EXCEPT !.sock = "up"]
<1>2. option \in BOOLEAN
  BY <1>1 DEF Conn
<1>3. /\ c' = d /\ promise' = "resolved" /\ again' = again /\ said' = <<>> /\ wire' = <<>> /\ asked' = <<>>
  <2>1. c' = [c EXCEPT !.sock = "up"]
    BY DEF onConnected
  <2>2. [c EXCEPT !.sock = "up"] = d
    BY <1>1
  <2> QED
    BY <1>1, <2>1, <2>2 DEF onConnected
<1>4. /\ d \in Conn /\ d.sock = "up" /\ d.sendSeq = 0
      /\ InStep(d, <<>>, <<>>, DataOf(<<>>), CommandsOf(<<>>), <<>>) /\ Settled(d, <<>>)
  <2> HIDE DEF option
  <2> QED
    BY <1>1, <1>2, Starts
<1>5. <<>> \in Seq(Units[kind]) /\ <<>> \in Seq(Message) /\ Len(<<>>) = 0
  OBVIOUS
<1> HIDE DEF d, option
<1>6. Inv("resolved", again, d, <<>>, <<>>, <<>>)
  BY <1>1, <1>4, <1>5 DEF Inv
<1> QED
  BY <1>3, <1>6

LEMMA ErrorKeeps ==
    ASSUME IInv, onError
    PROVE  Inv(promise', again', c', said', wire', asked')
<1>1. c \in Conn /\ c.sock = "dialing" /\ wire = <<>>
  BY DEF onError, IInv, Inv
<1>2. /\ c' = CleanedUp(c) /\ promise' = "rejected" /\ again' = again /\ said' = said
      /\ wire' = <<>> /\ asked' = asked
  BY <1>1 DEF onError
<1> QED
  BY <1>1, <1>2, CleanConn, InvEnds

LEMMA CloseKeeps ==
    ASSUME IInv, onClose
    PROVE  Inv(promise', again', c', said', wire', asked')
<1>1. c \in Conn /\ c.sock = "up" /\ promise \in {"none", "resolved", "rejected", "left"}
  BY DEF onClose, IInv, Inv
<1>2. /\ c' = CleanedUp(c) /\ promise' = promise /\ again' = again /\ said' = said
      /\ wire' = <<>> /\ asked' = asked
  BY DEF onClose
<1> QED
  BY <1>1, <1>2, CleanConn, InvEnds

LEMMA DisconnectKeeps ==
    ASSUME IInv, disconnect
    PROVE  Inv(promise', again', c', said', wire', asked')
<1>1. c \in Conn
  BY DEF IInv, Inv
<1>2. /\ c' = CleanedUp(c) /\ promise' \in {"none", "resolved", "rejected", "left"}
      /\ again' = again /\ said' = said /\ wire' = <<>> /\ asked' = asked
  BY DEF disconnect, IInv, Inv
<1> QED
  BY <1>1, <1>2, CleanConn, InvEnds

LEMMA HostSaysKeeps ==
    ASSUME IInv, NEW u \in Units[kind], HostSays(u)
    PROVE  Inv(promise', again', c', said', wire', asked')
<1>1. kind \in Kinds /\ said \in Seq(Units[kind]) /\ c.sock = "up"
  BY DEF IInv, Inv, HostSays
<1>2. PICK ts : InStep(c, ts, wire, DataOf(said), CommandsOf(said), asked) /\ Settled(c, ts)
  BY <1>1 DEF IInv, Inv
<1>3. /\ said' = Append(said, u) /\ wire' = wire \o OnWire(u, HostHasHeaders)
      /\ promise' = promise /\ again' = again /\ c' = c /\ asked' = asked
  BY DEF HostSays
<1>4. PICK rr : /\ InStep(c, rr, wire \o OnWire(u, HostHasHeaders),
                          DataOf(Append(said, u)), CommandsOf(Append(said, u)), asked)
                /\ Settled(c, rr)
  BY <1>1, <1>2, HostSpeaks
<1>5. Append(said, u) \in Seq(Units[kind])
  BY <1>1, Appending
<1> DEFINE w == wire \o OnWire(u, HostHasHeaders)
           ss == Append(said, u)
<1>6. \E r : InStep(c, r, w, DataOf(ss), CommandsOf(ss), asked) /\ Settled(c, r)
  BY <1>4
<1>7. ss \in Seq(Units[kind])
  BY <1>5
<1>8. said' = ss /\ wire' = w
  BY <1>3
<1> HIDE DEF w, ss
<1>9. Inv(promise, again, c, ss, w, asked)
  BY <1>1, <1>6, <1>7 DEF IInv, Inv
<1> QED
  BY <1>3, <1>8, <1>9

\* what arrives is heard as it was said
LEMMA Arrives ==
    ASSUME IInv, NEW n \in 1 .. Len(wire), onData(n)
    PROVE  /\ Later(c, c') /\ c' \in Conn /\ c.sock = "up"
           /\ \E uu : /\ InStep(c', uu, SubSeq(wire, n + 1, Len(wire)), DataOf(said), CommandsOf(said), asked)
                      /\ Settled(c', uu)
<1>1. c.sock = "up" /\ c' = Feed(c, SubSeq(wire, 1, n))
  BY DEF onData
<1>2. PICK ts : InStep(c, ts, wire, DataOf(said), CommandsOf(said), asked) /\ Settled(c, ts)
  BY <1>1 DEF IInv, Inv
<1> DEFINE bytes == SubSeq(wire, 1, n)
           more == SubSeq(wire, n + 1, Len(wire))
<1>3. wire \in Seq(Byte)
  BY <1>2 DEF InStep
<1>4. bytes \in Seq(Byte) /\ more \in Seq(Byte) /\ bytes \o more = wire
  <2>1. \A w \in Seq(Byte) : \A k \in 1 .. Len(w) :
           SubSeq(w, 1, k) \in Seq(Byte) /\ SubSeq(w, k + 1, Len(w)) \in Seq(Byte)
           /\ SubSeq(w, 1, k) \o SubSeq(w, k + 1, Len(w)) = w
    OBVIOUS
  <2> QED
    BY <1>3, <2>1
<1> HIDE DEF bytes, more
<1>5. InStep(c, ts, bytes \o more, DataOf(said), CommandsOf(said), asked)
  BY <1>2, <1>4
<1>6. PICK uu : /\ InStep(Feed(c, bytes), uu, more, DataOf(said), CommandsOf(said), asked)
                /\ Later(c, Feed(c, bytes)) /\ Settled(Feed(c, bytes), uu)
  BY <1>4, <1>5, Fed
<1>7. c' = Feed(c, bytes)
  BY <1>1 DEF bytes
<1>8. InStep(c', uu, more, DataOf(said), CommandsOf(said), asked) /\ Settled(c', uu) /\ Later(c, c')
  BY <1>6, <1>7
<1>9. c' \in Conn
  BY <1>8 DEF InStep
<1> QED
  BY <1>1, <1>8, <1>9 DEF more

LEMMA DataKeeps ==
    ASSUME IInv, NEW n \in 1 .. Len(wire), onData(n)
    PROVE  Inv(promise', again', c', said', wire', asked')
<1> DEFINE more == SubSeq(wire, n + 1, Len(wire))
<1>1. /\ Later(c, c') /\ c' \in Conn /\ c.sock = "up"
      /\ \E uu : /\ InStep(c', uu, more, DataOf(said), CommandsOf(said), asked) /\ Settled(c', uu)
  BY Arrives
<1>2. wire' = (IF c'.sock = "up" THEN more ELSE <<>>)
      /\ promise' = promise /\ again' = again /\ said' = said /\ asked' = asked
  BY DEF onData
<1>3. c'.sendSeq = c.sendSeq /\ c'.sock \in {"up", "none"}
  BY <1>1 DEF Later
<1> HIDE DEF more
<1>4. CASE c'.sock = "up"
  <2>1. wire' = more
    BY <1>2, <1>4
  <2>2. Inv(promise, again, c', said, more, asked)
    BY <1>1, <1>3, <1>4 DEF IInv, Inv
  <2> QED
    BY <1>2, <2>1, <2>2
<1>5. CASE c'.sock = "none"
  <2>1. wire' = <<>> /\ promise \in {"none", "resolved", "rejected", "left"}
    BY <1>1, <1>2, <1>5 DEF IInv, Inv
  <2>2. Inv(promise, again, c', said, <<>>, asked)
    BY <1>1, <1>3, <1>5, <2>1, InvEnds
  <2> QED
    BY <1>2, <2>1, <2>2
<1> QED
  BY <1>3, <1>4, <1>5

LEMMA SentKeeps ==
    ASSUME IInv, c.sock = "up", NEW e, NEW m \in Message, Wrote(c, e),
           e.sendSeq \in Nat, e.sendSeq <= Len(asked) + 1, Flow(kind, e, Append(asked, m))
    PROVE  Inv(promise, again, e, said, wire, Append(asked, m))
<1>1. PICK ts : InStep(c, ts, wire, DataOf(said), CommandsOf(said), asked) /\ Settled(c, ts)
  BY DEF IInv, Inv
<1>2. /\ asked \in Seq(Message) /\ kind \in Kinds /\ again \in BOOLEAN /\ said \in Seq(Units[kind])
      /\ promise \in {"none", "resolved", "rejected", "left"}
  BY DEF IInv, Inv
<1> DEFINE q == Append(asked, m)
<1>3. q \in Seq(Message) /\ Len(q) = Len(asked) + 1
  BY <1>2, Appending
<1> HIDE DEF q
<1>4. InStep(e, ts, wire, DataOf(said), CommandsOf(said), q) /\ Settled(e, ts)
  <2>1. Flow(kind, e, q)
    BY DEF q
  <2> QED
    BY <1>1, <2>1, InStepWrote
<1>5. e \in Conn /\ e.sock = "up"
  BY DEF Wrote
<1>6. Inv(promise, again, e, said, wire, q)
  BY <1>2, <1>3, <1>4, <1>5 DEF Inv
<1> QED
  BY <1>6 DEF q

LEMMA RecordSent ==
    ASSUME NEW d \in Conn, d.sock = "up", NEW m \in Message, m[1] = "SENT", kind = "tn3270",
           NEW asks, Flow(kind, d, asks)
    PROVE  LET e == sendRecord(d, m)
           IN  /\ Wrote(d, e) /\ e.sendSeq \in Nat /\ e.sendSeq <= d.sendSeq + 1
               /\ Flow(kind, e, Append(asks, m))
<1> DEFINE h == <<"HEADER">> \o m
           w == Write(d, h)
           f == [w EXCEPT !.sendSeq = @ + 1]
<1>1. h \in Message /\ h[1] = "HEADER"
  <2>1. <<"HEADER">> \in Seq(Letter) /\ Len(<<"HEADER">>) = 1 /\ <<"HEADER">>[1] = "HEADER"
    <3>1. "HEADER" \in Letter
      BY DEF Letter
    <3> QED
      BY <3>1
  <2>2. m \in Seq(Letter)
    BY DEF Message
  <2> DEFINE a == <<"HEADER">>
  <2>3. a \in Seq(Letter) /\ 1 \in 1 .. Len(a) /\ a[1] = "HEADER"
    BY <2>1
  <2> HIDE DEF a
  <2>4. a \o m \in Seq(Letter) /\ \A i \in 1 .. Len(a) : (a \o m)[i] = a[i]
    BY <2>2, <2>3, JoinedPlaces
  <2> QED
    BY <2>3, <2>4 DEF a, Message
<1> HIDE DEF h
<1>2. Put(d, w, h) /\ w \in Conn
  BY <1>1, Writing DEF Put
<1>3. Wrote(d, w) /\ w.sendSeq = d.sendSeq
  <2>1. h[1] \notin {"SB", "WONT"}
    BY <1>1
  <2> QED
    BY <1>1, <1>2, <2>1, PutWrote DEF Put
<1>4. Flow(kind, w, Append(asks, m))
  BY <1>2, PutFlow
<1>5. d.sendSeq \in Nat
  BY DEF Conn
<1>6. f \in Conn
  <2>1. w.sendSeq + 1 \in Nat
    BY <1>3, <1>5
  <2>2. [w EXCEPT !.sendSeq = w.sendSeq + 1] \in Conn
    BY <1>2, <2>1, ConnSet
  <2> QED
    BY <2>2
<1>7. /\ f.sock = w.sock /\ f.option = w.option /\ f.buf = w.buf /\ f.data = w.data
      /\ f.commands = w.commands /\ f.envReplies = w.envReplies /\ f.headers = w.headers
      /\ f.out = w.out /\ f.xoff = w.xoff /\ f.sendQueue = w.sendQueue /\ f.sendSeq = w.sendSeq + 1
  <2> HIDE DEF w
  <2> QED
    BY <1>2 DEF Conn
<1> HIDE DEF w
<1>8. sendRecord(d, m) = IF d.headers THEN f ELSE Write(d, m)
  BY DEF sendRecord, w, h, f
<1> HIDE DEF f
<1>9. Wrote(d, f) /\ Flow(kind, f, Append(asks, m))
  BY <1>3, <1>4, <1>6, <1>7 DEF Wrote, Told, Flow
<1>10. /\ Wrote(d, Write(d, m)) /\ Write(d, m).sendSeq = d.sendSeq
       /\ Flow(kind, Write(d, m), Append(asks, m))
  <2>1. Put(d, Write(d, m), m)
    BY Writing
  <2>2. m[1] \notin {"SB", "WONT"}
    OBVIOUS
  <2>3. Wrote(d, Write(d, m))
    BY <2>1, <2>2, PutWrote
  <2>4. Flow(kind, Write(d, m), Append(asks, m))
    BY <2>1, PutFlow
  <2> QED
    BY <2>1, <2>3, <2>4 DEF Put
<1>11. CASE d.headers
  <2>1. sendRecord(d, m) = f
    BY <1>8, <1>11
  <2> QED
    BY <1>3, <1>5, <1>7, <1>9, <2>1
<1>12. CASE ~d.headers
  <2>1. sendRecord(d, m) = Write(d, m)
    BY <1>8, <1>12
  <2> QED
    BY <1>5, <1>10, <2>1
<1> QED
  BY <1>11, <1>12

LEMMA RawSent ==
    ASSUME NEW d \in Conn, d.sock = "up", NEW m \in Message, m[1] \in {"SENT", "DO"},
           kind = "hp6530" => m[1] = "SENT", NEW asks, Flow(kind, d, asks)
    PROVE  LET e == sendRaw(d, m)
           IN  /\ Wrote(d, e) /\ e.sendSeq \in Nat /\ e.sendSeq <= d.sendSeq + 1
               /\ Flow(kind, e, Append(asks, m))
<1> DEFINE e == sendRaw(d, m)
<1>1. Put(d, e, m)
  BY SendingRaw
<1>2. m[1] \notin {"SB", "WONT"}
  OBVIOUS
<1>3. Wrote(d, e)
  BY <1>1, <1>2, PutWrote
<1>4. e.sendSeq = d.sendSeq /\ d.sendSeq \in Nat
  BY <1>1 DEF Put, Conn
<1>5. Flow(kind, e, Append(asks, m))
  <2>1. CASE kind = "hp6530"
    BY <2>1, SentInOrder
  <2>2. CASE kind # "hp6530"
    <3> HIDE DEF e
    <3> QED
      BY <1>1, <2>2, PutFlow
  <2> QED
    BY <2>1, <2>2
<1> HIDE DEF e
<1> QED
  BY <1>3, <1>4, <1>5 DEF e

LEMMA SendKeeps ==
    ASSUME IInv, Send
    PROVE  Inv(promise', again', c', said', wire', asked')
<1> DEFINE m == <<"SENT", Len(asked) + 1>>
<1>1. c.sock = "up" /\ c \in Conn /\ asked \in Seq(Message) /\ c.sendSeq <= Len(asked) /\ kind \in Kinds
  BY DEF IInv, Inv, Send
<1>2. m \in Message /\ m[1] = "SENT"
  <2>1. Len(asked) + 1 \in Nat
    BY <1>1
  <2> QED
    BY <2>1, Letters, Messages
<1>3. Flow(kind, c, asked)
  BY <1>1 DEF IInv, Inv, InStep
<1>4. /\ asked' = Append(asked, m) /\ promise' = promise /\ again' = again /\ said' = said /\ wire' = wire
      /\ c' = IF kind = "tn3270" THEN sendRecord(c, m) ELSE sendRaw(c, m)
  BY DEF Send
<1> HIDE DEF m
<1>5. Wrote(c, c') /\ c'.sendSeq \in Nat /\ c'.sendSeq <= c.sendSeq + 1 /\ Flow(kind, c', Append(asked, m))
  <2>1. CASE kind = "tn3270"
    <3>1. c' = sendRecord(c, m)
      BY <1>4, <2>1
    <3> QED
      BY <1>1, <1>2, <1>3, <2>1, <3>1, RecordSent
  <2>2. CASE kind # "tn3270"
    <3>1. c' = sendRaw(c, m)
      BY <1>4, <2>2
    <3>2. m[1] \in {"SENT", "DO"}
      BY <1>2
    <3> QED
      BY <1>1, <1>2, <1>3, <3>1, <3>2, RawSent
  <2> QED
    BY <2>1, <2>2
<1>6. c'.sendSeq <= Len(asked) + 1
  <2>1. c.sendSeq \in Nat /\ Len(asked) \in Nat
    <3>1. c.sendSeq \in Nat
      <4>1. c \in Conn
        BY <1>1
      <4> QED
        BY <4>1 DEF Conn
    <3>2. Len(asked) \in Nat
      BY <1>1
    <3> QED
      BY <3>1, <3>2
  <2> QED
    BY <1>1, <1>5, <2>1
<1>7. Inv(promise, again, c', said, wire, Append(asked, m))
  BY <1>1, <1>2, <1>5, <1>6, SentKeeps
<1> QED
  BY <1>4, <1>7

LEMMA ProbeKeeps ==
    ASSUME IInv, Probe
    PROVE  Inv(promise', again', c', said', wire', asked')
<1> DEFINE m == <<"DO", "TIMING_MARK">>
<1>1. /\ c.sock = "up" /\ c \in Conn /\ asked \in Seq(Message) /\ c.sendSeq <= Len(asked)
      /\ kind # "hp6530"
  BY DEF IInv, Inv, Probe, InRecords, RecordKinds
<1>2. m \in Message /\ m[1] = "DO"
  <2>1. "DO" \in Letter /\ "TIMING_MARK" \in Letter
    BY Letters DEF Verbs
  <2> QED
    BY <2>1, Messages
<1>3. Flow(kind, c, asked)
  BY <1>1 DEF IInv, Inv, InStep
<1>4. /\ asked' = Append(asked, m) /\ promise' = promise /\ again' = again /\ said' = said /\ wire' = wire
      /\ c' = sendRaw(c, m)
  BY DEF Probe
<1> HIDE DEF m
<1>5. Wrote(c, c') /\ c'.sendSeq \in Nat /\ c'.sendSeq <= c.sendSeq + 1 /\ Flow(kind, c', Append(asked, m))
  <2>1. m[1] \in {"SENT", "DO"}
    BY <1>2
  <2> QED
    BY <1>1, <1>2, <1>3, <1>4, <2>1, RawSent
<1>6. c'.sendSeq <= Len(asked) + 1
  <2>1. c.sendSeq \in Nat /\ Len(asked) \in Nat
    <3>1. c.sendSeq \in Nat
      <4>1. c \in Conn
        BY <1>1
      <4> QED
        BY <4>1 DEF Conn
    <3>2. Len(asked) \in Nat
      BY <1>1
    <3> QED
      BY <3>1, <3>2
  <2> QED
    BY <1>1, <1>5, <2>1
<1>7. Inv(promise, again, c', said, wire, Append(asked, m))
  BY <1>1, <1>2, <1>5, <1>6, SentKeeps
<1> QED
  BY <1>4, <1>7

\* the protocol stays what it is, and so do the pieces
LEMMA SamePieces ==
    ASSUME kind' = kind, NEW CONSTANT ts, Stream(kind, ts)
    PROVE  Stream(kind, ts)'
<1>1. InRecords' <=> InRecords
  BY DEF InRecords
<1>2. ASSUME NEW CONSTANT b
      PROVE  Ends(b, 3, "SE")' = Ends(b, 3, "SE")
  BY <1>1 DEF Ends
<1>3. ASSUME NEW CONSTANT t, Fits(kind, t) PROVE Fits(kind, t)'
  <2>1. ASSUME NEW CONSTANT item, SubFits(kind, t, item) PROVE SubFits(kind, t, item)'
    <3>1. Closed(t.bytes, 3, "SE") => Closed(t.bytes, 3, "SE")'
      <4>1. Ends(t.bytes, 3, "SE")' = Ends(t.bytes, 3, "SE")
        BY <1>2
      <4> QED
        BY <4>1 DEF Closed
    <3>2. IsSub(item, t.bytes)'
      BY <2>1, <3>1 DEF SubFits, IsSub
    <3> QED
      BY <2>1, <3>2 DEF SubFits
  <2>2. t \in Token
    BY <1>3 DEF Fits
  <2>3. CASE \E item : SubFits(kind, t, item)
    <3>1. \E item : SubFits(kind, t, item)'
      BY <2>1, <2>3
    <3> QED
      BY <2>2, <3>1 DEF Fits
  <2>4. CASE ~\E item : SubFits(kind, t, item)
    BY <1>3, <2>4 DEF Fits, NothingFits, VerbFits, RecordFits, TextFits, FlowFits
  <2> QED
    BY <2>3, <2>4
<1>4. ts \in Seq(Token) /\ \A i \in 1 .. Len(ts) : Fits(kind, ts[i])
  BY DEF Stream
<1>5. \A i \in 1 .. Len(ts) : Fits(kind, ts[i])'
  BY <1>3, <1>4
<1> QED
  BY <1>4, <1>5 DEF Stream

LEMMA SameData ==
    ASSUME kind' = kind
    PROVE  DataOf(said)' = DataOf(said') /\ CommandsOf(said)' = CommandsOf(said')
<1> DEFINE data(k) == FlattenSeq([i \in 1 .. Len(said') |-> DataInOf(k, said'[i])])
<1>1. DataOf(said') = data(kind)
  BY DEF DataOf, DataIn, DataInOf, InRecords
<1>2. DataOf(said)' = data(kind')
  BY DEF DataOf, DataIn, DataInOf, InRecords
<1>3. CommandsOf(said)' = CommandsOf(said')
  BY DEF CommandsOf, CommandIn
<1> QED
  BY <1>1, <1>2, <1>3

LEMMA InvKept ==
    ASSUME kind' = kind, Inv(promise', again', c', said', wire', asked')
    PROVE  IInv'
<1>1. DataOf(said)' = DataOf(said') /\ CommandsOf(said)' = CommandsOf(said')
  BY SameData
<1>2. ASSUME c'.sock = "up"
      PROVE  \E ts : (InStep(c, ts, wire, DataOf(said), CommandsOf(said), asked) /\ Settled(c, ts))'
  <2>1. PICK ts : InStep(c', ts, wire', DataOf(said'), CommandsOf(said'), asked') /\ Settled(c', ts)
    BY <1>2 DEF Inv
  <2>2. Stream(kind, ts)'
    BY <2>1, SamePieces DEF InStep
  <2>3. (InStep(c, ts, wire, DataOf(said), CommandsOf(said), asked))'
    BY <1>1, <2>1, <2>2 DEF InStep, Headed, Named, Flow, Told, Asked
  <2>4. Settled(c, ts)'
    BY <2>1 DEF Settled
  <2> QED
    BY <2>3, <2>4
<1> QED
  BY <1>2 DEF IInv, Inv

LEMMA InvIsKept ==
    ASSUME IInv, [Next]_vars
    PROVE  IInv'
<1>1. CASE UNCHANGED vars
  <2>1. kind' = kind /\ Inv(promise', again', c', said', wire', asked')
    BY <1>1 DEF vars, IInv
  <2> QED
    BY <2>1, InvKept
<1>2. CASE Next
  <2>0. kind' = kind
    BY <1>2 DEF Next, connect, onConnected, onError, onConnectTimeout, onClose, disconnect, onData,
                HostSays, Send, Probe
  <2>1. CASE \E option \in Options[kind] : connect(option)
    BY <2>0, <2>1, ConnectKeeps, InvKept
  <2>2. CASE onConnected
    BY <2>0, <2>2, ConnectedKeeps, InvKept
  <2>3. CASE onError \/ onConnectTimeout
    <3>1. onError
      BY <2>3 DEF onConnectTimeout
    <3> QED
      BY <2>0, <3>1, ErrorKeeps, InvKept
  <2>4. CASE onClose
    BY <2>0, <2>4, CloseKeeps, InvKept
  <2>5. CASE disconnect
    BY <2>0, <2>5, DisconnectKeeps, InvKept
  <2>6. CASE \E n \in 1 .. Len(wire) : onData(n)
    BY <2>0, <2>6, DataKeeps, InvKept
  <2>7. CASE \E u \in Units[kind] : HostSays(u)
    BY <2>0, <2>7, HostSaysKeeps, InvKept
  <2>8. CASE Send
    BY <2>0, <2>8, SendKeeps, InvKept
  <2>9. CASE Probe
    BY <2>0, <2>9, ProbeKeeps, InvKept
  <2> QED
    BY <1>2, <2>1, <2>2, <2>3, <2>4, <2>5, <2>6, <2>7, <2>8, <2>9 DEF Next
<1> QED
  BY <1>1, <1>2

LEMMA InvShows ==
    ASSUME IInv
    PROVE  EndsAgree
<1>1. /\ kind \in Kinds /\ again \in BOOLEAN /\ promise \in {"none", "pending", "resolved", "rejected", "left"}
      /\ c \in Conn /\ said \in Seq(Units[kind]) /\ asked \in Seq(Message)
      /\ c.sendSeq <= Len(asked) /\ (c.sock = "dialing" <=> promise = "pending")
  BY DEF IInv, Inv
<1>2. TypeOK
  <2>1. /\ c.sock \in {"none", "dialing", "up"}
        /\ c.option \in BOOLEAN /\ c.xoff \in BOOLEAN /\ c.headers \in BOOLEAN /\ c.echoes \in BOOLEAN
        /\ c.device \in {"", "extended", "plain"} /\ c.envReplies \in Nat /\ c.sendSeq \in Nat
    <3>1. c \in Conn
      BY <1>1
    <3> QED
      BY <3>1 DEF Conn
  <2>2. Len(asked) \in Nat
    BY <1>1
  <2>3. c.sendSeq \in 0 .. Len(asked)
    <3> DEFINE s == c.sendSeq
               n == Len(asked)
    <3>1. s \in Nat /\ n \in Nat /\ s <= n
      BY <1>1, <2>1, <2>2
    <3> HIDE DEF s, n
    <3>2. s \in 0 .. n
      BY <3>1
    <3> QED
      BY <3>2 DEF s, n
  <2> QED
    BY <1>1, <2>1, <2>3 DEF TypeOK
<1>3. CASE c.sock # "up"
  BY <1>2, <1>3 DEF EndsAgree, QuietIsDelivered, HeadersAreAgreed, DeviceNameIsSaidOnce, FlowKeepsOrder
<1>4. CASE c.sock = "up"
  <2>1. PICK ts : InStep(c, ts, wire, DataOf(said), CommandsOf(said), asked) /\ Settled(c, ts)
    BY <1>4 DEF IInv, Inv
  <2>2. /\ Stream(kind, ts) /\ c.buf \o wire = Bytes(ts)
        /\ c.data \o Datas(ts) = DataOf(said) /\ c.commands \o Commands(ts) = CommandsOf(said)
        /\ Headed(kind, c, ts) /\ Named(kind, c) /\ Flow(kind, c, asked)
    BY <2>1 DEF InStep
  <2>3. wire = <<>> => /\ ts = <<>> /\ c.buf = <<>>
                       /\ c.data = DataOf(said) /\ c.commands = CommandsOf(said)
    <3> SUFFICES ASSUME wire = <<>>
                 PROVE  ts = <<>> /\ c.buf = <<>> /\ c.data = DataOf(said) /\ c.commands = CommandsOf(said)
      OBVIOUS
    <3>1. ts = <<>> /\ c.buf = <<>>
      BY <1>1, <2>1, <2>2, QuietIsEmpty
    <3>2. c.data = DataOf(said) /\ c.commands = CommandsOf(said)
      BY <1>1, <2>2, <3>1, NoPieces, EmptyJoins
    <3> QED
      BY <3>1, <3>2
  <2>4. QuietIsDelivered
    BY <2>3 DEF QuietIsDelivered
  <2>5. HeadersAreAgreed
    <3> SUFFICES ASSUME kind = "tn3270", wire = <<>> PROVE c.headers = HostHasHeaders
      BY DEF HeadersAreAgreed
    <3>1. c.headers <=> Agreed(c, c.commands)
      BY <2>2 DEF Headed, RecordKinds, Agreed
    <3>2. HostHasHeaders <=> Agreed(c, c.commands)
      BY <1>1, <2>3, HostsView
    <3>3. c.headers \in BOOLEAN /\ HostHasHeaders \in BOOLEAN
      BY <1>2 DEF TypeOK, HostHasHeaders
    <3> QED
      BY <3>1, <3>2, <3>3
  <2>6. DeviceNameIsSaidOnce
    BY <2>2 DEF DeviceNameIsSaidOnce, Named, NameOnce, AsksName
  <2>7. FlowKeepsOrder
    BY <2>2 DEF FlowKeepsOrder, Flow
  <2> QED
    BY <1>2, <2>4, <2>5, <2>6, <2>7 DEF EndsAgree
<1> QED
  BY <1>3, <1>4

(* The scanner stays in step with the host, however what it says is cut:   *)
(* what is heard, what is buffered and what is on its way are together     *)
(* what was said, each record that is on its way has a header just if the  *)
(* connection will look for one, a name was asked for if it was told, and  *)
(* what is sent keeps its order.                                           *)
THEOREM Invariance == Spec => []IInv
<1>1. Init => IInv
  BY InvStarts
<1>2. IInv /\ [Next]_vars => IInv'
  BY InvIsKept
<1> QED
  BY <1>1, <1>2, PTL DEF Spec

(* Whatever a host of any of the protocols says within RFC 854 and         *)
(* RFC 2355, and wherever TCP cuts it, both ends agree: on what arrived,   *)
(* on the headers of records, on the device's name, and on the order of    *)
(* what was sent (scan(), processBuffer(), handleSubnegotiation(),         *)
(* sendRaw(), flushSendQueue()).                                           *)
THEOREM EndsAlwaysAgree == Spec => []EndsAgree
<1>1. IInv => EndsAgree
  BY InvShows
<1> QED
  BY <1>1, Invariance, PTL

-----------------------------------------------------------------------------
(* The connection implements two channels.                                 *)

LEMMA PrefixOfJoin ==
    ASSUME NEW S, NEW s \in Seq(S), NEW r \in Seq(S)
    PROVE  IsPrefix(s, s \o r)
<1>1. Len(s) \in Nat /\ Len(r) \in Nat /\ Len(s \o r) = Len(s) + Len(r) /\ SubSeq(s \o r, 1, Len(s)) = SubSeq(s, 1, Len(s))
  <2>1. /\ Len(s) \in Nat /\ Len(r) \in Nat /\ Len(s \o r) = Len(s) + Len(r)
        /\ \A k \in 0 .. Len(s) : SubSeq(s \o r, 1, k) = SubSeq(s, 1, k)
    BY Cutting
  <2>2. Len(s) \in 0 .. Len(s)
    BY <2>1
  <2> QED
    BY <2>1, <2>2
<1> QED
  BY <1>1 DEF IsPrefix

LEMMA PrefixOfSame == ASSUME NEW S, NEW s \in Seq(S) PROVE IsPrefix(s, s)
<1>1. s \o <<>> = s /\ <<>> \in Seq(S)
  BY Joining
<1>2. IsPrefix(s, s \o <<>>)
  BY <1>1, PrefixOfJoin
<1> QED
  BY <1>1, <1>2

\* what a step does to the channels, with what is said as this step leaves it
ChannelStep(data, commands) ==
    \/ IsPrefix(DataOf(said), data) /\ IsPrefix(CommandsOf(said), commands)
       /\ c'.data = c.data /\ c'.commands = c.commands
    \/ /\ IsPrefix(c.data, c'.data) /\ IsPrefix(c'.data, DataOf(said))
       /\ IsPrefix(c.commands, c'.commands) /\ IsPrefix(c'.commands, CommandsOf(said))
       /\ data = DataOf(said) /\ commands = CommandsOf(said)
    \/ data = <<>> /\ commands = <<>> /\ c'.data = <<>> /\ c'.commands = <<>>

LEMMA SaysStep ==
    ASSUME IInv, NEW u \in Units[kind], HostSays(u)
    PROVE  ChannelStep(DataOf(said'), CommandsOf(said'))
<1>1. kind \in Kinds /\ said \in Seq(Units[kind])
  BY DEF IInv, Inv
<1>2. said' = Append(said, u) /\ c' = c
  BY DEF HostSays
<1>3. /\ DataOf(said) \in Seq(Datum) /\ CommandsOf(said) \in Seq(Item)
      /\ DataIn(u) \in Seq(Datum) /\ CommandIn(u) \in Seq(Item)
      /\ DataOf(Append(said, u)) = DataOf(said) \o DataIn(u)
      /\ CommandsOf(Append(said, u)) = CommandsOf(said) \o CommandIn(u)
  BY <1>1, SaidMore
<1> DEFINE x == DataOf(said)
           y == CommandsOf(said)
           a == DataIn(u)
           b == CommandIn(u)
<1>4. IsPrefix(x, x \o a)
  <2>1. x \in Seq(Datum) /\ a \in Seq(Datum)
    BY <1>3
  <2> HIDE DEF x, a
  <2> QED
    BY <2>1, PrefixOfJoin
<1>5. IsPrefix(y, y \o b)
  <2>1. y \in Seq(Item) /\ b \in Seq(Item)
    BY <1>3
  <2> HIDE DEF y, b
  <2> QED
    BY <2>1, PrefixOfJoin
<1>6. DataOf(said') = x \o a /\ CommandsOf(said') = y \o b
  BY <1>2, <1>3
<1> HIDE DEF a, b
<1> QED
  BY <1>2, <1>4, <1>5, <1>6 DEF ChannelStep

LEMMA DataStep ==
    ASSUME IInv, NEW n \in 1 .. Len(wire), onData(n)
    PROVE  ChannelStep(DataOf(said'), CommandsOf(said'))
<1>1. said' = said
  BY DEF onData
<1>2. /\ Later(c, c') /\ c' \in Conn
      /\ \E uu : InStep(c', uu, SubSeq(wire, n + 1, Len(wire)), DataOf(said), CommandsOf(said), asked)
  BY Arrives
<1>3. PICK uu : Stream(kind, uu) /\ c'.data \o Datas(uu) = DataOf(said)
                /\ c'.commands \o Commands(uu) = CommandsOf(said)
  BY <1>2 DEF InStep
<1>4. PICK x \in Seq(Datum) : c'.data = c.data \o x
  BY <1>2 DEF Later
<1>5. PICK y \in Seq(Item) : c'.commands = c.commands \o y
  BY <1>2 DEF Later
<1>6. c \in Conn
  BY DEF IInv, Inv
<1>7. Datas(uu) \in Seq(Datum) /\ Commands(uu) \in Seq(Item)
  BY <1>3, StreamType DEF Stream
<1> DEFINE d == c.data
           e == c'.data
           t == Datas(uu)
           f == c.commands
           g == c'.commands
           r == Commands(uu)
<1>8. /\ d \in Seq(Datum) /\ e \in Seq(Datum) /\ t \in Seq(Datum)
      /\ f \in Seq(Item) /\ g \in Seq(Item) /\ r \in Seq(Item)
      /\ e = d \o x /\ g = f \o y
  BY <1>2, <1>4, <1>5, <1>6, <1>7, ConnSet
<1> HIDE DEF d, e, t, f, g, r
<1>9. IsPrefix(d, e)
  BY <1>8, PrefixOfJoin
<1>10. IsPrefix(f, g)
  BY <1>8, PrefixOfJoin
<1>11. IsPrefix(e, e \o t)
  <2>1. e \in Seq(Datum) /\ t \in Seq(Datum)
    BY <1>8
  <2> QED
    BY <2>1, PrefixOfJoin
<1>12. IsPrefix(g, g \o r)
  <2>1. g \in Seq(Item) /\ r \in Seq(Item)
    BY <1>8
  <2> QED
    BY <2>1, PrefixOfJoin
<1>13. e \o t = DataOf(said) /\ g \o r = CommandsOf(said)
  BY <1>3 DEF e, t, g, r
<1>14. IsPrefix(e, DataOf(said)) /\ IsPrefix(g, CommandsOf(said))
  BY <1>11, <1>12, <1>13
<1> QED
  BY <1>1, <1>9, <1>10, <1>14 DEF ChannelStep, d, e, f, g

LEMMA QuietStep ==
    ASSUME IInv, said' = said, c'.data = c.data, c'.commands = c.commands
    PROVE  ChannelStep(DataOf(said'), CommandsOf(said'))
<1>1. kind \in Kinds /\ said \in Seq(Units[kind])
  BY DEF IInv, Inv
<1>2. DataOf(said) = Gather(DataOfUnit(kind), said) /\ CommandsOf(said) = Gather(CommandOfUnit(kind), said)
  BY <1>1, SaidIsGathered
<1>3. DataOf(said) \in Seq(Datum) /\ CommandsOf(said) \in Seq(Item)
  <2> DEFINE U == Units[kind]
             F == DataOfUnit(kind)
             G == CommandOfUnit(kind)
  <2>1. said \in Seq(U) /\ Makes(F, U, Datum) /\ Makes(G, U, Item)
    BY <1>1, UnitParts
  <2> HIDE DEF U, F, G
  <2>2. Gather(F, said) \in Seq(Datum) /\ Gather(G, said) \in Seq(Item)
    BY <2>1, GatherType
  <2> QED
    BY <1>2, <2>2 DEF F, G
<1>4. IsPrefix(DataOf(said), DataOf(said)) /\ IsPrefix(CommandsOf(said), CommandsOf(said))
  <2> DEFINE x == DataOf(said)
             y == CommandsOf(said)
  <2>1. x \in Seq(Datum) /\ y \in Seq(Item)
    BY <1>3
  <2> HIDE DEF x, y
  <2>2. IsPrefix(x, x) /\ IsPrefix(y, y)
    BY <2>1, PrefixOfSame
  <2> QED
    BY <2>2 DEF x, y
<1> QED
  BY <1>4 DEF ChannelStep

LEMMA EveryStep ==
    ASSUME IInv, Next
    PROVE  ChannelStep(DataOf(said'), CommandsOf(said'))
<1>0. kind \in Kinds /\ c \in Conn
  BY DEF IInv, Inv
<1>1. CASE \E option \in Options[kind] : connect(option)
  <2>1. PICK option : said' = <<>> /\ c' = New(option)
    BY <1>1 DEF connect
  <2>2. c'.data = <<>> /\ c'.commands = <<>>
    BY <2>1 DEF New
  <2>3. DataOf(<<>>) = <<>> /\ CommandsOf(<<>>) = <<>>
    BY <1>0, SaidYetNothing
  <2>4. DataOf(said') = <<>> /\ CommandsOf(said') = <<>>
    BY <2>1, <2>3
  <2> QED
    BY <2>2, <2>4 DEF ChannelStep
<1>2. CASE onConnected
  <2>1. said' = said /\ c'.data = c.data /\ c'.commands = c.commands
    <3>1. said' = said /\ c' = [c EXCEPT !.sock = "up"]
      BY <1>2 DEF onConnected
    <3> QED
      BY <1>0, <3>1 DEF Conn
  <2> QED
    BY <2>1, QuietStep
<1>3. CASE onError \/ onConnectTimeout \/ onClose \/ disconnect
  <2>1. said' = said /\ c' = CleanedUp(c)
    BY <1>3 DEF onError, onConnectTimeout, onClose, disconnect
  <2> QED
    BY <1>0, <2>1, CleanConn, QuietStep
<1>4. CASE \E n \in 1 .. Len(wire) : onData(n)
  BY <1>4, DataStep
<1>5. CASE \E u \in Units[kind] : HostSays(u)
  BY <1>5, SaysStep
<1>6. CASE Send \/ Probe
  <2>1. said' = said /\ c.sock = "up" /\ asked \in Seq(Message)
    BY <1>6 DEF Send, Probe, IInv, Inv
  <2>2. PICK m : c' = sendRecord(c, m) \/ c' = sendRaw(c, m)
    BY <1>6 DEF Send, Probe
  <2>3. c'.data = c.data /\ c'.commands = c.commands
    BY <1>0, <2>2 DEF sendRecord, sendRaw, Write, Conn
  <2> QED
    BY <2>1, <2>3, QuietStep
<1> QED
  BY <1>1, <1>2, <1>3, <1>4, <1>5, <1>6 DEF Next

LEMMA ChannelSteps ==
    ASSUME IInv, [Next]_vars
    PROVE  /\ [DataChannel!Say \/ DataChannel!Hear \/ DataChannel!End]_<<DataOf(said), c.data>>
           /\ [CommandChannel!Say \/ CommandChannel!Hear \/ CommandChannel!End]_<<CommandsOf(said), c.commands>>
<1>1. CASE UNCHANGED vars
  <2>1. kind' = kind /\ said' = said /\ c' = c
    BY <1>1 DEF vars
  <2>2. DataOf(said)' = DataOf(said) /\ CommandsOf(said)' = CommandsOf(said)
    BY <2>1, SameData
  <2> QED
    BY <2>1, <2>2
<1>2. CASE Next
  <2>1. kind' = kind
    BY <1>2 DEF Next, connect, onConnected, onError, onConnectTimeout, onClose, disconnect, onData,
                HostSays, Send, Probe
  <2>2. ChannelStep(DataOf(said)', CommandsOf(said)')
    <3>1. ChannelStep(DataOf(said'), CommandsOf(said'))
      BY <1>2, EveryStep
    <3>2. DataOf(said)' = DataOf(said') /\ CommandsOf(said)' = CommandsOf(said')
      BY <2>1, SameData
    <3> QED
      BY <3>1, <3>2
  <2>3. CASE /\ IsPrefix(DataOf(said), DataOf(said)') /\ IsPrefix(CommandsOf(said), CommandsOf(said)')
             /\ c'.data = c.data /\ c'.commands = c.commands
    <3>1. DataChannel!Say
      BY <2>3 DEF DataChannel!Say, IsPrefix, DataChannel!IsPrefix
    <3>2. CommandChannel!Say
      BY <2>3 DEF CommandChannel!Say, IsPrefix, CommandChannel!IsPrefix
    <3> QED
      BY <3>1, <3>2
  <2>4. CASE /\ IsPrefix(c.data, c'.data) /\ IsPrefix(c'.data, DataOf(said))
             /\ IsPrefix(c.commands, c'.commands) /\ IsPrefix(c'.commands, CommandsOf(said))
             /\ DataOf(said)' = DataOf(said) /\ CommandsOf(said)' = CommandsOf(said)
    <3>1. DataChannel!Hear
      BY <2>4 DEF DataChannel!Hear, IsPrefix, DataChannel!IsPrefix
    <3>2. CommandChannel!Hear
      BY <2>4 DEF CommandChannel!Hear, IsPrefix, CommandChannel!IsPrefix
    <3> QED
      BY <3>1, <3>2
  <2>5. CASE /\ DataOf(said)' = <<>> /\ CommandsOf(said)' = <<>>
             /\ c'.data = <<>> /\ c'.commands = <<>>
    <3>1. DataChannel!End
      BY <2>5 DEF DataChannel!End
    <3>2. CommandChannel!End
      BY <2>5 DEF CommandChannel!End
    <3> QED
      BY <3>1, <3>2
  <2> QED
    BY <2>2, <2>3, <2>4, <2>5 DEF ChannelStep
<1> QED
  BY <1>1, <1>2

(* The connection implements a channel for the host's data and one for its *)
(* commands: both are heard once, whole and in order, without escapes and  *)
(* headers, and nothing of one connection is heard in the next.            *)
THEOREM ImplementsChannel == Spec => IsChannel
<1>1. Init => DataChannel!Init /\ CommandChannel!Init
  <2> SUFFICES ASSUME Init PROVE DataChannel!Init /\ CommandChannel!Init
    OBVIOUS
  <2>1. said = <<>> /\ c.data = <<>> /\ c.commands = <<>> /\ kind \in Kinds
    BY DEF Init, CleanedUp, New
  <2>2. DataOf(said) = <<>> /\ CommandsOf(said) = <<>>
    BY <2>1, SaidYetNothing
  <2> QED
    BY <2>1, <2>2 DEF DataChannel!Init, CommandChannel!Init
<1>2. IInv /\ [Next]_vars =>
        /\ [DataChannel!Say \/ DataChannel!Hear \/ DataChannel!End]_<<DataOf(said), c.data>>
        /\ [CommandChannel!Say \/ CommandChannel!Hear \/ CommandChannel!End]_<<CommandsOf(said), c.commands>>
  BY ChannelSteps
<1> QED
  BY <1>1, <1>2, Invariance, PTL DEF Spec, IsChannel, DataIsHeard, CommandsAreHeard,
     DataChannel!Spec, CommandChannel!Spec
=============================================================================
