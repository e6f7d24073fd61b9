---------------------------- MODULE Tn5250_proofs ----------------------------
(***************************************************************************)
(* Theorems about a 5250 terminal in use, for screens of every size, every *)
(* host and every text typed.  An error holds the keyboard; Backtab undoes *)
(* Tab wherever the fields are apart; the stack of popups and the windows  *)
(* are bounded, and no address is relative to a window that is gone.  As   *)
(* long as the host's format is sound, what is typed stays in the fields   *)
(* it belongs to and no edit of it is lost; and what the operator does     *)
(* never makes a sound format unsound.                                     *)
(***************************************************************************)
EXTENDS Tn5250, TLAPS, FiniteSetTheorems, SequenceTheorems, WellFoundedInduction

-----------------------------------------------------------------------------
(* Numbers, and the places of the members of an ordered set.               *)

LEMMA LeastNumber ==
    ASSUME NEW T, T \subseteq Nat, T # {}
    PROVE  \E n \in T : \A k \in T : n <= k
<1>1. PICK x \in T : \A y \in T : ~ (<<y, x>> \in OpToRel(<, Nat))
  BY NatLessThanWellFounded, WFMin, Zenon
<1>2. \A y \in T : <<y, x>> \notin {ss \in Nat \X Nat : ss[1] < ss[2]}
  BY <1>1, Zenon DEF OpToRel
<1>3. \A y \in T : ~(y < x)
  BY <1>2
<1> QED
  BY <1>3

\* What holds of 0, and with a number of its successor, holds up to n
LEMMA UpTo ==
    ASSUME NEW n \in Nat, NEW P, 0 \in P, \A k \in 1 .. n : k - 1 \in P => k \in P
    PROVE  \A k \in 0 .. n : k \in P
<1> DEFINE T == {k \in 0 .. n : k \notin P}
<1>1. T \subseteq Nat
  OBVIOUS
<1> SUFFICES ASSUME T # {} PROVE FALSE
  OBVIOUS
<1>2. PICK m \in T : \A k \in T : m <= k
  <2> HIDE DEF T
  <2> QED
    BY <1>1, LeastNumber
<1>3. m \in 1 .. n /\ m \notin P
  <2>1. m \in 0 .. n /\ m \notin P
    BY <1>2
  <2> QED
    BY <2>1
<1>4. m - 1 \notin P /\ m - 1 \in 0 .. n /\ ~(m <= m - 1)
  BY <1>3
<1>5. m - 1 \in T
  BY <1>4
<1> QED
  BY <1>2, <1>4, <1>5


LEMMA MinOfNumbers ==
    ASSUME NEW T, T \subseteq Nat, T # {}
    PROVE  Min(T) \in T /\ \A k \in T : Min(T) <= k
BY LeastNumber DEF Min

LEMMA MinOfTwo ==
    ASSUME NEW a \in Int, NEW b \in Int
    PROVE  Min({a, b}) = IF a <= b THEN a ELSE b
BY DEF Min

LEMMA MaxOfTwo ==
    ASSUME NEW a \in Int, NEW b \in Int
    PROVE  Max({a, b}) = IF a <= b THEN b ELSE a
BY DEF Max

\* R is a strict order of I that leaves no two members unrelated
Ranks(R, I) ==
    /\ \A i \in I : <<i, i>> \notin R
    /\ \A i, j \in I : i # j => <<i, j>> \in R \/ <<j, i>> \in R
    /\ \A i, j, k \in I : <<i, j>> \in R /\ <<j, k>> \in R => <<i, k>> \in R

\* The members of I before i
Ahead(R, I, i) == {j \in I : <<j, i>> \in R}

LEMMA AheadIsFinite ==
    ASSUME NEW I, IsFiniteSet(I), NEW R, Ranks(R, I), NEW i \in I
    PROVE  /\ IsFiniteSet(Ahead(R, I, i))
           /\ Cardinality(I) \in Nat
           /\ Cardinality(Ahead(R, I, i)) \in 0 .. Cardinality(I) - 1
<1>1. Ahead(R, I, i) \in SUBSET (I \ {i})
  BY DEF Ahead, Ranks
<1>2. IsFiniteSet(I \ {i}) /\ Cardinality(I \ {i}) = Cardinality(I) - 1
  BY FS_RemoveElement
<1>3. IsFiniteSet(Ahead(R, I, i)) /\ Cardinality(Ahead(R, I, i)) <= Cardinality(I \ {i})
  BY <1>1, <1>2, FS_Subset
<1>4. Cardinality(I) \in Nat /\ Cardinality(Ahead(R, I, i)) \in Nat
  BY <1>3, FS_CardinalityType
<1> QED
  BY <1>2, <1>3, <1>4

LEMMA AheadGrows ==
    ASSUME NEW I, IsFiniteSet(I), NEW R, Ranks(R, I), NEW i \in I, NEW j \in I,
           <<i, j>> \in R
    PROVE  Cardinality(Ahead(R, I, i)) < Cardinality(Ahead(R, I, j))
<1>1. Ahead(R, I, i) \cup {i} \in SUBSET Ahead(R, I, j) /\ i \notin Ahead(R, I, i)
  BY DEF Ahead, Ranks
<1>2. /\ IsFiniteSet(Ahead(R, I, i)) /\ Cardinality(Ahead(R, I, i)) \in Nat
      /\ IsFiniteSet(Ahead(R, I, j)) /\ Cardinality(Ahead(R, I, j)) \in Nat
  BY AheadIsFinite
<1>3. Cardinality(Ahead(R, I, i) \cup {i}) = Cardinality(Ahead(R, I, i)) + 1
  BY <1>1, <1>2, FS_AddElement
<1>4. Cardinality(Ahead(R, I, i) \cup {i}) <= Cardinality(Ahead(R, I, j))
  BY <1>1, <1>2, FS_Subset
<1> QED
  BY <1>2, <1>3, <1>4

LEMMA RanksDiffer ==
    ASSUME NEW I, IsFiniteSet(I), NEW R, Ranks(R, I), NEW i \in I, NEW j \in I, i # j
    PROVE  Cardinality(Ahead(R, I, i)) # Cardinality(Ahead(R, I, j))
<1>1. Cardinality(Ahead(R, I, i)) \in Int /\ Cardinality(Ahead(R, I, j)) \in Int
  BY AheadIsFinite
<1>2. CASE <<i, j>> \in R
  BY <1>1, <1>2, AheadGrows
<1>3. CASE <<j, i>> \in R
  BY <1>1, <1>3, AheadGrows
<1> QED
  BY <1>2, <1>3 DEF Ranks

\* Each place in the order is taken
LEMMA RankIsTaken ==
    ASSUME NEW I, IsFiniteSet(I), NEW R, Ranks(R, I), NEW k \in 0 .. Cardinality(I) - 1
    PROVE  \E i \in I : Cardinality(Ahead(R, I, i)) = k
<1> DEFINE T == 0 .. Cardinality(I) - 1
           f == [i \in I |-> Cardinality(Ahead(R, I, i))]
<1>1. Cardinality(I) \in Nat
  <2> HIDE DEF f, T
  <2> QED
    BY FS_CardinalityType
<1>2. IsFiniteSet(T) /\ Cardinality(T) = Cardinality(I)
  <2> DEFINE n == Cardinality(I) - 1
  <2>1. n \in Int /\ 0 \in Int
    BY <1>1
  <2>2. IsFiniteSet(0 .. n) /\ Cardinality(0 .. n) = IF 0 > n THEN 0 ELSE n - 0 + 1
    <3> HIDE DEF n, f, T
    <3> QED
      BY <2>1, FS_Interval
  <2> QED
    BY <1>1, <2>2
<1>3. f \in [I -> T]
  BY AheadIsFinite
<1>4. \A i, j \in I : f[i] = f[j] => i = j
  BY RanksDiffer
<1>5. f \in Injection(I, T)
  <2> HIDE DEF f, T
  <2> QED
    BY <1>3, <1>4 DEF Injection, IsInjective
<1>6. f \in Surjection(I, T)
  <2> HIDE DEF f, T
  <2> QED
    BY <1>2, <1>5, FS_Injection
<1>7. \A t \in T : \E i \in I : f[i] = t
  <2> HIDE DEF f, T
  <2> QED
    BY <1>6 DEF Surjection
<1> QED
  BY <1>7

\* A set that is not empty has a first and a last member
LEMMA FirstOfAll ==
    ASSUME NEW I, IsFiniteSet(I), I # {}, NEW R, Ranks(R, I)
    PROVE  \E i \in I : \A j \in I \ {i} : <<i, j>> \in R /\ <<j, i>> \notin R
<1>1. Cardinality(I) \in Nat /\ Cardinality(I) # 0
  BY FS_CardinalityType, FS_EmptySet
<1>2. PICK i \in I : Cardinality(Ahead(R, I, i)) = 0
  BY <1>1, RankIsTaken
<1>3. Ahead(R, I, i) = {}
  BY <1>2, AheadIsFinite, FS_EmptySet
<1> QED
  BY <1>3 DEF Ahead, Ranks

LEMMA LastOfAll ==
    ASSUME NEW I, IsFiniteSet(I), I # {}, NEW R, Ranks(R, I)
    PROVE  \E i \in I : \A j \in I \ {i} : <<j, i>> \in R /\ <<i, j>> \notin R
<1> DEFINE Q == {p \in I \X I : <<p[2], p[1]>> \in R}
<1>1. \A i, j \in I : <<i, j>> \in Q <=> <<j, i>> \in R
  OBVIOUS
<1>2. Ranks(Q, I)
  <2> HIDE DEF Q
  <2> QED
    BY <1>1 DEF Ranks
<1>3. PICK i \in I : \A j \in I \ {i} : <<i, j>> \in Q /\ <<j, i>> \notin Q
  <2> HIDE DEF Q
  <2> QED
    BY <1>2, FirstOfAll
<1> QED
  BY <1>1, <1>3

-----------------------------------------------------------------------------
(* The folds of the program, over characters, orders, commands and what is *)
(* typed, by the number of steps taken.                                    *)

Step(kind, q, x) ==
    CASE kind = "char" -> WriteChar(q, x)
      [] kind = "order" -> ParseOrder(q, x)
      [] kind = "command" -> ParseCommand(q, x, FALSE)
      [] kind = "restoring" -> ParseCommand(q, x, TRUE)
      [] kind = "type" -> TypeChar(q, x, FALSE)
      [] kind = "advance" -> TypeChar(q, x, TRUE)

\* f is the fold over every set of the first n places in seq
Iteration(kind, base, seq, n, f) ==
    f = [T \in SUBSET (1 .. n) |->
            IF T = {} THEN base ELSE Step(kind, f[T \ {Max(T)}], seq[Max(T)])]

Folded(kind, base, seq) ==
    (CHOOSE f : Iteration(kind, base, seq, Len(seq), f))[1 .. Len(seq)]

LEMMA MaxOfNumbers ==
    ASSUME NEW n \in Nat, NEW T, T \subseteq 0 .. n, T # {}
    PROVE  Max(T) \in T /\ \A k \in T : k <= Max(T)
<1> DEFINE U == {n - k : k \in T}
<1>1. U \subseteq Nat /\ U # {}
  <2>1. \A k \in T : k \in 0 .. n /\ n - k \in Nat
    OBVIOUS
  <2> QED
    BY <2>1
<1>2. PICK m \in U : \A k \in U : m <= k
  <2> HIDE DEF U
  <2> QED
    BY <1>1, LeastNumber
<1>3. PICK x \in T : m = n - x
  BY <1>2
<1>4. \A k \in T : k <= x
  <2> TAKE k \in T
  <2>1. m <= n - k
    BY <1>2
  <2> QED
    BY <1>3, <2>1
<1> QED
  BY <1>3, <1>4 DEF Max

LEMMA FoldOfChars ==
    ASSUME NEW base, NEW seq, DOMAIN seq = 1 .. Len(seq)
    PROVE  FoldLeft(WriteChar, base, seq) = Folded("char", base, seq)
BY DEF FoldLeft, MapThenFoldSet, Folded, Iteration, Step

LEMMA FoldOfOrders ==
    ASSUME NEW base, NEW seq, DOMAIN seq = 1 .. Len(seq)
    PROVE  FoldLeft(ParseOrder, base, seq) = Folded("order", base, seq)
BY DEF FoldLeft, MapThenFoldSet, Folded, Iteration, Step

LEMMA FoldOfCommands ==
    ASSUME NEW base, NEW seq, DOMAIN seq = 1 .. Len(seq), NEW restoring \in BOOLEAN
    PROVE  FoldLeft(LAMBDA q, c : ParseCommand(q, c, restoring), base, seq)
              = Folded(IF restoring THEN "restoring" ELSE "command", base, seq)
<1>1. CASE restoring = TRUE
  BY <1>1 DEF FoldLeft, MapThenFoldSet, Folded, Iteration, Step
<1>2. CASE restoring = FALSE
  BY <1>2 DEF FoldLeft, MapThenFoldSet, Folded, Iteration, Step
<1> QED
  BY <1>1, <1>2

LEMMA FoldOfTyping ==
    ASSUME NEW base, NEW seq, DOMAIN seq = 1 .. Len(seq), NEW advance \in BOOLEAN
    PROVE  FoldLeft(LAMBDA u, ch : TypeChar(u, ch, advance), base, seq)
              = Folded(IF advance THEN "advance" ELSE "type", base, seq)
<1>1. CASE advance = TRUE
  BY <1>1 DEF FoldLeft, MapThenFoldSet, Folded, Iteration, Step
<1>2. CASE advance = FALSE
  BY <1>2 DEF FoldLeft, MapThenFoldSet, Folded, Iteration, Step
<1> QED
  BY <1>1, <1>2

LEMMA IterationGrows ==
    ASSUME NEW kind, NEW base, NEW seq, NEW n \in Nat, NEW f,
           Iteration(kind, base, seq, n, f)
    PROVE  \E g : Iteration(kind, base, seq, n + 1, g)
<1> DEFINE g == [s \in SUBSET (1 .. n + 1) |->
                    IF s = {} THEN base
                    ELSE Step(kind, f[s \ {Max(s)}], seq[Max(s)])]
<1>1. \A s \in SUBSET (1 .. n + 1) :
         s # {} => s \ {Max(s)} \in SUBSET (1 .. n) /\ f[s \ {Max(s)}] = g[s \ {Max(s)}]
  <2> SUFFICES ASSUME NEW s \in SUBSET (1 .. n + 1), s # {}
               PROVE  s \ {Max(s)} \in SUBSET (1 .. n) /\ f[s \ {Max(s)}] = g[s \ {Max(s)}]
    OBVIOUS
  <2> DEFINE r == s \ {Max(s)}
  <2>1. Max(s) \in s /\ \A k \in s : k <= Max(s)
    <3>1. s \subseteq 0 .. n + 1 /\ n + 1 \in Nat
      OBVIOUS
    <3> QED
      BY <3>1, MaxOfNumbers
  <2>2. \A k \in r : k \in 1 .. n
    <3> TAKE k \in r
    <3>1. k \in 1 .. n + 1 /\ Max(s) \in 1 .. n + 1 /\ k <= Max(s) /\ k # Max(s)
      BY <2>1
    <3> QED
      BY <3>1
  <2>3. r \in SUBSET (1 .. n) /\ r \in SUBSET (1 .. n + 1)
    BY <2>2
  <2> HIDE DEF r
  <2>4. f[r] = IF r = {} THEN base ELSE Step(kind, f[r \ {Max(r)}], seq[Max(r)])
    BY <2>3 DEF Iteration
  <2>5. g[r] = IF r = {} THEN base ELSE Step(kind, f[r \ {Max(r)}], seq[Max(r)])
    BY <2>3
  <2> QED
    BY <2>3, <2>4, <2>5 DEF r
<1>2. g = [s \in SUBSET (1 .. n + 1) |->
              IF s = {} THEN base ELSE Step(kind, g[s \ {Max(s)}], seq[Max(s)])]
  BY <1>1
<1> QED
  BY <1>2 DEF Iteration

LEMMA IterationExists ==
    ASSUME NEW kind, NEW base, NEW seq, NEW n \in Nat
    PROVE  \E f : Iteration(kind, base, seq, n, f)
<1> DEFINE P == {m \in 0 .. n : \E f : Iteration(kind, base, seq, m, f)}
<1>1. 0 \in P
  <2> DEFINE f == [s \in SUBSET (1 .. 0) |-> base]
  <2>1. \A s \in SUBSET (1 .. 0) : s = {}
    OBVIOUS
  <2>2. f = [s \in SUBSET (1 .. 0) |->
                IF s = {} THEN base ELSE Step(kind, f[s \ {Max(s)}], seq[Max(s)])]
    BY <2>1
  <2> QED
    BY <2>2 DEF Iteration
<1>2. \A m \in 1 .. n : m - 1 \in P => m \in P
  <2> SUFFICES ASSUME NEW m \in 1 .. n, m - 1 \in P PROVE m \in P
    OBVIOUS
  <2>1. PICK f : Iteration(kind, base, seq, m - 1, f)
    OBVIOUS
  <2>2. m - 1 \in Nat /\ m - 1 + 1 = m
    OBVIOUS
  <2>3. \E g : Iteration(kind, base, seq, m - 1 + 1, g)
    BY <2>1, <2>2, IterationGrows
  <2>4. \E g : Iteration(kind, base, seq, m, g)
    BY <2>2, <2>3
  <2> QED
    BY <2>4
<1>3. \A m \in 0 .. n : m \in P
  <2> HIDE DEF P
  <2> QED
    BY <1>1, <1>2, UpTo
<1> QED
  BY <1>3

LEMMA IntervalTop ==
    ASSUME NEW n \in Nat, NEW m \in 1 .. n
    PROVE  1 .. m # {} /\ 1 .. m \in SUBSET (1 .. n) /\ Max(1 .. m) = m
           /\ (1 .. m) \ {m} = 1 .. m - 1
<1>1. m \in 1 .. m /\ \A j \in 1 .. m : m >= j
  OBVIOUS
<1>2. m \in Nat /\ 1 .. m \subseteq 0 .. m /\ 1 .. m # {}
  BY <1>1
<1>3. Max(1 .. m) \in 1 .. m /\ \A j \in 1 .. m : j <= Max(1 .. m)
  <2>1. \A T : T \subseteq 0 .. m /\ T # {} => Max(T) \in T /\ \A k \in T : k <= Max(T)
    BY <1>2, MaxOfNumbers
  <2> QED
    BY <1>2, <2>1
<1>4. Max(1 .. m) = m
  BY <1>1, <1>2, <1>3
<1> QED
  BY <1>2, <1>4

\* g lists the values the steps of a fold lead to
Walk(kind, base, seq, g) ==
    /\ g[0] = base
    /\ \A k \in 1 .. Len(seq) : g[k] = Step(kind, g[k - 1], seq[k])
    /\ Folded(kind, base, seq) = g[Len(seq)]

\* A fold is the last of the values its steps lead to
LEMMA StepByStep ==
    ASSUME NEW kind, NEW base, NEW seq, Len(seq) \in Nat
    PROVE  \E g : Walk(kind, base, seq, g)
<1> DEFINE f == CHOOSE f : Iteration(kind, base, seq, Len(seq), f)
           g == [k \in 0 .. Len(seq) |-> f[1 .. k]]
<1>1. Iteration(kind, base, seq, Len(seq), f)
  <2>1. \E h : Iteration(kind, base, seq, Len(seq), h)
    BY IterationExists
  <2> QED
    BY <2>1
<1>2. f[1 .. Len(seq)] = Folded(kind, base, seq)
  BY DEF Folded
<1> HIDE DEF f
<1>3. g[0] = base
  <2>1. 1 .. 0 = {} /\ {} \in SUBSET (1 .. Len(seq))
    OBVIOUS
  <2> QED
    BY <1>1, <2>1 DEF Iteration
<1>4. \A k \in 1 .. Len(seq) : g[k] = Step(kind, g[k - 1], seq[k])
  <2> TAKE k \in 1 .. Len(seq)
  <2> DEFINE T == 1 .. k
  <2>3. T # {} /\ T \in SUBSET (1 .. Len(seq)) /\ Max(T) = k /\ T \ {k} = 1 .. k - 1
    BY IntervalTop
  <2>4. f[T] = Step(kind, f[T \ {Max(T)}], seq[Max(T)])
    <3> HIDE DEF T, g
    <3> QED
      BY <1>1, <2>3 DEF Iteration
  <2>1. f[1 .. k] = Step(kind, f[1 .. k - 1], seq[k])
    BY <2>3, <2>4
  <2>2. k \in 0 .. Len(seq) /\ k - 1 \in 0 .. Len(seq)
    OBVIOUS
  <2> QED
    BY <2>1, <2>2
<1>5. g[Len(seq)] = f[1 .. Len(seq)]
  OBVIOUS
<1> HIDE DEF g
<1>6. Walk(kind, base, seq, g)
  BY <1>2, <1>3, <1>4, <1>5 DEF Walk
<1> QED
  BY <1>6

-----------------------------------------------------------------------------
(* The screen, as far as the theorems need it: what is in its cells, its   *)
(* windows and its header does not matter to where the cursor and the      *)
(* fields may be.                                                          *)

ScreenParts ==
    {"rows", "cols", "buf", "fields", "cursor", "locked", "insert", "errorCursor",
     "msgLine", "header", "stack", "windows", "selections", "scrollbars",
     "pendingInsert", "readOp"}

LongFields == {f \in FieldType : f.len >= 1}

\* The windows tracked, the last ones
IsWindows(windows) == \E W : windows \in Seq(W) /\ Len(windows) <= MaxWindows

\* A frame of the stack holds fields whose lengths are known
IsFrame(frame) ==
    /\ frame.cursor \in Spots /\ frame.fields \in Seq(LongFields)
    /\ frame.locked \in BOOLEAN /\ IsWindows(frame.windows)

IsStack(stack) ==
    \E F : /\ stack \in Seq(F) /\ Len(stack) <= MaxScreenStack
           /\ \A frame \in F : IsFrame(frame)

Sized(s) == s.rows \in Nat \ {0} /\ s.cols \in Nat \ {0}

Placed(s) ==
    /\ s.cursor \in Spots
    /\ s.errorCursor \in Spots \cup {None}
    /\ s.pendingInsert \in Spots \cup {None}
    /\ s.locked \in BOOLEAN /\ s.insert \in BOOLEAN
    /\ IsWindows(s.windows)

Screen(s) ==
    /\ DOMAIN s = ScreenParts
    /\ Sized(s)
    /\ Placed(s)
    /\ s.fields \in Seq(FieldType)
    /\ IsStack(s.stack)

\* An error that holds the keyboard in s still does in t
HoldsOn(s, t) == s.locked /\ s.errorCursor # None => t.locked /\ t.errorCursor # None

\* and a screen with windows keeps one
Keeps(s, t) == Screen(t) /\ HoldsOn(s, t) /\ (t.windows = <<>> => s.windows = <<>>)

LEMMA KeepsOn ==
    ASSUME NEW s, NEW t, NEW u, Keeps(s, t), Keeps(t, u)
    PROVE  Keeps(s, u)
BY DEF Keeps, HoldsOn

LEMMA SpotIsNoNone ==
    ASSUME NEW c \in Spots
    PROVE  c # None
BY NoneAssumption

LEMMA SpotOf ==
    ASSUME NEW r \in Nat, NEW c \in Nat
    PROVE  [row |-> r, col |-> c] \in Spots
BY DEF Spots

LEMMA CellsKeep ==
    ASSUME NEW s, Screen(s), NEW cells
    PROVE  Keeps(s, [s EXCEPT !.buf = cells])
BY DEF Keeps, HoldsOn, Screen, Sized, Placed, ScreenParts

LEMMA WindowsKeep ==
    ASSUME NEW s, Screen(s), NEW w, IsWindows(w)
    PROVE  /\ Screen([s EXCEPT !.windows = w]) /\ HoldsOn(s, [s EXCEPT !.windows = w])
           /\ [s EXCEPT !.windows = w].windows = w
BY DEF HoldsOn, Screen, Sized, Placed, ScreenParts

LEMMA FieldsKeep ==
    ASSUME NEW s, Screen(s), NEW fields \in Seq(FieldType)
    PROVE  Keeps(s, [s EXCEPT !.fields = fields])
BY DEF Keeps, HoldsOn, Screen, Sized, Placed, ScreenParts

LEMMA CursorKeeps ==
    ASSUME NEW s, Screen(s), NEW c \in Spots
    PROVE  Keeps(s, [s EXCEPT !.cursor = c])
BY DEF Keeps, HoldsOn, Screen, Sized, Placed, ScreenParts

LEMMA FillKeeps ==
    ASSUME NEW s, Screen(s), NEW A, NEW ch
    PROVE  Keeps(s, Fill(s, A, ch))
BY CellsKeep DEF Fill

LEMMA SetCharAtKeeps ==
    ASSUME NEW s, Screen(s), NEW a, NEW ch
    PROVE  Keeps(s, SetCharAt(s, a, ch))
<1>1. Keeps(s, s)
  BY DEF Keeps, HoldsOn
<1> QED
  BY <1>1, CellsKeep DEF SetCharAt

LEMMA StackKeeps ==
    ASSUME NEW s, Screen(s), NEW stack, IsStack(stack)
    PROVE  Keeps(s, [s EXCEPT !.stack = stack])
BY DEF Keeps, HoldsOn, Screen, Sized, Placed, ScreenParts

LEMMA TailOfStack ==
    ASSUME NEW stack, IsStack(stack), stack # <<>>
    PROVE  /\ IsStack(Tail(stack)) /\ Len(Tail(stack)) = Len(stack) - 1
           /\ IsStack(Front(stack)) /\ IsFrame(Last(stack))
<1>1. PICK F : /\ stack \in Seq(F) /\ Len(stack) <= MaxScreenStack
               /\ \A frame \in F : IsFrame(frame)
  BY DEF IsStack
<1>2. Len(stack) \in Nat /\ Len(stack) >= 1 /\ MaxScreenStack \in Nat
  BY <1>1, SizeAssumption
<1>3. Tail(stack) \in Seq(F) /\ Len(Tail(stack)) = Len(stack) - 1
  BY <1>1
<1>4. Len(Tail(stack)) <= MaxScreenStack
  BY <1>1, <1>2, <1>3
<1>5. Front(stack) \in Seq(F) /\ Len(Front(stack)) <= MaxScreenStack
  <2>1. SubSeq(stack, 1, Len(stack) - 1) \in Seq(F)
        /\ Len(SubSeq(stack, 1, Len(stack) - 1)) = Len(stack) - 1
    <3> DEFINE n == Len(stack) - 1
               front == SubSeq(stack, 1, n)
    <3>1. stack \in Seq(F)
      BY <1>1
    <3>2. 1 \in Int /\ n \in Nat /\ \A i \in 1 .. n : stack[i] \in F
      BY <1>2, <3>1
    <3> HIDE DEF n
    <3>3. front \in Seq(F) /\ Len(front) = IF 1 <= n THEN n - 1 + 1 ELSE 0
      BY <3>2, SubSeqProperties
    <3> HIDE DEF front
    <3>4. front \in Seq(F) /\ Len(front) = n
      BY <3>2, <3>3
    <3> QED
      BY <3>4 DEF front, n
  <2>2. Front(stack) \in Seq(F) /\ Len(Front(stack)) = Len(stack) - 1
    BY <2>1 DEF Front
  <2> QED
    BY <1>1, <1>2, <2>2
<1>6. Last(stack) \in F
  BY <1>1, <1>2 DEF Last
<1>7. IsStack(Tail(stack))
  BY <1>1, <1>3, <1>4 DEF IsStack
<1>8. IsStack(Front(stack))
  BY <1>1, <1>5 DEF IsStack
<1> QED
  BY <1>1, <1>3, <1>6, <1>7, <1>8

LEMMA PushOfStack ==
    ASSUME NEW stack, IsStack(stack), Len(stack) < MaxScreenStack, NEW frame, IsFrame(frame)
    PROVE  IsStack(Append(stack, frame))
<1>1. PICK F : stack \in Seq(F) /\ \A fr \in F : IsFrame(fr)
  BY DEF IsStack
<1>2. stack \in Seq(F \cup {frame})
  BY <1>1
<1>3. Append(stack, frame) \in Seq(F \cup {frame})
      /\ Len(Append(stack, frame)) = Len(stack) + 1
  BY <1>2
<1>4. Len(stack) \in Nat /\ MaxScreenStack \in Nat
  BY <1>1, SizeAssumption
<1>5. Len(Append(stack, frame)) <= MaxScreenStack
  BY <1>3, <1>4
<1>6. \A fr \in F \cup {frame} : IsFrame(fr)
  BY <1>1
<1> QED
  BY <1>3, <1>5, <1>6 DEF IsStack

\* The windows once another is tracked, or one is closed
LEMMA NoWindows == IsWindows(<<>>)
<1>1. <<>> \in Seq({}) /\ Len(<<>>) = 0 /\ 0 <= MaxWindows
  BY SizeAssumption
<1> QED
  BY <1>1 DEF IsWindows

LEMMA WindowsAndOne ==
    ASSUME NEW windows, IsWindows(windows), NEW w
    PROVE  LET all == Append(windows, w)
               kept == IF Len(all) > MaxWindows THEN Tail(all) ELSE all
           IN  IsWindows(kept) /\ kept # <<>>
<1> DEFINE all == Append(windows, w)
           kept == IF Len(all) > MaxWindows THEN Tail(all) ELSE all
<1>1. PICK W : windows \in Seq(W) /\ Len(windows) <= MaxWindows
  BY DEF IsWindows
<1>2. MaxWindows \in Nat \ {0} /\ Len(windows) \in Nat
  BY <1>1, SizeAssumption
<1>3. windows \in Seq(W \cup {w})
  BY <1>1
<1>4. all \in Seq(W \cup {w}) /\ Len(all) = Len(windows) + 1
  BY <1>3
<1> HIDE DEF all
<1>5. kept \in Seq(W \cup {w}) /\ Len(kept) <= MaxWindows /\ Len(kept) >= 1
  <2>1. CASE Len(all) > MaxWindows
    <3>1. all # <<>>
      BY <1>2, <1>4
    <3>2. Tail(all) \in Seq(W \cup {w}) /\ Len(Tail(all)) = Len(all) - 1
      BY <1>4, <3>1
    <3> QED
      BY <1>1, <1>2, <1>4, <2>1, <3>2
  <2>2. CASE ~(Len(all) > MaxWindows)
    BY <1>2, <1>4, <2>2
  <2> QED
    BY <2>1, <2>2
<1> HIDE DEF kept
<1>6. IsWindows(kept)
  BY <1>5 DEF IsWindows
<1> QED
  BY <1>5, <1>6 DEF kept, all

LEMMA WindowsButOne ==
    ASSUME NEW windows, IsWindows(windows), NEW i \in DOMAIN windows
    PROVE  IsWindows(RemoveAt(windows, i))
<1>1. PICK W : windows \in Seq(W) /\ Len(windows) <= MaxWindows
  BY DEF IsWindows
<1> DEFINE n == Len(windows)
           before == SubSeq(windows, 1, i - 1)
           behind == SubSeq(windows, i + 1, n)
<1>2. n \in Nat /\ i \in 1 .. n /\ MaxWindows \in Nat
  BY <1>1, SizeAssumption
<1>3. before \in Seq(W) /\ Len(before) = i - 1
  BY <1>1, <1>2
<1>4. behind \in Seq(W) /\ Len(behind) = n - i
  BY <1>1, <1>2
<1>5. RemoveAt(windows, i) = before \o behind
  BY DEF RemoveAt
<1> HIDE DEF before, behind
<1>6. before \o behind \in Seq(W) /\ Len(before \o behind) = Len(before) + Len(behind)
  BY <1>3, <1>4
<1>7. Len(before \o behind) <= MaxWindows
  BY <1>1, <1>2, <1>3, <1>4, <1>6
<1> QED
  BY <1>5, <1>6, <1>7 DEF IsWindows

-----------------------------------------------------------------------------
(* Orders.                                                                 *)

Parser(p) ==
    /\ DOMAIN p = {"s", "win", "clearStale", "query"}
    /\ Screen(p.s)
    /\ p.win \in Spots
    /\ p.s.windows = <<>> => p.win = Home

Run(q) ==
    /\ DOMAIN q = {"p", "addr", "ic", "cut"}
    /\ Parser(q.p)
    /\ q.addr \in Nat
    /\ q.ic \in Spots \cup {None}

RunKeeps(q, r) == Run(r) /\ HoldsOn(q.p.s, r.p.s)

LEMMA OrderShapes ==
    ASSUME NEW o \in Orders
    PROVE  /\ o.o \in {"SBA", "IC", "MC", "EA", "RA", "SOH", "TD", "TEXT", "ATTR", "SF",
                       "WINDOW", "CUT", "SELECTION", "SCROLLBAR", "REM_WINDOW",
                       "REM_SELECTION", "REM_SCROLLBAR", "REM_ALL"}
           /\ o.o \in {"SBA", "IC", "MC", "EA", "RA"} => o.row \in Nat /\ o.col \in Nat
           /\ o.o \in {"TD", "TEXT"} => o.text \in Seq(STRING)
           /\ o.o = "ATTR" => o.attr \in Attributes
           /\ o.o = "SF" => /\ o.ffw \in BOOLEAN /\ o.input \in BOOLEAN /\ o.mdt \in BOOLEAN
                            /\ o.attr \in Attributes /\ o.len \in Nat
                            /\ o.cont \in Continuations /\ o.reseq \in Nat
                            /\ o.fer \in BOOLEAN /\ o.signed \in BOOLEAN
                            /\ o.adjust \in Adjustments
BY DEF Orders

LEMMA OffsetIsNumber ==
    ASSUME NEW s, Sized(s), NEW p \in Spots
    PROVE  Offset(s, p) \in Nat
<1>1. s.cols \in Nat /\ p.row \in Nat /\ p.col \in Nat
  BY DEF Sized, Spots
<1>2. p.row * s.cols \in Nat
  BY <1>1
<1> QED
  BY <1>1, <1>2 DEF Offset

LEMMA SizeIsNumber ==
    ASSUME NEW s, Sized(s)
    PROVE  Size(s) \in Nat \ {0}
<1>1. s.rows \in Nat /\ s.cols \in Nat /\ s.rows >= 1 /\ s.cols >= 1
  BY DEF Sized
<1>2. s.rows * s.cols \in Nat /\ s.rows * s.cols >= 1
  BY <1>1
<1> QED
  BY <1>2 DEF Size

LEMMA ToRowColIsSpot ==
    ASSUME NEW s, Sized(s), NEW a \in Nat
    PROVE  ToRowCol(s, a) \in Spots
<1>1. s.cols \in Nat /\ s.cols >= 1
  BY DEF Sized
<1>2. a \div s.cols \in Nat /\ a % s.cols \in Nat
  BY <1>1
<1> QED
  BY <1>2, SpotOf DEF ToRowCol

LEMMA WindowSpot ==
    ASSUME NEW p, Parser(p), NEW o, o.row \in Nat, o.col \in Nat
    PROVE  InWindow(p, o) \in Spots
<1>1. p.win.row \in Nat /\ p.win.col \in Nat
  BY DEF Parser, Spots
<1>2. o.row + p.win.row \in Nat /\ o.col + p.win.col \in Nat
  BY <1>1
<1> QED
  BY <1>2, SpotOf DEF InWindow

LEMMA NextAddrIsNumber ==
    ASSUME NEW s, Sized(s), NEW a \in Nat
    PROVE  NextAddr(s, a) \in Nat
BY DEF NextAddr

\* A new screen in a run that goes on at addr
LEMMA RunGoesOn ==
    ASSUME NEW q, Run(q), NEW t, Keeps(q.p.s, t), NEW addr \in Nat
    PROVE  RunKeeps(q, [q EXCEPT !.p.s = t, !.addr = addr])
BY DEF RunKeeps, Run, Parser, Keeps

LEMMA WriteCharKeeps ==
    ASSUME NEW q, Run(q), NEW ch
    PROVE  RunKeeps(q, WriteChar(q, ch))
<1> DEFINE t == SetCharAt(q.p.s, q.addr, ch)
           addr == NextAddr(q.p.s, q.addr)
<1>1. Keeps(q.p.s, t)
  BY SetCharAtKeeps DEF Run, Parser
<1>2. addr \in Nat
  BY NextAddrIsNumber DEF Run, Parser, Screen
<1>3. WriteChar(q, ch) = [q EXCEPT !.p.s = t, !.addr = addr]
  BY DEF WriteChar, Run, Parser
<1> HIDE DEF t, addr
<1>4. RunKeeps(q, [q EXCEPT !.p.s = t, !.addr = addr])
  BY <1>1, <1>2, RunGoesOn
<1> QED
  BY <1>3, <1>4

LEMMA RunKeepsOn ==
    ASSUME NEW q, NEW r, NEW t, RunKeeps(q, r), RunKeeps(r, t)
    PROVE  RunKeeps(q, t)
BY DEF RunKeeps, HoldsOn

LEMMA RunKeepsSame ==
    ASSUME NEW q, Run(q)
    PROVE  RunKeeps(q, q)
BY DEF RunKeeps, HoldsOn

LEMMA CharsKeep ==
    ASSUME NEW q, Run(q), NEW text \in Seq(STRING)
    PROVE  RunKeeps(q, FoldLeft(WriteChar, q, text))
<1> DEFINE kind == "char"
<1>1. Len(text) \in Nat /\ DOMAIN text = 1 .. Len(text)
  OBVIOUS
<1>2. \E g : Walk(kind, q, text, g)
  <2>1. Len(text) \in Nat
    BY <1>1
  <2> HIDE DEF kind
  <2> QED
    BY <2>1, StepByStep
<1>3. PICK g : /\ g[0] = q
               /\ \A k \in 1 .. Len(text) : g[k] = Step(kind, g[k - 1], text[k])
               /\ Folded(kind, q, text) = g[Len(text)]
  BY <1>2 DEF Walk
<1> DEFINE P == {k \in 0 .. Len(text) : RunKeeps(q, g[k])}
<1>4. 0 \in P
  BY <1>1, <1>3, RunKeepsSame
<1>5. \A k \in 1 .. Len(text) : k - 1 \in P => k \in P
  <2> SUFFICES ASSUME NEW k \in 1 .. Len(text), k - 1 \in P PROVE k \in P
    OBVIOUS
  <2>1. g[k] = WriteChar(g[k - 1], text[k])
    BY <1>3 DEF Step
  <2>2. RunKeeps(q, g[k - 1])
    OBVIOUS
  <2>3. RunKeeps(g[k - 1], g[k])
    BY <2>1, <2>2, WriteCharKeeps DEF RunKeeps
  <2> QED
    BY <2>2, <2>3, RunKeepsOn
<1>6. \A k \in 0 .. Len(text) : k \in P
  <2> HIDE DEF P
  <2> QED
    BY <1>1, <1>4, <1>5, UpTo
<1>7. RunKeeps(q, g[Len(text)])
  BY <1>1, <1>6
<1> QED
  BY <1>1, <1>3, <1>7, FoldOfChars

LEMMA SetBufferAddressKeeps ==
    ASSUME NEW q, Run(q), NEW o, o.row \in Nat, o.col \in Nat
    PROVE  RunKeeps(q, SetBufferAddress(q, o))
<1>1. InWindow(q.p, o) \in Spots
  BY WindowSpot DEF Run
<1>2. Offset(q.p.s, InWindow(q.p, o)) \in Nat
  BY <1>1, OffsetIsNumber DEF Run, Parser, Screen
<1>3. RunKeeps(q, [q EXCEPT !.addr = Offset(q.p.s, InWindow(q.p, o))])
  BY <1>2 DEF Run, RunKeeps, HoldsOn
<1> QED
  BY <1>3, RunKeepsSame DEF SetBufferAddress

LEMMA InsertCursorKeeps ==
    ASSUME NEW q, Run(q), NEW o, o.row \in Nat, o.col \in Nat
    PROVE  RunKeeps(q, InsertCursor(q, o)) /\ RunKeeps(q, MoveCursor(q, o))
<1>1. InWindow(q.p, o) \in Spots
  BY WindowSpot DEF Run
<1>2. RunKeeps(q, MoveCursor(q, o))
  BY <1>1 DEF Run, RunKeeps, HoldsOn, MoveCursor
<1>3. Run(InsertCursor(q, o))
  BY <1>1 DEF Run, InsertCursor, Parser, Screen, Sized, Placed, ScreenParts
<1>4. HoldsOn(q.p.s, InsertCursor(q, o).p.s)
  BY DEF Run, InsertCursor, Parser, Screen, ScreenParts, HoldsOn
<1> QED
  BY <1>2, <1>3, <1>4 DEF RunKeeps

LEMMA RepeatToAddressKeeps ==
    ASSUME NEW q, Run(q), NEW o, o.row \in Nat, o.col \in Nat
    PROVE  RunKeeps(q, RepeatToAddress(q, o))
<1> DEFINE s == q.p.s
           target == Offset(s, InWindow(q.p, o))
           t == FillOnScreen(s, Span(s, q.addr, target), o.ch)
           addr == IF target < q.addr THEN target + 1
                   ELSE Max({q.addr, Min({target + 1, Size(s)})})
<1>1. InWindow(q.p, o) \in Spots /\ Sized(s) /\ Screen(s) /\ q.addr \in Nat
  BY WindowSpot DEF Run, Parser, Screen
<1>2. target \in Nat /\ Size(s) \in Nat
  BY <1>1, OffsetIsNumber, SizeIsNumber
<1>3. addr \in Nat
  <2> HIDE DEF target, s
  <2>1. Min({target + 1, Size(s)}) \in Nat
    BY <1>2, MinOfTwo
  <2>2. Max({q.addr, Min({target + 1, Size(s)})}) \in Nat
    BY <1>1, <2>1, MaxOfTwo
  <2> QED
    BY <1>2, <2>2
<1>4. Keeps(s, t)
  BY <1>1, FillKeeps DEF FillOnScreen
<1>5. RepeatToAddress(q, o) = [q EXCEPT !.p.s = t, !.addr = addr]
  BY DEF RepeatToAddress
<1> HIDE DEF t, addr
<1>6. RunKeeps(q, [q EXCEPT !.p.s = t, !.addr = addr])
  BY <1>3, <1>4, RunGoesOn
<1> QED
  BY <1>5, <1>6

LEMMA EraseToAddressKeeps ==
    ASSUME NEW q, Run(q), NEW o, o.row \in Nat, o.col \in Nat
    PROVE  RunKeeps(q, EraseToAddress(q, o))
<1> DEFINE s == q.p.s
           target == Offset(s, InWindow(q.p, o))
           t == FillOnScreen(s, Span(s, q.addr, target), Blank)
           addr == NextAddr(s, target)
<1>1. InWindow(q.p, o) \in Spots /\ Sized(s) /\ Screen(s) /\ q.addr \in Nat
  BY WindowSpot DEF Run, Parser, Screen
<1>2. target \in Nat
  BY <1>1, OffsetIsNumber
<1>3. addr \in Nat
  BY <1>1, <1>2, NextAddrIsNumber
<1>4. Keeps(s, t)
  BY <1>1, FillKeeps DEF FillOnScreen
<1>5. EraseToAddress(q, o) = [q EXCEPT !.p.s = t, !.addr = addr]
  BY DEF EraseToAddress
<1> HIDE DEF t, addr
<1>6. RunKeeps(q, [q EXCEPT !.p.s = t, !.addr = addr])
  BY <1>3, <1>4, RunGoesOn
<1> QED
  BY <1>5, <1>6

LEMMA StartOfHeaderKeeps ==
    ASSUME NEW q, Run(q), NEW o
    PROVE  RunKeeps(q, StartOfHeader(q, o))
<1> DEFINE s == q.p.s
           header == IF o.valid THEN [line |-> o.line, attention |-> o.attention]
                     ELSE s.header
           t == [s EXCEPT !.fields = <<>>, !.selections = {}, !.locked = TRUE,
                          !.pendingInsert = None, !.header = header]
           cut == ~o.valid
<1>1. <<>> \in Seq(FieldType) /\ Screen(s)
  BY DEF Run, Parser
<1>2. Keeps(s, t)
  <2> HIDE DEF s, header
  <2> QED
    BY <1>1 DEF Keeps, HoldsOn, Screen, Sized, Placed, ScreenParts
<1>3. StartOfHeader(q, o) = [q EXCEPT !.p.s = t, !.ic = None, !.cut = cut]
  BY DEF StartOfHeader
<1> HIDE DEF t, cut
<1>4. RunKeeps(q, [q EXCEPT !.p.s = t, !.ic = None, !.cut = cut])
  BY <1>2 DEF RunKeeps, Run, Parser, Keeps
<1> QED
  BY <1>3, <1>4

LEMMA TransparentDataKeeps ==
    ASSUME NEW q, Run(q), NEW o, o.text \in Seq(STRING)
    PROVE  RunKeeps(q, TransparentData(q, o))
<1> DEFINE n == Len(o.text)
           written == [a \in (q.addr .. q.addr + n - 1) \cap (0 .. Size(q.p.s) - 1) |->
                        o.text[a - q.addr + 1]]
           t == [q.p.s EXCEPT !.buf = Over(written, @)]
           addr == q.addr + n
<1>1. addr \in Nat
  BY DEF Run
<1>2. Keeps(q.p.s, t)
  BY CellsKeep DEF Run, Parser
<1>3. TransparentData(q, o) = [q EXCEPT !.p.s = t, !.addr = addr]
  BY DEF TransparentData, Run, Parser, Screen, ScreenParts
<1> HIDE DEF t, addr
<1>4. RunKeeps(q, [q EXCEPT !.p.s = t, !.addr = addr])
  BY <1>1, <1>2, RunGoesOn
<1> QED
  BY <1>3, <1>4

LEMMA ClearStaleKeeps ==
    ASSUME NEW p, Parser(p), NEW t, Keeps(p.s, t)
    PROVE  /\ Parser(ClearStaleFieldsOnce([p EXCEPT !.s = t]))
           /\ HoldsOn(p.s, ClearStaleFieldsOnce([p EXCEPT !.s = t]).s)
<1> DEFINE r == [p EXCEPT !.s = t]
           c == [r.s EXCEPT !.fields = <<>>]
<1>1. Parser(r) /\ r.s = t
  BY DEF Parser, Keeps
<1>2. Keeps(r.s, c)
  <2>1. <<>> \in Seq(FieldType)
    OBVIOUS
  <2> HIDE DEF r
  <2> QED
    BY <1>1, <2>1, FieldsKeep DEF Parser
<1>3. CASE ~p.clearStale
  <2>1. ClearStaleFieldsOnce(r) = r
    BY <1>3 DEF ClearStaleFieldsOnce, Parser
  <2> QED
    BY <1>1, <2>1 DEF Keeps
<1>4. CASE p.clearStale
  <2>1. ClearStaleFieldsOnce(r) = [r EXCEPT !.s = c, !.clearStale = FALSE]
    BY <1>4 DEF ClearStaleFieldsOnce, Parser
  <2> HIDE DEF c
  <2>2. Parser([r EXCEPT !.s = c, !.clearStale = FALSE])
    <3> HIDE DEF r
    <3> QED
      BY <1>1, <1>2 DEF Parser, Keeps
  <2>3. [r EXCEPT !.s = c, !.clearStale = FALSE].s = c
    BY <1>1 DEF Parser
  <2>4. HoldsOn(p.s, c)
    BY <1>1, <1>2 DEF Keeps, HoldsOn
  <2> QED
    BY <2>1, <2>2, <2>3, <2>4
<1> QED
  BY <1>3, <1>4

LEMMA FieldsOf ==
    ASSUME NEW fields \in Seq(FieldType), NEW f \in FieldType
    PROVE  /\ Append(fields, f) \in Seq(FieldType)
           /\ \A i \in DOMAIN fields :
                 /\ fields[i] \in FieldType
                 /\ [fields EXCEPT ![i] = f] \in Seq(FieldType)
<1>1. Append(fields, f) \in Seq(FieldType)
  OBVIOUS
<1>2. ASSUME NEW i \in DOMAIN fields
      PROVE  fields[i] \in FieldType /\ [fields EXCEPT ![i] = f] \in Seq(FieldType)
  BY ExceptSeq
<1> QED
  BY <1>1, <1>2

LEMMA NewParserKeeps ==
    ASSUME NEW q, Run(q), NEW p, Parser(p), HoldsOn(q.p.s, p.s), NEW addr \in Nat
    PROVE  RunKeeps(q, [q EXCEPT !.p = p, !.addr = addr])
BY DEF RunKeeps, Run

\* New fields, then cells, in a parser that keeps the keyboard
LEMMA NewFieldsKeep ==
    ASSUME NEW p, Parser(p), NEW fields \in Seq(FieldType)
    PROVE  /\ Parser([p EXCEPT !.s.fields = fields])
           /\ HoldsOn(p.s, [p EXCEPT !.s.fields = fields].s)
<1> DEFINE t == [p.s EXCEPT !.fields = fields]
<1>1. Keeps(p.s, t)
  BY FieldsKeep DEF Parser
<1>2. [p EXCEPT !.s.fields = fields] = [p EXCEPT !.s = t]
  BY DEF Parser
<1> HIDE DEF t
<1>3. Parser([p EXCEPT !.s = t]) /\ [p EXCEPT !.s = t].s = t
  BY <1>1 DEF Parser, Keeps
<1> QED
  BY <1>1, <1>2, <1>3 DEF Keeps

LEMMA NewScreenKeeps ==
    ASSUME NEW p, Parser(p), NEW t, Keeps(p.s, t)
    PROVE  /\ Parser([p EXCEPT !.s = t])
           /\ HoldsOn(p.s, [p EXCEPT !.s = t].s)
BY DEF Parser, Keeps

LEMMA FieldAttributeKeeps ==
    ASSUME NEW q, Run(q), NEW o, o.attr \in Attributes
    PROVE  RunKeeps(q, FieldAttribute(q, o))
<1> DEFINE s == SetCharAt(q.p.s, q.addr, Blank)
           at == ToRowCol(s, q.addr + 1)
           f == [row |-> at.row, col |-> at.col, len |-> 0, input |-> o.attr = "hidden",
                 mdt |-> FALSE, synthetic |-> TRUE, attr |-> o.attr, cont |-> "no",
                 reseq |-> 0, fer |-> FALSE, signed |-> FALSE, adjust |-> "no"]
           cleared == ClearStaleFieldsOnce([q.p EXCEPT !.s = s])
           fields == Append(cleared.s.fields, f)
           p == [cleared EXCEPT !.s.fields = fields]
           addr == q.addr + 1
<1>1. Keeps(q.p.s, s) /\ Parser(q.p) /\ addr \in Nat
  BY SetCharAtKeeps DEF Run, Parser
<1>2. at \in Spots
  <2> HIDE DEF s
  <2>1. Sized(s) /\ q.addr + 1 \in Nat
    BY <1>1 DEF Keeps, Screen
  <2> QED
    BY <2>1, ToRowColIsSpot
<1>3. f \in FieldType
  <2>1. at.row \in Nat /\ at.col \in Nat
    BY <1>2 DEF Spots
  <2> HIDE DEF at
  <2> QED
    BY <2>1 DEF FieldType, Continuations, Adjustments
<1>4. Parser(cleared) /\ HoldsOn(q.p.s, cleared.s)
  <2> HIDE DEF s
  <2> QED
    BY <1>1, ClearStaleKeeps
<1> HIDE DEF cleared, f
<1>5. fields \in Seq(FieldType)
  BY <1>3, <1>4 DEF Parser, Screen
<1>6. FieldAttribute(q, o) = [q EXCEPT !.p = p, !.addr = addr]
  BY DEF FieldAttribute, cleared, f
<1> HIDE DEF fields
<1>7. Parser(p) /\ HoldsOn(cleared.s, p.s)
  BY <1>4, <1>5, NewFieldsKeep
<1> HIDE DEF p, addr
<1>8. HoldsOn(q.p.s, p.s)
  BY <1>4, <1>7 DEF HoldsOn
<1>9. RunKeeps(q, [q EXCEPT !.p = p, !.addr = addr])
  BY <1>1, <1>7, <1>8, NewParserKeeps
<1> QED
  BY <1>6, <1>9

LEMMA RedefinedType ==
    ASSUME NEW old \in FieldType, NEW f \in FieldType
    PROVE  Redefined(old, f) \in FieldType
BY DEF Redefined, FieldType

LEMMA StartFieldKeeps ==
    ASSUME NEW q, Run(q), NEW o \in Orders, o.o = "SF"
    PROVE  RunKeeps(q, StartField(q, o))
<1> DEFINE s == SetCharAt(q.p.s, q.addr, Blank)
           at == ToRowCol(s, q.addr + 1)
           f == [row |-> at.row, col |-> at.col, len |-> o.len, input |-> o.ffw /\ o.input,
                 mdt |-> o.ffw /\ o.mdt, synthetic |-> FALSE, attr |-> o.attr,
                 cont |-> o.cont, reseq |-> o.reseq, fer |-> o.fer,
                 signed |-> o.signed, adjust |-> o.adjust]
           cleared == ClearStaleFieldsOnce([q.p EXCEPT !.s = s])
           there == {i \in DOMAIN cleared.s.fields : Place(cleared.s.fields[i]) = at}
           changed == [cleared.s.fields EXCEPT ![Min(there)] =
                           Redefined(cleared.s.fields[Min(there)], f)]
           fields == IF o.ffw /\ there # {} THEN changed ELSE Append(cleared.s.fields, f)
           defined == [cleared EXCEPT !.s.fields = fields]
           end == Start(s, f) + o.len
           ended == IF o.ffw /\ o.len > 0
                    THEN SetCharAt(defined.s, IF end >= Size(s) THEN end - Size(s) ELSE end, Blank)
                    ELSE defined.s
           p == [defined EXCEPT !.s = ended]
           addr == q.addr + 1
<1>1. Keeps(q.p.s, s) /\ Parser(q.p) /\ addr \in Nat
  BY SetCharAtKeeps DEF Run, Parser
<1>2. at \in Spots
  <2> HIDE DEF s
  <2>1. Sized(s) /\ q.addr + 1 \in Nat
    BY <1>1 DEF Keeps, Screen
  <2> QED
    BY <2>1, ToRowColIsSpot
<1>3. f \in FieldType
  <2>1. at.row \in Nat /\ at.col \in Nat
    BY <1>2 DEF Spots
  <2> HIDE DEF at
  <2> QED
    BY <2>1, OrderShapes DEF FieldType
<1>4. Parser(cleared) /\ HoldsOn(q.p.s, cleared.s)
  <2> HIDE DEF s
  <2> QED
    BY <1>1, ClearStaleKeeps
<1>5. fields \in Seq(FieldType)
  <2> HIDE DEF cleared, f, at
  <2>1. cleared.s.fields \in Seq(FieldType)
    BY <1>4 DEF Parser, Screen
  <2>2. CASE o.ffw /\ there # {}
    <3>1. there \subseteq DOMAIN cleared.s.fields /\ there \subseteq Nat
      BY <2>1
    <3>2. Min(there) \in DOMAIN cleared.s.fields
      <4> HIDE DEF there
      <4> QED
        BY <2>2, <3>1, MinOfNumbers
    <3> HIDE DEF there
    <3>3. cleared.s.fields[Min(there)] \in FieldType
      BY <2>1, <3>2, FieldsOf, <1>3
    <3>4. Redefined(cleared.s.fields[Min(there)], f) \in FieldType
      BY <1>3, <3>3, RedefinedType
    <3>5. changed \in Seq(FieldType)
      BY <2>1, <3>2, <3>4, FieldsOf
    <3> QED
      BY <2>2, <3>5
  <2>3. CASE ~(o.ffw /\ there # {})
    BY <1>3, <2>1, <2>3, FieldsOf
  <2> QED
    BY <2>2, <2>3
<1>6. Parser(defined) /\ HoldsOn(cleared.s, defined.s)
  <2> HIDE DEF cleared, fields
  <2> QED
    BY <1>4, <1>5, NewFieldsKeep
<1>7. Keeps(defined.s, ended)
  <2> HIDE DEF defined, end
  <2>1. Screen(defined.s)
    BY <1>6 DEF Parser
  <2>2. Keeps(defined.s, defined.s)
    BY <2>1 DEF Keeps, HoldsOn
  <2> QED
    BY <2>1, <2>2, SetCharAtKeeps
<1>8. Parser(p) /\ HoldsOn(defined.s, p.s)
  <2> HIDE DEF defined, ended
  <2> QED
    BY <1>6, <1>7, NewScreenKeeps
<1>9. StartField(q, o) = [q EXCEPT !.p = p, !.addr = addr]
  <2> DEFINE written == IF o.ffw /\ there # {}
                        THEN [cleared EXCEPT !.s.fields[Min(there)] = Redefined(@, f)]
                        ELSE [cleared EXCEPT !.s.fields = Append(@, f)]
             closed == IF o.ffw /\ o.len > 0
                       THEN SetCharAt(written.s, IF end >= Size(s) THEN end - Size(s) ELSE end,
                                      Blank)
                       ELSE written.s
  <2>1. written = defined
    <3> HIDE DEF cleared, there, f
    <3> QED
      OBVIOUS
  <2>2. StartField(q, o) = [q EXCEPT !.p = [written EXCEPT !.s = closed], !.addr = addr]
    BY DEF StartField
  <2> HIDE DEF written, defined, end
  <2> QED
    BY <2>1, <2>2
<1> HIDE DEF p, addr, cleared, defined
<1>10. HoldsOn(q.p.s, p.s)
  BY <1>4, <1>6, <1>8 DEF HoldsOn
<1>11. RunKeeps(q, [q EXCEPT !.p = p, !.addr = addr])
  BY <1>1, <1>8, <1>10, NewParserKeeps
<1> QED
  BY <1>9, <1>11

LEMMA TrackWindowKeeps ==
    ASSUME NEW s, Screen(s), NEW w
    PROVE  /\ Keeps(s, TrackWindow(s, w)) /\ TrackWindow(s, w).rows = s.rows
           /\ TrackWindow(s, w).windows # <<>>
<1>1. Keeps(s, s) /\ IsWindows(s.windows)
  BY DEF Keeps, HoldsOn, Screen, Placed
<1> DEFINE all == Append(s.windows, w)
           windows == IF Len(all) > MaxWindows THEN Tail(all) ELSE all
<1>2. \/ TrackWindow(s, w) = s /\ \E i : i \in DOMAIN s.windows
      \/ TrackWindow(s, w) = [s EXCEPT !.windows = windows]
  BY DEF TrackWindow
<1>3. s.windows = <<>> => ~\E i : i \in DOMAIN s.windows
  OBVIOUS
<1>4. IsWindows(windows) /\ windows # <<>>
  BY <1>1, WindowsAndOne
<1> HIDE DEF windows
<1> DEFINE t == [s EXCEPT !.windows = windows]
<1>5. Screen(t) /\ HoldsOn(s, t) /\ t.windows = windows
  BY <1>4, WindowsKeep
<1>6. t.rows = s.rows
  BY DEF Screen, ScreenParts
<1> HIDE DEF t
<1>7. Keeps(s, t)
  BY <1>4, <1>5 DEF Keeps
<1> QED
  BY <1>1, <1>2, <1>3, <1>4, <1>5, <1>6, <1>7 DEF t

LEMMA BorderKeeps ==
    ASSUME NEW s, Screen(s), NEW c, NEW height, NEW width
    PROVE  Keeps(s, RenderWindowBorder(s, c, height, width))
<1> DEFINE bottom == c.row + height + 1
           right == c.col + width + 1
           sides == Rectangle(s, c.row + 1, c.col, bottom, c.col)
                        \cup Rectangle(s, c.row + 1, right, bottom, right)
           edges == Rectangle(s, c.row, c.col, c.row, right)
                        \cup Rectangle(s, bottom, c.col + 1, bottom, right - 1)
           t == Fill(s, sides, ":")
           u == Fill(t, edges, ".")
<1>1. RenderWindowBorder(s, c, height, width) = u
  BY DEF RenderWindowBorder
<1> HIDE DEF sides, edges
<1>2. Keeps(s, t)
  BY FillKeeps
<1> HIDE DEF t
<1>3. Keeps(t, u)
  BY <1>2, FillKeeps DEF Keeps
<1> HIDE DEF u
<1>4. Keeps(s, u)
  BY <1>2, <1>3, KeepsOn
<1> QED
  BY <1>1, <1>4

LEMMA CreateWindowKeeps ==
    ASSUME NEW q, Run(q), NEW o
    PROVE  RunKeeps(q, CreateWindow(q, o))
<1> DEFINE s == q.p.s
           c == s.cursor
           tracked == TrackWindow(s, [row |-> c.row, col |-> c.col,
                                      height |-> o.depth, width |-> o.width])
           framed == RenderWindowBorder(tracked, c, o.depth, o.width)
           t == EraseRegion(framed, c.row + 1, c.col + 1, c.row + o.depth, c.col + o.width)
           win == [row |-> c.row + 1, col |-> c.col + 1]
<1>1. Screen(s) /\ c \in Spots
  BY DEF Run, Parser, Screen, Placed
<1>2. win \in Spots
  <2>1. c.row + 1 \in Nat /\ c.col + 1 \in Nat
    BY <1>1 DEF Spots
  <2> QED
    BY <2>1, SpotOf
<1>3. CreateWindow(q, o) = [q EXCEPT !.p.s = t, !.p.win = win]
  BY DEF CreateWindow
<1> HIDE DEF c, win
<1>4. Keeps(s, tracked) /\ tracked.windows # <<>>
  <2> HIDE DEF s
  <2> QED
    BY <1>1, TrackWindowKeeps
<1> HIDE DEF tracked
<1>5. Keeps(tracked, framed)
  BY <1>4, BorderKeeps DEF Keeps
<1> HIDE DEF framed
<1>6. Keeps(framed, t)
  BY <1>5, FillKeeps DEF Keeps, EraseRegion, FillOnScreen
<1> HIDE DEF t
<1>7. Keeps(s, t) /\ t.windows # <<>>
  <2>1. Keeps(s, t)
    BY <1>4, <1>5, <1>6, KeepsOn
  <2>2. t.windows # <<>>
    BY <1>4, <1>5, <1>6 DEF Keeps
  <2> QED
    BY <2>1, <2>2
<1>8. RunKeeps(q, [q EXCEPT !.p.s = t, !.p.win = win])
  BY <1>2, <1>7 DEF RunKeeps, Run, Parser, Keeps
<1> QED
  BY <1>3, <1>8

\* What only changes the windows, the selection fields and the scroll bars
LEMMA GuiKeeps ==
    ASSUME NEW q, Run(q), NEW w, IsWindows(w), NEW sel, NEW bars
    PROVE  /\ RunKeeps(q, [q EXCEPT !.p.s = [q.p.s EXCEPT !.windows = w, !.scrollbars = bars],
                                    !.p.win = Home])
           /\ RunKeeps(q, [q EXCEPT !.p.s = [q.p.s EXCEPT !.windows = w, !.selections = sel,
                                                          !.scrollbars = bars],
                                    !.p.win = Home])
           /\ RunKeeps(q, [q EXCEPT !.p.s.selections = sel])
           /\ RunKeeps(q, [q EXCEPT !.p.s.scrollbars = bars])
<1>1. Home \in Spots
  BY SpotOf DEF Home
<1>2. \A t : Screen(t) /\ HoldsOn(q.p.s, t) => RunKeeps(q, [q EXCEPT !.p.s = t, !.p.win = Home])
  BY <1>1 DEF RunKeeps, Run, Parser
<1>2a. \A t : Keeps(q.p.s, t) => RunKeeps(q, [q EXCEPT !.p.s = t])
  BY DEF RunKeeps, Run, Parser, Keeps
<1>3. Screen(q.p.s) /\ DOMAIN q = {"p", "addr", "ic", "cut"}
      /\ DOMAIN q.p = {"s", "win", "clearStale", "query"}
  BY DEF Run, Parser
<1> DEFINE t1 == [q.p.s EXCEPT !.windows = w, !.scrollbars = bars]
           t2 == [q.p.s EXCEPT !.windows = w, !.selections = sel, !.scrollbars = bars]
           t3 == [q.p.s EXCEPT !.selections = sel]
           t4 == [q.p.s EXCEPT !.scrollbars = bars]
<1>4. Screen(t1) /\ HoldsOn(q.p.s, t1)
  BY <1>3 DEF HoldsOn, Screen, Sized, Placed, ScreenParts
<1>5. Screen(t2) /\ HoldsOn(q.p.s, t2)
  BY <1>3 DEF HoldsOn, Screen, Sized, Placed, ScreenParts
<1>6. Keeps(q.p.s, t3)
  BY <1>3 DEF Keeps, HoldsOn, Screen, Sized, Placed, ScreenParts
<1>7. Keeps(q.p.s, t4)
  BY <1>3 DEF Keeps, HoldsOn, Screen, Sized, Placed, ScreenParts
<1>8. RunKeeps(q, [q EXCEPT !.p.s = t1, !.p.win = Home])
  <2> HIDE DEF t1
  <2> QED
    BY <1>2, <1>4
<1>9. RunKeeps(q, [q EXCEPT !.p.s = t2, !.p.win = Home])
  <2> HIDE DEF t2
  <2> QED
    BY <1>2, <1>5
<1>10. RunKeeps(q, [q EXCEPT !.p.s.selections = sel])
  <2>1. [q EXCEPT !.p.s.selections = sel] = [q EXCEPT !.p.s = t3]
    BY <1>3 DEF Screen, ScreenParts
  <2> HIDE DEF t3
  <2> QED
    BY <1>2a, <1>6, <2>1
<1>11. RunKeeps(q, [q EXCEPT !.p.s.scrollbars = bars])
  <2>1. [q EXCEPT !.p.s.scrollbars = bars] = [q EXCEPT !.p.s = t4]
    BY <1>3 DEF Screen, ScreenParts
  <2> HIDE DEF t4
  <2> QED
    BY <1>2a, <1>7, <2>1
<1> QED
  BY <1>8, <1>9, <1>10, <1>11

LEMMA RemovedWindow ==
    ASSUME NEW q, Run(q)
    PROVE  \E w : /\ IsWindows(w)
                  /\ RemoveWindow(q) = [q EXCEPT !.p.s = [q.p.s EXCEPT !.windows = w,
                                                                       !.scrollbars = {}],
                                                !.p.win = Home]
<1> DEFINE s == q.p.s
           holding == {i \in DOMAIN s.windows :
                       LET w == s.windows[i]
                       IN  /\ s.cursor.row \in w.row .. w.row + w.height
                           /\ s.cursor.col \in w.col .. w.col + w.width}
           gone == IF holding # {} THEN Min(holding) ELSE Len(s.windows)
           left == IF s.windows = <<>> THEN s.windows ELSE RemoveAt(s.windows, gone)
<1>1. RemoveWindow(q) = [q EXCEPT !.p.s = [s EXCEPT !.windows = left, !.scrollbars = {}],
                                  !.p.win = Home]
  BY DEF RemoveWindow
<1>2. IsWindows(s.windows)
  BY DEF Run, Parser, Screen, Placed
<1> HIDE DEF s
<1>3. IsWindows(left)
  <2>1. PICK W : s.windows \in Seq(W)
    BY <1>2 DEF IsWindows
  <2>2. holding \subseteq DOMAIN s.windows /\ holding \subseteq Nat
    BY <2>1
  <2> HIDE DEF holding
  <2>3. CASE s.windows = <<>>
    BY <1>2, <2>3
  <2>4. CASE s.windows # <<>>
    <3>1. Len(s.windows) \in DOMAIN s.windows
      BY <2>1, <2>4
    <3>2. gone \in DOMAIN s.windows
      BY <2>2, <3>1, MinOfNumbers
    <3> HIDE DEF gone
    <3> QED
      BY <1>2, <2>4, <3>2, WindowsButOne
  <2> QED
    BY <2>3, <2>4
<1> HIDE DEF left
<1> QED
  BY <1>1, <1>3 DEF s

LEMMA ParseOrderKeeps ==
    ASSUME NEW q, Run(q), NEW o \in Orders
    PROVE  RunKeeps(q, ParseOrder(q, o))
<1>1. CASE q.cut
  <2>1. ParseOrder(q, o) = q
    BY <1>1 DEF ParseOrder
  <2> QED
    BY <2>1, RunKeepsSame
<1>2. CASE ~q.cut /\ o.o = "CUT"
  <2>1. ParseOrder(q, o) = [q EXCEPT !.cut = TRUE]
    BY <1>2 DEF ParseOrder
  <2>2. RunKeeps(q, [q EXCEPT !.cut = TRUE])
    BY DEF RunKeeps, Run, HoldsOn
  <2> QED
    BY <2>1, <2>2
<1>3. CASE ~q.cut /\ o.o = "SBA"
  <2>1. ParseOrder(q, o) = SetBufferAddress(q, o)
    BY <1>3 DEF ParseOrder
  <2> QED
    BY <1>3, <2>1, OrderShapes, SetBufferAddressKeeps
<1>4. CASE ~q.cut /\ o.o = "IC"
  <2>1. ParseOrder(q, o) = InsertCursor(q, o)
    BY <1>4 DEF ParseOrder
  <2> QED
    BY <1>4, <2>1, OrderShapes, InsertCursorKeeps
<1>5. CASE ~q.cut /\ o.o = "MC"
  <2>1. ParseOrder(q, o) = MoveCursor(q, o)
    BY <1>5 DEF ParseOrder
  <2> QED
    BY <1>5, <2>1, OrderShapes, InsertCursorKeeps
<1>6. CASE ~q.cut /\ o.o = "RA"
  <2>1. ParseOrder(q, o) = RepeatToAddress(q, o)
    BY <1>6 DEF ParseOrder
  <2> QED
    BY <1>6, <2>1, OrderShapes, RepeatToAddressKeeps
<1>7. CASE ~q.cut /\ o.o = "EA"
  <2>1. ParseOrder(q, o) = EraseToAddress(q, o)
    BY <1>7 DEF ParseOrder
  <2> QED
    BY <1>7, <2>1, OrderShapes, EraseToAddressKeeps
<1>8. CASE ~q.cut /\ o.o = "SOH"
  <2>1. ParseOrder(q, o) = StartOfHeader(q, o)
    BY <1>8 DEF ParseOrder
  <2> QED
    BY <2>1, StartOfHeaderKeeps
<1>9. CASE ~q.cut /\ o.o = "TD"
  <2>1. ParseOrder(q, o) = TransparentData(q, o)
    BY <1>9 DEF ParseOrder
  <2> QED
    BY <1>9, <2>1, OrderShapes, TransparentDataKeeps
<1>10. CASE ~q.cut /\ o.o = "TEXT"
  <2>1. ParseOrder(q, o) = FoldLeft(WriteChar, q, o.text)
    BY <1>10 DEF ParseOrder
  <2>2. o.text \in Seq(STRING)
    BY <1>10, OrderShapes
  <2>3. RunKeeps(q, FoldLeft(WriteChar, q, o.text))
    BY <2>2, CharsKeep
  <2> QED
    BY <2>1, <2>3
<1>11. CASE ~q.cut /\ o.o = "ATTR"
  <2>1. ParseOrder(q, o) = FieldAttribute(q, o)
    BY <1>11 DEF ParseOrder
  <2> QED
    BY <1>11, <2>1, OrderShapes, FieldAttributeKeeps
<1>12. CASE ~q.cut /\ o.o = "SF"
  <2>1. ParseOrder(q, o) = StartField(q, o)
    BY <1>12 DEF ParseOrder
  <2> QED
    BY <1>12, <2>1, StartFieldKeeps
<1>13. CASE ~q.cut /\ o.o = "WINDOW"
  <2>1. ParseOrder(q, o) = CreateWindow(q, o)
    BY <1>13 DEF ParseOrder
  <2> QED
    BY <2>1, CreateWindowKeeps
<1>14. CASE ~q.cut /\ o.o = "SELECTION"
  <2> DEFINE more == q.p.s.selections \cup {q.p.s.cursor}
  <2>1. ParseOrder(q, o) = [q EXCEPT !.p.s.selections = more]
    BY <1>14 DEF ParseOrder, DefineSelectionField
  <2> HIDE DEF more
  <2>2. RunKeeps(q, [q EXCEPT !.p.s.selections = more])
    BY GuiKeeps, NoWindows
  <2> QED
    BY <2>1, <2>2
<1>15. CASE ~q.cut /\ o.o = "SCROLLBAR"
  <2> DEFINE more == q.p.s.scrollbars \cup {q.p.s.cursor}
  <2>1. ParseOrder(q, o) = [q EXCEPT !.p.s.scrollbars = more]
    BY <1>15 DEF ParseOrder, DefineScrollbar
  <2> HIDE DEF more
  <2>2. RunKeeps(q, [q EXCEPT !.p.s.scrollbars = more])
    BY GuiKeeps, NoWindows
  <2> QED
    BY <2>1, <2>2
<1>16. CASE ~q.cut /\ o.o = "REM_WINDOW"
  <2>1. ParseOrder(q, o) = RemoveWindow(q)
    BY <1>16 DEF ParseOrder
  <2>2. PICK w : /\ IsWindows(w)
                 /\ RemoveWindow(q) = [q EXCEPT !.p.s = [q.p.s EXCEPT !.windows = w,
                                                                      !.scrollbars = {}],
                                               !.p.win = Home]
    BY RemovedWindow
  <2>3. RunKeeps(q, [q EXCEPT !.p.s = [q.p.s EXCEPT !.windows = w, !.scrollbars = {}],
                              !.p.win = Home])
    BY <2>2, GuiKeeps
  <2> QED
    BY <2>1, <2>2, <2>3
<1>17. CASE ~q.cut /\ o.o = "REM_SELECTION"
  <2>1. ParseOrder(q, o) = [q EXCEPT !.p.s.selections = {}]
    BY <1>17 DEF ParseOrder, RemoveSelectionFields
  <2>2. RunKeeps(q, [q EXCEPT !.p.s.selections = {}])
    BY GuiKeeps, NoWindows
  <2> QED
    BY <2>1, <2>2
<1>18. CASE ~q.cut /\ o.o = "REM_SCROLLBAR"
  <2>1. ParseOrder(q, o) = [q EXCEPT !.p.s.scrollbars = {}]
    BY <1>18 DEF ParseOrder, RemoveScrollbars
  <2>2. RunKeeps(q, [q EXCEPT !.p.s.scrollbars = {}])
    BY GuiKeeps, NoWindows
  <2> QED
    BY <2>1, <2>2
<1>19. CASE ~q.cut /\ o.o = "REM_ALL"
  <2>1. ParseOrder(q, o) = RemoveAllGui(q)
    BY <1>19 DEF ParseOrder
  <2>2. RunKeeps(q, [q EXCEPT !.p.s = [q.p.s EXCEPT !.windows = <<>>, !.selections = {},
                                                    !.scrollbars = {}],
                              !.p.win = Home])
    BY GuiKeeps, NoWindows
  <2> QED
    BY <2>1, <2>2 DEF RemoveAllGui
<1>20. \/ o.o \in {"SBA", "IC", "MC", "EA", "RA", "SOH"}
       \/ o.o \in {"TD", "TEXT", "ATTR", "SF", "WINDOW", "CUT"}
       \/ o.o \in {"SELECTION", "SCROLLBAR", "REM_WINDOW",
                  "REM_SELECTION", "REM_SCROLLBAR", "REM_ALL"}
  BY OrderShapes
<1>21. CASE o.o \in {"SBA", "IC", "MC", "EA", "RA", "SOH"}
  BY <1>1, <1>3, <1>4, <1>5, <1>6, <1>7, <1>8, <1>21
<1>22. CASE o.o \in {"TD", "TEXT", "ATTR", "SF", "WINDOW", "CUT"}
  BY <1>1, <1>2, <1>9, <1>10, <1>11, <1>12, <1>13, <1>22
<1>23. CASE o.o \in {"SELECTION", "SCROLLBAR", "REM_WINDOW",
                     "REM_SELECTION", "REM_SCROLLBAR", "REM_ALL"}
  BY <1>1, <1>14, <1>15, <1>16, <1>17, <1>18, <1>19, <1>23
<1> QED
  BY <1>20, <1>21, <1>22, <1>23

LEMMA OrdersKeep ==
    ASSUME NEW q, Run(q), NEW orders \in Seq(Orders)
    PROVE  RunKeeps(q, FoldLeft(ParseOrder, q, orders))
<1> DEFINE kind == "order"
<1>1. Len(orders) \in Nat /\ DOMAIN orders = 1 .. Len(orders)
  OBVIOUS
<1>2. \E g : Walk(kind, q, orders, g)
  <2>1. Len(orders) \in Nat
    BY <1>1
  <2> HIDE DEF kind
  <2> QED
    BY <2>1, StepByStep
<1>3. PICK g : /\ g[0] = q
               /\ \A k \in 1 .. Len(orders) : g[k] = Step(kind, g[k - 1], orders[k])
               /\ Folded(kind, q, orders) = g[Len(orders)]
  BY <1>2 DEF Walk
<1> DEFINE P == {k \in 0 .. Len(orders) : RunKeeps(q, g[k])}
<1>4. 0 \in P
  BY <1>1, <1>3, RunKeepsSame
<1>5. \A k \in 1 .. Len(orders) : k - 1 \in P => k \in P
  <2> SUFFICES ASSUME NEW k \in 1 .. Len(orders), k - 1 \in P PROVE k \in P
    OBVIOUS
  <2>1. g[k] = ParseOrder(g[k - 1], orders[k]) /\ orders[k] \in Orders
    BY <1>3 DEF Step
  <2>2. RunKeeps(q, g[k - 1])
    OBVIOUS
  <2>3. RunKeeps(g[k - 1], g[k])
    BY <2>1, <2>2, ParseOrderKeeps DEF RunKeeps
  <2> QED
    BY <2>2, <2>3, RunKeepsOn
<1>6. \A k \in 0 .. Len(orders) : k \in P
  <2> HIDE DEF P
  <2> QED
    BY <1>1, <1>4, <1>5, UpTo
<1>7. RunKeeps(q, g[Len(orders)])
  BY <1>1, <1>6
<1> QED
  BY <1>1, <1>3, <1>7, FoldOfOrders

-----------------------------------------------------------------------------
(* Commands.                                                               *)

LEMMA ChangedFields ==
    ASSUME NEW fields \in Seq(FieldType), NEW changed, DOMAIN changed = DOMAIN fields,
           changed = [i \in DOMAIN fields |-> changed[i]],
           \A i \in DOMAIN fields : changed[i] \in FieldType
    PROVE  changed \in Seq(FieldType)
<1>1. Len(fields) \in Nat /\ DOMAIN fields = 1 .. Len(fields)
  OBVIOUS
<1>2. changed \in [1 .. Len(fields) -> FieldType]
  BY <1>1
<1> QED
  BY <1>1, <1>2, SeqDef

LEMMA FieldOf ==
    ASSUME NEW fields \in Seq(FieldType), NEW i \in DOMAIN fields
    PROVE  fields[i] \in FieldType
OBVIOUS

LEMMA HandleCC1Keeps ==
    ASSUME NEW p, Parser(p), NEW cc1
    PROVE  Parser(HandleCC1(p, cc1)) /\ HoldsOn(p.s, HandleCC1(p, cc1).s)
           /\ HandleCC1(p, cc1).s.cursor = p.s.cursor
<1> DEFINE s == p.s
           nulled == UNION {Cells(s, s.fields[i]) : i \in {j \in DOMAIN s.fields : Nulls(cc1, s.fields[j])}}
           filled == Fill(s, nulled, Blank)
           fields == [i \in DOMAIN s.fields |->
                        [s.fields[i] EXCEPT !.mdt = @ /\ ~ResetsMdt(cc1, s.fields[i])]]
           locked == filled.locked \/ cc1 # 0
           t == [filled EXCEPT !.locked = locked, !.fields = fields]
           stale == p.clearStale \/ cc1 \in {2, 3, 5, 6, 7}
<1>1. HandleCC1(p, cc1) = [p EXCEPT !.s = t, !.clearStale = stale]
  BY DEF HandleCC1
<1>2. Screen(s) /\ s.fields \in Seq(FieldType)
  BY DEF Parser, Screen
<1>3. fields \in Seq(FieldType)
  <2> HIDE DEF s
  <2>1. \A i \in DOMAIN s.fields : fields[i] \in FieldType
    <3> TAKE i \in DOMAIN s.fields
    <3>1. s.fields[i] \in FieldType
      BY <1>2, FieldOf
    <3> QED
      BY <3>1 DEF FieldType
  <2>2. DOMAIN fields = DOMAIN s.fields /\ fields = [i \in DOMAIN s.fields |-> fields[i]]
    OBVIOUS
  <2> HIDE DEF fields
  <2> QED
    BY <1>2, <2>1, <2>2, ChangedFields
<1>4. Keeps(s, filled) /\ filled.cursor = s.cursor
  <2>1. Keeps(s, filled)
    <3> HIDE DEF nulled, s
    <3> QED
      BY <1>2, FillKeeps
  <2>2. filled.cursor = s.cursor
    <3> HIDE DEF nulled, s
    <3> QED
      BY <1>2 DEF Fill, Screen, ScreenParts
  <2> QED
    BY <2>1, <2>2
<1> HIDE DEF filled, fields
<1>5. Keeps(filled, t) /\ t.cursor = filled.cursor
  BY <1>3, <1>4 DEF Keeps, HoldsOn, Screen, Sized, Placed, ScreenParts
<1> HIDE DEF t, stale
<1>6. Keeps(s, t) /\ t.cursor = s.cursor
  BY <1>4, <1>5, KeepsOn
<1>7. /\ Parser([p EXCEPT !.s = t, !.clearStale = stale])
      /\ [p EXCEPT !.s = t, !.clearStale = stale].s = t
  BY <1>6 DEF Parser, Keeps
<1> QED
  BY <1>1, <1>6, <1>7 DEF Keeps

LEMMA HandleCC2Keeps ==
    ASSUME NEW p, Parser(p), NEW cc2
    PROVE  /\ Parser(HandleCC2(p, cc2))
           /\ "unlock" \notin cc2 => HoldsOn(p.s, HandleCC2(p, cc2).s)
           /\ HandleCC2(p, cc2).s.cursor = p.s.cursor
<1> DEFINE locked == p.s.locked /\ "unlock" \notin cc2
           t == [p.s EXCEPT !.locked = locked]
<1>1. HandleCC2(p, cc2) = [p EXCEPT !.s = t]
  BY DEF HandleCC2, Parser, Screen, ScreenParts
<1>2. Screen(t) /\ ("unlock" \notin cc2 => HoldsOn(p.s, t)) /\ t.cursor = p.s.cursor
      /\ t.windows = p.s.windows
  BY DEF Parser, HoldsOn, Screen, Sized, Placed, ScreenParts
<1> HIDE DEF t
<1>3. Parser([p EXCEPT !.s = t]) /\ [p EXCEPT !.s = t].s = t
  BY <1>2 DEF Parser
<1> QED
  BY <1>1, <1>2, <1>3

LEMMA SetCursorHomeKeeps ==
    ASSUME NEW s, Screen(s)
    PROVE  Keeps(s, SetCursorHome(s))
<1> DEFINE c == CASE s.pendingInsert # None -> s.pendingInsert
                  [] s.pendingInsert = None /\ InputFields(s) # {} ->
                        Place(s.fields[Min(InputFields(s))])
                  [] OTHER -> Home
<1>1. SetCursorHome(s) = [s EXCEPT !.cursor = c]
  BY DEF SetCursorHome
<1>2. c \in Spots
  <2>1. CASE s.pendingInsert # None
    BY <2>1 DEF Screen, Placed
  <2>2. CASE s.pendingInsert = None /\ InputFields(s) # {}
    <3>1. s.fields \in Seq(FieldType)
      BY DEF Screen
    <3>2. InputFields(s) \subseteq DOMAIN s.fields /\ InputFields(s) \subseteq Nat
      BY <3>1 DEF InputFields
    <3>3. Min(InputFields(s)) \in DOMAIN s.fields
      BY <2>2, <3>2, MinOfNumbers
    <3>4. s.fields[Min(InputFields(s))] \in FieldType
      BY <3>1, <3>3, FieldOf
    <3>5. Place(s.fields[Min(InputFields(s))]) \in Spots
      BY <3>4, SpotOf DEF Place, FieldType
    <3> QED
      BY <2>2, <3>5
  <2>3. CASE s.pendingInsert = None /\ ~(InputFields(s) # {})
    BY <2>3, SpotOf DEF Home
  <2> QED
    BY <2>1, <2>2, <2>3
<1> HIDE DEF c
<1>3. Keeps(s, [s EXCEPT !.cursor = c])
  BY <1>2, CursorKeeps
<1> QED
  BY <1>1, <1>3

LEMMA CursorAfterOrdersKeeps ==
    ASSUME NEW q, Run(q), NEW cc2, NEW restoring, NEW before \in Spots
    PROVE  Keeps(q.p.s, CursorAfterOrders(q, cc2, restoring, before))
<1> DEFINE s == q.p.s
<1>1. Screen(s) /\ Keeps(s, s)
  BY DEF Run, Parser, Keeps, HoldsOn
<1>2. \/ CursorAfterOrders(q, cc2, restoring, before) = s
      \/ /\ q.ic # None
         /\ CursorAfterOrders(q, cc2, restoring, before) = [s EXCEPT !.cursor = q.ic]
      \/ CursorAfterOrders(q, cc2, restoring, before) = SetCursorHome(s)
      \/ CursorAfterOrders(q, cc2, restoring, before) = [s EXCEPT !.cursor = before]
  BY DEF CursorAfterOrders
<1>3. q.ic # None => Keeps(s, [s EXCEPT !.cursor = q.ic])
  <2> HIDE DEF s
  <2>1. q.ic # None => q.ic \in Spots
    BY DEF Run
  <2> QED
    BY <1>1, <2>1, CursorKeeps
<1>4. Keeps(s, [s EXCEPT !.cursor = before])
  <2> HIDE DEF s
  <2> QED
    BY <1>1, CursorKeeps
<1>5. Keeps(s, SetCursorHome(s))
  BY <1>1, SetCursorHomeKeeps
<1> QED
  BY <1>1, <1>2, <1>3, <1>4, <1>5

LEMMA ParseOrdersKeeps ==
    ASSUME NEW p, Parser(p), NEW orders \in Seq(Orders), NEW cc2, NEW restoring
    PROVE  /\ Parser(ParseOrders(p, orders, cc2, restoring))
           /\ HoldsOn(p.s, ParseOrders(p, orders, cc2, restoring).s)
<1> DEFINE q == [p |-> p, addr |-> Offset(p.s, p.s.cursor), ic |-> None, cut |-> FALSE]
           r == FoldLeft(ParseOrder, q, orders)
           t == CursorAfterOrders(r, cc2, restoring, p.s.cursor)
<1>1. p.s.cursor \in Spots /\ Sized(p.s)
  BY DEF Parser, Screen, Placed
<1>2. Offset(p.s, p.s.cursor) \in Nat
  BY <1>1, OffsetIsNumber
<1>3. Run(q) /\ q.p = p
  BY <1>2 DEF Run
<1>4. ParseOrders(p, orders, cc2, restoring) = [r.p EXCEPT !.s = t]
  BY DEF ParseOrders, AfterOrders
<1> HIDE DEF q
<1>5. RunKeeps(q, r)
  BY <1>3, OrdersKeep
<1> HIDE DEF r
<1>6. Keeps(r.p.s, t)
  BY <1>1, <1>5, CursorAfterOrdersKeeps DEF RunKeeps
<1> HIDE DEF t
<1>7. Parser(r.p)
  BY <1>5 DEF RunKeeps, Run
<1>8. Parser([r.p EXCEPT !.s = t]) /\ HoldsOn(r.p.s, [r.p EXCEPT !.s = t].s)
  BY <1>6, <1>7, NewScreenKeeps
<1>9. HoldsOn(p.s, [r.p EXCEPT !.s = t].s)
  BY <1>3, <1>5, <1>8 DEF RunKeeps, HoldsOn
<1> QED
  BY <1>4, <1>8, <1>9

LEMMA CommandShapes ==
    ASSUME NEW c \in Commands
    PROVE  /\ c.c \in {"CLEAR_UNIT", "CLEAR_FORMAT_TABLE", "QUERY", "SKIPPED", "WTD",
                       "ORDERS", "ERROR", "READ", "ROLL"}
           /\ c.c = "CLEAR_UNIT" => c.rows \in Nat \ {0} /\ c.cols \in Nat \ {0}
           /\ c.c \in {"WTD", "ORDERS"} => c.orders \in Seq(Orders)
           /\ c.c = "ERROR" => c.ic \in Spots \cup {None}
BY DEF Commands

LEMMA ClearUnitKeeps ==
    ASSUME NEW p, Parser(p), NEW rows \in Nat \ {0}, NEW cols \in Nat \ {0}
    PROVE  Parser(ClearUnit(p, rows, cols))
<1> DEFINE cells == [a \in 0 .. rows * cols - 1 |-> Blank]
           r == [p.s EXCEPT !.rows = rows, !.cols = cols, !.buf = cells,
                            !.fields = <<>>, !.cursor = Home]
           header == [line |-> 0, attention |-> {}]
           t == [r EXCEPT !.locked = TRUE, !.insert = FALSE, !.pendingInsert = None,
                          !.errorCursor = None, !.windows = <<>>, !.selections = {},
                          !.scrollbars = {}, !.msgLine = None, !.header = header]
<1>1. ClearUnit(p, rows, cols) = [p EXCEPT !.s = t, !.win = Home]
  BY DEF ClearUnit, Resize
<1>2. Home \in Spots /\ <<>> \in Seq(FieldType) /\ Screen(p.s) /\ IsWindows(<<>>)
  BY SpotOf, NoWindows DEF Home, Parser
<1> HIDE DEF cells, header
<1>3. Screen(r)
  BY <1>2 DEF Screen, Sized, Placed, ScreenParts
<1> HIDE DEF r
<1>4. Screen(t)
  BY <1>2, <1>3 DEF Screen, Sized, Placed, ScreenParts
<1> HIDE DEF t
<1>5. Parser([p EXCEPT !.s = t, !.win = Home])
  BY <1>2, <1>4 DEF Parser
<1> QED
  BY <1>1, <1>5

LEMMA ClearFormatTableKeeps ==
    ASSUME NEW p, Parser(p)
    PROVE  Parser(ClearFormatTable(p)) /\ HoldsOn(p.s, ClearFormatTable(p).s)
<1> DEFINE t == [p.s EXCEPT !.fields = <<>>, !.cursor = Home, !.locked = TRUE,
                            !.insert = FALSE]
<1>1. ClearFormatTable(p) = [p EXCEPT !.s = t]
  BY DEF ClearFormatTable
<1>2. Home \in Spots /\ <<>> \in Seq(FieldType) /\ Screen(p.s)
  BY SpotOf DEF Home, Parser
<1>3. Keeps(p.s, t)
  BY <1>2 DEF Keeps, HoldsOn, Screen, Sized, Placed, ScreenParts
<1> HIDE DEF t
<1>4. Parser([p EXCEPT !.s = t]) /\ HoldsOn(p.s, [p EXCEPT !.s = t].s)
  BY <1>3, NewScreenKeeps
<1> QED
  BY <1>1, <1>4

\* Both control characters
LEMMA ControlsKeep ==
    ASSUME NEW p, Parser(p), NEW cc1, NEW cc2
    PROVE  /\ Parser(HandleCC2(HandleCC1(p, cc1), cc2))
           /\ "unlock" \notin cc2 => HoldsOn(p.s, HandleCC2(HandleCC1(p, cc1), cc2).s)
           /\ HandleCC2(HandleCC1(p, cc1), cc2).s.cursor = p.s.cursor
<1> DEFINE q == HandleCC1(p, cc1)
           r == HandleCC2(q, cc2)
<1>1. Parser(q) /\ HoldsOn(p.s, q.s) /\ q.s.cursor = p.s.cursor
  BY HandleCC1Keeps
<1> HIDE DEF q
<1>2. /\ Parser(r)
      /\ "unlock" \notin cc2 => HoldsOn(q.s, r.s)
      /\ r.s.cursor = q.s.cursor
  BY <1>1, HandleCC2Keeps
<1> HIDE DEF r
<1>3. /\ Parser(r)
      /\ "unlock" \notin cc2 => HoldsOn(p.s, r.s)
      /\ r.s.cursor = p.s.cursor
  BY <1>1, <1>2 DEF HoldsOn
<1> QED
  BY <1>3 DEF q, r

LEMMA WriteToDisplayKeeps ==
    ASSUME NEW p, Parser(p), NEW c, c.orders \in Seq(Orders), NEW restoring
    PROVE  /\ Parser(WriteToDisplay(p, c, restoring))
           /\ "unlock" \notin c.cc2 => HoldsOn(p.s, WriteToDisplay(p, c, restoring).s)
<1> DEFINE q == HandleCC2(HandleCC1(p, c.cc1), c.cc2)
           r == ParseOrders(q, c.orders, c.cc2, restoring)
<1>1. WriteToDisplay(p, c, restoring) = r
  BY DEF WriteToDisplay
<1>2. Parser(q) /\ ("unlock" \notin c.cc2 => HoldsOn(p.s, q.s))
  BY ControlsKeep
<1> HIDE DEF q
<1>3. Parser(r) /\ HoldsOn(q.s, r.s)
  BY <1>2, ParseOrdersKeeps
<1> HIDE DEF r
<1> QED
  BY <1>1, <1>2, <1>3 DEF HoldsOn

LEMMA WriteErrorCodeKeeps ==
    ASSUME NEW p, Parser(p), NEW c, c.ic \in Spots \cup {None}
    PROVE  Parser(WriteErrorCode(p, c)) /\ HoldsOn(p.s, WriteErrorCode(p, c).s)
<1> DEFINE r == [p.s EXCEPT !.errorCursor = p.s.cursor]
           line == [row |-> MsgLineRow(r),
                    text |-> [a \in RowCells(r, MsgLineRow(r)) |-> CharAt(r, a)]]
           s == [r EXCEPT !.msgLine = line]
           first == MsgLineRow(s) * s.cols
           text == [a \in (first .. first + Len(c.text) - 1) \cap (0 .. Size(s) - 1) |->
                       c.text[a - first + 1]]
           cells == Over(text, s.buf)
           cursor == IF c.ic # None /\ OnScreen(s, c.ic) THEN c.ic ELSE s.cursor
           t == [s EXCEPT !.buf = cells, !.locked = TRUE, !.cursor = cursor]
<1>1. WriteErrorCode(p, c) = [p EXCEPT !.s = t]
  BY DEF WriteErrorCode, SaveMsgLine
<1>2. Screen(p.s) /\ p.s.cursor \in Spots /\ p.s.cursor # None
  BY SpotIsNoNone DEF Parser, Screen, Placed
<1>3. Screen(r) /\ r.errorCursor # None /\ r.windows = p.s.windows
  BY <1>2 DEF Screen, Sized, Placed, ScreenParts
<1> HIDE DEF r, line
<1>4. Screen(s) /\ s.errorCursor # None /\ s.windows = p.s.windows
  BY <1>3 DEF Screen, Sized, Placed, ScreenParts
<1> HIDE DEF s, cells
<1>5. cursor \in Spots
  BY <1>4 DEF Screen, Placed
<1> HIDE DEF cursor
<1>6. Screen(t) /\ t.errorCursor # None /\ t.locked /\ t.windows = p.s.windows
  BY <1>4, <1>5 DEF Screen, Sized, Placed, ScreenParts
<1> HIDE DEF t
<1>7. Keeps(p.s, t)
  BY <1>6 DEF Keeps, HoldsOn
<1>8. Parser([p EXCEPT !.s = t]) /\ HoldsOn(p.s, [p EXCEPT !.s = t].s)
  BY <1>7, NewScreenKeeps
<1> QED
  BY <1>1, <1>8

LEMMA ReadCommandKeeps ==
    ASSUME NEW p, Parser(p), NEW c
    PROVE  /\ Parser(ReadCommand(p, c))
           /\ "unlock" \notin c.cc2 => HoldsOn(p.s, ReadCommand(p, c).s)
<1> DEFINE q == HandleCC2(HandleCC1(p, c.cc1), c.cc2)
           locked == q.s.locked /\ q.s.errorCursor # None
           op == c.op
           t == [q.s EXCEPT !.locked = locked, !.readOp = op]
           r == [q EXCEPT !.s.locked = locked, !.s.readOp = op]
<1>1. ReadCommand(p, c) = r
  BY DEF ReadCommand
<1>2. Parser(q) /\ ("unlock" \notin c.cc2 => HoldsOn(p.s, q.s))
  BY ControlsKeep
<1> HIDE DEF q, op
<1>3. Keeps(q.s, t)
  BY <1>2 DEF Parser, Keeps, HoldsOn, Screen, Sized, Placed, ScreenParts
<1>4. r = [q EXCEPT !.s = t]
  BY <1>2 DEF Parser, Screen, ScreenParts
<1> HIDE DEF t, r
<1>5. Parser([q EXCEPT !.s = t]) /\ HoldsOn(q.s, [q EXCEPT !.s = t].s)
  BY <1>2, <1>3, NewScreenKeeps
<1> QED
  BY <1>1, <1>2, <1>4, <1>5 DEF HoldsOn

LEMMA RollKeeps ==
    ASSUME NEW p, Parser(p), NEW c
    PROVE  Parser(Roll(p, c)) /\ HoldsOn(p.s, Roll(p, c).s)
<1>1. CASE 0 <= c.top /\ c.top <= c.bot /\ c.bot < p.s.rows
  <2> DEFINE s == p.s
             rolled == [a \in {b \in 0 .. Size(s) - 1 : b \div s.cols \in c.top .. c.bot} |->
                    LET from == (a \div s.cols) - c.lines
                    IN  IF from \in c.top .. c.bot THEN s.buf[a - c.lines * s.cols]
                        ELSE Blank]
             cells == Over(rolled, p.s.buf)
             t == [p.s EXCEPT !.buf = cells]
  <2>1. Roll(p, c) = [p EXCEPT !.s.buf = cells]
    BY <1>1 DEF Roll
  <2> HIDE DEF cells
  <2>2. [p EXCEPT !.s.buf = cells] = [p EXCEPT !.s = t]
    BY DEF Parser, Screen, ScreenParts
  <2>3. Keeps(p.s, t)
    BY CellsKeep DEF Parser
  <2> HIDE DEF t
  <2>4. Parser([p EXCEPT !.s = t]) /\ HoldsOn(p.s, [p EXCEPT !.s = t].s)
    BY <2>3, NewScreenKeeps
  <2> QED
    BY <2>1, <2>2, <2>4
<1>2. CASE ~(0 <= c.top /\ c.top <= c.bot /\ c.bot < p.s.rows)
  <2>1. Roll(p, c) = p
    BY <1>2 DEF Roll
  <2> QED
    BY <2>1 DEF HoldsOn
<1> QED
  BY <1>1, <1>2

\* A command that neither gives the keyboard back nor starts a new screen
Holding(c) == c.c # "CLEAR_UNIT" /\ (c.c \in {"WTD", "READ"} => "unlock" \notin c.cc2)

LEMMA ParseCommandKeeps ==
    ASSUME NEW p, Parser(p), NEW c \in Commands, NEW restoring
    PROVE  /\ Parser(ParseCommand(p, c, restoring))
           /\ Holding(c) => HoldsOn(p.s, ParseCommand(p, c, restoring).s)
<1>1. CASE c.c = "CLEAR_UNIT"
  <2>1. ParseCommand(p, c, restoring) = ClearUnit(p, c.rows, c.cols)
    BY <1>1 DEF ParseCommand
  <2> QED
    BY <1>1, <2>1, CommandShapes, ClearUnitKeeps DEF Holding
<1>2. CASE c.c = "CLEAR_FORMAT_TABLE"
  <2>1. ParseCommand(p, c, restoring) = ClearFormatTable(p)
    BY <1>2 DEF ParseCommand
  <2> QED
    BY <2>1, ClearFormatTableKeeps
<1>3. CASE c.c = "WTD"
  <2>1. ParseCommand(p, c, restoring) = WriteToDisplay(p, c, restoring)
    BY <1>3 DEF ParseCommand
  <2> QED
    BY <1>3, <2>1, CommandShapes, WriteToDisplayKeeps DEF Holding
<1>4. CASE c.c = "ORDERS"
  <2>1. ParseCommand(p, c, restoring) = ParseOrders(p, c.orders, {}, FALSE)
    BY <1>4 DEF ParseCommand
  <2>2. c.orders \in Seq(Orders)
    BY <1>4, CommandShapes
  <2> HIDE DEF Holding
  <2> QED
    BY <2>1, <2>2, ParseOrdersKeeps
<1>5. CASE c.c = "ERROR"
  <2>1. ParseCommand(p, c, restoring) = WriteErrorCode(p, c)
    BY <1>5 DEF ParseCommand
  <2> QED
    BY <1>5, <2>1, CommandShapes, WriteErrorCodeKeeps
<1>6. CASE c.c = "READ"
  <2>1. ParseCommand(p, c, restoring) = ReadCommand(p, c)
    BY <1>6 DEF ParseCommand
  <2> QED
    BY <1>6, <2>1, ReadCommandKeeps DEF Holding
<1>7. CASE c.c = "ROLL"
  <2>1. ParseCommand(p, c, restoring) = Roll(p, c)
    BY <1>7 DEF ParseCommand
  <2> QED
    BY <2>1, RollKeeps
<1>8. CASE c.c = "QUERY"
  <2>1. ParseCommand(p, c, restoring) = [p EXCEPT !.query = TRUE]
    BY <1>8 DEF ParseCommand
  <2>2. Parser([p EXCEPT !.query = TRUE]) /\ HoldsOn(p.s, [p EXCEPT !.query = TRUE].s)
    BY DEF Parser, HoldsOn
  <2> QED
    BY <2>1, <2>2
<1>9. CASE c.c = "SKIPPED"
  <2>1. ParseCommand(p, c, restoring) = p
    BY <1>9 DEF ParseCommand
  <2> QED
    BY <2>1 DEF HoldsOn
<1>10. c.c \in {"CLEAR_UNIT", "CLEAR_FORMAT_TABLE", "QUERY", "SKIPPED", "WTD",
                "ORDERS", "ERROR", "READ", "ROLL"}
  BY CommandShapes
<1> QED
  BY <1>1, <1>2, <1>3, <1>4, <1>5, <1>6, <1>7, <1>8, <1>9, <1>10

-----------------------------------------------------------------------------
(* The fields once their lengths are known.                                *)

LEMMA StartIsNumber ==
    ASSUME NEW s, Sized(s), NEW f \in FieldType
    PROVE  Start(s, f) \in Nat
<1>1. s.cols \in Nat /\ f.row \in Nat /\ f.col \in Nat
  BY DEF Sized, FieldType
<1>2. f.row * s.cols \in Nat
  BY <1>1
<1> QED
  BY <1>1, <1>2 DEF Start, Offset

\* Field i comes before field j
PlacedBefore(s, i, j) ==
    \/ Start(s, s.fields[i]) < Start(s, s.fields[j])
    \/ Start(s, s.fields[i]) = Start(s, s.fields[j]) /\ i < j

LEMMA PlacesAreOrdered ==
    ASSUME NEW s, Sized(s), s.fields \in Seq(FieldType)
    PROVE  \A i, j, k \in 1 .. Len(s.fields) :
              /\ ~PlacedBefore(s, i, i)
              /\ i # j => PlacedBefore(s, i, j) \/ PlacedBefore(s, j, i)
              /\ PlacedBefore(s, i, j) /\ PlacedBefore(s, j, k) => PlacedBefore(s, i, k)
<1>1. \A i \in 1 .. Len(s.fields) : i \in Nat /\ Start(s, s.fields[i]) \in Nat
  <2> TAKE i \in 1 .. Len(s.fields)
  <2>1. s.fields[i] \in FieldType /\ i \in Nat
    OBVIOUS
  <2> QED
    BY <2>1, StartIsNumber
<1> QED
  BY <1>1 DEF PlacedBefore

\* Every place in the sorted sequence is taken by a field
LEMMA SortedIsSequence ==
    ASSUME NEW s, Sized(s), s.fields \in Seq(FieldType)
    PROVE  Sorted(s) \in Seq(FieldType)
<1> DEFINE n == Len(s.fields)
           I == 1 .. n
           R == {p \in I \X I : PlacedBefore(s, p[1], p[2])}
<1>1. n \in Nat /\ DOMAIN s.fields = I
  OBVIOUS
<1>3. \A i, j \in I : <<i, j>> \in R <=> PlacedBefore(s, i, j)
  OBVIOUS
<1>4. IsFiniteSet(I) /\ Cardinality(I) = n
  <2>1. 1 \in Int /\ n \in Int
    BY <1>1
  <2>2. IsFiniteSet(1 .. n) /\ Cardinality(1 .. n) = IF 1 > n THEN 0 ELSE n - 1 + 1
    <3> HIDE DEF n
    <3> QED
      BY <2>1, FS_Interval
  <2> QED
    BY <1>1, <2>2
<1>5. Ranks(R, I)
  <2>1. \A i, j, k \in I :
              /\ ~PlacedBefore(s, i, i)
              /\ i # j => PlacedBefore(s, i, j) \/ PlacedBefore(s, j, i)
              /\ PlacedBefore(s, i, j) /\ PlacedBefore(s, j, k) => PlacedBefore(s, i, k)
    BY PlacesAreOrdered
  <2> HIDE DEF R, I
  <2> QED
    BY <1>3, <2>1 DEF Ranks
<1> DEFINE rank(i) == Cardinality({j \in I : PlacedBefore(s, j, i)}) + 1
           which(k) == CHOOSE i \in I : rank(i) = k
<1>6. \A k \in I : which(k) \in I
  <2> SUFFICES ASSUME NEW k \in I PROVE \E i \in I : rank(i) = k
    OBVIOUS
  <2>1. k - 1 \in 0 .. Cardinality(I) - 1
    BY <1>1, <1>4
  <2>2. PICK i \in I : Cardinality(Ahead(R, I, i)) = k - 1
    <3> HIDE DEF R, I
    <3> QED
      BY <1>4, <1>5, <2>1, RankIsTaken
  <2>3. Ahead(R, I, i) = {j \in I : PlacedBefore(s, j, i)}
    <3> HIDE DEF R, I
    <3> QED
      BY <1>3 DEF Ahead
  <2>4. rank(i) = k - 1 + 1
    BY <2>2, <2>3
  <2>5. k - 1 + 1 = k
    BY <1>1
  <2> HIDE DEF rank
  <2> QED
    BY <2>4, <2>5
<1>7. Sorted(s) = [k \in I |-> s.fields[which(k)]]
  BY DEF Sorted, PlacedBefore
<1>8. \A k \in I : s.fields[which(k)] \in FieldType
  <2> HIDE DEF which
  <2> QED
    BY <1>1, <1>6, FieldOf
<1> HIDE DEF which
<1> DEFINE sorted == [k \in 1 .. n |-> s.fields[which(k)]]
<1>9. sorted \in Seq(FieldType)
  <2>1. sorted \in [1 .. n -> FieldType]
    BY <1>8
  <2> HIDE DEF sorted
  <2> QED
    BY <1>1, <2>1, SeqDef
<1> QED
  BY <1>7, <1>9

LEMMA InferredLengthIsLong ==
    ASSUME NEW s, Sized(s), NEW fields \in Seq(FieldType), NEW i \in DOMAIN fields
    PROVE  InferredLength(s, fields, i) \in Nat /\ InferredLength(s, fields, i) >= 1
<1> DEFINE f == fields[i]
           gap == IF i < Len(fields)
                  THEN Start(s, fields[i + 1]) - Start(s, f) - 1
                  ELSE (Size(s) - Start(s, f)) + Start(s, fields[1]) - 1
<1>1. f \in FieldType /\ fields[1] \in FieldType
      /\ (i < Len(fields) => fields[i + 1] \in FieldType)
  OBVIOUS
<1>2. f.len \in Nat /\ f.col \in Nat /\ s.cols \in Nat /\ Size(s) \in Nat
  BY <1>1, SizeIsNumber DEF FieldType, Sized
<1>3. gap \in Int
  <2>1. CASE i < Len(fields)
    <3>1. Start(s, fields[i + 1]) \in Nat /\ Start(s, f) \in Nat
      BY <1>1, <2>1, StartIsNumber
    <3> HIDE DEF f
    <3> QED
      BY <2>1, <3>1
  <2>2. CASE ~(i < Len(fields))
    <3>1. Start(s, fields[1]) \in Nat /\ Start(s, f) \in Nat
      BY <1>1, StartIsNumber
    <3> HIDE DEF f
    <3> QED
      BY <1>2, <2>2, <3>1
  <2> QED
    BY <2>1, <2>2
<1>4. InferredLength(s, fields, i) =
         IF f.len > 0 THEN f.len ELSE Max({1, Min({gap, s.cols - f.col})})
  BY DEF InferredLength
<1> HIDE DEF gap, f
<1>5. Min({gap, s.cols - f.col}) \in Int
  <2>1. s.cols - f.col \in Int
    BY <1>2
  <2> QED
    BY <1>3, <2>1, MinOfTwo
<1>6. Max({1, Min({gap, s.cols - f.col})}) \in Int /\ Max({1, Min({gap, s.cols - f.col})}) >= 1
  <2> DEFINE m == Min({gap, s.cols - f.col})
  <2>1. m \in Int /\ 1 \in Int
    BY <1>5
  <2> HIDE DEF m
  <2>2. Max({1, m}) = IF 1 <= m THEN m ELSE 1
    BY <2>1, MaxOfTwo
  <2>3. Max({1, m}) \in Int /\ Max({1, m}) >= 1
    BY <2>1, <2>2
  <2> QED
    BY <2>3 DEF m
<1> QED
  BY <1>2, <1>4, <1>6

LEMMA WithLengthsIsLong ==
    ASSUME NEW s, Sized(s), NEW fields \in Seq(FieldType)
    PROVE  WithLengths(s, fields) \in Seq(LongFields)
           /\ Len(WithLengths(s, fields)) = Len(fields)
<1> DEFINE n == Len(fields)
           g == [i \in 1 .. n |->
                    Demoted(s, [fields[i] EXCEPT !.len = InferredLength(s, fields, i)])]
<1>1. n \in Nat /\ DOMAIN fields = 1 .. n
  OBVIOUS
<1>2. WithLengths(s, fields) = g
  BY <1>1 DEF WithLengths
<1>3. \A i \in 1 .. n : g[i] \in LongFields
  <2> TAKE i \in 1 .. n
  <2> DEFINE len == InferredLength(s, fields, i)
             f == [fields[i] EXCEPT !.len = len]
  <2>1. fields[i] \in FieldType
    BY <1>1
  <2>2. len \in Nat /\ len >= 1
    BY <1>1, InferredLengthIsLong
  <2> HIDE DEF len
  <2>3. f \in FieldType /\ f.len >= 1
    BY <2>1, <2>2 DEF FieldType
  <2> HIDE DEF f
  <2>4. Demoted(s, f) \in FieldType /\ Demoted(s, f).len = f.len
    BY <2>3 DEF Demoted, FieldType
  <2> QED
    BY <2>3, <2>4 DEF f, len, LongFields
<1>4. g \in [1 .. n -> LongFields]
  BY <1>3
<1> HIDE DEF g
<1>5. g \in Seq(LongFields) /\ DOMAIN g = 1 .. n
  BY <1>1, <1>4, SeqDef
<1> QED
  BY <1>1, <1>2, <1>5

\* The fields at the places in kept
Only(fields, kept) ==
    [k \in 1 .. Cardinality(kept) |-> fields[
        CHOOSE i \in kept : Cardinality({j \in kept : j < i}) = k - 1]]

LEMMA KeptAreFields ==
    ASSUME NEW fields \in Seq(LongFields), NEW kept, kept \subseteq DOMAIN fields
    PROVE  Only(fields, kept) \in Seq(LongFields)
<1> DEFINE R == {p \in kept \X kept : p[1] < p[2]}
           n == Cardinality(kept)
           which(k) == CHOOSE i \in kept : Cardinality({j \in kept : j < i}) = k - 1
<1>1. Len(fields) \in Nat /\ DOMAIN fields = 1 .. Len(fields) /\ \A i \in kept : i \in Nat
  OBVIOUS
<1>2. IsFiniteSet(kept) /\ n \in Nat
  <2>1. 1 \in Int /\ Len(fields) \in Int
    BY <1>1
  <2>2. IsFiniteSet(1 .. Len(fields))
    BY <2>1, FS_Interval
  <2>3. kept \in SUBSET (1 .. Len(fields))
    BY <1>1
  <2>4. IsFiniteSet(kept)
    BY <2>2, <2>3, FS_Subset
  <2> QED
    BY <2>4, FS_CardinalityType
<1>3. \A i, j \in kept : <<i, j>> \in R <=> i < j
  OBVIOUS
<1>4. Ranks(R, kept)
  <2> HIDE DEF R
  <2> QED
    BY <1>1, <1>3 DEF Ranks
<1>5. \A k \in 1 .. n : which(k) \in kept
  <2> SUFFICES ASSUME NEW k \in 1 .. n
               PROVE  \E i \in kept : Cardinality({j \in kept : j < i}) = k - 1
    OBVIOUS
  <2>1. k - 1 \in 0 .. Cardinality(kept) - 1
    BY <1>2
  <2>2. PICK i \in kept : Cardinality(Ahead(R, kept, i)) = k - 1
    <3> HIDE DEF R, n
    <3> QED
      BY <1>2, <1>4, <2>1, RankIsTaken
  <2>3. Ahead(R, kept, i) = {j \in kept : j < i}
    BY <1>3 DEF Ahead
  <2> QED
    BY <2>2, <2>3
<1> HIDE DEF which
<1> DEFINE g == [k \in 1 .. n |-> fields[which(k)]]
<1>6. g \in [1 .. n -> LongFields]
  BY <1>1, <1>5
<1>7. g \in Seq(LongFields)
  <2> HIDE DEF g, n
  <2> QED
    BY <1>2, <1>6, SeqDef
<1> QED
  BY <1>7 DEF which, Only

LEMMA LongFieldsAreFields ==
    ASSUME NEW fields \in Seq(LongFields)
    PROVE  fields \in Seq(FieldType)
BY DEF LongFields

LEMMA HomedToFieldIsSpot ==
    ASSUME NEW s, s.cursor \in Spots, NEW fields \in Seq(FieldType)
    PROVE  HomedToField(s, fields) \in Spots
<1> DEFINE typable == {i \in DOMAIN fields : fields[i].input}
<1>1. typable \subseteq DOMAIN fields /\ typable \subseteq Nat
  OBVIOUS
<1>2. CASE typable # {}
  <2>1. Min(typable) \in DOMAIN fields
    <3> HIDE DEF typable
    <3> QED
      BY <1>1, <1>2, MinOfNumbers
  <2> HIDE DEF typable
  <2>2. fields[Min(typable)] \in FieldType
    BY <2>1, FieldOf
  <2>3. Place(fields[Min(typable)]) \in Spots
    BY <2>2, SpotOf DEF Place, FieldType
  <2> QED
    BY <2>3 DEF HomedToField, typable
<1>3. CASE typable = {}
  BY <1>3 DEF HomedToField
<1> QED
  BY <1>2, <1>3

LEMMA FieldLengthsKeep ==
    ASSUME NEW s, Screen(s)
    PROVE  Keeps(s, CalculateFieldLengths(s))
           /\ CalculateFieldLengths(s).fields \in Seq(LongFields)
<1>1. CASE s.fields = <<>>
  <2>1. CalculateFieldLengths(s) = s /\ <<>> \in Seq(LongFields)
    BY <1>1 DEF CalculateFieldLengths
  <2> QED
    BY <1>1, <2>1 DEF Keeps, HoldsOn
<1>2. CASE s.fields # <<>>
  <2> DEFINE long == WithLengths(s, Sorted(s))
             kept == {i \in DOMAIN long : Kept(long, i)}
             fields == Only(long, kept)
             cursor == HomedToField(s, long)
  <2>1. Sized(s) /\ s.fields \in Seq(FieldType) /\ s.cursor \in Spots
    BY DEF Screen, Placed
  <2>2. Sorted(s) \in Seq(FieldType)
    BY <2>1, SortedIsSequence
  <2>3. long \in Seq(LongFields)
    BY <2>1, <2>2, WithLengthsIsLong
  <2>4. CalculateFieldLengths(s) = [s EXCEPT !.fields = fields, !.cursor = cursor]
    BY <1>2 DEF CalculateFieldLengths, WithFields, Only
  <2>5. kept \subseteq DOMAIN long
    OBVIOUS
  <2> HIDE DEF long
  <2>6. cursor \in Spots
    BY <2>1, <2>3, LongFieldsAreFields, HomedToFieldIsSpot
  <2> HIDE DEF kept, cursor
  <2>7. fields \in Seq(LongFields)
    BY <2>3, <2>5, KeptAreFields
  <2> HIDE DEF fields
  <2>8. fields \in Seq(FieldType)
    BY <2>7, LongFieldsAreFields
  <2>9. /\ Keeps(s, [s EXCEPT !.fields = fields, !.cursor = cursor])
        /\ [s EXCEPT !.fields = fields, !.cursor = cursor].fields = fields
    BY <2>6, <2>8 DEF Keeps, HoldsOn, Screen, Sized, Placed, ScreenParts
  <2> QED
    BY <2>4, <2>7, <2>9
<1> QED
  BY <1>1, <1>2

-----------------------------------------------------------------------------
(* A record from the socket to the screen.                                 *)

LEMMA FillIsNarrow ==
    ASSUME NEW s, DOMAIN s = ScreenParts, NEW A, NEW ch
    PROVE  DOMAIN Fill(s, A, ch) = ScreenParts /\ Fill(s, A, ch).fields = s.fields
BY DEF Fill, ScreenParts

LEMMA BorderIsNarrow ==
    ASSUME NEW s, DOMAIN s = ScreenParts, NEW c, NEW height, NEW width
    PROVE  /\ DOMAIN RenderWindowBorder(s, c, height, width) = ScreenParts
           /\ RenderWindowBorder(s, c, height, width).fields = s.fields
<1> DEFINE bottom == c.row + height + 1
           right == c.col + width + 1
           sides == Rectangle(s, c.row + 1, c.col, bottom, c.col)
                        \cup Rectangle(s, c.row + 1, right, bottom, right)
           edges == Rectangle(s, c.row, c.col, c.row, right)
                        \cup Rectangle(s, bottom, c.col + 1, bottom, right - 1)
           t == Fill(s, sides, ":")
           u == Fill(t, edges, ".")
<1>1. RenderWindowBorder(s, c, height, width) = u
  BY DEF RenderWindowBorder
<1> HIDE DEF sides, edges
<1>2. DOMAIN t = ScreenParts /\ t.fields = s.fields
  BY FillIsNarrow
<1> HIDE DEF t
<1>3. DOMAIN u = ScreenParts /\ u.fields = t.fields
  BY <1>2, FillIsNarrow
<1> QED
  BY <1>1, <1>2, <1>3

LEMMA SynthesizeWindowKeeps ==
    ASSUME NEW s, Screen(s)
    PROVE  Keeps(s, SynthesizeWindow(s)) /\ SynthesizeWindow(s).fields = s.fields
<1>1. CASE s.stack = <<>> \/ ~IsInsetPopup(s)
  <2>1. SynthesizeWindow(s) = s
    BY <1>1 DEF SynthesizeWindow
  <2> QED
    BY <2>1 DEF Keeps, HoldsOn
<1>2. CASE ~(s.stack = <<>> \/ ~IsInsetPopup(s))
  <2> DEFINE b == Box(s)
             content == [a \in Rectangle(s, b.top, b.left, b.bottom, b.right) |-> s.buf[a]]
             c == [row |-> b.top - 1, col |-> b.left - 1]
             height == b.bottom - b.top + 1
             width == b.right - b.left + 1
             w == [row |-> c.row, col |-> c.col, height |-> height, width |-> width]
             below == Last(s.stack).buf
             r == [s EXCEPT !.buf = below]
             framed == RenderWindowBorder(r, c, height, width)
             cells == Over(content, framed.buf)
             t == [framed EXCEPT !.buf = cells]
             u == TrackWindow(t, w)
  <2>1. SynthesizeWindow(s) = u
    BY <1>2 DEF SynthesizeWindow
  <2> HIDE DEF below
  <2>2. Keeps(s, r)
    BY CellsKeep
  <2>3. r.fields = s.fields /\ DOMAIN r = ScreenParts
    BY DEF Screen, ScreenParts
  <2> HIDE DEF r, c, height, width
  <2>4. Keeps(r, framed)
    BY <2>2, BorderKeeps DEF Keeps
  <2>5. framed.fields = r.fields /\ DOMAIN framed = ScreenParts
    BY <2>3, BorderIsNarrow
  <2> HIDE DEF framed, cells
  <2>6. Keeps(framed, t)
    BY <2>4, CellsKeep DEF Keeps
  <2>7. t.fields = framed.fields /\ DOMAIN t = ScreenParts
    BY <2>5 DEF ScreenParts
  <2> HIDE DEF t, w
  <2>8. Keeps(t, u)
    BY <2>6, TrackWindowKeeps DEF Keeps
  <2>9. u.fields = t.fields
    BY <2>7 DEF TrackWindow, ScreenParts
  <2> HIDE DEF u
  <2>10. Keeps(s, framed)
    BY <2>2, <2>4, KeepsOn
  <2>11. Keeps(s, t)
    BY <2>6, <2>10, KeepsOn
  <2>12. Keeps(s, u)
    BY <2>8, <2>11, KeepsOn
  <2> QED
    BY <2>1, <2>3, <2>5, <2>7, <2>9, <2>12
<1> QED
  BY <1>1, <1>2

\* A parser between two records: the lengths of the fields are known
Settled(p) == Parser(p) /\ p.s.fields \in Seq(LongFields)

LEMMA PoppedKeeps ==
    ASSUME NEW p, Settled(p)
    PROVE  Settled(Popped(p)) /\ HoldsOn(p.s, Popped(p).s)
<1>1. CASE ~(p.win = Home /\ p.s.fields # <<>>)
  <2>1. Popped(p) = p
    BY <1>1 DEF Popped
  <2> QED
    BY <2>1 DEF HoldsOn
<1>2. CASE p.win = Home /\ p.s.fields # <<>>
  <2> DEFINE t == SynthesizeWindow(p.s)
  <2>1. Popped(p) = [p EXCEPT !.s = t]
    BY <1>2 DEF Popped
  <2>2. Keeps(p.s, t) /\ t.fields = p.s.fields
    BY SynthesizeWindowKeeps DEF Settled, Parser
  <2> HIDE DEF t
  <2>3. Parser([p EXCEPT !.s = t]) /\ HoldsOn(p.s, [p EXCEPT !.s = t].s)
    BY <2>2, NewScreenKeeps DEF Settled
  <2>4. [p EXCEPT !.s = t].s = t
    BY DEF Settled, Parser
  <2> QED
    BY <2>1, <2>2, <2>3, <2>4 DEF Settled
<1> QED
  BY <1>1, <1>2

LEMMA AnsweringKeeps ==
    ASSUME NEW p, Parser(p), NEW modified \in BOOLEAN,
           modified \/ p.s.fields \in Seq(LongFields)
    PROVE  Settled(Answering(p, modified)) /\ HoldsOn(p.s, Answering(p, modified).s)
<1>1. CASE modified = FALSE
  <2>1. Answering(p, modified) = [p EXCEPT !.query = FALSE]
    BY <1>1 DEF Answering
  <2>2. /\ Parser([p EXCEPT !.query = FALSE]) /\ [p EXCEPT !.query = FALSE].s = p.s
    BY DEF Parser
  <2> QED
    BY <1>1, <2>1, <2>2 DEF Settled, HoldsOn
<1>2. CASE modified = TRUE
  <2> DEFINE t == CalculateFieldLengths(p.s)
             q == [p EXCEPT !.query = FALSE, !.s = t]
  <2>1. Answering(p, modified) = Popped(q)
    BY <1>2 DEF Answering, Parser
  <2>2. Keeps(p.s, t) /\ t.fields \in Seq(LongFields)
    BY FieldLengthsKeep DEF Parser
  <2> HIDE DEF t
  <2>3. Settled(q) /\ q.s = t
    BY <2>2 DEF Settled, Parser, Keeps
  <2> HIDE DEF q
  <2>4. Settled(Popped(q)) /\ HoldsOn(q.s, Popped(q).s)
    BY <2>3, PoppedKeeps
  <2> QED
    BY <2>1, <2>2, <2>3, <2>4 DEF Keeps, HoldsOn
<1> QED
  BY <1>1, <1>2

LEMMA SaveStateKeeps ==
    ASSUME NEW s, Screen(s), s.fields \in Seq(LongFields)
    PROVE  Keeps(s, SaveState(s)) /\ SaveState(s).fields = s.fields
<1> DEFINE room == IF Len(s.stack) >= MaxScreenStack THEN Tail(s.stack) ELSE s.stack
           stack == Append(room, Frame(s))
<1>1. SaveState(s) = [s EXCEPT !.stack = stack]
  BY DEF SaveState
<1>2. IsStack(s.stack) /\ IsFrame(Frame(s))
  BY DEF Screen, Placed, IsFrame, Frame
<1>2a. Len(s.stack) \in Nat /\ Len(s.stack) <= MaxScreenStack /\ MaxScreenStack \in Nat
  BY <1>2, SizeAssumption DEF IsStack
<1>3. IsStack(room) /\ Len(room) < MaxScreenStack
  <2>1. CASE Len(s.stack) >= MaxScreenStack
    <3>1. s.stack # <<>>
      <4>1. MaxScreenStack \in Nat \ {0}
        BY SizeAssumption
      <4> QED
        BY <2>1, <4>1
    <3>2. IsStack(Tail(s.stack)) /\ Len(Tail(s.stack)) = Len(s.stack) - 1
      BY <1>2, <3>1, TailOfStack
    <3> QED
      BY <1>2a, <2>1, <3>2
  <2>2. CASE ~(Len(s.stack) >= MaxScreenStack)
    BY <1>2, <1>2a, <2>2
  <2> QED
    BY <2>1, <2>2
<1> HIDE DEF room
<1>4. IsStack(stack)
  BY <1>2, <1>3, PushOfStack
<1> HIDE DEF stack
<1>5. Keeps(s, [s EXCEPT !.stack = stack]) /\ [s EXCEPT !.stack = stack].fields = s.fields
  BY <1>4, StackKeeps DEF Screen, ScreenParts
<1> QED
  BY <1>1, <1>5

LEMMA RestoreStateKeeps ==
    ASSUME NEW s, Screen(s), s.fields \in Seq(LongFields)
    PROVE  Screen(RestoreState(s)) /\ RestoreState(s).fields \in Seq(LongFields)
<1>1. CASE s.stack = <<>>
  BY <1>1 DEF RestoreState
<1>2. CASE s.stack # <<>>
  <2> DEFINE top == Last(s.stack)
             rest == Front(s.stack)
             t == [s EXCEPT !.stack = rest, !.buf = top.buf, !.fields = top.fields,
                       !.cursor = top.cursor, !.readOp = top.readOp,
                       !.locked = top.locked, !.header = top.header,
                       !.windows = top.windows, !.selections = top.selections,
                       !.scrollbars = top.scrollbars]
  <2>1. RestoreState(s) = t
    BY <1>2 DEF RestoreState
  <2>2. IsFrame(top) /\ IsStack(rest)
    BY <1>2, TailOfStack DEF Screen
  <2> HIDE DEF top, rest
  <2>3. top.fields \in Seq(LongFields) /\ top.fields \in Seq(FieldType) /\ top.cursor \in Spots
        /\ top.locked \in BOOLEAN /\ IsWindows(top.windows)
    BY <2>2, LongFieldsAreFields DEF IsFrame
  <2>4. Screen(t) /\ t.fields = top.fields
    BY <2>2, <2>3 DEF Screen, Sized, Placed, ScreenParts
  <2> HIDE DEF t
  <2> QED
    BY <2>1, <2>3, <2>4
<1> QED
  BY <1>1, <1>2

LEMMA OpenedKeeps ==
    ASSUME NEW p, Settled(p), NEW op \in {"OUTPUT", "SAVE", "RESTORE"}
    PROVE  /\ Settled(Opened(p, op))
           /\ op # "RESTORE" => HoldsOn(p.s, Opened(p, op).s)
<1>1. CASE op = "SAVE"
  <2> DEFINE t == SaveState(p.s)
  <2>1. Opened(p, op) = [p EXCEPT !.s = t]
    BY <1>1 DEF Opened
  <2>2. Keeps(p.s, t) /\ t.fields = p.s.fields
    BY SaveStateKeeps DEF Settled, Parser
  <2> HIDE DEF t
  <2>3. Parser([p EXCEPT !.s = t]) /\ HoldsOn(p.s, [p EXCEPT !.s = t].s)
    BY <2>2, NewScreenKeeps DEF Settled
  <2>4. [p EXCEPT !.s = t].s = t
    BY DEF Settled, Parser
  <2> QED
    BY <2>1, <2>2, <2>3, <2>4 DEF Settled
<1>2. CASE op = "RESTORE"
  <2> DEFINE r == RestoreState(p.s)
             t == [r EXCEPT !.windows = <<>>]
  <2>1. Opened(p, op) = [p EXCEPT !.s = t, !.win = Home]
    BY <1>2 DEF Opened
  <2>2. Screen(r) /\ r.fields \in Seq(LongFields)
    BY RestoreStateKeeps DEF Settled, Parser
  <2> HIDE DEF r
  <2>3. Screen(t) /\ t.fields = r.fields
    BY <2>2, NoWindows, WindowsKeep DEF Screen, ScreenParts
  <2> HIDE DEF t
  <2>4. Home \in Spots
    BY SpotOf DEF Home
  <2>5. Settled([p EXCEPT !.s = t, !.win = Home])
    BY <2>2, <2>3, <2>4 DEF Settled, Parser
  <2> QED
    BY <1>2, <2>1, <2>5
<1>3. CASE op = "OUTPUT"
  <2>1. Opened(p, op) = p
    BY <1>3 DEF Opened
  <2> QED
    BY <2>1 DEF HoldsOn
<1> QED
  BY <1>1, <1>2, <1>3

LEMMA ParseRecordKeeps ==
    ASSUME NEW p, Settled(p), NEW r \in HostRecords
    PROVE  /\ Parser(ParseRecord(p, r))
           /\ ~Releases(r) => HoldsOn(p.s, ParseRecord(p, r).s)
           /\ ~Modifies(r) => ParseRecord(p, r).s = p.s
<1> DEFINE base == Opened(p, r.op)
           restoring == r.op = "RESTORE"
           kind == IF restoring THEN "restoring" ELSE "command"
           n == Len(r.cmds)
           last == FoldLeft(LAMBDA q, c : ParseCommand(q, c, restoring), base, r.cmds)
<1>1. r.op \in {"OUTPUT", "SAVE", "RESTORE"} /\ r.cmds \in Seq(Commands)
  BY DEF HostRecords
<1>2. n \in Nat /\ DOMAIN r.cmds = 1 .. n /\ \A k \in 1 .. n : r.cmds[k] \in Commands
  BY <1>1
<1>3. /\ Settled(base)
      /\ ~Releases(r) => HoldsOn(p.s, base.s)
      /\ ~Modifies(r) => base.s = p.s
  <2>1. /\ Settled(base)
        /\ r.op # "RESTORE" => HoldsOn(p.s, base.s)
    BY <1>1, OpenedKeeps
  <2>2. ~Releases(r) => r.op # "RESTORE"
    BY DEF Releases
  <2>3. ~Modifies(r) => base = p
    BY <1>1 DEF Modifies, Opened
  <2> QED
    BY <2>1, <2>2, <2>3
<1>4. ParseRecord(p, r) = last
  BY DEF ParseRecord
<1>5. last = Folded(kind, base, r.cmds)
  <2>1. restoring \in BOOLEAN
    OBVIOUS
  <2> HIDE DEF restoring, base
  <2> QED
    BY <1>2, <2>1, FoldOfCommands
<1> HIDE DEF last, base
<1>6. PICK g : /\ g[0] = base
               /\ \A k \in 1 .. n : g[k] = Step(kind, g[k - 1], r.cmds[k])
               /\ Folded(kind, base, r.cmds) = g[n]
  <2> DEFINE cmds == r.cmds
  <2>1. Len(cmds) \in Nat
    BY <1>2
  <2> HIDE DEF kind, cmds
  <2>2. \E g : Walk(kind, base, cmds, g)
    BY <2>1, StepByStep
  <2> QED
    BY <2>2 DEF cmds, Walk
<1>7. \A k \in 1 .. n : g[k] = ParseCommand(g[k - 1], r.cmds[k], restoring)
  <2> TAKE k \in 1 .. n
  <2>1. g[k] = Step(kind, g[k - 1], r.cmds[k])
    BY <1>6
  <2>2. CASE restoring
    <3>1. kind = "restoring" /\ restoring = TRUE
      BY <2>2
    <3> HIDE DEF kind, restoring
    <3> QED
      BY <2>1, <3>1 DEF Step
  <2>3. CASE ~restoring
    <3>1. kind = "command" /\ restoring = FALSE
      BY <2>3
    <3> HIDE DEF kind, restoring
    <3> QED
      BY <2>1, <3>1 DEF Step
  <2> QED
    BY <2>2, <2>3
<1> HIDE DEF kind, restoring
<1>8. ~Releases(r) => \A k \in 1 .. n : Holding(r.cmds[k])
  BY <1>2 DEF Releases, Holding
<1>9. ~Modifies(r) => \A k \in 1 .. n : r.cmds[k].c \in {"QUERY", "SKIPPED"}
  BY <1>2 DEF Modifies
<1> DEFINE P == {k \in 0 .. n : /\ Parser(g[k])
                                /\ ~Releases(r) => HoldsOn(p.s, g[k].s)
                                /\ ~Modifies(r) => g[k].s = p.s}
<1>10. 0 \in P
  BY <1>2, <1>3, <1>6 DEF Settled
<1>11. \A k \in 1 .. n : k - 1 \in P => k \in P
  <2> SUFFICES ASSUME NEW k \in 1 .. n, k - 1 \in P PROVE k \in P
    OBVIOUS
  <2>1. /\ Parser(g[k - 1])
        /\ ~Releases(r) => HoldsOn(p.s, g[k - 1].s)
        /\ ~Modifies(r) => g[k - 1].s = p.s
    OBVIOUS
  <2>2. k \in 0 .. n
    BY <1>2
  <2> HIDE DEF P
  <2>3. /\ Parser(g[k])
        /\ Holding(r.cmds[k]) => HoldsOn(g[k - 1].s, g[k].s)
    BY <1>2, <1>7, <2>1, ParseCommandKeeps
  <2>4. ~Releases(r) => HoldsOn(p.s, g[k].s)
    BY <1>8, <2>1, <2>3 DEF HoldsOn
  <2>5. ~Modifies(r) => g[k].s = p.s
    <3> SUFFICES ASSUME ~Modifies(r) PROVE g[k].s = p.s
      OBVIOUS
    <3>1. CASE r.cmds[k].c = "QUERY"
      <4>1. g[k] = [g[k - 1] EXCEPT !.query = TRUE]
        BY <1>7, <3>1 DEF ParseCommand
      <4> QED
        BY <2>1, <4>1 DEF Parser
    <3>2. CASE r.cmds[k].c = "SKIPPED"
      <4>1. g[k] = g[k - 1]
        BY <1>7, <3>2 DEF ParseCommand
      <4> QED
        BY <2>1, <4>1
    <3> QED
      BY <1>9, <3>1, <3>2
  <2> QED
    BY <2>2, <2>3, <2>4, <2>5 DEF P
<1>12. \A k \in 0 .. n : k \in P
  <2> HIDE DEF P
  <2> QED
    BY <1>2, <1>10, <1>11, UpTo
<1>13. n \in P
  BY <1>2, <1>12
<1> QED
  BY <1>4, <1>5, <1>6, <1>13

LEMMA ReceivedKeeps ==
    ASSUME NEW p, Settled(p), NEW r \in HostRecords
    PROVE  /\ Settled(Received(p, r))
           /\ ~Releases(r) => HoldsOn(p.s, Received(p, r).s)
           /\ ~Modifies(r) => Received(p, r).s = p.s
<1> DEFINE q == ParseRecord(p, r)
           modified == Modifies(r)
<1>1. Received(p, r) = Answering(q, modified)
  BY DEF Received
<1>2. /\ Parser(q)
      /\ ~Releases(r) => HoldsOn(p.s, q.s)
      /\ ~modified => q.s = p.s
  BY ParseRecordKeeps
<1>3. modified \in BOOLEAN
  BY DEF Modifies
<1> HIDE DEF q, modified
<1>4. Settled(Answering(q, modified)) /\ HoldsOn(q.s, Answering(q, modified).s)
  BY <1>2, <1>3, AnsweringKeeps DEF Settled
<1>5. ~modified => Answering(q, modified).s = q.s
  BY <1>2 DEF Answering, Parser
<1> QED
  BY <1>1, <1>2, <1>4, <1>5 DEF HoldsOn, modified

-----------------------------------------------------------------------------
(* Tab order.                                                              *)

\* Tab order, and of two fields neither comes before the other the first given
TabRank(s, i, j) ==
    \/ TabBefore(s, i, j)
    \/ ~TabBefore(s, i, j) /\ ~TabBefore(s, j, i) /\ i < j

LEMMA TabIsOrder ==
    ASSUME NEW s, Sized(s), s.fields \in Seq(FieldType)
    PROVE  \A i, j, k \in DOMAIN s.fields :
              /\ ~TabRank(s, i, i)
              /\ i # j => TabRank(s, i, j) \/ TabRank(s, j, i)
              /\ TabRank(s, i, j) /\ TabRank(s, j, k) => TabRank(s, i, k)
<1>1. \A i \in DOMAIN s.fields :
         i \in Nat /\ Start(s, s.fields[i]) \in Nat /\ s.fields[i].reseq \in Nat
  <2> TAKE i \in DOMAIN s.fields
  <2>1. s.fields[i] \in FieldType /\ i \in Nat
    OBVIOUS
  <2> QED
    BY <2>1, StartIsNumber DEF FieldType
<1> TAKE i, j, k \in DOMAIN s.fields
<1> DEFINE a == Start(s, s.fields[i])
           b == Start(s, s.fields[j])
           c == Start(s, s.fields[k])
           x == s.fields[i].reseq
           y == s.fields[j].reseq
           z == s.fields[k].reseq
<1>2. /\ i \in Nat /\ j \in Nat /\ k \in Nat /\ a \in Nat /\ b \in Nat /\ c \in Nat
      /\ x \in Nat /\ y \in Nat /\ z \in Nat
  BY <1>1
<1>3. /\ TabBefore(s, i, j) <=> (IF x = y THEN a < b ELSE y = 0 \/ (x # 0 /\ x < y))
      /\ TabBefore(s, j, i) <=> (IF y = x THEN b < a ELSE x = 0 \/ (y # 0 /\ y < x))
      /\ TabBefore(s, j, k) <=> (IF y = z THEN b < c ELSE z = 0 \/ (y # 0 /\ y < z))
      /\ TabBefore(s, k, j) <=> (IF z = y THEN c < b ELSE y = 0 \/ (z # 0 /\ z < y))
      /\ TabBefore(s, i, k) <=> (IF x = z THEN a < c ELSE z = 0 \/ (x # 0 /\ x < z))
      /\ TabBefore(s, k, i) <=> (IF z = x THEN c < a ELSE x = 0 \/ (z # 0 /\ z < x))
      /\ TabBefore(s, i, i) <=> (a < a)
  BY DEF TabBefore
<1> HIDE DEF a, b, c, x, y, z
<1>4. ~TabRank(s, i, i)
  BY <1>2, <1>3 DEF TabRank
<1>5. i # j => TabRank(s, i, j) \/ TabRank(s, j, i)
  BY <1>2, <1>3 DEF TabRank
<1>6. TabRank(s, i, j) /\ TabRank(s, j, k) => TabRank(s, i, k)
  BY <1>2, <1>3 DEF TabRank
<1> QED
  BY <1>4, <1>5, <1>6

LEMMA FieldSetIsFinite ==
    ASSUME NEW fields \in Seq(FieldType), NEW I, I \subseteq DOMAIN fields
    PROVE  IsFiniteSet(I) /\ I \subseteq Nat
<1>1. Len(fields) \in Nat /\ DOMAIN fields = 1 .. Len(fields)
  OBVIOUS
<1>2. 1 \in Int /\ Len(fields) \in Int
  BY <1>1
<1>3. IsFiniteSet(1 .. Len(fields))
  BY <1>2, FS_Interval
<1>4. I \in SUBSET (1 .. Len(fields))
  BY <1>1
<1>5. IsFiniteSet(I)
  BY <1>3, <1>4, FS_Subset
<1> QED
  BY <1>1, <1>5

\* The first and the last field of a set in Tab order are in it
LEMMA EndsInTabOrder ==
    ASSUME NEW s, Sized(s), s.fields \in Seq(FieldType),
           NEW I, I \subseteq DOMAIN s.fields, I # {}
    PROVE  /\ FirstInTabOrder(s, I) \in I
           /\ \A j \in I \ {FirstInTabOrder(s, I)} : ~TabBefore(s, j, FirstInTabOrder(s, I))
           /\ LastInTabOrder(s, I) \in I
           /\ \A j \in I \ {LastInTabOrder(s, I)} : ~TabBefore(s, LastInTabOrder(s, I), j)
<1> DEFINE R == {p \in I \X I : TabRank(s, p[1], p[2])}
<1>1. \A i, j \in I : <<i, j>> \in R <=> TabRank(s, i, j)
  OBVIOUS
<1>2. \A i, j, k \in I :
              /\ ~TabRank(s, i, i)
              /\ i # j => TabRank(s, i, j) \/ TabRank(s, j, i)
              /\ TabRank(s, i, j) /\ TabRank(s, j, k) => TabRank(s, i, k)
  BY TabIsOrder
<1>3. Ranks(R, I)
  <2> HIDE DEF R
  <2> QED
    BY <1>1, <1>2 DEF Ranks
<1>4. IsFiniteSet(I)
  BY FieldSetIsFinite
<1>5. PICK i \in I : \A j \in I \ {i} : <<i, j>> \in R /\ <<j, i>> \notin R
  <2> HIDE DEF R
  <2> QED
    BY <1>3, <1>4, FirstOfAll
<1>6. PICK k \in I : \A j \in I \ {k} : <<j, k>> \in R /\ <<k, j>> \notin R
  <2> HIDE DEF R
  <2> QED
    BY <1>3, <1>4, LastOfAll
<1>7. \A j \in I \ {i} : ~TabBefore(s, j, i)
  BY <1>1, <1>5 DEF TabRank
<1>8. \A j \in I \ {k} : ~TabBefore(s, k, j)
  BY <1>1, <1>6 DEF TabRank
<1>9. /\ FirstInTabOrder(s, I) \in I
      /\ \A j \in I \ {FirstInTabOrder(s, I)} : ~TabBefore(s, j, FirstInTabOrder(s, I))
  BY <1>7 DEF FirstInTabOrder
<1>10. /\ LastInTabOrder(s, I) \in I
       /\ \A j \in I \ {LastInTabOrder(s, I)} : ~TabBefore(s, LastInTabOrder(s, I), j)
  BY <1>8 DEF LastInTabOrder
<1> QED
  BY <1>9, <1>10

\* Tab and Backtab go to an input field, if there is one
LEMMA TabGoesToInput ==
    ASSUME NEW s, Sized(s), s.fields \in Seq(FieldType), NEW pos, NEW forward \in BOOLEAN
    PROVE  IF InputFields(s) = {} THEN AdjacentInputField(s, pos, forward) = 0
           ELSE AdjacentInputField(s, pos, forward) \in InputFields(s)
<1> DEFINE typable == InputFields(s)
           here == {i \in typable : pos \in Cells(s, s.fields[i])}
           current == FirstInTabOrder(s, here)
           after == {i \in typable : TabBefore(s, current, i)}
           before == {i \in typable : TabBefore(s, i, current)}
<1>1. AdjacentInputField(s, pos, forward) =
         CASE typable = {} -> 0
           [] typable # {} /\ forward ->
                 IF here = {} \/ after = {} THEN FirstInTabOrder(s, typable)
                 ELSE FirstInTabOrder(s, after)
           [] OTHER ->
                 IF here = {} \/ before = {} THEN LastInTabOrder(s, typable)
                 ELSE LastInTabOrder(s, before)
  BY DEF AdjacentInputField, NextOf
<1>2. typable \subseteq DOMAIN s.fields /\ after \subseteq typable /\ before \subseteq typable
  BY DEF InputFields
<1> HIDE DEF typable, after, before, here
<1>3. \A I : I \subseteq typable /\ I # {} =>
         FirstInTabOrder(s, I) \in typable /\ LastInTabOrder(s, I) \in typable
  BY <1>2, EndsInTabOrder
<1>4. CASE typable = {}
  BY <1>1, <1>4 DEF typable
<1>5. CASE typable # {} /\ forward
  BY <1>1, <1>2, <1>3, <1>5 DEF typable
<1>6. CASE typable # {} /\ ~forward
  BY <1>1, <1>2, <1>3, <1>6 DEF typable
<1> QED
  BY <1>4, <1>5, <1>6

\* A screen between two records
Formatted(s) == Screen(s) /\ s.fields \in Seq(LongFields)

Apart(s) ==
    \A i, j \in InputFields(s) :
        i # j => Cells(s, s.fields[i]) \cap Cells(s, s.fields[j]) = {}

LEMMA FormattedFields ==
    ASSUME NEW s, Formatted(s), NEW i \in DOMAIN s.fields
    PROVE  /\ s.fields[i] \in FieldType /\ s.fields[i] \in LongFields /\ i \in Nat /\ i # 0
           /\ Start(s, s.fields[i]) \in Nat /\ s.fields[i].len \in Nat /\ s.fields[i].len >= 1
           /\ Start(s, s.fields[i]) \in Cells(s, s.fields[i])
<1>1. s.fields[i] \in LongFields /\ i \in Nat /\ i # 0
  BY DEF Formatted
<1>2. s.fields[i] \in FieldType /\ s.fields[i].len \in Nat /\ s.fields[i].len >= 1
  BY <1>1 DEF LongFields, FieldType
<1>3. Start(s, s.fields[i]) \in Nat
  BY <1>2, StartIsNumber DEF Formatted, Screen
<1>4. Start(s, s.fields[i]) \in Cells(s, s.fields[i])
  BY <1>2, <1>3 DEF Cells
<1> QED
  BY <1>1, <1>2, <1>3, <1>4

\* Where input fields share no cell, only one holds the start of field i
LEMMA HereAlone ==
    ASSUME NEW s, Formatted(s), Apart(s), NEW i \in InputFields(s)
    PROVE  {j \in InputFields(s) : Start(s, s.fields[i]) \in Cells(s, s.fields[j])} = {i}
<1>1. InputFields(s) \subseteq DOMAIN s.fields
  BY DEF InputFields
<1>2. Start(s, s.fields[i]) \in Cells(s, s.fields[i])
  BY <1>1, FormattedFields
<1> QED
  BY <1>2 DEF Apart

\* and Tab order tells any two of them apart
LEMMA TabTellsApart ==
    ASSUME NEW s, Formatted(s), Apart(s), NEW i \in InputFields(s), NEW j \in InputFields(s)
    PROVE  /\ ~TabBefore(s, i, i)
           /\ i # j => TabBefore(s, i, j) \/ TabBefore(s, j, i)
<1>1. InputFields(s) \subseteq DOMAIN s.fields
  BY DEF InputFields
<1> DEFINE a == Start(s, s.fields[i])
           b == Start(s, s.fields[j])
           x == s.fields[i].reseq
           y == s.fields[j].reseq
<1>2. i # j => a # b
  <2>1. Start(s, s.fields[i]) \in Cells(s, s.fields[i])
        /\ Start(s, s.fields[j]) \in Cells(s, s.fields[j])
    BY <1>1, FormattedFields
  <2> QED
    BY <2>1 DEF Apart
<1>3. a \in Nat /\ b \in Nat /\ x \in Nat /\ y \in Nat
  BY <1>1, FormattedFields DEF FieldType
<1>4. /\ TabBefore(s, i, j) <=> (IF x = y THEN a < b ELSE y = 0 \/ (x # 0 /\ x < y))
      /\ TabBefore(s, j, i) <=> (IF y = x THEN b < a ELSE x = 0 \/ (y # 0 /\ y < x))
      /\ TabBefore(s, i, i) <=> (a < a)
  BY DEF TabBefore
<1> HIDE DEF a, b, x, y
<1> QED
  BY <1>2, <1>3, <1>4

LEMMA OnlyOneFirst ==
    ASSUME NEW s, NEW i
    PROVE  FirstInTabOrder(s, {i}) = i
BY DEF FirstInTabOrder

\* Tab from field i: the next in Tab order, or round to the first
LEMMA TabFromField ==
    ASSUME NEW s, Formatted(s), Apart(s), NEW i \in InputFields(s)
    PROVE  LET after == {j \in InputFields(s) : TabBefore(s, i, j)}
               before == {j \in InputFields(s) : TabBefore(s, j, i)}
           IN  /\ AdjacentInputField(s, Start(s, s.fields[i]), TRUE) =
                     FirstInTabOrder(s, IF after = {} THEN InputFields(s) ELSE after)
               /\ AdjacentInputField(s, Start(s, s.fields[i]), FALSE) =
                     LastInTabOrder(s, IF before = {} THEN InputFields(s) ELSE before)
<1> DEFINE typable == InputFields(s)
           here == {j \in typable : Start(s, s.fields[i]) \in Cells(s, s.fields[j])}
<1>1. here = {i}
  BY HereAlone
<1>2. \A forward \in BOOLEAN :
         AdjacentInputField(s, Start(s, s.fields[i]), forward) = NextOf(s, typable, here, forward)
  BY DEF AdjacentInputField
<1>3. FirstInTabOrder(s, {i}) = i /\ typable # {} /\ {i} # {}
  BY OnlyOneFirst
<1> HIDE DEF typable, here
<1> DEFINE after == {j \in typable : TabBefore(s, i, j)}
           before == {j \in typable : TabBefore(s, j, i)}
<1>4. NextOf(s, typable, {i}, TRUE) = FirstInTabOrder(s, IF after = {} THEN typable ELSE after)
  BY <1>3 DEF NextOf
<1>5. NextOf(s, typable, {i}, FALSE) = LastInTabOrder(s, IF before = {} THEN typable ELSE before)
  BY <1>3 DEF NextOf
<1> QED
  BY <1>1, <1>2, <1>4, <1>5 DEF typable

LEMMA BacktabReturns ==
    ASSUME NEW s, Formatted(s), Apart(s), NEW i \in InputFields(s)
    PROVE  LET next == AdjacentInputField(s, Start(s, s.fields[i]), TRUE)
           IN  AdjacentInputField(s, Start(s, s.fields[next]), FALSE) = i
<1> DEFINE I == InputFields(s)
           after == {j \in I : TabBefore(s, i, j)}
           ahead == IF after = {} THEN I ELSE after
           n == FirstInTabOrder(s, ahead)
           before == {j \in I : TabBefore(s, j, n)}
           behind == IF before = {} THEN I ELSE before
           m == LastInTabOrder(s, behind)
<1>1. I \subseteq DOMAIN s.fields /\ Sized(s) /\ s.fields \in Seq(FieldType) /\ i \in I
  BY LongFieldsAreFields DEF InputFields, Formatted, Screen
<1>2. AdjacentInputField(s, Start(s, s.fields[i]), TRUE) = n
  BY TabFromField
<1>3. \A j, k \in I : ~TabBefore(s, j, j)
                      /\ (j # k => TabBefore(s, j, k) \/ TabBefore(s, k, j))
  BY TabTellsApart
<1>4. ahead \subseteq I /\ ahead # {}
  BY <1>1
<1>5. n \in ahead /\ \A j \in ahead \ {n} : ~TabBefore(s, j, n)
  <2> HIDE DEF ahead, I
  <2> QED
    BY <1>1, <1>4, EndsInTabOrder
<1>6. n \in I
  BY <1>4, <1>5
<1>7. AdjacentInputField(s, Start(s, s.fields[n]), FALSE) = m
  <2> HIDE DEF n
  <2> QED
    BY <1>6, TabFromField
<1> HIDE DEF I, n
<1>8. behind \subseteq I /\ behind # {}
  BY <1>1
<1>9. m \in behind /\ \A j \in behind \ {m} : ~TabBefore(s, m, j)
  <2> HIDE DEF behind
  <2> QED
    BY <1>1, <1>8, EndsInTabOrder
<1>10. m \in I
  BY <1>8, <1>9
<1> HIDE DEF m
<1>11. m = i
  <2> SUFFICES ASSUME m # i PROVE FALSE
    OBVIOUS
  <2>1. CASE after = {}
    <3>1. before = {}
      BY <1>3, <1>5, <1>6, <2>1
    <3>2. ~TabBefore(s, m, i)
      BY <1>1, <1>9, <3>1
    <3>3. TabBefore(s, i, m)
      BY <1>1, <1>3, <1>10, <3>2
    <3> QED
      BY <1>10, <2>1, <3>3
  <2>2. CASE after # {}
    <3>1. TabBefore(s, i, n)
      BY <1>5, <2>2
    <3>2. i \in before
      BY <1>1, <3>1
    <3>3. TabBefore(s, m, n) /\ ~TabBefore(s, m, i)
      BY <1>9, <3>2
    <3>4. TabBefore(s, i, m) /\ m # n
      BY <1>1, <1>3, <1>6, <1>10, <3>3
    <3>5. m \in ahead \ {n}
      BY <1>10, <2>2, <3>4
    <3> QED
      BY <1>5, <3>3, <3>5
  <2> QED
    BY <2>1, <2>2
<1> QED
  BY <1>2, <1>7, <1>11

-----------------------------------------------------------------------------
(* The keyboard, on any screen.                                            *)

LEMMA FormattedCells ==
    ASSUME NEW s, Formatted(s), NEW cells
    PROVE  Formatted([s EXCEPT !.buf = cells])
<1>1. Screen([s EXCEPT !.buf = cells])
  BY CellsKeep DEF Keeps, Formatted
<1>2. [s EXCEPT !.buf = cells].fields = s.fields
  BY DEF Formatted, Screen, ScreenParts
<1> QED
  BY <1>1, <1>2 DEF Formatted

LEMMA FormattedFill ==
    ASSUME NEW s, Formatted(s), NEW A, NEW ch
    PROVE  Formatted(Fill(s, A, ch))
BY FormattedCells DEF Fill

LEMMA FormattedCursor ==
    ASSUME NEW s, Formatted(s), NEW c \in Spots
    PROVE  Formatted([s EXCEPT !.cursor = c])
<1>1. Screen([s EXCEPT !.cursor = c])
  BY CursorKeeps DEF Keeps, Formatted
<1>2. [s EXCEPT !.cursor = c].fields = s.fields
  BY DEF Formatted, Screen, ScreenParts
<1> QED
  BY <1>1, <1>2 DEF Formatted

LEMMA FormattedFlag ==
    ASSUME NEW s, Formatted(s), NEW i \in DOMAIN s.fields
    PROVE  Formatted([s EXCEPT !.fields[i].mdt = TRUE])
<1> DEFINE f == [s.fields[i] EXCEPT !.mdt = TRUE]
           fields == [s.fields EXCEPT ![i] = f]
<1>1. s.fields \in Seq(LongFields) /\ s.fields[i] \in LongFields
  BY DEF Formatted
<1>2. f \in LongFields
  BY <1>1 DEF LongFields, FieldType
<1>3. [s EXCEPT !.fields[i].mdt = TRUE] = [s EXCEPT !.fields = fields]
  OBVIOUS
<1> HIDE DEF f
<1>4. fields \in Seq(LongFields)
  BY <1>1, <1>2, ExceptSeq
<1> HIDE DEF fields
<1>5. Screen([s EXCEPT !.fields = fields])
  BY <1>4, LongFieldsAreFields, FieldsKeep DEF Keeps, Formatted
<1>6. [s EXCEPT !.fields = fields].fields = fields
  BY DEF Formatted, Screen, ScreenParts
<1> QED
  BY <1>3, <1>4, <1>5, <1>6 DEF Formatted

LEMMA MaxOfFields ==
    ASSUME NEW fields \in Seq(FieldType), NEW I, I \subseteq DOMAIN fields, I # {}
    PROVE  Max(I) \in I
<1>1. Len(fields) \in Nat /\ I \subseteq 0 .. Len(fields)
  OBVIOUS
<1> QED
  BY <1>1, MaxOfNumbers

LEMMA OwnerIsField ==
    ASSUME NEW s, s.fields \in Seq(FieldType), NEW i \in DOMAIN s.fields
    PROVE  /\ MdtOwner(s, i) \in DOMAIN s.fields
           /\ s.fields[i].cont \notin {"middle", "last"} => MdtOwner(s, i) = i
<1>1. GroupFirsts(s, i) \subseteq DOMAIN s.fields
  BY DEF GroupFirsts
<1>2. GroupFirsts(s, i) # {} => Max(GroupFirsts(s, i)) \in DOMAIN s.fields
  BY <1>1, MaxOfFields
<1> QED
  BY <1>2 DEF MdtOwner

LEMMA FormattedMdt ==
    ASSUME NEW s, Formatted(s), NEW i \in DOMAIN s.fields
    PROVE  Formatted(SetFieldMdt(s, i))
<1>1. MdtOwner(s, i) \in DOMAIN s.fields
  BY OwnerIsField, LongFieldsAreFields DEF Formatted
<1> QED
  BY <1>1, FormattedFlag DEF SetFieldMdt

LEMMA MinOfFields ==
    ASSUME NEW fields \in Seq(FieldType), NEW I, I \subseteq DOMAIN fields, I # {}
    PROVE  Min(I) \in I /\ \A k \in I : Min(I) <= k
<1>1. I \subseteq Nat
  OBVIOUS
<1> QED
  BY <1>1, MinOfNumbers

LEMMA EntryIsField ==
    ASSUME NEW s, s.fields \in Seq(FieldType), EntryField(s) # 0
    PROVE  /\ EntryField(s) \in InputFields(s) /\ EntryField(s) \in DOMAIN s.fields
           /\ Offset(s, s.cursor) \in Cells(s, s.fields[EntryField(s)])
<1> DEFINE a == Offset(s, s.cursor)
           holding == {i \in DOMAIN s.fields : a \in Cells(s, s.fields[i])}
<1>1. EntryField(s) = FieldAt(s, a) /\ s.fields[EntryField(s)].input
  BY DEF EntryField, FieldAtCursor
<1>2. holding # {} /\ FieldAt(s, a) = Min(holding)
  BY <1>1 DEF FieldAt
<1>3. holding \subseteq DOMAIN s.fields
  OBVIOUS
<1>4. Min(holding) \in holding
  <2> HIDE DEF holding
  <2> QED
    BY <1>2, <1>3, MinOfFields
<1> QED
  BY <1>1, <1>2, <1>4 DEF InputFields

\* What is written on a screen, and what is flagged, leaves its windows
LEMMA FillAndWindows ==
    ASSUME NEW s, Formatted(s), NEW A, NEW ch
    PROVE  Fill(s, A, ch).windows = s.windows
BY DEF Fill, Formatted, Screen, ScreenParts

LEMMA FlagAndWindows ==
    ASSUME NEW s, Formatted(s), NEW i
    PROVE  SetFieldMdt(s, i).windows = s.windows
BY DEF SetFieldMdt, Formatted, Screen, ScreenParts

\* A terminal
Tty(t) == DOMAIN t = {"s", "park"} /\ Formatted(t.s)

LEMMA UnparkKeeps ==
    ASSUME NEW t, Tty(t)
    PROVE  Tty(Unpark(t)) /\ Unpark(t).s = t.s
BY DEF Tty, Unpark

LEMMA CursorOf ==
    ASSUME NEW t, Tty(t), NEW c \in Spots
    PROVE  /\ Tty([t EXCEPT !.s.cursor = c])
           /\ [t EXCEPT !.s.cursor = c].s = [t.s EXCEPT !.cursor = c]
<1> DEFINE r == [t.s EXCEPT !.cursor = c]
<1>1. [t EXCEPT !.s.cursor = c] = [t EXCEPT !.s = r]
  BY DEF Tty, Formatted, Screen, ScreenParts
<1>2. Formatted(r)
  BY FormattedCursor DEF Tty
<1> HIDE DEF r
<1>3. Tty([t EXCEPT !.s = r]) /\ [t EXCEPT !.s = r].s = r
  BY <1>2 DEF Tty
<1> QED
  BY <1>1, <1>3 DEF r

LEMMA FieldPlace ==
    ASSUME NEW s, Formatted(s), NEW i \in DOMAIN s.fields
    PROVE  Place(s.fields[i]) \in Spots
BY FormattedFields, SpotOf DEF Place, FieldType

LEMMA MoveToKeeps ==
    ASSUME NEW t, Tty(t), NEW i \in DOMAIN t.s.fields
    PROVE  Tty(MoveTo(t, i)) /\ \E c \in Spots : MoveTo(t, i).s = [t.s EXCEPT !.cursor = c]
<1> DEFINE c == Place(t.s.fields[i])
<1>1. MoveTo(t, i) = [t EXCEPT !.s.cursor = c]
  BY DEF MoveTo
<1>2. c \in Spots
  BY FieldPlace DEF Tty
<1> HIDE DEF c
<1> QED
  BY <1>1, <1>2, CursorOf

\* What moves the cursor and no more
Moves(t, u) == Tty(u) /\ (u.s = t.s \/ \E c \in Spots : u.s = [t.s EXCEPT !.cursor = c])

LEMMA TabKeyMoves ==
    ASSUME NEW t, Tty(t), NEW forward \in BOOLEAN
    PROVE  Moves(t, TabKey(t, forward))
<1> DEFINE i == AdjacentInputField(t.s, Offset(t.s, t.s.cursor), forward)
           v == Unpark(t)
<1>1. TabKey(t, forward) = IF i = 0 THEN v ELSE MoveTo(v, i)
  BY DEF TabKey
<1>2. Tty(v) /\ v.s = t.s
  BY UnparkKeeps
<1>3. Sized(t.s) /\ t.s.fields \in Seq(FieldType)
  BY DEF Tty, Formatted, Screen
<1>4. i = 0 \/ i \in InputFields(t.s)
  BY <1>3, TabGoesToInput
<1>5. i # 0 => i \in DOMAIN v.s.fields
  BY <1>2, <1>4 DEF InputFields
<1> HIDE DEF i, v
<1>6. i # 0 => Moves(t, MoveTo(v, i))
  <2>1. i # 0 => Tty(MoveTo(v, i)) /\ \E c \in Spots : MoveTo(v, i).s = [v.s EXCEPT !.cursor = c]
    BY <1>2, <1>5, MoveToKeeps
  <2> QED
    BY <1>2, <2>1 DEF Moves
<1> QED
  BY <1>1, <1>2, <1>6 DEF Moves

LEMMA HomeKeyMoves ==
    ASSUME NEW t, Tty(t)
    PROVE  Moves(t, HomeKey(t))
<1> DEFINE i == EntryField(t.s)
           v == Unpark(t)
<1>1. HomeKey(t) = IF i = 0 THEN v ELSE MoveTo(v, i)
  BY DEF HomeKey
<1>2. Tty(v) /\ v.s = t.s
  BY UnparkKeeps
<1>3. i # 0 => i \in DOMAIN v.s.fields
  BY <1>2, EntryIsField DEF Tty, Formatted, Screen
<1> HIDE DEF i, v
<1>4. i # 0 => Moves(t, MoveTo(v, i))
  BY <1>2, <1>3, MoveToKeeps DEF Moves
<1> QED
  BY <1>1, <1>2, <1>4 DEF Moves

LEMMA WrappedIsNumber ==
    ASSUME NEW n \in Int, NEW size \in Nat \ {0}
    PROVE  Wrapped(n, size) \in Nat
BY DEF Wrapped

LEMMA ArrowKeyMoves ==
    ASSUME NEW t, Tty(t), NEW dir \in {"left", "right", "up", "down"}
    PROVE  Moves(t, ArrowKey(t, dir))
<1> DEFINE s == t.s
           c == s.cursor
           col == c.col + (CASE dir = "left" -> -1 [] dir = "right" -> 1 [] OTHER -> 0)
           row == c.row + (CASE dir = "up" \/ col < 0 -> -1
                             [] dir = "down" \/ (dir = "right" /\ col >= s.cols) -> 1
                             [] OTHER -> 0)
           to == [row |-> Wrapped(row, s.rows),
                  col |-> IF dir \in {"left", "right"} THEN Wrapped(col, s.cols) ELSE col]
           v == Unpark(t)
<1>1. ArrowKey(t, dir) = [v EXCEPT !.s.cursor = to]
  BY DEF ArrowKey
<1>2. c.row \in Nat /\ c.col \in Nat /\ s.rows \in Nat \ {0} /\ s.cols \in Nat \ {0}
  BY DEF Tty, Formatted, Screen, Sized, Placed, Spots
<1>3. col \in Int /\ (dir \notin {"left", "right"} => col \in Nat)
  <2> HIDE DEF c
  <2>1. CASE dir = "left"
    BY <1>2, <2>1
  <2>2. CASE dir = "right"
    BY <1>2, <2>2
  <2>3. CASE dir \notin {"left", "right"}
    BY <1>2, <2>3
  <2> QED
    BY <2>1, <2>2, <2>3
<1> HIDE DEF col
<1>4. row \in Int
  <2> HIDE DEF c
  <2>1. CASE dir = "up" \/ col < 0
    BY <1>2, <2>1
  <2>2. CASE ~(dir = "up" \/ col < 0) /\ (dir = "down" \/ (dir = "right" /\ col >= s.cols))
    BY <1>2, <2>2
  <2>3. CASE ~(dir = "up" \/ col < 0) /\ ~(dir = "down" \/ (dir = "right" /\ col >= s.cols))
    BY <1>2, <2>3
  <2> QED
    BY <2>1, <2>2, <2>3
<1> HIDE DEF row
<1>5. to \in Spots
  <2>1. Wrapped(row, s.rows) \in Nat /\ Wrapped(col, s.cols) \in Nat
    BY <1>2, <1>3, <1>4, WrappedIsNumber
  <2>2. (IF dir \in {"left", "right"} THEN Wrapped(col, s.cols) ELSE col) \in Nat
    BY <1>3, <2>1
  <2> QED
    BY <2>1, <2>2, SpotOf
<1>6. Tty(v) /\ v.s = t.s
  BY UnparkKeeps
<1> HIDE DEF to, v
<1> QED
  BY <1>1, <1>5, <1>6, CursorOf DEF Moves

LEMMA EndKeyMoves ==
    ASSUME NEW t, Tty(t)
    PROVE  Moves(t, EndKey(t))
<1> DEFINE s == t.s
           i == EntryField(s)
           f == s.fields[i]
           inked == {k \in 0 .. f.len - 1 : CharAt(s, Start(s, f) + k) # Blank}
           last == IF inked = {} THEN 0 ELSE Max(inked) + 1
           col == f.col + Min({last, f.len - 1})
           v == Unpark(t)
<1>1. EndKey(t) = IF i = 0 THEN v ELSE [v EXCEPT !.s.cursor.col = col]
  BY DEF EndKey
<1>2. Tty(v) /\ v.s = t.s
  BY UnparkKeeps
<1>3. CASE i = 0
  BY <1>1, <1>2, <1>3 DEF Moves
<1>4. CASE i # 0
  <2>1. i \in DOMAIN s.fields /\ Formatted(s)
    BY <1>4, EntryIsField DEF Tty, Formatted, Screen
  <2>2. f.len \in Nat /\ f.len >= 1 /\ f.col \in Nat
    BY <2>1, FormattedFields DEF FieldType
  <2>3. last \in Nat
    <3>1. inked \subseteq 0 .. f.len - 1 /\ f.len - 1 \in Nat
      BY <2>2
    <3>2. inked # {} => Max(inked) \in 0 .. f.len - 1
      <4> HIDE DEF inked, f
      <4> QED
        BY <3>1, MaxOfNumbers
    <3> HIDE DEF inked, f
    <3> QED
      BY <2>2, <3>2
  <2>4. col \in Nat
    <3> HIDE DEF last, f
    <3>1. f.len - 1 \in Int /\ last \in Int /\ f.len - 1 >= 0
      BY <2>2, <2>3
    <3>2. Min({last, f.len - 1}) \in Nat
      BY <2>3, <3>1, MinOfTwo
    <3> QED
      BY <2>2, <3>2
  <2> HIDE DEF col, v
  <2> DEFINE c == [v.s.cursor EXCEPT !.col = col]
  <2>5. v.s.cursor \in Spots
    BY <1>2 DEF Tty, Formatted, Screen, Placed
  <2>6. c \in Spots
    BY <2>4, <2>5 DEF Spots
  <2>7. [v EXCEPT !.s.cursor.col = col] = [v EXCEPT !.s.cursor = c]
    OBVIOUS
  <2> HIDE DEF c, i
  <2>8. Moves(t, [v EXCEPT !.s.cursor = c])
    BY <1>2, <2>6, CursorOf DEF Moves
  <2> QED
    BY <1>1, <1>4, <2>7, <2>8
<1> QED
  BY <1>3, <1>4

LEMMA SetCursorMoves ==
    ASSUME NEW t, Tty(t), NEW row \in Nat, NEW col \in Nat
    PROVE  Moves(t, SetCursor(t, row, col))
<1> DEFINE r == Max({0, Min({row, t.s.rows - 1})})
           c == Max({0, Min({col, t.s.cols - 1})})
           to == [row |-> r, col |-> c]
           v == Unpark(t)
<1>1. t.s.rows - 1 \in Int /\ t.s.cols - 1 \in Int /\ 0 \in Int
  BY DEF Tty, Formatted, Screen, Sized
<1>2. Min({row, t.s.rows - 1}) \in Int /\ Min({col, t.s.cols - 1}) \in Int
  BY <1>1, MinOfTwo
<1>3. r \in Nat /\ c \in Nat
  <2> DEFINE x == Min({row, t.s.rows - 1})
             y == Min({col, t.s.cols - 1})
  <2> HIDE DEF x, y
  <2>1. x \in Int /\ y \in Int
    BY <1>2 DEF x, y
  <2>2. Max({0, x}) = (IF 0 <= x THEN x ELSE 0) /\ Max({0, y}) = (IF 0 <= y THEN y ELSE 0)
    BY <1>1, <2>1, MaxOfTwo
  <2>3. Max({0, x}) \in Nat /\ Max({0, y}) \in Nat
    BY <2>1, <2>2
  <2> QED
    BY <2>3 DEF x, y
<1> HIDE DEF r, c
<1>4. to \in Spots
  BY <1>3, SpotOf
<1>5. SetCursor(t, row, col) = [v EXCEPT !.s.cursor = to]
  BY DEF SetCursor, r, c
<1>6. Tty(v) /\ v.s = t.s
  BY UnparkKeeps
<1> HIDE DEF to, v
<1> QED
  BY <1>4, <1>5, <1>6, CursorOf DEF Moves

\* New cells and a flag on a field
LEMMA CellsAndFlag ==
    ASSUME NEW s, Formatted(s), NEW cells, NEW i \in DOMAIN s.fields
    PROVE  Formatted([s EXCEPT !.buf = cells, !.fields[i].mdt = TRUE])
<1> DEFINE r == [s EXCEPT !.buf = cells]
<1>1. Formatted(r)
  BY FormattedCells
<1>2. r.fields = s.fields
  BY DEF Formatted, Screen, ScreenParts
<1>3. [s EXCEPT !.buf = cells, !.fields[i].mdt = TRUE] = [r EXCEPT !.fields[i].mdt = TRUE]
  OBVIOUS
<1> HIDE DEF r
<1>4. Formatted([r EXCEPT !.fields[i].mdt = TRUE])
  BY <1>1, <1>2, FormattedFlag
<1> QED
  BY <1>3, <1>4

LEMMA DeleteAtKeeps ==
    ASSUME NEW t, Tty(t), NEW i \in DOMAIN t.s.fields, NEW at
    PROVE  Tty(DeleteAt(t, i, at))
<1> DEFINE end == End(t.s, t.s.fields[i])
           moved == [a \in at .. end - 1 |-> IF a = end - 1 THEN Blank ELSE CharAt(t.s, a + 1)]
           cells == Over(moved, t.s.buf)
           r == [t.s EXCEPT !.buf = cells, !.fields[i].mdt = TRUE]
<1>1. DeleteAt(t, i, at) = [t EXCEPT !.s.buf = cells, !.s.fields[i].mdt = TRUE]
  BY DEF DeleteAt
<1> HIDE DEF cells
<1>2. [t EXCEPT !.s.buf = cells, !.s.fields[i].mdt = TRUE] = [t EXCEPT !.s = r]
  BY DEF Tty, Formatted, Screen, ScreenParts
<1>3. Formatted(r)
  BY CellsAndFlag DEF Tty
<1> HIDE DEF r
<1> QED
  BY <1>1, <1>2, <1>3 DEF Tty

LEMMA DeleteKeyKeeps ==
    ASSUME NEW t, Tty(t)
    PROVE  Tty(DeleteKey(t))
<1> DEFINE i == EntryField(t.s)
           v == Unpark(t)
           at == Offset(t.s, t.s.cursor)
<1>1. DeleteKey(t) = IF i = 0 THEN v ELSE DeleteAt(v, i, at)
  BY DEF DeleteKey
<1>2. Tty(v) /\ v.s = t.s
  BY UnparkKeeps
<1>3. i # 0 => i \in DOMAIN v.s.fields
  BY <1>2, EntryIsField DEF Tty, Formatted, Screen
<1> HIDE DEF i, v, at
<1>4. i # 0 => Tty(DeleteAt(v, i, at))
  BY <1>2, <1>3, DeleteAtKeeps
<1> QED
  BY <1>1, <1>2, <1>4

LEMMA BackspaceKeyKeeps ==
    ASSUME NEW t, Tty(t)
    PROVE  Tty(BackspaceKey(t))
<1> DEFINE i == EntryField(t.s)
           v == Unpark(t)
           at == Offset(t.s, t.s.cursor) - 1
           col == v.s.cursor.col - 1
           c == [v.s.cursor EXCEPT !.col = col]
           w == [v EXCEPT !.s.cursor.col = col]
<1>1. BackspaceKey(t) =
         IF i = 0 \/ (i # 0 /\ t.s.cursor.col <= t.s.fields[i].col) THEN v
         ELSE DeleteAt(w, i, at)
  BY DEF BackspaceKey
<1>2. Tty(v) /\ v.s = t.s
  BY UnparkKeeps
<1>3. CASE i = 0 \/ (i # 0 /\ t.s.cursor.col <= t.s.fields[i].col)
  BY <1>1, <1>2, <1>3
<1>4. CASE ~(i = 0 \/ (i # 0 /\ t.s.cursor.col <= t.s.fields[i].col))
  <2>1. i \in DOMAIN t.s.fields /\ Formatted(t.s)
    BY <1>4, EntryIsField DEF Tty, Formatted, Screen
  <2>2. t.s.fields[i].col \in Nat
    BY <2>1, FormattedFields DEF FieldType
  <2>3. t.s.cursor \in Spots
    BY DEF Tty, Formatted, Screen, Placed
  <2>4. t.s.cursor.col \in Nat /\ t.s.cursor.row \in Nat
    BY <2>3 DEF Spots
  <2>5. col \in Nat
    <3>1. t.s.cursor.col > t.s.fields[i].col
      BY <1>4, <2>2, <2>4
    <3> HIDE DEF v, i
    <3> QED
      BY <1>2, <2>2, <2>4, <3>1
  <2>6. c \in Spots
    BY <1>2, <2>3, <2>5 DEF Spots
  <2>7. w = [v EXCEPT !.s.cursor = c]
    OBVIOUS
  <2> HIDE DEF c, v, i, at
  <2>8. Tty([v EXCEPT !.s.cursor = c]) /\ [v EXCEPT !.s.cursor = c].s = [v.s EXCEPT !.cursor = c]
    BY <1>2, <2>6, CursorOf
  <2>9. [v.s EXCEPT !.cursor = c].fields = t.s.fields
    BY <1>2 DEF Tty, Formatted, Screen, ScreenParts
  <2>10. Tty(w) /\ i \in DOMAIN w.s.fields
    BY <2>1, <2>7, <2>8, <2>9
  <2> HIDE DEF w
  <2>11. Tty(DeleteAt(w, i, at))
    BY <2>10, DeleteAtKeeps
  <2> QED
    BY <1>1, <1>4, <2>11
<1> QED
  BY <1>3, <1>4

LEMMA InsertKeyKeeps ==
    ASSUME NEW t, Tty(t)
    PROVE  Tty(InsertKey(t)) /\ InsertKey(t).s.buf = t.s.buf /\ InsertKey(t).s.fields = t.s.fields
           /\ InsertKey(t).s.rows = t.s.rows /\ InsertKey(t).s.cols = t.s.cols
           /\ InsertKey(t).s.errorCursor = t.s.errorCursor
           /\ InsertKey(t).s.msgLine = t.s.msgLine
           /\ InsertKey(t).s.cursor = t.s.cursor
<1> DEFINE v == Unpark(t)
           insert == ~v.s.insert
           r == [v.s EXCEPT !.insert = insert]
<1>1. InsertKey(t) = [v EXCEPT !.s.insert = insert]
  BY DEF InsertKey
<1>2. Tty(v) /\ v.s = t.s
  BY UnparkKeeps
<1> HIDE DEF v, insert
<1>3. [v EXCEPT !.s.insert = insert] = [v EXCEPT !.s = r]
  BY <1>2 DEF Tty, Formatted, Screen, ScreenParts
<1>6. insert \in BOOLEAN
  BY DEF insert
<1>4. Formatted(r) /\ r.buf = t.s.buf /\ r.fields = t.s.fields
      /\ r.rows = t.s.rows /\ r.cols = t.s.cols
      /\ r.errorCursor = t.s.errorCursor /\ r.msgLine = t.s.msgLine /\ r.cursor = t.s.cursor
  BY <1>2, <1>6 DEF Tty, Formatted, Screen, Sized, Placed, ScreenParts
<1> HIDE DEF r
<1> QED
  BY <1>1, <1>2, <1>3, <1>4 DEF Tty

LEMMA EraseEOFKeeps ==
    ASSUME NEW t, Tty(t)
    PROVE  Tty(EraseEOF(t))
<1> DEFINE s == t.s
           i == EntryField(s)
           at == Offset(s, s.cursor)
           A == at .. End(s, s.fields[i]) - 1
           filled == Fill(s, A, Blank)
           r == [filled EXCEPT !.fields[i].mdt = TRUE]
<1>1. EraseEOF(t) = IF i = 0 THEN t ELSE [t EXCEPT !.s = r]
  BY DEF EraseEOF
<1>2. Formatted(s)
  BY DEF Tty
<1>3. i # 0 => i \in DOMAIN s.fields
  BY <1>2, EntryIsField DEF Formatted, Screen
<1> HIDE DEF A
<1>4. Formatted(filled) /\ filled.fields = s.fields
  BY <1>2, FormattedFill, FillIsNarrow DEF Formatted, Screen
<1> HIDE DEF filled
<1>5. i # 0 => Formatted(r)
  <2> HIDE DEF i
  <2> QED
    BY <1>3, <1>4, FormattedFlag
<1> HIDE DEF i, r
<1> QED
  BY <1>1, <1>5 DEF Tty

LEMMA SetFieldValueKeeps ==
    ASSUME NEW s, Formatted(s), NEW i \in DOMAIN s.fields, NEW value
    PROVE  Formatted(SetFieldValue(s, i, value))
<1> DEFINE f == s.fields[i]
           text == [a \in Cells(s, f) |->
                      LET k == a - Start(s, f) + 1
                      IN  IF k <= Len(value) THEN value[k] ELSE Blank]
           cells == Over(text, s.buf)
           r == [s EXCEPT !.buf = cells]
<1>1. SetFieldValue(s, i, value) = SetFieldMdt(r, i)
  BY DEF SetFieldValue
<1> HIDE DEF cells
<1>2. Formatted(r) /\ r.fields = s.fields
  BY FormattedCells DEF Formatted, Screen, ScreenParts
<1> HIDE DEF r
<1> QED
  BY <1>1, <1>2, FormattedMdt

LEMMA ErasedToEndKeeps ==
    ASSUME NEW t, Tty(t), NEW f, NEW at
    PROVE  Formatted(ErasedToEnd(t, f, at)) /\ ErasedToEnd(t, f, at).fields = t.s.fields
<1> DEFINE A == (at .. End(t.s, f) - 1) \cap (0 .. Size(t.s) - 1)
           r == Fill(t.s, A, Blank)
<1>1. ErasedToEnd(t, f, at) = t.s \/ ErasedToEnd(t, f, at) = r
  BY DEF ErasedToEnd, FillOnScreen
<1> HIDE DEF A
<1>2. Formatted(r) /\ r.fields = t.s.fields
  BY FormattedFill, FillIsNarrow DEF Tty, Formatted, Screen
<1> HIDE DEF r
<1> QED
  BY <1>1, <1>2 DEF Tty

LEMMA FieldExitKeeps ==
    ASSUME NEW t, Tty(t)
    PROVE  Tty(FieldExit(t))
<1> DEFINE i == EntryField(t.s)
           r == ErasedToEnd(t, t.s.fields[i], Offset(t.s, t.s.cursor))
           text == Trimmed(FieldValue(r, r.fields[i]), {Blank})
           u == Adjusted(r, i, text)
<1>1. FieldExit(t) = IF i = 0 THEN t ELSE [s |-> u, park |-> None]
  BY DEF FieldExit, ExitField, AdjustField
<1>2. Formatted(r) /\ r.fields = t.s.fields
  BY ErasedToEndKeeps
<1>3. i # 0 => i \in DOMAIN r.fields
  BY <1>2, EntryIsField DEF Tty, Formatted, Screen
<1> HIDE DEF i, r, text
<1>4. i # 0 => Formatted(u)
  <2> SUFFICES ASSUME i # 0 PROVE Formatted(u)
    OBVIOUS
  <2>1. (\E value : u = SetFieldValue(r, i, value)) \/ u = SetFieldMdt(r, i)
    BY DEF Adjusted
  <2> QED
    BY <1>2, <1>3, <2>1, SetFieldValueKeeps, FormattedMdt
<1> HIDE DEF u
<1> QED
  BY <1>1, <1>4 DEF Tty

LEMMA FieldExitKeyKeeps ==
    ASSUME NEW t, Tty(t)
    PROVE  Tty(FieldExitKey(t))
<1>1. Tty(Unpark(t))
  BY UnparkKeeps
<1>2. Tty(FieldExit(Unpark(t)))
  BY <1>1, FieldExitKeeps
<1> QED
  BY <1>2, TabKeyMoves DEF FieldExitKey, Moves

LEMMA ResetKeyKeeps ==
    ASSUME NEW t, Tty(t)
    PROVE  Tty(ResetKey(t))
<1> DEFINE s == [t.s EXCEPT !.locked = FALSE]
           text == s.msgLine.text
           restored == Over(text, s.buf)
           last == RowCells(s, s.rows - 1)
           line == IF s.msgLine # None THEN RestoreMsgLine(s) ELSE ClearErrorLine(s)
           r == IF s.errorCursor = None THEN line
                ELSE [line EXCEPT !.cursor = s.errorCursor, !.errorCursor = None]
<1>1. ResetKey(t) = [s |-> r, park |-> None]
  BY DEF ResetKey
<1>2. Formatted(s)
  BY DEF Tty, Formatted, Screen, Sized, Placed, ScreenParts
<1> HIDE DEF s
<1>3. RestoreMsgLine(s) = [s EXCEPT !.buf = restored, !.msgLine = None]
  BY DEF RestoreMsgLine
<1> HIDE DEF restored, last
<1>4. Formatted([s EXCEPT !.buf = restored, !.msgLine = None])
  BY <1>2 DEF Formatted, Screen, Sized, Placed, ScreenParts
<1>5. Formatted(ClearErrorLine(s))
  BY <1>2, FormattedFill DEF ClearErrorLine
<1>6. Formatted(line)
  BY <1>3, <1>4, <1>5
<1>7. s.errorCursor # None => s.errorCursor \in Spots
  BY <1>2 DEF Formatted, Screen, Placed
<1> HIDE DEF line
<1>8. Formatted(r)
  <2>1. CASE s.errorCursor = None
    BY <1>6, <2>1
  <2>2. CASE s.errorCursor # None
    <3>1. Formatted([line EXCEPT !.cursor = s.errorCursor, !.errorCursor = None])
      BY <1>6, <1>7, <2>2 DEF Formatted, Screen, Sized, Placed, ScreenParts
    <3> QED
      BY <2>2, <3>1
  <2> QED
    BY <2>1, <2>2
<1> HIDE DEF r
<1> QED
  BY <1>1, <1>8 DEF Tty

LEMMA AidKeyKeeps ==
    ASSUME NEW t, Tty(t), NEW key
    PROVE  Tty(AidKey(t, key)) /\ AidKey(t, key).s.buf = t.s.buf
           /\ AidKey(t, key).s.fields = t.s.fields
           /\ AidKey(t, key).s.rows = t.s.rows /\ AidKey(t, key).s.cols = t.s.cols
           /\ AidKey(t, key).s.errorCursor = t.s.errorCursor
           /\ AidKey(t, key).s.msgLine = t.s.msgLine
           /\ AidKey(t, key).s.cursor = t.s.cursor
<1> DEFINE v == Unpark(t)
           s == t.s
           r == CASE key \in SideKeys -> s
                  [] key \in InterruptKeys -> [s EXCEPT !.locked = TRUE]
                  [] OTHER -> [s EXCEPT !.locked = TRUE, !.readOp = "none"]
           a == [s EXCEPT !.locked = TRUE]
           b == [s EXCEPT !.locked = TRUE, !.readOp = "none"]
<1>1. AidKey(t, key) = [v EXCEPT !.s = r]
  BY DEF AidKey
<1>2. Tty(v) /\ Formatted(s)
  BY UnparkKeeps DEF Tty
<1>3. r = s \/ r = a \/ r = b
  OBVIOUS
<1> HIDE DEF s, r, v
<1>4. Formatted(a) /\ a.buf = s.buf /\ a.fields = s.fields /\ a.rows = s.rows /\ a.cols = s.cols
      /\ a.errorCursor = s.errorCursor /\ a.msgLine = s.msgLine /\ a.cursor = s.cursor
  BY <1>2 DEF Formatted, Screen, Sized, Placed, ScreenParts
<1>5. Formatted(b) /\ b.buf = s.buf /\ b.fields = s.fields /\ b.rows = s.rows /\ b.cols = s.cols
      /\ b.errorCursor = s.errorCursor /\ b.msgLine = s.msgLine /\ b.cursor = s.cursor
  BY <1>2 DEF Formatted, Screen, Sized, Placed, ScreenParts
<1> HIDE DEF a, b
<1>6. Formatted(r) /\ r.buf = s.buf /\ r.fields = s.fields /\ r.rows = s.rows /\ r.cols = s.cols
      /\ r.errorCursor = s.errorCursor /\ r.msgLine = s.msgLine /\ r.cursor = s.cursor
  BY <1>2, <1>3, <1>4, <1>5
<1>7. Tty([v EXCEPT !.s = r]) /\ [v EXCEPT !.s = r].s = r
  BY <1>2, <1>6 DEF Tty
<1> QED
  BY <1>1, <1>6, <1>7 DEF s

-----------------------------------------------------------------------------
(* Typing, one character after the other.                                  *)

\* What is being typed is in a field
Entering(u) ==
    /\ DOMAIN u = {"s", "i", "at", "past", "typed", "placed"}
    /\ Formatted(u.s) /\ u.i \in DOMAIN u.s.fields /\ u.at \in Nat

LEMMA PutCharKeeps ==
    ASSUME NEW u, Entering(u), NEW ch
    PROVE  Entering(PutChar(u, ch)) /\ PutChar(u, ch).s.windows = u.s.windows
<1> DEFINE shifted == [u.s EXCEPT !.buf =
                          Over([a \in u.at + 1 .. End(u.s, u.s.fields[u.i]) - 1 |->
                                  CharAt(u.s, a - 1)], @)]
           base == IF u.s.insert /\ CharAt(u.s, u.at) # Blank
                   THEN ShiftRight(u.s, u.i, u.at) ELSE u.s
           r == Fill(base, {u.at}, ch)
<1>1. PutChar(u, ch) = [u EXCEPT !.s = r, !.at = @ + 1, !.typed = TRUE]
  BY DEF PutChar
<1>2. ShiftRight(u.s, u.i, u.at) = shifted
  BY DEF ShiftRight
<1>3. Formatted(shifted) /\ shifted.fields = u.s.fields /\ shifted.windows = u.s.windows
  <2> DEFINE cells == Over([a \in u.at + 1 .. End(u.s, u.s.fields[u.i]) - 1 |->
                              CharAt(u.s, a - 1)], u.s.buf)
  <2>1. shifted = [u.s EXCEPT !.buf = cells]
    OBVIOUS
  <2> HIDE DEF cells
  <2>2. Formatted([u.s EXCEPT !.buf = cells])
    BY FormattedCells DEF Entering
  <2>3. /\ [u.s EXCEPT !.buf = cells].fields = u.s.fields
        /\ [u.s EXCEPT !.buf = cells].windows = u.s.windows
    BY DEF Entering, Formatted, Screen, ScreenParts
  <2> QED
    BY <2>1, <2>2, <2>3
<1> HIDE DEF shifted
<1>4. Formatted(base) /\ base.fields = u.s.fields /\ base.windows = u.s.windows
  BY <1>2, <1>3 DEF Entering
<1> HIDE DEF base
<1>5. Formatted(r) /\ r.fields = u.s.fields /\ r.windows = u.s.windows
  BY <1>4, FormattedFill, FillIsNarrow, FillAndWindows DEF Formatted, Screen
<1> HIDE DEF r
<1> QED
  BY <1>1, <1>5 DEF Entering

LEMMA FlagKeepsPlaces ==
    ASSUME NEW s, Formatted(s), NEW i \in DOMAIN s.fields
    PROVE  /\ DOMAIN SetFieldMdt(s, i).fields = DOMAIN s.fields
           /\ SetFieldMdt(s, i).cols = s.cols
           /\ \A j \in DOMAIN s.fields :
                 Start(s, SetFieldMdt(s, i).fields[j]) = Start(s, s.fields[j])
<1> DEFINE o == MdtOwner(s, i)
           f == [s.fields[o] EXCEPT !.mdt = TRUE]
           fields == [s.fields EXCEPT ![o] = f]
<1>1. SetFieldMdt(s, i) = [s EXCEPT !.fields = fields]
  BY DEF SetFieldMdt
<1>2. o \in DOMAIN s.fields
  BY OwnerIsField, LongFieldsAreFields DEF Formatted
<1>3. s.fields[o] \in FieldType
  BY <1>2, FormattedFields
<1>4. f.row = s.fields[o].row /\ f.col = s.fields[o].col
  BY <1>3 DEF FieldType
<1> HIDE DEF f, o
<1>5. DOMAIN fields = DOMAIN s.fields
      /\ \A j \in DOMAIN s.fields : fields[j].row = s.fields[j].row /\ fields[j].col = s.fields[j].col
  BY <1>4 DEF Formatted
<1> HIDE DEF fields
<1>6. [s EXCEPT !.fields = fields].fields = fields /\ [s EXCEPT !.fields = fields].cols = s.cols
  BY DEF Formatted, Screen, ScreenParts
<1> QED
  BY <1>1, <1>5, <1>6 DEF Start, Offset

LEMMA EnterFieldKeeps ==
    ASSUME NEW u, Entering(u), NEW next \in DOMAIN u.s.fields \cup {0}
    PROVE  Entering(EnterField(u, next)) /\ EnterField(u, next).s.windows = u.s.windows
<1>1. CASE next = 0
  <2>1. EnterField(u, next) = [u EXCEPT !.placed = FALSE]
    BY <1>1 DEF EnterField
  <2> QED
    BY <2>1 DEF Entering
<1>2. CASE next # 0
  <2> DEFINE r == IF u.typed THEN SetFieldMdt(u.s, u.i) ELSE u.s
             at == Start(u.s, u.s.fields[next])
  <2>1. EnterField(u, next) = [u EXCEPT !.s = r, !.i = next, !.at = at, !.past = FALSE]
    BY <1>2 DEF EnterField
  <2>2. Formatted(r) /\ DOMAIN r.fields = DOMAIN u.s.fields /\ r.windows = u.s.windows
    BY FormattedMdt, FlagKeepsPlaces, FlagAndWindows DEF Entering
  <2>3. next \in DOMAIN u.s.fields /\ at \in Nat
    BY <1>2, FormattedFields DEF Entering
  <2> HIDE DEF r, at
  <2> QED
    BY <2>1, <2>2, <2>3 DEF Entering
<1> QED
  BY <1>1, <1>2

LEMMA AdvanceGoesToField ==
    ASSUME NEW s, Formatted(s), NEW i
    PROVE  AdvanceTarget(s, i) \in InputFields(s) \cup {0}
<1>1. LET next == AdjacentInputField(s, Start(s, s.fields[i]), TRUE)
      IN  next = 0 \/ next \in InputFields(s)
  BY TabGoesToInput DEF Formatted, Screen
<1> QED
  BY <1>1 DEF AdvanceTarget, OtherThan

LEMMA TypeCharKeeps ==
    ASSUME NEW u, Entering(u), NEW ch, NEW advance \in BOOLEAN
    PROVE  Entering(TypeChar(u, ch, advance)) /\ TypeChar(u, ch, advance).s.windows = u.s.windows
<1> DEFINE next == IF advance THEN AdvanceTarget(u.s, u.i) ELSE 0
           v == IF u.placed /\ Full(u) THEN EnterField(u, next) ELSE u
<1>1. TypeChar(u, ch, advance) = IF v.placed THEN PutChar(v, ch) ELSE v
  BY DEF TypeChar, PutIfPlaced
<1>2. next \in DOMAIN u.s.fields \cup {0}
  BY AdvanceGoesToField DEF Entering, InputFields
<1> HIDE DEF next
<1>3. Entering(v) /\ v.s.windows = u.s.windows
  BY <1>2, EnterFieldKeeps
<1> HIDE DEF v
<1> QED
  BY <1>1, <1>3, PutCharKeeps

LEMMA CursorIsNumber ==
    ASSUME NEW s, Screen(s)
    PROVE  Offset(s, s.cursor) \in Nat
<1>1. s.cursor.row \in Nat /\ s.cursor.col \in Nat /\ s.cols \in Nat
  BY DEF Screen, Placed, Sized, Spots
<1>2. s.cursor.row * s.cols \in Nat
  BY <1>1
<1> QED
  BY <1>1, <1>2 DEF Offset

LEMMA TypedTextKeeps ==
    ASSUME NEW t, Tty(t), EntryField(t.s) # 0, NEW text \in Seq(STRING), NEW advance \in BOOLEAN
    PROVE  /\ Entering(TypedText(t, text, advance))
           /\ TypedText(t, text, advance).s.windows = t.s.windows
<1> DEFINE at == Offset(t.s, t.s.cursor)
           i == EntryField(t.s)
           base == [s |-> t.s, i |-> i, at |-> at, typed |-> FALSE, placed |-> TRUE,
                    past |-> t.park = at /\ at = End(t.s, t.s.fields[i]) - 1]
           kind == IF advance THEN "advance" ELSE "type"
<1>1. TypedText(t, text, advance)
         = FoldLeft(LAMBDA u, ch : TypeChar(u, ch, advance), base, text)
  BY DEF TypedText
<1>2. Entering(base) /\ base.s = t.s
  <2>1. i \in DOMAIN t.s.fields
    BY EntryIsField DEF Tty, Formatted, Screen
  <2>2. at \in Nat
    <3>1. Screen(t.s)
      BY DEF Tty, Formatted
    <3> QED
      BY <3>1, CursorIsNumber
  <2> HIDE DEF i, at
  <2> QED
    BY <2>1, <2>2 DEF Entering, Tty
<1> HIDE DEF base
<1>3. DOMAIN text = 1 .. Len(text) /\ Len(text) \in Nat
  OBVIOUS
<1>4. FoldLeft(LAMBDA u, ch : TypeChar(u, ch, advance), base, text) = Folded(kind, base, text)
  BY <1>3, FoldOfTyping
<1>5. \E g : Walk(kind, base, text, g)
  <2> HIDE DEF kind
  <2> QED
    BY <1>3, StepByStep
<1>6. PICK g : /\ g[0] = base
               /\ \A k \in 1 .. Len(text) : g[k] = Step(kind, g[k - 1], text[k])
               /\ Folded(kind, base, text) = g[Len(text)]
  BY <1>5 DEF Walk
<1> DEFINE P == {k \in 0 .. Len(text) : Entering(g[k]) /\ g[k].s.windows = t.s.windows}
<1>7. 0 \in P
  BY <1>2, <1>3, <1>6
<1>8. \A k \in 1 .. Len(text) : k - 1 \in P => k \in P
  <2> SUFFICES ASSUME NEW k \in 1 .. Len(text), k - 1 \in P PROVE k \in P
    OBVIOUS
  <2>1. g[k] = TypeChar(g[k - 1], text[k], advance)
    BY <1>6 DEF Step
  <2>2. Entering(g[k - 1]) /\ g[k - 1].s.windows = t.s.windows /\ k \in 0 .. Len(text)
    BY <1>3
  <2>3. /\ Entering(TypeChar(g[k - 1], text[k], advance))
        /\ TypeChar(g[k - 1], text[k], advance).s.windows = g[k - 1].s.windows
    BY <2>2, TypeCharKeeps
  <2> QED
    BY <2>1, <2>2, <2>3
<1>9. Len(text) \in P
  <2> HIDE DEF P
  <2>1. \A k \in 0 .. Len(text) : k \in P
    BY <1>3, <1>7, <1>8, UpTo
  <2> QED
    BY <1>3, <2>1
<1> QED
  BY <1>1, <1>4, <1>6, <1>9

LEMMA InsertTextKeeps ==
    ASSUME NEW t, Tty(t), NEW text \in Seq(STRING), NEW advance \in BOOLEAN
    PROVE  Tty(InsertText(t, text, advance))
<1>1. CASE EntryField(t.s) = 0
  BY <1>1, UnparkKeeps DEF InsertText
<1>2. CASE EntryField(t.s) # 0
  <2> DEFINE u == TypedText(t, text, advance)
             end == End(u.s, u.s.fields[u.i])
             at == IF u.at < end THEN u.at ELSE end - 1
             parked == IF u.past \/ u.at >= end THEN end - 1 ELSE None
             moved == [u.s EXCEPT !.cursor = ToRowCol(u.s, at)]
             r == SetFieldMdt(moved, u.i)
  <2>1. InsertText(t, text, advance) = [s |-> r, park |-> parked]
    BY <1>2 DEF InsertText, Typed
  <2>2. Entering(u)
    BY <1>2, TypedTextKeeps
  <2> HIDE DEF u
  <2>3. at \in Nat
    <3>1. end \in Nat /\ end >= 1 /\ u.at \in Nat
      BY <2>2, FormattedFields DEF Entering, End
    <3> HIDE DEF end
    <3> QED
      BY <3>1
  <2> HIDE DEF at
  <2>4. ToRowCol(u.s, at) \in Spots
    BY <2>2, <2>3, ToRowColIsSpot DEF Entering, Formatted, Screen
  <2>5. Formatted(moved) /\ moved.fields = u.s.fields
    BY <2>2, <2>4, FormattedCursor DEF Entering, Formatted, Screen, ScreenParts
  <2> HIDE DEF moved
  <2>6. Formatted(r)
    BY <2>2, <2>5, FormattedMdt DEF Entering
  <2> HIDE DEF r, parked
  <2> QED
    BY <2>1, <2>6 DEF Tty
<1> QED
  BY <1>1, <1>2

-----------------------------------------------------------------------------
(* No key and no text opens or closes a window; the park is forgotten, or  *)
(* is the last cell of a field that typing filled.                         *)

Parked(cell) == cell \in Nat \cup {None}

Beside(t, u) == u.s.windows = t.s.windows /\ (Parked(t.park) => Parked(u.park))

LEMMA UnparkBeside ==
    ASSUME NEW t, Tty(t)
    PROVE  Unpark(t).s = t.s /\ Unpark(t).park = None /\ DOMAIN Unpark(t) = {"s", "park"}
BY DEF Tty, Unpark

LEMMA MovedBeside ==
    ASSUME NEW t, Tty(t), NEW c
    PROVE  /\ [t EXCEPT !.s.cursor = c].s.windows = t.s.windows
           /\ [t EXCEPT !.s.cursor = c].park = t.park
BY DEF Tty, Formatted, Screen, ScreenParts

LEMMA TabKeyBeside ==
    ASSUME NEW t, Tty(t), NEW forward
    PROVE  Beside(t, TabKey(t, forward))
<1> DEFINE i == AdjacentInputField(t.s, Offset(t.s, t.s.cursor), forward)
           v == Unpark(t)
           c == Place(v.s.fields[i])
<1>1. TabKey(t, forward) = v \/ TabKey(t, forward) = [v EXCEPT !.s.cursor = c]
  BY DEF TabKey, MoveTo
<1>2. Tty(v) /\ v.s = t.s /\ v.park = None
  BY UnparkKeeps, UnparkBeside
<1> HIDE DEF v, c
<1>3. [v EXCEPT !.s.cursor = c].s.windows = v.s.windows /\ [v EXCEPT !.s.cursor = c].park = v.park
  BY <1>2, MovedBeside
<1> QED
  BY <1>1, <1>2, <1>3 DEF Beside, Parked

LEMMA HomeKeyBeside ==
    ASSUME NEW t, Tty(t)
    PROVE  Beside(t, HomeKey(t))
<1> DEFINE v == Unpark(t)
           c == Place(v.s.fields[EntryField(t.s)])
<1>1. HomeKey(t) = v \/ HomeKey(t) = [v EXCEPT !.s.cursor = c]
  BY DEF HomeKey, MoveTo
<1>2. Tty(v) /\ v.s = t.s /\ v.park = None
  BY UnparkKeeps, UnparkBeside
<1> HIDE DEF v, c
<1>3. [v EXCEPT !.s.cursor = c].s.windows = v.s.windows /\ [v EXCEPT !.s.cursor = c].park = v.park
  BY <1>2, MovedBeside
<1> QED
  BY <1>1, <1>2, <1>3 DEF Beside, Parked

LEMMA ArrowKeyBeside ==
    ASSUME NEW t, Tty(t), NEW dir
    PROVE  Beside(t, ArrowKey(t, dir))
<1> DEFINE v == Unpark(t)
<1>1. \E c : ArrowKey(t, dir) = [v EXCEPT !.s.cursor = c]
  BY DEF ArrowKey
<1>2. Tty(v) /\ v.s = t.s /\ v.park = None
  BY UnparkKeeps, UnparkBeside
<1> HIDE DEF v
<1> QED
  BY <1>1, <1>2, MovedBeside DEF Beside, Parked

LEMMA SetCursorBeside ==
    ASSUME NEW t, Tty(t), NEW row, NEW col
    PROVE  Beside(t, SetCursor(t, row, col))
<1> DEFINE v == Unpark(t)
<1>1. \E c : SetCursor(t, row, col) = [v EXCEPT !.s.cursor = c]
  BY DEF SetCursor
<1>2. Tty(v) /\ v.s = t.s /\ v.park = None
  BY UnparkKeeps, UnparkBeside
<1> HIDE DEF v
<1> QED
  BY <1>1, <1>2, MovedBeside DEF Beside, Parked

LEMMA EndKeyBeside ==
    ASSUME NEW t, Tty(t)
    PROVE  Beside(t, EndKey(t))
<1> DEFINE v == Unpark(t)
<1>1. EndKey(t) = v \/ \E col : EndKey(t) = [v EXCEPT !.s.cursor = [@ EXCEPT !.col = col]]
  BY DEF EndKey
<1>2. Tty(v) /\ v.s = t.s /\ v.park = None
  BY UnparkKeeps, UnparkBeside
<1> HIDE DEF v
<1>3. CASE EndKey(t) = v
  BY <1>2, <1>3 DEF Beside, Parked
<1>4. ASSUME NEW c, EndKey(t) = [v EXCEPT !.s.cursor = c]
      PROVE  Beside(t, EndKey(t))
  <2>1. [v EXCEPT !.s.cursor = c].s.windows = v.s.windows
        /\ [v EXCEPT !.s.cursor = c].park = v.park
    BY <1>2, MovedBeside
  <2> QED
    BY <1>2, <1>4, <2>1 DEF Beside, Parked
<1> QED
  BY <1>1, <1>3, <1>4

LEMMA InsertKeyBeside ==
    ASSUME NEW t, Tty(t)
    PROVE  Beside(t, InsertKey(t))
<1>1. Tty(Unpark(t)) /\ Unpark(t).s = t.s /\ Unpark(t).park = None
  BY UnparkKeeps, UnparkBeside
<1> QED
  BY <1>1 DEF InsertKey, Beside, Parked, Tty, Formatted, Screen, ScreenParts

LEMMA DeleteAtBeside ==
    ASSUME NEW t, DOMAIN t = {"s", "park"}, DOMAIN t.s = ScreenParts, NEW i, NEW at
    PROVE  DeleteAt(t, i, at).s.windows = t.s.windows /\ DeleteAt(t, i, at).park = t.park
<1>1. PICK cells : DeleteAt(t, i, at) = [t EXCEPT !.s.buf = cells, !.s.fields[i].mdt = TRUE]
  BY DEF DeleteAt
<1> DEFINE r == [t.s EXCEPT !.buf = cells, !.fields[i].mdt = TRUE]
<1>2. DeleteAt(t, i, at) = [t EXCEPT !.s = r]
  BY <1>1 DEF ScreenParts
<1>3. r.windows = t.s.windows
  BY DEF ScreenParts
<1> HIDE DEF r
<1> QED
  BY <1>2, <1>3

LEMMA DeleteKeyBeside ==
    ASSUME NEW t, Tty(t)
    PROVE  Beside(t, DeleteKey(t))
<1> DEFINE v == Unpark(t)
<1>1. DeleteKey(t) = v \/ \E i, at : DeleteKey(t) = DeleteAt(v, i, at)
  BY DEF DeleteKey
<1>2. Tty(v) /\ v.s = t.s /\ v.park = None
  BY UnparkKeeps, UnparkBeside
<1> HIDE DEF v
<1>3. DOMAIN v = {"s", "park"} /\ DOMAIN v.s = ScreenParts
  BY <1>2 DEF Tty, Formatted, Screen
<1> QED
  BY <1>1, <1>2, <1>3, DeleteAtBeside DEF Beside, Parked

LEMMA BackspaceKeyBeside ==
    ASSUME NEW t, Tty(t)
    PROVE  Beside(t, BackspaceKey(t))
<1> DEFINE v == Unpark(t)
           w == [v EXCEPT !.s.cursor.col = @ - 1]
<1>1. BackspaceKey(t) = v \/ \E i, at : BackspaceKey(t) = DeleteAt(w, i, at)
  BY DEF BackspaceKey
<1>2. Tty(v) /\ v.s = t.s /\ v.park = None
  BY UnparkKeeps, UnparkBeside
<1>3. /\ DOMAIN w = {"s", "park"} /\ DOMAIN w.s = ScreenParts
      /\ w.s.windows = v.s.windows /\ w.park = v.park
  <2> HIDE DEF v
  <2> QED
    BY <1>2 DEF Tty, Formatted, Screen, ScreenParts
<1> HIDE DEF w, v
<1> QED
  BY <1>1, <1>2, <1>3, DeleteAtBeside DEF Beside, Parked

LEMMA EraseEOFBeside ==
    ASSUME NEW t, Tty(t)
    PROVE  Beside(t, EraseEOF(t))
<1> DEFINE i == EntryField(t.s)
           A == Offset(t.s, t.s.cursor) .. End(t.s, t.s.fields[i]) - 1
           filled == Fill(t.s, A, Blank)
           r == [filled EXCEPT !.fields[i].mdt = TRUE]
<1>1. EraseEOF(t) = t \/ EraseEOF(t) = [t EXCEPT !.s = r]
  BY DEF EraseEOF
<1>2. Formatted(filled) /\ filled.windows = t.s.windows
  BY FormattedFill, FillAndWindows DEF Tty
<1> HIDE DEF filled, i
<1>3. r.windows = t.s.windows
  BY <1>2 DEF Formatted, Screen, ScreenParts
<1> HIDE DEF r
<1> QED
  BY <1>1, <1>3 DEF Beside, Tty

LEMMA SetFieldValueAndWindows ==
    ASSUME NEW s, Formatted(s), NEW i, NEW value
    PROVE  SetFieldValue(s, i, value).windows = s.windows
<1>1. \E cells : SetFieldValue(s, i, value) = SetFieldMdt([s EXCEPT !.buf = cells], i)
  BY DEF SetFieldValue
<1>2. PICK cells : SetFieldValue(s, i, value) = SetFieldMdt([s EXCEPT !.buf = cells], i)
  BY <1>1
<1>3. Formatted([s EXCEPT !.buf = cells]) /\ [s EXCEPT !.buf = cells].windows = s.windows
  BY FormattedCells DEF Formatted, Screen, ScreenParts
<1> QED
  BY <1>2, <1>3, FlagAndWindows

LEMMA FieldExitBeside ==
    ASSUME NEW t, Tty(t)
    PROVE  Beside(t, FieldExit(t))
<1> DEFINE i == EntryField(t.s)
           A == (Offset(t.s, t.s.cursor) .. End(t.s, t.s.fields[i]) - 1) \cap (0 .. Size(t.s) - 1)
           r == ErasedToEnd(t, t.s.fields[i], Offset(t.s, t.s.cursor))
           u == AdjustField(r, i)
<1>1. FieldExit(t) = t \/ FieldExit(t) = [s |-> u, park |-> None]
  BY DEF FieldExit, ExitField
<1>2. Formatted(r)
  BY ErasedToEndKeeps
<1>3. r.windows = t.s.windows
  <2>1. r = t.s \/ r = Fill(t.s, A, Blank)
    BY DEF ErasedToEnd, FillOnScreen
  <2> HIDE DEF r, A
  <2> QED
    BY <2>1, FillAndWindows DEF Tty
<1> HIDE DEF r
<1>4. (\E value : u = SetFieldValue(r, i, value)) \/ u = SetFieldMdt(r, i)
  BY DEF AdjustField, Adjusted
<1> HIDE DEF u, i
<1>5. u.windows = t.s.windows
  BY <1>2, <1>3, <1>4, SetFieldValueAndWindows, FlagAndWindows
<1> QED
  BY <1>1, <1>5 DEF Beside, Parked

LEMMA FieldExitKeyBeside ==
    ASSUME NEW t, Tty(t)
    PROVE  Beside(t, FieldExitKey(t))
<1>1. Tty(Unpark(t)) /\ Unpark(t).s = t.s /\ Unpark(t).park = None
  BY UnparkKeeps, UnparkBeside
<1>2. Tty(FieldExit(Unpark(t))) /\ Beside(Unpark(t), FieldExit(Unpark(t)))
  BY <1>1, FieldExitKeeps, FieldExitBeside
<1>3. Beside(FieldExit(Unpark(t)), FieldExitKey(t))
  BY <1>2, TabKeyBeside DEF FieldExitKey
<1> QED
  BY <1>1, <1>2, <1>3 DEF Beside, Parked

LEMMA ResetKeyBeside ==
    ASSUME NEW t, Tty(t)
    PROVE  Beside(t, ResetKey(t))
<1> DEFINE s == [t.s EXCEPT !.locked = FALSE]
           restored == Over(s.msgLine.text, s.buf)
           line == IF s.msgLine # None THEN RestoreMsgLine(s) ELSE ClearErrorLine(s)
           r == IF s.errorCursor = None THEN line
                ELSE [line EXCEPT !.cursor = s.errorCursor, !.errorCursor = None]
<1>1. ResetKey(t) = [s |-> r, park |-> None]
  BY DEF ResetKey
<1>2. DOMAIN s = ScreenParts /\ s.windows = t.s.windows
  BY DEF Tty, Formatted, Screen, ScreenParts
<1> HIDE DEF s
<1>3. RestoreMsgLine(s) = [s EXCEPT !.buf = restored, !.msgLine = None]
  BY DEF RestoreMsgLine
<1> HIDE DEF restored
<1>4. DOMAIN RestoreMsgLine(s) = ScreenParts /\ RestoreMsgLine(s).windows = s.windows
  BY <1>2, <1>3 DEF ScreenParts
<1>5. DOMAIN ClearErrorLine(s) = ScreenParts /\ ClearErrorLine(s).windows = s.windows
  BY <1>2 DEF ClearErrorLine, Fill, ScreenParts
<1>6. DOMAIN line = ScreenParts /\ line.windows = s.windows
  BY <1>4, <1>5
<1> HIDE DEF line
<1>7. r.windows = s.windows
  BY <1>6 DEF ScreenParts
<1> HIDE DEF r
<1> QED
  BY <1>1, <1>2, <1>7 DEF Beside, Parked

LEMMA AidKeyBeside ==
    ASSUME NEW t, Tty(t), NEW key
    PROVE  Beside(t, AidKey(t, key))
<1> DEFINE v == Unpark(t)
           a == [t.s EXCEPT !.locked = TRUE]
           b == [t.s EXCEPT !.locked = TRUE, !.readOp = "none"]
           r == CASE key \in SideKeys -> t.s
                  [] key \in InterruptKeys -> a
                  [] OTHER -> b
<1>1. AidKey(t, key) = [v EXCEPT !.s = r]
  BY DEF AidKey
<1>4. r \in {t.s, a, b}
  OBVIOUS
<1>2. Tty(v) /\ v.park = None
  BY UnparkKeeps, UnparkBeside
<1>3. a.windows = t.s.windows /\ b.windows = t.s.windows
  BY DEF Tty, Formatted, Screen, ScreenParts
<1> HIDE DEF v, a, b, r
<1>5. [v EXCEPT !.s = r].s = r /\ [v EXCEPT !.s = r].park = None
  BY <1>2 DEF Tty
<1> QED
  BY <1>1, <1>3, <1>4, <1>5 DEF Beside, Parked

LEMMA InsertTextBeside ==
    ASSUME NEW t, Tty(t), NEW text \in Seq(STRING), NEW advance \in BOOLEAN
    PROVE  Beside(t, InsertText(t, text, advance))
<1>1. CASE EntryField(t.s) = 0
  BY <1>1, UnparkBeside DEF InsertText, Beside, Parked
<1>2. CASE EntryField(t.s) # 0
  <2> DEFINE u == TypedText(t, text, advance)
             end == End(u.s, u.s.fields[u.i])
             at == IF u.at < end THEN u.at ELSE end - 1
             c == ToRowCol(u.s, at)
             parked == IF u.past \/ u.at >= end THEN end - 1 ELSE None
             moved == [u.s EXCEPT !.cursor = c]
             r == SetFieldMdt(moved, u.i)
  <2>1. InsertText(t, text, advance) = [s |-> r, park |-> parked]
    BY <1>2 DEF InsertText, Typed
  <2>2. Entering(u) /\ u.s.windows = t.s.windows
    BY <1>2, TypedTextKeeps
  <2> HIDE DEF u
  <2>3. end \in Nat /\ end >= 1
    BY <2>2, FormattedFields DEF Entering, End
  <2> HIDE DEF end
  <2>4. Parked(parked)
    BY <2>3 DEF Parked
  <2> HIDE DEF parked, c
  <2>5. DOMAIN moved = ScreenParts /\ moved.windows = u.s.windows
    BY <2>2 DEF Entering, Formatted, Screen, ScreenParts
  <2> HIDE DEF moved
  <2>6. r.windows = moved.windows
    BY <2>5 DEF SetFieldMdt, ScreenParts
  <2> HIDE DEF r
  <2> QED
    BY <2>1, <2>2, <2>4, <2>5, <2>6 DEF Beside
<1> QED
  BY <1>1, <1>2

LEMMA KeysBeside ==
    ASSUME NEW t, Tty(t),
           NEW key \in {"left", "right", "up", "down", "Tab", "Backtab", "Home", "End", "Insert",
                        "Backspace", "Delete", "EraseEOF", "FieldExit"}
    PROVE  Beside(t, CASE key \in {"left", "right", "up", "down"} -> ArrowKey(t, key)
                       [] key = "Tab" -> TabKey(t, TRUE)
                       [] key = "Backtab" -> TabKey(t, FALSE)
                       [] key = "Home" -> HomeKey(t)
                       [] key = "End" -> EndKey(t)
                       [] key = "Insert" -> InsertKey(t)
                       [] key = "Backspace" -> BackspaceKey(t)
                       [] key = "Delete" -> DeleteKey(t)
                       [] key = "EraseEOF" -> EraseEOF(t)
                       [] key = "FieldExit" -> FieldExitKey(t))
BY ArrowKeyBeside, TabKeyBeside, HomeKeyBeside, EndKeyBeside, InsertKeyBeside, BackspaceKeyBeside,
   DeleteKeyBeside, EraseEOFBeside, FieldExitKeyBeside

-----------------------------------------------------------------------------
(* The session: between two events the parser is settled, whatever the     *)
(* host sends and whatever the operator does.                              *)

LEMMA FreshIsScreen ==
    ASSUME NEW rows \in Nat \ {0}, NEW cols \in Nat \ {0}
    PROVE  Screen(Fresh(rows, cols)) /\ Fresh(rows, cols).fields = <<>>
<1>1. Home \in Spots
  BY SpotOf DEF Home
<1>2. IsStack(<<>>)
  <2> DEFINE F == {frame \in {Home} : IsFrame(frame)}
  <2>1. <<>> \in Seq(F) /\ Len(<<>>) <= MaxScreenStack /\ \A frame \in F : IsFrame(frame)
    BY SizeAssumption
  <2> HIDE DEF F
  <2> QED
    BY <2>1 DEF IsStack
<1>3. DOMAIN Fresh(rows, cols) = ScreenParts
  BY DEF Fresh, ScreenParts
<1> DEFINE s == Fresh(rows, cols)
<1>4. /\ s.rows = rows /\ s.cols = cols /\ s.fields = <<>> /\ s.cursor = Home
      /\ s.errorCursor = None /\ s.pendingInsert = None /\ s.stack = <<>>
      /\ s.locked = FALSE /\ s.insert = FALSE /\ s.windows = <<>>
  BY DEF Fresh
<1> HIDE DEF s
<1>6. IsWindows(s.windows)
  BY <1>4, NoWindows
<1>7. Placed(s)
  BY <1>1, <1>4, <1>6 DEF Placed
<1>5. Sized(s) /\ s.fields \in Seq(FieldType) /\ IsStack(s.stack)
  BY <1>2, <1>4 DEF Sized
<1> QED
  BY <1>3, <1>4, <1>5, <1>7 DEF s, Screen

LEMMA SettledAfresh ==
    ASSUME NEW rows \in Nat \ {0}, NEW cols \in Nat \ {0}, NEW p,
           p = [s |-> Fresh(rows, cols), win |-> Home, clearStale |-> FALSE, query |-> FALSE]
    PROVE  Settled(p)
<1>1. Screen(Fresh(rows, cols)) /\ Fresh(rows, cols).fields \in Seq(LongFields)
  <2>1. Screen(Fresh(rows, cols)) /\ Fresh(rows, cols).fields = <<>>
    BY FreshIsScreen
  <2> QED
    BY <2>1
<1>2. Home \in Spots
  BY SpotOf DEF Home
<1>3. DOMAIN p = {"s", "win", "clearStale", "query"} /\ p.s = Fresh(rows, cols) /\ p.win = Home
  OBVIOUS
<1> QED
  BY <1>1, <1>2, <1>3 DEF Settled, Parser

LEMMA SettledFirst ==
    ASSUME Init
    PROVE  Settled(parser)
BY SettledAfresh, SizeAssumption DEF Init, FreshParser

LEMMA TerminalIsTty ==
    ASSUME Settled(parser)
    PROVE  Tty(terminal) /\ terminal.s = screen /\ Formatted(screen)
BY DEF Settled, Parser, Tty, Formatted, terminal, screen

LEMMA SettledByInput ==
    ASSUME Settled(parser), NEW t, Tty(t), t.s.windows = screen.windows, Input(t)
    PROVE  Settled(parser') /\ parser'.s = t.s
<1>1. parser' = [parser EXCEPT !.s = t.s]
  BY DEF Input
<1> QED
  BY <1>1 DEF Settled, Parser, Tty, Formatted, screen

LEMMA MovesIsTty ==
    ASSUME NEW t, NEW u, Moves(t, u)
    PROVE  Tty(u)
BY DEF Moves

LEMMA PressKeeps ==
    ASSUME Settled(parser), NEW key \in Keys \ {"Reset"}, Press(key)
    PROVE  Settled(parser')
<1> DEFINE t == CASE key \in {"left", "right", "up", "down"} -> ArrowKey(terminal, key)
                  [] key = "Tab" -> TabKey(terminal, TRUE)
                  [] key = "Backtab" -> TabKey(terminal, FALSE)
                  [] key = "Home" -> HomeKey(terminal)
                  [] key = "End" -> EndKey(terminal)
                  [] key = "Insert" -> InsertKey(terminal)
                  [] key = "Backspace" -> BackspaceKey(terminal)
                  [] key = "Delete" -> DeleteKey(terminal)
                  [] key = "EraseEOF" -> EraseEOF(terminal)
                  [] key = "FieldExit" -> FieldExitKey(terminal)
<1>1. Input(t)
  BY DEF Press
<1>2. Tty(terminal) /\ terminal.s = screen
  BY TerminalIsTty
<1>4. Beside(terminal, t)
  BY <1>2, KeysBeside, KeysAssumption
<1>3. Tty(t)
  <2>1. CASE key \in {"left", "right", "up", "down"}
    BY <1>2, <2>1, ArrowKeyMoves, MovesIsTty
  <2>2. CASE key = "Tab"
    BY <1>2, <2>2, TabKeyMoves, MovesIsTty
  <2>3. CASE key = "Backtab"
    BY <1>2, <2>3, TabKeyMoves, MovesIsTty
  <2>4. CASE key = "Home"
    BY <1>2, <2>4, HomeKeyMoves, MovesIsTty
  <2>5. CASE key = "End"
    BY <1>2, <2>5, EndKeyMoves, MovesIsTty
  <2>6. CASE key = "Insert"
    BY <1>2, <2>6, InsertKeyKeeps
  <2>7. CASE key = "Backspace"
    BY <1>2, <2>7, BackspaceKeyKeeps
  <2>8. CASE key = "Delete"
    BY <1>2, <2>8, DeleteKeyKeeps
  <2>9. CASE key = "EraseEOF"
    BY <1>2, <2>9, EraseEOFKeeps
  <2>10. CASE key = "FieldExit"
    BY <1>2, <2>10, FieldExitKeyKeeps
  <2> QED
    BY <2>1, <2>2, <2>3, <2>4, <2>5, <2>6, <2>7, <2>8, <2>9, <2>10, KeysAssumption
<1> HIDE DEF t
<1> QED
  BY <1>1, <1>2, <1>3, <1>4, SettledByInput DEF Beside

LEMMA SettledKept ==
    ASSUME Settled(parser), Next
    PROVE  Settled(parser')
<1>1. Tty(terminal) /\ terminal.s = screen /\ Formatted(screen)
  BY TerminalIsTty
<1>2. ASSUME NEW r \in Records, HostSends(r)
      PROVE  Settled(parser')
  BY <1>2, ReceivedKeeps, RecordsAssumption DEF HostSends
<1>3. ASSUME NEW text \in Texts, NEW advance \in BOOLEAN, TypeText(text, advance)
      PROVE  Settled(parser')
  <2>1. Tty(InsertText(terminal, text, advance))
    BY <1>1, InsertTextKeeps, TextsAssumption
  <2>2. Beside(terminal, InsertText(terminal, text, advance))
    BY <1>1, InsertTextBeside, TextsAssumption
  <2> QED
    BY <1>1, <1>3, <2>1, <2>2, SettledByInput DEF TypeText, Beside
<1>4. ASSUME NEW key \in Keys \ {"Reset"}, Press(key)
      PROVE  Settled(parser')
  BY <1>4, PressKeeps
<1>5. CASE PressReset
  <2>1. Tty(ResetKey(terminal))
    BY <1>1, ResetKeyKeeps
  <2>2. Beside(terminal, ResetKey(terminal))
    BY <1>1, ResetKeyBeside
  <2> QED
    BY <1>1, <1>5, <2>1, <2>2, SettledByInput DEF PressReset, Beside
<1>6. ASSUME NEW i \in DOMAIN screen.fields,
             PlaceCursor(screen.fields[i].row, screen.fields[i].col + 1)
      PROVE  Settled(parser')
  <2> DEFINE row == screen.fields[i].row
             col == screen.fields[i].col + 1
  <2>1. row \in Nat /\ col \in Nat
    BY <1>1, FormattedFields DEF FieldType
  <2> HIDE DEF row, col
  <2>2. Tty(SetCursor(terminal, row, col))
    BY <1>1, <2>1, SetCursorMoves, MovesIsTty
  <2>3. Beside(terminal, SetCursor(terminal, row, col))
    BY <1>1, <2>1, SetCursorBeside
  <2> QED
    BY <1>1, <1>6, <2>2, <2>3, SettledByInput DEF PlaceCursor, Beside, row, col
<1>7. ASSUME NEW key \in Attentions, PressAid(key)
      PROVE  Settled(parser')
  <2>1. Tty(AidKey(terminal, key))
    BY <1>1, AidKeyKeeps
  <2>2. Beside(terminal, AidKey(terminal, key))
    BY <1>1, AidKeyBeside
  <2> QED
    BY <1>1, <1>7, <2>1, <2>2, SettledByInput DEF PressAid, Beside
<1>8. CASE Reconnect
  BY <1>8, SettledAfresh, SizeAssumption DEF Reconnect, FreshParser
<1> QED
  BY <1>2, <1>3, <1>4, <1>5, <1>6, <1>7, <1>8 DEF Next

\* Between two events the parser is settled: every number on the screen is in its
\* range and every field knows its length, on the screen and in the frames saved.
THEOREM ParserSettles == Spec => []Settled(parser)
<1>1. Init => Settled(parser)
  BY SettledFirst
<1>2. Settled(parser) /\ [Next]_vars => Settled(parser)'
  <2>1. ASSUME Settled(parser), UNCHANGED vars PROVE Settled(parser')
    BY <2>1 DEF vars
  <2> QED
    BY <2>1, SettledKept
<1> QED
  BY <1>1, <1>2, PTL DEF Spec

\* While an error message is up, no record gives the keyboard back that does not
\* say so: not a read, not a write, a popup or a window (processReadCommand(),
\* handleCC2()).
THEOREM ErrorKeepsKeyboard == Spec => ErrorHoldsKeyboard
<1>1. ASSUME Settled(parser),
             NEW r \in Records, HostSends(r), ~Releases(r), screen.locked, screen.errorCursor # None
      PROVE  screen'.locked
  <2>1. r \in HostRecords /\ parser' = Received(parser, r)
    BY <1>1, RecordsAssumption DEF HostSends
  <2>2. HoldsOn(parser.s, Received(parser, r).s)
    BY <1>1, <2>1, ReceivedKeeps
  <2> QED
    BY <1>1, <2>1, <2>2 DEF HoldsOn, screen
<1>2. Settled(parser) /\ [Next]_vars =>
         [\A r \in Records :
            screen.locked /\ screen.errorCursor # None /\ ~Releases(r) /\ HostSends(r) =>
                screen'.locked]_vars
  BY <1>1
<1> QED
  BY <1>2, ParserSettles, PTL DEF ErrorHoldsKeyboard, Spec

\* Wherever input fields share no cell, Backtab goes back to where Tab came from,
\* in resequenced formats too (adjacentInputField()).
THEOREM BacktabGoesBack == Spec => [](InputFieldsApart => BacktabUndoesTab)
<1>1. Settled(parser) => (InputFieldsApart => BacktabUndoesTab)
  <2> SUFFICES ASSUME Settled(parser), InputFieldsApart, NEW i \in InputFields(screen)
               PROVE  LET next == AdjacentInputField(screen, Start(screen, screen.fields[i]), TRUE)
                      IN  AdjacentInputField(screen, Start(screen, screen.fields[next]), FALSE) = i
    BY DEF BacktabUndoesTab
  <2>1. Formatted(screen) /\ Apart(screen)
    BY TerminalIsTty DEF InputFieldsApart, Apart
  <2> QED
    BY <2>1, BacktabReturns
<1> QED
  BY <1>1, ParserSettles, PTL

-----------------------------------------------------------------------------
(* What an edit leaves alone: everything but cells, flags and the cursor.  *)

\* What a Reset puts back is on the screen
ErrorFits(s) ==
    /\ s.errorCursor # None => OnScreen(s, s.errorCursor)
    /\ s.msgLine # None => DOMAIN s.msgLine.text \subseteq DOMAIN s.buf

\* A screen the host has laid out well: its input fields are on it and share no cell
WellLaid(s) ==
    /\ Formatted(s)
    /\ DOMAIN s.buf = 0 .. Size(s) - 1
    /\ InputCells(s) \subseteq DOMAIN s.buf
    /\ \A i \in InputFields(s) : OnScreen(s, s.fields[i])
    /\ OnScreen(s, s.cursor)
    /\ ErrorFits(s)
    /\ Apart(s)

\* Field g is field f, or f modified
SameButFlag(f, g) == g = f \/ g = [f EXCEPT !.mdt = TRUE]

\* t is s with some of the cells in A changed, and fields flagged
Edits(s, t, A) ==
    /\ t.rows = s.rows /\ t.cols = s.cols
    /\ t.errorCursor = s.errorCursor /\ t.msgLine = s.msgLine
    /\ DOMAIN t.buf = DOMAIN s.buf
    /\ DOMAIN t.fields = DOMAIN s.fields
    /\ \A i \in DOMAIN s.fields : SameButFlag(s.fields[i], t.fields[i])
    /\ \A a \in DOMAIN s.buf : t.buf[a] # s.buf[a] => a \in A

LEMMA KeptField ==
    ASSUME NEW f \in FieldType, NEW g, SameButFlag(f, g)
    PROVE  /\ g.row = f.row /\ g.col = f.col /\ g.len = f.len /\ g.cont = f.cont
           /\ g.input = f.input /\ g.fer = f.fer /\ g.signed = f.signed
           /\ f.mdt => g.mdt
           /\ g \in FieldType
BY DEF SameButFlag, FieldType

LEMMA KeptTwice ==
    ASSUME NEW f \in FieldType, NEW g, NEW h, SameButFlag(f, g), SameButFlag(g, h)
    PROVE  SameButFlag(f, h)
BY DEF SameButFlag, FieldType

LEMMA EditsNothing ==
    ASSUME NEW s, NEW A
    PROVE  Edits(s, s, A)
BY DEF Edits, SameButFlag

LEMMA EditsTwice ==
    ASSUME NEW s, NEW t, NEW u, NEW A, s.fields \in Seq(FieldType), Edits(s, t, A), Edits(t, u, A)
    PROVE  Edits(s, u, A)
<1>1. \A i \in DOMAIN s.fields : SameButFlag(s.fields[i], u.fields[i])
  <2> TAKE i \in DOMAIN s.fields
  <2>1. s.fields[i] \in FieldType
    OBVIOUS
  <2> QED
    BY <2>1, KeptTwice DEF Edits
<1> QED
  BY <1>1 DEF Edits

LEMMA EditsMore ==
    ASSUME NEW s, NEW t, NEW A, NEW B, Edits(s, t, A), A \subseteq B
    PROVE  Edits(s, t, B)
BY DEF Edits

LEMMA EditedFields ==
    ASSUME NEW s, NEW t, NEW A, s.fields \in Seq(FieldType), Edits(s, t, A)
    PROVE  /\ InputFields(t) = InputFields(s)
           /\ \A i \in DOMAIN s.fields :
                 /\ Cells(t, t.fields[i]) = Cells(s, s.fields[i])
                 /\ Start(t, t.fields[i]) = Start(s, s.fields[i])
                 /\ End(t, t.fields[i]) = End(s, s.fields[i])
                 /\ t.fields[i].cont = s.fields[i].cont
                 /\ t.fields[i].fer = s.fields[i].fer /\ t.fields[i].signed = s.fields[i].signed
                 /\ s.fields[i].mdt => t.fields[i].mdt
                 /\ MdtOwner(t, i) = MdtOwner(s, i)
<1>1. \A i \in DOMAIN s.fields :
         /\ t.fields[i].row = s.fields[i].row /\ t.fields[i].col = s.fields[i].col
         /\ t.fields[i].len = s.fields[i].len /\ t.fields[i].cont = s.fields[i].cont
         /\ t.fields[i].input = s.fields[i].input
         /\ t.fields[i].fer = s.fields[i].fer /\ t.fields[i].signed = s.fields[i].signed
         /\ s.fields[i].mdt => t.fields[i].mdt
  <2> TAKE i \in DOMAIN s.fields
  <2>1. s.fields[i] \in FieldType /\ SameButFlag(s.fields[i], t.fields[i])
    BY DEF Edits
  <2> QED
    BY <2>1, KeptField
<1>2. DOMAIN t.fields = DOMAIN s.fields /\ t.cols = s.cols
  BY DEF Edits
<1>3. \A i : i \in InputFields(t) <=> i \in InputFields(s)
  BY <1>1, <1>2 DEF InputFields
<1>4. ASSUME NEW i \in DOMAIN s.fields
      PROVE  /\ Cells(t, t.fields[i]) = Cells(s, s.fields[i])
             /\ Start(t, t.fields[i]) = Start(s, s.fields[i])
             /\ End(t, t.fields[i]) = End(s, s.fields[i])
  BY <1>1, <1>2 DEF Cells, Start, Offset, End
<1>5. ASSUME NEW i \in DOMAIN s.fields
      PROVE  MdtOwner(t, i) = MdtOwner(s, i)
  <2>1. i \in Nat /\ \A k \in 1 .. i : k \in DOMAIN s.fields
    OBVIOUS
  <2>2. \A j : j \in GroupFirsts(t, i) <=> j \in GroupFirsts(s, i)
    <3> TAKE j
    <3>1. j \in 1 .. i - 1 => j \in DOMAIN s.fields /\ \A k \in j .. i - 1 : k \in DOMAIN s.fields
      BY <2>1
    <3> QED
      BY <1>1, <3>1 DEF GroupFirsts
  <2>3. GroupFirsts(t, i) = GroupFirsts(s, i)
    BY <2>2
  <2>4. t.fields[i].cont = s.fields[i].cont
    BY <1>1
  <2> QED
    BY <2>3, <2>4 DEF MdtOwner
<1> QED
  BY <1>1, <1>3, <1>4, <1>5

\* New cells, all of them in A and on the screen
LEMMA WrittenCells ==
    ASSUME NEW s, Formatted(s), NEW A, A \subseteq DOMAIN s.buf, NEW new, DOMAIN new \subseteq A,
           NEW cells, cells = Over(new, s.buf)
    PROVE  Edits(s, [s EXCEPT !.buf = cells], A)
<1> DEFINE t == [s EXCEPT !.buf = cells]
<1>1. t.rows = s.rows /\ t.cols = s.cols /\ t.fields = s.fields /\ t.buf = cells
      /\ t.errorCursor = s.errorCursor /\ t.msgLine = s.msgLine
  BY DEF Formatted, Screen, ScreenParts
<1>2. DOMAIN cells = DOMAIN s.buf /\ \A a \in DOMAIN s.buf : cells[a] # s.buf[a] => a \in A
  BY DEF Over
<1> HIDE DEF t
<1>3. \A i \in DOMAIN s.fields : SameButFlag(s.fields[i], t.fields[i])
  BY <1>1 DEF SameButFlag
<1> QED
  BY <1>1, <1>2, <1>3 DEF Edits, t

LEMMA FillEdits ==
    ASSUME NEW s, Formatted(s), NEW A, A \subseteq DOMAIN s.buf, NEW ch
    PROVE  Edits(s, Fill(s, A, ch), A)
<1> DEFINE new == [a \in A |-> ch]
           cells == Over(new, s.buf)
<1>1. Fill(s, A, ch) = [s EXCEPT !.buf = cells]
  BY DEF Fill
<1>2. DOMAIN new \subseteq A
  OBVIOUS
<1>3. cells = Over(new, s.buf)
  OBVIOUS
<1> HIDE DEF cells, new
<1> QED
  BY <1>1, <1>2, <1>3, WrittenCells

LEMMA CursorEdits ==
    ASSUME NEW s, Formatted(s), NEW c, NEW A
    PROVE  Edits(s, [s EXCEPT !.cursor = c], A)
<1> DEFINE t == [s EXCEPT !.cursor = c]
<1>1. t.rows = s.rows /\ t.cols = s.cols /\ t.fields = s.fields /\ t.buf = s.buf
      /\ t.errorCursor = s.errorCursor /\ t.msgLine = s.msgLine
  BY DEF Formatted, Screen, ScreenParts
<1> HIDE DEF t
<1>2. Edits(s, t, A)
  BY <1>1 DEF Edits, SameButFlag
<1> QED
  BY <1>2 DEF t

LEMMA FlagEdits ==
    ASSUME NEW s, Formatted(s), NEW i \in DOMAIN s.fields, NEW A
    PROVE  /\ Edits(s, [s EXCEPT !.fields[i].mdt = TRUE], A)
           /\ [s EXCEPT !.fields[i].mdt = TRUE].fields[i].mdt
<1> DEFINE f == [s.fields[i] EXCEPT !.mdt = TRUE]
           fields == [s.fields EXCEPT ![i] = f]
           t == [s EXCEPT !.fields = fields]
<1>1. [s EXCEPT !.fields[i].mdt = TRUE] = t
  OBVIOUS
<1>2. f.mdt /\ SameButFlag(s.fields[i], f)
  <2>1. s.fields[i] \in FieldType
    BY FormattedFields
  <2> QED
    BY <2>1 DEF SameButFlag, FieldType
<1> HIDE DEF f
<1>3. DOMAIN fields = DOMAIN s.fields /\ fields[i] = f
      /\ \A j \in DOMAIN s.fields : SameButFlag(s.fields[j], fields[j])
  BY <1>2 DEF Formatted, SameButFlag
<1> HIDE DEF fields
<1>4. t.rows = s.rows /\ t.cols = s.cols /\ t.fields = fields /\ t.buf = s.buf
      /\ t.errorCursor = s.errorCursor /\ t.msgLine = s.msgLine
  BY DEF Formatted, Screen, ScreenParts
<1> HIDE DEF t
<1>5. Edits(s, t, A) /\ t.fields[i].mdt
  BY <1>2, <1>3, <1>4 DEF Edits
<1> QED
  BY <1>1, <1>5

LEMMA MdtEdits ==
    ASSUME NEW s, Formatted(s), NEW i \in DOMAIN s.fields, NEW A
    PROVE  Edits(s, SetFieldMdt(s, i), A) /\ SetFieldMdt(s, i).fields[MdtOwner(s, i)].mdt
<1>1. MdtOwner(s, i) \in DOMAIN s.fields
  BY OwnerIsField, LongFieldsAreFields DEF Formatted
<1> QED
  BY <1>1, FlagEdits DEF SetFieldMdt

\* The cells of an input field are on the screen, and no other field's
LEMMA InputCellsAreThere ==
    ASSUME NEW s, WellLaid(s), NEW i \in InputFields(s)
    PROVE  /\ Cells(s, s.fields[i]) \subseteq DOMAIN s.buf
           /\ Cells(s, s.fields[i]) \subseteq InputCells(s)
           /\ i \in DOMAIN s.fields
           /\ \A j \in InputFields(s) :
                 j # i => Cells(s, s.fields[j]) \cap Cells(s, s.fields[i]) = {}
BY DEF WellLaid, InputCells, InputFields, Apart

\* What an edit marks: the group of every field it changes
Marked(s, t) ==
    \A j \in InputFields(s) :
        (\E a \in Cells(s, s.fields[j]) : t.buf[a] # s.buf[a]) =>
            t.fields[MdtOwner(s, j)].mdt

\* What a deletion marks: every field it changes, itself
MarkedItself(s, t) ==
    \A j \in InputFields(s) :
        (\E a \in Cells(s, s.fields[j]) : t.buf[a] # s.buf[a]) => t.fields[j].mdt

\* When one field is edited, no other is
LEMMA OneFieldChanges ==
    ASSUME NEW s, WellLaid(s), NEW i \in InputFields(s), NEW t,
           Edits(s, t, Cells(s, s.fields[i])), NEW j \in InputFields(s),
           NEW a \in Cells(s, s.fields[j]), t.buf[a] # s.buf[a]
    PROVE  j = i
<1>1. a \in DOMAIN s.buf
  BY InputCellsAreThere
<1>2. a \in Cells(s, s.fields[i])
  BY <1>1 DEF Edits
<1> QED
  BY <1>2, InputCellsAreThere

-----------------------------------------------------------------------------
(* The keys that edit, on a well-laid screen: they write in input fields   *)
(* and flag what they write.                                               *)

Edited(s, t) == Edits(s, t, InputCells(s)) /\ Marked(s, t)
Cut(s, t) == Edits(s, t, InputCells(s)) /\ MarkedItself(s, t)

LEMMA SameCellsEdited ==
    ASSUME NEW s, NEW t, Edits(s, t, {}), InputCells(s) \subseteq DOMAIN s.buf
    PROVE  Edited(s, t) /\ Cut(s, t)
<1>1. Edits(s, t, InputCells(s))
  BY EditsMore
<1>2. \A j \in InputFields(s) : \A a \in Cells(s, s.fields[j]) : t.buf[a] = s.buf[a]
  BY DEF InputCells, Edits
<1> QED
  BY <1>1, <1>2 DEF Edited, Marked, Cut, MarkedItself

LEMMA MovesEdit ==
    ASSUME NEW t, NEW u, Tty(t), WellLaid(t.s), Moves(t, u)
    PROVE  Edited(t.s, u.s)
<1>1. Edits(t.s, u.s, {})
  BY EditsNothing, CursorEdits DEF Moves, Tty
<1> QED
  BY <1>1, SameCellsEdited DEF WellLaid

\* One field edited and its group flagged, or one cut and flagged
LEMMA OneFieldEdited ==
    ASSUME NEW s, WellLaid(s), NEW i \in InputFields(s), NEW t,
           Edits(s, t, Cells(s, s.fields[i])), t.fields[MdtOwner(s, i)].mdt
    PROVE  Edited(s, t)
<1>1. Edits(s, t, InputCells(s))
  BY InputCellsAreThere, EditsMore
<1>2. Marked(s, t)
  BY OneFieldChanges DEF Marked
<1> QED
  BY <1>1, <1>2 DEF Edited

LEMMA OneFieldCut ==
    ASSUME NEW s, WellLaid(s), NEW i \in InputFields(s), NEW t,
           Edits(s, t, Cells(s, s.fields[i])), t.fields[i].mdt
    PROVE  Cut(s, t)
<1>1. Edits(s, t, InputCells(s))
  BY InputCellsAreThere, EditsMore
<1>2. MarkedItself(s, t)
  BY OneFieldChanges DEF MarkedItself
<1> QED
  BY <1>1, <1>2 DEF Cut

\* From a place in a field to its end
LEMMA RestOfField ==
    ASSUME NEW s, Formatted(s), NEW i \in DOMAIN s.fields, NEW at \in Nat,
           Start(s, s.fields[i]) <= at
    PROVE  at .. End(s, s.fields[i]) - 1 \subseteq Cells(s, s.fields[i])
<1>1. Start(s, s.fields[i]) \in Nat /\ s.fields[i].len \in Nat
  BY FormattedFields
<1> QED
  BY <1>1 DEF End, Cells

LEMMA CursorInEntry ==
    ASSUME NEW s, WellLaid(s), EntryField(s) # 0
    PROVE  /\ EntryField(s) \in InputFields(s) /\ EntryField(s) \in DOMAIN s.fields
           /\ Offset(s, s.cursor) \in Nat
           /\ Start(s, s.fields[EntryField(s)]) <= Offset(s, s.cursor)
           /\ Offset(s, s.cursor) < End(s, s.fields[EntryField(s)])
           /\ Offset(s, s.cursor) .. End(s, s.fields[EntryField(s)]) - 1
                 \subseteq Cells(s, s.fields[EntryField(s)])
<1> DEFINE i == EntryField(s)
           at == Offset(s, s.cursor)
<1>1. Formatted(s) /\ s.fields \in Seq(FieldType)
  BY LongFieldsAreFields DEF WellLaid, Formatted
<1>2. i \in InputFields(s) /\ i \in DOMAIN s.fields /\ at \in Cells(s, s.fields[i])
  BY <1>1, EntryIsField
<1> HIDE DEF i
<1>3. at \in Nat
  BY <1>1, CursorIsNumber DEF Formatted
<1> HIDE DEF at
<1>4. Start(s, s.fields[i]) \in Nat /\ s.fields[i].len \in Nat
  BY <1>1, <1>2, FormattedFields
<1>5. Start(s, s.fields[i]) <= at /\ at < End(s, s.fields[i])
  BY <1>2, <1>3, <1>4 DEF Cells, End
<1> QED
  BY <1>1, <1>2, <1>3, <1>5, RestOfField DEF i, at

LEMMA EraseEOFEdits ==
    ASSUME NEW t, Tty(t), WellLaid(t.s)
    PROVE  Cut(t.s, EraseEOF(t).s)
<1> DEFINE s == t.s
           i == EntryField(s)
           at == Offset(s, s.cursor)
           A == at .. End(s, s.fields[i]) - 1
           filled == Fill(s, A, Blank)
           r == [filled EXCEPT !.fields[i].mdt = TRUE]
<1>1. EraseEOF(t) = IF i = 0 THEN t ELSE [t EXCEPT !.s = r]
  BY DEF EraseEOF
<1>2. CASE i = 0
  <2>1. EraseEOF(t).s = s
    BY <1>1, <1>2
  <2> QED
    BY <2>1, EditsNothing, SameCellsEdited DEF WellLaid
<1>3. CASE i # 0
  <2>1. EraseEOF(t).s = r
    BY <1>1, <1>3 DEF Tty
  <2>2. i \in InputFields(s) /\ i \in DOMAIN s.fields /\ A \subseteq Cells(s, s.fields[i])
    BY <1>3, CursorInEntry
  <2>3. Cells(s, s.fields[i]) \subseteq DOMAIN s.buf
    BY <2>2, InputCellsAreThere
  <2> HIDE DEF A, i
  <2> DEFINE C == Cells(s, s.fields[i])
  <2>4. Edits(s, filled, C)
    <3>1. A \subseteq DOMAIN s.buf
      BY <2>2, <2>3
    <3>2. Edits(s, filled, A)
      BY <3>1, FillEdits DEF Tty
    <3> QED
      BY <2>2, <3>2, EditsMore
  <2>5. Formatted(filled) /\ filled.fields = s.fields
    BY FormattedFill, FillIsNarrow DEF Tty, Formatted, Screen
  <2> HIDE DEF filled
  <2>6. Edits(filled, r, C) /\ r.fields[i].mdt
    BY <2>2, <2>5, FlagEdits
  <2> HIDE DEF r
  <2>7. Edits(s, r, C)
    <3>1. s.fields \in Seq(FieldType)
      BY DEF Tty, Formatted, Screen
    <3> QED
      BY <2>4, <2>6, <3>1, EditsTwice
  <2>8. Cut(s, r)
    BY <2>2, <2>6, <2>7, OneFieldCut
  <2> QED
    BY <2>1, <2>8
<1> QED
  BY <1>2, <1>3

LEMMA DeleteAtEdits ==
    ASSUME NEW t, Tty(t), NEW i \in DOMAIN t.s.fields, NEW at \in Nat,
           Start(t.s, t.s.fields[i]) <= at,
           Cells(t.s, t.s.fields[i]) \subseteq DOMAIN t.s.buf
    PROVE  /\ Edits(t.s, DeleteAt(t, i, at).s, Cells(t.s, t.s.fields[i]))
           /\ DeleteAt(t, i, at).s.fields[i].mdt
<1> DEFINE end == End(t.s, t.s.fields[i])
           moved == [a \in at .. end - 1 |-> IF a = end - 1 THEN Blank ELSE CharAt(t.s, a + 1)]
           cells == Over(moved, t.s.buf)
           w == [t.s EXCEPT !.buf = cells]
           r == [w EXCEPT !.fields[i].mdt = TRUE]
           C == Cells(t.s, t.s.fields[i])
<1>1. DeleteAt(t, i, at) = [t EXCEPT !.s.buf = cells, !.s.fields[i].mdt = TRUE]
  BY DEF DeleteAt
<1>2. cells = Over(moved, t.s.buf) /\ DOMAIN moved = at .. end - 1
  OBVIOUS
<1> HIDE DEF cells
<1>3. [t EXCEPT !.s.buf = cells, !.s.fields[i].mdt = TRUE].s = r
  BY DEF Tty, Formatted, Screen, ScreenParts
<1>4. Formatted(t.s)
  BY DEF Tty
<1>5. Formatted(w) /\ w.fields = t.s.fields
  BY <1>4, FormattedCells DEF Formatted, Screen, ScreenParts
<1>6. at .. end - 1 \subseteq C
  BY <1>4, RestOfField
<1> HIDE DEF moved, end
<1>7. Edits(t.s, w, C)
  BY <1>2, <1>4, <1>6, WrittenCells
<1> HIDE DEF w
<1>8. Edits(w, r, C) /\ r.fields[i].mdt
  BY <1>5, FlagEdits
<1> HIDE DEF r, C
<1>9. Edits(t.s, r, C)
  <2>1. t.s.fields \in Seq(FieldType)
    BY <1>4 DEF Formatted, Screen
  <2> QED
    BY <1>7, <1>8, <2>1, EditsTwice
<1> QED
  BY <1>1, <1>3, <1>8, <1>9 DEF C

LEMMA DeleteKeyEdits ==
    ASSUME NEW t, Tty(t), WellLaid(t.s)
    PROVE  Cut(t.s, DeleteKey(t).s)
<1> DEFINE i == EntryField(t.s)
           v == Unpark(t)
           at == Offset(t.s, t.s.cursor)
<1>1. DeleteKey(t) = IF i = 0 THEN v ELSE DeleteAt(v, i, at)
  BY DEF DeleteKey
<1>2. Tty(v) /\ v.s = t.s
  BY UnparkKeeps
<1>3. CASE i = 0
  BY <1>1, <1>2, <1>3, EditsNothing, SameCellsEdited DEF WellLaid
<1>4. CASE i # 0
  <2>1. i \in InputFields(t.s) /\ i \in DOMAIN t.s.fields /\ at \in Nat
        /\ Start(t.s, t.s.fields[i]) <= at
    BY <1>4, CursorInEntry
  <2>2. Cells(t.s, t.s.fields[i]) \subseteq DOMAIN t.s.buf
    BY <2>1, InputCellsAreThere
  <2> HIDE DEF i, v, at
  <2>3. Edits(t.s, DeleteAt(v, i, at).s, Cells(t.s, t.s.fields[i]))
        /\ DeleteAt(v, i, at).s.fields[i].mdt
    BY <1>2, <2>1, <2>2, DeleteAtEdits
  <2> QED
    BY <1>1, <1>4, <2>1, <2>3, OneFieldCut
<1> QED
  BY <1>3, <1>4

\* On the screen, one to the right of a field's first column is past its start
LEMMA PastTheColumn ==
    ASSUME NEW r \in Nat, NEW c \in Nat, NEW x \in Nat, NEW y \in Nat, NEW cols \in Nat \ {0},
           c < cols, c > y, r * cols + c >= x * cols + y
    PROVE  r * cols + c - 1 >= x * cols + y
<1>1. CASE r = x
  BY <1>1
<1>2. CASE r < x
  <2>1. PICK d \in Nat : x = r + 1 + d
    <3>1. x - r - 1 \in Nat /\ x = r + 1 + (x - r - 1)
      BY <1>2
    <3> QED
      BY <3>1
  <2>2. x * cols = r * cols + cols + d * cols
    BY <2>1
  <2>3. d * cols \in Nat /\ r * cols \in Nat
    OBVIOUS
  <2> DEFINE m == r * cols
             n == x * cols
             k == d * cols
  <2>4. n = m + cols + k /\ k \in Nat /\ m \in Nat /\ n \in Int /\ m + c >= n + y
    BY <2>2, <2>3
  <2> HIDE DEF m, n, k
  <2> QED
    BY <2>4
<1>3. CASE r > x
  <2>1. PICK d \in Nat : r = x + 1 + d
    <3>1. r - x - 1 \in Nat /\ r = x + 1 + (r - x - 1)
      BY <1>3
    <3> QED
      BY <3>1
  <2>2. r * cols = x * cols + cols + d * cols
    BY <2>1
  <2>3. d * cols \in Nat /\ x * cols \in Nat
    OBVIOUS
  <2> DEFINE m == r * cols
             n == x * cols
             k == d * cols
  <2>4. m = n + cols + k /\ k \in Nat /\ n \in Nat /\ m \in Int
    BY <2>2, <2>3
  <2>5. m + c - 1 >= n + y
    <3> HIDE DEF m, n, k
    <3> QED
      BY <2>4
  <2> QED
    BY <2>5
<1> QED
  BY <1>1, <1>2, <1>3

LEMMA BackspaceKeyEdits ==
    ASSUME NEW t, Tty(t), WellLaid(t.s)
    PROVE  Cut(t.s, BackspaceKey(t).s)
<1> DEFINE i == EntryField(t.s)
           v == Unpark(t)
           at == Offset(t.s, t.s.cursor) - 1
           col == v.s.cursor.col - 1
           c == [v.s.cursor EXCEPT !.col = col]
           w == [v EXCEPT !.s.cursor.col = col]
<1>1. BackspaceKey(t) =
         IF i = 0 \/ (i # 0 /\ t.s.cursor.col <= t.s.fields[i].col) THEN v
         ELSE DeleteAt(w, i, at)
  BY DEF BackspaceKey
<1>2. Tty(v) /\ v.s = t.s
  BY UnparkKeeps
<1>3. CASE i = 0 \/ (i # 0 /\ t.s.cursor.col <= t.s.fields[i].col)
  BY <1>1, <1>2, <1>3, EditsNothing, SameCellsEdited DEF WellLaid
<1>4. CASE ~(i = 0 \/ (i # 0 /\ t.s.cursor.col <= t.s.fields[i].col))
  <2>1. i \in InputFields(t.s) /\ i \in DOMAIN t.s.fields
        /\ Offset(t.s, t.s.cursor) \in Nat
        /\ Start(t.s, t.s.fields[i]) <= Offset(t.s, t.s.cursor)
    BY <1>4, CursorInEntry
  <2>2. /\ t.s.fields[i].row \in Nat /\ t.s.fields[i].col \in Nat
        /\ t.s.cursor \in Spots /\ t.s.cursor.row \in Nat /\ t.s.cursor.col \in Nat
        /\ t.s.cols \in Nat \ {0} /\ t.s.cursor.col < t.s.cols
    <3>1. t.s.fields[i].row \in Nat /\ t.s.fields[i].col \in Nat
      BY <2>1, FormattedFields DEF Tty, FieldType
    <3>2. t.s.cursor \in Spots /\ t.s.cols \in Nat \ {0}
      BY DEF Tty, Formatted, Screen, Placed, Sized
    <3>3. t.s.cursor.col \in 0 .. t.s.cols - 1
      BY DEF WellLaid, OnScreen
    <3> QED
      BY <3>1, <3>2, <3>3 DEF Spots
  <2>3. t.s.cursor.col > t.s.fields[i].col
    <3> HIDE DEF i
    <3> QED
      BY <1>4, <2>2
  <2>4. at \in Nat /\ Start(t.s, t.s.fields[i]) <= at
    <3>1. /\ Start(t.s, t.s.fields[i]) = t.s.fields[i].row * t.s.cols + t.s.fields[i].col
          /\ Offset(t.s, t.s.cursor) = t.s.cursor.row * t.s.cols + t.s.cursor.col
      BY DEF Start, Offset
    <3> DEFINE x == t.s.fields[i].row
               y == t.s.fields[i].col
               r == t.s.cursor.row
               k == t.s.cursor.col
               cols == t.s.cols
    <3>2. Start(t.s, t.s.fields[i]) \in Nat
      BY <2>1, FormattedFields DEF Tty
    <3>3. r * cols + k >= x * cols + y
      BY <2>1, <3>1, <3>2
    <3>4. r \in Nat /\ k \in Nat /\ x \in Nat /\ y \in Nat /\ cols \in Nat \ {0}
          /\ k < cols /\ k > y
      BY <2>2, <2>3
    <3>5. r * cols + k - 1 >= x * cols + y
      <4> HIDE DEF r, k, x, y, cols
      <4> QED
        BY <3>3, <3>4, PastTheColumn
    <3>6. Offset(t.s, t.s.cursor) - 1 >= Start(t.s, t.s.fields[i])
      <4> DEFINE o == Offset(t.s, t.s.cursor)
                 b == Start(t.s, t.s.fields[i])
      <4>1. o = r * cols + k /\ b = x * cols + y
        BY <3>1, Zenon
      <4> HIDE DEF r, k, x, y, cols, o, b
      <4>2. o - 1 >= b
        BY <3>4, <3>5, <4>1
      <4> QED
        BY <4>2 DEF o, b
    <3> QED
      BY <2>1, <3>2, <3>6
  <2>5. col \in Nat
    <3> HIDE DEF v, i
    <3> QED
      BY <1>2, <2>1, <2>2, <2>3
  <2>6. c \in Spots
    BY <1>2, <2>2, <2>5 DEF Spots
  <2>7. w = [v EXCEPT !.s.cursor = c]
    OBVIOUS
  <2> HIDE DEF c, v, i, at
  <2>8. Tty([v EXCEPT !.s.cursor = c]) /\ [v EXCEPT !.s.cursor = c].s = [v.s EXCEPT !.cursor = c]
    BY <1>2, <2>6, CursorOf
  <2>9. Tty(w) /\ w.s = [t.s EXCEPT !.cursor = c]
    BY <1>2, <2>7, <2>8
  <2>10. /\ w.s.fields = t.s.fields /\ w.s.cols = t.s.cols /\ w.s.buf = t.s.buf
         /\ \A A : Edits(t.s, w.s, A)
    BY <2>9, CursorEdits DEF Tty, Formatted, Screen, ScreenParts
  <2> HIDE DEF w
  <2>11. /\ Cells(w.s, w.s.fields[i]) = Cells(t.s, t.s.fields[i])
         /\ Start(w.s, w.s.fields[i]) = Start(t.s, t.s.fields[i])
    BY <2>10 DEF Cells, Start, Offset
  <2>12. Cells(t.s, t.s.fields[i]) \subseteq DOMAIN t.s.buf
    BY <2>1, InputCellsAreThere
  <2>13. Edits(w.s, DeleteAt(w, i, at).s, Cells(t.s, t.s.fields[i]))
         /\ DeleteAt(w, i, at).s.fields[i].mdt
    BY <2>1, <2>4, <2>9, <2>10, <2>11, <2>12, DeleteAtEdits
  <2>14. Edits(t.s, DeleteAt(w, i, at).s, Cells(t.s, t.s.fields[i]))
    <3>1. t.s.fields \in Seq(FieldType)
      BY DEF Tty, Formatted, Screen
    <3>2. Edits(t.s, w.s, Cells(t.s, t.s.fields[i]))
      BY <2>10
    <3> QED
      BY <2>13, <3>1, <3>2, EditsTwice
  <2> QED
    BY <1>1, <1>4, <2>1, <2>13, <2>14, OneFieldCut DEF i
<1> QED
  BY <1>3, <1>4

LEMMA SetFieldValueEdits ==
    ASSUME NEW s, Formatted(s), NEW i \in DOMAIN s.fields, NEW value,
           Cells(s, s.fields[i]) \subseteq DOMAIN s.buf
    PROVE  /\ Edits(s, SetFieldValue(s, i, value), Cells(s, s.fields[i]))
           /\ SetFieldValue(s, i, value).fields[MdtOwner(s, i)].mdt
<1> DEFINE f == s.fields[i]
           text == [a \in Cells(s, f) |->
                      LET k == a - Start(s, f) + 1
                      IN  IF k <= Len(value) THEN value[k] ELSE Blank]
           cells == Over(text, s.buf)
           r == [s EXCEPT !.buf = cells]
           C == Cells(s, f)
<1>1. SetFieldValue(s, i, value) = SetFieldMdt(r, i)
  BY DEF SetFieldValue
<1>2. cells = Over(text, s.buf) /\ DOMAIN text = C
  OBVIOUS
<1> HIDE DEF cells, text
<1>3. Formatted(r) /\ r.fields = s.fields
  BY FormattedCells DEF Formatted, Screen, ScreenParts
<1>4. Edits(s, r, C)
  BY <1>2, WrittenCells
<1> HIDE DEF r, C
<1>5. Edits(r, SetFieldMdt(r, i), C) /\ SetFieldMdt(r, i).fields[MdtOwner(r, i)].mdt
  BY <1>3, MdtEdits
<1>6. s.fields \in Seq(FieldType)
  BY DEF Formatted, Screen
<1>7. Edits(s, SetFieldMdt(r, i), C)
  BY <1>4, <1>5, <1>6, EditsTwice
<1>8. MdtOwner(r, i) = MdtOwner(s, i)
  BY <1>4, <1>6, EditedFields
<1> QED
  BY <1>1, <1>5, <1>7, <1>8 DEF C

LEMMA ErasedToEndEdits ==
    ASSUME NEW t, Tty(t), NEW i \in DOMAIN t.s.fields, NEW at \in Nat,
           Start(t.s, t.s.fields[i]) <= at, DOMAIN t.s.buf = 0 .. Size(t.s) - 1
    PROVE  Edits(t.s, ErasedToEnd(t, t.s.fields[i], at), Cells(t.s, t.s.fields[i]))
<1> DEFINE C == Cells(t.s, t.s.fields[i])
           A == (at .. End(t.s, t.s.fields[i]) - 1) \cap (0 .. Size(t.s) - 1)
           r == Fill(t.s, A, Blank)
<1>1. ErasedToEnd(t, t.s.fields[i], at) = t.s \/ ErasedToEnd(t, t.s.fields[i], at) = r
  BY DEF ErasedToEnd, FillOnScreen
<1>2. A \subseteq C /\ A \subseteq DOMAIN t.s.buf
  BY RestOfField DEF Tty
<1> HIDE DEF A
<1>3. Edits(t.s, r, A)
  BY <1>2, FillEdits DEF Tty
<1>4. Edits(t.s, r, C)
  BY <1>2, <1>3, EditsMore
<1> HIDE DEF r
<1> QED
  BY <1>1, <1>4, EditsNothing DEF C

LEMMA FieldExitEdits ==
    ASSUME NEW t, Tty(t), WellLaid(t.s)
    PROVE  Edited(t.s, FieldExit(t).s)
<1> DEFINE s == t.s
           i == EntryField(s)
           at == Offset(s, s.cursor)
           C == Cells(s, s.fields[i])
           r == ErasedToEnd(t, s.fields[i], at)
           text == Trimmed(FieldValue(r, r.fields[i]), {Blank})
           u == Adjusted(r, i, text)
<1>1. FieldExit(t) = IF i = 0 THEN t ELSE [s |-> u, park |-> None]
  BY DEF FieldExit, ExitField, AdjustField
<1>2. CASE i = 0
  BY <1>1, <1>2, EditsNothing, SameCellsEdited DEF WellLaid
<1>3. CASE i # 0
  <2>1. i \in InputFields(s) /\ i \in DOMAIN s.fields /\ at \in Nat
        /\ Start(s, s.fields[i]) <= at
    BY <1>3, CursorInEntry
  <2>2. Cells(s, s.fields[i]) \subseteq DOMAIN s.buf
    BY <2>1, InputCellsAreThere
  <2>3. Formatted(r) /\ r.fields = s.fields
    BY ErasedToEndKeeps
  <2>4. s.fields \in Seq(FieldType) /\ DOMAIN s.buf = 0 .. Size(s) - 1
    BY DEF Tty, Formatted, Screen, WellLaid
  <2> HIDE DEF i, at
  <2>5. Edits(s, r, C)
    BY <2>1, <2>4, ErasedToEndEdits
  <2> HIDE DEF r, text
  <2>6. Cells(r, r.fields[i]) = C /\ MdtOwner(r, i) = MdtOwner(s, i) /\ DOMAIN r.buf = DOMAIN s.buf
    <3>1. Cells(r, r.fields[i]) = C /\ MdtOwner(r, i) = MdtOwner(s, i)
      BY <2>1, <2>4, <2>5, EditedFields
    <3>2. DOMAIN r.buf = DOMAIN s.buf
      BY <2>5 DEF Edits
    <3> QED
      BY <3>1, <3>2
  <2>7. Edits(r, u, C) /\ u.fields[MdtOwner(r, i)].mdt
    <3>1. (\E value : u = SetFieldValue(r, i, value)) \/ u = SetFieldMdt(r, i)
      BY DEF Adjusted
    <3>2. i \in DOMAIN r.fields /\ Cells(r, r.fields[i]) \subseteq DOMAIN r.buf
      BY <2>1, <2>2, <2>3, <2>6
    <3> HIDE DEF u
    <3> QED
      BY <2>3, <2>6, <3>1, <3>2, SetFieldValueEdits, MdtEdits
  <2> HIDE DEF u, C
  <2>8. Edits(s, u, C)
    BY <2>4, <2>5, <2>7, EditsTwice
  <2>9. Edited(s, u)
    BY <2>1, <2>6, <2>7, <2>8, OneFieldEdited DEF C
  <2> QED
    BY <1>1, <1>3, <2>9
<1> QED
  BY <1>2, <1>3

LEMMA FieldExitKeyEdits ==
    ASSUME NEW t, Tty(t), WellLaid(t.s)
    PROVE  Edited(t.s, FieldExitKey(t).s)
<1> DEFINE v == Unpark(t)
           w == FieldExit(v)
           x == TabKey(w, TRUE)
<1>1. FieldExitKey(t) = x
  BY DEF FieldExitKey
<1>2. Tty(v) /\ v.s = t.s
  BY UnparkKeeps
<1> HIDE DEF v
<1>3. Tty(w) /\ Edited(t.s, w.s)
  BY <1>2, FieldExitKeeps, FieldExitEdits
<1> HIDE DEF w
<1>4. Moves(w, x)
  BY <1>3, TabKeyMoves
<1> HIDE DEF x
<1>5. x.s.buf = w.s.buf /\ x.s.fields = w.s.fields /\ x.s.rows = w.s.rows /\ x.s.cols = w.s.cols
      /\ x.s.errorCursor = w.s.errorCursor /\ x.s.msgLine = w.s.msgLine
  BY <1>3, <1>4 DEF Moves, Tty, Formatted, Screen, ScreenParts
<1>6. Edited(t.s, x.s)
  BY <1>3, <1>5 DEF Edited, Edits, Marked
<1> QED
  BY <1>1, <1>6

-----------------------------------------------------------------------------
(* Typing on a well-laid screen.                                           *)

\* The field under the cursor must be left by a Field Exit, or ends in a sign
Bound(s) == LET f == s.fields[EntryField(s)] IN f.fer \/ f.signed

\* What has been typed from screen s on is in input fields, and every field it
\* changed is flagged or is the one being typed into
Writing(s, u) ==
    /\ Entering(u)
    /\ Edits(s, u.s, InputCells(s))
    /\ u.i \in InputFields(s)
    /\ Start(s, s.fields[u.i]) <= u.at /\ u.at <= End(s, s.fields[u.i])
    /\ \A j \in InputFields(s) :
          (\E a \in Cells(s, s.fields[j]) : u.s.buf[a] # s.buf[a]) =>
              u.s.fields[MdtOwner(s, j)].mdt \/ (j = u.i /\ u.typed)
    /\ Bound(s) => /\ u.i = EntryField(s)
                   /\ \A a \in DOMAIN s.buf :
                        u.s.buf[a] # s.buf[a] => a \in Cells(s, s.fields[EntryField(s)])

LEMMA PutCharEdits ==
    ASSUME NEW u, Entering(u), NEW ch, NEW A,
           A = u.at .. End(u.s, u.s.fields[u.i]) - 1, A \subseteq DOMAIN u.s.buf, u.at \in A
    PROVE  /\ Edits(u.s, PutChar(u, ch).s, A)
           /\ PutChar(u, ch).s.fields = u.s.fields
           /\ PutChar(u, ch).i = u.i /\ PutChar(u, ch).at = u.at + 1 /\ PutChar(u, ch).typed
<1> DEFINE new == [a \in u.at + 1 .. End(u.s, u.s.fields[u.i]) - 1 |-> CharAt(u.s, a - 1)]
           cells == Over(new, u.s.buf)
           shifted == [u.s EXCEPT !.buf = cells]
           base == IF u.s.insert /\ CharAt(u.s, u.at) # Blank
                   THEN ShiftRight(u.s, u.i, u.at) ELSE u.s
           r == Fill(base, {u.at}, ch)
<1>1. PutChar(u, ch) = [u EXCEPT !.s = r, !.at = @ + 1, !.typed = TRUE]
  BY DEF PutChar
<1>2. ShiftRight(u.s, u.i, u.at) = shifted
  BY DEF ShiftRight
<1>3. DOMAIN new \subseteq A
  <2>1. u.at \in Nat
    BY DEF Entering
  <2>2. End(u.s, u.s.fields[u.i]) \in Nat
    BY FormattedFields DEF Entering, End
  <2> QED
    BY <2>1, <2>2
<1>4. cells = Over(new, u.s.buf) /\ Formatted(u.s)
  BY DEF Entering
<1> HIDE DEF new, cells
<1>5. Edits(u.s, shifted, A)
  BY <1>3, <1>4, WrittenCells
<1>6. Formatted(shifted) /\ shifted.fields = u.s.fields
  BY <1>4, FormattedCells DEF Formatted, Screen, ScreenParts
<1> HIDE DEF shifted
<1>7. Edits(u.s, base, A) /\ Formatted(base) /\ base.fields = u.s.fields
  BY <1>2, <1>4, <1>5, <1>6, EditsNothing
<1> HIDE DEF base
<1>8. Edits(base, r, A)
  <2>1. {u.at} \subseteq DOMAIN base.buf /\ {u.at} \subseteq A
    BY <1>7 DEF Edits
  <2>2. Edits(base, r, {u.at})
    BY <1>7, <2>1, FillEdits
  <2> HIDE DEF r
  <2> QED
    BY <2>1, <2>2, EditsMore
<1>9. r.fields = u.s.fields
  BY <1>7, FillIsNarrow DEF Formatted, Screen
<1> HIDE DEF r
<1>10. Edits(u.s, r, A)
  <2>1. u.s.fields \in Seq(FieldType)
    BY <1>4 DEF Formatted, Screen
  <2> QED
    BY <1>7, <1>8, <2>1, EditsTwice
<1> QED
  BY <1>1, <1>9, <1>10 DEF Entering

LEMMA PutCharWrites ==
    ASSUME NEW s, WellLaid(s), NEW u, Writing(s, u), NEW ch, u.at < End(s, s.fields[u.i])
    PROVE  Writing(s, PutChar(u, ch))
<1> DEFINE i == u.i
           C == Cells(s, s.fields[i])
           A == u.at .. End(u.s, u.s.fields[i]) - 1
           v == PutChar(u, ch)
<1>1. Formatted(s) /\ s.fields \in Seq(FieldType) /\ i \in DOMAIN s.fields /\ Entering(u)
      /\ Edits(s, u.s, InputCells(s))
  BY LongFieldsAreFields DEF WellLaid, Formatted, Writing, InputFields
<1>2. End(u.s, u.s.fields[i]) = End(s, s.fields[i])
  BY <1>1, EditedFields
<1>3. /\ u.at \in Nat /\ Start(s, s.fields[i]) \in Nat /\ End(s, s.fields[i]) \in Nat
      /\ Start(s, s.fields[i]) <= u.at
  <2>1. Start(s, s.fields[i]) \in Nat /\ s.fields[i].len \in Nat
    BY <1>1, FormattedFields
  <2> QED
    BY <2>1 DEF Writing, Entering, End
<1>4. A \subseteq C /\ u.at \in A
  BY <1>1, <1>2, <1>3, RestOfField
<1>5. C \subseteq DOMAIN s.buf /\ C \subseteq InputCells(s)
      /\ \A j \in InputFields(s) : j # i => Cells(s, s.fields[j]) \cap C = {}
  BY InputCellsAreThere DEF Writing
<1>6. DOMAIN u.s.buf = DOMAIN s.buf /\ DOMAIN u.s.fields = DOMAIN s.fields
  BY <1>1 DEF Edits
<1>7. A \subseteq DOMAIN u.s.buf
  BY <1>4, <1>5, <1>6
<1>8. /\ Edits(u.s, v.s, A) /\ v.s.fields = u.s.fields
      /\ v.i = i /\ v.at = u.at + 1 /\ v.typed
  <2> DEFINE B == A
  <2>1. B = u.at .. End(u.s, u.s.fields[u.i]) - 1 /\ B \subseteq DOMAIN u.s.buf /\ u.at \in B
    BY <1>4, <1>7
  <2> HIDE DEF B
  <2>2. /\ Edits(u.s, PutChar(u, ch).s, B) /\ PutChar(u, ch).s.fields = u.s.fields
        /\ PutChar(u, ch).i = u.i /\ PutChar(u, ch).at = u.at + 1 /\ PutChar(u, ch).typed
    BY <1>1, <2>1, PutCharEdits
  <2> QED
    BY <2>2 DEF B
<1>9. Entering(v)
  BY <1>1, PutCharKeeps
<1> HIDE DEF v, A
<1>10. \A a \in DOMAIN s.buf : v.s.buf[a] # s.buf[a] => u.s.buf[a] # s.buf[a] \/ a \in C
  BY <1>4, <1>6, <1>8 DEF Edits
<1>11. Edits(s, v.s, InputCells(s))
  <2>1. Edits(u.s, v.s, InputCells(s))
    <3>1. A \subseteq InputCells(s)
      BY <1>4, <1>5
    <3> QED
      BY <1>8, <3>1, EditsMore
  <2> QED
    BY <1>1, <2>1, EditsTwice
<1>12. Start(s, s.fields[v.i]) <= v.at /\ v.at <= End(s, s.fields[v.i]) /\ v.i \in InputFields(s)
  BY <1>3, <1>8 DEF Writing
<1>13. ASSUME NEW j \in InputFields(s), NEW a \in Cells(s, s.fields[j]), v.s.buf[a] # s.buf[a]
       PROVE  v.s.fields[MdtOwner(s, j)].mdt \/ (j = v.i /\ v.typed)
  <2>1. a \in DOMAIN s.buf
    BY <1>13, InputCellsAreThere
  <2>2. CASE u.s.buf[a] # s.buf[a]
    <3>1. u.s.fields[MdtOwner(s, j)].mdt \/ (j = u.i /\ u.typed)
      BY <1>13, <2>2 DEF Writing
    <3> QED
      BY <1>8, <3>1
  <2>3. CASE a \in C
    <3>1. j = i
      BY <1>5, <1>13, <2>3
    <3> QED
      BY <1>8, <3>1
  <2> QED
    BY <1>10, <1>13, <2>1, <2>2, <2>3
<1>14. Bound(s) => /\ v.i = EntryField(s)
                   /\ \A a \in DOMAIN s.buf :
                        v.s.buf[a] # s.buf[a] => a \in Cells(s, s.fields[EntryField(s)])
  BY <1>8, <1>10 DEF Writing
<1>15. Writing(s, v)
  BY <1>9, <1>11, <1>12, <1>13, <1>14 DEF Writing
<1> QED
  BY <1>15 DEF v

LEMMA EnterFieldWrites ==
    ASSUME NEW s, WellLaid(s), NEW u, Writing(s, u), NEW next \in InputFields(s) \cup {0},
           Bound(s) => next = 0
    PROVE  /\ Writing(s, EnterField(u, next))
           /\ EnterField(u, next).placed =>
                 EnterField(u, next).at < End(s, s.fields[EnterField(u, next).i])
<1>1. Formatted(s) /\ s.fields \in Seq(FieldType) /\ u.i \in DOMAIN s.fields /\ Entering(u)
      /\ Edits(s, u.s, InputCells(s))
  BY LongFieldsAreFields DEF WellLaid, Formatted, Writing, InputFields
<1>2. CASE next = 0
  <2>1. EnterField(u, next) = [u EXCEPT !.placed = FALSE]
    BY <1>2 DEF EnterField
  <2>2. [u EXCEPT !.placed = FALSE].placed = FALSE
    BY <1>1 DEF Entering
  <2>3. Writing(s, [u EXCEPT !.placed = FALSE])
    BY DEF Writing, Entering
  <2> QED
    BY <2>1, <2>2, <2>3
<1>3. CASE next # 0
  <2> DEFINE r == IF u.typed THEN SetFieldMdt(u.s, u.i) ELSE u.s
             at == Start(u.s, u.s.fields[next])
             v == [u EXCEPT !.s = r, !.i = next, !.at = at, !.past = FALSE]
  <2>1. EnterField(u, next) = v
    BY <1>3 DEF EnterField
  <2>2. DOMAIN u.s.fields = DOMAIN s.fields
    BY <1>1 DEF Edits
  <2>3. Entering(v)
    BY <1>1, <2>1, <2>2, EnterFieldKeeps DEF InputFields
  <2>4. v.s = r /\ v.i = next /\ v.at = at
    BY <1>1 DEF Entering
  <2>5. next \in InputFields(s) /\ next \in DOMAIN s.fields /\ ~Bound(s)
    BY <1>3 DEF InputFields
  <2>6. at = Start(s, s.fields[next])
    BY <1>1, <2>5, EditedFields
  <2>7. Start(s, s.fields[next]) <= at /\ at < End(s, s.fields[next]) /\ at <= End(s, s.fields[next])
    <3>1. Start(s, s.fields[next]) \in Nat /\ s.fields[next].len \in Nat
          /\ s.fields[next].len >= 1
      BY <1>1, <2>5, FormattedFields
    <3> HIDE DEF at
    <3> QED
      BY <2>6, <3>1 DEF End
  <2>8. MdtOwner(u.s, u.i) = MdtOwner(s, u.i)
    BY <1>1, EditedFields
  <2>9. /\ \A A : Edits(u.s, r, A)
        /\ u.typed => r.fields[MdtOwner(s, u.i)].mdt
    <3>1. Formatted(u.s) /\ u.i \in DOMAIN u.s.fields
      BY <1>1 DEF Entering
    <3> QED
      BY <2>8, <3>1, MdtEdits, EditsNothing
  <2> HIDE DEF r, at, v
  <2>10. Edits(s, r, InputCells(s))
    <3>1. Edits(u.s, r, InputCells(s))
      BY <2>9
    <3> QED
      BY <1>1, <3>1, EditsTwice
  <2>11. ASSUME NEW j \in InputFields(s), NEW a \in Cells(s, s.fields[j]), r.buf[a] # s.buf[a]
         PROVE  r.fields[MdtOwner(s, j)].mdt
    <3>1. a \in DOMAIN s.buf /\ j \in DOMAIN s.fields
      BY InputCellsAreThere
    <3>2. Edits(u.s, r, {})
      BY <2>9
    <3>3. r.buf[a] = u.s.buf[a]
      BY <1>1, <3>1, <3>2 DEF Edits
    <3>4. u.s.fields[MdtOwner(s, j)].mdt \/ (j = u.i /\ u.typed)
      BY <2>11, <3>3 DEF Writing
    <3>5. MdtOwner(s, j) \in DOMAIN s.fields
      BY <1>1, <3>1, OwnerIsField
    <3>6. u.s.fields[MdtOwner(s, j)].mdt => r.fields[MdtOwner(s, j)].mdt
      <4>1. u.s.fields \in Seq(FieldType)
        BY <1>1, LongFieldsAreFields DEF Entering, Formatted
      <4> QED
        BY <2>2, <3>2, <3>5, <4>1, EditedFields
    <3> QED
      BY <2>9, <3>4, <3>6
  <2>12. Writing(s, v)
    BY <2>3, <2>4, <2>5, <2>7, <2>10, <2>11 DEF Writing
  <2> QED
    BY <2>1, <2>4, <2>7, <2>12
<1> QED
  BY <1>2, <1>3

LEMMA TypeCharWrites ==
    ASSUME NEW s, WellLaid(s), NEW u, Writing(s, u), NEW ch, NEW advance \in BOOLEAN
    PROVE  Writing(s, TypeChar(u, ch, advance))
<1> DEFINE next == IF advance THEN AdvanceTarget(u.s, u.i) ELSE 0
           v == IF u.placed /\ Full(u) THEN EnterField(u, next) ELSE u
<1>1. TypeChar(u, ch, advance) = IF v.placed THEN PutChar(v, ch) ELSE v
  BY DEF TypeChar, PutIfPlaced
<1>2. s.fields \in Seq(FieldType) /\ u.i \in DOMAIN s.fields /\ Entering(u)
      /\ Edits(s, u.s, InputCells(s))
  BY LongFieldsAreFields DEF WellLaid, Formatted, Writing, InputFields
<1>3. /\ InputFields(u.s) = InputFields(s)
      /\ End(u.s, u.s.fields[u.i]) = End(s, s.fields[u.i])
      /\ u.s.fields[u.i].fer = s.fields[u.i].fer /\ u.s.fields[u.i].signed = s.fields[u.i].signed
  BY <1>2, EditedFields
<1>4. next \in InputFields(s) \cup {0}
  BY <1>2, <1>3, AdvanceGoesToField DEF Entering
<1>5. Bound(s) => next = 0
  BY <1>3 DEF Bound, AdvanceTarget, Writing
<1> HIDE DEF next
<1>6. Writing(s, v) /\ (v.placed => v.at < End(s, s.fields[v.i]))
  <2>1. CASE u.placed /\ Full(u)
    BY <1>4, <1>5, <2>1, EnterFieldWrites
  <2>2. CASE ~(u.placed /\ Full(u))
    <3>1. u.at \in Nat /\ End(s, s.fields[u.i]) \in Nat
      <4>1. Formatted(s)
        BY DEF WellLaid
      <4>2. Start(s, s.fields[u.i]) \in Nat /\ s.fields[u.i].len \in Nat
        BY <1>2, <4>1, FormattedFields
      <4> QED
        BY <1>2, <4>2 DEF Entering, End
    <3>2. u.placed => ~(u.at >= End(s, s.fields[u.i]))
      BY <1>3, <2>2 DEF Full
    <3>3. u.placed => u.at < End(s, s.fields[u.i])
      BY <3>1, <3>2
    <3> QED
      BY <2>2, <3>3
  <2> QED
    BY <2>1, <2>2
<1> HIDE DEF v
<1> QED
  BY <1>1, <1>6, PutCharWrites

LEMMA TypedTextWrites ==
    ASSUME NEW t, Tty(t), WellLaid(t.s), EntryField(t.s) # 0,
           NEW text \in Seq(STRING), NEW advance \in BOOLEAN
    PROVE  Writing(t.s, TypedText(t, text, advance))
<1> DEFINE at == Offset(t.s, t.s.cursor)
           i == EntryField(t.s)
           base == [s |-> t.s, i |-> i, at |-> at, typed |-> FALSE, placed |-> TRUE,
                    past |-> t.park = at /\ at = End(t.s, t.s.fields[i]) - 1]
           kind == IF advance THEN "advance" ELSE "type"
<1>1. TypedText(t, text, advance)
         = FoldLeft(LAMBDA u, ch : TypeChar(u, ch, advance), base, text)
  BY DEF TypedText
<1>2. Writing(t.s, base)
  <2>1. /\ i \in InputFields(t.s) /\ i \in DOMAIN t.s.fields /\ at \in Nat
        /\ Start(t.s, t.s.fields[i]) <= at /\ at < End(t.s, t.s.fields[i])
    BY CursorInEntry
  <2>2. at <= End(t.s, t.s.fields[i])
    <3>1. Formatted(t.s)
      BY DEF Tty
    <3>2. End(t.s, t.s.fields[i]) \in Nat
      BY <2>1, <3>1, FormattedFields DEF End
    <3> HIDE DEF at, i
    <3> QED
      BY <2>1, <3>2
  <2>3. Edits(t.s, t.s, InputCells(t.s))
    BY EditsNothing
  <2>4. base.s = t.s /\ base.i = i /\ base.at = at
        /\ DOMAIN base = {"s", "i", "at", "past", "typed", "placed"}
    OBVIOUS
  <2>5. i = EntryField(t.s)
    OBVIOUS
  <2> HIDE DEF base, i, at
  <2>6. Entering(base)
    BY <2>1, <2>4 DEF Entering, Tty
  <2> QED
    BY <2>1, <2>2, <2>3, <2>4, <2>5, <2>6 DEF Writing
<1> HIDE DEF base
<1>3. DOMAIN text = 1 .. Len(text) /\ Len(text) \in Nat
  OBVIOUS
<1>4. FoldLeft(LAMBDA u, ch : TypeChar(u, ch, advance), base, text) = Folded(kind, base, text)
  BY <1>3, FoldOfTyping
<1>5. \E g : Walk(kind, base, text, g)
  <2> HIDE DEF kind
  <2> QED
    BY <1>3, StepByStep
<1>6. PICK g : /\ g[0] = base
               /\ \A k \in 1 .. Len(text) : g[k] = Step(kind, g[k - 1], text[k])
               /\ Folded(kind, base, text) = g[Len(text)]
  BY <1>5 DEF Walk
<1> DEFINE P == {k \in 0 .. Len(text) : Writing(t.s, g[k])}
<1>7. 0 \in P
  BY <1>2, <1>3, <1>6
<1>8. \A k \in 1 .. Len(text) : k - 1 \in P => k \in P
  <2> SUFFICES ASSUME NEW k \in 1 .. Len(text), k - 1 \in P PROVE k \in P
    OBVIOUS
  <2>1. g[k] = TypeChar(g[k - 1], text[k], advance)
    BY <1>6 DEF Step
  <2>2. Writing(t.s, g[k - 1]) /\ k \in 0 .. Len(text)
    BY <1>3
  <2>3. Writing(t.s, TypeChar(g[k - 1], text[k], advance))
    BY <2>2, TypeCharWrites
  <2> QED
    BY <2>1, <2>2, <2>3
<1>9. Len(text) \in P
  <2> HIDE DEF P
  <2>1. \A k \in 0 .. Len(text) : k \in P
    BY <1>3, <1>7, <1>8, UpTo
  <2> QED
    BY <1>3, <2>1
<1> QED
  BY <1>1, <1>4, <1>6, <1>9

LEMMA InsertTextEdits ==
    ASSUME NEW t, Tty(t), WellLaid(t.s), NEW text \in Seq(STRING), NEW advance \in BOOLEAN
    PROVE  LET r == InsertText(t, text, advance).s
           IN  /\ Edits(t.s, r, InputCells(t.s))
               /\ Marked(t.s, r)
               /\ EntryField(t.s) # 0 /\ Bound(t.s) =>
                     Edits(t.s, r, Cells(t.s, t.s.fields[EntryField(t.s)]))
<1>1. CASE EntryField(t.s) = 0
  <2>1. InsertText(t, text, advance).s = t.s
    BY <1>1, UnparkKeeps DEF InsertText
  <2>2. \A j \in InputFields(t.s) : \A a \in Cells(t.s, t.s.fields[j]) : t.s.buf[a] = t.s.buf[a]
    OBVIOUS
  <2> QED
    BY <1>1, <2>1, <2>2, EditsNothing DEF Marked
<1>2. CASE EntryField(t.s) # 0
  <2> DEFINE s == t.s
             u == TypedText(t, text, advance)
             end == End(u.s, u.s.fields[u.i])
             at == IF u.at < end THEN u.at ELSE end - 1
             parked == IF u.past \/ u.at >= end THEN end - 1 ELSE None
             moved == [u.s EXCEPT !.cursor = ToRowCol(u.s, at)]
             r == SetFieldMdt(moved, u.i)
  <2>1. InsertText(t, text, advance) = [s |-> r, park |-> parked]
    BY <1>2 DEF InsertText, Typed
  <2>2. Writing(s, u)
    BY <1>2, TypedTextWrites
  <2> HIDE DEF u
  <2>3. Entering(u) /\ Formatted(u.s) /\ Edits(s, u.s, InputCells(s))
        /\ s.fields \in Seq(FieldType) /\ u.i \in DOMAIN s.fields
    BY <2>2 DEF Writing, Entering, Tty, Formatted, Screen, InputFields
  <2> HIDE DEF parked, at
  <2>4. at \in Nat
    <3>1. end \in Nat /\ end >= 1 /\ u.at \in Nat
      BY <2>3, FormattedFields DEF Entering, End
    <3> HIDE DEF end
    <3> QED
      BY <3>1 DEF at
  <2>5. Formatted(moved) /\ moved.fields = u.s.fields
    <3>1. ToRowCol(u.s, at) \in Spots
      BY <2>3, <2>4, ToRowColIsSpot DEF Formatted, Screen
    <3> QED
      BY <2>3, <3>1, FormattedCursor DEF Formatted, Screen, ScreenParts
  <2>6. \A A : Edits(u.s, moved, A)
    BY <2>3, CursorEdits
  <2> HIDE DEF moved
  <2>7. \A A : Edits(moved, r, A) /\ r.fields[MdtOwner(moved, u.i)].mdt
    BY <2>3, <2>5, MdtEdits DEF Entering
  <2>8. MdtOwner(moved, u.i) = MdtOwner(s, u.i)
    <3>1. Edits(u.s, moved, {}) /\ u.s.fields \in Seq(FieldType) /\ u.i \in DOMAIN u.s.fields
      BY <2>3, <2>6 DEF Entering, Formatted, Screen
    <3>2. MdtOwner(moved, u.i) = MdtOwner(u.s, u.i)
      BY <3>1, EditedFields
    <3>3. MdtOwner(u.s, u.i) = MdtOwner(s, u.i)
      BY <2>3, EditedFields
    <3> QED
      BY <3>2, <3>3
  <2> HIDE DEF r
  <2>9. \A A : Edits(u.s, r, A)
    <3> TAKE A
    <3>1. u.s.fields \in Seq(FieldType) /\ Edits(u.s, moved, A) /\ Edits(moved, r, A)
      BY <2>3, <2>6, <2>7 DEF Formatted, Screen
    <3> QED
      BY <3>1, EditsTwice
  <2>10. Edits(s, r, InputCells(s))
    <3>1. Edits(u.s, r, InputCells(s))
      BY <2>9
    <3> QED
      BY <2>3, <3>1, EditsTwice
  <2>11. \A a \in DOMAIN s.buf : r.buf[a] = u.s.buf[a]
    <3>1. Edits(u.s, r, {})
      BY <2>9
    <3> QED
      BY <2>3, <3>1 DEF Edits
  <2>12. \A j \in DOMAIN s.fields : u.s.fields[j].mdt => r.fields[j].mdt
    <3>1. Edits(u.s, r, {}) /\ u.s.fields \in Seq(FieldType)
      BY <2>3, <2>9 DEF Formatted, Screen
    <3>2. DOMAIN u.s.fields = DOMAIN s.fields
      BY <2>3 DEF Edits
    <3> QED
      BY <3>1, <3>2, EditedFields
  <2>13. Marked(s, r)
    <3> SUFFICES ASSUME NEW j \in InputFields(s), NEW a \in Cells(s, s.fields[j]),
                        r.buf[a] # s.buf[a]
                 PROVE  r.fields[MdtOwner(s, j)].mdt
      BY DEF Marked
    <3>1. a \in DOMAIN s.buf /\ j \in DOMAIN s.fields
      BY InputCellsAreThere
    <3>2. u.s.fields[MdtOwner(s, j)].mdt \/ j = u.i
      BY <2>2, <2>11, <3>1 DEF Writing
    <3>3. MdtOwner(s, j) \in DOMAIN s.fields
      BY <2>3, <3>1, OwnerIsField
    <3> QED
      BY <2>7, <2>8, <2>12, <3>2, <3>3
  <2>14. Bound(s) => Edits(s, r, Cells(s, s.fields[EntryField(s)]))
    <3>1. Bound(s) => \A a \in DOMAIN s.buf :
             r.buf[a] # s.buf[a] => a \in Cells(s, s.fields[EntryField(s)])
      BY <2>2, <2>11 DEF Writing
    <3> QED
      BY <2>10, <3>1 DEF Edits
  <2>15. InsertText(t, text, advance).s = r
    BY <2>1
  <2> QED
    BY <2>10, <2>13, <2>14, <2>15
<1> QED
  BY <1>1, <1>2

-----------------------------------------------------------------------------
(* Edits are answered.                                                     *)

\* A modified field that is not a later part of a group is answered for itself
LEMMA ModifiedIsAnswered ==
    ASSUME NEW s, Formatted(s), NEW i \in InputFields(s),
           s.fields[i].cont \in {"no", "first"}, s.fields[i].mdt
    PROVE  \E k \in DOMAIN AnsweredFields(s) :
              Place(AnsweredFields(s)[k]) = Place(s.fields[i])
<1> DEFINE all == s.readOp \in {"INPUT_FIELDS", "IMMEDIATE"}
           I == {j \in DOMAIN s.fields :
                    /\ Leads(s, j)
                    /\ s.fields[j].mdt \/ (all /\ \E m \in DOMAIN s.fields : s.fields[m].mdt)}
           text(j) == IF all THEN EncodeFieldInline(s, j)
                      ELSE EncodeFieldMdt(s, j, s.readOp \in {"none", "MDT_FIELDS"})
           at(k) == CHOOSE j \in I : Cardinality({m \in I : m < j}) = k - 1
           R == {p \in I \X I : p[1] < p[2]}
           k == Cardinality({m \in I : m < i}) + 1
<1>1. AnsweredFields(s) = [n \in 1 .. Cardinality(I) |-> FieldAnswer(s, at(n), text(at(n)))]
  BY DEF AnsweredFields
<1>2. i \in I /\ I \subseteq DOMAIN s.fields
  BY DEF InputFields, Leads
<1>3. IsFiniteSet(I) /\ I \subseteq Nat
  <2>1. s.fields \in Seq(FieldType)
    BY DEF Formatted, Screen
  <2> HIDE DEF I
  <2> QED
    BY <1>2, <2>1, FieldSetIsFinite
<1> HIDE DEF I
<1>4. Ranks(R, I)
  <2>1. \A j, m \in I : <<j, m>> \in R <=> j < m
    OBVIOUS
  <2> HIDE DEF R
  <2> QED
    BY <1>3, <2>1 DEF Ranks
<1>5. \A j \in I : Ahead(R, I, j) = {m \in I : m < j}
  BY DEF Ahead
<1> HIDE DEF R
<1>6. Cardinality({m \in I : m < i}) \in 0 .. Cardinality(I) - 1 /\ Cardinality(I) \in Nat
  <2>1. Cardinality(Ahead(R, I, i)) \in 0 .. Cardinality(I) - 1 /\ Cardinality(I) \in Nat
    BY <1>2, <1>3, <1>4, AheadIsFinite
  <2> QED
    BY <1>2, <1>5, <2>1
<1>7. k \in 1 .. Cardinality(I) /\ Cardinality({m \in I : m < i}) = k - 1
  BY <1>6
<1>8. \A j \in I : j # i => Cardinality({m \in I : m < j}) # Cardinality({m \in I : m < i})
  <2>1. \A j \in I : j # i => Cardinality(Ahead(R, I, j)) # Cardinality(Ahead(R, I, i))
    BY <1>2, <1>3, <1>4, RanksDiffer
  <2> QED
    BY <1>2, <1>5, <2>1
<1> HIDE DEF k
<1>9. at(k) = i
  BY <1>2, <1>7, <1>8
<1> HIDE DEF at, text
<1>10. k \in DOMAIN AnsweredFields(s)
       /\ AnsweredFields(s)[k] = FieldAnswer(s, i, text(i))
  BY <1>1, <1>7, <1>9
<1>11. Place(FieldAnswer(s, i, text(i))) = Place(s.fields[i])
  BY DEF Place, FieldAnswer
<1> QED
  BY <1>10, <1>11

LEMMA LeaderIsOwner ==
    ASSUME Settled(parser), NEW i \in InputFields(screen)
    PROVE  /\ Leader(i) = MdtOwner(screen, i)
           /\ Leader(i) \in DOMAIN screen.fields /\ i \in DOMAIN screen.fields
<1>1. i \in DOMAIN screen.fields
  BY DEF InputFields
<1>2. Leader(i) = MdtOwner(screen, i)
  BY DEF Leader, MdtOwner
<1> QED
  BY <1>1, <1>2, TerminalIsTty, OwnerIsField, LongFieldsAreFields DEF Formatted

\* The cells of the screen as painted, flagged or deleted from
LEMMA EditKeepsMarks ==
    ASSUME Settled(parser), EditsAreMarked, InputCells(screen) \subseteq DOMAIN screen.buf,
           Edits(screen, screen', InputCells(screen)), UNCHANGED painted,
           deleted \subseteq deleted',
           \A j \in InputFields(screen) :
              (\E a \in Cells(screen, screen.fields[j]) : screen'.buf[a] # screen.buf[a]) =>
                  screen'.fields[Leader(j)].mdt \/ j \in deleted'
    PROVE  EditsAreMarked'
<1>1. screen.fields \in Seq(FieldType)
  BY TerminalIsTty DEF Formatted, Screen
<1>2. InputFields(screen') = InputFields(screen)
  BY <1>1, EditedFields
<1>3. SUFFICES ASSUME NEW i \in InputFields(screen'),
                      NEW a \in Cells(screen', screen'.fields[i]), screen'.buf[a] # painted'[a]
               PROVE  screen'.fields[Leader(i)'].mdt \/ i \in deleted'
  BY DEF EditsAreMarked, Differs
<1>4. i \in InputFields(screen)
  BY <1>2
<1>5. Leader(i) = MdtOwner(screen, i) /\ Leader(i) \in DOMAIN screen.fields
      /\ i \in DOMAIN screen.fields
  BY <1>4, LeaderIsOwner
<1>6. Leader(i)' = Leader(i)
  <2>1. Leader(i)' = MdtOwner(screen', i)
    BY DEF Leader, MdtOwner
  <2> QED
    BY <1>1, <1>5, <2>1, EditedFields
<1>7. a \in Cells(screen, screen.fields[i])
      /\ (screen.fields[Leader(i)].mdt => screen'.fields[Leader(i)].mdt)
  BY <1>1, <1>3, <1>5, EditedFields
<1>8. CASE screen'.buf[a] # screen.buf[a]
  BY <1>4, <1>6, <1>7, <1>8
<1>9. CASE screen'.buf[a] = screen.buf[a]
  <2>1. screen.buf[a] # painted[a]
    BY <1>3, <1>9
  <2> QED
    BY <1>4, <1>6, <1>7, <2>1 DEF EditsAreMarked, Differs
<1> QED
  BY <1>8, <1>9

LEMMA PaintedIsMarked ==
    ASSUME painted = screen.buf
    PROVE  EditsAreMarked
BY DEF EditsAreMarked, Differs

LEMMA SoundIsWellLaid ==
    ASSUME Settled(parser), FormatIsSound
    PROVE  /\ Tty(terminal) /\ terminal.s = screen /\ WellLaid(screen)
           /\ InputCells(screen) \subseteq DOMAIN screen.buf
           /\ DOMAIN screen.buf = 0 .. Size(screen) - 1
<1>1. Tty(terminal) /\ terminal.s = screen /\ Formatted(screen)
  BY TerminalIsTty
<1>2. NoCellBeyondScreen /\ CursorOnScreen /\ ErrorFitsScreen /\ InputFieldsApart
  BY DEF FormatIsSound
<1> QED
  BY <1>1, <1>2
     DEF WellLaid, Apart, ErrorFits,
         NoCellBeyondScreen, CursorOnScreen, ErrorFitsScreen, InputFieldsApart

LEMMA InputLeaves ==
    ASSUME Settled(parser), NEW t, Input(t)
    PROVE  screen' = t.s
<1>1. parser' = [parser EXCEPT !.s = t.s]
  BY DEF Input
<1>2. parser'.s = t.s
  BY <1>1 DEF Settled, Parser
<1> QED
  BY <1>2 DEF screen

LEMMA PressEdits ==
    ASSUME Settled(parser), FormatIsSound, NEW key \in Keys \ {"Reset"}, Press(key)
    PROVE  IF key \in DeletingKeys THEN Cut(screen, screen') ELSE Edited(screen, screen')
<1> DEFINE t == CASE key \in {"left", "right", "up", "down"} -> ArrowKey(terminal, key)
                  [] key = "Tab" -> TabKey(terminal, TRUE)
                  [] key = "Backtab" -> TabKey(terminal, FALSE)
                  [] key = "Home" -> HomeKey(terminal)
                  [] key = "End" -> EndKey(terminal)
                  [] key = "Insert" -> InsertKey(terminal)
                  [] key = "Backspace" -> BackspaceKey(terminal)
                  [] key = "Delete" -> DeleteKey(terminal)
                  [] key = "EraseEOF" -> EraseEOF(terminal)
                  [] key = "FieldExit" -> FieldExitKey(terminal)
<1>1. Input(t)
  BY DEF Press
<1>2. Tty(terminal) /\ terminal.s = screen /\ WellLaid(terminal.s)
  BY SoundIsWellLaid
<1>3. IF key \in DeletingKeys THEN Cut(terminal.s, t.s) ELSE Edited(terminal.s, t.s)
  <2>1. CASE key \in {"left", "right", "up", "down"}
    BY <1>2, <2>1, ArrowKeyMoves, MovesEdit DEF DeletingKeys
  <2>2. CASE key = "Tab"
    BY <1>2, <2>2, TabKeyMoves, MovesEdit DEF DeletingKeys
  <2>3. CASE key = "Backtab"
    BY <1>2, <2>3, TabKeyMoves, MovesEdit DEF DeletingKeys
  <2>4. CASE key = "Home"
    BY <1>2, <2>4, HomeKeyMoves, MovesEdit DEF DeletingKeys
  <2>5. CASE key = "End"
    BY <1>2, <2>5, EndKeyMoves, MovesEdit DEF DeletingKeys
  <2>6. CASE key = "Insert"
    <3>1. Edits(terminal.s, InsertKey(terminal).s, {})
      BY <1>2, InsertKeyKeeps DEF Edits, SameButFlag
    <3>2. Edited(terminal.s, InsertKey(terminal).s)
      BY <1>2, <3>1, SameCellsEdited DEF WellLaid
    <3> QED
      BY <2>6, <3>2 DEF DeletingKeys
  <2>7. CASE key = "Backspace"
    BY <1>2, <2>7, BackspaceKeyEdits DEF DeletingKeys
  <2>8. CASE key = "Delete"
    BY <1>2, <2>8, DeleteKeyEdits DEF DeletingKeys
  <2>9. CASE key = "EraseEOF"
    BY <1>2, <2>9, EraseEOFEdits DEF DeletingKeys
  <2>10. CASE key = "FieldExit"
    BY <1>2, <2>10, FieldExitKeyEdits DEF DeletingKeys
  <2> QED
    BY <2>1, <2>2, <2>3, <2>4, <2>5, <2>6, <2>7, <2>8, <2>9, <2>10, KeysAssumption
<1> HIDE DEF t
<1> QED
  BY <1>1, <1>2, <1>3, InputLeaves

LEMMA TypeTextEdits ==
    ASSUME Settled(parser), FormatIsSound,
           NEW text \in Texts, NEW advance \in BOOLEAN, TypeText(text, advance)
    PROVE  /\ Edits(screen, screen', InputCells(screen))
           /\ Marked(screen, screen')
           /\ EntryField(screen) # 0 /\ Bound(screen) =>
                 Edits(screen, screen', Cells(screen, screen.fields[EntryField(screen)]))
<1>1. Tty(terminal) /\ terminal.s = screen /\ WellLaid(terminal.s)
  BY SoundIsWellLaid
<1>2. text \in Seq(STRING)
  BY TextsAssumption
<1>3. Input(InsertText(terminal, text, advance))
  BY DEF TypeText
<1>4. screen' = InsertText(terminal, text, advance).s
  BY <1>3, InputLeaves
<1> QED
  BY <1>1, <1>2, <1>4, InsertTextEdits

LEMMA PlaceCursorEdits ==
    ASSUME Settled(parser), FormatIsSound, NEW i \in DOMAIN screen.fields,
           PlaceCursor(screen.fields[i].row, screen.fields[i].col + 1)
    PROVE  Edited(screen, screen')
<1> DEFINE row == screen.fields[i].row
           col == screen.fields[i].col + 1
<1>1. Tty(terminal) /\ terminal.s = screen /\ WellLaid(terminal.s) /\ Formatted(screen)
  BY SoundIsWellLaid, TerminalIsTty
<1>2. row \in Nat /\ col \in Nat
  BY <1>1, FormattedFields DEF FieldType
<1>3. PlaceCursor(row, col)
  OBVIOUS
<1> HIDE DEF row, col
<1>4. screen' = SetCursor(terminal, row, col).s
  BY <1>3, InputLeaves DEF PlaceCursor
<1> QED
  BY <1>1, <1>2, <1>4, SetCursorMoves, MovesEdit

LEMMA PressAidEdits ==
    ASSUME Settled(parser), FormatIsSound, NEW key, PressAid(key)
    PROVE  Edited(screen, screen')
<1>1. Tty(terminal) /\ terminal.s = screen /\ WellLaid(terminal.s)
  BY SoundIsWellLaid
<1>2. screen' = AidKey(terminal, key).s
  BY InputLeaves DEF PressAid
<1>3. Edits(screen, screen', {})
  BY <1>1, <1>2, AidKeyKeeps DEF Edits, SameButFlag
<1> QED
  BY <1>1, <1>3, SameCellsEdited DEF WellLaid

\* Every input but Reset is an edit of the input fields, and leaves the painted cells
LEMMA InputsEdit ==
    ASSUME Settled(parser), FormatIsSound, Next, inputs \in Nat,
           inputs' > inputs, ~PressReset
    PROVE  Edits(screen, screen', InputCells(screen))
<1>1. ASSUME NEW r \in Records, HostSends(r) PROVE FALSE
  BY <1>1 DEF HostSends
<1>2. ~Reconnect
  BY DEF Reconnect
<1>3. ASSUME NEW text \in Texts, NEW advance \in BOOLEAN, TypeText(text, advance)
      PROVE  Edits(screen, screen', InputCells(screen))
  BY <1>3, TypeTextEdits
<1>4. ASSUME NEW key \in Keys \ {"Reset"}, Press(key)
      PROVE  Edits(screen, screen', InputCells(screen))
  BY <1>4, PressEdits DEF Edited, Cut
<1>5. ASSUME NEW i \in DOMAIN screen.fields,
             PlaceCursor(screen.fields[i].row, screen.fields[i].col + 1)
      PROVE  Edits(screen, screen', InputCells(screen))
  BY <1>5, PlaceCursorEdits DEF Edited
<1>6. ASSUME NEW key \in Attentions, PressAid(key)
      PROVE  Edits(screen, screen', InputCells(screen))
  BY <1>6, PressAidEdits DEF Edited
<1> QED
  BY <1>1, <1>2, <1>3, <1>4, <1>5, <1>6 DEF Next

LEMMA CutKeepsMarks ==
    ASSUME Settled(parser), FormatIsSound, EditsAreMarked, Cut(screen, screen'),
           UNCHANGED painted, deleted' = deleted \cup DeletedFrom
    PROVE  EditsAreMarked'
<1>1. InputCells(screen) \subseteq DOMAIN screen.buf /\ DOMAIN screen.buf = 0 .. Size(screen) - 1
  BY SoundIsWellLaid
<1>2. ASSUME NEW j \in InputFields(screen), NEW a \in Cells(screen, screen.fields[j]),
             screen'.buf[a] # screen.buf[a]
      PROVE  screen'.fields[Leader(j)].mdt \/ j \in deleted'
  <2>1. CASE Leader(j) = j
    BY <1>2, <2>1 DEF Cut, MarkedItself
  <2>2. CASE Leader(j) # j
    <3>1. a \in Changed
      BY <1>1, <1>2 DEF InputCells, Changed
    <3> QED
      BY <1>2, <2>2, <3>1 DEF DeletedFrom
  <2> QED
    BY <2>1, <2>2
<1>3. Edits(screen, screen', InputCells(screen))
  BY DEF Cut
<1> QED
  BY <1>1, <1>2, <1>3, EditKeepsMarks

\* What the operator does, Reset apart, changes no protected cell, and typing never
\* leaves a field that must be left by a Field Exit or whose last cell is a sign
\* (insertText(), advanceTarget()), as long as the host's format is sound.
THEOREM EditsStayInside ==
    Spec /\ []FormatIsSound => EditsStayInFields /\ TypingStaysBehindFieldExit
<1>1. Init => inputs \in Nat
  BY DEF Init
<1>2. inputs \in Nat /\ [Next]_vars => (inputs \in Nat)'
  <2>1. \A t : Input(t) => inputs' = inputs + 1
    BY DEF Input
  <2>2. Next => inputs' = inputs + 1 \/ inputs' = inputs \/ inputs' = 0
    BY <2>1 DEF Next, HostSends, TypeText, Press, PressReset, PlaceCursor, PressAid, Reconnect
  <2>3. inputs \in Nat => 0 \in Nat /\ inputs + 1 \in Nat
    OBVIOUS
  <2> QED
    BY <2>2, <2>3 DEF vars
<1>3. Settled(parser) /\ FormatIsSound /\ inputs \in Nat /\ [Next]_vars =>
         [inputs' > inputs /\ ~PressReset => Changed \subseteq InputCells(screen)]_vars
  <2> SUFFICES ASSUME Settled(parser), FormatIsSound, inputs \in Nat, Next,
                      inputs' > inputs, ~PressReset
               PROVE  Changed \subseteq InputCells(screen)
    OBVIOUS
  <2>1. Edits(screen, screen', InputCells(screen))
    BY InputsEdit
  <2>2. DOMAIN screen.buf = 0 .. Size(screen) - 1
    BY SoundIsWellLaid
  <2> QED
    BY <2>1, <2>2 DEF Edits, Changed
<1>4. Settled(parser) /\ FormatIsSound /\ [Next]_vars =>
         [(\E text \in Texts, advance \in BOOLEAN : TypeText(text, advance)) =>
            \A i \in DOMAIN screen.fields :
                i = EntryField(screen) /\ (screen.fields[i].fer \/ screen.fields[i].signed) =>
                    Changed \subseteq Cells(screen, screen.fields[i])]_vars
  <2> SUFFICES ASSUME Settled(parser), FormatIsSound,
                      NEW text \in Texts, NEW advance \in BOOLEAN, TypeText(text, advance),
                      NEW i \in DOMAIN screen.fields, i = EntryField(screen),
                      screen.fields[i].fer \/ screen.fields[i].signed
               PROVE  Changed \subseteq Cells(screen, screen.fields[i])
    OBVIOUS
  <2>1. i # 0 /\ Bound(screen)
    BY FormattedFields, TerminalIsTty DEF Bound
  <2>2. Edits(screen, screen', Cells(screen, screen.fields[i]))
    BY <2>1, TypeTextEdits
  <2>3. DOMAIN screen.buf = 0 .. Size(screen) - 1
    BY SoundIsWellLaid
  <2> QED
    BY <2>2, <2>3 DEF Edits, Changed
<1> QED
  BY <1>1, <1>2, <1>3, <1>4, ParserSettles, PTL
     DEF Spec, EditsStayInFields, TypingStaysBehindFieldExit

-----------------------------------------------------------------------------
(* A sound format stays sound, whatever the operator does.                 *)

\* What an edit leaves alone is enough for a well-laid screen to stay one
LEMMA EditsKeepLayout ==
    ASSUME NEW s, WellLaid(s), NEW t, Formatted(t), NEW A, Edits(s, t, A), OnScreen(s, t.cursor)
    PROVE  WellLaid(t)
<1>1. s.fields \in Seq(FieldType)
  BY DEF WellLaid, Formatted, Screen
<1>2. t.rows = s.rows /\ t.cols = s.cols /\ DOMAIN t.buf = DOMAIN s.buf
      /\ t.errorCursor = s.errorCursor /\ t.msgLine = s.msgLine
  BY DEF Edits
<1>3. InputFields(t) = InputFields(s)
      /\ \A i \in DOMAIN s.fields : Cells(t, t.fields[i]) = Cells(s, s.fields[i])
  BY <1>1, EditedFields
<1>4. \A i \in InputFields(s) : i \in DOMAIN s.fields
  BY DEF InputFields
<1>5. InputCells(t) = InputCells(s)
  BY <1>3, <1>4 DEF InputCells
<1>6. ASSUME NEW i \in InputFields(t)
      PROVE  OnScreen(t, t.fields[i])
  <2>1. i \in InputFields(s) /\ i \in DOMAIN s.fields
    BY <1>3, <1>4
  <2>2. s.fields[i] \in FieldType /\ SameButFlag(s.fields[i], t.fields[i])
    BY <1>1, <2>1 DEF Edits
  <2>3. t.fields[i].row = s.fields[i].row /\ t.fields[i].col = s.fields[i].col
    BY <2>2, KeptField
  <2>4. OnScreen(s, s.fields[i])
    BY <2>1 DEF WellLaid
  <2> QED
    BY <1>2, <2>3, <2>4 DEF OnScreen
<1>7. OnScreen(t, t.cursor)
  BY <1>2 DEF OnScreen
<1>8. ErrorFits(t)
  BY <1>2 DEF ErrorFits, WellLaid, OnScreen
<1>9. Apart(t)
  BY <1>3, <1>4 DEF Apart, WellLaid
<1>10. DOMAIN t.buf = 0 .. Size(t) - 1 /\ InputCells(t) \subseteq DOMAIN t.buf
  BY <1>2, <1>5 DEF Size, WellLaid
<1> QED
  BY <1>6, <1>7, <1>8, <1>9, <1>10 DEF WellLaid

\* No entry field runs on into the next row
RowsHold(s) == \A i \in InputFields(s) : s.fields[i].col + s.fields[i].len <= s.cols

LEMMA EditsKeepRows ==
    ASSUME NEW s, Formatted(s), NEW t, NEW A, Edits(s, t, A), RowsHold(s)
    PROVE  RowsHold(t)
<1>1. s.fields \in Seq(FieldType)
  BY DEF Formatted, Screen
<1>2. InputFields(t) = InputFields(s) /\ t.cols = s.cols
  BY <1>1, EditedFields DEF Edits
<1>3. SUFFICES ASSUME NEW i \in InputFields(t)
               PROVE  t.fields[i].col + t.fields[i].len <= t.cols
  BY DEF RowsHold
<1>4. i \in InputFields(s) /\ i \in DOMAIN s.fields
  BY <1>2 DEF InputFields
<1>5. s.fields[i] \in FieldType /\ SameButFlag(s.fields[i], t.fields[i])
  BY <1>1, <1>4 DEF Edits
<1>6. t.fields[i].col = s.fields[i].col /\ t.fields[i].len = s.fields[i].len
  BY <1>5, KeptField
<1> QED
  BY <1>2, <1>4, <1>6 DEF RowsHold

\* The place of a cell of the screen
LEMMA CellIsOnScreen ==
    ASSUME NEW rows \in Nat \ {0}, NEW cols \in Nat \ {0}, NEW a \in Nat, a < rows * cols
    PROVE  a \div cols \in 0 .. rows - 1 /\ a % cols \in 0 .. cols - 1
<1> DEFINE q == a \div cols
           m == a % cols
<1>1. q \in Nat /\ m \in 0 .. cols - 1 /\ a = cols * q + m
  OBVIOUS
<1> HIDE DEF q, m
<1>2. ~(q >= rows)
  <2> SUFFICES ASSUME q >= rows PROVE FALSE
    OBVIOUS
  <2>1. PICK d \in Nat : q = rows + d
    <3>1. q - rows \in Nat /\ q = rows + (q - rows)
      BY <1>1
    <3> QED
      BY <3>1
  <2>2. cols * q = rows * cols + cols * d /\ cols * d \in Nat /\ rows * cols \in Nat
    BY <2>1
  <2> DEFINE n == rows * cols
             k == cols * d
             l == cols * q
  <2>3. l = n + k /\ k \in Nat /\ n \in Nat /\ a = l + m /\ a < n
    BY <1>1, <2>2
  <2> HIDE DEF n, k, l
  <2> QED
    BY <1>1, <2>3
<1>3. q \in 0 .. rows - 1
  BY <1>1, <1>2
<1> QED
  BY <1>1, <1>3 DEF q, m

LEMMA PlaceOfCell ==
    ASSUME NEW s, Sized(s), NEW a \in Nat, a < Size(s)
    PROVE  OnScreen(s, ToRowCol(s, a))
<1>1. a \div s.cols \in 0 .. s.rows - 1 /\ a % s.cols \in 0 .. s.cols - 1
  BY CellIsOnScreen DEF Sized, Size
<1> QED
  BY <1>1 DEF ToRowCol, OnScreen

LEMMA PlaceOfField ==
    ASSUME NEW s, WellLaid(s), NEW i \in InputFields(s)
    PROVE  OnScreen(s, Place(s.fields[i]))
<1>1. OnScreen(s, s.fields[i])
  BY DEF WellLaid
<1> QED
  BY <1>1 DEF OnScreen, Place

LEMMA WrappedIsThere ==
    ASSUME NEW n \in Int, NEW size \in Nat \ {0}
    PROVE  Wrapped(n, size) \in 0 .. size - 1
BY DEF Wrapped

\* The keys leave the cursor on the screen.
LEMMA ArrowStays ==
    ASSUME NEW t, Tty(t), WellLaid(t.s), NEW dir \in {"left", "right", "up", "down"}
    PROVE  OnScreen(t.s, ArrowKey(t, dir).s.cursor)
<1> DEFINE s == t.s
           c == s.cursor
           col == c.col + (CASE dir = "left" -> -1 [] dir = "right" -> 1 [] OTHER -> 0)
           row == c.row + (CASE dir = "up" \/ col < 0 -> -1
                             [] dir = "down" \/ (dir = "right" /\ col >= s.cols) -> 1
                             [] OTHER -> 0)
           to == [row |-> Wrapped(row, s.rows),
                  col |-> IF dir \in {"left", "right"} THEN Wrapped(col, s.cols) ELSE col]
           v == Unpark(t)
<1>1. ArrowKey(t, dir) = [v EXCEPT !.s.cursor = to]
  BY DEF ArrowKey
<1>2. c.row \in 0 .. s.rows - 1 /\ c.col \in 0 .. s.cols - 1
      /\ s.rows \in Nat \ {0} /\ s.cols \in Nat \ {0}
  BY DEF WellLaid, OnScreen, Formatted, Screen, Sized
<1>3. col \in Int /\ (dir \notin {"left", "right"} => col = c.col)
  <2> HIDE DEF c
  <2>1. CASE dir = "left"
    BY <1>2, <2>1
  <2>2. CASE dir = "right"
    BY <1>2, <2>2
  <2>3. CASE dir \notin {"left", "right"}
    BY <1>2, <2>3
  <2> QED
    BY <2>1, <2>2, <2>3
<1> HIDE DEF col
<1>4. row \in Int
  <2> HIDE DEF c
  <2>1. CASE dir = "up" \/ col < 0
    BY <1>2, <2>1
  <2>2. CASE ~(dir = "up" \/ col < 0) /\ (dir = "down" \/ (dir = "right" /\ col >= s.cols))
    BY <1>2, <2>2
  <2>3. CASE ~(dir = "up" \/ col < 0) /\ ~(dir = "down" \/ (dir = "right" /\ col >= s.cols))
    BY <1>2, <2>3
  <2> QED
    BY <2>1, <2>2, <2>3
<1> HIDE DEF row
<1>5. to.row \in 0 .. s.rows - 1 /\ to.col \in 0 .. s.cols - 1
  <2>1. Wrapped(row, s.rows) \in 0 .. s.rows - 1 /\ Wrapped(col, s.cols) \in 0 .. s.cols - 1
    BY <1>2, <1>3, <1>4, WrappedIsThere
  <2>2. (IF dir \in {"left", "right"} THEN Wrapped(col, s.cols) ELSE col) \in 0 .. s.cols - 1
    BY <1>2, <1>3, <2>1
  <2> QED
    BY <2>1, <2>2
<1>6. Tty(v) /\ v.s = t.s
  BY UnparkKeeps
<1> HIDE DEF to, v
<1>7. [v EXCEPT !.s.cursor = to].s.cursor = to
  BY <1>6 DEF Tty, Formatted, Screen, ScreenParts
<1> QED
  BY <1>1, <1>5, <1>7 DEF OnScreen

LEMMA MovedTo ==
    ASSUME NEW t, Tty(t), NEW i
    PROVE  MoveTo(t, i).s.cursor = Place(t.s.fields[i])
BY DEF MoveTo, Tty, Formatted, Screen, ScreenParts

LEMMA TabStays ==
    ASSUME NEW t, Tty(t), WellLaid(t.s), NEW forward \in BOOLEAN
    PROVE  OnScreen(t.s, TabKey(t, forward).s.cursor)
<1> DEFINE i == AdjacentInputField(t.s, Offset(t.s, t.s.cursor), forward)
           v == Unpark(t)
<1>1. TabKey(t, forward) = IF i = 0 THEN v ELSE MoveTo(v, i)
  BY DEF TabKey
<1>2. Tty(v) /\ v.s = t.s
  BY UnparkKeeps
<1>3. i = 0 \/ i \in InputFields(t.s)
  BY TabGoesToInput DEF Tty, Formatted, Screen
<1> HIDE DEF i, v
<1>4. OnScreen(t.s, t.s.cursor)
  BY DEF WellLaid
<1> QED
  BY <1>1, <1>2, <1>3, <1>4, MovedTo, PlaceOfField

LEMMA HomeStays ==
    ASSUME NEW t, Tty(t), WellLaid(t.s)
    PROVE  OnScreen(t.s, HomeKey(t).s.cursor)
<1> DEFINE i == EntryField(t.s)
           v == Unpark(t)
<1>1. HomeKey(t) = IF i = 0 THEN v ELSE MoveTo(v, i)
  BY DEF HomeKey
<1>2. Tty(v) /\ v.s = t.s
  BY UnparkKeeps
<1>3. i = 0 \/ i \in InputFields(t.s)
  BY EntryIsField DEF Tty, Formatted, Screen
<1> HIDE DEF i, v
<1>4. OnScreen(t.s, t.s.cursor)
  BY DEF WellLaid
<1> QED
  BY <1>1, <1>2, <1>3, <1>4, MovedTo, PlaceOfField

\* End goes to a column of the field, on the row it is on
LEMMA EndStays ==
    ASSUME NEW t, Tty(t), WellLaid(t.s), RowsHold(t.s)
    PROVE  OnScreen(t.s, EndKey(t).s.cursor)
<1> DEFINE s == t.s
           i == EntryField(s)
           f == s.fields[i]
           inked == {k \in 0 .. f.len - 1 : CharAt(s, Start(s, f) + k) # Blank}
           last == IF inked = {} THEN 0 ELSE Max(inked) + 1
           col == f.col + Min({last, f.len - 1})
           v == Unpark(t)
<1>1. EndKey(t) = IF i = 0 THEN v ELSE [v EXCEPT !.s.cursor.col = col]
  BY DEF EndKey
<1>2. Tty(v) /\ v.s = t.s
  BY UnparkKeeps
<1>3. OnScreen(s, s.cursor)
  BY DEF WellLaid
<1>4. CASE i = 0
  BY <1>1, <1>2, <1>3, <1>4
<1>5. CASE i # 0
  <2>1. i \in InputFields(s) /\ i \in DOMAIN s.fields /\ Formatted(s)
    BY <1>5, EntryIsField DEF Tty, Formatted, Screen
  <2>2. f.len \in Nat /\ f.len >= 1 /\ f.col \in Nat /\ f.col + f.len <= s.cols /\ s.cols \in Nat
    BY <2>1, FormattedFields DEF FieldType, RowsHold, Formatted, Screen, Sized
  <2>3. last \in Nat
    <3>1. inked \subseteq 0 .. f.len - 1 /\ f.len - 1 \in Nat
      BY <2>2
    <3>2. inked # {} => Max(inked) \in 0 .. f.len - 1
      <4> HIDE DEF inked, f
      <4> QED
        BY <3>1, MaxOfNumbers
    <3> HIDE DEF inked, f
    <3> QED
      BY <2>2, <3>2
  <2>4. col \in 0 .. s.cols - 1
    <3> HIDE DEF last, f
    <3>1. f.len - 1 \in Int /\ last \in Int /\ f.len - 1 >= 0
      BY <2>2, <2>3
    <3>2. Min({last, f.len - 1}) \in 0 .. f.len - 1
      BY <2>2, <2>3, <3>1, MinOfTwo
    <3> QED
      BY <2>2, <3>2
  <2> HIDE DEF col, v, i
  <2> DEFINE c == [v.s.cursor EXCEPT !.col = col]
  <2>5. [v EXCEPT !.s.cursor.col = col].s.cursor = c
    BY <1>2 DEF Tty, Formatted, Screen, ScreenParts
  <2>6. c.row = s.cursor.row /\ c.col = col
    BY <1>2 DEF Tty, Formatted, Screen, Placed, Spots
  <2> HIDE DEF c
  <2> QED
    BY <1>1, <1>3, <1>5, <2>4, <2>5, <2>6 DEF OnScreen
<1> QED
  BY <1>4, <1>5

LEMMA SetCursorStays ==
    ASSUME NEW t, Tty(t), WellLaid(t.s), NEW row \in Nat, NEW col \in Nat
    PROVE  OnScreen(t.s, SetCursor(t, row, col).s.cursor)
<1> DEFINE x == Min({row, t.s.rows - 1})
           y == Min({col, t.s.cols - 1})
           to == [row |-> Max({0, x}), col |-> Max({0, y})]
           v == Unpark(t)
<1>1. t.s.rows \in Nat \ {0} /\ t.s.cols \in Nat \ {0}
  BY DEF Tty, Formatted, Screen, Sized
<1>2. x \in 0 .. t.s.rows - 1 /\ y \in 0 .. t.s.cols - 1
  <2>1. t.s.rows - 1 \in Int /\ t.s.cols - 1 \in Int
    BY <1>1
  <2> QED
    BY <1>1, <2>1, MinOfTwo
<1>3. SetCursor(t, row, col) = [v EXCEPT !.s.cursor = to]
  BY DEF SetCursor
<1> HIDE DEF x, y
<1>4. Max({0, x}) = x /\ Max({0, y}) = y
  <2>1. x \in Int /\ y \in Int /\ 0 <= x /\ 0 <= y
    BY <1>1, <1>2
  <2> QED
    BY <2>1, MaxOfTwo
<1>5. to.row = x /\ to.col = y
  BY <1>4
<1>6. Tty(v) /\ v.s = t.s
  BY UnparkKeeps
<1> HIDE DEF to, v
<1>7. [v EXCEPT !.s.cursor = to].s.cursor = to
  BY <1>6 DEF Tty, Formatted, Screen, ScreenParts
<1> QED
  BY <1>2, <1>3, <1>5, <1>7 DEF OnScreen

LEMMA DeleteAtStays ==
    ASSUME NEW t, Tty(t), NEW i \in DOMAIN t.s.fields, NEW at
    PROVE  DeleteAt(t, i, at).s.cursor = t.s.cursor
BY DEF DeleteAt, Tty, Formatted, Screen, ScreenParts

LEMMA DeleteStays ==
    ASSUME NEW t, Tty(t), WellLaid(t.s)
    PROVE  OnScreen(t.s, DeleteKey(t).s.cursor)
<1> DEFINE i == EntryField(t.s)
           v == Unpark(t)
           at == Offset(t.s, t.s.cursor)
<1>1. DeleteKey(t) = IF i = 0 THEN v ELSE DeleteAt(v, i, at)
  BY DEF DeleteKey
<1>2. Tty(v) /\ v.s = t.s
  BY UnparkKeeps
<1>3. i # 0 => i \in DOMAIN v.s.fields
  BY <1>2, EntryIsField DEF Tty, Formatted, Screen
<1> HIDE DEF i, v, at
<1>4. DeleteKey(t).s.cursor = t.s.cursor
  BY <1>1, <1>2, <1>3, DeleteAtStays
<1> QED
  BY <1>4 DEF WellLaid

LEMMA BackspaceStays ==
    ASSUME NEW t, Tty(t), WellLaid(t.s)
    PROVE  OnScreen(t.s, BackspaceKey(t).s.cursor)
<1> DEFINE i == EntryField(t.s)
           v == Unpark(t)
           at == Offset(t.s, t.s.cursor) - 1
           col == v.s.cursor.col - 1
           c == [v.s.cursor EXCEPT !.col = col]
           w == [v EXCEPT !.s.cursor.col = col]
<1>1. BackspaceKey(t) =
         IF i = 0 \/ (i # 0 /\ t.s.cursor.col <= t.s.fields[i].col) THEN v
         ELSE DeleteAt(w, i, at)
  BY DEF BackspaceKey
<1>2. Tty(v) /\ v.s = t.s
  BY UnparkKeeps
<1>3. OnScreen(t.s, t.s.cursor)
  BY DEF WellLaid
<1>4. CASE i = 0 \/ (i # 0 /\ t.s.cursor.col <= t.s.fields[i].col)
  BY <1>1, <1>2, <1>3, <1>4
<1>5. CASE ~(i = 0 \/ (i # 0 /\ t.s.cursor.col <= t.s.fields[i].col))
  <2>1. i \in DOMAIN t.s.fields
    BY <1>5, EntryIsField DEF Tty, Formatted, Screen
  <2>2. t.s.fields[i].col \in Nat
    BY <2>1, FormattedFields DEF Tty, FieldType
  <2>3. t.s.cursor \in Spots /\ t.s.cursor.col \in Nat
        /\ t.s.cursor.col \in 0 .. t.s.cols - 1 /\ t.s.cols \in Nat
    BY <1>3 DEF Tty, Formatted, Screen, Placed, Sized, Spots, OnScreen
  <2>4. t.s.cursor.col - 1 \in Nat /\ t.s.cursor.col - 1 \in 0 .. t.s.cols - 1
    <3>1. t.s.cursor.col > t.s.fields[i].col
      BY <1>5, <2>2, <2>3
    <3> HIDE DEF i
    <3> QED
      BY <2>2, <2>3, <3>1
  <2> HIDE DEF v, i, at
  <2>5. col \in Nat /\ col \in 0 .. t.s.cols - 1
    BY <1>2, <2>4
  <2> HIDE DEF col
  <2>6. c \in Spots /\ c.row = t.s.cursor.row /\ c.col = col
    BY <1>2, <2>3, <2>5 DEF Spots
  <2>7. w = [v EXCEPT !.s.cursor = c]
    OBVIOUS
  <2> HIDE DEF c
  <2>8. Tty(w) /\ w.s = [v.s EXCEPT !.cursor = c]
    BY <1>2, <2>6, <2>7, CursorOf
  <2>9. w.s.cursor = c /\ i \in DOMAIN w.s.fields
    BY <1>2, <2>1, <2>8 DEF Tty, Formatted, Screen, ScreenParts
  <2> HIDE DEF w
  <2>10. BackspaceKey(t).s.cursor = c
    <3>1. BackspaceKey(t) = DeleteAt(w, i, at)
      BY <1>1, <1>5
    <3>2. DeleteAt(w, i, at).s.cursor = w.s.cursor
      BY <2>8, <2>9, DeleteAtStays
    <3> QED
      BY <2>9, <3>1, <3>2
  <2> QED
    BY <1>3, <2>5, <2>6, <2>10 DEF OnScreen
<1> QED
  BY <1>4, <1>5

LEMMA EraseEOFStays ==
    ASSUME NEW t, Tty(t), WellLaid(t.s)
    PROVE  OnScreen(t.s, EraseEOF(t).s.cursor)
<1>1. EraseEOF(t).s.cursor = t.s.cursor
  BY DEF EraseEOF, Fill, Tty, Formatted, Screen, ScreenParts
<1> QED
  BY <1>1 DEF WellLaid

\* Field Exit edits the field, and Tab moves on from the screen it leaves
LEMMA SetFieldValueStays ==
    ASSUME NEW s, Formatted(s), NEW i, NEW value
    PROVE  SetFieldValue(s, i, value).cursor = s.cursor
BY DEF SetFieldValue, SetFieldMdt, Formatted, Screen, ScreenParts

LEMMA ErasedToEndStays ==
    ASSUME NEW t, Tty(t), NEW f, NEW at
    PROVE  ErasedToEnd(t, f, at).cursor = t.s.cursor
BY DEF ErasedToEnd, FillOnScreen, Fill, Tty, Formatted, Screen, ScreenParts

LEMMA FieldExitStays ==
    ASSUME NEW t, Tty(t)
    PROVE  FieldExit(t).s.cursor = t.s.cursor
<1> DEFINE i == EntryField(t.s)
           r == ErasedToEnd(t, t.s.fields[i], Offset(t.s, t.s.cursor))
           text == Trimmed(FieldValue(r, r.fields[i]), {Blank})
           u == Adjusted(r, i, text)
<1>1. FieldExit(t) = IF i = 0 THEN t ELSE [s |-> u, park |-> None]
  BY DEF FieldExit, ExitField, AdjustField
<1>2. Formatted(r) /\ r.cursor = t.s.cursor
  BY ErasedToEndKeeps, ErasedToEndStays
<1> HIDE DEF i, r, text
<1>3. (\E value : u = SetFieldValue(r, i, value)) \/ u = SetFieldMdt(r, i)
  BY DEF Adjusted
<1>4. SetFieldMdt(r, i).cursor = r.cursor
  BY <1>2 DEF SetFieldMdt, Formatted, Screen, ScreenParts
<1> HIDE DEF u
<1>5. u.cursor = t.s.cursor
  BY <1>2, <1>3, <1>4, SetFieldValueStays
<1> QED
  BY <1>1, <1>5

LEMMA FieldExitKeyStays ==
    ASSUME NEW t, Tty(t), WellLaid(t.s)
    PROVE  OnScreen(t.s, FieldExitKey(t).s.cursor)
<1> DEFINE v == Unpark(t)
           w == FieldExit(v)
<1>1. FieldExitKey(t) = TabKey(w, TRUE)
  BY DEF FieldExitKey
<1>2. Tty(v) /\ v.s = t.s
  BY UnparkKeeps
<1> HIDE DEF v
<1>3. Tty(w) /\ Edits(t.s, w.s, InputCells(t.s)) /\ w.s.cursor = t.s.cursor
  BY <1>2, FieldExitKeeps, FieldExitEdits, FieldExitStays DEF Edited
<1> HIDE DEF w
<1>4. OnScreen(t.s, w.s.cursor) /\ Formatted(w.s)
  BY <1>3 DEF WellLaid, Tty
<1>5. WellLaid(w.s)
  BY <1>3, <1>4, EditsKeepLayout
<1>6. OnScreen(w.s, TabKey(w, TRUE).s.cursor)
  BY <1>3, <1>5, TabStays
<1>7. w.s.rows = t.s.rows /\ w.s.cols = t.s.cols
  BY <1>3 DEF Edits
<1> QED
  BY <1>1, <1>6, <1>7 DEF OnScreen

\* The text ends in a cell of the field it ends in
LEMMA InsertTextStays ==
    ASSUME NEW t, Tty(t), WellLaid(t.s), NEW text \in Seq(STRING), NEW advance \in BOOLEAN
    PROVE  OnScreen(t.s, InsertText(t, text, advance).s.cursor)
<1>1. CASE EntryField(t.s) = 0
  <2>1. InsertText(t, text, advance).s = t.s
    BY <1>1, UnparkKeeps DEF InsertText
  <2> QED
    BY <2>1 DEF WellLaid
<1>2. CASE EntryField(t.s) # 0
  <2> DEFINE s == t.s
             u == TypedText(t, text, advance)
             end == End(u.s, u.s.fields[u.i])
             at == IF u.at < end THEN u.at ELSE end - 1
             parked == IF u.past \/ u.at >= end THEN end - 1 ELSE None
             c == ToRowCol(u.s, at)
             moved == [u.s EXCEPT !.cursor = c]
             r == SetFieldMdt(moved, u.i)
  <2>1. InsertText(t, text, advance) = [s |-> r, park |-> parked]
    BY <1>2 DEF InsertText, Typed
  <2>2. Writing(s, u)
    BY <1>2, TypedTextWrites
  <2> HIDE DEF u
  <2>3. Formatted(u.s) /\ Edits(s, u.s, InputCells(s)) /\ u.i \in InputFields(s)
        /\ u.i \in DOMAIN s.fields /\ u.i \in DOMAIN u.s.fields /\ u.at \in Nat
        /\ Start(s, s.fields[u.i]) <= u.at /\ s.fields \in Seq(FieldType)
    BY <2>2 DEF Writing, Entering, Tty, Formatted, Screen, InputFields
  <2>4. end = End(s, s.fields[u.i])
    BY <2>3, EditedFields
  <2> HIDE DEF parked, end
  <2>5. at \in Cells(s, s.fields[u.i])
    <3> DEFINE start == Start(s, s.fields[u.i])
               len == s.fields[u.i].len
    <3>1. start \in Nat /\ len \in Nat /\ len >= 1
      BY <2>3, FormattedFields DEF Tty
    <3>2. end = start + len /\ Cells(s, s.fields[u.i]) = start .. start + len - 1
      BY <2>4 DEF End, Cells
    <3>3. start <= u.at /\ u.at \in Nat
      BY <2>3
    <3> HIDE DEF start, len
    <3>4. at \in start .. start + len - 1
      BY <3>1, <3>2, <3>3
    <3> QED
      BY <3>2, <3>4
  <2> HIDE DEF at
  <2>6. at \in 0 .. Size(s) - 1
    <3>1. Cells(s, s.fields[u.i]) \subseteq DOMAIN s.buf
      BY <2>3, InputCellsAreThere
    <3> QED
      BY <2>5, <3>1 DEF WellLaid
  <2>7. u.s.rows = s.rows /\ u.s.cols = s.cols
    BY <2>3 DEF Edits
  <2>8. OnScreen(s, c)
    <3>1. Sized(s) /\ Size(s) \in Nat
      BY DEF Tty, Formatted, Screen, Sized, Size
    <3>2. at \in Nat /\ at < Size(s)
      BY <2>6, <3>1
    <3>3. OnScreen(s, ToRowCol(s, at))
      BY <3>1, <3>2, PlaceOfCell
    <3>4. c = ToRowCol(s, at)
      BY <2>7 DEF ToRowCol
    <3> QED
      BY <3>3, <3>4
  <2> HIDE DEF c
  <2>9. moved.cursor = c /\ DOMAIN moved = ScreenParts
    BY <2>3 DEF Formatted, Screen, ScreenParts
  <2> HIDE DEF moved
  <2>10. r.cursor = c
    BY <2>9 DEF SetFieldMdt, ScreenParts
  <2> HIDE DEF r
  <2>11. InsertText(t, text, advance).s = r
    BY <2>1
  <2> QED
    BY <2>8, <2>10, <2>11
<1> QED
  BY <1>1, <1>2

\* A Reset puts the last row, or the one the message covered, and the cursor back
LEMMA SameLayout ==
    ASSUME NEW s, WellLaid(s), NEW t, Formatted(t), t.rows = s.rows, t.cols = s.cols,
           t.fields = s.fields, DOMAIN t.buf = DOMAIN s.buf, OnScreen(s, t.cursor), ErrorFits(t)
    PROVE  WellLaid(t)
<1>1. InputFields(t) = InputFields(s) /\ Size(t) = Size(s)
  BY DEF InputFields, Size
<1>2. \A f : Cells(t, f) = Cells(s, f)
  BY DEF Cells, Start, Offset
<1>3. InputCells(t) = InputCells(s) /\ Apart(t)
  BY <1>1, <1>2 DEF InputCells, Apart, WellLaid
<1>4. \A p : OnScreen(t, p) <=> OnScreen(s, p)
  BY DEF OnScreen
<1> QED
  BY <1>1, <1>3, <1>4 DEF WellLaid

LEMMA LastRowIsThere ==
    ASSUME NEW s, Sized(s)
    PROVE  RowCells(s, s.rows - 1) \subseteq 0 .. Size(s) - 1
<1> DEFINE rows == s.rows
           cols == s.cols
           before == (rows - 1) * cols
<1>1. rows \in Nat \ {0} /\ cols \in Nat \ {0}
  BY DEF Sized
<1> HIDE DEF rows, cols
<1>2. before \in Nat /\ rows * cols = before + cols
  <2>1. rows - 1 \in Nat
    BY <1>1
  <2>2. (rows - 1) * cols \in Nat
    BY <1>1, <2>1
  <2> QED
    BY <1>1, <2>2
<1>3. RowCells(s, s.rows - 1) = before .. before + cols - 1 /\ Size(s) = rows * cols
  BY DEF RowCells, Size, rows, cols
<1> HIDE DEF before
<1> QED
  BY <1>1, <1>2, <1>3

LEMMA ResetKeepsLayout ==
    ASSUME NEW t, Tty(t), WellLaid(t.s)
    PROVE  WellLaid(ResetKey(t).s) /\ ResetKey(t).s.fields = t.s.fields
           /\ ResetKey(t).s.cols = t.s.cols
<1> DEFINE s == [t.s EXCEPT !.locked = FALSE]
           restored == Over(s.msgLine.text, s.buf)
           put == [s EXCEPT !.buf = restored, !.msgLine = None]
           R == RowCells(s, s.rows - 1)
           blanked == Over([a \in R |-> Blank], s.buf)
           cleared == [s EXCEPT !.buf = blanked]
           line == IF s.msgLine # None THEN RestoreMsgLine(s) ELSE ClearErrorLine(s)
           back == [line EXCEPT !.cursor = s.errorCursor, !.errorCursor = None]
           r == IF s.errorCursor = None THEN line ELSE back
<1>1. ResetKey(t) = [s |-> r, park |-> None]
  BY DEF ResetKey
<1>2. Formatted(s) /\ WellLaid(s) /\ s.fields = t.s.fields /\ s.cols = t.s.cols
  <2>1. Formatted(s)
    BY DEF Tty, Formatted, Screen, Sized, Placed, ScreenParts
  <2>2. s.rows = t.s.rows /\ s.cols = t.s.cols /\ s.fields = t.s.fields /\ s.buf = t.s.buf
        /\ s.cursor = t.s.cursor /\ s.errorCursor = t.s.errorCursor /\ s.msgLine = t.s.msgLine
    BY DEF Tty, Formatted, Screen, ScreenParts
  <2> HIDE DEF s
  <2>3. ErrorFits(s) /\ OnScreen(t.s, s.cursor)
    BY <2>2 DEF ErrorFits, WellLaid, OnScreen
  <2> QED
    BY <2>1, <2>2, <2>3, SameLayout
<1> HIDE DEF s
<1>3. RestoreMsgLine(s) = put /\ ClearErrorLine(s) = cleared
  BY DEF RestoreMsgLine, ClearErrorLine, Fill
<1>4. s.msgLine # None => DOMAIN restored = DOMAIN s.buf
  BY <1>2 DEF Over, WellLaid, ErrorFits
<1>5. DOMAIN blanked = DOMAIN s.buf
  <2>1. R \subseteq DOMAIN s.buf
    BY <1>2, LastRowIsThere DEF WellLaid, Formatted, Screen
  <2> HIDE DEF R
  <2> QED
    BY <2>1 DEF Over
<1> HIDE DEF restored, blanked
<1>6. s.msgLine # None => WellLaid(put)
  <2>1. Formatted(put)
    BY <1>2 DEF Formatted, Screen, Sized, Placed, ScreenParts
  <2>2. put.rows = s.rows /\ put.cols = s.cols /\ put.fields = s.fields /\ put.buf = restored
        /\ put.cursor = s.cursor /\ put.errorCursor = s.errorCursor /\ put.msgLine = None
    BY <1>2 DEF Formatted, Screen, ScreenParts
  <2> HIDE DEF put
  <2>3. ErrorFits(put) /\ OnScreen(s, put.cursor)
    BY <1>2, <2>2 DEF ErrorFits, WellLaid, OnScreen
  <2> QED
    BY <1>2, <1>4, <2>1, <2>2, <2>3, SameLayout
<1>7. s.msgLine = None => WellLaid(cleared)
  <2>1. Formatted(cleared)
    BY <1>2, FormattedCells
  <2>2. cleared.rows = s.rows /\ cleared.cols = s.cols /\ cleared.fields = s.fields
        /\ cleared.buf = blanked /\ cleared.cursor = s.cursor
        /\ cleared.errorCursor = s.errorCursor /\ cleared.msgLine = s.msgLine
    BY <1>2 DEF Formatted, Screen, ScreenParts
  <2> HIDE DEF cleared
  <2> SUFFICES ASSUME s.msgLine = None PROVE WellLaid(cleared)
    OBVIOUS
  <2>3. ErrorFits(cleared) /\ OnScreen(s, cleared.cursor)
    BY <1>2, <2>2 DEF ErrorFits, WellLaid, OnScreen
  <2> QED
    BY <1>2, <1>5, <2>1, <2>2, <2>3, SameLayout
<1>8. put.fields = s.fields /\ put.cols = s.cols /\ cleared.fields = s.fields
      /\ cleared.cols = s.cols /\ put.rows = s.rows /\ cleared.rows = s.rows
  BY <1>2 DEF Formatted, Screen, ScreenParts
<1> HIDE DEF put, cleared
<1>9. WellLaid(line) /\ line.fields = s.fields /\ line.cols = s.cols /\ line.rows = s.rows
  BY <1>3, <1>6, <1>7, <1>8
<1> HIDE DEF line
<1>10. ASSUME s.errorCursor # None
       PROVE  WellLaid(back) /\ back.fields = s.fields /\ back.cols = s.cols
  <2>1. s.errorCursor \in Spots /\ OnScreen(s, s.errorCursor)
    BY <1>2, <1>10 DEF WellLaid, ErrorFits, Formatted, Screen, Placed
  <2>2. Formatted(back)
    BY <1>9, <2>1 DEF WellLaid, Formatted, Screen, Sized, Placed, ScreenParts
  <2>3. back.rows = line.rows /\ back.cols = line.cols /\ back.fields = line.fields
        /\ back.buf = line.buf /\ back.cursor = s.errorCursor /\ back.errorCursor = None
        /\ back.msgLine = line.msgLine
    BY <1>9 DEF WellLaid, Formatted, Screen, ScreenParts
  <2> HIDE DEF back
  <2>4. OnScreen(line, back.cursor)
    BY <1>9, <2>1, <2>3 DEF OnScreen
  <2>5. ErrorFits(back)
    BY <1>9, <2>3 DEF ErrorFits, WellLaid
  <2>6. WellLaid(back)
    BY <1>9, <2>2, <2>3, <2>4, <2>5, SameLayout
  <2> QED
    BY <1>9, <2>3, <2>6
<1> HIDE DEF back
<1>11. ResetKey(t).s = r
  BY <1>1
<1> QED
  BY <1>2, <1>9, <1>10, <1>11

\* No field wraps that End may be pressed in: End counts columns from the one the
\* field starts in and stays on the row
NoFieldWraps == "End" \in Keys => RowsHold(screen)

LEMMA PressStays ==
    ASSUME Settled(parser), FormatIsSound, NoFieldWraps, NEW key \in Keys \ {"Reset"}, Press(key)
    PROVE  OnScreen(screen, screen'.cursor)
<1> DEFINE t == CASE key \in {"left", "right", "up", "down"} -> ArrowKey(terminal, key)
                  [] key = "Tab" -> TabKey(terminal, TRUE)
                  [] key = "Backtab" -> TabKey(terminal, FALSE)
                  [] key = "Home" -> HomeKey(terminal)
                  [] key = "End" -> EndKey(terminal)
                  [] key = "Insert" -> InsertKey(terminal)
                  [] key = "Backspace" -> BackspaceKey(terminal)
                  [] key = "Delete" -> DeleteKey(terminal)
                  [] key = "EraseEOF" -> EraseEOF(terminal)
                  [] key = "FieldExit" -> FieldExitKey(terminal)
<1>1. Input(t)
  BY DEF Press
<1>2. Tty(terminal) /\ terminal.s = screen /\ WellLaid(terminal.s)
  BY SoundIsWellLaid
<1>3. OnScreen(terminal.s, t.s.cursor)
  <2>1. CASE key \in {"left", "right", "up", "down"}
    BY <1>2, <2>1, ArrowStays
  <2>2. CASE key = "Tab"
    BY <1>2, <2>2, TabStays
  <2>3. CASE key = "Backtab"
    BY <1>2, <2>3, TabStays
  <2>4. CASE key = "Home"
    BY <1>2, <2>4, HomeStays
  <2>5. CASE key = "End"
    <3>1. RowsHold(terminal.s)
      BY <1>2, <2>5 DEF NoFieldWraps
    <3> QED
      BY <1>2, <2>5, <3>1, EndStays
  <2>6. CASE key = "Insert"
    <3>1. OnScreen(terminal.s, InsertKey(terminal).s.cursor)
      BY <1>2, InsertKeyKeeps DEF WellLaid
    <3> QED
      BY <2>6, <3>1
  <2>7. CASE key = "Backspace"
    BY <1>2, <2>7, BackspaceStays
  <2>8. CASE key = "Delete"
    BY <1>2, <2>8, DeleteStays
  <2>9. CASE key = "EraseEOF"
    BY <1>2, <2>9, EraseEOFStays
  <2>10. CASE key = "FieldExit"
    BY <1>2, <2>10, FieldExitKeyStays
  <2> QED
    BY <2>1, <2>2, <2>3, <2>4, <2>5, <2>6, <2>7, <2>8, <2>9, <2>10, KeysAssumption
<1> HIDE DEF t
<1> QED
  BY <1>1, <1>2, <1>3, InputLeaves

LEMMA TypeTextStays ==
    ASSUME Settled(parser), FormatIsSound,
           NEW text \in Texts, NEW advance \in BOOLEAN, TypeText(text, advance)
    PROVE  OnScreen(screen, screen'.cursor)
<1>1. Tty(terminal) /\ terminal.s = screen /\ WellLaid(terminal.s) /\ text \in Seq(STRING)
  BY SoundIsWellLaid, TextsAssumption
<1>2. screen' = InsertText(terminal, text, advance).s
  BY InputLeaves DEF TypeText
<1> QED
  BY <1>1, <1>2, InsertTextStays

LEMMA PlaceCursorStays ==
    ASSUME Settled(parser), FormatIsSound, NEW i \in DOMAIN screen.fields,
           PlaceCursor(screen.fields[i].row, screen.fields[i].col + 1)
    PROVE  OnScreen(screen, screen'.cursor)
<1> DEFINE row == screen.fields[i].row
           col == screen.fields[i].col + 1
<1>1. Tty(terminal) /\ terminal.s = screen /\ WellLaid(terminal.s) /\ Formatted(screen)
  BY SoundIsWellLaid, TerminalIsTty
<1>2. row \in Nat /\ col \in Nat
  BY <1>1, FormattedFields DEF FieldType
<1>3. PlaceCursor(row, col)
  OBVIOUS
<1> HIDE DEF row, col
<1>4. screen' = SetCursor(terminal, row, col).s
  BY <1>3, InputLeaves DEF PlaceCursor
<1> QED
  BY <1>1, <1>2, <1>4, SetCursorStays

\* Every step that is not the host's keeps the layout
LEMMA EditedLayout ==
    ASSUME Settled(parser), Settled(parser'), FormatIsSound, NoFieldWraps,
           NEW A, Edits(screen, screen', A), OnScreen(screen, screen'.cursor)
    PROVE  WellLaid(screen') /\ NoFieldWraps'
<1>1. WellLaid(screen) /\ Formatted(screen)
  BY SoundIsWellLaid, TerminalIsTty
<1>2. Formatted(screen')
  BY DEF Settled, Parser, Formatted, screen
<1>3. WellLaid(screen')
  BY <1>1, <1>2, EditsKeepLayout
<1>4. RowsHold(screen) => RowsHold(screen')
  BY <1>1, EditsKeepRows
<1> QED
  BY <1>3, <1>4 DEF NoFieldWraps

LEMMA FreshIsWellLaid ==
    ASSUME NEW rows \in Nat \ {0}, NEW cols \in Nat \ {0}
    PROVE  WellLaid(Fresh(rows, cols)) /\ RowsHold(Fresh(rows, cols))
<1> DEFINE s == Fresh(rows, cols)
<1>1. Screen(s) /\ s.fields = <<>>
  BY FreshIsScreen
<1>2. s.rows = rows /\ s.cols = cols /\ s.cursor = Home /\ s.errorCursor = None
      /\ s.msgLine = None /\ DOMAIN s.buf = 0 .. rows * cols - 1
  BY DEF Fresh
<1> HIDE DEF s
<1>3. Formatted(s) /\ InputFields(s) = {}
  BY <1>1 DEF Formatted, InputFields
<1>4. OnScreen(s, s.cursor) /\ ErrorFits(s) /\ DOMAIN s.buf = 0 .. Size(s) - 1
  BY <1>2 DEF OnScreen, Home, ErrorFits, Size
<1> QED
  BY <1>3, <1>4 DEF WellLaid, RowsHold, InputCells, Apart, s

LEMMA InputsKeepLayout ==
    ASSUME Settled(parser), FormatIsSound, NoFieldWraps, Next,
           \A r \in Records : ~HostSends(r)
    PROVE  WellLaid(screen') /\ NoFieldWraps'
<1>1. Settled(parser')
  BY SettledKept
<1>2. Tty(terminal) /\ terminal.s = screen /\ WellLaid(screen)
  BY SoundIsWellLaid
<1>3. ASSUME NEW text \in Texts, NEW advance \in BOOLEAN, TypeText(text, advance)
      PROVE  WellLaid(screen') /\ NoFieldWraps'
  BY <1>1, <1>3, TypeTextEdits, TypeTextStays, EditedLayout
<1>4. ASSUME NEW key \in Keys \ {"Reset"}, Press(key)
      PROVE  WellLaid(screen') /\ NoFieldWraps'
  <2>1. Edits(screen, screen', InputCells(screen))
    BY <1>4, PressEdits DEF Edited, Cut
  <2> QED
    BY <1>1, <1>4, <2>1, PressStays, EditedLayout
<1>5. CASE PressReset
  <2>1. screen' = ResetKey(terminal).s
    BY <1>5, InputLeaves DEF PressReset
  <2>2. WellLaid(screen') /\ screen'.fields = screen.fields /\ screen'.cols = screen.cols
    BY <1>2, <2>1, ResetKeepsLayout
  <2> QED
    BY <2>2 DEF NoFieldWraps, RowsHold, InputFields
<1>6. ASSUME NEW i \in DOMAIN screen.fields,
             PlaceCursor(screen.fields[i].row, screen.fields[i].col + 1)
      PROVE  WellLaid(screen') /\ NoFieldWraps'
  <2>1. Edits(screen, screen', InputCells(screen))
    BY <1>6, PlaceCursorEdits DEF Edited
  <2> QED
    BY <1>1, <1>6, <2>1, PlaceCursorStays, EditedLayout
<1>7. ASSUME NEW key \in Attentions, PressAid(key)
      PROVE  WellLaid(screen') /\ NoFieldWraps'
  <2>1. Edits(screen, screen', InputCells(screen))
    BY <1>7, PressAidEdits DEF Edited
  <2>2. screen' = AidKey(terminal, key).s
    BY <1>7, InputLeaves DEF PressAid
  <2>3. OnScreen(screen, screen'.cursor)
    BY <1>2, <2>2, AidKeyKeeps DEF WellLaid
  <2> QED
    BY <1>1, <2>1, <2>3, EditedLayout
<1>8. CASE Reconnect
  <2>1. Rows \in Nat \ {0} /\ Cols \in Nat \ {0}
    BY SizeAssumption
  <2>2. screen' = Fresh(Rows, Cols)
    BY <1>8 DEF Reconnect, FreshParser, screen
  <2>3. WellLaid(screen') /\ RowsHold(screen')
    BY <2>1, <2>2, FreshIsWellLaid
  <2> QED
    BY <2>3 DEF NoFieldWraps
<1> QED
  BY <1>3, <1>4, <1>5, <1>6, <1>7, <1>8 DEF Next

\* A Reset edits nothing: the cells it puts back count as painted
LEMMA ResetKeepsMarks ==
    ASSUME Settled(parser), FormatIsSound, EditsAreMarked, PressReset
    PROVE  EditsAreMarked'
<1>1. Tty(terminal) /\ terminal.s = screen /\ WellLaid(screen)
      /\ InputCells(screen) \subseteq DOMAIN screen.buf /\ DOMAIN screen.buf = 0 .. Size(screen) - 1
  BY SoundIsWellLaid
<1>2. screen' = ResetKey(terminal).s
  BY InputLeaves DEF PressReset
<1>3. WellLaid(screen') /\ screen'.fields = screen.fields /\ screen'.cols = screen.cols
  BY <1>1, <1>2, ResetKeepsLayout
<1>4. SUFFICES ASSUME NEW i \in InputFields(screen'),
                      NEW a \in Cells(screen', screen'.fields[i]), screen'.buf[a] # painted'[a]
               PROVE  screen'.fields[Leader(i)'].mdt \/ i \in deleted'
  BY DEF EditsAreMarked, Differs
<1>5. i \in InputFields(screen) /\ a \in Cells(screen, screen.fields[i])
  BY <1>3 DEF InputFields, Cells, Start, Offset
<1>6. Leader(i)' = Leader(i)
  BY <1>3 DEF Leader, GroupFirsts
<1>7. a \in DOMAIN screen'.buf
  BY <1>3, <1>4, InputCellsAreThere
<1>8. painted'[a] = IF screen'.buf[a] = screen.buf[a] THEN painted[a] ELSE screen'.buf[a]
  BY <1>7 DEF PressReset, screen
<1>9. screen.buf[a] # painted[a] /\ deleted' = deleted
  BY <1>4, <1>8 DEF PressReset
<1> QED
  BY <1>3, <1>5, <1>6, <1>9 DEF EditsAreMarked, Differs

LEMMA MarksKept ==
    ASSUME Settled(parser), FormatIsSound, EditsAreMarked, Next
    PROVE  EditsAreMarked'
<1>1. InputCells(screen) \subseteq DOMAIN screen.buf /\ Formatted(screen)
  BY SoundIsWellLaid, TerminalIsTty
<1>2. ASSUME painted' = screen'.buf
      PROVE  EditsAreMarked'
  BY <1>2 DEF EditsAreMarked, Differs
<1>3. ASSUME UNCHANGED <<painted, deleted>>, Edited(screen, screen')
      PROVE  EditsAreMarked'
  <2>1. Edits(screen, screen', InputCells(screen))
        /\ \A j \in InputFields(screen) :
              (\E a \in Cells(screen, screen.fields[j]) : screen'.buf[a] # screen.buf[a]) =>
                  screen'.fields[Leader(j)].mdt
    BY <1>3, LeaderIsOwner DEF Edited, Marked
  <2> QED
    BY <1>1, <1>3, <2>1, EditKeepsMarks
<1>4. ASSUME NEW r \in Records, HostSends(r)
      PROVE  EditsAreMarked'
  <2>1. CASE Modifies(r)
    BY <1>2, <1>4, <2>1 DEF HostSends, screen
  <2>2. CASE ~Modifies(r)
    <3>1. parser'.s = parser.s /\ painted' = painted /\ deleted' = deleted
      BY <1>4, <2>2, ReceivedKeeps, RecordsAssumption DEF HostSends
    <3>2. screen' = screen /\ UNCHANGED <<painted, deleted>>
      BY <3>1 DEF screen
    <3>3. Edited(screen, screen')
      BY <1>1, <3>2, EditsNothing, SameCellsEdited
    <3> QED
      BY <1>3, <3>2, <3>3
  <2> QED
    BY <2>1, <2>2
<1>5. ASSUME NEW text \in Texts, NEW advance \in BOOLEAN, TypeText(text, advance)
      PROVE  EditsAreMarked'
  <2>1. Edited(screen, screen')
    BY <1>5, TypeTextEdits DEF Edited
  <2> QED
    BY <1>3, <1>5, <2>1 DEF TypeText
<1>6. ASSUME NEW key \in Keys \ {"Reset"}, Press(key)
      PROVE  EditsAreMarked'
  <2>1. CASE key \in DeletingKeys
    BY <1>6, <2>1, PressEdits, CutKeepsMarks DEF Press
  <2>2. CASE key \notin DeletingKeys
    BY <1>3, <1>6, <2>2, PressEdits DEF Press
  <2> QED
    BY <2>1, <2>2
<1>7. CASE PressReset
  BY <1>7, ResetKeepsMarks
<1>8. ASSUME NEW i \in DOMAIN screen.fields,
             PlaceCursor(screen.fields[i].row, screen.fields[i].col + 1)
      PROVE  EditsAreMarked'
  BY <1>3, <1>8, PlaceCursorEdits DEF PlaceCursor
<1>9. ASSUME NEW key \in Attentions, PressAid(key)
      PROVE  EditsAreMarked'
  BY <1>3, <1>9, PressAidEdits DEF PressAid
<1>10. CASE Reconnect
  BY <1>2, <1>10 DEF Reconnect, screen
<1> QED
  BY <1>4, <1>5, <1>6, <1>7, <1>8, <1>9, <1>10 DEF Next

LEMMA PressFieldExit ==
    ASSUME Settled(parser), FormatIsSound, Press("FieldExit")
    PROVE  Edited(screen, screen')
<1>1. Tty(terminal) /\ terminal.s = screen /\ WellLaid(terminal.s)
  BY SoundIsWellLaid
<1>2. Input(FieldExitKey(terminal))
  BY DEF Press
<1>3. screen' = FieldExitKey(terminal).s
  BY <1>2, InputLeaves
<1> QED
  BY <1>1, <1>3, FieldExitKeyEdits

\* As long as the host's format is sound, what the operator edits is flagged and
\* answered, in any order of keys, in later parts of continued groups too: every input
\* field that is not as the host painted it is flagged itself or, as a later part, on
\* the first part of its group; typing and Field Exit flag the first part at once; and
\* the answer to a read of the fields has each of these fields or first parts.  Two
\* kinds of edits are excepted, as in the code: what Backspace, Delete or Erase EOF
\* took from a later part of a group that is not flagged on its first part, and edits
\* of a part whose group has no first one (insertText(), deleteCharAtCursor(),
\* eraseEOF(), fieldExit(), setFieldMdt(), buildAidResponse()).
THEOREM AnswersHaveEdits == Spec /\ []FormatIsSound => EditsAreAnswered
<1>1. Init => EditsAreMarked
  <2>1. Init => painted = screen.buf
    BY DEF Init, screen
  <2> QED
    BY <2>1, PaintedIsMarked
<1>2. Settled(parser) /\ FormatIsSound /\ EditsAreMarked /\ [Next]_vars => EditsAreMarked'
  <2>1. ASSUME EditsAreMarked, UNCHANGED vars PROVE EditsAreMarked'
    BY <2>1 DEF vars, EditsAreMarked, Differs, Leader, screen
  <2> QED
    BY <2>1, MarksKept
<1>3. Settled(parser) /\ FormatIsSound /\ [Next]_vars =>
         [(\/ \E text \in Texts, advance \in BOOLEAN : TypeText(text, advance)
           \/ Press("FieldExit")) =>
            \A i \in InputFields(screen) :
                Changed \cap Cells(screen, screen.fields[i]) # {} =>
                    screen'.fields[Leader(i)].mdt]_vars
  <2> SUFFICES ASSUME Settled(parser), FormatIsSound,
                      \/ \E text \in Texts, advance \in BOOLEAN : TypeText(text, advance)
                      \/ Press("FieldExit"),
                      NEW i \in InputFields(screen),
                      NEW a \in Changed \cap Cells(screen, screen.fields[i])
               PROVE  screen'.fields[Leader(i)].mdt
    OBVIOUS
  <2>1. Marked(screen, screen')
    BY TypeTextEdits, PressFieldExit DEF Edited
  <2> QED
    BY <2>1, LeaderIsOwner DEF Marked, Changed
<1>4. Settled(parser) /\ EditsAreMarked /\ [Next]_vars =>
         [\A key \in Attentions :
            PressAid(key) /\ SendsData(screen, key) /\ key \notin InterruptKeys \cup SideKeys =>
                \A i \in InputFields(screen) :
                    LET first == screen.fields[Leader(i)]
                    IN  /\ Differs(i) /\ first.input /\ first.cont \in {"no", "first"}
                        /\ i \notin deleted \/ first.mdt
                        => \E k \in DOMAIN answer'.fields :
                                Place(answer'.fields[k]) = Place(first)]_vars
  <2> SUFFICES ASSUME Settled(parser), EditsAreMarked,
                      NEW key \in Attentions, PressAid(key), SendsData(screen, key),
                      key \notin InterruptKeys \cup SideKeys,
                      NEW i \in InputFields(screen), Differs(i),
                      screen.fields[Leader(i)].input,
                      screen.fields[Leader(i)].cont \in {"no", "first"},
                      i \notin deleted \/ screen.fields[Leader(i)].mdt
               PROVE  \E k \in DOMAIN answer'.fields :
                         Place(answer'.fields[k]) = Place(screen.fields[Leader(i)])
    OBVIOUS
  <2> DEFINE o == Leader(i)
  <2>1. screen.fields[o].mdt
    BY DEF EditsAreMarked
  <2>2. o \in InputFields(screen)
    BY LeaderIsOwner DEF InputFields
  <2> HIDE DEF o
  <2>3. \E k \in DOMAIN AnsweredFields(screen) :
           Place(AnsweredFields(screen)[k]) = Place(screen.fields[o])
    BY <2>1, <2>2, TerminalIsTty, ModifiedIsAnswered DEF o
  <2>4. answer'.fields = AnsweredFields(screen)
    BY DEF PressAid, Answer
  <2> QED
    BY <2>3, <2>4 DEF o
<1> QED
  BY <1>1, <1>2, <1>3, <1>4, ParserSettles, PTL
     DEF Spec, EditsAreAnswered, TypingMarksTheGroup, EditsReachTheHost

LEMMA WellLaidIsSound == WellLaid(screen) => FormatIsSound
<1> SUFFICES ASSUME WellLaid(screen) PROVE FormatIsSound
  OBVIOUS
<1>1. NoCellBeyondScreen /\ CursorOnScreen /\ ErrorFitsScreen /\ InputFieldsApart
  BY DEF WellLaid, Apart, ErrorFits,
         NoCellBeyondScreen, CursorOnScreen, ErrorFitsScreen, InputFieldsApart
<1>2. BacktabUndoesTab
  <2>1. Formatted(screen) /\ Apart(screen)
    BY DEF WellLaid
  <2> SUFFICES ASSUME NEW i \in InputFields(screen)
               PROVE  LET next == AdjacentInputField(screen, Start(screen, screen.fields[i]), TRUE)
                      IN  AdjacentInputField(screen, Start(screen, screen.fields[next]), FALSE) = i
    BY DEF BacktabUndoesTab
  <2> QED
    BY <2>1, BacktabReturns
<1> QED
  BY <1>1, <1>2 DEF FormatIsSound

\* What is asked of the host: that its own records leave a sound format
HostKeepsFormat ==
    [][\A r \in Records : HostSends(r) => (FormatIsSound /\ NoFieldWraps)']_vars

\* What the operator does keeps a sound format sound, in any order and however the
\* host's records come in between: no cell past the end of the screen is written, no
\* key that wraps, types, deletes, adjusts or resets takes the cursor off it, and Tab
\* and Backtab keep their ways (TN5250Encoder, TN5250Handler.sendKey(), setCursor()).
THEOREM FormatStaysSound == Spec /\ HostKeepsFormat => []FormatIsSound
<1>1. Init => FormatIsSound /\ NoFieldWraps
  <2> SUFFICES ASSUME Init PROVE FormatIsSound /\ NoFieldWraps
    OBVIOUS
  <2>1. Rows \in Nat \ {0} /\ Cols \in Nat \ {0} /\ screen = Fresh(Rows, Cols)
    BY SizeAssumption DEF Init, FreshParser, screen
  <2>2. WellLaid(screen) /\ RowsHold(screen)
    BY <2>1, FreshIsWellLaid
  <2> QED
    BY <2>2, WellLaidIsSound DEF NoFieldWraps
<1>2. ASSUME Settled(parser), FormatIsSound, NoFieldWraps, [Next]_vars,
             [\A r \in Records : HostSends(r) => (FormatIsSound /\ NoFieldWraps)']_vars
      PROVE  (FormatIsSound /\ NoFieldWraps)'
  <2>1. CASE UNCHANGED vars
    <3>1. UNCHANGED screen
      BY <2>1 DEF vars, screen
    <3>2. WellLaid(screen)' /\ NoFieldWraps'
      BY <1>2, <3>1, SoundIsWellLaid DEF NoFieldWraps
    <3> QED
      BY <3>2, WellLaidIsSound, PTL
  <2>2. CASE ~UNCHANGED vars /\ \E r \in Records : HostSends(r)
    BY <1>2, <2>2
  <2>3. CASE Next /\ \A r \in Records : ~HostSends(r)
    <3>1. WellLaid(screen)' /\ NoFieldWraps'
      BY <1>2, <2>3, InputsKeepLayout
    <3> QED
      BY <3>1, WellLaidIsSound, PTL
  <2> QED
    BY <1>2, <2>1, <2>2, <2>3
<1> QED
  BY <1>1, <1>2, ParserSettles, PTL DEF Spec, HostKeepsFormat

\* So if the host keeps its format sound, then whatever the operator does, no protected
\* cell changes, typing stays behind the fields it may not leave, and edits are flagged
\* and answered, but for deletions in later parts of groups and for groups without a
\* first part (see AnswersHaveEdits).
THEOREM EditsAreSafe ==
    Spec /\ HostKeepsFormat =>
        EditsAreAnswered /\ EditsStayInFields /\ TypingStaysBehindFieldExit
BY FormatStaysSound, AnswersHaveEdits, EditsStayInside, PTL

-----------------------------------------------------------------------------
(* The places that popups, windows and messages keep.                      *)

\* Every input leaves the park where a field was filled, or forgets it
LEMMA ParkKept ==
    ASSUME Settled(parser), Parked(park), Next
    PROVE  Parked(park')
<1>1. Tty(terminal) /\ terminal.s = screen /\ Formatted(screen) /\ terminal.park = park
  BY TerminalIsTty DEF terminal
<1>2. ASSUME NEW t, Input(t), Beside(terminal, t)
      PROVE  Parked(park')
  BY <1>1, <1>2 DEF Input, Beside
<1>3. ASSUME NEW r \in Records, HostSends(r)
      PROVE  Parked(park')
  BY <1>3 DEF HostSends, Parked
<1>4. ASSUME NEW text \in Texts, NEW advance \in BOOLEAN, TypeText(text, advance)
      PROVE  Parked(park')
  <2>1. Beside(terminal, InsertText(terminal, text, advance))
    BY <1>1, InsertTextBeside, TextsAssumption
  <2> QED
    BY <1>2, <1>4, <2>1 DEF TypeText
<1>5. ASSUME NEW key \in Keys \ {"Reset"}, Press(key)
      PROVE  Parked(park')
  <2> DEFINE t == CASE key \in {"left", "right", "up", "down"} -> ArrowKey(terminal, key)
                    [] key = "Tab" -> TabKey(terminal, TRUE)
                    [] key = "Backtab" -> TabKey(terminal, FALSE)
                    [] key = "Home" -> HomeKey(terminal)
                    [] key = "End" -> EndKey(terminal)
                    [] key = "Insert" -> InsertKey(terminal)
                    [] key = "Backspace" -> BackspaceKey(terminal)
                    [] key = "Delete" -> DeleteKey(terminal)
                    [] key = "EraseEOF" -> EraseEOF(terminal)
                    [] key = "FieldExit" -> FieldExitKey(terminal)
  <2>1. Input(t)
    BY <1>5 DEF Press
  <2>2. Beside(terminal, t)
    BY <1>1, KeysBeside, KeysAssumption
  <2> HIDE DEF t
  <2> QED
    BY <1>2, <2>1, <2>2
<1>6. CASE PressReset
  <2>1. Beside(terminal, ResetKey(terminal))
    BY <1>1, ResetKeyBeside
  <2> QED
    BY <1>2, <1>6, <2>1 DEF PressReset
<1>7. ASSUME NEW i \in DOMAIN screen.fields,
             PlaceCursor(screen.fields[i].row, screen.fields[i].col + 1)
      PROVE  Parked(park')
  <2>1. Beside(terminal, SetCursor(terminal, screen.fields[i].row, screen.fields[i].col + 1))
    BY <1>1, SetCursorBeside
  <2> QED
    BY <1>2, <1>7, <2>1 DEF PlaceCursor
<1>8. ASSUME NEW key \in Attentions, PressAid(key)
      PROVE  Parked(park')
  <2>1. Beside(terminal, AidKey(terminal, key))
    BY <1>1, AidKeyBeside
  <2> QED
    BY <1>2, <1>8, <2>1 DEF PressAid
<1>9. CASE Reconnect
  BY <1>9 DEF Reconnect
<1> QED
  BY <1>3, <1>4, <1>5, <1>6, <1>7, <1>8, <1>9 DEF Next

LEMMA StackIsBounded ==
    ASSUME NEW stack, IsStack(stack)
    PROVE  Len(stack) <= MaxScreenStack
BY DEF IsStack

\* A format that is sound, between two events, has every place in its range
LEMMA PlacesOfFormat == Settled(parser) /\ Parked(park) /\ FormatIsSound => PlacesAreSound
<1> SUFFICES ASSUME Settled(parser), Parked(park), FormatIsSound PROVE PlacesAreSound
  OBVIOUS
<1>1. Screen(screen) /\ Placed(screen) /\ Formatted(screen)
  BY DEF Settled, Parser, Screen, Formatted, screen
<1>2. \A i \in DOMAIN screen.fields : screen.fields[i] \in FieldType
  BY <1>1, FormattedFields
<1>3. 0 .. Size(screen) - 1 \subseteq DOMAIN screen.buf
  BY DEF FormatIsSound, NoCellBeyondScreen
<1>4. Len(screen.stack) <= MaxScreenStack
  BY <1>1, StackIsBounded DEF Screen
<1>5. Len(screen.windows) <= MaxWindows /\ screen.locked \in BOOLEAN /\ screen.insert \in BOOLEAN
  BY <1>1 DEF Placed, IsWindows
<1>6. TypeOK
  BY <1>2, <1>3, <1>4, <1>5 DEF TypeOK, Parked
<1>7. NoOffsetWithoutWindow
  BY DEF Settled, Parser, NoOffsetWithoutWindow, screen
<1> QED
  BY <1>6, <1>7 DEF FormatIsSound, PlacesAreSound

\* Whatever the host sends, the stack of saved screens and the list of windows are
\* bounded, and no address is relative to a window that was closed, restored away or
\* cleared (saveScreenState(), restoreScreenState(), parseWindow(), removeWindow()).
THEOREM WindowsAreKept ==
    Spec => [](/\ Len(screen.stack) <= MaxScreenStack
               /\ Len(screen.windows) <= MaxWindows
               /\ NoOffsetWithoutWindow)
<1>1. Settled(parser) => /\ Len(screen.stack) <= MaxScreenStack
                         /\ Len(screen.windows) <= MaxWindows
                         /\ NoOffsetWithoutWindow
  BY StackIsBounded
  DEF Settled, Parser, Screen, Placed, IsWindows, NoOffsetWithoutWindow, screen
<1> QED
  BY <1>1, ParserSettles, PTL

\* Under a host that keeps its format sound, every place the terminal keeps is also on
\* its screen: the cursor and what a Reset puts back, in popups and windows, after
\* restores and rolls (restoreScreenState(), writeErrorCode(), handleClearUnit()).
THEOREM PlacesStaySound == Spec /\ HostKeepsFormat =>
    [](PlacesAreSound /\ CursorOnScreen /\ ErrorFitsScreen)
<1>1. Init => Parked(park)
  BY DEF Init, Parked
<1>2. Settled(parser) /\ Parked(park) /\ [Next]_vars => Parked(park)'
  <2>1. ASSUME Parked(park), UNCHANGED vars PROVE Parked(park')
    BY <2>1 DEF vars
  <2>2. Parked(park') => Parked(park)'
    BY DEF Parked
  <2> QED
    BY <2>1, <2>2, ParkKept
<1>3. Spec => []Parked(park)
  BY <1>1, <1>2, ParserSettles, PTL DEF Spec
<1> QED
  <2>1. FormatIsSound => CursorOnScreen /\ ErrorFitsScreen
    BY DEF FormatIsSound
  <2> QED
    BY <1>3, <2>1, ParserSettles, FormatStaysSound, PlacesOfFormat, PTL
=============================================================================
