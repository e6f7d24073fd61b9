--------------------------- MODULE Displays_proofs ---------------------------
(***************************************************************************)
(* Theorems about the display of a 6530, alone and in a session, where the *)
(* steps of the other displays leave it as it is.                          *)
(***************************************************************************)
EXTENDS Displays, TLAPS, FiniteSetTheorems, SequenceTheorems, WellFoundedInduction

-----------------------------------------------------------------------------
(* Numbers: the least, the largest and the k-th of a set of them.          *)

LEMMA LeastNumber ==
    ASSUME NEW T, T \subseteq Nat, T # {}
    PROVE  \E n \in T : \A k \in T : n <= k
<1>1. PICK x \in T : \A y \in T : ~ (<<y, x>> \in OpToRel(<, Nat))
  BY NatLessThanWellFounded, WFMin, Zenon
<1>2. \A y \in T : <<y, x>> \notin {ss \in Nat \X Nat : ss[1] < ss[2]}
  BY <1>1, Zenon DEF OpToRel
<1>3. \A y \in T : ~(y < x)
  BY <1>2
<1> QED
  BY <1>3

LEMMA MinOfNumbers ==
    ASSUME NEW T, T \subseteq Nat, T # {}
    PROVE  Min(T) \in T /\ \A k \in T : Min(T) <= k
BY LeastNumber DEF Min

LEMMA MaxOfNumbers ==
    ASSUME NEW n \in Nat, NEW T, T \subseteq 0 .. n, T # {}
    PROVE  Max(T) \in T /\ \A k \in T : k <= Max(T)
<1> DEFINE U == {n - k : k \in T}
<1>1. U \subseteq Nat /\ U # {}
  <2>1. \A k \in T : n - k \in Nat
    OBVIOUS
  <2>2. PICK k \in T : TRUE
    OBVIOUS
  <2>3. n - k \in U
    OBVIOUS
  <2> QED
    BY <2>1, <2>3
<1>2. PICK u \in U : \A v \in U : u <= v
  <2> HIDE DEF U
  <2> QED
    BY <1>1, LeastNumber
<1>3. PICK m \in T : u = n - m
  OBVIOUS
<1>4. \A k \in T : m >= k
  <2> TAKE k \in T
  <2>1. n - k \in U
    OBVIOUS
  <2>2. u <= n - k
    BY <1>2, <2>1
  <2> QED
    BY <1>3, <2>2
<1>5. Max(T) \in T /\ \A k \in T : Max(T) >= k
  BY <1>4 DEF Max
<1>6. \A k \in T : k \in Nat
  OBVIOUS
<1> QED
  BY <1>5, <1>6

LEMMA MinOfTwo ==
    ASSUME NEW a \in Int, NEW b \in Int
    PROVE  Min({a, b}) = IF a <= b THEN a ELSE b
BY DEF Min

LEMMA MaxOfTwo ==
    ASSUME NEW a \in Int, NEW b \in Int
    PROVE  Max({a, b}) = IF a <= b THEN b ELSE a
BY DEF Max

\* How many numbers of a set are below another
Below(I, i) == {j \in I : j < i}

LEMMA BelowIsFinite ==
    ASSUME NEW n \in Nat, NEW I, I \subseteq 0 .. n, NEW i \in Nat
    PROVE  /\ IsFiniteSet(I) /\ IsFiniteSet(Below(I, i))
           /\ Cardinality(I) \in Nat /\ Cardinality(Below(I, i)) \in Nat
<1>1. IsFiniteSet(I)
  <2>1. IsFiniteSet(0 .. n)
    BY FS_Interval
  <2> QED
    BY <2>1, FS_Subset
<1>2. IsFiniteSet(Below(I, i))
  <2>1. Below(I, i) \in SUBSET I
    BY DEF Below
  <2> QED
    BY <1>1, <2>1, FS_Subset
<1> QED
  BY <1>1, <1>2, FS_CardinalityType

LEMMA AllAreBelow ==
    ASSUME NEW n \in Nat, NEW I, I \subseteq 0 .. n
    PROVE  Below(I, n + 1) = I
<1>1. \A j \in I : j < n + 1
  OBVIOUS
<1> QED
  BY <1>1 DEF Below

\* Fewer numbers are below a smaller number
LEMMA BelowGrows ==
    ASSUME NEW n \in Nat, NEW I, I \subseteq 0 .. n, NEW i \in I, NEW j \in Nat, i < j
    PROVE  Cardinality(Below(I, i)) < Cardinality(Below(I, j))
<1>1. i \in Nat /\ \A x \in I : x \in Nat
  OBVIOUS
<1>2. Below(I, i) \cup {i} \in SUBSET Below(I, j) /\ i \notin Below(I, i)
  <2>1. \A x \in I : (x < i \/ x = i => x < j) /\ ~(i < i)
    BY <1>1
  <2> QED
    BY <2>1 DEF Below
<1>3. /\ IsFiniteSet(Below(I, i)) /\ Cardinality(Below(I, i)) \in Nat
      /\ IsFiniteSet(Below(I, j)) /\ Cardinality(Below(I, j)) \in Nat
  BY <1>1, BelowIsFinite
<1>4. Cardinality(Below(I, i) \cup {i}) = Cardinality(Below(I, i)) + 1
  BY <1>2, <1>3, FS_AddElement
<1>5. Cardinality(Below(I, i) \cup {i}) <= Cardinality(Below(I, j))
  BY <1>2, <1>3, FS_Subset
<1> QED
  BY <1>3, <1>4, <1>5

\* Every number of a set is the k-th for one k: that of the numbers up to it
LEMMA NthReaches ==
    ASSUME NEW n \in Nat, NEW I, I \subseteq 0 .. n, NEW i \in I
    PROVE  /\ Cardinality(Below(I, i)) + 1 \in 1 .. Cardinality(I)
           /\ Nth(I, Cardinality(Below(I, i)) + 1) = i
<1> DEFINE k == Cardinality(Below(I, i)) + 1
<1>1. i \in Nat /\ i < n + 1 /\ \A j \in I : j \in Nat
  OBVIOUS
<1>2. Cardinality(I) \in Nat /\ Cardinality(Below(I, i)) \in Nat
  BY <1>1, BelowIsFinite
<1>3. Cardinality(Below(I, i)) < Cardinality(I)
  <2>1. n + 1 \in Nat
    OBVIOUS
  <2>2. Cardinality(Below(I, i)) < Cardinality(Below(I, n + 1))
    BY <1>1, <2>1, BelowGrows
  <2> QED
    BY <2>2, AllAreBelow
<1>4. ASSUME NEW j \in I, j # i PROVE Cardinality(Below(I, j)) # Cardinality(Below(I, i))
  <2>1. j \in Nat /\ (i < j \/ j < i) /\ Cardinality(Below(I, j)) \in Nat
    <3>1. j \in Nat /\ (i < j \/ j < i)
      BY <1>1, <1>4
    <3> QED
      BY <3>1, BelowIsFinite
  <2>2. CASE i < j
    <3>1. Cardinality(Below(I, i)) < Cardinality(Below(I, j))
      BY <2>1, <2>2, BelowGrows
    <3> QED
      BY <1>2, <2>1, <3>1
  <2>3. CASE j < i
    <3>1. Cardinality(Below(I, j)) < Cardinality(Below(I, i))
      BY <1>1, <2>3, BelowGrows
    <3> QED
      BY <1>2, <2>1, <3>1
  <2> QED
    BY <2>1, <2>2, <2>3
<1>5. k - 1 = Cardinality(Below(I, i)) /\ k \in 1 .. Cardinality(I)
  BY <1>2, <1>3
<1>6. Nth(I, k) = i
  <2>1. \A j \in I : Cardinality(Below(I, j)) = k - 1 <=> j = i
    BY <1>4, <1>5
  <2>2. Nth(I, k) = CHOOSE j \in I : Cardinality(Below(I, j)) = k - 1
    BY DEF Nth, Below
  <2> HIDE DEF k
  <2> QED
    BY <2>1, <2>2
<1> QED
  BY <1>5, <1>6

\* For every k up to their number there is a k-th one
LEMMA NthIsOne ==
    ASSUME NEW n \in Nat, NEW I, I \subseteq 0 .. n, NEW k \in 1 .. Cardinality(I)
    PROVE  Nth(I, k) \in I /\ Cardinality(Below(I, Nth(I, k))) = k - 1
<1>1. Cardinality(I) \in Nat /\ k \in Nat /\ k > 0
  <2>1. Cardinality(I) \in Nat
    BY BelowIsFinite
  <2> QED
    BY <2>1
<1> DEFINE T == {m \in Nat : Cardinality(Below(I, m)) >= k}
<1>2. n + 1 \in T
  <2>1. n + 1 \in Nat
    OBVIOUS
  <2>2. Below(I, n + 1) = I
    BY AllAreBelow
  <2> QED
    BY <1>1, <2>1, <2>2
<1>3. PICK m \in T : \A x \in T : m <= x
  <2>1. T \subseteq Nat
    OBVIOUS
  <2> HIDE DEF T
  <2> QED
    BY <1>2, <2>1, LeastNumber
<1>4. m # 0
  <2>1. Below(I, 0) = {}
    <3>1. \A j \in I : ~(j < 0)
      OBVIOUS
    <3> QED
      BY <3>1 DEF Below
  <2>2. Cardinality(Below(I, 0)) = 0
    BY <2>1, FS_EmptySet
  <2> QED
    BY <2>2, <1>1
<1>5. m - 1 \in Nat /\ m - 1 \notin T
  <2>1. m \in Nat
    OBVIOUS
  <2>2. m - 1 \in T => m <= m - 1
    BY <1>3
  <2> QED
    BY <1>4, <2>1, <2>2
<1>6. /\ IsFiniteSet(Below(I, m - 1)) /\ Cardinality(Below(I, m - 1)) \in Nat
      /\ Cardinality(Below(I, m)) \in Nat
  BY <1>5, BelowIsFinite
<1>7. Cardinality(Below(I, m - 1)) < k /\ k <= Cardinality(Below(I, m))
  BY <1>1, <1>5, <1>6
<1>8. \A j \in I : j \in Nat /\ (j < m <=> j < m - 1 \/ j = m - 1)
  BY <1>5
<1>9. m - 1 \in I
  <2> SUFFICES ASSUME m - 1 \notin I PROVE FALSE
    OBVIOUS
  <2>1. Below(I, m) = Below(I, m - 1)
    BY <1>8 DEF Below
  <2> QED
    BY <1>1, <1>6, <1>7, <2>1
<1>10. Below(I, m) = Below(I, m - 1) \cup {m - 1} /\ m - 1 \notin Below(I, m - 1)
  BY <1>5, <1>8, <1>9 DEF Below
<1>11. Cardinality(Below(I, m)) = Cardinality(Below(I, m - 1)) + 1
  BY <1>6, <1>10, FS_AddElement
<1>12. Cardinality(Below(I, m - 1)) = k - 1
  BY <1>1, <1>6, <1>7, <1>11
<1>13. Nth(I, k) = CHOOSE j \in I : Cardinality(Below(I, j)) = k - 1
  BY DEF Nth, Below
<1> QED
  BY <1>9, <1>12, <1>13

-----------------------------------------------------------------------------
(* Places on the screen. *)

LEMMA SizeIsPositive == ASSUME Parameters PROVE Size \in Nat \ {0}
BY DEF Parameters, Size

LEMMA PlaceIsAddress ==
    ASSUME Parameters, NEW row \in 0 .. Rows - 1, NEW col \in 0 .. Cols - 1
    PROVE  Address(row, col) \in Addresses
<1>0. Rows \in Nat /\ Cols \in Nat /\ row \in Nat /\ col \in Nat /\ col < Cols /\ row + 1 <= Rows
  BY DEF Parameters
<1>1. row * Cols + col < (row + 1) * Cols
  BY <1>0
<1>2. (row + 1) * Cols <= Rows * Cols
  BY <1>0
<1>3. row * Cols + col \in Nat
  BY <1>0
<1> QED
  BY <1>0, <1>1, <1>2, <1>3 DEF Address, Addresses, Size

LEMMA AddressIsPlace ==
    ASSUME Parameters, NEW a \in Addresses
    PROVE  /\ a \div Cols \in 0 .. Rows - 1 /\ a % Cols \in 0 .. Cols - 1
           /\ Address(a \div Cols, a % Cols) = a
<1>1. a \in Nat /\ a < Rows * Cols /\ Cols \in Nat \ {0} /\ Rows \in Nat
  BY SizeIsPositive DEF Addresses, Size, Parameters
<1>2. a \div Cols \in Nat /\ a % Cols \in 0 .. Cols - 1 /\ (a \div Cols) * Cols + (a % Cols) = a
  BY <1>1
<1>3. a \div Cols < Rows
  BY <1>1, <1>2
<1> QED
  BY <1>1, <1>2, <1>3 DEF Address

-----------------------------------------------------------------------------
(* The terminal. *)

Fields ==
    [start : Addresses, len : Nat, prot : BOOLEAN, modified : BOOLEAN]

Glyphs == STRING \cup {Blank}

Terminals ==
    [ch : [Addresses -> Glyphs], prot : [Addresses -> BOOLEAN],
     row : 0 .. Rows - 1, col : 0 .. Cols - 1, protecting : BOOLEAN, fields : Seq(Fields),
     state : {"normal", "escape", "csi", "amp", "ampd"}, params : Seq(Int)]

\* Fields that are the runs of the screen
Cover(t) ==
    t.fields # <<>> =>
        /\ \A i \in DOMAIN t.fields : \A a \in CellsOf(t.fields[i]) :
              a \in Addresses /\ t.prot[a] = t.fields[i].prot
        /\ \A a \in Addresses : \E i \in DOMAIN t.fields : a \in CellsOf(t.fields[i])
        /\ \A i, j \in DOMAIN t.fields : \A a \in CellsOf(t.fields[i]) :
              a \in CellsOf(t.fields[j]) => i = j

LEMMA HereIsAddress == ASSUME Parameters, NEW t \in Terminals PROVE Here(t) \in Addresses
BY PlaceIsAddress DEF Terminals, Here

\* Where the run that starts at a ends
NextStart(t, a) == Min({b \in Starts(t) \cup {Size} : b > a})

LEMMA StartsAreAddresses ==
    ASSUME Parameters, NEW t \in Terminals
    PROVE  Starts(t) \subseteq 0 .. Size /\ 0 \in Starts(t) /\ Starts(t) \subseteq Addresses
<1>1. Size \in Nat \ {0}
  BY SizeIsPositive
<1> QED
  BY <1>1 DEF Starts, Addresses

LEMMA NextStartIs ==
    ASSUME Parameters, NEW t \in Terminals, NEW a \in Starts(t)
    PROVE  /\ NextStart(t, a) \in Starts(t) \cup {Size} /\ NextStart(t, a) > a
           /\ NextStart(t, a) \in Nat /\ NextStart(t, a) <= Size
           /\ \A b \in Starts(t) : b > a => NextStart(t, a) <= b
<1> DEFINE T == {b \in Starts(t) \cup {Size} : b > a}
<1>1. Size \in Nat \ {0} /\ a \in 0 .. Size - 1 /\ \A b \in Starts(t) : b \in 0 .. Size - 1
  BY SizeIsPositive, StartsAreAddresses DEF Addresses
<1>2. T \subseteq Nat /\ Size \in T
  <2>1. \A b \in Starts(t) \cup {Size} : b \in Nat
    BY <1>1
  <2>2. Size \in Starts(t) \cup {Size} /\ Size > a
    BY <1>1
  <2> QED
    BY <2>1, <2>2
<1>3. Min(T) \in T /\ \A b \in T : Min(T) <= b
  <2> HIDE DEF T
  <2> QED
    BY <1>2, MinOfNumbers
<1>4. NextStart(t, a) = Min(T)
  BY DEF NextStart
<1>5. \A b \in Starts(t) : b > a => b \in T
  OBVIOUS
<1> HIDE DEF T
<1>6. NextStart(t, a) \in T /\ NextStart(t, a) <= Size /\ \A b \in Starts(t) : b > a => NextStart(t, a) <= b
  BY <1>2, <1>3, <1>4, <1>5
<1>7. NextStart(t, a) \in Starts(t) \cup {Size} /\ NextStart(t, a) > a
  BY <1>6 DEF T
<1>8. NextStart(t, a) \in Nat
  BY <1>2, <1>6
<1> QED
  BY <1>6, <1>7, <1>8

\* A run has one protection
LEMMA RunIsUniform ==
    ASSUME Parameters, NEW t \in Terminals, NEW a \in Starts(t),
           NEW x \in a .. NextStart(t, a) - 1
    PROVE  x \in Addresses /\ t.prot[x] = t.prot[a]
<1> DEFINE end == NextStart(t, a)
           T == {y \in a .. end - 1 : t.prot[y] # t.prot[a]}
<1>1. Size \in Nat \ {0} /\ a \in 0 .. Size - 1 /\ end \in Nat /\ end <= Size /\ end > a
  BY SizeIsPositive, StartsAreAddresses, NextStartIs DEF Addresses
<1>2. \A b \in Starts(t) : b > a => end <= b
  BY NextStartIs
<1> HIDE DEF end
<1>3. x \in a .. end - 1
  BY DEF end
<1>4. x \in Addresses
  BY <1>1, <1>3 DEF Addresses
<1>5. T = {}
  <2> SUFFICES ASSUME T # {} PROVE FALSE
    OBVIOUS
  <2>1. T \subseteq Nat
    BY <1>1
  <2>2. PICK y \in T : \A z \in T : y <= z
    <3> HIDE DEF T
    <3> QED
      BY <2>1, LeastNumber
  <2>3. y \in Nat /\ a <= y /\ y < end /\ t.prot[y] # t.prot[a]
    BY <1>1
  <2>4. y # a
    BY <2>3
  <2>5. y - 1 \in a .. end - 1 /\ y - 1 \notin T
    <3>1. y - 1 \in a .. end - 1
      BY <1>1, <2>3, <2>4
    <3>2. y - 1 \in T => y <= y - 1
      BY <2>2
    <3> QED
      BY <2>3, <3>1, <3>2
  <2>6. t.prot[y - 1] = t.prot[a]
    BY <2>5
  <2>7. y \in Starts(t)
    BY <1>1, <2>3, <2>6 DEF Starts, Addresses
  <2> QED
    BY <1>1, <1>2, <2>3, <2>4, <2>7
<1> QED
  BY <1>3, <1>4, <1>5

\* Every cell is in a run
LEMMA RunsCover ==
    ASSUME Parameters, NEW t \in Terminals, NEW x \in Addresses
    PROVE  \E a \in Starts(t) : x \in a .. NextStart(t, a) - 1
<1> DEFINE T == {a \in Starts(t) : a <= x}
<1>1. Size \in Nat \ {0} /\ x \in 0 .. Size - 1 /\ \A a \in Starts(t) : a \in 0 .. Size - 1
  BY SizeIsPositive, StartsAreAddresses DEF Addresses
<1>2. T \subseteq 0 .. Size /\ T # {}
  <2>1. 0 \in T
    BY <1>1, StartsAreAddresses
  <2> QED
    BY <1>1, <2>1
<1>3. Max(T) \in T /\ \A a \in T : a <= Max(T)
  <2> HIDE DEF T
  <2> QED
    BY <1>1, <1>2, MaxOfNumbers
<1>4. PICK m \in Starts(t) : m <= x /\ \A a \in Starts(t) : a <= x => a <= m
  BY <1>3
<1>5. /\ NextStart(t, m) \in Starts(t) \cup {Size} /\ NextStart(t, m) > m
      /\ NextStart(t, m) \in Nat
  BY NextStartIs
<1>6. NextStart(t, m) > x
  BY <1>1, <1>4, <1>5
<1>7. x \in m .. NextStart(t, m) - 1
  BY <1>1, <1>4, <1>5, <1>6
<1> QED
  BY <1>7

LEMMA FieldsOfCover ==
    ASSUME Parameters, NEW t \in Terminals
    PROVE  /\ BuildFields(t) \in Terminals /\ Cover(BuildFields(t))
           /\ \A i \in DOMAIN BuildFields(t).fields : ~BuildFields(t).fields[i].modified
<1> DEFINE n == Cardinality(Starts(t))
           F == FieldsOf(t)
<1>1. Size \in Nat \ {0} /\ Starts(t) \subseteq 0 .. Size
  BY SizeIsPositive, StartsAreAddresses
<1>2. n \in Nat
  <2>1. Size \in Nat /\ 0 \in Nat
    BY <1>1
  <2> QED
    BY <1>1, <2>1, BelowIsFinite
<1>3. \A k \in 1 .. n : Nth(Starts(t), k) \in Starts(t)
  BY <1>1, NthIsOne
<1>4. /\ DOMAIN F = 1 .. n
      /\ \A k \in 1 .. n : LET a == Nth(Starts(t), k) IN
            F[k] = [start |-> a, len |-> NextStart(t, a) - a, prot |-> t.prot[a], modified |-> FALSE]
  BY DEF FieldsOf, NextStart
<1>5. \A k \in 1 .. n : LET a == Nth(Starts(t), k) IN
            /\ F[k] \in Fields /\ F[k].prot = t.prot[a] /\ ~F[k].modified
            /\ CellsOf(F[k]) = a .. NextStart(t, a) - 1
  <2> TAKE k \in 1 .. n
  <2> DEFINE a == Nth(Starts(t), k)
  <2>1. a \in Starts(t) /\ F[k] = [start |-> a, len |-> NextStart(t, a) - a,
                                   prot |-> t.prot[a], modified |-> FALSE]
    BY <1>3, <1>4
  <2>2. a \in Addresses /\ a \in Nat /\ NextStart(t, a) \in Nat /\ NextStart(t, a) > a
    BY <1>1, <2>1, StartsAreAddresses, NextStartIs
  <2>3. t.prot[a] \in BOOLEAN
    BY <2>2 DEF Terminals
  <2> HIDE DEF a, F
  <2>4. F[k] \in Fields /\ F[k].prot = t.prot[a] /\ ~F[k].modified
    BY <2>1, <2>2, <2>3 DEF Fields
  <2>5. CellsOf(F[k]) = a .. NextStart(t, a) - 1
    BY <2>1, <2>2 DEF CellsOf
  <2> QED
    BY <2>4, <2>5 DEF a
<1> HIDE DEF n, F
<1>6. F \in Seq(Fields)
  <2>1. F = [k \in 1 .. n |-> F[k]]
    BY DEF FieldsOf, n, F
  <2>2. F \in [1 .. n -> Fields]
    BY <1>5, <2>1
  <2> QED
    BY <1>2, <2>2, SeqDef
<1>7. BuildFields(t) = [t EXCEPT !.fields = F]
  BY DEF BuildFields, F
<1>8. /\ BuildFields(t) \in Terminals
      /\ BuildFields(t).fields = F /\ BuildFields(t).prot = t.prot
  BY <1>6, <1>7 DEF Terminals
<1>9. \A i \in DOMAIN F : \A x \in CellsOf(F[i]) : x \in Addresses /\ t.prot[x] = F[i].prot
  <2> TAKE i \in DOMAIN F
  <2> TAKE x \in CellsOf(F[i])
  <2>1. i \in 1 .. n
    BY <1>4
  <2>2. Nth(Starts(t), i) \in Starts(t) /\ x \in Nth(Starts(t), i) .. NextStart(t, Nth(Starts(t), i)) - 1
    BY <1>3, <1>5, <2>1
  <2>3. x \in Addresses /\ t.prot[x] = t.prot[Nth(Starts(t), i)]
    BY <2>2, RunIsUniform
  <2> QED
    BY <1>5, <2>1, <2>3
<1>10. \A x \in Addresses : \E i \in DOMAIN F : x \in CellsOf(F[i])
  <2> TAKE x \in Addresses
  <2>1. PICK a \in Starts(t) : x \in a .. NextStart(t, a) - 1
    BY RunsCover
  <2>2. PICK k \in 1 .. Cardinality(Starts(t)) : Nth(Starts(t), k) = a
    BY <1>1, NthReaches
  <2>3. k \in 1 .. n
    BY DEF n
  <2> QED
    BY <1>4, <1>5, <2>1, <2>2, <2>3
<1>11. ASSUME NEW i \in DOMAIN F, NEW j \in DOMAIN F, NEW x \in CellsOf(F[i]), x \in CellsOf(F[j])
       PROVE  i = j
  <2> DEFINE a == Nth(Starts(t), i)
             b == Nth(Starts(t), j)
  <2>1. i \in 1 .. n /\ j \in 1 .. n
    BY <1>4
  <2>2. a \in Starts(t) /\ b \in Starts(t) /\ i - 1 = Cardinality(Below(Starts(t), a))
        /\ j - 1 = Cardinality(Below(Starts(t), b))
    BY <1>1, <2>1, NthIsOne DEF n
  <2>3. x \in a .. NextStart(t, a) - 1 /\ x \in b .. NextStart(t, b) - 1
    BY <1>5, <1>11, <2>1
  <2> HIDE DEF a, b
  <2>4. /\ NextStart(t, a) \in Nat /\ NextStart(t, b) \in Nat
        /\ b > a => NextStart(t, a) <= b
        /\ a > b => NextStart(t, b) <= a
    BY <2>2, NextStartIs
  <2>5. a \in Nat /\ b \in Nat
    BY <1>1, <2>2
  <2>6. a = b
    BY <2>3, <2>4, <2>5
  <2> QED
    BY <2>1, <2>2, <2>6, <1>2
<1>12. \A i \in DOMAIN F : ~F[i].modified
  BY <1>4, <1>5
<1> QED
  BY <1>8, <1>9, <1>10, <1>11, <1>12 DEF Cover

-----------------------------------------------------------------------------
(* Every method of the screen takes a terminal to a terminal. *)

LEMMA PutCharKeeps ==
    ASSUME Parameters, NEW t \in Terminals, NEW ch \in Glyphs
    PROVE  PutChar(t, ch) \in Terminals
<1> DEFINE next == (Here(t) + 1) % Size
<1>1. Size \in Nat \ {0} /\ Here(t) \in Addresses
  BY SizeIsPositive, HereIsAddress
<1>2. next \in Addresses
  BY <1>1 DEF Addresses
<1> HIDE DEF next
<1>3. next \div Cols \in 0 .. Rows - 1 /\ next % Cols \in 0 .. Cols - 1
  BY <1>2, AddressIsPlace
<1> DEFINE text == [t.ch EXCEPT ![Here(t)] = ch]
           prot == [t.prot EXCEPT ![Here(t)] = t.protecting]
<1>4. text \in [Addresses -> Glyphs] /\ prot \in [Addresses -> BOOLEAN]
  BY <1>1 DEF Terminals
<1>5. PutChar(t, ch) = [t EXCEPT !.ch = text, !.prot = prot,
                                 !.row = next \div Cols, !.col = next % Cols]
  BY DEF PutChar, next
<1> HIDE DEF text, prot
<1> QED
  BY <1>3, <1>4, <1>5 DEF Terminals

LEMMA SetCursorKeeps ==
    ASSUME Parameters, NEW t \in Terminals, NEW row \in Int, NEW col \in Int
    PROVE  /\ SetCursor(t, row, col) \in Terminals
           /\ SetCursor(t, row, col).ch = t.ch /\ SetCursor(t, row, col).prot = t.prot
           /\ SetCursor(t, row, col).fields = t.fields
<1> DEFINE r == Max({0, Min({row, Rows - 1})})
           c == Max({0, Min({col, Cols - 1})})
<1>1. Rows \in Nat \ {0} /\ Cols \in Nat \ {0}
  BY DEF Parameters
<1>2. r \in 0 .. Rows - 1
  <2>1. Min({row, Rows - 1}) = IF row <= Rows - 1 THEN row ELSE Rows - 1
    BY <1>1, MinOfTwo
  <2>2. Min({row, Rows - 1}) \in Int
    BY <1>1, <2>1
  <2>3. r = IF 0 <= Min({row, Rows - 1}) THEN Min({row, Rows - 1}) ELSE 0
    BY <2>2, MaxOfTwo
  <2> QED
    BY <1>1, <2>1, <2>3
<1>3. c \in 0 .. Cols - 1
  <2>1. Min({col, Cols - 1}) = IF col <= Cols - 1 THEN col ELSE Cols - 1
    BY <1>1, MinOfTwo
  <2>2. Min({col, Cols - 1}) \in Int
    BY <1>1, <2>1
  <2>3. c = IF 0 <= Min({col, Cols - 1}) THEN Min({col, Cols - 1}) ELSE 0
    BY <2>2, MaxOfTwo
  <2> QED
    BY <1>1, <2>1, <2>3
<1>4. SetCursor(t, row, col) = [t EXCEPT !.row = r, !.col = c]
  BY DEF SetCursor
<1> HIDE DEF r, c
<1> QED
  BY <1>2, <1>3, <1>4 DEF Terminals

LEMMA EraseKeeps ==
    ASSUME NEW t \in Terminals, NEW A
    PROVE  Erase(t, A) \in Terminals
<1> DEFINE ch == [a \in Addresses |-> IF a \in A THEN Blank ELSE t.ch[a]]
           prot == [a \in Addresses |-> t.prot[a] /\ a \notin A]
<1>1. ch \in [Addresses -> Glyphs]
  BY DEF Terminals, Glyphs
<1>2. prot \in [Addresses -> BOOLEAN]
  OBVIOUS
<1>3. Erase(t, A) = [t EXCEPT !.ch = ch, !.prot = prot]
  BY DEF Erase
<1> HIDE DEF ch, prot
<1> QED
  BY <1>1, <1>2, <1>3 DEF Terminals

LEMMA ClearToCursorKeeps ==
    ASSUME NEW t \in Terminals
    PROVE  ClearToCursor(t) \in Terminals
<1> DEFINE ch == [a \in Addresses |-> IF a <= Here(t) THEN Blank ELSE t.ch[a]]
<1>1. ch \in [Addresses -> Glyphs]
  BY DEF Terminals, Glyphs
<1>2. ClearToCursor(t) = [t EXCEPT !.ch = ch]
  BY DEF ClearToCursor
<1> HIDE DEF ch
<1> QED
  BY <1>1, <1>2 DEF Terminals

LEMMA PowerOnIsTerminal == ASSUME Parameters PROVE PowerOn \in Terminals
<1>1. <<>> \in Seq(Fields) /\ <<>> \in Seq(Int)
  OBVIOUS
<1>2. [a \in Addresses |-> Blank] \in [Addresses -> Glyphs]
  BY DEF Glyphs
<1>3. 0 \in 0 .. Rows - 1 /\ 0 \in 0 .. Cols - 1
  BY DEF Parameters
<1> QED
  BY <1>1, <1>2, <1>3 DEF PowerOn, Terminals

LEMMA ClearKeeps == ASSUME Parameters, NEW t \in Terminals PROVE Clear(t) \in Terminals
<1>1. /\ PowerOn.ch \in [Addresses -> Glyphs] /\ PowerOn.prot \in [Addresses -> BOOLEAN]
  BY PowerOnIsTerminal DEF Terminals
<1>2. <<>> \in Seq(Fields) /\ 0 \in 0 .. Rows - 1 /\ 0 \in 0 .. Cols - 1
  BY DEF Parameters
<1> DEFINE u == [t EXCEPT !.ch = PowerOn.ch, !.prot = PowerOn.prot, !.fields = <<>>]
<1>3. u \in Terminals
  BY <1>1, <1>2 DEF Terminals
<1>4. Clear(t) = [u EXCEPT !.row = 0, !.col = 0, !.protecting = FALSE]
  BY DEF Clear
<1> HIDE DEF u
<1> QED
  BY <1>2, <1>3, <1>4 DEF Terminals

LEMMA TabKeeps == ASSUME Parameters, NEW t \in Terminals PROVE Tab(t) \in Terminals
<1> DEFINE open == {f.start : f \in {g \in ToSet(t.fields) : ~g.prot}}
           behind == {a \in open : a > Here(t)}
           stop == ((t.col \div TabWidth) + 1) * TabWidth
<1>1. ToSet(t.fields) \subseteq Fields
  BY DEF ToSet, Terminals
<1>2. open \subseteq Addresses
  BY <1>1 DEF Fields
<1>3. \A a \in Addresses : /\ a \in Nat /\ a \div Cols \in Int /\ a % Cols \in Int
  BY AddressIsPlace, SizeIsPositive DEF Addresses
<1>4. \A a \in Addresses : SetCursor(t, a \div Cols, a % Cols) \in Terminals
  BY <1>3, SetCursorKeeps
<1>5. CASE behind # {}
  <2>1. behind \subseteq Nat /\ behind \subseteq Addresses
    BY <1>2, <1>3
  <2>2. Min(behind) \in Addresses
    <3> HIDE DEF behind
    <3> QED
      BY <2>1, <1>5, MinOfNumbers
  <2>3. Tab(t) = SetCursor(t, Min(behind) \div Cols, Min(behind) % Cols)
    BY <1>5 DEF Tab
  <2> QED
    BY <1>4, <2>2, <2>3
<1>6. CASE behind = {} /\ open # {}
  <2>1. open \subseteq Nat
    BY <1>2, <1>3
  <2>2. Min(open) \in Addresses
    <3> HIDE DEF open
    <3> QED
      BY <2>1, <1>2, <1>6, MinOfNumbers
  <2>3. Tab(t) = SetCursor(t, Min(open) \div Cols, Min(open) % Cols)
    BY <1>6 DEF Tab
  <2> QED
    BY <1>4, <2>2, <2>3
<1>7. CASE behind = {} /\ open = {}
  <2>1. Tab(t) = IF stop < Cols THEN [t EXCEPT !.col = stop]
                 ELSE [t EXCEPT !.col = 0, !.row = (t.row + 1) % Rows]
    BY <1>7 DEF Tab
  <2>2. stop \in Nat /\ 0 \in 0 .. Cols - 1 /\ (t.row + 1) % Rows \in 0 .. Rows - 1
    <3>1. t.col \in Nat /\ t.row \in Nat
      BY DEF Terminals
    <3>2. t.col \div TabWidth \in Nat
      BY <3>1 DEF Parameters
    <3>3. (t.row + 1) % Rows \in 0 .. Rows - 1 /\ 0 \in 0 .. Cols - 1
      BY <3>1 DEF Parameters
    <3>4. stop \in Nat
      BY <3>2 DEF Parameters
    <3> QED
      BY <3>3, <3>4
  <2> HIDE DEF stop
  <2>3. stop < Cols => stop \in 0 .. Cols - 1
    BY <2>2 DEF Parameters
  <2> QED
    BY <2>1, <2>2, <2>3 DEF Terminals
<1> QED
  BY <1>5, <1>6, <1>7

-----------------------------------------------------------------------------
(* The parser: a byte takes a terminal to a terminal, and what it does not *)
(* report as a change leaves the cells and the fields alone.               *)

Parsings == [t : Terminals, changed : BOOLEAN]

Follows(q, r) ==
    /\ r \in Parsings
    /\ q.changed => r.changed
    /\ ~r.changed => r.t.ch = q.t.ch /\ r.t.prot = q.t.prot /\ r.t.fields = q.t.fields

LEMMA ChangedFollows ==
    ASSUME NEW q \in Parsings, NEW t \in Terminals
    PROVE  Follows(q, Changed(q, t))
BY DEF Follows, Changed, Parsings

LEMMA StateFollows ==
    ASSUME NEW q \in Parsings, NEW t \in Terminals,
           t.ch = q.t.ch, t.prot = q.t.prot, t.fields = q.t.fields
    PROVE  Follows(q, [q EXCEPT !.t = t])
BY DEF Follows, Parsings

LEMMA ToFollows ==
    ASSUME NEW q \in Parsings, NEW state \in {"normal", "escape", "csi", "amp", "ampd"}
    PROVE  Follows(q, To(q, state))
<1> DEFINE t == [q.t EXCEPT !.state = state]
<1>1. t \in Terminals /\ t.ch = q.t.ch /\ t.prot = q.t.prot /\ t.fields = q.t.fields
  BY DEF Parsings, Terminals
<1>2. To(q, state) = [q EXCEPT !.t = t]
  BY DEF To
<1> QED
  BY <1>1, <1>2, StateFollows

LEMMA NormalFollows ==
    ASSUME Parameters, NEW q \in Parsings, NEW b \in STRING
    PROVE  Follows(q, Normal(q, b))
<1> DEFINE t == q.t
<1>1. t \in Terminals /\ t.row \in 0 .. Rows - 1 /\ t.col \in 0 .. Cols - 1
      /\ Rows \in Nat \ {0} /\ Cols \in Nat \ {0}
  BY DEF Parsings, Terminals, Parameters
<1>2. CASE b = "ESC"
  <2>1. Normal(q, b) = To(q, "escape")
    BY <1>2 DEF Normal
  <2> QED
    BY <2>1, ToFollows
<1>3. CASE b = "CR"
  <2>1. Normal(q, b) = Changed(q, [t EXCEPT !.col = 0])
    BY <1>3 DEF Normal
  <2>2. 0 \in 0 .. Cols - 1
    BY <1>1
  <2> HIDE DEF t
  <2>3. [t EXCEPT !.col = 0] \in Terminals
    BY <1>1, <2>2 DEF Terminals
  <2> QED
    BY <2>1, <2>3, ChangedFollows DEF t
<1>4. CASE b = "LF"
  <2> DEFINE row == Min({t.row + 1, Rows - 1})
  <2>1. Normal(q, b) = Changed(q, [t EXCEPT !.row = row])
    BY <1>4 DEF Normal
  <2>2. row \in 0 .. Rows - 1
    <3>1. t.row + 1 \in Int /\ Rows - 1 \in Int
      BY <1>1
    <3>2. row = IF t.row + 1 <= Rows - 1 THEN t.row + 1 ELSE Rows - 1
      BY <3>1, MinOfTwo
    <3> QED
      BY <1>1, <3>2
  <2> HIDE DEF row
  <2>3. [t EXCEPT !.row = row] \in Terminals
    BY <1>1, <2>2 DEF Terminals
  <2> QED
    BY <2>1, <2>3, ChangedFollows
<1>5. CASE b = "BS"
  <2> DEFINE col == Max({t.col - 1, 0})
  <2>1. Normal(q, b) = Changed(q, [t EXCEPT !.col = col])
    BY <1>5 DEF Normal
  <2>2. col \in 0 .. Cols - 1
    <3>1. t.col - 1 \in Int /\ 0 \in Int
      BY <1>1
    <3>2. col = IF t.col - 1 <= 0 THEN 0 ELSE t.col - 1
      BY <3>1, MaxOfTwo
    <3> QED
      BY <1>1, <3>2
  <2> HIDE DEF col
  <2>3. [t EXCEPT !.col = col] \in Terminals
    BY <1>1, <2>2 DEF Terminals
  <2> QED
    BY <2>1, <2>3, ChangedFollows
<1>6. CASE b = "HT"
  <2>1. Normal(q, b) = Changed(q, Tab(t))
    BY <1>6 DEF Normal
  <2> QED
    BY <1>1, <2>1, TabKeeps, ChangedFollows
<1>7. CASE b = "FF"
  <2>1. Normal(q, b) = Changed(q, Clear(t))
    BY <1>7 DEF Normal
  <2> QED
    BY <1>1, <2>1, ClearKeeps, ChangedFollows
<1>8. CASE b \in {"BEL", "NUL"}
  <2>1. Normal(q, b) = q
    BY <1>8 DEF Normal
  <2> QED
    BY <2>1 DEF Follows
<1>9. CASE b \notin {"ESC", "CR", "LF", "BS", "HT", "FF", "BEL", "NUL"}
  <2>1. Normal(q, b) = Changed(q, PutChar(t, b))
    BY <1>9 DEF Normal
  <2>2. b \in Glyphs
    BY DEF Glyphs
  <2> QED
    BY <1>1, <2>1, <2>2, PutCharKeeps, ChangedFollows
<1> QED
  BY <1>2, <1>3, <1>4, <1>5, <1>6, <1>7, <1>8, <1>9

\* A sequence that ends leaves the parser in its normal state
LEMMA NormalAgain ==
    ASSUME NEW q \in Parsings
    PROVE  LET t == [q.t EXCEPT !.state = "normal"]
           IN  /\ t \in Terminals /\ t.params = q.t.params
               /\ t.ch = q.t.ch /\ t.prot = q.t.prot /\ t.fields = q.t.fields
BY DEF Parsings, Terminals

LEMMA EscapeFollows ==
    ASSUME Parameters, NEW q \in Parsings, NEW b \in STRING
    PROVE  Follows(q, Escape(q, b))
<1> DEFINE t == [q.t EXCEPT !.state = "normal"]
<1>1. t \in Terminals /\ t.ch = q.t.ch /\ t.prot = q.t.prot /\ t.fields = q.t.fields
  BY NormalAgain
<1> HIDE DEF t
<1>2. CASE b = "["
  <2> DEFINE u == [t EXCEPT !.state = "csi", !.params = <<>>]
  <2>1. Escape(q, b) = [q EXCEPT !.t = u]
    BY <1>2 DEF Escape, t
  <2>2. u \in Terminals /\ u.ch = q.t.ch /\ u.prot = q.t.prot /\ u.fields = q.t.fields
    <3>1. <<>> \in Seq(Int)
      OBVIOUS
    <3> QED
      BY <1>1, <3>1 DEF Terminals
  <2> HIDE DEF u
  <2> QED
    BY <2>1, <2>2, StateFollows
<1>3. CASE b = "&"
  <2>1. Escape(q, b) = To(q, "amp")
    BY <1>3 DEF Escape
  <2> QED
    BY <2>1, ToFollows
<1>4. CASE b = "J"
  <2>1. Escape(q, b) = Changed(q, ClearToEndOfScreen(t))
    BY <1>4 DEF Escape, t
  <2> QED
    BY <1>1, <2>1, EraseKeeps, ChangedFollows DEF ClearToEndOfScreen
<1>5. CASE b = "K"
  <2>1. Escape(q, b) = Changed(q, ClearToEndOfLine(t))
    BY <1>5 DEF Escape, t
  <2> QED
    BY <1>1, <2>1, EraseKeeps, ChangedFollows DEF ClearToEndOfLine
<1>6. CASE b \in {"(", ")"}
  <2>1. Escape(q, b) = Changed(q, [t EXCEPT !.protecting = (b = ")")])
    BY <1>6 DEF Escape, t
  <2>2. [t EXCEPT !.protecting = (b = ")")] \in Terminals
    BY <1>1 DEF Terminals
  <2> QED
    BY <2>1, <2>2, ChangedFollows
<1>7. CASE b \notin {"[", "&", "J", "K", "(", ")"}
  <2>1. Escape(q, b) = [q EXCEPT !.t = t]
    BY <1>7 DEF Escape, t
  <2> QED
    BY <1>1, <2>1, StateFollows
<1> QED
  BY <1>2, <1>3, <1>4, <1>5, <1>6, <1>7

LEMMA ParamIsNumber ==
    ASSUME NEW t \in Terminals, NEW i
    PROVE  Param(t, i) \in Int
<1>1. t.params \in Seq(Int)
  BY DEF Terminals
<1>2. i \in DOMAIN t.params => t.params[i] \in Int
  BY <1>1
<1> QED
  BY <1>2 DEF Param

LEMMA CsiFollows ==
    ASSUME Parameters, NEW q \in Parsings, NEW b \in STRING
    PROVE  Follows(q, Csi(q, b))
<1> DEFINE t == [q.t EXCEPT !.state = "normal"]
           slots == IF t.params = <<>> THEN <<Missing>> ELSE t.params
<1>1. t \in Terminals /\ t.ch = q.t.ch /\ t.prot = q.t.prot /\ t.fields = q.t.fields
  BY NormalAgain
<1>2. slots \in Seq(Int) /\ Len(slots) \in 1 .. Len(slots)
  <2>1. t.params \in Seq(Int)
    BY <1>1 DEF Terminals
  <2>2. CASE t.params = <<>>
    BY <2>2 DEF Missing
  <2>3. CASE t.params # <<>>
    BY <2>1, <2>3
  <2> QED
    BY <2>2, <2>3
<1>3. ASSUME NEW params \in Seq(Int)
      PROVE  Follows(q, [q EXCEPT !.t.params = params])
  <2> DEFINE u == [q.t EXCEPT !.params = params]
  <2>1. u \in Terminals /\ u.ch = q.t.ch /\ u.prot = q.t.prot /\ u.fields = q.t.fields
    BY DEF Parsings, Terminals
  <2>2. [q EXCEPT !.t.params = params] = [q EXCEPT !.t = u]
    OBVIOUS
  <2> HIDE DEF u
  <2> QED
    BY <2>1, <2>2, StateFollows
<1> HIDE DEF t
<1>4. CASE b \in DOMAIN Numbers
  <2> DEFINE params == [slots EXCEPT ![Len(slots)] = Numbers[b]]
  <2>1. Csi(q, b) = [q EXCEPT !.t.params = params]
    <3>1. b \notin {";", "H", "J", "K"}
      BY <1>4 DEF Parameters, NumbersAreDigits
    <3> QED
      BY <1>4, <3>1 DEF Csi, t
  <2>2. Numbers[b] \in Int
    BY <1>4 DEF Parameters
  <2>3. params \in Seq(Int)
    <3> HIDE DEF slots
    <3> QED
      BY <1>2, <2>2, ExceptSeq
  <2> HIDE DEF params
  <2> QED
    BY <1>3, <2>1, <2>3
<1>5. CASE b \notin DOMAIN Numbers /\ b = ";"
  <2>1. Csi(q, b) = [q EXCEPT !.t.params = Append(slots, Missing)]
    BY <1>5 DEF Csi, t
  <2>2. Append(slots, Missing) \in Seq(Int)
    <3> HIDE DEF slots
    <3> QED
      BY <1>2 DEF Missing
  <2> QED
    BY <1>3, <2>1, <2>2
<1>6. CASE b \notin DOMAIN Numbers /\ b = "H"
  <2> DEFINE row == Param(t, 1) - 1
             col == Param(t, 2) - 1
  <2>1. Csi(q, b) = Changed(q, SetCursor(t, row, col))
    BY <1>6 DEF Csi, t
  <2>2. row \in Int /\ col \in Int
    BY <1>1, ParamIsNumber
  <2> HIDE DEF row, col
  <2> QED
    BY <1>1, <2>1, <2>2, SetCursorKeeps, ChangedFollows
<1>7. CASE b \notin DOMAIN Numbers /\ b = "J"
  <2>1. Csi(q, b) = EraseDisplay(q, t)
    BY <1>7 DEF Csi, t
  <2> DEFINE kind == IF t.params = <<>> THEN 0 ELSE t.params[1]
  <2>2. CASE kind = 0
    <3>1. Csi(q, b) = Changed(q, ClearToEndOfScreen(t))
      BY <2>1, <2>2 DEF EraseDisplay
    <3> QED
      BY <1>1, <3>1, EraseKeeps, ChangedFollows DEF ClearToEndOfScreen
  <2>3. CASE kind = 1
    <3>1. Csi(q, b) = Changed(q, ClearToCursor(t))
      BY <2>1, <2>3 DEF EraseDisplay
    <3> QED
      BY <1>1, <3>1, ClearToCursorKeeps, ChangedFollows
  <2>4. CASE kind = 2
    <3>1. Csi(q, b) = Changed(q, Clear(t))
      BY <2>1, <2>4 DEF EraseDisplay
    <3> QED
      BY <1>1, <3>1, ClearKeeps, ChangedFollows
  <2>5. CASE kind \notin {0, 1, 2}
    <3>1. Csi(q, b) = [q EXCEPT !.t = t]
      BY <2>1, <2>5 DEF EraseDisplay
    <3> QED
      BY <1>1, <3>1, StateFollows
  <2> QED
    BY <2>2, <2>3, <2>4, <2>5
<1>8. CASE b \notin DOMAIN Numbers /\ b = "K"
  <2>1. Csi(q, b) = Changed(q, ClearToEndOfLine(t))
    BY <1>8 DEF Csi, t
  <2> QED
    BY <1>1, <2>1, EraseKeeps, ChangedFollows DEF ClearToEndOfLine
<1>9. CASE b \notin DOMAIN Numbers /\ b \notin {";", "H", "J", "K"}
  <2>1. Csi(q, b) = [q EXCEPT !.t = t]
    BY <1>9 DEF Csi, t
  <2> QED
    BY <1>1, <2>1, StateFollows
<1> QED
  BY <1>4, <1>5, <1>6, <1>7, <1>8, <1>9

LEMMA ByteFollows ==
    ASSUME Parameters, NEW q \in Parsings, NEW b \in STRING
    PROVE  Follows(q, Byte(q, b))
<1>1. CASE q.t.state = "normal"
  <2>1. Byte(q, b) = Normal(q, b)
    BY <1>1 DEF Byte
  <2> QED
    BY <2>1, NormalFollows
<1>2. CASE q.t.state = "escape"
  <2>1. Byte(q, b) = Escape(q, b)
    BY <1>2 DEF Byte
  <2> QED
    BY <2>1, EscapeFollows
<1>3. CASE q.t.state = "csi"
  <2>1. Byte(q, b) = Csi(q, b)
    BY <1>3 DEF Byte
  <2> QED
    BY <2>1, CsiFollows
<1>4. CASE q.t.state \notin {"normal", "escape", "csi"}
  <2>1. Byte(q, b) = Amp(q, b)
    BY <1>4 DEF Byte
  <2> DEFINE t == [q.t EXCEPT !.state = "normal"]
  <2>2. t \in Terminals /\ t.ch = q.t.ch /\ t.prot = q.t.prot /\ t.fields = q.t.fields
    BY NormalAgain
  <2> HIDE DEF t
  <2>3. CASE q.t.state = "ampd"
    <3>1. Byte(q, b) = Changed(q, t)
      BY <2>1, <2>3 DEF Amp, t
    <3> QED
      BY <2>2, <3>1, ChangedFollows
  <2>4. CASE q.t.state # "ampd" /\ b = "d"
    <3>1. Byte(q, b) = To(q, "ampd")
      BY <2>1, <2>4 DEF Amp
    <3> QED
      BY <3>1, ToFollows
  <2>5. CASE q.t.state # "ampd" /\ b # "d"
    <3>1. Byte(q, b) = [q EXCEPT !.t = t]
      BY <2>1, <2>5 DEF Amp, t
    <3> QED
      BY <2>2, <3>1, StateFollows
  <2> QED
    BY <2>3, <2>4, <2>5
<1> QED
  BY <1>1, <1>2, <1>3, <1>4

-----------------------------------------------------------------------------
(* A chunk: the fold over its bytes, by their number.                      *)

\* f is the fold of Byte over every set of the first n places in bytes
Iteration(base, bytes, n, f) ==
    f = [s \in SUBSET (1 .. n) |->
            IF s = {} THEN base ELSE Byte(f[s \ {Max(s)}], bytes[Max(s)])]

LEMMA FoldIsIteration ==
    ASSUME NEW base, NEW bytes \in Seq(STRING)
    PROVE  FoldLeft(Byte, base, bytes) =
              (CHOOSE f : Iteration(base, bytes, Len(bytes), f))[1 .. Len(bytes)]
<1>1. DOMAIN bytes = 1 .. Len(bytes)
  OBVIOUS
<1> QED
  BY <1>1 DEF FoldLeft, MapThenFoldSet, Iteration

LEMMA IterationGrows ==
    ASSUME NEW base, NEW bytes, NEW n \in Nat, NEW f, Iteration(base, bytes, n, f)
    PROVE  \E g : Iteration(base, bytes, n + 1, g)
<1> DEFINE g == [s \in SUBSET (1 .. n + 1) |->
                    IF s = {} THEN base
                    ELSE Byte(f[s \ {Max(s)}], bytes[Max(s)])]
<1>1. \A s \in SUBSET (1 .. n + 1) :
         s # {} => s \ {Max(s)} \in SUBSET (1 .. n) /\ f[s \ {Max(s)}] = g[s \ {Max(s)}]
  <2> SUFFICES ASSUME NEW s \in SUBSET (1 .. n + 1), s # {}
               PROVE  s \ {Max(s)} \in SUBSET (1 .. n) /\ f[s \ {Max(s)}] = g[s \ {Max(s)}]
    OBVIOUS
  <2> DEFINE r == s \ {Max(s)}
  <2>1. Max(s) \in s /\ \A k \in s : k <= Max(s)
    <3>1. s \subseteq 0 .. n + 1 /\ n + 1 \in Nat
      OBVIOUS
    <3> QED
      BY <3>1, MaxOfNumbers
  <2>2. \A k \in r : k \in 1 .. n
    <3> TAKE k \in r
    <3>1. k \in 1 .. n + 1 /\ Max(s) \in 1 .. n + 1 /\ k <= Max(s) /\ k # Max(s)
      BY <2>1
    <3> QED
      BY <3>1
  <2>3. r \in SUBSET (1 .. n) /\ r \in SUBSET (1 .. n + 1)
    BY <2>2
  <2> HIDE DEF r
  <2>4. f[r] = IF r = {} THEN base ELSE Byte(f[r \ {Max(r)}], bytes[Max(r)])
    BY <2>3 DEF Iteration
  <2>5. g[r] = IF r = {} THEN base ELSE Byte(f[r \ {Max(r)}], bytes[Max(r)])
    BY <2>3
  <2> QED
    BY <2>3, <2>4, <2>5 DEF r
<1>2. g = [s \in SUBSET (1 .. n + 1) |->
              IF s = {} THEN base ELSE Byte(g[s \ {Max(s)}], bytes[Max(s)])]
  BY <1>1
<1> QED
  BY <1>2 DEF Iteration

LEMMA IterationExists ==
    ASSUME NEW base, NEW bytes, NEW n \in Nat
    PROVE  \E f : Iteration(base, bytes, n, f)
<1> DEFINE T == {m \in Nat : ~ \E f : Iteration(base, bytes, m, f)}
<1>1. 0 \notin T
  <2> DEFINE f == [s \in SUBSET (1 .. 0) |-> base]
  <2>1. \A s \in SUBSET (1 .. 0) : s = {}
    OBVIOUS
  <2>2. f = [s \in SUBSET (1 .. 0) |->
                IF s = {} THEN base ELSE Byte(f[s \ {Max(s)}], bytes[Max(s)])]
    BY <2>1
  <2> QED
    BY <2>2 DEF Iteration
<1>2. SUFFICES T = {}
  OBVIOUS
<1>3. SUFFICES ASSUME T # {} PROVE FALSE
  OBVIOUS
<1>4. PICK m \in T : \A k \in T : m <= k
  <2>1. T \subseteq Nat
    OBVIOUS
  <2> HIDE DEF T
  <2> QED
    BY <1>3, <2>1, LeastNumber
<1>5. m \in Nat /\ m # 0
  BY <1>1
<1>6. m - 1 \in Nat /\ ~ (m <= m - 1) /\ m - 1 + 1 = m
  BY <1>5
<1>7. m - 1 \notin T
  BY <1>4, <1>6
<1>8. PICK f : Iteration(base, bytes, m - 1, f)
  BY <1>6, <1>7
<1>9. \E g : Iteration(base, bytes, m - 1 + 1, g)
  BY <1>6, <1>8, IterationGrows
<1>10. \E g : Iteration(base, bytes, m, g)
  BY <1>6, <1>9
<1> QED
  BY <1>10

\* What the first k bytes do
LEMMA FirstBytesFollow ==
    ASSUME Parameters, NEW base \in Parsings, NEW bytes \in Seq(STRING), NEW f,
           Iteration(base, bytes, Len(bytes), f), NEW k \in 0 .. Len(bytes)
    PROVE  Follows(base, f[1 .. k])
<1> DEFINE T == {j \in 0 .. Len(bytes) : ~ Follows(base, f[1 .. j])}
<1>1. Len(bytes) \in Nat
  OBVIOUS
<1>2. 0 \notin T
  <2>1. 1 .. 0 = {} /\ {} \in SUBSET (1 .. Len(bytes))
    BY <1>1
  <2>2. f[{}] = base
    BY <2>1 DEF Iteration
  <2>3. Follows(base, base)
    BY DEF Follows
  <2> QED
    BY <2>1, <2>2, <2>3
<1>3. SUFFICES ASSUME T # {} PROVE FALSE
  OBVIOUS
<1>4. PICK m \in T : \A j \in T : m <= j
  <2>1. T \subseteq Nat
    BY <1>1
  <2> HIDE DEF T
  <2> QED
    BY <1>3, <2>1, LeastNumber
<1>5. m \in 1 .. Len(bytes)
  BY <1>1, <1>2
<1>6. m - 1 \in 0 .. Len(bytes) /\ ~ (m <= m - 1)
  BY <1>1, <1>5
<1>7. Follows(base, f[1 .. m - 1])
  BY <1>4, <1>6
<1>8. 1 .. m # {} /\ 1 .. m \in SUBSET (1 .. Len(bytes)) /\ Max(1 .. m) = m
  <2>1. m \in 1 .. m /\ \A j \in 1 .. m : m >= j
    BY <1>1, <1>5
  <2>2. m \in Nat /\ 1 .. m \subseteq 0 .. m /\ 1 .. m # {}
    <3>1. m \in Nat
      BY <1>1, <1>5
    <3>2. \A j \in 1 .. m : j \in 0 .. m
      BY <3>1
    <3> QED
      BY <2>1, <3>1, <3>2
  <2>3. Max(1 .. m) \in 1 .. m /\ \A j \in 1 .. m : j <= Max(1 .. m)
    BY <2>2, MaxOfNumbers
  <2>4. Max(1 .. m) = m
    BY <2>1, <2>2, <2>3
  <2> QED
    BY <1>1, <1>5, <2>2, <2>4
<1>9. (1 .. m) \ {m} = 1 .. m - 1
  BY <1>5
<1>10. f[1 .. m] = Byte(f[1 .. m - 1], bytes[m])
  BY <1>8, <1>9 DEF Iteration
<1>11. bytes[m] \in STRING
  BY <1>5
<1>12. f[1 .. m - 1] \in Parsings
  BY <1>7 DEF Follows
<1>13. Follows(f[1 .. m - 1], f[1 .. m])
  BY <1>10, <1>11, <1>12, ByteFollows
<1>14. Follows(base, f[1 .. m])
  BY <1>7, <1>13 DEF Follows
<1> QED
  BY <1>14

\* A chunk ends in a terminal whose fields still are the runs
LEMMA ParseKeeps ==
    ASSUME Parameters, NEW t \in Terminals, Cover(t), NEW bytes \in Seq(STRING)
    PROVE  /\ Parse(t, bytes) \in Terminals /\ Cover(Parse(t, bytes))
           /\ Read(t, bytes).changed =>
                 \A i \in DOMAIN Parse(t, bytes).fields : ~Parse(t, bytes).fields[i].modified
           /\ ~Read(t, bytes).changed => Parse(t, bytes).fields = t.fields
<1> DEFINE base == [t |-> t, changed |-> FALSE]
           q == FoldLeft(Byte, base, bytes)
           f == CHOOSE g : Iteration(base, bytes, Len(bytes), g)
<1>1. base \in Parsings
  BY DEF Parsings
<1>2. base.t = t /\ Len(bytes) \in Nat
  OBVIOUS
<1> HIDE DEF base
<1>3. Iteration(base, bytes, Len(bytes), f)
  <2>1. \E g : Iteration(base, bytes, Len(bytes), g)
    BY <1>2, IterationExists
  <2> QED
    BY <2>1
<1>4. q = f[1 .. Len(bytes)]
  BY FoldIsIteration
<1>5. Follows(base, f[1 .. Len(bytes)])
  <2>1. Len(bytes) \in 0 .. Len(bytes)
    BY <1>2
  <2> HIDE DEF f
  <2> QED
    BY <1>1, <1>3, <2>1, FirstBytesFollow
<1>6. Follows(base, q)
  BY <1>4, <1>5
<1>7. Read(t, bytes) = q /\ Parse(t, bytes) = IF q.changed THEN BuildFields(q.t) ELSE q.t
  BY DEF Parse, Read, base
<1> HIDE DEF q, f
<1>8. q.t \in Terminals /\ (~q.changed => q.t.prot = t.prot /\ q.t.fields = t.fields)
  BY <1>2, <1>6 DEF Follows, Parsings
<1>9. CASE q.changed
  BY <1>7, <1>8, <1>9, FieldsOfCover
<1>10. CASE ~q.changed
  <2>1. Parse(t, bytes) = q.t /\ Read(t, bytes) = q
    BY <1>7, <1>10
  <2>2. q.t.prot = t.prot /\ q.t.fields = t.fields
    BY <1>8, <1>10
  <2>3. Cover(q.t)
    BY <2>2 DEF Cover
  <2> QED
    BY <1>8, <1>10, <2>1, <2>2, <2>3
<1> QED
  BY <1>9, <1>10

-----------------------------------------------------------------------------
(* Typing.                                                                 *)

\* u is t after characters went into its i-th field
TypedInto(t, u, i) ==
    /\ ~t.fields[i].prot
    /\ Here(t) \in CellsOf(t.fields[i]) /\ Here(u) \in CellsOf(t.fields[i]) /\ Here(t) <= Here(u)
    /\ \A a \in Addresses \ CellsOf(t.fields[i]) : u.ch[a] = t.ch[a]
    /\ u.fields = [t.fields EXCEPT ![i] = [t.fields[i] EXCEPT !.modified = TRUE]]
    /\ u.prot = t.prot

LEMMA FieldAtCursorIsHere ==
    ASSUME NEW t, t.fields \in Seq(Fields)
    PROVE  /\ FieldAtCursor(t) # 0 =>
                 /\ FieldAtCursor(t) \in DOMAIN t.fields
                 /\ Here(t) \in CellsOf(t.fields[FieldAtCursor(t)])
           /\ FieldAtCursor(t) = 0 => \A i \in DOMAIN t.fields : Here(t) \notin CellsOf(t.fields[i])
<1> DEFINE I == {i \in DOMAIN t.fields : Here(t) \in CellsOf(t.fields[i])}
<1>1. FieldAtCursor(t) = IF I = {} THEN 0 ELSE Min(I)
  BY DEF FieldAtCursor
<1>2. I \subseteq Nat /\ 0 \notin I
  OBVIOUS
<1>3. I # {} => Min(I) \in I
  <2> HIDE DEF I
  <2> QED
    BY <1>2, MinOfNumbers
<1> QED
  BY <1>1, <1>2, <1>3

LEMMA ModifiedKeeps ==
    ASSUME NEW t \in Terminals, NEW u \in Terminals, Cover(t), NEW i \in DOMAIN t.fields,
           TypedInto(t, u, i)
    PROVE  /\ Cover(u) /\ DOMAIN u.fields = DOMAIN t.fields
           /\ \A k \in DOMAIN t.fields :
                 /\ CellsOf(u.fields[k]) = CellsOf(t.fields[k])
                 /\ u.fields[k].prot = t.fields[k].prot
                 /\ u.fields[k].modified = (t.fields[k].modified \/ k = i)
<1> DEFINE f == [t.fields[i] EXCEPT !.modified = TRUE]
<1>1. t.fields \in Seq(Fields) /\ u.fields = [t.fields EXCEPT ![i] = f]
  BY DEF Terminals, TypedInto
<1>2. \A k \in DOMAIN t.fields : t.fields[k] \in Fields
  BY <1>1
<1>3. /\ f.start = t.fields[i].start /\ f.len = t.fields[i].len
      /\ f.prot = t.fields[i].prot /\ f.modified = TRUE
  BY <1>2 DEF Fields
<1> HIDE DEF f
<1>4. DOMAIN u.fields = DOMAIN t.fields
  BY <1>1
<1>5. \A k \in DOMAIN t.fields : u.fields[k] = IF k = i THEN f ELSE t.fields[k]
  BY <1>1
<1>6. \A k \in DOMAIN t.fields : t.fields[k].modified \in BOOLEAN
  BY <1>2 DEF Fields
<1>7. \A k \in DOMAIN t.fields :
         /\ CellsOf(u.fields[k]) = CellsOf(t.fields[k])
         /\ u.fields[k].prot = t.fields[k].prot
         /\ u.fields[k].modified = (t.fields[k].modified \/ k = i)
  <2> TAKE k \in DOMAIN t.fields
  <2>1. CASE k = i
    BY <1>3, <1>5, <2>1 DEF CellsOf
  <2>2. CASE k # i
    BY <1>5, <1>6, <2>2
  <2> QED
    BY <2>1, <2>2
<1>8. t.fields # <<>> /\ u.prot = t.prot
  BY <1>1 DEF TypedInto
<1>9. Cover(u)
  <2> DEFINE C == [k \in DOMAIN t.fields |-> CellsOf(t.fields[k])]
  <2>1. \A k \in DOMAIN t.fields : CellsOf(t.fields[k]) = C[k] /\ CellsOf(u.fields[k]) = C[k]
    BY <1>7
  <2> HIDE DEF C
  <2>2. /\ \A k \in DOMAIN t.fields : \A a \in C[k] : a \in Addresses /\ t.prot[a] = t.fields[k].prot
        /\ \A a \in Addresses : \E k \in DOMAIN t.fields : a \in C[k]
        /\ \A k, l \in DOMAIN t.fields : \A a \in C[k] : a \in C[l] => k = l
    BY <1>8, <2>1 DEF Cover
  <2>3. /\ \A k \in DOMAIN u.fields : \A a \in CellsOf(u.fields[k]) :
              a \in Addresses /\ u.prot[a] = u.fields[k].prot
        /\ \A a \in Addresses : \E k \in DOMAIN u.fields : a \in CellsOf(u.fields[k])
    BY <1>4, <1>7, <1>8, <2>1, <2>2
  <2>4. \A k, l \in DOMAIN u.fields : \A a \in CellsOf(u.fields[k]) : a \in CellsOf(u.fields[l]) => k = l
    BY <1>4, <2>1, <2>2
  <2> QED
    BY <2>3, <2>4 DEF Cover
<1> QED
  BY <1>4, <1>7, <1>9

LEMMA InsertTextKeeps ==
    ASSUME Parameters, NEW t \in Terminals, Cover(t), NEW text \in Seq(STRING)
    PROVE  /\ InsertText(t, text) \in Terminals
           /\ \/ InsertText(t, text) = t /\ (t.fields = <<>> \/ t.prot[Here(t)])
              \/ \E i \in DOMAIN t.fields : TypedInto(t, InsertText(t, text), i)
<1> DEFINE i == FieldAtCursor(t)
           here == Here(t)
           u == InsertText(t, text)
<1>1. t.fields \in Seq(Fields) /\ here \in Nat
  BY HereIsAddress, SizeIsPositive DEF Terminals, Addresses
<1>2. CASE i = 0 \/ t.fields[i].prot
  <2>1. u = t
    BY <1>2 DEF InsertText
  <2>2. CASE i = 0
    <3>1. \A k \in DOMAIN t.fields : here \notin CellsOf(t.fields[k])
      BY <1>1, <2>2, FieldAtCursorIsHere
    <3>2. t.fields = <<>>
      BY <3>1, HereIsAddress DEF Cover
    <3> QED
      BY <2>1, <3>2
  <2>3. CASE i # 0
    <3>1. i \in DOMAIN t.fields /\ here \in CellsOf(t.fields[i])
      BY <1>1, <2>3, FieldAtCursorIsHere
    <3>2. t.fields # <<>>
      BY <3>1
    <3>3. t.prot[here] = t.fields[i].prot
      BY <3>1, <3>2 DEF Cover
    <3> QED
      BY <1>2, <2>1, <2>3, <3>3
  <2> QED
    BY <2>2, <2>3
<1>3. CASE i # 0 /\ ~t.fields[i].prot
  <2> DEFINE f == t.fields[i]
             end == f.start + f.len
             n == Min({Len(text), end - here})
             last == Min({here + n, end - 1})
  <2>1. i \in DOMAIN t.fields /\ here \in CellsOf(f)
    BY <1>1, <1>3, FieldAtCursorIsHere
  <2>2. f \in Fields /\ f.start \in Nat /\ f.len \in Nat /\ end \in Nat
    <3>1. f \in Fields
      BY <1>1, <2>1
    <3>2. f.start \in Addresses /\ f.len \in Nat
      BY <3>1 DEF Fields
    <3> QED
      BY <3>1, <3>2, SizeIsPositive DEF Addresses
  <2>3. CellsOf(f) = f.start .. end - 1
    <3> HIDE DEF f
    <3> QED
      BY <2>2 DEF CellsOf
  <2>4. f.start <= here /\ here < end
    BY <1>1, <2>1, <2>2, <2>3
  <2>5. n \in Nat /\ here + n <= end /\ n <= Len(text)
    <3>1. Len(text) \in Nat /\ end - here \in Nat
      BY <1>1, <2>2, <2>4
    <3>2. n = IF Len(text) <= end - here THEN Len(text) ELSE end - here
      BY <3>1, MinOfTwo
    <3> QED
      BY <1>1, <2>2, <3>1, <3>2
  <2>6. last \in CellsOf(f) /\ here <= last
    <3>1. here + n \in Int /\ end - 1 \in Int
      BY <1>1, <2>2, <2>5
    <3>2. last = IF here + n <= end - 1 THEN here + n ELSE end - 1
      BY <3>1, MinOfTwo
    <3> HIDE DEF f, end, n, last
    <3>3. last \in f.start .. end - 1 /\ here <= last
      BY <1>1, <2>2, <2>4, <2>5, <3>2
    <3> QED
      BY <2>3, <3>3
  <2>7. \A a \in CellsOf(f) : a \in Addresses
    BY <2>1 DEF Cover
  <2>8. /\ last \div Cols \in 0 .. Rows - 1 /\ last % Cols \in 0 .. Cols - 1
        /\ Address(last \div Cols, last % Cols) = last
    <3> HIDE DEF last, f
    <3> QED
      BY <2>6, <2>7, AddressIsPlace
  <2> DEFINE ch == [a \in Addresses |->
                      IF a \in here .. here + n - 1 THEN text[a - here + 1] ELSE t.ch[a]]
             fields == [t.fields EXCEPT ![i] = [f EXCEPT !.modified = TRUE]]
  <2>9. u = [t EXCEPT !.ch = ch, !.row = last \div Cols, !.col = last % Cols,
                      !.fields = fields]
    BY <1>3 DEF InsertText
  <2>10. ch \in [Addresses -> Glyphs]
    <3>1. \A a \in here .. here + n - 1 : a - here + 1 \in 1 .. Len(text)
      <4> HIDE DEF n, here
      <4> QED
        BY <1>1, <2>5
    <3>2. \A a \in here .. here + n - 1 : text[a - here + 1] \in STRING
      BY <3>1
    <3>3. \A a \in Addresses : t.ch[a] \in Glyphs
      BY DEF Terminals
    <3> HIDE DEF n, here
    <3> QED
      BY <3>2, <3>3 DEF Glyphs
  <2>11. fields \in Seq(Fields)
    <3>1. [f EXCEPT !.modified = TRUE] \in Fields
      BY <2>2 DEF Fields
    <3> HIDE DEF f
    <3> QED
      BY <1>1, <2>1, <3>1, ExceptSeq
  <2>12. \A a \in Addresses \ CellsOf(f) : ch[a] = t.ch[a]
    <3>1. \A a \in here .. here + n - 1 : a \in CellsOf(f)
      <4> HIDE DEF n, here, f
      <4>1. \A a \in here .. here + n - 1 : f.start <= a /\ a <= end - 1
        BY <1>1, <2>2, <2>4, <2>5
      <4> QED
        BY <1>1, <2>2, <2>3, <2>5, <4>1
    <3> HIDE DEF n, here, f
    <3> QED
      BY <3>1
  <2> HIDE DEF ch, fields, last
  <2>13. u \in Terminals /\ u.fields = fields /\ u.prot = t.prot /\ u.ch = ch
         /\ u.row = last \div Cols /\ u.col = last % Cols
    <3> HIDE DEF u
    <3> QED
      BY <2>8, <2>9, <2>10, <2>11 DEF Terminals
  <2>14. Here(u) = last
    BY <2>8, <2>13 DEF Here
  <2>15. TypedInto(t, u, i)
    <3> HIDE DEF u
    <3> QED
      BY <1>3, <2>1, <2>6, <2>12, <2>13, <2>14 DEF TypedInto, fields
  <2> QED
    BY <2>1, <2>13, <2>15
<1> QED
  BY <1>2, <1>3

-----------------------------------------------------------------------------
(* What every state satisfies.                                             *)

\* The fields that the next action key sends are those typed in
FlagsAreTyped ==
    \A i \in DOMAIN screen.fields :
        screen.fields[i].modified /\ ~screen.fields[i].prot <=> CellsOf(screen.fields[i]) \cap typed # {}

TypingInv ==
    /\ screen \in Terminals /\ Cover(screen) /\ typed \subseteq Addresses
    /\ FlagsAreTyped

LEMMA InitTyping == ASSUME Parameters, Init PROVE TypingInv
<1>1. screen \in Terminals
  BY PowerOnIsTerminal DEF Init
<1>2. screen.fields = <<>>
  BY DEF Init, PowerOn
<1> QED
  BY <1>1, <1>2 DEF Init, TypingInv, Cover, FlagsAreTyped

LEMMA HostKeepsTyping ==
    ASSUME Parameters, TypingInv, NEW chunk \in Chunks, HostSends(chunk)
    PROVE  TypingInv'
<1> DEFINE u == Parse(screen, chunk)
<1>1. chunk \in Seq(STRING) /\ screen \in Terminals /\ Cover(screen)
  BY DEF Parameters, TypingInv
<1>2. /\ u \in Terminals /\ Cover(u)
      /\ Read(screen, chunk).changed => \A i \in DOMAIN u.fields : ~u.fields[i].modified
      /\ ~Read(screen, chunk).changed => u.fields = screen.fields
  BY <1>1, ParseKeeps
<1>3. screen' = u /\ typed' = IF Read(screen, chunk).changed THEN {} ELSE typed
  BY DEF HostSends, Happens
<1> HIDE DEF u
<1>4. screen' \in Terminals /\ Cover(screen)' /\ typed' \subseteq Addresses
  BY <1>2, <1>3 DEF Cover, TypingInv
<1>5. FlagsAreTyped'
  BY <1>2, <1>3 DEF FlagsAreTyped, TypingInv
<1> QED
  BY <1>4, <1>5 DEF TypingInv

LEMMA TypingKeepsTyping ==
    ASSUME Parameters, TypingInv, NEW text \in Texts, TypeText(text)
    PROVE  TypingInv'
<1>1. text \in Seq(STRING) /\ screen \in Terminals /\ Cover(screen)
  BY DEF Parameters, TypingInv
<1>2. screen' = InsertText(screen, text) /\ typed' = typed \cup Passed
  BY DEF TypeText, Happens
<1>3. screen' \in Terminals
      /\ \/ screen' = screen /\ (screen.fields = <<>> \/ screen.prot[Here(screen)])
         \/ \E i \in DOMAIN screen.fields : TypedInto(screen, screen', i)
  BY <1>1, <1>2, InsertTextKeeps
<1>4. CASE screen' = screen /\ (screen.fields = <<>> \/ screen.prot[Here(screen)])
  <2>1. typed' = typed
    BY <1>2, <1>4 DEF Passed
  <2> QED
    BY <1>4, <2>1 DEF TypingInv, Cover, FlagsAreTyped
<1>5. ASSUME NEW i \in DOMAIN screen.fields, TypedInto(screen, screen', i)
      PROVE  TypingInv'
  <2> DEFINE f == screen.fields[i]
  <2>1. /\ Cover(screen') /\ DOMAIN screen'.fields = DOMAIN screen.fields
        /\ \A k \in DOMAIN screen.fields :
              /\ CellsOf(screen'.fields[k]) = CellsOf(screen.fields[k])
              /\ screen'.fields[k].prot = screen.fields[k].prot
              /\ screen'.fields[k].modified = (screen.fields[k].modified \/ k = i)
    BY <1>1, <1>3, <1>5, ModifiedKeeps
  <2>2. screen.fields # <<>> /\ \A a \in CellsOf(f) : a \in Addresses /\ screen.prot[a] = f.prot
    BY <1>1 DEF Cover
  <2>3. Passed = Here(screen) .. Here(screen')
    BY <1>5, <2>2 DEF Passed, TypedInto
  <2>4. Passed \subseteq CellsOf(f) /\ Here(screen) \in Passed
    <3>1. f \in Fields
      BY <1>1 DEF Terminals
    <3>2. f.start \in Nat /\ f.len \in Nat
      BY <3>1, SizeIsPositive DEF Fields, Addresses
    <3>3. Here(screen) \in CellsOf(f) /\ Here(screen') \in CellsOf(f) /\ Here(screen) <= Here(screen')
      BY <1>5 DEF TypedInto
    <3> HIDE DEF f
    <3> QED
      BY <2>3, <3>2, <3>3 DEF CellsOf
  <2>5. typed' \subseteq Addresses
    BY <1>2, <2>2, <2>4 DEF TypingInv
  <2>6. ASSUME NEW k \in DOMAIN screen.fields
        PROVE  /\ k = i => CellsOf(screen.fields[k]) \cap typed' # {} /\ ~screen.fields[k].prot
               /\ k # i => CellsOf(screen.fields[k]) \cap typed' = CellsOf(screen.fields[k]) \cap typed
    <3>1. CASE k = i
      BY <1>2, <1>5, <2>4, <3>1 DEF TypedInto
    <3>2. CASE k # i
      <4>1. CellsOf(screen.fields[k]) \cap Passed = {}
        BY <1>1, <2>2, <2>4, <3>2 DEF Cover
      <4> QED
        BY <1>2, <3>2, <4>1
    <3> QED
      BY <3>1, <3>2
  <2>7. FlagsAreTyped'
    <3> SUFFICES ASSUME NEW k \in DOMAIN screen.fields
                 PROVE  screen'.fields[k].modified /\ ~screen'.fields[k].prot
                           <=> CellsOf(screen'.fields[k]) \cap typed' # {}
      BY <2>1 DEF FlagsAreTyped
    <3>1. CASE k = i
      BY <2>1, <2>6, <3>1
    <3>2. CASE k # i
      BY <2>1, <2>6, <3>2 DEF TypingInv, FlagsAreTyped
    <3> QED
      BY <3>1, <3>2
  <2> QED
    BY <1>3, <2>1, <2>5, <2>7 DEF TypingInv, Cover
<1> QED
  BY <1>3, <1>4, <1>5

LEMMA NextTyping == ASSUME Parameters, TypingInv, [Next]_vars PROVE TypingInv'
<1>1. ASSUME NEW chunk \in Chunks, HostSends(chunk) PROVE TypingInv'
  BY <1>1, HostKeepsTyping
<1>2. ASSUME NEW text \in Texts, TypeText(text) PROVE TypingInv'
  BY <1>2, TypingKeepsTyping
<1>3. CASE PressAction
  BY <1>3 DEF PressAction, Happens, TypingInv, Cover, FlagsAreTyped
<1>4. CASE UNCHANGED vars
  BY <1>4 DEF vars, TypingInv, Cover, FlagsAreTyped
<1> QED
  BY <1>1, <1>2, <1>3, <1>4 DEF Next

-----------------------------------------------------------------------------
(* The properties, from the invariant.                                     *)

LEMMA CoverIsCover == ASSUME Parameters, TypingInv PROVE TypeOK /\ FieldsCoverScreen
<1>1. screen \in Terminals /\ Cover(screen)
  BY DEF TypingInv
<1>2. TypeOK
  BY <1>1 DEF TypeOK, Terminals
<1>3. ASSUME screen.fields # <<>>
      PROVE  /\ UNION {CellsOf(f) : f \in ToSet(screen.fields)} = Addresses
             /\ \A f \in ToSet(screen.fields) : \A a \in CellsOf(f) : screen.prot[a] = f.prot
  <2>1. /\ \A i \in DOMAIN screen.fields : \A a \in CellsOf(screen.fields[i]) :
              a \in Addresses /\ screen.prot[a] = screen.fields[i].prot
        /\ \A a \in Addresses :
              \E i \in DOMAIN screen.fields : a \in CellsOf(screen.fields[i])
    BY <1>1, <1>3 DEF Cover
  <2>2. \A f : f \in ToSet(screen.fields) <=>
                 \E i \in DOMAIN screen.fields : f = screen.fields[i]
    BY DEF ToSet
  <2> QED
    BY <2>1, <2>2
<1> QED
  BY <1>2, <1>3 DEF FieldsCoverScreen

LEMMA TypingStays ==
    ASSUME Parameters, TypingInv, NEW text \in Texts, TypeText(text), screen'.ch # screen.ch
    PROVE  \E f \in ToSet(screen.fields) :
              /\ ~f.prot /\ Here(screen') \in CellsOf(f)
              /\ \A a \in Addresses \ CellsOf(f) : screen'.ch[a] = screen.ch[a]
<1>1. text \in Seq(STRING) /\ screen \in Terminals /\ Cover(screen)
  BY DEF Parameters, TypingInv
<1>2. screen' = InsertText(screen, text)
  BY DEF TypeText, Happens
<1>3. PICK i \in DOMAIN screen.fields : TypedInto(screen, screen', i)
  BY <1>1, <1>2, InsertTextKeeps
<1>4. screen.fields[i] \in ToSet(screen.fields)
  BY DEF ToSet
<1> QED
  BY <1>3, <1>4 DEF TypedInto

\* What a field sends has all that the field shows: what is left out is blank
LEMMA TextIsWhole ==
    ASSUME Parameters, TypingInv, NEW f \in Fields, CellsOf(f) \subseteq Addresses
    PROVE  SentWhole(FieldData(screen, f), f)
<1> DEFINE ink == {a \in CellsOf(f) : screen.ch[a] # Blank}
<1>1. f.start \in Nat /\ f.len \in Nat /\ Size \in Nat \ {0}
  BY SizeIsPositive DEF Fields, Addresses
<1>2. CASE ink = {}
  <2>1. FieldData(screen, f) = <<>>
    BY <1>2 DEF FieldData
  <2> QED
    BY <1>2, <2>1 DEF SentWhole
<1>3. CASE ink # {}
  <2> DEFINE last == Max(ink)
             part == FieldData(screen, f)
  <2>1. last \in ink /\ \A a \in ink : a <= last
    <3>1. ink \subseteq 0 .. Size - 1 /\ Size - 1 \in Nat
      BY <1>1 DEF Addresses
    <3> HIDE DEF ink
    <3> QED
      BY <1>3, <3>1, MaxOfNumbers
  <2>2. part = [k \in 1 .. last - f.start + 1 |-> screen.ch[f.start + k - 1]]
    BY <1>3 DEF FieldData
  <2>3. last \in CellsOf(f) /\ \A a \in CellsOf(f) : screen.ch[a] # Blank => a <= last
    BY <2>1
  <2> HIDE DEF ink, last, part
  <2>4. ASSUME NEW a \in CellsOf(f)
        PROVE  IF a - f.start + 1 \in DOMAIN part THEN part[a - f.start + 1] = screen.ch[a]
               ELSE screen.ch[a] = Blank
    <3>1. a \in Nat /\ last \in Nat /\ a >= f.start
      BY <1>1, <2>3 DEF CellsOf
    <3>2. CASE a <= last
      <4>1. a - f.start + 1 \in 1 .. last - f.start + 1 /\ f.start + (a - f.start + 1) - 1 = a
        BY <1>1, <3>1, <3>2
      <4> QED
        BY <2>2, <4>1
    <3>3. CASE ~(a <= last)
      <4>1. a - f.start + 1 \notin 1 .. last - f.start + 1
        BY <1>1, <3>1, <3>3
      <4> QED
        BY <2>2, <2>3, <3>3, <4>1
    <3> QED
      BY <3>2, <3>3
  <2> QED
    BY <2>4 DEF SentWhole, part
<1> QED
  BY <1>2, <1>3

\* What an action key sends
SentRight ==
    /\ Len(answer') = Cardinality(FieldsTypedIn)
    /\ \A i \in FieldsTypedIn :
          SentWhole(answer'[Cardinality({j \in FieldsTypedIn : j < i}) + 1], screen.fields[i])

LEMMA SendsTheTyped == ASSUME Parameters, TypingInv, PressAction PROVE SentRight
<1> DEFINE I == {i \in DOMAIN screen.fields : screen.fields[i].modified /\ ~screen.fields[i].prot}
<1>1. screen.fields \in Seq(Fields)
  BY DEF TypingInv, Terminals
<1>2. I = FieldsTypedIn
  BY DEF TypingInv, FlagsAreTyped, FieldsTypedIn
<1>3. answer' = [k \in 1 .. Cardinality(I) |-> FieldData(screen, screen.fields[Nth(I, k)])]
  BY DEF PressAction, BuildKeyResponse, Answered
<1>4. Len(screen.fields) \in Nat /\ I \subseteq 0 .. Len(screen.fields) /\ I \subseteq DOMAIN screen.fields
  BY <1>1
<1> HIDE DEF I
<1>5. Cardinality(I) \in Nat
  BY <1>4, BelowIsFinite
<1>6. Len(answer') = Cardinality(I)
  BY <1>3, <1>5
<1>7. ASSUME NEW i \in I
      PROVE  SentWhole(answer'[Cardinality({j \in I : j < i}) + 1], screen.fields[i])
  <2> DEFINE k == Cardinality(Below(I, i)) + 1
  <2>1. k \in 1 .. Cardinality(I) /\ Nth(I, k) = i
    BY <1>4, NthReaches
  <2>2. k = Cardinality({j \in I : j < i}) + 1
    BY DEF Below
  <2> HIDE DEF k
  <2>3. answer'[k] = FieldData(screen, screen.fields[i])
    BY <1>3, <2>1
  <2>4. screen.fields[i] \in Fields /\ CellsOf(screen.fields[i]) \subseteq Addresses
    BY <1>1, <1>4 DEF TypingInv, Cover
  <2>5. SentWhole(FieldData(screen, screen.fields[i]), screen.fields[i])
    BY <2>4, TextIsWhole
  <2> QED
    BY <2>2, <2>3, <2>5
<1> QED
  BY <1>2, <1>6, <1>7 DEF SentRight

\* the parts of TypingIsKept, of one step
TypingHolds ==
    /\ TypeOK /\ FieldsCoverScreen
    /\ \A text \in Texts :
          TypeText(text) /\ screen'.ch # screen.ch =>
              \E f \in ToSet(screen.fields) :
                  /\ ~f.prot /\ Here(screen') \in CellsOf(f)
                  /\ \A a \in Addresses \ CellsOf(f) : screen'.ch[a] = screen.ch[a]
    /\ PressAction => SentRight

LEMMA TypingHolding == ASSUME Parameters, TypingInv PROVE TypingHolds
BY CoverIsCover, TypingStays, SendsTheTyped DEF TypingHolds

(* On a screen of every size the fields are the runs of protected and of   *)
(* open cells, typing changes the cells of one open field and leaves the   *)
(* cursor in it, and an action key sends, in their order, just the fields  *)
(* that were typed in since the host last wrote, each with all its text.   *)
THEOREM TypingKept ==
    ASSUME Parameters PROVE Spec => TypingIsKept
<1>1. Init => TypingInv
  BY InitTyping
<1>2. TypingInv /\ [Next]_vars => TypingInv'
  BY NextTyping
<1>3. TypingInv => TypingHolds
  BY TypingHolding
<1> QED
  BY <1>1, <1>2, <1>3, PTL
     DEF Spec, TypingIsKept, TypingStaysInField, TypedIsSent, SentRight, TypingHolds

-----------------------------------------------------------------------------
(* In a session.                                                           *)

LEMMA NextInSession == ASSUME Parameters, TypingInv, [SessionNext]_sessionVars PROVE TypingInv'
<1>1. CASE Next
  BY <1>1, NextTyping
<1>2. CASE UNCHANGED <<screen, typed>>
  BY <1>2 DEF TypingInv, Cover, FlagsAreTyped
<1> QED
  BY <1>1, <1>2 DEF SessionNext, sessionVars

(* In a session of any protocol, on a 6530 of any size: the fields are the *)
(* runs of protected and of open cells, typing changes the cells of one    *)
(* open field and leaves the cursor in it, and an action key sends, in     *)
(* their order, just the fields that were typed in since the host last     *)
(* wrote, each with all its text.                                          *)
THEOREM SessionTypingKept == SessionSpec => TypingIsKept
<1>1. SessionInit => TypingInv
  BY TerminalsAssumption, InitTyping DEF SessionInit
<1>2. TypingInv /\ [SessionNext]_sessionVars => TypingInv'
  BY TerminalsAssumption, NextInSession
<1>3. TypingInv => TypingHolds
  BY TerminalsAssumption, TypingHolding
<1> QED
  BY <1>1, <1>2, <1>3, PTL
     DEF SessionSpec, TypingIsKept, TypingStaysInField, TypedIsSent, SentRight, TypingHolds
=============================================================================
