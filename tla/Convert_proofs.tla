---------------------------- MODULE Convert_proofs ----------------------------
(***************************************************************************)
(* The draft head of every plan has the best rows, a checkpoint that       *)
(* passes the validation is refused afterwards only for a weight that is   *)
(* not finite, no such weight is ever installed, and the kernels find      *)
(* every code and scale of an installed artifact: for every model,         *)
(* checkpoint, ranking and tile, any number of shards, and a directory     *)
(* that may be replaced at any moment.                                     *)
(***************************************************************************)
EXTENDS Convert, FiniteSetTheorems, FunctionTheorems, SequenceTheorems,
        WellFoundedInduction, TLAPS

------------------------------------------------------------------------------
(* Sorting.  Every two tokens are ordered, so a row's place is the number  *)
(* of rows before it.                                                      *)

Token == 0..Tokens - 1
Rankings == [Token -> Int]

LEMMA BetterOrders ==
  ASSUME NEW counts \in Rankings
  PROVE  /\ \A a \in Token : ~better(counts, a, a)
         /\ \A a, b \in Token : a # b => better(counts, a, b) \/ better(counts, b, a)
         /\ \A a, b \in Token : ~(better(counts, a, b) /\ better(counts, b, a))
         /\ \A a, b, c \in Token :
              better(counts, a, b) /\ better(counts, b, c) => better(counts, a, c)
<1>1. \A a \in Token : counts[a] \in Int /\ a \in Int
  BY DEF Rankings, Token
<1> QED
  BY <1>1 DEF better

Distinct(rows) == \A i, j \in DOMAIN rows : rows[i] = rows[j] => i = j
Before(rows, counts, i) == {j \in DOMAIN rows : better(counts, rows[j], rows[i])}
Place(rows, counts, i) == Cardinality(Before(rows, counts, i))

(* Fewer rows are before a better one.                                     *)
LEMMA PlaceOrders ==
  ASSUME NEW counts \in Rankings, NEW n \in Nat, NEW rows \in [1..n -> Token],
         NEW i \in 1..n, NEW j \in 1..n
  PROVE  /\ Place(rows, counts, i) \in 0..n - 1
         /\ better(counts, rows[i], rows[j]) => Place(rows, counts, i) < Place(rows, counts, j)
<1> DEFINE B(k) == Before(rows, counts, k)
<1>1. IsFiniteSet(1..n) /\ Cardinality(1..n) = n
  BY FS_Interval
<1>2. B(i) \subseteq 1..n /\ B(j) \subseteq 1..n /\ i \notin B(i) /\ j \notin B(j)
  BY BetterOrders DEF Before
<1>3. IsFiniteSet(B(i)) /\ IsFiniteSet(B(j))
  BY <1>1, <1>2, FS_Subset
<1>4. Cardinality(B(i)) \in Nat /\ Cardinality(B(j)) \in Nat
  BY <1>3, FS_CardinalityType
<1>5. Cardinality(B(i)) <= n - 1
  <2>1. B(i) \in SUBSET ((1..n) \ {i})
    BY <1>2
  <2>2. IsFiniteSet((1..n) \ {i}) /\ Cardinality((1..n) \ {i}) = n - 1
    BY <1>1, FS_RemoveElement
  <2> QED
    BY <2>1, <2>2, FS_Subset
<1>6. ASSUME better(counts, rows[i], rows[j])
      PROVE  Cardinality(B(i)) < Cardinality(B(j))
  <2>1. B(i) \in SUBSET B(j)
    BY <1>6, BetterOrders DEF Before
  <2>2. i \in B(j)
    BY <1>6 DEF Before
  <2>3. Cardinality(B(i)) <= Cardinality(B(j)) /\ Cardinality(B(i)) # Cardinality(B(j))
    BY <1>2, <1>3, <2>1, <2>2, FS_Subset
  <2> QED
    BY <1>4, <2>3
<1> QED
  BY <1>4, <1>5, <1>6 DEF Place

LEMMA Sorted ==
  ASSUME NEW counts \in Rankings, NEW n \in Nat, NEW rows \in [1..n -> Token], Distinct(rows)
  PROVE  /\ sorted(rows, counts) \in [1..n -> Token]
         /\ \A i, j \in 1..n :
              i < j => better(counts, sorted(rows, counts)[i], sorted(rows, counts)[j])
         /\ \A i \in 1..n : \E j \in 1..n : sorted(rows, counts)[i] = rows[j]
         /\ \A j \in 1..n : \E i \in 1..n : sorted(rows, counts)[i] = rows[j]
<1> DEFINE place == [i \in 1..n |-> Place(rows, counts, i) + 1]
           at(m) == CHOOSE i \in 1..n : Cardinality(Before(rows, counts, i)) = m - 1
           s == sorted(rows, counts)
<1>1. \A i \in 1..n : Place(rows, counts, i) \in 0..n - 1
  BY PlaceOrders
<1>2. place \in [1..n -> 1..n]
  BY <1>1
<1>3. \A i, j \in 1..n : place[i] = place[j] => i = j
  <2> SUFFICES ASSUME NEW i \in 1..n, NEW j \in 1..n, i # j PROVE place[i] # place[j]
    OBVIOUS
  <2>1. rows[i] # rows[j] /\ rows[i] \in Token /\ rows[j] \in Token
    BY DEF Distinct
  <2>2. better(counts, rows[i], rows[j]) \/ better(counts, rows[j], rows[i])
    BY <2>1, BetterOrders
  <2>3. Place(rows, counts, i) # Place(rows, counts, j)
    BY <1>1, <2>2, PlaceOrders
  <2> QED
    BY <1>1, <2>3
<1> HIDE DEF place
<1>4. place \in Injection(1..n, 1..n)
  BY <1>2, <1>3, Fun_IsInj
<1>5. IsFiniteSet(1..n)
  BY FS_Interval
<1>6. place \in Surjection(1..n, 1..n)
  BY <1>4, <1>5, FS_Injection
<1>7. \A m \in 1..n : \E i \in 1..n : place[i] = m
  BY <1>6 DEF Surjection
<1>8. \A m \in 1..n : \E i \in 1..n : Cardinality(Before(rows, counts, i)) = m - 1
  <2> SUFFICES ASSUME NEW m \in 1..n PROVE \E i \in 1..n : Place(rows, counts, i) = m - 1
    BY DEF Place
  <2>1. PICK i \in 1..n : place[i] = m
    BY <1>7
  <2> QED
    BY SMTT(30), <1>1, <2>1 DEF place
<1>9. \A m \in 1..n : at(m) \in 1..n /\ Place(rows, counts, at(m)) = m - 1
  BY <1>8 DEF Place
<1>10. s = [m \in 1..n |-> rows[at(m)]]
  BY DEF sorted, Before
<1> HIDE DEF at, s
<1>11. s \in [1..n -> Token] /\ \A i \in 1..n : \E j \in 1..n : s[i] = rows[j]
  BY <1>9, <1>10
<1>12. ASSUME NEW i \in 1..n, NEW j \in 1..n, i < j
       PROVE  better(counts, s[i], s[j])
  <2>1. Place(rows, counts, at(i)) = i - 1 /\ Place(rows, counts, at(j)) = j - 1
        /\ at(i) \in 1..n /\ at(j) \in 1..n
    BY <1>9
  <2>2. at(i) # at(j)
    BY <1>12, <2>1
  <2>3. ~better(counts, rows[at(j)], rows[at(i)])
    <3>1. better(counts, rows[at(j)], rows[at(i)]) =>
            Place(rows, counts, at(j)) < Place(rows, counts, at(i))
      BY <2>1, PlaceOrders
    <3>2. Place(rows, counts, at(i)) < Place(rows, counts, at(j))
          /\ Place(rows, counts, at(i)) \in Int /\ Place(rows, counts, at(j)) \in Int
      BY <1>12, <2>1
    <3> QED
      BY <3>1, <3>2
  <2>4. rows[at(i)] # rows[at(j)] /\ rows[at(i)] \in Token /\ rows[at(j)] \in Token
    BY <2>1, <2>2 DEF Distinct
  <2>5. better(counts, rows[at(i)], rows[at(j)])
    BY <2>3, <2>4, BetterOrders
  <2> QED
    BY <1>10, <2>5
<1>13. ASSUME NEW j \in 1..n
       PROVE  \E i \in 1..n : s[i] = rows[j]
  <2>1. place[j] \in 1..n /\ place[j] - 1 = Place(rows, counts, j)
    BY <1>1, <1>2 DEF place
  <2>2. at(place[j]) \in 1..n /\ Place(rows, counts, at(place[j])) = Place(rows, counts, j)
    BY <1>9, <2>1
  <2>3. place[at(place[j])] = place[j]
    BY <2>2 DEF place
  <2>4. at(place[j]) = j
    BY <1>3, <2>2, <2>3
  <2> QED
    BY <1>10, <2>1, <2>4
<1> QED
  BY <1>11, <1>12, <1>13 DEF s

------------------------------------------------------------------------------
(* Folds.  FoldLeft takes the greatest index of a set away until none is   *)
(* left; on 1..k that is k.                                                *)

LEMMA LeastOf ==
  ASSUME NEW T, T \subseteq Nat, T # {}
  PROVE  \E x \in T : \A y \in T : x <= y
<1>1. PICK x \in T : \A y \in T : <<y, x>> \notin OpToRel(<, Nat)
  BY NatLessThanWellFounded, WFMin
<1>2. \A y \in T : ~(y < x)
  BY <1>1 DEF OpToRel
<1> QED
  BY <1>2

LEMMA Upwards ==
  ASSUME NEW m \in Nat, NEW G, 0 \in G, \A n \in G : n < m => n + 1 \in G
  PROVE  0..m \subseteq G
<1> SUFFICES ASSUME (0..m) \ G # {} PROVE FALSE
  OBVIOUS
<1>1. PICK n \in (0..m) \ G : \A x \in (0..m) \ G : n <= x
  <2>1. (0..m) \ G \subseteq Nat
    OBVIOUS
  <2> QED
    BY <2>1, LeastOf, Zenon
<1>2. n - 1 \in 0..m /\ n - 1 < m
  BY <1>1
<1>3. n - 1 \in G
  BY <1>1, <1>2
<1>4. (n - 1) + 1 \in G
  BY <1>2, <1>3
<1> QED
  BY <1>1, <1>4

LEMMA GreatestOf ==
  ASSUME NEW k \in Nat, NEW s \in SUBSET (1..k), k \in s
  PROVE  Max(s) = k
<1>1. \A y \in s : k >= y
  OBVIOUS
<1>2. \E x \in s : \A y \in s : x >= y
  BY <1>1
<1>3. Max(s) \in s /\ \A y \in s : Max(s) >= y
  BY <1>2 DEF Max
<1>4. Max(s) \in 1..k /\ Max(s) >= k
  BY <1>3
<1> QED
  BY <1>4

LEMMA GreatestExists ==
  ASSUME NEW k \in Nat, NEW s \in SUBSET (0..k), s # {}
  PROVE  Max(s) \in s /\ \A y \in s : Max(s) >= y
<1> DEFINE T == {k - x : x \in s}
<1>1. T \subseteq Nat /\ T # {}
  <2>1. \A x \in s : x \in 0..k
    OBVIOUS
  <2>2. \A x \in s : k - x \in Nat
    BY <2>1
  <2> QED
    BY <2>2
<1> HIDE DEF T
<1>2. PICK x \in T : \A y \in T : x <= y
  BY <1>1, LeastOf, Zenon
<1>3. PICK z \in s : x = k - z
  BY <1>2 DEF T
<1>4. \A y \in s : z >= y
  <2> SUFFICES ASSUME NEW y \in s PROVE z >= y
    OBVIOUS
  <2>1. k - z <= k - y
    BY <1>2, <1>3 DEF T
  <2> QED
    BY <2>1
<1>5. \E x2 \in s : \A y \in s : x2 >= y
  BY <1>4
<1> QED
  BY <1>5 DEF Max

LEMMA FirstOnes ==
  ASSUME NEW k \in Nat
  PROVE  /\ 1..k + 1 # {} /\ 1..0 = {} /\ Max(1..k + 1) = k + 1
         /\ (1..k + 1) \ {k + 1} = 1..k
<1>1. k + 1 \in 1..k + 1 /\ k + 1 \in Nat /\ 1..k + 1 \in SUBSET (1..k + 1)
  OBVIOUS
<1>2. Max(1..k + 1) = k + 1
  BY <1>1, GreatestOf
<1>3. \A i : i \in (1..k + 1) \ {k + 1} <=> i \in 1..k
  OBVIOUS
<1>4. (1..k + 1) \ {k + 1} = 1..k
  BY <1>3
<1>5. 1..0 = {}
  OBVIOUS
<1> QED
  BY <1>1, <1>2, <1>4, <1>5

(* A step of a fold as a function, on states of X and indices.             *)
Folds(f, X, m, base, F) ==
  /\ f \in [SUBSET (1..m) -> X]
  /\ \A s \in SUBSET (1..m) :
       f[s] = IF s = {} THEN base ELSE F[<<f[s \ {Max(s)}], Max(s)>>]

LEMMA FoldExists ==
  ASSUME NEW X, NEW n \in Nat, NEW base \in X, NEW F \in [X \X (1..n) -> X]
  PROVE  \E f : Folds(f, X, n, base, F)
<1> DEFINE G == {m \in 0..n : \E f : Folds(f, X, m, base, F)}
<1>1. 0 \in G
  <2> DEFINE f == [s \in SUBSET (1..0) |-> base]
  <2>1. f \in [SUBSET (1..0) -> X] /\ \A s \in SUBSET (1..0) : s = {} /\ f[s] = base
    OBVIOUS
  <2>2. Folds(f, X, 0, base, F)
    BY <2>1 DEF Folds
  <2> QED
    BY <2>2
<1>2. ASSUME NEW m \in G, m < n
      PROVE  m + 1 \in G
  <2>1. PICK f : Folds(f, X, m, base, F)
    OBVIOUS
  <2>2. m \in Nat /\ m + 1 \in 1..n /\ m + 1 \in Nat /\ m + 1 \in 0..n
    BY <1>2
  <2> DEFINE S == SUBSET (1..m + 1)
             g == [s \in S |-> IF m + 1 \in s THEN F[<<f[s \ {m + 1}], m + 1>>] ELSE f[s]]
  <2>3. \A s \in S : /\ s \ {m + 1} \in SUBSET (1..m)
                     /\ m + 1 \notin s => s \in SUBSET (1..m)
    BY <2>2
  <2>4. \A s \in SUBSET (1..m) : f[s] \in X /\ s \in S /\ m + 1 \notin s
    BY <2>1, <2>2 DEF Folds
  <2>5. g \in [S -> X]
    <3> SUFFICES ASSUME NEW s \in S PROVE g[s] \in X
      OBVIOUS
    <3>1. f[s \ {m + 1}] \in X /\ (m + 1 \notin s => f[s] \in X)
      BY <2>3, <2>4
    <3>2. <<f[s \ {m + 1}], m + 1>> \in X \X (1..n)
      BY <2>2, <3>1
    <3>3. F[<<f[s \ {m + 1}], m + 1>>] \in X
      BY <3>2
    <3> QED
      BY <3>1, <3>3
  <2>6. ASSUME NEW s \in S
        PROVE  g[s] = IF s = {} THEN base ELSE F[<<g[s \ {Max(s)}], Max(s)>>]
    <3>1. CASE m + 1 \in s
      <4>1. Max(s) = m + 1 /\ s # {}
        BY <2>2, <3>1, GreatestOf
      <4>2. g[s \ {m + 1}] = f[s \ {m + 1}]
        BY <2>3, <2>4
      <4> QED
        BY <3>1, <4>1, <4>2
    <3>2. CASE m + 1 \notin s
      <4>1. s \in SUBSET (1..m) /\ g[s] = f[s]
        BY <2>3, <3>2
      <4>2. s \ {Max(s)} \in SUBSET (1..m)
        BY <4>1
      <4>3. g[s \ {Max(s)}] = f[s \ {Max(s)}]
        BY <2>4, <4>2
      <4>4. f[s] = IF s = {} THEN base ELSE F[<<f[s \ {Max(s)}], Max(s)>>]
        BY <2>1, <4>1 DEF Folds
      <4> QED
        BY <4>1, <4>3, <4>4
    <3> QED
      BY <3>1, <3>2
  <2>7. Folds(g, X, m + 1, base, F)
    BY <2>5, <2>6 DEF Folds
  <2> QED
    BY <2>2, <2>7
<1>3. 0..n \subseteq G
  <2> HIDE DEF G
  <2> QED
    BY <1>1, <1>2, Upwards
<1> QED
  BY <1>3

------------------------------------------------------------------------------
(* The rows of the draft head *)

States == [rows : [1..DraftRows -> Token], replacement : 0..DraftRows]
NextPlace(rows, r) == Max({0} \cup {n \in 1..r : rows[n] \notin Range(Specials)})
Replaced(ranked_rows, state, token) ==
  IF token \in Range(ranked_rows) THEN state
  ELSE LET n == NextPlace(state.rows, state.replacement)
       IN [rows |-> IF n = 0 THEN state.rows ELSE [state.rows EXCEPT ![n] = token],
           replacement |-> IF n = 0 THEN 0 ELSE n - 1]

LEMMA SpecialFacts ==
  /\ DraftRows \in Nat /\ Tokens \in Nat /\ DraftRows <= Tokens
  /\ Len(Specials) \in Nat /\ Len(Specials) <= DraftRows /\ DOMAIN Specials = 1..Len(Specials)
  /\ \A i \in 1..Len(Specials) : Specials[i] \in Token
  /\ \A i, j \in 1..Len(Specials) : i # j => Specials[i] # Specials[j]
  /\ \A t : t \in Range(Specials) <=> \E i \in 1..Len(Specials) : Specials[i] = t
  /\ Range(Specials) \subseteq Token
<1>1. /\ DraftRows \in Nat /\ Tokens \in Nat /\ DraftRows <= Tokens
      /\ Specials \in Seq(0..Tokens - 1) /\ Len(Specials) <= DraftRows
      /\ \A i, j \in DOMAIN Specials : i < j => Specials[i] < Specials[j]
  BY ConvertAssumption
<1>2. /\ Len(Specials) \in Nat /\ DOMAIN Specials = 1..Len(Specials)
      /\ \A i \in 1..Len(Specials) : Specials[i] \in Token
  BY <1>1, LenProperties, ElementOfSeq DEF Token
<1>3. \A i, j \in 1..Len(Specials) : i # j => Specials[i] # Specials[j]
  <2> SUFFICES ASSUME NEW i \in 1..Len(Specials), NEW j \in 1..Len(Specials), i < j
               PROVE  Specials[i] # Specials[j]
    BY <1>2
  <2>1. Specials[i] < Specials[j] /\ Specials[i] \in Int /\ Specials[j] \in Int
    BY SMTT(30), <1>1, <1>2 DEF Token
  <2> QED
    BY <2>1
<1> QED
  BY <1>1, <1>2, <1>3 DEF Range

LEMMA ReplacedType ==
  ASSUME NEW ranked_rows, NEW state \in States, NEW token \in Token
  PROVE  /\ Replaced(ranked_rows, state, token) \in States
         /\ LET n == NextPlace(state.rows, state.replacement) IN
              /\ n \in 0..state.replacement
              /\ n # 0 => state.rows[n] \notin Range(Specials)
              /\ \A m \in 1..state.replacement : m > n => state.rows[m] \in Range(Specials)
<1> DEFINE T == {0} \cup {n \in 1..state.replacement : state.rows[n] \notin Range(Specials)}
           n == NextPlace(state.rows, state.replacement)
<1>1. /\ state.replacement \in 0..DraftRows /\ state.rows \in [1..DraftRows -> Token]
      /\ DraftRows \in Nat
  BY SpecialFacts DEF States
<1>2. T \in SUBSET (0..state.replacement) /\ T # {} /\ state.replacement \in Nat
  BY <1>1
<1>3. n = Max(T)
  BY DEF NextPlace
<1> HIDE DEF n
<1>4. n \in T /\ \A y \in T : n >= y
  <2> HIDE DEF T
  <2> QED
    BY <1>2, <1>3, GreatestExists
<1>5. /\ n \in 0..state.replacement
      /\ n # 0 => state.rows[n] \notin Range(Specials)
  BY <1>1, <1>4
<1>6. ASSUME NEW m \in 1..state.replacement, m > n
      PROVE  state.rows[m] \in Range(Specials)
  <2>1. m \notin T
    BY <1>1, <1>4, <1>5, <1>6
  <2> QED
    BY <2>1
<1>7. Replaced(ranked_rows, state, token) \in States
  <2>1. [state.rows EXCEPT ![n] = token] \in [1..DraftRows -> Token]
    BY <1>1
  <2>2. n # 0 => n - 1 \in 0..DraftRows
    BY <1>1, <1>5
  <2>3. 0 \in 0..DraftRows
    BY <1>1
  <2> QED
    BY <1>1, <2>1, <2>2, <2>3 DEF Replaced, States, n
<1> QED
  BY <1>5, <1>6, <1>7 DEF n

First(ranked_rows) == [rows |-> ranked_rows, replacement |-> Len(ranked_rows)]
Replacing(ranked_rows, f) ==
  f = [s \in SUBSET DOMAIN Specials |->
         IF s = {} THEN First(ranked_rows)
         ELSE Replaced(ranked_rows, f[s \ {Max(s)}], Specials[Max(s)])]

(* The loop over the special tokens, one step at a time.                   *)
LEMMA ReplaceSteps ==
  ASSUME NEW ranked_rows, First(ranked_rows) \in States
  PROVE  \E g : /\ g \in [0..Len(Specials) -> States]
                /\ g[0] = First(ranked_rows)
                /\ \A k \in 0..Len(Specials) - 1 :
                     g[k + 1] = Replaced(ranked_rows, g[k], Specials[k + 1])
                /\ replace_rows(ranked_rows) = g[Len(Specials)].rows
<1> DEFINE m == Len(Specials)
           F == [p \in States \X (1..m) |-> Replaced(ranked_rows, p[1], Specials[p[2]])]
           f == CHOOSE x : Replacing(ranked_rows, x)
           g == [k \in 0..m |-> f[1..k]]
<1>1. m \in Nat /\ DOMAIN Specials = 1..m /\ \A i \in 1..m : Specials[i] \in Token
  BY SpecialFacts
<1>2. F \in [States \X (1..m) -> States]
  <2>1. \A p \in States \X (1..m) : p[1] \in States /\ Specials[p[2]] \in Token
    BY <1>1
  <2> QED
    BY <2>1, ReplacedType
<1>3. \A st \in States, i \in 1..m : F[<<st, i>>] = Replaced(ranked_rows, st, Specials[i])
  OBVIOUS
<1> HIDE DEF F
<1>4. PICK h : Folds(h, States, m, First(ranked_rows), F)
  BY <1>1, <1>2, FoldExists
<1>5. Replacing(ranked_rows, h)
  <2>1. h \in [SUBSET DOMAIN Specials -> States]
    BY <1>1, <1>4 DEF Folds
  <2>2. ASSUME NEW s \in SUBSET DOMAIN Specials
        PROVE  h[s] = IF s = {} THEN First(ranked_rows)
                      ELSE Replaced(ranked_rows, h[s \ {Max(s)}], Specials[Max(s)])
    <3>1. h[s] = IF s = {} THEN First(ranked_rows) ELSE F[<<h[s \ {Max(s)}], Max(s)>>]
      BY <1>1, <1>4 DEF Folds
    <3>2. CASE s # {}
      <4>1. s \in SUBSET (0..m)
        BY <1>1
      <4>2. Max(s) \in s
        BY <1>1, <3>2, <4>1, GreatestExists
      <4>3. Max(s) \in 1..m /\ h[s \ {Max(s)}] \in States
        BY <1>1, <2>1, <4>2
      <4> QED
        BY <1>3, <3>1, <3>2, <4>3
    <3>3. CASE s = {}
      BY <3>1, <3>3
    <3> QED
      BY <3>2, <3>3
  <2> QED
    BY <2>1, <2>2 DEF Replacing
<1>6. Replacing(ranked_rows, f)
  BY <1>5
<1>7. replace_rows(ranked_rows) = f[1..m].rows
  BY <1>1 DEF replace_rows, FoldLeft, MapThenFoldSet, Replacing, Replaced, NextPlace, First
<1> HIDE DEF f
<1>8. f[1..0] = First(ranked_rows)
  <2>1. 1..0 = {} /\ 1..0 \in SUBSET DOMAIN Specials
    BY <1>1
  <2> QED
    BY <1>6, <2>1 DEF Replacing
<1>9. ASSUME NEW k \in 0..m - 1
      PROVE  f[1..k + 1] = Replaced(ranked_rows, f[1..k], Specials[k + 1])
  <2>1. k \in Nat /\ 1..k + 1 \in SUBSET DOMAIN Specials
    BY <1>1
  <2>2. 1..k + 1 # {} /\ Max(1..k + 1) = k + 1 /\ (1..k + 1) \ {k + 1} = 1..k
    BY <2>1, FirstOnes
  <2> DEFINE s == 1..k + 1
  <2>3. f[s] = IF s = {} THEN First(ranked_rows)
               ELSE Replaced(ranked_rows, f[s \ {Max(s)}], Specials[Max(s)])
    BY <1>6, <2>1 DEF Replacing
  <2> QED
    BY <2>2, <2>3
<1> DEFINE G == {k \in 0..m : f[1..k] \in States}
<1>10. 0..m \subseteq G
  <2>1. 0 \in G
    BY <1>1, <1>8
  <2>2. ASSUME NEW k \in G, k < m PROVE k + 1 \in G
    <3>1. k \in 0..m - 1 /\ k + 1 \in 1..m /\ k + 1 \in 0..m
      BY <1>1, <2>2
    <3>2. Specials[k + 1] \in Token /\ f[1..k] \in States
      BY <1>1, <3>1
    <3>3. Replaced(ranked_rows, f[1..k], Specials[k + 1]) \in States
      BY <3>2, ReplacedType
    <3>4. f[1..k + 1] \in States
      BY <1>9, <3>1, <3>3
    <3> QED
      BY <3>1, <3>4
  <2> HIDE DEF G
  <2> QED
    BY <1>1, <2>1, <2>2, Upwards
<1>11. g \in [0..m -> States]
  BY <1>10
<1>12. g[0] = First(ranked_rows) /\ 0 \in 0..m /\ m \in 0..m
  BY <1>1, <1>8
<1>13. \A k \in 0..m - 1 : g[k + 1] = Replaced(ranked_rows, g[k], Specials[k + 1])
  <2> SUFFICES ASSUME NEW k \in 0..m - 1
               PROVE  g[k + 1] = Replaced(ranked_rows, g[k], Specials[k + 1])
    OBVIOUS
  <2>1. k \in 0..m /\ k + 1 \in 0..m
    BY <1>1
  <2>2. g[k] = f[1..k] /\ g[k + 1] = f[1..k + 1]
    BY <2>1
  <2> QED
    BY <1>9, <2>2
<1>14. replace_rows(ranked_rows) = g[m].rows
  BY <1>7, <1>12
<1> HIDE DEF g
<1> QED
  BY <1>11, <1>12, <1>13, <1>14

(* The specials that have a row after k of them.                           *)
Handled(ranked_rows, k, t) ==
  t \in Range(Specials) /\ (t \in Range(ranked_rows) \/ \E i \in 1..k : Specials[i] = t)

(* Up to replacement nothing has changed; behind it are specials.          *)
Placing(ranked_rows, k, state) ==
  /\ \A n \in 1..DraftRows : n <= state.replacement => state.rows[n] = ranked_rows[n]
  /\ \A n \in 1..DraftRows : n > state.replacement => Handled(ranked_rows, k, state.rows[n])
  /\ \A i, j \in 1..DraftRows : state.rows[i] = state.rows[j] => i = j
  /\ \A t : Handled(ranked_rows, k, t) => \E n \in 1..DraftRows : state.rows[n] = t

(* There is a row for every special: the rows cannot all be other specials.*)
LEMMA RoomForSpecial ==
  ASSUME NEW rows \in [1..DraftRows -> Token], NEW token \in Range(Specials),
         \A i, j \in 1..DraftRows : rows[i] = rows[j] => i = j,
         \A n \in 1..DraftRows : rows[n] \in Range(Specials) \ {token}
  PROVE  FALSE
<1> DEFINE S == Range(Specials)
           m == Len(Specials)
<1>1. DraftRows \in Nat /\ m \in Nat /\ m <= DraftRows /\ DOMAIN Specials = 1..m
  BY SpecialFacts
<1>2. IsFiniteSet(1..m) /\ Cardinality(1..m) = m
      /\ IsFiniteSet(1..DraftRows) /\ Cardinality(1..DraftRows) = DraftRows
  <2>1. \A n \in Nat : IsFiniteSet(1..n) /\ Cardinality(1..n) = n
    <3>1. \A n \in Nat : (1 > n => n = 0) /\ n - 1 + 1 = n
      OBVIOUS
    <3> QED
      BY <3>1, FS_Interval
  <2> QED
    BY <1>1, <2>1, Zenon
<1>3. S = {Specials[i] : i \in 1..m}
  BY <1>1 DEF Range
<1>4. Specials \in Surjection(1..m, S)
  <2>1. Specials \in [1..m -> S]
    <3>1. Specials = [i \in 1..m |-> Specials[i]]
      BY <1>1, ConvertAssumption
    <3> QED
      BY <1>3, <3>1
  <2> QED
    BY <1>3, <2>1 DEF Surjection
<1>5. IsFiniteSet(S) /\ Cardinality(S) <= m
  BY <1>2, <1>4, FS_Surjection
<1>6. IsFiniteSet(S \ {token}) /\ Cardinality(S \ {token}) = Cardinality(S) - 1
  BY <1>5, FS_RemoveElement
<1>7. rows \in Injection(1..DraftRows, S \ {token})
  <2>1. rows \in [1..DraftRows -> S \ {token}]
    OBVIOUS
  <2> QED
    BY <2>1 DEF Injection, IsInjective
<1>8. Cardinality(1..DraftRows) <= Cardinality(S \ {token})
  BY <1>2, <1>6, <1>7, FS_Injection
<1>9. Cardinality(S) \in Nat
  BY <1>5, FS_CardinalityType
<1> QED
  BY <1>1, <1>2, <1>5, <1>6, <1>8, <1>9

LEMMA PlacingStep ==
  ASSUME NEW ranked_rows \in [1..DraftRows -> Token], NEW k \in 0..Len(Specials) - 1,
         NEW state \in States, Placing(ranked_rows, k, state)
  PROVE  Placing(ranked_rows, k + 1, Replaced(ranked_rows, state, Specials[k + 1]))
<1> DEFINE token == Specials[k + 1]
           n0 == NextPlace(state.rows, state.replacement)
           rows == state.rows
           new == [rows |-> [rows EXCEPT ![n0] = token], replacement |-> n0 - 1]
<1>1. /\ DraftRows \in Nat /\ k \in Nat /\ k + 1 \in 1..Len(Specials)
      /\ token \in Token /\ token \in Range(Specials) /\ Len(Specials) \in Nat
  <2>1. k \in Nat /\ k + 1 \in 1..Len(Specials) /\ Len(Specials) \in Nat
    BY SpecialFacts
  <2> QED
    BY <2>1, SpecialFacts
<1>2. rows \in [1..DraftRows -> Token] /\ state.replacement \in 0..DraftRows
  BY DEF States
<1>3. \A t : Handled(ranked_rows, k + 1, t) <=> Handled(ranked_rows, k, t) \/ t = token
  <2>1. \A i \in 1..k + 1 : i \in 1..k \/ i = k + 1
    BY <1>1
  <2>2. \A i \in 1..k : i \in 1..k + 1
    BY <1>1
  <2>3. k + 1 \in 1..k + 1
    BY <1>1
  <2> QED
    BY <1>1, <2>1, <2>2, <2>3 DEF Handled
<1>4. CASE token \in Range(ranked_rows)
  <2>1. Handled(ranked_rows, k, token)
    BY <1>1, <1>4 DEF Handled
  <2>2. Replaced(ranked_rows, state, token) = state
    BY <1>4 DEF Replaced
  <2>3. \A t : Handled(ranked_rows, k + 1, t) <=> Handled(ranked_rows, k, t)
    BY <1>3, <2>1
  <2> QED
    BY <2>2, <2>3 DEF Placing
<1>5. CASE token \notin Range(ranked_rows)
  <2>1. ~Handled(ranked_rows, k, token)
    <3>1. \A i \in 1..k : i \in 1..Len(Specials) /\ i # k + 1
      BY <1>1
    <3> QED
      BY <1>1, <1>5, <3>1, SpecialFacts DEF Handled
  <2>2. \A n \in 1..DraftRows : rows[n] # token
    <3>1. \A n \in 1..DraftRows : n <= state.replacement \/ n > state.replacement
      BY <1>1, <1>2
    <3>2. \A n \in 1..DraftRows : ranked_rows[n] \in Range(ranked_rows)
      BY DEF Range
    <3> QED
      BY <1>5, <2>1, <3>1, <3>2 DEF Placing
  <2>3. /\ n0 \in 0..state.replacement
        /\ n0 # 0 => rows[n0] \notin Range(Specials)
        /\ \A m \in 1..state.replacement : m > n0 => rows[m] \in Range(Specials)
    BY <1>1, ReplacedType
  <2> HIDE DEF n0
  <2>4. n0 # 0
    <3> SUFFICES ASSUME n0 = 0 PROVE FALSE
      OBVIOUS
    <3>1. \A n \in 1..DraftRows : rows[n] \in Range(Specials)
      <4> SUFFICES ASSUME NEW n \in 1..DraftRows PROVE rows[n] \in Range(Specials)
        OBVIOUS
      <4>1. CASE n <= state.replacement
        BY <1>2, <2>3, <4>1
      <4>2. CASE n > state.replacement
        BY <4>2 DEF Placing, Handled
      <4> QED
        BY <1>2, <4>1, <4>2
    <3>2. \A i, j \in 1..DraftRows : rows[i] = rows[j] => i = j
      BY DEF Placing
    <3> QED
      BY <1>1, <1>2, <2>2, <3>1, <3>2, RoomForSpecial
  <2>5. n0 \in 1..DraftRows /\ n0 <= state.replacement
    <3>1. state.replacement \in Int /\ 0 <= state.replacement /\ state.replacement <= DraftRows
      BY <1>1, <1>2
    <3>2. n0 \in Int /\ 0 <= n0 /\ n0 <= state.replacement
      BY <2>3, <3>1
    <3> HIDE DEF rows
    <3> QED
      BY <1>1, <2>4, <3>1, <3>2
  <2>6. Replaced(ranked_rows, state, token) = new
    BY <1>5, <2>4 DEF Replaced, n0
  <2>7. \A n \in 1..DraftRows : new.rows[n] = IF n = n0 THEN token ELSE rows[n]
    BY <1>2
  <2>8. \A n \in 1..DraftRows : n <= n0 - 1 => new.rows[n] = ranked_rows[n]
    <3> SUFFICES ASSUME NEW n \in 1..DraftRows, n <= n0 - 1 PROVE new.rows[n] = ranked_rows[n]
      OBVIOUS
    <3>1. n # n0 /\ n <= state.replacement
      BY <1>2, <2>5
    <3> QED
      BY <2>7, <3>1 DEF Placing
  <2>9. \A n \in 1..DraftRows : n > n0 - 1 => Handled(ranked_rows, k + 1, new.rows[n])
    <3> SUFFICES ASSUME NEW n \in 1..DraftRows, n > n0 - 1
                 PROVE  Handled(ranked_rows, k + 1, new.rows[n])
      OBVIOUS
    <3>1. CASE n = n0
      BY <1>3, <2>7, <3>1
    <3>2. CASE n # n0 /\ n <= state.replacement
      <4>1. n \in 1..state.replacement /\ n > n0
        BY <1>2, <2>5, <3>2
      <4>2. rows[n] \in Range(Specials)
        BY <2>3, <4>1
      <4>3. rows[n] = ranked_rows[n] /\ ranked_rows[n] \in Range(ranked_rows)
        BY <3>2 DEF Placing, Range
      <4> QED
        BY <2>7, <3>2, <4>2, <4>3 DEF Handled
    <3>3. CASE n # n0 /\ n > state.replacement
      <4>1. Handled(ranked_rows, k, rows[n])
        BY <3>3 DEF Placing
      <4> QED
        BY <1>3, <2>7, <3>3, <4>1
    <3> QED
      BY <1>2, <3>1, <3>2, <3>3
  <2>10. \A i, j \in 1..DraftRows : new.rows[i] = new.rows[j] => i = j
    BY <2>2, <2>7 DEF Placing
  <2>11. ASSUME NEW t, Handled(ranked_rows, k + 1, t)
         PROVE  \E n \in 1..DraftRows : new.rows[n] = t
    <3>1. CASE t = token
      BY <2>5, <2>7, <3>1
    <3>2. CASE t # token
      <4>1. PICK n \in 1..DraftRows : rows[n] = t
        BY <1>3, <2>11, <3>2 DEF Placing
      <4>2. n # n0
        BY <2>3, <2>4, <2>11, <4>1 DEF Handled
      <4> QED
        BY <2>7, <4>1, <4>2
    <3> QED
      BY <3>1, <3>2
  <2>12. new.replacement = n0 - 1
    OBVIOUS
  <2> HIDE DEF new, token
  <2>13. Placing(ranked_rows, k + 1, new)
    BY <2>8, <2>9, <2>10, <2>11, <2>12 DEF Placing
  <2> QED
    BY <2>6, <2>13 DEF token
<1> QED
  BY <1>4, <1>5

(* What replace_rows returns: the specials, and the first of the others.   *)
LEMMA RowsReplaced ==
  ASSUME NEW ranked_rows \in [1..DraftRows -> Token], Distinct(ranked_rows)
  PROVE  LET R == replace_rows(ranked_rows) IN
           /\ R \in [1..DraftRows -> Token] /\ Distinct(R)
           /\ \A t \in Range(Specials) : \E n \in 1..DraftRows : R[n] = t
           /\ \E last \in 0..DraftRows :
                /\ \A n \in 1..DraftRows : n <= last => R[n] = ranked_rows[n]
                /\ \A n \in 1..DraftRows : n > last => R[n] \in Range(Specials)
<1> DEFINE m == Len(Specials)
<1>1. DraftRows \in Nat /\ m \in Nat /\ DOMAIN Specials = 1..m
  BY SpecialFacts
<1>2. ranked_rows \in Seq(Token) /\ Len(ranked_rows) = DraftRows
  BY <1>1, IsASeq, LenProperties
<1>3. First(ranked_rows) \in States
  BY <1>1, <1>2 DEF First, States
<1>4. PICK g : /\ g \in [0..m -> States]
               /\ g[0] = First(ranked_rows)
               /\ \A k \in 0..m - 1 : g[k + 1] = Replaced(ranked_rows, g[k], Specials[k + 1])
               /\ replace_rows(ranked_rows) = g[m].rows
  BY <1>3, ReplaceSteps
<1>5. Placing(ranked_rows, 0, g[0])
  <2>1. g[0].rows = ranked_rows /\ g[0].replacement = DraftRows
    BY <1>2, <1>4 DEF First
  <2>2. \A n \in 1..DraftRows : ~(n > DraftRows)
    BY <1>1
  <2>3. \A i, j \in 1..DraftRows : ranked_rows[i] = ranked_rows[j] => i = j
    BY DEF Distinct
  <2>4. \A t : Handled(ranked_rows, 0, t) => \E n \in 1..DraftRows : ranked_rows[n] = t
    BY DEF Handled, Range
  <2> QED
    BY <2>1, <2>2, <2>3, <2>4 DEF Placing
<1> DEFINE G == {k \in 0..m : Placing(ranked_rows, k, g[k])}
<1>6. 0..m \subseteq G
  <2>1. 0 \in G
    BY <1>1, <1>5
  <2>2. ASSUME NEW k \in G, k < m PROVE k + 1 \in G
    <3>1. k \in 0..m - 1 /\ k \in 0..m /\ k + 1 \in 0..m
      BY <1>1, <2>2
    <3>2. g[k] \in States /\ Placing(ranked_rows, k, g[k])
      BY <1>4, <3>1
    <3>3. Placing(ranked_rows, k + 1, Replaced(ranked_rows, g[k], Specials[k + 1]))
      BY <3>1, <3>2, PlacingStep
    <3> QED
      BY <1>4, <3>1, <3>3
  <2> HIDE DEF G
  <2> QED
    BY <1>1, <2>1, <2>2, Upwards
<1> DEFINE R == replace_rows(ranked_rows)
           last == g[m].replacement
<1>7. m \in 0..m
  BY <1>1
<1>8. Placing(ranked_rows, m, g[m]) /\ g[m] \in States /\ R = g[m].rows
  BY <1>4, <1>6, <1>7
<1> HIDE DEF R
<1>9. R \in [1..DraftRows -> Token] /\ last \in 0..DraftRows
  BY <1>8 DEF States
<1>10. Distinct(R)
  BY <1>8, <1>9 DEF Distinct, Placing
<1>11. \A t \in Range(Specials) : \E n \in 1..DraftRows : R[n] = t
  <2> SUFFICES ASSUME NEW t \in Range(Specials) PROVE \E n \in 1..DraftRows : R[n] = t
    OBVIOUS
  <2>1. \E i \in 1..m : Specials[i] = t
    BY SpecialFacts
  <2>2. Handled(ranked_rows, m, t)
    BY <2>1 DEF Handled
  <2> QED
    BY <1>8, <2>2 DEF Placing
<1>12. /\ \A n \in 1..DraftRows : n <= last => R[n] = ranked_rows[n]
       /\ \A n \in 1..DraftRows : n > last => R[n] \in Range(Specials)
  BY <1>8 DEF Placing, Handled
<1> QED
  BY <1>9, <1>10, <1>11, <1>12 DEF R

(* What a draft head is made of.                                           *)
Best(rows, counts) ==
  /\ rows \in [1..DraftRows -> Token] /\ Distinct(rows)
  /\ Range(Specials) \subseteq Range(rows)
  /\ \A a \in Range(rows) \ Range(Specials), b \in Token \ Range(rows) : better(counts, a, b)
  /\ \A i, j \in 1..DraftRows : i < j => better(counts, rows[i], rows[j])

LEMMA SelectedRows ==
  ASSUME NEW counts \in Rankings
  PROVE  Best(select_draft_head_rows(counts), counts)
<1> DEFINE all == [n \in 1..Tokens |-> n - 1]
           s == sorted(all, counts)
           rr == SubSeq(s, 1, DraftRows)
           R == replace_rows(rr)
           T == sorted(R, counts)
<1>1. DraftRows \in Nat /\ Tokens \in Nat /\ DraftRows <= Tokens /\ Range(Specials) \subseteq Token
  BY SpecialFacts
<1>2. all \in [1..Tokens -> Token] /\ Distinct(all)
  <2>1. \A n \in 1..Tokens : n - 1 \in Token
    BY <1>1 DEF Token
  <2> QED
    BY <1>1, <2>1 DEF Distinct
<1>3. \A t \in Token : \E n \in 1..Tokens : all[n] = t
  <2> SUFFICES ASSUME NEW t \in Token PROVE \E n \in 1..Tokens : all[n] = t
    OBVIOUS
  <2>1. t + 1 \in 1..Tokens /\ (t + 1) - 1 = t
    BY <1>1 DEF Token
  <2> QED
    BY <2>1
<1> HIDE DEF all
<1>4. /\ s \in [1..Tokens -> Token]
      /\ \A i, j \in 1..Tokens : i < j => better(counts, s[i], s[j])
      /\ \A j \in 1..Tokens : \E i \in 1..Tokens : s[i] = all[j]
  BY <1>1, <1>2, Sorted
<1>5. \A t \in Token : \E i \in 1..Tokens : s[i] = t
  BY <1>3, <1>4
<1> HIDE DEF s
<1>6. rr \in [1..DraftRows -> Token] /\ \A n \in 1..DraftRows : rr[n] = s[n] /\ n \in 1..Tokens
  <2>1. \A n \in 1..DraftRows : n \in 1..Tokens
    BY <1>1
  <2>2. rr = [n \in 1..DraftRows |-> s[n]]
    <3>1. s \in Seq(Token) /\ Len(s) = Tokens
      BY <1>1, <1>4, IsASeq, LenProperties
    <3>2. Len(rr) = DraftRows /\ rr \in Seq(Token) /\ \A n \in 1..DraftRows : rr[n] = s[n]
      BY <1>1, <3>1, SubSeqProperties
    <3> QED
      BY <3>2, LenProperties
  <2> QED
    BY <1>4, <2>1, <2>2
<1>7. Distinct(rr)
  <2> SUFFICES ASSUME NEW i \in 1..DraftRows, NEW j \in 1..DraftRows, i < j
               PROVE  rr[i] # rr[j]
    BY <1>1, <1>6 DEF Distinct
  <2>1. better(counts, s[i], s[j]) /\ s[i] \in Token
    BY <1>4, <1>6
  <2> QED
    BY <1>6, <2>1, BetterOrders
<1> HIDE DEF rr
<1>8. /\ R \in [1..DraftRows -> Token] /\ Distinct(R)
      /\ \A t \in Range(Specials) : \E n \in 1..DraftRows : R[n] = t
  BY <1>6, <1>7, RowsReplaced
<1>9. PICK last \in 0..DraftRows :
        /\ \A n \in 1..DraftRows : n <= last => R[n] = rr[n]
        /\ \A n \in 1..DraftRows : n > last => R[n] \in Range(Specials)
  BY <1>6, <1>7, RowsReplaced
<1> HIDE DEF R
<1>10. /\ T \in [1..DraftRows -> Token]
       /\ \A i, j \in 1..DraftRows : i < j => better(counts, T[i], T[j])
       /\ \A i \in 1..DraftRows : \E j \in 1..DraftRows : T[i] = R[j]
       /\ \A j \in 1..DraftRows : \E i \in 1..DraftRows : T[i] = R[j]
  BY <1>1, <1>8, Sorted
<1>11. select_draft_head_rows(counts) = T
  BY DEF select_draft_head_rows, R, rr, s, all
<1> HIDE DEF T
<1>12. \A x : x \in Range(T) <=> \E n \in 1..DraftRows : R[n] = x
  BY ZenonT(30), <1>10 DEF Range
<1>13. Range(Specials) \subseteq Range(T)
  BY <1>8, <1>12
<1>14. Distinct(T)
  <2> SUFFICES ASSUME NEW i \in 1..DraftRows, NEW j \in 1..DraftRows, i < j
               PROVE  T[i] # T[j]
    BY <1>1, <1>10 DEF Distinct
  <2>1. better(counts, T[i], T[j]) /\ T[i] \in Token
    BY <1>10
  <2> QED
    BY <2>1, BetterOrders
<1>15. ASSUME NEW a \in Range(T) \ Range(Specials), NEW b \in Token \ Range(T)
       PROVE  better(counts, a, b)
  <2>1. PICK n \in 1..DraftRows : R[n] = a
    BY <1>12
  <2>2. n <= last /\ a = s[n] /\ n \in 1..Tokens
    <3>1. n <= last
      BY <1>9, <1>15, <2>1
    <3> QED
      BY <1>6, <1>9, <2>1, <3>1
  <2>3. PICK m \in 1..Tokens : s[m] = b
    BY <1>5
  <2>4. ~(m <= last)
    <3> SUFFICES ASSUME m <= last PROVE FALSE
      OBVIOUS
    <3>1. m \in 1..DraftRows
      BY <1>1
    <3>2. R[m] = b
      BY <1>6, <1>9, <2>3, <3>1
    <3> QED
      BY <1>12, <1>15, <3>1, <3>2
  <2>5. n < m
    BY <2>2, <2>4
  <2> QED
    BY <1>4, <2>2, <2>3, <2>5
<1> QED
  BY <1>10, <1>11, <1>13, <1>14, <1>15 DEF Best

------------------------------------------------------------------------------
(* The plan *)

(* What the items of a plan are.                                           *)
ResourceItem(r) == Other(r, "resource", <<>>, disk.resources[r])
DraftRowsOf == select_draft_head_rows(disk.ranking)
PlanItems ==
  {TensorItem(name) : name \in Range(ModelNames)}
  \cup (IF ranked(options) THEN {DraftItems(DraftRowsOf)[1], DraftItems(DraftRowsOf)[2]} ELSE {})
  \cup {ResourceItem(r) : r \in Range(Resources)}

LEMMA PairSeq == ASSUME NEW S, NEW x \in S, NEW y \in S PROVE <<x, y>> \in Seq(S)
OBVIOUS

LEMMA PlanIsOfItems == make_plan \in Seq(PlanItems)
<1> DEFINE a == [n \in DOMAIN ModelNames |-> TensorItem(ModelNames[n])]
           b == IF ranked(options) THEN DraftItems(DraftRowsOf) ELSE <<>>
           c == [n \in DOMAIN Resources |-> ResourceItem(Resources[n])]
<1>1. /\ DOMAIN ModelNames = 1..Len(ModelNames) /\ Len(ModelNames) \in Nat
      /\ DOMAIN Resources = 1..Len(Resources) /\ Len(Resources) \in Nat
  BY ConvertAssumption, LenProperties
<1>2. a \in Seq(PlanItems)
  <2>1. \A n \in 1..Len(ModelNames) : TensorItem(ModelNames[n]) \in PlanItems
    BY <1>1 DEF PlanItems, Range
  <2> QED
    BY <1>1, <2>1, IsASeq
<1>3. b \in Seq(PlanItems)
  <2>1. CASE ranked(options)
    <3>1. DraftItems(DraftRowsOf)[1] \in PlanItems /\ DraftItems(DraftRowsOf)[2] \in PlanItems
      BY <2>1 DEF PlanItems
    <3>2. b = <<DraftItems(DraftRowsOf)[1], DraftItems(DraftRowsOf)[2]>>
      BY <2>1 DEF DraftItems
    <3> HIDE DEF b
    <3>3. <<DraftItems(DraftRowsOf)[1], DraftItems(DraftRowsOf)[2]>> \in Seq(PlanItems)
      BY <3>1, PairSeq
    <3> QED
      BY <3>2, <3>3
  <2>2. CASE ~ranked(options)
    BY <2>2
  <2> QED
    BY <2>1, <2>2
<1>4. c \in Seq(PlanItems)
  <2>1. \A n \in 1..Len(Resources) : ResourceItem(Resources[n]) \in PlanItems
    BY <1>1 DEF PlanItems, Range
  <2> QED
    BY <1>1, <2>1, IsASeq
<1>5. make_plan = a \o b \o c
  BY DEF make_plan, ResourceItem, DraftRowsOf
<1> HIDE DEF a, b, c
<1> QED
  BY <1>2, <1>3, <1>4, <1>5, ConcatProperties

LEMMA ItemsOfPlan ==
  /\ Len(make_plan) \in Nat /\ DOMAIN make_plan = 1..Len(make_plan)
  /\ \A n \in DOMAIN make_plan : make_plan[n] \in PlanItems
BY PlanIsOfItems, LenProperties, ElementOfSeq

(* The ranking the rows were chosen from is the one of the directory for   *)
(* as long as nobody replaces it.                                          *)
RowsOf(p) ==
  p.kind = "draft_head" =>
    \E counts \in Rankings : /\ Best(p.selected_rows, counts)
                             /\ ~changed => counts = disk.ranking
RowsInv ==
  /\ disk \in Disks \cup Replacements
  /\ \A n \in DOMAIN plan : RowsOf(plan[n])

LEMMA RankingsOf ==
  ASSUME disk \in Disks \cup Replacements, disk.ranking # NoRanking
  PROVE  disk.ranking \in Rankings
BY DisksAssumption DEF Rankings, Token

LEMMA PlannedRows ==
  ASSUME disk \in Disks \cup Replacements, ranked(options) => disk.ranking # NoRanking,
         NEW p \in PlanItems
  PROVE  RowsOf(p)
<1> SUFFICES ASSUME p.kind = "draft_head" PROVE RowsOf(p)
  BY DEF RowsOf
<1>1. ASSUME NEW name, p = TensorItem(name) PROVE FALSE
  BY <1>1 DEF TensorItem, Matrix, Other
<1>2. ASSUME NEW r, p = ResourceItem(r) PROVE FALSE
  BY <1>2 DEF ResourceItem, Other
<1>3. ranked(options) /\ p \in {DraftItems(DraftRowsOf)[1], DraftItems(DraftRowsOf)[2]}
  BY <1>1, <1>2 DEF PlanItems
<1>4. p.selected_rows = DraftRowsOf
  BY <1>3 DEF DraftItems, Matrix, Other
<1>5. disk.ranking \in Rankings
  BY <1>3, RankingsOf
<1>6. Best(p.selected_rows, disk.ranking)
  BY <1>4, <1>5, SelectedRows DEF DraftRowsOf
<1> QED
  BY <1>5, <1>6 DEF RowsOf

LEMMA RowsInitially == Init => RowsInv
BY DEF Init, RowsInv

LEMMA RowsPreserved == RowsInv /\ [Next]_vars => RowsInv'
<1> SUFFICES ASSUME RowsInv, [Next]_vars PROVE RowsInv'
  OBVIOUS
<1> USE DEF fileVars, sourceVars, writerVars
<1>1. CASE UNCHANGED vars \/ CheckOptions \/ Validate \/ LoadIndex \/ OpenShard \/ CreateWriter
           \/ WriteChunk \/ WriteWhole \/ WriteResource \/ Finalize \/ StatOutput
  <2>1. UNCHANGED <<disk, changed, plan>>
    BY <1>1 DEF vars, CheckOptions, Validate, LoadIndex, OpenShard, CreateWriter,
         WriteChunk, WriteWhole, WriteResource, Finalize, StatOutput
  <2> QED
    BY <2>1 DEF RowsInv, RowsOf
<1>2. CASE Replace
  <2>1. UNCHANGED plan /\ changed' /\ disk' \in Replacements
    BY <1>2 DEF Replace
  <2> QED
    BY <2>1 DEF RowsInv, RowsOf
<1>3. CASE MakePlan
  <2>1. UNCHANGED <<disk, changed>>
    BY <1>3 DEF MakePlan
  <2>2. plan' = plan \/ (plan' = make_plan /\ (ranked(options) => disk.ranking # NoRanking))
    BY <1>3 DEF MakePlan
  <2>3. CASE plan' = plan
    BY <2>1, <2>3 DEF RowsInv, RowsOf
  <2>4. CASE plan' = make_plan /\ (ranked(options) => disk.ranking # NoRanking)
    <3>1. \A n \in DOMAIN make_plan : RowsOf(make_plan[n])
      BY <2>4, ItemsOfPlan, PlannedRows DEF RowsInv
    <3> QED
      BY <2>1, <2>4, <3>1 DEF RowsInv, RowsOf
  <2> QED
    BY <2>2, <2>3, <2>4
<1> QED
  BY <1>1, <1>2, <1>3 DEF Next

LEMMA RowsAreBest == RowsInv => DraftRowsBest
<1> SUFFICES ASSUME RowsInv, NEW n \in DOMAIN plan, plan[n].kind = "draft_head"
             PROVE  LET rows == plan[n].selected_rows
                        taken == Range(rows)
                        out == (0..Tokens - 1) \ taken
                        others == taken \ Range(Specials)
                    IN /\ Cardinality(taken) = DraftRows /\ Range(Specials) \subseteq taken
                       /\ ~changed => \A a \in others, b \in out : better(disk.ranking, a, b)
                       /\ ~changed => \A i, j \in 1..DraftRows :
                                        i < j => better(disk.ranking, rows[i], rows[j])
  BY DEF DraftRowsBest
<1> DEFINE rows == plan[n].selected_rows
<1>1. PICK counts \in Rankings : Best(rows, counts) /\ (~changed => counts = disk.ranking)
  BY DEF RowsInv, RowsOf
<1>2. DraftRows \in Nat
  BY SpecialFacts
<1>3. Cardinality(Range(rows)) = DraftRows
  <2>1. IsFiniteSet(1..DraftRows) /\ Cardinality(1..DraftRows) = DraftRows
    <3>1. 1 > DraftRows => DraftRows = 0
      BY <1>2
    <3> QED
      BY <1>2, <3>1, FS_Interval
  <2>2. rows \in Bijection(1..DraftRows, Range(rows))
    <3>1. rows \in [1..DraftRows -> Token] /\ Distinct(rows)
      BY <1>1 DEF Best
    <3>2. rows \in [1..DraftRows -> Range(rows)]
      BY <3>1 DEF Range
    <3> QED
      BY <3>1, <3>2 DEF Bijection, Injection, IsInjective, Surjection, Distinct, Range
  <2> QED
    BY <2>1, <2>2, FS_Bijection DEF ExistsBijection
<1> QED
  BY <1>1, <1>3 DEF Best, Token

(* A draft head never has a token twice, has every special token, of the   *)
(* others none that is worse than one it leaves out, and the best first.   *)
(* (select_draft_head_rows, converter.cpp:121-178)                         *)
THEOREM DraftHeadIsBest == Spec => []DraftRowsBest
<1> QED
  BY RowsInitially, RowsPreserved, RowsAreBest, PTL DEF Spec

------------------------------------------------------------------------------
(* A valid source has every tensor *)

Summing(f, h) ==
  h = [s \in SUBSET DOMAIN f |-> IF s = {} THEN 0 ELSE h[s \ {Max(s)}] + f[Max(s)]]

LEMMA SumSteps ==
  ASSUME NEW n \in Nat, NEW f \in [1..n -> Nat]
  PROVE  \E g : /\ g \in [0..n -> Nat] /\ g[0] = 0
                /\ \A k \in 0..n - 1 : g[k + 1] = g[k] + f[k + 1]
                /\ Sum(f) = g[n]
<1> DEFINE F == [p \in Nat \X (1..n) |-> p[1] + f[p[2]]]
           h == CHOOSE x : Summing(f, x)
           g == [k \in 0..n |-> h[1..k]]
<1>1. F \in [Nat \X (1..n) -> Nat]
  OBVIOUS
<1>2. \A a \in Nat, i \in 1..n : F[<<a, i>>] = a + f[i]
  OBVIOUS
<1> HIDE DEF F
<1>3. PICK d : Folds(d, Nat, n, 0, F)
  BY <1>1, FoldExists
<1>4. Summing(f, d)
  <2>1. d \in [SUBSET DOMAIN f -> Nat]
    BY <1>3 DEF Folds
  <2>2. ASSUME NEW s \in SUBSET DOMAIN f
        PROVE  d[s] = IF s = {} THEN 0 ELSE d[s \ {Max(s)}] + f[Max(s)]
    <3>1. d[s] = IF s = {} THEN 0 ELSE F[<<d[s \ {Max(s)}], Max(s)>>]
      BY <1>3 DEF Folds
    <3>2. CASE s # {}
      <4>1. s \in SUBSET (0..n)
        OBVIOUS
      <4>2. Max(s) \in s
        BY <3>2, <4>1, GreatestExists
      <4>3. Max(s) \in 1..n /\ d[s \ {Max(s)}] \in Nat
        BY <2>1, <4>2
      <4> QED
        BY <1>2, <3>1, <3>2, <4>3
    <3>3. CASE s = {}
      BY <3>1, <3>3
    <3> QED
      BY <3>2, <3>3
  <2> QED
    BY <2>1, <2>2 DEF Summing
<1>5. Summing(f, h)
  BY <1>4
<1>6. Sum(f) = h[1..n]
  BY DEF Sum, FoldLeft, MapThenFoldSet, Summing
<1> HIDE DEF h
<1>7. h[1..0] = 0
  <2>1. 1..0 = {} /\ 1..0 \in SUBSET DOMAIN f
    OBVIOUS
  <2> QED
    BY <1>5, <2>1 DEF Summing
<1>8. ASSUME NEW k \in 0..n - 1 PROVE h[1..k + 1] = h[1..k] + f[k + 1]
  <2>1. k \in Nat /\ 1..k + 1 \in SUBSET DOMAIN f
    OBVIOUS
  <2>2. 1..k + 1 # {} /\ Max(1..k + 1) = k + 1 /\ (1..k + 1) \ {k + 1} = 1..k
    BY <2>1, FirstOnes
  <2> DEFINE s == 1..k + 1
  <2>3. h[s] = IF s = {} THEN 0 ELSE h[s \ {Max(s)}] + f[Max(s)]
    BY <1>5, <2>1 DEF Summing
  <2> QED
    BY <2>2, <2>3
<1> DEFINE G == {k \in 0..n : h[1..k] \in Nat}
<1>9. 0..n \subseteq G
  <2>1. 0 \in G
    BY <1>7
  <2>2. ASSUME NEW k \in G, k < n PROVE k + 1 \in G
    <3>1. k \in 0..n - 1 /\ k + 1 \in 1..n /\ k + 1 \in 0..n
      BY <2>2
    <3>2. f[k + 1] \in Nat /\ h[1..k] \in Nat
      BY <3>1
    <3>3. h[1..k + 1] \in Nat
      BY <1>8, <3>1, <3>2
    <3> QED
      BY <3>1, <3>3
  <2> HIDE DEF G
  <2> QED
    BY <2>1, <2>2, Upwards
<1>10. g \in [0..n -> Nat] /\ g[0] = 0 /\ Sum(f) = g[n]
  BY <1>6, <1>7, <1>9
<1>11. ASSUME NEW k \in 0..n - 1 PROVE g[k + 1] = g[k] + f[k + 1]
  <2>1. k \in 0..n /\ k + 1 \in 0..n
    OBVIOUS
  <2>2. g[k] = h[1..k] /\ g[k + 1] = h[1..k + 1]
    BY <2>1
  <2> QED
    BY <1>8, <2>2
<1> HIDE DEF g
<1> QED
  BY <1>10, <1>11

(* The sizes of sets that are apart add up to the size of their union.     *)
Sizes(P, n) == [i \in 1..n |-> Cardinality(P[i])]
All(P, n) == UNION {P[i] : i \in 1..n}

LEMMA PartsCounted ==
  ASSUME NEW n \in Nat, NEW P, \A i \in 1..n : IsFiniteSet(P[i]),
         \A i, j \in 1..n : i # j => P[i] \cap P[j] = {}
  PROVE  IsFiniteSet(All(P, n)) /\ Sum(Sizes(P, n)) = Cardinality(All(P, n))
<1> DEFINE f == Sizes(P, n)
           U(k) == All(P, k)
<1>1. f \in [1..n -> Nat] /\ \A i \in 1..n : f[i] = Cardinality(P[i])
  BY FS_CardinalityType DEF Sizes
<1> HIDE DEF f
<1>2. PICK g : /\ g \in [0..n -> Nat] /\ g[0] = 0
               /\ \A k \in 0..n - 1 : g[k + 1] = g[k] + f[k + 1]
               /\ Sum(f) = g[n]
  BY <1>1, SumSteps
<1> DEFINE G == {k \in 0..n : IsFiniteSet(U(k)) /\ g[k] = Cardinality(U(k))}
<1>3. 0 \in G
  <2>1. U(0) = {}
    BY DEF All
  <2> HIDE DEF U
  <2>2. IsFiniteSet(U(0)) /\ Cardinality(U(0)) = 0
    BY <2>1, FS_EmptySet
  <2> QED
    BY <1>2, <2>2
<1>4. ASSUME NEW k \in G, k < n PROVE k + 1 \in G
  <2>1. k \in 0..n - 1 /\ k + 1 \in 1..n /\ k + 1 \in 0..n /\ k \in Nat
    BY <1>4
  <2>2. U(k + 1) = U(k) \cup P[k + 1]
    <3>1. \A i : i \in 1..k + 1 <=> i \in 1..k \/ i = k + 1
      BY <2>1
    <3> QED
      BY <3>1 DEF All
  <2>3. U(k) \cap P[k + 1] = {}
    <3>1. \A i \in 1..k : i \in 1..n /\ i # k + 1
      BY <2>1
    <3> QED
      BY <2>1, <3>1 DEF All
  <2> HIDE DEF U
  <2>4. IsFiniteSet(U(k)) /\ Cardinality(U(k)) = g[k] /\ IsFiniteSet(P[k + 1])
    BY <2>1
  <2>5. /\ IsFiniteSet(U(k + 1))
        /\ Cardinality(U(k + 1)) = Cardinality(U(k)) + Cardinality(P[k + 1]) - Cardinality({})
    BY <2>2, <2>3, <2>4, FS_Union
  <2>6. Cardinality({}) = 0
    BY FS_EmptySet
  <2>7. Cardinality(P[k + 1]) \in Nat /\ Cardinality(U(k)) \in Nat
    BY <2>4, FS_CardinalityType
  <2>8. Cardinality(U(k + 1)) = g[k] + f[k + 1]
    BY <1>1, <2>1, <2>4, <2>5, <2>6, <2>7
  <2> QED
    BY <1>2, <2>1, <2>5, <2>8
<1>5. n \in G
  <2> HIDE DEF G
  <2>1. 0..n \subseteq G
    BY <1>3, <1>4, Upwards
  <2> QED
    BY <2>1
<1> QED
  BY <1>2, <1>5 DEF f

(* A set that SetToSeq lists.                                              *)
LEMMA Listed ==
  ASSUME NEW S, IsFiniteSet(S)
  PROVE  /\ Cardinality(S) \in Nat
         /\ SetToSeq(S) \in [1..Cardinality(S) -> S]
         /\ \A i, j \in 1..Cardinality(S) : SetToSeq(S)[i] = SetToSeq(S)[j] => i = j
         /\ \A x \in S : \E i \in 1..Cardinality(S) : SetToSeq(S)[i] = x
<1> DEFINE n == Cardinality(S)
           l == SetToSeq(S)
<1>1. n \in Nat /\ IsFiniteSet(1..n) /\ Cardinality(1..n) = n
  <2>1. n \in Nat
    BY FS_CardinalityType
  <2>2. 1 > n => n = 0
    BY <2>1
  <2> HIDE DEF n
  <2> QED
    BY <2>1, <2>2, FS_Interval
<1>2. \E f \in [1..n -> S] : IsInjective(f)
  <2>1. ExistsBijection(1..n, S)
    BY <1>1, FS_NatBijection, FS_CardinalityType
  <2> QED
    BY <2>1 DEF ExistsBijection, Bijection, Injection
<1>3. l \in [1..n -> S] /\ IsInjective(l)
  BY <1>2 DEF SetToSeq
<1>4. l \in Injection(1..n, S)
  BY <1>3 DEF Injection
<1>5. l \in Surjection(1..n, S)
  BY <1>1, <1>4, FS_Injection
<1> HIDE DEF l
<1> QED
  BY <1>1, <1>3, <1>5 DEF IsInjective, Surjection, l

(* The names of a shard without duplicates.                                *)
LEMMA NamesCounted ==
  ASSUME NEW file, file.tensors \in Seq(SourceTensors), shard_valid(file)
  PROVE  IsFiniteSet(names(file)) /\ Cardinality(names(file)) = Len(file.tensors)
<1> DEFINE n == Len(file.tensors)
           f == [i \in 1..n |-> file.tensors[i].name]
<1>1. n \in Nat /\ DOMAIN file.tensors = 1..n
  BY LenProperties
<1>2. \A i, j \in 1..n : i # j => file.tensors[i].name # file.tensors[j].name
  BY <1>1 DEF shard_valid
<1>3. names(file) = {f[i] : i \in 1..n}
  BY <1>1 DEF names, Range
<1>4. f \in Bijection(1..n, names(file))
  <2>1. f \in [1..n -> names(file)]
    BY <1>3
  <2> QED
    BY <1>2, <1>3, <2>1 DEF Bijection, Injection, IsInjective, Surjection
<1>5. IsFiniteSet(1..n) /\ Cardinality(1..n) = n
  <2>1. 1 > n => n = 0
    BY <1>1
  <2> HIDE DEF n
  <2> QED
    BY <1>1, <2>1, FS_Interval
<1> QED
  BY <1>4, <1>5, FS_Bijection DEF ExistsBijection

LEMMA ShardsFinite ==
  ASSUME NEW ind, ind.weight_map \in Seq(STRING \X STRING)
  PROVE  IsFiniteSet(shard_names(ind))
<1> DEFINE n == Len(ind.weight_map)
           f == [i \in 1..n |-> ind.weight_map[i][2]]
<1>1. n \in Nat /\ DOMAIN ind.weight_map = 1..n
  BY LenProperties
<1>2. shard_names(ind) = {f[i] : i \in 1..n}
  BY <1>1 DEF shard_names, Range
<1>3. f \in Surjection(1..n, shard_names(ind))
  BY <1>2 DEF Surjection
<1>4. IsFiniteSet(1..n)
  BY <1>1, FS_Interval
<1> QED
  BY <1>3, <1>4, FS_Surjection

(* A checkpoint with as many tensors as names, every one of which is of    *)
(* the names and in no two shards, has them all, where the index says.     *)
Holds(ind, files, name) ==
  LET map == weight_map(ind)
      t == find(files[map[name]], name)
  IN /\ name \in DOMAIN map /\ map[name] \in shard_names(ind) /\ map[name] \in DOMAIN files
     /\ name \in names(files[map[name]])
     /\ t \in Range(files[map[name]].tensors) /\ t.name = name
     /\ t.dtype = "bf16" /\ t.shape = Shape[name]

LEMMA SourceComplete ==
  ASSUME NEW ind, NEW files, ind.weight_map \in Seq(STRING \X STRING),
         \A s \in DOMAIN files : files[s].tensors \in Seq(SourceTensors),
         validate_qwen38_model_directory(ind, files),
         NEW name \in DOMAIN Shape
  PROVE  Holds(ind, files, name)
<1> DEFINE map == weight_map(ind)
           S == shard_names(ind)
           n == Cardinality(S)
           l == SetToSeq(S)
           P == [i \in 1..n |-> names(files[l[i]])]
           f == Sizes(P, n)
           U == All(P, n)
<1>1. /\ DOMAIN map = DOMAIN Shape
      /\ \A s \in S : /\ s \in DOMAIN files /\ shard_valid(files[s])
                      /\ \A t \in Range(files[s].tensors) : source_valid(map, s, t)
      /\ \A s, u \in S : s # u => names(files[s]) \cap names(files[u]) = {}
      /\ Sum([i \in DOMAIN l |-> Len(files[l[i]].tensors)]) = Cardinality(DOMAIN map)
  BY DEF validate_qwen38_model_directory, qwen38_source_tensor_names
<1>2. IsFiniteSet(S)
  BY ShardsFinite
<1>3. /\ n \in Nat /\ l \in [1..n -> S]
      /\ \A i, j \in 1..n : l[i] = l[j] => i = j
      /\ \A x \in S : \E i \in 1..n : l[i] = x
  BY <1>2, Listed
<1> HIDE DEF map, S, n, l
<1>4. \A s \in S : IsFiniteSet(names(files[s])) /\ Cardinality(names(files[s])) = Len(files[s].tensors)
  BY <1>1, NamesCounted
<1>5. \A i \in 1..n : IsFiniteSet(P[i]) /\ Cardinality(P[i]) = Len(files[l[i]].tensors)
  BY <1>3, <1>4
<1>6. \A i, j \in 1..n : i # j => P[i] \cap P[j] = {}
  <2> SUFFICES ASSUME NEW i \in 1..n, NEW j \in 1..n, i # j PROVE P[i] \cap P[j] = {}
    OBVIOUS
  <2>1. l[i] # l[j] /\ l[i] \in S /\ l[j] \in S
    BY <1>3
  <2> QED
    BY <1>1, <2>1
<1>7. f = [i \in DOMAIN l |-> Len(files[l[i]].tensors)]
  BY <1>3, <1>5 DEF Sizes
<1>8. IsFiniteSet(U) /\ Sum(f) = Cardinality(U)
  <2> HIDE DEF P
  <2>1. \A i \in 1..n : IsFiniteSet(P[i])
    BY <1>5
  <2> QED
    BY <1>3, <1>6, <2>1, PartsCounted
<1>9. Cardinality(U) = Cardinality(DOMAIN map)
  BY <1>1, <1>7, <1>8
<1>10. U \in SUBSET DOMAIN map
  <2> SUFFICES ASSUME NEW i \in 1..n, NEW x \in P[i] PROVE x \in DOMAIN map
    BY DEF All
  <2>1. l[i] \in S
    BY <1>3
  <2>2. PICK t \in Range(files[l[i]].tensors) : x = t.name
    BY DEF names
  <2> QED
    BY <1>1, <2>1, <2>2 DEF source_valid
<1>11. U = DOMAIN map
  <2>1. IsFiniteSet(DOMAIN map)
    BY <1>1, ShapeAssumption
  <2> HIDE DEF U
  <2> QED
    BY <1>9, <1>10, <2>1, FS_Subset
<1>12. PICK i \in 1..n : name \in P[i]
  <2>1. name \in U
    BY <1>1, <1>11
  <2> QED
    BY <2>1 DEF All
<1>13. l[i] \in S
  BY <1>3
<1>14. PICK t \in Range(files[l[i]].tensors) : t.name = name
  BY <1>12 DEF names
<1>15. map[name] = l[i]
  BY <1>1, <1>13, <1>14 DEF source_valid
<1> DEFINE found == find(files[l[i]], name)
<1>16. found \in Range(files[l[i]].tensors) /\ found.name = name
  BY <1>14 DEF find
<1>17. source_valid(map, l[i], found)
  BY <1>1, <1>13, <1>16
<1>18. found.dtype = "bf16" /\ found.shape = Shape[name]
  BY <1>16, <1>17 DEF source_valid
<1>19. l[i] \in DOMAIN files /\ name \in names(files[l[i]]) /\ name \in DOMAIN map
  BY <1>1, <1>12, <1>13
<1> QED
  BY <1>13, <1>15, <1>16, <1>18, <1>19 DEF Holds, map, S

------------------------------------------------------------------------------
(* The items of a plan, and their sizes *)

IsMatrix(p) == p.kind \in {"matrix", "draft_head"}
RowBytes(p) == p.groups * KTiles * fragment_bytes(p.format)
ScaleBytes(p) == 2 * p.groups
MatrixOK(p) ==
  /\ p.rows \in Nat /\ p.rows % TileRows = 0 /\ p.groups \in Nat /\ p.format \in Formats
  /\ p.data_bytes = p.rows * RowBytes(p) /\ p.aux_bytes = p.rows * ScaleBytes(p)
DraftOK(p) ==
  /\ p.rows = DraftRows /\ p.selected_rows \in [1..DraftRows -> Token]
  /\ Descriptor(p.source).shape[1] \in Nat /\ Tokens <= Descriptor(p.source).shape[1]
WholeBytes(p) ==
  IF p.kind = "tensor" THEN Descriptor(p.name).end - Descriptor(p.name).begin
  ELSE 4 * Len(p.selected_rows)
WholeOK(p) == p.data_bytes = WholeBytes(p) /\ p.data_bytes \in Int /\ p.aux_bytes = 0
ResourceOK(p) ==
  /\ p.data_bytes \in Nat /\ p.aux_bytes = 0 /\ p.name \in Range(Resources)
  /\ ~changed => p.data_bytes = disk.resources[p.name]

Kinds == {"matrix", "draft_head", "tensor", "draft_token_ids", "resource"}
ItemOK(p) ==
  /\ p.kind \in Kinds
  /\ IsMatrix(p) => MatrixOK(p)
  /\ p.kind = "draft_head" => DraftOK(p)
  /\ p.kind \in {"tensor", "draft_token_ids"} => WholeOK(p)
  /\ p.kind = "resource" => ResourceOK(p)

LEMMA Product3 ==
  ASSUME NEW a \in Nat, NEW b \in Nat, NEW c \in Nat, NEW d \in Nat
  PROVE  a * b * c * d = a * (b * c * d) /\ b * c * d \in Nat /\ 2 * a * b = a * (2 * b)
OBVIOUS

LEMMA Multiple ==
  ASSUME NEW a \in Nat, NEW b \in Nat \ {0}, a % b = 0
  PROVE  a \div b \in Nat /\ a = (a \div b) * b
OBVIOUS

LEMMA FormatBytes ==
  ASSUME NEW format \in Formats
  PROVE  /\ bits[format] \in {2, 3, 4} /\ fragment_bytes(format) = 4 * bits[format]
         /\ fragment_bytes(format) \in Nat
<1>1. bits[format] \in {2, 3, 4}
  BY DEF Formats, bits
<1>2. \A b \in {2, 3, 4} : (32 * b) \div 8 = 4 * b
  OBVIOUS
<1> QED
  BY <1>1, <1>2 DEF fragment_bytes, FragmentCodes

LEMMA PackedGroups ==
  ASSUME NEW format \in Formats, NEW columns \in Nat, columns % kGroupSize = 0
  PROVE  /\ columns \div kGroupSize \in Nat
         /\ packed_row_bytes(format, columns) =
              (columns \div kGroupSize) * KTiles * fragment_bytes(format)
<1> DEFINE g == columns \div kGroupSize
           m == g * KTiles
<1>1. KTiles \in Nat \ {0} /\ kGroupSize = KTiles * 32 /\ kGroupSize \in Nat \ {0}
  <2>1. KTiles \in Nat \ {0} /\ kGroupSize = KTiles * 32
    BY TileAssumption DEF kGroupSize, FragmentCodes
  <2> QED
    BY <2>1
<1>2. g \in Nat /\ columns = g * kGroupSize
  BY <1>1, Multiple
<1> HIDE DEF g
<1>3. m \in Nat /\ columns = 32 * m
  BY <1>1, <1>2
<1> HIDE DEF m
<1>4. \A b \in {2, 3, 4} : (32 * m * b + 7) \div 8 = m * (4 * b)
  <2>1. (32 * m * 2 + 7) \div 8 = m * 8
    BY <1>3
  <2>2. (32 * m * 3 + 7) \div 8 = m * 12
    BY <1>3
  <2>3. (32 * m * 4 + 7) \div 8 = m * 16
    BY <1>3
  <2> QED
    BY <2>1, <2>2, <2>3
<1>5. packed_row_bytes(format, columns) = m * fragment_bytes(format)
  BY <1>3, <1>4, FormatBytes DEF packed_row_bytes
<1> QED
  BY <1>2, <1>5 DEF g, m

LEMMA MatrixSizes ==
  ASSUME NEW name, NEW source, NEW format \in Formats, NEW shape, NEW kind, NEW rows,
         shape[1] \in Nat, shape[1] % TileRows = 0,
         shape[2] \in Nat, shape[2] % kGroupSize = 0
  PROVE  MatrixOK(Matrix(name, source, format, shape, kind, rows))
<1> DEFINE p == Matrix(name, source, format, shape, kind, rows)
           g == shape[2] \div kGroupSize
           s == shape[1]
<1>1. /\ p.rows = s /\ p.groups = g /\ p.format = format
      /\ p.data_bytes = s * packed_row_bytes(format, shape[2]) /\ p.aux_bytes = 2 * s * g
  BY DEF Matrix
<1>2. g \in Nat /\ packed_row_bytes(format, shape[2]) = g * KTiles * fragment_bytes(format)
  BY PackedGroups
<1> HIDE DEF p, g
<1>3. p.data_bytes = s * RowBytes(p)
  BY <1>1, <1>2 DEF RowBytes
<1>4. p.aux_bytes = s * ScaleBytes(p)
  <2>1. 2 * s * g = s * (2 * g)
    BY <1>2
  <2> QED
    BY <1>1, <2>1 DEF ScaleBytes
<1> QED
  BY <1>1, <1>2, <1>3, <1>4 DEF MatrixOK, p

(* What the checks of make_plan have established.                          *)
ShardsTyped == \A s \in DOMAIN shards : shards[s].tensors \in Seq(SourceTensors)
Plannable ==
  /\ disk \in Disks \cup Replacements /\ ShardsTyped
  /\ \A s \in shard_names(index) : s \in DOMAIN shards
  /\ \A name \in Range(ModelNames) : bf16_available(name)
  /\ ranked(options) => head_available /\ disk.ranking # NoRanking

LEMMA DescriptorTyped ==
  ASSUME Plannable, NEW name, Available(name)
  PROVE  Descriptor(name) \in SourceTensors
<1> DEFINE s == weight_map(index)[name]
<1>1. name \in DOMAIN weight_map(index) /\ name \in names(shards[s])
  BY DEF Available
<1>2. s \in shard_names(index)
  <2>1. \E m \in Range(index.weight_map) : m[1] = name
    BY <1>1 DEF weight_map
  <2> QED
    BY <1>1, <2>1 DEF weight_map, shard_names
<1>3. shards[s].tensors \in Seq(SourceTensors)
  BY <1>2 DEF Plannable, ShardsTyped
<1>4. PICK t \in Range(shards[s].tensors) : t.name = name
  BY <1>1 DEF names
<1>5. find(shards[s], name) \in Range(shards[s].tensors)
  BY <1>4 DEF find
<1>6. \A d \in Range(shards[s].tensors) : d \in SourceTensors
  BY <1>3, ElementOfSeq, LenProperties DEF Range
<1> QED
  BY <1>5, <1>6 DEF Descriptor

LEMMA TensorItemOK ==
  ASSUME Plannable, NEW name \in Range(ModelNames)
  PROVE  ItemOK(TensorItem(name))
<1> DEFINE t == Descriptor(name)
           format == choose_quantization(name, t.shape, options)
           p == TensorItem(name)
<1>1. t \in SourceTensors
  <2>1. Available(name)
    BY DEF Plannable, bf16_available
  <2> QED
    BY <2>1, DescriptorTyped
<1>2. t.shape \in Seq(Nat) /\ t.end \in Nat /\ t.begin \in Nat
  BY <1>1 DEF SourceTensors
<1> HIDE DEF t
<1>3. CASE format = "none"
  <2>1. p = Other(name, "tensor", <<>>, t.end - t.begin)
    BY <1>3 DEF TensorItem, t
  <2>2. p.kind = "tensor" /\ p.name = name /\ p.data_bytes = t.end - t.begin /\ p.aux_bytes = 0
    BY <2>1 DEF Other
  <2> HIDE DEF p
  <2>3. WholeOK(p)
    BY <1>2, <2>2 DEF WholeOK, WholeBytes, t
  <2> QED
    BY <2>2, <2>3 DEF ItemOK, Kinds, IsMatrix, p
<1>4. CASE format # "none"
  <2>1. Len(t.shape) = 2 /\ t.shape[1] % TileRows = 0 /\ t.shape[2] % kGroupSize = 0
        /\ format \in Formats
    BY <1>4 DEF choose_quantization, head_format, Formats
  <2>2. t.shape[1] \in Nat /\ t.shape[2] \in Nat
    BY <1>2, <2>1, ElementOfSeq
  <2> HIDE DEF format
  <2>3. p = Matrix(name, name, format, t.shape, "matrix", <<>>)
    BY <1>4 DEF TensorItem, t, format
  <2>4. p.kind = "matrix"
    BY <2>3 DEF Matrix
  <2>5. MatrixOK(p)
    BY <2>1, <2>2, <2>3, MatrixSizes
  <2> HIDE DEF p
  <2> QED
    BY <2>4, <2>5 DEF ItemOK, Kinds, IsMatrix, p
<1> QED
  BY <1>3, <1>4

LEMMA DraftItemsOK ==
  ASSUME Plannable, ranked(options), NEW i \in {1, 2}
  PROVE  ItemOK(DraftItems(DraftRowsOf)[i])
<1> DEFINE rows == DraftRowsOf
           columns == Shape["lm_head"][2]
           head == Matrix("mtp.draft_head.weight", "lm_head", head_format(options),
                          <<DraftRows, columns>>, "draft_head", rows)
           ids == Other("mtp.draft_head_token_ids", "draft_token_ids", rows, 4 * DraftRows)
<1>1. rows \in [1..DraftRows -> Token] /\ DraftRows \in Nat
  <2>1. disk.ranking \in Rankings
    BY RankingsOf DEF Plannable
  <2> QED
    BY <2>1, SelectedRows, SpecialFacts DEF Best, DraftRowsOf
<1> HIDE DEF rows
<1>2. /\ Shape["lm_head"] \in Seq(Nat) /\ Len(Shape["lm_head"]) = 2
      /\ Tokens <= Shape["lm_head"][1] /\ columns % kGroupSize = 0
  BY HeadAssumption, ShapeAssumption DEF qwen38_source_tensor_names
<1>3. Shape["lm_head"][1] \in Nat /\ columns \in Nat
  BY <1>2, ElementOfSeq
<1> HIDE DEF columns
<1>4. head_format(options) \in Formats
  BY DEF head_format, Formats
<1>5. MatrixOK(head)
  <2>1. DraftRows % TileRows = 0
    BY ConvertAssumption
  <2>2. <<DraftRows, columns>>[1] = DraftRows /\ <<DraftRows, columns>>[2] = columns
    OBVIOUS
  <2> QED
    BY <1>1, <1>2, <1>3, <1>4, <2>1, <2>2, MatrixSizes
<1>6. Descriptor("lm_head").shape = Shape["lm_head"]
  BY DEF Plannable, head_available
<1>7. DraftOK(head)
  BY <1>1, <1>2, <1>3, <1>6 DEF DraftOK, Matrix
<1>8. head.kind = "draft_head"
  BY DEF Matrix
<1>9. WholeOK(ids)
  <2>1. Len(rows) = DraftRows
    <3>1. rows \in Seq(Token)
      BY <1>1, IsASeq
    <3> QED
      BY <1>1, <3>1, LenProperties
  <2>2. ids.kind = "draft_token_ids" /\ ids.selected_rows = rows /\ ids.data_bytes = 4 * DraftRows
        /\ ids.aux_bytes = 0
    BY DEF Other
  <2> HIDE DEF ids
  <2> QED
    BY <1>1, <2>1, <2>2 DEF WholeOK, WholeBytes
<1>10. ids.kind = "draft_token_ids"
  BY DEF Other
<1>11. DraftItems(DraftRowsOf) = <<head, ids>>
  BY DEF DraftItems, rows, columns
<1> HIDE DEF head, ids
<1>12. ItemOK(head)
  BY <1>5, <1>7, <1>8 DEF ItemOK, Kinds, IsMatrix
<1>13. ItemOK(ids)
  BY <1>9, <1>10 DEF ItemOK, Kinds, IsMatrix
<1> QED
  BY <1>11, <1>12, <1>13

LEMMA ResourceItemOK ==
  ASSUME Plannable, NEW r \in Range(Resources)
  PROVE  ItemOK(ResourceItem(r))
<1> DEFINE p == ResourceItem(r)
<1>1. disk.resources[r] \in Nat
  BY DisksAssumption DEF Plannable
<1>2. p.kind = "resource" /\ p.name = r /\ p.data_bytes = disk.resources[r] /\ p.aux_bytes = 0
  BY DEF ResourceItem, Other
<1> HIDE DEF p
<1>3. ResourceOK(p)
  BY <1>1, <1>2 DEF ResourceOK
<1> QED
  BY <1>2, <1>3 DEF ItemOK, Kinds, IsMatrix, p

LEMMA PlannedItems ==
  ASSUME Plannable, NEW p \in PlanItems
  PROVE  ItemOK(p)
BY TensorItemOK, DraftItemsOK, ResourceItemOK DEF PlanItems

------------------------------------------------------------------------------
(* The source, from the validation to the plan *)

Unread == {"options", "validate", "index"}
Planning == Unread \cup {"shards", "plan"}

SourceInv ==
  /\ disk \in Disks \cup Replacements
  /\ ShardsTyped
  /\ pc \in Unread => shards = <<>>
  /\ pc = "plan" => \A s \in shard_names(index) : s \in DOMAIN shards
  /\ ~changed /\ pc \in {"index", "shards", "plan"} =>
       validate_qwen38_model_directory(disk.index, disk.files)
  /\ ~changed /\ pc \in {"shards", "plan"} =>
       index = disk.index /\ \A s \in DOMAIN shards : shards[s] = disk.files[s]
  /\ ~changed => result # "source"

(* Nothing is missing from the plan of a valid source.                     *)
LEMMA SourcePlans ==
  ASSUME SourceInv, ~changed, pc = "plan"
  PROVE  (\A name \in Range(ModelNames) : bf16_available(name)) /\ head_available
<1>1. /\ disk.index.weight_map \in Seq(STRING \X STRING)
      /\ \A s \in DOMAIN disk.files : disk.files[s].tensors \in Seq(SourceTensors)
  BY DisksAssumption DEF SourceInv
<1>2. /\ validate_qwen38_model_directory(disk.index, disk.files)
      /\ index = disk.index
      /\ \A s \in shard_names(index) : s \in DOMAIN shards /\ shards[s] = disk.files[s]
  BY DEF SourceInv
<1>3. ASSUME NEW name \in DOMAIN Shape
      PROVE  Available(name) /\ Descriptor(name).dtype = "bf16"
             /\ Descriptor(name).shape = Shape[name]
  <2>1. Holds(index, disk.files, name)
    BY <1>1, <1>2, SourceComplete
  <2>2. shards[weight_map(index)[name]] = disk.files[weight_map(index)[name]]
    BY <1>2, <2>1 DEF Holds
  <2> QED
    BY <2>1, <2>2 DEF Holds, Available, Descriptor
<1>4. Range(ModelNames) \subseteq DOMAIN Shape /\ "lm_head" \in DOMAIN Shape
  BY ConvertAssumption, HeadAssumption DEF qwen38_source_tensor_names
<1> QED
  BY <1>3, <1>4 DEF bf16_available, head_available

LEMMA SourceInitially == Init => SourceInv
BY DEF Init, SourceInv, ShardsTyped, Unread

LEMMA SourcePreserved == SourceInv /\ [Next]_vars => SourceInv'
<1> SUFFICES ASSUME SourceInv, [Next]_vars PROVE SourceInv'
  OBVIOUS
<1> USE DEF fileVars, sourceVars, writerVars
<1>1. CASE UNCHANGED vars
  BY <1>1 DEF vars, SourceInv, ShardsTyped
<1>2. CASE Replace
  <2>1. UNCHANGED <<pc, index, shards, result>> /\ changed' /\ disk' \in Replacements
    BY <1>2 DEF Replace
  <2> QED
    BY <2>1 DEF SourceInv, ShardsTyped
<1>3. CASE CheckOptions
  <2>1. UNCHANGED <<disk, changed, index, shards>> /\ pc \in Unread
        /\ pc' \in {"validate", "returned"} /\ result' \in {result, "invalid"}
    BY <1>3 DEF CheckOptions, Goto, Return, Unread
  <2> QED
    BY <2>1 DEF SourceInv, ShardsTyped, Unread
<1>4. CASE Validate
  <2>1. UNCHANGED <<disk, changed, index, shards>> /\ pc \in Unread
        /\ pc' \in {"index", "returned"} /\ result' \in {result, "invalid source", "io"}
        /\ (pc' = "index" => validate_qwen38_model_directory(disk.index, disk.files))
    BY <1>4 DEF Validate, Goto, Return, Unread, IoFails
  <2> QED
    BY <2>1 DEF SourceInv, ShardsTyped, Unread
<1>5. CASE LoadIndex
  <2>1. UNCHANGED <<disk, changed, shards>> /\ pc = "index"
    BY <1>5 DEF LoadIndex
  <2>2. shards = <<>>
    BY <2>1 DEF SourceInv, Unread
  <2>3. CASE pc' = "shards" /\ index' = disk.index /\ result' = result
    BY <2>1, <2>2, <2>3 DEF SourceInv, ShardsTyped, Unread
  <2>4. CASE pc' = "returned" /\ result' = "source" /\ ~index_valid(disk.index)
    <3>1. changed
      BY <2>1, <2>4 DEF SourceInv, validate_qwen38_model_directory
    <3> QED
      BY <2>1, <2>4, <3>1 DEF SourceInv, ShardsTyped, Unread
  <2>5. CASE pc' = "returned" /\ result' = "io"
    BY <2>1, <2>5 DEF SourceInv, ShardsTyped, Unread
  <2> QED
    BY <1>5, <2>3, <2>4, <2>5 DEF LoadIndex, Goto, Return, IoFails
<1>6. CASE OpenShard
  <2> DEFINE left == shard_names(index) \ DOMAIN shards
             s == CHOOSE x \in left : TRUE
  <2>1. UNCHANGED <<disk, changed, index>> /\ pc = "shards"
    BY <1>6 DEF OpenShard
  <2>2. CASE left = {} /\ pc' = "plan" /\ UNCHANGED <<shards, result>>
    BY <2>1, <2>2 DEF SourceInv, ShardsTyped, Unread
  <2>3. CASE left # {} /\ s \in DOMAIN disk.files /\ UNCHANGED <<pc, result>>
             /\ shards' = [x \in DOMAIN shards \cup {s} |->
                             IF x = s THEN disk.files[s] ELSE shards[x]]
    <3>1. disk.files[s].tensors \in Seq(SourceTensors)
      BY <2>3, DisksAssumption DEF SourceInv
    <3> HIDE DEF s
    <3>2. ShardsTyped'
      BY <2>3, <3>1 DEF SourceInv, ShardsTyped
    <3>3. \A x \in DOMAIN shards' : shards'[x] = disk.files[x] \/ (x \in DOMAIN shards /\ shards'[x] = shards[x])
      BY <2>3
    <3> QED
      BY <2>1, <2>3, <3>2, <3>3 DEF SourceInv, Unread
  <2>4. CASE left # {} /\ ~(s \in DOMAIN disk.files /\ shard_valid(disk.files[s]))
             /\ pc' = "returned" /\ result' = "source" /\ UNCHANGED shards
    <3>1. s \in shard_names(index)
      BY <2>4
    <3> HIDE DEF s
    <3>2. changed
      BY <2>1, <2>4, <3>1 DEF SourceInv, validate_qwen38_model_directory
    <3> QED
      BY <2>1, <2>4, <3>2 DEF SourceInv, ShardsTyped, Unread
  <2>5. CASE pc' = "returned" /\ result' = "io" /\ UNCHANGED shards
    BY <2>1, <2>5 DEF SourceInv, ShardsTyped, Unread
  <2> QED
    BY <1>6, <2>2, <2>3, <2>4, <2>5 DEF OpenShard, Goto, Return, IoFails
<1>7. CASE MakePlan
  <2>1. UNCHANGED <<disk, changed, index, shards>> /\ pc = "plan"
        /\ pc' \in {"create", "returned"}
        /\ result' \in {result, "source", "ranking", "resource", "ok"}
        /\ (result' = "source" => \/ result = "source"
                                  \/ \E name \in Range(ModelNames) : ~bf16_available(name)
                                  \/ ~head_available)
    BY <1>7 DEF MakePlan, Goto, Return
  <2>2. ~changed => result' # "source"
    BY <2>1, SourcePlans DEF SourceInv
  <2> QED
    BY <2>1, <2>2 DEF SourceInv, ShardsTyped, Unread
<1>8. CASE CreateWriter \/ WriteChunk \/ WriteWhole \/ WriteResource \/ Finalize \/ StatOutput
  <2>1. UNCHANGED <<disk, changed, index, shards>> /\ pc \in {"create", "write", "installed"}
        /\ pc' \in {"create", "write", "installed", "returned"}
        /\ (result' = result \/ result' # "source")
    BY <1>8 DEF CreateWriter, WriteChunk, WriteWhole, WriteResource, Finalize, StatOutput,
         Goto, Return, IoFails
  <2> QED
    BY <2>1 DEF SourceInv, ShardsTyped, Unread
<1> QED
  BY <1>1, <1>2, <1>3, <1>4, <1>5, <1>6, <1>7, <1>8 DEF Next

------------------------------------------------------------------------------
(* What is written of the items *)

IsPlane(w) ==
  /\ w = [data |-> w.data, aux |-> w.aux, data_written |-> w.data_written,
          aux_written |-> w.aux_written]
  /\ w.data_written \in Int /\ w.aux_written \in Int
Full(p, w) ==
  (p.kind = "resource" /\ changed) \/ (w.data_written = p.data_bytes /\ w.aux_written = p.aux_bytes)
Empty(w) == w.data_written = 0 /\ w.aux_written = 0
Part(p, w) ==
  IF IsMatrix(p)
  THEN /\ row <= p.rows
       /\ w.data_written = row * RowBytes(p) /\ w.aux_written = row * ScaleBytes(p)
       /\ options.chunk_rows % TileRows = 0 => row % TileRows = 0
  ELSE Empty(w)
Progress ==
  /\ item \in 1..Len(plan) + 1 /\ row \in Nat
  /\ planes = [n \in DOMAIN plan |-> planes[n]]
  /\ \A n \in DOMAIN plan :
       /\ IsPlane(planes[n])
       /\ n < item => Full(plan[n], planes[n])
       /\ n = item => Part(plan[n], planes[n])
       /\ n > item => Empty(planes[n])

WriteInv ==
  /\ options \in Options
  /\ Len(plan) \in Nat /\ DOMAIN plan = 1..Len(plan)
  /\ \A n \in DOMAIN plan : ItemOK(plan[n])
  /\ pc \in Planning => plan = <<>>
  /\ pc \in Planning \cup {"create"} => item = 1 /\ row = 0
  /\ pc = "write" => Progress
  /\ options.chunk_rows % TileRows = 0 => result # "chunk"
  /\ ~changed => result # "incomplete"

LEMMA Remainders ==
  ASSUME NEW T \in Nat \ {0}, NEW a \in Nat, NEW b \in Nat, a % T = 0, b % T = 0
  PROVE  /\ (a + b) % T = 0
         /\ a <= b => (b - a) % T = 0
<1> DEFINE i == a \div T
           j == b \div T
<1>1. i \in Nat /\ a = i * T /\ j \in Nat /\ b = j * T
  BY Multiple
<1> HIDE DEF i, j
<1>2. \A k \in Nat : (k * T) % T = 0
  OBVIOUS
<1>3. a + b = (i + j) * T
  BY <1>1
<1>4. ASSUME a <= b PROVE (b - a) % T = 0
  <2>1. b - a = (j - i) * T
    BY <1>1
  <2>2. i <= j
    BY <1>1, <1>4
  <2>3. j - i \in Nat
    BY <1>1, <2>2
  <2> QED
    BY <1>2, <2>1, <2>3
<1>5. i + j \in Nat
  BY <1>1
<1> QED
  BY <1>2, <1>3, <1>4, <1>5

LEMMA MinOfTwo ==
  ASSUME NEW a \in Nat, NEW b \in Nat
  PROVE  Min({a, b}) = IF a <= b THEN a ELSE b
<1>1. \E x \in {a, b} : \A y \in {a, b} : x <= y
  OBVIOUS
<1>2. Min({a, b}) \in {a, b} /\ \A y \in {a, b} : Min({a, b}) <= y
  BY <1>1 DEF Min
<1> QED
  BY <1>2

LEMMA RowSizes ==
  ASSUME NEW p, MatrixOK(p)
  PROVE  RowBytes(p) \in Nat /\ ScaleBytes(p) \in Nat
<1>1. p.groups \in Nat /\ KTiles \in Nat /\ fragment_bytes(p.format) \in Nat
  BY TileAssumption, FormatBytes DEF MatrixOK
<1>2. \A a, b, c \in Nat : a * b * c \in Nat /\ 2 * a \in Nat
  OBVIOUS
<1> QED
  BY <1>1, <1>2 DEF RowBytes, ScaleBytes

(* The next chunk of a matrix.                                             *)
LEMMA ChunkFacts ==
  ASSUME WriteInv, pc = "write", item <= Len(plan), IsMatrix(plan[item])
  PROVE  LET p == plan[item]
             count == Len(chunk_rows)
         IN /\ count \in Nat /\ row + count <= p.rows
            /\ DOMAIN chunk_rows = 1..count
            /\ IF row + options.chunk_rows >= p.rows THEN row + count = p.rows
               ELSE count = options.chunk_rows
            /\ options.chunk_rows % TileRows = 0 => count % TileRows = 0
            /\ p.kind = "draft_head" =>
                 \A r \in Range(chunk_rows) : r < Descriptor(p.source).shape[1]
<1> DEFINE p == plan[item]
           c == options.chunk_rows
           count == Min({c, p.rows - row})
<1>1. /\ c \in Nat /\ row \in Nat /\ item \in DOMAIN plan
      /\ ItemOK(p) /\ Part(p, planes[item])
  BY OptionsAssumption DEF WriteInv, Progress
<1>2. MatrixOK(p) /\ p.rows \in Nat /\ row <= p.rows /\ p.rows % TileRows = 0
      /\ (c % TileRows = 0 => row % TileRows = 0)
  BY <1>1 DEF ItemOK, MatrixOK, Part
<1> HIDE DEF p, c
<1>3. p.rows - row \in Nat
  BY <1>1, <1>2
<1>4. count = IF c <= p.rows - row THEN c ELSE p.rows - row
  BY <1>1, <1>3, MinOfTwo
<1>5. count \in Nat /\ row + count <= p.rows
  BY <1>1, <1>2, <1>3, <1>4
<1>6. chunk_rows = [n \in 1..count |-> IF p.kind = "draft_head"
                                       THEN p.selected_rows[row + n] ELSE row + n - 1]
  BY DEF chunk_rows, p, c
<1>7. DOMAIN chunk_rows = 1..count /\ Len(chunk_rows) = count
  <2> DEFINE e(n) == IF p.kind = "draft_head" THEN p.selected_rows[row + n] ELSE row + n - 1
  <2>1. chunk_rows = [n \in 1..count |-> e(n)]
    BY <1>6
  <2> HIDE DEF e, count
  <2>2. chunk_rows \in Seq({e(n) : n \in 1..count})
    BY <1>5, <2>1, IsASeq
  <2> QED
    BY <1>5, <2>1, <2>2, LenProperties
<1>8. IF row + c >= p.rows THEN row + count = p.rows ELSE count = c
  <2> DEFINE rows == p.rows
             k == count
  <2>1. rows \in Nat /\ row \in Nat /\ c \in Nat /\ k = IF c <= rows - row THEN c ELSE rows - row
    BY <1>1, <1>2, <1>4
  <2> HIDE DEF rows, k
  <2>2. IF row + c >= rows THEN row + k = rows ELSE k = c
    BY <2>1
  <2> QED
    BY <2>2 DEF rows, k
<1>9. ASSUME c % TileRows = 0 PROVE count % TileRows = 0
  <2>1. (p.rows - row) % TileRows = 0
    BY <1>1, <1>2, <1>9, TileAssumption, Remainders
  <2> QED
    BY <1>4, <1>9, <2>1
<1>10. ASSUME p.kind = "draft_head", NEW r \in Range(chunk_rows)
       PROVE  r < Descriptor(p.source).shape[1]
  <2>1. DraftOK(p)
    BY <1>1, <1>10 DEF ItemOK
  <2>2. PICK n \in 1..count : r = chunk_rows[n]
    BY <1>7 DEF Range
  <2>3. r = p.selected_rows[row + n]
    BY <1>6, <1>10, <2>2
  <2>4. row + n \in 1..p.rows
    BY <1>1, <1>2, <1>5
  <2>5. r \in Token /\ Tokens \in Nat
    BY <2>1, <2>3, <2>4, SpecialFacts DEF DraftOK
  <2> QED
    BY <2>1, <2>5 DEF DraftOK, Token
<1> HIDE DEF count
<1> QED
  BY <1>5, <1>7, <1>8, <1>9, <1>10 DEF p, c

LEMMA Products ==
  ASSUME NEW a \in Nat, NEW b \in Nat, NEW c \in Nat, NEW d \in Nat, a + b <= d
  PROVE  /\ a * c + b * c = (a + b) * c
         /\ (a + b) * c <= d * c
         /\ a * c \in Nat /\ b * c \in Nat /\ d * c \in Nat
<1>1. \E e \in Nat : d = a + b + e
  <2>1. d - (a + b) \in Nat /\ d = a + b + (d - (a + b))
    OBVIOUS
  <2> QED
    BY <2>1
<1>2. PICK e \in Nat : d = a + b + e
  BY <1>1
<1>3. d * c = (a + b) * c + e * c /\ e * c \in Nat
  BY <1>2
<1>4. (a + b) * c \in Nat /\ a * c \in Nat /\ b * c \in Nat
  OBVIOUS
<1>5. (a + b) * c = a * c + b * c
  OBVIOUS
<1> QED
  BY <1>3, <1>4, <1>5

(* The bytes of the next chunk, and that they fit.                         *)
LEMMA ChunkFits ==
  ASSUME WriteInv, pc = "write", item <= Len(plan), IsMatrix(plan[item])
  PROVE  LET p == plan[item]
             w == planes[item]
             count == Len(chunk_rows)
             data_bytes == count * p.groups * KTiles * fragment_bytes(p.format)
             aux_bytes == 2 * count * p.groups
         IN /\ data_bytes = count * RowBytes(p) /\ aux_bytes = count * ScaleBytes(p)
            /\ data_bytes \in Nat /\ aux_bytes \in Nat
            /\ w.data_written + data_bytes = (row + count) * RowBytes(p)
            /\ w.aux_written + aux_bytes = (row + count) * ScaleBytes(p)
            /\ Fits(data_bytes, aux_bytes)
<1> DEFINE p == plan[item]
           w == planes[item]
           count == Len(chunk_rows)
           data_bytes == count * p.groups * KTiles * fragment_bytes(p.format)
           aux_bytes == 2 * count * p.groups
<1>1. count \in Nat /\ row + count <= p.rows
  BY ChunkFacts
<1>2. row \in Nat /\ item \in DOMAIN plan /\ MatrixOK(p) /\ Part(p, w)
  BY DEF WriteInv, Progress, ItemOK
<1> HIDE DEF count
<1>3. /\ w.data_written = row * RowBytes(p) /\ w.aux_written = row * ScaleBytes(p)
      /\ p.data_bytes = p.rows * RowBytes(p) /\ p.aux_bytes = p.rows * ScaleBytes(p)
      /\ p.rows \in Nat /\ p.groups \in Nat /\ p.format \in Formats
  BY <1>2 DEF Part, MatrixOK
<1>4. Fits(data_bytes, aux_bytes) <=> /\ w.data_written + data_bytes <= p.data_bytes
                                     /\ w.aux_written + aux_bytes <= p.aux_bytes
  BY DEF Fits
<1> HIDE DEF p, w
<1>5. RowBytes(p) \in Nat /\ ScaleBytes(p) \in Nat
  BY <1>2, RowSizes
<1>6. data_bytes = count * RowBytes(p) /\ aux_bytes = count * ScaleBytes(p)
  <2>1. KTiles \in Nat /\ fragment_bytes(p.format) \in Nat
    BY <1>3, TileAssumption, FormatBytes
  <2> QED
    BY SMTT(30), <1>1, <1>3, <2>1, Product3 DEF RowBytes, ScaleBytes
<1> HIDE DEF data_bytes, aux_bytes
<1>7. /\ row * RowBytes(p) + count * RowBytes(p) = (row + count) * RowBytes(p)
      /\ (row + count) * RowBytes(p) <= p.rows * RowBytes(p)
      /\ count * RowBytes(p) \in Nat
  <2> DEFINE size == RowBytes(p)
             rows == p.rows
  <2>1. size \in Nat /\ rows \in Nat /\ row + count <= rows
    BY <1>1, <1>3, <1>5
  <2> HIDE DEF size, rows
  <2>2. /\ row * size + count * size = (row + count) * size
        /\ (row + count) * size <= rows * size
        /\ count * size \in Nat
    BY <1>1, <1>2, <2>1, Products
  <2> QED
    BY <2>2 DEF size, rows
<1>8. /\ row * ScaleBytes(p) + count * ScaleBytes(p) = (row + count) * ScaleBytes(p)
      /\ (row + count) * ScaleBytes(p) <= p.rows * ScaleBytes(p)
      /\ count * ScaleBytes(p) \in Nat
  <2> DEFINE size == ScaleBytes(p)
             rows == p.rows
  <2>1. size \in Nat /\ rows \in Nat /\ row + count <= rows
    BY <1>1, <1>3, <1>5
  <2> HIDE DEF size, rows
  <2>2. /\ row * size + count * size = (row + count) * size
        /\ (row + count) * size <= rows * size
        /\ count * size \in Nat
    BY <1>1, <1>2, <2>1, Products
  <2> QED
    BY <2>2 DEF size, rows
<1>9. Fits(data_bytes, aux_bytes)
  BY <1>3, <1>4, <1>6, <1>7, <1>8
<1>10. /\ w.data_written + data_bytes = (row + count) * RowBytes(p)
       /\ w.aux_written + aux_bytes = (row + count) * ScaleBytes(p)
       /\ data_bytes \in Nat /\ aux_bytes \in Nat
  BY <1>3, <1>6, <1>7, <1>8
<1> QED
  BY <1>6, <1>9, <1>10 DEF p, w, count, data_bytes, aux_bytes

(* What a step adds to the planes of the item.                             *)
Adds(db, ab) ==
  /\ planes' = [n \in DOMAIN plan |-> planes'[n]]
  /\ \A n \in DOMAIN plan : n # item => planes'[n] = planes[n]
  /\ IsPlane(planes'[item])
  /\ planes'[item].data_written = planes[item].data_written + db
  /\ planes'[item].aux_written = planes[item].aux_written + ab

LEMMA AppendAdds ==
  ASSUME WriteInv, pc = "write", item <= Len(plan), NEW data, NEW aux,
         NEW db \in Int, NEW ab \in Int, Append2(data, db, aux, ab)
  PROVE  Adds(db, ab)
<1>1. /\ planes = [n \in DOMAIN plan |-> planes[n]] /\ item \in DOMAIN plan /\ IsPlane(planes[item])
  BY DEF WriteInv, Progress
<1>2. DOMAIN planes = DOMAIN plan
  BY <1>1
<1> DEFINE w == planes[item]
           v == [data |-> w.data \o data, aux |-> w.aux \o aux,
                 data_written |-> w.data_written + db, aux_written |-> w.aux_written + ab]
<1>3. planes' = [planes EXCEPT ![item] = v]
  BY DEF Append2
<1>4. IsPlane(v) /\ v.data_written = w.data_written + db /\ v.aux_written = w.aux_written + ab
  BY <1>1 DEF IsPlane
<1> HIDE DEF v
<1>5. planes' = [n \in DOMAIN plan |-> IF n = item THEN v ELSE planes[n]]
  BY <1>1, <1>2, <1>3
<1>6. planes'[item] = v
  BY <1>1, <1>5
<1> QED
  BY <1>4, <1>5, <1>6 DEF Adds

LEMMA Untouched ==
  ASSUME NEW p, ItemOK(p), IsMatrix(p)
  PROVE  0 <= p.rows /\ 0 = 0 * RowBytes(p) /\ 0 = 0 * ScaleBytes(p) /\ 0 % TileRows = 0
<1>1. MatrixOK(p)
  BY DEF ItemOK
<1>2. RowBytes(p) \in Nat /\ ScaleBytes(p) \in Nat /\ p.rows \in Nat
  BY <1>1, RowSizes DEF MatrixOK
<1> QED
  BY <1>2, TileAssumption

LEMMA ItemDone ==
  ASSUME WriteInv, pc = "write", item <= Len(plan), UNCHANGED <<fileVars, sourceVars>>,
         NEW db, NEW ab, Adds(db, ab), Full(plan[item], planes'[item]), NextItem
  PROVE  Progress'
<1> DEFINE N == Len(plan)
<1>1. N \in Nat /\ DOMAIN plan = 1..N /\ item \in 1..N /\ item' = item + 1 /\ row' = 0
  BY DEF WriteInv, Progress, NextItem
<1>2. plan' = plan /\ changed' = changed /\ options' = options
  BY DEF fileVars, sourceVars
<1>3. item' \in 1..N + 1 /\ row' \in Nat
  BY <1>1
<1>4. planes' = [n \in DOMAIN plan |-> planes'[n]]
  BY DEF Adds
<1> HIDE DEF N
<1>5. ASSUME NEW n \in DOMAIN plan
      PROVE  /\ IsPlane(planes'[n])
             /\ n < item' => Full(plan[n], planes'[n])
             /\ n = item' => Part(plan[n], planes[n])' /\ Empty(planes'[n])
             /\ n > item' => Empty(planes'[n])
  <2>1. CASE n = item
    <3>1. n < item' /\ n # item' /\ ~(n > item')
      BY <1>1, <2>1
    <3> QED
      BY <2>1, <3>1 DEF Adds
  <2>2. CASE n # item
    <3>1. planes'[n] = planes[n] /\ IsPlane(planes[n])
      BY <2>2 DEF Adds, WriteInv, Progress
    <3>2. /\ n < item' => n < item
          /\ n = item' => n > item
          /\ n > item' => n > item
      BY <1>1, <2>2
    <3>3. /\ n < item => Full(plan[n], planes[n])
          /\ n > item => Empty(planes[n])
      BY DEF WriteInv, Progress
    <3>4. ASSUME n = item' PROVE Part(plan[n], planes[n])'
      <4>1. Empty(planes'[n]) /\ ItemOK(plan[n])
        BY <3>1, <3>2, <3>3, <3>4 DEF WriteInv
      <4>2. CASE IsMatrix(plan[n])
        <5>1. planes'[n].data_written = 0 /\ planes'[n].aux_written = 0
          BY <4>1 DEF Empty
        <5>2. /\ row' <= plan[n].rows /\ planes'[n].data_written = row' * RowBytes(plan[n])
              /\ planes'[n].aux_written = row' * ScaleBytes(plan[n])
              /\ row' % TileRows = 0
          BY <1>1, <4>1, <4>2, <5>1, Untouched
        <5> QED
          BY <1>2, <4>2, <5>2 DEF Part, RowBytes, ScaleBytes, IsMatrix
      <4>3. CASE ~IsMatrix(plan[n])
        BY <1>2, <4>1, <4>3 DEF Part, Empty, IsMatrix
      <4> QED
        BY <4>2, <4>3
    <3> QED
      BY <3>1, <3>2, <3>3, <3>4
  <2> QED
    BY <2>1, <2>2
<1> QED
  BY <1>2, <1>3, <1>4, <1>5 DEF Progress, IsPlane, Full, Empty, N

LEMMA RowsDone ==
  ASSUME WriteInv, pc = "write", item <= Len(plan), UNCHANGED <<fileVars, sourceVars>>,
         NEW db, NEW ab, Adds(db, ab), IsMatrix(plan[item]), item' = item,
         row' \in Nat, row' <= plan[item].rows,
         planes'[item].data_written = row' * RowBytes(plan[item]),
         planes'[item].aux_written = row' * ScaleBytes(plan[item]),
         options.chunk_rows % TileRows = 0 => row' % TileRows = 0
  PROVE  Progress'
<1> DEFINE N == Len(plan)
<1>1. N \in Nat /\ DOMAIN plan = 1..N /\ item \in 1..N
  BY DEF WriteInv, Progress
<1>2. plan' = plan /\ changed' = changed /\ options' = options
  BY DEF fileVars, sourceVars
<1>3. item' \in 1..N + 1
  BY <1>1
<1>4. planes' = [n \in DOMAIN plan |-> planes'[n]]
  BY DEF Adds
<1> HIDE DEF N
<1>5. ASSUME NEW n \in DOMAIN plan
      PROVE  /\ IsPlane(planes'[n])
             /\ n < item' => Full(plan[n], planes'[n])
             /\ n = item' => Part(plan[n], planes[n])'
             /\ n > item' => Empty(planes'[n])
  <2>1. CASE n = item
    <3>1. ~(n < item') /\ ~(n > item')
      BY <1>1, <2>1
    <3>2. IsPlane(planes'[n])
      BY <2>1 DEF Adds
    <3>3. Part(plan[n], planes[n])'
      BY <1>2, <2>1 DEF Part, RowBytes, ScaleBytes, IsMatrix
    <3> QED
      BY <3>1, <3>2, <3>3
  <2>2. CASE n # item
    <3>1. planes'[n] = planes[n] /\ IsPlane(planes[n])
      BY <2>2 DEF Adds, WriteInv, Progress
    <3>2. /\ n < item => Full(plan[n], planes[n])
          /\ n > item => Empty(planes[n])
      BY DEF WriteInv, Progress
    <3> QED
      BY <2>2, <3>1, <3>2
  <2> QED
    BY <2>1, <2>2
<1> QED
  BY <1>2, <1>3, <1>4, <1>5 DEF Progress, IsPlane, Full, Empty, N

LEMMA WholeFits ==
  ASSUME WriteInv, pc = "write", item <= Len(plan), ~IsMatrix(plan[item]), NEW bytes \in Int
  PROVE  LET p == plan[item] IN
           /\ ItemOK(p) /\ planes[item].data_written = 0 /\ planes[item].aux_written = 0
           /\ p.aux_bytes = 0 => (Fits(bytes, 0) <=> bytes <= p.data_bytes)
<1>1. item \in DOMAIN plan
  BY DEF WriteInv, Progress
<1>2. ItemOK(plan[item]) /\ planes[item].data_written = 0 /\ planes[item].aux_written = 0
  BY <1>1 DEF WriteInv, Progress, Part, Empty
<1> QED
  BY <1>2 DEF Fits

(* The parts of the invariant that a step of the writing leaves alone.     *)
Steady ==
  /\ options \in Options /\ Len(plan) \in Nat /\ DOMAIN plan = 1..Len(plan)
  /\ \A n \in DOMAIN plan : ItemOK(plan[n])

LEMMA SteadyKept ==
  ASSUME WriteInv, UNCHANGED <<fileVars, sourceVars>>
  PROVE  Steady'
<1>1. /\ disk' = disk /\ changed' = changed /\ options' = options /\ index' = index
      /\ shards' = shards /\ plan' = plan
  BY DEF fileVars, sourceVars
<1>2. \A n \in DOMAIN plan : ItemOK(plan[n])'
  <2> SUFFICES ASSUME NEW n \in DOMAIN plan PROVE ItemOK(plan[n])'
    OBVIOUS
  <2>1. ItemOK(plan[n])
    BY DEF WriteInv
  <2>2. IsMatrix(plan[n])' <=> IsMatrix(plan[n])
    BY <1>1 DEF IsMatrix
  <2>3. MatrixOK(plan[n])' <=> MatrixOK(plan[n])
    BY <1>1 DEF MatrixOK, RowBytes, ScaleBytes
  <2>4. DraftOK(plan[n])' <=> DraftOK(plan[n])
    BY <1>1 DEF DraftOK, Descriptor
  <2>5. WholeOK(plan[n])' <=> WholeOK(plan[n])
    BY <1>1 DEF WholeOK, WholeBytes, Descriptor
  <2>6. ResourceOK(plan[n])' <=> ResourceOK(plan[n])
    BY <1>1 DEF ResourceOK
  <2> QED
    BY <1>1, <2>1, <2>2, <2>3, <2>4, <2>5, <2>6 DEF ItemOK
<1> QED
  BY <1>1, <1>2 DEF Steady, WriteInv

LEMMA WriteInitially == Init => WriteInv
<1> SUFFICES ASSUME Init PROVE WriteInv
  OBVIOUS
<1>1. plan = <<>> /\ pc = "options" /\ item = 1 /\ row = 0 /\ options \in Options
      /\ result = "none"
  BY DEF Init
<1>2. Len(plan) = 0 /\ DOMAIN plan = {}
  BY <1>1
<1> QED
  BY <1>1, <1>2 DEF WriteInv

LEMMA ChunkPreserves ==
  ASSUME WriteInv, WriteChunk
  PROVE  WriteInv'
<1> DEFINE p == plan[item]
           count == Len(chunk_rows)
           db == count * p.groups * KTiles * fragment_bytes(p.format)
           ab == 2 * count * p.groups
           c == options.chunk_rows
<1>1. /\ pc = "write" /\ item <= Len(plan) /\ IsMatrix(p) /\ output' = output
      /\ UNCHANGED <<fileVars, sourceVars>>
  BY DEF WriteChunk, IsMatrix
<1>2. Steady'
  BY <1>1, SteadyKept
<1>3. changed' = changed /\ options' = options
  BY <1>1 DEF fileVars, sourceVars
<1>4. /\ row + count <= p.rows /\ count \in Nat
      /\ IF row + c >= p.rows THEN row + count = p.rows ELSE count = c
      /\ c % TileRows = 0 => count % TileRows = 0
      /\ p.kind = "draft_head" => \A r \in Range(chunk_rows) : r < Descriptor(p.source).shape[1]
  BY <1>1, ChunkFacts
<1>5. /\ db \in Nat /\ ab \in Nat /\ Fits(db, ab)
      /\ planes[item].data_written + db = (row + count) * RowBytes(p)
      /\ planes[item].aux_written + ab = (row + count) * ScaleBytes(p)
  BY <1>1, ChunkFits
<1>6. /\ row \in Nat /\ item \in DOMAIN plan /\ MatrixOK(p) /\ c \in Nat
      /\ c % TileRows = 0 => row % TileRows = 0
  BY <1>1, OptionsAssumption DEF WriteInv, Progress, ItemOK, Part
<1>7. CASE /\ \/ count % TileRows # 0
              \/ p.kind = "draft_head" /\ ~\A r \in Range(chunk_rows) :
                                             r < Descriptor(p.source).shape[1]
              \/ ~Fits(db, ab)
           /\ Return("chunk") /\ UNCHANGED writerVars
  <2>1. c % TileRows # 0
    BY <1>4, <1>5, <1>7
  <2>2. pc' = "returned" /\ result' = "chunk"
    BY <1>7 DEF Return
  <2> QED
    BY <1>2, <1>3, <2>1, <2>2 DEF WriteInv, Steady, Planning, Unread
<1>8. CASE /\ Append2(tile_codes(p.source, chunk_rows, p.groups), db,
                      tile_scales(p.source, chunk_rows, p.groups), ab)
           /\ IF row + c >= p.rows THEN NextItem ELSE row' = row + c /\ UNCHANGED item
           /\ UNCHANGED <<pc, result>>
  <2>1. Adds(db, ab)
    BY <1>1, <1>5, <1>8, AppendAdds
  <2>2. /\ planes'[item].data_written = (row + count) * RowBytes(p)
        /\ planes'[item].aux_written = (row + count) * ScaleBytes(p)
    BY <1>5, <2>1 DEF Adds
  <2>3. Progress'
    <3>1. CASE row + c >= p.rows
      <4>1. row + count = p.rows
        BY <1>4, <3>1
      <4>2. /\ planes'[item].data_written = p.data_bytes
            /\ planes'[item].aux_written = p.aux_bytes
        BY <1>6, <2>2, <4>1 DEF MatrixOK
      <4>3. Full(p, planes'[item])
        BY <4>2 DEF Full
      <4>4. NextItem
        BY <1>8, <3>1
      <4> HIDE DEF db, ab
      <4> QED
        BY <1>1, <2>1, <4>3, <4>4, ItemDone
    <3>2. CASE ~(row + c >= p.rows)
      <4>1. count = c /\ row' = row + c /\ item' = item
        BY <1>4, <1>8, <3>2
      <4>2. row' \in Nat /\ row' <= p.rows
        BY <1>4, <1>6, <4>1
      <4>3. c % TileRows = 0 => row' % TileRows = 0
        BY <1>6, <4>1, TileAssumption, Remainders
      <4>4. /\ planes'[item].data_written = row' * RowBytes(p)
            /\ planes'[item].aux_written = row' * ScaleBytes(p)
        BY <2>2, <4>1
      <4> HIDE DEF db, ab
      <4> QED
        BY <1>1, <2>1, <4>1, <4>2, <4>3, <4>4, RowsDone
    <3> QED
      BY <3>1, <3>2
  <2>4. pc' = "write" /\ result' = result
    BY <1>1, <1>8
  <2> QED
    BY <1>2, <1>3, <2>3, <2>4 DEF WriteInv, Steady, Planning, Unread
<1>9. CASE IoFails \/ Return("weight")
  <2>1. pc' = "returned" /\ result' \in {"io", "weight"}
    BY <1>9 DEF IoFails, Return
  <2> QED
    BY <1>2, <2>1 DEF WriteInv, Steady, Planning, Unread
<1> QED
  BY <1>7, <1>8, <1>9 DEF WriteChunk

LEMMA WholePreserves ==
  ASSUME WriteInv, WriteWhole
  PROVE  WriteInv'
<1> DEFINE p == plan[item]
           bytes == WholeBytes(p)
<1>1. /\ pc = "write" /\ item <= Len(plan) /\ p.kind \in {"tensor", "draft_token_ids"}
      /\ UNCHANGED <<fileVars, sourceVars>>
  BY DEF WriteWhole
<1>2. Steady' /\ ~IsMatrix(p) /\ item \in DOMAIN plan
  BY <1>1, SteadyKept DEF IsMatrix, WriteInv, Progress
<1>3. changed' = changed /\ options' = options
  BY <1>1 DEF fileVars, sourceVars
<1>4. WholeOK(p)
  BY <1>1, <1>2 DEF WriteInv, ItemOK
<1>5. bytes = p.data_bytes /\ bytes \in Int /\ p.aux_bytes = 0
  BY <1>4 DEF WholeOK
<1>6. CASE /\ Append2(IF p.kind = "tensor" THEN <<p.name>> ELSE p.selected_rows, bytes, <<>>, 0)
           /\ NextItem /\ UNCHANGED <<pc, result>>
  <2>1. Adds(bytes, 0)
    BY <1>1, <1>5, <1>6, AppendAdds
  <2>2. planes[item].data_written = 0 /\ planes[item].aux_written = 0
    BY <1>1, <1>2, WholeFits
  <2>3. Full(p, planes'[item])
    BY <1>5, <2>1, <2>2 DEF Adds, Full
  <2>4. Progress'
    <3> HIDE DEF bytes
    <3> QED
      BY <1>1, <1>6, <2>1, <2>3, ItemDone
  <2>5. pc' = "write" /\ result' = result
    BY <1>1, <1>6
  <2> QED
    BY <1>2, <1>3, <2>4, <2>5 DEF WriteInv, Steady, Planning, Unread
<1>7. CASE IoFails
  <2>1. pc' = "returned" /\ result' = "io"
    BY <1>7 DEF IoFails, Return
  <2> QED
    BY <1>2, <2>1 DEF WriteInv, Steady, Planning, Unread
<1> QED
  BY <1>6, <1>7 DEF WriteWhole, WholeBytes

LEMMA ResourcePreserves ==
  ASSUME WriteInv, disk \in Disks \cup Replacements, WriteResource
  PROVE  WriteInv'
<1> DEFINE p == plan[item]
           bytes == disk.resources[p.name]
<1>1. /\ pc = "write" /\ item <= Len(plan) /\ p.kind = "resource"
      /\ UNCHANGED <<fileVars, sourceVars>>
  BY DEF WriteResource
<1>2. Steady' /\ ~IsMatrix(p) /\ item \in DOMAIN plan
  BY <1>1, SteadyKept DEF IsMatrix, WriteInv, Progress
<1>3. changed' = changed /\ options' = options
  BY <1>1 DEF fileVars, sourceVars
<1>4. ResourceOK(p)
  BY <1>1, <1>2 DEF WriteInv, ItemOK
<1>5. p.aux_bytes = 0 /\ (~changed => bytes = p.data_bytes)
  BY <1>4 DEF ResourceOK
<1>6. CASE Append2(<<p.name>>, bytes, <<>>, 0) /\ NextItem /\ UNCHANGED <<pc, result>>
  <2>1. bytes \in Int
    BY <1>4, DisksAssumption DEF ResourceOK
  <2>2. Adds(bytes, 0)
    BY <1>1, <1>6, <2>1, AppendAdds
  <2>3. planes[item].data_written = 0 /\ planes[item].aux_written = 0
    BY SMTT(30), <1>1, <1>2, WholeFits
  <2>4. Full(p, planes'[item])
    BY <1>1, <1>5, <2>1, <2>2, <2>3 DEF Adds, Full
  <2>5. Progress'
    <3> HIDE DEF bytes
    <3> QED
      BY <1>1, <1>6, <2>2, <2>4, ItemDone
  <2>6. pc' = "write" /\ result' = result
    BY <1>1, <1>6
  <2> QED
    BY <1>2, <1>3, <2>5, <2>6 DEF WriteInv, Steady, Planning, Unread
<1>7. CASE Return("resource") \/ IoFails
  <2>1. pc' = "returned" /\ result' \in {"resource", "io"}
    BY <1>7 DEF IoFails, Return
  <2> QED
    BY <1>2, <2>1 DEF WriteInv, Steady, Planning, Unread
<1> QED
  BY <1>6, <1>7 DEF WriteResource

LEMMA FinalizePreserves ==
  ASSUME WriteInv, Finalize
  PROVE  WriteInv'
<1>1. /\ pc = "write" /\ item > Len(plan) /\ UNCHANGED <<fileVars, sourceVars>>
      /\ UNCHANGED writerVars
  BY DEF Finalize
<1>2. Steady' /\ changed' = changed /\ options' = options
  BY <1>1, SteadyKept DEF fileVars, sourceVars
<1>3. CASE pc' = "installed" /\ result' = result
  BY <1>2, <1>3 DEF WriteInv, Steady, Planning, Unread
<1>4. CASE /\ \E n \in DOMAIN plan : \/ planes[n].data_written # plan[n].data_bytes
                                      \/ planes[n].aux_written # plan[n].aux_bytes
           /\ pc' = "returned" /\ result' = "incomplete"
  <2>1. PICK n \in DOMAIN plan : \/ planes[n].data_written # plan[n].data_bytes
                                 \/ planes[n].aux_written # plan[n].aux_bytes
    BY <1>4
  <2>2. n < item
    BY <1>1 DEF WriteInv, Progress
  <2>3. Full(plan[n], planes[n])
    BY <1>1, <2>2 DEF WriteInv, Progress
  <2>4. changed
    BY <2>1, <2>3 DEF Full
  <2> QED
    BY <1>2, <1>4, <2>4 DEF WriteInv, Steady, Planning, Unread
<1>5. CASE pc' = "returned" /\ result' = "io"
  BY <1>2, <1>5 DEF WriteInv, Steady, Planning, Unread
<1> QED
  BY <1>3, <1>4, <1>5 DEF Finalize, Goto, Return, IoFails

LEMMA CreatePreserves ==
  ASSUME WriteInv, CreateWriter
  PROVE  WriteInv'
<1>1. pc = "create" /\ UNCHANGED <<fileVars, sourceVars, item, row>>
  BY DEF CreateWriter
<1>2. Steady' /\ changed' = changed /\ options' = options /\ plan' = plan
  BY <1>1, SteadyKept DEF fileVars, sourceVars
<1>3. item = 1 /\ row = 0 /\ Len(plan) \in Nat /\ DOMAIN plan = 1..Len(plan)
      /\ \A n \in DOMAIN plan : ItemOK(plan[n])
  BY <1>1 DEF WriteInv
<1>4. CASE /\ planes' = [n \in DOMAIN plan |-> [data |-> <<>>, aux |-> <<>>,
                                                data_written |-> 0, aux_written |-> 0]]
           /\ pc' = "write" /\ result' = result
  <2>1. planes' = [n \in DOMAIN plan |-> planes'[n]]
    BY <1>4
  <2>2. \A n \in DOMAIN plan : IsPlane(planes'[n]) /\ Empty(planes'[n])
    BY <1>4 DEF IsPlane, Empty
  <2>3. \A n \in DOMAIN plan : n < 1 => Full(plan[n], planes'[n])
    BY <1>3
  <2>4. ASSUME NEW n \in DOMAIN plan
        PROVE  Part(plan[n], planes[n])'
    <3>1. planes'[n].data_written = 0 /\ planes'[n].aux_written = 0 /\ row' = 0
      BY <1>1, <1>3, <2>2 DEF Empty
    <3>2. CASE IsMatrix(plan[n])
      <4>1. 0 <= plan[n].rows /\ 0 = 0 * RowBytes(plan[n]) /\ 0 = 0 * ScaleBytes(plan[n])
            /\ 0 % TileRows = 0
        BY <1>3, <3>2, Untouched
      <4> QED
        BY <1>2, <3>1, <3>2, <4>1 DEF Part, RowBytes, ScaleBytes, IsMatrix
    <3>3. CASE ~IsMatrix(plan[n])
      BY <1>2, <3>1, <3>3 DEF Part, Empty, IsMatrix
    <3> QED
      BY <3>2, <3>3
  <2>5. item' \in 1..Len(plan) + 1 /\ row' \in Nat /\ item' = 1
    BY <1>1, <1>3
  <2>6. Progress'
    BY <1>2, <2>1, <2>2, <2>3, <2>4, <2>5 DEF Progress, IsPlane, Full, Empty
  <2> QED
    BY <1>2, <1>4, <2>6 DEF WriteInv, Steady, Planning, Unread
<1>5. CASE pc' = "returned" /\ result' \in {"storage", "io"}
  BY <1>2, <1>5 DEF WriteInv, Steady, Planning, Unread
<1> QED
  BY <1>4, <1>5 DEF CreateWriter, Goto, Return, IoFails

LEMMA PlanPreserves ==
  ASSUME SourceInv, WriteInv, MakePlan
  PROVE  WriteInv'
<1>1. /\ pc = "plan" /\ plan = <<>> /\ item = 1 /\ row = 0
      /\ UNCHANGED <<disk, changed, options, index, shards, item, row>>
  BY DEF MakePlan, WriteInv, Planning, fileVars, writerVars
<1>2. CASE plan' = plan /\ pc' = "returned" /\ result' \in {"source", "ranking", "resource"}
  <2>1. Len(plan) = 0 /\ DOMAIN plan = {}
    BY <1>1
  <2> QED
    BY <1>1, <1>2, <2>1 DEF WriteInv, Planning, Unread
<1>3. CASE /\ plan' = make_plan /\ pc' \in {"returned", "create"} /\ result' \in {result, "ok"}
           /\ \A name \in Range(ModelNames) : bf16_available(name)
           /\ ranked(options) => disk.ranking # NoRanking /\ head_available
  <2>1. Plannable
    BY <1>1, <1>3 DEF Plannable, SourceInv
  <2>2. \A n \in DOMAIN make_plan : ItemOK(make_plan[n])
    BY <2>1, ItemsOfPlan, PlannedItems
  <2>3. \A n \in DOMAIN plan' : ItemOK(plan[n])'
    <3> SUFFICES ASSUME NEW n \in DOMAIN make_plan PROVE ItemOK(plan[n])'
      BY <1>3
    <3> DEFINE p == make_plan[n]
    <3>1. ItemOK(p) /\ plan'[n] = p
      BY <1>3, <2>2
    <3> HIDE DEF p
    <3>2. /\ IsMatrix(plan[n])' <=> IsMatrix(p)
          /\ MatrixOK(plan[n])' <=> MatrixOK(p)
      BY <3>1 DEF IsMatrix, MatrixOK, RowBytes, ScaleBytes
    <3>3. /\ DraftOK(plan[n])' <=> DraftOK(p)
          /\ WholeOK(plan[n])' <=> WholeOK(p)
      BY <1>1, <3>1 DEF DraftOK, WholeOK, WholeBytes, Descriptor
    <3>4. ResourceOK(plan[n])' <=> ResourceOK(p)
      BY <1>1, <3>1 DEF ResourceOK
    <3> QED
      BY <3>1, <3>2, <3>3, <3>4 DEF ItemOK
  <2>4. Len(make_plan) \in Nat /\ DOMAIN make_plan = 1..Len(make_plan)
    BY ItemsOfPlan
  <2> QED
    BY <1>1, <1>3, <2>3, <2>4 DEF WriteInv, Planning, Unread
<1> QED
  BY <1>2, <1>3 DEF MakePlan, Goto, Return

LEMMA BeforePlanPreserves ==
  ASSUME WriteInv, CheckOptions \/ Validate \/ LoadIndex \/ OpenShard
  PROVE  WriteInv'
<1> USE DEF fileVars, sourceVars, writerVars
<1>1. /\ pc \in Planning /\ UNCHANGED <<changed, options, plan, item, row>>
      /\ pc' \in Planning \cup {"returned"}
      /\ result' \in {result, "invalid", "invalid source", "source", "io"}
  BY DEF CheckOptions, Validate, LoadIndex, OpenShard, Goto, Return, IoFails, Planning, Unread
<1>2. plan = <<>> /\ Len(plan) = 0 /\ DOMAIN plan = {}
  <2>1. plan = <<>>
    BY <1>1 DEF WriteInv
  <2> QED
    BY <2>1
<1>3. pc' # "write"
  BY <1>1 DEF Planning, Unread
<1> QED
  BY <1>1, <1>2, <1>3 DEF WriteInv

LEMMA ReplacePreserves ==
  ASSUME WriteInv, Replace
  PROVE  WriteInv'
<1> USE DEF fileVars, sourceVars, writerVars
<1>1. UNCHANGED <<options, index, shards, plan, item, row, planes, pc, result>> /\ changed'
  BY DEF Replace
<1>2. \A n \in DOMAIN plan : ItemOK(plan[n])'
  <2> SUFFICES ASSUME NEW n \in DOMAIN plan PROVE ItemOK(plan[n])'
    OBVIOUS
  <2>1. ItemOK(plan[n])
    BY DEF WriteInv
  <2>2. /\ IsMatrix(plan[n])' <=> IsMatrix(plan[n])
        /\ MatrixOK(plan[n])' <=> MatrixOK(plan[n])
    BY <1>1 DEF IsMatrix, MatrixOK, RowBytes, ScaleBytes
  <2>3. /\ DraftOK(plan[n])' <=> DraftOK(plan[n])
        /\ WholeOK(plan[n])' <=> WholeOK(plan[n])
    BY <1>1 DEF DraftOK, WholeOK, WholeBytes, Descriptor
  <2>4. ResourceOK(plan[n]) => ResourceOK(plan[n])'
    BY <1>1 DEF ResourceOK
  <2> QED
    BY <1>1, <2>1, <2>2, <2>3, <2>4 DEF ItemOK
<1>3. Progress => Progress'
  <2>1. \A n \in DOMAIN plan : Full(plan[n], planes[n]) => Full(plan[n], planes[n])'
    BY <1>1 DEF Full
  <2>2. \A n \in DOMAIN plan : Part(plan[n], planes[n]) => Part(plan[n], planes[n])'
    BY <1>1 DEF Part, IsMatrix, RowBytes, ScaleBytes, Empty
  <2> QED
    BY <1>1, <2>1, <2>2 DEF Progress, IsPlane, Empty
<1> QED
  BY <1>1, <1>2, <1>3 DEF WriteInv

LEMMA WritePreserved == SourceInv /\ WriteInv /\ [Next]_vars => WriteInv'
<1> SUFFICES ASSUME SourceInv, WriteInv, [Next]_vars PROVE WriteInv'
  OBVIOUS
<1>1. CASE UNCHANGED vars
  <2>1. /\ UNCHANGED <<fileVars, sourceVars>>
        /\ UNCHANGED <<options, changed, plan, item, row, planes, pc, result>>
    BY <1>1 DEF vars, fileVars, sourceVars, writerVars
  <2>2. Steady'
    BY <2>1, SteadyKept
  <2>3. Progress => Progress'
    BY <2>1 DEF Progress, Full, Part, IsMatrix, RowBytes, ScaleBytes, Empty, IsPlane
  <2> QED
    BY <2>1, <2>2, <2>3 DEF WriteInv, Steady
<1>2. CASE StatOutput
  <2>1. UNCHANGED <<fileVars, sourceVars>> /\ UNCHANGED <<item, row, changed, options>>
        /\ pc' = "returned" /\ result' \in {"ok", "io"}
    BY <1>2 DEF StatOutput, Return, IoFails, fileVars, sourceVars, writerVars
  <2>2. Steady'
    BY <2>1, SteadyKept
  <2> QED
    BY <2>1, <2>2 DEF WriteInv, Steady, Planning, Unread
<1> QED
  BY <1>1, <1>2, BeforePlanPreserves, PlanPreserves, ReplacePreserves, CreatePreserves,
     ChunkPreserves, WholePreserves, ResourcePreserves, FinalizePreserves DEF Next, SourceInv

------------------------------------------------------------------------------
(* The weights of the source *)

(* Every source of a matrix is in a mapped shard of the validated files.   *)
OfDisk(p) == IsMatrix(p) => mapped(p.source) = disk.files[weight_map(disk.index)[p.source]]
(* The reason for which alone a valid source is refused.                   *)
NotFinite ==
  \E p \in Range(plan) :
    /\ IsMatrix(p)
    /\ not_finite(disk.files[weight_map(disk.index)[p.source]], p.source) # {}
WeightInv ==
  /\ ~changed /\ pc \in {"create", "write"} => \A p \in Range(plan) : OfDisk(p)
  /\ result = "weight" => pc = "returned" /\ (~changed => NotFinite)

LEMMA MatrixOfSource ==
  ASSUME NEW p \in PlanItems, IsMatrix(p)
  PROVE  p.source \in Range(ModelNames) \/ (ranked(options) /\ p.source = "lm_head")
<1>1. ASSUME NEW r, p = ResourceItem(r) PROVE FALSE
  BY <1>1 DEF ResourceItem, Other, IsMatrix
<1>2. ASSUME NEW name \in Range(ModelNames), p = TensorItem(name) PROVE p.source = name
  <2>1. TensorItem(name).source = name
    BY DEF TensorItem, Matrix, Other
  <2> QED
    BY <1>2, <2>1
<1>3. CASE ranked(options) /\ p \in {DraftItems(DraftRowsOf)[1], DraftItems(DraftRowsOf)[2]}
  BY <1>3 DEF DraftItems, Matrix, Other, IsMatrix
<1> QED
  BY <1>1, <1>2, <1>3 DEF PlanItems

LEMMA PlannedOfDisk ==
  ASSUME SourceInv, ~changed, pc = "plan", NEW p \in PlanItems
  PROVE  OfDisk(p)
<1> SUFFICES ASSUME IsMatrix(p) PROVE mapped(p.source) = disk.files[weight_map(disk.index)[p.source]]
  BY DEF OfDisk
<1>1. index = disk.index /\ \A s \in shard_names(index) : shards[s] = disk.files[s]
  BY DEF SourceInv
<1>2. Available(p.source)
  BY MatrixOfSource, SourcePlans DEF bf16_available, head_available
<1>3. weight_map(index)[p.source] \in shard_names(index)
  <2>1. \E m \in Range(index.weight_map) : m[1] = p.source
    BY <1>2 DEF Available, weight_map
  <2> QED
    BY <1>2, <2>1 DEF Available, weight_map, shard_names
<1> QED
  BY <1>1, <1>3 DEF mapped

LEMMA WeightInitially == Init => WeightInv
BY DEF Init, WeightInv

LEMMA WeightChunk ==
  ASSUME WeightInv, WriteInv, WriteChunk
  PROVE  WeightInv'
<1> DEFINE p == plan[item]
<1>1. /\ pc = "write" /\ item <= Len(plan) /\ IsMatrix(p) /\ UNCHANGED <<fileVars, sourceVars>>
      /\ UNCHANGED <<disk, changed, index, shards, plan>>
  BY DEF WriteChunk, IsMatrix, fileVars, sourceVars
<1>2. item \in DOMAIN plan /\ result # "weight" /\ p \in Range(plan)
  BY <1>1 DEF WriteInv, Progress, WeightInv, Range
<1>3. (\A q \in Range(plan) : OfDisk(q)) => (\A q \in Range(plan) : OfDisk(q))'
  BY <1>1 DEF OfDisk, IsMatrix, mapped
<1>4. CASE result' = "weight"
  <2>1. pc' = "returned" /\ ~quantizes(p.source, chunk_rows)
    BY <1>2, <1>4 DEF WriteChunk, Return, IoFails
  <2>2. ASSUME ~changed PROVE NotFinite
    <3>1. mapped(p.source) = disk.files[weight_map(disk.index)[p.source]]
      BY <1>1, <1>2, <2>2 DEF WeightInv, OfDisk
    <3>2. not_finite(mapped(p.source), p.source) # {}
      BY <2>1 DEF quantizes
    <3> QED
      BY <1>1, <1>2, <3>1, <3>2 DEF NotFinite
  <2>3. NotFinite' <=> NotFinite
    BY <1>1 DEF NotFinite, IsMatrix
  <2> QED
    BY <1>1, <2>1, <2>2, <2>3 DEF WeightInv
<1>5. CASE result' # "weight"
  BY <1>1, <1>3, <1>5 DEF WeightInv
<1> QED
  BY <1>4, <1>5

LEMMA WeightPreserved == SourceInv /\ WriteInv /\ WeightInv /\ [Next]_vars => WeightInv'
<1> SUFFICES ASSUME SourceInv, WriteInv, WeightInv, [Next]_vars PROVE WeightInv'
  OBVIOUS
<1> USE DEF fileVars, sourceVars, writerVars
<1>1. CASE UNCHANGED vars
  BY <1>1 DEF vars, WeightInv, OfDisk, NotFinite, IsMatrix, mapped
<1>2. CASE Replace
  BY <1>2 DEF Replace, WeightInv
<1>3. CASE CheckOptions \/ Validate \/ LoadIndex \/ OpenShard
  <2>1. pc \in Planning /\ pc' \in Planning \cup {"returned"}
        /\ result' \in {result, "invalid", "invalid source", "source", "io"}
    BY <1>3 DEF CheckOptions, Validate, LoadIndex, OpenShard, Goto, Return, IoFails, Planning, Unread
  <2>2. pc # "returned" /\ pc' \notin {"create", "write"}
    BY <2>1 DEF Planning, Unread
  <2> QED
    BY <2>1, <2>2 DEF WeightInv
<1>4. CASE MakePlan
  <2>1. /\ pc = "plan" /\ UNCHANGED <<disk, changed, options, index, shards>>
        /\ result' \in {result, "source", "ranking", "resource", "ok"}
        /\ pc' \in {"returned", "create"} /\ (pc' = "create" => plan' = make_plan)
    BY <1>4 DEF MakePlan, Goto, Return
  <2>2. result' # "weight"
    BY <2>1 DEF WeightInv
  <2>3. ASSUME ~changed, pc' = "create" PROVE (\A p \in Range(plan) : OfDisk(p))'
    <3>1. \A p \in Range(make_plan) : OfDisk(p)
      BY <2>1, <2>3, ItemsOfPlan, PlannedOfDisk DEF Range
    <3> QED
      BY <2>1, <2>3, <3>1 DEF OfDisk, IsMatrix, mapped
  <2> QED
    BY <2>1, <2>2, <2>3 DEF WeightInv
<1>5. CASE CreateWriter \/ WriteWhole \/ WriteResource \/ Finalize \/ StatOutput
  <2>1. /\ UNCHANGED <<disk, changed, index, shards, plan>>
        /\ pc \in {"create", "write", "installed"}
        /\ pc' \in {"write", "installed", "returned"}
        /\ result' \in {result, "storage", "io", "resource", "incomplete", "ok"}
        /\ pc' = "write" => pc \in {"create", "write"}
    BY <1>5 DEF CreateWriter, WriteWhole, WriteResource, Finalize, StatOutput, Goto, Return, IoFails
  <2>2. (\A q \in Range(plan) : OfDisk(q)) => (\A q \in Range(plan) : OfDisk(q))'
    BY <2>1 DEF OfDisk, IsMatrix, mapped
  <2> QED
    BY <2>1, <2>2 DEF WeightInv
<1> QED
  BY <1>1, <1>2, <1>3, <1>4, <1>5, WeightChunk DEF Next

(* A checkpoint that passes the validation and is left alone has all that  *)
(* the conversion asks of it, and what was planned of it can be written,   *)
(* unless a matrix to be quantized has a weight that is not finite: that   *)
(* is the one thing of the source the validation leaves to be found late.  *)
(* (safetensors.cpp:298-345, converter.cpp:373, 439, 478-497, 545-575)     *)
THEOREM ValidSourceIsConverted == Spec => []ValidSourceConverts
<1> DEFINE IInv == SourceInv /\ WriteInv /\ WeightInv
<1>1. Init => IInv
  BY SourceInitially, WriteInitially, WeightInitially
<1>2. IInv /\ [Next]_vars => IInv'
  BY SourcePreserved, WritePreserved, WeightPreserved
<1>3. IInv => ValidSourceConverts
  BY DEF SourceInv, WriteInv, WeightInv, NotFinite, IsMatrix, ValidSourceConverts
<1> QED
  BY <1>1, <1>2, <1>3, PTL DEF Spec

------------------------------------------------------------------------------
(* Codes as bits *)

LEMMA Groups ==
  /\ KTiles \in Nat \ {0} /\ kGroupSize = 32 * KTiles /\ kGroupSize \in Nat
  /\ kGroupSize \div 8 = 4 * KTiles /\ (3 * kGroupSize) \div 8 = 12 * KTiles
<1>1. KTiles \in Nat \ {0} /\ kGroupSize = 32 * KTiles
  BY TileAssumption DEF kGroupSize, FragmentCodes
<1> QED
  BY <1>1

CodeOf(format) == 0..2^bits[format] - 1

LEMMA CodeRange ==
  ASSUME NEW format \in Formats
  PROVE  CodeOf(format) = IF format = "w2" THEN 0..3 ELSE IF format = "w3" THEN 0..7 ELSE 0..15
<1>1. 2^2 = 4 /\ 2^3 = 8 /\ 2^4 = 16
  OBVIOUS
<1>2. bits["w2"] = 2 /\ bits["w3"] = 3 /\ bits["w4"] = 4
  BY DEF bits
<1>3. CodeOf("w2") = 0..2^2 - 1 /\ CodeOf("w3") = 0..2^3 - 1 /\ CodeOf("w4") = 0..2^4 - 1
  BY <1>2, Zenon DEF CodeOf
<1>4. CodeOf("w2") = 0..3 /\ CodeOf("w3") = 0..7 /\ CodeOf("w4") = 0..15
  BY <1>1, <1>3
<1> QED
  BY <1>4 DEF Formats

(* The bits of a number, and the number they stand for.                    *)
LEMMA NumberBits ==
  ASSUME NEW v \in 0..15
  PROVE  /\ 0 \in Number(v) <=> v % 2 = 1
         /\ 1 \in Number(v) <=> (v \div 2) % 2 = 1
         /\ 2 \in Number(v) <=> (v \div 4) % 2 = 1
         /\ 3 \in Number(v) <=> (v \div 8) % 2 = 1
         /\ Number(v) \subseteq 0..3
<1>1. 2^0 = 1 /\ 2^1 = 2 /\ 2^2 = 4 /\ 2^3 = 8 /\ v \div 1 = v
  OBVIOUS
<1> QED
  BY <1>1 DEF Number

LEMMA ValueBits ==
  ASSUME NEW word
  PROVE  Value(word) = (IF 0 \in word THEN 1 ELSE 0) + (IF 1 \in word THEN 2 ELSE 0)
                       + (IF 2 \in word THEN 4 ELSE 0) + (IF 3 \in word THEN 8 ELSE 0)
<1>1. 2^0 = 1 /\ 2^1 = 2 /\ 2^2 = 4 /\ 2^3 = 8
  OBVIOUS
<1> QED
  BY <1>1 DEF Value

(* A code takes no more bits than its format has.                          *)
LEMMA CodeFits ==
  ASSUME NEW format \in Formats, NEW v \in CodeOf(format)
  PROVE  Number(v) \subseteq 0..bits[format] - 1 /\ v \in 0..15
<1>1. v \in 0..15
  BY CodeRange DEF Formats
<1>2. CASE format = "w2"
  <2>1. v \in 0..3
    BY <1>2, CodeRange
  <2>2. (v \div 4) % 2 = 0 /\ (v \div 8) % 2 = 0
    BY <2>1
  <2>3. 2 \notin Number(v) /\ 3 \notin Number(v) /\ Number(v) \subseteq 0..3
    BY <1>1, <2>2, NumberBits
  <2>4. bits[format] - 1 = 1
    BY <1>2 DEF bits
  <2> QED
    BY <1>1, <2>3, <2>4
<1>3. CASE format = "w3"
  <2>1. v \in 0..7
    BY <1>3, CodeRange
  <2>2. (v \div 8) % 2 = 0
    BY <2>1
  <2>3. 3 \notin Number(v) /\ Number(v) \subseteq 0..3
    BY <1>1, <2>2, NumberBits
  <2>4. bits[format] - 1 = 2
    BY <1>3 DEF bits
  <2> QED
    BY <1>1, <2>3, <2>4
<1>4. CASE format = "w4"
  <2>1. bits[format] - 1 = 3
    BY <1>4 DEF bits
  <2> QED
    BY <1>1, <2>1, NumberBits
<1> QED
  BY <1>2, <1>3, <1>4 DEF Formats

------------------------------------------------------------------------------
(* Rows *)

Columns == 0..2 * kGroupSize - 1
Codes(format) == [Columns -> CodeOf(format)]

(* Where the bits of a column are, as one number.                          *)
BitAt(format, column, p) ==
  CASE format = "w2" -> 2 * column + p
    [] format = "w3" -> IF column < kGroupSize THEN p * kGroupSize + column
                        ELSE 3 * kGroupSize + p * kGroupSize + (column - kGroupSize)
    [] format = "w4" -> 4 * column + p

LEMMA CodeBitIs ==
  ASSUME NEW format \in Formats, NEW column \in Columns, NEW p \in 0..bits[format] - 1
  PROVE  CodeBit(format, column, p) = BitAt(format, column, p)
<1> DEFINE G == kGroupSize
<1>1. G \in Nat /\ column \in Nat /\ column < 2 * G
  BY Groups DEF Columns
<1>2. CASE format = "w2"
  <2>1. p \in Int
    BY <1>2 DEF bits
  <2>2. 8 * (column \div 4) + 2 * (column % 4) + p = 2 * column + p
    BY <1>1, <2>1
  <2> QED
    BY <1>2, <2>2 DEF CodeBit, BitAt
<1>3. CASE format = "w4"
  <2>1. p \in Int
    BY <1>3 DEF bits
  <2>2. 8 * (column \div 2) + 4 * (column % 2) + p = 4 * column + p
    BY <1>1, <2>1
  <2> QED
    BY <1>3, <2>2 DEF CodeBit, BitAt
<1>4. CASE format = "w3"
  <2> DEFINE l == IF column < G THEN column ELSE column - G
             g == IF column < G THEN 0 ELSE 1
             K == KTiles
  <2>1. p \in {0, 1, 2}
    BY <1>4 DEF bits
  <2>2. K \in Nat \ {0} /\ G = 32 * K /\ G \div 8 = 4 * K /\ (3 * G) \div 8 = 12 * K
    BY Groups
  <2> HIDE DEF G, K
  <2>3. column \div G = g /\ column % G = l
    <3>1. CASE column < G
      <4>1. column \div G = 0 /\ column % G = column
        BY <1>1, <3>1
      <4> QED
        BY <3>1, <4>1
    <3>2. CASE ~(column < G)
      <4>1. column \div G = 1 /\ column % G = column - G
        BY <1>1, <3>2
      <4> QED
        BY <3>2, <4>1
    <3> QED
      BY <3>1, <3>2
  <2>4. l \in Nat /\ l % 8 = column % 8
    BY <1>1, <2>2
  <2>5. 8 * (l \div 8) + (column % 8) = l
    BY <2>4
  <2>6. CodeBit(format, column, p) = 8 * (g * (12 * K) + p * (4 * K) + l \div 8) + (column % 8)
    BY <1>4, <2>2, <2>3 DEF CodeBit, G
  <2>7. g \in {0, 1}
    OBVIOUS
  <2>8. BitAt(format, column, p) = g * (3 * G) + p * G + l
    BY <1>1, <1>4, <2>1, <2>2 DEF BitAt, G
  <2> HIDE DEF g, l
  <2>9. 8 * (g * (12 * K) + p * (4 * K) + l \div 8) + (column % 8) = g * (3 * G) + p * G + l
    BY <1>1, <2>1, <2>2, <2>4, <2>5, <2>7
  <2> QED
    BY <2>6, <2>8, <2>9
<1> QED
  BY <1>2, <1>3, <1>4 DEF Formats

(* No two bits of codes are in one place.                                  *)
LEMMA BitsApart ==
  ASSUME NEW format \in Formats, NEW c1 \in Columns, NEW c2 \in Columns,
         NEW p1 \in 0..bits[format] - 1, NEW p2 \in 0..bits[format] - 1,
         BitAt(format, c1, p1) = BitAt(format, c2, p2)
  PROVE  c1 = c2 /\ p1 = p2
<1> DEFINE G == kGroupSize
<1>1. G \in Nat /\ c1 \in Nat /\ c2 \in Nat /\ c1 < 2 * G /\ c2 < 2 * G
  BY Groups DEF Columns
<1>2. CASE format = "w2"
  <2>1. p1 \in {0, 1} /\ p2 \in {0, 1}
    BY <1>2 DEF bits
  <2> QED
    BY <1>1, <1>2, <2>1 DEF BitAt
<1>3. CASE format = "w4"
  <2>1. p1 \in {0, 1, 2, 3} /\ p2 \in {0, 1, 2, 3}
    BY <1>3 DEF bits
  <2> QED
    BY <1>1, <1>3, <2>1 DEF BitAt
<1>4. CASE format = "w3"
  <2>1. p1 \in {0, 1, 2} /\ p2 \in {0, 1, 2}
    BY <1>4 DEF bits
  <2>2. (IF c1 < G THEN p1 * G + c1 ELSE 3 * G + p1 * G + (c1 - G)) =
        (IF c2 < G THEN p2 * G + c2 ELSE 3 * G + p2 * G + (c2 - G))
    BY <1>4 DEF BitAt
  <2> HIDE DEF G
  <2> QED
    BY <1>1, <2>1, <2>2
<1> QED
  BY <1>2, <1>3, <1>4 DEF Formats

(* A packed row has just the bits of its codes.                            *)
LEMMA RowBits ==
  ASSUME NEW format \in Formats, NEW codes \in Codes(format),
         NEW column \in Columns, NEW p \in 0..bits[format] - 1
  PROVE  BitAt(format, column, p) \in store_codes(codes, format) <=> p \in Number(codes[column])
<1>1. DOMAIN codes = Columns /\ \A c \in Columns : codes[c] \in CodeOf(format)
  BY DEF Codes
<1>2. \A c \in Columns : Number(codes[c]) \subseteq 0..bits[format] - 1
  BY <1>1, CodeFits
<1>3. \A b : b \in store_codes(codes, format) <=>
               \E c \in Columns : \E q \in Number(codes[c]) : b = CodeBit(format, c, q)
  BY <1>1 DEF store_codes
<1>4. \A c \in Columns : \A q \in Number(codes[c]) : CodeBit(format, c, q) = BitAt(format, c, q)
  BY <1>2, CodeBitIs
<1>5. ASSUME p \in Number(codes[column])
      PROVE  BitAt(format, column, p) \in store_codes(codes, format)
  BY <1>3, <1>4, <1>5
<1>6. ASSUME BitAt(format, column, p) \in store_codes(codes, format)
      PROVE  p \in Number(codes[column])
  <2>1. PICK c \in Columns :
          \E q \in Number(codes[c]) : BitAt(format, column, p) = CodeBit(format, c, q)
    BY <1>3, <1>6
  <2>2. PICK q \in Number(codes[c]) : BitAt(format, column, p) = CodeBit(format, c, q)
    BY <2>1
  <2>3. BitAt(format, column, p) = BitAt(format, c, q) /\ q \in 0..bits[format] - 1
    BY <1>2, <1>4, <2>2
  <2>4. c = column /\ q = p
    BY <2>3, BitsApart
  <2> QED
    BY <2>2, <2>4
<1> QED
  BY <1>5, <1>6

LEMMA RowInts ==
  ASSUME NEW format \in Formats, NEW codes \in Codes(format)
  PROVE  store_codes(codes, format) \subseteq Int
<1>1. DOMAIN codes = Columns /\ \A c \in Columns : codes[c] \in CodeOf(format)
  BY DEF Codes
<1> SUFFICES ASSUME NEW c \in Columns, NEW q \in Number(codes[c])
             PROVE  CodeBit(format, c, q) \in Int
  BY <1>1 DEF store_codes
<1>2. q \in 0..bits[format] - 1 /\ q \in Int
  <2>1. q \in 0..bits[format] - 1
    BY <1>1, CodeFits
  <2> QED
    BY <2>1 DEF Formats, bits
<1>3. CodeBit(format, c, q) = BitAt(format, c, q)
  BY <1>2, CodeBitIs
<1>4. kGroupSize \in Nat /\ c \in Nat
  BY Groups DEF Columns
<1>5. q * kGroupSize \in Int
  BY <1>2, <1>4
<1> QED
  BY <1>2, <1>3, <1>4, <1>5 DEF BitAt, Formats

------------------------------------------------------------------------------
(* Fragments: the codes of 32 columns, one behind the other *)

First32(group, k_tile) == group * kGroupSize + 32 * k_tile

(* A fragment that holds codes.                                            *)
HoldsCodes(bytes, format, code) ==
  \A c \in 0..31 : \A p \in 0..bits[format] - 1 :
    bits[format] * c + p \in bytes <=> p \in Number(code[c])

(* The columns of a fragment.                                              *)
LEMMA FragmentColumns ==
  ASSUME NEW group \in {0, 1}, NEW k_tile \in 0..KTiles - 1, NEW c \in 0..31
  PROVE  /\ First32(group, k_tile) \in Nat
         /\ First32(group, k_tile) + c \in Columns
         /\ First32(group, k_tile) = 32 * (group * KTiles + k_tile)
<1> DEFINE K == KTiles
<1>1. K \in Nat \ {0} /\ kGroupSize = 32 * K
  BY Groups
<1>2. k_tile \in Nat /\ k_tile <= K - 1
  BY <1>1
<1> HIDE DEF K
<1>3. First32(group, k_tile) = 32 * (group * K) + 32 * k_tile
  BY <1>1 DEF First32
<1>4. group * K \in {0, K}
  BY <1>1
<1>5. 32 * (group * K) + 32 * k_tile + c \in 0..2 * (32 * K) - 1
  BY <1>1, <1>2, <1>4
<1> QED
  BY <1>1, <1>2, <1>3, <1>4, <1>5 DEF Columns, K

LEMMA LoadBits ==
  ASSUME NEW bytes \in SUBSET Int, NEW offset \in Int, NEW count \in Int, NEW k \in Int
  PROVE  k \in Load(bytes, offset, count)
           <=> k >= 0 /\ k < 8 * count /\ 8 * offset + k \in bytes
<1>1. k \in Load(bytes, offset, count)
        <=> \E p \in bytes : p >= 8 * offset /\ p < 8 * (offset + count) /\ k = p - 8 * offset
  BY DEF Load
<1>2. ASSUME NEW p \in bytes, p >= 8 * offset, p < 8 * (offset + count), k = p - 8 * offset
      PROVE  k >= 0 /\ k < 8 * count /\ 8 * offset + k \in bytes
  BY <1>2
<1> QED
  BY <1>1, <1>2

LEMMA LoadInts ==
  ASSUME NEW bytes \in SUBSET Int, NEW offset \in Int, NEW count \in Int
  PROVE  Load(bytes, offset, count) \subseteq Int
BY DEF Load

(* The two parts of a code of a w3 fragment are next to each other.        *)
LEMMA ResequenceBits ==
  ASSUME NEW code \in SUBSET (0..2), NEW i \in 0..31, NEW k
  PROVE  k \in resequence(code, i) <=> \E p \in code : k = 3 * i + p
<1> DEFINE byte == (3 * i) \div 8
           shift == (3 * i) % 8
<1>1. byte \in Nat /\ shift \in 0..7 /\ 3 * i = 8 * byte + shift
  OBVIOUS
<1>2. k \in resequence(code, i)
        <=> \/ \E p \in code : shift + p < 8 /\ k = 8 * byte + shift + p
            \/ shift > 5 /\ \E p \in code : p >= 8 - shift /\ k = 8 * (byte + 1) + p - (8 - shift)
  BY DEF resequence
<1> HIDE DEF byte, shift
<1>3. ASSUME NEW p \in code
      PROVE  /\ 8 * byte + shift + p = 3 * i + p
             /\ 8 * (byte + 1) + p - (8 - shift) = 3 * i + p
             /\ shift + p < 8 \/ (shift > 5 /\ p >= 8 - shift)
  <2>1. p \in 0..2
    OBVIOUS
  <2> QED
    BY <1>1, <2>1
<1>4. ASSUME k \in resequence(code, i)
      PROVE  \E p \in code : k = 3 * i + p
  <2>1. \E p \in code : k = 8 * byte + shift + p \/ k = 8 * (byte + 1) + p - (8 - shift)
    BY <1>2, <1>4
  <2> QED
    BY <1>3, <2>1
<1>5. ASSUME NEW p \in code, k = 3 * i + p
      PROVE  k \in resequence(code, i)
  <2>1. CASE shift + p < 8
    <3>1. k = 8 * byte + shift + p
      BY <1>3, <1>5
    <3> QED
      BY <1>2, <2>1, <3>1
  <2>2. CASE shift > 5 /\ p >= 8 - shift
    <3>1. k = 8 * (byte + 1) + p - (8 - shift)
      BY <1>3, <1>5
    <3> QED
      BY <1>2, <2>2, <3>1
  <2> QED
    BY <1>3, <2>1, <2>2
<1> QED
  BY <1>4, <1>5

(* The fragments of a packed row.                                          *)
LEMMA FragmentHolds ==
  ASSUME NEW format \in Formats, NEW codes \in Codes(format),
         NEW group \in {0, 1}, NEW k_tile \in 0..KTiles - 1
  PROVE  LET bytes == fragment(store_codes(codes, format), group, k_tile, format)
         IN /\ bytes \subseteq Int
            /\ HoldsCodes(bytes, format, [c \in 0..31 |-> codes[First32(group, k_tile) + c]])
<1> DEFINE packed == store_codes(codes, format)
           bytes == fragment(packed, group, k_tile, format)
           at == First32(group, k_tile)
           code == [c \in 0..31 |-> codes[at + c]]
           n == group * KTiles + k_tile
<1>1. packed \in SUBSET Int
  BY RowInts
<1>2. at \in Nat /\ at = 32 * n /\ \A c \in 0..31 : at + c \in Columns
  BY FragmentColumns
<1>3. \A c \in 0..31 : \A p \in 0..bits[format] - 1 :
        BitAt(format, at + c, p) \in packed <=> p \in Number(code[c])
  BY <1>2, RowBits
<1>4. group \in Int /\ KTiles \in Nat /\ k_tile \in Int /\ n \in Int /\ n \in Nat
  <2>1. group \in Nat /\ KTiles \in Nat /\ k_tile \in Nat
    BY Groups
  <2> QED
    BY <2>1
<1> HIDE DEF packed, at, code
<1>5. CASE format \in {"w2", "w4"}
  <2> DEFINE b == bits[format]
  <2>1. b \in {2, 4} /\ fragment_bytes(format) = 4 * b /\ format # "w3"
    <3>1. b \in {2, 4}
      BY <1>5 DEF bits
    <3>2. \A x \in {2, 4} : (32 * x) \div 8 = 4 * x
      OBVIOUS
    <3> QED
      BY <1>5, <3>1, <3>2 DEF fragment_bytes, FragmentCodes
  <2>2. \A c \in Columns : \A p \in 0..b - 1 : BitAt(format, c, p) = b * c + p
    BY <1>5 DEF BitAt, bits
  <2> HIDE DEF b, n
  <2> DEFINE offset == group * (4 * b) * KTiles + k_tile * (4 * b)
  <2>3. offset = 4 * (b * n) /\ offset \in Int
    <3>1. CASE b = 2
      BY <1>4, <3>1 DEF n
    <3>2. CASE b = 4
      BY <1>4, <3>2 DEF n
    <3> QED
      BY <2>1, <3>1, <3>2
  <2>4. bytes = Load(packed, offset, 4 * b)
    BY <2>1 DEF fragment
  <2> HIDE DEF offset, bytes
  <2>5. bytes \subseteq Int
    BY <1>1, <2>1, <2>3, <2>4, LoadInts
  <2>6. ASSUME NEW c \in 0..31, NEW p \in 0..b - 1
        PROVE  b * c + p \in bytes <=> p \in Number(code[c])
    <3> DEFINE k == b * c + p
    <3>1. k \in Int /\ k >= 0 /\ k < 8 * (4 * b) /\ 8 * offset + k = b * (at + c) + p
      <4>1. CASE b = 2
        BY <1>2, <1>4, <2>3, <4>1
      <4>2. CASE b = 4
        BY <1>2, <1>4, <2>3, <4>2
      <4> QED
        BY <2>1, <4>1, <4>2
    <3>2. 8 * offset + k = BitAt(format, at + c, p)
      BY <1>2, <2>2, <3>1
    <3>3. 4 * b \in Int
      BY <2>1
    <3>4. k \in Load(packed, offset, 4 * b) <=>
            k >= 0 /\ k < 8 * (4 * b) /\ 8 * offset + k \in packed
      BY <1>1, <2>3, <3>1, <3>3, LoadBits
    <3> QED
      BY <1>3, <2>4, <3>1, <3>2, <3>4 DEF b
  <2> QED
    BY <2>5, <2>6 DEF HoldsCodes, bytes, packed, code, at, b
<1>6. CASE format = "w3"
  <2> DEFINE taken(i) == load_code(packed, group * kGroupSize + k_tile * 32 + i, format)
  <2>1. \A i \in 0..31 : taken(i) = Number(code[i])
    <3> SUFFICES ASSUME NEW i \in 0..31 PROVE taken(i) = Number(code[i])
      OBVIOUS
    <3>1. group * kGroupSize + k_tile * 32 + i = at + i
      BY <1>4, Groups DEF at, First32
    <3>2. taken(i) = {p \in 0..bits[format] - 1 : CodeBit(format, at + i, p) \in packed}
      BY <3>1 DEF load_code
    <3>3. \A p \in 0..bits[format] - 1 : CodeBit(format, at + i, p) = BitAt(format, at + i, p)
      BY <1>2, CodeBitIs
    <3>4. Number(code[i]) \subseteq 0..bits[format] - 1
      <4>1. code[i] \in CodeOf(format)
        BY <1>2 DEF code, Codes
      <4> QED
        BY <4>1, CodeFits
    <3> HIDE DEF taken
    <3> QED
      BY <1>3, <3>2, <3>3, <3>4
  <2>2. \A i \in 0..31 : taken(i) \in SUBSET (0..2)
    BY <1>6 DEF load_code, bits
  <2>3. bytes = UNION {resequence(taken(i), i) : i \in 0..31}
    BY <1>6 DEF fragment, FragmentCodes
  <2> HIDE DEF taken, bytes
  <2>4. \A k : k \in bytes <=> \E i \in 0..31 : \E q \in taken(i) : k = 3 * i + q
    <3> SUFFICES ASSUME NEW k
                 PROVE  k \in bytes <=> \E i \in 0..31 : \E q \in taken(i) : k = 3 * i + q
      OBVIOUS
    <3>1. k \in bytes <=> \E i \in 0..31 : k \in resequence(taken(i), i)
      BY <2>3
    <3>2. \A i \in 0..31 : k \in resequence(taken(i), i) <=> \E q \in taken(i) : k = 3 * i + q
      BY <2>2, ResequenceBits
    <3> QED
      BY <3>1, <3>2
  <2>5. bytes \subseteq Int
    BY <2>2, <2>4
  <2>6. ASSUME NEW c \in 0..31, NEW p \in 0..2
        PROVE  3 * c + p \in bytes <=> p \in Number(code[c])
    <3>1. \A i \in 0..31 : \A q \in taken(i) : 3 * c + p = 3 * i + q => i = c /\ q = p
      <4> SUFFICES ASSUME NEW i \in 0..31, NEW q \in taken(i), 3 * c + p = 3 * i + q
                   PROVE  i = c /\ q = p
        OBVIOUS
      <4>1. q \in 0..2
        BY <2>2
      <4> QED
        BY <4>1
    <3> QED
      BY <2>1, <2>4, <3>1
  <2>7. bits[format] = 3
    BY <1>6 DEF bits
  <2> QED
    BY <2>5, <2>6, <2>7 DEF HoldsCodes, bytes, packed, code, at
<1> QED
  BY <1>5, <1>6 DEF Formats

------------------------------------------------------------------------------
(* The expansions, stage by stage: where bit m of the packed codes is.     *)

LEMMA Shifts ==
  ASSUME NEW word \in SUBSET Int, NEW n \in Int, NEW q \in Int
  PROVE  /\ q \in Shl(word, n) <=> q \in 0..31 /\ q - n \in word
         /\ q \in Shr(word, n) <=> q >= 0 /\ q + n \in word
<1>1. \A p \in word : (q = p + n <=> p = q - n) /\ (q = p - n <=> p = q + n)
  OBVIOUS
<1>2. q \in Shl(word, n) <=> q \in 0..31 /\ \E p \in word : q = p + n
  BY DEF Shl, Bits
<1>3. q \in Shr(word, n) <=> \E p \in word : p >= n /\ q = p - n
  BY DEF Shr
<1>4. \A p \in word : p = q + n => (p >= n <=> q >= 0)
  OBVIOUS
<1> QED
  BY <1>1, <1>2, <1>3, <1>4

LEMMA ShiftInts ==
  ASSUME NEW word \in SUBSET Int, NEW n \in Int
  PROVE  Shl(word, n) \subseteq Int /\ Shr(word, n) \subseteq Int
BY DEF Shl, Shr, Bits

LEMMA Masks ==
  ASSUME NEW period \in Int, NEW low, NEW high, NEW q
  PROVE  /\ q \in Mask(period, low, high) <=> q \in 0..31 /\ q % period >= low /\ q % period < high
         /\ \A word : q \in Not(word) <=> q \in 0..31 /\ q \notin word
BY DEF Mask, Not, Bits

LEMMA Union2 ==
  ASSUME NEW x, NEW y, NEW z, NEW q
  PROVE  q \in (x \cup y) \cap z <=> (q \in x \/ q \in y) /\ q \in z
OBVIOUS

LEMMA Union4 ==
  ASSUME NEW x, NEW y, NEW z, NEW u, NEW q
  PROVE  q \in x \cup y \cup z \cup u <=> q \in x \/ q \in y \/ q \in z \/ q \in u
OBVIOUS

LEMMA Halves ==
  ASSUME NEW h \in {2, 4, 8}
  PROVE  h \in Int /\ 2 * h \in Int /\ 4 * h \in Int
OBVIOUS

(* Each half of every run of 2 * h bits goes h further than the one before.*)
LEMMA Spread ==
  ASSUME NEW h \in {2, 4, 8}, NEW w \in SUBSET Int, NEW word,
         \A m \in 0..15 : m + 2 * h * (m \div (2 * h)) \in w <=> m \in word,
         \A q \in Int : q \in w => q % (4 * h) < 2 * h
  PROVE  LET r == (w \cup Shl(w, h)) \cap Mask(2 * h, 0, h) IN
           /\ r \subseteq Int
           /\ \A m \in 0..15 : m + h * (m \div h) \in r <=> m \in word
           /\ \A q \in Int : q \in r => q % (2 * h) < h
<1> DEFINE r == (w \cup Shl(w, h)) \cap Mask(2 * h, 0, h)
<1>1. r \subseteq Int
  BY Halves, ShiftInts
<1>2. \A q \in Int : q \in r <=> /\ q \in 0..31 /\ q % (2 * h) >= 0 /\ q % (2 * h) < h
                                 /\ q \in w \/ q - h \in w
  <2> SUFFICES ASSUME NEW q \in Int
               PROVE  q \in r <=> /\ q \in 0..31 /\ q % (2 * h) >= 0 /\ q % (2 * h) < h
                                  /\ q \in w \/ q - h \in w
    OBVIOUS
  <2>1. q \in Shl(w, h) <=> q \in 0..31 /\ q - h \in w
    BY Halves, Shifts
  <2>2. q \in Mask(2 * h, 0, h) <=> q \in 0..31 /\ q % (2 * h) >= 0 /\ q % (2 * h) < h
    BY Halves, Masks
  <2>3. q \in r <=> (q \in w \/ q \in Shl(w, h)) /\ q \in Mask(2 * h, 0, h)
    BY Union2, Zenon
  <2> HIDE DEF r
  <2> QED
    BY <2>1, <2>2, <2>3, Zenon
<1> HIDE DEF r
<1>3. ASSUME NEW m \in 0..15
      PROVE  m + h * (m \div h) \in r <=> m \in word
  <2> DEFINE q == m + h * (m \div h)
             old == m + 2 * h * (m \div (2 * h))
  <2>1. /\ q \in Int /\ q - h \in Int /\ q \in 0..31 /\ q % (2 * h) >= 0 /\ q % (2 * h) < h
        /\ \/ q = old /\ (q - h) % (4 * h) >= 2 * h /\ (q - h) % (4 * h) \in Int
           \/ q - h = old /\ q % (4 * h) >= 2 * h /\ q % (4 * h) \in Int
    <3>1. CASE h = 8
      BY <3>1
    <3>2. CASE h = 4
      BY <3>2
    <3>3. CASE h = 2
      BY <3>3
    <3> QED
      BY <3>1, <3>2, <3>3
  <2>2. old \in w <=> m \in word
    OBVIOUS
  <2> HIDE DEF q, old
  <2>3. 2 * h \in Int
    BY Halves
  <2>4. q \in r <=> q \in w \/ q - h \in w
    BY <1>2, <2>1
  <2>5. \A x \in Int : x % (4 * h) \in Int /\ x % (4 * h) >= 2 * h => x \notin w
    <3>1. \A a, b \in Int : ~(a < b /\ a >= b)
      OBVIOUS
    <3> QED
      BY <2>3, <3>1
  <2>6. \/ q = old /\ q - h \notin w
        \/ q - h = old /\ q \notin w
    BY <2>1, <2>5
  <2>7. q \in r <=> m \in word
    BY <2>2, <2>4, <2>6
  <2> QED
    BY <2>7 DEF q
<1> QED
  BY <1>1, <1>2, <1>3 DEF r

(* Bit m of nibble i of the word that expand_w2_half makes.                *)
LEMMA ExpandW2 ==
  ASSUME NEW word \in SUBSET Int, NEW j \in 0..7
  PROVE  LET e == expand_w2_half(word) IN
           /\ e \subseteq Int
           /\ 4 * j \in e
           /\ 4 * j + 1 \in e <=> 2 * j \in word
           /\ 4 * j + 2 \in e <=> 2 * j + 1 \notin word
           /\ 4 * j + 3 \in e <=> 2 * j + 1 \notin word
<1> DEFINE a == word \cap (0..15)
           b == (a \cup Shl(a, 8)) \cap Mask(16, 0, 8)
           c == (b \cup Shl(b, 4)) \cap Mask(8, 0, 4)
           d == (c \cup Shl(c, 2)) \cap Mask(4, 0, 2)
           high == Not(d) \cap Mask(4, 1, 2)
           low == d \cap Mask(4, 0, 1)
           e == Mask(4, 0, 1) \cup Shl(low, 1) \cup Shl(high, 1) \cup Shl(high, 2)
<1>1. /\ a \in SUBSET Int
      /\ \A m \in 0..15 : m + 2 * 8 * (m \div (2 * 8)) \in a <=> m \in word
      /\ \A q \in Int : q \in a => q % (4 * 8) < 2 * 8
  <2>1. \A m \in 0..15 : m + 2 * 8 * (m \div (2 * 8)) = m
    OBVIOUS
  <2>2. \A q \in 0..15 : q % (4 * 8) < 2 * 8
    OBVIOUS
  <2> QED
    BY <2>1, <2>2
<1> HIDE DEF a
<1>2. 2 * 8 = 16 /\ 2 * 4 = 8 /\ 4 * 4 = 16 /\ 2 * 2 = 4 /\ 4 * 2 = 8
  OBVIOUS
<1>3. /\ b \in SUBSET Int
      /\ \A m \in 0..15 : m + 2 * 4 * (m \div (2 * 4)) \in b <=> m \in word
      /\ \A q \in Int : q \in b => q % (4 * 4) < 2 * 4
  BY <1>1, <1>2, Spread
<1> HIDE DEF b
<1>4. /\ c \in SUBSET Int
      /\ \A m \in 0..15 : m + 2 * 2 * (m \div (2 * 2)) \in c <=> m \in word
      /\ \A q \in Int : q \in c => q % (4 * 2) < 2 * 2
  BY <1>2, <1>3, Spread
<1> HIDE DEF c
<1>5. /\ d \in SUBSET Int
      /\ \A m \in 0..15 : m + 2 * (m \div 2) \in d <=> m \in word
  BY <1>2, <1>4, Spread
<1> HIDE DEF d
<1>6. /\ 4 * j \in d <=> 2 * j \in word
      /\ 4 * j + 1 \in d <=> 2 * j + 1 \in word
  <2>1. /\ 2 * j \in 0..15 /\ 2 * j + 2 * ((2 * j) \div 2) = 4 * j
        /\ 2 * j + 1 \in 0..15 /\ 2 * j + 1 + 2 * ((2 * j + 1) \div 2) = 4 * j + 1
    OBVIOUS
  <2> QED
    BY <1>5, <2>1
<1>7. /\ high \in SUBSET Int /\ low \in SUBSET Int
      /\ \A q : q \in high <=> q \in 0..31 /\ q % 4 >= 1 /\ q % 4 < 2 /\ q \notin d
      /\ \A q : q \in low <=> q \in 0..31 /\ q % 4 >= 0 /\ q % 4 < 1 /\ q \in d
  BY <1>5 DEF Mask, Not, Bits
<1> HIDE DEF high, low
<1>8. \A q \in Int : q \in e <=> \/ q \in 0..31 /\ q % 4 >= 0 /\ q % 4 < 1
                                 \/ q \in 0..31 /\ q - 1 \in low
                                 \/ q \in 0..31 /\ q - 1 \in high
                                 \/ q \in 0..31 /\ q - 2 \in high
  <2> SUFFICES ASSUME NEW q \in Int
               PROVE  q \in e <=> \/ q \in 0..31 /\ q % 4 >= 0 /\ q % 4 < 1
                                  \/ q \in 0..31 /\ q - 1 \in low
                                  \/ q \in 0..31 /\ q - 1 \in high
                                  \/ q \in 0..31 /\ q - 2 \in high
    OBVIOUS
  <2>1. /\ q \in Shl(low, 1) <=> q \in 0..31 /\ q - 1 \in low
        /\ q \in Shl(high, 1) <=> q \in 0..31 /\ q - 1 \in high
        /\ q \in Shl(high, 2) <=> q \in 0..31 /\ q - 2 \in high
    BY <1>7, Shifts
  <2>2. q \in Mask(4, 0, 1) <=> q \in 0..31 /\ q % 4 >= 0 /\ q % 4 < 1
    BY DEF Mask, Bits
  <2>3. q \in e <=> \/ q \in Mask(4, 0, 1) \/ q \in Shl(low, 1)
                    \/ q \in Shl(high, 1) \/ q \in Shl(high, 2)
    BY Union4, Zenon
  <2> HIDE DEF e
  <2> QED
    BY <2>1, <2>2, <2>3, Zenon
<1>9. e \subseteq Int
  BY <1>7, ShiftInts DEF Mask, Bits
<1>10. expand_w2_half(word) = e
  BY DEF expand_w2_half, a, b, c, d, high, low
<1> HIDE DEF e
<1>11. ASSUME NEW q \in 0..31
       PROVE  /\ q % 4 = 0 => q \in e
              /\ q % 4 = 1 => (q \in e <=> q - 1 \in d)
              /\ q % 4 = 2 => (q \in e <=> q - 1 \notin d)
              /\ q % 4 = 3 => (q \in e <=> q - 2 \notin d)
  <2>1. q \in e <=> \/ q % 4 >= 0 /\ q % 4 < 1
                    \/ q - 1 \in low \/ q - 1 \in high \/ q - 2 \in high
    BY <1>8
  <2>2. /\ q - 1 \in low <=> q - 1 \in 0..31 /\ (q - 1) % 4 >= 0 /\ (q - 1) % 4 < 1 /\ q - 1 \in d
        /\ q - 1 \in high <=>
             q - 1 \in 0..31 /\ (q - 1) % 4 >= 1 /\ (q - 1) % 4 < 2 /\ q - 1 \notin d
        /\ q - 2 \in high <=>
             q - 2 \in 0..31 /\ (q - 2) % 4 >= 1 /\ (q - 2) % 4 < 2 /\ q - 2 \notin d
    BY <1>7
  <2>3. CASE q % 4 = 0
    BY <2>1, <2>3
  <2>4. CASE q % 4 = 1
    <3>1. (q - 1) % 4 = 0 /\ (q - 2) % 4 = 3 /\ q - 1 \in 0..31
      BY <2>4
    <3> QED
      BY <2>1, <2>2, <2>4, <3>1
  <2>5. CASE q % 4 = 2
    <3>1. (q - 1) % 4 = 1 /\ (q - 2) % 4 = 0 /\ q - 1 \in 0..31
      BY <2>5
    <3> QED
      BY <2>1, <2>2, <2>5, <3>1
  <2>6. CASE q % 4 = 3
    <3>1. (q - 1) % 4 = 2 /\ (q - 2) % 4 = 1 /\ q - 2 \in 0..31
      BY <2>6
    <3> QED
      BY <2>1, <2>2, <2>6, <3>1
  <2> QED
    BY <2>3, <2>4, <2>5, <2>6
<1>12. /\ (4 * j) % 4 = 0 /\ (4 * j + 1) % 4 = 1 /\ (4 * j + 2) % 4 = 2 /\ (4 * j + 3) % 4 = 3
       /\ 4 * j + 1 - 1 = 4 * j /\ 4 * j + 2 - 1 = 4 * j + 1 /\ 4 * j + 3 - 2 = 4 * j + 1
       /\ 4 * j \in 0..31 /\ 4 * j + 1 \in 0..31 /\ 4 * j + 2 \in 0..31 /\ 4 * j + 3 \in 0..31
  OBVIOUS
<1>13. /\ 4 * j \in e
       /\ 4 * j + 1 \in e <=> 4 * j \in d
       /\ 4 * j + 2 \in e <=> 4 * j + 1 \notin d
       /\ 4 * j + 3 \in e <=> 4 * j + 1 \notin d
  BY <1>11, <1>12
<1> QED
  BY <1>6, <1>9, <1>10, <1>13

LEMMA Parts2 ==
  ASSUME NEW x, NEW y, NEW z, NEW q
  PROVE  q \in (x \cap y) \cup z <=> (q \in x /\ q \in y) \/ q \in z
OBVIOUS

LEMMA Quarters ==
  ASSUME NEW k \in {1, 2, 4}
  PROVE  /\ k \in Int /\ 2 * k \in Int /\ 3 * k \in Int /\ 6 * k \in Int
         /\ 8 * k \in Int /\ 8 * k > 0
OBVIOUS

(* Three quarters of every run of 8 * k bits are used; the second half of  *)
(* them goes k further.                                                    *)
LEMMA SpreadW3 ==
  ASSUME NEW k \in {1, 2, 4}, NEW w \in SUBSET Int, NEW word,
         \A m \in 0..23 : m + 2 * k * (m \div (6 * k)) \in w <=> m \in word
  PROVE  LET r == (w \cap Mask(8 * k, 0, 3 * k)) \cup Shl(w \cap Mask(8 * k, 3 * k, 6 * k), k) IN
           /\ r \subseteq Int
           /\ \A m \in 0..23 : m + k * (m \div (3 * k)) \in r <=> m \in word
<1> DEFINE upper == w \cap Mask(8 * k, 3 * k, 6 * k)
           r == (w \cap Mask(8 * k, 0, 3 * k)) \cup Shl(upper, k)
<1>0. upper \in SUBSET Int
  OBVIOUS
<1>1. r \subseteq Int
  BY <1>0, Quarters, ShiftInts
<1>2. ASSUME NEW q \in Int
      PROVE  q \in r <=> \/ q \in w /\ q \in 0..31 /\ q % (8 * k) >= 0 /\ q % (8 * k) < 3 * k
                         \/ /\ q \in 0..31 /\ q - k \in w /\ q - k \in 0..31
                            /\ (q - k) % (8 * k) >= 3 * k /\ (q - k) % (8 * k) < 6 * k
  <2>1. q \in Shl(upper, k) <=> q \in 0..31 /\ q - k \in upper
    BY <1>0, Quarters, Shifts
  <2>2. q - k \in upper <=> q - k \in w /\ q - k \in Mask(8 * k, 3 * k, 6 * k)
    OBVIOUS
  <2>3. q - k \in Mask(8 * k, 3 * k, 6 * k)
          <=> q - k \in 0..31 /\ (q - k) % (8 * k) >= 3 * k /\ (q - k) % (8 * k) < 6 * k
    BY Zenon DEF Mask, Bits
  <2>4. q \in Mask(8 * k, 0, 3 * k) <=> q \in 0..31 /\ q % (8 * k) >= 0 /\ q % (8 * k) < 3 * k
    BY Zenon DEF Mask, Bits
  <2>5. q \in r <=> (q \in w /\ q \in Mask(8 * k, 0, 3 * k)) \/ q \in Shl(upper, k)
    BY Parts2, Zenon
  <2> HIDE DEF r, upper
  <2> QED
    BY <2>1, <2>2, <2>3, <2>4, <2>5, Zenon
<1> HIDE DEF r
<1>3. ASSUME NEW m \in 0..23
      PROVE  m + k * (m \div (3 * k)) \in r <=> m \in word
  <2> DEFINE q == m + k * (m \div (3 * k))
             old == m + 2 * k * (m \div (6 * k))
  <2>1. /\ q \in Int /\ q \in 0..31
        /\ \/ /\ q = old /\ q % (8 * k) >= 0 /\ q % (8 * k) < 3 * k
              /\ ~((q - k) % (8 * k) >= 3 * k /\ (q - k) % (8 * k) < 6 * k)
           \/ /\ q - k = old /\ q - k \in 0..31
              /\ (q - k) % (8 * k) >= 3 * k /\ (q - k) % (8 * k) < 6 * k
              /\ ~(q % (8 * k) < 3 * k)
    <3>1. CASE k = 4
      BY <3>1
    <3>2. CASE k = 2
      BY <3>2
    <3>3. CASE k = 1
      BY <3>3
    <3> QED
      BY <3>1, <3>2, <3>3
  <2>2. old \in w <=> m \in word
    OBVIOUS
  <2>3. q \in r <=> \/ q \in w /\ q \in 0..31 /\ q % (8 * k) >= 0 /\ q % (8 * k) < 3 * k
                    \/ /\ q \in 0..31 /\ q - k \in w /\ q - k \in 0..31
                       /\ (q - k) % (8 * k) >= 3 * k /\ (q - k) % (8 * k) < 6 * k
    BY <1>2, <2>1
  <2> HIDE DEF q, old
  <2>4. q \in r <=> m \in word
    <3>1. CASE q = old /\ ~((q - k) % (8 * k) >= 3 * k /\ (q - k) % (8 * k) < 6 * k)
               /\ q % (8 * k) >= 0 /\ q % (8 * k) < 3 * k
      BY <2>1, <2>2, <2>3, <3>1, Zenon
    <3>2. CASE q - k = old /\ ~(q % (8 * k) < 3 * k) /\ q - k \in 0..31
               /\ (q - k) % (8 * k) >= 3 * k /\ (q - k) % (8 * k) < 6 * k
      BY <2>1, <2>2, <2>3, <3>2, Zenon
    <3> QED
      BY <2>1, <3>1, <3>2, Zenon
  <2> QED
    BY <2>4 DEF q
<1> QED
  BY <1>1, <1>3 DEF r

(* The same of expand_w3_sequential_half.                                  *)
LEMMA ExpandW3 ==
  ASSUME NEW word \in SUBSET Int, NEW j \in 0..7
  PROVE  LET e == expand_w3_sequential_half(word) IN
           /\ e \subseteq Int
           /\ 4 * j \in e <=> 3 * j \in word
           /\ 4 * j + 1 \in e <=> 3 * j + 1 \in word
           /\ 4 * j + 2 \in e <=> 3 * j + 2 \notin word
           /\ 4 * j + 3 \in e <=> 3 * j + 2 \notin word
<1> DEFINE a == (word \cap (0..11)) \cup Shl(word \cap (12..23), 4)
           b == (a \cap Mask(16, 0, 6)) \cup Shl(a \cap Mask(16, 6, 12), 2)
           c == (b \cap Mask(8, 0, 3)) \cup Shl(b \cap Mask(8, 3, 6), 1)
           inverted == Not(c) \cap Mask(4, 2, 3)
           e == (c \cap Mask(4, 0, 2)) \cup inverted \cup Shl(inverted, 1)
<1>1. \A m \in 0..23 : m + 2 * 4 * (m \div (6 * 4)) \in word <=> m \in word
  <2>1. \A m \in 0..23 : m + 2 * 4 * (m \div (6 * 4)) = m
    OBVIOUS
  <2> QED
    BY <2>1
<1>2. /\ 8 * 4 = 32 /\ 3 * 4 = 12 /\ 6 * 4 = 24 /\ 2 * 4 = 8
      /\ 8 * 2 = 16 /\ 3 * 2 = 6 /\ 6 * 2 = 12 /\ 2 * 2 = 4
      /\ 8 * 1 = 8 /\ 3 * 1 = 3 /\ 6 * 1 = 6 /\ 2 * 1 = 2
  OBVIOUS
<1>3. word \cap (0..11) = word \cap Mask(32, 0, 12)
      /\ word \cap (12..23) = word \cap Mask(32, 12, 24)
  BY DEF Mask, Bits
<1>4. a = (word \cap Mask(32, 0, 12)) \cup Shl(word \cap Mask(32, 12, 24), 4)
  BY <1>3
<1> HIDE DEF a
<1>5. /\ a \in SUBSET Int
      /\ \A m \in 0..23 : m + 2 * 2 * (m \div (6 * 2)) \in a <=> m \in word
  BY SMTT(30), <1>1, <1>2, <1>4, SpreadW3
<1>6. /\ b \in SUBSET Int
      /\ \A m \in 0..23 : m + 2 * 1 * (m \div (6 * 1)) \in b <=> m \in word
  BY <1>2, <1>5, SpreadW3
<1> HIDE DEF b
<1>7. /\ c \in SUBSET Int
      /\ \A m \in 0..23 : m + 1 * (m \div 3) \in c <=> m \in word
  BY <1>2, <1>6, SpreadW3
<1> HIDE DEF c
<1>8. /\ 4 * j \in c <=> 3 * j \in word
      /\ 4 * j + 1 \in c <=> 3 * j + 1 \in word
      /\ 4 * j + 2 \in c <=> 3 * j + 2 \in word
  <2>1. /\ 3 * j \in 0..23 /\ 3 * j + 1 * ((3 * j) \div 3) = 4 * j
        /\ 3 * j + 1 \in 0..23 /\ 3 * j + 1 + 1 * ((3 * j + 1) \div 3) = 4 * j + 1
        /\ 3 * j + 2 \in 0..23 /\ 3 * j + 2 + 1 * ((3 * j + 2) \div 3) = 4 * j + 2
    OBVIOUS
  <2> QED
    BY <1>7, <2>1
<1>9. /\ inverted \in SUBSET Int
      /\ \A q : q \in inverted <=> q \in 0..31 /\ q % 4 >= 2 /\ q % 4 < 3 /\ q \notin c
  BY DEF Mask, Not, Bits
<1> HIDE DEF inverted
<1>10. ASSUME NEW q \in 0..31
       PROVE  q \in e <=> \/ q \in c /\ q % 4 >= 0 /\ q % 4 < 2
                          \/ q \in inverted
                          \/ q - 1 \in inverted
  <2>1. q \in Shl(inverted, 1) <=> q \in 0..31 /\ q - 1 \in inverted
    BY <1>9, Shifts
  <2>2. q \in Mask(4, 0, 2) <=> q \in 0..31 /\ q % 4 >= 0 /\ q % 4 < 2
    BY Masks
  <2>3. q \in e <=> (q \in c /\ q \in Mask(4, 0, 2)) \/ q \in inverted \/ q \in Shl(inverted, 1)
    BY Zenon
  <2> HIDE DEF e
  <2> QED
    BY <2>1, <2>2, <2>3, Zenon
<1>11. e \subseteq Int
  <2>1. Shl(inverted, 1) \subseteq Int
    BY <1>9, ShiftInts
  <2> QED
    BY <1>7, <1>9, <2>1
<1>12. expand_w3_sequential_half(word) = e
  BY DEF expand_w3_sequential_half, a, b, c, inverted
<1> HIDE DEF e
<1>13. ASSUME NEW q \in 0..31
       PROVE  /\ q % 4 \in {0, 1} => (q \in e <=> q \in c)
              /\ q % 4 = 2 => (q \in e <=> q \notin c)
              /\ q % 4 = 3 => (q \in e <=> q - 1 \notin c)
  <2>1. q \in e <=> \/ q \in c /\ q % 4 >= 0 /\ q % 4 < 2
                    \/ q \in inverted
                    \/ q - 1 \in inverted
    BY <1>10
  <2>2. /\ q \in inverted <=> q \in 0..31 /\ q % 4 >= 2 /\ q % 4 < 3 /\ q \notin c
        /\ q - 1 \in inverted <=>
             q - 1 \in 0..31 /\ (q - 1) % 4 >= 2 /\ (q - 1) % 4 < 3 /\ q - 1 \notin c
    BY <1>9
  <2>3. CASE q % 4 \in {0, 1}
    <3>1. (q - 1) % 4 \in {0, 3}
      BY <2>3
    <3> QED
      BY <2>1, <2>2, <2>3, <3>1
  <2>4. CASE q % 4 = 2
    <3>1. (q - 1) % 4 = 1
      BY <2>4
    <3> QED
      BY <2>1, <2>2, <2>4, <3>1
  <2>5. CASE q % 4 = 3
    <3>1. (q - 1) % 4 = 2 /\ q - 1 \in 0..31
      BY <2>5
    <3> QED
      BY <2>1, <2>2, <2>5, <3>1
  <2> QED
    BY <2>3, <2>4, <2>5
<1>14. /\ (4 * j) % 4 = 0 /\ (4 * j + 1) % 4 = 1 /\ (4 * j + 2) % 4 = 2 /\ (4 * j + 3) % 4 = 3
       /\ 4 * j + 3 - 1 = 4 * j + 2
       /\ 4 * j \in 0..31 /\ 4 * j + 1 \in 0..31 /\ 4 * j + 2 \in 0..31 /\ 4 * j + 3 \in 0..31
  OBVIOUS
<1>15. /\ 4 * j \in e <=> 4 * j \in c
       /\ 4 * j + 1 \in e <=> 4 * j + 1 \in c
       /\ 4 * j + 2 \in e <=> 4 * j + 2 \notin c
       /\ 4 * j + 3 \in e <=> 4 * j + 2 \notin c
  BY <1>13, <1>14
<1> QED
  BY <1>8, <1>11, <1>12, <1>15

(* The nibble from at on is the level of the code from bit first on.       *)
Signed(word, at, format, bytes, first) ==
  CASE format = "w2" -> /\ at \in word
                        /\ at + 1 \in word <=> first \in bytes
                        /\ at + 2 \in word <=> first + 1 \notin bytes
                        /\ at + 3 \in word <=> first + 1 \notin bytes
    [] format = "w3" -> /\ at \in word <=> first \in bytes
                        /\ at + 1 \in word <=> first + 1 \in bytes
                        /\ at + 2 \in word <=> first + 2 \notin bytes
                        /\ at + 3 \in word <=> first + 2 \notin bytes
    [] format = "w4" -> /\ at \in word <=> first \in bytes
                        /\ at + 1 \in word <=> first + 1 \in bytes
                        /\ at + 2 \in word <=> first + 2 \in bytes
                        /\ at + 3 \in word <=> first + 3 \in bytes

(* Half h of lane l of a fragment, in each format.                         *)
LEMMA LaneW2 ==
  ASSUME NEW bytes \in SUBSET Int, NEW l \in {0, 1}, NEW h \in {0, 1}, NEW j \in 0..7, NEW seq
  PROVE  LET e == expand(bytes, 4 * l, h, "w2", seq) IN
           e \subseteq Int /\ Signed(e, 4 * j, "w2", bytes, 2 * (16 * l + 8 * h + j))
<1> DEFINE low == Load(bytes, 4 * l, 4)
           word == IF h = 0 THEN low ELSE Shr(low, 16)
           first == 2 * (16 * l + 8 * h + j)
<1>1. low \in SUBSET Int /\ Shr(low, 16) \in SUBSET Int
  BY LoadInts, ShiftInts
<1>2. \A k \in Int : k \in low <=> k >= 0 /\ k < 8 * 4 /\ 8 * (4 * l) + k \in bytes
  BY LoadBits
<1> HIDE DEF low
<1>3. \A k \in Int : k \in Shr(low, 16) <=> k >= 0 /\ k + 16 \in low
  BY <1>1, Shifts
<1>4. word \in SUBSET Int
  BY <1>1
<1>5. ASSUME NEW k \in 0..15
      PROVE  k \in word <=> 32 * l + 16 * h + k \in bytes
  <2>1. CASE h = 0
    <3>1. 8 * (4 * l) + k = 32 * l + 16 * h + k /\ k \in Int /\ k >= 0 /\ k < 8 * 4
      BY <2>1
    <3> QED
      BY <1>2, <2>1, <3>1
  <2>2. CASE h = 1
    <3>1. /\ 8 * (4 * l) + (k + 16) = 32 * l + 16 * h + k /\ k \in Int /\ k >= 0
          /\ k + 16 \in Int /\ k + 16 >= 0 /\ k + 16 < 8 * 4
      BY <2>2
    <3> QED
      BY <1>2, <1>3, <2>2, <3>1
  <2> QED
    BY <2>1, <2>2
<1>6. expand(bytes, 4 * l, h, "w2", seq) = expand_w2_half(word)
  BY DEF expand, low
<1> HIDE DEF word
<1>7. /\ 2 * j \in 0..15 /\ 32 * l + 16 * h + 2 * j = first
      /\ 2 * j + 1 \in 0..15 /\ 32 * l + 16 * h + (2 * j + 1) = first + 1
  OBVIOUS
<1>8. (2 * j \in word <=> first \in bytes) /\ (2 * j + 1 \in word <=> first + 1 \in bytes)
  BY <1>5, <1>7
<1> HIDE DEF first
<1> QED
  BY <1>4, <1>6, <1>8, ExpandW2 DEF Signed, first

LEMMA LaneW3 ==
  ASSUME NEW bytes \in SUBSET Int, NEW l \in {0, 1}, NEW h \in {0, 1}, NEW j \in 0..7
  PROVE  LET e == expand(bytes, 6 * l, h, "w3", TRUE) IN
           e \subseteq Int /\ Signed(e, 4 * j, "w3", bytes, 3 * (16 * l + 8 * h + j))
<1> DEFINE low == Load(bytes, 6 * l, 4)
           high == Load(bytes, 6 * l + 4, 2)
           word == IF h = 0 THEN low ELSE Shr(low, 24) \cup Shl(high, 8)
           first == 3 * (16 * l + 8 * h + j)
<1>1. /\ low \in SUBSET Int /\ high \in SUBSET Int
      /\ Shr(low, 24) \in SUBSET Int /\ Shl(high, 8) \in SUBSET Int
  BY LoadInts, ShiftInts
<1>2. /\ \A k \in Int : k \in low <=> k >= 0 /\ k < 8 * 4 /\ 8 * (6 * l) + k \in bytes
      /\ \A k \in Int : k \in high <=> k >= 0 /\ k < 8 * 2 /\ 8 * (6 * l + 4) + k \in bytes
  BY LoadBits
<1> HIDE DEF low, high
<1>3. /\ \A k \in Int : k \in Shr(low, 24) <=> k >= 0 /\ k + 24 \in low
      /\ \A k \in Int : k \in Shl(high, 8) <=> k \in 0..31 /\ k - 8 \in high
  BY <1>1, Shifts
<1>4. word \in SUBSET Int
  BY <1>1
<1>5. ASSUME NEW k \in 0..23
      PROVE  k \in word <=> 48 * l + 24 * h + k \in bytes
  <2>1. CASE h = 0
    <3>1. 8 * (6 * l) + k = 48 * l + 24 * h + k /\ k \in Int /\ k >= 0 /\ k < 8 * 4
      BY <2>1
    <3> QED
      BY <1>2, <2>1, <3>1
  <2>2. CASE h = 1
    <3>1. /\ 8 * (6 * l) + (k + 24) = 48 * l + 24 * h + k
          /\ 8 * (6 * l + 4) + (k - 8) = 48 * l + 24 * h + k
          /\ k \in Int /\ k >= 0 /\ k \in 0..31 /\ k + 24 \in Int /\ k - 8 \in Int
          /\ k + 24 >= 0 /\ k - 8 < 8 * 2
          /\ k + 24 < 8 * 4 <=> ~(k - 8 >= 0)
      BY <2>2
    <3>2. k \in Shr(low, 24) <=> ~(k - 8 >= 0) /\ 48 * l + 24 * h + k \in bytes
      BY <1>2, <1>3, <3>1
    <3>3. k \in Shl(high, 8) <=> k - 8 >= 0 /\ 48 * l + 24 * h + k \in bytes
      BY <1>2, <1>3, <3>1
    <3>4. word = Shr(low, 24) \cup Shl(high, 8)
      BY <2>2
    <3> QED
      BY <3>2, <3>3, <3>4
  <2> QED
    BY <2>1, <2>2
<1>6. expand(bytes, 6 * l, h, "w3", TRUE) = expand_w3_sequential_half(word)
  BY DEF expand, low, high
<1> HIDE DEF word
<1>7. /\ 3 * j \in 0..23 /\ 48 * l + 24 * h + 3 * j = first
      /\ 3 * j + 1 \in 0..23 /\ 48 * l + 24 * h + (3 * j + 1) = first + 1
      /\ 3 * j + 2 \in 0..23 /\ 48 * l + 24 * h + (3 * j + 2) = first + 2
  OBVIOUS
<1>8. /\ 3 * j \in word <=> first \in bytes
      /\ 3 * j + 1 \in word <=> first + 1 \in bytes
      /\ 3 * j + 2 \in word <=> first + 2 \in bytes
  BY <1>5, <1>7
<1> HIDE DEF first
<1> DEFINE e == expand_w3_sequential_half(word)
<1>9. /\ e \subseteq Int
      /\ 4 * j \in e <=> 3 * j \in word
      /\ 4 * j + 1 \in e <=> 3 * j + 1 \in word
      /\ 4 * j + 2 \in e <=> 3 * j + 2 \notin word
      /\ 4 * j + 3 \in e <=> 3 * j + 2 \notin word
  BY <1>4, ExpandW3
<1> HIDE DEF e
<1>10. Signed(e, 4 * j, "w3", bytes, first)
  BY <1>8, <1>9 DEF Signed
<1> QED
  BY <1>6, <1>9, <1>10 DEF first, e

LEMMA LaneW4 ==
  ASSUME NEW bytes \in SUBSET Int, NEW l \in {0, 1}, NEW h \in {0, 1}, NEW j \in 0..7, NEW seq
  PROVE  LET e == expand(bytes, 8 * l, h, "w4", seq) IN
           e \subseteq Int /\ Signed(e, 4 * j, "w4", bytes, 4 * (16 * l + 8 * h + j))
<1> DEFINE word == Load(bytes, 8 * l + 4 * h, 4)
           first == 4 * (16 * l + 8 * h + j)
<1>1. word \subseteq Int
  BY LoadInts
<1>2. \A k \in Int : k \in word <=> k >= 0 /\ k < 8 * 4 /\ 8 * (8 * l + 4 * h) + k \in bytes
  BY LoadBits
<1>3. expand(bytes, 8 * l, h, "w4", seq) = word
  BY DEF expand
<1> HIDE DEF word
<1>4. ASSUME NEW p \in 0..3
      PROVE  4 * j + p \in word <=> first + p \in bytes
  <2>1. /\ 4 * j + p \in Int /\ 4 * j + p >= 0 /\ 4 * j + p < 8 * 4
        /\ 8 * (8 * l + 4 * h) + (4 * j + p) = first + p
    OBVIOUS
  <2> QED
    BY <1>2, <2>1
<1>5. 4 * j + 0 = 4 * j /\ first + 0 = first
  OBVIOUS
<1>6. /\ 4 * j \in word <=> first \in bytes
      /\ 4 * j + 1 \in word <=> first + 1 \in bytes
      /\ 4 * j + 2 \in word <=> first + 2 \in bytes
      /\ 4 * j + 3 \in word <=> first + 3 \in bytes
  BY <1>4, <1>5
<1> HIDE DEF first
<1> QED
  BY <1>1, <1>3, <1>6 DEF Signed, first

(* A nibble is the level, as a signed number.                              *)
LEMMA Nibbles ==
  ASSUME NEW word \in SUBSET Int, NEW j \in 0..7, NEW k \in 0..3
  PROVE  k \in Shr(word, 4 * j) \cap (0..3) <=> 4 * j + k \in word
<1>1. k \in Int /\ 4 * j \in Int /\ k >= 0 /\ k + 4 * j = 4 * j + k
  OBVIOUS
<1>2. k \in Shr(word, 4 * j) <=> k >= 0 /\ k + 4 * j \in word
  BY <1>1, Shifts
<1> QED
  BY <1>1, <1>2

SignedNibble(v) == IF v >= 8 THEN v - 16 ELSE v

LEMMA Levels ==
  ASSUME NEW format \in Formats, NEW v \in CodeOf(format), NEW word \in SUBSET Int,
         NEW bytes, NEW j \in 0..7, NEW first \in Int,
         Signed(word, 4 * j, format, bytes, first),
         \A p \in 0..bits[format] - 1 : first + p \in bytes <=> p \in Number(v)
  PROVE  SignedNibble(Value(Shr(word, 4 * j) \cap (0..3))) = decode_value(v, format)
<1> DEFINE nibble == Shr(word, 4 * j) \cap (0..3)
<1>1. /\ 0 \in nibble <=> 4 * j \in word
      /\ 1 \in nibble <=> 4 * j + 1 \in word
      /\ 2 \in nibble <=> 4 * j + 2 \in word
      /\ 3 \in nibble <=> 4 * j + 3 \in word
  <2>1. \A k \in 0..3 : k \in nibble <=> 4 * j + k \in word
    BY Nibbles
  <2>2. 4 * j + 0 = 4 * j
    OBVIOUS
  <2> HIDE DEF nibble
  <2> QED
    BY <2>1, <2>2
<1> HIDE DEF nibble
<1>2. v \in 0..15
  BY CodeFits
<1>3. /\ 0 \in Number(v) <=> v % 2 = 1
      /\ 1 \in Number(v) <=> (v \div 2) % 2 = 1
      /\ 2 \in Number(v) <=> (v \div 4) % 2 = 1
      /\ 3 \in Number(v) <=> (v \div 8) % 2 = 1
  BY <1>2, NumberBits
<1>4. Value(nibble) = (IF 0 \in nibble THEN 1 ELSE 0) + (IF 1 \in nibble THEN 2 ELSE 0)
                      + (IF 2 \in nibble THEN 4 ELSE 0) + (IF 3 \in nibble THEN 8 ELSE 0)
  BY ValueBits
<1>5. first + 0 = first
  OBVIOUS
<1>6. CASE format = "w2"
  <2>1. v \in 0..3 /\ 0 \in 0..bits[format] - 1 /\ 1 \in 0..bits[format] - 1
    BY <1>6, CodeRange DEF bits
  <2>2. (first \in bytes <=> 0 \in Number(v)) /\ (first + 1 \in bytes <=> 1 \in Number(v))
    BY <1>5, <2>1
  <2>3. /\ 0 \in nibble /\ (1 \in nibble <=> v % 2 = 1)
        /\ (2 \in nibble <=> ~((v \div 2) % 2 = 1)) /\ (3 \in nibble <=> ~((v \div 2) % 2 = 1))
    BY <1>1, <1>3, <1>6, <2>2 DEF Signed
  <2>4. Value(nibble) = 1 + (IF v % 2 = 1 THEN 2 ELSE 0)
                        + (IF (v \div 2) % 2 = 1 THEN 0 ELSE 12)
    BY <1>4, <2>3
  <2>5. SignedNibble(Value(nibble)) = 2 * v - 3
    BY <2>1, <2>4 DEF SignedNibble
  <2> QED
    BY <1>6, <2>5 DEF decode_value, nibble
<1>7. CASE format = "w3"
  <2>1. /\ v \in 0..7 /\ 0 \in 0..bits[format] - 1 /\ 1 \in 0..bits[format] - 1
        /\ 2 \in 0..bits[format] - 1
    BY <1>7, CodeRange DEF bits
  <2>2. /\ first \in bytes <=> 0 \in Number(v)
        /\ first + 1 \in bytes <=> 1 \in Number(v)
        /\ first + 2 \in bytes <=> 2 \in Number(v)
    BY <1>5, <2>1
  <2>3. /\ 0 \in nibble <=> v % 2 = 1
        /\ 1 \in nibble <=> (v \div 2) % 2 = 1
        /\ 2 \in nibble <=> ~((v \div 4) % 2 = 1)
        /\ 3 \in nibble <=> ~((v \div 4) % 2 = 1)
    BY <1>1, <1>3, <1>7, <2>2 DEF Signed
  <2>4. Value(nibble) = (IF v % 2 = 1 THEN 1 ELSE 0) + (IF (v \div 2) % 2 = 1 THEN 2 ELSE 0)
                        + (IF (v \div 4) % 2 = 1 THEN 0 ELSE 12)
    BY <1>4, <2>3
  <2>5. SignedNibble(Value(nibble)) = v - 4
    BY <2>1, <2>4 DEF SignedNibble
  <2> QED
    BY <1>7, <2>5 DEF decode_value, nibble
<1>8. CASE format = "w4"
  <2>1. /\ 0 \in 0..bits[format] - 1 /\ 1 \in 0..bits[format] - 1
        /\ 2 \in 0..bits[format] - 1 /\ 3 \in 0..bits[format] - 1
    BY <1>8 DEF bits
  <2>2. /\ first \in bytes <=> 0 \in Number(v)
        /\ first + 1 \in bytes <=> 1 \in Number(v)
        /\ first + 2 \in bytes <=> 2 \in Number(v)
        /\ first + 3 \in bytes <=> 3 \in Number(v)
    BY <1>5, <2>1
  <2>3. /\ 0 \in nibble <=> v % 2 = 1
        /\ 1 \in nibble <=> (v \div 2) % 2 = 1
        /\ 2 \in nibble <=> (v \div 4) % 2 = 1
        /\ 3 \in nibble <=> (v \div 8) % 2 = 1
    BY <1>1, <1>3, <1>8, <2>2 DEF Signed
  <2>4. Value(nibble) = v
    BY <1>2, <1>4, <2>3
  <2> QED
    BY <1>8, <2>4 DEF decode_value, nibble, SignedNibble
<1> QED
  BY <1>6, <1>7, <1>8 DEF Formats

(* The j-th of the eight nibbles of a word.                                *)
Nibble(word, j) == Value(Shr(word, 4 * j) \cap (0..3))

(* The recipes with w3 codes select the sequential expansion.              *)
Sequential(format, seq) == format = "w3" => seq = TRUE

IsFragment(bytes, format, code) ==
  /\ bytes \in SUBSET Int /\ HoldsCodes(bytes, format, code)
  /\ \A c \in 0..31 : code[c] \in CodeOf(format)

LaneAt(format, l) == l * (fragment_bytes(format) \div 2)

(* The levels of the eight codes of a lane's half.                         *)
LEMMA LaneLevels ==
  ASSUME NEW format \in Formats, NEW seq, Sequential(format, seq),
         NEW bytes, NEW code, IsFragment(bytes, format, code),
         NEW l \in {0, 1}, NEW h \in {0, 1}, NEW j \in 0..7,
         NEW c \in 0..31, c = 16 * l + 8 * h + j
  PROVE  SignedNibble(Nibble(expand(bytes, LaneAt(format, l), h, format, seq), j))
           = decode_value(code[c], format)
<1> DEFINE e == expand(bytes, LaneAt(format, l), h, format, seq)
           b == bits[format]
<1>1. c \in 0..31 /\ c = 16 * l + 8 * h + j
  OBVIOUS
<1> USE DEF IsFragment
<1>2. e \subseteq Int /\ Signed(e, 4 * j, format, bytes, b * c) /\ b * c \in Int
  <2>1. CASE format = "w2"
    <3>1. b = 2 /\ LaneAt(format, l) = 4 * l
      BY <2>1 DEF LaneAt, bits, fragment_bytes, FragmentCodes
    <3>2. e = expand(bytes, 4 * l, h, "w2", seq)
      BY <2>1, <3>1
    <3>3. /\ expand(bytes, 4 * l, h, "w2", seq) \subseteq Int
          /\ Signed(expand(bytes, 4 * l, h, "w2", seq), 4 * j, "w2", bytes,
                    2 * (16 * l + 8 * h + j))
      BY LaneW2
    <3> HIDE DEF b, e
    <3>4. c \in Int /\ 2 * c \in Int
      OBVIOUS
    <3> QED
      BY <2>1, <3>1, <3>2, <3>3, <3>4
  <2>2. CASE format = "w3"
    <3>1. b = 3 /\ LaneAt(format, l) = 6 * l /\ seq = TRUE
      BY <2>2 DEF Sequential, LaneAt, bits, fragment_bytes, FragmentCodes
    <3>2. e = expand(bytes, 6 * l, h, "w3", TRUE)
      BY <2>2, <3>1
    <3>3. /\ expand(bytes, 6 * l, h, "w3", TRUE) \subseteq Int
          /\ Signed(expand(bytes, 6 * l, h, "w3", TRUE), 4 * j, "w3", bytes,
                    3 * (16 * l + 8 * h + j))
      BY LaneW3
    <3> HIDE DEF b, e
    <3>4. c \in Int /\ 3 * c \in Int
      OBVIOUS
    <3> QED
      BY <2>2, <3>1, <3>2, <3>3, <3>4
  <2>3. CASE format = "w4"
    <3>1. b = 4 /\ LaneAt(format, l) = 8 * l
      BY <2>3 DEF LaneAt, bits, fragment_bytes, FragmentCodes
    <3>2. e = expand(bytes, 8 * l, h, "w4", seq)
      BY <2>3, <3>1
    <3>3. /\ expand(bytes, 8 * l, h, "w4", seq) \subseteq Int
          /\ Signed(expand(bytes, 8 * l, h, "w4", seq), 4 * j, "w4", bytes,
                    4 * (16 * l + 8 * h + j))
      BY LaneW4
    <3> HIDE DEF b, e
    <3>4. c \in Int /\ 4 * c \in Int
      OBVIOUS
    <3> QED
      BY <2>3, <3>1, <3>2, <3>3, <3>4
  <2> QED
    BY <2>1, <2>2, <2>3 DEF Formats
<1>3. code[c] \in CodeOf(format)
  BY <1>1
<1>4. \A p \in 0..bits[format] - 1 : b * c + p \in bytes <=> p \in Number(code[c])
  BY <1>1 DEF HoldsCodes
<1> DEFINE first == b * c
           v == code[c]
<1>5. /\ e \in SUBSET Int /\ Signed(e, 4 * j, format, bytes, first) /\ first \in Int
      /\ v \in CodeOf(format)
      /\ \A p \in 0..bits[format] - 1 : first + p \in bytes <=> p \in Number(v)
  BY <1>2, <1>3, <1>4
<1> HIDE DEF e, b, first, v
<1>6. SignedNibble(Nibble(e, j)) = decode_value(v, format)
  BY <1>5, Levels DEF Nibble
<1> QED
  BY <1>6 DEF e, v

(* The weights of a fragment are the levels of its codes.                  *)
LEMMA FragmentLevels ==
  ASSUME NEW format \in Formats, NEW seq, Sequential(format, seq),
         NEW bytes, NEW code, IsFragment(bytes, format, code), NEW c \in 0..31
  PROVE  i4_weights(bytes, format, seq)[c] = decode_value(code[c], format)
<1> DEFINE lane == fragment_bytes(format) \div 2
           l == c \div 16
           h == (c % 16) \div 8
           j == c % 8
           e == expand(bytes, l * lane, h, format, seq)
           words == <<expand(bytes, 0, 0, format, seq), expand(bytes, 0, 1, format, seq),
                      expand(bytes, lane, 0, format, seq), expand(bytes, lane, 1, format, seq)>>
<1>1. l \in {0, 1} /\ h \in {0, 1} /\ j \in 0..7 /\ c = 16 * l + 8 * h + j
  OBVIOUS
<1>2. SignedNibble(Nibble(e, j)) = decode_value(code[c], format)
  <2> HIDE DEF l, h, j
  <2>1. l * lane = l * (fragment_bytes(format) \div 2)
    OBVIOUS
  <2>2. LaneAt(format, l) = l * lane
    BY DEF LaneAt
  <2> HIDE DEF lane
  <2>3. SignedNibble(Nibble(expand(bytes, LaneAt(format, l), h, format, seq), j))
          = decode_value(code[c], format)
    BY <1>1, LaneLevels
  <2> QED
    BY <2>2, <2>3
<1>3. lane \in Int
  BY DEF fragment_bytes, FragmentCodes, bits, Formats
<1>4. words[c \div 8 + 1] = e
  <2>1. c \div 8 + 1 = 2 * l + h + 1
    OBVIOUS
  <2> HIDE DEF lane, l, h
  <2>2. 0 * lane = 0 /\ 1 * lane = lane
    BY <1>3
  <2>3. CASE l = 0 /\ h = 0
    BY <2>1, <2>2, <2>3
  <2>4. CASE l = 0 /\ h = 1
    BY <2>1, <2>2, <2>4
  <2>5. CASE l = 1 /\ h = 0
    BY <2>1, <2>2, <2>5
  <2>6. CASE l = 1 /\ h = 1
    BY <2>1, <2>2, <2>6
  <2> QED
    BY <1>1, <2>3, <2>4, <2>5, <2>6
<1> HIDE DEF words, e
<1>5. i4_weights(bytes, format, seq)[c] = SignedNibble(Nibble(words[c \div 8 + 1], c % 8))
  <2> DEFINE nibble(x) == Nibble(words[x \div 8 + 1], x % 8)
  <2>1. i4_weights(bytes, format, seq)
          = [x \in 0..FragmentCodes - 1 |-> IF nibble(x) >= 8 THEN nibble(x) - 16 ELSE nibble(x)]
    BY Zenon DEF i4_weights, words, lane, Nibble
  <2> HIDE DEF nibble
  <2>2. i4_weights(bytes, format, seq)[c] = SignedNibble(nibble(c))
    BY <2>1 DEF SignedNibble, FragmentCodes
  <2> QED
    BY <2>2 DEF nibble
<1> QED
  BY <1>2, <1>4, <1>5

(* Every number up to 15 survives as a word.                               *)
LEMMA ValueOfNumber ==
  ASSUME NEW v \in 0..15
  PROVE  Value(Number(v)) = v
<1> DEFINE word == Number(v)
<1>1. /\ 0 \in word <=> v % 2 = 1
      /\ 1 \in word <=> (v \div 2) % 2 = 1
      /\ 2 \in word <=> (v \div 4) % 2 = 1
      /\ 3 \in word <=> (v \div 8) % 2 = 1
  BY NumberBits
<1>2. Value(word) = (IF 0 \in word THEN 1 ELSE 0) + (IF 1 \in word THEN 2 ELSE 0)
                    + (IF 2 \in word THEN 4 ELSE 0) + (IF 3 \in word THEN 8 ELSE 0)
  BY ValueBits
<1> HIDE DEF word
<1>3. Value(word) = v
  BY <1>1, <1>2
<1> QED
  BY <1>3 DEF word

(* The other way to read w2 and w4, byte by byte.                          *)
LEMMA GatherLevels ==
  ASSUME NEW format \in {"w2", "w4"}, NEW bytes, NEW code, IsFragment(bytes, format, code),
         NEW c \in 0..31
  PROVE  gather_weight(bytes, c, format) = decode_value(code[c], format)
<1> DEFINE b == bits[format]
           per_byte == 8 \div b
           at == c \div per_byte
           shift == (c % per_byte) * b
           packed == Load(bytes, at, 1)
           word == Shr(packed, shift) \cap (0..b - 1)
<1>1. b \in {2, 4} /\ format \in Formats
  BY DEF bits, Formats
<1>2. bytes \in SUBSET Int /\ code[c] \in CodeOf(format)
  BY DEF IsFragment
<1>3. \A p \in 0..b - 1 : b * c + p \in bytes <=> p \in Number(code[c])
  BY DEF IsFragment, HoldsCodes
<1>4. Number(code[c]) \subseteq 0..b - 1 /\ code[c] \in 0..15
  BY <1>1, <1>2, CodeFits
<1> HIDE DEF b
<1>5. at \in Int /\ shift \in Int /\ \A p \in 0..b - 1 : /\ p \in Int /\ p >= 0
        /\ p + shift >= 0 /\ p + shift < 8 * 1 /\ 8 * at + (p + shift) = b * c + p
  <2>1. CASE b = 2
    <3>1. per_byte = 4
      BY <2>1
    <3> HIDE DEF per_byte
    <3> QED
      BY <2>1, <3>1
  <2>2. CASE b = 4
    <3>1. per_byte = 2
      BY <2>2
    <3> HIDE DEF per_byte
    <3> QED
      BY <2>2, <3>1
  <2> QED
    BY <1>1, <2>1, <2>2
<1> HIDE DEF per_byte, at, shift
<1>6. packed \in SUBSET Int
  BY <1>2, <1>5, LoadInts
<1>7. \A p \in 0..b - 1 : p \in word <=> p \in Number(code[c])
  <2> SUFFICES ASSUME NEW p \in 0..b - 1
               PROVE  p \in word <=> p \in Number(code[c])
    OBVIOUS
  <2> DEFINE k == p + shift
  <2>1. p \in Int /\ p >= 0 /\ k \in Int /\ k >= 0 /\ k < 8 * 1 /\ 8 * at + k = b * c + p
    BY <1>5
  <2>2. p \in Shr(packed, shift) <=> p >= 0 /\ k \in packed
    BY <1>5, <1>6, <2>1, Shifts
  <2> HIDE DEF k
  <2>3. k \in packed <=> k >= 0 /\ k < 8 * 1 /\ 8 * at + k \in bytes
    BY <1>2, <1>5, <2>1, LoadBits
  <2>4. p \in word <=> p \in Shr(packed, shift)
    OBVIOUS
  <2> HIDE DEF word, packed
  <2> QED
    BY <1>3, <2>1, <2>2, <2>3, <2>4
<1>8. word = Number(code[c])
  <2>1. \A p \in word : p \in 0..b - 1
    OBVIOUS
  <2> HIDE DEF word
  <2> QED
    BY <1>4, <1>7, <2>1
<1>9. gather_weight(bytes, c, format) = decode_value(Value(word), format)
  BY Zenon DEF gather_weight, word, packed, at, shift, per_byte, b
<1>10. Value(word) = code[c]
  BY <1>4, <1>8, ValueOfNumber
<1> QED
  BY <1>9, <1>10

LEMMA PatternCodes ==
  ASSUME NEW format \in Formats, NEW p \in 0..2^bits[format] - 1
  PROVE  Pattern(format, p) \in Codes(format)
<1> DEFINE n == 2^bits[format]
<1>1. n \in {4, 8, 16} /\ CodeOf(format) = 0..n - 1
  <2>1. bits["w2"] = 2 /\ bits["w3"] = 3 /\ bits["w4"] = 4
    BY DEF bits
  <2>2. 2^2 = 4 /\ 2^3 = 8 /\ 2^4 = 16
    OBVIOUS
  <2>3. n \in {4, 8, 16}
    <3>1. CASE format = "w2"
      BY <2>1, <2>2, <3>1, Zenon
    <3>2. CASE format = "w3"
      BY <2>1, <2>2, <3>2, Zenon
    <3>3. CASE format = "w4"
      BY <2>1, <2>2, <3>3, Zenon
    <3> QED
      BY <3>1, <3>2, <3>3 DEF Formats
  <2> QED
    BY <2>3 DEF CodeOf
<1>2. Pattern(format, p) = [c \in Columns |-> (5 * c + p) % n]
  BY Zenon DEF Pattern, Columns
<1>3. p \in 0..n - 1
  OBVIOUS
<1> HIDE DEF n
<1>4. \A c \in Columns : (5 * c + p) % n \in 0..n - 1
  <2>1. p \in Int
    BY <1>1, <1>3
  <2> SUFFICES ASSUME NEW c \in Columns PROVE (5 * c + p) % n \in 0..n - 1
    OBVIOUS
  <2>2. c \in Int
    BY Groups DEF Columns
  <2> QED
    BY <1>1, <2>1, <2>2
<1> QED
  BY <1>1, <1>2, <1>4 DEF Codes

(* What the kernels expand is what was packed, for every code in every     *)
(* column.                                                                 *)
LEMMA CodesExpand ==
  ASSUME NEW format \in Formats, NEW seq, Sequential(format, seq)
  PROVE  Expands(format, seq)
<1> SUFFICES ASSUME NEW p \in 0..2^bits[format] - 1, NEW group \in 0..1,
                    NEW k_tile \in 0..KTiles - 1, NEW c \in 0..FragmentCodes - 1
             PROVE  LET codes == Pattern(format, p)
                        bytes == fragment(store_codes(codes, format), group, k_tile, format)
                        weights == i4_weights(bytes, format, seq)
                        column == group * kGroupSize + k_tile * FragmentCodes + c
                        level == decode_value(codes[column], format)
                    IN /\ weights[c] = level
                       /\ format # "w3" => gather_weight(bytes, c, format) = level
  BY Zenon DEF Expands
<1> DEFINE codes == Pattern(format, p)
           bytes == fragment(store_codes(codes, format), group, k_tile, format)
           at == First32(group, k_tile)
           code == [x \in 0..31 |-> codes[at + x]]
           column == group * kGroupSize + k_tile * FragmentCodes + c
           level == decode_value(codes[column], format)
<1>1. codes \in Codes(format)
  BY PatternCodes
<1>2. group \in {0, 1} /\ c \in 0..31
  BY DEF FragmentCodes
<1>3. \A x \in 0..31 : at \in Nat /\ at + x \in Columns
  BY <1>2, FragmentColumns
<1>4. \A x \in 0..31 : code[x] \in CodeOf(format)
  BY <1>1, <1>3 DEF Codes
<1>5. bytes \subseteq Int /\ HoldsCodes(bytes, format, code)
  <2> HIDE DEF codes
  <2> QED
    BY <1>1, <1>2, FragmentHolds
<1>6. column = at + c
  <2>1. k_tile \in Int /\ group \in Int /\ c \in Int /\ kGroupSize \in Int
    BY <1>2, Groups
  <2>2. group * kGroupSize \in Int
    BY <2>1
  <2> QED
    BY <2>1, <2>2 DEF First32, FragmentCodes
<1>7. code[c] = codes[column]
  BY <1>2, <1>6
<1> HIDE DEF codes, bytes, at, code, column
<1>8. IsFragment(bytes, format, code)
  BY <1>4, <1>5 DEF IsFragment
<1>9. i4_weights(bytes, format, seq)[c] = level
  BY <1>2, <1>7, <1>8, FragmentLevels
<1>10. format # "w3" => gather_weight(bytes, c, format) = level
  BY <1>2, <1>7, <1>8, GatherLevels DEF Formats
<1> QED
  BY <1>9, <1>10, Zenon DEF codes, bytes, column

------------------------------------------------------------------------------
(* Where a tile has its fragments and scales *)

LEMMA Quotient ==
  ASSUME NEW d \in Nat \ {0}, NEW q \in Nat, NEW r \in 0..d - 1
  PROVE  (q * d + r) \div d = q /\ (q * d + r) % d = r
<1> DEFINE a == q * d + r
           u == a \div d
           v == a % d
<1>1. a \in Nat /\ u \in Int /\ v \in 0..d - 1 /\ a = u * d + v
  <2>1. q * d \in Nat
    OBVIOUS
  <2> DEFINE m == q * d
  <2> HIDE DEF m
  <2>2. m + r \in Nat
    BY <2>1 DEF m
  <2> QED
    BY <2>2
<1>2. a = q * d + r
  OBVIOUS
<1> HIDE DEF a, u, v
<1>3. u = q
  <2>1. CASE u < q
    <3>1. q - u - 1 \in Nat
      BY <1>1, <2>1
    <3>2. (q - u - 1) * d \in Nat /\ q * d - u * d = (q - u - 1) * d + d
      BY <1>1, <3>1
    <3> QED
      BY <1>1, <1>2, <3>2
  <2>2. CASE u > q
    <3>1. u - q - 1 \in Nat
      BY <1>1, <2>2
    <3>2. (u - q - 1) * d \in Nat /\ u * d - q * d = (u - q - 1) * d + d
      BY <1>1, <3>1
    <3> QED
      BY <1>1, <1>2, <3>2
  <2> QED
    BY <1>1, <2>1, <2>2
<1> QED
  BY <1>1, <1>2, <1>3 DEF a, u, v

(* The first n digits of a number of base d come first.                    *)
LEMMA Below ==
  ASSUME NEW d \in Nat \ {0}, NEW n \in Nat, NEW q \in 0..n - 1, NEW r \in 0..d - 1
  PROVE  q * d + r \in 0..n * d - 1
<1>1. n - q - 1 \in Nat
  OBVIOUS
<1>2. (n - q - 1) * d \in Nat /\ n * d = q * d + (n - q - 1) * d + d /\ q * d \in Nat
  BY <1>1
<1> QED
  BY <1>2

LEMMA Division ==
  ASSUME NEW d \in Nat \ {0}, NEW x \in Nat
  PROVE  \E q \in Nat, r \in 0..d - 1 : x = q * d + r
<1>1. \E q \in Int, r \in 0..d - 1 : x \div d = q /\ x % d = r /\ x = q * d + r
  OBVIOUS
<1>2. PICK q \in Int, r \in 0..d - 1 : x = q * d + r
  BY <1>1
<1>3. CASE q < 0
  <2>1. -q - 1 \in Nat
    BY <1>3
  <2>2. (-q - 1) * d \in Nat /\ q * d = 0 - (-q - 1) * d - d
    BY <2>1
  <2> DEFINE e == (-q - 1) * d
             f == q * d
  <2>3. e \in Nat /\ f = 0 - e - d /\ x = f + r
    BY <1>2, <2>2
  <2> HIDE DEF e, f
  <2>4. FALSE
    BY <2>3
  <2> QED
    BY <2>4
<1>4. CASE q >= 0
  BY <1>2, <1>4
<1> QED
  BY <1>3, <1>4

LEMMA Above ==
  ASSUME NEW d \in Nat \ {0}, NEW n \in Nat, NEW x \in 0..n * d - 1
  PROVE  \E q \in 0..n - 1, r \in 0..d - 1 : x = q * d + r
<1> DEFINE m == n * d
<1>1. m \in Nat
  OBVIOUS
<1> HIDE DEF m
<1>2. x \in Nat /\ x < m
  BY <1>1 DEF m
<1>3. PICK q \in Nat, r \in 0..d - 1 : x = q * d + r
  BY <1>2, Division
<1>4. q < n
  <2> SUFFICES ASSUME ~(q < n) PROVE FALSE
    OBVIOUS
  <2>1. q - n \in Nat
    OBVIOUS
  <2> DEFINE e == (q - n) * d
             f == q * d
  <2>2. e \in Nat /\ f = m + e
    BY <2>1 DEF m
  <2>3. f \in Int /\ x = f + r
    BY <1>3
  <2> HIDE DEF e, f
  <2> QED
    BY <1>1, <1>2, <2>2, <2>3
<1> QED
  BY <1>3, <1>4

(* The k-th fragment of the lane-th row of a tile.                         *)
TilePlace(T, K, G, tile, group, k, lane) == ((tile * G + group) * K + k) * T + lane

LEMMA TilePlaceDigits ==
  ASSUME NEW T \in Nat \ {0}, NEW K \in Nat \ {0}, NEW G \in Nat \ {0},
         NEW tile \in Nat, NEW group \in 0..G - 1, NEW k \in 0..K - 1, NEW lane \in 0..T - 1
  PROVE  LET x == TilePlace(T, K, G, tile, group, k, lane) IN
           /\ x \in Nat
           /\ x \div (T * K * G) = tile /\ (x \div (T * K)) % G = group
           /\ (x \div T) % K = k /\ x % T = lane
<1> DEFINE a == tile * G + group
           b == a * K + k
           x == b * T + lane
<1>1. a \in Nat /\ b \in Nat /\ x \in Nat
  OBVIOUS
<1>2. a % G = group /\ a \div G = tile
  BY Quotient
<1> HIDE DEF a
<1>3. b % K = k /\ b \div K = a
  BY <1>1, Quotient
<1>4. x % T = lane /\ x \div T = b
  <2> HIDE DEF b
  <2> QED
    BY <1>1, Quotient
<1>5. x \div (T * K) = a
  <2>1. k * T + lane \in 0..K * T - 1
    BY Below
  <2>2. x = a * (T * K) + (k * T + lane) /\ T * K = K * T /\ T * K \in Nat \ {0}
    BY <1>1
  <2> HIDE DEF x
  <2> DEFINE d == T * K
             r == k * T + lane
  <2>3. d \in Nat \ {0} /\ r \in 0..d - 1 /\ x = a * d + r
    BY <2>1, <2>2
  <2> HIDE DEF d, r
  <2>4. x \div d = a
    BY <1>1, <2>3, Quotient
  <2> QED
    BY <2>4 DEF d
<1>6. x \div (T * K * G) = tile
  <2> DEFINE c == group * K + k
             r == c * T + lane
             d == T * K * G
  <2>1. c \in 0..G * K - 1
    BY Below
  <2>2. G * K \in Nat
    OBVIOUS
  <2> HIDE DEF c
  <2>3. r \in 0..(G * K) * T - 1
    BY <2>1, <2>2, Below
  <2>4. d = (G * K) * T /\ d \in Nat \ {0}
    OBVIOUS
  <2>5. x = tile * d + r
    <3>1. b = tile * (G * K) + c
      BY DEF a, c
    <3>2. x = (tile * (G * K) + c) * T + lane
      BY <3>1
    <3>3. c \in Int
      BY <2>1, <2>2
    <3>4. (tile * (G * K) + c) * T = tile * ((G * K) * T) + c * T
      BY <2>2, <3>3
    <3>5. d = (G * K) * T /\ r = c * T + lane
      BY <2>4
    <3>6. tile * d = tile * ((G * K) * T)
      BY <3>5
    <3>7. tile * ((G * K) * T) \in Int /\ c * T \in Int
      BY <2>2, <3>3
    <3> HIDE DEF d, r, x
    <3> QED
      BY <3>2, <3>4, <3>5, <3>6, <3>7
  <2> HIDE DEF d, r, x
  <2>6. x \div d = tile
    BY <2>3, <2>4, <2>5, Quotient
  <2> QED
    BY <2>6 DEF d
<1> QED
  BY <1>1, <1>2, <1>3, <1>4, <1>5, <1>6 DEF TilePlace, a

LEMMA TilePlaceBelow ==
  ASSUME NEW T \in Nat \ {0}, NEW K \in Nat \ {0}, NEW G \in Nat, NEW tiles \in Nat,
         NEW tile \in 0..tiles - 1, NEW group \in 0..G - 1, NEW k \in 0..K - 1,
         NEW lane \in 0..T - 1
  PROVE  TilePlace(T, K, G, tile, group, k, lane) \in 0..(tiles * T) * G * K - 1
<1> DEFINE m == tiles * G
           n == m * K
           a == tile * G + group
           b == a * K + k
<1>1. G \in Nat \ {0} /\ m \in Nat /\ n \in Nat /\ (tiles * T) * G * K = n * T
  OBVIOUS
<1>2. a \in 0..m - 1
  BY <1>1, Below
<1> HIDE DEF m, a
<1>3. b \in 0..n - 1
  BY <1>1, <1>2, Below
<1> HIDE DEF n, b
<1>4. b * T + lane \in 0..n * T - 1
  BY <1>1, <1>3, Below
<1> QED
  BY <1>1, <1>4 DEF TilePlace, a, b

(* The fragments of q tiles come first.                                    *)
Extent(T, K, G, q) == (q * T) * G * K
Digits(T, K, G, q, tile, group, k, lane) ==
  /\ T \in Int /\ K \in Int /\ G \in Int /\ q \in Int
  /\ tile \in Int /\ group \in Int /\ k \in Int /\ lane \in Int

LEMMA TilePlaceAfter ==
  ASSUME NEW T, NEW K, NEW G, NEW q, NEW tile, NEW group, NEW k, NEW lane,
         Digits(T, K, G, q, tile, group, k, lane)
  PROVE  TilePlace(T, K, G, q + tile, group, k, lane)
           = Extent(T, K, G, q) + TilePlace(T, K, G, tile, group, k, lane)
<1>0. /\ T \in Int /\ K \in Int /\ G \in Int /\ q \in Int
      /\ tile \in Int /\ group \in Int /\ k \in Int /\ lane \in Int
  BY DEF Digits
<1> DEFINE a == tile * G + group
           b == a * K + k
<1>1. (q + tile) * G + group = q * G + a /\ q * G \in Int /\ a \in Int
  BY <1>0
<1> DEFINE u == q * G
<1> HIDE DEF a
<1>2. (u + a) * K + k = u * K + b /\ u * K \in Int /\ b \in Int
  BY <1>0, <1>1
<1> DEFINE v == u * K
<1> HIDE DEF b
<1>3. (v + b) * T + lane = v * T + (b * T + lane) /\ v * T \in Int /\ b * T \in Int
  BY <1>0, <1>2
<1>4. v * T = Extent(T, K, G, q)
  BY <1>0, <1>1 DEF Extent
<1>5. TilePlace(T, K, G, q + tile, group, k, lane) = (v + b) * T + lane
  BY <1>1, <1>2, Zenon DEF TilePlace
<1>6. TilePlace(T, K, G, tile, group, k, lane) = b * T + lane
  BY Zenon DEF TilePlace, a, b
<1> QED
  BY <1>0, <1>3, <1>4, <1>5, <1>6

FragmentAt(groups, r, group, k) ==
  (((r \div TileRows) * groups + group) * KTiles + k) * TileRows + (r % TileRows) + 1
ScaleAt(groups, r, group) ==
  ((r \div TileRows) * groups + group) * TileRows + (r % TileRows) + 1

LEMMA TilesOf ==
  ASSUME NEW n \in Nat, n % TileRows = 0
  PROVE  \E q \in Nat : n = q * TileRows
<1> DEFINE q == n \div TileRows
<1>1. q \in Nat /\ n = q * TileRows
  BY TileAssumption, Multiple
<1> QED
  BY <1>1, Zenon

(* Row r in its tile.                                                      *)
LEMMA RowDigits ==
  ASSUME NEW tiles \in Nat, NEW r \in 0..tiles * TileRows - 1
  PROVE  \E tile \in 0..tiles - 1, lane \in 0..TileRows - 1 : r = tile * TileRows + lane
BY TileAssumption, Above

LEMMA PlacesOfRow ==
  ASSUME NEW G \in Nat, NEW tile \in Nat, NEW lane \in 0..TileRows - 1,
         NEW group \in 0..G - 1, NEW k \in 0..KTiles - 1
  PROVE  /\ FragmentAt(G, tile * TileRows + lane, group, k)
              = TilePlace(TileRows, KTiles, G, tile, group, k, lane) + 1
         /\ ScaleAt(G, tile * TileRows + lane, group)
              = TilePlace(TileRows, 1, G, tile, group, 0, lane) + 1
<1> DEFINE r == tile * TileRows + lane
<1>1. r \div TileRows = tile /\ r % TileRows = lane
  BY TileAssumption, Quotient
<1> HIDE DEF r
<1>2. FragmentAt(G, r, group, k) = ((tile * G + group) * KTiles + k) * TileRows + lane + 1
  BY <1>1, Zenon DEF FragmentAt
<1>3. ScaleAt(G, r, group) = (tile * G + group) * TileRows + lane + 1
  BY <1>1, Zenon DEF ScaleAt
<1> DEFINE a == tile * G + group
<1>4. a \in Nat /\ (a * 1 + 0) = a
  OBVIOUS
<1>5. TilePlace(TileRows, 1, G, tile, group, 0, lane) = (a * 1 + 0) * TileRows + lane
  BY DEF TilePlace
<1>6. TilePlace(TileRows, KTiles, G, tile, group, k, lane) = (a * KTiles + k) * TileRows + lane
  BY DEF TilePlace
<1> HIDE DEF a
<1> QED
  BY <1>2, <1>3, <1>4, <1>5, <1>6 DEF r, a

------------------------------------------------------------------------------
(* Rows that are appended to those of a plane *)

(* Sequences by their elements.                                            *)
Lists(s, n) == n \in Nat /\ s = [i \in 1..n |-> s[i]]

Joins(st, s, t, m, n) ==
  /\ Lists(st, m + n)
  /\ \A i \in 1..m : st[i] = s[i]
  /\ \A i \in 1..n : st[m + i] = t[i]

LEMMA Appended ==
  ASSUME NEW m, NEW n, NEW s, NEW t, Lists(s, m), Lists(t, n)
  PROVE  Joins(s \o t, s, t, m, n)
<1> DEFINE S == {s[i] : i \in 1..m} \cup {t[i] : i \in 1..n}
<1>1. m \in Nat /\ n \in Nat /\ s = [i \in 1..m |-> s[i]] /\ t = [i \in 1..n |-> t[i]]
  BY DEF Lists
<1>2. (\A i \in 1..m : s[i] \in S) /\ (\A i \in 1..n : t[i] \in S)
  OBVIOUS
<1> HIDE DEF S
<1>3. s \in Seq(S) /\ DOMAIN s = 1..m
  BY <1>1, <1>2, IsASeq
<1>4. t \in Seq(S) /\ DOMAIN t = 1..n
  BY <1>1, <1>2, IsASeq
<1>5. Len(s) = m /\ Len(t) = n
  BY <1>1, <1>3, <1>4, LenProperties
<1>6. /\ s \o t \in Seq(S) /\ Len(s \o t) = m + n
      /\ \A i \in 1..m + n : (s \o t)[i] = IF i <= m THEN s[i] ELSE t[i - m]
  BY <1>3, <1>4, <1>5, ConcatProperties
<1>7. Lists(s \o t, m + n)
  <2> DEFINE st == s \o t
  <2> HIDE DEF st
  <2>1. st \in Seq(S) /\ Len(st) = m + n
    BY <1>6 DEF st
  <2>2. st = [i \in 1..m + n |-> st[i]]
    BY <1>1, <2>1, LenProperties
  <2> QED
    BY <1>1, <2>2 DEF Lists, st
<1>8. \A i \in 1..m : (s \o t)[i] = s[i]
  BY <1>1, <1>6
<1>9. \A i \in 1..n : (s \o t)[m + i] = t[i]
  <2> SUFFICES ASSUME NEW i \in 1..n PROVE (s \o t)[m + i] = t[i]
    OBVIOUS
  <2>1. m + i \in 1..m + n /\ ~(m + i <= m) /\ (m + i) - m = i
    BY <1>1
  <2> QED
    BY <1>6, <2>1
<1> QED
  BY <1>7, <1>8, <1>9, Zenon DEF Joins

(* How many fragments and scales a chunk has.                              *)
LEMMA TileSizes ==
  ASSUME NEW source, NEW rows, NEW G \in Nat, Len(rows) \in Nat
  PROVE  /\ Lists(tile_codes(source, rows, G), Len(rows) * G * KTiles)
         /\ Lists(tile_scales(source, rows, G), Len(rows) * G)
<1> DEFINE n == Len(rows)
<1>1. n * G \in Nat /\ n * G * KTiles \in Nat
  <2>1. \A a, b, c \in Nat : a * b \in Nat /\ a * b * c \in Nat
    OBVIOUS
  <2> QED
    BY <2>1, TileAssumption
<1> HIDE DEF n
<1> QED
  BY <1>1, Zenon DEF Lists, tile_codes, tile_scales, n

(* A fragment and a scale of row r, where the kernels look for them.       *)
TilesHold(codes, scales, source, rows, G, r, group, k) ==
  /\ FragmentAt(G, r, group, k) \in 1..Len(rows) * G * KTiles
  /\ codes[FragmentAt(G, r, group, k)] = <<source, rows[r + 1], group, k>>
  /\ ScaleAt(G, r, group) \in 1..Len(rows) * G
  /\ scales[ScaleAt(G, r, group)] = <<source, rows[r + 1], group>>

LEMMA TileReads ==
  ASSUME NEW source, NEW rows, NEW tiles \in Nat, Len(rows) = tiles * TileRows, NEW G \in Nat,
         NEW r \in 0..tiles * TileRows - 1, NEW group \in 0..G - 1, NEW k \in 0..KTiles - 1
  PROVE  TilesHold(tile_codes(source, rows, G), tile_scales(source, rows, G), source, rows, G,
                   r, group, k)
<1>1. PICK tile \in 0..tiles - 1, lane \in 0..TileRows - 1 : r = tile * TileRows + lane
  BY RowDigits
<1> DEFINE x == TilePlace(TileRows, KTiles, G, tile, group, k, lane)
           y == TilePlace(TileRows, 1, G, tile, group, 0, lane)
           m == Len(rows) * G * KTiles
           n == Len(rows) * G
<1>2. FragmentAt(G, r, group, k) = x + 1 /\ ScaleAt(G, r, group) = y + 1
  BY <1>1, PlacesOfRow
<1>3. G \in Nat \ {0} /\ TileRows \in Nat \ {0} /\ KTiles \in Nat \ {0} /\ tile \in Nat
  BY TileAssumption
<1>0. 1 \in Nat \ {0} /\ 0 \in 0..1 - 1
  OBVIOUS
<1>4. x \in 0..m - 1
  BY <1>3, TilePlaceBelow
<1>5. y \in 0..n - 1
  <2>1. y \in 0..(tiles * TileRows) * G * 1 - 1
    BY <1>0, <1>1, <1>3, TilePlaceBelow, Zenon
  <2>2. (tiles * TileRows) * G \in Nat
    BY <1>3
  <2>3. (tiles * TileRows) * G * 1 = n
    BY <2>2
  <2> QED
    BY <2>1, <2>3
<1>6. /\ x \in Nat /\ x \div (TileRows * KTiles * G) = tile
      /\ (x \div (TileRows * KTiles)) % G = group
      /\ (x \div TileRows) % KTiles = k /\ x % TileRows = lane
  BY <1>3, TilePlaceDigits
<1>7. /\ y \in Nat /\ y \div (TileRows * G) = tile
      /\ (y \div TileRows) % G = group /\ y % TileRows = lane
  <2> DEFINE one == 1
             zero == 0
             z == TilePlace(TileRows, one, G, tile, group, zero, lane)
  <2>0. one \in Nat \ {0} /\ zero \in 0..one - 1
    OBVIOUS
  <2> HIDE DEF one, zero
  <2>4. /\ z \in Nat /\ z \div (TileRows * one * G) = tile
        /\ (z \div (TileRows * one)) % G = group /\ z % TileRows = lane
    BY <1>3, <2>0, TilePlaceDigits
  <2>5. z = y
    BY DEF one, zero
  <2> HIDE DEF y, z
  <2>1. /\ y \in Nat /\ y \div (TileRows * 1 * G) = tile
        /\ (y \div (TileRows * 1)) % G = group /\ y % TileRows = lane
    BY <2>4, <2>5, Zenon DEF one
  <2>2. TileRows * 1 = TileRows
    BY <1>3
  <2> QED
    BY <2>1, <2>2
<1>8. m \in Nat /\ n \in Nat
  <2>1. \A a, b, c \in Nat : a * b \in Nat /\ a * b * c \in Nat
    OBVIOUS
  <2>2. Len(rows) \in Nat
    BY <1>3
  <2> QED
    BY <1>3, <2>1, <2>2
<1> HIDE DEF x, y
<1>9. x + 1 \in 1..m /\ (x + 1) - 1 = x /\ y + 1 \in 1..n /\ (y + 1) - 1 = y
  <2> HIDE DEF m, n
  <2> QED
    BY <1>4, <1>5, <1>6, <1>7, <1>8
<1>10. tile_codes(source, rows, G)[x + 1] = <<source, rows[tile * TileRows + lane + 1], group, k>>
  BY <1>6, <1>9, Zenon DEF tile_codes, m
<1>11. tile_scales(source, rows, G)[y + 1] = <<source, rows[tile * TileRows + lane + 1], group>>
  BY <1>7, <1>9, Zenon DEF tile_scales, n
<1> QED
  BY <1>1, <1>2, <1>9, <1>10, <1>11 DEF TilesHold

(* Row r of a matrix in its source.                                        *)
SourceRow(p, r) == IF p.kind = "draft_head" THEN p.selected_rows[r + 1] ELSE r

(* The first R rows of a matrix are where the kernels look for them.       *)
HoldsRows(p, data, aux, R) ==
  /\ Lists(data, R * p.groups * KTiles) /\ Lists(aux, R * p.groups)
  /\ \A r \in 0..R - 1, group \in 0..p.groups - 1 :
       /\ kernel_scale(aux, p, r, group) = <<p.source, SourceRow(p, r), group>>
       /\ \A k \in 0..KTiles - 1 :
            kernel_fragment(data, p, r, group, k) = <<p.source, SourceRow(p, r), group, k>>

LEMMA KernelReads ==
  ASSUME NEW p, NEW data, NEW aux, NEW r, NEW group, NEW k
  PROVE  /\ kernel_fragment(data, p, r, group, k) = data[FragmentAt(p.groups, r, group, k)]
         /\ kernel_scale(aux, p, r, group) = aux[ScaleAt(p.groups, r, group)]
BY Zenon DEF kernel_fragment, kernel_scale, FragmentAt, ScaleAt

(* Where a row is does not depend on how many follow.                      *)
LEMMA RowPlaces ==
  ASSUME NEW tiles \in Nat, NEW G \in Nat, NEW r \in 0..tiles * TileRows - 1,
         NEW group \in 0..G - 1, NEW k \in 0..KTiles - 1
  PROVE  /\ FragmentAt(G, r, group, k) \in 1..(tiles * TileRows) * G * KTiles
         /\ ScaleAt(G, r, group) \in 1..(tiles * TileRows) * G
<1> DEFINE n == tiles * TileRows
           rows == [i \in 1..n |-> i]
<1>1. n \in Nat
  BY TileAssumption
<1> HIDE DEF n
<1>2. rows \in Seq(1..n) /\ DOMAIN rows = 1..n
  BY <1>1, IsASeq
<1>3. Len(rows) = n
  BY <1>1, <1>2, LenProperties
<1> HIDE DEF rows
<1>4. Len(rows) = tiles * TileRows
  BY <1>3 DEF n
<1>5. TilesHold(tile_codes(0, rows, G), tile_scales(0, rows, G), 0, rows, G, r, group, k)
  BY <1>4, TileReads
<1> QED
  BY <1>4, <1>5 DEF TilesHold

(* What follows whole tiles follows all of their fragments and scales.     *)
LEMMA PlacesAfter ==
  ASSUME NEW q \in Nat, NEW tiles \in Nat, NEW G \in Nat, NEW r \in 0..tiles * TileRows - 1,
         NEW group \in 0..G - 1, NEW k \in 0..KTiles - 1
  PROVE  /\ FragmentAt(G, q * TileRows + r, group, k)
              = (q * TileRows) * G * KTiles + FragmentAt(G, r, group, k)
         /\ ScaleAt(G, q * TileRows + r, group)
              = (q * TileRows) * G + ScaleAt(G, r, group)
<1>1. PICK tile \in 0..tiles - 1, lane \in 0..TileRows - 1 : r = tile * TileRows + lane
  BY RowDigits
<1>2. tile \in Nat /\ q + tile \in Nat /\ lane \in Nat /\ group \in Nat /\ k \in Nat
      /\ TileRows \in Nat /\ KTiles \in Nat /\ q \in Int
  BY <1>1, TileAssumption
<1>3. q * TileRows + r = (q + tile) * TileRows + lane
  <2>1. (q + tile) * TileRows = q * TileRows + tile * TileRows /\ q * TileRows \in Nat
        /\ tile * TileRows \in Nat
    BY <1>2
  <2> DEFINE a == q * TileRows
             b == tile * TileRows
             c == (q + tile) * TileRows
  <2>2. r = b + lane /\ c = a + b /\ a \in Nat /\ b \in Nat
    BY <1>1, <2>1
  <2> HIDE DEF a, b, c
  <2>3. a + r = c + lane
    BY <1>2, <2>2
  <2> QED
    BY <2>3 DEF a, c
<1> DEFINE x == TilePlace(TileRows, KTiles, G, tile, group, k, lane)
           y == TilePlace(TileRows, 1, G, tile, group, 0, lane)
           X == TilePlace(TileRows, KTiles, G, q + tile, group, k, lane)
           Y == TilePlace(TileRows, 1, G, q + tile, group, 0, lane)
<1>4. FragmentAt(G, r, group, k) = x + 1 /\ ScaleAt(G, r, group) = y + 1
  BY <1>1, <1>2, PlacesOfRow
<1>5. FragmentAt(G, q * TileRows + r, group, k) = X + 1
      /\ ScaleAt(G, q * TileRows + r, group) = Y + 1
  <2> DEFINE t == q + tile
  <2>1. t \in Nat
    BY <1>2
  <2>2. /\ FragmentAt(G, t * TileRows + lane, group, k)
             = TilePlace(TileRows, KTiles, G, t, group, k, lane) + 1
        /\ ScaleAt(G, t * TileRows + lane, group)
             = TilePlace(TileRows, 1, G, t, group, 0, lane) + 1
    <3> HIDE DEF t
    <3> QED
      BY <2>1, PlacesOfRow
  <2> QED
    BY <1>3, <2>2
<1>6. X = (q * TileRows) * G * KTiles + x
  <2>1. Digits(TileRows, KTiles, G, q, tile, group, k, lane)
    BY <1>2 DEF Digits
  <2>2. X = Extent(TileRows, KTiles, G, q) + x
    BY <2>1, TilePlaceAfter
  <2> QED
    BY <2>2, Zenon DEF Extent
<1>7. Y = (q * TileRows) * G + y
  <2>0. Digits(TileRows, 1, G, q, tile, group, 0, lane)
    BY <1>2 DEF Digits
  <2>1. Y = Extent(TileRows, 1, G, q) + y
    BY <2>0, TilePlaceAfter
  <2>2. (q * TileRows) * G \in Nat
    BY <1>2
  <2> DEFINE n == (q * TileRows) * G
  <2>3. n * 1 = n
    BY <2>2
  <2> QED
    BY <2>1, <2>3 DEF Extent
<1>8. x \in Nat /\ y \in Nat /\ (q * TileRows) * G \in Nat /\ (q * TileRows) * G * KTiles \in Nat
  <2>1. \A a, b, c \in Nat : a * b \in Nat /\ a * b * c \in Nat /\ a + b \in Nat
    OBVIOUS
  <2>2. q * TileRows \in Nat
    BY <1>2
  <2>3. (q * TileRows) * G \in Nat /\ (q * TileRows) * G * KTiles \in Nat
    BY <1>2, <2>1, <2>2
  <2>4. x \in Nat /\ y \in Nat
    BY <1>2, <2>1 DEF TilePlace
  <2> QED
    BY <2>3, <2>4
<1> DEFINE m == (q * TileRows) * G * KTiles
           n == (q * TileRows) * G
<1> HIDE DEF x, y, X, Y, m, n
<1>9. X + 1 = m + (x + 1) /\ Y + 1 = n + (y + 1)
  BY <1>6, <1>7, <1>8 DEF m, n
<1> QED
  BY <1>4, <1>5, <1>9 DEF m, n

(* A chunk of whole tiles behind whole tiles: every row is where it would be*)
(* if the matrix had been tiled at once.                                   *)
LEMMA RowsAppended ==
  ASSUME NEW p, p.groups \in Nat, NEW data, NEW aux, NEW R \in Nat, R % TileRows = 0,
         HoldsRows(p, data, aux, R), NEW rows, Len(rows) \in Nat, Len(rows) % TileRows = 0,
         \A n \in 1..Len(rows) : rows[n] = SourceRow(p, R + n - 1)
  PROVE  HoldsRows(p, data \o tile_codes(p.source, rows, p.groups),
                   aux \o tile_scales(p.source, rows, p.groups), R + Len(rows))
<1> DEFINE G == p.groups
           count == Len(rows)
           codes == tile_codes(p.source, rows, G)
           scales == tile_scales(p.source, rows, G)
           m == R * G * KTiles
           n == count * G * KTiles
           i == R * G
           j == count * G
<1>1. PICK q \in Nat : R = q * TileRows
  BY TilesOf
<1>2. PICK tiles \in Nat : count = tiles * TileRows
  BY TilesOf
<1>3. Lists(data, m) /\ Lists(aux, i)
  BY DEF HoldsRows
<1>4. Lists(codes, n) /\ Lists(scales, j)
  BY TileSizes
<1>5. G \in Nat /\ count \in Nat /\ KTiles \in Nat
  BY TileAssumption
<1>6. m + n = (R + count) * G * KTiles /\ i + j = (R + count) * G
  <2> HIDE DEF G, count
  <2>1. \A a, b, c, d \in Int : a * c + b * c = (a + b) * c
        /\ a * c * d + b * c * d = (a + b) * c * d
    OBVIOUS
  <2> QED
    BY <1>5, <2>1
<1> HIDE DEF codes, scales
<1>7. /\ Lists(data \o codes, m + n)
      /\ \A x \in 1..m : (data \o codes)[x] = data[x]
      /\ \A x \in 1..n : (data \o codes)[m + x] = codes[x]
  <2> HIDE DEF m, n
  <2>1. Joins(data \o codes, data, codes, m, n)
    BY <1>3, <1>4, Appended
  <2> QED
    BY <2>1, Zenon DEF Joins
<1>8. /\ Lists(aux \o scales, i + j)
      /\ \A x \in 1..i : (aux \o scales)[x] = aux[x]
      /\ \A x \in 1..j : (aux \o scales)[i + x] = scales[x]
  <2> HIDE DEF i, j
  <2>1. Joins(aux \o scales, aux, scales, i, j)
    BY <1>3, <1>4, Appended
  <2> QED
    BY <2>1, Zenon DEF Joins
<1>9. ASSUME NEW r \in 0..R + count - 1, NEW group \in 0..G - 1, NEW k \in 0..KTiles - 1
      PROVE  /\ kernel_scale(aux \o scales, p, r, group) = <<p.source, SourceRow(p, r), group>>
             /\ kernel_fragment(data \o codes, p, r, group, k)
                  = <<p.source, SourceRow(p, r), group, k>>
  <2> DEFINE f(t) == FragmentAt(G, t, group, k)
             g(t) == ScaleAt(G, t, group)
  <2>1. /\ kernel_fragment(data \o codes, p, r, group, k) = (data \o codes)[f(r)]
        /\ kernel_scale(aux \o scales, p, r, group) = (aux \o scales)[g(r)]
    BY Zenon DEF kernel_fragment, kernel_scale, FragmentAt, ScaleAt
  <2>2. CASE r < R
    <3>1. r \in 0..R - 1
      BY <1>5, <2>2
    <3>2. r \in 0..q * TileRows - 1
      BY <1>1, <3>1
    <3>3. f(r) \in 1..m /\ g(r) \in 1..i
      <4>1. /\ FragmentAt(G, r, group, k) \in 1..(q * TileRows) * G * KTiles
            /\ ScaleAt(G, r, group) \in 1..(q * TileRows) * G
        <5> HIDE DEF G
        <5> QED
          BY <1>5, <3>2, RowPlaces
      <4> QED
        BY <1>1, <4>1
    <3>4. /\ kernel_fragment(data, p, r, group, k) = <<p.source, SourceRow(p, r), group, k>>
          /\ kernel_scale(aux, p, r, group) = <<p.source, SourceRow(p, r), group>>
      BY <3>1 DEF HoldsRows
    <3>5. kernel_fragment(data, p, r, group, k) = data[f(r)]
          /\ kernel_scale(aux, p, r, group) = aux[g(r)]
      BY Zenon DEF kernel_fragment, kernel_scale, FragmentAt, ScaleAt
    <3>6. (data \o codes)[f(r)] = data[f(r)] /\ (aux \o scales)[g(r)] = aux[g(r)]
      <4> HIDE DEF m, i, f, g
      <4> QED
        BY <1>7, <1>8, <3>3
    <3> HIDE DEF f, g
    <3> QED
      BY <2>1, <3>4, <3>5, <3>6
  <2>3. CASE ~(r < R)
    <3> DEFINE s == r - R
    <3>1. s \in 0..count - 1 /\ r = R + s
      BY <1>5, <2>3
    <3> HIDE DEF s
    <3>2. s \in 0..tiles * TileRows - 1 /\ r = q * TileRows + s
      BY <1>1, <1>2, <3>1
    <3>3. /\ f(s) \in 1..n /\ codes[f(s)] = <<p.source, rows[s + 1], group, k>>
          /\ g(s) \in 1..j /\ scales[g(s)] = <<p.source, rows[s + 1], group>>
      <4>1. TilesHold(codes, scales, p.source, rows, G, s, group, k)
        <5> DEFINE source == p.source
        <5> HIDE DEF G, source
        <5>1. Len(rows) = tiles * TileRows
          BY <1>2
        <5>2. TilesHold(tile_codes(source, rows, G), tile_scales(source, rows, G), source,
                        rows, G, s, group, k)
          BY <1>5, <3>2, <5>1, TileReads
        <5> QED
          BY <5>2 DEF source, codes, scales
      <4> QED
        BY <4>1 DEF TilesHold
    <3>4. f(r) = m + f(s) /\ g(r) = i + g(s)
      <4>1. /\ FragmentAt(G, q * TileRows + s, group, k)
                  = (q * TileRows) * G * KTiles + FragmentAt(G, s, group, k)
            /\ ScaleAt(G, q * TileRows + s, group)
                  = (q * TileRows) * G + ScaleAt(G, s, group)
        <5> HIDE DEF G
        <5> QED
          BY <1>5, <3>2, PlacesAfter
      <4> QED
        BY <1>1, <3>2, <4>1
    <3>5. (data \o codes)[f(r)] = codes[f(s)] /\ (aux \o scales)[g(r)] = scales[g(s)]
      <4> HIDE DEF m, n, i, j, f, g
      <4> QED
        BY <1>7, <1>8, <3>3, <3>4
    <3>6. rows[s + 1] = SourceRow(p, r)
      <4>1. s + 1 \in 1..count /\ R + (s + 1) - 1 = r
        BY <1>5, <3>1
      <4> QED
        BY <4>1
    <3> HIDE DEF f, g
    <3> QED
      BY <2>1, <3>3, <3>5, <3>6
  <2> QED
    BY <2>2, <2>3
<1>10. \A r \in 0..R + count - 1, group \in 0..G - 1 :
         kernel_scale(aux \o scales, p, r, group) = <<p.source, SourceRow(p, r), group>>
  <2>1. 0 \in 0..KTiles - 1
    BY TileAssumption
  <2> QED
    BY <1>9, <2>1, Zenon
<1>11. Lists(data \o codes, (R + count) * G * KTiles) /\ Lists(aux \o scales, (R + count) * G)
  <2> HIDE DEF m, n, i, j
  <2> QED
    BY <1>6, <1>7, <1>8
<1> DEFINE data2 == data \o codes
           aux2 == aux \o scales
           R2 == R + count
<1>12. HoldsRows(p, data2, aux2, R2)
  <2>1. \A r \in 0..R2 - 1, group \in 0..p.groups - 1, k \in 0..KTiles - 1 :
          kernel_fragment(data2, p, r, group, k) = <<p.source, SourceRow(p, r), group, k>>
    BY <1>9
  <2>2. \A r \in 0..R2 - 1, group \in 0..p.groups - 1 :
          kernel_scale(aux2, p, r, group) = <<p.source, SourceRow(p, r), group>>
    BY <1>10
  <2>3. Lists(data2, R2 * p.groups * KTiles) /\ Lists(aux2, R2 * p.groups)
    BY <1>11
  <2> HIDE DEF data2, aux2, R2
  <2> QED
    BY <2>1, <2>2, <2>3, Zenon DEF HoldsRows
<1> QED
  BY <1>12, Zenon DEF codes, scales

------------------------------------------------------------------------------
(* Plans whose items can be read *)

IsDraft(p) == p.kind \in {"draft_head", "draft_token_ids"}

(* What the readers of an item rely on.                                    *)
Readable(p) ==
  /\ IF IsMatrix(p) THEN p.format \in Formats
     ELSE p.format = "none" /\ p.rows = 0 /\ p.source = p.name
  /\ p.format = "w3" =>
       p.name # "embed" /\ (options.output_head_bits = 3 \/ options.mlp_bits = 3)
  /\ p.kind = "draft_token_ids" => p.selected_rows \in [1..DraftRows -> Token]
(* A draft head has the rows that its token ids name.                      *)
ReadablePlan(items) ==
  /\ \A n \in DOMAIN items : Readable(items[n])
  /\ \A m, n \in DOMAIN items :
       IsDraft(items[m]) /\ IsDraft(items[n]) => items[m].selected_rows = items[n].selected_rows
  /\ (\E n \in DOMAIN items : items[n].kind = "draft_head") =>
       \E n \in DOMAIN items : items[n].kind = "draft_token_ids"

LEMMA HeadFormat ==
  /\ head_format(options) \in Formats
  /\ head_format(options) = "w3" => options.output_head_bits = 3
BY DEF head_format, Formats

LEMMA TensorReadable ==
  ASSUME NEW name
  PROVE  Readable(TensorItem(name)) /\ ~IsDraft(TensorItem(name))
<1> DEFINE t == Descriptor(name)
           format == choose_quantization(name, t.shape, options)
           p == TensorItem(name)
<1>1. CASE format = "none"
  <2>1. p = Other(name, "tensor", <<>>, t.end - t.begin)
    BY <1>1 DEF TensorItem
  <2>2. p.kind = "tensor" /\ p.format = "none" /\ p.rows = 0 /\ p.source = name /\ p.name = name
    BY <2>1 DEF Other
  <2> HIDE DEF p
  <2>3. Readable(p) /\ ~IsDraft(p)
    BY <2>2 DEF Readable, IsMatrix, IsDraft
  <2> QED
    BY <2>3 DEF p
<1>2. CASE format # "none"
  <2>1. p = Matrix(name, name, format, t.shape, "matrix", <<>>)
    BY <1>2 DEF TensorItem
  <2>2. p.kind = "matrix" /\ p.format = format /\ p.name = name
    BY <2>1 DEF Matrix
  <2>3. format \in Formats
    BY <1>2, HeadFormat DEF choose_quantization, Formats
  <2>4. ASSUME format = "w3"
        PROVE  name # "embed" /\ (options.output_head_bits = 3 \/ options.mlp_bits = 3)
    <3>1. CASE name = "lm_head"
      <4>1. format = head_format(options)
        BY <1>2, <3>1 DEF choose_quantization
      <4> QED
        BY <2>4, <3>1, <4>1, HeadFormat
    <3>2. CASE name # "lm_head"
      <4>1. is_early_mlp(name, options.w4_tail_layers) /\ options.mlp_bits = 3
        BY <1>2, <2>4, <3>2 DEF choose_quantization
      <4> QED
        BY <4>1, EmbedAssumption DEF is_early_mlp
    <3> QED
      BY <3>1, <3>2
  <2> HIDE DEF p, format
  <2>5. Readable(p) /\ ~IsDraft(p)
    BY <2>2, <2>3, <2>4 DEF Readable, IsMatrix, IsDraft
  <2> QED
    BY <2>5 DEF p
<1> QED
  BY <1>1, <1>2

LEMMA ResourceReadable ==
  ASSUME NEW r
  PROVE  Readable(ResourceItem(r)) /\ ~IsDraft(ResourceItem(r))
<1> DEFINE p == ResourceItem(r)
<1>1. p.kind = "resource" /\ p.format = "none" /\ p.rows = 0 /\ p.source = r /\ p.name = r
  BY DEF ResourceItem, Other
<1> HIDE DEF p
<1>2. Readable(p) /\ ~IsDraft(p)
  BY <1>1 DEF Readable, IsMatrix, IsDraft
<1> QED
  BY <1>2 DEF p

LEMMA DraftReadable ==
  ASSUME disk \in Disks \cup Replacements, ranked(options), disk.ranking # NoRanking,
         NEW i \in {1, 2}
  PROVE  LET p == DraftItems(DraftRowsOf)[i] IN
           /\ Readable(p) /\ p.selected_rows = DraftRowsOf
           /\ p.kind = IF i = 1 THEN "draft_head" ELSE "draft_token_ids"
<1> DEFINE rows == DraftRowsOf
           head == DraftItems(rows)[1]
           ids == DraftItems(rows)[2]
<1>1. rows \in [1..DraftRows -> Token]
  <2>1. disk.ranking \in Rankings
    BY RankingsOf
  <2> QED
    BY <2>1, SelectedRows DEF Best, DraftRowsOf
<1> HIDE DEF rows
<1>2. /\ head.kind = "draft_head" /\ head.format = head_format(options)
      /\ head.name = "mtp.draft_head.weight" /\ head.selected_rows = rows
  BY DEF DraftItems, Matrix
<1>3. /\ ids.kind = "draft_token_ids" /\ ids.format = "none" /\ ids.rows = 0
      /\ ids.source = ids.name /\ ids.selected_rows = rows
  BY DEF DraftItems, Other
<1> HIDE DEF head, ids
<1>4. Readable(head)
  BY <1>2, HeadFormat DEF Readable, IsMatrix
<1>5. Readable(ids)
  BY <1>1, <1>3 DEF Readable, IsMatrix
<1> QED
  BY <1>2, <1>3, <1>4, <1>5 DEF head, ids, rows

(* Whoever plans a draft head plans its token ids.                         *)
LEMMA IdsPlanned ==
  ASSUME ranked(options)
  PROVE  \E n \in DOMAIN make_plan : make_plan[n] = DraftItems(DraftRowsOf)[2]
<1> DEFINE a == [n \in DOMAIN ModelNames |-> TensorItem(ModelNames[n])]
           b == DraftItems(DraftRowsOf)
           c == [n \in DOMAIN Resources |-> ResourceItem(Resources[n])]
           head == b[1]
           ids == b[2]
           k == Len(ModelNames)
           m == Len(Resources)
<1>1. DOMAIN ModelNames = 1..k /\ k \in Nat /\ DOMAIN Resources = 1..m /\ m \in Nat
  BY ConvertAssumption, LenProperties
<1>2. make_plan = a \o b \o c
  BY DEF make_plan, ResourceItem, DraftRowsOf
<1>3. Lists(a, k) /\ Lists(c, m)
  BY <1>1 DEF Lists
<1>4. Lists(b, 2)
  <2>1. b = <<head, ids>>
    BY DEF DraftItems
  <2>2. \A x, y : <<x, y>> = [i \in 1..2 |-> <<x, y>>[i]]
    OBVIOUS
  <2> HIDE DEF b
  <2> QED
    BY <2>1, <2>2 DEF Lists
<1> DEFINE ab == a \o b
<1> HIDE DEF a, b, c
<1>5. Joins(ab, a, b, k, 2)
  BY <1>3, <1>4, Appended
<1>6. ab[k + 2] = ids /\ Lists(ab, k + 2)
  <2>1. 2 \in 1..2
    OBVIOUS
  <2> QED
    BY <1>5, <2>1 DEF Joins
<1> HIDE DEF ab
<1>7. Joins(ab \o c, ab, c, k + 2, m)
  BY <1>3, <1>6, Appended
<1>8. k + 2 \in 1..k + 2 /\ k + 2 \in 1..(k + 2) + m
  BY <1>1
<1>9. make_plan[k + 2] = ids /\ Lists(make_plan, (k + 2) + m)
  BY <1>2, <1>6, <1>7, <1>8 DEF Joins, ab
<1>10. DOMAIN make_plan = 1..(k + 2) + m
  BY <1>9 DEF Lists
<1> QED
  BY <1>8, <1>9, <1>10, Zenon DEF b

LEMMA PlanMadeReadable ==
  ASSUME disk \in Disks \cup Replacements, ranked(options) => disk.ranking # NoRanking
  PROVE  ReadablePlan(make_plan)
<1>1. ASSUME NEW n \in DOMAIN make_plan
      PROVE  /\ Readable(make_plan[n])
             /\ IsDraft(make_plan[n]) => ranked(options) /\ make_plan[n].selected_rows = DraftRowsOf
  <2> DEFINE p == make_plan[n]
  <2>1. p \in PlanItems
    BY ItemsOfPlan
  <2> HIDE DEF p
  <2> DEFINE Good == Readable(p) /\ (IsDraft(p) => ranked(options) /\ p.selected_rows = DraftRowsOf)
  <2>2. ASSUME NEW name, p = TensorItem(name) PROVE Good
    BY <2>2, TensorReadable
  <2>3. ASSUME NEW r, p = ResourceItem(r) PROVE Good
    BY <2>3, ResourceReadable
  <2>4. ASSUME ranked(options), NEW i \in {1, 2}, p = DraftItems(DraftRowsOf)[i] PROVE Good
    <3>1. disk.ranking # NoRanking
      BY <2>4
    <3>2. Readable(p) /\ p.selected_rows = DraftRowsOf
      BY <2>4, <3>1, DraftReadable
    <3> QED
      BY <2>4, <3>2
  <2> HIDE DEF Good
  <2>5. Good
    BY <2>1, <2>2, <2>3, <2>4 DEF PlanItems
  <2> QED
    BY <2>5 DEF p, Good
<1>2. ASSUME NEW n \in DOMAIN make_plan, make_plan[n].kind = "draft_head"
      PROVE  \E m \in DOMAIN make_plan : make_plan[m].kind = "draft_token_ids"
  <2>1. ranked(options)
    BY <1>1, <1>2 DEF IsDraft
  <2>2. PICK m \in DOMAIN make_plan : make_plan[m] = DraftItems(DraftRowsOf)[2]
    BY <2>1, IdsPlanned
  <2>3. DraftItems(DraftRowsOf)[2].kind = "draft_token_ids"
    BY <2>1, DraftReadable
  <2> QED
    BY <2>2, <2>3
<1> QED
  BY <1>1, <1>2, Zenon DEF ReadablePlan

LEMMA PlanReadableKept ==
  ASSUME NEW items, ReadablePlan(items), options' = options, plan' = items
  PROVE  ReadablePlan(plan)'
<1>1. \A n \in DOMAIN items : Readable(plan[n])'
  BY DEF ReadablePlan, Readable, IsMatrix
<1> QED
  BY <1>1 DEF ReadablePlan, IsDraft

LEMMA PlanReadablePreserved ==
  ASSUME disk \in Disks \cup Replacements, ReadablePlan(plan), [Next]_vars
  PROVE  ReadablePlan(plan)'
<1>1. CASE UNCHANGED <<plan, options>>
  BY <1>1, PlanReadableKept
<1>2. CASE MakePlan /\ plan' = make_plan /\ (ranked(options) => disk.ranking # NoRanking)
  <2>1. options' = options
    BY <1>2 DEF MakePlan
  <2>2. ReadablePlan(make_plan)
    BY <1>2, PlanMadeReadable
  <2> QED
    BY <1>2, <2>1, <2>2, PlanReadableKept
<1>3. UNCHANGED <<plan, options>> \/
      (MakePlan /\ plan' = make_plan /\ (ranked(options) => disk.ranking # NoRanking))
  BY DEF Next, vars, fileVars, sourceVars, Replace, CheckOptions, Validate, LoadIndex, OpenShard,
     MakePlan, CreateWriter, WriteChunk, WriteWhole, WriteResource, Finalize, StatOutput
<1> QED
  BY <1>1, <1>2, <1>3

------------------------------------------------------------------------------
(* What the planes hold *)

Blank(w) == w.data = <<>> /\ w.aux = <<>>
Written(p, w) ==
  IF IsMatrix(p) THEN HoldsRows(p, w.data, w.aux, p.rows)
  ELSE w.data = IF p.kind = "draft_token_ids" THEN p.selected_rows ELSE <<p.source>>
Started(p, w, r) == IF IsMatrix(p) THEN HoldsRows(p, w.data, w.aux, r) ELSE Blank(w)

(* The items up to i are written, r rows of i are, and nothing of the      *)
(* others.                                                                 *)
Holding(items, ps, i, r) ==
  /\ r % TileRows = 0
  /\ \A n \in DOMAIN items : /\ n < i => Written(items[n], ps[n])
                             /\ n = i => Started(items[n], ps[n], r)
                             /\ n > i => Blank(ps[n])
Installed ==
  /\ output.entries = plan /\ output.planes = planes /\ output.recipe_id = recipe_id(options)
  /\ \A n \in DOMAIN plan : /\ Written(plan[n], planes[n])
                            /\ planes[n].data_written = plan[n].data_bytes
                            /\ planes[n].aux_written = plan[n].aux_bytes
ContentInv ==
  /\ ReadablePlan(plan)
  /\ pc = "write" => Holding(plan, planes, item, row)
  /\ pc = "installed" => Installed

LEMMA NoRows ==
  ASSUME NEW p, NEW w, p.groups \in Nat, Blank(w)
  PROVE  HoldsRows(p, w.data, w.aux, 0)
<1>1. \A g \in Nat : 0 * g * KTiles = 0 /\ 0 * g = 0
  BY TileAssumption
<1>2. 0 * p.groups * KTiles = 0 /\ 0 * p.groups = 0
  BY <1>1
<1>3. <<>> = [i \in 1..0 |-> <<>>[i]]
  OBVIOUS
<1>4. Lists(w.data, 0) /\ Lists(w.aux, 0)
  BY <1>3 DEF Lists, Blank
<1>5. \A r : r \notin 0..0 - 1
  OBVIOUS
<1> QED
  BY <1>2, <1>4, <1>5 DEF HoldsRows

LEMMA BlankStarted ==
  ASSUME NEW p, ItemOK(p), NEW w, Blank(w)
  PROVE  Started(p, w, 0)
<1>1. IsMatrix(p) => p.groups \in Nat
  BY DEF ItemOK, MatrixOK
<1> QED
  BY <1>1, NoRows DEF Started

(* A step appends to the planes of its item alone.                         *)
LEMMA AppendContent ==
  ASSUME WriteInv, pc = "write", item <= Len(plan), NEW data, NEW aux, NEW db, NEW ab,
         Append2(data, db, aux, ab)
  PROVE  /\ planes'[item].data = planes[item].data \o data
         /\ planes'[item].aux = planes[item].aux \o aux
         /\ \A n \in DOMAIN plan : n # item => planes'[n] = planes[n]
<1>1. planes = [n \in DOMAIN plan |-> planes[n]] /\ item \in DOMAIN plan
  BY DEF WriteInv, Progress
<1>2. DOMAIN planes = DOMAIN plan
  BY <1>1
<1> DEFINE w == planes[item]
           v == [data |-> w.data \o data, aux |-> w.aux \o aux,
                 data_written |-> w.data_written + db, aux_written |-> w.aux_written + ab]
<1>3. planes' = [planes EXCEPT ![item] = v]
  BY DEF Append2
<1>4. v.data = w.data \o data /\ v.aux = w.aux \o aux
  OBVIOUS
<1> HIDE DEF v
<1>5. planes' = [n \in DOMAIN plan |-> IF n = item THEN v ELSE planes[n]]
  BY <1>1, <1>2, <1>3
<1>6. planes'[item] = v
  BY <1>1, <1>5
<1> QED
  BY <1>4, <1>5, <1>6

(* The item is done, and the next one not begun.                           *)
LEMMA ItemHeld ==
  ASSUME NEW items, NEW N \in Nat, DOMAIN items = 1..N, \A n \in DOMAIN items : ItemOK(items[n]),
         NEW ps, NEW qs, NEW i \in 1..N, NEW r, Holding(items, ps, i, r),
         \A n \in DOMAIN items : n # i => qs[n] = ps[n], Written(items[i], qs[i])
  PROVE  Holding(items, qs, i + 1, 0)
<1>1. 0 % TileRows = 0
  BY TileAssumption
<1>2. ASSUME NEW n \in DOMAIN items
      PROVE  /\ n < i + 1 => Written(items[n], qs[n])
             /\ n = i + 1 => Started(items[n], qs[n], 0)
             /\ n > i + 1 => Blank(qs[n])
  <2>1. CASE n = i
    BY <2>1
  <2>2. CASE n # i
    <3>1. qs[n] = ps[n]
      BY <2>2
    <3>2. /\ n < i => Written(items[n], ps[n])
          /\ n > i => Blank(ps[n])
      BY DEF Holding
    <3>3. (n < i + 1 => n < i) /\ (n = i + 1 => n > i) /\ (n > i + 1 => n > i)
      BY <2>2
    <3>4. ItemOK(items[n])
      OBVIOUS
    <3> QED
      BY <3>1, <3>2, <3>3, <3>4, BlankStarted
  <2> QED
    BY <2>1, <2>2
<1> QED
  BY <1>1, <1>2, Zenon DEF Holding

(* More rows of the item.                                                  *)
LEMMA RowsHeld ==
  ASSUME NEW items, NEW N \in Nat, DOMAIN items = 1..N,
         NEW ps, NEW qs, NEW i \in 1..N, NEW r, Holding(items, ps, i, r),
         \A n \in DOMAIN items : n # i => qs[n] = ps[n],
         NEW s, s % TileRows = 0, Started(items[i], qs[i], s)
  PROVE  Holding(items, qs, i, s)
<1>1. ASSUME NEW n \in DOMAIN items
      PROVE  /\ n < i => Written(items[n], qs[n])
             /\ n = i => Started(items[n], qs[n], s)
             /\ n > i => Blank(qs[n])
  <2>1. CASE n = i
    BY <2>1
  <2>2. CASE n # i
    BY <2>2 DEF Holding
  <2> QED
    BY <2>1, <2>2
<1> QED
  BY <1>1, Zenon DEF Holding

LEMMA ChunkIsOfSource ==
  ASSUME WriteInv, pc = "write", item <= Len(plan), IsMatrix(plan[item])
  PROVE  \A n \in 1..Len(chunk_rows) : chunk_rows[n] = SourceRow(plan[item], row + n - 1)
<1> DEFINE p == plan[item]
           count == Len(chunk_rows)
           least == Min({options.chunk_rows, plan[item].rows - row})
<1>1. DOMAIN chunk_rows = 1..count
  BY ChunkFacts
<1>2. chunk_rows = [n \in 1..least |-> IF p.kind = "draft_head"
                                       THEN p.selected_rows[row + n] ELSE row + n - 1]
  BY DEF chunk_rows
<1>3. row \in Nat
  BY DEF WriteInv, Progress
<1> SUFFICES ASSUME NEW n \in 1..count PROVE chunk_rows[n] = SourceRow(p, row + n - 1)
  OBVIOUS
<1> HIDE DEF p, least
<1>4. 1..least = 1..count
  BY <1>1, <1>2
<1>5. chunk_rows[n] = IF p.kind = "draft_head" THEN p.selected_rows[row + n] ELSE row + n - 1
  BY <1>2, <1>4
<1>6. (row + n - 1) + 1 = row + n
  BY <1>3, ChunkFacts
<1> QED
  BY <1>5, <1>6, Zenon DEF SourceRow

(* A chunk that is written leaves every row so far in its place.           *)
LEMMA ChunkHeld ==
  ASSUME WriteInv, ContentInv, WriteChunk, pc' = "write"
  PROVE  Holding(plan, planes', item', row')
<1> DEFINE p == plan[item]
           N == Len(plan)
           count == Len(chunk_rows)
           c == options.chunk_rows
           db == count * p.groups * KTiles * fragment_bytes(p.format)
           ab == 2 * count * p.groups
           codes == tile_codes(p.source, chunk_rows, p.groups)
           scales == tile_scales(p.source, chunk_rows, p.groups)
           w == planes[item]
           v == planes'[item]
<1>1. pc = "write" /\ item <= N /\ IsMatrix(p)
  BY DEF WriteChunk, IsMatrix
<1>2. /\ N \in Nat /\ DOMAIN plan = 1..N /\ item \in 1..N /\ row \in Nat
      /\ \A n \in DOMAIN plan : ItemOK(plan[n])
  BY <1>1 DEF WriteInv, Progress
<1>3. Holding(plan, planes, item, row)
  BY <1>1 DEF ContentInv
<1>4. row % TileRows = 0 /\ HoldsRows(p, w.data, w.aux, row)
  BY <1>1, <1>2, <1>3 DEF Holding, Started
<1>5. /\ count % TileRows = 0
      /\ Append2(codes, db, scales, ab)
      /\ IF row + c >= p.rows THEN NextItem ELSE row' = row + c /\ UNCHANGED item
  <2>1. ~Return("chunk") /\ ~Return("weight") /\ ~IoFails
    BY DEF Return, IoFails
  <2> QED
    BY <2>1 DEF WriteChunk
<1>6. /\ count \in Nat /\ DOMAIN chunk_rows = 1..count
      /\ IF row + c >= p.rows THEN row + count = p.rows ELSE count = c
  BY <1>1, ChunkFacts
<1>7. v.data = w.data \o codes /\ v.aux = w.aux \o scales
      /\ \A n \in DOMAIN plan : n # item => planes'[n] = planes[n]
  <2> HIDE DEF codes, scales, db, ab
  <2> QED
    BY <1>1, <1>5, AppendContent
<1>8. p.groups \in Nat
  BY <1>1, <1>2 DEF ItemOK, MatrixOK
<1>9. \A n \in 1..count : chunk_rows[n] = SourceRow(p, row + n - 1)
  BY <1>1, ChunkIsOfSource
<1>10. HoldsRows(p, v.data, v.aux, row + count)
  <2> DEFINE rows == chunk_rows
             data == w.data
             aux == w.aux
  <2> HIDE DEF p, rows, data, aux
  <2>1. HoldsRows(p, data \o tile_codes(p.source, rows, p.groups),
                  aux \o tile_scales(p.source, rows, p.groups), row + Len(rows))
    BY <1>2, <1>4, <1>5, <1>6, <1>8, <1>9, RowsAppended DEF rows, data, aux
  <2> QED
    BY <1>7, <2>1, Zenon DEF rows, data, aux
<1> HIDE DEF p, w, v, codes, scales, db, ab, count, N
<1>11. CASE row + c >= p.rows
  <2>1. item' = item + 1 /\ row' = 0 /\ row + count = p.rows
    BY <1>5, <1>6, <1>11 DEF NextItem
  <2>2. Written(p, v)
    BY <1>1, <1>10, <2>1 DEF Written
  <2>3. Holding(plan, planes', item + 1, 0)
    BY <1>2, <1>3, <1>7, <2>2, ItemHeld DEF p, v
  <2> QED
    BY <2>1, <2>3
<1>12. CASE ~(row + c >= p.rows)
  <2>1. item' = item /\ row' = row + count
    BY <1>5, <1>6, <1>12
  <2>2. Started(p, v, row + count)
    BY <1>1, <1>10 DEF Started
  <2>3. (row + count) % TileRows = 0
    BY <1>2, <1>4, <1>5, <1>6, TileAssumption, Remainders
  <2>4. Holding(plan, planes', item, row + count)
    BY <1>2, <1>3, <1>7, <2>2, <2>3, RowsHeld DEF p, v
  <2> QED
    BY <2>1, <2>4
<1> QED
  BY <1>11, <1>12

LEMMA BlankAppended ==
  ASSUME NEW S, NEW s \in Seq(S)
  PROVE  <<>> \o s = s
BY ConcatEmptySeq

LEMMA WholeHeld ==
  ASSUME WriteInv, ContentInv, WriteWhole \/ WriteResource, pc' = "write"
  PROVE  Holding(plan, planes', item', row')
<1> DEFINE p == plan[item]
           N == Len(plan)
           w == planes[item]
           v == planes'[item]
           written == IF p.kind = "draft_token_ids" THEN p.selected_rows ELSE <<p.name>>
<1>1. pc = "write" /\ item <= N /\ ~IsMatrix(p)
  BY DEF WriteWhole, WriteResource, IsMatrix
<1>2. /\ N \in Nat /\ DOMAIN plan = 1..N /\ item \in 1..N
      /\ \A n \in DOMAIN plan : ItemOK(plan[n])
  BY <1>1 DEF WriteInv, Progress
<1>3. Holding(plan, planes, item, row) /\ Readable(p)
  BY <1>1, <1>2 DEF ContentInv, ReadablePlan
<1>4. w.data = <<>>
  BY <1>1, <1>2, <1>3 DEF Holding, Started, Blank
<1>5. (\E db : Append2(written, db, <<>>, 0)) /\ NextItem
  <2>1. ~Return("resource") /\ ~IoFails
    BY DEF Return, IoFails
  <2>2. CASE WriteWhole
    BY <2>1, <2>2 DEF WriteWhole
  <2>3. CASE WriteResource
    BY <2>1, <2>3 DEF WriteResource
  <2> QED
    BY <2>2, <2>3
<1>6. PICK db : Append2(written, db, <<>>, 0)
  BY <1>5
<1>7. v.data = w.data \o written /\ \A n \in DOMAIN plan : n # item => planes'[n] = planes[n]
  <2> HIDE DEF written
  <2> QED
    BY <1>1, <1>6, AppendContent
<1>8. v.data = written
  <2>1. CASE p.kind = "draft_token_ids"
    <3>1. p.selected_rows \in Seq(Token)
      <4>1. DraftRows \in Nat
        BY ConvertAssumption
      <4> QED
        BY <1>3, <2>1, <4>1, IsASeq DEF Readable
    <3> QED
      BY <1>4, <1>7, <2>1, <3>1, BlankAppended
  <2>2. CASE p.kind # "draft_token_ids"
    <3>1. <<p.name>> \in Seq({p.name})
      OBVIOUS
    <3> QED
      BY <1>4, <1>7, <2>2, <3>1, BlankAppended
  <2> QED
    BY <2>1, <2>2
<1>9. Written(p, v)
  BY <1>1, <1>3, <1>8 DEF Written, Readable
<1> HIDE DEF p, w, v, written, N
<1>10. Holding(plan, planes', item + 1, 0)
  BY <1>2, <1>3, <1>7, <1>9, ItemHeld DEF p, v
<1> QED
  BY <1>5, <1>10 DEF NextItem

LEMMA CreateHeld ==
  ASSUME WriteInv, CreateWriter, pc' = "write"
  PROVE  Holding(plan, planes', item', row')
<1> DEFINE N == Len(plan)
<1>1. pc = "create" /\ UNCHANGED <<item, row>>
  BY DEF CreateWriter
<1>2. planes' = [n \in DOMAIN plan |-> [data |-> <<>>, aux |-> <<>>,
                                        data_written |-> 0, aux_written |-> 0]]
  BY DEF CreateWriter, Return, IoFails
<1>3. /\ item' = 1 /\ row' = 0 /\ N \in Nat /\ DOMAIN plan = 1..N
      /\ \A n \in DOMAIN plan : ItemOK(plan[n])
  BY <1>1 DEF WriteInv
<1>4. \A n \in DOMAIN plan : Blank(planes'[n])
  BY <1>2 DEF Blank
<1>5. \A n \in DOMAIN plan : Started(plan[n], planes'[n], 0)
  BY <1>3, <1>4, BlankStarted
<1>6. \A n \in DOMAIN plan : ~(n < 1)
  BY <1>3
<1>7. 0 % TileRows = 0
  BY TileAssumption
<1> QED
  BY <1>3, <1>4, <1>5, <1>6, <1>7 DEF Holding

LEMMA FinalizeInstalls ==
  ASSUME WriteInv, ContentInv, Finalize, pc' = "installed"
  PROVE  Installed'
<1>1. /\ pc = "write" /\ item > Len(plan)
      /\ UNCHANGED <<plan, planes, options>>
  BY DEF Finalize, sourceVars, writerVars
<1>2. /\ output' = [weights_id |-> weights_id(options), recipe_id |-> recipe_id(options),
                    entries |-> plan, planes |-> planes]
      /\ \A n \in DOMAIN plan : /\ planes[n].data_written = plan[n].data_bytes
                                /\ planes[n].aux_written = plan[n].aux_bytes
  BY DEF Finalize, Return, IoFails
<1>3. \A n \in DOMAIN plan : Written(plan[n], planes[n])
  <2>1. \A n \in DOMAIN plan : n < item
    BY <1>1 DEF WriteInv, Progress
  <2> QED
    BY <1>1, <2>1 DEF ContentInv, Holding
<1>4. output'.entries = plan /\ output'.planes = planes /\ output'.recipe_id = recipe_id(options)
  BY <1>2
<1>5. recipe_id(options)' = recipe_id(options)
  BY <1>1
<1> QED
  BY <1>1, <1>2, <1>3, <1>4, <1>5 DEF Installed

LEMMA ContentInitially == Init => ContentInv
BY DEF Init, ContentInv, ReadablePlan

LEMMA ContentPreserved ==
  ASSUME disk \in Disks \cup Replacements, WriteInv, ContentInv, [Next]_vars
  PROVE  ContentInv'
<1>1. ReadablePlan(plan)'
  BY PlanReadablePreserved DEF ContentInv
<1>2. CASE UNCHANGED <<plan, planes, item, row, pc, output, options>>
  <2>1. pc' = "installed" => Installed'
    BY <1>2 DEF ContentInv, Installed
  <2>2. pc' = "write" => Holding(plan, planes, item, row)'
    BY <1>2 DEF ContentInv
  <2> QED
    BY <1>1, <2>1, <2>2 DEF ContentInv
<1>3. CASE pc' \notin {"write", "installed"}
  BY <1>1, <1>3 DEF ContentInv
<1>4. CASE pc' = "installed" /\ Finalize
  BY <1>1, <1>4, FinalizeInstalls DEF ContentInv
<1>5. CASE pc' = "write" /\ (CreateWriter \/ WriteChunk \/ WriteWhole \/ WriteResource)
  <2>1. plan' = plan
    BY <1>5 DEF CreateWriter, WriteChunk, WriteWhole, WriteResource, sourceVars
  <2>2. Holding(plan, planes', item', row')
    BY <1>5, CreateHeld, ChunkHeld, WholeHeld
  <2>3. pc' # "installed"
    BY <1>5
  <2> QED
    BY <1>1, <2>1, <2>2, <2>3 DEF ContentInv
<1>6. \/ UNCHANGED <<plan, planes, item, row, pc, output, options>>
      \/ pc' \notin {"write", "installed"}
      \/ pc' = "installed" /\ Finalize
      \/ pc' = "write" /\ (CreateWriter \/ WriteChunk \/ WriteWhole \/ WriteResource)
  <2> USE DEF fileVars, sourceVars, writerVars, Goto, Return, IoFails
  <2>1. CASE UNCHANGED vars \/ Replace
    BY <2>1 DEF vars, Replace
  <2>2. CASE CheckOptions \/ Validate \/ LoadIndex \/ OpenShard
    BY <2>2 DEF CheckOptions, Validate, LoadIndex, OpenShard
  <2>3. CASE MakePlan
    BY <2>3 DEF MakePlan
  <2>4. CASE CreateWriter \/ WriteChunk \/ WriteWhole \/ WriteResource
    <3>1. pc' \in {"write", "returned"}
      BY <2>4 DEF CreateWriter, WriteChunk, WriteWhole, WriteResource
    <3> QED
      BY <2>4, <3>1
  <2>5. CASE Finalize
    <3>1. pc' \in {"installed", "returned"}
      BY <2>5 DEF Finalize
    <3> QED
      BY <2>5, <3>1
  <2>6. CASE StatOutput
    BY <2>6 DEF StatOutput
  <2> QED
    BY <2>1, <2>2, <2>3, <2>4, <2>5, <2>6 DEF Next
<1> QED
  BY <1>2, <1>3, <1>4, <1>5, <1>6

------------------------------------------------------------------------------
(* Reading what was installed *)

(* Whoever writes w3 writes a recipe that has its codes in sequence.       *)
LEMMA RecipeSequential ==
  ASSUME NEW o, o.output_head_bits = 3 \/ o.mlp_bits = 3
  PROVE  sequential_w3(recipe_id(o))
BY DEF sequential_w3, recipe_id

LEMMA PlanExpands ==
  ASSUME ReadablePlan(plan), NEW n \in DOMAIN plan, plan[n].format # "none"
  PROVE  Expands(plan[n].format, sequential_w3(recipe_id(options)))
<1> DEFINE p == plan[n]
           seq == sequential_w3(recipe_id(options))
<1>1. p.format \in Formats
  BY DEF ReadablePlan, Readable
<1>2. p.format = "w3" => seq
  BY RecipeSequential DEF ReadablePlan, Readable
<1>3. seq \in BOOLEAN
  BY DEF sequential_w3
<1>4. Sequential(p.format, seq)
  BY <1>2, <1>3 DEF Sequential
<1> HIDE DEF p, seq
<1>5. Expands(p.format, seq)
  BY <1>1, <1>4, CodesExpand
<1> QED
  BY <1>5, Zenon DEF p, seq

LEMMA InstalledIsRead ==
  ASSUME WriteInv, ContentInv
  PROVE  InstalledReadable
<1> SUFFICES ASSUME pc = "installed" PROVE InstalledReadable
  BY DEF InstalledReadable
<1> DEFINE ids == {n \in DOMAIN output.entries : output.entries[n].kind = "draft_token_ids"}
           source_row(p, r) == IF p.kind = "draft_head"
                               THEN output.planes[CHOOSE n \in ids : TRUE].data[r + 1] ELSE r
<1>1. /\ output.entries = plan /\ output.planes = planes /\ output.recipe_id = recipe_id(options)
      /\ ReadablePlan(plan)
      /\ \A n \in DOMAIN plan : /\ Written(plan[n], planes[n])
                                /\ planes[n].data_written = plan[n].data_bytes
                                /\ planes[n].aux_written = plan[n].aux_bytes
  BY DEF ContentInv, Installed
<1>2. \A format \in {p.format : p \in Range(output.entries)} \ {"none"} :
        Expands(format, sequential_w3(output.recipe_id))
  <2> SUFFICES ASSUME NEW n \in DOMAIN plan, plan[n].format # "none"
               PROVE  Expands(plan[n].format, sequential_w3(recipe_id(options)))
    BY <1>1 DEF Range
  <2> QED
    BY <1>1, PlanExpands
<1>3. ASSUME NEW n \in DOMAIN plan, plan[n].kind = "draft_head"
      PROVE  output.planes[CHOOSE m \in ids : TRUE].data = plan[n].selected_rows
  <2> DEFINE m == CHOOSE m \in ids : TRUE
  <2>1. \E k \in DOMAIN plan : plan[k].kind = "draft_token_ids"
    BY <1>1, <1>3 DEF ReadablePlan
  <2>2. m \in ids
    BY <1>1, <2>1
  <2>3. m \in DOMAIN plan /\ plan[m].kind = "draft_token_ids"
    BY <1>1, <2>2
  <2> HIDE DEF m
  <2>4. planes[m].data = plan[m].selected_rows
    BY <1>1, <2>3 DEF Written, IsMatrix
  <2>5. plan[m].selected_rows = plan[n].selected_rows
    BY <1>1, <1>3, <2>3 DEF ReadablePlan, IsDraft
  <2> QED
    BY <1>1, <2>4, <2>5 DEF m
<1>4. ASSUME NEW n \in DOMAIN plan
      PROVE  /\ planes[n].data_written = plan[n].data_bytes
             /\ planes[n].aux_written = plan[n].aux_bytes
             /\ plan[n].kind \in {"tensor", "resource"} => planes[n].data = <<plan[n].source>>
             /\ plan[n].name = "embed" => plan[n].format # "w3"
             /\ \A r \in 0..plan[n].rows - 1, group \in 0..plan[n].groups - 1 :
                  /\ kernel_scale(planes[n].aux, plan[n], r, group)
                       = <<plan[n].source, source_row(plan[n], r), group>>
                  /\ \A k_tile \in 0..KTiles - 1 :
                       kernel_fragment(planes[n].data, plan[n], r, group, k_tile) =
                         <<plan[n].source, source_row(plan[n], r), group, k_tile>>
  <2> DEFINE p == plan[n]
             w == planes[n]
  <2>1. Readable(p) /\ Written(p, w)
    BY <1>1 DEF ReadablePlan
  <2>2. \A r : source_row(p, r) = SourceRow(p, r)
    BY <1>3 DEF SourceRow
  <2> HIDE DEF source_row
  <2>3. p.kind \in {"tensor", "resource"} => w.data = <<p.source>>
    BY <2>1 DEF Written, IsMatrix
  <2>4. p.name = "embed" => p.format # "w3"
    BY <2>1 DEF Readable
  <2>5. ASSUME NEW r \in 0..p.rows - 1, NEW group \in 0..p.groups - 1
        PROVE  /\ kernel_scale(w.aux, p, r, group) = <<p.source, source_row(p, r), group>>
               /\ \A k_tile \in 0..KTiles - 1 :
                    kernel_fragment(w.data, p, r, group, k_tile) =
                      <<p.source, source_row(p, r), group, k_tile>>
    <3>1. IsMatrix(p)
      <4>1. p.rows # 0
        OBVIOUS
      <4> QED
        BY <2>1, <4>1 DEF Readable
    <3>2. HoldsRows(p, w.data, w.aux, p.rows)
      BY <2>1, <3>1 DEF Written
    <3> HIDE DEF p, w
    <3>3. /\ kernel_scale(w.aux, p, r, group) = <<p.source, SourceRow(p, r), group>>
          /\ \A k \in 0..KTiles - 1 :
               kernel_fragment(w.data, p, r, group, k) = <<p.source, SourceRow(p, r), group, k>>
      BY <3>2, Zenon DEF HoldsRows
    <3>4. source_row(p, r) = SourceRow(p, r)
      BY <2>2
    <3> QED
      BY <3>3, <3>4
  <2> QED
    BY <1>1, <2>3, <2>4, <2>5
<1> QED
  BY SMTT(30), <1>1, <1>2, <1>4 DEF InstalledReadable

(* Whatever was put into the directory meanwhile, an artifact that was     *)
(* installed is complete, and the kernels its recipe selects find the code *)
(* and the scale of every weight where they look for them, for every model,*)
(* number of rows and groups, format and size of the chunks.               *)
(* (converter.cpp:345-460, quantization.cpp:253-318, lowbit_gemv.hip)      *)
THEOREM InstalledIsReadable == Spec => []InstalledReadable
<1> DEFINE IInv == SourceInv /\ WriteInv /\ ContentInv
<1>1. Init => IInv
  BY SourceInitially, WriteInitially, ContentInitially
<1>2. IInv /\ [Next]_vars => IInv'
  BY SourcePreserved, WritePreserved, ContentPreserved DEF SourceInv
<1>3. IInv => InstalledReadable
  BY InstalledIsRead
<1> QED
  BY <1>1, <1>2, <1>3, PTL DEF Spec

------------------------------------------------------------------------------
(* The rows that were quantized *)

FiniteRow(p, r) == SourceRow(p, r) \notin not_finite(mapped(p.source), p.source)
FiniteRows(p, R) == \A r \in 0..R - 1 : FiniteRow(p, r)
FiniteInv ==
  /\ pc = "write" =>
       \A n \in DOMAIN plan : IsMatrix(plan[n]) => /\ n < item => FiniteRows(plan[n], plan[n].rows)
                                                   /\ n = item => FiniteRows(plan[n], row)
  /\ pc = "installed" =>
       \A n \in DOMAIN plan : IsMatrix(plan[n]) => FiniteRows(plan[n], plan[n].rows)

LEMMA NoFiniteRows == ASSUME NEW p PROVE FiniteRows(p, 0)
BY DEF FiniteRows

(* A chunk that was quantized is of finite weights.                        *)
LEMMA ChunkFinite ==
  ASSUME WriteInv, FiniteInv, pc = "write", item <= Len(plan), IsMatrix(plan[item]),
         quantizes(plan[item].source, chunk_rows)
  PROVE  FiniteRows(plan[item], row + Len(chunk_rows))
<1> DEFINE p == plan[item]
           count == Len(chunk_rows)
           bad == not_finite(mapped(p.source), p.source)
<1>1. item \in DOMAIN plan /\ row \in Nat
  BY DEF WriteInv, Progress
<1>2. FiniteRows(p, row)
  BY <1>1 DEF FiniteInv
<1>3. count \in Nat /\ DOMAIN chunk_rows = 1..count
  BY ChunkFacts
<1>4. \A n \in 1..count : chunk_rows[n] = SourceRow(p, row + n - 1)
  BY ChunkIsOfSource
<1>5. Range(chunk_rows) \cap bad = {}
  BY DEF quantizes
<1>6. ASSUME NEW r \in 0..(row + count) - 1 PROVE FiniteRow(p, r)
  <2> HIDE DEF p, count, bad
  <2>1. CASE r < row
    <3>1. r \in 0..row - 1
      BY <1>1, <1>3, <2>1
    <3> QED
      BY <1>2, <3>1 DEF FiniteRows
  <2>2. CASE ~(r < row)
    <3> DEFINE n == r - row + 1
    <3>1. n \in 1..count /\ row + n - 1 = r
      BY <1>1, <1>3, <2>2
    <3> HIDE DEF n
    <3>2. chunk_rows[n] = SourceRow(p, r)
      BY <1>4, <3>1
    <3>3. chunk_rows[n] \in Range(chunk_rows)
      BY <1>3, <3>1 DEF Range
    <3>4. SourceRow(p, r) \notin bad
      BY <1>5, <3>2, <3>3
    <3> QED
      BY <3>4 DEF FiniteRow, bad
  <2> QED
    BY <2>1, <2>2
<1> HIDE DEF count
<1> QED
  BY <1>6 DEF FiniteRows, count

(* What a step that leaves the plan and the shards alone leaves finite.    *)
LEMMA FiniteKept ==
  ASSUME UNCHANGED <<index, shards, plan>>, NEW n, NEW R, FiniteRows(plan[n], R)
  PROVE  \A r \in 0..R - 1 : FiniteRow(plan[n], r)'
<1> SUFFICES ASSUME NEW r \in 0..R - 1 PROVE FiniteRow(plan[n], r)'
  OBVIOUS
<1>1. FiniteRow(plan[n], r)
  BY DEF FiniteRows
<1> QED
  BY <1>1 DEF FiniteRow, SourceRow, mapped

LEMMA FiniteItemDone ==
  ASSUME WriteInv, FiniteInv, pc = "write", UNCHANGED <<index, shards, plan>>, NextItem,
         item <= Len(plan), IsMatrix(plan[item]) => FiniteRows(plan[item], plan[item].rows),
         pc' = "write"
  PROVE  FiniteInv'
<1>1. /\ item \in Nat /\ DOMAIN plan = 1..Len(plan) /\ Len(plan) \in Nat
      /\ item' = item + 1 /\ row' = 0 /\ plan' = plan
  BY DEF WriteInv, Progress, NextItem
<1>2. ASSUME NEW n \in DOMAIN plan, IsMatrix(plan[n])
      PROVE  /\ n < item' => FiniteRows(plan[n], plan[n].rows)'
             /\ n = item' => FiniteRows(plan[n], row)'
  <2>1. ASSUME n < item' PROVE FiniteRows(plan[n], plan[n].rows)'
    <3>1. FiniteRows(plan[n], plan[n].rows)
      <4>1. CASE n = item
        BY <1>2, <4>1
      <4>2. CASE n < item
        BY <1>2, <4>2 DEF FiniteInv
      <4> QED
        BY <1>1, <2>1, <4>1, <4>2
    <3>2. \A r \in 0..plan[n].rows - 1 : FiniteRow(plan[n], r)'
      BY <3>1, FiniteKept
    <3> QED
      BY <1>1, <3>2 DEF FiniteRows
  <2>2. ASSUME n = item' PROVE FiniteRows(plan[n], row)'
    BY <1>1 DEF FiniteRows
  <2> QED
    BY <2>1, <2>2
<1> QED
  BY <1>1, <1>2 DEF FiniteInv, IsMatrix

LEMMA FiniteRowsDone ==
  ASSUME WriteInv, FiniteInv, pc = "write", UNCHANGED <<index, shards, plan>>, item' = item,
         IsMatrix(plan[item]) => FiniteRows(plan[item], row'), pc' = "write"
  PROVE  FiniteInv'
<1>1. plan' = plan
  OBVIOUS
<1>2. ASSUME NEW n \in DOMAIN plan, IsMatrix(plan[n])
      PROVE  /\ n < item' => FiniteRows(plan[n], plan[n].rows)'
             /\ n = item' => FiniteRows(plan[n], row)'
  <2>1. ASSUME n < item' PROVE FiniteRows(plan[n], plan[n].rows)'
    <3>1. FiniteRows(plan[n], plan[n].rows)
      BY <1>2, <2>1 DEF FiniteInv
    <3>2. \A r \in 0..plan[n].rows - 1 : FiniteRow(plan[n], r)'
      BY <3>1, FiniteKept
    <3> QED
      BY <1>1, <3>2 DEF FiniteRows
  <2>2. ASSUME n = item' PROVE FiniteRows(plan[n], row)'
    <3>1. FiniteRows(plan[n], row')
      BY <1>2, <2>2
    <3>2. \A R : R = row' => \A r \in 0..R - 1 : FiniteRow(plan[n], r)'
      BY <3>1, FiniteKept
    <3> QED
      BY <3>2 DEF FiniteRows
  <2> QED
    BY <2>1, <2>2
<1> QED
  BY <1>1, <1>2 DEF FiniteInv, IsMatrix

LEMMA FiniteChunk ==
  ASSUME WriteInv, FiniteInv, WriteChunk, pc' = "write"
  PROVE  FiniteInv'
<1> DEFINE p == plan[item]
           count == Len(chunk_rows)
           c == options.chunk_rows
<1>1. pc = "write" /\ item <= Len(plan) /\ IsMatrix(p) /\ UNCHANGED <<index, shards, plan>>
  BY DEF WriteChunk, IsMatrix, sourceVars
<1>2. /\ quantizes(p.source, chunk_rows)
      /\ IF row + c >= p.rows THEN NextItem ELSE row' = row + c /\ UNCHANGED item
  <2>1. ~Return("chunk") /\ ~Return("weight") /\ ~IoFails
    BY DEF Return, IoFails
  <2> QED
    BY <2>1 DEF WriteChunk
<1>3. IF row + c >= p.rows THEN row + count = p.rows ELSE count = c
  BY <1>1, ChunkFacts
<1>4. FiniteRows(p, row + count)
  BY <1>1, <1>2, ChunkFinite
<1>5. CASE row + c >= p.rows
  <2>1. NextItem /\ FiniteRows(p, p.rows)
    BY <1>2, <1>3, <1>4, <1>5
  <2> QED
    BY <1>1, <2>1, FiniteItemDone
<1>6. CASE ~(row + c >= p.rows)
  <2>1. item' = item /\ FiniteRows(p, row')
    BY <1>2, <1>3, <1>4, <1>6
  <2> QED
    BY <1>1, <2>1, FiniteRowsDone
<1> QED
  BY <1>5, <1>6

LEMMA FiniteInitially == Init => FiniteInv
BY DEF Init, FiniteInv

LEMMA FiniteCreate ==
  ASSUME WriteInv, CreateWriter, pc' = "write"
  PROVE  FiniteInv'
<1>1. /\ pc = "create" /\ UNCHANGED <<item, row, plan>> /\ item = 1 /\ row = 0
      /\ DOMAIN plan = 1..Len(plan) /\ Len(plan) \in Nat
  BY DEF CreateWriter, WriteInv, sourceVars
<1>2. row' = 0 /\ \A n \in DOMAIN plan' : ~(n < item')
  BY <1>1
<1>3. \A n : FiniteRows(plan[n], row)'
  BY <1>2 DEF FiniteRows
<1> QED
  BY <1>2, <1>3 DEF FiniteInv

LEMMA FiniteFinalize ==
  ASSUME WriteInv, FiniteInv, Finalize, pc' = "installed"
  PROVE  FiniteInv'
<1>1. pc = "write" /\ item > Len(plan) /\ UNCHANGED <<index, shards, plan>>
  BY DEF Finalize, sourceVars
<1>2. ASSUME NEW n \in DOMAIN plan, IsMatrix(plan[n])
      PROVE  FiniteRows(plan[n], plan[n].rows)'
  <2>1. n < item
    BY <1>1 DEF WriteInv, Progress
  <2>2. FiniteRows(plan[n], plan[n].rows)
    BY <1>1, <1>2, <2>1 DEF FiniteInv
  <2>3. \A r \in 0..plan[n].rows - 1 : FiniteRow(plan[n], r)'
    BY <1>1, <2>2, FiniteKept
  <2> QED
    BY <1>1, <2>3 DEF FiniteRows
<1> QED
  BY <1>1, <1>2 DEF FiniteInv, IsMatrix

LEMMA FinitePreserved == WriteInv /\ FiniteInv /\ [Next]_vars => FiniteInv'
<1> SUFFICES ASSUME WriteInv, FiniteInv, [Next]_vars PROVE FiniteInv'
  OBVIOUS
<1>1. CASE pc' \notin {"write", "installed"}
  BY <1>1 DEF FiniteInv
<1>2. CASE UNCHANGED <<plan, index, shards, item, row, pc>>
  BY <1>2 DEF FiniteInv, FiniteRows, FiniteRow, SourceRow, mapped, IsMatrix
<1>3. CASE pc' = "write" /\ (WriteWhole \/ WriteResource)
  <2>1. /\ pc = "write" /\ item <= Len(plan) /\ ~IsMatrix(plan[item])
        /\ UNCHANGED <<index, shards, plan>>
    BY <1>3 DEF WriteWhole, WriteResource, IsMatrix, sourceVars
  <2>2. NextItem
    BY <1>3 DEF WriteWhole, WriteResource, Return, IoFails
  <2> QED
    BY <1>3, <2>1, <2>2, FiniteItemDone
<1>4. \/ pc' \notin {"write", "installed"}
      \/ UNCHANGED <<plan, index, shards, item, row, pc>>
      \/ pc' = "write" /\ (CreateWriter \/ WriteChunk \/ WriteWhole \/ WriteResource)
      \/ pc' = "installed" /\ Finalize
  <2> USE DEF fileVars, sourceVars, writerVars, Goto, Return, IoFails
  <2>1. CASE UNCHANGED vars \/ Replace
    BY <2>1 DEF vars, Replace
  <2>2. CASE CheckOptions \/ Validate \/ LoadIndex \/ OpenShard \/ MakePlan \/ StatOutput
    <3>1. pc' \in Planning \cup {"create", "returned"}
      BY <2>2 DEF CheckOptions, Validate, LoadIndex, OpenShard, MakePlan, StatOutput, Planning, Unread
    <3> QED
      BY <3>1 DEF Planning, Unread
  <2>3. CASE CreateWriter \/ WriteChunk \/ WriteWhole \/ WriteResource
    <3>1. pc' \in {"write", "returned"}
      BY <2>3 DEF CreateWriter, WriteChunk, WriteWhole, WriteResource
    <3> QED
      BY <2>3, <3>1
  <2>4. CASE Finalize
    <3>1. pc' \in {"installed", "returned"}
      BY <2>4 DEF Finalize
    <3> QED
      BY <2>4, <3>1
  <2> QED
    BY <2>1, <2>2, <2>3, <2>4 DEF Next
<1> QED
  BY <1>1, <1>2, <1>3, <1>4, FiniteCreate, FiniteChunk, FiniteFinalize

(* Of a checkpoint whose weights nobody looked at before, replaced or not, *)
(* only matrices of finite weights are ever installed, for every size of   *)
(* the chunks, and the draft head is no exception.                         *)
(* (quantization.cpp:193-218, converter.cpp:345-440)                       *)
THEOREM InstalledIsFinite == Spec => []InstalledFinite
<1> DEFINE IInv == SourceInv /\ WriteInv /\ ContentInv /\ FiniteInv
<1>1. Init => IInv
  BY SourceInitially, WriteInitially, ContentInitially, FiniteInitially
<1>2. IInv /\ [Next]_vars => IInv'
  BY SourcePreserved, WritePreserved, ContentPreserved, FinitePreserved DEF SourceInv
<1>3. IInv => InstalledFinite
  <2> SUFFICES ASSUME WriteInv, ContentInv, FiniteInv, pc = "installed",
                      NEW n \in DOMAIN plan, IsMatrix(plan[n]), NEW r \in 0..plan[n].rows - 1
               PROVE  SourceRow(plan[n], r) \notin
                        not_finite(mapped(plan[n].source), plan[n].source)
    BY DEF InstalledFinite, ContentInv, Installed, Range, IsMatrix, SourceRow
  <2> QED
    BY DEF FiniteInv, FiniteRows, FiniteRow
<1> QED
  BY <1>1, <1>2, <1>3, PTL DEF Spec
===============================================================================
