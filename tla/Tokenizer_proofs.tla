--------------------------- MODULE Tokenizer_proofs ---------------------------
(***************************************************************************)
(* Proofs about Tokenizer, for every vocabulary, list of merges, list of   *)
(* added tokens and text: encode advances with every step, what it has     *)
(* encoded decodes to the text, and with merges as training makes them it  *)
(* has the tokens of the reference, which merges one occurrence at a time. *)
(***************************************************************************)
EXTENDS Tokenizer, SequenceTheorems, FiniteSetTheorems, WellFoundedInduction,
        TLAPS

------------------------------------------------------------------------------
(* Numbers.  Induction is by the least number for which a fact fails.      *)

LEMMA LeastOf ==
  ASSUME NEW T, T \subseteq Nat, T # {}
  PROVE  \E x \in T : \A y \in T : x <= y
<1>1. PICK x \in T : \A y \in T : <<y, x>> \notin OpToRel(<, Nat)
  BY NatLessThanWellFounded, WFMin
<1>2. \A y \in T : ~(y < x)
  BY <1>1 DEF OpToRel
<1> QED
  BY <1>2

LEMMA MinOf ==
  ASSUME NEW T, T \subseteq Nat, T # {}
  PROVE  Min(T) \in T /\ \A y \in T : Min(T) <= y
<1>1. \E x \in T : \A y \in T : x <= y
  BY LeastOf
<1> QED
  BY <1>1 DEF Min

LEMMA MaxOf ==
  ASSUME NEW k \in Nat, NEW T, T \subseteq 0..k, T # {}
  PROVE  Max(T) \in T /\ \A y \in T : y <= Max(T)
<1> DEFINE U == {k - y : y \in T}
<1>1. U \subseteq Nat /\ U # {}
  <2>1. \A y \in T : k - y \in Nat
    OBVIOUS
  <2> QED
    BY <2>1
<1>2. PICK u \in U : \A v \in U : u <= v
  BY <1>1, LeastOf, Zenon
<1>3. PICK x \in T : u = k - x
  OBVIOUS
<1>4. \A y \in T : x >= y
  <2> SUFFICES ASSUME NEW y \in T PROVE x >= y
    OBVIOUS
  <2>1. k - y \in U /\ x \in Int /\ y \in Int
    OBVIOUS
  <2>2. u <= k - y
    BY <1>2, <2>1
  <2> HIDE DEF U
  <2> QED
    BY <1>3, <2>1, <2>2
<1>5. Max(T) \in T /\ \A y \in T : Max(T) >= y
  BY <1>4 DEF Max
<1>6. \A y \in T : y \in Int
  OBVIOUS
<1> QED
  BY <1>5, <1>6

LEMMA Upwards ==
  ASSUME NEW m \in Nat, NEW G, 0 \in G, \A n \in G : n < m => n + 1 \in G
  PROVE  0..m \subseteq G
<1> SUFFICES ASSUME (0..m) \ G # {} PROVE FALSE
  OBVIOUS
<1>1. PICK n \in (0..m) \ G : \A x \in (0..m) \ G : n <= x
  <2>1. (0..m) \ G \subseteq Nat
    OBVIOUS
  <2> QED
    BY <2>1, LeastOf, Zenon
<1>2. n - 1 \in 0..m /\ n - 1 < m
  BY <1>1
<1>3. n - 1 \in G
  BY <1>1, <1>2
<1>4. (n - 1) + 1 \in G
  BY <1>2, <1>3
<1> QED
  BY <1>1, <1>4

LEMMA UpwardsFrom1 ==
  ASSUME NEW m \in Nat, NEW G, 1 \in G, \A n \in G : n < m => n + 1 \in G
  PROVE  1..m \subseteq G
<1> SUFFICES ASSUME (1..m) \ G # {} PROVE FALSE
  OBVIOUS
<1>1. PICK n \in (1..m) \ G : \A x \in (1..m) \ G : n <= x
  <2>1. (1..m) \ G \subseteq Nat
    OBVIOUS
  <2> QED
    BY <2>1, LeastOf, Zenon
<1>2. n - 1 \in 1..m /\ n - 1 < m
  BY <1>1
<1>3. n - 1 \in G
  BY <1>1, <1>2
<1> QED
  BY <1>1, <1>2, <1>3

LEMMA Downwards ==
  ASSUME NEW m \in Nat, NEW G,
         \A n \in 1..m : (\A x \in n + 1..m : x \in G) => n \in G
  PROVE  1..m \subseteq G
<1> SUFFICES ASSUME (1..m) \ G # {} PROVE FALSE
  OBVIOUS
<1>1. (1..m) \ G \subseteq 0..m
  OBVIOUS
<1>2. PICK n \in (1..m) \ G : \A x \in (1..m) \ G : x <= n
  BY <1>1, MaxOf
<1>3. \A x \in n + 1..m : x \in G
  BY <1>2
<1> QED
  BY <1>2, <1>3

------------------------------------------------------------------------------
(* Functions that walk up a sequence: each place contributes something and *)
(* says where to go on.                                                    *)

WalkStep(L, head, next, p, f) == IF p > L THEN <<>> ELSE head[p] \o f[next[p]]

LEMMA WalkExists ==
  ASSUME NEW S, NEW L \in Nat, NEW head \in [1..L -> Seq(S)], NEW next \in [1..L -> 1..L + 1],
         \A p \in 1..L : p < next[p]
  PROVE  \E f \in [1..L + 1 -> Seq(S)] :
           \A p \in 1..L + 1 : f[p] = WalkStep(L, head, next, p, f)
<1> DEFINE G == {k \in 0..L : \E f \in [L + 1 - k..L + 1 -> Seq(S)] :
                   \A p \in L + 1 - k..L + 1 : f[p] = WalkStep(L, head, next, p, f)}
<1>1. 0 \in G
  <2> DEFINE h == [p \in L + 1 - 0..L + 1 |-> <<>>]
  <2>1. h \in [L + 1 - 0..L + 1 -> Seq(S)]
    BY EmptySeq
  <2>2. \A p \in L + 1 - 0..L + 1 : h[p] = WalkStep(L, head, next, p, h)
    <3>1. \A p \in L + 1 - 0..L + 1 : p > L /\ h[p] = <<>>
      OBVIOUS
    <3> HIDE DEF h
    <3> QED
      BY <3>1 DEF WalkStep
  <2> HIDE DEF h
  <2> QED
    BY <2>1, <2>2, SMTT(40)
<1>2. ASSUME NEW k \in G, k < L
      PROVE  k + 1 \in G
  <2> DEFINE q == L + 1 - (k + 1)
  <2>1. PICK f \in [L + 1 - k..L + 1 -> Seq(S)] :
          \A p \in L + 1 - k..L + 1 : f[p] = WalkStep(L, head, next, p, f)
    OBVIOUS
  <2>2. k \in 0..L /\ k \in Int /\ q \in 1..L /\ q + 1 = L + 1 - k /\ q \in Int
    BY <1>2
  <2>3. next[q] \in q + 1..L + 1 /\ head[q] \in Seq(S)
    <3>1. next[q] \in 1..L + 1 /\ q < next[q]
      BY <2>2
    <3> QED
      BY <2>2, <3>1
  <2>4. head[q] \o f[next[q]] \in Seq(S)
    <3>1. f[next[q]] \in Seq(S)
      BY <2>2, <2>3
    <3> QED
      BY <2>3, <3>1, ConcatProperties
  <2> DEFINE h == [p \in q..L + 1 |-> IF p = q THEN head[q] \o f[next[q]] ELSE f[p]]
  <2>5. h \in [q..L + 1 -> Seq(S)]
    BY <2>2, <2>4
  <2>6. \A p \in q + 1..L + 1 : h[p] = f[p]
    BY <2>2
  <2>7. ASSUME NEW p \in q..L + 1
        PROVE  h[p] = WalkStep(L, head, next, p, h)
    <3>1. CASE p = q
      <4>0. q \in q..L + 1 /\ ~(q > L)
        BY <2>2
      <4>1. h[p] = head[q] \o f[next[q]] /\ ~(q > L) /\ h[next[q]] = f[next[q]]
        <5>1. h[next[q]] = f[next[q]]
          BY <2>3, <2>6
        <5>2. h[q] = head[q] \o f[next[q]]
          BY <4>0
        <5> HIDE DEF h, q
        <5> QED
          BY <3>1, <4>0, <5>1, <5>2
      <4> HIDE DEF h, q
      <4> QED
        BY <3>1, <4>1 DEF WalkStep
    <3>2. CASE p # q
      <4>1. p \in q + 1..L + 1 /\ p \in L + 1 - k..L + 1
        BY <2>2, <3>2
      <4>2. h[p] = f[p] /\ f[p] = WalkStep(L, head, next, p, f)
        BY <2>1, <2>6, <4>1
      <4>3. p <= L => h[next[p]] = f[next[p]]
        <5> SUFFICES ASSUME p <= L PROVE next[p] \in q + 1..L + 1
          BY <2>6
        <5>1. p \in 1..L
          BY <2>2
        <5>2. next[p] \in 1..L + 1 /\ p < next[p]
          BY <5>1
        <5> QED
          BY <2>2, <4>1, <5>2
      <4>4. p \in Int /\ L \in Int
        BY <2>2
      <4> HIDE DEF h, q
      <4> QED
        BY <4>2, <4>3, <4>4 DEF WalkStep
    <3> QED
      BY <3>1, <3>2
  <2>8. k + 1 \in 0..L
    BY <2>2, <1>2
  <2> HIDE DEF h
  <2> QED
    BY <2>5, <2>7, <2>8
<1>3. L \in G
  <2> HIDE DEF G
  <2> QED
    BY <1>1, <1>2, Upwards
<1>4. L + 1 - L = 1
  OBVIOUS
<1> QED
  BY <1>3, <1>4

------------------------------------------------------------------------------
(* Joining sequences *)

Joins(ss, f) == f = [i \in 1..Len(ss) |-> IF i = 1 THEN ss[i] ELSE f[i - 1] \o ss[i]]

LEMMA JoinExists ==
  ASSUME NEW S, NEW ss \in Seq(Seq(S)), ss # <<>>
  PROVE  \E f : Joins(ss, f)
<1> DEFINE m == Len(ss)
           Step(i, g) == IF i = 1 THEN ss[i] ELSE g[i - 1] \o ss[i]
           G == {n \in 1..m : \E f \in [1..n -> Seq(S)] : \A i \in 1..n : f[i] = Step(i, f)}
<1>1. m \in Nat \ {0} /\ \A i \in 1..m : ss[i] \in Seq(S)
  BY EmptySeq, LenProperties, ElementOfSeq
<1>2. 1 \in G
  <2> DEFINE h == [i \in 1..1 |-> ss[1]]
  <2>1. h \in [1..1 -> Seq(S)] /\ 1 \in 1..m
    BY <1>1
  <2>2. \A i \in 1..1 : h[i] = Step(i, h)
    OBVIOUS
  <2> HIDE DEF h
  <2> QED
    BY <2>1, <2>2
<1>3. ASSUME NEW n \in G, n < m
      PROVE  n + 1 \in G
  <2>1. PICK f \in [1..n -> Seq(S)] : \A i \in 1..n : f[i] = Step(i, f)
    OBVIOUS
  <2> DEFINE h == [i \in 1..n + 1 |-> IF i = n + 1 THEN f[n] \o ss[n + 1] ELSE f[i]]
  <2>2. n \in 1..m /\ n + 1 \in 1..m /\ n \in 1..n
    BY <1>1, <1>3
  <2>3. f[n] \o ss[n + 1] \in Seq(S)
    BY <1>1, <2>2, ConcatProperties
  <2>4. h \in [1..n + 1 -> Seq(S)]
    BY <2>2, <2>3
  <2>5. ASSUME NEW i \in 1..n + 1
        PROVE  h[i] = Step(i, h)
    <3>1. CASE i = n + 1
      <4>1. h[i] = f[n] \o ss[n + 1] /\ h[n] = f[n] /\ i # 1 /\ i - 1 = n
        BY SMTT(30), <2>2, <3>1
      <4> QED
        BY <3>1, <4>1
    <3>2. CASE i # n + 1
      <4>1. i \in 1..n /\ h[i] = f[i] /\ (i # 1 => h[i - 1] = f[i - 1])
        BY <2>2, <3>2
      <4> QED
        BY <2>1, <4>1
    <3> QED
      BY <3>1, <3>2
  <2> HIDE DEF h
  <2> QED
    BY <2>2, <2>4, <2>5
<1>4. m \in G
  <2> HIDE DEF G
  <2> QED
    BY <1>1, <1>2, <1>3, UpwardsFrom1
<1>5. PICK f \in [1..m -> Seq(S)] : \A i \in 1..m : f[i] = Step(i, f)
  BY <1>4
<1>6. f = [i \in 1..m |-> Step(i, f)]
  BY <1>5
<1> QED
  BY <1>6 DEF Joins

(* The function that FlattenSeq chooses, for a sequence that is not empty. *)
Join(ss) == CHOOSE f : Joins(ss, f)

LEMMA JoinSteps ==
  ASSUME NEW S, NEW ss \in Seq(Seq(S)), ss # <<>>
  PROVE  /\ \A i \in 1..Len(ss) :
              /\ Join(ss)[i] \in Seq(S)
              /\ Join(ss)[i] = IF i = 1 THEN ss[i] ELSE Join(ss)[i - 1] \o ss[i]
         /\ FlattenSeq(ss) = Join(ss)[Len(ss)]
         /\ Len(ss) \in Nat \ {0} /\ \A i \in 1..Len(ss) : ss[i] \in Seq(S)
<1> DEFINE f == Join(ss)
           m == Len(ss)
           G == {n \in 1..m : f[n] \in Seq(S)}
<1>1. m \in Nat \ {0} /\ \A i \in 1..m : ss[i] \in Seq(S)
  BY EmptySeq, LenProperties, ElementOfSeq
<1>2. Joins(ss, f)
  BY JoinExists DEF Join
<1>3. \A i \in 1..m : f[i] = IF i = 1 THEN ss[i] ELSE f[i - 1] \o ss[i]
  <2> HIDE DEF f
  <2> QED
    BY <1>2 DEF Joins
<1>4. FlattenSeq(ss) = f[m]
  BY <1>1 DEF FlattenSeq, Join, Joins
<1> HIDE DEF f
<1>5. 1 \in G
  BY <1>1, <1>3
<1>6. ASSUME NEW n \in G, n < m
      PROVE  n + 1 \in G
  <2>1. n \in 1..m /\ n + 1 \in 1..m /\ n + 1 # 1 /\ (n + 1) - 1 = n
    BY <1>1, <1>6
  <2>2. f[n + 1] = f[n] \o ss[n + 1] /\ f[n] \in Seq(S) /\ ss[n + 1] \in Seq(S)
    BY <1>1, <1>3, <2>1
  <2>3. f[n + 1] \in Seq(S)
    BY <2>2, ConcatProperties
  <2> QED
    BY <2>1, <2>3
<1>7. 1..m \subseteq G
  <2> HIDE DEF G
  <2> QED
    BY <1>1, <1>5, <1>6, UpwardsFrom1
<1> QED
  BY <1>1, <1>3, <1>4, <1>7 DEF f

LEMMA JoinType ==
  ASSUME NEW S, NEW ss \in Seq(Seq(S))
  PROVE  FlattenSeq(ss) \in Seq(S)
<1>1. CASE ss = <<>>
  BY <1>1, EmptySeq DEF FlattenSeq
<1>2. CASE ss # <<>>
  BY SMTT(30), <1>2, JoinSteps
<1> QED
  BY <1>1, <1>2

LEMMA JoinAppend ==
  ASSUME NEW S, NEW ss \in Seq(Seq(S)), NEW x \in Seq(S)
  PROVE  FlattenSeq(Append(ss, x)) = FlattenSeq(ss) \o x
<1> DEFINE m == Len(ss)
           tt == Append(ss, x)
<1>1. /\ tt \in Seq(Seq(S)) /\ Len(tt) = m + 1 /\ m \in Nat /\ tt # <<>>
      /\ \A i \in 1..m : tt[i] = ss[i]
      /\ tt[m + 1] = x
  BY AppendProperties, LenProperties, EmptySeq
<1> HIDE DEF tt
<1>2. CASE ss = <<>>
  <2>1. m = 0 /\ FlattenSeq(ss) = <<>>
    BY <1>2, EmptySeq DEF FlattenSeq
  <2>2. FlattenSeq(tt) = tt[1] /\ tt[1] = x
    BY <1>1, <2>1, JoinSteps
  <2>3. <<>> \o x = x
    OBVIOUS
  <2> QED
    BY <2>1, <2>2, <2>3 DEF tt
<1>3. CASE ss # <<>>
  <2> DEFINE f == Join(ss)
             g == Join(tt)
             G == {n \in 1..m : g[n] = f[n]}
  <2>1. /\ \A i \in 1..m : f[i] = IF i = 1 THEN ss[i] ELSE f[i - 1] \o ss[i]
        /\ FlattenSeq(ss) = f[m] /\ m \in Nat \ {0}
    BY <1>3, JoinSteps
  <2>2. /\ \A i \in 1..m + 1 : g[i] = IF i = 1 THEN tt[i] ELSE g[i - 1] \o tt[i]
        /\ FlattenSeq(tt) = g[m + 1]
    BY <1>1, JoinSteps
  <2> HIDE DEF f, g
  <2>3. 1 \in G
    BY <1>1, <2>1, <2>2
  <2>4. ASSUME NEW n \in G, n < m
        PROVE  n + 1 \in G
    BY <1>1, <2>1, <2>2, <2>4, SMTT(40)
  <2>5. 1..m \subseteq G
    <3> HIDE DEF G
    <3> QED
      BY <2>1, <2>3, <2>4, UpwardsFrom1
  <2>6. g[m] = f[m]
    BY <2>1, <2>5
  <2>7. g[m + 1] = g[m] \o x
    <3>1. m + 1 \in 1..m + 1 /\ m + 1 # 1 /\ (m + 1) - 1 = m
      BY <2>1
    <3> QED
      BY <1>1, <2>2, <3>1
  <2> QED
    BY <2>1, <2>2, <2>6, <2>7 DEF tt
<1> QED
  BY <1>2, <1>3

AssociativeOn(T) == \A s, t, u \in T : (s \o t) \o u = s \o (t \o u)

LEMMA Associative == \A S : AssociativeOn(Seq(S))
<1> SUFFICES ASSUME NEW S PROVE AssociativeOn(Seq(S))
  OBVIOUS
<1> QED
  BY DEF AssociativeOn

LEMMA Single ==
  ASSUME NEW S, NEW x \in S
  PROVE  <<x>> \in Seq(S) /\ Len(<<x>>) = 1 /\ <<x>>[1] = x
OBVIOUS

LEMMA JoinSingle ==
  ASSUME NEW S, NEW x \in Seq(S)
  PROVE  FlattenSeq(<<x>>) = x
<1>1. <<x>> \in Seq(Seq(S)) /\ <<x>> # <<>> /\ Len(<<x>>) = 1 /\ <<x>>[1] = x
  OBVIOUS
<1>2. FlattenSeq(<<x>>) = Join(<<x>>)[Len(<<x>>)]
      /\ \A i \in 1..Len(<<x>>) : Join(<<x>>)[i] = IF i = 1 THEN <<x>>[i] ELSE Join(<<x>>)[i - 1] \o <<x>>[i]
  BY <1>1, JoinSteps
<1> QED
  BY <1>1, <1>2

LEMMA JoinConcat ==
  ASSUME NEW S, NEW ss \in Seq(Seq(S)), NEW tt \in Seq(Seq(S))
  PROVE  FlattenSeq(ss \o tt) = FlattenSeq(ss) \o FlattenSeq(tt)
<1>0. AssociativeOn(Seq(S)) /\ AssociativeOn(Seq(Seq(S)))
  BY Associative, Zenon
<1> DEFINE m == Len(tt)
           part(n) == SubSeq(tt, 1, n)
           G == {n \in 0..m : FlattenSeq(ss \o part(n)) = FlattenSeq(ss) \o FlattenSeq(part(n))}
<1>1. m \in Nat /\ \A i \in 1..m : tt[i] \in Seq(S)
  BY LenProperties, ElementOfSeq
<1>2. 0 \in G
  <2>1. part(0) = <<>> /\ ss \o <<>> = ss
    BY SubSeqEmpty, ConcatEmptySeq
  <2>2. FlattenSeq(<<>>) = <<>> /\ FlattenSeq(ss) \in Seq(S)
    BY JoinType, EmptySeq DEF FlattenSeq
  <2>3. FlattenSeq(ss) \o <<>> = FlattenSeq(ss)
    BY <2>2, ConcatEmptySeq
  <2> HIDE DEF part
  <2>4. FlattenSeq(ss \o part(0)) = FlattenSeq(ss) \o FlattenSeq(part(0))
    BY <2>1, <2>2, <2>3, Zenon
  <2>5. 0 \in 0..m
    BY <1>1
  <2> QED
    BY <2>4, <2>5
<1>3. ASSUME NEW n \in G, n < m
      PROVE  n + 1 \in G
  <2>1. n \in 0..m /\ n + 1 \in 1..m /\ (n + 1) - 1 = n
    BY <1>1, <1>3
  <2>2. part(n) \in Seq(Seq(S))
    BY <1>1, <2>1, SubSeqProperties
  <2>3. part(n + 1) = Append(part(n), tt[n + 1])
    <3>1. part(n + 1) = part(n) \o <<tt[n + 1]>>
      BY <2>1, SubSeqRecursiveSecond
    <3>2. tt[n + 1] \in Seq(S)
      BY <1>1, <2>1
    <3> QED
      BY <2>2, <3>1, <3>2, AppendIsConcat
  <2> HIDE DEF part
  <2> DEFINE x == tt[n + 1]
  <2>4. x \in Seq(S)
    BY <1>1, <2>1
  <2> HIDE DEF x
  <2>5. ss \o Append(part(n), x) = Append(ss \o part(n), x)
    <3>1. ss \o part(n) \in Seq(Seq(S)) /\ <<x>> \in Seq(Seq(S))
      BY <2>2, <2>4, ConcatProperties
    <3>2. Append(part(n), x) = part(n) \o <<x>>
      BY <2>2, <2>4, AppendIsConcat
    <3>3. Append(ss \o part(n), x) = (ss \o part(n)) \o <<x>>
      BY <3>1, <2>4, AppendIsConcat
    <3>4. (ss \o part(n)) \o <<x>> = ss \o (part(n) \o <<x>>)
      BY <1>0, <2>2, <3>1 DEF AssociativeOn
    <3> QED
      BY <3>2, <3>3, <3>4
  <2>6. FlattenSeq(ss \o part(n + 1)) = FlattenSeq(ss \o part(n)) \o x
    <3>1. ss \o part(n) \in Seq(Seq(S))
      BY <2>2, ConcatProperties
    <3>2. FlattenSeq(Append(ss \o part(n), x)) = FlattenSeq(ss \o part(n)) \o x
      BY <2>4, <3>1, JoinAppend
    <3> QED
      BY <2>3, <2>5, <3>2 DEF x
  <2>7. FlattenSeq(part(n + 1)) = FlattenSeq(part(n)) \o x
    BY <2>2, <2>3, <2>4, JoinAppend DEF x
  <2>8. FlattenSeq(ss \o part(n)) = FlattenSeq(ss) \o FlattenSeq(part(n))
    OBVIOUS
  <2>9. (FlattenSeq(ss) \o FlattenSeq(part(n))) \o x = FlattenSeq(ss) \o (FlattenSeq(part(n)) \o x)
    <3>1. FlattenSeq(ss) \in Seq(S) /\ FlattenSeq(part(n)) \in Seq(S)
      BY <2>2, JoinType
    <3> QED
      BY <1>0, <2>4, <3>1 DEF AssociativeOn
  <2>10. FlattenSeq(ss \o part(n + 1)) = FlattenSeq(ss) \o FlattenSeq(part(n + 1))
    BY <2>6, <2>7, <2>8, <2>9
  <2>11. n + 1 \in 0..m
    BY <2>1
  <2> QED
    BY <2>10, <2>11
<1>4. m \in G
  <2>1. m \in Nat
    BY <1>1
  <2> HIDE DEF G, m
  <2>2. 0..m \subseteq G
    BY <1>2, <1>3, <2>1, Upwards
  <2> QED
    BY <2>1, <2>2
<1>5. part(m) = tt
  BY SubSeqFull
<1> HIDE DEF part
<1> QED
  BY <1>4, <1>5

------------------------------------------------------------------------------
(* The ranks of the merges *)

LEMMA PieceFacts ==
  /\ \A a, b \in Piece : a \o b \in Piece /\ Len(a \o b) = Len(a) + Len(b)
  /\ \A a \in Piece : Len(a) \in Nat /\ (a # <<>> => Len(a) > 0)
<1>1. \A a, b \in Piece : a \o b \in Piece /\ Len(a \o b) = Len(a) + Len(b)
  BY ConcatProperties DEF Piece
<1>2. \A a \in Piece : Len(a) \in Nat /\ (a # <<>> => Len(a) > 0)
  BY EmptySeq, LenProperties DEF Piece
<1> QED
  BY <1>1, <1>2

(* What was loaded of the merges: each pair has the rank of its place.     *)
MergesLoaded == json \in Jsons /\ json_valid(json) /\ merge_ranks = MergeRanks(json)

Pair(pair) == /\ pair = <<pair[1], pair[2]>> /\ pair[1] \in Piece /\ pair[2] \in Piece
              /\ pair[1] # <<>> /\ pair[2] # <<>>

LEMMA RankFacts ==
  ASSUME MergesLoaded
  PROVE  \A pair \in DOMAIN merge_ranks :
           /\ Pair(pair)
           /\ merge_ranks[pair] \in DOMAIN json.merges /\ merge_ranks[pair] \in Nat
           /\ json.merges[merge_ranks[pair]] = pair
<1> SUFFICES ASSUME NEW pair \in DOMAIN merge_ranks
             PROVE  /\ Pair(pair)
                    /\ merge_ranks[pair] \in DOMAIN json.merges /\ merge_ranks[pair] \in Nat
                    /\ json.merges[merge_ranks[pair]] = pair
  OBVIOUS
<1> DEFINE m == json.merges
           T == {n \in DOMAIN m : m[n] = pair}
<1>1. m \in Seq(Piece \X Piece)
  BY InputAssumption DEF MergesLoaded
<1>2. DOMAIN m = 1..Len(m) /\ Len(m) \in Nat /\ \A n \in DOMAIN m : m[n] \in Piece \X Piece
  BY <1>1, LenProperties, ElementOfSeq
<1>3. \A n \in DOMAIN m : m[n][1] # <<>> /\ m[n][2] # <<>>
  BY DEF MergesLoaded, json_valid
<1>4. pair \in Range(m) /\ merge_ranks[pair] = Min(T)
  BY DEF MergesLoaded, MergeRanks
<1> HIDE DEF m
<1>5. T \subseteq Nat /\ T # {}
  BY <1>2, <1>4 DEF Range
<1>6. Min(T) \in T
  BY <1>5, MinOf
<1>7. merge_ranks[pair] \in DOMAIN m /\ m[merge_ranks[pair]] = pair
  BY <1>4, <1>6
<1>8. pair \in Piece \X Piece /\ pair[1] # <<>> /\ pair[2] # <<>>
  BY <1>2, <1>3, <1>7
<1> QED
  BY <1>2, <1>7, <1>8 DEF m, Pair

(* Whoever ranks a pair that holds the piece another makes comes later.    *)
LaterMerges ==
  \A pair, other \in DOMAIN merge_ranks :
    (other[1] = pair[1] \o pair[2] \/ other[2] = pair[1] \o pair[2]) =>
      merge_ranks[pair] < merge_ranks[other]

LEMMA TrainedOrder ==
  ASSUME MergesLoaded, Trained
  PROVE  LaterMerges
<1> DEFINE m == json.merges
           made(n) == m[n][1] \o m[n][2]
<1> SUFFICES ASSUME NEW pair \in DOMAIN merge_ranks, NEW other \in DOMAIN merge_ranks,
                    other[1] = pair[1] \o pair[2] \/ other[2] = pair[1] \o pair[2]
             PROVE  merge_ranks[pair] < merge_ranks[other]
  BY DEF LaterMerges
<1> DEFINE a == merge_ranks[pair]
           b == merge_ranks[other]
           p == pair[1] \o pair[2]
<1>1. /\ a \in DOMAIN m /\ b \in DOMAIN m /\ m[a] = pair /\ m[b] = other
      /\ a \in Nat /\ b \in Nat /\ Pair(pair) /\ Pair(other)
  BY RankFacts
<1>2. DOMAIN m = 1..Len(m) /\ Len(m) \in Nat
  <2>1. m \in Seq(Piece \X Piece)
    BY InputAssumption DEF MergesLoaded
  <2> QED
    BY <2>1, LenProperties
<1>3. \A n \in DOMAIN m : /\ \A k \in 1..n - 1 : made(n) # made(k)
                          /\ \A part \in {m[n][1], m[n][2]} :
                               Len(part) = 1 \/ \E k \in 1..n - 1 : part = made(k)
  BY DEF Trained
<1>4. p \in {m[b][1], m[b][2]} /\ Len(p) # 1
  <2>1. Len(p) = Len(pair[1]) + Len(pair[2]) /\ Len(pair[1]) > 0 /\ Len(pair[2]) > 0
        /\ Len(pair[1]) \in Nat /\ Len(pair[2]) \in Nat
    BY <1>1, PieceFacts DEF Pair
  <2>2. Len(p) # 1
    <3>1. \A x, y \in Nat : x > 0 /\ y > 0 => x + y # 1
      OBVIOUS
    <3> QED
      BY <2>1, <3>1, Zenon
  <2>3. m[b] = other
    BY <1>1
  <2>4. p \in {other[1], other[2]}
    OBVIOUS
  <2> QED
    BY <2>2, <2>3, <2>4
<1>5. made(a) = p
  BY <1>1
<1> HIDE DEF m, made, p
<1>6. PICK k \in 1..b - 1 : p = made(k)
  BY <1>1, <1>3, <1>4
<1>7. k \in DOMAIN m /\ k \in Nat /\ k < b
  BY <1>1, <1>2
<1>8. ~(k < a) /\ ~(a < k)
  <2>1. k < a => k \in 1..a - 1
    BY <1>1, <1>7
  <2>2. a < k => a \in 1..k - 1
    BY <1>1, <1>2, <1>7
  <2> QED
    BY <1>1, <1>3, <1>5, <1>6, <1>7, <2>1, <2>2
<1>9. k = a
  BY <1>1, <1>7, <1>8
<1> QED
  BY <1>7, <1>9

------------------------------------------------------------------------------
(* One pass of merges *)

MergeStep(s, pair, n, f) ==
  IF n > Len(s) THEN <<>>
  ELSE IF n < Len(s) /\ PairAt(s, n) = pair THEN <<s[n] \o s[n + 1]>> \o f[n + 2]
  ELSE <<s[n]>> \o f[n + 1]
Merges(s, pair, f) ==
  f = [n \in 1..Len(s) + 1 |->
         IF n > Len(s) THEN <<>>
         ELSE IF n < Len(s) /\ PairAt(s, n) = pair
         THEN <<s[n] \o s[n + 1]>> \o f[n + 2]
         ELSE <<s[n]>> \o f[n + 1]]
Merged(s, pair) == CHOOSE f : Merges(s, pair, f)

LEMMA MergedExists ==
  ASSUME NEW s \in Seq(Piece), NEW pair
  PROVE  \E f : Merges(s, pair, f)
<1> DEFINE L == Len(s)
           joins(n) == n < L /\ PairAt(s, n) = pair
           head == [n \in 1..L |-> IF joins(n) THEN <<s[n] \o s[n + 1]>> ELSE <<s[n]>>]
           next == [n \in 1..L |-> IF joins(n) THEN n + 2 ELSE n + 1]
<1>1. L \in Nat /\ \A n \in 1..L : s[n] \in Piece
  BY LenProperties, ElementOfSeq
<1>2. head \in [1..L -> Seq(Piece)]
  <2>1. \A n \in 1..L : s[n] \in Piece /\ (n < L => s[n + 1] \in Piece)
    BY <1>1
  <2>2. \A n \in 1..L : n < L => s[n] \o s[n + 1] \in Piece
    BY <2>1, PieceFacts
  <2>3. \A x \in Piece : <<x>> \in Seq(Piece)
    OBVIOUS
  <2>4. \A n \in 1..L : (IF joins(n) THEN <<s[n] \o s[n + 1]>> ELSE <<s[n]>>) \in Seq(Piece)
    BY <2>1, <2>2, <2>3
  <2> QED
    BY <2>4
<1>3. next \in [1..L -> 1..L + 1] /\ \A n \in 1..L : n < next[n]
  BY <1>1
<1> HIDE DEF L, head, next
<1>4. PICK f \in [1..L + 1 -> Seq(Piece)] :
        \A n \in 1..L + 1 : f[n] = WalkStep(L, head, next, n, f)
  BY <1>1, <1>2, <1>3, WalkExists, ZenonT(40)
<1>5. \A n \in 1..L + 1 : f[n] = MergeStep(s, pair, n, f)
  <2> SUFFICES ASSUME NEW n \in 1..L + 1 PROVE f[n] = MergeStep(s, pair, n, f)
    OBVIOUS
  <2>1. f[n] = WalkStep(L, head, next, n, f)
    BY <1>4
  <2>2. n \in Int /\ (~(n > L) => n \in 1..L)
    BY <1>1
  <2>3. CASE n > L
    BY <2>1, <2>3 DEF WalkStep, MergeStep, L
  <2>4. CASE ~(n > L) /\ joins(n)
    <3>1. head[n] = <<s[n] \o s[n + 1]>> /\ next[n] = n + 2
      BY <2>2, <2>4 DEF head, next
    <3>2. f[n] = <<s[n] \o s[n + 1]>> \o f[n + 2]
      BY <2>1, <2>4, <3>1, Zenon DEF WalkStep
    <3> QED
      BY <2>4, <3>2, Zenon DEF MergeStep, L
  <2>5. CASE ~(n > L) /\ ~joins(n)
    <3>1. head[n] = <<s[n]>> /\ next[n] = n + 1
      BY <2>2, <2>5 DEF head, next
    <3>2. f[n] = <<s[n]>> \o f[n + 1]
      BY <2>1, <2>5, <3>1, Zenon DEF WalkStep
    <3> QED
      BY <2>5, <3>2, Zenon DEF MergeStep, L
  <2> QED
    BY <2>3, <2>4, <2>5
<1>6. f = [n \in 1..L + 1 |-> MergeStep(s, pair, n, f)]
  BY <1>4, <1>5
<1> QED
  BY <1>6, Zenon DEF Merges, MergeStep, L

LEMMA MergedSteps ==
  ASSUME NEW s \in Seq(Piece), NEW pair
  PROVE  /\ merge_all(s, pair) = Merged(s, pair)[1]
         /\ \A n \in 1..Len(s) + 1 :
              /\ Merged(s, pair)[n] = MergeStep(s, pair, n, Merged(s, pair))
              /\ Merged(s, pair)[n] \in Seq(Piece)
<1> DEFINE f == Merged(s, pair)
           L == Len(s)
<1>1. Merges(s, pair, f)
  BY MergedExists, Zenon DEF Merged
<1>2. merge_all(s, pair) = f[1]
  BY Zenon DEF merge_all, Merged, Merges
<1> HIDE DEF f
<1>3. L \in Nat /\ \A n \in 1..L : s[n] \in Piece
  BY LenProperties, ElementOfSeq
<1>4. \A n \in 1..L + 1 : f[n] = MergeStep(s, pair, n, f)
  <2>1. f = [n \in 1..L + 1 |-> MergeStep(s, pair, n, f)]
    BY <1>1, Zenon DEF Merges, MergeStep
  <2> QED
    BY <2>1
<1> DEFINE G == {n \in 1..L + 1 : f[n] \in Seq(Piece)}
<1>5. ASSUME NEW n \in 1..L + 1, \A x \in n + 1..L + 1 : x \in G
      PROVE  n \in G
  <2>1. f[n] = MergeStep(s, pair, n, f)
    BY <1>4
  <2>2. n \in Int
    BY <1>3
  <2>3. CASE n > L
    BY <2>1, <2>3, EmptySeq DEF MergeStep
  <2>4. CASE ~(n > L)
    <3>1. n \in 1..L /\ n + 1 \in n + 1..L + 1 /\ (n < L => n + 2 \in n + 1..L + 1 /\ n + 1 \in 1..L)
      BY <1>3, <2>2, <2>4
    <3>2. f[n + 1] \in Seq(Piece) /\ (n < L => f[n + 2] \in Seq(Piece))
      BY <1>5, <3>1
    <3>3. s[n] \in Piece /\ (n < L => s[n] \o s[n + 1] \in Piece)
      BY <1>3, <3>1, PieceFacts
    <3>4. \A x \in Piece : \A t \in Seq(Piece) : <<x>> \o t \in Seq(Piece)
      OBVIOUS
    <3>5. <<s[n]>> \o f[n + 1] \in Seq(Piece)
          /\ (n < L => <<s[n] \o s[n + 1]>> \o f[n + 2] \in Seq(Piece))
      BY <3>2, <3>3, <3>4
    <3>6. f[n] \in Seq(Piece)
      BY <2>1, <2>4, <3>5, Zenon DEF MergeStep
    <3> QED
      BY <3>6
  <2> QED
    BY <2>3, <2>4
<1>6. 1..L + 1 \subseteq G
  <2>1. L + 1 \in Nat
    BY <1>3
  <2> HIDE DEF G
  <2> QED
    BY <1>5, <2>1, Downwards
<1> QED
  BY <1>2, <1>4, <1>6 DEF f

------------------------------------------------------------------------------
(* Functions that count up: each value is made from the one before.        *)

Steps(m, S) == [(1..m) \X S -> S]
CountStep(a, step, n, f) == IF n = 0 THEN a ELSE step[n, f[n - 1]]
Counts(m, S, a, step, f) ==
  f \in [0..m -> S] /\ \A n \in 0..m : f[n] = CountStep(a, step, n, f)

LEMMA CountExists ==
  ASSUME NEW S, NEW m \in Nat, NEW a \in S, NEW step \in Steps(m, S)
  PROVE  \E f : Counts(m, S, a, step, f)
<1> DEFINE G == {k \in 0..m : \E f \in [0..k -> S] :
                   \A n \in 0..k : f[n] = CountStep(a, step, n, f)}
<1>0. step \in [(1..m) \X S -> S]
  BY Zenon DEF Steps
<1>1. 0 \in G
  <2> DEFINE h == [n \in 0..0 |-> a]
  <2>1. h \in [0..0 -> S]
    OBVIOUS
  <2>2. \A n \in 0..0 : h[n] = CountStep(a, step, n, h)
    <3>1. \A n \in 0..0 : n = 0 /\ h[n] = a
      OBVIOUS
    <3> HIDE DEF h
    <3> QED
      BY <3>1 DEF CountStep
  <2> HIDE DEF h
  <2> QED
    BY <2>1, <2>2
<1>2. ASSUME NEW k \in G, k < m
      PROVE  k + 1 \in G
  <2>1. PICK f \in [0..k -> S] : \A n \in 0..k : f[n] = CountStep(a, step, n, f)
    OBVIOUS
  <2>2. k \in 0..m /\ k \in Int /\ k + 1 \in 1..m /\ k \in 0..k /\ k + 1 \in 0..m
    BY <1>2
  <2>3. f[k] \in S
    BY <2>2
  <2>4. step[k + 1, f[k]] \in S
    <3>1. <<k + 1, f[k]>> \in (1..m) \X S
      BY <2>2, <2>3
    <3> HIDE DEF G
    <3> QED
      BY <1>0, <3>1, Zenon
  <2> DEFINE v == step[k + 1, f[k]]
  <2> HIDE DEF v
  <2> DEFINE h == [n \in 0..k + 1 |-> IF n = k + 1 THEN v ELSE f[n]]
  <2>5. h \in [0..k + 1 -> S]
    <3>1. v \in S
      BY <2>4, Zenon DEF v
    <3>2. \A n \in 0..k + 1 : n # k + 1 => n \in 0..k
      BY <2>2
    <3> QED
      BY <3>1, <3>2
  <2>6. (\A n \in 0..k : h[n] = f[n]) /\ h[k + 1] = v
    BY <2>2
  <2>7. ASSUME NEW n \in 0..k + 1
        PROVE  h[n] = CountStep(a, step, n, h)
    <3> HIDE DEF h
    <3>1. CASE n = k + 1
      <4>1. n # 0 /\ n - 1 = k /\ h[n - 1] = f[k]
        BY <2>2, <2>6, <3>1
      <4> QED
        BY <2>6, <3>1, <4>1, Zenon DEF CountStep, v
    <3>2. CASE n # k + 1
      <4>1. n \in 0..k /\ h[n] = f[n] /\ (n # 0 => h[n - 1] = f[n - 1])
        BY <2>2, <2>6, <3>2
      <4>2. f[n] = CountStep(a, step, n, f)
        BY <2>1, <4>1
      <4> QED
        BY <4>1, <4>2, Zenon DEF CountStep
    <3> QED
      BY <3>1, <3>2
  <2> HIDE DEF h
  <2> QED
    BY <2>2, <2>5, <2>7
<1>3. 0..m \subseteq G
  <2> HIDE DEF G
  <2> QED
    BY <1>1, <1>2, Upwards
<1>4. m \in G
  BY <1>3
<1>5. \E f \in [0..m -> S] : \A n \in 0..m : f[n] = CountStep(a, step, n, f)
  BY <1>4
<1> QED
  BY <1>5, Zenon DEF Counts

------------------------------------------------------------------------------
(* NFC of a segment is one: a sequence of bytes *)

NfcStep(byte, before) ==
  IF before # <<>> /\ <<Last(before), byte>> \in DOMAIN Compose
  THEN Append(Front(before), Compose[<<Last(before), byte>>])
  ELSE Append(before, byte)
Composes(segment, f) ==
  f = [n \in 0..Len(segment) |->
         IF n = 0 THEN <<>>
         ELSE LET before == f[n - 1]  byte == segment[n] IN
              IF before # <<>> /\ <<Last(before), byte>> \in DOMAIN Compose
              THEN Append(Front(before), Compose[<<Last(before), byte>>])
              ELSE Append(before, byte)]
Composed(segment) == CHOOSE f : Composes(segment, f)

LEMMA NfcStepType ==
  \A byte \in Byte, before \in Seq(Byte) : NfcStep(byte, before) \in Seq(Byte)
<1> SUFFICES ASSUME NEW byte \in Byte, NEW before \in Seq(Byte)
             PROVE  NfcStep(byte, before) \in Seq(Byte)
  OBVIOUS
<1>1. Append(before, byte) \in Seq(Byte)
  BY AppendProperties
<1>2. ASSUME before # <<>>, <<Last(before), byte>> \in DOMAIN Compose
      PROVE  Append(Front(before), Compose[<<Last(before), byte>>]) \in Seq(Byte)
  <2>1. Compose[<<Last(before), byte>>] \in Byte
    BY <1>2, TokenizerAssumption
  <2>2. Front(before) \in Seq(Byte)
    <3>1. Len(before) \in Nat /\ \A i \in 1..Len(before) - 1 : before[i] \in Byte
      BY LenProperties, ElementOfSeq
    <3> QED
      BY <3>1, SubSeqProperties DEF Front
  <2> QED
    BY <2>1, <2>2, AppendProperties
<1> QED
  BY <1>1, <1>2 DEF NfcStep

LEMMA NfcType ==
  ASSUME NEW segment \in Seq(Byte)
  PROVE  /\ normalize_nfc(segment) \in Seq(Byte)
         /\ segment = <<>> => normalize_nfc(segment) = <<>>
<1> DEFINE m == Len(segment)
           step == [x \in (1..m) \X Seq(Byte) |-> NfcStep(segment[x[1]], x[2])]
           nothing == <<>>
<1>1. m \in Nat /\ nothing \in Seq(Byte) /\ \A n \in 1..m : segment[n] \in Byte
  BY LenProperties, EmptySeq, ElementOfSeq
<1>2. \A n \in 1..m, s \in Seq(Byte) : step[n, s] = NfcStep(segment[n], s)
  <2> SUFFICES ASSUME NEW n \in 1..m, NEW s \in Seq(Byte)
               PROVE  step[n, s] = NfcStep(segment[n], s)
    BY Zenon
  <2> DEFINE x == <<n, s>>
  <2>1. x \in (1..m) \X Seq(Byte) /\ x[1] = n /\ x[2] = s
    OBVIOUS
  <2> HIDE DEF x, m
  <2>2. step[x] = NfcStep(segment[n], s)
    BY <2>1, Zenon
  <2> QED
    BY <2>2, Zenon DEF x
<1>3. step \in Steps(m, Seq(Byte))
  BY <1>1, NfcStepType DEF Steps
<1> HIDE DEF step, m, nothing
<1>4. PICK f : Counts(m, Seq(Byte), nothing, step, f)
  BY <1>1, <1>3, CountExists, Zenon
<1>5. \A n \in 0..m : f[n] = IF n = 0 THEN <<>> ELSE NfcStep(segment[n], f[n - 1])
  <2> SUFFICES ASSUME NEW n \in 0..m
               PROVE  f[n] = IF n = 0 THEN <<>> ELSE NfcStep(segment[n], f[n - 1])
    OBVIOUS
  <2>1. n # 0 => n \in 1..m /\ n - 1 \in 0..m
    BY <1>1
  <2>2. n # 0 => step[n, f[n - 1]] = NfcStep(segment[n], f[n - 1])
    BY <1>2, <1>4, <2>1, Zenon DEF Counts
  <2> QED
    BY <1>4, <2>2 DEF Counts, CountStep, nothing
<1>6. f = [n \in 0..m |-> IF n = 0 THEN <<>> ELSE NfcStep(segment[n], f[n - 1])]
  BY <1>4, <1>5 DEF Counts
<1>7. Composes(segment, f)
  BY <1>6, Zenon DEF Composes, NfcStep, m
<1> DEFINE g == Composed(segment)
<1>8. Composes(segment, g)
  BY <1>7, Zenon DEF Composed
<1>9. normalize_nfc(segment) = g[m]
  BY Zenon DEF normalize_nfc, Composed, Composes, m
<1> HIDE DEF g
<1>10. \A n \in 0..m : g[n] = IF n = 0 THEN <<>> ELSE NfcStep(segment[n], g[n - 1])
  <2>1. g = [n \in 0..m |-> IF n = 0 THEN <<>> ELSE NfcStep(segment[n], g[n - 1])]
    BY <1>8, Zenon DEF Composes, NfcStep, m
  <2> QED
    BY <2>1
<1> DEFINE G == {n \in 0..m : g[n] \in Seq(Byte)}
<1>11. 0 \in G
  <2>1. 0 \in 0..m
    BY <1>1
  <2>2. g[0] = nothing
    BY <1>10, <2>1, Zenon DEF nothing
  <2> QED
    BY <1>1, <2>1, <2>2, Zenon
<1>12. ASSUME NEW n \in G, n < m
       PROVE  n + 1 \in G
  <2>1. n + 1 \in 0..m /\ n + 1 # 0 /\ (n + 1) - 1 = n /\ n + 1 \in 1..m
    BY <1>1, <1>12
  <2>2. g[n] \in Seq(Byte)
    OBVIOUS
  <2>3. g[n + 1] = NfcStep(segment[n + 1], g[n])
    BY <1>10, <2>1
  <2> QED
    BY <1>1, <2>1, <2>2, <2>3, NfcStepType
<1>13. 0..m \subseteq G
  <2> HIDE DEF G
  <2> QED
    BY <1>1, <1>11, <1>12, Upwards
<1>14. segment = <<>> => g[m] = <<>>
  <2>1. segment = <<>> => m = 0
    BY EmptySeq DEF m
  <2>2. g[0] = <<>>
    BY <1>1, <1>10
  <2> QED
    BY <2>1, <2>2
<1> QED
  BY <1>1, <1>9, <1>13, <1>14

------------------------------------------------------------------------------
(* What the regular expression matches: the pretokens of a segment make it *)
(* up, and none of them is empty.                                          *)

Walk(L, S, head, next) ==
  /\ head \in [1..L -> Seq(S)] /\ next \in [1..L -> 1..L + 1]
  /\ \A p \in 1..L : p < next[p]
Walks(L, S, head, next, f) ==
  /\ f \in [1..L + 1 -> Seq(S)]
  /\ \A p \in 1..L + 1 : f[p] = WalkStep(L, head, next, p, f)

LEMMA WalkMade ==
  ASSUME NEW S, NEW L \in Nat, NEW head, NEW next, Walk(L, S, head, next)
  PROVE  \E f : Walks(L, S, head, next, f)
<1>1. \E f \in [1..L + 1 -> Seq(S)] :
        \A p \in 1..L + 1 : f[p] = WalkStep(L, head, next, p, f)
  BY WalkExists, ZenonT(40) DEF Walk
<1> QED
  BY <1>1, Zenon DEF Walks

LEMMA RunFacts ==
  ASSUME NEW segment \in Seq(Byte), NEW position \in 1..Len(segment) + 1, NEW classes
  PROVE  /\ Run(segment, position, classes) \in 0..Len(segment) - position + 1
         /\ position <= Len(segment) /\ Class[segment[position]] \in classes =>
              Run(segment, position, classes) > 0
<1> DEFINE k == Len(segment) - position + 1
           T == {n \in 0..k : \A i \in position..position + n - 1 : Class[segment[i]] \in classes}
<1>1. k \in Nat /\ position \in Nat /\ Len(segment) \in Nat
  BY LenProperties
<1>2. 0 \in T
  BY <1>1
<1>3. Run(segment, position, classes) = Max(T)
  BY Zenon DEF Run
<1>4. position <= Len(segment) /\ Class[segment[position]] \in classes => 1 \in T
  BY <1>1
<1>5. T \subseteq 0..k
  OBVIOUS
<1> HIDE DEF T, k
<1>6. Max(T) \in T /\ \A y \in T : y <= Max(T)
  BY <1>1, <1>2, <1>5, MaxOf
<1>7. Max(T) \in 0..k
  BY <1>5, <1>6
<1>8. 1 \in T => Max(T) > 0
  BY <1>1, <1>6, <1>7
<1> QED
  BY <1>3, <1>4, <1>7, <1>8 DEF k

LEMMA MatchLengthFacts ==
  ASSUME NEW segment \in Seq(Byte), NEW position \in 1..Len(segment)
  PROVE  MatchLength(segment, position) \in 1..Len(segment) - position + 1
<1> DEFINE class == Class[segment[position]]
           L == Len(segment)
           letters == Run(segment, position, {"L"})
           letters1 == Run(segment, position + 1, {"L"})
           others == Run(segment, position, {"P"})
           others1 == Run(segment, position + 1, {"P"})
           spaces == Run(segment, position, {"S"})
<1>1. L \in Nat /\ position \in 1..L + 1 /\ position + 1 \in 1..L + 1 /\ position <= L
      /\ position \in Nat
  BY LenProperties
<1>2. class \in {"L", "N", "S", "P"}
  <2>1. segment[position] \in Byte
    BY ElementOfSeq
  <2> QED
    BY <2>1, TokenizerAssumption
<1>3. letters \in 0..L - position + 1 /\ (class \in {"L"} => letters > 0)
  BY <1>1, RunFacts
<1>4. letters1 \in 0..L - (position + 1) + 1
  BY <1>1, RunFacts
<1>5. others \in 0..L - position + 1
  BY <1>1, RunFacts
<1>6. others1 \in 0..L - (position + 1) + 1
  BY <1>1, RunFacts
<1>7. spaces \in 0..L - position + 1 /\ (class \in {"S"} => spaces > 0)
  BY <1>1, RunFacts
<1>8. others > 0 \/ class # "P"
  <2>1. class \in {"P"} => others > 0
    BY <1>1, RunFacts
  <2> QED
    BY <2>1
<1>9. MatchLength(segment, position) =
        IF letters > 0 THEN letters
        ELSE IF class \in {"S", "P"} /\ letters1 > 0 THEN 1 + letters1
        ELSE IF class = "N" THEN 1
        ELSE IF others > 0 THEN others
        ELSE IF others1 > 0 THEN 1 + others1
        ELSE IF position + spaces <= L /\ spaces > 1 THEN spaces - 1
        ELSE spaces
  BY Zenon DEF MatchLength
<1> HIDE DEF class, L, letters, letters1, others, others1, spaces
<1>10. MatchLength(segment, position) \in 1..L - position + 1
  BY <1>1, <1>2, <1>3, <1>4, <1>5, <1>6, <1>7, <1>8, <1>9
<1> QED
  BY <1>10 DEF L

Splits(segment, f) ==
  f = [p \in 1..Len(segment) + 1 |->
         IF p > Len(segment) THEN <<>>
         ELSE <<SubSeq(segment, p, p + MatchLength(segment, p) - 1)>>
                \o f[p + MatchLength(segment, p)]]
Split(segment) == CHOOSE f : Splits(segment, f)

LEMMA SplitFacts ==
  ASSUME NEW segment \in Seq(Byte)
  PROVE  /\ split_pretokens(segment) \in Seq(Seq(Byte))
         /\ FlattenSeq(split_pretokens(segment)) = segment
         /\ segment = <<>> => split_pretokens(segment) = <<>>
<1> DEFINE L == Len(segment)
           len(p) == MatchLength(segment, p)
           piece(p) == SubSeq(segment, p, p + len(p) - 1)
           head == [p \in 1..L |-> <<piece(p)>>]
           next == [p \in 1..L |-> p + len(p)]
<1>1. L \in Nat /\ \A p \in 1..L : segment[p] \in Byte
  BY LenProperties, ElementOfSeq
<1>2. \A p \in 1..L : len(p) \in 1..L - p + 1
  BY MatchLengthFacts
<1>3. \A p \in 1..L : piece(p) \in Seq(Byte)
  <2> SUFFICES ASSUME NEW p \in 1..L PROVE piece(p) \in Seq(Byte)
    OBVIOUS
  <2>1. len(p) \in 1..L - p + 1 /\ p \in 1..L /\ p \in Int
    BY <1>2
  <2> HIDE DEF len, L
  <2>2. p + len(p) - 1 \in Int /\ \A i \in p..p + len(p) - 1 : segment[i] \in Byte
    BY <1>1, <2>1
  <2> QED
    BY <2>1, <2>2, SubSeqProperties
<1>4. Walk(L, Seq(Byte), head, next)
  <2>1. \A p \in 1..L : <<piece(p)>> \in Seq(Seq(Byte))
    BY <1>3, Single, Zenon
  <2>2. \A p \in 1..L : p + len(p) \in 1..L + 1 /\ p < p + len(p)
    <3> HIDE DEF len, L
    <3> QED
      BY <1>1, <1>2
  <2> HIDE DEF len, piece, L
  <2> QED
    BY <2>1, <2>2 DEF Walk
<1>5. \A p \in 1..L : head[p] = <<piece(p)>> /\ next[p] = p + len(p)
  OBVIOUS
<1> HIDE DEF head, next, L
<1>6. PICK f : Walks(L, Seq(Byte), head, next, f)
  BY <1>1, <1>4, WalkMade, Zenon
<1>7. Splits(segment, f)
  <2>1. \A p \in 1..L + 1 : f[p] = IF p > L THEN <<>> ELSE <<piece(p)>> \o f[p + len(p)]
    <3> SUFFICES ASSUME NEW p \in 1..L + 1
                 PROVE  f[p] = IF p > L THEN <<>> ELSE <<piece(p)>> \o f[p + len(p)]
      OBVIOUS
    <3>1. p <= L \/ p > L
      BY <1>1
    <3>2. p <= L => p \in 1..L
      BY <1>1
    <3>3. f[p] = WalkStep(L, head, next, p, f)
      BY <1>6, Zenon DEF Walks
    <3> HIDE DEF piece, len
    <3> QED
      BY <1>5, <3>1, <3>2, <3>3, Zenon DEF WalkStep
  <2> HIDE DEF piece, len
  <2>2. f = [p \in 1..L + 1 |-> IF p > L THEN <<>> ELSE <<piece(p)>> \o f[p + len(p)]]
    BY <1>6, <2>1 DEF Walks
  <2> QED
    BY <2>2, Zenon DEF Splits, piece, len, L
<1> DEFINE g == Split(segment)
<1>8. Splits(segment, g)
  BY <1>7, Zenon DEF Split
<1>9. split_pretokens(segment) = g[1]
  BY Zenon DEF split_pretokens, Split, Splits
<1> HIDE DEF g, piece, len
<1>10. \A p \in 1..L + 1 : g[p] = IF p > L THEN <<>> ELSE <<piece(p)>> \o g[p + len(p)]
  <2>1. g = [p \in 1..L + 1 |-> IF p > L THEN <<>> ELSE <<piece(p)>> \o g[p + len(p)]]
    BY <1>8, Zenon DEF Splits, piece, len, L
  <2> QED
    BY <2>1
<1> DEFINE G == {p \in 1..L + 1 : g[p] \in Seq(Seq(Byte)) /\ FlattenSeq(g[p]) = SubSeq(segment, p, L)}
<1>11. ASSUME NEW p \in 1..L + 1, \A x \in p + 1..L + 1 : x \in G
       PROVE  p \in G
  <2>0. p \in Int
    BY <1>1
  <2>1. CASE p > L
    <3>1. g[p] = <<>>
      BY <1>10, <2>1
    <3>2. <<>> \in Seq(Seq(Byte)) /\ FlattenSeq(<<>>) = <<>>
      BY EmptySeq DEF FlattenSeq
    <3>3. SubSeq(segment, p, L) = <<>>
      BY <1>1, <2>0, <2>1, SubSeqEmpty
    <3> QED
      BY <3>1, <3>2, <3>3
  <2>2. CASE ~(p > L)
    <3> DEFINE q == p + len(p)
    <3>1. p \in 1..L /\ len(p) \in 1..L - p + 1
      BY <1>1, <1>2, <2>0, <2>2
    <3>2. q \in p + 1..L + 1 /\ q \in Int
      BY <1>1, <3>1, <2>0
    <3>3. g[q] \in Seq(Seq(Byte)) /\ FlattenSeq(g[q]) = SubSeq(segment, q, L)
      <4>1. q \in G
        BY <1>11, <3>2
      <4> QED
        BY <4>1
    <3>4. g[p] = <<piece(p)>> \o g[q] /\ piece(p) \in Seq(Byte)
      BY <1>3, <1>10, <2>2, <3>1
    <3>5. <<piece(p)>> \in Seq(Seq(Byte)) /\ <<piece(p)>> \in Seq(Seq(Byte)) /\ FlattenSeq(<<piece(p)>>) = piece(p)
      BY <3>4, Single, JoinSingle, Zenon
    <3>6. g[p] \in Seq(Seq(Byte)) /\ FlattenSeq(g[p]) = piece(p) \o SubSeq(segment, q, L)
      <4>1. <<piece(p)>> \o g[q] \in Seq(Seq(Byte))
        BY <3>3, <3>5, ConcatProperties, Zenon
      <4>2. FlattenSeq(<<piece(p)>> \o g[q]) = FlattenSeq(<<piece(p)>>) \o FlattenSeq(g[q])
        BY <3>3, <3>5, JoinConcat, Zenon
      <4> QED
        BY <3>3, <3>4, <3>5, <4>1, <4>2, Zenon
    <3>7. piece(p) \o SubSeq(segment, q, L) = SubSeq(segment, p, L)
      <4> DEFINE k == q - 1
      <4>0. k = p + len(p) - 1
        BY <2>0, <3>1
      <4>1. p \in 1..L + 1 /\ k \in p - 1..L /\ L \in k..L /\ k + 1 = q
        BY <1>1, <3>1, <3>2
      <4> HIDE DEF k
      <4>2. SubSeq(segment, p, k) \o SubSeq(segment, k + 1, L) = SubSeq(segment, p, L)
        BY <4>1, ConcatAdjacentSubSeq DEF L
      <4>3. piece(p) = SubSeq(segment, p, k)
        BY <4>0, Zenon DEF piece
      <4> QED
        BY <4>1, <4>2, <4>3
    <3> QED
      BY <3>6, <3>7
  <2> QED
    BY <2>1, <2>2
<1>12. 1..L + 1 \subseteq G
  <2>1. L + 1 \in Nat
    BY <1>1
  <2> HIDE DEF G
  <2> QED
    BY <1>11, <2>1, Downwards
<1>13. SubSeq(segment, 1, L) = segment
  BY SubSeqFull DEF L
<1>14. 1 \in G
  BY <1>1, <1>12
<1>15. segment = <<>> => g[1] = <<>>
  <2>1. segment = <<>> => 1 > L
    BY EmptySeq DEF L
  <2>2. \A p \in 1..L + 1 : p > L => g[p] = <<>>
    BY <1>10, Zenon
  <2>3. 1 \in 1..L + 1
    BY <1>1
  <2> QED
    BY <2>1, <2>2, <2>3
<1> QED
  BY <1>9, <1>13, <1>14, <1>15

LEMMA PretokensFacts ==
  ASSUME NEW segment \in Seq(Byte)
  PROVE  /\ Pretokens(segment) \in Seq(Seq(Byte))
         /\ FlattenSeq(Pretokens(segment)) = normalize_nfc(segment)
         /\ segment = <<>> => Pretokens(segment) = <<>>
BY NfcType, SplitFacts DEF Pretokens

------------------------------------------------------------------------------
(* The byte-level alphabet: no two bytes have one code point.              *)

LEMMA Below ==
  ASSUME NEW b \in Byte
  PROVE  /\ (0..b - 1) \ Direct \in SUBSET Byte
         /\ IsFiniteSet((0..b - 1) \ Direct)
         /\ Cardinality((0..b - 1) \ Direct) \in Nat
<1>1. Bytes \in Nat
  BY TokenizerAssumption
<1>2. IsFiniteSet(0..b - 1)
  BY <1>1, FS_Interval DEF Byte
<1>3. IsFiniteSet((0..b - 1) \ Direct)
  BY <1>2, FS_Difference
<1>4. Cardinality((0..b - 1) \ Direct) \in Nat
  BY <1>3, FS_CardinalityType
<1> QED
  BY <1>1, <1>3, <1>4 DEF Byte

Substitute(b) == Bytes + Cardinality((0..b - 1) \ Direct)

LEMMA SubstituteGrows ==
  ASSUME NEW a \in Byte \ Direct, NEW b \in Byte, a < b
  PROVE  Substitute(a) < Substitute(b)
<1> DEFINE A == (0..a - 1) \ Direct
           B == (0..b - 1) \ Direct
<1>1. Bytes \in Nat /\ a \in Nat /\ b \in Nat
  BY TokenizerAssumption DEF Byte
<1>2. IsFiniteSet(B) /\ Cardinality(A) \in Nat /\ Cardinality(B) \in Nat
  BY Below
<1>3. A \subseteq B /\ a \in B /\ a \notin A
  BY <1>1
<1> HIDE DEF A, B
<1>4. Cardinality(A) < Cardinality(B)
  <2>1. Cardinality(A) <= Cardinality(B) /\ (Cardinality(A) = Cardinality(B) => A = B)
    BY <1>2, <1>3, FS_Subset
  <2> QED
    BY <1>2, <1>3, <2>1
<1> QED
  BY <1>1, <1>2, <1>4 DEF Substitute, A, B

LEMMA EncoderFacts ==
  /\ \A b \in Byte : byte_encoder(b) \in Nat /\ byte_encoder(b) \in DOMAIN byte_decoder
  /\ \A b \in Byte : byte_decoder[byte_encoder(b)] = b
  /\ \A b \in Direct : b \in Byte /\ b \in DOMAIN byte_decoder /\ byte_decoder[b] = b
<1> DEFINE D == Direct \cup {Substitute(b) : b \in (0..Bytes - 1) \ Direct}
           value(point) == IF point \in Direct THEN point
                           ELSE CHOOSE b \in (0..Bytes - 1) \ Direct : Substitute(b) = point
<1>1. byte_decoder = [point \in D |-> value(point)]
  BY Zenon DEF byte_decoder, Substitute
<1>2. Bytes \in Nat /\ Direct \subseteq Byte /\ Byte = 0..Bytes - 1
  BY TokenizerAssumption DEF Byte
<1>3. \A b \in Byte : Substitute(b) \in Nat /\ Substitute(b) >= Bytes
  <2> SUFFICES ASSUME NEW b \in Byte PROVE Substitute(b) \in Nat /\ Substitute(b) >= Bytes
    BY Zenon
  <2> DEFINE n == Cardinality((0..b - 1) \ Direct)
  <2>1. n \in Nat
    BY Below
  <2> HIDE DEF n
  <2>2. Bytes + n \in Nat /\ Bytes + n >= Bytes
    BY <1>2, <2>1
  <2> QED
    BY <2>2, Zenon DEF Substitute, n
<1>4. \A b \in Byte \ Direct : value(Substitute(b)) = b
  <2> SUFFICES ASSUME NEW b \in Byte \ Direct PROVE value(Substitute(b)) = b
    OBVIOUS
  <2>1. Substitute(b) \notin Direct
    BY <1>2, <1>3
  <2> DEFINE c == CHOOSE x \in (0..Bytes - 1) \ Direct : Substitute(x) = Substitute(b)
  <2>2. c \in Byte \ Direct /\ Substitute(c) = Substitute(b)
    <3>1. b \in (0..Bytes - 1) \ Direct
      BY <1>2
    <3>2. \E x \in (0..Bytes - 1) \ Direct : Substitute(x) = Substitute(b)
      BY <3>1, Zenon
    <3>3. c \in (0..Bytes - 1) \ Direct /\ Substitute(c) = Substitute(b)
      BY <3>2, Zenon
    <3> QED
      BY <1>2, <3>3
  <2>3. value(Substitute(b)) = c
    BY <2>1, Zenon
  <2> HIDE DEF c
  <2>4. ~(c < b) /\ ~(b < c)
    BY <1>3, <2>2, SubstituteGrows
  <2>5. c = b
    BY <1>2, <2>2, <2>4
  <2> QED
    BY <2>3, <2>5
<1>5. \A b \in Byte : byte_encoder(b) = IF b \in Direct THEN b ELSE Substitute(b)
  BY Zenon DEF byte_encoder, Substitute
<1>6. \A b \in Byte \ Direct : Substitute(b) \in D
  BY <1>2
<1>7. \A b \in Direct : value(b) = b /\ b \in D
  BY Zenon
<1> HIDE DEF D, value
<1>8. DOMAIN byte_decoder = D /\ \A point \in D : byte_decoder[point] = value(point)
  BY <1>1
<1>9. \A b \in Byte : byte_encoder(b) \in Nat /\ byte_encoder(b) \in D
                      /\ byte_decoder[byte_encoder(b)] = b
  <2> SUFFICES ASSUME NEW b \in Byte
               PROVE  byte_encoder(b) \in Nat /\ byte_encoder(b) \in D
                      /\ byte_decoder[byte_encoder(b)] = b
    OBVIOUS
  <2>1. CASE b \in Direct
    <3>1. byte_encoder(b) = b /\ b \in D /\ b \in Nat
      BY <1>2, <1>5, <1>7, <2>1
    <3> QED
      BY <1>7, <1>8, <2>1, <3>1
  <2>2. CASE b \notin Direct
    <3>1. byte_encoder(b) = Substitute(b) /\ Substitute(b) \in D /\ Substitute(b) \in Nat
      BY <1>3, <1>5, <1>6, <2>2
    <3> QED
      BY <1>4, <1>8, <2>2, <3>1
  <2> QED
    BY <2>1, <2>2
<1>10. \A b \in Direct : b \in Byte /\ b \in D /\ byte_decoder[b] = b
  BY <1>2, <1>7, <1>8
<1> QED
  BY <1>8, <1>9, <1>10

------------------------------------------------------------------------------
(* What a pass leaves alone: the points that the symbols make up.          *)

LEMMA JoinCons ==
  ASSUME NEW S, NEW x \in Seq(S), NEW t \in Seq(Seq(S))
  PROVE  /\ <<x>> \o t \in Seq(Seq(S)) /\ Len(<<x>> \o t) = 1 + Len(t)
         /\ FlattenSeq(<<x>> \o t) = x \o FlattenSeq(t)
<1>1. <<x>> \in Seq(Seq(S)) /\ Len(<<x>>) = 1 /\ FlattenSeq(<<x>>) = x
  BY Single, JoinSingle, Zenon
<1>2. <<x>> \o t \in Seq(Seq(S)) /\ Len(<<x>> \o t) = Len(<<x>>) + Len(t)
  BY <1>1, ConcatProperties, Zenon
<1>3. FlattenSeq(<<x>> \o t) = FlattenSeq(<<x>>) \o FlattenSeq(t)
  BY <1>1, JoinConcat, Zenon
<1> QED
  BY <1>1, <1>2, <1>3

LEMMA JoinRest ==
  ASSUME NEW S, NEW s \in Seq(Seq(S)), NEW n \in 1..Len(s)
  PROVE  /\ SubSeq(s, n + 1, Len(s)) \in Seq(Seq(S)) /\ s[n] \in Seq(S)
         /\ FlattenSeq(SubSeq(s, n, Len(s))) = s[n] \o FlattenSeq(SubSeq(s, n + 1, Len(s)))
<1> DEFINE L == Len(s)
           T == Seq(S)
<1>1. L \in Nat /\ n \in 1..L /\ L \in n..L /\ \A i \in 1..L : s[i] \in T
  BY LenProperties, ElementOfSeq
<1>2. SubSeq(s, n + 1, L) \in Seq(T)
  <2>1. n + 1 \in Int /\ L \in Int /\ \A i \in n + 1..L : s[i] \in T
    BY <1>1
  <2> HIDE DEF T, L
  <2> QED
    BY <2>1, SubSeqProperties
<1>3. SubSeq(s, n, L) = <<s[n]>> \o SubSeq(s, n + 1, L)
  <2>1. s \in Seq(T) /\ n \in 1..Len(s) /\ L \in n..Len(s)
    BY <1>1
  <2> HIDE DEF T, L
  <2> QED
    BY <2>1, SubSeqRecursiveFirst
<1>4. s[n] \in T
  BY <1>1
<1>5. FlattenSeq(<<s[n]>> \o SubSeq(s, n + 1, L)) = s[n] \o FlattenSeq(SubSeq(s, n + 1, L))
  BY <1>2, <1>4, JoinCons, Zenon
<1> QED
  BY <1>2, <1>3, <1>4, <1>5, Zenon

Occurs(s, pair) == \E k \in 1..Len(s) - 1 : PairAt(s, k) = pair

LEMMA MergeAllFacts ==
  ASSUME NEW s \in Seq(Piece), NEW pair
  PROVE  /\ merge_all(s, pair) \in Seq(Piece)
         /\ FlattenSeq(merge_all(s, pair)) = FlattenSeq(s)
         /\ Occurs(s, pair) => Len(merge_all(s, pair)) < Len(s)
         /\ \A i \in 1..Len(merge_all(s, pair)) :
              \/ \E k \in 1..Len(s) : merge_all(s, pair)[i] = s[k]
              \/ merge_all(s, pair)[i] = pair[1] \o pair[2]
<1> DEFINE f == Merged(s, pair)
           L == Len(s)
           rest(n) == SubSeq(s, n, L)
           joined == pair[1] \o pair[2]
           Known(x) == (\E k \in 1..L : x = s[k]) \/ x = joined
<1>1. L \in Nat /\ \A n \in 1..L : s[n] \in Piece
  BY LenProperties, ElementOfSeq
<1>2. /\ merge_all(s, pair) = f[1]
      /\ \A n \in 1..L + 1 : f[n] = MergeStep(s, pair, n, f) /\ f[n] \in Seq(Piece)
  BY MergedSteps, Zenon
<1>3. \A n \in 1..L + 1 : n <= L =>
        /\ rest(n + 1) \in Seq(Piece)
        /\ FlattenSeq(rest(n)) = s[n] \o FlattenSeq(rest(n + 1))
  <2> SUFFICES ASSUME NEW n \in 1..L + 1, n <= L
               PROVE  /\ rest(n + 1) \in Seq(Piece)
                      /\ FlattenSeq(rest(n)) = s[n] \o FlattenSeq(rest(n + 1))
    OBVIOUS
  <2>1. n \in 1..L
    BY <1>1
  <2> QED
    BY <2>1, JoinRest, Zenon DEF Piece
<1>4. \A x \in Piece, t \in Seq(Piece) :
        /\ <<x>> \o t \in Seq(Piece) /\ Len(<<x>> \o t) = 1 + Len(t)
        /\ FlattenSeq(<<x>> \o t) = x \o FlattenSeq(t)
  BY JoinCons, Zenon DEF Piece
<1>5. \A t \in Seq(Piece) : Len(t) \in Nat /\ FlattenSeq(t) \in Piece
  BY LenProperties, JoinType, Zenon DEF Piece
<1>6. AssociativeOn(Piece)
  BY Associative, Zenon DEF Piece
<1>7. \A x : \A t \in Seq(Piece) : Known(x) /\ x \in Piece /\ (\A i \in 1..Len(t) : Known(t[i])) =>
        \A i \in 1..Len(<<x>> \o t) : Known((<<x>> \o t)[i])
  <2> HIDE DEF Known
  <2> SUFFICES ASSUME NEW x, NEW t \in Seq(Piece), Known(x), x \in Piece,
                      \A i \in 1..Len(t) : Known(t[i]), NEW i \in 1..Len(<<x>> \o t)
               PROVE  Known((<<x>> \o t)[i])
    BY Zenon
  <2>1. Len(t) \in Nat /\ Len(<<x>> \o t) = 1 + Len(t)
    BY <1>4, <1>5
  <2>2. (<<x>> \o t)[i] = IF i = 1 THEN x ELSE t[i - 1]
    <3>1. <<x>> \in Seq(Piece) /\ Len(<<x>>) = 1 /\ <<x>>[1] = x
      BY Single
    <3>2. i \in 1..Len(<<x>>) + Len(t)
      BY <2>1, <3>1
    <3>3. (<<x>> \o t)[i] = IF i <= Len(<<x>>) THEN <<x>>[i] ELSE t[i - Len(<<x>>)]
      BY <3>1, <3>2, ConcatProperties, Zenon
    <3>4. i <= 1 <=> i = 1
      BY <2>1
    <3> QED
      BY <3>1, <3>3, <3>4
  <2>3. i # 1 => i - 1 \in 1..Len(t)
    BY <2>1
  <2> QED
    BY <2>2, <2>3
<1> HIDE DEF f, L, rest, joined
<1> DEFINE Good(n) == /\ FlattenSeq(f[n]) = FlattenSeq(rest(n))
                      /\ Len(f[n]) <= L + 1 - n
                      /\ (\E k \in n..L - 1 : PairAt(s, k) = pair) => Len(f[n]) < L + 1 - n
                      /\ \A i \in 1..Len(f[n]) : Known(f[n][i])
           G == {n \in 1..L + 1 : Good(n)}
<1>8. ASSUME NEW n \in 1..L + 1, \A x \in n + 1..L + 1 : x \in G
      PROVE  Good(n)
  <2>1. n \in Nat /\ n <= L + 1 /\ f[n] = MergeStep(s, pair, n, f)
    BY <1>1, <1>2
  <2>2. CASE n > L
    <3>1. f[n] = <<>> /\ Len(<<>>) = 0
      BY <2>1, <2>2, EmptySeq DEF MergeStep, L
    <3>2. rest(n) = <<>>
      BY <1>1, <2>1, <2>2, SubSeqEmpty DEF rest
    <3> HIDE DEF Known
    <3> QED
      BY <1>1, <2>1, <2>2, <3>1, <3>2
  <2>3. CASE ~(n > L) /\ ~(n < L /\ PairAt(s, n) = pair)
    <3>1. n \in 1..L /\ n + 1 \in n + 1..L + 1 /\ n + 1 \in 1..L + 1
      BY <1>1, <2>1, <2>3
    <3>2. f[n] = <<s[n]>> \o f[n + 1]
      BY <2>1, <2>3, Zenon DEF MergeStep, L
    <3>3. Good(n + 1) /\ f[n + 1] \in Seq(Piece) /\ s[n] \in Piece
      <4>1. n + 1 \in G
        BY <1>8, <3>1
      <4> HIDE DEF Good
      <4> QED
        BY <1>1, <1>2, <3>1, <4>1
    <3>4. FlattenSeq(f[n]) = FlattenSeq(rest(n))
      <4>1. FlattenSeq(rest(n)) = s[n] \o FlattenSeq(rest(n + 1))
        <5>1. n <= L
          BY <1>1, <2>1, <2>3
        <5> QED
          BY <1>3, <3>1, <5>1, Zenon
      <4> QED
        BY <1>4, <3>2, <3>3, <4>1, Zenon
    <3>5. Len(f[n]) = 1 + Len(f[n + 1]) /\ Len(f[n + 1]) \in Nat
      <4>1. f[n + 1] \in Seq(Piece)
        BY <3>3, Zenon
      <4>2. Len(<<s[n]>> \o f[n + 1]) = 1 + Len(f[n + 1])
        BY <1>4, <3>3, <4>1, Zenon
      <4> QED
        BY <1>5, <3>2, <4>1, <4>2, Zenon
    <3>6. \A i \in 1..Len(f[n]) : Known(f[n][i])
      <4>1. Known(s[n])
        BY <3>1
      <4> HIDE DEF Known
      <4> QED
        BY <1>7, <3>2, <3>3, <4>1, Zenon
    <3>7. (\E k \in n..L - 1 : PairAt(s, k) = pair) => Len(f[n]) < L + 1 - n
      <4> SUFFICES ASSUME NEW k \in n..L - 1, PairAt(s, k) = pair
                   PROVE  Len(f[n]) < L + 1 - n
        OBVIOUS
      <4>1. k # n
        BY <1>1, <2>1, <2>3
      <4>2. k \in n + 1..L - 1
        BY <1>1, <2>1, <4>1
      <4>3. Len(f[n + 1]) < L + 1 - (n + 1)
        BY <3>3, <4>2
      <4> QED
        BY <1>1, <2>1, <3>5, <4>3
    <3>8. Len(f[n]) <= L + 1 - n
      <4>1. Len(f[n + 1]) <= L + 1 - (n + 1)
        BY <3>3
      <4> QED
        BY <1>1, <2>1, <3>5, <4>1
    <3> HIDE DEF Known
    <3> QED
      BY <3>4, <3>6, <3>7, <3>8, Zenon
  <2>4. CASE n < L /\ PairAt(s, n) = pair
    <3>1. n \in 1..L /\ n + 1 \in 1..L /\ n + 2 \in n + 1..L + 1 /\ n + 2 \in 1..L + 1 /\ ~(n > L)
          /\ n + 1 \in 1..L + 1 /\ (n + 1) + 1 = n + 2
      BY <1>1, <2>1, <2>4
    <3>2. f[n] = <<s[n] \o s[n + 1]>> \o f[n + 2]
      BY <2>1, <2>4, <3>1, Zenon DEF MergeStep, L
    <3>3. Good(n + 2) /\ f[n + 2] \in Seq(Piece) /\ s[n] \in Piece /\ s[n + 1] \in Piece
          /\ s[n] \o s[n + 1] \in Piece
      <4>1. n + 2 \in G
        BY <1>8, <3>1
      <4> HIDE DEF Good
      <4> QED
        BY <1>1, <1>2, <3>1, <4>1, PieceFacts
    <3>4. FlattenSeq(f[n]) = FlattenSeq(rest(n))
      <4>1. FlattenSeq(rest(n)) = s[n] \o FlattenSeq(rest(n + 1))
            /\ rest(n + 2) \in Seq(Piece)
            /\ FlattenSeq(rest(n + 1)) = s[n + 1] \o FlattenSeq(rest(n + 2))
        <5>1. n <= L /\ n + 1 <= L
          BY <1>1, <2>1, <2>4
        <5> QED
          BY <1>3, <3>1, <5>1
      <4>2. FlattenSeq(f[n]) = (s[n] \o s[n + 1]) \o FlattenSeq(rest(n + 2))
        BY <1>4, <3>2, <3>3, Zenon
      <4>3. (s[n] \o s[n + 1]) \o FlattenSeq(rest(n + 2)) = s[n] \o (s[n + 1] \o FlattenSeq(rest(n + 2)))
        <5>1. FlattenSeq(rest(n + 2)) \in Piece
          BY <1>5, <4>1
        <5> QED
          BY <1>6, <3>3, <5>1 DEF AssociativeOn
      <4> QED
        BY <4>1, <4>2, <4>3
    <3>5. Len(f[n]) = 1 + Len(f[n + 2]) /\ Len(f[n + 2]) \in Nat
      <4>1. f[n + 2] \in Seq(Piece)
        BY <3>3, Zenon
      <4>2. Len(<<s[n] \o s[n + 1]>> \o f[n + 2]) = 1 + Len(f[n + 2])
        BY <1>4, <3>3, <4>1, Zenon
      <4> QED
        BY <1>5, <3>2, <4>1, <4>2, Zenon
    <3>6. \A i \in 1..Len(f[n]) : Known(f[n][i])
      <4>1. s[n] \o s[n + 1] = joined
        BY <2>4 DEF PairAt, joined
      <4>2. Known(s[n] \o s[n + 1])
        BY <4>1
      <4> HIDE DEF Known
      <4> QED
        BY <1>7, <3>2, <3>3, <4>2, Zenon
    <3>7. Len(f[n]) < L + 1 - n
      <4>1. Len(f[n + 2]) <= L + 1 - (n + 2)
        BY <3>3
      <4> QED
        BY <1>1, <2>1, <3>5, <4>1
    <3>8. Len(f[n]) <= L + 1 - n
      BY <1>1, <2>1, <3>5, <3>7
    <3> HIDE DEF Known
    <3> QED
      BY <3>4, <3>6, <3>7, <3>8, Zenon
  <2> QED
    BY <1>1, <2>1, <2>2, <2>3, <2>4
<1> HIDE DEF Good
<1>9. 1..L + 1 \subseteq G
  <2>1. L + 1 \in Nat
    BY <1>1
  <2>2. \A n \in 1..L + 1 : (\A x \in n + 1..L + 1 : x \in G) => n \in G
    BY <1>8
  <2> HIDE DEF G
  <2> QED
    BY <2>1, <2>2, Downwards
<1>10. Good(1) /\ f[1] \in Seq(Piece) /\ rest(1) = s
  <2>1. 1 \in 1..L + 1
    BY <1>1
  <2>2. 1 \in G
    BY <1>9, <2>1
  <2>3. rest(1) = s
    BY SubSeqFull DEF rest, L
  <2> QED
    BY <1>2, <2>1, <2>2, <2>3
<1>11. Occurs(s, pair) => Len(f[1]) < L
  <2>1. Occurs(s, pair) => Len(f[1]) < L + 1 - 1
    BY <1>10, Zenon DEF Occurs, Good, L
  <2> QED
    BY <1>1, <2>1
<1>12. \A i \in 1..Len(f[1]) : Known(f[1][i])
  BY <1>10, Zenon DEF Good
<1>13. FlattenSeq(f[1]) = FlattenSeq(s)
  BY <1>10, Zenon DEF Good
<1> HIDE DEF Known
<1> QED
  BY <1>2, <1>10, <1>11, <1>12, <1>13, Zenon DEF Known, L, joined

------------------------------------------------------------------------------
(* What was loaded, and what is found of it in the text                    *)

Entries == Range(json.added_tokens)

Loaded ==
  /\ json \in Jsons /\ json_valid(json)
  /\ pieces = Pieces(json) /\ token_ids = TokenIds(json) /\ merge_ranks = MergeRanks(json)
  /\ added_tokens \in longest_first(json.added_tokens)

LEMMA InputFacts ==
  ASSUME json \in Jsons
  PROVE  /\ json.vocab \in Seq(Entry) /\ json.added_tokens \in Seq(Entry)
         /\ json.merges \in Seq(Piece \X Piece)
         /\ \A e \in Range(json.vocab) \cup Entries : e \in Entry /\ e.content \in Piece
<1>1. json.vocab \in Seq(Entry) /\ json.added_tokens \in Seq(Entry)
      /\ json.merges \in Seq(Piece \X Piece)
  BY InputAssumption
<1>2. Range(json.vocab) \subseteq Entry /\ Entries \subseteq Entry
  BY <1>1, RangeOfSeq DEF Entries
<1>3. \A e \in Entry : e.content \in Piece
  BY DEF Entry
<1> QED
  BY <1>1, <1>2, <1>3

LEMMA AddedFacts ==
  ASSUME Loaded
  PROVE  /\ DOMAIN added_tokens = 1..Len(json.added_tokens)
         /\ \A n \in DOMAIN added_tokens : added_tokens[n] \in Entries
         /\ \A e \in Entries : \E n \in DOMAIN added_tokens : added_tokens[n] = e
         /\ \A m, n \in DOMAIN added_tokens :
              m < n => Len(added_tokens[m].content) >= Len(added_tokens[n].content)
<1> DEFINE tokens == json.added_tokens
           D == DOMAIN tokens
<1>1. tokens \in Seq(Entry)
  BY InputFacts DEF Loaded
<1>2. D = 1..Len(tokens)
  BY <1>1, LenProperties
<1>3. PICK p \in Bijection(D, D) : added_tokens = [n \in D |-> tokens[p[n]]]
  BY Zenon DEF Loaded, longest_first
<1>4. \A m, n \in D : m < n => Len(added_tokens[m].content) >= Len(added_tokens[n].content)
  BY Zenon DEF Loaded, longest_first
<1> HIDE DEF D, tokens
<1>5. p \in [D -> D] /\ \A t \in D : \E s \in D : p[s] = t
  BY DEF Bijection, Surjection
<1>6. DOMAIN added_tokens = D /\ \A n \in D : added_tokens[n] = tokens[p[n]]
  BY <1>3
<1>7. Entries = {tokens[n] : n \in D}
  BY DEF Entries, Range, D, tokens
<1>8. \A n \in D : added_tokens[n] \in Entries
  BY <1>5, <1>6, <1>7
<1>9. \A e \in Entries : \E n \in D : added_tokens[n] = e
  <2> SUFFICES ASSUME NEW e \in Entries PROVE \E n \in D : added_tokens[n] = e
    OBVIOUS
  <2>1. PICK t \in D : e = tokens[t]
    BY <1>7
  <2>2. PICK s \in D : p[s] = t
    BY <1>5, <2>1
  <2> QED
    BY <1>6, <2>1, <2>2
<1>10. D = 1..Len(json.added_tokens)
  BY <1>2 DEF tokens
<1> QED
  BY <1>4, <1>6, <1>8, <1>9, <1>10, Zenon

LEMMA FoundFacts ==
  ASSUME text \in Seq(Byte), cursor \in Nat, cursor <= Len(text) + 1, NEW content
  PROVE  /\ Found(content) \in cursor..Len(text) + 1
         /\ Found(content) <= Len(text) => Matches(content, Found(content))
         /\ \A n \in cursor..Len(text) : Matches(content, n) => Found(content) <= n
<1> DEFINE T == {n \in cursor..Len(text) : Matches(content, n)} \cup {Len(text) + 1}
<1>1. Len(text) \in Nat
  BY LenProperties
<1>2. T \subseteq Nat /\ T # {} /\ T \subseteq cursor..Len(text) + 1
  BY <1>1
<1>3. Found(content) = Min(T)
  BY Zenon DEF Found
<1>4. \A n \in T : n <= Len(text) => Matches(content, n)
  BY <1>1
<1>5. \A n \in cursor..Len(text) : Matches(content, n) => n \in T
  OBVIOUS
<1> HIDE DEF T
<1>6. Min(T) \in T /\ \A y \in T : Min(T) <= y
  BY <1>2, MinOf
<1> QED
  BY <1>2, <1>3, <1>4, <1>5, <1>6

(* The added token that ends a segment: found first, and the longest of    *)
(* those found there.                                                      *)
EndsSegment(t) ==
  /\ t \in Entries /\ Found(t.content) <= Len(text)
  /\ \A e \in Entries : /\ Found(t.content) <= Found(e.content)
                        /\ Found(t.content) = Found(e.content) => Len(e.content) <= Len(t.content)

LEMMA FirstSpecialFacts ==
  ASSUME Loaded, text \in Seq(Byte), cursor \in Nat, cursor <= Len(text) + 1
  PROVE  \/ FirstSpecial = <<>> /\ \A e \in Entries : Found(e.content) > Len(text)
         \/ \E t : FirstSpecial = <<t>> /\ EndsSegment(t)
<1> DEFINE A == added_tokens
           D == DOMAIN A
           F(n) == Found(A[n].content)
           best == {n \in D : F(n) <= Len(text) /\ \A m \in D : F(n) <= F(m)}
<1>1. FirstSpecial = IF best = {} THEN <<>> ELSE <<A[Min(best)]>>
  BY Zenon DEF FirstSpecial
<1>2. D \subseteq Nat
  <2>1. DOMAIN added_tokens = 1..Len(json.added_tokens) /\ json.added_tokens \in Seq(Entry)
    BY AddedFacts, InputFacts DEF Loaded
  <2>2. Len(json.added_tokens) \in Nat
    BY <2>1, LenProperties
  <2> QED
    BY <2>1, <2>2
<1>3. /\ \A n \in D : A[n] \in Entries
      /\ \A e \in Entries : \E n \in D : A[n] = e
      /\ \A m, n \in D : m < n => Len(A[m].content) >= Len(A[n].content)
  BY AddedFacts
<1>4. \A e : Found(e) \in cursor..Len(text) + 1
  BY FoundFacts
<1>5. Len(text) \in Nat /\ \A n \in D : F(n) \in Nat
  BY <1>4, LenProperties
<1>6. CASE best = {}
  <2>1. \A n \in D : F(n) > Len(text)
    <3> SUFFICES ASSUME NEW k \in D, ~(F(k) > Len(text)) PROVE FALSE
      OBVIOUS
    <3> DEFINE T == {F(n) : n \in D}
    <3>1. T \subseteq Nat /\ T # {}
      <4> HIDE DEF D, F, best
      <4> QED
        BY <1>5
    <3>2. PICK x \in T : \A y \in T : x <= y
      BY <3>1, LeastOf, Zenon
    <3>3. PICK n \in D : x = F(n)
      BY <3>2
    <3>4. \A m \in D : F(n) <= F(m)
      BY <3>2, <3>3
    <3> HIDE DEF T
    <3>5. F(n) <= F(k) /\ F(k) \in Nat /\ F(n) \in Nat
      BY <1>5, <3>3, <3>4
    <3> HIDE DEF F
    <3>6. F(n) <= Len(text)
      BY <1>5, <3>5
    <3>7. n \in best
      BY <3>3, <3>4, <3>6
    <3> QED
      BY <1>6, <3>7
  <2>2. \A e \in Entries : Found(e.content) > Len(text)
    BY <1>3, <2>1
  <2> QED
    BY <1>1, <1>6, <2>2, Zenon
<1>7. CASE best # {}
  <2> DEFINE n == Min(best)
  <2>1. best \subseteq Nat
    BY <1>2
  <2>2. n \in best /\ \A y \in best : n <= y
    BY <1>7, <2>1, MinOf
  <2>3. n \in D /\ F(n) <= Len(text) /\ \A m \in D : F(n) <= F(m)
    BY <2>2
  <2>4. \A m \in D : F(n) = F(m) => Len(A[m].content) <= Len(A[n].content)
    <3> SUFFICES ASSUME NEW m \in D, F(n) = F(m) PROVE Len(A[m].content) <= Len(A[n].content)
      OBVIOUS
    <3>1. m \in best
      BY <2>3
    <3>2. n <= m /\ n \in Nat /\ m \in Nat
      BY <1>2, <2>2, <2>3, <3>1
    <3>3. Len(A[m].content) \in Nat
      <4>1. A[m].content \in Piece
        BY <1>3, InputFacts DEF Loaded
      <4> QED
        BY <4>1, PieceFacts
    <3> HIDE DEF n, best, D
    <3>4. n < m \/ n = m
      BY <3>2
    <3>5. n < m => Len(A[n].content) >= Len(A[m].content)
      BY <1>3, <2>3
    <3>6. Len(A[n].content) \in Nat
      <4>1. A[n].content \in Piece
        BY <1>3, <2>3, InputFacts DEF Loaded
      <4> QED
        BY <4>1, PieceFacts
    <3> QED
      BY <3>3, <3>4, <3>5, <3>6
  <2> HIDE DEF n, best, D
  <2>5. EndsSegment(A[n])
    BY <1>3, <2>3, <2>4 DEF EndsSegment
  <2>6. FirstSpecial = <<A[n]>>
    BY <1>1, <1>7, Zenon DEF n
  <2> QED
    BY <2>5, <2>6
<1> QED
  BY <1>6, <1>7

LEMMA BestPairFacts ==
  ASSUME MergesLoaded, NEW s \in Seq(Piece), RankedPairs(s) # {}
  PROVE  /\ BestPair(s) \in DOMAIN merge_ranks /\ Occurs(s, BestPair(s))
         /\ \A other \in RankedPairs(s) : merge_ranks[BestPair(s)] <= merge_ranks[other]
<1>1. RankedPairs(s) \subseteq DOMAIN merge_ranks
  BY DEF RankedPairs
<1> DEFINE R == RankedPairs(s)
           T == {merge_ranks[pair] : pair \in R}
<1>2. \A pair \in R : merge_ranks[pair] \in Nat
  BY <1>1, RankFacts
<1>3. T \subseteq Nat /\ T # {}
  <2> HIDE DEF R
  <2>1. T \subseteq Nat
    BY <1>2, Zenon
  <2>2. \E pair \in R : merge_ranks[pair] \in T
    BY Zenon DEF R
  <2> QED
    BY <2>1, <2>2
<1>4. PICK x \in T : \A y \in T : x <= y
  BY <1>3, LeastOf, Zenon
<1>5. \E pair \in R : \A other \in R : merge_ranks[pair] <= merge_ranks[other]
  <2> HIDE DEF R
  <2> QED
    BY <1>4
<1>6. BestPair(s) \in R /\ \A other \in R : merge_ranks[BestPair(s)] <= merge_ranks[other]
  BY <1>5, Zenon DEF BestPair
<1>7. Occurs(s, BestPair(s))
  BY <1>6, Zenon DEF RankedPairs, Occurs
<1> QED
  BY <1>1, <1>6, <1>7

------------------------------------------------------------------------------
(* The inductive invariant: the types, what is loaded where, and that in   *)
(* a segment the added token that ends it has been found.                  *)

Labels == {"json", "scan", "segment", "merge", "emit", "returned"}
Inside == {"segment", "merge", "emit"}

IInv ==
  /\ json \in Jsons /\ text \in Texts /\ pc \in Labels
  /\ pc \in {"json", "scan"} \cup Inside => result = "none"
  /\ pc \in {"scan"} \cup Inside => Loaded
  /\ pc = "json" => cursor = 1 /\ output = <<>>
  /\ pc = "scan" => cursor <= Len(text) + 1
  /\ pc = "returned" => \/ result = "corrupt" /\ ~json_valid(json)
                        \/ result \in {"ok", "corrupt"} /\ Loaded
  /\ cursor \in Nat \ {0}
  /\ pc \in Inside => cursor <= Len(text) /\ special = FirstSpecial
  /\ pc \in {"merge", "emit"} => pretokens # <<>>
  /\ pretokens \in Seq(Seq(Byte)) /\ symbols \in Seq(Piece)

LEMMA TextType ==
  ASSUME text \in Texts
  PROVE  text \in Seq(Byte) /\ Len(text) \in Nat
<1>1. text \in Seq(Byte)
  BY InputAssumption
<1> QED
  BY <1>1, LenProperties

(* A stretch of the text *)
LEMMA Stretch ==
  ASSUME text \in Texts, NEW m \in Nat \ {0}, NEW n \in Int, n <= Len(text)
  PROVE  SubSeq(text, m, n) \in Seq(Byte)
<1>1. text \in Seq(Byte) /\ Len(text) \in Nat
  BY TextType
<1>2. \A i \in m..n : text[i] \in Byte
  BY <1>1, ElementOfSeq
<1> QED
  BY <1>2, SubSeqProperties

LEMMA EncoderType ==
  ASSUME NEW bytes \in Seq(Byte)
  PROVE  [n \in DOMAIN bytes |-> <<byte_encoder(bytes[n])>>] \in Seq(Piece)
<1>1. Len(bytes) \in Nat /\ DOMAIN bytes = 1..Len(bytes)
  BY LenProperties
<1>2. \A n \in 1..Len(bytes) : <<byte_encoder(bytes[n])>> \in Piece
  <2> SUFFICES ASSUME NEW n \in 1..Len(bytes) PROVE <<byte_encoder(bytes[n])>> \in Piece
    OBVIOUS
  <2>1. byte_encoder(bytes[n]) \in Nat
    BY ElementOfSeq, EncoderFacts
  <2> QED
    BY <2>1, Single, Zenon DEF Piece
<1> HIDE DEF Piece
<1>3. [n \in 1..Len(bytes) |-> <<byte_encoder(bytes[n])>>] \in Seq(Piece)
  BY <1>1, <1>2
<1> QED
  BY <1>1, <1>3

(* Nothing but from_json changes what is loaded.                           *)
Kept == UNCHANGED <<json, text, tokenizerVars>>

LEMMA KeptFacts ==
  ASSUME Kept
  PROVE  /\ Loaded => Loaded'
         /\ json_valid(json)' = json_valid(json)
         /\ \A content : cursor' = cursor => Found(content)' = Found(content)
         /\ cursor' = cursor => FirstSpecial' = FirstSpecial
<1>1. json' = json /\ text' = text /\ pieces' = pieces /\ token_ids' = token_ids
      /\ merge_ranks' = merge_ranks /\ added_tokens' = added_tokens
  BY DEF Kept, tokenizerVars
<1>2. Loaded => Loaded'
  BY <1>1, Zenon DEF Loaded
<1>3. \A content, n : Matches(content, n)' = Matches(content, n)
  BY <1>1, Zenon DEF Matches
<1>4. ASSUME cursor' = cursor
      PROVE  \A content : Found(content)' = Found(content)
  BY <1>1, <1>4, Zenon DEF Found, Matches
<1>5. ASSUME cursor' = cursor
      PROVE  FirstSpecial' = FirstSpecial
  <2> DEFINE best == {n \in DOMAIN added_tokens :
                        /\ Found(added_tokens[n].content) <= Len(text)
                        /\ \A m \in DOMAIN added_tokens :
                             Found(added_tokens[n].content) <= Found(added_tokens[m].content)}
  <2>1. FirstSpecial = IF best = {} THEN <<>> ELSE <<added_tokens[Min(best)]>>
    BY Zenon DEF FirstSpecial
  <2>2. FirstSpecial' = IF best' = {} THEN <<>> ELSE <<added_tokens'[Min(best')]>>
    BY Zenon DEF FirstSpecial
  <2>3. \A content : Found(content)' = Found(content)
    BY <1>4, <1>5
  <2>4. best' = best
    BY <1>1, <2>3
  <2> HIDE DEF best
  <2> QED
    BY <1>1, <2>1, <2>2, <2>4, Zenon
<1> QED
  BY <1>1, <1>2, <1>4, <1>5

LEMMA InitIInv == Init => IInv
<1> SUFFICES ASSUME Init PROVE IInv
  OBVIOUS
<1>1. <<>> \in Seq(Seq(Byte)) /\ <<>> \in Seq(Piece)
  BY EmptySeq
<1> QED
  BY <1>1 DEF Init, IInv, Labels, Inside

LEMMA ScanIInv == IInv /\ Scan => IInv'
<1> SUFFICES ASSUME IInv, Scan PROVE IInv'
  OBVIOUS
<1>1. /\ Kept /\ cursor' = cursor /\ symbols' = symbols /\ output' = output
      /\ json' = json /\ text' = text
  BY DEF Scan, Kept, tokenizerVars
<1>2. pc = "scan" /\ Loaded /\ result = "none" /\ text \in Texts /\ cursor \in Nat \ {0}
  BY DEF IInv, Scan, Inside
<1>3. text \in Seq(Byte) /\ Len(text) \in Nat
  BY <1>2, TextType
<1>4. Loaded' /\ FirstSpecial' = FirstSpecial
  BY <1>1, <1>2, KeptFacts
<1>5. CASE cursor > Len(text)
  BY <1>1, <1>2, <1>4, <1>5 DEF IInv, Scan, Return, Labels, Inside
<1>6. CASE ~(cursor > Len(text))
  <2> DEFINE end == IF FirstSpecial = <<>> THEN Len(text) ELSE Found(FirstSpecial[1].content) - 1
  <2>1. end \in Int /\ end <= Len(text)
    <3>1. \A c : Found(c) \in cursor..Len(text) + 1
      BY <1>2, <1>3, <1>6, FoundFacts
    <3>2. \A c : Found(c) - 1 \in Int /\ Found(c) - 1 <= Len(text)
      <4> SUFFICES ASSUME NEW c PROVE Found(c) - 1 \in Int /\ Found(c) - 1 <= Len(text)
        OBVIOUS
      <4>1. Found(c) \in cursor..Len(text) + 1
        BY <3>1
      <4> QED
        BY <1>2, <1>3, <4>1
    <3> QED
      BY <1>3, <3>2
  <2>2. pretokens' = Pretokens(SubSeq(text, cursor, end)) /\ special' = FirstSpecial
        /\ pc' = "segment" /\ result' = result
    BY <1>6, Zenon DEF Scan, Goto
  <2> HIDE DEF end
  <2>3. SubSeq(text, cursor, end) \in Seq(Byte)
    BY <1>2, <2>1, Stretch
  <2>4. pretokens' \in Seq(Seq(Byte))
    BY <2>2, <2>3, PretokensFacts
  <2>5. cursor <= Len(text)
    BY <1>2, <1>3, <1>6
  <2> QED
    BY <1>1, <1>2, <1>4, <2>2, <2>4, <2>5 DEF IInv, Labels, Inside
<1> QED
  BY <1>5, <1>6

LEMMA PretokenIInv == IInv /\ Pretoken => IInv'
<1> SUFFICES ASSUME IInv, Pretoken PROVE IInv'
  OBVIOUS
<1>1. /\ Kept /\ cursor' = cursor /\ pretokens' = pretokens /\ output' = output
      /\ special' = special /\ result' = result /\ json' = json /\ text' = text
      /\ pc = "segment" /\ pc' = "merge" /\ pretokens # <<>>
      /\ symbols' = [n \in DOMAIN Head(pretokens) |-> <<byte_encoder(Head(pretokens)[n])>>]
  BY DEF Pretoken, Kept, Goto, tokenizerVars
<1>2. Loaded' /\ FirstSpecial' = FirstSpecial
  BY <1>1, KeptFacts DEF IInv, Inside
<1>3. Head(pretokens) \in Seq(Byte)
  BY <1>1, HeadTailProperties DEF IInv
<1>4. symbols' \in Seq(Piece)
  BY <1>1, <1>3, EncoderType
<1> QED
  BY <1>1, <1>2, <1>4 DEF IInv, Labels, Inside

(* A pass is over symbols of the pretoken, and makes them fewer.           *)
LEMMA MergePassFacts ==
  ASSUME IInv, MergePass
  PROVE  /\ pc = "merge" /\ symbols' \in Seq(Piece) /\ FlattenSeq(symbols') = FlattenSeq(symbols)
         /\ \/ pc' = "emit" /\ symbols' = symbols
            \/ pc' = "merge" /\ Len(symbols') < Len(symbols)
<1>1. pc = "merge" /\ symbols \in Seq(Piece) /\ MergesLoaded
  BY DEF MergePass, IInv, Inside, Loaded, MergesLoaded
<1>2. CASE Len(symbols) > 1 /\ RankedPairs(symbols) # {}
  <2>1. symbols' = merge_all(symbols, BestPair(symbols)) /\ pc' = pc
    BY <1>2 DEF MergePass
  <2>2. Occurs(symbols, BestPair(symbols))
    BY <1>1, <1>2, BestPairFacts
  <2>3. symbols' \in Seq(Piece) /\ FlattenSeq(symbols') = FlattenSeq(symbols)
        /\ Len(symbols') < Len(symbols)
    BY <1>1, <2>1, <2>2, MergeAllFacts
  <2> QED
    BY <1>1, <2>1, <2>3
<1>3. CASE ~(Len(symbols) > 1 /\ RankedPairs(symbols) # {})
  BY <1>1, <1>3, Zenon DEF MergePass, Goto
<1> QED
  BY <1>2, <1>3

LEMMA MergePassIInv == IInv /\ MergePass => IInv'
<1> SUFFICES ASSUME IInv, MergePass PROVE IInv'
  OBVIOUS
<1>1. /\ Kept /\ cursor' = cursor /\ pretokens' = pretokens /\ output' = output
      /\ special' = special /\ result' = result /\ json' = json /\ text' = text
  BY DEF MergePass, Kept, tokenizerVars
<1>2. pc = "merge" /\ symbols' \in Seq(Piece) /\ pc' \in {"merge", "emit"}
  BY MergePassFacts
<1>3. Loaded' /\ FirstSpecial' = FirstSpecial
  BY <1>1, <1>2, KeptFacts DEF IInv, Inside
<1> QED
  BY <1>1, <1>2, <1>3 DEF IInv, Labels, Inside

LEMMA EmitIInv == IInv /\ Emit => IInv'
<1> SUFFICES ASSUME IInv, Emit PROVE IInv'
  OBVIOUS
<1>1. /\ Kept /\ cursor' = cursor /\ symbols' = symbols
      /\ special' = special /\ json' = json /\ text' = text /\ pc = "emit"
  BY DEF Emit, Kept, tokenizerVars
<1>2. Loaded' /\ FirstSpecial' = FirstSpecial
  BY <1>1, KeptFacts DEF IInv, Inside
<1>3. CASE Range(symbols) \subseteq DOMAIN token_ids
  <2>1. pretokens' = Tail(pretokens) /\ pc' = "segment" /\ result' = result
    BY <1>3, Zenon DEF Emit, Goto
  <2>2. pretokens' \in Seq(Seq(Byte))
    BY <1>1, <2>1, HeadTailProperties DEF IInv
  <2> QED
    BY <1>1, <1>2, <2>1, <2>2 DEF IInv, Labels, Inside
<1>4. CASE ~(Range(symbols) \subseteq DOMAIN token_ids)
  <2>1. pretokens' = pretokens /\ pc' = "returned" /\ result' = "corrupt"
    BY <1>4, Zenon DEF Emit, Return
  <2> QED
    BY <1>1, <1>2, <2>1 DEF IInv, Labels, Inside
<1> QED
  BY <1>3, <1>4

(* Behind an added token the cursor is further on.                         *)
LEMMA SpecialEnds ==
  ASSUME IInv, pc \in Inside, special # <<>>
  PROVE  /\ special = <<special[1]>> /\ EndsSegment(special[1])
         /\ Found(special[1].content) \in cursor..Len(text)
         /\ special[1].content \in Piece /\ Len(special[1].content) \in Nat
         /\ Found(special[1].content) + Len(special[1].content) <= Len(text) + 1
<1>1. /\ Loaded /\ text \in Seq(Byte) /\ Len(text) \in Nat /\ cursor \in Nat
      /\ cursor <= Len(text) /\ cursor <= Len(text) + 1 /\ special = FirstSpecial
  BY TextType DEF IInv, Inside
<1>2. PICK t : special = <<t>> /\ EndsSegment(t)
  BY <1>1, FirstSpecialFacts
<1>3. special[1] = t
  BY <1>2
<1>4. Found(t.content) \in cursor..Len(text) + 1 /\ Found(t.content) <= Len(text)
      /\ Matches(t.content, Found(t.content))
  BY <1>1, <1>2, FoundFacts DEF EndsSegment
<1>5. t.content \in Piece
  BY <1>1, <1>2, InputFacts DEF EndsSegment, Loaded
<1>6. Len(t.content) \in Nat
  BY <1>5, PieceFacts
<1>7. Found(t.content) \in cursor..Len(text)
  BY <1>1, <1>4
<1>8. Found(t.content) + Len(t.content) <= Len(text) + 1
  <2>1. Found(t.content) + Len(t.content) - 1 <= Len(text)
    BY <1>4 DEF Matches
  <2> QED
    BY <1>1, <1>6, <1>7, <2>1
<1> QED
  BY <1>2, <1>3, <1>5, <1>6, <1>7, <1>8

LEMMA SegmentEndsIInv == IInv /\ SegmentEnds => IInv'
<1> SUFFICES ASSUME IInv, SegmentEnds PROVE IInv'
  OBVIOUS
<1>1. /\ Kept /\ symbols' = symbols /\ pretokens' = pretokens
      /\ special' = special /\ json' = json /\ text' = text /\ pc = "segment"
  BY DEF SegmentEnds, Kept, tokenizerVars
<1>2. Loaded'
  BY <1>1, KeptFacts DEF IInv, Inside
<1>3. CASE special = <<>>
  <2>1. cursor' = cursor /\ pc' = "returned" /\ result' = "ok"
    BY <1>3, Zenon DEF SegmentEnds, Return
  <2> QED
    BY <1>1, <1>2, <2>1 DEF IInv, Labels, Inside
<1>4. CASE special # <<>>
  <2>1. cursor' = Found(special[1].content) + Len(special[1].content)
        /\ pc' = "scan" /\ result' = result
    BY <1>4, Zenon DEF SegmentEnds, Goto
  <2>2. /\ Found(special[1].content) \in cursor..Len(text) /\ Len(special[1].content) \in Nat
        /\ Found(special[1].content) + Len(special[1].content) <= Len(text) + 1
    BY <1>1, <1>4, SpecialEnds DEF Inside
  <2>3. cursor \in Nat \ {0}
    BY DEF IInv
  <2>4. cursor' \in Nat \ {0}
    BY <2>1, <2>2, <2>3
  <2>5. cursor' <= Len(text') + 1
    BY <1>1, <2>1, <2>2
  <2> QED
    BY <1>1, <1>2, <2>1, <2>4, <2>5 DEF IInv, Labels, Inside
<1> QED
  BY <1>3, <1>4

LEMMA LoadIInv == IInv /\ from_json => IInv'
<1> SUFFICES ASSUME IInv, from_json PROVE IInv'
  OBVIOUS
<1>1. /\ cursor' = cursor /\ symbols' = symbols /\ pretokens' = pretokens /\ output' = output
      /\ special' = special /\ json' = json /\ text' = text /\ pc = "json"
  BY DEF from_json
<1>2. CASE json_valid(json)
  <2>1. /\ pieces' = Pieces(json) /\ token_ids' = TokenIds(json)
        /\ merge_ranks' = MergeRanks(json)
        /\ added_tokens' \in longest_first(json.added_tokens)
        /\ pc' = "scan" /\ result' = result
    BY <1>2, Zenon DEF from_json, Goto
  <2>2. Loaded'
    BY <1>1, <1>2, <2>1, Zenon DEF Loaded, IInv
  <2>3. cursor' <= Len(text') + 1
    BY <1>1, TextType DEF IInv
  <2> QED
    BY <1>1, <2>1, <2>2, <2>3 DEF IInv, Labels, Inside
<1>3. CASE ~json_valid(json)
  <2>1. pc' = "returned" /\ result' = "corrupt"
    BY <1>3, Zenon DEF from_json, Return
  <2>2. ~json_valid(json)'
    BY <1>1, <1>3, Zenon
  <2> QED
    BY <1>1, <2>1, <2>2 DEF IInv, Labels, Inside
<1> QED
  BY <1>2, <1>3

LEMMA StutterIInv == IInv /\ UNCHANGED vars => IInv'
<1> SUFFICES ASSUME IInv, UNCHANGED vars PROVE IInv'
  OBVIOUS
<1>1. /\ Kept /\ cursor' = cursor /\ symbols' = symbols /\ pretokens' = pretokens
      /\ special' = special /\ json' = json /\ text' = text /\ pc' = pc /\ result' = result
      /\ output' = output
  BY DEF vars, Kept
<1>2. FirstSpecial' = FirstSpecial /\ (Loaded => Loaded') /\ json_valid(json)' = json_valid(json)
  BY <1>1, KeptFacts
<1> QED
  BY <1>1, <1>2 DEF IInv, Labels, Inside

LEMMA NextIInv == IInv /\ [Next]_vars => IInv'
BY LoadIInv, ScanIInv, PretokenIInv, MergePassIInv, EmitIInv, SegmentEndsIInv, StutterIInv
   DEF Next

------------------------------------------------------------------------------
(* encode advances *)

Waiting(label) == CASE label = "segment" -> 2 [] label = "merge" -> 1 [] OTHER -> 0

LEMMA LeftIs ==
  /\ Left = <<Len(text) + 1 - cursor, IF pc = "scan" THEN 1 ELSE 0, Len(pretokens),
              Waiting(pc), Len(symbols)>>
  /\ Left' = <<Len(text') + 1 - cursor', IF pc' = "scan" THEN 1 ELSE 0, Len(pretokens'),
               Waiting(pc'), Len(symbols')>>
BY DEF Left, Waiting

LEMMA FirstSmaller ==
  ASSUME NEW a1, NEW a2, NEW a3, NEW a4, NEW a5, NEW b1, NEW b2, NEW b3, NEW b4, NEW b5,
         \/ a1 < b1
         \/ a1 = b1 /\ a2 < b2
         \/ a1 = b1 /\ a2 = b2 /\ a3 < b3
         \/ a1 = b1 /\ a2 = b2 /\ a3 = b3 /\ a4 < b4
         \/ a1 = b1 /\ a2 = b2 /\ a3 = b3 /\ a4 = b4 /\ a5 < b5
  PROVE  Smaller(<<a1, a2, a3, a4, a5>>, <<b1, b2, b3, b4, b5>>)
<1> DEFINE a == <<a1, a2, a3, a4, a5>>
           b == <<b1, b2, b3, b4, b5>>
<1>1. /\ DOMAIN a = 1..5 /\ a[1] = a1 /\ a[2] = a2 /\ a[3] = a3 /\ a[4] = a4 /\ a[5] = a5
      /\ b[1] = b1 /\ b[2] = b2 /\ b[3] = b3 /\ b[4] = b4 /\ b[5] = b5
  OBVIOUS
<1> HIDE DEF a, b
<1>2. \E i \in 1..5 : a[i] < b[i] /\ \A j \in 1..i - 1 : a[j] = b[j]
  <2>1. CASE a1 < b1
    BY <1>1, <2>1
  <2>2. CASE a1 = b1 /\ a2 < b2
    BY <1>1, <2>2
  <2>3. CASE a1 = b1 /\ a2 = b2 /\ a3 < b3
    BY <1>1, <2>3
  <2>4. CASE a1 = b1 /\ a2 = b2 /\ a3 = b3 /\ a4 < b4
    BY <1>1, <2>4
  <2>5. CASE a1 = b1 /\ a2 = b2 /\ a3 = b3 /\ a4 = b4 /\ a5 < b5
    BY <1>1, <2>5
  <2> QED
    BY <2>1, <2>2, <2>3, <2>4, <2>5
<1>3. Smaller(a, b)
  BY <1>1, <1>2 DEF Smaller
<1> QED
  BY <1>3 DEF a, b

NoEmptyAdded == \A t \in Range(json.added_tokens) : t.content # <<>>
Advances == (pc # "json" /\ NoEmptyAdded) => pc' = "returned" \/ Smaller(Left', Left)

LEMMA StepAdvances == IInv /\ Next => Advances
<1> SUFFICES ASSUME IInv, Next, pc # "json", NoEmptyAdded, pc' # "returned"
             PROVE  Smaller(Left', Left)
  BY DEF Advances
<1>0. text \in Texts /\ Len(text) \in Nat /\ cursor \in Nat
  BY TextType DEF IInv
<1> DEFINE a1 == Len(text') + 1 - cursor'
           a2 == IF pc' = "scan" THEN 1 ELSE 0
           a3 == Len(pretokens')
           a4 == Waiting(pc')
           a5 == Len(symbols')
           b1 == Len(text) + 1 - cursor
           b2 == IF pc = "scan" THEN 1 ELSE 0
           b3 == Len(pretokens)
           b4 == Waiting(pc)
           b5 == Len(symbols)
<1> SUFFICES \/ a1 < b1
             \/ a1 = b1 /\ a2 < b2
             \/ a1 = b1 /\ a2 = b2 /\ a3 < b3
             \/ a1 = b1 /\ a2 = b2 /\ a3 = b3 /\ a4 < b4
             \/ a1 = b1 /\ a2 = b2 /\ a3 = b3 /\ a4 = b4 /\ a5 < b5
  <2> HIDE DEF a1, a2, a3, a4, a5, b1, b2, b3, b4, b5
  <2>1. Left = <<b1, b2, b3, b4, b5>> /\ Left' = <<a1, a2, a3, a4, a5>>
    BY LeftIs, Zenon DEF a1, a2, a3, a4, a5, b1, b2, b3, b4, b5
  <2>2. Smaller(<<a1, a2, a3, a4, a5>>, <<b1, b2, b3, b4, b5>>)
    BY FirstSmaller, Zenon
  <2> QED
    BY <2>1, <2>2, Zenon
<1>1. CASE Scan
  <2>1. pc = "scan" /\ pc' = "segment" /\ text' = text /\ cursor' = cursor
    BY <1>1 DEF Scan, Return, Goto
  <2> QED
    BY <2>1
<1>2. CASE Pretoken
  <2>1. pc = "segment" /\ pc' = "merge" /\ text' = text /\ cursor' = cursor
        /\ pretokens' = pretokens
    BY <1>2 DEF Pretoken, Goto
  <2>2. a4 = 1 /\ b4 = 2
    BY <2>1 DEF Waiting
  <2> QED
    BY <2>1, <2>2
<1>3. CASE MergePass
  <2>1. pc = "merge" /\ text' = text /\ cursor' = cursor /\ pretokens' = pretokens
    BY <1>3 DEF MergePass
  <2>2. pc' = "emit" \/ (pc' = "merge" /\ Len(symbols') < Len(symbols))
    BY <1>3, MergePassFacts
  <2>3. Waiting("merge") = 1 /\ Waiting("emit") = 0
    BY DEF Waiting
  <2> QED
    BY <2>1, <2>2, <2>3
<1>4. CASE Emit
  <2>1. pc = "emit" /\ pc' = "segment" /\ text' = text /\ cursor' = cursor
        /\ pretokens' = Tail(pretokens)
    BY <1>4 DEF Emit, Return, Goto
  <2>2. pretokens \in Seq(Seq(Byte)) /\ pretokens # <<>>
    BY <2>1 DEF IInv
  <2>3. Len(pretokens') < Len(pretokens)
    <3>1. Len(pretokens) \in Nat
      BY <2>2, LenProperties
    <3>2. Len(Tail(pretokens)) = Len(pretokens) - 1
      BY <2>2, HeadTailProperties
    <3> QED
      BY <2>1, <3>1, <3>2
  <2> QED
    BY <2>1, <2>3
<1>5. CASE SegmentEnds
  <2>1. /\ pc = "segment" /\ special # <<>> /\ text' = text
        /\ cursor' = Found(special[1].content) + Len(special[1].content)
    BY <1>5 DEF SegmentEnds, Return
  <2>2. /\ EndsSegment(special[1]) /\ Found(special[1].content) \in cursor..Len(text)
        /\ special[1].content \in Piece
    BY <2>1, SpecialEnds DEF Inside
  <2>3. special[1].content # <<>>
    BY <2>2 DEF EndsSegment, Entries, NoEmptyAdded
  <2>4. Len(special[1].content) \in Nat /\ Len(special[1].content) > 0
    BY <2>2, <2>3, PieceFacts
  <2>5. cursor' > cursor /\ cursor' \in Int
    BY <1>0, <2>1, <2>2, <2>4
  <2>6. a1 < b1
    BY <1>0, <2>1, <2>5
  <2> QED
    BY <2>6
<1>6. CASE from_json
  BY <1>6 DEF from_json
<1> QED
  BY <1>1, <1>2, <1>3, <1>4, <1>5, <1>6 DEF Next

(* The invariant holds in every reachable state.                           *)
THEOREM Invariant == Spec => []IInv
<1>1. Init => IInv
  BY InitIInv
<1>2. IInv /\ [Next]_vars => IInv'
  BY NextIInv
<1> QED
  BY <1>1, <1>2, PTL DEF Spec

(* encode ends: each of its steps leaves less to do, in the order of the   *)
(* text, the pretokens and their symbols, as long as no added token is     *)
(* empty.  (tokenizer.cpp:285-353)                                         *)
THEOREM Advancing == Spec => EncodeAdvances
<1>1. Init => IInv
  BY InitIInv
<1>2. IInv /\ [Next]_vars => IInv'
  BY NextIInv
<1>3. IInv /\ [Next]_vars => [Advances]_vars
  BY StepAdvances
<1>4. [][Advances]_vars => EncodeAdvances
  <2>1. [Advances]_vars =>
          [(pc # "json" /\ \A t \in Range(json.added_tokens) : t.content # <<>>) =>
             pc' = "returned" \/ Smaller(Left', Left)]_vars
    BY Zenon DEF Advances, NoEmptyAdded
  <2> QED
    BY <2>1, PTL DEF EncodeAdvances
<1> QED
  BY <1>1, <1>2, <1>3, <1>4, PTL DEF Spec

------------------------------------------------------------------------------
(* Functions mapped over sequences                                         *)

IsMap(f, P, T) == f \in [P -> T]
FnMap(f, s) == [n \in DOMAIN s |-> f[s[n]]]
MapJoin(f, s) == FlattenSeq(FnMap(f, s))

LEMMA FnMapType ==
  ASSUME NEW P, NEW T, NEW f, IsMap(f, P, T), NEW s \in Seq(P)
  PROVE  /\ FnMap(f, s) \in Seq(T) /\ Len(FnMap(f, s)) = Len(s)
         /\ \A n \in 1..Len(s) : s[n] \in P /\ FnMap(f, s)[n] = f[s[n]]
<1>1. Len(s) \in Nat /\ DOMAIN s = 1..Len(s) /\ \A n \in 1..Len(s) : s[n] \in P
  BY LenProperties, ElementOfSeq
<1>2. \A n \in 1..Len(s) : f[s[n]] \in T
  BY <1>1 DEF IsMap
<1> DEFINE m == [n \in 1..Len(s) |-> f[s[n]]]
<1>3. m \in Seq(T) /\ Len(m) = Len(s) /\ \A n \in 1..Len(s) : m[n] = f[s[n]]
  BY <1>1, <1>2
<1>4. FnMap(f, s) = m
  BY <1>1, Zenon DEF FnMap
<1> QED
  BY <1>1, <1>3, <1>4, Zenon

LEMMA FnMapConcat ==
  ASSUME NEW P, NEW T, NEW f, IsMap(f, P, T), NEW s \in Seq(P), NEW t \in Seq(P)
  PROVE  FnMap(f, s \o t) = FnMap(f, s) \o FnMap(f, t)
<1> DEFINE st == s \o t
           fs == FnMap(f, s)
           ft == FnMap(f, t)
           fst == FnMap(f, st)
<1>1. /\ st \in Seq(P) /\ Len(st) = Len(s) + Len(t) /\ Len(s) \in Nat /\ Len(t) \in Nat
      /\ \A i \in 1..Len(s) + Len(t) : st[i] = IF i <= Len(s) THEN s[i] ELSE t[i - Len(s)]
  BY ConcatProperties, LenProperties
<1> HIDE DEF st
<1>2. fs \in Seq(T) /\ Len(fs) = Len(s) /\ \A n \in 1..Len(s) : fs[n] = f[s[n]]
  BY FnMapType
<1>3. ft \in Seq(T) /\ Len(ft) = Len(t) /\ \A n \in 1..Len(t) : ft[n] = f[t[n]]
  BY FnMapType
<1>4. fst \in Seq(T) /\ Len(fst) = Len(st) /\ \A n \in 1..Len(st) : fst[n] = f[st[n]]
  <2>1. st \in Seq(P)
    BY <1>1
  <2>2. /\ FnMap(f, st) \in Seq(T) /\ Len(FnMap(f, st)) = Len(st)
        /\ \A n \in 1..Len(st) : st[n] \in P /\ FnMap(f, st)[n] = f[st[n]]
    BY <2>1, FnMapType
  <2> QED
    BY <2>2
<1> HIDE DEF fs, ft, fst
<1>0. fs \in Seq(T) /\ ft \in Seq(T)
  BY <1>2, <1>3
<1>5. /\ fs \o ft \in Seq(T) /\ Len(fs \o ft) = Len(s) + Len(t)
      /\ \A i \in 1..Len(s) + Len(t) : (fs \o ft)[i] = IF i <= Len(s) THEN fs[i] ELSE ft[i - Len(s)]
  <2>1. /\ fs \o ft \in Seq(T) /\ Len(fs \o ft) = Len(fs) + Len(ft)
        /\ \A i \in 1..Len(fs) + Len(ft) : (fs \o ft)[i] = IF i <= Len(fs) THEN fs[i] ELSE ft[i - Len(fs)]
    BY <1>0, ConcatProperties, Zenon
  <2> QED
    BY <1>2, <1>3, <2>1, Zenon
<1>6. \A i \in 1..Len(fst) : fst[i] = (fs \o ft)[i]
  <2> SUFFICES ASSUME NEW i \in 1..Len(fst) PROVE fst[i] = (fs \o ft)[i]
    OBVIOUS
  <2>1. i \in 1..Len(s) + Len(t) /\ i \in 1..Len(st)
    BY <1>1, <1>4
  <2>2. CASE i <= Len(s)
    <3>1. i \in 1..Len(s)
      BY <2>1, <2>2
    <3>2. st[i] = s[i] /\ (fs \o ft)[i] = fs[i]
      BY <1>1, <1>5, <2>1, <2>2, Zenon
    <3> QED
      BY <1>2, <1>4, <2>1, <3>1, <3>2, Zenon
  <2>3. CASE ~(i <= Len(s))
    <3>1. i - Len(s) \in 1..Len(t)
      BY <1>1, <2>1, <2>3
    <3>2. st[i] = t[i - Len(s)] /\ (fs \o ft)[i] = ft[i - Len(s)]
      BY <1>1, <1>5, <2>1, <2>3, Zenon
    <3> QED
      BY <1>3, <1>4, <2>1, <3>1, <3>2, Zenon
  <2> QED
    BY <2>2, <2>3
<1>7. fst = fs \o ft
  BY <1>1, <1>4, <1>5, <1>6, SeqEqual
<1> QED
  BY <1>7 DEF fst, fs, ft, st

LEMMA FnMapSingle ==
  ASSUME NEW P, NEW T, NEW f, IsMap(f, P, T), NEW x \in P
  PROVE  FnMap(f, <<x>>) = <<f[x]>> /\ FnMap(f, <<>>) = <<>>
<1>1. <<x>> \in Seq(P) /\ Len(<<x>>) = 1 /\ <<x>>[1] = x /\ DOMAIN <<x>> = 1..1
  OBVIOUS
<1>2. FnMap(f, <<x>>) = [n \in 1..1 |-> f[x]]
  BY <1>1 DEF FnMap
<1>3. FnMap(f, <<>>) = <<>>
  BY DEF FnMap
<1> QED
  BY <1>2, <1>3

LEMMA MapJoinType ==
  ASSUME NEW P, NEW S, NEW f, IsMap(f, P, Seq(S)), NEW s \in Seq(P)
  PROVE  MapJoin(f, s) \in Seq(S)
<1>1. FnMap(f, s) \in Seq(Seq(S))
  BY FnMapType, Zenon
<1> QED
  BY <1>1, JoinType, Zenon DEF MapJoin

LEMMA MapJoinConcat ==
  ASSUME NEW P, NEW S, NEW f, IsMap(f, P, Seq(S)), NEW s \in Seq(P), NEW t \in Seq(P)
  PROVE  MapJoin(f, s \o t) = MapJoin(f, s) \o MapJoin(f, t)
<1>1. FnMap(f, s) \in Seq(Seq(S)) /\ FnMap(f, t) \in Seq(Seq(S))
  BY FnMapType, Zenon
<1>2. FnMap(f, s \o t) = FnMap(f, s) \o FnMap(f, t)
  BY FnMapConcat
<1>3. FlattenSeq(FnMap(f, s) \o FnMap(f, t)) = FlattenSeq(FnMap(f, s)) \o FlattenSeq(FnMap(f, t))
  BY <1>1, JoinConcat, Zenon
<1> QED
  BY <1>2, <1>3, Zenon DEF MapJoin

LEMMA MapJoinSingle ==
  ASSUME NEW P, NEW S, NEW f, IsMap(f, P, Seq(S)), NEW x \in P
  PROVE  MapJoin(f, <<x>>) = f[x] /\ MapJoin(f, <<>>) = <<>>
<1>1. f[x] \in Seq(S)
  BY DEF IsMap
<1>2. FnMap(f, <<x>>) = <<f[x]>> /\ FnMap(f, <<>>) = <<>>
  BY FnMapSingle, Zenon
<1>3. FlattenSeq(<<f[x]>>) = f[x]
  BY <1>1, JoinSingle, Zenon
<1>4. FlattenSeq(<<>>) = <<>>
  BY EmptySeq DEF FlattenSeq
<1> QED
  BY <1>2, <1>3, <1>4, Zenon DEF MapJoin

(* The first of a sequence and the rest *)
LEMMA HeadOfSeq ==
  ASSUME NEW S, NEW s \in Seq(S), s # <<>>
  PROVE  /\ Head(s) \in S /\ Tail(s) \in Seq(S) /\ <<Head(s)>> \in Seq(S)
         /\ s = <<Head(s)>> \o Tail(s)
<1>1. Len(s) \in Nat /\ Len(s) > 0
  BY EmptySeq
<1>2. SubSeq(s, 1, Len(s)) = <<s[1]>> \o SubSeq(s, 1 + 1, Len(s))
  <2>1. 1 \in 1..Len(s) /\ Len(s) \in 1..Len(s)
    BY <1>1
  <2> QED
    BY <2>1, SubSeqRecursiveFirst
<1>3. SubSeq(s, 1, Len(s)) = s /\ Tail(s) = SubSeq(s, 2, Len(s)) /\ 1 + 1 = 2
  BY SubSeqFull, TailIsSubSeq
<1>4. Head(s) = s[1]
  OBVIOUS
<1>5. Head(s) \in S /\ Tail(s) \in Seq(S)
  BY HeadTailProperties
<1> QED
  BY <1>2, <1>3, <1>4, <1>5

LEMMA MapJoinCons ==
  ASSUME NEW P, NEW S, NEW f, IsMap(f, P, Seq(S)), NEW x \in P, NEW t \in Seq(P)
  PROVE  \A u : u = <<x>> => MapJoin(f, u \o t) = f[x] \o MapJoin(f, t)
<1> SUFFICES ASSUME NEW u, u = <<x>> PROVE MapJoin(f, u \o t) = f[x] \o MapJoin(f, t)
  BY Zenon
<1> DEFINE w == u
<1>0. w = <<x>>
  OBVIOUS
<1>1. w \in Seq(P)
  BY Single, Zenon
<1> HIDE DEF w
<1>2. MapJoin(f, w \o t) = MapJoin(f, w) \o MapJoin(f, t)
  BY <1>1, MapJoinConcat
<1>3. MapJoin(f, <<x>>) = f[x]
  BY MapJoinSingle, Zenon
<1> QED
  BY <1>0, <1>2, <1>3, Zenon DEF w

------------------------------------------------------------------------------
(* The tables: which entry an id and a content lead to                     *)

Ids == 0..VocabularySize - 1
AllEntries == Range(json.vocab) \cup Entries
PlacesIn(list, piece) == {n \in DOMAIN list : list[n].content = piece}

LEMMA RangeIs ==
  ASSUME NEW S, NEW s \in Seq(S)
  PROVE  /\ DOMAIN s = 1..Len(s) /\ Len(s) \in Nat
         /\ \A n \in DOMAIN s : s[n] \in Range(s)
         /\ \A x \in Range(s) : x \in S /\ \E n \in DOMAIN s : s[n] = x
<1>1. DOMAIN s = 1..Len(s) /\ Len(s) \in Nat /\ \A n \in DOMAIN s : s[n] \in S
  BY LenProperties, ElementOfSeq
<1> QED
  BY <1>1 DEF Range

LEMMA PiecesFacts ==
  ASSUME Loaded
  PROVE  /\ IsMap(pieces, Ids, Piece)
         /\ \A id \in Ids : \E e \in AllEntries : e.id = id /\ pieces[id] = e.content
<1> DEFINE v == json.vocab
           a == json.added_tokens
           entries == v \o a
           places(id) == {n \in DOMAIN entries : entries[n].id = id}
<1>1. v \in Seq(Entry) /\ a \in Seq(Entry)
  BY InputFacts DEF Loaded
<1>2. entries \in Seq(Entry) /\ Range(entries) = AllEntries
  BY <1>1, ConcatProperties, RangeConcatenation DEF AllEntries, Entries
<1>3. pieces = [id \in Ids |-> entries[Max(places(id))].content]
  BY Zenon DEF Loaded, Pieces, Ids
<1>4. \A id \in Ids : \E e \in AllEntries : e.id = id
  <2>1. observed(json) = Ids
    BY Zenon DEF Loaded, json_valid, Ids
  <2> QED
    BY <2>1 DEF observed, AllEntries, Entries
<1> HIDE DEF entries
<1>5. \A id \in Ids : \E e \in AllEntries : e.id = id /\ pieces[id] = e.content
  <2> SUFFICES ASSUME NEW id \in Ids
               PROVE  \E e \in AllEntries : e.id = id /\ pieces[id] = e.content
    OBVIOUS
  <2>1. /\ DOMAIN entries = 1..Len(entries) /\ Len(entries) \in Nat
        /\ \A n \in DOMAIN entries : entries[n] \in AllEntries
        /\ \A x \in AllEntries : \E n \in DOMAIN entries : entries[n] = x
    BY <1>2, RangeIs
  <2>2. places(id) # {} /\ places(id) \subseteq 0..Len(entries)
    BY <1>4, <2>1
  <2>3. Max(places(id)) \in places(id)
    <3> HIDE DEF places
    <3> QED
      BY <2>1, <2>2, MaxOf
  <2>4. pieces[id] = entries[Max(places(id))].content
    BY <1>3
  <2> QED
    BY <2>1, <2>3, <2>4
<1>6. \A id \in Ids : pieces[id] \in Piece
  BY <1>5, InputFacts DEF AllEntries, Loaded
<1> QED
  BY <1>3, <1>5, <1>6 DEF IsMap

LEMMA TokenIdsFacts ==
  ASSUME Loaded
  PROVE  /\ DOMAIN token_ids = {e.content : e \in AllEntries}
         /\ \A c \in DOMAIN token_ids : \E e \in AllEntries :
              /\ e.content = c /\ e.id = token_ids[c]
              /\ c \in {t.content : t \in Entries} => e \in Entries
<1> DEFINE v == json.vocab
           a == json.added_tokens
<1>1. v \in Seq(Entry) /\ a \in Seq(Entry)
  BY InputFacts DEF Loaded
<1>2. token_ids =
        [c \in {e.content : e \in AllEntries} |->
           IF PlacesIn(a, c) # {} THEN a[Max(PlacesIn(a, c))].id ELSE v[Min(PlacesIn(v, c))].id]
  BY Zenon DEF Loaded, TokenIds, PlacesIn, AllEntries, Entries
<1>3. /\ DOMAIN a = 1..Len(a) /\ Len(a) \in Nat
      /\ \A n \in DOMAIN a : a[n] \in Entries
      /\ \A x \in Entries : \E n \in DOMAIN a : a[n] = x
  BY <1>1, RangeIs DEF Entries
<1>4. /\ DOMAIN v = 1..Len(v) /\ Len(v) \in Nat
      /\ \A n \in DOMAIN v : v[n] \in Range(v)
      /\ \A x \in Range(v) : \E n \in DOMAIN v : v[n] = x
  BY <1>1, RangeIs
<1> HIDE DEF a, v
<1>5. DOMAIN token_ids = {e.content : e \in AllEntries}
  BY <1>2
<1>6. ASSUME NEW c \in DOMAIN token_ids
      PROVE  \E e \in AllEntries : /\ e.content = c /\ e.id = token_ids[c]
                                   /\ c \in {t.content : t \in Entries} => e \in Entries
  <2>1. token_ids[c] = IF PlacesIn(a, c) # {} THEN a[Max(PlacesIn(a, c))].id
                       ELSE v[Min(PlacesIn(v, c))].id
    BY <1>2, <1>5
  <2>2. CASE PlacesIn(a, c) # {}
    <3>1. PlacesIn(a, c) \subseteq 0..Len(a)
      BY <1>3 DEF PlacesIn
    <3> DEFINE n == Max(PlacesIn(a, c))
    <3>2. n \in PlacesIn(a, c)
      BY <1>3, <2>2, <3>1, MaxOf
    <3> HIDE DEF n
    <3>3. a[n] \in Entries /\ a[n].content = c
      BY <1>3, <3>2 DEF PlacesIn
    <3>4. token_ids[c] = a[n].id
      BY <2>1, <2>2 DEF n
    <3> QED
      BY <3>3, <3>4 DEF AllEntries
  <2>3. CASE PlacesIn(a, c) = {}
    <3>1. c \notin {t.content : t \in Entries}
      BY <1>3, <2>3 DEF PlacesIn
    <3>2. \E x \in Range(v) : x.content = c
      BY <1>5, <3>1 DEF AllEntries, v
    <3>3. PlacesIn(v, c) # {} /\ PlacesIn(v, c) \subseteq Nat
      BY <1>4, <3>2 DEF PlacesIn
    <3> DEFINE n == Min(PlacesIn(v, c))
    <3>4. n \in PlacesIn(v, c)
      BY <3>3, MinOf
    <3> HIDE DEF n
    <3>5. v[n] \in Range(v) /\ v[n].content = c
      BY <1>4, <3>4 DEF PlacesIn
    <3>6. token_ids[c] = v[n].id
      BY <2>1, <2>3 DEF n
    <3> QED
      BY <3>1, <3>5, <3>6 DEF AllEntries, v
  <2> QED
    BY <2>2, <2>3
<1> QED
  BY <1>5, <1>6

LEMMA IdsValid ==
  ASSUME Loaded
  PROVE  /\ \A e \in AllEntries : e.id \in Ids
         /\ \A c \in DOMAIN token_ids : token_ids[c] \in Ids
<1>1. \A e \in AllEntries : e.id \in Ids
  <2>1. observed(json) = Ids
    BY Zenon DEF Loaded, json_valid, Ids
  <2> QED
    BY <2>1 DEF observed, AllEntries, Entries
<1>2. \A c \in DOMAIN token_ids : token_ids[c] \in Ids
  BY <1>1, TokenIdsFacts
<1> QED
  BY <1>1, <1>2

(* Of consistent tables each is the inverse of the other.                  *)
LEMMA ConsistentFacts ==
  ASSUME Loaded, Consistent
  PROVE  /\ \A e \in AllEntries : pieces[e.id] = e.content
         /\ \A c \in DOMAIN token_ids : pieces[token_ids[c]] = c
         /\ \A t \in Entries : /\ token_ids[t.content] = t.id
                               /\ t.content # <<>> /\ t.content \in Piece
                               /\ t.content \in Seq(Direct) /\ t.content \in Seq(Byte)
<1>1. /\ \A e, f \in AllEntries : e.id = f.id => e.content = f.content
      /\ \A e, f \in Entries : e.content = f.content => e.id = f.id
      /\ \A e \in Entries : e.content # <<>> /\ Range(e.content) \subseteq Direct
  BY Zenon DEF Consistent, AllEntries, Entries
<1>2. \A e \in AllEntries : e.id \in Ids
  BY IdsValid
<1>3. \A e \in AllEntries : pieces[e.id] = e.content
  BY <1>1, <1>2, PiecesFacts
<1>4. \A c \in DOMAIN token_ids : pieces[token_ids[c]] = c
  BY <1>3, TokenIdsFacts
<1>5. ASSUME NEW t \in Entries
      PROVE  token_ids[t.content] = t.id
  <2>1. t.content \in DOMAIN token_ids
    BY TokenIdsFacts DEF AllEntries
  <2>2. PICK e \in AllEntries : /\ e.content = t.content /\ e.id = token_ids[t.content]
                                /\ t.content \in {x.content : x \in Entries} => e \in Entries
    BY <2>1, TokenIdsFacts
  <2> QED
    BY <1>1, <2>2
<1>6. \A t \in Entries : t.content \in Piece
  BY InputFacts DEF Loaded
<1>7. ASSUME NEW t \in Entries
      PROVE  t.content \in Seq(Direct) /\ t.content \in Seq(Byte)
  <2>1. t.content \in Seq(Range(t.content))
    BY <1>6, SeqOfRange DEF Piece
  <2>2. t.content \in Seq(Direct)
    BY <1>1, <2>1, SeqMonotonic
  <2> QED
    BY <2>2, SeqMonotonic, TokenizerAssumption
<1> QED
  BY <1>1, <1>3, <1>4, <1>5, <1>6, <1>7

------------------------------------------------------------------------------
(* The parts of the text                                                   *)

Part == [added : BOOLEAN, bytes : Seq(Byte)]
Plain(bytes) == [added |-> FALSE, bytes |-> bytes]
Special(bytes) == [added |-> TRUE, bytes |-> bytes]

Starts(p) == {c \in {t.content : t \in Entries} : Matches(c, p)}
Longest(p) == CHOOSE c \in Starts(p) : \A d \in Starts(p) : Len(d) <= Len(c)
NextAt(p) == Min({q \in p..Len(text) : Starts(q) # {}} \cup {Len(text) + 1})
Before(p) == IF NextAt(p) = p THEN <<>> ELSE <<Plain(SubSeq(text, p, NextAt(p) - 1))>>
Behind(p) == NextAt(p) + Len(Longest(NextAt(p)))

PartsStep(p, f) ==
  IF p > Len(text) THEN <<>>
  ELSE Before(p) \o (IF NextAt(p) > Len(text) THEN <<>>
                     ELSE <<Special(Longest(NextAt(p)))>> \o f[Behind(p)])
PartsFrom(f) == f = [p \in 1..Len(text) + 1 |-> PartsStep(p, f)]
PartsAt == CHOOSE f : PartsFrom(f)

LEMMA PartTypes ==
  \A bytes \in Seq(Byte) : Plain(bytes) \in Part /\ Special(bytes) \in Part
BY DEF Plain, Special, Part

LEMMA BytesArePieces == \A s \in Seq(Byte) : s \in Piece
<1>1. Byte \subseteq Nat
  BY TokenizerAssumption DEF Byte
<1> QED
  BY <1>1, SeqMonotonic DEF Piece

LEMMA NextFacts ==
  ASSUME text \in Texts, NEW p \in 1..Len(text) + 1
  PROVE  /\ NextAt(p) \in p..Len(text) + 1
         /\ NextAt(p) <= Len(text) => Starts(NextAt(p)) # {}
         /\ \A q \in p..Len(text) : Starts(q) # {} => NextAt(p) <= q
<1> DEFINE T == {q \in p..Len(text) : Starts(q) # {}} \cup {Len(text) + 1}
<1>1. Len(text) \in Nat
  BY TextType
<1>2. T \subseteq Nat /\ T # {} /\ T \subseteq p..Len(text) + 1
  BY <1>1
<1>3. NextAt(p) = Min(T)
  BY Zenon DEF NextAt
<1>4. \A q \in T : q <= Len(text) => Starts(q) # {}
  BY <1>1
<1>5. \A q \in p..Len(text) : Starts(q) # {} => q \in T
  OBVIOUS
<1> HIDE DEF T
<1>6. Min(T) \in T /\ \A y \in T : Min(T) <= y
  BY <1>2, MinOf
<1> QED
  BY <1>2, <1>3, <1>4, <1>5, <1>6

LEMMA LongestFacts ==
  ASSUME Loaded, text \in Texts, NEW p \in Nat \ {0}, Starts(p) # {}
  PROVE  /\ Longest(p) \in Starts(p) /\ Longest(p) \in Piece
         /\ \A d \in Starts(p) : Len(d) <= Len(Longest(p))
         /\ p + Len(Longest(p)) <= Len(text) + 1
<1>1. Len(text) \in Nat
  BY TextType
<1>2. \A c \in Starts(p) : c \in Piece /\ Len(c) \in Nat /\ p + Len(c) - 1 <= Len(text)
  <2> SUFFICES ASSUME NEW c \in Starts(p)
               PROVE  c \in Piece /\ Len(c) \in Nat /\ p + Len(c) - 1 <= Len(text)
    OBVIOUS
  <2>1. c \in {t.content : t \in Entries} /\ Matches(c, p)
    BY DEF Starts
  <2>2. c \in Piece
    BY <2>1, InputFacts DEF Loaded
  <2> QED
    BY <2>1, <2>2, PieceFacts DEF Matches
<1> DEFINE S == Starts(p)
           T == {Len(c) : c \in S}
<1>3. T \subseteq 0..Len(text) /\ T # {}
  <2>1. \A c \in S : Len(c) \in 0..Len(text)
    BY <1>1, <1>2
  <2> HIDE DEF S
  <2>2. T \subseteq 0..Len(text)
    BY <2>1, Zenon
  <2>3. \E c \in S : Len(c) \in T
    BY Zenon DEF S
  <2> QED
    BY <2>2, <2>3
<1> HIDE DEF S
<1>4. Max(T) \in T /\ \A y \in T : y <= Max(T)
  BY <1>1, <1>3, MaxOf
<1>5. PICK c \in S : Len(c) = Max(T)
  BY <1>4
<1>6. \A d \in S : Len(d) <= Len(c)
  BY <1>4, <1>5
<1>7. Longest(p) \in S /\ \A d \in S : Len(d) <= Len(Longest(p))
  BY <1>5, <1>6, Zenon DEF Longest, S
<1>8. Longest(p) \in Piece /\ Len(Longest(p)) \in Nat /\ p + Len(Longest(p)) - 1 <= Len(text)
  BY <1>2, <1>7, Zenon DEF S
<1>9. p + Len(Longest(p)) <= Len(text) + 1
  BY <1>1, <1>8
<1> QED
  BY <1>7, <1>8, <1>9, Zenon DEF S

(* Where a part begins and the next one does *)
LEMMA PartsPlaces ==
  ASSUME Loaded, Consistent, text \in Texts, NEW p \in 1..Len(text)
  PROVE  /\ Before(p) \in Seq(Part)
         /\ NextAt(p) <= Len(text) =>
              /\ <<Special(Longest(NextAt(p)))>> \in Seq(Part)
              /\ Behind(p) \in p + 1..Len(text) + 1
<1>1. Len(text) \in Nat /\ p \in 1..Len(text) + 1
  BY TextType
<1>2. NextAt(p) \in p..Len(text) + 1 /\ (NextAt(p) <= Len(text) => Starts(NextAt(p)) # {})
  BY <1>1, NextFacts
<1>3. Before(p) \in Seq(Part)
  <2>1. NextAt(p) - 1 \in Int /\ NextAt(p) - 1 <= Len(text) /\ p \in Nat \ {0}
    BY <1>1, <1>2
  <2>2. SubSeq(text, p, NextAt(p) - 1) \in Seq(Byte)
    BY <2>1, Stretch
  <2>3. Plain(SubSeq(text, p, NextAt(p) - 1)) \in Part
    BY <2>2, PartTypes
  <2>4. <<Plain(SubSeq(text, p, NextAt(p) - 1))>> \in Seq(Part) /\ <<>> \in Seq(Part)
    BY <2>3, Single, EmptySeq, Zenon
  <2> QED
    BY <2>4, Zenon DEF Before
<1>4. ASSUME NextAt(p) <= Len(text)
      PROVE  /\ <<Special(Longest(NextAt(p)))>> \in Seq(Part)
             /\ Behind(p) \in p + 1..Len(text) + 1
  <2> DEFINE n == NextAt(p)
             c == Longest(n)
  <2>1. n \in Nat \ {0} /\ Starts(n) # {} /\ n >= p
    BY <1>1, <1>2, <1>4
  <2> HIDE DEF n
  <2>2. c \in Starts(n) /\ c \in Piece /\ n + Len(c) <= Len(text) + 1
    BY <2>1, LongestFacts
  <2>3. c # <<>> /\ c \in Seq(Byte)
    BY <2>2, ConsistentFacts DEF Starts
  <2> HIDE DEF c
  <2>4. Len(c) \in Nat /\ Len(c) > 0
    BY <2>2, <2>3, PieceFacts
  <2>5. n + Len(c) \in p + 1..Len(text) + 1
    BY <1>1, <2>1, <2>2, <2>4
  <2>6. <<Special(c)>> \in Seq(Part)
    BY <2>3, PartTypes, Single, Zenon
  <2> QED
    BY <2>5, <2>6, Zenon DEF Behind, c, n
<1> QED
  BY <1>3, <1>4

LEMMA PartsExist ==
  ASSUME Loaded, Consistent, text \in Texts
  PROVE  \E f : PartsFrom(f)
<1> DEFINE L == Len(text)
           last(p) == NextAt(p) > L
           tail(p) == IF last(p) THEN <<>> ELSE <<Special(Longest(NextAt(p)))>>
           head == [p \in 1..L |-> Before(p) \o tail(p)]
           next == [p \in 1..L |-> IF last(p) THEN L + 1 ELSE Behind(p)]
<1>1. L \in Nat
  BY TextType
<1>2. \A p \in 1..L : Before(p) \in Seq(Part) /\ tail(p) \in Seq(Part)
                      /\ (~last(p) => Behind(p) \in p + 1..L + 1)
  <2> SUFFICES ASSUME NEW p \in 1..L
               PROVE  Before(p) \in Seq(Part) /\ tail(p) \in Seq(Part)
                      /\ (~last(p) => Behind(p) \in p + 1..L + 1)
    OBVIOUS
  <2>1. Before(p) \in Seq(Part)
        /\ (NextAt(p) <= L => /\ <<Special(Longest(NextAt(p)))>> \in Seq(Part)
                              /\ Behind(p) \in p + 1..L + 1)
    BY PartsPlaces
  <2>2. ~last(p) => NextAt(p) <= L
    <3>1. p \in 1..L + 1
      BY <1>1
    <3>2. NextAt(p) \in p..L + 1
      BY <3>1, NextFacts
    <3> QED
      BY <1>1, <3>1, <3>2
  <2>3. tail(p) \in Seq(Part)
    <3>1. <<>> \in Seq(Part)
      BY EmptySeq
    <3> QED
      BY <2>1, <2>2, <3>1, Zenon
  <2> HIDE DEF tail, last
  <2> QED
    BY <2>1, <2>2, <2>3
<1>3. \A p \in 1..L : head[p] = Before(p) \o tail(p)
                      /\ next[p] = IF last(p) THEN L + 1 ELSE Behind(p)
  BY Zenon
<1>4. Walk(L, Part, head, next)
  <2>1. \A p \in 1..L : Before(p) \o tail(p) \in Seq(Part)
    <3> HIDE DEF tail
    <3> QED
      BY <1>2, ConcatProperties
  <2>2. \A p \in 1..L : /\ (IF last(p) THEN L + 1 ELSE Behind(p)) \in 1..L + 1
                        /\ p < (IF last(p) THEN L + 1 ELSE Behind(p))
    <3> HIDE DEF last, tail, L
    <3> QED
      BY <1>1, <1>2
  <2>3. head \in [1..L -> Seq(Part)]
    <3> HIDE DEF tail, L
    <3> QED
      BY <2>1
  <2>4. next \in [1..L -> 1..L + 1]
    <3> HIDE DEF last, L
    <3> QED
      BY <2>2
  <2> HIDE DEF last, tail, head, next, L
  <2>5. \A p \in 1..L : p < next[p]
    BY <1>3, <2>2
  <2> QED
    BY <2>3, <2>4, <2>5, Zenon DEF Walk
<1> HIDE DEF head, next, L
<1>5. PICK f : Walks(L, Part, head, next, f)
  BY <1>1, <1>4, WalkMade, Zenon
<1>6. /\ \A p \in 1..L + 1 : f[p] = WalkStep(L, head, next, p, f)
      /\ f \in [1..L + 1 -> Seq(Part)]
  BY <1>5, Zenon DEF Walks
<1>7. \A p \in 1..L + 1 : f[p] = PartsStep(p, f)
  <2> SUFFICES ASSUME NEW p \in 1..L + 1 PROVE f[p] = PartsStep(p, f)
    OBVIOUS
  <2>1. f[p] = WalkStep(L, head, next, p, f) /\ p \in Nat /\ (~(p > L) => p \in 1..L)
    BY <1>1, <1>6
  <2>2. CASE p > L
    BY <2>1, <2>2 DEF WalkStep, PartsStep, L
  <2>3. CASE ~(p > L) /\ last(p)
    <3>0. p \in 1..L
      BY <2>1, <2>3
    <3>1. f[p] = (Before(p) \o <<>>) \o f[L + 1]
      BY <1>3, <2>1, <2>3, <3>0, Zenon DEF WalkStep
    <3>2. f[L + 1] = <<>>
      <4>1. L + 1 \in 1..L + 1 /\ L + 1 > L
        BY <1>1
      <4> QED
        BY <1>6, <4>1, Zenon DEF WalkStep
    <3>3. (Before(p) \o <<>>) \o <<>> = Before(p) \o <<>>
      BY <1>2, <3>0, ConcatEmptySeq
    <3>4. PartsStep(p, f) = Before(p) \o <<>>
      BY <2>3, Zenon DEF PartsStep, L
    <3> QED
      BY <3>1, <3>2, <3>3, <3>4, Zenon
  <2>4. CASE ~(p > L) /\ ~last(p)
    <3>0. p \in 1..L
      BY <2>1, <2>4
    <3> DEFINE u == Before(p)
               v == <<Special(Longest(NextAt(p)))>>
               w == f[Behind(p)]
    <3>1. f[p] = (u \o v) \o w
      BY <1>3, <2>1, <2>4, <3>0, Zenon DEF WalkStep
    <3>2. u \in Seq(Part) /\ v \in Seq(Part)
      BY <1>2, <2>4, <3>0, Zenon
    <3>3. w \in Seq(Part)
      <4>1. Behind(p) \in 1..L + 1
        <5>1. Behind(p) \in p + 1..L + 1
          BY <1>2, <2>4, <3>0
        <5> QED
          BY <1>1, <2>1, <5>1
      <4> QED
        BY <1>6, <4>1
    <3>4. (u \o v) \o w = u \o (v \o w)
      <4>1. AssociativeOn(Seq(Part))
        BY Associative, Zenon
      <4> HIDE DEF u, v, w
      <4> QED
        BY <3>2, <3>3, <4>1 DEF AssociativeOn
    <3>5. PartsStep(p, f) = u \o (v \o w)
      BY <2>4, Zenon DEF PartsStep, L
    <3> QED
      BY <3>1, <3>4, <3>5, Zenon
  <2> QED
    BY <2>2, <2>3, <2>4
<1>8. f = [p \in 1..L + 1 |-> PartsStep(p, f)]
  BY <1>6, <1>7
<1> QED
  BY <1>8, Zenon DEF PartsFrom, L

LEMMA PartsSteps ==
  ASSUME Loaded, Consistent, text \in Texts
  PROVE  /\ Parts = PartsAt[1]
         /\ \A p \in 1..Len(text) + 1 : PartsAt[p] = PartsStep(p, PartsAt) /\ PartsAt[p] \in Seq(Part)
<1> DEFINE L == Len(text)
           f == PartsAt
<1>1. L \in Nat
  BY TextType
<1>2. PartsFrom(f)
  BY PartsExist, Zenon DEF PartsAt
<1>3. Parts = f[1]
  BY Zenon DEF Parts, PartsAt, PartsFrom, PartsStep, Before, Behind, NextAt, Longest, Starts,
               Plain, Special, Entries
<1> HIDE DEF f
<1>4. \A p \in 1..L + 1 : f[p] = PartsStep(p, f)
  BY <1>2 DEF PartsFrom
<1> DEFINE G == {p \in 1..L + 1 : f[p] \in Seq(Part)}
<1>5. ASSUME NEW p \in 1..L + 1, \A x \in p + 1..L + 1 : x \in G
      PROVE  p \in G
  <2>1. f[p] = PartsStep(p, f) /\ p \in Nat /\ <<>> \in Seq(Part)
    BY <1>1, <1>4, EmptySeq
  <2>2. CASE p > L
    BY <2>1, <2>2 DEF PartsStep
  <2>3. CASE ~(p > L)
    <3>1. p \in 1..L
      BY <1>1, <2>1, <2>3
    <3>2. Before(p) \in Seq(Part)
          /\ (NextAt(p) <= L => /\ <<Special(Longest(NextAt(p)))>> \in Seq(Part)
                                /\ Behind(p) \in p + 1..L + 1)
      BY <3>1, PartsPlaces
    <3>3. CASE NextAt(p) > L
      <4>1. f[p] = Before(p) \o <<>>
        BY <2>1, <2>3, <3>3, Zenon DEF PartsStep
      <4>2. Before(p) \o <<>> \in Seq(Part)
        BY <2>1, <3>2, ConcatProperties
      <4> QED
        BY <4>1, <4>2
    <3>4. CASE ~(NextAt(p) > L)
      <4> DEFINE v == <<Special(Longest(NextAt(p)))>>
      <4>1. f[p] = Before(p) \o (v \o f[Behind(p)])
        BY <2>1, <2>3, <3>4, Zenon DEF PartsStep
      <4>2. NextAt(p) <= L
        BY <1>1, <3>1, <3>4, NextFacts
      <4>3. v \in Seq(Part) /\ f[Behind(p)] \in Seq(Part)
        <5>1. Behind(p) \in G
          BY <1>5, <3>2, <4>2
        <5> QED
          BY <3>2, <4>2, <5>1
      <4> HIDE DEF v
      <4>4. v \o f[Behind(p)] \in Seq(Part)
        BY <4>3, ConcatProperties
      <4>5. Before(p) \o (v \o f[Behind(p)]) \in Seq(Part)
        BY <3>2, <4>4, ConcatProperties
      <4> QED
        BY <4>1, <4>5
    <3> QED
      BY <3>3, <3>4
  <2> QED
    BY <2>2, <2>3
<1>6. 1..L + 1 \subseteq G
  <2>1. L + 1 \in Nat
    BY <1>1
  <2> HIDE DEF G
  <2> QED
    BY <1>5, <2>1, Downwards
<1> QED
  BY <1>3, <1>4, <1>6 DEF f

LEMMA PartsIs == Parts = PartsAt[1]
BY Zenon DEF Parts, PartsAt, PartsFrom, PartsStep, Before, Behind, NextAt, Longest, Starts,
             Plain, Special, Entries

LEMMA KeptParts ==
  ASSUME json' = json, text' = text
  PROVE  PartsAt' = PartsAt /\ Parts' = Parts /\ Consistent' = Consistent /\ Entries' = Entries
<1>1. json' = json /\ text' = text
  OBVIOUS
<1>2. Entries' = Entries
  BY <1>1 DEF Entries
<1>3. \A p : Starts(p)' = Starts(p)
  BY <1>1, <1>2, Zenon DEF Starts, Matches
<1>4. \A p : Longest(p)' = Longest(p) /\ NextAt(p)' = NextAt(p)
  <2> SUFFICES ASSUME NEW p PROVE Longest(p)' = Longest(p) /\ NextAt(p)' = NextAt(p)
    BY Zenon
  <2>1. Longest(p)' = Longest(p)
    BY <1>3, Zenon DEF Longest
  <2>2. NextAt(p)' = NextAt(p)
    BY <1>1, <1>3, Zenon DEF NextAt
  <2> QED
    BY <2>1, <2>2
<1>5. \A p : Before(p)' = Before(p) /\ Behind(p)' = Behind(p)
  BY <1>1, <1>4, Zenon DEF Before, Behind
<1>6. \A p, f : PartsStep(p, f)' = PartsStep(p, f)
  BY <1>1, <1>4, <1>5, Zenon DEF PartsStep
<1>7. \A f : PartsFrom(f)' = PartsFrom(f)
  <2> SUFFICES ASSUME NEW f PROVE PartsFrom(f)' = PartsFrom(f)
    BY Zenon
  <2>1. [p \in 1..Len(text') + 1 |-> PartsStep(p, f)'] = [p \in 1..Len(text) + 1 |-> PartsStep(p, f)]
    BY <1>1, <1>6
  <2> QED
    BY <2>1, Zenon DEF PartsFrom
<1>8. PartsAt' = PartsAt
  BY <1>7, Zenon DEF PartsAt
<1>9. Parts' = Parts
  <2>1. (Parts = PartsAt[1])'
    BY PartsIs, PTL
  <2> QED
    BY <1>8, <2>1, PartsIs
<1>10. Consistent' = Consistent
  BY <1>1, Zenon DEF Consistent
<1> QED
  BY <1>2, <1>8, <1>9, <1>10

(* What Scan finds is the next of the parts.                               *)
Segment == SubSeq(text, cursor, IF FirstSpecial = <<>> THEN Len(text)
                                ELSE Found(FirstSpecial[1].content) - 1)

LEMMA NextIsFound ==
  ASSUME Loaded, text \in Texts, cursor \in 1..Len(text)
  PROVE  /\ FirstSpecial = <<>> => NextAt(cursor) = Len(text) + 1
         /\ \A t : FirstSpecial = <<t>> =>
              /\ NextAt(cursor) = Found(t.content) /\ Found(t.content) \in cursor..Len(text)
              /\ Longest(Found(t.content)) = t.content /\ t \in Entries
<1>1. /\ text \in Seq(Byte) /\ Len(text) \in Nat /\ cursor \in Nat /\ cursor <= Len(text) + 1
      /\ cursor \in 1..Len(text) + 1
  BY TextType
<1>2. \A c : /\ Found(c) \in cursor..Len(text) + 1
             /\ Found(c) <= Len(text) => Matches(c, Found(c))
             /\ \A n \in cursor..Len(text) : Matches(c, n) => Found(c) <= n
  BY <1>1, FoundFacts
<1>3. /\ NextAt(cursor) \in cursor..Len(text) + 1
      /\ NextAt(cursor) <= Len(text) => Starts(NextAt(cursor)) # {}
      /\ \A q \in cursor..Len(text) : Starts(q) # {} => NextAt(cursor) <= q
  BY <1>1, NextFacts
<1>4. \/ FirstSpecial = <<>> /\ \A e \in Entries : Found(e.content) > Len(text)
      \/ \E t : FirstSpecial = <<t>> /\ EndsSegment(t)
  BY <1>1, FirstSpecialFacts
<1>5. \A q \in cursor..Len(text) : \A c \in Starts(q) :
        \E e \in Entries : e.content = c /\ Matches(c, q) /\ Found(c) <= q
  BY <1>2 DEF Starts
<1>6. ASSUME FirstSpecial = <<>>
      PROVE  NextAt(cursor) = Len(text) + 1
  <2>1. \A e \in Entries : Found(e.content) > Len(text)
    BY <1>4, <1>6
  <2>2. ~(NextAt(cursor) <= Len(text))
    <3> SUFFICES ASSUME NextAt(cursor) <= Len(text) PROVE FALSE
      OBVIOUS
    <3> DEFINE q == NextAt(cursor)
    <3>1. q \in cursor..Len(text) /\ Starts(q) # {}
      BY <1>1, <1>3
    <3> HIDE DEF q
    <3>2. PICK e \in Entries : Found(e.content) <= q
      BY <1>5, <3>1
    <3>3. Found(e.content) > Len(text) /\ Found(e.content) \in cursor..Len(text) + 1
      BY <1>2, <2>1
    <3> QED
      BY <1>1, <3>1, <3>2, <3>3
  <2> QED
    BY <1>1, <1>3, <2>2
<1>7. ASSUME NEW t, FirstSpecial = <<t>>
      PROVE  /\ NextAt(cursor) = Found(t.content) /\ Found(t.content) \in cursor..Len(text)
             /\ Longest(Found(t.content)) = t.content /\ t \in Entries
  <2> DEFINE n == Found(t.content)
             c == t.content
  <2>1. EndsSegment(t)
    <3>1. FirstSpecial # <<>>
      BY <1>7
    <3>2. PICK u : FirstSpecial = <<u>> /\ EndsSegment(u)
      BY <1>4, <3>1
    <3>3. u = t
      BY <1>7, <3>2
    <3> QED
      BY <3>2, <3>3
  <2>2. t \in Entries /\ n \in cursor..Len(text) /\ Matches(c, n) /\ c \in Piece
    <3>1. t \in Entries /\ n <= Len(text)
      BY <2>1 DEF EndsSegment
    <3>2. n \in cursor..Len(text) + 1 /\ Matches(c, n)
      BY <1>2, <3>1
    <3>3. c \in Piece
      BY <3>1, InputFacts DEF Loaded
    <3> QED
      BY <1>1, <3>1, <3>2, <3>3
  <2>3. \A e \in Entries : n <= Found(e.content)
                           /\ (n = Found(e.content) => Len(e.content) <= Len(c))
    BY <2>1 DEF EndsSegment
  <2> HIDE DEF n, c
  <2>4. c \in Starts(n)
    BY <2>2 DEF Starts, c
  <2>5. NextAt(cursor) = n
    <3> DEFINE q == NextAt(cursor)
    <3>1. q <= n
      BY <1>3, <2>2, <2>4
    <3>2. q \in cursor..Len(text) /\ Starts(q) # {}
      BY <1>1, <1>3, <2>2, <3>1
    <3> HIDE DEF q
    <3>3. PICK e \in Entries : Found(e.content) <= q
      BY <1>5, <3>2
    <3>4. n <= Found(e.content) /\ Found(e.content) \in cursor..Len(text) + 1
      BY <1>2, <2>3
    <3>5. q = n
      BY <1>1, <2>2, <3>1, <3>2, <3>3, <3>4
    <3> QED
      BY <3>5 DEF q
  <2>6. Longest(n) = c
    <3> DEFINE d == Longest(n)
    <3>1. n \in Nat \ {0} /\ n \in Int
      BY <1>1, <2>2
    <3>2. d \in Starts(n) /\ d \in Piece /\ Len(c) <= Len(d)
      BY <2>4, <3>1, LongestFacts
    <3> HIDE DEF d
    <3>3. PICK e \in Entries : e.content = d /\ Matches(d, n) /\ Found(d) <= n
      BY <1>5, <2>2, <3>2
    <3>4. n = Found(d) /\ Len(d) <= Len(c)
      <4>1. n <= Found(e.content) /\ Found(d) \in cursor..Len(text) + 1
        BY <1>2, <2>3
      <4>2. n = Found(d)
        BY <1>1, <2>2, <3>3, <4>1
      <4> QED
        BY <2>3, <3>3, <4>2
    <3>5. Len(d) = Len(c)
      BY <2>2, <3>2, <3>4, PieceFacts
    <3>6. d = SubSeq(text, n, n + Len(d) - 1) /\ c = SubSeq(text, n, n + Len(c) - 1)
      BY <2>2, <3>3 DEF Matches
    <3> QED
      BY <3>5, <3>6 DEF d
  <2> QED
    BY <2>2, <2>5, <2>6 DEF n, c
<1> QED
  BY <1>6, <1>7

(* What a function makes of the parts from a place on                      *)
From(f, p) == MapJoin(f, PartsAt[p])
FromSpecial(f, last) ==
  IF last = <<>> THEN <<>>
  ELSE f[Special(last[1].content)] \o From(f, Found(last[1].content) + Len(last[1].content))

LEMMA FromType ==
  ASSUME Loaded, Consistent, text \in Texts, NEW S, NEW f, IsMap(f, Part, Seq(S))
  PROVE  \A p \in 1..Len(text) + 1 : From(f, p) \in Seq(S)
<1> SUFFICES ASSUME NEW p \in 1..Len(text) + 1 PROVE From(f, p) \in Seq(S)
  OBVIOUS
<1>1. PartsAt[p] \in Seq(Part)
  BY PartsSteps
<1> QED
  BY <1>1, MapJoinType, Zenon DEF From

LEMMA SegmentType ==
  ASSUME Loaded, text \in Texts, cursor \in 1..Len(text)
  PROVE  Segment \in Seq(Byte)
<1> DEFINE end == IF FirstSpecial = <<>> THEN Len(text) ELSE Found(FirstSpecial[1].content) - 1
<1>1. text \in Seq(Byte) /\ Len(text) \in Nat /\ cursor \in Nat \ {0} /\ cursor <= Len(text) + 1
  BY TextType
<1>2. \A c : Found(c) \in cursor..Len(text) + 1
  BY <1>1, FoundFacts
<1>3. \A c : Found(c) - 1 \in Int /\ Found(c) - 1 <= Len(text)
  <2> SUFFICES ASSUME NEW c PROVE Found(c) - 1 \in Int /\ Found(c) - 1 <= Len(text)
    OBVIOUS
  <2>1. Found(c) \in cursor..Len(text) + 1
    BY <1>2
  <2> QED
    BY <1>1, <2>1
<1>4. end \in Int /\ end <= Len(text)
  BY <1>1, <1>3
<1> HIDE DEF end
<1>5. SubSeq(text, cursor, end) \in Seq(Byte)
  BY <1>1, <1>4, Stretch
<1> QED
  BY <1>5, Zenon DEF Segment, end

LEMMA FromCursor ==
  ASSUME Loaded, Consistent, text \in Texts, cursor \in 1..Len(text),
         NEW S, NEW f, IsMap(f, Part, Seq(S)), f[Plain(<<>>)] = <<>>
  PROVE  /\ From(f, cursor) = f[Plain(Segment)] \o FromSpecial(f, FirstSpecial)
         /\ FromSpecial(f, FirstSpecial) \in Seq(S) /\ f[Plain(Segment)] \in Seq(S)
<1> DEFINE L == Len(text)
           n == NextAt(cursor)
           b == Before(cursor)
<1>1. L \in Nat /\ cursor \in 1..L + 1 /\ ~(cursor > L) /\ cursor \in Nat
  BY TextType
<1>2. PartsAt[cursor] = PartsStep(cursor, PartsAt)
  BY <1>1, PartsSteps
<1>3. Segment \in Seq(Byte) /\ <<>> \in Seq(S)
  BY SegmentType, EmptySeq
<1>4. Plain(Segment) \in Part
  BY <1>3, PartTypes
<1>5. f[Plain(Segment)] \in Seq(S) /\ <<Plain(Segment)>> \in Seq(Part)
  BY <1>4, Single DEF IsMap
<1>6. CASE FirstSpecial = <<>>
  <2>1. n = L + 1
    BY <1>6, NextIsFound
  <2>2. Segment = SubSeq(text, cursor, L)
    BY <1>6, Zenon DEF Segment
  <2>3. b = <<Plain(Segment)>>
    <3>1. n # cursor /\ n - 1 = L
      BY <1>1, <2>1
    <3> QED
      BY <2>2, <3>1 DEF Before
  <2>4. n > L
    BY <1>1, <2>1
  <2>5. PartsAt[cursor] = b \o <<>>
    BY <1>1, <1>2, <2>4, Zenon DEF PartsStep
  <2>6. PartsAt[cursor] = <<Plain(Segment)>>
    BY <1>5, <2>3, <2>5, ConcatEmptySeq
  <2>7. From(f, cursor) = f[Plain(Segment)]
    BY <1>4, <2>6, MapJoinSingle, Zenon DEF From
  <2>8. FromSpecial(f, FirstSpecial) = <<>>
    BY <1>6, Zenon DEF FromSpecial
  <2>9. f[Plain(Segment)] \o <<>> = f[Plain(Segment)]
    BY <1>5, ConcatEmptySeq
  <2> QED
    BY <1>3, <1>5, <2>7, <2>8, <2>9
<1>7. CASE FirstSpecial # <<>>
  <2>1. PICK t : FirstSpecial = <<t>>
    <3>1. text \in Seq(Byte) /\ cursor <= L + 1
      BY <1>1, TextType
    <3> QED
      BY <1>1, <1>7, <3>1, FirstSpecialFacts
  <2> DEFINE c == t.content
             x == Special(c)
             q == n + Len(c)
             rest == PartsAt[q]
  <2>2. n = Found(c) /\ n \in cursor..L /\ Longest(n) = c /\ t \in Entries /\ FirstSpecial[1] = t
    <3>1. FirstSpecial[1] = t
      BY <2>1
    <3> QED
      BY <2>1, <3>1, NextIsFound
  <2>3. ~(n > L)
    BY <1>1, <2>2
  <2>4. Behind(cursor) = q
    BY <2>2, Zenon DEF Behind
  <2>5. PartsAt[cursor] = b \o (<<x>> \o rest)
    BY <1>1, <1>2, <2>2, <2>3, <2>4, Zenon DEF PartsStep
  <2>6. b \in Seq(Part) /\ q \in 1..L + 1
    <3>1. b \in Seq(Part) /\ Behind(cursor) \in cursor + 1..L + 1
      BY <2>2, PartsPlaces
    <3> QED
      BY <1>1, <2>4, <3>1
  <2>7. x \in Part /\ rest \in Seq(Part)
    <3>1. c \in Seq(Byte)
      BY <2>2, ConsistentFacts
    <3> QED
      BY <2>6, <3>1, PartTypes, PartsSteps
  <2>8. <<x>> \o rest \in Seq(Part) /\ f[x] \in Seq(S) /\ From(f, q) \in Seq(S)
    <3>1. <<x>> \in Seq(Part)
      BY <2>7, Single, Zenon
    <3>2. <<x>> \o rest \in Seq(Part)
      BY <2>7, <3>1, ConcatProperties, Zenon
    <3>3. f[x] \in Seq(S)
      BY <2>7 DEF IsMap
    <3> QED
      BY <2>6, <3>2, <3>3, FromType
  <2>9. FromSpecial(f, FirstSpecial) = f[x] \o From(f, q)
    BY <1>7, <2>2, Zenon DEF FromSpecial
  <2>10. FromSpecial(f, FirstSpecial) \in Seq(S)
    <3> HIDE DEF x, q
    <3> QED
      BY <2>8, <2>9, ConcatProperties
  <2> HIDE DEF x, q, rest
  <2>11. MapJoin(f, <<x>> \o rest) = FromSpecial(f, FirstSpecial)
    <3>1. MapJoin(f, <<x>> \o rest) = f[x] \o MapJoin(f, rest)
      BY <2>7, MapJoinCons
    <3>2. MapJoin(f, rest) = From(f, q)
      BY Zenon DEF From, rest
    <3> QED
      BY <2>9, <3>1, <3>2
  <2>12. MapJoin(f, b) = f[Plain(Segment)]
    <3>1. Segment = SubSeq(text, cursor, n - 1)
      <4>1. FirstSpecial[1].content = c
        BY <2>1
      <4> QED
        BY <1>7, <2>2, <4>1, Zenon DEF Segment
    <3>2. CASE n = cursor
      <4>1. b = <<>>
        BY <3>2, Zenon DEF Before
      <4>2. Segment = <<>>
        <5>1. n - 1 < cursor /\ n - 1 \in Int
          BY <1>1, <3>2
        <5> QED
          BY <1>1, <3>1, <5>1, SubSeqEmpty
      <4>3. MapJoin(f, <<>>) = <<>>
        BY <2>7, MapJoinSingle, Zenon
      <4> QED
        BY <4>1, <4>2, <4>3
    <3>3. CASE n # cursor
      <4>1. b = <<Plain(Segment)>>
        BY <3>1, <3>3, Zenon DEF Before
      <4> QED
        BY <1>4, <4>1, MapJoinSingle, Zenon
    <3> QED
      BY <3>2, <3>3
  <2> DEFINE w == <<x>> \o rest
  <2>13. w \in Seq(Part)
    BY <2>8 DEF x, rest, q
  <2> HIDE DEF w, b
  <2>14. MapJoin(f, b \o w) = MapJoin(f, b) \o MapJoin(f, w)
    BY <2>6, <2>13, MapJoinConcat
  <2> QED
    BY <1>5, <2>5, <2>10, <2>11, <2>12, <2>14, Zenon DEF From, w
<1> QED
  BY <1>6, <1>7

------------------------------------------------------------------------------
(* Bytes as code points, and back                                          *)

encoder == [b \in Byte |-> byte_encoder(b)]
Enc(bytes) == FnMap(encoder, bytes)

LEMMA EncoderIsMap ==
  /\ IsMap(encoder, Byte, Nat)
  /\ \A b \in Byte : encoder[b] = byte_encoder(b)
BY EncoderFacts DEF IsMap, encoder

LEMMA EncFacts ==
  /\ \A s \in Seq(Byte) : Enc(s) \in Piece /\ Len(Enc(s)) = Len(s)
  /\ \A s, t \in Seq(Byte) : Enc(s \o t) = Enc(s) \o Enc(t)
  /\ Enc(<<>>) = <<>>
<1>1. \A s \in Seq(Byte) : Enc(s) \in Piece /\ Len(Enc(s)) = Len(s)
  <2> SUFFICES ASSUME NEW s \in Seq(Byte) PROVE Enc(s) \in Piece /\ Len(Enc(s)) = Len(s)
    OBVIOUS
  <2> QED
    BY EncoderIsMap, FnMapType DEF Enc, Piece
<1>2. \A s, t \in Seq(Byte) : Enc(s \o t) = Enc(s) \o Enc(t)
  <2> SUFFICES ASSUME NEW s \in Seq(Byte), NEW t \in Seq(Byte)
               PROVE  Enc(s \o t) = Enc(s) \o Enc(t)
    OBVIOUS
  <2> QED
    BY EncoderIsMap, FnMapConcat DEF Enc
<1>3. Enc(<<>>) = <<>>
  BY DEF Enc, FnMap
<1> QED
  BY <1>1, <1>2, <1>3

(* Direct bytes are their own code points.                                 *)
LEMMA EncDirect ==
  ASSUME NEW s \in Seq(Direct), s \in Seq(Byte)
  PROVE  Enc(s) = s
<1>1. Len(s) \in Nat /\ \A n \in 1..Len(s) : s[n] \in Direct
  BY LenProperties, ElementOfSeq
<1>2. /\ Enc(s) \in Seq(Nat) /\ Len(Enc(s)) = Len(s)
      /\ \A n \in 1..Len(s) : s[n] \in Byte /\ Enc(s)[n] = encoder[s[n]]
  BY EncoderIsMap, FnMapType DEF Enc
<1>3. \A n \in 1..Len(s) : Enc(s)[n] = s[n]
  <2> SUFFICES ASSUME NEW n \in 1..Len(s) PROVE Enc(s)[n] = s[n]
    OBVIOUS
  <2>1. Enc(s)[n] = byte_encoder(s[n]) /\ s[n] \in Direct
    BY <1>1, <1>2, EncoderIsMap
  <2> QED
    BY <2>1 DEF byte_encoder
<1>4. s \in Seq(Nat)
  BY BytesArePieces DEF Piece
<1> QED
  BY <1>2, <1>3, <1>4, SeqEqual

(* The points of encoded bytes decode to the bytes.                        *)
LEMMA EncDecodes ==
  ASSUME NEW s \in Seq(Byte)
  PROVE  /\ \A n \in DOMAIN Enc(s) : Enc(s)[n] \in DOMAIN byte_decoder
         /\ [n \in DOMAIN Enc(s) |-> byte_decoder[Enc(s)[n]]] = s
<1>1. /\ Enc(s) \in Seq(Nat) /\ Len(Enc(s)) = Len(s)
      /\ \A n \in 1..Len(s) : s[n] \in Byte /\ Enc(s)[n] = encoder[s[n]]
  BY EncoderIsMap, FnMapType DEF Enc
<1>2. DOMAIN Enc(s) = 1..Len(s) /\ DOMAIN s = 1..Len(s) /\ s \in [1..Len(s) -> Byte]
  BY <1>1, LenProperties
<1>3. \A n \in 1..Len(s) : Enc(s)[n] \in DOMAIN byte_decoder /\ byte_decoder[Enc(s)[n]] = s[n]
  <2> SUFFICES ASSUME NEW n \in 1..Len(s)
               PROVE  Enc(s)[n] \in DOMAIN byte_decoder /\ byte_decoder[Enc(s)[n]] = s[n]
    OBVIOUS
  <2>1. Enc(s)[n] = byte_encoder(s[n]) /\ s[n] \in Byte
    BY <1>1, EncoderIsMap
  <2> QED
    BY <2>1, EncoderFacts
<1>4. [n \in 1..Len(s) |-> byte_decoder[Enc(s)[n]]] = [n \in 1..Len(s) |-> s[n]]
  BY <1>3
<1> QED
  BY <1>2, <1>3, <1>4

LEMMA OneMoreSingle ==
  ASSUME NEW S, NEW f, IsMap(f, S, Seq(S)), NEW s \in Seq(S), NEW x \in S
  PROVE  MapJoin(f, s) = s /\ f[x] = <<x>> => MapJoin(f, s \o <<x>>) = s \o <<x>>
<1> DEFINE u == <<x>>
<1>1. MapJoin(f, <<x>>) = f[x]
  BY MapJoinSingle, Zenon
<1>2. u \in Seq(S)
  BY Single, Zenon
<1> HIDE DEF u
<1>3. MapJoin(f, s \o u) = MapJoin(f, s) \o MapJoin(f, u)
  BY <1>2, MapJoinConcat
<1> QED
  BY <1>1, <1>3, Zenon DEF u

LEMMA JoinSingles ==
  ASSUME NEW S, NEW t \in Seq(S)
  PROVE  FlattenSeq([n \in DOMAIN t |-> <<t[n]>>]) = t
<1> DEFINE f == [x \in S |-> <<x>>]
           m == Len(t)
           part(n) == SubSeq(t, 1, n)
           G == {n \in 0..m : MapJoin(f, part(n)) = part(n)}
<1>1. m \in Nat /\ \A n \in 1..m : t[n] \in S
  BY LenProperties, ElementOfSeq
<1>2. IsMap(f, S, Seq(S)) /\ \A x \in S : f[x] = <<x>>
  BY Single DEF IsMap
<1> HIDE DEF f
<1>9. ASSUME NEW s \in Seq(S), NEW x \in S
      PROVE  MapJoin(f, s) = s /\ f[x] = <<x>> => MapJoin(f, s \o <<x>>) = s \o <<x>>
  <2> HIDE DEF G, part, m
  <2> QED
    BY <1>2, OneMoreSingle
<1>3. \A n \in 0..m : part(n) \in Seq(S)
  <2> SUFFICES ASSUME NEW n \in 0..m PROVE part(n) \in Seq(S)
    OBVIOUS
  <2>1. \A i \in 1..n : t[i] \in S
    BY <1>1
  <2> QED
    BY <2>1, SubSeqProperties
<1>4. 0 \in G
  <2>1. part(0) = <<>>
    BY SubSeqEmpty
  <2>2. MapJoin(f, <<>>) = <<>>
    BY EmptySeq DEF MapJoin, FnMap, FlattenSeq
  <2> HIDE DEF part
  <2>3. 0 \in 0..m /\ MapJoin(f, part(0)) = part(0)
    BY <1>1, <2>1, <2>2
  <2> QED
    BY <2>3
<1>5. ASSUME NEW n \in G, n < m
      PROVE  n + 1 \in G
  <2>1. n \in 0..m /\ n + 1 \in 1..m /\ (n + 1) - 1 = n /\ n + 1 \in 0..m
    BY <1>1, <1>5
  <2> DEFINE x == t[n + 1]
             u == <<x>>
             s == part(n)
  <2>2. x \in S /\ s \in Seq(S) /\ MapJoin(f, s) = s
    BY <1>1, <1>3, <2>1
  <2>3. part(n + 1) = s \o u
    <3>1. 1 \in 1..Len(t) /\ n + 1 \in 1..Len(t)
      BY <1>1, <2>1
    <3>2. SubSeq(t, 1, n + 1) = SubSeq(t, 1, (n + 1) - 1) \o <<t[n + 1]>>
      BY <3>1, SubSeqRecursiveSecond
    <3> QED
      BY <2>1, <3>2
  <2> HIDE DEF G, part, s, x
  <2>4. MapJoin(f, s \o <<x>>) = s \o <<x>>
    BY <1>2, <1>9, <2>2, Zenon
  <2>5. MapJoin(f, part(n + 1)) = part(n + 1)
    BY <2>3, <2>4, Zenon
  <2> QED
    BY <2>1, <2>5, Zenon DEF G
<1>6. 0..m \subseteq G
  <2> HIDE DEF G, m
  <2> QED
    BY <1>1, <1>4, <1>5, Upwards
<1>7. MapJoin(f, t) = t
  <2>1. part(m) = t
    BY SubSeqFull
  <2>2. m \in G
    BY <1>1, <1>6
  <2> HIDE DEF part
  <2> QED
    BY <2>1, <2>2
<1>8. FnMap(f, t) = [n \in DOMAIN t |-> <<t[n]>>]
  <2>1. DOMAIN t = 1..m
    BY LenProperties
  <2> QED
    BY <1>1, <1>2, <2>1 DEF FnMap
<1> QED
  BY <1>7, <1>8, Zenon DEF MapJoin

(* What Pretoken makes of a pretoken: its points, each a symbol.           *)
LEMMA SymbolsOfPretoken ==
  ASSUME NEW s \in Seq(Byte)
  PROVE  FlattenSeq([n \in DOMAIN s |-> <<byte_encoder(s[n])>>]) = Enc(s)
<1>1. /\ Enc(s) \in Seq(Nat) /\ Len(Enc(s)) = Len(s)
      /\ \A n \in 1..Len(s) : s[n] \in Byte /\ Enc(s)[n] = encoder[s[n]]
  BY EncoderIsMap, FnMapType DEF Enc
<1>2. DOMAIN Enc(s) = 1..Len(s) /\ DOMAIN s = 1..Len(s)
  BY <1>1, LenProperties
<1>3. \A n \in 1..Len(s) : Enc(s)[n] = byte_encoder(s[n])
  BY <1>1, EncoderIsMap
<1>4. [n \in DOMAIN s |-> <<byte_encoder(s[n])>>] = [n \in DOMAIN Enc(s) |-> <<Enc(s)[n]>>]
  BY <1>2, <1>3
<1>5. FlattenSeq([n \in DOMAIN Enc(s) |-> <<Enc(s)[n]>>]) = Enc(s)
  BY <1>1, JoinSingles
<1> QED
  BY <1>4, <1>5

------------------------------------------------------------------------------
(* What has been encoded decodes to the text                               *)

composing == [part \in Part |-> IF part.added THEN part.bytes ELSE normalize_nfc(part.bytes)]

LEMMA ComposingFacts ==
  /\ IsMap(composing, Part, Seq(Byte))
  /\ \A b \in Seq(Byte) : composing[Plain(b)] = normalize_nfc(b) /\ composing[Special(b)] = b
  /\ composing[Plain(<<>>)] = <<>>
<1>1. \A part \in Part : (IF part.added THEN part.bytes ELSE normalize_nfc(part.bytes)) \in Seq(Byte)
  <2>1. \A part \in Part : part.bytes \in Seq(Byte)
    BY DEF Part
  <2> QED
    BY <2>1, NfcType
<1>2. IsMap(composing, Part, Seq(Byte))
  BY <1>1 DEF IsMap, composing
<1>3. ASSUME NEW b \in Seq(Byte)
      PROVE  composing[Plain(b)] = normalize_nfc(b) /\ composing[Special(b)] = b
  <2>1. Plain(b) \in Part /\ Special(b) \in Part
    BY PartTypes
  <2>2. ~Plain(b).added /\ Plain(b).bytes = b /\ Special(b).added /\ Special(b).bytes = b
    BY DEF Plain, Special
  <2> QED
    BY <2>1, <2>2, Zenon DEF composing
<1>4. composing[Plain(<<>>)] = <<>>
  <2>1. <<>> \in Seq(Byte)
    BY EmptySeq
  <2>2. normalize_nfc(<<>>) = <<>>
    BY <2>1, NfcType
  <2> QED
    BY <1>3, <2>1, <2>2
<1> QED
  BY <1>2, <1>3, <1>4

Points(ids) == MapJoin(pieces, ids)
Total == Enc(From(composing, 1))

DInv ==
  /\ pc \in {"scan"} \cup Inside => output \in Seq(Ids)
  /\ pc = "scan" => Points(output) \o Enc(From(composing, cursor)) = Total
  /\ pc \in Inside =>
       Points(output) \o Enc(FlattenSeq(pretokens) \o FromSpecial(composing, special)) = Total
  /\ pc \in {"merge", "emit"} => FlattenSeq(symbols) = Enc(Head(pretokens))
  /\ result = "ok" => Points(output) = Total

LEMMA KeptFrom ==
  ASSUME json' = json, text' = text
  PROVE  (\A f, p : From(f, p)' = From(f, p)) /\ Total' = Total
<1>1. PartsAt' = PartsAt
  BY KeptParts
<1>2. \A f, p : From(f, p)' = From(f, p)
  BY <1>1, Zenon DEF From
<1> QED
  BY <1>2, Zenon DEF Total

LEMMA KeptSpecial ==
  ASSUME Kept, cursor' = cursor
  PROVE  \A f, last : FromSpecial(f, last)' = FromSpecial(f, last)
<1>1. \A f, p : From(f, p)' = From(f, p)
  BY KeptFrom DEF Kept
<1>2. \A c : Found(c)' = Found(c)
  BY KeptFacts
<1> QED
  BY <1>1, <1>2, Zenon DEF FromSpecial

LEMMA KeptPoints ==
  ASSUME Kept
  PROVE  pieces' = pieces /\ Points(output)' = Points(output')
BY DEF Kept, tokenizerVars, Points

LEMMA PointsFacts ==
  ASSUME Loaded
  PROVE  /\ IsMap(pieces, Ids, Seq(Nat))
         /\ \A ids \in Seq(Ids) : Points(ids) \in Seq(Nat)
         /\ \A s, t \in Seq(Ids) : Points(s \o t) = Points(s) \o Points(t)
         /\ \A id \in Ids : Points(<<id>>) = pieces[id]
         /\ Points(<<>>) = <<>>
<1>1. IsMap(pieces, Ids, Seq(Nat))
  BY PiecesFacts DEF Piece
<1>2. \A ids \in Seq(Ids) : Points(ids) \in Seq(Nat)
  BY <1>1, MapJoinType DEF Points
<1>3. ASSUME NEW s \in Seq(Ids), NEW t \in Seq(Ids)
      PROVE  Points(s \o t) = Points(s) \o Points(t)
  BY <1>1, MapJoinConcat DEF Points
<1>4. ASSUME NEW id \in Ids
      PROVE  Points(<<id>>) = pieces[id]
  BY <1>1, MapJoinSingle, Zenon DEF Points
<1>5. Points(<<>>) = <<>>
  BY EmptySeq DEF Points, MapJoin, FnMap, FlattenSeq
<1> QED
  BY <1>1, <1>2, <1>3, <1>4, <1>5

(* The points of tokens of symbols are those of the symbols.               *)
LEMMA PointsOfTokens ==
  ASSUME Loaded, Consistent, NEW s \in Seq(Piece), Range(s) \subseteq DOMAIN token_ids
  PROVE  /\ [n \in DOMAIN s |-> token_ids[s[n]]] \in Seq(Ids)
         /\ Points([n \in DOMAIN s |-> token_ids[s[n]]]) = FlattenSeq(s)
<1> DEFINE t == [n \in DOMAIN s |-> token_ids[s[n]]]
<1>1. DOMAIN s = 1..Len(s) /\ Len(s) \in Nat /\ \A n \in 1..Len(s) : s[n] \in DOMAIN token_ids
  BY RangeIs
<1>2. \A n \in 1..Len(s) : token_ids[s[n]] \in Ids /\ pieces[token_ids[s[n]]] = s[n]
  BY <1>1, IdsValid, ConsistentFacts
<1>3. t \in Seq(Ids) /\ DOMAIN t = 1..Len(s) /\ \A n \in 1..Len(s) : t[n] = token_ids[s[n]]
  <2>1. t = [n \in 1..Len(s) |-> token_ids[s[n]]]
    BY <1>1
  <2> QED
    BY <1>1, <1>2, <2>1
<1> HIDE DEF t
<1>4. FnMap(pieces, t) = s
  <2>1. s = [n \in 1..Len(s) |-> s[n]]
    BY LenProperties
  <2>2. FnMap(pieces, t) = [n \in 1..Len(s) |-> pieces[t[n]]]
    BY <1>3, Zenon DEF FnMap
  <2>3. \A n \in 1..Len(s) : pieces[t[n]] = s[n]
    BY <1>2, <1>3
  <2> QED
    BY <2>1, <2>2, <2>3
<1>5. Points(t) = FlattenSeq(s)
  BY <1>4, Zenon DEF Points, MapJoin
<1> QED
  BY <1>3, <1>5 DEF t

LEMMA EncSplit ==
  ASSUME NEW p \in Piece, NEW a \in Seq(Byte), NEW b \in Seq(Byte), NEW c \in Seq(Byte)
  PROVE  p \o Enc((a \o b) \o c) = (p \o Enc(a)) \o Enc(b \o c)
<1>1. (a \o b) \o c = a \o (b \o c) /\ b \o c \in Seq(Byte)
  <2>1. AssociativeOn(Seq(Byte))
    BY Associative, Zenon
  <2> QED
    BY <2>1, ConcatProperties DEF AssociativeOn
<1> DEFINE d == b \o c
<1>2. d \in Seq(Byte)
  BY <1>1
<1> HIDE DEF d
<1>3. Enc(a \o d) = Enc(a) \o Enc(d) /\ Enc(a) \in Piece /\ Enc(d) \in Piece
  BY <1>2, EncFacts
<1>4. p \o (Enc(a) \o Enc(d)) = (p \o Enc(a)) \o Enc(d)
  <2>1. AssociativeOn(Piece)
    BY Associative, Zenon DEF Piece
  <2> QED
    BY <1>3, <2>1 DEF AssociativeOn
<1> QED
  BY <1>1, <1>3, <1>4 DEF d

LEMMA ComposedType ==
  Loaded /\ Consistent /\ text \in Texts =>
    /\ \A p \in 1..Len(text) + 1 : From(composing, p) \in Seq(Byte)
    /\ From(composing, 1) \in Seq(Byte) /\ Total \in Piece
<1> SUFFICES ASSUME Loaded, Consistent, text \in Texts
             PROVE  /\ \A p \in 1..Len(text) + 1 : From(composing, p) \in Seq(Byte)
                    /\ From(composing, 1) \in Seq(Byte) /\ Total \in Piece
  OBVIOUS
<1>1. \A p \in 1..Len(text) + 1 : From(composing, p) \in Seq(Byte)
  BY ComposingFacts, FromType
<1>2. From(composing, 1) \in Seq(Byte)
  <2>1. 1 \in 1..Len(text) + 1
    BY TextType
  <2> QED
    BY <1>1, <2>1
<1> QED
  BY <1>1, <1>2, EncFacts DEF Total

LEMMA LoadDInv == IInv /\ IInv' /\ Consistent /\ from_json => DInv'
<1> SUFFICES ASSUME IInv, IInv', Consistent, from_json PROVE DInv'
  OBVIOUS
<1>1. json' = json /\ text' = text /\ output' = <<>> /\ cursor' = 1 /\ result = "none"
  BY DEF from_json, IInv
<1>2. CASE json_valid(json)
  <2>1. pc' = "scan" /\ result' = "none"
    BY <1>1, <1>2, Zenon DEF from_json, Goto
  <2>2. Loaded' /\ Consistent' /\ text' \in Texts
    BY <1>1, <2>1, KeptParts DEF IInv
  <2>3. (Total \in Piece)'
    <3>1. (Loaded /\ Consistent /\ text \in Texts =>
             /\ \A p \in 1..Len(text) + 1 : From(composing, p) \in Seq(Byte)
             /\ From(composing, 1) \in Seq(Byte) /\ Total \in Piece)'
      BY ComposedType, PTL
    <3> QED
      BY <2>2, <3>1
  <2>4. Points(output)' = <<>>
    BY <1>1, EmptySeq DEF Points, MapJoin, FnMap, FlattenSeq
  <2>5. Enc(From(composing, cursor))' = Total'
    BY <1>1, Zenon DEF Total
  <2>6. <<>> \o Total' = Total'
    BY <2>3, ConcatEmptySeq DEF Piece
  <2>7. output' \in Seq(Ids)
    BY <1>1, EmptySeq
  <2> HIDE DEF Total, Points
  <2>8. (Points(output) \o Enc(From(composing, cursor)))' = Total'
    BY <2>4, <2>5, <2>6, Zenon
  <2> QED
    BY <2>1, <2>7, <2>8 DEF DInv, Inside
<1>3. CASE ~json_valid(json)
  <2>1. pc' = "returned" /\ result' = "corrupt"
    BY <1>3, Zenon DEF from_json, Return
  <2> QED
    BY <2>1 DEF DInv, Inside
<1> QED
  BY <1>2, <1>3

LEMMA ScanDInv == IInv /\ Consistent /\ DInv /\ Scan => DInv'
<1> SUFFICES ASSUME IInv, Consistent, DInv, Scan PROVE DInv'
  OBVIOUS
<1>1. /\ Kept /\ cursor' = cursor /\ output' = output /\ json' = json /\ text' = text
  BY DEF Scan, Kept, tokenizerVars
<1>2. /\ pc = "scan" /\ Loaded /\ text \in Texts /\ cursor \in Nat \ {0} /\ result = "none"
      /\ cursor <= Len(text) + 1 /\ output \in Seq(Ids)
      /\ Points(output) \o Enc(From(composing, cursor)) = Total
  BY DEF IInv, DInv, Scan, Inside
<1>3. text \in Seq(Byte) /\ Len(text) \in Nat
  BY <1>2, TextType
<1>4. Points(output)' = Points(output) /\ Total' = Total /\ Points(output) \in Piece
  BY <1>1, <1>2, KeptPoints, KeptFrom, PointsFacts DEF Piece
<1>5. CASE cursor > Len(text)
  <2>1. pc' = "returned" /\ result' = "ok"
    BY <1>5, Zenon DEF Scan, Return
  <2>2. PartsAt[cursor] = <<>>
    <3>1. cursor \in 1..Len(text) + 1
      BY <1>2, <1>3
    <3>2. PartsAt[cursor] = PartsStep(cursor, PartsAt)
      BY <1>2, <3>1, PartsSteps
    <3> QED
      BY <1>5, <3>2, Zenon DEF PartsStep
  <2>3. From(composing, cursor) = <<>>
    BY <2>2, EmptySeq DEF From, MapJoin, FnMap, FlattenSeq
  <2>4. Points(output) \o <<>> = Points(output)
    BY <1>4, ConcatEmptySeq DEF Piece
  <2>5. Points(output) = Total
    <3>1. Enc(<<>>) = <<>>
      BY EncFacts
    <3> QED
      BY <1>2, <2>3, <2>4, <3>1, Zenon
  <2> HIDE DEF Points, Total
  <2>6. (Points(output) = Total)'
    BY <1>4, <2>5
  <2> QED
    BY <2>1, <2>6 DEF DInv, Inside
<1>6. CASE ~(cursor > Len(text))
  <2>0. cursor \in 1..Len(text)
    BY <1>2, <1>3, <1>6
  <2>1. /\ pretokens' = Pretokens(Segment) /\ special' = FirstSpecial
        /\ pc' = "segment" /\ result' = "none"
    BY <1>2, <1>6, Zenon DEF Scan, Goto, Segment
  <2>2. FlattenSeq(pretokens') = composing[Plain(Segment)]
    <3>1. Segment \in Seq(Byte)
      BY <1>2, <2>0, SegmentType
    <3> QED
      BY <2>1, <3>1, PretokensFacts, ComposingFacts
  <2>3. FromSpecial(composing, special)' = FromSpecial(composing, FirstSpecial)
    <3>1. FromSpecial(composing, FirstSpecial)' = FromSpecial(composing, FirstSpecial')
      <4>1. \A last : FromSpecial(composing, last)' = FromSpecial(composing, last)
        BY <1>1, KeptSpecial
      <4>2. FirstSpecial' = FirstSpecial
        BY <1>1, KeptFacts
      <4> QED
        BY <4>1, <4>2, Zenon DEF FromSpecial
    <3>2. \A last : FromSpecial(composing, last)' = FromSpecial(composing, last)
      BY <1>1, KeptSpecial
    <3>3. \A c : Found(c)' = Found(c)
      BY <1>1, KeptFacts
    <3>4. \A f, p : From(f, p)' = From(f, p)
      BY <1>1, KeptFrom
    <3> QED
      BY <2>1, <3>3, <3>4, Zenon DEF FromSpecial
  <2>4. From(composing, cursor) = composing[Plain(Segment)] \o FromSpecial(composing, FirstSpecial)
    BY <1>2, <2>0, ComposingFacts, FromCursor
  <2>5. (FlattenSeq(pretokens) \o FromSpecial(composing, special))' = From(composing, cursor)
    BY <2>2, <2>3, <2>4, Zenon
  <2>6. (Points(output) \o Enc(FlattenSeq(pretokens) \o FromSpecial(composing, special)))' = Total'
    BY <1>2, <1>4, <2>5, Zenon
  <2> HIDE DEF Points, Total
  <2> QED
    BY <1>1, <1>2, <2>1, <2>6 DEF DInv, Inside
<1> QED
  BY <1>5, <1>6

LEMMA SpecialKept ==
  ASSUME Kept, cursor' = cursor
  PROVE  \A f : FromSpecial(f, special)' = FromSpecial(f, special')
<1>1. \A c : Found(c)' = Found(c)
  BY KeptFacts
<1>2. \A f, p : From(f, p)' = From(f, p)
  BY KeptFrom DEF Kept
<1> QED
  BY <1>1, <1>2, Zenon DEF FromSpecial

(* The rest behind a segment *)
LEMMA SpecialType ==
  ASSUME IInv, Consistent, pc \in Inside
  PROVE  FromSpecial(composing, special) \in Seq(Byte)
<1>1. Loaded /\ text \in Texts /\ cursor \in 1..Len(text) /\ special = FirstSpecial
  BY TextType DEF IInv, Inside
<1>2. FromSpecial(composing, FirstSpecial) \in Seq(Byte)
  BY <1>1, ComposingFacts, FromCursor
<1> QED
  BY <1>1, <1>2

LEMMA PretokenDInv == IInv /\ Consistent /\ DInv /\ Pretoken => DInv'
<1> SUFFICES ASSUME IInv, Consistent, DInv, Pretoken PROVE DInv'
  OBVIOUS
<1>1. /\ Kept /\ cursor' = cursor /\ pretokens' = pretokens /\ output' = output
      /\ special' = special /\ result' = result /\ json' = json /\ text' = text
      /\ pc = "segment" /\ pc' = "merge" /\ pretokens # <<>>
      /\ symbols' = [n \in DOMAIN Head(pretokens) |-> <<byte_encoder(Head(pretokens)[n])>>]
  BY DEF Pretoken, Kept, Goto, tokenizerVars
<1>2. Points(output)' = Points(output) /\ Total' = Total
      /\ FromSpecial(composing, special)' = FromSpecial(composing, special)
  BY <1>1, KeptPoints, KeptFrom, SpecialKept
<1>3. Head(pretokens) \in Seq(Byte)
  BY <1>1, HeadTailProperties DEF IInv
<1>4. FlattenSeq(symbols') = Enc(Head(pretokens))
  BY <1>1, <1>3, SymbolsOfPretoken
<1>5. output \in Seq(Ids) /\ result = "none"
      /\ Points(output) \o Enc(FlattenSeq(pretokens) \o FromSpecial(composing, special)) = Total
  BY <1>1 DEF DInv, IInv, Inside
<1>6. (Points(output) \o Enc(FlattenSeq(pretokens) \o FromSpecial(composing, special)))' = Total'
  BY <1>1, <1>2, <1>5, Zenon
<1>7. (FlattenSeq(symbols) = Enc(Head(pretokens)))'
  BY <1>1, <1>4, Zenon
<1> HIDE DEF Points, Total
<1> QED
  BY <1>1, <1>5, <1>6, <1>7 DEF DInv, Inside

LEMMA MergePassDInv == IInv /\ Consistent /\ DInv /\ MergePass => DInv'
<1> SUFFICES ASSUME IInv, Consistent, DInv, MergePass PROVE DInv'
  OBVIOUS
<1>1. /\ Kept /\ cursor' = cursor /\ pretokens' = pretokens /\ output' = output
      /\ special' = special /\ result' = result /\ json' = json /\ text' = text
  BY DEF MergePass, Kept, tokenizerVars
<1>2. pc = "merge" /\ pc' \in {"merge", "emit"} /\ FlattenSeq(symbols') = FlattenSeq(symbols)
  BY MergePassFacts
<1>3. Points(output)' = Points(output) /\ Total' = Total
      /\ FromSpecial(composing, special)' = FromSpecial(composing, special)
  BY <1>1, KeptPoints, KeptFrom, SpecialKept
<1>4. output \in Seq(Ids) /\ result = "none" /\ FlattenSeq(symbols) = Enc(Head(pretokens))
      /\ Points(output) \o Enc(FlattenSeq(pretokens) \o FromSpecial(composing, special)) = Total
  BY <1>2 DEF DInv, IInv, Inside
<1>5. (Points(output) \o Enc(FlattenSeq(pretokens) \o FromSpecial(composing, special)))' = Total'
  BY <1>1, <1>3, <1>4, Zenon
<1>6. (FlattenSeq(symbols) = Enc(Head(pretokens)))'
  BY <1>1, <1>2, <1>4, Zenon
<1> QED
  BY <1>1, <1>2, <1>4, <1>5, <1>6 DEF DInv, Inside

LEMMA EmitDInv == IInv /\ Consistent /\ DInv /\ Emit => DInv'
<1> SUFFICES ASSUME IInv, Consistent, DInv, Emit PROVE DInv'
  OBVIOUS
<1>1. /\ Kept /\ cursor' = cursor /\ symbols' = symbols
      /\ special' = special /\ json' = json /\ text' = text /\ pc = "emit"
  BY DEF Emit, Kept, tokenizerVars
<1>2. /\ Loaded /\ output \in Seq(Ids) /\ result = "none" /\ symbols \in Seq(Piece)
      /\ pretokens \in Seq(Seq(Byte)) /\ pretokens # <<>>
      /\ FlattenSeq(symbols) = Enc(Head(pretokens))
      /\ Points(output) \o Enc(FlattenSeq(pretokens) \o FromSpecial(composing, special)) = Total
  BY <1>1 DEF DInv, IInv, Inside
<1>3. CASE Range(symbols) \subseteq DOMAIN token_ids
  <2> DEFINE ids == [n \in DOMAIN symbols |-> token_ids[symbols[n]]]
             rest == FromSpecial(composing, special)
             h == Head(pretokens)
             t == Tail(pretokens)
  <2>1. output' = output \o ids /\ pretokens' = t /\ pc' = "segment" /\ result' = result
    BY <1>3, Zenon DEF Emit, Goto
  <2>2. ids \in Seq(Ids) /\ Points(ids) = FlattenSeq(symbols)
    BY <1>2, <1>3, PointsOfTokens
  <2>3. rest \in Seq(Byte)
    BY <1>1, SpecialType DEF Inside
  <2>4. h \in Seq(Byte) /\ t \in Seq(Seq(Byte)) /\ pretokens = <<h>> \o t
    BY <1>2, HeadOfSeq
  <2>5. FlattenSeq(t) \in Seq(Byte)
    BY <2>4, JoinType
  <2> HIDE DEF ids, rest, h, t
  <2>6. FlattenSeq(pretokens) = h \o FlattenSeq(t)
    <3>1. FlattenSeq(<<h>> \o t) = h \o FlattenSeq(t)
      BY <2>4, JoinCons
    <3> QED
      BY <2>4, <3>1, Zenon
  <2>7. Points(output \o ids) = Points(output) \o Enc(h) /\ Points(output) \in Piece
    BY <1>2, <2>2, PointsFacts DEF h, Piece
  <2>8. Points(output) \o Enc((h \o FlattenSeq(t)) \o rest)
          = (Points(output) \o Enc(h)) \o Enc(FlattenSeq(t) \o rest)
    BY <2>3, <2>4, <2>5, <2>7, EncSplit
  <2>9. Points(output \o ids) \o Enc(FlattenSeq(t) \o rest) = Total
    BY <1>2, <2>6, <2>7, <2>8, Zenon DEF rest
  <2>10. Points(output)' = Points(output \o ids) /\ Total' = Total /\ FromSpecial(composing, special)' = rest
    <3>1. Points(output)' = Points(output')
      BY <1>1, KeptPoints
    <3>2. Total' = Total /\ FromSpecial(composing, special)' = FromSpecial(composing, special')
      BY <1>1, KeptFrom, SpecialKept
    <3> QED
      BY <1>1, <2>1, <3>1, <3>2, Zenon DEF rest
  <2>11. (Points(output) \o Enc(FlattenSeq(pretokens) \o FromSpecial(composing, special)))' = Total'
    BY <2>1, <2>9, <2>10, Zenon
  <2>12. output' \in Seq(Ids)
    BY <1>2, <2>1, <2>2, ConcatProperties
  <2> QED
    BY <1>2, <2>1, <2>11, <2>12 DEF DInv, Inside
<1>4. CASE ~(Range(symbols) \subseteq DOMAIN token_ids)
  <2>1. pc' = "returned" /\ result' = "corrupt"
    BY <1>4, Zenon DEF Emit, Return
  <2> QED
    BY <2>1 DEF DInv, Inside
<1> QED
  BY <1>3, <1>4

LEMMA SegmentEndsDInv == IInv /\ Consistent /\ DInv /\ SegmentEnds => DInv'
<1> SUFFICES ASSUME IInv, Consistent, DInv, SegmentEnds PROVE DInv'
  OBVIOUS
<1>1. /\ Kept /\ symbols' = symbols /\ pretokens' = pretokens /\ pretokens = <<>>
      /\ special' = special /\ json' = json /\ text' = text /\ pc = "segment"
  BY DEF SegmentEnds, Kept, tokenizerVars
<1>2. /\ Loaded /\ output \in Seq(Ids) /\ result = "none" /\ text \in Texts /\ cursor \in Nat \ {0}
      /\ Points(output) \o Enc(FlattenSeq(pretokens) \o FromSpecial(composing, special)) = Total
  BY <1>1 DEF DInv, IInv, Inside
<1> DEFINE rest == FromSpecial(composing, special)
<1>3. rest \in Seq(Byte)
  BY <1>1, SpecialType DEF Inside
<1>4. FlattenSeq(pretokens) \o rest = rest
  <2>1. FlattenSeq(pretokens) = <<>>
    BY <1>1, EmptySeq DEF FlattenSeq
  <2> HIDE DEF rest
  <2>2. <<>> \o rest = rest
    BY <1>3, ConcatEmptySeq
  <2> QED
    BY <2>1, <2>2
<1>5. Points(output) \o Enc(rest) = Total
  BY <1>2, <1>4, Zenon
<1>6. Total' = Total /\ Points(output) \in Piece /\ Points(output)' = Points(output')
  BY <1>1, <1>2, KeptPoints, KeptFrom, PointsFacts DEF Piece
<1>7. CASE special = <<>>
  <2>1. output' = output /\ pc' = "returned" /\ result' = "ok"
    BY <1>7, Zenon DEF SegmentEnds, Return
  <2>2. Enc(rest) = <<>>
    BY <1>7, EncFacts DEF FromSpecial
  <2>3. Points(output) \o <<>> = Points(output)
    BY <1>6, ConcatEmptySeq DEF Piece
  <2>4. (Points(output) = Total)'
    BY <1>5, <1>6, <2>1, <2>2, <2>3, Zenon
  <2> QED
    BY <2>1, <2>4 DEF DInv, Inside
<1>8. CASE special # <<>>
  <2> DEFINE t == special[1]
             c == t.content
             q == Found(c) + Len(c)
  <2>1. output' = Append(output, t.id) /\ cursor' = q /\ pc' = "scan" /\ result' = result
    BY <1>8, Zenon DEF SegmentEnds, Goto
  <2>2. t \in Entries /\ Found(c) \in cursor..Len(text) /\ Len(c) \in Nat /\ q <= Len(text) + 1
    BY <1>1, <1>8, SpecialEnds DEF Inside, EndsSegment
  <2>3. /\ c \in Seq(Direct) /\ c \in Seq(Byte) /\ t.id \in Ids /\ pieces[t.id] = c
    BY <1>2, <2>2, ConsistentFacts, IdsValid DEF AllEntries
  <2>4. rest = c \o From(composing, q)
    <3>1. composing[Special(c)] = c
      BY <2>3, ComposingFacts
    <3> QED
      BY <1>8, <3>1, Zenon DEF FromSpecial
  <2>5. q \in 1..Len(text) + 1
    BY <1>2, <2>2
  <2>6. From(composing, q) \in Seq(Byte)
    BY <1>2, <2>5, ComposedType
  <2> HIDE DEF q, c, t, rest
  <2> DEFINE u == <<t.id>>
             P == Points(output)
             F == From(composing, q)
  <2>7. output' = output \o u /\ u \in Seq(Ids)
    BY <1>2, <2>1, <2>3, AppendIsConcat
  <2>8. Points(u) = c
    BY <1>2, <2>3, PointsFacts
  <2> HIDE DEF u
  <2>9. Points(output \o u) = P \o c
    BY <1>2, <2>7, <2>8, PointsFacts
  <2>10. Enc(c \o F) = c \o Enc(F)
    <3>1. Enc(c) = c
      BY <2>3, EncDirect
    <3>2. Enc(c \o F) = Enc(c) \o Enc(F)
      BY <2>3, <2>6, EncFacts
    <3> QED
      BY <3>1, <3>2
  <2>11. P \o (c \o Enc(F)) = (P \o c) \o Enc(F)
    <3>1. AssociativeOn(Piece)
      BY Associative, Zenon DEF Piece
    <3>2. c \in Piece /\ Enc(F) \in Piece /\ P \in Piece
      BY <1>6, <2>3, <2>6, BytesArePieces, EncFacts
    <3> HIDE DEF P, F
    <3> QED
      BY <3>1, <3>2 DEF AssociativeOn
  <2>12. Points(output \o u) \o Enc(F) = Total
    BY <1>5, <2>4, <2>9, <2>10, <2>11, Zenon
  <2>13. From(composing, cursor)' = F
    <3>1. \A f, p : From(f, p)' = From(f, p)
      BY <1>1, KeptFrom
    <3> QED
      BY <2>1, <3>1, Zenon DEF From
  <2>14. (Points(output) \o Enc(From(composing, cursor)))' = Total'
    BY <1>6, <2>7, <2>12, <2>13, Zenon
  <2>15. output' \in Seq(Ids)
    BY <1>2, <2>7, ConcatProperties
  <2> QED
    BY <1>2, <2>1, <2>14, <2>15 DEF DInv, Inside
<1> QED
  BY <1>7, <1>8

LEMMA StutterDInv == IInv /\ DInv /\ UNCHANGED vars => DInv'
<1> SUFFICES ASSUME IInv, DInv, UNCHANGED vars PROVE DInv'
  OBVIOUS
<1>1. /\ Kept /\ cursor' = cursor /\ symbols' = symbols /\ pretokens' = pretokens
      /\ special' = special /\ json' = json /\ text' = text /\ pc' = pc /\ result' = result
      /\ output' = output
  BY DEF vars, Kept
<1>2. Total' = Total /\ Points(output)' = Points(output)
      /\ FromSpecial(composing, special)' = FromSpecial(composing, special)
      /\ From(composing, cursor)' = From(composing, cursor)
  <2>1. \A f, p : From(f, p)' = From(f, p)
    BY <1>1, KeptFrom
  <2>2. From(composing, cursor)' = From(composing, cursor)
    BY <1>1, <2>1, Zenon DEF From
  <2> QED
    BY <1>1, <2>2, KeptFrom, KeptPoints, SpecialKept
<1> HIDE DEF Total, Points
<1> QED
  BY <1>1, <1>2, Zenon DEF DInv

LEMMA NextDInv == IInv /\ IInv' /\ (Consistent => DInv) /\ [Next]_vars => (Consistent' => DInv')
<1> SUFFICES ASSUME IInv, IInv', Consistent => DInv, [Next]_vars, Consistent' PROVE DInv'
  OBVIOUS
<1>1. json' = json /\ text' = text
  BY DEF Next, vars, from_json, Scan, Pretoken, MergePass, Emit, SegmentEnds
<1>2. Consistent
  BY <1>1, KeptParts
<1> QED
  BY <1>2, LoadDInv, ScanDInv, PretokenDInv, MergePassDInv, EmitDInv, SegmentEndsDInv, StutterDInv
     DEF Next

(* What symbols are, and which text is refused                             *)
Made(x) ==
  \/ \E b \in Byte : x = <<byte_encoder(b)>>
  \/ \E pair \in DOMAIN merge_ranks : x = pair[1] \o pair[2]
Complete ==
  /\ \A point \in DOMAIN byte_decoder : <<point>> \in DOMAIN token_ids
  /\ \A pair \in DOMAIN merge_ranks : pair[1] \o pair[2] \in DOMAIN token_ids
CInv ==
  /\ pc \in {"merge", "emit"} => \A n \in 1..Len(symbols) : Made(symbols[n])
  /\ (result = "corrupt" /\ json_valid(json)) => ~Complete

LEMMA KeptMade ==
  ASSUME Kept
  PROVE  (\A x : Made(x)' = Made(x)) /\ Complete' = Complete /\ json_valid(json)' = json_valid(json)
<1>1. json' = json /\ merge_ranks' = merge_ranks /\ token_ids' = token_ids
  BY DEF Kept, tokenizerVars
<1>2. json_valid(json)' = json_valid(json)
  BY KeptFacts
<1>3. \A x : Made(x)' = Made(x)
  BY <1>1, Zenon DEF Made
<1>4. Complete' = Complete
  BY <1>1, Zenon DEF Complete
<1> QED
  BY <1>2, <1>3, <1>4

LEMMA PretokenCInv == IInv /\ CInv /\ Pretoken => CInv'
<1> SUFFICES ASSUME IInv, CInv, Pretoken PROVE CInv'
  OBVIOUS
<1>1. /\ Kept /\ result' = result /\ result = "none" /\ pc' = "merge"
      /\ pretokens \in Seq(Seq(Byte)) /\ pretokens # <<>>
      /\ symbols' = [n \in DOMAIN Head(pretokens) |-> <<byte_encoder(Head(pretokens)[n])>>]
  BY DEF Pretoken, Kept, Goto, tokenizerVars, IInv, Inside
<1> DEFINE h == Head(pretokens)
<1>2. h \in Seq(Byte)
  BY <1>1, HeadTailProperties
<1>3. symbols' = [n \in DOMAIN h |-> <<byte_encoder(h[n])>>]
  BY <1>1
<1> HIDE DEF h
<1>4. DOMAIN h = 1..Len(h) /\ Len(h) \in Nat /\ \A n \in 1..Len(h) : h[n] \in Byte
  BY <1>2, LenProperties, ElementOfSeq
<1>5. Len(symbols') = Len(h) /\ \A n \in 1..Len(h) : symbols'[n] = <<byte_encoder(h[n])>>
  BY <1>3, <1>4
<1>6. \A n \in 1..Len(symbols') : Made(symbols'[n])
  BY <1>4, <1>5, Zenon DEF Made
<1>7. \A n \in 1..Len(symbols') : Made(symbols[n])'
  <2> SUFFICES ASSUME NEW n \in 1..Len(symbols') PROVE Made(symbols[n])'
    OBVIOUS
  <2>1. merge_ranks' = merge_ranks
    BY <1>1 DEF Kept, tokenizerVars
  <2>2. Made(symbols'[n])
    BY <1>6
  <2> QED
    BY <2>1, <2>2, Zenon DEF Made
<1> QED
  BY <1>1, <1>7 DEF CInv

LEMMA MergePassCInv == IInv /\ CInv /\ MergePass => CInv'
<1> SUFFICES ASSUME IInv, CInv, MergePass PROVE CInv'
  OBVIOUS
<1>1. Kept /\ result' = result /\ merge_ranks' = merge_ranks
  BY DEF MergePass, Kept, tokenizerVars
<1>2. pc = "merge" /\ result = "none" /\ symbols \in Seq(Piece) /\ MergesLoaded
      /\ \A n \in 1..Len(symbols) : Made(symbols[n])
  BY DEF MergePass, IInv, CInv, Inside, Loaded, MergesLoaded
<1>3. \A n \in 1..Len(symbols') : Made(symbols'[n])
  <2>1. CASE Len(symbols) > 1 /\ RankedPairs(symbols) # {}
    <3> DEFINE best == BestPair(symbols)
    <3>1. symbols' = merge_all(symbols, best)
      BY <2>1 DEF MergePass
    <3>2. best \in DOMAIN merge_ranks
      BY <1>2, <2>1, BestPairFacts
    <3> HIDE DEF best
    <3>3. \A i \in 1..Len(merge_all(symbols, best)) :
            \/ \E k \in 1..Len(symbols) : merge_all(symbols, best)[i] = symbols[k]
            \/ merge_all(symbols, best)[i] = best[1] \o best[2]
      BY <1>2, MergeAllFacts
    <3>4. Made(best[1] \o best[2])
      BY <3>2, Zenon DEF Made
    <3> QED
      BY <1>2, <3>1, <3>3, <3>4, Zenon
  <2>2. CASE ~(Len(symbols) > 1 /\ RankedPairs(symbols) # {})
    <3>1. symbols' = symbols
      BY <2>2, Zenon DEF MergePass
    <3> QED
      BY <1>2, <3>1
  <2> QED
    BY <2>1, <2>2
<1>4. \A n \in 1..Len(symbols') : Made(symbols[n])'
  <2> SUFFICES ASSUME NEW n \in 1..Len(symbols') PROVE Made(symbols[n])'
    OBVIOUS
  <2>1. Made(symbols'[n])
    BY <1>3
  <2> QED
    BY <1>1, <2>1, Zenon DEF Made
<1> QED
  BY <1>1, <1>2, <1>4 DEF CInv

LEMMA EmitCInv == IInv /\ CInv /\ Emit => CInv'
<1> SUFFICES ASSUME IInv, CInv, Emit PROVE CInv'
  OBVIOUS
<1>1. Kept /\ pc = "emit"
  BY DEF Emit, Kept, tokenizerVars
<1>2. Complete' = Complete
  BY <1>1, KeptMade
<1>3. CASE Range(symbols) \subseteq DOMAIN token_ids
  <2>1. pc' = "segment" /\ result' = "none"
    BY <1>1, <1>3, Zenon DEF Emit, Goto, IInv, Inside
  <2> QED
    BY <2>1 DEF CInv
<1>4. CASE ~(Range(symbols) \subseteq DOMAIN token_ids)
  <2>1. pc' = "returned"
    BY <1>4, Zenon DEF Emit, Return
  <2>2. symbols \in Seq(Piece) /\ \A n \in 1..Len(symbols) : Made(symbols[n])
    BY <1>1 DEF IInv, CInv
  <2>3. PICK x \in Range(symbols) : x \notin DOMAIN token_ids
    BY <1>4
  <2>4. Made(x)
    <3>1. \A y \in Range(symbols) : \E n \in DOMAIN symbols : symbols[n] = y
      BY <2>2, RangeIs
    <3>2. DOMAIN symbols = 1..Len(symbols)
      BY <2>2, LenProperties
    <3> QED
      BY <2>2, <3>1, <3>2, Zenon
  <2>5. ~Complete
    <3>1. ASSUME NEW b \in Byte, x = <<byte_encoder(b)>>
          PROVE  ~Complete
      <4>1. byte_encoder(b) \in DOMAIN byte_decoder
        BY EncoderFacts
      <4> QED
        BY <2>3, <3>1, <4>1, Zenon DEF Complete
    <3>2. ASSUME NEW pair \in DOMAIN merge_ranks, x = pair[1] \o pair[2]
          PROVE  ~Complete
      BY <2>3, <3>2, Zenon DEF Complete
    <3> QED
      BY <2>4, <3>1, <3>2, Zenon DEF Made
  <2> QED
    BY <1>2, <2>1, <2>5 DEF CInv
<1> QED
  BY <1>3, <1>4

LEMMA NextCInv == IInv /\ IInv' /\ CInv /\ [Next]_vars => CInv'
<1> SUFFICES ASSUME IInv, IInv', CInv, [Next]_vars PROVE CInv'
  OBVIOUS
<1>1. CASE from_json
  <2>1. pc' \in {"scan", "returned"} /\ json' = json
    BY <1>1, Zenon DEF from_json, Goto, Return
  <2>2. result' = "corrupt" => ~json_valid(json')
    <3>1. CASE json_valid(json)
      <4>1. result' = "none"
        BY <1>1, <3>1, Zenon DEF from_json, Goto, IInv
      <4> QED
        BY <4>1
    <3>2. CASE ~json_valid(json)
      BY <2>1, <3>2
    <3> QED
      BY <3>1, <3>2
  <2>3. json_valid(json)' = json_valid(json')
    BY Zenon DEF json_valid, vocab_valid, observed
  <2> QED
    BY <2>1, <2>2, <2>3 DEF CInv
<1>2. CASE Scan
  <2>1. pc' \in {"segment", "returned"} /\ result' \in {"none", "ok"}
    BY <1>2 DEF Scan, Goto, Return, IInv, Inside
  <2> QED
    BY <2>1 DEF CInv
<1>3. CASE SegmentEnds
  <2>1. pc' \in {"scan", "returned"} /\ result' \in {"none", "ok"}
    BY <1>3 DEF SegmentEnds, Goto, Return, IInv, Inside
  <2> QED
    BY <2>1 DEF CInv
<1>4. CASE UNCHANGED vars
  <2>1. Kept /\ pc' = pc /\ result' = result /\ symbols' = symbols
        /\ merge_ranks' = merge_ranks
    BY <1>4 DEF vars, Kept, tokenizerVars
  <2>2. Complete' = Complete /\ json_valid(json)' = json_valid(json)
    BY <2>1, KeptMade
  <2>3. \A n \in 1..Len(symbols) : Made(symbols[n]) => Made(symbols[n])'
    BY <2>1, Zenon DEF Made
  <2> QED
    BY <2>1, <2>2, <2>3 DEF CInv
<1> QED
  BY <1>1, <1>2, <1>3, <1>4, PretokenCInv, MergePassCInv, EmitCInv DEF Next

LEMMA DecodesBack ==
  ASSUME IInv, DInv, Consistent, result = "ok"
  PROVE  decode(output) = MapJoin(composing, Parts)
<1>1. Loaded /\ text \in Texts /\ Points(output) = Total
  <2>1. pc = "returned" /\ ~(result = "corrupt") /\ result \in {"ok", "corrupt"}
    BY DEF IInv, Labels, Inside
  <2> QED
    BY <2>1 DEF IInv, DInv
<1> DEFINE s == From(composing, 1)
           points == Points(output)
<1>2. s \in Seq(Byte) /\ points = Enc(s)
  BY <1>1, ComposedType DEF Total
<1>3. decode(output) = IF \A n \in DOMAIN points : points[n] \in DOMAIN byte_decoder
                       THEN [n \in DOMAIN points |-> byte_decoder[points[n]]]
                       ELSE <<-1>>
  BY Zenon DEF decode, Points, MapJoin, FnMap
<1> HIDE DEF points, s
<1>4. decode(output) = s
  BY <1>2, <1>3, EncDecodes
<1>5. s = MapJoin(composing, Parts)
  BY PartsIs, Zenon DEF s, From
<1> QED
  BY <1>4, <1>5

(* What was encoded decodes to the text, and nothing that a complete       *)
(* vocabulary holds is refused.  (tokenizer.cpp:250-355)                   *)
THEOREM DecodingInverts == Spec => []DecodeInverts
<1>1. Init => IInv /\ (Consistent => DInv) /\ CInv
  <2>1. ASSUME Init PROVE DInv /\ CInv
    BY <2>1 DEF Init, DInv, CInv, Inside
  <2> QED
    BY <2>1, InitIInv
<1>2. IInv /\ (Consistent => DInv) /\ CInv /\ [Next]_vars
      => (IInv /\ (Consistent => DInv) /\ CInv)'
  <2> SUFFICES ASSUME IInv, Consistent => DInv, CInv, [Next]_vars
               PROVE  (IInv /\ (Consistent => DInv) /\ CInv)'
    OBVIOUS
  <2>1. IInv'
    BY NextIInv
  <2>2. Consistent' => DInv'
    BY <2>1, NextDInv
  <2>3. CInv'
    BY <2>1, NextCInv
  <2> QED
    BY <2>1, <2>2, <2>3
<1>3. IInv /\ (Consistent => DInv) /\ CInv => DecodeInverts
  <2> SUFFICES ASSUME IInv, Consistent => DInv, CInv PROVE DecodeInverts
    OBVIOUS
  <2>1. ASSUME result = "ok", Consistent
        PROVE  decode(output) = FlattenSeq([n \in DOMAIN Parts |->
                 IF Parts[n].added THEN Parts[n].bytes ELSE normalize_nfc(Parts[n].bytes)])
    <3>1. decode(output) = MapJoin(composing, Parts)
      BY <2>1, DecodesBack
    <3>2. Loaded /\ text \in Texts
      BY <2>1 DEF IInv, Labels, Inside
    <3>3. \A part \in Part :
            composing[part] = IF part.added THEN part.bytes ELSE normalize_nfc(part.bytes)
      BY Zenon DEF composing
    <3>4. Parts \in Seq(Part)
      <4>1. 1 \in 1..Len(text) + 1
        BY <3>2, TextType
      <4> QED
        BY <2>1, <3>2, <4>1, PartsSteps, PartsIs
    <3>5. \A n \in DOMAIN Parts : Parts[n] \in Part
      BY <3>4, LenProperties, ElementOfSeq
    <3>6. FnMap(composing, Parts) = [n \in DOMAIN Parts |->
            IF Parts[n].added THEN Parts[n].bytes ELSE normalize_nfc(Parts[n].bytes)]
      BY <3>3, <3>5 DEF FnMap
    <3> QED
      BY <3>1, <3>6, Zenon DEF MapJoin
  <2>2. (result = "corrupt" /\ json_valid(json)) => ~Complete
    BY DEF CInv
  <2> QED
    BY <2>1, <2>2, Zenon DEF DecodeInverts, Complete
<1> QED
  BY <1>1, <1>2, <1>3, PTL DEF Spec

------------------------------------------------------------------------------
(* A pass merges one occurrence at a time                                  *)

Replaced(t, m, x) == SubSeq(t, 1, m - 1) \o <<x>> \o SubSeq(t, m + 2, Len(t))

LEMMA Prefix ==
  ASSUME NEW S, NEW t \in Seq(S), NEW m \in 0..Len(t)
  PROVE  /\ SubSeq(t, 1, m) \in Seq(S) /\ Len(SubSeq(t, 1, m)) = m
         /\ \A k \in 1..m : SubSeq(t, 1, m)[k] = t[k]
         /\ m > 0 => SubSeq(t, 1, m) = SubSeq(t, 1, m - 1) \o <<t[m]>>
<1>1. Len(t) \in Nat /\ m \in Int /\ m >= 0 /\ \A k \in 1..Len(t) : t[k] \in S
  BY LenProperties, ElementOfSeq
<1>2. \A k \in 1..m : t[k] \in S
  BY <1>1
<1>3. SubSeq(t, 1, m) \in Seq(S) /\ Len(SubSeq(t, 1, m)) = m
      /\ \A k \in 1..m : SubSeq(t, 1, m)[k] = t[k]
  <2>1. /\ SubSeq(t, 1, m) \in Seq(S)
        /\ Len(SubSeq(t, 1, m)) = IF 1 <= m THEN m - 1 + 1 ELSE 0
        /\ \A i \in 1..m - 1 + 1 : SubSeq(t, 1, m)[i] = t[1 + i - 1]
    BY <1>1, <1>2, SubSeqProperties
  <2>2. Len(SubSeq(t, 1, m)) = m
    BY <1>1, <2>1
  <2>3. \A k \in 1..m : SubSeq(t, 1, m)[k] = t[k]
    <3> SUFFICES ASSUME NEW k \in 1..m PROVE SubSeq(t, 1, m)[k] = t[k]
      OBVIOUS
    <3>1. k \in 1..m - 1 + 1 /\ 1 + k - 1 = k
      BY <1>1
    <3> QED
      BY <2>1, <3>1
  <2> QED
    BY <2>1, <2>2, <2>3
<1>4. ASSUME m > 0
      PROVE  SubSeq(t, 1, m) = SubSeq(t, 1, m - 1) \o <<t[m]>>
  <2>1. 1 \in 1..Len(t) /\ m \in 1..Len(t)
    BY <1>1, <1>4
  <2> QED
    BY <2>1, SubSeqRecursiveSecond
<1> QED
  BY <1>3, <1>4

LEMMA ReplacedFacts ==
  ASSUME NEW S, NEW t \in Seq(S), NEW m \in 1..Len(t) - 1, NEW x \in S
  PROVE  /\ Replaced(t, m, x) \in Seq(S) /\ Len(Replaced(t, m, x)) = Len(t) - 1
         /\ \A k \in 1..Len(t) - 1 :
              Replaced(t, m, x)[k] = IF k < m THEN t[k] ELSE IF k = m THEN x ELSE t[k + 1]
         /\ SubSeq(Replaced(t, m, x), 1, m) = SubSeq(t, 1, m - 1) \o <<x>>
<1> DEFINE L == Len(t)
           a == SubSeq(t, 1, m - 1)
           b == <<x>>
           c == SubSeq(t, m + 2, L)
           r == Replaced(t, m, x)
<1>1. L \in Nat /\ m \in Int /\ 1 <= m /\ m <= L - 1 /\ \A k \in 1..L : t[k] \in S
  BY LenProperties, ElementOfSeq
<1>2. a \in Seq(S) /\ Len(a) = m - 1 /\ \A k \in 1..m - 1 : a[k] = t[k]
  <2>1. m - 1 \in 0..L
    BY <1>1
  <2> QED
    BY <2>1, Prefix, Zenon
<1>3. b \in Seq(S) /\ Len(b) = 1 /\ b[1] = x
  BY Single
<1>4. c \in Seq(S) /\ Len(c) = L - m - 1 /\ \A k \in 1..L - m - 1 : c[k] = t[m + 1 + k]
  <2>1. m + 2 \in Int /\ L \in Int /\ \A k \in m + 2..L : t[k] \in S
    BY <1>1
  <2>2. /\ c \in Seq(S)
        /\ Len(c) = IF m + 2 <= L THEN L - (m + 2) + 1 ELSE 0
        /\ \A i \in 1..L - (m + 2) + 1 : c[i] = t[(m + 2) + i - 1]
    BY <2>1, SubSeqProperties
  <2>3. Len(c) = L - m - 1
    BY <1>1, <2>2
  <2>4. \A k \in 1..L - m - 1 : c[k] = t[m + 1 + k]
    <3> SUFFICES ASSUME NEW k \in 1..L - m - 1 PROVE c[k] = t[m + 1 + k]
      OBVIOUS
    <3>1. k \in 1..L - (m + 2) + 1 /\ (m + 2) + k - 1 = m + 1 + k
      BY <1>1
    <3> QED
      BY <2>2, <3>1
  <2> QED
    BY <2>2, <2>3, <2>4
<1>5. r = (a \o b) \o c
  BY DEF Replaced
<1> HIDE DEF a, b, c, r, L
<1> DEFINE ab == a \o b
<1>6. /\ ab \in Seq(S) /\ Len(ab) = m
      /\ \A k \in 1..m : ab[k] = IF k < m THEN t[k] ELSE x
  <2>1. /\ ab \in Seq(S) /\ Len(ab) = Len(a) + Len(b)
        /\ \A k \in 1..Len(a) + Len(b) : ab[k] = IF k <= Len(a) THEN a[k] ELSE b[k - Len(a)]
    BY <1>2, <1>3, ConcatProperties
  <2>2. Len(ab) = m /\ Len(a) + Len(b) = m
    BY <1>1, <1>2, <1>3, <2>1
  <2>3. ASSUME NEW k \in 1..m PROVE ab[k] = IF k < m THEN t[k] ELSE x
    <3>1. CASE k < m
      <4>1. k <= Len(a) /\ k \in 1..m - 1
        BY <1>1, <1>2, <3>1
      <4> QED
        BY <1>2, <2>1, <2>2, <3>1, <4>1
    <3>2. CASE ~(k < m)
      <4>1. ~(k <= Len(a)) /\ k - Len(a) = 1
        BY <1>1, <1>2, <3>2
      <4> QED
        BY <1>3, <2>1, <2>2, <3>2, <4>1
    <3> QED
      BY <3>1, <3>2
  <2> QED
    BY <2>1, <2>2, <2>3
<1> HIDE DEF ab
<1>7. /\ r \in Seq(S) /\ Len(r) = L - 1
      /\ \A k \in 1..L - 1 : r[k] = IF k <= m THEN ab[k] ELSE c[k - m]
  <2>1. /\ ab \o c \in Seq(S) /\ Len(ab \o c) = Len(ab) + Len(c)
        /\ \A k \in 1..Len(ab) + Len(c) : (ab \o c)[k] = IF k <= Len(ab) THEN ab[k] ELSE c[k - Len(ab)]
    BY <1>4, <1>6, ConcatProperties
  <2>2. Len(ab) + Len(c) = L - 1 /\ Len(ab) = m
    BY <1>1, <1>4, <1>6
  <2>3. r = ab \o c
    BY <1>5 DEF ab
  <2> QED
    BY <2>1, <2>2, <2>3
<1>8. ASSUME NEW k \in 1..L - 1
      PROVE  r[k] = IF k < m THEN t[k] ELSE IF k = m THEN x ELSE t[k + 1]
  <2>1. CASE k <= m
    <3>1. k \in 1..m
      BY <1>1, <2>1
    <3>2. r[k] = IF k < m THEN t[k] ELSE x
      BY <1>6, <1>7, <2>1, <3>1
    <3> QED
      BY <1>1, <2>1, <3>2
  <2>2. CASE ~(k <= m)
    <3>1. k - m \in 1..L - m - 1 /\ m + 1 + (k - m) = k + 1 /\ ~(k < m) /\ k # m
      BY <1>1, <2>2
    <3>2. r[k] = c[k - m] /\ c[k - m] = t[m + 1 + (k - m)]
      BY <1>4, <1>7, <2>2, <3>1
    <3> QED
      BY <3>1, <3>2
  <2> QED
    BY <2>1, <2>2
<1>9. SubSeq(r, 1, m) = ab
  <2> DEFINE q == SubSeq(r, 1, m)
  <2>1. m \in 0..Len(r)
    BY <1>1, <1>7
  <2>2. q \in Seq(S) /\ Len(q) = m /\ \A k \in 1..m : q[k] = r[k]
    BY <1>7, <2>1, Prefix
  <2> HIDE DEF q
  <2>3. \A k \in 1..m : q[k] = ab[k]
    <3> SUFFICES ASSUME NEW k \in 1..m PROVE q[k] = ab[k]
      OBVIOUS
    <3>1. k \in 1..L - 1 /\ k <= m
      BY <1>1
    <3> QED
      BY <1>7, <2>2, <3>1
  <2>4. q = ab
    BY <1>6, <2>2, <2>3, SeqEqual
  <2> QED
    BY <2>4 DEF q
<1> QED
  BY <1>7, <1>8, <1>9 DEF r, ab, a, b, L

LEMMA ReplacedPieces ==
  \A t \in Seq(Piece), x \in Piece : \A m \in 1..Len(t) - 1 :
    /\ Replaced(t, m, x) \in Seq(Piece) /\ Len(Replaced(t, m, x)) = Len(t) - 1
    /\ \A k \in 1..Len(t) - 1 :
         Replaced(t, m, x)[k] = IF k < m THEN t[k] ELSE IF k = m THEN x ELSE t[k + 1]
    /\ SubSeq(Replaced(t, m, x), 1, m) = SubSeq(t, 1, m - 1) \o <<x>>
<1> SUFFICES ASSUME NEW t \in Seq(Piece), NEW x \in Piece, NEW m \in 1..Len(t) - 1
             PROVE  /\ Replaced(t, m, x) \in Seq(Piece)
                    /\ Len(Replaced(t, m, x)) = Len(t) - 1
                    /\ \A k \in 1..Len(t) - 1 :
                         Replaced(t, m, x)[k] = IF k < m THEN t[k] ELSE IF k = m THEN x ELSE t[k + 1]
                    /\ SubSeq(Replaced(t, m, x), 1, m) = SubSeq(t, 1, m - 1) \o <<x>>
  BY ZenonT(40)
<1> QED
  BY ReplacedFacts

LEMMA BehindReplaced ==
  \A t \in Seq(Piece), y \in Piece : \A m, k \in 1..Len(t) - 1 :
    k > m => Replaced(t, m, y)[k] = t[k + 1]
<1> SUFFICES ASSUME NEW t \in Seq(Piece), NEW y \in Piece,
                    NEW m \in 1..Len(t) - 1, NEW k \in 1..Len(t) - 1, k > m
             PROVE  Replaced(t, m, y)[k] = t[k + 1]
  BY Zenon
<1>1. /\ Replaced(t, m, y) \in Seq(Piece)
      /\ Len(Replaced(t, m, y)) = Len(t) - 1
      /\ \A i \in 1..Len(t) - 1 :
           Replaced(t, m, y)[i] = IF i < m THEN t[i] ELSE IF i = m THEN y ELSE t[i + 1]
      /\ SubSeq(Replaced(t, m, y), 1, m) = SubSeq(t, 1, m - 1) \o <<y>>
  BY ReplacedFacts
<1>2. ~(k < m) /\ k # m
  BY LenProperties
<1> QED
  BY <1>1, <1>2

LEMMA PairIs ==
  ASSUME NEW t, NEW k, NEW pair, PairAt(t, k) = pair
  PROVE  pair[1] = t[k] /\ pair[2] = t[k + 1]
BY DEF PairAt

LEMMA OneMergeFacts ==
  ASSUME MergesLoaded, NEW t \in Seq(Piece), RankedPairs(t) # {}
  PROVE  /\ OneMerge(t) \in Seq(Piece) /\ Len(OneMerge(t)) = Len(t) - 1
         /\ \A m \in 1..Len(t) - 1 :
              PairAt(t, m) = BestPair(t) /\ (\A k \in 1..m - 1 : PairAt(t, k) # BestPair(t)) =>
                OneMerge(t) = Replaced(t, m, BestPair(t)[1] \o BestPair(t)[2])
<1> DEFINE best == BestPair(t)
           T == {k \in 1..Len(t) - 1 : PairAt(t, k) = best}
           n == Min(T)
<1>1. best \in DOMAIN merge_ranks /\ Occurs(t, best)
  BY BestPairFacts
<1>2. OneMerge(t) = Replaced(t, n, t[n] \o t[n + 1])
  BY Zenon DEF OneMerge, Replaced
<1> HIDE DEF best, n
<1>3. Len(t) \in Nat /\ \A k \in 1..Len(t) : t[k] \in Piece
  BY LenProperties, ElementOfSeq
<1>4. T \subseteq Nat /\ T # {}
  BY <1>1, <1>3 DEF Occurs
<1>5. n \in T /\ \A y \in T : n <= y
  BY <1>4, MinOf DEF n
<1>6. n \in 1..Len(t) - 1 /\ PairAt(t, n) = best /\ \A k \in T : n <= k
  BY <1>5
<1> HIDE DEF T
<1>7. best[1] = t[n] /\ best[2] = t[n + 1]
  BY <1>6, PairIs
<1>8. t[n] \o t[n + 1] \in Piece
  <2>1. n \in 1..Len(t) /\ n + 1 \in 1..Len(t)
    BY <1>3, <1>6
  <2> QED
    BY <1>3, <2>1, PieceFacts
<1>9. OneMerge(t) \in Seq(Piece) /\ Len(OneMerge(t)) = Len(t) - 1
  <2> DEFINE x == t[n] \o t[n + 1]
  <2>1. x \in Piece
    BY <1>8
  <2> HIDE DEF x
  <2>2. Replaced(t, n, x) \in Seq(Piece) /\ Len(Replaced(t, n, x)) = Len(t) - 1
    BY <1>6, <2>1, ReplacedPieces, Zenon
  <2> QED
    BY <1>2, <2>2, Zenon DEF x
<1>10. ASSUME NEW m \in 1..Len(t) - 1, PairAt(t, m) = best, \A k \in 1..m - 1 : PairAt(t, k) # best
       PROVE  OneMerge(t) = Replaced(t, m, best[1] \o best[2])
  <2>1. m \in T
    BY <1>10 DEF T
  <2>2. n <= m /\ ~(n < m)
    <3>1. n < m => n \in 1..m - 1
      BY <1>3, <1>6
    <3> QED
      BY <1>6, <1>10, <2>1, <3>1
  <2>3. n = m
    BY <1>3, <1>6, <2>2
  <2> QED
    BY <1>2, <1>7, <2>3, Zenon
<1> QED
  BY <1>9, <1>10, Zenon DEF best

(* No ranked pair comes before this one.                                   *)
First(t, pair) ==
  \A k \in 1..Len(t) - 1 :
    PairAt(t, k) \in DOMAIN merge_ranks => merge_ranks[pair] <= merge_ranks[PairAt(t, k)]

LEMMA FirstIsBest ==
  ASSUME MergesLoaded, NEW t \in Seq(Piece), NEW pair \in DOMAIN merge_ranks,
         First(t, pair), Occurs(t, pair)
  PROVE  RankedPairs(t) # {} /\ BestPair(t) = pair
<1>1. PICK k \in 1..Len(t) - 1 : PairAt(t, k) = pair
  BY DEF Occurs
<1>2. pair \in RankedPairs(t)
  BY <1>1 DEF RankedPairs
<1> DEFINE best == BestPair(t)
<1>3. /\ best \in DOMAIN merge_ranks /\ Occurs(t, best)
      /\ \A other \in RankedPairs(t) : merge_ranks[best] <= merge_ranks[other]
  BY <1>2, BestPairFacts
<1> HIDE DEF best
<1>4. merge_ranks[pair] <= merge_ranks[best]
  BY <1>3 DEF Occurs, First
<1>5. merge_ranks[best] <= merge_ranks[pair]
  BY <1>2, <1>3
<1>6. /\ merge_ranks[best] \in Nat /\ merge_ranks[pair] \in Nat
      /\ json.merges[merge_ranks[best]] = best /\ json.merges[merge_ranks[pair]] = pair
  BY <1>3, RankFacts
<1>7. merge_ranks[best] = merge_ranks[pair]
  BY <1>4, <1>5, <1>6
<1>8. best = pair
  BY <1>6, <1>7
<1> QED
  BY <1>2, <1>8 DEF best

MergedAt(t, m, pair) == Replaced(t, m, pair[1] \o pair[2])

(* Pairs with the merged symbol come later, and are not the same pair.     *)
LEMMA FirstStays ==
  ASSUME MergesLoaded, LaterMerges, NEW t \in Seq(Piece), NEW pair \in DOMAIN merge_ranks,
         First(t, pair), NEW m \in 1..Len(t) - 1, PairAt(t, m) = pair,
         \A k \in 1..m - 1 : PairAt(t, k) # pair
  PROVE  /\ MergedAt(t, m, pair) \in Seq(Piece) /\ Len(MergedAt(t, m, pair)) = Len(t) - 1
         /\ First(MergedAt(t, m, pair), pair)
         /\ \A k \in 1..Len(MergedAt(t, m, pair)) - 1 : k <= m => PairAt(MergedAt(t, m, pair), k) # pair
<1> DEFINE x == pair[1] \o pair[2]
           r == MergedAt(t, m, pair)
<1>1. Len(t) \in Nat /\ m \in Nat
  BY LenProperties
<1>2. /\ pair[1] \in Piece /\ pair[2] \in Piece /\ pair[1] # <<>> /\ pair[2] # <<>>
      /\ merge_ranks[pair] \in Nat
  BY RankFacts DEF Pair
<1>3. x \in Piece /\ x # pair[1] /\ x # pair[2]
  <2>1. x \in Piece /\ Len(x) = Len(pair[1]) + Len(pair[2])
    BY <1>2, PieceFacts
  <2>2. Len(pair[1]) \in Nat /\ Len(pair[2]) \in Nat /\ Len(pair[1]) > 0 /\ Len(pair[2]) > 0
    BY <1>2, PieceFacts
  <2>3. Len(x) # Len(pair[1]) /\ Len(x) # Len(pair[2])
    <3> DEFINE u == Len(pair[1])
               v == Len(pair[2])
               w == Len(x)
    <3>1. w = u + v /\ u \in Nat /\ v \in Nat /\ u > 0 /\ v > 0
      BY <2>1, <2>2
    <3> HIDE DEF u, v, w
    <3>2. w # u /\ w # v
      BY <3>1
    <3> QED
      BY <3>2 DEF u, v, w
  <2> HIDE DEF x
  <2> QED
    BY <2>1, <2>3
<1>4. \A other \in DOMAIN merge_ranks : (other[1] = x \/ other[2] = x) =>
        merge_ranks[pair] <= merge_ranks[other]
  <2> SUFFICES ASSUME NEW other \in DOMAIN merge_ranks, other[1] = x \/ other[2] = x
               PROVE  merge_ranks[pair] <= merge_ranks[other]
    OBVIOUS
  <2>1. merge_ranks[pair] < merge_ranks[other]
    BY DEF LaterMerges
  <2>2. merge_ranks[other] \in Nat
    BY RankFacts
  <2> QED
    BY <1>2, <2>1, <2>2
<1> HIDE DEF x, r
<1>5. /\ r \in Seq(Piece) /\ Len(r) = Len(t) - 1
      /\ \A k \in 1..Len(t) - 1 : r[k] = IF k < m THEN t[k] ELSE IF k = m THEN x ELSE t[k + 1]
  <2>1. r = Replaced(t, m, x)
    BY Zenon DEF x, r, MergedAt
  <2>2. \A y \in Piece :
          /\ Replaced(t, m, y) \in Seq(Piece) /\ Len(Replaced(t, m, y)) = Len(t) - 1
          /\ \A k \in 1..Len(t) - 1 :
               Replaced(t, m, y)[k] = IF k < m THEN t[k] ELSE IF k = m THEN y ELSE t[k + 1]
    BY ReplacedPieces, ZenonT(40)
  <2>3. /\ Replaced(t, m, x) \in Seq(Piece) /\ Len(Replaced(t, m, x)) = Len(t) - 1
        /\ \A k \in 1..Len(t) - 1 :
             Replaced(t, m, x)[k] = IF k < m THEN t[k] ELSE IF k = m THEN x ELSE t[k + 1]
    BY <1>3, <2>2, Zenon
  <2> QED
    BY <2>1, <2>3, Zenon
<1>6. ASSUME NEW k \in 1..Len(r) - 1
      PROVE  \/ k < m - 1 /\ PairAt(r, k) = PairAt(t, k)
             \/ k \in {m - 1, m} /\ (PairAt(r, k)[1] = x \/ PairAt(r, k)[2] = x)
             \/ k > m /\ PairAt(r, k) = PairAt(t, k + 1)
  <2>1. k \in 1..Len(t) - 1 /\ k + 1 \in 1..Len(t) - 1 /\ k \in Nat
    BY <1>1, <1>5
  <2>2. CASE k < m - 1
    <3>1. k < m /\ k + 1 < m
      BY <1>1, <2>1, <2>2
    <3>2. r[k] = t[k] /\ r[k + 1] = t[k + 1]
      BY <1>5, <2>1, <3>1
    <3> QED
      BY <2>2, <3>2, Zenon DEF PairAt
  <2>3. CASE k = m - 1
    <3>1. ~(k + 1 < m) /\ k + 1 = m
      BY <1>1, <2>1, <2>3
    <3>2. r[k + 1] = x
      BY <1>5, <2>1, <3>1
    <3>3. PairAt(r, k)[2] = x
      BY <3>2 DEF PairAt
    <3> QED
      BY <2>3, <3>3
  <2>4. CASE k = m
    <3>1. r[k] = x
      BY <1>1, <1>5, <2>1, <2>4
    <3>2. PairAt(r, k)[1] = x
      BY <3>1 DEF PairAt
    <3> QED
      BY <2>4, <3>2
  <2>5. CASE k > m
    <3>1. ~(k < m) /\ k # m /\ ~(k + 1 < m) /\ k + 1 # m
      BY <1>1, <2>1, <2>5
    <3>2. r[k] = t[k + 1] /\ r[k + 1] = t[(k + 1) + 1]
      BY <1>5, <2>1, <3>1
    <3> QED
      BY <2>5, <3>2, Zenon DEF PairAt
  <2> QED
    BY <1>1, <2>1, <2>2, <2>3, <2>4, <2>5
<1>7. First(r, pair)
  <2> SUFFICES ASSUME NEW k \in 1..Len(r) - 1, PairAt(r, k) \in DOMAIN merge_ranks
               PROVE  merge_ranks[pair] <= merge_ranks[PairAt(r, k)]
    BY Zenon DEF First
  <2>1. k \in 1..Len(t) - 1 /\ k + 1 \in 1..Len(t) - 1
    BY <1>1, <1>5
  <2>2. CASE PairAt(r, k) = PairAt(t, k) \/ PairAt(r, k) = PairAt(t, k + 1)
    BY <2>1, <2>2, Zenon DEF First
  <2>3. CASE PairAt(r, k)[1] = x \/ PairAt(r, k)[2] = x
    BY <1>4, <2>3
  <2> QED
    BY <1>6, <2>2, <2>3
<1>8. \A k \in 1..Len(r) - 1 : k <= m => PairAt(r, k) # pair
  <2> SUFFICES ASSUME NEW k \in 1..Len(r) - 1, k <= m PROVE PairAt(r, k) # pair
    OBVIOUS
  <2>1. CASE PairAt(r, k)[1] = x \/ PairAt(r, k)[2] = x
    BY <1>3, <2>1
  <2>2. CASE k < m - 1 /\ PairAt(r, k) = PairAt(t, k)
    <3>1. k \in 1..m - 1
      BY <1>1, <2>2
    <3> QED
      BY <2>2, <3>1
  <2>3. ~(k > m)
    BY <1>1, <1>5
  <2> QED
    BY <1>6, <2>1, <2>2, <2>3
<1> QED
  BY <1>5, <1>7, <1>8 DEF r

(* The sequence t while a pass over s is at n: s from n on is left in t,   *)
(* from m on, and no occurrence of the pair comes before.                  *)
Ready(t, m, s, n, pair) ==
  /\ m \in 1..Len(t) + 1 /\ Len(t) - m = Len(s) - n
  /\ \A i \in 0..Len(s) - n : t[m + i] = s[n + i]
  /\ First(t, pair)
  /\ \A k \in 1..Len(t) - 1 : k < m => PairAt(t, k) # pair

LEMMA ReadySkips ==
  ASSUME NEW s \in Seq(Piece), NEW t \in Seq(Piece), NEW m, NEW n \in 1..Len(s), NEW pair,
         Ready(t, m, s, n, pair), ~(n < Len(s) /\ PairAt(s, n) = pair)
  PROVE  /\ m \in 1..Len(t) /\ t[m] = s[n]
         /\ Ready(t, m + 1, s, n + 1, pair)
<1>1. /\ Len(t) \in Nat /\ Len(s) \in Nat /\ n \in Nat /\ m \in Nat /\ 1 <= n /\ n <= Len(s)
      /\ 1 <= m /\ Len(t) - m = Len(s) - n
  BY LenProperties DEF Ready
<1>2. m \in 1..Len(t)
  BY <1>1
<1>3. \A i \in 0..Len(s) - n : t[m + i] = s[n + i]
  BY DEF Ready
<1>4. t[m] = s[n]
  <2>1. 0 \in 0..Len(s) - n /\ m + 0 = m /\ n + 0 = n
    BY <1>1
  <2>2. t[m + 0] = s[n + 0]
    BY <1>3, <2>1
  <2> QED
    BY <2>1, <2>2
<1>5. \A i \in 0..Len(s) - (n + 1) : t[(m + 1) + i] = s[(n + 1) + i]
  <2> SUFFICES ASSUME NEW i \in 0..Len(s) - (n + 1) PROVE t[(m + 1) + i] = s[(n + 1) + i]
    OBVIOUS
  <2>1. i + 1 \in 0..Len(s) - n /\ m + (i + 1) = (m + 1) + i /\ n + (i + 1) = (n + 1) + i
    BY <1>1
  <2>2. t[m + (i + 1)] = s[n + (i + 1)]
    BY <1>3, <2>1
  <2> QED
    BY <2>1, <2>2
<1>6. \A k \in 1..Len(t) - 1 : k < m + 1 => PairAt(t, k) # pair
  <2> SUFFICES ASSUME NEW k \in 1..Len(t) - 1, k < m + 1 PROVE PairAt(t, k) # pair
    OBVIOUS
  <2>1. CASE k < m
    BY <2>1 DEF Ready
  <2>2. CASE k = m
    <3>1. n < Len(s) /\ 1 \in 0..Len(s) - n
      BY <1>1, <2>2
    <3>2. t[m + 1] = s[n + 1]
      BY <1>3, <3>1
    <3>3. PairAt(t, m) = PairAt(s, n)
      BY <1>4, <3>2, Zenon DEF PairAt
    <3> QED
      BY <2>2, <3>1, <3>3
  <2> QED
    BY <1>1, <2>1, <2>2
<1>7. m + 1 \in 1..Len(t) + 1 /\ Len(t) - (m + 1) = Len(s) - (n + 1)
  BY <1>1
<1> QED
  BY <1>2, <1>4, <1>5, <1>6, <1>7 DEF Ready

LEMMA ReadyMerges ==
  ASSUME MergesLoaded, LaterMerges, NEW s \in Seq(Piece), NEW t \in Seq(Piece), NEW m,
         NEW n \in 1..Len(s), NEW pair \in DOMAIN merge_ranks,
         Ready(t, m, s, n, pair), n < Len(s), PairAt(s, n) = pair
  PROVE  /\ m \in 1..Len(t) - 1 /\ RankedPairs(t) # {}
         /\ OneMerge(t) = MergedAt(t, m, pair) /\ MergedAt(t, m, pair) \in Seq(Piece)
         /\ s[n] \o s[n + 1] = pair[1] \o pair[2]
         /\ Ready(MergedAt(t, m, pair), m + 1, s, n + 2, pair)
<1>1. /\ Len(t) \in Nat /\ Len(s) \in Nat /\ n \in Nat /\ m \in Nat /\ 1 <= n /\ n < Len(s)
      /\ 1 <= m /\ Len(t) - m = Len(s) - n
  BY LenProperties DEF Ready
<1>2. m \in 1..Len(t) - 1
  BY <1>1
<1>3. \A i \in 0..Len(s) - n : t[m + i] = s[n + i]
  BY DEF Ready
<1>4. PairAt(t, m) = pair
  <2>1. 0 \in 0..Len(s) - n /\ 1 \in 0..Len(s) - n /\ m + 0 = m /\ n + 0 = n
    BY <1>1
  <2>2. t[m + 0] = s[n + 0] /\ t[m + 1] = s[n + 1]
    BY <1>3, <2>1
  <2>3. t[m] = s[n]
    BY <2>1, <2>2
  <2> QED
    BY <2>2, <2>3, Zenon DEF PairAt
<1>5. First(t, pair) /\ \A k \in 1..m - 1 : PairAt(t, k) # pair
  <2>1. \A k \in 1..m - 1 : k \in 1..Len(t) - 1 /\ k < m
    BY <1>1
  <2> QED
    BY <2>1 DEF Ready
<1>6. Occurs(t, pair)
  BY <1>2, <1>4 DEF Occurs
<1>7. RankedPairs(t) # {} /\ BestPair(t) = pair
  BY <1>5, <1>6, FirstIsBest
<1>8. OneMerge(t) = MergedAt(t, m, pair)
  <2>1. PairAt(t, m) = BestPair(t) /\ \A k \in 1..m - 1 : PairAt(t, k) # BestPair(t)
    BY <1>4, <1>5, <1>7
  <2>2. OneMerge(t) = Replaced(t, m, BestPair(t)[1] \o BestPair(t)[2])
    BY <1>2, <1>7, <2>1, OneMergeFacts
  <2> QED
    BY <1>7, <2>2, Zenon DEF MergedAt
<1>9. s[n] \o s[n + 1] = pair[1] \o pair[2]
  <2>1. \A k : PairAt(s, k) = pair => pair[1] = s[k] /\ pair[2] = s[k + 1]
    BY DEF PairAt
  <2> QED
    BY <2>1, Zenon
<1> DEFINE r == MergedAt(t, m, pair)
<1>10. /\ r \in Seq(Piece) /\ Len(r) = Len(t) - 1 /\ First(r, pair)
       /\ \A k \in 1..Len(r) - 1 : k <= m => PairAt(r, k) # pair
  BY <1>2, <1>4, <1>5, FirstStays
<1>11. \A k \in 1..Len(t) - 1 : k > m => r[k] = t[k + 1]
  <2> DEFINE x == pair[1] \o pair[2]
  <2>1. x \in Piece
    <3>1. Pair(pair)
      BY RankFacts
    <3> QED
      BY <3>1, PieceFacts DEF Pair
  <2> HIDE DEF x
  <2>2. \A k \in 1..Len(t) - 1 : k > m => Replaced(t, m, x)[k] = t[k + 1]
    BY <1>2, <2>1, BehindReplaced, Zenon
  <2>3. r = Replaced(t, m, x)
    BY Zenon DEF MergedAt, x
  <2> HIDE DEF r
  <2> QED
    BY <2>2, <2>3, Zenon
<1> HIDE DEF r
<1>12. \A i \in 0..Len(s) - (n + 2) : r[(m + 1) + i] = s[(n + 2) + i]
  <2> SUFFICES ASSUME NEW i \in 0..Len(s) - (n + 2) PROVE r[(m + 1) + i] = s[(n + 2) + i]
    OBVIOUS
  <2>1. /\ (m + 1) + i \in 1..Len(t) - 1 /\ (m + 1) + i > m /\ i + 2 \in 0..Len(s) - n
        /\ ((m + 1) + i) + 1 = m + (i + 2) /\ (n + 2) + i = n + (i + 2)
    BY <1>1
  <2>2. r[(m + 1) + i] = t[((m + 1) + i) + 1]
    BY <1>11, <2>1
  <2>3. t[m + (i + 2)] = s[n + (i + 2)]
    BY <1>3, <2>1
  <2> QED
    BY <2>1, <2>2, <2>3
<1>13. m + 1 \in 1..Len(r) + 1 /\ Len(r) - (m + 1) = Len(s) - (n + 2)
  BY <1>1, <1>10
<1>14. \A k \in 1..Len(r) - 1 : k < m + 1 => PairAt(r, k) # pair
  <2> SUFFICES ASSUME NEW k \in 1..Len(r) - 1, k < m + 1 PROVE PairAt(r, k) # pair
    OBVIOUS
  <2>1. k <= m
    BY <1>1
  <2> QED
    BY <1>10, <2>1
<1>15. Ready(r, m + 1, s, n + 2, pair)
  BY <1>10, <1>12, <1>13, <1>14 DEF Ready
<1> QED
  BY <1>2, <1>7, <1>8, <1>9, <1>10, <1>15 DEF r

(* What holds of a sequence, and stays when one occurrence is merged,      *)
(* holds after a pass.                                                     *)
LEMMA PassIsOneByOne ==
  ASSUME MergesLoaded, LaterMerges, NEW s \in Seq(Piece), NEW pair \in DOMAIN merge_ranks,
         NEW R, R \subseteq Seq(Piece), \A t \in R : RankedPairs(t) # {} => OneMerge(t) \in R,
         s \in R, First(s, pair)
  PROVE  merge_all(s, pair) \in R
<1> DEFINE f == Merged(s, pair)
           L == Len(s)
           Good(n) == \A t \in R : \A m \in 1..Len(t) + 1 :
                        Ready(t, m, s, n, pair) => SubSeq(t, 1, m - 1) \o f[n] \in R
           G == {n \in 1..L + 1 : Good(n)}
<1>1. /\ merge_all(s, pair) = f[1]
      /\ \A n \in 1..L + 1 : f[n] = MergeStep(s, pair, n, f) /\ f[n] \in Seq(Piece)
  BY MergedSteps, Zenon
<1>2. L \in Nat /\ \A n \in 1..L : s[n] \in Piece
  BY LenProperties, ElementOfSeq
<1>3. AssociativeOn(Seq(Piece))
  BY Associative, Zenon
<1> HIDE DEF f
<1>4. ASSUME NEW n \in 1..L + 1, \A k \in n + 1..L + 1 : k \in G
      PROVE  n \in G
  <2> SUFFICES ASSUME NEW t \in R, NEW m \in 1..Len(t) + 1, Ready(t, m, s, n, pair)
               PROVE  SubSeq(t, 1, m - 1) \o f[n] \in R
    BY Zenon
  <2>1. /\ t \in Seq(Piece) /\ Len(t) \in Nat /\ m \in Nat /\ m - 1 \in 0..Len(t) /\ n \in Nat
        /\ Len(t) - m = L - n
    BY <1>2, LenProperties DEF Ready
  <2>2. f[n] = MergeStep(s, pair, n, f)
    BY <1>1
  <2> DEFINE a == SubSeq(t, 1, m - 1)
  <2>3. a \in Seq(Piece)
    BY <2>1, Prefix
  <2>4. CASE n > L
    <3>1. m - 1 = Len(t)
      BY <1>2, <2>1, <2>4
    <3>2. a = t
      BY <2>1, <3>1, SubSeqFull
    <3>3. f[n] = <<>>
      BY <2>2, <2>4, Zenon DEF MergeStep, L
    <3>4. t \o <<>> = t
      BY <2>1, ConcatEmptySeq
    <3> HIDE DEF a
    <3>5. a \o f[n] = t
      BY <3>2, <3>3, <3>4, Zenon
    <3> QED
      BY <3>5 DEF a
  <2>5. CASE ~(n > L) /\ ~(n < L /\ PairAt(s, n) = pair)
    <3>1. n \in 1..L /\ n + 1 \in 1..L + 1 /\ n + 1 \in n + 1..L + 1
      BY <1>2, <2>1, <2>5
    <3>2. m \in 1..Len(t) /\ t[m] = s[n] /\ Ready(t, m + 1, s, n + 1, pair)
      BY <2>1, <2>5, <3>1, ReadySkips
    <3>3. Good(n + 1)
      BY <1>4, <3>1
    <3>4. m + 1 \in 1..Len(t) + 1 /\ (m + 1) - 1 = m /\ m \in 0..Len(t) /\ m > 0
      BY <2>1, <3>2
    <3>5. SubSeq(t, 1, (m + 1) - 1) \o f[n + 1] \in R
      BY <3>2, <3>3, <3>4
    <3>6. SubSeq(t, 1, m) = a \o <<t[m]>>
      BY <2>1, <3>4, Prefix
    <3>7. f[n] = <<s[n]>> \o f[n + 1]
      BY <2>2, <2>5, Zenon DEF MergeStep, L
    <3> DEFINE u == <<s[n]>>
    <3>8. u \in Seq(Piece) /\ f[n + 1] \in Seq(Piece)
      BY <1>1, <1>2, <3>1, Single
    <3>9. (a \o u) \o f[n + 1] \in R
      BY <3>2, <3>4, <3>5, <3>6
    <3>10. f[n] = u \o f[n + 1]
      BY <3>7
    <3> HIDE DEF a, u
    <3>11. (a \o u) \o f[n + 1] = a \o (u \o f[n + 1])
      BY <1>3, <2>3, <3>8, Zenon DEF AssociativeOn
    <3>12. a \o f[n] \in R
      BY <3>9, <3>10, <3>11, Zenon
    <3> QED
      BY <3>12 DEF a
  <2>6. CASE n < L /\ PairAt(s, n) = pair
    <3> DEFINE r == MergedAt(t, m, pair)
               x == pair[1] \o pair[2]
               u == <<x>>
    <3>1. n \in 1..L /\ n + 2 \in 1..L + 1 /\ n + 2 \in n + 1..L + 1 /\ ~(n > L)
      BY <1>2, <2>1, <2>6
    <3>2. /\ m \in 1..Len(t) - 1 /\ RankedPairs(t) # {} /\ OneMerge(t) = r /\ r \in Seq(Piece)
          /\ s[n] \o s[n + 1] = x /\ Ready(r, m + 1, s, n + 2, pair)
      BY <2>1, <2>6, <3>1, ReadyMerges
    <3>3. r \in R /\ Good(n + 2)
      BY <1>4, <3>1, <3>2
    <3>4. m + 1 \in 1..Len(r) + 1 /\ (m + 1) - 1 = m
      BY <2>1, <3>2 DEF Ready
    <3>5. SubSeq(r, 1, (m + 1) - 1) \o f[n + 2] \in R
      BY <3>2, <3>3, <3>4
    <3>6. x \in Piece /\ u \in Seq(Piece) /\ f[n + 2] \in Seq(Piece)
      <4>1. Pair(pair)
        BY RankFacts
      <4>2. x \in Piece
        BY <4>1, PieceFacts DEF Pair
      <4> QED
        BY <1>1, <3>1, <4>2, Single
    <3>7. f[n] = u \o f[n + 2]
      <4>1. f[n] = <<s[n] \o s[n + 1]>> \o f[n + 2]
        BY <2>2, <2>6, <3>1, Zenon DEF MergeStep, L
      <4> QED
        BY <3>2, <4>1
    <3>8. SubSeq(r, 1, m) = a \o u
      <4>0. \A y \in Piece : SubSeq(Replaced(t, m, y), 1, m) = SubSeq(t, 1, m - 1) \o <<y>>
        BY <2>1, <3>2, ReplacedPieces, SMTT(40)
      <4> HIDE DEF x
      <4>1. SubSeq(Replaced(t, m, x), 1, m) = SubSeq(t, 1, m - 1) \o <<x>>
        BY <3>6, <4>0, Zenon
      <4>2. r = Replaced(t, m, x)
        BY Zenon DEF MergedAt, x
      <4> QED
        BY <4>1, <4>2, Zenon
    <3> HIDE DEF a, u, r
    <3>9. (a \o u) \o f[n + 2] \in R
      BY <3>4, <3>5, <3>8
    <3>10. (a \o u) \o f[n + 2] = a \o (u \o f[n + 2])
      BY <1>3, <2>3, <3>6, Zenon DEF AssociativeOn
    <3>11. a \o f[n] \in R
      BY <3>7, <3>9, <3>10, Zenon
    <3> QED
      BY <3>11 DEF a
  <2> QED
    BY <2>4, <2>5, <2>6
<1>5. 1 \in G
  <2>1. L + 1 \in Nat /\ 1 \in 1..L + 1
    BY <1>2
  <2> HIDE DEF G
  <2>2. 1..L + 1 \subseteq G
    BY <1>4, <2>1, Downwards
  <2> QED
    BY <2>1, <2>2
<1>6. Ready(s, 1, s, 1, pair)
  <2>1. \A i \in 0..Len(s) - 1 : s[1 + i] = s[1 + i]
    OBVIOUS
  <2>2. 1 \in 1..Len(s) + 1 /\ \A k \in 1..Len(s) - 1 : ~(k < 1)
    BY <1>2
  <2> QED
    BY <2>1, <2>2 DEF Ready
<1>7. SubSeq(s, 1, 1 - 1) \o f[1] \in R
  <2>1. 1 \in 1..Len(s) + 1
    BY <1>2
  <2>2. Good(1)
    BY <1>5
  <2> QED
    BY <1>6, <2>1, <2>2
<1>8. SubSeq(s, 1, 1 - 1) \o f[1] = f[1]
  <2>1. SubSeq(s, 1, 1 - 1) = <<>>
    BY SubSeqEmpty
  <2>2. f[1] \in Seq(Piece)
    BY <1>1, <1>2
  <2>3. <<>> \o f[1] = f[1]
    BY <2>2, ConcatEmptySeq
  <2> QED
    BY <2>1, <2>3
<1> QED
  BY <1>1, <1>7, <1>8

------------------------------------------------------------------------------
(* The reference                                                           *)

Encoded(p) == [k \in DOMAIN p |-> <<byte_encoder(p[k])>>]
Refers(p, f) ==
  f = [n \in 0..Len(p) |->
         IF n = 0 THEN [k \in DOMAIN p |-> <<byte_encoder(p[k])>>]
         ELSE OneMerge(f[n - 1])]
After(p) == CHOOSE f : Refers(p, f)

LEMMA OneMergeType ==
  ASSUME MergesLoaded
  PROVE  \A t \in Seq(Piece) : OneMerge(t) \in Seq(Piece)
                               /\ (RankedPairs(t) = {} => OneMerge(t) = t)
<1> SUFFICES ASSUME NEW t \in Seq(Piece)
             PROVE  OneMerge(t) \in Seq(Piece) /\ (RankedPairs(t) = {} => OneMerge(t) = t)
  OBVIOUS
<1>1. CASE RankedPairs(t) = {}
  <2>1. OneMerge(t) = t
    BY <1>1, Zenon DEF OneMerge
  <2> QED
    BY <2>1
<1>2. CASE RankedPairs(t) # {}
  BY <1>2, OneMergeFacts
<1> QED
  BY <1>1, <1>2

LEMMA AfterFacts ==
  ASSUME MergesLoaded, NEW p \in Seq(Byte)
  PROVE  /\ After(p)[0] = Encoded(p) /\ Len(Encoded(p)) = Len(p)
         /\ \A n \in 1..Len(p) : After(p)[n] = OneMerge(After(p)[n - 1])
         /\ \A n \in 0..Len(p) : After(p)[n] \in Seq(Piece)
         /\ Reference(p) = After(p)[Len(p)]
<1> DEFINE m == Len(p)
           start == Encoded(p)
           step == [x \in (1..m) \X Seq(Piece) |-> OneMerge(x[2])]
<1>1. m \in Nat /\ start \in Seq(Piece) /\ Len(start) = m
  <2>1. Len(p) \in Nat /\ DOMAIN p = 1..Len(p)
    BY LenProperties
  <2>2. start \in Seq(Piece)
    BY EncoderType DEF Encoded
  <2>3. Len(start) = m
    <3>1. DOMAIN start = 1..m /\ DOMAIN start = 1..Len(start) /\ Len(start) \in Nat
      BY <2>1, <2>2, LenProperties DEF Encoded
    <3> HIDE DEF start
    <3> QED
      BY <2>1, <2>2, <3>1
  <2> QED
    BY <2>1, <2>2, <2>3
<1>2. \A n \in 1..m : \A s \in Seq(Piece) : step[n, s] = OneMerge(s)
  <2> HIDE DEF step
  <2> SUFFICES ASSUME NEW n \in 1..m, NEW s \in Seq(Piece) PROVE step[n, s] = OneMerge(s)
    BY Zenon
  <2> DEFINE x == <<n, s>>
  <2>1. x \in (1..m) \X Seq(Piece) /\ x[1] = n /\ x[2] = s
    OBVIOUS
  <2> HIDE DEF x, m
  <2>2. step[x] = OneMerge(s)
    BY <2>1, Zenon DEF step
  <2> QED
    BY <2>2, Zenon DEF x
<1>3. step \in Steps(m, Seq(Piece))
  BY <1>1, OneMergeType DEF Steps
<1> HIDE DEF step, m, start
<1>4. PICK f : Counts(m, Seq(Piece), start, step, f)
  BY <1>1, <1>3, CountExists, Zenon
<1>5. \A n \in 0..m : f[n] = IF n = 0 THEN start ELSE OneMerge(f[n - 1])
  <2> SUFFICES ASSUME NEW n \in 0..m
               PROVE  f[n] = IF n = 0 THEN start ELSE OneMerge(f[n - 1])
    OBVIOUS
  <2>1. n # 0 => n \in 1..m /\ n - 1 \in 0..m
    BY <1>1
  <2>2. n # 0 => step[n, f[n - 1]] = OneMerge(f[n - 1])
    BY <1>2, <1>4, <2>1, Zenon DEF Counts
  <2> QED
    BY <1>4, <2>2 DEF Counts, CountStep
<1>6. f = [n \in 0..m |-> IF n = 0 THEN start ELSE OneMerge(f[n - 1])]
  BY <1>4, <1>5 DEF Counts
<1>7. Refers(p, f)
  BY <1>6, Zenon DEF Refers, Encoded, start, m
<1> DEFINE g == After(p)
<1>8. Refers(p, g)
  BY <1>7, Zenon DEF After
<1>9. Reference(p) = g[m]
  BY Zenon DEF Reference, After, Refers, m
<1> HIDE DEF g
<1>10. \A n \in 0..m : g[n] = IF n = 0 THEN start ELSE OneMerge(g[n - 1])
  <2>1. g = [n \in 0..m |-> IF n = 0 THEN start ELSE OneMerge(g[n - 1])]
    BY <1>8, Zenon DEF Refers, Encoded, start, m
  <2> QED
    BY <2>1
<1> DEFINE G == {n \in 0..m : g[n] \in Seq(Piece)}
<1>11. 0 \in G /\ g[0] = start
  <2>1. 0 \in 0..m
    BY <1>1
  <2>2. g[0] = start
    BY <1>10, <2>1, Zenon
  <2> QED
    BY <1>1, <2>1, <2>2, Zenon
<1>12. ASSUME NEW n \in G, n < m
       PROVE  n + 1 \in G
  <2>1. n + 1 \in 0..m /\ n + 1 # 0 /\ (n + 1) - 1 = n /\ n + 1 \in 1..m
    BY <1>1, <1>12
  <2>2. g[n] \in Seq(Piece)
    OBVIOUS
  <2>3. g[n + 1] = OneMerge(g[n])
    BY <1>10, <2>1
  <2> QED
    BY <2>1, <2>2, <2>3, OneMergeType
<1>13. 0..m \subseteq G
  <2> HIDE DEF G
  <2> QED
    BY <1>1, <1>11, <1>12, Upwards
<1>14. \A n \in 1..m : g[n] = OneMerge(g[n - 1])
  <2> SUFFICES ASSUME NEW n \in 1..m PROVE g[n] = OneMerge(g[n - 1])
    OBVIOUS
  <2>1. n \in 0..m /\ n # 0
    BY <1>1
  <2> QED
    BY <1>10, <2>1, Zenon
<1>15. \A n \in 0..m : g[n] \in Seq(Piece)
  BY <1>13
<1> QED
  BY <1>1, <1>9, <1>11, <1>14, <1>15 DEF g, m, start

(* What the reference comes by, one symbol fewer each time                 *)
Reached(p) ==
  {t \in Seq(Piece) : \E k \in 0..Len(p) : t = After(p)[k] /\ Len(t) = Len(p) - k}

LEMMA ReachedFacts ==
  ASSUME MergesLoaded, NEW p \in Seq(Byte)
  PROVE  /\ Encoded(p) \in Reached(p)
         /\ \A t \in Reached(p) : RankedPairs(t) # {} => OneMerge(t) \in Reached(p)
         /\ \A t \in Reached(p) : RankedPairs(t) = {} => Reference(p) = t
<1> DEFINE m == Len(p)
           g == After(p)
<1>1. /\ g[0] = Encoded(p) /\ Len(Encoded(p)) = m
      /\ \A n \in 1..m : g[n] = OneMerge(g[n - 1])
      /\ \A n \in 0..m : g[n] \in Seq(Piece)
      /\ Reference(p) = g[m] /\ m \in Nat
  BY AfterFacts, LenProperties
<1>2. Reached(p) = {t \in Seq(Piece) : \E k \in 0..m : t = g[k] /\ Len(t) = m - k}
  BY DEF Reached
<1> HIDE DEF m, g
<1>3. Encoded(p) \in Reached(p)
  <2>1. 0 \in 0..m /\ m - 0 = m
    BY <1>1
  <2>2. Encoded(p) \in Seq(Piece) /\ Encoded(p) = g[0] /\ Len(Encoded(p)) = m - 0
    BY <1>1, <2>1
  <2> QED
    BY <1>2, <2>1, <2>2, Zenon
<1>4. ASSUME NEW t \in Reached(p), RankedPairs(t) # {}
      PROVE  OneMerge(t) \in Reached(p)
  <2>1. PICK k \in 0..m : t = g[k] /\ Len(t) = m - k /\ t \in Seq(Piece)
    BY <1>2
  <2>2. OneMerge(t) \in Seq(Piece) /\ Len(OneMerge(t)) = Len(t) - 1
    BY <1>4, <2>1, OneMergeFacts
  <2>3. Len(OneMerge(t)) \in Nat
    BY <2>2, LenProperties
  <2>4. k + 1 \in 0..m /\ k + 1 \in 1..m /\ (k + 1) - 1 = k /\ Len(OneMerge(t)) = m - (k + 1)
    BY <1>1, <2>1, <2>2, <2>3
  <2>5. g[k + 1] = OneMerge(t)
    BY <1>1, <2>1, <2>4
  <2> QED
    BY <1>2, <2>2, <2>4, <2>5, Zenon
<1>5. ASSUME NEW t \in Reached(p), RankedPairs(t) = {}
      PROVE  Reference(p) = t
  <2>1. PICK k \in 0..m : t = g[k] /\ t \in Seq(Piece)
    BY <1>2
  <2> DEFINE G == {n \in 0..m : n >= k => g[n] = t}
  <2>2. 0 \in G
    BY <1>1, <2>1
  <2>3. ASSUME NEW n \in G, n < m
        PROVE  n + 1 \in G
    <3>1. n \in Nat /\ k \in Nat /\ n + 1 \in 0..m /\ n + 1 \in 1..m /\ (n + 1) - 1 = n
      BY <1>1, <2>1, <2>3
    <3>2. CASE n + 1 = k
      BY <2>1, <3>1, <3>2
    <3>3. CASE n >= k
      <4>1. g[n] = t
        BY <3>3
      <4>2. g[n + 1] = OneMerge(t)
        BY <1>1, <3>1, <4>1
      <4>3. OneMerge(t) = t
        BY <1>5, <2>1, OneMergeType
      <4> QED
        BY <3>1, <4>2, <4>3
    <3>4. CASE n + 1 < k
      BY <3>1, <3>4
    <3> QED
      BY <3>1, <3>2, <3>3, <3>4
  <2>4. 0..m \subseteq G
    <3> HIDE DEF G
    <3> QED
      BY <1>1, <2>2, <2>3, Upwards
  <2>5. g[m] = t
    BY <1>1, <2>1, <2>4
  <2> QED
    BY <1>1, <2>5
<1> QED
  BY <1>3, <1>4, <1>5

(* The pass that MergePass makes stays with the reference.                 *)
LEMMA PassReached ==
  ASSUME MergesLoaded, Trained, NEW p \in Seq(Byte), NEW s \in Reached(p), RankedPairs(s) # {}
  PROVE  merge_all(s, BestPair(s)) \in Reached(p)
<1> DEFINE best == BestPair(s)
<1>1. s \in Seq(Piece) /\ Reached(p) \subseteq Seq(Piece)
  BY DEF Reached
<1>2. best \in DOMAIN merge_ranks
      /\ \A other \in RankedPairs(s) : merge_ranks[best] <= merge_ranks[other]
  BY <1>1, BestPairFacts
<1> HIDE DEF best
<1>3. First(s, best)
  BY <1>2 DEF First, RankedPairs
<1>4. LaterMerges
  BY TrainedOrder
<1>5. \A t \in Reached(p) : RankedPairs(t) # {} => OneMerge(t) \in Reached(p)
  BY ReachedFacts
<1> DEFINE R == Reached(p)
<1>6. R \subseteq Seq(Piece) /\ s \in R /\ \A t \in R : RankedPairs(t) # {} => OneMerge(t) \in R
  BY <1>1, <1>5
<1> HIDE DEF R
<1>7. merge_all(s, best) \in R
  BY <1>1, <1>2, <1>3, <1>4, <1>6, PassIsOneByOne
<1> QED
  BY <1>7 DEF R, best

------------------------------------------------------------------------------
(* What has been encoded is what the reference makes                       *)

Values == {token_ids[x] : x \in Piece}
idOf == [x \in Piece |-> token_ids[x]]
reference == [p \in Seq(Byte) |-> Reference(p)]
TokensOf(q) == FnMap(idOf, MapJoin(reference, q))
tokenizing == [part \in Part |-> ReferencePart(part)]

LEMMA IdOfFacts ==
  /\ IsMap(idOf, Piece, Values)
  /\ \A s \in Seq(Piece) : /\ FnMap(idOf, s) = [n \in DOMAIN s |-> token_ids[s[n]]]
                           /\ FnMap(idOf, s) \in Seq(Values)
  /\ \A s, t \in Seq(Piece) : FnMap(idOf, s \o t) = FnMap(idOf, s) \o FnMap(idOf, t)
<1>1. IsMap(idOf, Piece, Values) /\ \A x \in Piece : idOf[x] = token_ids[x]
  BY DEF IsMap, idOf, Values
<1>2. ASSUME NEW s \in Seq(Piece)
      PROVE  FnMap(idOf, s) = [n \in DOMAIN s |-> token_ids[s[n]]] /\ FnMap(idOf, s) \in Seq(Values)
  <2>1. \A n \in DOMAIN s : s[n] \in Piece
    BY LenProperties, ElementOfSeq
  <2>2. FnMap(idOf, s) = [n \in DOMAIN s |-> token_ids[s[n]]]
    BY <1>1, <2>1 DEF FnMap
  <2>3. FnMap(idOf, s) \in Seq(Values)
    BY <1>1, FnMapType, Zenon
  <2> QED
    BY <2>2, <2>3
<1>3. ASSUME NEW s \in Seq(Piece), NEW t \in Seq(Piece)
      PROVE  FnMap(idOf, s \o t) = FnMap(idOf, s) \o FnMap(idOf, t)
  BY <1>1, FnMapConcat
<1> QED
  BY <1>1, <1>2, <1>3

LEMMA ReferenceFacts ==
  ASSUME MergesLoaded
  PROVE  /\ IsMap(reference, Seq(Byte), Seq(Piece))
         /\ \A p \in Seq(Byte) : reference[p] = Reference(p) /\ Reference(p) \in Seq(Piece)
         /\ \A q \in Seq(Seq(Byte)) :
              MapJoin(reference, q) = FlattenSeq([n \in DOMAIN q |-> Reference(q[n])])
<1>1. \A p \in Seq(Byte) : Reference(p) \in Seq(Piece)
  <2> SUFFICES ASSUME NEW p \in Seq(Byte) PROVE Reference(p) \in Seq(Piece)
    OBVIOUS
  <2>1. Reference(p) = After(p)[Len(p)] /\ \A n \in 0..Len(p) : After(p)[n] \in Seq(Piece)
    BY AfterFacts
  <2>2. Len(p) \in 0..Len(p)
    BY LenProperties
  <2> QED
    BY <2>1, <2>2
<1>2. /\ IsMap(reference, Seq(Byte), Seq(Piece))
      /\ \A p \in Seq(Byte) : reference[p] = Reference(p)
  BY <1>1 DEF IsMap, reference
<1>3. ASSUME NEW q \in Seq(Seq(Byte))
      PROVE  MapJoin(reference, q) = FlattenSeq([n \in DOMAIN q |-> Reference(q[n])])
  <2>1. \A n \in DOMAIN q : q[n] \in Seq(Byte)
    BY LenProperties, ElementOfSeq
  <2>2. FnMap(reference, q) = [n \in DOMAIN q |-> Reference(q[n])]
    BY <1>2, <2>1 DEF FnMap
  <2> QED
    BY <2>2, Zenon DEF MapJoin
<1> QED
  BY <1>1, <1>2, <1>3

LEMMA TokensOfFacts ==
  ASSUME MergesLoaded
  PROVE  /\ \A q \in Seq(Seq(Byte)) : TokensOf(q) \in Seq(Values)
         /\ TokensOf(<<>>) = <<>>
         /\ \A h \in Seq(Byte), t \in Seq(Seq(Byte)) :
              TokensOf(<<h>> \o t) = FnMap(idOf, Reference(h)) \o TokensOf(t)
<1>1. IsMap(reference, Seq(Byte), Seq(Piece))
      /\ \A p \in Seq(Byte) : reference[p] = Reference(p) /\ Reference(p) \in Seq(Piece)
  BY ReferenceFacts
<1>2. \A q \in Seq(Seq(Byte)) : MapJoin(reference, q) \in Seq(Piece)
  <2> SUFFICES ASSUME NEW q \in Seq(Seq(Byte)) PROVE MapJoin(reference, q) \in Seq(Piece)
    OBVIOUS
  <2> QED
    BY <1>1, MapJoinType
<1>3. \A q \in Seq(Seq(Byte)) : TokensOf(q) \in Seq(Values)
  BY <1>2, IdOfFacts DEF TokensOf
<1>4. TokensOf(<<>>) = <<>>
  <2>1. MapJoin(reference, <<>>) = <<>>
    BY EmptySeq DEF MapJoin, FnMap, FlattenSeq
  <2>2. FnMap(idOf, <<>>) = <<>>
    BY DEF FnMap
  <2> QED
    BY <2>1, <2>2, Zenon DEF TokensOf
<1>5. ASSUME NEW h \in Seq(Byte), NEW t \in Seq(Seq(Byte))
      PROVE  TokensOf(<<h>> \o t) = FnMap(idOf, Reference(h)) \o TokensOf(t)
  <2> DEFINE a == MapJoin(reference, t)
  <2>1. MapJoin(reference, <<h>> \o t) = reference[h] \o MapJoin(reference, t)
    BY <1>1, MapJoinCons
  <2>2. MapJoin(reference, <<h>> \o t) = Reference(h) \o a
    BY <1>1, <2>1
  <2>3. a \in Seq(Piece) /\ Reference(h) \in Seq(Piece)
    BY <1>1, <1>2
  <2> HIDE DEF a
  <2>4. FnMap(idOf, Reference(h) \o a) = FnMap(idOf, Reference(h)) \o FnMap(idOf, a)
    BY <2>3, IdOfFacts
  <2> QED
    BY <2>2, <2>4, Zenon DEF TokensOf, a
<1> QED
  BY <1>3, <1>4, <1>5

LEMMA TokenizingFacts ==
  ASSUME MergesLoaded
  PROVE  /\ IsMap(tokenizing, Part, Seq(Values))
         /\ \A b \in Seq(Byte) : /\ tokenizing[Plain(b)] = TokensOf(Pretokens(b))
                                 /\ tokenizing[Special(b)] = <<token_ids[b]>>
         /\ tokenizing[Plain(<<>>)] = <<>>
<1>1. ASSUME NEW part \in Part
      PROVE  /\ part.added => ReferencePart(part) = <<token_ids[part.bytes]>>
             /\ ~part.added => ReferencePart(part) = TokensOf(Pretokens(part.bytes))
             /\ ReferencePart(part) \in Seq(Values)
  <2> DEFINE q == Pretokens(part.bytes)
             s == FlattenSeq([n \in DOMAIN q |-> Reference(q[n])])
  <2>1. part.bytes \in Seq(Byte) /\ part.added \in BOOLEAN
    BY DEF Part
  <2>2. q \in Seq(Seq(Byte))
    BY <2>1, PretokensFacts
  <2>3. ReferencePart(part) = IF part.added THEN <<token_ids[part.bytes]>>
                              ELSE [n \in DOMAIN s |-> token_ids[s[n]]]
    BY Zenon DEF ReferencePart
  <2> HIDE DEF q
  <2>4. s = MapJoin(reference, q)
    BY <2>2, ReferenceFacts
  <2> HIDE DEF s
  <2>5. s \in Seq(Piece)
    <3>1. IsMap(reference, Seq(Byte), Seq(Piece))
      BY ReferenceFacts
    <3>2. MapJoin(reference, q) \in Seq(Piece)
      BY <2>2, <3>1, MapJoinType
    <3> QED
      BY <2>4, <3>2
  <2>6. [n \in DOMAIN s |-> token_ids[s[n]]] = TokensOf(q)
    <3>1. FnMap(idOf, s) = [n \in DOMAIN s |-> token_ids[s[n]]]
      BY <2>5, IdOfFacts
    <3> QED
      BY <2>4, <3>1, Zenon DEF TokensOf
  <2>7. TokensOf(q) \in Seq(Values)
    BY <2>2, TokensOfFacts
  <2>8. <<token_ids[part.bytes]>> \in Seq(Values)
    <3>1. part.bytes \in Piece
      BY <2>1, BytesArePieces
    <3>2. token_ids[part.bytes] \in Values
      BY <3>1 DEF Values
    <3> QED
      BY <3>2, Single, Zenon
  <2> QED
    BY <2>1, <2>3, <2>6, <2>7, <2>8, Zenon DEF q
<1>2. IsMap(tokenizing, Part, Seq(Values)) /\ \A part \in Part : tokenizing[part] = ReferencePart(part)
  BY <1>1 DEF IsMap, tokenizing
<1>3. ASSUME NEW b \in Seq(Byte)
      PROVE  /\ tokenizing[Plain(b)] = TokensOf(Pretokens(b))
             /\ tokenizing[Special(b)] = <<token_ids[b]>>
  <2>1. Plain(b) \in Part /\ Special(b) \in Part
    BY PartTypes
  <2>2. ~Plain(b).added /\ Plain(b).bytes = b /\ Special(b).added /\ Special(b).bytes = b
    BY DEF Plain, Special
  <2>3. tokenizing[Plain(b)] = TokensOf(Pretokens(Plain(b).bytes))
    BY <1>1, <1>2, <2>1, <2>2, Zenon
  <2>4. tokenizing[Special(b)] = <<token_ids[Special(b).bytes]>>
    BY <1>1, <1>2, <2>1, <2>2, Zenon
  <2> QED
    BY <2>2, <2>3, <2>4, Zenon
<1>4. tokenizing[Plain(<<>>)] = <<>>
  <2>1. <<>> \in Seq(Byte)
    BY EmptySeq
  <2>2. Pretokens(<<>>) = <<>>
    BY <2>1, PretokensFacts
  <2>3. TokensOf(<<>>) = <<>>
    BY TokensOfFacts
  <2>4. tokenizing[Plain(<<>>)] = TokensOf(Pretokens(<<>>))
    BY <1>3, <2>1, Zenon
  <2> QED
    BY <2>2, <2>3, <2>4, Zenon
<1> QED
  BY <1>2, <1>3, <1>4

Whole == From(tokenizing, 1)

EInv ==
  /\ pc \in {"scan"} \cup Inside => output \in Seq(Values)
  /\ pc = "scan" => output \o From(tokenizing, cursor) = Whole
  /\ pc \in Inside => output \o (TokensOf(pretokens) \o FromSpecial(tokenizing, special)) = Whole
  /\ pc = "merge" => symbols \in Reached(Head(pretokens))
  /\ pc = "emit" => symbols = Reference(Head(pretokens))
  /\ result = "ok" => output = Whole

LEMMA KeptReference ==
  ASSUME Kept
  PROVE  /\ Values' = Values /\ idOf' = idOf /\ tokenizing' = tokenizing /\ Whole' = Whole
         /\ \A p : Reached(p)' = Reached(p) /\ Reference(p)' = Reference(p)
         /\ \A q : TokensOf(q)' = TokensOf(q)
         /\ \A p : From(tokenizing, p)' = From(tokenizing, p)
<1>1. json' = json /\ text' = text /\ token_ids' = token_ids /\ merge_ranks' = merge_ranks
  BY DEF Kept, tokenizerVars
<1>2. Values' = Values /\ idOf' = idOf
  BY <1>1, Zenon DEF Values, idOf
<1>3. \A s : RankedPairs(s)' = RankedPairs(s)
  BY <1>1, Zenon DEF RankedPairs, PairAt
<1>4. \A s : BestPair(s)' = BestPair(s)
  BY <1>1, <1>3, Zenon DEF BestPair
<1>5. \A s : OneMerge(s)' = OneMerge(s)
  BY <1>3, <1>4, Zenon DEF OneMerge, PairAt
<1>6. \A p, f : Refers(p, f)' <=> Refers(p, f)
  <2> SUFFICES ASSUME NEW p, NEW f PROVE Refers(p, f)' <=> Refers(p, f)
    BY Zenon
  <2>1. [n \in 0..Len(p) |->
           IF n = 0 THEN [k \in DOMAIN p |-> <<byte_encoder(p[k])>>] ELSE OneMerge(f[n - 1])']
        = [n \in 0..Len(p) |->
             IF n = 0 THEN [k \in DOMAIN p |-> <<byte_encoder(p[k])>>] ELSE OneMerge(f[n - 1])]
    BY <1>5
  <2> QED
    BY <2>1, Zenon DEF Refers
<1>7. \A p : After(p)' = After(p)
  BY <1>6, Zenon DEF After
<1>8. \A p : Reference(p) = After(p)[Len(p)]
  BY Zenon DEF Reference, After, Refers
<1>9. \A p : Reference(p)' = After(p)'[Len(p)]
  BY Zenon DEF Reference, After, Refers
<1>10. \A p : Reached(p)' = Reached(p) /\ Reference(p)' = Reference(p)
  <2>1. \A p : Reached(p)' = Reached(p)
    BY <1>7, Zenon DEF Reached
  <2> QED
    BY <1>7, <1>8, <1>9, <2>1, Zenon
<1>11. \A part : ReferencePart(part)' = ReferencePart(part)
  BY <1>1, <1>10, Zenon DEF ReferencePart
<1>12. tokenizing' = tokenizing /\ reference' = reference
  <2>1. tokenizing' = tokenizing
    BY <1>11, Zenon DEF tokenizing
  <2>2. reference' = reference
    BY <1>10, Zenon DEF reference
  <2> QED
    BY <2>1, <2>2
<1>13. \A q : TokensOf(q)' = TokensOf(q)
  BY <1>2, <1>12, Zenon DEF TokensOf, MapJoin, FnMap
<1>14. \A p : From(tokenizing, p)' = From(tokenizing, p)
  <2>1. PartsAt' = PartsAt
    BY <1>1, KeptParts
  <2> QED
    BY <1>12, <2>1, Zenon DEF From
<1> QED
  BY <1>2, <1>10, <1>12, <1>13, <1>14, Zenon DEF Whole

LEMMA KeptTokenSpecial ==
  ASSUME Kept, cursor' = cursor
  PROVE  FromSpecial(tokenizing, special)' = FromSpecial(tokenizing, special')
<1>1. \A c : Found(c)' = Found(c)
  BY KeptFacts
<1>2. tokenizing' = tokenizing /\ PartsAt' = PartsAt
  BY KeptReference, KeptParts DEF Kept
<1>3. \A p : From(tokenizing, p)' = From(tokenizing, p)
  BY KeptReference
<1> QED
  BY <1>1, <1>2, <1>3, Zenon DEF FromSpecial

LEMMA IsMergesLoaded == Loaded => MergesLoaded
BY DEF Loaded, MergesLoaded

LEMMA TokenizedType ==
  Loaded /\ Consistent /\ text \in Texts =>
    /\ \A p \in 1..Len(text) + 1 : From(tokenizing, p) \in Seq(Values)
    /\ Whole \in Seq(Values)
<1> SUFFICES ASSUME Loaded, Consistent, text \in Texts
             PROVE  /\ \A p \in 1..Len(text) + 1 : From(tokenizing, p) \in Seq(Values)
                    /\ Whole \in Seq(Values)
  OBVIOUS
<1>1. \A p \in 1..Len(text) + 1 : From(tokenizing, p) \in Seq(Values)
  <2>1. IsMap(tokenizing, Part, Seq(Values))
    BY IsMergesLoaded, TokenizingFacts
  <2> QED
    BY <2>1, FromType
<1>2. 1 \in 1..Len(text) + 1
  BY TextType
<1> QED
  BY <1>1, <1>2 DEF Whole

LEMMA TokenSpecialType ==
  ASSUME IInv, Consistent, pc \in Inside
  PROVE  FromSpecial(tokenizing, special) \in Seq(Values)
<1>1. Loaded /\ text \in Texts /\ cursor \in 1..Len(text) /\ special = FirstSpecial
  BY TextType DEF IInv, Inside
<1>2. IsMap(tokenizing, Part, Seq(Values)) /\ tokenizing[Plain(<<>>)] = <<>>
  BY <1>1, IsMergesLoaded, TokenizingFacts
<1>3. FromSpecial(tokenizing, FirstSpecial) \in Seq(Values)
  BY <1>1, <1>2, FromCursor
<1> QED
  BY <1>1, <1>3

LEMMA LoadEInv == IInv /\ IInv' /\ Consistent /\ from_json => EInv'
<1> SUFFICES ASSUME IInv, IInv', Consistent, from_json PROVE EInv'
  OBVIOUS
<1>1. json' = json /\ text' = text /\ output' = <<>> /\ cursor' = 1 /\ result = "none"
  BY DEF from_json, IInv
<1>2. CASE json_valid(json)
  <2>1. pc' = "scan" /\ result' = "none"
    BY <1>1, <1>2, Zenon DEF from_json, Goto
  <2>2. Loaded' /\ Consistent' /\ text' \in Texts
    BY <1>1, <2>1, KeptParts DEF IInv
  <2>3. (Whole \in Seq(Values))'
    <3>1. (Loaded /\ Consistent /\ text \in Texts =>
             /\ \A p \in 1..Len(text) + 1 : From(tokenizing, p) \in Seq(Values)
             /\ Whole \in Seq(Values))'
      BY TokenizedType, PTL
    <3> QED
      BY <2>2, <3>1
  <2>4. From(tokenizing, cursor)' = Whole'
    BY <1>1, Zenon DEF Whole, From
  <2> HIDE DEF Whole, Values
  <2>5. <<>> \o Whole' = Whole'
    BY <2>3, ConcatEmptySeq
  <2>6. output' \in Seq(Values')
    BY <1>1, EmptySeq
  <2>7. (output \o From(tokenizing, cursor))' = Whole'
    BY <1>1, <2>4, <2>5, Zenon
  <2> QED
    BY <2>1, <2>6, <2>7 DEF EInv, Inside
<1>3. CASE ~json_valid(json)
  <2>1. pc' = "returned" /\ result' = "corrupt"
    BY <1>3, Zenon DEF from_json, Return
  <2> QED
    BY <2>1 DEF EInv, Inside
<1> QED
  BY <1>2, <1>3

LEMMA ScanEInv == IInv /\ Consistent /\ EInv /\ Scan => EInv'
<1> SUFFICES ASSUME IInv, Consistent, EInv, Scan PROVE EInv'
  OBVIOUS
<1>1. /\ Kept /\ cursor' = cursor /\ output' = output /\ json' = json /\ text' = text
  BY DEF Scan, Kept, tokenizerVars
<1>2. /\ pc = "scan" /\ Loaded /\ text \in Texts /\ cursor \in Nat \ {0} /\ result = "none"
      /\ cursor <= Len(text) + 1 /\ output \in Seq(Values)
      /\ output \o From(tokenizing, cursor) = Whole
  BY DEF IInv, EInv, Scan, Inside
<1>3. text \in Seq(Byte) /\ Len(text) \in Nat
  BY <1>2, TextType
<1>4. Whole' = Whole /\ Values' = Values /\ \A q : TokensOf(q)' = TokensOf(q)
  BY <1>1, KeptReference
<1>5. CASE cursor > Len(text)
  <2>1. pc' = "returned" /\ result' = "ok"
    BY <1>5, Zenon DEF Scan, Return
  <2>2. PartsAt[cursor] = <<>>
    <3>1. cursor \in 1..Len(text) + 1
      BY <1>2, <1>3
    <3>2. PartsAt[cursor] = PartsStep(cursor, PartsAt)
      BY <1>2, <3>1, PartsSteps
    <3> QED
      BY <1>5, <3>2, Zenon DEF PartsStep
  <2>3. From(tokenizing, cursor) = <<>>
    BY <2>2, EmptySeq DEF From, MapJoin, FnMap, FlattenSeq
  <2>4. output \o <<>> = output
    BY <1>2, ConcatEmptySeq
  <2>5. output = Whole
    BY <1>2, <2>3, <2>4, Zenon
  <2> HIDE DEF Whole
  <2>6. (output = Whole)'
    BY <1>1, <1>4, <2>5
  <2> QED
    BY <2>1, <2>6 DEF EInv, Inside
<1>6. CASE ~(cursor > Len(text))
  <2>0. cursor \in 1..Len(text)
    BY <1>2, <1>3, <1>6
  <2>1. /\ pretokens' = Pretokens(Segment) /\ special' = FirstSpecial
        /\ pc' = "segment" /\ result' = "none"
    BY <1>2, <1>6, Zenon DEF Scan, Goto, Segment
  <2>2. IsMap(tokenizing, Part, Seq(Values)) /\ tokenizing[Plain(<<>>)] = <<>>
        /\ \A b \in Seq(Byte) : tokenizing[Plain(b)] = TokensOf(Pretokens(b))
    BY <1>2, IsMergesLoaded, TokenizingFacts
  <2>3. TokensOf(pretokens') = tokenizing[Plain(Segment)]
    <3>1. Segment \in Seq(Byte)
      BY <1>2, <2>0, SegmentType
    <3> QED
      BY <2>1, <2>2, <3>1, Zenon
  <2>4. From(tokenizing, cursor) = tokenizing[Plain(Segment)] \o FromSpecial(tokenizing, FirstSpecial)
    BY <1>2, <2>0, <2>2, FromCursor
  <2>5. FromSpecial(tokenizing, special)' = FromSpecial(tokenizing, FirstSpecial)
    <3>1. FromSpecial(tokenizing, special)' = FromSpecial(tokenizing, special')
      BY <1>1, KeptTokenSpecial
    <3> QED
      BY <2>1, <3>1, Zenon
  <2>6. TokensOf(pretokens)' = TokensOf(pretokens')
    <3>1. idOf' = idOf /\ \A p : Reference(p)' = Reference(p)
      BY <1>1, KeptReference
    <3>2. reference' = reference
      BY <3>1, Zenon DEF reference
    <3> QED
      BY <3>1, <3>2, Zenon DEF TokensOf, MapJoin, FnMap
  <2>7. (output \o (TokensOf(pretokens) \o FromSpecial(tokenizing, special)))' = Whole'
    BY <1>1, <1>2, <1>4, <2>3, <2>4, <2>5, <2>6, Zenon
  <2>8. output' \in Seq(Values')
    BY <1>1, <1>2, <1>4
  <2> HIDE DEF Whole, Values
  <2> QED
    BY <2>1, <2>7, <2>8 DEF EInv, Inside
<1> QED
  BY <1>5, <1>6

LEMMA TokensKept ==
  ASSUME Kept
  PROVE  TokensOf(pretokens)' = TokensOf(pretokens')
         /\ Reached(Head(pretokens))' = Reached(Head(pretokens'))
         /\ Reference(Head(pretokens))' = Reference(Head(pretokens'))
<1>1. idOf' = idOf /\ \A p : Reached(p)' = Reached(p) /\ Reference(p)' = Reference(p)
  BY KeptReference
<1>2. reference' = reference
  BY <1>1, Zenon DEF reference
<1>3. TokensOf(pretokens)' = TokensOf(pretokens')
  BY <1>1, <1>2, Zenon DEF TokensOf, MapJoin, FnMap
<1>4. json' = json /\ text' = text /\ token_ids' = token_ids /\ merge_ranks' = merge_ranks
  BY DEF Kept, tokenizerVars
<1>5. \A s : OneMerge(s)' = OneMerge(s)
  <2>1. \A s : RankedPairs(s)' = RankedPairs(s)
    BY <1>4, Zenon DEF RankedPairs, PairAt
  <2>2. \A s : BestPair(s)' = BestPair(s)
    BY <1>4, <2>1, Zenon DEF BestPair
  <2> QED
    BY <2>1, <2>2, Zenon DEF OneMerge, PairAt
<1>6. After(Head(pretokens))' = After(Head(pretokens'))
  <2> DEFINE p == Head(pretokens')
  <2>1. \A f : [n \in 0..Len(p) |->
           IF n = 0 THEN [k \in DOMAIN p |-> <<byte_encoder(p[k])>>] ELSE OneMerge(f[n - 1])']
        = [n \in 0..Len(p) |->
             IF n = 0 THEN [k \in DOMAIN p |-> <<byte_encoder(p[k])>>] ELSE OneMerge(f[n - 1])]
    BY <1>5
  <2>2. \A f : Refers(Head(pretokens), f)' <=> Refers(p, f)
    BY <2>1, Zenon DEF Refers
  <2> QED
    BY <2>2, Zenon DEF After
<1>7. Reached(Head(pretokens))' = Reached(Head(pretokens'))
  BY <1>6, Zenon DEF Reached
<1>8. Reference(Head(pretokens))' = Reference(Head(pretokens'))
  <2>1. Reference(Head(pretokens))' = After(Head(pretokens))'[Len(Head(pretokens'))]
    BY Zenon DEF Reference, After, Refers
  <2>2. Reference(Head(pretokens')) = After(Head(pretokens'))[Len(Head(pretokens'))]
    BY Zenon DEF Reference, After, Refers
  <2> QED
    BY <1>6, <2>1, <2>2, Zenon
<1> QED
  BY <1>3, <1>7, <1>8

LEMMA PretokenEInv == IInv /\ Consistent /\ EInv /\ Pretoken => EInv'
<1> SUFFICES ASSUME IInv, Consistent, EInv, Pretoken PROVE EInv'
  OBVIOUS
<1>1. /\ Kept /\ cursor' = cursor /\ pretokens' = pretokens /\ output' = output
      /\ special' = special /\ result' = result /\ json' = json /\ text' = text
      /\ pc = "segment" /\ pc' = "merge" /\ pretokens # <<>>
      /\ symbols' = [n \in DOMAIN Head(pretokens) |-> <<byte_encoder(Head(pretokens)[n])>>]
  BY DEF Pretoken, Kept, Goto, tokenizerVars
<1>2. Whole' = Whole /\ Values' = Values /\ TokensOf(pretokens)' = TokensOf(pretokens)
      /\ FromSpecial(tokenizing, special)' = FromSpecial(tokenizing, special)
      /\ Reached(Head(pretokens))' = Reached(Head(pretokens))
  <2>1. TokensOf(pretokens)' = TokensOf(pretokens') /\ Reached(Head(pretokens))' = Reached(Head(pretokens'))
    BY <1>1, TokensKept
  <2>2. FromSpecial(tokenizing, special)' = FromSpecial(tokenizing, special')
    BY <1>1, KeptTokenSpecial
  <2>3. Whole' = Whole /\ Values' = Values
    BY <1>1, KeptReference
  <2> QED
    BY <1>1, <2>1, <2>2, <2>3, Zenon
<1>3. Head(pretokens) \in Seq(Byte) /\ MergesLoaded
  BY <1>1, HeadTailProperties, IsMergesLoaded DEF IInv, Inside
<1>4. symbols' \in Reached(Head(pretokens))
  <2>1. symbols' = Encoded(Head(pretokens))
    BY <1>1, Zenon DEF Encoded
  <2> QED
    BY <1>3, <2>1, ReachedFacts
<1>5. output \in Seq(Values) /\ result = "none"
      /\ output \o (TokensOf(pretokens) \o FromSpecial(tokenizing, special)) = Whole
  BY <1>1 DEF EInv, IInv, Inside
<1> HIDE DEF Whole, Values
<1>6. (output \o (TokensOf(pretokens) \o FromSpecial(tokenizing, special)))' = Whole'
  BY <1>1, <1>2, <1>5, Zenon
<1>7. (symbols \in Reached(Head(pretokens)))' /\ output' \in Seq(Values')
  BY <1>1, <1>2, <1>4, <1>5, Zenon
<1> QED
  BY <1>1, <1>5, <1>6, <1>7 DEF EInv, Inside

LEMMA MergePassEInv == IInv /\ Consistent /\ Trained /\ EInv /\ MergePass => EInv'
<1> SUFFICES ASSUME IInv, Consistent, Trained, EInv, MergePass PROVE EInv'
  OBVIOUS
<1>1. /\ Kept /\ cursor' = cursor /\ pretokens' = pretokens /\ output' = output
      /\ special' = special /\ result' = result /\ json' = json /\ text' = text
  BY DEF MergePass, Kept, tokenizerVars
<1>2. Whole' = Whole /\ Values' = Values /\ TokensOf(pretokens)' = TokensOf(pretokens)
      /\ FromSpecial(tokenizing, special)' = FromSpecial(tokenizing, special)
      /\ Reached(Head(pretokens))' = Reached(Head(pretokens))
      /\ Reference(Head(pretokens))' = Reference(Head(pretokens))
  <2>1. /\ TokensOf(pretokens)' = TokensOf(pretokens')
        /\ Reached(Head(pretokens))' = Reached(Head(pretokens'))
        /\ Reference(Head(pretokens))' = Reference(Head(pretokens'))
    BY <1>1, TokensKept
  <2>2. FromSpecial(tokenizing, special)' = FromSpecial(tokenizing, special')
    BY <1>1, KeptTokenSpecial
  <2>3. Whole' = Whole /\ Values' = Values
    BY <1>1, KeptReference
  <2> QED
    BY <1>1, <2>1, <2>2, <2>3, Zenon
<1>3. /\ pc = "merge" /\ result = "none" /\ pretokens \in Seq(Seq(Byte)) /\ pretokens # <<>>
      /\ MergesLoaded /\ symbols \in Seq(Piece) /\ symbols \in Reached(Head(pretokens))
      /\ output \in Seq(Values)
      /\ output \o (TokensOf(pretokens) \o FromSpecial(tokenizing, special)) = Whole
  BY IsMergesLoaded DEF MergePass, IInv, EInv, Inside
<1>4. Head(pretokens) \in Seq(Byte)
  BY <1>3, HeadTailProperties
<1> HIDE DEF Whole, Values
<1>5. (output \o (TokensOf(pretokens) \o FromSpecial(tokenizing, special)))' = Whole'
      /\ output' \in Seq(Values')
  BY <1>1, <1>2, <1>3, Zenon
<1>6. CASE Len(symbols) > 1 /\ RankedPairs(symbols) # {}
  <2>1. symbols' = merge_all(symbols, BestPair(symbols)) /\ pc' = "merge"
    BY <1>3, <1>6 DEF MergePass
  <2>2. merge_all(symbols, BestPair(symbols)) \in Reached(Head(pretokens))
    BY <1>3, <1>4, <1>6, PassReached
  <2>3. (symbols \in Reached(Head(pretokens)))'
    BY <1>2, <2>1, <2>2, Zenon
  <2> QED
    BY <1>1, <1>3, <1>5, <2>1, <2>3 DEF EInv, Inside
<1>7. CASE ~(Len(symbols) > 1 /\ RankedPairs(symbols) # {})
  <2>1. symbols' = symbols /\ pc' = "emit"
    BY <1>7, Zenon DEF MergePass, Goto
  <2>2. RankedPairs(symbols) = {}
    <3>1. CASE ~(Len(symbols) > 1)
      <4>1. Len(symbols) \in Nat
        BY <1>3, LenProperties
      <4>2. \A n \in 1..Len(symbols) - 1 : FALSE
        BY <3>1, <4>1
      <4> QED
        BY <4>2, Zenon DEF RankedPairs
    <3> QED
      BY <1>7, <3>1
  <2>3. Reference(Head(pretokens)) = symbols
    BY <1>3, <1>4, <2>2, ReachedFacts
  <2>4. (symbols = Reference(Head(pretokens)))'
    BY <1>2, <2>1, <2>3, Zenon
  <2> QED
    BY <1>1, <1>3, <1>5, <2>1, <2>4 DEF EInv, Inside
<1> QED
  BY <1>6, <1>7

LEMMA EmitEInv == IInv /\ Consistent /\ EInv /\ Emit => EInv'
<1> SUFFICES ASSUME IInv, Consistent, EInv, Emit PROVE EInv'
  OBVIOUS
<1>1. /\ Kept /\ cursor' = cursor /\ symbols' = symbols
      /\ special' = special /\ json' = json /\ text' = text /\ pc = "emit"
  BY DEF Emit, Kept, tokenizerVars
<1>2. /\ MergesLoaded /\ output \in Seq(Values) /\ result = "none" /\ symbols \in Seq(Piece)
      /\ pretokens \in Seq(Seq(Byte)) /\ pretokens # <<>>
      /\ symbols = Reference(Head(pretokens))
      /\ output \o (TokensOf(pretokens) \o FromSpecial(tokenizing, special)) = Whole
  BY <1>1, IsMergesLoaded DEF EInv, IInv, Inside
<1>3. CASE Range(symbols) \subseteq DOMAIN token_ids
  <2> DEFINE ids == [n \in DOMAIN symbols |-> token_ids[symbols[n]]]
             rest == FromSpecial(tokenizing, special)
             h == Head(pretokens)
             t == Tail(pretokens)
  <2>1. output' = output \o ids /\ pretokens' = t /\ pc' = "segment" /\ result' = result
    BY <1>3, Zenon DEF Emit, Goto
  <2>2. ids = FnMap(idOf, symbols) /\ ids \in Seq(Values)
    <3>1. FnMap(idOf, symbols) = [n \in DOMAIN symbols |-> token_ids[symbols[n]]]
          /\ FnMap(idOf, symbols) \in Seq(Values)
      BY <1>2, IdOfFacts
    <3> QED
      BY <3>1, Zenon
  <2>3. rest \in Seq(Values)
    BY <1>1, TokenSpecialType DEF Inside
  <2>4. h \in Seq(Byte) /\ t \in Seq(Seq(Byte)) /\ pretokens = <<h>> \o t
    BY <1>2, HeadOfSeq
  <2>5. TokensOf(t) \in Seq(Values) /\ TokensOf(<<h>> \o t) = FnMap(idOf, Reference(h)) \o TokensOf(t)
    BY <1>2, <2>4, TokensOfFacts
  <2>6. TokensOf(pretokens) = ids \o TokensOf(t)
    BY <1>2, <2>2, <2>4, <2>5, Zenon
  <2> HIDE DEF ids, rest, h, t, Values
  <2> DEFINE u == TokensOf(t)
  <2>7. u \in Seq(Values)
    BY <2>5
  <2> HIDE DEF u
  <2>8. output \o ((ids \o u) \o rest) = (output \o ids) \o (u \o rest)
    <3>1. AssociativeOn(Seq(Values))
      BY Associative, Zenon
    <3>2. u \o rest \in Seq(Values)
      BY <2>3, <2>7, ConcatProperties
    <3>3. (ids \o u) \o rest = ids \o (u \o rest)
      BY <2>2, <2>3, <2>7, <3>1, Zenon DEF AssociativeOn
    <3>4. output \o (ids \o (u \o rest)) = (output \o ids) \o (u \o rest)
      BY <1>2, <2>2, <3>1, <3>2, ZenonT(40) DEF AssociativeOn
    <3> QED
      BY <3>3, <3>4
  <2>9. (output \o ids) \o (u \o rest) = Whole
    BY <1>2, <2>6, <2>8, Zenon DEF u, rest
  <2>10. Whole' = Whole /\ Values' = Values /\ TokensOf(pretokens)' = u
         /\ FromSpecial(tokenizing, special)' = rest
    <3>1. TokensOf(pretokens)' = TokensOf(pretokens')
      BY <1>1, TokensKept
    <3>2. FromSpecial(tokenizing, special)' = FromSpecial(tokenizing, special')
      BY <1>1, KeptTokenSpecial
    <3>3. Whole' = Whole /\ Values' = Values
      BY <1>1, KeptReference
    <3> QED
      BY <1>1, <2>1, <3>1, <3>2, <3>3, Zenon DEF u, rest
  <2> HIDE DEF Whole
  <2>11. (output \o (TokensOf(pretokens) \o FromSpecial(tokenizing, special)))' = Whole'
    BY <2>1, <2>9, <2>10, Zenon
  <2>12. output' \in Seq(Values')
    <3>1. output \o ids \in Seq(Values)
      BY <1>2, <2>2, ConcatProperties
    <3> QED
      BY <2>1, <2>10, <3>1, Zenon
  <2> QED
    BY <1>2, <2>1, <2>11, <2>12 DEF EInv, Inside
<1>4. CASE ~(Range(symbols) \subseteq DOMAIN token_ids)
  <2>1. pc' = "returned" /\ result' = "corrupt"
    BY <1>4, Zenon DEF Emit, Return
  <2> QED
    BY <2>1 DEF EInv, Inside
<1> QED
  BY <1>3, <1>4

LEMMA SegmentEndsEInv == IInv /\ Consistent /\ EInv /\ SegmentEnds => EInv'
<1> SUFFICES ASSUME IInv, Consistent, EInv, SegmentEnds PROVE EInv'
  OBVIOUS
<1>1. /\ Kept /\ symbols' = symbols /\ pretokens' = pretokens /\ pretokens = <<>>
      /\ special' = special /\ json' = json /\ text' = text /\ pc = "segment"
  BY DEF SegmentEnds, Kept, tokenizerVars
<1>2. /\ Loaded /\ MergesLoaded /\ output \in Seq(Values) /\ result = "none" /\ text \in Texts
      /\ cursor \in Nat \ {0}
      /\ output \o (TokensOf(pretokens) \o FromSpecial(tokenizing, special)) = Whole
  BY <1>1, IsMergesLoaded DEF EInv, IInv, Inside
<1> DEFINE rest == FromSpecial(tokenizing, special)
<1>3. rest \in Seq(Values)
  BY <1>1, TokenSpecialType DEF Inside
<1>4. TokensOf(pretokens) \o rest = rest
  <2>1. TokensOf(pretokens) = <<>>
    BY <1>1, <1>2, TokensOfFacts
  <2> HIDE DEF rest, Values
  <2>2. <<>> \o rest = rest
    BY <1>3, ConcatEmptySeq
  <2> QED
    BY <2>1, <2>2
<1>5. output \o rest = Whole
  BY <1>2, <1>4, Zenon
<1>6. Whole' = Whole /\ Values' = Values
  BY <1>1, KeptReference
<1>7. CASE special = <<>>
  <2>1. output' = output /\ pc' = "returned" /\ result' = "ok"
    BY <1>7, Zenon DEF SegmentEnds, Return
  <2>2. rest = <<>>
    BY <1>7, Zenon DEF FromSpecial
  <2> HIDE DEF rest, Whole, Values
  <2>3. output \o <<>> = output
    BY <1>2, ConcatEmptySeq
  <2>4. (output = Whole)'
    BY <1>5, <1>6, <2>1, <2>2, <2>3, Zenon
  <2> QED
    BY <2>1, <2>4 DEF EInv, Inside
<1>8. CASE special # <<>>
  <2> DEFINE t == special[1]
             c == t.content
             q == Found(c) + Len(c)
  <2>1. output' = Append(output, t.id) /\ cursor' = q /\ pc' = "scan" /\ result' = result
    BY <1>8, Zenon DEF SegmentEnds, Goto
  <2>2. t \in Entries /\ Found(c) \in cursor..Len(text) /\ Len(c) \in Nat /\ q <= Len(text) + 1
    BY <1>1, <1>8, SpecialEnds DEF Inside, EndsSegment
  <2>3. c \in Seq(Byte) /\ c \in Piece /\ token_ids[c] = t.id
    BY <1>2, <2>2, ConsistentFacts
  <2> DEFINE u == <<t.id>>
  <2>4. rest = u \o From(tokenizing, q)
    <3>1. tokenizing[Special(c)] = <<token_ids[c]>>
      BY <1>2, <2>3, TokenizingFacts
    <3> QED
      BY <1>8, <2>3, <3>1, Zenon DEF FromSpecial
  <2>5. q \in 1..Len(text) + 1
    BY <1>2, <2>2
  <2>6. From(tokenizing, q) \in Seq(Values)
    BY <1>2, <2>5, TokenizedType
  <2>7. t.id \in Values
    BY <2>3 DEF Values
  <2> HIDE DEF q, c, t, rest, Values
  <2> DEFINE F == From(tokenizing, q)
  <2>8. output' = output \o u /\ u \in Seq(Values)
    BY <1>2, <2>1, <2>7, AppendIsConcat
  <2>9. F \in Seq(Values)
    BY <2>6
  <2> HIDE DEF u, F
  <2>10. output \o (u \o F) = (output \o u) \o F
    <3>1. AssociativeOn(Seq(Values))
      BY Associative, Zenon
    <3> QED
      BY <1>2, <2>8, <2>9, <3>1, Zenon DEF AssociativeOn
  <2>11. (output \o u) \o F = Whole
    BY <1>5, <2>4, <2>10, Zenon DEF F
  <2>12. From(tokenizing, cursor)' = F
    <3>1. tokenizing' = tokenizing
      BY <1>1, KeptReference
    <3>2. PartsAt' = PartsAt
      BY <1>1, KeptParts
    <3> QED
      BY <2>1, <3>1, <3>2, Zenon DEF From, F
  <2> HIDE DEF Whole
  <2>13. (output \o From(tokenizing, cursor))' = Whole'
    BY <1>6, <2>8, <2>11, <2>12, Zenon
  <2>14. output' \in Seq(Values')
    <3>1. output \o u \in Seq(Values)
      BY <1>2, <2>8, ConcatProperties
    <3> QED
      BY <1>6, <2>8, <3>1, Zenon
  <2> QED
    BY <1>2, <2>1, <2>13, <2>14 DEF EInv, Inside
<1> QED
  BY <1>7, <1>8

LEMMA StutterEInv == IInv /\ EInv /\ UNCHANGED vars => EInv'
<1> SUFFICES ASSUME IInv, EInv, UNCHANGED vars PROVE EInv'
  OBVIOUS
<1>1. /\ Kept /\ cursor' = cursor /\ symbols' = symbols /\ pretokens' = pretokens
      /\ special' = special /\ json' = json /\ text' = text /\ pc' = pc /\ result' = result
      /\ output' = output
  BY DEF vars, Kept
<1>2. /\ Whole' = Whole /\ Values' = Values /\ TokensOf(pretokens)' = TokensOf(pretokens)
      /\ FromSpecial(tokenizing, special)' = FromSpecial(tokenizing, special)
      /\ From(tokenizing, cursor)' = From(tokenizing, cursor)
      /\ Reached(Head(pretokens))' = Reached(Head(pretokens))
      /\ Reference(Head(pretokens))' = Reference(Head(pretokens))
  <2>1. /\ TokensOf(pretokens)' = TokensOf(pretokens')
        /\ Reached(Head(pretokens))' = Reached(Head(pretokens'))
        /\ Reference(Head(pretokens))' = Reference(Head(pretokens'))
    BY <1>1, TokensKept
  <2>2. FromSpecial(tokenizing, special)' = FromSpecial(tokenizing, special')
    BY <1>1, KeptTokenSpecial
  <2>3. Whole' = Whole /\ Values' = Values /\ tokenizing' = tokenizing
    BY <1>1, KeptReference
  <2>4. PartsAt' = PartsAt
    BY <1>1, KeptParts
  <2>5. From(tokenizing, cursor)' = From(tokenizing, cursor)
    BY <1>1, <2>3, <2>4, Zenon DEF From
  <2> QED
    BY <1>1, <2>1, <2>2, <2>3, <2>5, Zenon
<1> HIDE DEF Whole, Values
<1> QED
  BY <1>1, <1>2, Zenon DEF EInv

LEMMA NextEInv ==
  IInv /\ IInv' /\ (Trained /\ Consistent => EInv) /\ [Next]_vars => (Trained' /\ Consistent' => EInv')
<1> SUFFICES ASSUME IInv, IInv', Trained /\ Consistent => EInv, [Next]_vars, Trained', Consistent'
             PROVE  EInv'
  OBVIOUS
<1>1. json' = json /\ text' = text
  BY DEF Next, vars, from_json, Scan, Pretoken, MergePass, Emit, SegmentEnds
<1>2. Consistent
  BY <1>1, KeptParts
<1>3. Trained
  <2> DEFINE made(n) == json.merges[n][1] \o json.merges[n][2]
             known(n) == {made(m) : m \in 1..n - 1}
             Good(n) == /\ made(n) \notin known(n)
                        /\ \A part \in {json.merges[n][1], json.merges[n][2]} :
                             Len(part) = 1 \/ part \in known(n)
  <2>1. ASSUME NEW n \in DOMAIN json.merges, Good(n)'
        PROVE  Good(n)
    <3>1. made(n)' = made(n) /\ known(n)' = known(n)
      BY <1>1, Zenon
    <3> HIDE DEF made, known
    <3> QED
      BY <1>1, <2>1, <3>1
  <2>2. \A n \in DOMAIN json.merges : Good(n)'
    BY <1>1 DEF Trained
  <2>3. \A n \in DOMAIN json.merges : Good(n)
    BY <2>1, <2>2
  <2> QED
    BY <2>3, Zenon DEF Trained
<1> QED
  BY <1>2, <1>3, LoadEInv, ScanEInv, PretokenEInv, MergePassEInv, EmitEInv, SegmentEndsEInv, StutterEInv
     DEF Next

(* An encoded text has the tokens of the reference tokenizer, which merges *)
(* one occurrence at a time, when the merges are as training makes them.   *)
(* (tokenizer.cpp:277-355)                                                 *)
THEOREM EncodingIsReference == Spec => []EncodesAsReference
<1>1. Init => IInv /\ (Trained /\ Consistent => EInv)
  <2>1. ASSUME Init PROVE EInv
    BY <2>1 DEF Init, EInv, Inside
  <2> QED
    BY <2>1, InitIInv
<1>2. IInv /\ (Trained /\ Consistent => EInv) /\ [Next]_vars
      => (IInv /\ (Trained /\ Consistent => EInv))'
  <2> SUFFICES ASSUME IInv, Trained /\ Consistent => EInv, [Next]_vars
               PROVE  (IInv /\ (Trained /\ Consistent => EInv))'
    OBVIOUS
  <2>1. IInv'
    BY NextIInv
  <2>2. Trained' /\ Consistent' => EInv'
    BY <2>1, NextEInv
  <2> QED
    BY <2>1, <2>2
<1>3. IInv /\ (Trained /\ Consistent => EInv) => EncodesAsReference
  <2> SUFFICES ASSUME IInv, EInv, Consistent, result = "ok"
               PROVE  output = FlattenSeq([n \in DOMAIN Parts |-> ReferencePart(Parts[n])])
    BY Zenon DEF EncodesAsReference
  <2>1. Loaded /\ text \in Texts
    BY DEF IInv, Labels, Inside
  <2>2. output = Whole
    BY DEF EInv
  <2>3. Parts \in Seq(Part)
    <3>1. 1 \in 1..Len(text) + 1
      BY <2>1, TextType
    <3> QED
      BY <2>1, <3>1, PartsSteps, PartsIs
  <2>4. \A n \in DOMAIN Parts : Parts[n] \in Part
    BY <2>3, LenProperties, ElementOfSeq
  <2>5. FnMap(tokenizing, Parts) = [n \in DOMAIN Parts |-> ReferencePart(Parts[n])]
    BY <2>4 DEF FnMap, tokenizing
  <2>6. Whole = MapJoin(tokenizing, Parts)
    BY PartsIs, Zenon DEF Whole, From
  <2> QED
    BY <2>2, <2>5, <2>6, Zenon DEF MapJoin
<1> QED
  BY <1>1, <1>2, <1>3, PTL DEF Spec
=============================================================================
