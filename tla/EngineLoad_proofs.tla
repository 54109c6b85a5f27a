-------------------------- MODULE EngineLoad_proofs --------------------------
(***************************************************************************)
(* An artifact that opens keeps its payloads apart, the engine that is     *)
(* handed out keeps their copies apart in its arena, and no copy outlives  *)
(* the memory it reads or writes: for words of every size, any alignments, *)
(* any number of tensors and whatever a file of words says of them.        *)
(* And what the writers lay out, open accepts.                             *)
(***************************************************************************)
EXTENDS EngineLoad, FiniteSetTheorems, SequenceTheorems, WellFoundedInduction,
        TLAPS

Placements == [tensor : DOMAIN tensors, data : 0..Word - 1, aux : 0..Word - 1]

Parsing == {"open", "header", "entries", "neighbours", "identity"}
Reading == {"header", "entries", "neighbours"} \cup Opened
Checked == {"neighbours"} \cup Opened
Sized == {"fits", "stream", "upload", "synchronize", "ready"}
Fitting == {"stream", "upload", "synchronize"}

Types ==
  /\ pc \in {"open"} \cup Reading \cup Closing
  /\ file \in Files \cup WrittenFiles /\ config \in Configs /\ total \in Totals
  /\ index \in 1..2 * Len(tensors) + 2
  /\ ranges \in Seq(payloads(file)) /\ Len(ranges) <= 2 * Len(tensors)
  /\ arena_bytes \in 0..Word - 1
  /\ placements \in Seq(Placements) /\ Len(placements) <= Len(tensors)
  /\ device_tensors \in Seq(Placements)
  /\ mapped \in BOOLEAN /\ arena \in BOOLEAN /\ stream \in BOOLEAN
  /\ inflight \subseteq payloads(file) /\ loaded \subseteq payloads(file)
  /\ pc \in Parsing => placements = <<>>
  /\ pc = "place" => Len(placements) < index
  /\ pc \in {"open", "header", "identity", "fits", "stream"} => index = 1
  /\ pc = "neighbours" => index > 1

(* What the checks of open have established.                               *)
EntryAt(n) == entry_valid(file, tensors[n], NamesBefore(n))
Follows(i) == Begin(file, ranges[i]) >= End(file, ranges[i - 1])
Opening ==
  /\ pc \in {"entries"} \cup Checked => header_valid(file)
  /\ pc = "entries" => \A n \in DOMAIN tensors : n < index => EntryAt(n)
  /\ pc \in Checked => (\A n \in DOMAIN tensors : EntryAt(n)) /\ ranges \in Orders
  /\ pc = "neighbours" => \A i \in 2..Len(ranges) : i < index => Follows(i)
  /\ pc \in Opened => \A i \in 2..Len(ranges) : Follows(i)

(* One placement, and where it ends.                                       *)
EndOf(q) ==
  IF tensors[q.tensor].aux_bytes = 0 THEN q.data + tensors[q.tensor].data_bytes
  ELSE q.aux + tensors[q.tensor].aux_bytes
PlanesApart(q) ==
  /\ q.data % tensors[q.tensor].alignment = 0
  /\ tensors[q.tensor].aux_bytes # 0 =>
       /\ q.aux % tensors[q.tensor].alignment = 0
       /\ q.data + tensors[q.tensor].data_bytes <= q.aux

(* The arena: the placements follow each other, in artifact order.         *)
Laid ==
  /\ \A k \in 1..Len(placements) :
       /\ placements[k].tensor \in Resident
       /\ PlanesApart(placements[k]) /\ EndOf(placements[k]) <= arena_bytes
       /\ \A j \in 1..k - 1 : /\ EndOf(placements[j]) <= placements[k].data
                              /\ placements[j].tensor # placements[k].tensor
  /\ pc \in {"place"} \cup Sized => budget <= maximum_budget
  /\ pc = "place" =>
       {placements[k].tensor : k \in 1..Len(placements)} = {n \in Resident : n < index}
  /\ pc \in Sized => {placements[k].tensor : k \in 1..Len(placements)} = Resident
  /\ pc \in Fitting \cup {"ready"} => arena_bytes <= budget

(* The copies that were enqueued, performed or not.                        *)
PlanesBefore(i) ==
  {p \in payloads(file) : \E k \in 1..Len(placements) : k < i /\ placements[k].tensor = p[1]}
Uploaded ==
  /\ pc \notin {"upload", "synchronize", "ready"} \cup Closing =>
       inflight = {} /\ loaded = {} /\ device_tensors = <<>>
  /\ pc = "upload" =>
       /\ index <= Len(placements) + 1 /\ Len(device_tensors) = index - 1
       /\ \A k \in 1..index - 1 : device_tensors[k] = placements[k]
       /\ inflight \cup loaded = PlanesBefore(index)
  /\ pc = "synchronize" \/ (pc = "ready" /\ config.upload) =>
       /\ device_tensors = placements
       /\ inflight \cup loaded = PlanesBefore(Len(placements) + 1)
  /\ pc = "ready" => inflight = {}

Held ==
  /\ pc \in Reading => mapped
  /\ pc \in Fitting => arena
  /\ inflight # {} =>
       mapped /\ arena /\ pc \in {"upload", "synchronize", "destroy_stream", "free"}

Inv == Types /\ Opening /\ Laid /\ Uploaded /\ Held

------------------------------------------------------------------------------
(* Arithmetic *)

LEMMA RoundedUp ==
  ASSUME NEW a \in Nat \ {0}, NEW c \in Nat
  PROVE  LET r == ((c + a - 1) \div a) * a IN
         r \in Nat /\ c <= r /\ r <= c + a - 1 /\ r % a = 0
<1> DEFINE x == c + a - 1
<1>1. x \in Nat
  OBVIOUS
<1>2. x \div a \in Nat /\ x % a \in 0..a - 1 /\ x = a * (x \div a) + (x % a)
  BY <1>1
<1>3. /\ (x \div a) * a \in Nat /\ c <= (x \div a) * a /\ (x \div a) * a <= x
  BY <1>2
<1>4. \A q \in Nat : (q * a) % a = 0
  OBVIOUS
<1>5. ((x \div a) * a) % a = 0
  BY <1>2, <1>4
<1> QED
  BY <1>3, <1>5

LEMMA Multiple ==
  ASSUME NEW a \in Nat \ {0}, NEW x \in Nat, x > 0, x % a = 0
  PROVE  a <= x
OBVIOUS

LEMMA SmallRemainder ==
  ASSUME NEW a \in Nat \ {0}, NEW x \in Nat, x < a
  PROVE  x % a = x
OBVIOUS

(* A sum that aligned_size accepts is a word behind the cursor, aligned    *)
(* when nothing is added to it.                                            *)
LEMMA AlignedSize ==
  ASSUME NEW c \in 0..Word - 1, NEW b \in 0..Word - 1, NEW a,
         aligned_size(c, b, a) # -1
  PROVE  LET r == aligned_size(c, b, a) IN
         r \in 0..Word - 1 /\ c + b <= r /\ (b = 0 => r % a = 0)
<1>1. a \in Alignments /\ ~(c > Word - a)
  BY DEF aligned_size
<1>2. a \in Nat \ {0} /\ Word \in Nat /\ c \in Nat /\ b \in Nat
  BY <1>1, LayoutAssumption
<1>3. PICK begin : begin = ((c + a - 1) \div a) * a
  OBVIOUS
<1>4. begin \in Nat /\ c <= begin /\ begin <= c + a - 1 /\ begin % a = 0
  BY <1>2, <1>3, RoundedUp
<1>5. align_up(c, a) = begin
  BY <1>1, <1>3 DEF align_up
<1>6. aligned_size(c, b, a) = begin + b /\ ~(b > Word - 1 - begin)
  BY <1>1, <1>5 DEF aligned_size
<1>7. b = 0 => begin + b = begin
  BY <1>2, <1>4
<1>8. begin + b \in 0..Word - 1 /\ c + b <= begin + b
  BY <1>2, <1>4, <1>6
<1> QED
  BY <1>4, <1>6, <1>7, <1>8

LEMMA AlignedCursor ==
  ASSUME NEW c \in 0..Word - 1, NEW a, aligned_size(c, 0, a) # -1
  PROVE  LET r == aligned_size(c, 0, a) IN
         r \in 0..Word - 1 /\ c <= r /\ r % a = 0
<1>1. 0 \in 0..Word - 1 /\ c + 0 = c
  BY LayoutAssumption
<1> QED
  BY <1>1, AlignedSize, Zenon

------------------------------------------------------------------------------
(* Functions that count up: each value is made from the one before.        *)

LEMMA LeastOf ==
  ASSUME NEW T, T \subseteq Nat, T # {}
  PROVE  \E x \in T : \A y \in T : x <= y
<1>1. PICK x \in T : \A y \in T : <<y, x>> \notin OpToRel(<, Nat)
  BY NatLessThanWellFounded, WFMin
<1>2. \A y \in T : ~(y < x)
  BY <1>1 DEF OpToRel
<1> QED
  BY <1>2

LEMMA Upwards ==
  ASSUME NEW m \in Nat, NEW G, 0 \in G, \A n \in G : n < m => n + 1 \in G
  PROVE  0..m \subseteq G
<1> SUFFICES ASSUME (0..m) \ G # {} PROVE FALSE
  OBVIOUS
<1>1. PICK n \in (0..m) \ G : \A x \in (0..m) \ G : n <= x
  <2>1. (0..m) \ G \subseteq Nat
    OBVIOUS
  <2> QED BY <2>1, LeastOf, Zenon
<1>2. n - 1 \in 0..m /\ n - 1 < m
  BY <1>1
<1>3. n - 1 \in G
  BY <1>1, <1>2
<1>4. (n - 1) + 1 \in G
  BY <1>2, <1>3
<1> QED
  BY <1>1, <1>4

Steps(m, S) == [(1..m) \X S -> S]
CountStep(a, step, n, f) == IF n = 0 THEN a ELSE step[n, f[n - 1]]
Counts(m, S, a, step, f) ==
  f \in [0..m -> S] /\ \A n \in 0..m : f[n] = CountStep(a, step, n, f)

LEMMA CountExists ==
  ASSUME NEW S, NEW m \in Nat, NEW a \in S, NEW step \in Steps(m, S)
  PROVE  \E f : Counts(m, S, a, step, f)
<1> DEFINE G == {k \in 0..m : \E f \in [0..k -> S] :
                   \A n \in 0..k : f[n] = CountStep(a, step, n, f)}
<1>0. step \in [(1..m) \X S -> S]
  BY Zenon DEF Steps
<1>1. 0 \in G
  <2> DEFINE h == [n \in 0..0 |-> a]
  <2>1. h \in [0..0 -> S]
    OBVIOUS
  <2>2. \A n \in 0..0 : h[n] = CountStep(a, step, n, h)
    <3>1. \A n \in 0..0 : n = 0 /\ h[n] = a
      OBVIOUS
    <3> HIDE DEF h
    <3> QED
      BY <3>1 DEF CountStep
  <2> HIDE DEF h
  <2> QED
    BY <2>1, <2>2
<1>2. ASSUME NEW k \in G, k < m
      PROVE  k + 1 \in G
  <2>1. PICK f \in [0..k -> S] : \A n \in 0..k : f[n] = CountStep(a, step, n, f)
    OBVIOUS
  <2>2. k \in 0..m /\ k \in Int /\ k + 1 \in 1..m /\ k \in 0..k /\ k + 1 \in 0..m
    BY <1>2
  <2>3. f[k] \in S
    BY <2>2
  <2>4. step[k + 1, f[k]] \in S
    <3>1. <<k + 1, f[k]>> \in (1..m) \X S
      BY <2>2, <2>3
    <3> HIDE DEF G
    <3> QED
      BY <1>0, <3>1, Zenon
  <2> DEFINE v == step[k + 1, f[k]]
  <2> HIDE DEF v
  <2> DEFINE h == [n \in 0..k + 1 |-> IF n = k + 1 THEN v ELSE f[n]]
  <2>5. h \in [0..k + 1 -> S]
    <3>1. v \in S
      BY <2>4, Zenon DEF v
    <3>2. \A n \in 0..k + 1 : n # k + 1 => n \in 0..k
      BY <2>2
    <3> QED
      BY <3>1, <3>2
  <2>6. (\A n \in 0..k : h[n] = f[n]) /\ h[k + 1] = v
    BY <2>2
  <2>7. ASSUME NEW n \in 0..k + 1
        PROVE  h[n] = CountStep(a, step, n, h)
    <3> HIDE DEF h
    <3>1. CASE n = k + 1
      <4>1. n # 0 /\ n - 1 = k /\ h[n - 1] = f[k]
        BY <2>2, <2>6, <3>1
      <4> QED
        BY <2>6, <3>1, <4>1, Zenon DEF CountStep, v
    <3>2. CASE n # k + 1
      <4>1. n \in 0..k /\ h[n] = f[n] /\ (n # 0 => h[n - 1] = f[n - 1])
        BY <2>2, <2>6, <3>2
      <4>2. f[n] = CountStep(a, step, n, f)
        BY <2>1, <4>1
      <4> QED
        BY <4>1, <4>2, Zenon DEF CountStep
    <3> QED
      BY <3>1, <3>2
  <2> HIDE DEF h
  <2> QED
    BY <2>2, <2>5, <2>7
<1>3. 0..m \subseteq G
  <2> HIDE DEF G
  <2> QED
    BY <1>1, <1>2, Upwards
<1>4. m \in G
  BY <1>3
<1>5. \E f \in [0..m -> S] : \A n \in 0..m : f[n] = CountStep(a, step, n, f)
  BY <1>4
<1> QED
  BY <1>5, Zenon DEF Counts

------------------------------------------------------------------------------
(* The names of a plan follow each other. *)

SumStep(plan, i, f) == IF i = 0 THEN 0 ELSE f[i - 1] + plan[i].name_bytes
Summed(plan, f) ==
  /\ f \in [0..Len(plan) -> Nat]
  /\ \A i \in 0..Len(plan) : f[i] = SumStep(plan, i, f)

LEMMA SumsExist ==
  ASSUME NEW plan, PlanFields(plan)
  PROVE  \E f : Summed(plan, f)
<1> DEFINE L == Len(plan)
           step == [x \in (1..L) \X Nat |-> x[2] + plan[x[1]].name_bytes]
<1>1. L \in Nat /\ \A n \in 1..L : plan[n].name_bytes \in Nat
  BY DEF PlanFields
<1>2. step \in Steps(L, Nat)
  BY <1>1 DEF Steps
<1>3. \A n \in 1..L, b \in Nat : step[n, b] = b + plan[n].name_bytes
  OBVIOUS
<1> HIDE DEF step
<1>4. PICK f : Counts(L, Nat, 0, step, f)
  BY <1>1, <1>2, CountExists
<1>5. \A i \in 0..L : f[i] = SumStep(plan, i, f)
  <2>1. SUFFICES ASSUME NEW i \in 0..L PROVE f[i] = SumStep(plan, i, f)
    OBVIOUS
  <2>2. f \in [0..L -> Nat] /\ f[i] = CountStep(0, step, i, f)
    BY <1>4 DEF Counts
  <2>3. CASE i = 0
    BY <2>2, <2>3 DEF CountStep, SumStep
  <2>4. CASE i # 0
    <3>1. i \in 1..L /\ i - 1 \in 0..L
      BY <1>1, <2>4
    <3>2. f[i - 1] \in Nat
      BY <2>2, <3>1
    <3>3. f[i] = step[i, f[i - 1]]
      BY <2>2, <2>4 DEF CountStep
    <3> QED BY <1>3, <2>4, <3>1, <3>2, <3>3 DEF SumStep
  <2> QED BY <2>3, <2>4
<1> QED
  BY <1>4, <1>5 DEF Counts, Summed

LEMMA NameOffsetIs ==
  ASSUME NEW plan, PlanFields(plan), NEW f, Summed(plan, f), NEW n \in 1..Len(plan) + 1
  PROVE  NameOffset(plan, n) = f[n - 1]
<1> DEFINE L == Len(plan)
           m == n - 1
           h == [i \in 0..n - 1 |-> f[i]]
           IsSum(s) == s = [i \in 0..n - 1 |-> IF i = 0 THEN 0 ELSE s[i - 1] + plan[i].name_bytes]
           g == CHOOSE s : IsSum(s)
           G == {i \in 0..m : g[i] = f[i]}
<1>1. L \in Nat /\ m \in Nat /\ m <= L
  BY DEF PlanFields
<1>2. \A i \in 0..m : f[i] = IF i = 0 THEN 0 ELSE f[i - 1] + plan[i].name_bytes
  BY <1>1 DEF Summed, SumStep
<1>3. IsSum(h)
  <2>1. \A i \in 0..m : i # 0 => h[i - 1] = f[i - 1]
    BY <1>1
  <2> QED BY <1>2, <2>1
<1>4. IsSum(g)
  BY <1>3, Zenon
<1>5. NameOffset(plan, n) = g[n - 1]
  BY Zenon DEF NameOffset
<1>6. \A i \in 0..m : g[i] = IF i = 0 THEN 0 ELSE g[i - 1] + plan[i].name_bytes
  BY <1>4, Zenon
<1> HIDE DEF g, IsSum
<1>7. 0 \in G
  BY <1>1, <1>2, <1>6
<1>8. ASSUME NEW i \in G, i < m
      PROVE  i + 1 \in G
  <2>1. i + 1 \in 0..m /\ i + 1 # 0 /\ (i + 1) - 1 = i
    BY <1>1, <1>8
  <2>2. g[i + 1] = g[i] + plan[i + 1].name_bytes /\ f[i + 1] = f[i] + plan[i + 1].name_bytes
    BY <1>2, <1>6, <2>1
  <2> QED BY <2>1, <2>2
<1>9. 0..m \subseteq G
  <2> HIDE DEF G, m
  <2> QED BY <1>1, <1>7, <1>8, Upwards
<1> QED
  BY <1>1, <1>5, <1>9

LEMMA NamesFit ==
  ASSUME NEW plan, PlanFields(plan)
  PROVE  /\ strings_bytes(plan) \in Nat
         /\ \A n \in 1..Len(plan) :
              /\ NameOffset(plan, n) \in Nat
              /\ NameOffset(plan, n) + plan[n].name_bytes <= strings_bytes(plan)
<1> DEFINE L == Len(plan)
<1>1. L \in Nat /\ \A n \in 1..L : plan[n].name_bytes \in Nat
  BY DEF PlanFields
<1>2. PICK f : Summed(plan, f)
  BY SumsExist
<1>3. f \in [0..L -> Nat] /\ \A i \in 1..L : f[i] = f[i - 1] + plan[i].name_bytes
  BY <1>1, <1>2 DEF Summed, SumStep
<1>4. strings_bytes(plan) = f[L]
  <2>1. L + 1 \in 1..L + 1 /\ (L + 1) - 1 = L
    BY <1>1
  <2> QED BY <1>2, <2>1, NameOffsetIs DEF strings_bytes
<1>5. ASSUME NEW n \in 1..L
      PROVE  f[n] <= f[L]
  <2> DEFINE G == {i \in 0..L : n <= i => f[n] <= f[i]}
  <2>1. 0 \in G
    BY <1>1
  <2>2. ASSUME NEW i \in G, i < L
        PROVE  i + 1 \in G
    <3>1. i + 1 \in 1..L /\ i \in 0..L /\ (i + 1) - 1 = i /\ n \in 0..L
      BY <1>1, <2>2
    <3>2. f[i + 1] = f[i] + plan[i + 1].name_bytes /\ plan[i + 1].name_bytes \in Nat
      BY <1>1, <1>3, <3>1
    <3>3. f[i] \in Nat /\ f[n] \in Nat
      BY <1>3, <3>1
    <3>4. n <= i => f[n] <= f[i]
      OBVIOUS
    <3>5. n <= i + 1 => n <= i \/ n = i + 1
      BY <1>1
    <3> QED BY <3>1, <3>2, <3>3, <3>4, <3>5
  <2>3. 0..L \subseteq G
    <3> HIDE DEF G
    <3> QED BY <1>1, <2>1, <2>2, Upwards
  <2> QED BY <1>1, <2>3
<1>6. ASSUME NEW n \in 1..L
      PROVE  /\ NameOffset(plan, n) \in Nat
             /\ NameOffset(plan, n) + plan[n].name_bytes <= f[L]
  <2>1. n \in 1..L + 1 /\ n - 1 \in 0..L
    BY <1>1
  <2>2. NameOffset(plan, n) = f[n - 1]
    BY <1>2, <2>1, NameOffsetIs
  <2>3. f[n - 1] \in Nat /\ f[n] = f[n - 1] + plan[n].name_bytes
    BY <1>3, <2>1
  <2> QED BY <1>5, <2>2, <2>3
<1> QED
  BY <1>1, <1>3, <1>4, <1>6

------------------------------------------------------------------------------
(* The planes of a plan follow each other. *)

States == [cursor : 0..Word - 1, data : Seq(0..Word - 1), aux : Seq(0..Word - 1)]

PlacedNextTensor(tensor, before) ==
  LET data == Place(before.cursor, tensor.data_bytes, tensor.alignment)
      end == IF data = 0 THEN 0 ELSE data + tensor.data_bytes
      aux == IF tensor.aux_bytes = 0 THEN 0
             ELSE Place(end, tensor.aux_bytes, tensor.alignment)
  IN [cursor |-> IF tensor.aux_bytes = 0 THEN end
                 ELSE IF aux = 0 THEN 0 ELSE aux + tensor.aux_bytes,
      data |-> Append(before.data, data), aux |-> Append(before.aux, aux)]
Nothing(plan) == [cursor |-> data_offset(plan), data |-> <<>>, aux |-> <<>>]
PlacedStep(plan, n, f) == IF n = 0 THEN Nothing(plan) ELSE PlacedNextTensor(plan[n], f[n - 1])

(* Where plane k of s ends, and what is so of the planes of n tensors.     *)
PlaneEnd(plan, s, k) ==
  IF plan[k].aux_bytes = 0 THEN s.data[k] + plan[k].data_bytes
  ELSE s.aux[k] + plan[k].aux_bytes
PlanesPlaced(plan, s, k) ==
  /\ s.data[k] % plan[k].alignment = 0 /\ data_offset(plan) <= s.data[k]
  /\ plan[k].aux_bytes # 0 =>
       s.aux[k] % plan[k].alignment = 0 /\ s.data[k] + plan[k].data_bytes <= s.aux[k]
  /\ PlaneEnd(plan, s, k) <= s.cursor
PlacedWell(plan, n, s) ==
  /\ s \in States /\ Len(s.data) = n /\ Len(s.aux) = n /\ data_offset(plan) <= s.cursor
  /\ \A k \in 1..n : /\ PlanesPlaced(plan, s, k)
                     /\ \A j \in 1..k - 1 : PlaneEnd(plan, s, j) <= s.data[k]

LEMMA AlignUp ==
  ASSUME NEW value \in Nat, NEW a
  PROVE  /\ align_up(value, a) \in 0..Word - 1
         /\ align_up(value, a) # 0 =>
              /\ a \in Alignments /\ value <= align_up(value, a) /\ align_up(value, a) % a = 0
<1>1. CASE a \notin Alignments \/ value > Word - a
  BY <1>1, LayoutAssumption DEF align_up
<1>2. CASE ~(a \notin Alignments \/ value > Word - a)
  <2>1. a \in Nat \ {0} /\ a <= Word /\ Word \in Nat /\ value + a <= Word
    <3>1. a \in 1..Word - 1 /\ Word \in Nat
      BY <1>2, LayoutAssumption
    <3>2. ~(value > Word - a)
      BY <1>2
    <3> QED BY <3>1, <3>2
  <2>2. PICK r : r = ((value + a - 1) \div a) * a
    OBVIOUS
  <2>3. r \in Nat /\ value <= r /\ r <= value + a - 1 /\ r % a = 0
    BY <2>1, <2>2, RoundedUp
  <2>4. align_up(value, a) = r
    BY <1>2, <2>2, Zenon DEF align_up
  <2> QED BY <1>2, <2>1, <2>3, <2>4
<1> QED
  BY <1>1, <1>2

LEMMA DataOffset ==
  ASSUME NEW plan, PlanFields(plan)
  PROVE  /\ strings_offset(plan) \in Nat /\ FileAlignment <= strings_offset(plan)
         /\ strings_offset(plan) = FileAlignment + Len(plan) * EntryBytes
         /\ Len(plan) * EntryBytes \in Nat
         /\ data_offset(plan) \in 0..Word - 1
         /\ data_offset(plan) # 0 =>
              strings_offset(plan) + strings_bytes(plan) <= data_offset(plan)
<1>1. strings_bytes(plan) \in Nat /\ Len(plan) \in Nat
  BY NamesFit DEF PlanFields
<1>2. Len(plan) * EntryBytes \in Nat
  BY <1>1, LayoutAssumption
<1>3. /\ strings_offset(plan) \in Nat /\ FileAlignment <= strings_offset(plan)
      /\ strings_offset(plan) = FileAlignment + Len(plan) * EntryBytes
  BY <1>2, LayoutAssumption DEF strings_offset
<1>4. strings_offset(plan) + strings_bytes(plan) \in Nat
  BY <1>1, <1>3
<1> QED
  BY <1>2, <1>3, <1>4, AlignUp DEF data_offset

LEMMA PlaceFacts ==
  ASSUME NEW cursor \in Nat, NEW bytes \in Nat, NEW a
  PROVE  /\ Place(cursor, bytes, a) \in 0..Word - 1
         /\ Place(cursor, bytes, a) # 0 =>
              /\ cursor # 0 /\ cursor <= Place(cursor, bytes, a)
              /\ Place(cursor, bytes, a) + bytes <= Word - 1
              /\ Place(cursor, bytes, a) % a = 0
<1> DEFINE up == align_up(cursor, a)
           begin == IF cursor = 0 THEN 0 ELSE up
<1>1. /\ up \in 0..Word - 1
      /\ up # 0 => cursor <= up /\ up % a = 0
  BY AlignUp
<1>2. Place(cursor, bytes, a) = IF bytes > Word - 1 - begin THEN 0 ELSE begin
  BY Zenon DEF Place
<1> HIDE DEF up
<1> QED
  BY <1>1, <1>2, LayoutAssumption

LEMMA PlacedType ==
  ASSUME NEW plan, PlanFields(plan), NEW n \in 1..Len(plan), NEW before \in States
  PROVE  PlacedNextTensor(plan[n], before) \in States
<1> DEFINE tensor == plan[n]
           data == Place(before.cursor, tensor.data_bytes, tensor.alignment)
           end == IF data = 0 THEN 0 ELSE data + tensor.data_bytes
           placed == Place(end, tensor.aux_bytes, tensor.alignment)
           aux == IF tensor.aux_bytes = 0 THEN 0 ELSE placed
           cursor == IF tensor.aux_bytes = 0 THEN end
                     ELSE IF aux = 0 THEN 0 ELSE aux + tensor.aux_bytes
<1>1. /\ tensor.data_bytes \in Nat /\ tensor.aux_bytes \in Nat /\ before.cursor \in Nat
      /\ before.data \in Seq(0..Word - 1) /\ before.aux \in Seq(0..Word - 1)
  BY LayoutAssumption DEF PlanFields, States
<1>2. PlacedNextTensor(tensor, before)
      = [cursor |-> cursor, data |-> Append(before.data, data), aux |-> Append(before.aux, aux)]
  BY Zenon DEF PlacedNextTensor
<1> HIDE DEF tensor
<1>3. data \in 0..Word - 1 /\ (data # 0 => data + tensor.data_bytes <= Word - 1)
  BY <1>1, PlaceFacts
<1> HIDE DEF data
<1>4. end \in 0..Word - 1
  BY <1>1, <1>3, LayoutAssumption
<1>5. placed \in 0..Word - 1 /\ (placed # 0 => placed + tensor.aux_bytes <= Word - 1)
  <2>1. end \in Nat
    BY <1>4, LayoutAssumption
  <2> HIDE DEF end
  <2> QED BY <1>1, <2>1, PlaceFacts
<1> HIDE DEF end, placed
<1>6. aux \in 0..Word - 1 /\ cursor \in 0..Word - 1
  BY <1>1, <1>4, <1>5, LayoutAssumption
<1> HIDE DEF aux, cursor
<1>7. Append(before.data, data) \in Seq(0..Word - 1) /\ Append(before.aux, aux) \in Seq(0..Word - 1)
  BY <1>1, <1>3, <1>6, AppendProperties
<1> QED
  BY <1>2, <1>3, <1>6, <1>7 DEF States, tensor

(* An error is never undone.                                               *)
LEMMA PlacedZero ==
  ASSUME NEW tensor, NEW s, PlacedNextTensor(tensor, s).cursor # 0
  PROVE  s.cursor # 0
<1> SUFFICES ASSUME s.cursor = 0 PROVE FALSE
  OBVIOUS
<1>1. \A bytes, a : Place(0, bytes, a) = 0
  BY DEF Place
<1>2. Place(s.cursor, tensor.data_bytes, tensor.alignment) = 0
  BY <1>1
<1> QED
  BY <1>1, <1>2 DEF PlacedNextTensor

LEMMA PlacedMore ==
  ASSUME NEW plan, PlanFields(plan), NEW n \in 0..Len(plan) - 1, NEW s, PlacedWell(plan, n, s),
         PlacedNextTensor(plan[n + 1], s).cursor # 0
  PROVE  PlacedWell(plan, n + 1, PlacedNextTensor(plan[n + 1], s))
<1> DEFINE tensor == plan[n + 1]
           data == Place(s.cursor, tensor.data_bytes, tensor.alignment)
           end == IF data = 0 THEN 0 ELSE data + tensor.data_bytes
           placed == Place(end, tensor.aux_bytes, tensor.alignment)
           aux == IF tensor.aux_bytes = 0 THEN 0 ELSE placed
           cursor == IF tensor.aux_bytes = 0 THEN end
                     ELSE IF aux = 0 THEN 0 ELSE aux + tensor.aux_bytes
           t == PlacedNextTensor(plan[n + 1], s)
<1>0. Len(plan) \in Nat /\ n \in Nat /\ n + 1 \in 1..Len(plan) /\ DOMAIN plan = 1..Len(plan)
  BY DEF PlanFields
<1>1. /\ tensor.data_bytes \in Nat /\ tensor.aux_bytes \in Nat /\ s.cursor \in Nat
      /\ s.data \in Seq(0..Word - 1) /\ s.aux \in Seq(0..Word - 1)
      /\ Len(s.data) = n /\ Len(s.aux) = n /\ s \in States
  BY <1>0, LayoutAssumption DEF PlanFields, States, PlacedWell
<1>2. t = [cursor |-> cursor, data |-> Append(s.data, data), aux |-> Append(s.aux, aux)]
  BY Zenon DEF PlacedNextTensor
<1>3. t \in States
  BY <1>0, <1>1, PlacedType
<1>4. t.cursor = cursor /\ t.data = Append(s.data, data) /\ t.aux = Append(s.aux, aux) /\ cursor # 0
  BY <1>2
<1> HIDE DEF t, tensor
<1>5. /\ data \in 0..Word - 1
      /\ data # 0 => s.cursor <= data /\ data % tensor.alignment = 0
  BY <1>1, PlaceFacts
<1>6. \A b \in Nat : /\ Place(b, tensor.aux_bytes, tensor.alignment) \in 0..Word - 1
                     /\ Place(b, tensor.aux_bytes, tensor.alignment) # 0 =>
                          /\ b # 0 /\ b <= Place(b, tensor.aux_bytes, tensor.alignment)
                          /\ Place(b, tensor.aux_bytes, tensor.alignment) % tensor.alignment = 0
  BY <1>1, PlaceFacts
<1> HIDE DEF data
<1>7. end \in Nat
  BY <1>1, <1>5, LayoutAssumption
<1>8. /\ placed \in 0..Word - 1
      /\ placed # 0 => end # 0 /\ end <= placed /\ placed % tensor.alignment = 0
  <2> HIDE DEF end
  <2> QED BY <1>6, <1>7
<1>9. /\ data # 0 /\ s.cursor <= data /\ data % tensor.alignment = 0
      /\ tensor.aux_bytes = 0 => cursor = data + tensor.data_bytes
      /\ tensor.aux_bytes # 0 => /\ aux % tensor.alignment = 0 /\ data + tensor.data_bytes <= aux
                                 /\ cursor = aux + tensor.aux_bytes
  <2> HIDE DEF placed
  <2>1. end # 0
    BY <1>4, <1>8
  <2>2. data # 0
    BY <2>1
  <2>3. tensor.aux_bytes # 0 => aux # 0 /\ aux = placed
    BY <1>4
  <2> QED BY <1>4, <1>5, <1>8, <2>1, <2>2, <2>3
<1>10. s.cursor <= cursor /\ cursor \in Nat /\ aux \in 0..Word - 1
  <2>1. aux \in 0..Word - 1
    <3> HIDE DEF placed
    <3> QED BY <1>8, LayoutAssumption
  <2> HIDE DEF end, placed, aux, cursor
  <2>2. data \in Nat /\ aux \in Nat
    BY <1>5, <2>1, LayoutAssumption
  <2>3. /\ s.cursor \in Nat /\ tensor.data_bytes \in Nat /\ tensor.aux_bytes \in Nat
        /\ s.cursor <= data
    BY <1>1, <1>9
  <2>4. CASE tensor.aux_bytes = 0
    <3>1. cursor = data + tensor.data_bytes
      BY <1>9, <2>4
    <3> QED BY <2>1, <2>2, <2>3, <3>1
  <2>5. CASE tensor.aux_bytes # 0
    <3>1. cursor = aux + tensor.aux_bytes /\ data + tensor.data_bytes <= aux
      BY <1>9, <2>5
    <3> QED BY SMTT(40), <2>1, <2>2, <2>3, <3>1
  <2> QED BY <2>4, <2>5
<1> HIDE DEF end, placed, aux, cursor
<1>11. /\ Len(t.data) = n + 1 /\ Len(t.aux) = n + 1
       /\ \A k \in 1..n : t.data[k] = s.data[k] /\ t.aux[k] = s.aux[k]
       /\ t.data[n + 1] = data /\ t.aux[n + 1] = aux
  BY SMTT(40), <1>1, <1>4, <1>5, <1>10, AppendProperties
<1>12. /\ data_offset(plan) <= s.cursor /\ data_offset(plan) \in Int
       /\ \A k \in 1..n : /\ PlanesPlaced(plan, s, k)
                          /\ \A j \in 1..k - 1 : PlaneEnd(plan, s, j) <= s.data[k]
  BY DataOffset, LayoutAssumption DEF PlacedWell
<1>13. \A k \in 1..n : PlaneEnd(plan, t, k) = PlaneEnd(plan, s, k)
  BY <1>11 DEF PlaneEnd
<1>14. \A k \in 1..n : PlaneEnd(plan, s, k) \in Int /\ PlaneEnd(plan, s, k) <= s.cursor
  <2>1. SUFFICES ASSUME NEW k \in 1..n
                 PROVE  PlaneEnd(plan, s, k) \in Int /\ PlaneEnd(plan, s, k) <= s.cursor
    OBVIOUS
  <2>2. s.data[k] \in Int /\ s.aux[k] \in Int
    BY SMTT(40), <1>1, LayoutAssumption
  <2>3. plan[k].data_bytes \in Int /\ plan[k].aux_bytes \in Int
    BY <1>0, LayoutAssumption DEF PlanFields
  <2> QED BY <1>12, <2>2, <2>3 DEF PlanesPlaced, PlaneEnd
<1>15. PlaneEnd(plan, t, n + 1) = cursor
  BY <1>9, <1>11 DEF PlaneEnd, tensor
<1>16. ASSUME NEW k \in 1..n + 1
       PROVE  /\ PlanesPlaced(plan, t, k)
              /\ \A j \in 1..k - 1 : PlaneEnd(plan, t, j) <= t.data[k]
  <2>1. CASE k = n + 1
    <3>1. PlanesPlaced(plan, t, k)
      <4>1. data_offset(plan) <= data
        BY <1>1, <1>5, <1>9, <1>12, LayoutAssumption
      <4>2. PlaneEnd(plan, t, k) <= t.cursor
        BY <1>4, <1>10, <1>15, <2>1
      <4> QED BY <1>9, <1>11, <2>1, <4>1, <4>2 DEF PlanesPlaced, tensor
    <3>2. \A j \in 1..n : PlaneEnd(plan, t, j) <= data
      BY <1>1, <1>5, <1>9, <1>13, <1>14, LayoutAssumption
    <3>3. k - 1 = n
      BY <1>0, <2>1
    <3> QED BY <1>11, <2>1, <3>1, <3>2, <3>3
  <2>2. CASE k # n + 1
    <3>1. k \in 1..n /\ \A j \in 1..k - 1 : j \in 1..n
      BY <1>0, <2>2
    <3>2. PlaneEnd(plan, t, k) <= t.cursor
      BY <1>1, <1>4, <1>10, <1>13, <1>14, <3>1
    <3>3. PlanesPlaced(plan, t, k)
      BY <1>11, <1>12, <3>1, <3>2 DEF PlanesPlaced
    <3> QED BY <1>11, <1>12, <1>13, <3>1, <3>3
  <2> QED BY <2>1, <2>2
<1>17. data_offset(plan) <= t.cursor
  BY <1>1, <1>4, <1>10, <1>12
<1> QED
  BY <1>3, <1>11, <1>16, <1>17 DEF PlacedWell, t

LEMMA PlacedSteps ==
  ASSUME NEW plan, PlanFields(plan)
  PROVE  \E f : /\ \A n \in 0..Len(plan) : f[n] = PlacedStep(plan, n, f)
                /\ Placed(plan) = f[Len(plan)]
<1> DEFINE L == Len(plan)
           step == [x \in (1..L) \X States |-> PlacedNextTensor(plan[x[1]], x[2])]
           IsPlaced(f) ==
             f = [n \in 0..L |->
                    IF n = 0 THEN [cursor |-> data_offset(plan), data |-> <<>>, aux |-> <<>>]
                    ELSE LET before == f[n - 1]
                             data == Place(before.cursor, plan[n].data_bytes, plan[n].alignment)
                             end == IF data = 0 THEN 0 ELSE data + plan[n].data_bytes
                             aux == IF plan[n].aux_bytes = 0 THEN 0
                                    ELSE Place(end, plan[n].aux_bytes, plan[n].alignment)
                         IN [cursor |-> IF plan[n].aux_bytes = 0 THEN end
                                        ELSE IF aux = 0 THEN 0 ELSE aux + plan[n].aux_bytes,
                             data |-> Append(before.data, data), aux |-> Append(before.aux, aux)]]
           g == CHOOSE f : IsPlaced(f)
<1>1. L \in Nat
  BY DEF PlanFields
<1>2. step \in Steps(L, States)
  BY PlacedType DEF Steps
<1>3. \A n \in 1..L, b \in States : step[n, b] = PlacedNextTensor(plan[n], b)
  OBVIOUS
<1> HIDE DEF step
<1>4. Nothing(plan) \in States
  BY DataOffset, EmptySeq DEF Nothing, States
<1>5. PICK f : Counts(L, States, Nothing(plan), step, f)
  BY <1>1, <1>2, <1>4, CountExists
<1>6. \A n \in 0..L : f[n] = PlacedStep(plan, n, f)
  <2>1. SUFFICES ASSUME NEW n \in 0..L PROVE f[n] = PlacedStep(plan, n, f)
    OBVIOUS
  <2>2. f \in [0..L -> States] /\ f[n] = CountStep(Nothing(plan), step, n, f)
    BY <1>5 DEF Counts
  <2>3. CASE n = 0
    BY <2>2, <2>3 DEF CountStep, PlacedStep
  <2>4. CASE n # 0
    <3>1. n \in 1..L /\ n - 1 \in 0..L
      BY <1>1, <2>4
    <3>2. f[n - 1] \in States
      BY <2>2, <3>1
    <3>3. f[n] = step[n, f[n - 1]]
      BY <2>2, <2>4 DEF CountStep
    <3> QED BY <1>3, <2>4, <3>1, <3>2, <3>3 DEF PlacedStep
  <2> QED BY <2>3, <2>4
<1>7. f = [n \in 0..L |-> PlacedStep(plan, n, f)]
  BY <1>5, <1>6 DEF Counts
<1>8. IsPlaced(f)
  BY <1>7, Zenon DEF PlacedStep, PlacedNextTensor, Nothing
<1>9. IsPlaced(g)
  BY <1>8, Zenon
<1>10. Placed(plan) = g[L]
  BY Zenon DEF Placed
<1>11. g = [n \in 0..L |-> PlacedStep(plan, n, g)]
  <2> HIDE DEF g
  <2> QED BY <1>9, Zenon DEF PlacedStep, PlacedNextTensor, Nothing
<1> HIDE DEF g, IsPlaced
<1>12. \A n \in 0..L : g[n] = PlacedStep(plan, n, g)
  BY <1>11, Zenon
<1> QED
  BY <1>10, <1>12

LEMMA PlacedAll ==
  ASSUME NEW plan, PlanFields(plan), Placed(plan).cursor # 0
  PROVE  PlacedWell(plan, Len(plan), Placed(plan))
<1> DEFINE L == Len(plan)
<1>1. L \in Nat
  BY DEF PlanFields
<1>2. PICK f : /\ \A n \in 0..L : f[n] = PlacedStep(plan, n, f)
               /\ Placed(plan) = f[L]
  BY PlacedSteps
<1> DEFINE G == {n \in 0..L : f[n].cursor # 0 => PlacedWell(plan, n, f[n])}
<1>3. 0 \in G
  <2>1. 0 \in 0..L /\ f[0] = Nothing(plan)
    BY <1>1, <1>2 DEF PlacedStep
  <2>2. PlacedWell(plan, 0, Nothing(plan))
    <3>1. Nothing(plan) \in States
      BY DataOffset, EmptySeq DEF Nothing, States
    <3>2. /\ Len(Nothing(plan).data) = 0 /\ Len(Nothing(plan).aux) = 0
          /\ data_offset(plan) <= Nothing(plan).cursor
      BY DataOffset, EmptySeq, LayoutAssumption DEF Nothing
    <3> QED BY <3>1, <3>2 DEF PlacedWell
  <2> QED BY <2>1, <2>2
<1>4. ASSUME NEW n \in G, n < L
      PROVE  n + 1 \in G
  <2>1. n \in 0..L - 1 /\ n + 1 \in 0..L /\ n + 1 # 0 /\ (n + 1) - 1 = n /\ n + 1 \in 1..L
    BY <1>1, <1>4
  <2>2. f[n + 1] = PlacedNextTensor(plan[n + 1], f[n])
    BY <1>2, <2>1 DEF PlacedStep
  <2>3. ASSUME f[n + 1].cursor # 0
        PROVE  PlacedWell(plan, n + 1, f[n + 1])
    <3>1. f[n].cursor # 0
      BY <2>1, <2>2, <2>3, PlacedZero
    <3>2. PlacedWell(plan, n, f[n])
      BY <1>4, <3>1
    <3> QED BY <2>1, <2>2, <2>3, <3>2, PlacedMore
  <2> QED BY <2>1, <2>3
<1>5. 0..L \subseteq G
  <2> HIDE DEF G
  <2> QED BY <1>1, <1>3, <1>4, Upwards
<1> QED
  BY <1>1, <1>2, <1>5

------------------------------------------------------------------------------
(* The file of a plan *)

LEMMA WrittenIs ==
  ASSUME NEW plan, PlanFields(plan)
  PROVE  /\ Written(plan).wellformed /\ Written(plan).manifest_crc
         /\ Written(plan).arch = "gfx1200" /\ Written(plan).model = "qwen3.8-27b"
         /\ Written(plan).file_bytes = Placed(plan).cursor
         /\ Written(plan).mapped_bytes = Placed(plan).cursor
         /\ Written(plan).directory_offset = FileAlignment
         /\ Written(plan).strings_offset = strings_offset(plan)
         /\ Written(plan).strings_bytes = strings_bytes(plan)
         /\ Written(plan).data_offset = data_offset(plan)
         /\ Written(plan).data_bytes = Placed(plan).cursor - data_offset(plan)
BY DEF Written

LEMMA WrittenEntries ==
  ASSUME NEW plan, PlanFields(plan)
  PROVE  /\ Len(Written(plan).entries) = Len(plan)
         /\ DOMAIN Written(plan).entries = 1..Len(plan)
         /\ \A n \in 1..Len(plan) :
              Written(plan).entries[n] =
                [name |-> plan[n].name, kinds |-> TRUE,
                 name_offset |-> NameOffset(plan, n), name_bytes |-> plan[n].name_bytes,
                 alignment |-> plan[n].alignment,
                 data_offset |-> Placed(plan).data[n], data_bytes |-> plan[n].data_bytes,
                 aux_offset |-> Placed(plan).aux[n], aux_bytes |-> plan[n].aux_bytes,
                 crc |-> TRUE]
<1> DEFINE e(n) == [name |-> plan[n].name, kinds |-> TRUE,
                    name_offset |-> NameOffset(plan, n), name_bytes |-> plan[n].name_bytes,
                    alignment |-> plan[n].alignment,
                    data_offset |-> Placed(plan).data[n], data_bytes |-> plan[n].data_bytes,
                    aux_offset |-> Placed(plan).aux[n], aux_bytes |-> plan[n].aux_bytes,
                    crc |-> TRUE]
<1>1. Len(plan) \in Nat /\ DOMAIN plan = 1..Len(plan)
  BY DEF PlanFields
<1>2. Written(plan).entries = [n \in 1..Len(plan) |-> e(n)]
  BY <1>1 DEF Written
<1> HIDE DEF e
<1>3. \A n \in 1..Len(plan) : Written(plan).entries[n] = e(n)
  BY <1>2
<1>4. /\ Len(Written(plan).entries) = Len(plan)
      /\ DOMAIN Written(plan).entries = 1..Len(plan)
  BY <1>1, <1>2
<1> QED
  BY <1>3, <1>4 DEF e

LEMMA WrittenEntryIs ==
  ASSUME NEW plan, PlanFields(plan), NEW n \in 1..Len(plan), NEW e, e = Written(plan).entries[n]
  PROVE  /\ e.name = plan[n].name /\ e.kinds /\ e.crc /\ e.alignment = plan[n].alignment
         /\ e.name_offset = NameOffset(plan, n) /\ e.name_bytes = plan[n].name_bytes
         /\ e.data_offset = Placed(plan).data[n] /\ e.data_bytes = plan[n].data_bytes
         /\ e.aux_offset = Placed(plan).aux[n] /\ e.aux_bytes = plan[n].aux_bytes
<1>1. e = [name |-> plan[n].name, kinds |-> TRUE,
           name_offset |-> NameOffset(plan, n), name_bytes |-> plan[n].name_bytes,
           alignment |-> plan[n].alignment,
           data_offset |-> Placed(plan).data[n], data_bytes |-> plan[n].data_bytes,
           aux_offset |-> Placed(plan).aux[n], aux_bytes |-> plan[n].aux_bytes,
           crc |-> TRUE]
  BY WrittenEntries, Zenon
<1> QED
  BY <1>1

(* What an accepted plan makes of its tensors.                             *)
LEMMA AcceptedPlan ==
  ASSUME NEW plan, PlanFields(plan), WritersAccept(plan)
  PROVE  /\ Placed(plan).cursor \in 0..Word - 1 /\ data_offset(plan) <= Placed(plan).cursor
         /\ strings_offset(plan) \in Nat /\ FileAlignment <= strings_offset(plan)
         /\ strings_bytes(plan) \in Nat /\ data_offset(plan) \in 0..Word - 1
         /\ strings_offset(plan) + strings_bytes(plan) <= data_offset(plan)
         /\ \A n \in 1..Len(plan) :
              /\ Placed(plan).data[n] \in 0..Word - 1 /\ Placed(plan).aux[n] \in 0..Word - 1
              /\ plan[n].data_bytes \in 1..Word - 1 /\ plan[n].aux_bytes \in 0..Word - 1
              /\ plan[n].alignment \in Alignments /\ plan[n].alignment >= FileAlignment
              /\ plan[n].alignment \in 0..Word - 1
              /\ plan[n].name \notin BadNames /\ plan[n].name_bytes \in Nat \ {0}
              /\ PlanesPlaced(plan, Placed(plan), n)
              /\ \A j \in 1..n - 1 : PlaneEnd(plan, Placed(plan), j) <= Placed(plan).data[n]
<1>1. /\ PlanValid(plan) /\ data_offset(plan) # 0 /\ Placed(plan).cursor # 0
      /\ Len(plan) \in Nat /\ DOMAIN plan = 1..Len(plan)
  BY DEF WritersAccept, PlanFields
<1>2. PlacedWell(plan, Len(plan), Placed(plan))
  BY <1>1, PlacedAll
<1>3. /\ strings_offset(plan) \in Nat /\ FileAlignment <= strings_offset(plan)
      /\ strings_bytes(plan) \in Nat /\ data_offset(plan) \in 0..Word - 1
      /\ strings_offset(plan) + strings_bytes(plan) <= data_offset(plan)
  BY <1>1, DataOffset, NamesFit
<1>4. Placed(plan).cursor \in 0..Word - 1 /\ data_offset(plan) <= Placed(plan).cursor
  BY <1>2 DEF PlacedWell, States
<1>5. ASSUME NEW n \in 1..Len(plan)
      PROVE  /\ plan[n].data_bytes \in 1..Word - 1 /\ plan[n].aux_bytes \in 0..Word - 1
             /\ plan[n].alignment \in Alignments /\ plan[n].alignment >= FileAlignment
             /\ plan[n].alignment \in 0..Word - 1
             /\ plan[n].name \notin BadNames /\ plan[n].name_bytes \in Nat \ {0}
  <2>1. /\ plan[n].name \notin BadNames /\ plan[n].data_bytes # 0
        /\ plan[n].alignment >= FileAlignment /\ plan[n].alignment \in Alignments
    BY <1>1 DEF PlanValid
  <2>2. /\ plan[n].name_bytes \in Nat /\ (plan[n].name_bytes = 0 => plan[n].name \in BadNames)
        /\ {plan[n].alignment, plan[n].data_bytes, plan[n].aux_bytes} \subseteq 0..Word - 1
    BY <1>1 DEF PlanFields
  <2> QED BY <2>1, <2>2, LayoutAssumption
<1>6. ASSUME NEW n \in 1..Len(plan)
      PROVE  /\ Placed(plan).data[n] \in 0..Word - 1 /\ Placed(plan).aux[n] \in 0..Word - 1
             /\ PlanesPlaced(plan, Placed(plan), n)
             /\ \A j \in 1..n - 1 : PlaneEnd(plan, Placed(plan), j) <= Placed(plan).data[n]
  <2>1. /\ Placed(plan).data \in Seq(0..Word - 1) /\ Placed(plan).aux \in Seq(0..Word - 1)
        /\ Len(Placed(plan).data) = Len(plan) /\ Len(Placed(plan).aux) = Len(plan)
    BY <1>2 DEF PlacedWell, States
  <2>2. Placed(plan).data[n] \in 0..Word - 1 /\ Placed(plan).aux[n] \in 0..Word - 1
    BY <2>1, ElementOfSeq
  <2> QED BY <1>2, <2>2 DEF PlacedWell
<1> QED
  BY <1>3, <1>4, <1>5, <1>6

LEMMA WrittenFields ==
  ASSUME NEW plan, PlanFields(plan), WritersAccept(plan)
  PROVE  FileFields(Written(plan))
<1> DEFINE f == Written(plan)
<1>1. Len(plan) \in Nat /\ Word \in Nat /\ Word > 0
  BY LayoutAssumption DEF PlanFields
<1>2. {f.mapped_bytes, f.file_bytes, f.directory_offset, f.strings_offset,
       f.strings_bytes, f.data_offset, f.data_bytes} \subseteq 0..Word - 1
  <2>1. f.mapped_bytes \in 0..Word - 1 /\ f.file_bytes \in 0..Word - 1
        /\ f.data_offset \in 0..Word - 1
    BY AcceptedPlan, WrittenIs
  <2>2. f.strings_offset \in 0..Word - 1 /\ f.strings_bytes \in 0..Word - 1
    <3>1. /\ strings_offset(plan) \in Nat /\ strings_bytes(plan) \in Nat
          /\ data_offset(plan) \in 0..Word - 1
          /\ strings_offset(plan) + strings_bytes(plan) <= data_offset(plan)
      BY AcceptedPlan
    <3> QED BY <1>1, <3>1, WrittenIs
  <2>3. f.data_bytes \in 0..Word - 1
    <3>1. /\ Placed(plan).cursor \in 0..Word - 1 /\ data_offset(plan) <= Placed(plan).cursor
          /\ data_offset(plan) \in 0..Word - 1
      BY AcceptedPlan
    <3> QED BY <1>1, <3>1, WrittenIs
  <2>4. f.directory_offset \in 0..Word - 1
    BY LayoutAssumption, WrittenIs
  <2> HIDE DEF f
  <2> QED BY <2>1, <2>2, <2>3, <2>4
<1>3. ASSUME NEW n \in 1..Len(plan)
      PROVE  {f.entries[n].name_offset, f.entries[n].name_bytes, f.entries[n].alignment,
              f.entries[n].data_offset, f.entries[n].data_bytes,
              f.entries[n].aux_offset, f.entries[n].aux_bytes} \subseteq 0..Word - 1
  <2> DEFINE e == f.entries[n]
  <2>0. /\ e.alignment = plan[n].alignment
        /\ e.name_offset = NameOffset(plan, n) /\ e.name_bytes = plan[n].name_bytes
        /\ e.data_offset = Placed(plan).data[n] /\ e.data_bytes = plan[n].data_bytes
        /\ e.aux_offset = Placed(plan).aux[n] /\ e.aux_bytes = plan[n].aux_bytes
    BY WrittenEntryIs
  <2> HIDE DEF e
  <2>1. e.name_offset \in 0..Word - 1 /\ e.name_bytes \in 0..Word - 1
    <3>1. /\ strings_offset(plan) \in Nat /\ data_offset(plan) \in 0..Word - 1
          /\ strings_offset(plan) + strings_bytes(plan) <= data_offset(plan)
      BY AcceptedPlan
    <3>2. /\ NameOffset(plan, n) \in Nat /\ plan[n].name_bytes \in Nat /\ strings_bytes(plan) \in Nat
          /\ NameOffset(plan, n) + plan[n].name_bytes <= strings_bytes(plan)
      BY NamesFit, AcceptedPlan
    <3>3. NameOffset(plan, n) \in 0..Word - 1 /\ plan[n].name_bytes \in 0..Word - 1
      BY <1>1, <3>1, <3>2
    <3> QED BY <2>0, <3>3
  <2>2. e.alignment \in 0..Word - 1
    BY <2>0, AcceptedPlan
  <2>3. /\ e.data_offset \in 0..Word - 1 /\ e.data_bytes \in 0..Word - 1
        /\ e.aux_offset \in 0..Word - 1 /\ e.aux_bytes \in 0..Word - 1
    <3>1. /\ Placed(plan).data[n] \in 0..Word - 1 /\ Placed(plan).aux[n] \in 0..Word - 1
          /\ plan[n].data_bytes \in 0..Word - 1 /\ plan[n].aux_bytes \in 0..Word - 1
      BY AcceptedPlan, LayoutAssumption
    <3> QED BY <2>0, <3>1
  <2> QED BY <2>1, <2>2, <2>3 DEF e
<1> QED
  BY <1>1, <1>2, <1>3, WrittenEntries DEF FileFields

LEMMA WrittenHeader ==
  ASSUME NEW plan, PlanFields(plan), WritersAccept(plan)
  PROVE  header_valid(Written(plan))
<1> DEFINE f == Written(plan)
<1>1. /\ Placed(plan).cursor \in 0..Word - 1 /\ data_offset(plan) <= Placed(plan).cursor
      /\ strings_offset(plan) \in Nat /\ FileAlignment <= strings_offset(plan)
      /\ strings_bytes(plan) \in Nat /\ data_offset(plan) \in 0..Word - 1
      /\ strings_offset(plan) + strings_bytes(plan) <= data_offset(plan)
  BY AcceptedPlan
<1>2. /\ Word \in Nat /\ Word > 0 /\ FileAlignment \in Nat \ {0}
      /\ Len(plan) * EntryBytes \in Nat
      /\ strings_offset(plan) = FileAlignment + Len(plan) * EntryBytes
  BY DataOffset, LayoutAssumption
<1>3. directory_bytes(f) = Len(plan) * EntryBytes
  BY WrittenEntries DEF directory_bytes
<1>4. (strings_offset(plan) + strings_bytes(plan)) % Word = strings_offset(plan) + strings_bytes(plan)
  <2> DEFINE sum == strings_offset(plan) + strings_bytes(plan)
  <2>1. sum \in Nat /\ sum < Word /\ Word \in Nat \ {0}
    BY <1>1, <1>2
  <2> HIDE DEF sum
  <2>2. sum % Word = sum
    BY <2>1, SmallRemainder
  <2> QED BY <2>2 DEF sum
<1> DEFINE c == Placed(plan).cursor  d == data_offset(plan)  o == strings_offset(plan)
           b == strings_bytes(plan)  e == Len(plan) * EntryBytes
<1>5. /\ range_valid(FileAlignment, e, c) /\ range_valid(o, b, c) /\ range_valid(d, c - d, c)
      /\ c >= FileAlignment
  <2> HIDE DEF c, d, o, b, e
  <2>1. /\ c \in Nat /\ d \in Nat /\ o \in Nat /\ b \in Nat /\ e \in Nat /\ FileAlignment \in Nat
        /\ d <= c /\ o + b <= d /\ o = FileAlignment + e
    BY <1>1, <1>2 DEF c, d, o, b, e
  <2> QED BY <2>1 DEF range_valid
<1>6. f.arch # "" /\ f.model # ""
  BY WrittenIs
<1>7. d >= (o + b) % Word
  BY <1>1, <1>4
<1> HIDE DEF c, d, o, b, e
<1>8. /\ f.mapped_bytes = c /\ f.file_bytes = c /\ f.directory_offset = FileAlignment
      /\ f.strings_offset = o /\ f.strings_bytes = b /\ f.data_offset = d /\ f.data_bytes = c - d
      /\ f.wellformed /\ directory_bytes(f) = e /\ o = FileAlignment + e
  BY <1>2, <1>3, WrittenIs DEF c, d, o, b, e
<1> HIDE DEF f
<1> QED
  BY <1>5, <1>6, <1>7, <1>8 DEF header_valid, f

LEMMA WrittenEntryValid ==
  ASSUME NEW plan, PlanFields(plan), WritersAccept(plan), NEW n \in 1..Len(plan), NEW names,
         plan[n].name \notin names
  PROVE  entry_valid(Written(plan), Written(plan).entries[n], names)
<1> DEFINE f == Written(plan)  e == f.entries[n]
           c == Placed(plan).cursor  x == Placed(plan).data[n]  y == Placed(plan).aux[n]
<1>1. /\ c \in Nat /\ x \in Nat /\ y \in Nat /\ data_offset(plan) \in Nat
      /\ plan[n].data_bytes \in Nat \ {0} /\ plan[n].aux_bytes \in Nat
      /\ plan[n].alignment \in Alignments /\ plan[n].alignment >= FileAlignment
      /\ plan[n].name \notin BadNames /\ plan[n].name_bytes \in Nat \ {0}
      /\ PlanesPlaced(plan, Placed(plan), n)
  <2>1. /\ c \in 0..Word - 1 /\ x \in 0..Word - 1 /\ y \in 0..Word - 1
        /\ data_offset(plan) \in 0..Word - 1
        /\ plan[n].data_bytes \in 1..Word - 1 /\ plan[n].aux_bytes \in 0..Word - 1
        /\ plan[n].alignment \in Alignments /\ plan[n].alignment >= FileAlignment
        /\ plan[n].name \notin BadNames /\ plan[n].name_bytes \in Nat \ {0}
        /\ PlanesPlaced(plan, Placed(plan), n)
    BY AcceptedPlan
  <2> HIDE DEF c, x, y
  <2> QED BY <2>1, LayoutAssumption
<1>2. /\ e.name = plan[n].name /\ e.kinds /\ e.alignment = plan[n].alignment
      /\ e.name_offset = NameOffset(plan, n) /\ e.name_bytes = plan[n].name_bytes
      /\ e.data_offset = x /\ e.data_bytes = plan[n].data_bytes
      /\ e.aux_offset = y /\ e.aux_bytes = plan[n].aux_bytes
  BY WrittenEntryIs
<1>3. f.strings_bytes = strings_bytes(plan) /\ f.file_bytes = c /\ f.data_offset = data_offset(plan)
  BY WrittenIs
<1>4. /\ x % plan[n].alignment = 0 /\ data_offset(plan) <= x
      /\ plan[n].aux_bytes = 0 => x + plan[n].data_bytes <= c
      /\ plan[n].aux_bytes # 0 => /\ y % plan[n].alignment = 0 /\ x + plan[n].data_bytes <= y
                                  /\ y + plan[n].aux_bytes <= c
  BY <1>1 DEF PlanesPlaced, PlaneEnd
<1>5. range_valid(NameOffset(plan, n), plan[n].name_bytes, strings_bytes(plan))
  <2>1. /\ NameOffset(plan, n) \in Nat /\ strings_bytes(plan) \in Nat
        /\ NameOffset(plan, n) + plan[n].name_bytes <= strings_bytes(plan)
    BY NamesFit
  <2> QED BY <1>1, <2>1 DEF range_valid
<1> HIDE DEF c, x, y, e, f
<1>6. plane_valid(f, plan[n].alignment, x, plan[n].data_bytes)
  <2>1. x <= c /\ plan[n].data_bytes <= c - x
    BY <1>1, <1>4
  <2> QED BY <1>1, <1>3, <1>4, <2>1 DEF plane_valid, range_valid
<1>7. plan[n].aux_bytes # 0 => plane_valid(f, plan[n].alignment, y, plan[n].aux_bytes)
  <2> SUFFICES ASSUME plan[n].aux_bytes # 0
               PROVE  plane_valid(f, plan[n].alignment, y, plan[n].aux_bytes)
    OBVIOUS
  <2>1. y <= c /\ plan[n].aux_bytes <= c - y /\ data_offset(plan) <= y /\ y % plan[n].alignment = 0
    BY <1>1, <1>4
  <2> QED BY <1>1, <1>3, <2>1 DEF plane_valid, range_valid
<1>8. entry_valid(f, e, names)
  BY <1>1, <1>2, <1>3, <1>5, <1>6, <1>7 DEF entry_valid
<1> QED
  BY <1>8 DEF e, f

------------------------------------------------------------------------------
(* Sequences and payloads *)

LEMMA Appended ==
  ASSUME NEW S, NEW s \in Seq(S), NEW x \in S
  PROVE  /\ Append(s, x) \in Seq(S)
         /\ Len(s) \in Nat /\ Len(Append(s, x)) = Len(s) + 1
         /\ \A i \in 1..Len(s) : Append(s, x)[i] = s[i]
         /\ Append(s, x)[Len(s) + 1] = x
BY AppendProperties, LenProperties

LEMMA Fields ==
  ASSUME file \in Files \cup WrittenFiles
  PROVE  FileFields(file)
BY FilesAssumption, PlansAssumption, WrittenFields DEF WrittenFiles

LEMMA TensorFields ==
  ASSUME file \in Files \cup WrittenFiles
  PROVE  /\ Len(tensors) \in Nat /\ DOMAIN tensors = 1..Len(tensors)
         /\ \A n \in DOMAIN tensors :
              /\ tensors[n].name_offset \in 0..Word - 1 /\ tensors[n].name_bytes \in 0..Word - 1
              /\ tensors[n].data_offset \in 0..Word - 1 /\ tensors[n].data_bytes \in 0..Word - 1
              /\ tensors[n].aux_offset \in 0..Word - 1 /\ tensors[n].aux_bytes \in 0..Word - 1
BY Fields DEF FileFields, tensors

LEMMA PayloadFields ==
  ASSUME file \in Files \cup WrittenFiles, NEW p \in payloads(file)
  PROVE  /\ p = <<p[1], p[2]>> /\ p[1] \in DOMAIN tensors /\ p[2] \in {"data", "aux"}
         /\ p[2] = "aux" => tensors[p[1]].aux_bytes # 0
         /\ Begin(file, p) \in 0..Word - 1 /\ Bytes(file, p) \in 0..Word - 1
BY TensorFields DEF payloads, Begin, Bytes, tensors

LEMMA PayloadsCounted ==
  ASSUME file \in Files \cup WrittenFiles
  PROVE  /\ IsFiniteSet(payloads(file)) /\ Cardinality(payloads(file)) \in Nat
         /\ Cardinality(payloads(file)) <= 2 * Len(tensors)
<1> DEFINE planes == {"data", "aux"}
           all == (1..Len(tensors)) \X planes
<1>1. Len(tensors) \in Nat
  BY TensorFields
<1>2. IsFiniteSet(1..Len(tensors)) /\ Cardinality(1..Len(tensors)) = Len(tensors)
  BY SMTT(30), <1>1, FS_Interval
<1>3. IsFiniteSet(planes) /\ Cardinality(planes) = 2
  <2>1. IsFiniteSet({"data"}) /\ Cardinality({"data"}) = 1
    BY FS_Singleton
  <2>2. planes = {"data"} \cup {"aux"} /\ "aux" \notin {"data"}
    OBVIOUS
  <2> QED BY <2>1, <2>2, FS_AddElement
<1>4. IsFiniteSet(all) /\ Cardinality(all) = Len(tensors) * 2
  BY ZenonT(30), <1>2, <1>3, FS_Product
<1>5. payloads(file) \in SUBSET all
  BY TensorFields DEF payloads, tensors
<1>6. IsFiniteSet(payloads(file)) /\ Cardinality(payloads(file)) <= Cardinality(all)
  BY <1>4, <1>5, FS_Subset
<1> QED
  BY <1>1, <1>4, <1>6, FS_CardinalityType

LEMMA OrderedRanges ==
  ASSUME file \in Files \cup WrittenFiles, NEW order \in Orders
  PROVE  /\ order \in Seq(payloads(file)) /\ Len(order) <= 2 * Len(tensors)
         /\ Len(order) \in Nat /\ DOMAIN order = 1..Len(order)
         /\ Sorted(order)
         /\ \A p \in payloads(file) : \E i \in 1..Len(order) : order[i] = p
<1>1. PICK n \in Nat : n = Cardinality(payloads(file)) /\ n <= 2 * Len(tensors)
  BY PayloadsCounted
<1>2. order \in [1..n -> payloads(file)]
  BY <1>1 DEF Orders
<1>3. order \in Seq(payloads(file)) /\ Len(order) = n
  BY <1>2
<1> QED
  BY <1>1, <1>2, <1>3 DEF Orders

------------------------------------------------------------------------------
(* Types *)

LEMMA InitInv == Init => Inv
<1> SUFFICES ASSUME Init PROVE Inv
  OBVIOUS
<1>1. 1 \in 1..2 * Len(tensors) + 2 /\ 0 <= Len(tensors)
  BY TensorFields DEF Init
<1>2. 0 \in 0..Word - 1
  BY LayoutAssumption
<1>3. /\ <<>> \in Seq(payloads(file)) /\ <<>> \in Seq(Placements) /\ Len(<<>>) = 0
  OBVIOUS
<1>4. Types
  <2>1. /\ pc \in {"open"} \cup Reading \cup Closing
        /\ file \in Files \cup WrittenFiles /\ config \in Configs /\ total \in Totals
        /\ mapped \in BOOLEAN /\ arena \in BOOLEAN /\ stream \in BOOLEAN
        /\ inflight \subseteq payloads(file) /\ loaded \subseteq payloads(file)
        /\ pc # "place" /\ pc # "neighbours" /\ index = 1 /\ placements = <<>> /\ arena_bytes \in 0..Word - 1 /\ index \in 1..2 * Len(tensors) + 2
    BY <1>1, <1>2 DEF Init
  <2>2. /\ ranges \in Seq(payloads(file)) /\ Len(ranges) <= 2 * Len(tensors)
        /\ placements \in Seq(Placements) /\ Len(placements) <= Len(tensors)
        /\ device_tensors \in Seq(Placements)
    <3>1. ranges = <<>> /\ placements = <<>> /\ device_tensors = <<>>
      BY DEF Init
    <3>2. Len(tensors) \in Nat
      BY <2>1, TensorFields
    <3> QED BY <1>3, <3>1, <3>2
  <2> QED BY <2>1, <2>2 DEF Types
<1>5. Opening /\ Uploaded /\ Held
  BY DEF Init, Opening, Uploaded, Held, Checked, Opened, Closing, Reading, Fitting
<1>6. Laid
  BY <1>3 DEF Init, Laid, Sized, Fitting
<1> QED
  BY <1>4, <1>5, <1>6 DEF Inv

(* A tensor is placed behind what is there, and the sum is still a word.   *)
LEMMA PlacedNext ==
  ASSUME Types, index \in DOMAIN tensors, PlaceTensor(tensors[index]), pc' # "destroy_stream"
  PROVE  \E q \in Placements :
           /\ placements' = Append(placements, q) /\ q.tensor = index
           /\ arena_bytes <= q.data /\ PlanesApart(q) /\ EndOf(q) <= arena_bytes'
           /\ arena_bytes' \in 0..Word - 1 /\ arena_bytes <= arena_bytes'
           /\ index' = index + 1 /\ pc' = "place"
<1> USE LayoutAssumption
<1> DEFINE tensor == tensors[index]
           data == aligned_size(arena_bytes, 0, tensor.alignment)
           data_end == IF data = -1 THEN -1 ELSE aligned_size(data, tensor.data_bytes, 1)
           aux == IF data_end = -1 THEN -1 ELSE aligned_size(data_end, 0, tensor.alignment)
           aux_end == IF aux = -1 THEN -1 ELSE aligned_size(aux, tensor.aux_bytes, 1)
           end == IF tensor.aux_bytes = 0 THEN data_end ELSE aux_end
           q == [tensor |-> index, data |-> data, aux |-> IF tensor.aux_bytes = 0 THEN 0 ELSE aux]
<1>1. /\ tensor.data_bytes \in 0..Word - 1 /\ tensor.aux_bytes \in 0..Word - 1
      /\ arena_bytes \in 0..Word - 1 /\ 0 \in 0..Word - 1
  <2>1. file \in Files \cup WrittenFiles /\ arena_bytes \in 0..Word - 1
    BY DEF Types
  <2> QED BY <2>1, TensorFields
<1>2. /\ end # -1 /\ arena_bytes' = end /\ placements' = Append(placements, q)
      /\ index' = index + 1 /\ pc' = "place"
  BY DEF PlaceTensor, Fail, Goto
<1>3. /\ data # -1 /\ data = aligned_size(arena_bytes, 0, tensor.alignment)
      /\ data_end # -1 /\ data_end = aligned_size(data, tensor.data_bytes, 1)
      /\ tensor.aux_bytes = 0 => end = data_end
      /\ tensor.aux_bytes # 0 =>
           /\ aux # -1 /\ aux = aligned_size(data_end, 0, tensor.alignment)
           /\ aux_end # -1 /\ aux_end = aligned_size(aux, tensor.aux_bytes, 1) /\ end = aux_end
  BY <1>2
<1>4. /\ q.tensor = index /\ q.data = data
      /\ tensor.aux_bytes # 0 => q.aux = aux
      /\ data \in 0..Word - 1 /\ (tensor.aux_bytes # 0 => aux \in 0..Word - 1) => q \in Placements
  BY <1>1 DEF Placements
<1>5. tensors[q.tensor] = tensor
  BY <1>4
<1> HIDE DEF tensor, data, data_end, aux, aux_end, end, q
<1>6. data \in 0..Word - 1 /\ arena_bytes <= data
  BY <1>1, <1>3, AlignedCursor, Zenon
<1>10. data % tensor.alignment = 0
  BY <1>1, <1>3, AlignedCursor, Zenon
<1>7. data_end \in 0..Word - 1 /\ data + tensor.data_bytes <= data_end
  BY <1>1, <1>3, <1>6, AlignedSize, Zenon
<1>8. CASE tensor.aux_bytes = 0
  <2>1. EndOf(q) = data + tensor.data_bytes /\ PlanesApart(q)
    BY <1>4, <1>5, <1>8, <1>10 DEF EndOf, PlanesApart
  <2>2. arena_bytes <= data_end
    BY <1>1, <1>6, <1>7
  <2> QED BY <1>2, <1>3, <1>4, <1>6, <1>7, <1>8, <2>1, <2>2
<1>9. CASE tensor.aux_bytes # 0
  <2>1. aux \in 0..Word - 1 /\ data_end <= aux
    BY <1>1, <1>3, <1>7, <1>9, AlignedCursor, Zenon
  <2>6. aux % tensor.alignment = 0
    BY <1>1, <1>3, <1>7, <1>9, AlignedCursor, Zenon
  <2>2. aux_end \in 0..Word - 1 /\ aux + tensor.aux_bytes <= aux_end
    BY <1>1, <1>3, <1>9, <2>1, AlignedSize
  <2>3. data + tensor.data_bytes <= aux
    BY <1>1, <1>6, <1>7, <2>1
  <2>4. EndOf(q) = aux + tensor.aux_bytes /\ PlanesApart(q)
    BY <1>4, <1>5, <1>9, <1>10, <2>3, <2>6 DEF EndOf, PlanesApart
  <2>5. arena_bytes <= aux_end
    BY <1>1, <1>6, <1>7, <2>1, <2>2
  <2> QED BY <1>2, <1>3, <1>4, <1>6, <1>9, <2>1, <2>2, <2>4, <2>5
<1> QED
  BY <1>8, <1>9

LEMMA FileKept ==
  ASSUME [Next]_vars
  PROVE  UNCHANGED <<file, config, total, tensors, payloads(file), Placements, Resident>>
<1>1. UNCHANGED <<file, config, total>>
  <2>1. CASE Open \/ CheckHeader \/ CheckEntry \/ CheckNeighbours \/ CheckIdentity \/ PlaceTensors
    BY <2>1 DEF Open, CheckHeader, CheckEntry, CheckNeighbours, CheckIdentity, PlaceTensors, choice
  <2>2. CASE Allocate \/ CreateStream \/ Upload \/ Synchronize \/ Copy
    BY <2>2 DEF Allocate, CreateStream, Upload, Synchronize, Copy, choice
  <2>3. CASE Destroy \/ DestroyStream \/ FreeArena \/ Unmap \/ Gone \/ UNCHANGED vars
    BY <2>3 DEF Destroy, DestroyStream, FreeArena, Unmap, Gone, vars, choice
  <2> QED BY <2>1, <2>2, <2>3 DEF Next
<1> QED
  BY <1>1 DEF tensors, Placements, Resident

LEMMA UploadCases ==
  ASSUME Upload
  PROVE  /\ pc = "upload"
         /\ UNCHANGED <<ranges, arena_bytes, placements, mapped, arena, stream, loaded>>
         /\ \/ /\ index > Len(placements) /\ pc' = "synchronize"
               /\ UNCHANGED <<index, device_tensors, inflight>>
            \/ /\ ~(index > Len(placements)) /\ pc' = "upload" /\ index' = index + 1
               /\ device_tensors' = Append(device_tensors, placements[index])
               /\ inflight' =
                    inflight \cup {p \in payloads(file) : p[1] = placements[index].tensor}
            \/ /\ ~(index > Len(placements)) /\ pc' = "destroy_stream"
               /\ UNCHANGED <<index, device_tensors>>
               /\ inflight' \in
                    {inflight, inflight \cup {<<placements[index].tensor, "data">>}}
<1>1. /\ pc = "upload"
      /\ UNCHANGED <<ranges, arena_bytes, placements, mapped, arena, stream, loaded>>
  BY DEF Upload, held
<1>2. CASE index > Len(placements)
  BY <1>1, <1>2 DEF Upload, Goto
<1>3. CASE ~(index > Len(placements))
  BY <1>1, <1>3, Zenon DEF Upload, Goto, Fail
<1> QED
  BY <1>2, <1>3

LEMMA TypesStep == Types /\ [Next]_vars => Types'
<1> SUFFICES ASSUME Types, [Next]_vars PROVE Types'
  OBVIOUS
<1>1. UNCHANGED <<file, config, total, tensors, payloads(file), Placements>>
  BY FileKept
<1>2. /\ Len(tensors) \in Nat /\ DOMAIN tensors = 1..Len(tensors)
      /\ file \in Files \cup WrittenFiles
  BY TensorFields DEF Types
<1>3. Word \in Nat /\ 0 \in 0..Word - 1
  BY LayoutAssumption
<1>4. Len(ranges) \in Nat /\ Len(placements) \in Nat /\ index \in Nat
  BY <1>2, LenProperties DEF Types
<1> USE <1>1, <1>2, <1>4 DEF Types, Goto, Fail, Parsing, Reading, Opened, Closing, held, device
<1>5. CASE Open \/ CheckHeader
  BY <1>5 DEF Open, CheckHeader
<1>6. CASE CheckEntry
  <2>1. CASE index > Len(tensors)
    <3>1. ranges' \in Orders /\ index' = 2 /\ pc' = "neighbours"
      BY <1>6, <2>1 DEF CheckEntry
    <3>2. ranges' \in Seq(payloads(file)) /\ Len(ranges') <= 2 * Len(tensors)
      BY <3>1, OrderedRanges
    <3> QED BY <1>6, <3>1, <3>2 DEF CheckEntry
  <2>2. CASE ~(index > Len(tensors))
    BY <1>6, <2>2 DEF CheckEntry
  <2> QED BY <2>1, <2>2
<1>7. CASE CheckNeighbours
  BY <1>7 DEF CheckNeighbours
<1>8. CASE CheckIdentity
  BY <1>8 DEF CheckIdentity
<1>9. CASE PlaceTensors
  <2>1. CASE index > Len(tensors) \/ tensors[index].name \in Resources
    BY <1>9, <2>1 DEF PlaceTensors
  <2>2. CASE index \in DOMAIN tensors /\ PlaceTensor(tensors[index])
    <3>1. CASE pc' = "destroy_stream"
      <4>1. UNCHANGED <<arena_bytes, placements, index>>
        BY <2>2, <3>1 DEF PlaceTensor
      <4> QED BY <1>9, <3>1, <4>1 DEF PlaceTensors
    <3>2. CASE pc' # "destroy_stream"
      <4>1. PICK q \in Placements :
              /\ placements' = Append(placements, q) /\ arena_bytes' \in 0..Word - 1
              /\ index' = index + 1 /\ pc' = "place"
        BY <2>2, <3>2, PlacedNext
      <4>2. placements' \in Seq(Placements) /\ Len(placements') = Len(placements) + 1
        BY <4>1, Appended
      <4> QED BY <1>9, <2>2, <4>1, <4>2 DEF PlaceTensors
    <3> QED BY <3>1, <3>2
  <2> QED BY <1>9, <2>1, <2>2 DEF PlaceTensors
<1>10. CASE Allocate \/ CreateStream \/ Synchronize
  BY <1>10 DEF Allocate, CreateStream, Synchronize
<1>11. CASE Upload
  <2>1. index <= Len(placements) =>
          /\ placements[index] \in Placements
          /\ Append(device_tensors, placements[index]) \in Seq(Placements)
    BY Appended
  <2>2. index <= Len(placements) =>
          /\ placements[index].tensor \in DOMAIN tensors
          /\ <<placements[index].tensor, "data">> \in payloads(file)
    BY <2>1 DEF Placements, payloads, tensors
  <2>3. /\ UNCHANGED <<ranges, arena_bytes, placements, mapped, arena, stream, loaded>>
        /\ pc' \in {"synchronize", "upload", "destroy_stream"}
    BY <1>11, UploadCases
  <2>4. index' \in 1..2 * Len(tensors) + 2 /\ device_tensors' \in Seq(Placements)
    <3>1. ~(index > Len(placements)) =>
            /\ index + 1 \in 1..2 * Len(tensors) + 2
            /\ Append(device_tensors, placements[index]) \in Seq(Placements)
      BY <2>1
    <3>2. index \in 1..2 * Len(tensors) + 2 /\ device_tensors \in Seq(Placements)
      OBVIOUS
    <3> HIDE DEF Types
    <3> QED BY <1>11, <3>1, <3>2, UploadCases
  <2>5. inflight' \subseteq payloads(file)
    <3>1. inflight \subseteq payloads(file)
      OBVIOUS
    <3>2. ~(index > Len(placements)) => <<placements[index].tensor, "data">> \in payloads(file)
      BY <2>2
    <3> HIDE DEF Types
    <3>3. \/ inflight' = inflight
          \/ inflight' = inflight \cup {p \in payloads(file) : p[1] = placements[index].tensor}
          \/ /\ ~(index > Len(placements))
             /\ inflight' = inflight \cup {<<placements[index].tensor, "data">>}
      BY <1>11, UploadCases, Zenon
    <3> QED BY <3>1, <3>2, <3>3, Zenon
  <2> QED BY <2>3, <2>4, <2>5
<1>12. CASE Copy
  BY <1>12 DEF Copy
<1>13. CASE Destroy \/ DestroyStream \/ FreeArena \/ Unmap
  BY <1>13 DEF Destroy, DestroyStream, FreeArena, Unmap
<1>14. CASE Gone \/ UNCHANGED vars
  BY <1>14 DEF Gone, vars
<1> QED
  BY <1>5, <1>6, <1>7, <1>8, <1>9, <1>10, <1>11, <1>12, <1>13, <1>14 DEF Next

------------------------------------------------------------------------------
(* Opening *)

LEMMA ChecksKept ==
  ASSUME UNCHANGED <<file, tensors>>
  PROVE  /\ \A n : EntryAt(n)' <=> EntryAt(n)
         /\ Orders' = Orders
<1>1. \A n : NamesBefore(n)' = NamesBefore(n)
  BY DEF NamesBefore
<1>2. \A p, q : Precedes(p, q)' <=> Precedes(p, q)
  BY DEF Precedes
<1>3. \A order : Sorted(order)' <=> Sorted(order)
  BY <1>2 DEF Sorted
<1> QED
  BY <1>1, <1>3 DEF EntryAt, Orders

LEMMA OpeningStep == Types /\ Opening /\ [Next]_vars => Opening'
<1> SUFFICES ASSUME Types, Opening, [Next]_vars PROVE Opening'
  OBVIOUS
<1>1. UNCHANGED <<file, tensors>>
  BY FileKept
<1>2. /\ \A n : EntryAt(n)' <=> EntryAt(n)
      /\ Orders' = Orders
  BY <1>1, ChecksKept
<1>3. /\ Len(tensors) \in Nat /\ DOMAIN tensors = 1..Len(tensors) /\ DOMAIN tensors' = DOMAIN tensors
      /\ index \in Nat /\ Len(ranges) \in Nat
  BY <1>1, TensorFields, LenProperties DEF Types
<1>4. CASE /\ pc' \in Checked => pc \in Checked /\ ranges' = ranges
           /\ pc' \in {"entries", "neighbours"} => pc' = pc /\ index' = index
           /\ pc' \in Opened => pc \in Opened
  <2>1. ranges' = ranges => \A i : Follows(i)' <=> Follows(i)
    BY <1>1 DEF Follows
  <2>2. pc' \in {"entries"} \cup Checked => header_valid(file)'
    BY <1>1, <1>4 DEF Opening
  <2>3. pc' = "entries" => \A n \in DOMAIN tensors : n < index' => EntryAt(n)'
    BY <1>2, <1>4 DEF Opening
  <2>4. pc' \in Checked => (\A n \in DOMAIN tensors : EntryAt(n)') /\ ranges' \in Orders'
    BY <1>2, <1>4 DEF Opening
  <2>5. pc' = "neighbours" => \A i \in 2..Len(ranges') : i < index' => Follows(i)'
    BY <1>4, <2>1 DEF Opening, Checked
  <2>6. pc' \in Opened => \A i \in 2..Len(ranges') : Follows(i)'
    BY <1>4, <2>1 DEF Opening, Checked
  <2> QED BY <1>3, <2>2, <2>3, <2>4, <2>5, <2>6 DEF Opening
<1>5. CASE CheckHeader
  <2>1. pc' \in {"entries", "destroy_stream"} /\ index' = 1
        /\ (pc' = "entries" => header_valid(file))
    BY <1>5 DEF CheckHeader, Fail, Goto, Types
  <2> QED BY <1>1, <1>3, <2>1 DEF Opening, Checked, Opened
<1>6. CASE CheckEntry
  <2>1. CASE index > Len(tensors)
    <3>1. pc = "entries" /\ pc' = "neighbours" /\ index' = 2 /\ ranges' \in Orders
      BY <1>6, <2>1 DEF CheckEntry, Goto
    <3>2. \A n \in DOMAIN tensors : n < index
      BY <1>3, <2>1
    <3>3. header_valid(file) /\ \A n \in DOMAIN tensors : EntryAt(n)
      BY <3>1, <3>2 DEF Opening
    <3>4. header_valid(file)' /\ (\A n \in DOMAIN tensors' : EntryAt(n)') /\ ranges' \in Orders'
      BY <1>1, <1>2, <3>1, <3>3
    <3>5. \A i \in 2..Len(ranges') : ~(i < index')
      BY <3>1
    <3> QED BY <3>1, <3>4, <3>5 DEF Opening, Opened
  <2>2. CASE ~(index > Len(tensors))
    <3>1. pc' \in {"entries", "destroy_stream"} /\ pc = "entries"
          /\ (pc' = "entries" => EntryAt(index) /\ index' = index + 1)
      BY <1>6, <2>2 DEF CheckEntry, Fail, Goto, EntryAt
    <3>2. \A n \in DOMAIN tensors : n < index + 1 => n < index \/ n = index
      BY <1>3
    <3>3. pc' = "entries" => \A n \in DOMAIN tensors : n < index' => EntryAt(n)
      BY <3>1, <3>2 DEF Opening
    <3> QED BY <1>1, <1>2, <3>1, <3>3 DEF Opening, Checked, Opened
  <2> QED BY <2>1, <2>2
<1>7. CASE CheckNeighbours
  <2>1. \A i : Follows(i)' <=> Follows(i)
    BY <1>1, <1>7 DEF Follows, CheckNeighbours
  <2>2. /\ pc = "neighbours" /\ ranges' = ranges
        /\ pc' \in {"identity", "neighbours", "destroy_stream"}
        /\ pc' = "identity" => index > Len(ranges)
        /\ pc' = "neighbours" =>
             /\ index' = index + 1
             /\ ~(Begin(file, ranges[index]) < End(file, ranges[index - 1]))
    BY <1>7 DEF CheckNeighbours, Fail, Goto
  <2>3. ASSUME NEW i \in 2..Len(ranges), pc' = "neighbours", i < index' PROVE Follows(i)'
    <3>1. CASE i < index
      BY <2>1, <2>2, <3>1 DEF Opening
    <3>2. CASE i = index
      <4>1. ranges[i] \in payloads(file) /\ ranges[i - 1] \in payloads(file)
        BY <1>3 DEF Types
      <4>2. Begin(file, ranges[i]) \in 0..Word - 1
        BY <4>1, PayloadFields DEF Types
      <4>3. End(file, ranges[i - 1]) \in Int
        <5>1. Word \in Nat \ {0}
          BY LayoutAssumption
        <5>2. file \in Files \cup WrittenFiles
          BY DEF Types
        <5>3. /\ Begin(file, ranges[i - 1]) \in 0..Word - 1
              /\ Bytes(file, ranges[i - 1]) \in 0..Word - 1
          BY <4>1, <5>2, PayloadFields, Zenon
        <5> QED BY <5>1, <5>3 DEF End
      <4> QED BY <2>1, <2>2, <2>3, <3>2, <4>2, <4>3, LayoutAssumption DEF Follows
    <3> QED BY <1>3, <2>2, <2>3, <3>1, <3>2
  <2>4. ASSUME NEW i \in 2..Len(ranges), pc' = "identity" PROVE Follows(i)'
    <3>1. i < index
      BY <1>3, <2>2, <2>4
    <3> QED BY <2>1, <2>2, <3>1 DEF Opening
  <2> QED BY <1>1, <1>2, <2>2, <2>3, <2>4 DEF Opening, Checked, Opened
<1>8. CASE Open \/ CheckIdentity
  BY <1>4, <1>8 DEF Open, CheckIdentity, Fail, Goto, Checked, Opened
<1>9. CASE PlaceTensors
  BY <1>4, <1>9 DEF PlaceTensors, PlaceTensor, Fail, Goto, Checked, Opened
<1>10. CASE Allocate \/ CreateStream \/ Synchronize \/ Copy
  BY <1>4, <1>10 DEF Allocate, CreateStream, Synchronize, Copy, Fail, Goto, Checked, Opened
<1>11. CASE Upload
  BY <1>4, <1>11, UploadCases DEF Checked, Opened
<1>12. CASE Destroy \/ DestroyStream \/ FreeArena \/ Unmap
  BY <1>4, <1>12 DEF Destroy, DestroyStream, FreeArena, Unmap, Goto, Checked, Opened
<1>13. CASE Gone \/ UNCHANGED vars
  BY <1>4, <1>13 DEF Gone, vars
<1> QED
  BY <1>5, <1>6, <1>7, <1>8, <1>9, <1>10, <1>11, <1>12, <1>13 DEF Next

(* The checks of open are enough to keep the payloads apart.               *)
LEMMA CheckedApart ==
  ASSUME Types, Opening, pc \in Opened
  PROVE  PayloadsSeparate
<1> USE LayoutAssumption
<1>1. /\ file \in Files \cup WrittenFiles /\ header_valid(file) /\ ranges \in Orders
      /\ \A n \in DOMAIN tensors : EntryAt(n)
      /\ \A i \in 2..Len(ranges) : Follows(i)
  BY DEF Types, Opening, Checked
<1>2. FileFields(file)
  BY <1>1, Fields
<1>3. /\ file.mapped_bytes \in 0..Word - 1 /\ file.file_bytes = file.mapped_bytes
      /\ file.data_offset \in 0..Word - 1
      /\ file.strings_offset \in 0..Word - 1 /\ file.strings_bytes \in 0..Word - 1
      /\ file.strings_offset <= file.file_bytes
      /\ file.strings_bytes <= file.file_bytes - file.strings_offset
      /\ file.data_offset >= (file.strings_offset + file.strings_bytes) % Word
  BY <1>1, <1>2 DEF FileFields, header_valid, range_valid
<1>4. file.strings_offset + file.strings_bytes <= file.data_offset
  <2>1. file.strings_offset + file.strings_bytes \in 0..Word - 1
    BY <1>3
  <2>2. (file.strings_offset + file.strings_bytes) % Word = file.strings_offset + file.strings_bytes
    BY <2>1, SmallRemainder
  <2> QED BY <1>3, <2>1, <2>2
<1>5. ASSUME NEW p \in payloads(file)
      PROVE  /\ Begin(file, p) \in Nat /\ Bytes(file, p) \in Nat
             /\ Begin(file, p) + Bytes(file, p) <= file.mapped_bytes
             /\ End(file, p) = Begin(file, p) + Bytes(file, p)
             /\ Begin(file, p) >= FileAlignment
             /\ Begin(file, p) >= file.strings_offset + file.strings_bytes
  <2>1. /\ p[1] \in DOMAIN tensors /\ p[2] \in {"data", "aux"}
        /\ p[2] = "aux" => tensors[p[1]].aux_bytes # 0
        /\ Begin(file, p) \in 0..Word - 1 /\ Bytes(file, p) \in 0..Word - 1
    BY <1>1, PayloadFields
  <2>2. PICK entry : entry = tensors[p[1]]
    OBVIOUS
  <2>3. entry_valid(file, entry, NamesBefore(p[1]))
    BY <1>1, <2>1, <2>2 DEF EntryAt
  <2>4. plane_valid(file, entry.alignment, Begin(file, p), Bytes(file, p))
    <3>1. p[2] = "data" => Begin(file, p) = entry.data_offset /\ Bytes(file, p) = entry.data_bytes
      BY <2>2 DEF Begin, Bytes, tensors
    <3>2. p[2] = "aux" => Begin(file, p) = entry.aux_offset /\ Bytes(file, p) = entry.aux_bytes
      BY <2>2 DEF Begin, Bytes, tensors
    <3> QED BY <2>1, <2>2, <2>3, <3>1, <3>2 DEF entry_valid
  <2>5. /\ Begin(file, p) <= file.file_bytes
        /\ Bytes(file, p) <= file.file_bytes - Begin(file, p)
        /\ Begin(file, p) >= file.data_offset
    BY <2>4 DEF plane_valid, range_valid
  <2>6. Begin(file, p) + Bytes(file, p) \in 0..Word - 1
        /\ Begin(file, p) + Bytes(file, p) <= file.mapped_bytes
    BY <1>3, <2>1, <2>5
  <2>7. End(file, p) = Begin(file, p) + Bytes(file, p)
    BY <2>6, SmallRemainder DEF End
  <2>8. Begin(file, p) >= FileAlignment
    <3>1. /\ entry.alignment \in Nat \ {0} /\ entry.alignment >= FileAlignment
      <4>1. entry.alignment \in Alignments /\ entry.alignment >= FileAlignment
        BY <2>3, Zenon DEF entry_valid
      <4>2. \A a \in Alignments : a \in Nat \ {0}
        OBVIOUS
      <4> QED BY <4>1, <4>2, Zenon
    <3>2. Begin(file, p) % entry.alignment = 0
      BY <2>4 DEF plane_valid
    <3>3. file.strings_bytes > 0
      <4>1. /\ entry.name_offset \in 0..Word - 1 /\ entry.name_bytes \in 0..Word - 1
        BY <1>1, <2>1, <2>2, TensorFields
      <4>2. /\ entry.name_bytes # 0 /\ entry.name_offset <= file.strings_bytes
            /\ entry.name_bytes <= file.strings_bytes - entry.name_offset
        BY <2>3 DEF entry_valid, range_valid
      <4> QED BY <1>3, <4>1, <4>2
    <3>4. Begin(file, p) > 0 /\ Begin(file, p) \in Nat
      BY <1>3, <1>4, <2>1, <2>5, <3>3
    <3>5. entry.alignment <= Begin(file, p)
      BY <3>1, <3>2, <3>4, Multiple
    <3> QED BY <3>1, <3>4, <3>5
  <2> QED BY <1>3, <1>4, <2>1, <2>5, <2>6, <2>7, <2>8
<1>6. ASSUME NEW i \in 1..Len(ranges), NEW j \in 1..Len(ranges), i < j
      PROVE  End(file, ranges[i]) <= Begin(file, ranges[j])
  <2>1. /\ Len(ranges) \in Nat /\ Sorted(ranges) /\ DOMAIN ranges = 1..Len(ranges)
        /\ \A k \in 1..Len(ranges) : ranges[k] \in payloads(file)
    BY <1>1, OrderedRanges
  <2>2. i + 1 \in 2..Len(ranges) /\ (i + 1) - 1 = i /\ i + 1 <= j /\ i + 1 \in 1..Len(ranges)
    BY <1>6, <2>1
  <2>3. /\ Begin(file, ranges[i + 1]) \in Nat /\ Begin(file, ranges[j]) \in Nat
        /\ End(file, ranges[i]) \in Nat
    <3>1. End(file, ranges[i]) = Begin(file, ranges[i]) + Bytes(file, ranges[i])
          /\ Begin(file, ranges[i]) \in Nat /\ Bytes(file, ranges[i]) \in Nat
      BY <1>5, <2>1
    <3> QED BY <1>5, <2>1, <2>2, <3>1
  <2>4. Begin(file, ranges[i + 1]) >= End(file, ranges[i])
    BY <1>1, <2>2 DEF Follows
  <2>5. Begin(file, ranges[i + 1]) <= Begin(file, ranges[j])
    <3>1. CASE i + 1 = j
      BY <2>3, <3>1
    <3>2. CASE i + 1 < j
      <4>1. Precedes(ranges[i + 1], ranges[j])
        BY <2>1, <2>2, <3>2 DEF Sorted
      <4> QED BY <2>3, <4>1 DEF Precedes
    <3> QED BY <1>6, <2>2, <3>1, <3>2
  <2> QED BY <2>3, <2>4, <2>5
<1>7. ASSUME NEW p \in payloads(file), NEW q \in payloads(file), p # q
      PROVE  Apart(Begin(file, p), Bytes(file, p), Begin(file, q), Bytes(file, q))
  <2>1. PICK i \in 1..Len(ranges), j \in 1..Len(ranges) : ranges[i] = p /\ ranges[j] = q
    BY <1>1, OrderedRanges
  <2>2. i < j \/ j < i
    BY SMTT(30), <1>1, <1>7, <2>1, OrderedRanges
  <2>3. i < j => Begin(file, p) + Bytes(file, p) <= Begin(file, q)
    BY <1>5, <1>6, <2>1
  <2>4. j < i => Begin(file, q) + Bytes(file, q) <= Begin(file, p)
    BY <1>5, <1>6, <2>1
  <2> QED BY <2>2, <2>3, <2>4 DEF Apart
<1> QED
  BY <1>5, <1>7 DEF PayloadsSeparate

------------------------------------------------------------------------------
(* Copies and what they read and write *)

LEMMA HeldStep == Uploaded /\ Held /\ [Next]_vars => Held'
<1> SUFFICES ASSUME Uploaded, Held, [Next]_vars PROVE Held'
  OBVIOUS
<1> USE DEF Held, Reading, Opened, Fitting, Goto, Fail, held, device
<1>1. CASE Open \/ CheckHeader \/ CheckEntry \/ CheckNeighbours
  BY <1>1 DEF Open, CheckHeader, CheckEntry, CheckNeighbours
<1>2. CASE CheckIdentity
  BY <1>2 DEF CheckIdentity
<1>3. CASE PlaceTensors
  BY <1>3 DEF PlaceTensors, PlaceTensor
<1>4. CASE Allocate \/ CreateStream \/ Synchronize
  BY <1>4 DEF Allocate, CreateStream, Synchronize
<1>5. CASE Upload
  BY <1>5, UploadCases
<1>6. CASE Copy
  BY <1>6 DEF Copy
<1>7. CASE Destroy
  BY <1>7 DEF Destroy, Uploaded
<1>8. CASE DestroyStream \/ FreeArena \/ Unmap
  BY <1>8 DEF DestroyStream, FreeArena, Unmap
<1>9. CASE Gone \/ UNCHANGED vars
  BY <1>9 DEF Gone, vars
<1> QED
  BY <1>1, <1>2, <1>3, <1>4, <1>5, <1>6, <1>7, <1>8, <1>9 DEF Next

LEMMA PlanesKept ==
  ASSUME UNCHANGED <<payloads(file), placements>>
  PROVE  \A i : PlanesBefore(i)' = PlanesBefore(i)
BY DEF PlanesBefore

LEMMA UploadedStep == Types /\ Uploaded /\ [Next]_vars => Uploaded'
<1> SUFFICES ASSUME Types, Uploaded, [Next]_vars PROVE Uploaded'
  OBVIOUS
<1>1. UNCHANGED <<config, payloads(file)>>
  BY FileKept
<1>2. /\ Len(placements) \in Nat /\ index \in Nat /\ Len(device_tensors) \in Nat
      /\ placements \in Seq(Placements) /\ device_tensors \in Seq(Placements)
  BY LenProperties, TensorFields DEF Types
<1> USE <1>1 DEF Closing, Goto, Fail, held, device
<1>3. CASE Open \/ CheckHeader \/ CheckEntry \/ CheckNeighbours \/ CheckIdentity
  BY <1>3 DEF Open, CheckHeader, CheckEntry, CheckNeighbours, CheckIdentity, Uploaded
<1>4. CASE PlaceTensors
  BY <1>4 DEF PlaceTensors, PlaceTensor, Uploaded
<1>5. CASE Allocate
  BY <1>5 DEF Allocate, Uploaded
<1>6. CASE CreateStream
  <2>1. /\ index' = 1 /\ device_tensors' = <<>> /\ inflight' = {} /\ loaded' = {}
        /\ pc' \in {"upload", "destroy_stream"} /\ UNCHANGED placements
    BY <1>6 DEF CreateStream, Uploaded, Types
  <2>2. PlanesBefore(1) = {}
    BY <1>2 DEF PlanesBefore
  <2>3. PlanesBefore(1)' = {}
    BY <2>1, <2>2, PlanesKept
  <2>4. index' <= Len(placements') + 1 /\ Len(device_tensors') = index' - 1
    BY <1>2, <2>1
  <2>5. \A k \in 1..index' - 1 : device_tensors'[k] = placements'[k]
    BY <2>1
  <2>6. inflight' \cup loaded' = PlanesBefore(index)'
    <3>1. PlanesBefore(index)' = PlanesBefore(1)'
      BY <2>1 DEF PlanesBefore
    <3> QED BY <2>1, <2>3, <3>1
  <2> QED BY <2>1, <2>4, <2>5, <2>6 DEF Uploaded
<1>7. CASE Upload
  <2>1. /\ pc = "upload" /\ UNCHANGED <<placements, loaded>>
        /\ index <= Len(placements) + 1 /\ Len(device_tensors) = index - 1
        /\ \A k \in 1..index - 1 : device_tensors[k] = placements[k]
        /\ inflight \cup loaded = PlanesBefore(index)
    BY <1>7, UploadCases DEF Uploaded
  <2>2. CASE index > Len(placements)
    <3>1. /\ pc' = "synchronize" /\ UNCHANGED <<index, device_tensors, inflight>>
      BY <1>7, <2>2, UploadCases
    <3>2. index = Len(placements) + 1
      BY <1>2, <2>1, <2>2
    <3>3. device_tensors = placements
      <4>1. Len(device_tensors) = Len(placements)
        BY <1>2, <2>1, <3>2
      <4>2. \A k \in 1..Len(placements) : device_tensors[k] = placements[k]
        BY <1>2, <2>1, <3>2
      <4> QED BY <1>2, <4>1, <4>2, SeqEqual
    <3>4. (inflight \cup loaded)' = PlanesBefore(Len(placements) + 1)'
      BY <2>1, <3>1, <3>2, PlanesKept
    <3> QED BY <2>1, <3>1, <3>3, <3>4 DEF Uploaded
  <2>3. CASE pc' = "destroy_stream"
    BY <2>3 DEF Uploaded
  <2>4. CASE ~(index > Len(placements)) /\ pc' # "destroy_stream"
    <3>1. /\ pc' = "upload" /\ index' = index + 1
          /\ device_tensors' = Append(device_tensors, placements[index])
          /\ inflight' = inflight \cup {p \in payloads(file) : p[1] = placements[index].tensor}
      BY <1>7, <2>4, UploadCases
    <3>2. index \in 1..Len(placements) /\ placements[index] \in Placements
      <4>1. index >= 1 /\ index <= Len(placements)
        BY <1>2, <2>4 DEF Types
      <4> QED BY <1>2, <4>1
    <3>3. /\ Len(device_tensors') = index /\ device_tensors'[index] = placements[index]
          /\ \A k \in 1..index - 1 : device_tensors'[k] = device_tensors[k]
      <4>1. Len(device_tensors) + 1 = index /\ 1..Len(device_tensors) = 1..index - 1
        BY <1>2, <2>1
      <4> QED BY <1>2, <3>1, <3>2, <4>1, Appended
    <3>4. \A k \in 1..index : device_tensors'[k] = placements[k]
      <4>1. \A k \in 1..index : k \in 1..index - 1 \/ k = index
        BY <1>2
      <4> QED BY <2>1, <3>3, <4>1
    <3>5. PlanesBefore(index + 1) =
            PlanesBefore(index) \cup {p \in payloads(file) : p[1] = placements[index].tensor}
      <4>1. \A k \in 1..Len(placements) : k < index + 1 <=> k < index \/ k = index
        BY <1>2
      <4> QED BY <3>2, <4>1 DEF PlanesBefore
    <3>6. (inflight \cup loaded)' = PlanesBefore(index + 1)
      BY <2>1, <3>1, <3>5
    <3>7. PlanesBefore(index)' = PlanesBefore(index + 1)
      BY <2>1, <3>1 DEF PlanesBefore
    <3>8. index' <= Len(placements') + 1 /\ Len(device_tensors') = index' - 1
          /\ index' - 1 = index
      BY <1>2, <2>1, <3>1, <3>2, <3>3
    <3> QED BY <2>1, <3>1, <3>4, <3>6, <3>7, <3>8 DEF Uploaded
  <2> QED BY <2>2, <2>3, <2>4
<1>8. CASE Synchronize
  <2>1. /\ pc = "synchronize" /\ pc' \in {"ready", "destroy_stream"}
        /\ UNCHANGED <<placements, device_tensors, inflight, loaded>>
        /\ pc' = "ready" => inflight = {}
    BY <1>8 DEF Synchronize
  <2>2. PlanesBefore(Len(placements) + 1)' = PlanesBefore(Len(placements) + 1)
    BY <2>1 DEF PlanesBefore
  <2> QED BY <2>1, <2>2 DEF Uploaded
<1>9. CASE Copy
  <2>1. /\ UNCHANGED <<pc, index, placements, device_tensors>>
        /\ inflight # {} /\ (inflight \cup loaded)' = inflight \cup loaded
    BY <1>9 DEF Copy
  <2>2. \A i : PlanesBefore(i)' = PlanesBefore(i)
    BY <2>1, PlanesKept
  <2>3. PlanesBefore(Len(placements) + 1)' = PlanesBefore(Len(placements) + 1)
        /\ PlanesBefore(index)' = PlanesBefore(index)
    BY <2>1 DEF PlanesBefore
  <2>4. pc \in {"upload", "synchronize"} \cup Closing
    BY <2>1 DEF Uploaded
  <2> QED BY <2>1, <2>3, <2>4 DEF Uploaded
<1>10. CASE Destroy \/ DestroyStream \/ FreeArena \/ Unmap
  BY <1>10 DEF Destroy, DestroyStream, FreeArena, Unmap, Uploaded
<1>11. CASE Gone \/ UNCHANGED vars
  <2>1. UNCHANGED <<pc, index, placements, device_tensors, inflight, loaded>>
    BY <1>11 DEF Gone, vars
  <2>2. PlanesBefore(Len(placements) + 1)' = PlanesBefore(Len(placements) + 1)
        /\ PlanesBefore(index)' = PlanesBefore(index)
    BY <2>1 DEF PlanesBefore
  <2> QED BY <2>1, <2>2 DEF Uploaded
<1> QED
  BY <1>3, <1>4, <1>5, <1>6, <1>7, <1>8, <1>9, <1>10, <1>11 DEF Next

------------------------------------------------------------------------------
(* The arena *)

LEMMA LaidKept ==
  ASSUME Laid, [Next]_vars, UNCHANGED <<placements, arena_bytes>>,
         pc' \in {"place"} \cup Sized => budget <= maximum_budget,
         pc' = "place" =>
           {placements[k].tensor : k \in 1..Len(placements)} = {n \in Resident : n < index'},
         pc' \in Sized => {placements[k].tensor : k \in 1..Len(placements)} = Resident,
         pc' \in Fitting \cup {"ready"} => arena_bytes <= budget
  PROVE  Laid'
<1>1. UNCHANGED <<config, total, tensors, Resident>>
  BY FileKept
<1>2. budget' = budget /\ maximum_budget' = maximum_budget
  BY <1>1 DEF budget, maximum_budget
<1>4. /\ Len(placements)' = Len(placements)
      /\ \A k : placements'[k] = placements[k] /\ EndOf(placements[k])' = EndOf(placements[k])
                /\ (PlanesApart(placements[k])' <=> PlanesApart(placements[k]))
  <2>1. Len(placements)' = Len(placements) /\ \A k : placements'[k] = placements[k]
    OBVIOUS
  <2>2. \A k : EndOf(placements[k])' = EndOf(placements[k])
    BY <1>1 DEF EndOf
  <2>3. \A k : PlanesApart(placements[k])' <=> PlanesApart(placements[k])
    BY <1>1 DEF PlanesApart
  <2> QED BY <2>1, <2>2, <2>3
<1>5. \A k \in 1..Len(placements') :
        /\ placements'[k].tensor \in Resident'
        /\ PlanesApart(placements[k])' /\ EndOf(placements[k])' <= arena_bytes'
        /\ \A j \in 1..k - 1 : /\ EndOf(placements[j])' <= placements'[k].data
                               /\ placements'[j].tensor # placements'[k].tensor
  BY <1>1, <1>4 DEF Laid
<1>6. {placements'[k].tensor : k \in 1..Len(placements')} =
        {placements[k].tensor : k \in 1..Len(placements)}
  BY <1>4
<1> QED
  BY <1>1, <1>2, <1>5, <1>6 DEF Laid

(* One more tensor behind those that are placed.                           *)
LEMMA LaidPlaced ==
  ASSUME Types, Laid, [Next]_vars, pc = "place", index \in DOMAIN tensors,
         tensors[index].name \notin Resources,
         PlaceTensor(tensors[index]), pc' # "destroy_stream"
  PROVE  Laid'
<1> USE LayoutAssumption
<1>1. UNCHANGED <<config, total, tensors, Resident>>
  BY FileKept
<1>2. PICK q \in Placements :
        /\ placements' = Append(placements, q) /\ q.tensor = index
        /\ arena_bytes <= q.data /\ PlanesApart(q) /\ EndOf(q) <= arena_bytes'
        /\ arena_bytes' \in 0..Word - 1 /\ arena_bytes <= arena_bytes'
        /\ index' = index + 1 /\ pc' = "place"
  BY PlacedNext
<1>3. PICK m \in Nat : m = Len(placements)
  BY LenProperties DEF Types
<1>4. /\ Len(placements') = m + 1 /\ placements'[m + 1] = q
      /\ \A k \in 1..m : placements'[k] = placements[k] /\ placements[k] \in Placements
  BY SMTT(30), <1>2, <1>3, Appended DEF Types
<1>5. /\ index \in Nat /\ arena_bytes \in Nat
      /\ Len(tensors) \in Nat /\ DOMAIN tensors = 1..Len(tensors)
  BY TensorFields DEF Types
<1>6. \A r \in Placements : r.data \in Nat /\ EndOf(r) \in Nat
  <2> SUFFICES ASSUME NEW r \in Placements PROVE r.data \in Nat /\ EndOf(r) \in Nat
    OBVIOUS
  <2>1. r.data \in Nat /\ r.aux \in Nat /\ r.tensor \in DOMAIN tensors
    BY DEF Placements
  <2>2. tensors[r.tensor].data_bytes \in Nat /\ tensors[r.tensor].aux_bytes \in Nat
    BY <2>1, TensorFields DEF Types
  <2> QED BY <2>1, <2>2 DEF EndOf
<1>7. /\ \A k \in 1..m :
           /\ placements[k].tensor \in Resident
           /\ PlanesApart(placements[k]) /\ EndOf(placements[k]) <= arena_bytes
           /\ \A j \in 1..k - 1 : /\ EndOf(placements[j]) <= placements[k].data
                                  /\ placements[j].tensor # placements[k].tensor
      /\ {placements[k].tensor : k \in 1..m} = {n \in Resident : n < index}
      /\ budget <= maximum_budget
  BY <1>3 DEF Laid
<1>8. index \in Resident
  BY DEF Resident
<1>9. ASSUME NEW k \in 1..m + 1
      PROVE  /\ placements'[k].tensor \in Resident
             /\ PlanesApart(placements'[k]) /\ EndOf(placements'[k]) <= arena_bytes'
             /\ \A j \in 1..k - 1 : /\ EndOf(placements'[j]) <= placements'[k].data
                                    /\ placements'[j].tensor # placements'[k].tensor
  <2>1. CASE k \in 1..m
    <3>1. EndOf(placements[k]) <= arena_bytes'
      BY <1>2, <1>4, <1>5, <1>6, <1>7, <2>1
    <3>2. \A j \in 1..k - 1 : j \in 1..m
      BY <1>3, <2>1
    <3> QED BY <1>4, <1>7, <2>1, <3>1, <3>2
  <2>2. CASE k = m + 1
    <3>1. ASSUME NEW j \in 1..k - 1
          PROVE  EndOf(placements'[j]) <= q.data /\ placements'[j].tensor # index
      <4>1. j \in 1..m
        BY <2>2
      <4>2. EndOf(placements[j]) <= q.data
        BY <1>2, <1>4, <1>5, <1>6, <1>7, <4>1
      <4>3. placements[j].tensor \in {n \in Resident : n < index}
        BY <1>7, <4>1
      <4>4. placements[j].tensor # index
        BY <1>5, <4>3
      <4> QED BY <1>4, <4>1, <4>2, <4>4
    <3> QED BY <1>2, <1>4, <1>8, <2>2, <3>1
  <2> QED BY <1>3, <2>1, <2>2
<1>10. {placements'[k].tensor : k \in 1..m + 1} = {n \in Resident : n < index + 1}
  <2>1. {placements'[k].tensor : k \in 1..m + 1} =
          {placements[k].tensor : k \in 1..m} \cup {index}
    <3>1. \A k : k \in 1..m + 1 <=> k \in 1..m \/ k = m + 1
      OBVIOUS
    <3> QED BY <1>2, <1>4, <3>1
  <2>2. \A n \in Resident : n < index + 1 <=> n < index \/ n = index
    BY <1>5 DEF Resident
  <2> QED BY <1>7, <1>8, <2>1, <2>2
<1>11. budget' = budget /\ maximum_budget' = maximum_budget
  BY <1>1 DEF budget, maximum_budget
<1>12. \A k : /\ EndOf(placements[k])' = EndOf(placements'[k])
              /\ PlanesApart(placements[k])' <=> PlanesApart(placements'[k])
  BY <1>1 DEF EndOf, PlanesApart
<1>13. pc' \notin Sized /\ pc' \notin Fitting \cup {"ready"}
  BY <1>2 DEF Sized, Fitting
<1>14. \A k \in 1..Len(placements') :
         /\ placements'[k].tensor \in Resident'
         /\ PlanesApart(placements[k])' /\ EndOf(placements[k])' <= arena_bytes'
         /\ \A j \in 1..k - 1 : /\ EndOf(placements[j])' <= placements'[k].data
                                /\ placements'[j].tensor # placements'[k].tensor
  BY <1>1, <1>4, <1>9, <1>12
<1> QED
  BY <1>1, <1>2, <1>4, <1>7, <1>10, <1>11, <1>13, <1>14 DEF Laid

LEMMA LaidStep == Types /\ Laid /\ [Next]_vars => Laid'
<1> SUFFICES ASSUME Types, Laid, [Next]_vars PROVE Laid'
  OBVIOUS
<1>1. /\ Len(tensors) \in Nat /\ DOMAIN tensors = 1..Len(tensors)
      /\ index \in Nat /\ arena_bytes \in Int
  BY TensorFields, LayoutAssumption DEF Types
<1> USE DEF Sized, Fitting, Goto, Fail, held, device
<1>2. budget \in Int /\ maximum_budget \in Int
  BY LoadAssumption DEF Types, budget, maximum_budget
<1>3. /\ pc \in {"place"} \cup Sized => budget <= maximum_budget
      /\ pc = "place" =>
           {placements[k].tensor : k \in 1..Len(placements)} = {n \in Resident : n < index}
      /\ pc \in Sized => {placements[k].tensor : k \in 1..Len(placements)} = Resident
      /\ pc \in Fitting \cup {"ready"} => arena_bytes <= budget
  BY DEF Laid
<1>4. CASE /\ UNCHANGED <<placements, arena_bytes>>
           /\ pc' \in Sized => pc \in Sized
           /\ pc' \in Fitting \cup {"ready"} => pc \in Fitting \cup {"ready"}
           /\ pc' # "place"
  BY <1>3, <1>4, LaidKept
<1>5. CASE Open \/ CheckHeader \/ CheckEntry \/ CheckNeighbours
  BY <1>4, <1>5 DEF Open, CheckHeader, CheckEntry, CheckNeighbours
<1>6. CASE CheckIdentity
  <2>1. /\ pc = "identity" /\ pc' \in {"place", "destroy_stream"}
        /\ UNCHANGED <<placements, arena_bytes, index>>
        /\ pc' = "place" => budget <= maximum_budget
    BY <1>6 DEF CheckIdentity
  <2>2. placements = <<>> /\ index = 1
    BY <2>1 DEF Types, Parsing
  <2>3. {placements[k].tensor : k \in 1..Len(placements)} = {}
    BY <2>2
  <2>4. {n \in Resident : n < index'} = {}
    BY <1>1, <2>1, <2>2 DEF Resident
  <2> QED BY <2>1, <2>3, <2>4, LaidKept
<1>7. CASE PlaceTensors
  <2>1. pc = "place"
    BY <1>7 DEF PlaceTensors
  <2>2. CASE index > Len(tensors)
    <3>1. /\ pc' = "fits" /\ UNCHANGED <<placements, arena_bytes>>
      BY <1>7, <2>2 DEF PlaceTensors
    <3>2. {n \in Resident : n < index} = Resident
      BY <1>1, <2>2 DEF Resident
    <3> QED BY <1>3, <2>1, <3>1, <3>2, LaidKept
  <2>3. CASE index \in DOMAIN tensors /\ tensors[index].name \in Resources
    <3>1. /\ pc' = "place" /\ index' = index + 1 /\ UNCHANGED <<placements, arena_bytes>>
      BY <1>1, <1>7, <2>3 DEF PlaceTensors
    <3>2. {n \in Resident : n < index + 1} = {n \in Resident : n < index}
      <4>1. index \notin Resident
        BY <2>3 DEF Resident
      <4>2. \A n \in Resident : n < index + 1 <=> n < index
        BY <1>1, <4>1 DEF Resident
      <4> QED BY <4>2
    <3> QED BY <1>3, <2>1, <3>1, <3>2, LaidKept
  <2>4. CASE index \in DOMAIN tensors /\ tensors[index].name \notin Resources
    <3>1. PlaceTensor(tensors[index])
      BY <1>1, <1>7, <2>4 DEF PlaceTensors
    <3>2. CASE pc' = "destroy_stream"
      <4>1. UNCHANGED <<placements, arena_bytes>>
        BY <3>1, <3>2 DEF PlaceTensor
      <4> QED BY <1>4, <3>2, <4>1
    <3> QED BY <2>1, <2>4, <3>1, <3>2, LaidPlaced
  <2> QED BY <1>1, <2>2, <2>3, <2>4 DEF Types
<1>8. CASE Allocate
  <2>1. /\ pc = "fits" /\ pc' \in {"stream", "ready", "destroy_stream"}
        /\ UNCHANGED <<placements, arena_bytes>>
        /\ pc' # "destroy_stream" => ~(arena_bytes > budget)
    BY <1>8 DEF Allocate
  <2> QED BY <1>1, <1>2, <1>3, <2>1, LaidKept
<1>9. CASE CreateStream \/ Synchronize
  BY <1>4, <1>9 DEF CreateStream, Synchronize
<1>10. CASE Upload
  BY <1>4, <1>10, UploadCases
<1>11. CASE Copy
  <2>1. UNCHANGED <<pc, index, placements, arena_bytes>>
    BY <1>11 DEF Copy
  <2> QED BY <1>3, <2>1, LaidKept
<1>12. CASE Destroy \/ DestroyStream \/ FreeArena \/ Unmap
  BY <1>4, <1>12 DEF Destroy, DestroyStream, FreeArena, Unmap
<1>13. CASE Gone \/ UNCHANGED vars
  <2>1. UNCHANGED <<pc, index, placements, arena_bytes>>
    BY <1>13 DEF Gone, vars
  <2> QED BY <1>3, <2>1, LaidKept
<1> QED
  BY <1>5, <1>6, <1>7, <1>8, <1>9, <1>10, <1>11, <1>12, <1>13 DEF Next

------------------------------------------------------------------------------
(* The engine that is handed out *)

(* A plane of a placement lies between where it begins and where it ends.  *)
LEMMA PlanesWithin ==
  ASSUME Types, Laid, NEW k \in 1..Len(placements), NEW x \in PlanesOf(k)
  PROVE  /\ x.begin \in Nat /\ x.bytes \in Nat /\ placements[k].data \in Nat
         /\ placements[k].data <= x.begin
         /\ EndOf(placements[k]) \in Nat /\ x.begin + x.bytes <= EndOf(placements[k])
         /\ x.begin % tensors[x.key[1]].alignment = 0
         /\ \A y \in PlanesOf(k) : x # y => Apart(x.begin, x.bytes, y.begin, y.bytes)
<1> USE LayoutAssumption
<1>1. PICK q \in Placements : q = placements[k]
  BY DEF Types
<1>2. PICK n \in DOMAIN tensors : n = q.tensor
  BY <1>1 DEF Placements
<1>3. PICK d \in Nat, a \in Nat : d = tensors[n].data_bytes /\ a = tensors[n].aux_bytes
  <2>1. file \in Files \cup WrittenFiles
    BY DEF Types
  <2>2. tensors[n].data_bytes \in 0..Word - 1 /\ tensors[n].aux_bytes \in 0..Word - 1
    BY <2>1, TensorFields, Zenon
  <2> QED BY <2>2
<1>4. q.data \in Nat /\ q.aux \in Nat
  BY <1>1 DEF Placements
<1>5. PlanesApart(q)
  BY <1>1 DEF Laid
<1>6. /\ q.data % tensors[n].alignment = 0
      /\ a # 0 => q.aux % tensors[n].alignment = 0
  BY <1>2, <1>3, <1>5 DEF PlanesApart
<1>7. a # 0 => q.data + d <= q.aux
  BY <1>2, <1>3, <1>5, Zenon DEF PlanesApart
<1>8. EndOf(q) = IF a = 0 THEN q.data + d ELSE q.aux + a
  BY <1>2, <1>3 DEF EndOf
<1>9. ASSUME NEW y \in PlanesOf(k)
      PROVE  \/ /\ y = [key |-> <<n, "data">>, begin |-> q.data, bytes |-> d]
                /\ y.key[1] = n /\ y.begin = q.data /\ y.bytes = d
             \/ /\ a # 0 /\ y = [key |-> <<n, "aux">>, begin |-> q.aux, bytes |-> a]
                /\ y.key[1] = n /\ y.begin = q.aux /\ y.bytes = a
  BY <1>1, <1>2, <1>3, <1>9 DEF PlanesOf
<1>10. /\ x.begin \in Nat /\ x.bytes \in Nat /\ q.data <= x.begin
       /\ EndOf(q) \in Nat /\ x.begin + x.bytes <= EndOf(q)
  <2>1. \/ x.begin = q.data /\ x.bytes = d
        \/ a # 0 /\ x.begin = q.aux /\ x.bytes = a
    BY <1>9, Zenon
  <2>2. CASE x.begin = q.data /\ x.bytes = d
    BY SMTT(30), <1>3, <1>4, <1>7, <1>8, <2>2
  <2>3. CASE a # 0 /\ x.begin = q.aux /\ x.bytes = a
    BY <1>3, <1>4, <1>7, <1>8, <2>3
  <2> QED BY <2>1, <2>2, <2>3
<1>11. x.begin % tensors[x.key[1]].alignment = 0
  BY <1>6, <1>9, Zenon
<1>12. ASSUME NEW y \in PlanesOf(k), x # y
       PROVE  Apart(x.begin, x.bytes, y.begin, y.bytes)
  <2>1. \/ a # 0 /\ x.begin = q.data /\ x.bytes = d /\ y.begin = q.aux /\ y.bytes = a
        \/ a # 0 /\ y.begin = q.data /\ y.bytes = d /\ x.begin = q.aux /\ x.bytes = a
    BY <1>9, <1>12, Zenon
  <2> QED BY <1>7, <2>1 DEF Apart
<1> QED
  BY <1>1, <1>4, <1>10, <1>11, <1>12

LEMMA PlanesUploaded ==
  ASSUME Types
  PROVE  PlanesBefore(Len(placements) + 1) =
           {x.key : x \in UNION {PlanesOf(k) : k \in 1..Len(placements)}}
<1> DEFINE all == UNION {PlanesOf(k) : k \in 1..Len(placements)}
<1>1. \A k \in 1..Len(placements) :
        k < Len(placements) + 1 /\ placements[k].tensor \in DOMAIN tensors
  <2>1. placements \in Seq(Placements) /\ Len(placements) \in Nat
    BY LenProperties DEF Types
  <2>2. \A k \in 1..Len(placements) : placements[k] \in Placements
    BY <2>1
  <2> QED BY <2>1, <2>2 DEF Placements
<1>2. ASSUME NEW p \in PlanesBefore(Len(placements) + 1) PROVE p \in {x.key : x \in all}
  <2>1. PICK k \in 1..Len(placements) : p \in payloads(file) /\ placements[k].tensor = p[1]
    BY <1>2 DEF PlanesBefore
  <2>2. /\ p = <<p[1], p[2]>> /\ p[2] \in {"data", "aux"}
        /\ p[2] = "aux" => tensors[p[1]].aux_bytes # 0
    BY <2>1, PayloadFields DEF Types
  <2>3. \E x \in PlanesOf(k) : x.key = p
    <3>1. CASE p[2] = "data"
      <4>1. PICK x : x = [key |-> <<p[1], "data">>, begin |-> placements[k].data,
                         bytes |-> tensors[p[1]].data_bytes]
        OBVIOUS
      <4>2. x \in PlanesOf(k) /\ x.key = p
        BY <2>1, <2>2, <3>1, <4>1 DEF PlanesOf
      <4> QED BY <4>2
    <3>2. CASE p[2] = "aux"
      <4>1. PICK x : x = [key |-> <<p[1], "aux">>, begin |-> placements[k].aux,
                         bytes |-> tensors[p[1]].aux_bytes]
        OBVIOUS
      <4>2. x \in PlanesOf(k) /\ x.key = p
        BY <2>1, <2>2, <3>2, <4>1 DEF PlanesOf
      <4> QED BY <4>2
    <3> QED BY <2>2, <3>1, <3>2
  <2> QED BY <2>3
<1>3. ASSUME NEW x \in all PROVE x.key \in PlanesBefore(Len(placements) + 1)
  <2>1. PICK k \in 1..Len(placements) : x \in PlanesOf(k)
    BY <1>3
  <2>2. PICK n \in DOMAIN tensors : n = placements[k].tensor
    BY <1>1
  <2>3. \/ x.key = <<n, "data">>
        \/ x.key = <<n, "aux">> /\ tensors[n].aux_bytes # 0
    BY <2>1, <2>2 DEF PlanesOf
  <2>4. x.key[1] = n
    BY <2>3
  <2>5. x.key \in payloads(file)
    <3>1. x.key = <<n, "data">> => x.key \in payloads(file)
      BY Zenon DEF payloads, tensors
    <3>2. x.key = <<n, "aux">> /\ tensors[n].aux_bytes # 0 => x.key \in payloads(file)
      BY Zenon DEF payloads, tensors
    <3> QED BY <2>3, <3>1, <3>2, Zenon
  <2> QED BY <1>1, <2>2, <2>4, <2>5 DEF PlanesBefore
<1> QED
  BY <1>2, <1>3

LEMMA ReadyIsComplete == Inv => EngineReady
<1> SUFFICES ASSUME Inv, pc = "ready"
             PROVE  LET planes == UNION {PlanesOf(k) : k \in DOMAIN placements} IN
                    /\ {placements[k].tensor : k \in DOMAIN placements} = Resident
                    /\ \A x \in planes :
                         /\ x.begin % tensors[x.key[1]].alignment = 0
                         /\ x.begin + x.bytes <= arena_bytes /\ arena_bytes <= budget
                         /\ budget + Reserve <= total \/ budget = 0
                         /\ \A y \in planes \ {x} : Apart(x.begin, x.bytes, y.begin, y.bytes)
                    /\ config.upload =>
                         /\ loaded = {x.key : x \in planes}
                         /\ device_tensors = placements
  BY DEF EngineReady
<1> DEFINE planes == UNION {PlanesOf(k) : k \in DOMAIN placements}
<1>1. Types /\ Laid /\ Uploaded
  BY DEF Inv
<1>2. DOMAIN placements = 1..Len(placements) /\ Len(placements) \in Nat
  BY <1>1, LenProperties DEF Types
<1>3. /\ budget <= maximum_budget /\ arena_bytes <= budget
      /\ {placements[k].tensor : k \in 1..Len(placements)} = Resident
  BY <1>1 DEF Laid, Sized
<1>4. budget \in Nat /\ total \in Nat /\ Reserve \in Nat /\ arena_bytes \in Nat
  BY <1>1, LoadAssumption, LayoutAssumption DEF Types, budget, maximum_budget
<1>5. budget + Reserve <= total \/ budget = 0
  BY <1>3, <1>4 DEF maximum_budget
<1>6. ASSUME NEW x \in planes
      PROVE  /\ x.begin % tensors[x.key[1]].alignment = 0
             /\ x.begin + x.bytes <= arena_bytes
             /\ \A y \in planes \ {x} : Apart(x.begin, x.bytes, y.begin, y.bytes)
  <2>1. PICK k \in 1..Len(placements) : x \in PlanesOf(k)
    BY <1>2, <1>6
  <2>2. /\ x.begin \in Nat /\ x.bytes \in Nat /\ placements[k].data \in Nat
        /\ placements[k].data <= x.begin
        /\ EndOf(placements[k]) \in Nat /\ x.begin + x.bytes <= EndOf(placements[k])
    BY <1>1, <2>1, PlanesWithin
  <2>3. x.begin + x.bytes <= arena_bytes
    <3>1. EndOf(placements[k]) <= arena_bytes
      BY <1>1 DEF Laid
    <3> QED BY <1>4, <2>2, <3>1
  <2>4. ASSUME NEW y \in planes \ {x} PROVE Apart(x.begin, x.bytes, y.begin, y.bytes)
    <3>1. PICK j \in 1..Len(placements) : y \in PlanesOf(j)
      BY <1>2, <2>4
    <3>2. /\ y.begin \in Nat /\ y.bytes \in Nat /\ placements[j].data \in Nat
          /\ placements[j].data <= y.begin
          /\ EndOf(placements[j]) \in Nat /\ y.begin + y.bytes <= EndOf(placements[j])
      BY <1>1, <3>1, PlanesWithin
    <3>3. CASE j = k
      BY <1>1, <2>1, <2>4, <3>1, <3>3, PlanesWithin
    <3>4. CASE j < k
      <4>1. EndOf(placements[j]) <= placements[k].data
        BY <1>1, <3>4 DEF Laid
      <4>2. y.begin + y.bytes <= x.begin
        BY SMTT(30), <2>2, <3>2, <4>1
      <4> QED BY <4>2 DEF Apart
    <3>5. CASE k < j
      <4>1. EndOf(placements[k]) <= placements[j].data
        BY <1>1, <3>5 DEF Laid
      <4>2. x.begin + x.bytes <= y.begin
        BY SMTT(30), <2>2, <3>2, <4>1
      <4> QED BY <4>2 DEF Apart
    <3> QED BY <3>3, <3>4, <3>5
  <2>5. x.begin % tensors[x.key[1]].alignment = 0
    BY <1>1, <2>1, PlanesWithin, Zenon
  <2> QED BY <2>3, <2>4, <2>5
<1>7. config.upload => loaded = {x.key : x \in planes} /\ device_tensors = placements
  <2>1. inflight = {}
    BY <1>1 DEF Uploaded
  <2>2. config.upload => device_tensors = placements
                         /\ inflight \cup loaded = PlanesBefore(Len(placements) + 1)
    BY <1>1 DEF Uploaded
  <2>3. PlanesBefore(Len(placements) + 1) = {x.key : x \in planes}
    BY <1>1, <1>2, PlanesUploaded
  <2> QED BY <2>1, <2>2, <2>3
<1> QED
  BY <1>2, <1>3, <1>5, <1>6, <1>7

------------------------------------------------------------------------------
(* What the writers install opens. *)

LEMMA WrittenPlane ==
  ASSUME NEW plan, PlanFields(plan), WritersAccept(plan), NEW p \in payloads(Written(plan))
  PROVE  /\ p = <<p[1], p[2]>> /\ p[1] \in 1..Len(plan) /\ p[2] \in {"data", "aux"}
         /\ p[2] = "data" => Begin(Written(plan), p) = Placed(plan).data[p[1]]
         /\ p[2] = "aux" => Placed(plan).data[p[1]] + plan[p[1]].data_bytes <= Begin(Written(plan), p)
         /\ p[2] = "data" => Bytes(Written(plan), p) = plan[p[1]].data_bytes
         /\ Begin(Written(plan), p) \in Nat /\ Bytes(Written(plan), p) \in Nat \ {0}
         /\ End(Written(plan), p) = Begin(Written(plan), p) + Bytes(Written(plan), p)
         /\ Placed(plan).data[p[1]] \in Nat /\ PlaneEnd(plan, Placed(plan), p[1]) \in Nat
         /\ Placed(plan).data[p[1]] <= Begin(Written(plan), p)
         /\ Begin(Written(plan), p) + Bytes(Written(plan), p) <= PlaneEnd(plan, Placed(plan), p[1])
<1> DEFINE f == Written(plan)
<1>1. /\ p = <<p[1], p[2]>> /\ p[1] \in 1..Len(plan) /\ p[2] \in {"data", "aux"}
      /\ p[2] = "aux" => f.entries[p[1]].aux_bytes # 0
  <2>1. DOMAIN f.entries = 1..Len(plan)
    BY WrittenEntries
  <2> HIDE DEF f
  <2> QED BY <2>1 DEF payloads, f
<1>2. PICK n \in 1..Len(plan) : n = p[1]
  BY <1>1
<1> DEFINE e == f.entries[n]
           x == Placed(plan).data[n]  y == Placed(plan).aux[n]  c == Placed(plan).cursor
<1>3. /\ e.data_offset = x /\ e.data_bytes = plan[n].data_bytes
      /\ e.aux_offset = y /\ e.aux_bytes = plan[n].aux_bytes
  BY WrittenEntryIs
<1>4. /\ c \in 0..Word - 1 /\ x \in 0..Word - 1 /\ y \in 0..Word - 1
      /\ plan[n].data_bytes \in 1..Word - 1 /\ plan[n].aux_bytes \in 0..Word - 1
      /\ PlanesPlaced(plan, Placed(plan), n)
  BY AcceptedPlan
<1>5. /\ PlaneEnd(plan, Placed(plan), n) <= c
      /\ plan[n].aux_bytes = 0 => PlaneEnd(plan, Placed(plan), n) = x + plan[n].data_bytes
      /\ plan[n].aux_bytes # 0 => /\ PlaneEnd(plan, Placed(plan), n) = y + plan[n].aux_bytes
                                  /\ x + plan[n].data_bytes <= y
  BY <1>4 DEF PlanesPlaced, PlaneEnd
<1>6. /\ p[2] = "data" => Begin(f, p) = x /\ Bytes(f, p) = plan[n].data_bytes
      /\ p[2] = "aux" => /\ Begin(f, p) = y /\ Bytes(f, p) = plan[n].aux_bytes
                         /\ plan[n].aux_bytes # 0
  <2> HIDE DEF f
  <2> QED BY <1>1, <1>2, <1>3 DEF Begin, Bytes, f
<1> DEFINE begin == Begin(f, p)  bytes == Bytes(f, p)  last == PlaneEnd(plan, Placed(plan), n)
<1>7. /\ begin \in Nat /\ bytes \in Nat \ {0} /\ x \in Nat /\ last \in Nat
      /\ x <= begin /\ begin + bytes <= last /\ begin + bytes < Word /\ Word \in Nat \ {0}
      /\ p[2] = "aux" => x + plan[n].data_bytes <= begin
  <2> HIDE DEF begin, bytes, last, x, y, c, e, f
  <2>1. CASE p[2] = "data"
    BY SMTT(40), <1>4, <1>5, <1>6, <2>1, LayoutAssumption DEF begin, bytes, last
  <2>2. CASE p[2] = "aux"
    BY SMTT(40), <1>4, <1>5, <1>6, <2>2, LayoutAssumption DEF begin, bytes, last
  <2> QED BY <1>1, <2>1, <2>2
<1>8. End(f, p) = begin + bytes
  <2> DEFINE sum == begin + bytes
  <2>1. sum \in Nat /\ sum < Word /\ Word \in Nat \ {0}
    BY <1>7
  <2>2. End(f, p) = sum % Word
    BY DEF End
  <2> HIDE DEF sum
  <2>3. sum % Word = sum
    BY <2>1, SmallRemainder
  <2> QED BY <2>2, <2>3 DEF sum
<1> QED
  BY <1>1, <1>2, <1>6, <1>7, <1>8

LEMMA WrittenApart ==
  ASSUME NEW plan, PlanFields(plan), WritersAccept(plan),
         NEW p \in payloads(Written(plan)), NEW q \in payloads(Written(plan)), p # q,
         Begin(Written(plan), p) <= Begin(Written(plan), q)
  PROVE  End(Written(plan), p) <= Begin(Written(plan), q)
<1> DEFINE f == Written(plan)
           D(n) == Placed(plan).data[n]  E(n) == PlaneEnd(plan, Placed(plan), n)
<1>1. /\ p = <<p[1], p[2]>> /\ p[1] \in 1..Len(plan) /\ p[2] \in {"data", "aux"}
      /\ p[2] = "data" => Begin(f, p) = D(p[1])
      /\ p[2] = "aux" => D(p[1]) + plan[p[1]].data_bytes <= Begin(f, p)
      /\ p[2] = "data" => Bytes(f, p) = plan[p[1]].data_bytes
      /\ Begin(f, p) \in Nat /\ Bytes(f, p) \in Nat \ {0}
      /\ End(f, p) = Begin(f, p) + Bytes(f, p)
      /\ D(p[1]) \in Nat /\ E(p[1]) \in Nat
      /\ D(p[1]) <= Begin(f, p) /\ Begin(f, p) + Bytes(f, p) <= E(p[1])
  BY WrittenPlane
<1>2. /\ q = <<q[1], q[2]>> /\ q[1] \in 1..Len(plan) /\ q[2] \in {"data", "aux"}
      /\ q[2] = "data" => Begin(f, q) = D(q[1])
      /\ q[2] = "aux" => D(q[1]) + plan[q[1]].data_bytes <= Begin(f, q)
      /\ q[2] = "data" => Bytes(f, q) = plan[q[1]].data_bytes
      /\ Begin(f, q) \in Nat /\ Bytes(f, q) \in Nat \ {0}
      /\ D(q[1]) \in Nat /\ E(q[1]) \in Nat
      /\ D(q[1]) <= Begin(f, q) /\ Begin(f, q) + Bytes(f, q) <= E(q[1])
  BY WrittenPlane
<1>3. \A n \in 1..Len(plan) : \A j \in 1..n - 1 : E(j) <= D(n)
  BY AcceptedPlan
<1>4. Len(plan) \in Nat /\ \A n \in 1..Len(plan) : plan[n].data_bytes \in Nat
  BY LayoutAssumption DEF PlanFields
<1> HIDE DEF f, D, E
<1>5. CASE p[1] < q[1]
  <2>1. E(p[1]) <= D(q[1])
    BY <1>1, <1>2, <1>3, <1>4, <1>5
  <2> QED BY <1>1, <1>2, <2>1 DEF f
<1>6. CASE q[1] < p[1]
  <2>1. E(q[1]) <= D(p[1])
    BY <1>1, <1>2, <1>3, <1>4, <1>6
  <2>2. Begin(f, q) < Begin(f, p)
    BY <1>1, <1>2, <2>1
  <2> QED BY <1>1, <1>2, <2>2 DEF f
<1>7. CASE p[1] = q[1]
  <2>1. p[2] # q[2]
    BY <1>1, <1>2, <1>7
  <2>2. CASE p[2] = "data"
    <3>1. q[2] = "aux"
      BY <1>2, <2>1, <2>2
    <3>2. plan[p[1]].data_bytes \in Nat
      BY <1>1, <1>4
    <3> QED BY <1>1, <1>2, <1>7, <2>2, <3>1, <3>2 DEF f
  <2>3. CASE p[2] = "aux"
    <3>1. q[2] = "data"
      BY <1>2, <2>1, <2>3
    <3>2. plan[p[1]].data_bytes \in Nat /\ plan[p[1]].data_bytes # 0
      BY <1>1, <1>2, <1>4, <1>7, <3>1
    <3>3. Begin(f, q) < Begin(f, p)
      BY <1>1, <1>2, <1>7, <2>3, <3>1, <3>2
    <3> QED BY <1>1, <1>2, <3>3 DEF f
  <2> QED BY <1>1, <2>2, <2>3
<1> QED
  BY <1>1, <1>2, <1>4, <1>5, <1>6, <1>7

(* The payloads are listed once each.                                      *)
LEMMA RangesDistinct ==
  ASSUME file \in Files \cup WrittenFiles, NEW order \in Orders, NEW i \in 2..Len(order)
  PROVE  order[i] # order[i - 1]
<1>1. PICK n \in Nat : n = Cardinality(payloads(file))
  BY PayloadsCounted
<1>2. /\ order \in [1..n -> payloads(file)]
      /\ \A p \in payloads(file) : \E k \in 1..n : order[k] = p
  BY <1>1 DEF Orders
<1>3. order \in Surjection(1..n, payloads(file))
  BY <1>2 DEF Surjection
<1>4. IsFiniteSet(1..n) /\ Cardinality(1..n) = n
  BY SMTT(30), <1>1, FS_Interval
<1>5. order \in Injection(1..n, payloads(file))
  BY <1>1, <1>3, <1>4, FS_Surjection, Zenon
<1>6. Len(order) = n
  BY <1>2
<1>7. i \in 1..n /\ i - 1 \in 1..n /\ i # i - 1
  BY <1>6
<1> QED
  BY <1>5, <1>7 DEF Injection, IsInjective

LEMMA WrittenFollows ==
  ASSUME file \in WrittenFiles, ranges \in Orders, NEW i \in 2..Len(ranges)
  PROVE  End(file, ranges[i - 1]) <= Begin(file, ranges[i])
<1>1. PICK plan \in Plans : WritersAccept(plan) /\ file = Written(plan)
  BY DEF WrittenFiles
<1>2. PlanFields(plan)
  BY PlansAssumption
<1>3. /\ file \in Files \cup WrittenFiles /\ Len(ranges) \in Nat /\ Sorted(ranges)
      /\ ranges \in Seq(payloads(file)) /\ DOMAIN ranges = 1..Len(ranges)
  BY OrderedRanges
<1>4. i \in 1..Len(ranges) /\ i - 1 \in 1..Len(ranges) /\ i - 1 < i
  BY <1>3
<1> DEFINE p == ranges[i - 1]  q == ranges[i]
<1>5. p \in payloads(file) /\ q \in payloads(file) /\ p # q
  BY <1>3, <1>4, RangesDistinct, ElementOfSeq
<1>6. Precedes(p, q)
  BY <1>3, <1>4 DEF Sorted
<1> HIDE DEF p, q
<1>7. Begin(file, p) <= Begin(file, q)
  <2>1. Begin(file, p) \in Nat /\ Begin(file, q) \in Nat
    BY <1>1, <1>2, <1>5, WrittenPlane
  <2> QED BY <1>6, <2>1 DEF Precedes
<1>8. End(file, p) <= Begin(file, q)
  BY <1>1, <1>2, <1>5, <1>7, WrittenApart
<1> QED
  BY <1>8 DEF p, q

(* No check of open refuses it.                                            *)
LEMMA WrittenPasses ==
  ASSUME Inv, file \in WrittenFiles, pc \in {"header", "entries", "neighbours"}, [Next]_vars
  PROVE  pc' # "destroy_stream"
<1>1. PICK plan \in Plans : WritersAccept(plan) /\ file = Written(plan)
  BY DEF WrittenFiles
<1>2. PlanFields(plan)
  BY PlansAssumption
<1>3. /\ Len(tensors) = Len(plan) /\ DOMAIN tensors = 1..Len(plan) /\ Len(plan) \in Nat
  BY <1>1, <1>2, WrittenEntries DEF tensors, PlanFields
<1>4. CASE pc = "header"
  <2>1. header_valid(file) /\ file.manifest_crc
    BY <1>1, <1>2, WrittenHeader, WrittenIs
  <2>2. CheckHeader \/ Copy \/ UNCHANGED vars
    BY <1>4 DEF Next, Open, CheckEntry, CheckNeighbours, CheckIdentity, PlaceTensors, Allocate,
       CreateStream, Upload, Synchronize, Destroy, DestroyStream, FreeArena, Unmap, Gone
  <2> QED BY <1>4, <2>1, <2>2 DEF CheckHeader, Copy, Goto, vars
<1>5. CASE pc = "entries"
  <2>1. CheckEntry \/ Copy \/ UNCHANGED vars
    BY <1>5 DEF Next, Open, CheckHeader, CheckNeighbours, CheckIdentity, PlaceTensors, Allocate,
       CreateStream, Upload, Synchronize, Destroy, DestroyStream, FreeArena, Unmap, Gone
  <2>2. CASE index > Len(tensors)
    BY <1>5, <2>1, <2>2 DEF CheckEntry, Copy, Goto, vars
  <2>3. CASE ~(index > Len(tensors))
    <3>1. index \in 1..Len(plan)
      BY <1>3, <2>3 DEF Inv, Types
    <3>2. plan[index].name \notin NamesBefore(index)
      <4>1. SUFFICES ASSUME NEW k \in 1..index - 1
                     PROVE  tensors[k].name # plan[index].name
        BY DEF NamesBefore
      <4>2. k \in 1..Len(plan) /\ k # index
        BY <1>3, <3>1
      <4>3. tensors[k].name = plan[k].name
        BY <1>1, <1>2, <4>2, WrittenEntryIs DEF tensors
      <4>4. plan[k].name # plan[index].name
        <5>1. PlanValid(plan) /\ DOMAIN plan = 1..Len(plan)
          BY <1>1, <1>2 DEF WritersAccept, PlanFields
        <5> QED BY <3>1, <4>2, <5>1 DEF PlanValid
      <4> QED BY <4>3, <4>4
    <3>3. entry_valid(file, tensors[index], NamesBefore(index))
      BY <1>1, <1>2, <3>1, <3>2, WrittenEntryValid DEF tensors
    <3>4. tensors[index].crc
      BY <1>1, <1>2, <3>1, WrittenEntryIs DEF tensors
    <3> QED BY <1>5, <2>1, <2>3, <3>3, <3>4 DEF CheckEntry, Copy, Goto, vars
  <2> QED BY <2>2, <2>3
<1>6. CASE pc = "neighbours"
  <2>1. CheckNeighbours \/ Copy \/ UNCHANGED vars
    BY <1>6 DEF Next, Open, CheckHeader, CheckEntry, CheckIdentity, PlaceTensors, Allocate,
       CreateStream, Upload, Synchronize, Destroy, DestroyStream, FreeArena, Unmap, Gone
  <2>2. CASE index > Len(ranges)
    BY <1>6, <2>1, <2>2 DEF CheckNeighbours, Copy, Goto, vars
  <2>3. CASE ~(index > Len(ranges))
    <3>1. /\ ranges \in Orders /\ index \in 2..Len(ranges)
          /\ Len(ranges) \in Nat /\ ranges \in Seq(payloads(file))
      <4>1. ranges \in Orders /\ ranges \in Seq(payloads(file)) /\ index \in Nat /\ index > 1
        BY <1>6 DEF Inv, Types, Opening, Checked
      <4>2. Len(ranges) \in Nat
        BY <4>1, LenProperties
      <4> QED BY <2>3, <4>1, <4>2
    <3>2. End(file, ranges[index - 1]) <= Begin(file, ranges[index])
      BY <3>1, WrittenFollows
    <3>3. Begin(file, ranges[index]) \in Nat /\ End(file, ranges[index - 1]) \in Nat
      <4>1. ranges[index] \in payloads(file) /\ ranges[index - 1] \in payloads(file)
        <5>1. index \in 1..Len(ranges) /\ index - 1 \in 1..Len(ranges)
          BY <3>1
        <5> QED BY <3>1, <5>1, ElementOfSeq
      <4>2. \A r \in payloads(file) : Begin(file, r) \in Nat /\ End(file, r) \in Nat
        <5>1. SUFFICES ASSUME NEW r \in payloads(file)
                       PROVE  Begin(file, r) \in Nat /\ End(file, r) \in Nat
          OBVIOUS
        <5>2. /\ Begin(file, r) \in Nat /\ Bytes(file, r) \in Nat \ {0}
              /\ End(file, r) = Begin(file, r) + Bytes(file, r)
          BY <1>1, <1>2, WrittenPlane
        <5> QED BY <5>2
      <4> QED BY <4>1, <4>2
    <3>4. ~(Begin(file, ranges[index]) < End(file, ranges[index - 1]))
      BY <3>2, <3>3
    <3> QED BY <1>6, <2>1, <2>3, <3>4 DEF CheckNeighbours, Copy, Goto, vars
  <2> QED BY <2>2, <2>3
<1> QED
  BY <1>4, <1>5, <1>6

------------------------------------------------------------------------------
(* Theorems *)

(* Open's checks, the layout of the arena and the copies that are queued,  *)
(* step by step through create and ~Impl.                                  *)
THEOREM InductiveInvariance == Spec => []Inv
<1>1. Inv /\ [Next]_vars => Inv'
  BY TypesStep, OpeningStep, LaidStep, UploadedStep, HeldStep DEF Inv
<1> QED
  BY <1>1, InitInv, PTL DEF Spec

(* Sums of words from the file never leave a word (engine.cpp:124-148).    *)
THEOREM TypeCorrectness == Spec => []TypeOK
<1>1. Inv => TypeOK
  BY DEF Inv, Types, TypeOK, Placements, Reading
<1> QED
  BY <1>1, InductiveInvariance, PTL

(* An artifact that opens has its payloads apart (artifact.cpp:298-406).   *)
THEOREM PayloadsStaySeparate == Spec => []PayloadsSeparate
<1>1. Inv => PayloadsSeparate
  BY CheckedApart DEF Inv, PayloadsSeparate
<1> QED
  BY <1>1, InductiveInvariance, PTL

(* The arena of an engine that is handed out (engine.cpp:124-216).         *)
THEOREM EnginesAreComplete == Spec => []EngineReady
BY ReadyIsComplete, InductiveInvariance, PTL

(* No copy outlives the file it reads or the arena it writes               *)
(* (engine.cpp:15-20).                                                     *)
THEOREM CopiesEndFirst == Spec => []NoCopyAfterRelease
<1>1. Inv => NoCopyAfterRelease
  BY DEF Inv, Held, NoCopyAfterRelease
<1> QED
  BY <1>1, InductiveInvariance, PTL

(* No check of open refuses what the writers lay out, for every plan       *)
(* that they accept (artifact.cpp:298-406, 593-672).                       *)
THEOREM WrittenFilesOpen == Spec => WrittenOpens
<1>1. Inv /\ [Next]_vars =>
        [(file \in WrittenFiles /\ pc \in {"header", "entries", "neighbours"}) =>
         (pc' # "destroy_stream")]_vars
  BY WrittenPasses
<1> QED
  BY <1>1, InductiveInvariance, PTL DEF Spec, WrittenOpens
=============================================================================
