------------------------ MODULE DecodeSession_proofs ------------------------
(***************************************************************************)
(* Proofs about DecodeSession, for every vocabulary, context limit, block  *)
(* size, graph width and target model.                                     *)
(***************************************************************************)
EXTENDS DecodeSession, SequenceTheorems, TLAPS

------------------------------------------------------------------------------
(* Prefixes of token sequences *)

LEMMA PrefixType ==
  ASSUME NEW s \in Seq(Token), NEW n \in 0..Len(s)
  PROVE  /\ Prefix(s, n) \in Seq(Token)
         /\ Len(Prefix(s, n)) = n
         /\ \A i \in 1..n : Prefix(s, n)[i] = s[i]
<1>1. \A i \in 1..n : s[i] \in Token
  BY ElementOfSeq
<1>2. n \in Int /\ 1 \in Int
  BY LenProperties
<1> QED
  BY <1>1, <1>2, SubSeqProperties DEF Prefix

LEMMA BatchType ==
  ASSUME NEW ts \in Batches
  PROVE  ts \in Seq(Token) /\ Len(ts) \in 1..MaximumBlock
<1>1. PICK n \in 1..MaximumBlock : ts \in [1..n -> Token]
  BY DEF Batches
<1>2. n \in Nat
  BY <1>1, SizeAssumption
<1>3. ts \in Seq(Token)
  BY <1>1, <1>2, SeqDef
<1>4. Len(ts) = n
  BY <1>1, <1>2, <1>3, LenProperties
<1> QED
  BY <1>1, <1>3, <1>4

LEMMA HistoryNotCorrupt ==
  ASSUME NEW h \in Seq(Token), Len(h) <= maximum_context
  PROVE  h # Corrupt
<1>1. Len(h) \in 0..maximum_context /\ h \in [1..Len(h) -> Token]
  BY LenProperties, SizeAssumption
<1>2. h \in History
  BY <1>1 DEF History
<1> QED
  BY <1>2, MarkerAssumption

LEMMA RowHistoryType ==
  ASSUME TypeOK, NEW b \in Buffer, NEW n \in Nat, NEW ts \in Seq(Token),
         NEW i \in 0..Len(ts)
  PROVE  RowHistory(b, n, ts, i) \in Content
<1>1. CASE Coherent(b, n)
  <2>1. gdn[b] \in Seq(Token)
    BY <1>1 DEF Coherent, TypeOK, Content
  <2>2. Prefix(ts, i) \in Seq(Token)
    BY PrefixType
  <2> QED
    BY <1>1, <2>1, <2>2, ConcatProperties DEF RowHistory, Content
<1>2. CASE ~Coherent(b, n)
  BY <1>2 DEF RowHistory, Content
<1> QED
  BY <1>1, <1>2

LEMMA RunTargetType ==
  ASSUME TypeOK, NEW ts \in Seq(Token), NEW src \in Buffer, NEW dst \in Buffer,
         RunTarget(ts, src, dst)
  PROVE  /\ kv' \in [Position -> Content]
         /\ rows' \in [Row -> Content]
         /\ gdn' \in [Buffer -> Content]
         /\ rollback_log' \in [base : Content, tokens : Seq(Token)]
<1> DEFINE n == current_position
<1>1. n \in Nat /\ Len(ts) \in Nat
  BY LenProperties, SizeAssumption DEF TypeOK
<1>2. \A i \in 0..Len(ts) : RowHistory(src, n, ts, i) \in Content
  BY <1>1, RowHistoryType
<1>3. kv' \in [Position -> Content]
  <2>1. ASSUME NEW p \in Position, p \in n..n + Len(ts) - 1
        PROVE  p - n + 1 \in 0..Len(ts)
    BY <1>1, <2>1, SizeAssumption DEF Position
  <2> QED
    BY <1>2, <2>1 DEF RunTarget, TypeOK
<1>4. rows' \in [Row -> Content]
  <2>1. ASSUME NEW r \in Row, r < Len(ts) PROVE r + 1 \in 0..Len(ts)
    BY <1>1, <2>1, SizeAssumption DEF Row
  <2> QED
    BY <1>2, <2>1 DEF RunTarget, TypeOK
<1>5. gdn' \in [Buffer -> Content]
  BY <1>1, <1>2 DEF RunTarget, TypeOK
<1>6. rollback_log' \in [base : Content, tokens : Seq(Token)]
  BY <1>1, <1>2 DEF RunTarget, TypeOK
<1> QED
  BY <1>3, <1>4, <1>5, <1>6

------------------------------------------------------------------------------
(* Histories that grow by a block *)

(* A block on top of a history leaves the prefixes of the history alone.   *)
LEMMA PrefixOfHistory ==
  ASSUME NEW h \in Seq(Token), NEW u \in Seq(Token), NEW m \in 0..Len(h)
  PROVE  Prefix(h \o u, m) = Prefix(h, m)
<1> DEFINE hu == h \o u
<1>1. /\ hu \in Seq(Token) /\ Len(hu) = Len(h) + Len(u)
      /\ \A i \in 1..Len(hu) : hu[i] = IF i <= Len(h) THEN h[i] ELSE u[i - Len(h)]
  BY ConcatProperties
<1>2. Len(h) \in Nat /\ Len(u) \in Nat
  BY LenProperties
<1>3. m \in 0..Len(hu)
  BY <1>1, <1>2
<1>4. /\ Prefix(hu, m) \in Seq(Token) /\ Len(Prefix(hu, m)) = m
      /\ \A i \in 1..m : Prefix(hu, m)[i] = hu[i]
  BY <1>1, <1>3, PrefixType
<1>5. /\ Prefix(h, m) \in Seq(Token) /\ Len(Prefix(h, m)) = m
      /\ \A i \in 1..m : Prefix(h, m)[i] = h[i]
  BY PrefixType
<1>6. \A i \in 1..m : Prefix(hu, m)[i] = Prefix(h, m)[i]
  BY <1>1, <1>2, <1>4, <1>5
<1> QED
  BY <1>4, <1>5, <1>6, SeqEqual

(* The prefixes that reach into the block are the history and a prefix of  *)
(* the block.                                                              *)
LEMMA PrefixIntoBlock ==
  ASSUME NEW h \in Seq(Token), NEW u \in Seq(Token), NEW k \in 0..Len(u),
         NEW i \in 0..k
  PROVE  Prefix(h \o Prefix(u, k), Len(h) + i) = h \o Prefix(u, i)
<1> DEFINE uk == Prefix(u, k)
           ui == Prefix(u, i)
           left == Prefix(h \o uk, Len(h) + i)
           right == h \o ui
<1>1. Len(h) \in Nat /\ Len(u) \in Nat
  BY LenProperties
<1>2. uk \in Seq(Token) /\ Len(uk) = k /\ \A j \in 1..k : uk[j] = u[j]
  BY PrefixType
<1>3. ui \in Seq(Token) /\ Len(ui) = i /\ \A j \in 1..i : ui[j] = u[j]
  BY <1>1, PrefixType
<1>4. /\ h \o uk \in Seq(Token) /\ Len(h \o uk) = Len(h) + k
      /\ \A j \in 1..Len(h) + k :
           (h \o uk)[j] = IF j <= Len(h) THEN h[j] ELSE uk[j - Len(h)]
  <2> HIDE DEF uk
  <2>1. /\ h \o uk \in Seq(Token) /\ Len(h \o uk) = Len(h) + Len(uk)
        /\ \A j \in 1..Len(h) + Len(uk) :
             (h \o uk)[j] = IF j <= Len(h) THEN h[j] ELSE uk[j - Len(h)]
    BY <1>2, ConcatProperties
  <2> QED
    BY <1>2, <2>1
<1>5. /\ right \in Seq(Token) /\ Len(right) = Len(h) + i
      /\ \A j \in 1..Len(h) + i :
           right[j] = IF j <= Len(h) THEN h[j] ELSE ui[j - Len(h)]
  <2> HIDE DEF ui
  <2>1. /\ h \o ui \in Seq(Token) /\ Len(h \o ui) = Len(h) + Len(ui)
        /\ \A j \in 1..Len(h) + Len(ui) :
             (h \o ui)[j] = IF j <= Len(h) THEN h[j] ELSE ui[j - Len(h)]
    BY <1>3, ConcatProperties
  <2> QED
    BY <1>3, <2>1
<1>6. Len(h) + i \in 0..Len(h \o uk)
  BY <1>1, <1>4
<1>7. /\ left \in Seq(Token) /\ Len(left) = Len(h) + i
      /\ \A j \in 1..Len(h) + i : left[j] = (h \o uk)[j]
  BY <1>4, <1>6, PrefixType
<1>8. ASSUME NEW j \in 1..Len(h) + i PROVE left[j] = right[j]
  <2>1. CASE j <= Len(h)
    BY <1>1, <1>4, <1>5, <1>7, <2>1
  <2>2. CASE ~(j <= Len(h))
    <3>1. j - Len(h) \in 1..i /\ j - Len(h) \in 1..k /\ j \in 1..Len(h) + k
      BY <1>1, <2>2
    <3>2. left[j] = u[j - Len(h)]
      BY <1>2, <1>4, <1>7, <2>2, <3>1
    <3>3. right[j] = u[j - Len(h)]
      BY <1>3, <1>5, <2>2, <3>1
    <3> QED
      BY <3>2, <3>3
  <2> QED
    BY <2>1, <2>2
<1> QED
  BY <1>5, <1>7, <1>8, SeqEqual

LEMMA WholePrefix ==
  ASSUME NEW s \in Seq(Token)
  PROVE  Prefix(s, Len(s)) = s /\ s \o Prefix(s, 0) = s
BY SubSeqFull, SubSeqEmpty, ConcatEmptySeq, LenProperties DEF Prefix

------------------------------------------------------------------------------
(* The inductive invariant *)

(* Where the positions stand relative to the accepted tokens in each phase *)
(* of a round, and that a round in progress fits the context.              *)
Positions ==
  /\ pc = "capture" => hist = <<>> /\ last_hidden = NullHidden /\ record_rollback
  /\ pc \in {"capture", "idle"} =>
       /\ current_position = Len(hist)
       /\ mtp_position <= current_position
       /\ ~mtp_chain_active
       /\ draft_tokens = <<>>
  /\ pc \in {"idle", "propose", "graph", "download"} => ~record_rollback
  /\ InRound =>
       /\ call.seed \in Token /\ call.count \in 1..MaximumBlock - 1
       /\ call.target = Len(hist) /\ call.mtp + 1 = call.target
       /\ call.mtp \in Nat
       /\ call.target + call.count + 1 <= maximum_context
  /\ pc \in {"propose", "graph"} =>
       /\ current_position = call.target /\ mtp_position = call.mtp
       /\ ~mtp_chain_active
       /\ snapshot = hist
       /\ Len(draft_tokens) <= call.count
  /\ pc = "graph" => call.count + 1 = graph_verifier_batch
  /\ pc = "download" =>
       /\ current_position = call.target + call.count + 1
       /\ mtp_position = call.mtp + call.count
       /\ last_hidden = call.count
       /\ Len(draft_tokens) = call.count /\ Len(outputs) = call.count + 1

(* The committed buffer and the caches below the position hold the         *)
(* accepted tokens in every phase but after an unrecovered error.          *)
HistoryHeld ==
  pc # "discarded" => gdn[committed] = hist /\ Coherent(committed, Len(hist))

(* Each graph was captured on the pointers of its parity.                  *)
GraphsCaptured ==
  LET straight == [src |-> committed, dst |-> Other(committed)]
      crossed == [src |-> Other(committed), dst |-> committed]
  IN
  /\ pc = "capture" => gdn_state_parity = 0 /\ graphs[0] \in {NoGraph, straight}
  /\ pc \notin {"capture", "discarded"} /\ graph_verifier_batch # 0 =>
       \A q \in {0, 1} :
         graphs[q] = IF q = gdn_state_parity THEN straight ELSE crossed

Inductive ==
  TypeOK /\ Positions /\ HistoryHeld /\ GraphsCaptured /\ HiddenIsCurrent
    /\ RoundEvaluated

------------------------------------------------------------------------------
(* What one evaluation of a block does to a coherent state *)

(* A cache holds the entries of a history; it holds k rows on top of it.   *)
CacheOf(c, h) == \A p \in 0..Len(h) - 1 : c[p] = Prefix(h, p + 1)
RowsOn(c, h, ts, k) == \A i \in 1..k : c[Len(h) + i - 1] = h \o Prefix(ts, i)

LEMMA CacheGrows ==
  ASSUME NEW h \in Seq(Token), NEW ts \in Seq(Token), NEW k \in 0..Len(ts), NEW c,
         CacheOf(c, h), RowsOn(c, h, ts, k)
  PROVE  /\ h \o Prefix(ts, k) \in Seq(Token)
         /\ Len(h \o Prefix(ts, k)) = Len(h) + k
         /\ CacheOf(c, h \o Prefix(ts, k))
<1>1. Len(h) \in Nat /\ Len(ts) \in Nat
  BY LenProperties
<1>2. Prefix(ts, k) \in Seq(Token) /\ Len(Prefix(ts, k)) = k
  BY PrefixType
<1>3. ASSUME NEW p \in 0..Len(h) + k - 1
      PROVE  c[p] = Prefix(h \o Prefix(ts, k), p + 1)
  <2>1. CASE p < Len(h)
    <3>1. p + 1 \in 0..Len(h) /\ p \in 0..Len(h) - 1
      BY <1>1, <2>1
    <3> QED
      BY <1>2, <3>1, PrefixOfHistory DEF CacheOf
  <2>2. CASE ~(p < Len(h))
    <3> DEFINE i == p + 1 - Len(h)
    <3>1. i \in 1..k /\ i \in 0..k /\ p = Len(h) + i - 1 /\ p + 1 = Len(h) + i
      BY <1>1, <2>2
    <3>2. c[p] = h \o Prefix(ts, i)
      BY <3>1 DEF RowsOn
    <3>3. Prefix(h \o Prefix(ts, k), Len(h) + i) = h \o Prefix(ts, i)
      BY <3>1, PrefixIntoBlock
    <3> QED
      BY <3>1, <3>2, <3>3
  <2> QED
    BY <2>1, <2>2
<1>4. h \o Prefix(ts, k) \in Seq(Token) /\ Len(h \o Prefix(ts, k)) = Len(h) + k
  BY <1>2, ConcatProperties
<1> QED
  BY <1>3, <1>4 DEF CacheOf

LEMMA Evaluation ==
  ASSUME TypeOK, NEW ts \in Seq(Token), NEW src \in Buffer, NEW dst \in Buffer,
         current_position = Len(hist), gdn[src] = hist,
         Coherent(src, Len(hist)), RunTarget(ts, src, dst),
         Len(ts) <= MaximumBlock, Len(hist) + Len(ts) <= maximum_context
  PROVE  /\ gdn'[dst] = hist \o ts
         /\ dst # src => /\ gdn'[src] = hist
                         /\ rollback_log' = [base |-> hist, tokens |-> ts]
         /\ \A i \in 1..Len(ts) :
              /\ kv'[Len(hist) + i - 1] = hist \o Prefix(ts, i)
              /\ rows'[i - 1] = hist \o Prefix(ts, i)
         /\ \A p \in 0..Len(hist) - 1 : kv'[p] = kv[p] /\ kv'[p] = Prefix(hist, p + 1)
<1>1. hist \in Seq(Token) /\ Len(hist) \in Nat /\ Len(ts) \in Nat
  BY LenProperties DEF TypeOK
<1>2. \A i : RowHistory(src, Len(hist), ts, i) = hist \o Prefix(ts, i)
  BY DEF RowHistory
<1>3. gdn'[dst] = hist \o ts
  BY <1>2, WholePrefix DEF RunTarget, TypeOK
<1>4. ASSUME dst # src
      PROVE  gdn'[src] = hist /\ rollback_log' = [base |-> hist, tokens |-> ts]
  <2>1. hist \o Prefix(ts, 0) = hist
    <3>1. Prefix(ts, 0) = <<>>
      BY SubSeqEmpty DEF Prefix
    <3> QED
      BY <1>1, <3>1, ConcatEmptySeq
  <2> QED
    BY <1>2, <1>4, <2>1 DEF RunTarget, TypeOK
<1>5. ASSUME NEW i \in 1..Len(ts)
      PROVE  /\ kv'[Len(hist) + i - 1] = hist \o Prefix(ts, i)
             /\ rows'[i - 1] = hist \o Prefix(ts, i)
  <2> DEFINE p == Len(hist) + i - 1
             r == i - 1
  <2>1. p \in Position /\ p \in Len(hist)..Len(hist) + Len(ts) - 1
        /\ p - Len(hist) + 1 = i
    BY <1>1, SizeAssumption DEF Position
  <2>2. r \in Row /\ r < Len(ts) /\ r + 1 = i
    BY <1>1, SizeAssumption DEF Row
  <2>3. kv'[p] = RowHistory(src, Len(hist), ts, p - Len(hist) + 1)
    BY <2>1 DEF RunTarget
  <2>4. rows'[r] = RowHistory(src, Len(hist), ts, r + 1)
    BY <2>2 DEF RunTarget
  <2> QED
    BY <1>2, <2>1, <2>2, <2>3, <2>4
<1>6. ASSUME NEW p \in 0..Len(hist) - 1
      PROVE  kv'[p] = kv[p] /\ kv'[p] = Prefix(hist, p + 1)
  <2>1. p \in Position /\ p \notin Len(hist)..Len(hist) + Len(ts) - 1
    BY <1>1, SizeAssumption DEF Position
  <2> QED
    BY <2>1 DEF RunTarget, Coherent
<1> QED
  BY <1>3, <1>4, <1>5, <1>6

------------------------------------------------------------------------------
(* Creation *)

LEMMA InitInductive == Init => Inductive
<1> SUFFICES ASSUME Init PROVE Inductive
  OBVIOUS
<1>1. <<>> \in Seq(Token) /\ Len(<<>>) = 0
  BY EmptySeq
<1>2. TypeOK
  <2>1. /\ current_position \in 0..maximum_context
        /\ mtp_position \in 0..maximum_context
        /\ gdn_state_parity \in {0, 1} /\ committed \in Buffer
        /\ graphs \in [{0, 1} -> [src : Buffer, dst : Buffer] \cup {NoGraph}]
    BY SizeAssumption DEF Init, Buffer
  <2>2. gdn \in [Buffer -> Content]
    BY <1>1 DEF Init, Content
  <2>3. rollback_log \in [base : Content, tokens : Seq(Token)]
    BY <1>1 DEF Init, Content, NoLog
  <2>4. kv \in [Position -> Content] /\ rows \in [Row -> Content]
    BY DEF Init, Content
  <2>5. mtp_kv \in [Position -> MtpEntry]
    BY DEF Init, MtpEntry, NoEntry
  <2> QED
    BY <1>1, <2>1, <2>2, <2>3, <2>4, <2>5 DEF Init, TypeOK, Content
<1>3. Positions
  BY <1>1 DEF Init, Positions, InRound
<1>4. HistoryHeld
  <2>1. <<>> # Corrupt
    <3>1. 0 <= maximum_context
      BY SizeAssumption
    <3> QED
      BY <1>1, <3>1, HistoryNotCorrupt
  <2>2. gdn[committed] = <<>> /\ hist = <<>>
    BY DEF Init, Buffer
  <2> QED
    BY <1>1, <2>1, <2>2 DEF HistoryHeld, Coherent
<1>5. GraphsCaptured
  BY DEF Init, GraphsCaptured, NoGraph
<1>6. HiddenIsCurrent /\ RoundEvaluated
  BY DEF Init, HiddenIsCurrent, RoundEvaluated
<1> QED
  BY <1>2, <1>3, <1>4, <1>5, <1>6 DEF Inductive

LEMMA CaptureGraphInductive ==
  ASSUME Inductive, CaptureGraph PROVE Inductive'
<1> USE DEF Inductive
<1>1. pc = "capture" /\ pc' \in {"capture", "idle"} /\ record_rollback
  BY DEF CaptureGraph, Positions
<1>2. UNCHANGED <<current_position, mtp_position, mtp_chain_active,
                 gdn_state_parity, committed, gdn, rollback_log, kv, rows,
                 mtp_kv, snapshot, draft_tokens, outputs, call, last_hidden,
                 hist, reply, returned>>
  BY DEF CaptureGraph, deviceVars, roundVars, callerVars
<1>3. GraphsCaptured' /\ graphs' \in [{0, 1} -> [src : Buffer, dst : Buffer] \cup {NoGraph}]
  BY <1>1, <1>2
  DEF CaptureGraph, GraphsCaptured, TypeOK, Buffer, Other, NoGraph
<1>4. TypeOK'
  BY <1>1, <1>2, <1>3 DEF CaptureGraph, TypeOK
<1>5. Positions'
  <2>1. \/ pc' = "capture" /\ record_rollback'
        \/ pc' = "idle" /\ ~record_rollback'
    BY <1>4 DEF CaptureGraph, TypeOK
  <2> QED
    BY <1>1, <1>2, <2>1 DEF Positions, InRound
<1>6. HistoryHeld'
  BY <1>1, <1>2 DEF HistoryHeld, Coherent
<1>7. HiddenIsCurrent' /\ RoundEvaluated'
  BY <1>1, <1>2 DEF HiddenIsCurrent, RoundEvaluated, Positions
<1> QED
  BY <1>3, <1>4, <1>5, <1>6, <1>7

(* A session that is discarded satisfies everything but its types for      *)
(* want of anything to satisfy.                                            *)
LEMMA DiscardedInductive ==
  ASSUME pc' = "discarded", TypeOK' PROVE Inductive'
BY DEF Inductive, Positions, HistoryHeld, GraphsCaptured, HiddenIsCurrent,
       RoundEvaluated, InRound

LEMMA CaptureFailsInductive ==
  ASSUME Inductive, CaptureFails PROVE Inductive'
<1>1. TypeOK'
  BY DEF Inductive, CaptureFails, TypeOK, bufferVars, deviceVars, roundVars
<1> QED
  BY <1>1, DiscardedInductive DEF CaptureFails

------------------------------------------------------------------------------
(* Typing of the device operations *)

LEMMA RunTargetPartlyType ==
  ASSUME TypeOK, NEW ts \in Seq(Token), NEW dst \in Buffer,
         RunTargetPartly(ts, dst)
  PROVE  /\ kv' \in [Position -> Content]
         /\ rows' \in [Row -> Content]
         /\ gdn' \in [Buffer -> Content]
         /\ rollback_log' \in [base : Content, tokens : Seq(Token)]
<1>1. gdn' \in [Buffer -> Content]
  BY DEF RunTargetPartly, TypeOK, Content
<1>2. rows' \in [Row -> Content]
  BY DEF RunTargetPartly, TypeOK, Content
<1>3. kv' \in [Position -> Content]
  <2>1. CASE UNCHANGED kv
    BY <2>1 DEF TypeOK
  <2>2. CASE kv' = [p \in Position |->
                     IF p \in current_position..current_position + Len(ts) - 1
                     THEN Corrupt ELSE kv[p]]
    BY <2>2 DEF TypeOK, Content
  <2> QED
    BY <2>1, <2>2 DEF RunTargetPartly
<1>4. rollback_log' \in [base : Content, tokens : Seq(Token)]
  BY DEF RunTargetPartly, TypeOK
<1> QED
  BY <1>1, <1>2, <1>3, <1>4

LEMMA MtpChainType ==
  ASSUME TypeOK, NEW at \in Nat, NEW ts \in Seq(Token),
         NEW h \in {Draft} \cup Content
  PROVE  MtpChain(at, ts, h) \in [Position -> MtpEntry]
<1>1. Len(ts) \in Nat
  BY LenProperties
<1>2. ASSUME NEW p \in Position, p \in at..at + Len(ts) - 1
      PROVE  ts[p - at + 1] \in Token
  <2>1. p - at + 1 \in 1..Len(ts)
    BY <1>1, <1>2, SizeAssumption DEF Position
  <2> QED
    BY <2>1, ElementOfSeq
<1>3. ASSUME NEW p \in Position
      PROVE  (IF p \in at..at + Len(ts) - 1
              THEN [token |-> ts[p - at + 1],
                    hidden |-> IF p = at THEN h ELSE Draft]
              ELSE mtp_kv[p]) \in MtpEntry
  <2>1. CASE p \in at..at + Len(ts) - 1
    BY <1>2, <2>1 DEF MtpEntry
  <2>2. CASE ~(p \in at..at + Len(ts) - 1)
    BY <2>2 DEF TypeOK
  <2> QED
    BY <2>1, <2>2
<1> QED
  BY <1>3 DEF MtpChain

LEMMA HiddenType ==
  ASSUME TypeOK, last_hidden # NullHidden PROVE Hidden(0) \in Content
BY SizeAssumption DEF TypeOK, Hidden, Row, SnapshotHidden

LEMMA AnswersType ==
  ASSUME NEW ts \in Seq(Token), NEW src, NEW out \in Answers(ts, src)
  PROVE  out \in Seq(Token) /\ Len(out) = Len(ts)
<1>1. out \in [1..Len(ts) -> Token] /\ Len(ts) \in Nat
  BY LenProperties DEF Answers
<1>2. out \in Seq(Token)
  BY <1>1, SeqDef
<1> QED
  BY <1>1, <1>2, LenProperties

LEMMA OtherBuffer ==
  ASSUME NEW b \in Buffer
  PROVE  Other(b) \in Buffer /\ Other(b) # b /\ Other(Other(b)) = b
BY DEF Buffer, Other

------------------------------------------------------------------------------
(* Calls that evaluate no block *)

LEMMA RefuseInductive ==
  ASSUME Inductive, Refuse \/ SnapshotFails PROVE Inductive'
<1>1. UNCHANGED <<pc, current_position, mtp_position, mtp_chain_active,
                 record_rollback, gdn_state_parity, committed, gdn,
                 rollback_log, kv, mtp_kv, rows, snapshot, last_hidden,
                 draft_tokens, outputs, graphs, call, hist, returned>>
      /\ reply' \in {"refused", "failed"}
  BY DEF Refuse, SnapshotFails, Fail, bufferVars, deviceVars, roundVars
<1>2. TypeOK'
  BY <1>1 DEF Inductive, TypeOK
<1>3. Positions' /\ HistoryHeld' /\ GraphsCaptured'
  BY <1>1 DEF Inductive, Positions, InRound, HistoryHeld, Coherent, GraphsCaptured
<1>4. HiddenIsCurrent' /\ RoundEvaluated'
  BY <1>1 DEF Inductive, HiddenIsCurrent, Hidden, RoundEvaluated, Inputs
<1> QED
  BY <1>2, <1>3, <1>4 DEF Inductive

LEMMA MtpDraftInductive ==
  ASSUME Inductive, NEW t \in Token, MtpDraft(t) \/ MtpDraftFails(t)
  PROVE  Inductive'
<1>1. /\ pc = "idle" /\ DraftAccepted
      /\ UNCHANGED <<pc, current_position, mtp_chain_active,
                 record_rollback, gdn_state_parity, committed, gdn,
                 rollback_log, kv, rows, snapshot, last_hidden,
                 draft_tokens, outputs, graphs, call, hist, returned>>
      /\ mtp_position' \in {mtp_position, mtp_position + 1}
      /\ reply' \in {"ok", "failed"}
  BY DEF MtpDraft, MtpDraftFails, Fail, bufferVars, deviceVars, roundVars
<1>2. ~mtp_chain_active /\ Aligned /\ last_hidden # NullHidden
  BY <1>1 DEF Inductive, Positions, DraftAccepted
<1>3. mtp_position' \in 0..maximum_context /\ mtp_position' <= current_position
  BY <1>1, <1>2, SizeAssumption DEF Inductive, TypeOK, Aligned
<1>4. mtp_kv' \in [Position -> MtpEntry]
  <2>1. <<t>> \in Seq(Token)
    OBVIOUS
  <2>2. MtpChain(mtp_position, <<t>>, Hidden(0)) \in [Position -> MtpEntry]
    <3>1. TypeOK /\ mtp_position \in Nat
      BY SizeAssumption DEF Inductive, TypeOK
    <3>2. Hidden(0) \in {Draft} \cup Content
      BY <1>2, <3>1, HiddenType
    <3> QED
      BY <2>1, <3>1, <3>2, MtpChainType
  <2> QED
    BY <1>2, <2>2 DEF MtpDraft, MtpDraftFails, Inductive, TypeOK
<1>5. TypeOK'
  BY <1>1, <1>3, <1>4 DEF Inductive, TypeOK
<1>6. Positions' /\ HistoryHeld' /\ GraphsCaptured'
  BY <1>1, <1>3
  DEF Inductive, Positions, InRound, HistoryHeld, Coherent, GraphsCaptured
<1>7. HiddenIsCurrent' /\ RoundEvaluated'
  BY <1>1 DEF Inductive, HiddenIsCurrent, Hidden, RoundEvaluated
<1> QED
  BY <1>5, <1>6, <1>7 DEF Inductive

------------------------------------------------------------------------------
(* greedy_step and block_step *)

(* A block evaluated on a coherent state leaves a coherent state of the    *)
(* longer history, and the other buffer as it was.                         *)
LEMMA Extension ==
  ASSUME TypeOK, NEW ts \in Seq(Token), NEW src \in Buffer, NEW dst \in Buffer,
         current_position = Len(hist), gdn[src] = hist,
         Coherent(src, Len(hist)), RunTarget(ts, src, dst),
         Len(ts) \in 1..MaximumBlock, Len(hist) + Len(ts) <= maximum_context
  PROVE  /\ hist \o ts \in Seq(Token)
         /\ Len(hist \o ts) = Len(hist) + Len(ts)
         /\ gdn'[dst] = hist \o ts
         /\ hist \o ts # Corrupt
         /\ rows'[Len(ts) - 1] = hist \o ts
         /\ CacheOf(kv', hist \o ts)
<1>1. hist \in Seq(Token) /\ Len(hist) \in Nat /\ Len(ts) \in Nat
  BY LenProperties DEF TypeOK
<1>2. Prefix(ts, Len(ts)) = ts
  BY WholePrefix
<1>3. hist \o ts \in Seq(Token) /\ Len(hist \o ts) = Len(hist) + Len(ts)
  BY <1>1, ConcatProperties
<1>4. hist \o ts # Corrupt
  BY <1>3, HistoryNotCorrupt
<1>5. Len(ts) <= MaximumBlock /\ Len(ts) \in 1..Len(ts) /\ Len(ts) \in 0..Len(ts)
  BY <1>1, SizeAssumption
<1>6. /\ gdn'[dst] = hist \o ts
      /\ \A i \in 1..Len(ts) :
           /\ kv'[Len(hist) + i - 1] = hist \o Prefix(ts, i)
           /\ rows'[i - 1] = hist \o Prefix(ts, i)
      /\ \A p \in 0..Len(hist) - 1 : kv'[p] = Prefix(hist, p + 1)
  BY <1>5, Evaluation
<1>7. rows'[Len(ts) - 1] = hist \o ts
  BY <1>2, <1>5, <1>6
<1>8. CacheOf(kv', hist \o ts)
  <2>1. CacheOf(kv', hist) /\ RowsOn(kv', hist, ts, Len(ts))
    BY <1>6 DEF CacheOf, RowsOn
  <2> QED
    BY <1>1, <1>2, <1>5, <2>1, CacheGrows
<1> QED
  BY <1>3, <1>4, <1>6, <1>7, <1>8

LEMMA BlockStepInductive ==
  ASSUME Inductive, NEW ts \in Batches, BlockStep(ts)
  PROVE  Inductive'
<1>1. ts \in Seq(Token) /\ Len(ts) \in 1..MaximumBlock
  BY BatchType
<1>2. /\ pc = "idle" /\ ~record_rollback /\ ~mtp_chain_active
      /\ current_position = Len(hist) /\ mtp_position <= current_position
      /\ gdn[committed] = hist /\ Coherent(committed, Len(hist))
      /\ TypeOK /\ committed \in Buffer /\ draft_tokens = <<>>
  BY DEF BlockStep, Inductive, Positions, HistoryHeld, TypeOK
<1>3. RunTarget(ts, committed, committed)
  BY <1>2 DEF BlockStep
<1>4. /\ UNCHANGED <<pc, mtp_position, mtp_chain_active, record_rollback,
                    gdn_state_parity, committed, graphs, mtp_kv, snapshot,
                    draft_tokens, outputs, call>>
      /\ last_hidden' = Len(ts) - 1
      /\ current_position' = current_position + Len(ts)
      /\ hist' = hist \o ts /\ reply' = "ok"
  BY DEF BlockStep, Succeed, bufferVars, roundVars
<1>5. Len(hist) \in Nat /\ Len(ts) \in Nat /\ Len(hist) + Len(ts) <= maximum_context
  BY <1>1, <1>2, SizeAssumption, LenProperties DEF BlockStep, Room, TypeOK
<1>6. /\ hist' \in Seq(Token)
      /\ Len(hist') = Len(hist) + Len(ts)
      /\ gdn'[committed] = hist'
      /\ hist' # Corrupt
      /\ rows'[Len(ts) - 1] = hist'
      /\ CacheOf(kv', hist')
  <2>1. /\ hist \o ts \in Seq(Token)
        /\ Len(hist \o ts) = Len(hist) + Len(ts)
        /\ gdn'[committed] = hist \o ts
        /\ hist \o ts # Corrupt
        /\ rows'[Len(ts) - 1] = hist \o ts
        /\ CacheOf(kv', hist \o ts)
    BY <1>1, <1>2, <1>3, <1>5, Extension
  <2> QED
    BY <1>4, <2>1
<1>7. returned' \in Seq(Token)
  BY <1>1, AnswersType DEF BlockStep, Succeed
<1>8. last_hidden' \in Row
  BY <1>1, <1>4, SizeAssumption DEF Row
<1>9. TypeOK'
  <2>1. /\ kv' \in [Position -> Content] /\ rows' \in [Row -> Content]
        /\ gdn' \in [Buffer -> Content]
        /\ rollback_log' \in [base : Content, tokens : Seq(Token)]
    BY <1>1, <1>2, <1>3, RunTargetType
  <2>2. current_position' \in 0..maximum_context
    BY <1>2, <1>4, <1>5, SizeAssumption
  <2> QED
    BY <1>2, <1>4, <1>6, <1>7, <1>8, <2>1, <2>2 DEF TypeOK
<1>10. Positions'
  BY <1>2, <1>4, <1>5, <1>6, <1>9, SizeAssumption DEF Positions, InRound, TypeOK
<1>11. HistoryHeld'
  BY <1>4, <1>6 DEF HistoryHeld, Coherent, CacheOf
<1>12. GraphsCaptured'
  BY <1>2, <1>4 DEF Inductive, GraphsCaptured
<1>13. HiddenIsCurrent' /\ RoundEvaluated'
  <2>1. last_hidden' # SnapshotHidden /\ last_hidden' - 0 = Len(ts) - 1
    BY <1>1, <1>4, SizeAssumption DEF SnapshotHidden
  <2> QED
    BY <1>2, <1>4, <1>6, <2>1 DEF HiddenIsCurrent, Hidden, RoundEvaluated
<1> QED
  BY <1>9, <1>10, <1>11, <1>12, <1>13 DEF Inductive

(* greedy_step is block_step of one row, in place.                         *)
LEMMA GreedyStepIsBlockStep ==
  ASSUME Inductive, NEW t \in Token, GreedyStep(t)
  PROVE  <<t>> \in Batches /\ BlockStep(<<t>>)
<1>1. <<t>> \in [1..1 -> Token] /\ Len(<<t>>) = 1 /\ <<t>>[1] = t
  OBVIOUS
<1>2. 1 \in 1..MaximumBlock
  BY SizeAssumption
<1>3. <<t>> \in Batches
  BY <1>1, <1>2 DEF Batches
<1>4. ~record_rollback
  BY DEF GreedyStep, Inductive, Positions
<1>5. Room \in Int /\ current_position \in Int
  BY SizeAssumption DEF Room, Inductive, TypeOK
<1>6. Len(<<t>>) <= Room /\ Len(<<t>>) - 1 = 0
      /\ current_position + Len(<<t>>) = current_position + 1
  BY <1>1, <1>5 DEF GreedyStep
<1> QED
  BY <1>1, <1>3, <1>4, <1>6 DEF GreedyStep, BlockStep

LEMMA TargetFailsInductive ==
  ASSUME Inductive, NEW ts \in Batches,
         TargetLaunchFails(ts) \/ TargetDownloadFails(ts)
  PROVE  Inductive'
<1>1. ts \in Seq(Token) /\ Len(ts) \in 1..MaximumBlock
  BY BatchType
<1>2. TypeOK /\ committed \in Buffer
  BY DEF Inductive, TypeOK
<1>3. /\ kv' \in [Position -> Content] /\ rows' \in [Row -> Content]
      /\ gdn' \in [Buffer -> Content]
      /\ rollback_log' \in [base : Content, tokens : Seq(Token)]
  BY <1>1, <1>2, RunTargetType, RunTargetPartlyType
  DEF TargetLaunchFails, TargetDownloadFails
<1>4. /\ pc' = "discarded" /\ reply' = "failed"
      /\ UNCHANGED <<current_position, mtp_position, mtp_chain_active,
                    record_rollback, gdn_state_parity, committed, graphs, mtp_kv,
                    snapshot, draft_tokens, outputs, call, hist, returned>>
      /\ last_hidden' \in {last_hidden, Len(ts) - 1}
  BY DEF TargetLaunchFails, TargetDownloadFails, Discard, Fail, bufferVars, roundVars
<1>5. last_hidden' \in Row \cup {NullHidden, SnapshotHidden}
  BY <1>1, <1>2, <1>4, SizeAssumption DEF Row, TypeOK
<1>6. TypeOK'
  BY <1>2, <1>3, <1>4, <1>5 DEF TypeOK
<1> QED
  BY <1>4, <1>6, DiscardedInductive

------------------------------------------------------------------------------
(* speculative_step: proposing *)

LEMMA BeginInductive ==
  ASSUME Inductive, NEW seed \in Token, NEW count \in 1..MaximumBlock - 1,
         Begin(seed, count)
  PROVE  Inductive'
<1>1. /\ pc = "idle" /\ last_hidden # NullHidden
      /\ mtp_position + 1 = current_position
      /\ count + 1 <= maximum_context - current_position
      /\ snapshot' = Hidden(0)
      /\ call' = [seed |-> seed, count |-> count,
                  target |-> current_position, mtp |-> mtp_position]
      /\ pc' \in {"propose", "graph"}
      /\ pc' = "graph" => count + 1 = graph_verifier_batch
      /\ UNCHANGED <<current_position, mtp_position, mtp_chain_active,
                    record_rollback, gdn_state_parity, committed, graphs, gdn,
                    rollback_log, kv, rows, mtp_kv, draft_tokens, outputs,
                    last_hidden, hist, reply, returned>>
  BY DEF Begin, SpeculationAccepted, Aligned, Room, bufferVars, deviceVars, callerVars
<1>2. draft_tokens = <<>>
  BY <1>1 DEF Inductive, Positions
<1>3. TypeOK /\ Hidden(0) = hist /\ hist \in Seq(Token)
  BY <1>1 DEF Inductive, HiddenIsCurrent, TypeOK
<1>4. current_position \in Nat /\ mtp_position \in Nat
  BY <1>3, SizeAssumption DEF TypeOK
<1>5. TypeOK'
  <2>1. call' \in [seed : Token, count : 1..MaximumBlock - 1,
                   target : Nat, mtp : Nat]
    BY <1>1, <1>4
  <2>2. snapshot' \in Content
    BY <1>1, <1>3 DEF Content
  <2> QED
    BY <1>1, <1>3, <2>1, <2>2 DEF TypeOK
<1>6. Positions'
  <2>1. /\ current_position = Len(hist) /\ ~mtp_chain_active /\ ~record_rollback
        /\ Len(draft_tokens) = 0
    BY <1>1, <1>2, EmptySeq DEF Inductive, Positions
  <2>2. count \in Nat /\ current_position + count + 1 <= maximum_context
    BY <1>1, <1>4, SizeAssumption
  <2> QED
    BY <1>1, <1>3, <1>4, <2>1, <2>2 DEF Positions, InRound
<1>7. HistoryHeld' /\ GraphsCaptured'
  BY <1>1 DEF Inductive, HistoryHeld, Coherent, GraphsCaptured
<1>8. HiddenIsCurrent' /\ RoundEvaluated'
  BY <1>1, <1>3 DEF HiddenIsCurrent, RoundEvaluated
<1> QED
  BY <1>5, <1>6, <1>7, <1>8 DEF Inductive

(* The tokens of a round, one more than its drafts.                        *)
LEMMA InputsType ==
  ASSUME Inductive, InRound, NEW ds \in Seq(Token)
  PROVE  /\ Inputs(ds) \in Seq(Token) /\ Len(Inputs(ds)) = Len(ds) + 1
         /\ <<call.seed>> \in Seq(Token) /\ Len(<<call.seed>>) = 1
<1>1. <<call.seed>> \in Seq(Token) /\ Len(<<call.seed>>) = 1
  BY DEF Inductive, Positions
<1>2. Len(ds) \in Nat
  BY LenProperties
<1> QED
  BY <1>1, <1>2, ConcatProperties DEF Inputs

LEMMA ProposalEntryType ==
  ASSUME Inductive, pc = "propose" PROVE ProposalEntry \in [Position -> MtpEntry]
<1> DEFINE i == Len(draft_tokens)
<1>1. InRound /\ TypeOK /\ draft_tokens \in Seq(Token) /\ call.mtp \in Nat
      /\ snapshot \in Content
  BY DEF InRound, Inductive, TypeOK, Positions
<1>2. i \in Nat /\ i + 1 \in 1..i + 1 /\ call.mtp + i \in Nat
  BY <1>1, LenProperties
<1>3. Inputs(draft_tokens) \in Seq(Token) /\ Len(Inputs(draft_tokens)) = i + 1
  BY <1>1, InputsType
<1>4. Inputs(draft_tokens)[i + 1] \in Token
  BY <1>2, <1>3, ElementOfSeq
<1>5. <<Inputs(draft_tokens)[i + 1]>> \in Seq(Token)
  BY <1>4
<1>6. (IF i = 0 THEN snapshot ELSE Draft) \in {Draft} \cup Content
  BY <1>1
<1> QED
  BY <1>1, <1>2, <1>5, <1>6, MtpChainType DEF ProposalEntry

LEMMA ProposeInductive ==
  ASSUME Inductive, Propose PROVE Inductive'
<1>1. /\ pc = "propose" /\ Len(draft_tokens) < call.count
      /\ UNCHANGED <<pc, current_position, mtp_position, mtp_chain_active,
                    record_rollback, gdn_state_parity, committed, graphs, gdn,
                    rollback_log, kv, rows, snapshot, outputs, call,
                    last_hidden, hist, reply, returned>>
      /\ mtp_kv' = ProposalEntry
  BY DEF Propose, bufferVars, deviceVars, callerVars
<1>2. PICK t \in Token : draft_tokens' = Append(draft_tokens, t)
  BY DEF Propose
<1>3. /\ draft_tokens' \in Seq(Token)
      /\ Len(draft_tokens') = Len(draft_tokens) + 1
      /\ Len(draft_tokens) \in Nat
  BY <1>2, AppendProperties, LenProperties DEF Inductive, TypeOK
<1>4. TypeOK'
  BY <1>1, <1>3, ProposalEntryType DEF Inductive, TypeOK
<1>5. Positions'
  <2>1. call.count \in Nat
    BY <1>1 DEF Inductive, Positions, InRound
  <2>2. Len(draft_tokens') <= call.count
    BY <1>1, <1>3, <2>1
  <2> QED
    BY <1>1, <2>2 DEF Inductive, Positions, InRound
<1>6. HistoryHeld' /\ GraphsCaptured'
  BY <1>1 DEF Inductive, HistoryHeld, Coherent, GraphsCaptured
<1>7. HiddenIsCurrent' /\ RoundEvaluated'
  BY <1>1 DEF Inductive, HiddenIsCurrent, RoundEvaluated
<1> QED
  BY <1>4, <1>5, <1>6, <1>7 DEF Inductive

(* A failure before the verifier has answered: whatever it left behind is  *)
(* outside the committed buffer and above the position.                    *)
LEMMA RollBackInductive ==
  ASSUME Inductive, RollBack, pc \in {"propose", "graph"},
         mtp_kv' \in [Position -> MtpEntry],
         kv' \in [Position -> Content], rows' \in [Row -> Content],
         gdn' \in [Buffer -> Content],
         rollback_log' \in [base : Content, tokens : Seq(Token)],
         gdn'[committed] = gdn[committed],
         \A p \in 0..Len(hist) - 1 : kv'[p] = kv[p]
  PROVE  Inductive'
<1>1. /\ pc' = "idle" /\ ~mtp_chain_active' /\ ~record_rollback'
      /\ mtp_chain_active' \in BOOLEAN /\ record_rollback' \in BOOLEAN
      /\ mtp_position' = call.mtp /\ current_position' = call.target
      /\ last_hidden' = SnapshotHidden /\ reply' = "failed"
      /\ draft_tokens' = <<>> /\ call' = NoCall
      /\ UNCHANGED <<gdn_state_parity, committed, graphs, snapshot, outputs,
                    hist, returned>>
  BY DEF RollBack, Fail, bufferVars
<1>2. /\ current_position = call.target /\ mtp_position = call.mtp
      /\ call.target = Len(hist) /\ call.mtp + 1 = call.target
      /\ call.mtp \in Nat /\ snapshot = hist /\ TypeOK
  BY DEF Inductive, Positions, InRound
<1>3. TypeOK'
  BY <1>1, <1>2 DEF TypeOK
<1>4. Positions'
  <2>1. call.mtp <= call.target
    BY <1>2
  <2> QED
    BY <1>1, <1>2, <2>1 DEF Positions, InRound
<1>5. HistoryHeld'
  BY <1>1 DEF Inductive, HistoryHeld, Coherent
<1>6. GraphsCaptured'
  BY <1>1 DEF Inductive, GraphsCaptured
<1>7. HiddenIsCurrent' /\ RoundEvaluated'
  BY <1>1, <1>2 DEF HiddenIsCurrent, Hidden, RoundEvaluated
<1> QED
  BY <1>3, <1>4, <1>5, <1>6, <1>7 DEF Inductive

LEMMA RoundFailsInductive ==
  ASSUME Inductive, ProposalFails \/ VerifierFails \/ GraphFails PROVE Inductive'
<1>1. TypeOK /\ pc \in {"propose", "graph"} /\ RollBack /\ InRound
  BY DEF ProposalFails, VerifierFails, GraphFails, Inductive, InRound
<1>2. mtp_kv' \in [Position -> MtpEntry]
  BY <1>1, ProposalEntryType DEF ProposalFails, VerifierFails, GraphFails, TypeOK
<1>3. CASE UNCHANGED <<gdn, rollback_log, kv, rows>>
  BY <1>1, <1>2, <1>3, RollBackInductive DEF TypeOK
<1>4. CASE VerifierFails
  <2> DEFINE ts == Inputs(draft_tokens)
  <2>1. ts \in Seq(Token) /\ Len(ts) \in Nat
    BY <1>1, InputsType, LenProperties DEF TypeOK
  <2>2. RunTargetPartly(ts, Other(committed)) /\ current_position = Len(hist)
    BY <1>4 DEF VerifierFails, Inductive, Positions, InRound
  <2>3. Other(committed) \in Buffer /\ Other(committed) # committed
    BY OtherBuffer DEF Inductive, TypeOK
  <2>4. gdn'[committed] = gdn[committed]
    BY <1>1, <2>2, <2>3 DEF RunTargetPartly, TypeOK
  <2>5. ASSUME NEW p \in 0..Len(hist) - 1 PROVE kv'[p] = kv[p]
    <3>1. p \in Position /\ p \notin Len(hist)..Len(hist) + Len(ts) - 1
      BY <1>1, <2>1, <2>2, SizeAssumption DEF Position, TypeOK
    <3> QED
      BY <2>2, <3>1 DEF RunTargetPartly
  <2>6. /\ kv' \in [Position -> Content] /\ rows' \in [Row -> Content]
        /\ gdn' \in [Buffer -> Content]
        /\ rollback_log' \in [base : Content, tokens : Seq(Token)]
    BY <1>1, <2>1, <2>2, <2>3, RunTargetPartlyType
  <2> QED
    BY <1>1, <1>2, <2>4, <2>5, <2>6, RollBackInductive
<1> QED
  BY <1>3, <1>4 DEF ProposalFails, GraphFails, deviceVars

------------------------------------------------------------------------------
(* speculative_step: verifying *)

(* A verifier that writes the buffer which is not committed leaves both    *)
(* judgements possible.                                                    *)
LEMMA LaunchedInductive ==
  ASSUME Inductive, pc \in {"propose", "graph"},
         NEW ds \in Seq(Token), Len(ds) = call.count, draft_tokens' = ds,
         mtp_kv' \in [Position -> MtpEntry],
         Launched(ds, committed, Other(committed))
  PROVE  Inductive'
<1> DEFINE ts == Inputs(ds)
           other == Other(committed)
<1>1. /\ pc' = "download" /\ ~record_rollback' /\ record_rollback' \in BOOLEAN
      /\ mtp_chain_active' \in BOOLEAN
      /\ last_hidden' = call.count
      /\ current_position' = current_position + call.count + 1
      /\ mtp_position' = call.mtp + call.count
      /\ UNCHANGED <<gdn_state_parity, committed, graphs, snapshot, call, hist,
                    reply, returned>>
  BY DEF Launched, bufferVars, callerVars
<1>2. /\ TypeOK /\ hist \in Seq(Token) /\ InRound
      /\ call.seed \in Token /\ call.count \in 1..MaximumBlock - 1
      /\ call.target = Len(hist) /\ call.mtp + 1 = call.target
      /\ call.mtp \in Nat
      /\ call.target + call.count + 1 <= maximum_context
      /\ current_position = Len(hist)
      /\ gdn[committed] = hist /\ Coherent(committed, Len(hist))
      /\ committed \in Buffer
  BY DEF Inductive, Positions, InRound, HistoryHeld, TypeOK
<1>3. /\ ts \in Seq(Token) /\ Len(ts) = call.count + 1
      /\ Len(ts) \in Nat /\ Len(ts) <= MaximumBlock
      /\ Len(hist) \in Nat /\ Len(hist) + Len(ts) <= maximum_context
      /\ call.count \in Nat
  <2>1. ts \in Seq(Token) /\ Len(ts) = call.count + 1
    BY <1>2, InputsType
  <2>2. call.count \in Nat /\ call.count + 1 <= MaximumBlock
    BY <1>2, SizeAssumption
  <2>3. Len(hist) \in Nat
    BY <1>2, LenProperties
  <2> QED
    BY <1>2, <2>1, <2>2, <2>3
<1>4. RunTarget(ts, committed, other)
  BY DEF Launched
<1>5. other \in Buffer /\ other # committed
  BY <1>2, OtherBuffer
<1>6. /\ gdn'[other] = hist \o ts /\ gdn'[committed] = hist
      /\ rollback_log' = [base |-> hist, tokens |-> ts]
      /\ \A i \in 1..Len(ts) :
           /\ kv'[Len(hist) + i - 1] = hist \o Prefix(ts, i)
           /\ rows'[i - 1] = hist \o Prefix(ts, i)
      /\ \A p \in 0..Len(hist) - 1 : kv'[p] = Prefix(hist, p + 1)
  BY <1>2, <1>3, <1>4, <1>5, Evaluation
<1>7. outputs' \in Seq(Token) /\ Len(outputs') = Len(ts)
  BY <1>3, AnswersType DEF Launched
<1>8. \A i \in 1..Len(ts) : outputs'[i] = Target(hist \o Prefix(ts, i))
  BY <1>2 DEF Launched, Answers
<1>9. TypeOK'
  <2>1. /\ kv' \in [Position -> Content] /\ rows' \in [Row -> Content]
        /\ gdn' \in [Buffer -> Content]
        /\ rollback_log' \in [base : Content, tokens : Seq(Token)]
    BY <1>2, <1>3, <1>4, <1>5, RunTargetType
  <2>2. /\ current_position' \in 0..maximum_context
        /\ mtp_position' \in 0..maximum_context
        /\ last_hidden' \in Row
    <3>1. /\ maximum_context \in Nat /\ MaximumBlock \in Nat
          /\ call.count <= MaximumBlock - 1
      BY <1>2, SizeAssumption
    <3>2. current_position' = Len(hist) + call.count + 1
          /\ mtp_position' = call.mtp + call.count
          /\ call.mtp + 1 = Len(hist)
          /\ Len(hist) + call.count + 1 <= maximum_context
      BY <1>1, <1>2
    <3>3. last_hidden' \in Row
      BY <1>1, <1>3, <3>1 DEF Row
    <3>4. call.mtp + call.count \in 0..maximum_context
      <4>1. call.mtp \in Nat /\ call.count \in Nat /\ Len(hist) \in Nat
        BY <1>2, <1>3
      <4>2. call.mtp + 1 + call.count + 1 <= maximum_context
        BY <3>2
      <4> QED
        BY <3>1, <4>1, <4>2
    <3>5. Len(hist) + call.count + 1 \in 0..maximum_context
      BY SMTT(30), <1>2, <1>3, <3>1, <3>2
    <3> QED
      BY <3>2, <3>3, <3>4, <3>5
  <2> QED
    BY <1>1, <1>2, <1>7, <2>1, <2>2 DEF TypeOK
<1>10. Positions'
  <2>1. current_position' = call.target + call.count + 1
    BY <1>1, <1>2
  <2> QED
    BY <1>1, <1>2, <1>3, <1>7, <2>1 DEF Positions, InRound
<1>11. HistoryHeld'
  BY <1>1, <1>2, <1>6 DEF HistoryHeld, Coherent
<1>12. GraphsCaptured'
  BY <1>1, <1>2 DEF Inductive, GraphsCaptured, InRound
<1>13. HiddenIsCurrent'
  BY <1>1 DEF HiddenIsCurrent
<1>14. RoundEvaluated'
  BY <1>1, <1>6, <1>8 DEF RoundEvaluated, Inputs
<1> QED
  BY <1>9, <1>10, <1>11, <1>12, <1>13, <1>14 DEF Inductive

LEMMA VerifyInductive ==
  ASSUME Inductive, Verify PROVE Inductive'
<1>1. /\ pc \in {"propose", "graph"}
      /\ draft_tokens \in Seq(Token) /\ Len(draft_tokens) = call.count
      /\ draft_tokens' = draft_tokens /\ mtp_kv' \in [Position -> MtpEntry]
      /\ Launched(draft_tokens, committed, Other(committed))
  BY DEF Verify, Inductive, TypeOK
<1> QED
  BY <1>1, LaunchedInductive

LEMMA LaunchGraphInductive ==
  ASSUME Inductive, LaunchGraph PROVE Inductive'
<1>1. PICK ds \in [1..call.count -> Token] :
        /\ draft_tokens' = ds
        /\ mtp_kv' = MtpChain(call.mtp, Prefix(Inputs(ds), call.count), snapshot)
        /\ Launched(ds, graphs[gdn_state_parity].src, graphs[gdn_state_parity].dst)
  BY DEF LaunchGraph
<1>2. /\ pc = "graph" /\ InRound /\ TypeOK /\ call.count \in 1..MaximumBlock - 1
      /\ call.mtp \in Nat /\ snapshot \in Content
      /\ graphs[gdn_state_parity] # NoGraph
  BY DEF LaunchGraph, Inductive, Positions, InRound, TypeOK
<1>3. call.count \in Nat
  BY <1>2, SizeAssumption
<1>4. ds \in Seq(Token)
  BY <1>3, SeqDef
<1>5. Len(ds) = call.count
  BY <1>3, <1>4, LenProperties
<1>6. mtp_kv' \in [Position -> MtpEntry]
  <2>1. Inputs(ds) \in Seq(Token) /\ call.count \in 0..Len(Inputs(ds))
    BY <1>2, <1>3, <1>4, <1>5, InputsType
  <2>2. Prefix(Inputs(ds), call.count) \in Seq(Token)
    BY <2>1, PrefixType
  <2>3. snapshot \in {Draft} \cup Content
    BY <1>2
  <2> QED
    BY <1>1, <1>2, <2>2, <2>3, MtpChainType
<1>7. graphs[gdn_state_parity] = [src |-> committed, dst |-> Other(committed)]
  <2>1. graph_verifier_batch # 0
    BY <1>2, <1>3 DEF Inductive, Positions
  <2> QED
    BY <1>2, <2>1 DEF Inductive, GraphsCaptured, TypeOK
<1> QED
  BY <1>1, <1>2, <1>4, <1>5, <1>6, <1>7, LaunchedInductive

------------------------------------------------------------------------------
(* speculative_step: judging *)

(* What the judgements start from.                                         *)
LEMMA Judged ==
  ASSUME Inductive, pc = "download"
  PROVE  LET ts == Inputs(draft_tokens) IN
         /\ TypeOK /\ hist \in Seq(Token) /\ Len(hist) \in Nat
         /\ draft_tokens \in Seq(Token) /\ outputs \in Seq(Token)
         /\ call.count \in 1..MaximumBlock - 1 /\ call.count \in Nat
         /\ call.seed \in Token
         /\ call.target = Len(hist) /\ call.mtp + 1 = call.target
         /\ call.mtp \in Nat
         /\ call.target + call.count + 1 <= maximum_context
         /\ Len(draft_tokens) = call.count /\ Len(outputs) = call.count + 1
         /\ last_hidden = call.count /\ ~record_rollback
         /\ current_position = Len(hist) + call.count + 1
         /\ mtp_position = call.mtp + call.count
         /\ committed \in Buffer /\ gdn[committed] = hist /\ hist # Corrupt
         /\ ts \in Seq(Token) /\ Len(ts) = call.count + 1
         /\ gdn[Other(committed)] = hist \o ts
         /\ rollback_log = [base |-> hist, tokens |-> ts]
         /\ CacheOf(kv, hist)
         /\ \A k \in 0..Len(ts) : RowsOn(kv, hist, ts, k)
         /\ \A i \in 1..Len(ts) : rows[i - 1] = hist \o Prefix(ts, i)
<1> DEFINE ts == Inputs(draft_tokens)
<1>1. /\ TypeOK /\ hist \in Seq(Token) /\ InRound
      /\ draft_tokens \in Seq(Token) /\ outputs \in Seq(Token)
      /\ committed \in Buffer
  BY DEF Inductive, TypeOK, InRound
<1>2. /\ call.count \in 1..MaximumBlock - 1 /\ call.seed \in Token
      /\ call.target = Len(hist) /\ call.mtp + 1 = call.target
      /\ call.mtp \in Nat
      /\ call.target + call.count + 1 <= maximum_context
      /\ Len(draft_tokens) = call.count /\ Len(outputs) = call.count + 1
      /\ last_hidden = call.count /\ ~record_rollback
      /\ current_position = call.target + call.count + 1
      /\ mtp_position = call.mtp + call.count
  BY <1>1 DEF Inductive, Positions
<1>3. gdn[committed] = hist /\ hist # Corrupt /\ CacheOf(kv, hist)
  BY DEF Inductive, HistoryHeld, Coherent, CacheOf
<1>4. ts \in Seq(Token) /\ Len(ts) = call.count + 1
  BY <1>1, <1>2, InputsType
<1>5. call.count \in Nat /\ Len(hist) \in Nat
  BY <1>1, <1>2, SizeAssumption, LenProperties
<1>6. /\ gdn[Other(committed)] = hist \o ts
      /\ rollback_log = [base |-> hist, tokens |-> ts]
      /\ \A i \in 1..Len(ts) :
           /\ kv[Len(hist) + i - 1] = hist \o Prefix(ts, i)
           /\ rows[i - 1] = hist \o Prefix(ts, i)
  BY DEF Inductive, RoundEvaluated
<1>7. \A k \in 0..Len(ts) : RowsOn(kv, hist, ts, k)
  BY SMTT(30), <1>4, <1>5, <1>6 DEF RowsOn
<1> QED
  BY <1>1, <1>2, <1>3, <1>4, <1>5, <1>6, <1>7

(* The seed and the first a drafts are the first a + 1 rows of the round.  *)
LEMMA InputsPrefix ==
  ASSUME Inductive, pc = "download", NEW a \in 0..call.count
  PROVE  /\ Inputs(Prefix(draft_tokens, a)) = Prefix(Inputs(draft_tokens), a + 1)
         /\ Inputs(Prefix(draft_tokens, a)) \in Seq(Token)
         /\ Len(Inputs(Prefix(draft_tokens, a))) = a + 1
<1> DEFINE s == <<call.seed>>
           ds == draft_tokens
<1>1. /\ ds \in Seq(Token) /\ Len(ds) = call.count /\ call.count \in Nat /\ InRound
  BY Judged DEF InRound
<1>2. s \in Seq(Token) /\ Len(s) = 1
  BY <1>1, InputsType
<1>3. Len(ds) \in 0..Len(ds) /\ a \in 0..Len(ds)
  BY <1>1
<1>4. Prefix(s \o Prefix(ds, Len(ds)), Len(s) + a) = s \o Prefix(ds, a)
  BY <1>1, <1>2, <1>3, PrefixIntoBlock
<1>5. Prefix(ds, Len(ds)) = ds
  BY <1>1, WholePrefix
<1>6. Len(s) + a = a + 1
  BY <1>2
<1>7. Prefix(ds, a) \in Seq(Token) /\ Len(Prefix(ds, a)) = a
  BY <1>1, <1>3, PrefixType
<1>8. Inputs(Prefix(ds, a)) \in Seq(Token) /\ Len(Inputs(Prefix(ds, a))) = a + 1
  BY <1>1, <1>7, InputsType
<1> QED
  BY <1>4, <1>5, <1>6, <1>8 DEF Inputs

(* What both judgements report and leave behind.                           *)
LEMMA ReturnType ==
  ASSUME Inductive, pc = "download", NEW a \in 0..call.count, Return(a)
  PROVE  /\ pc' = "idle" /\ ~mtp_chain_active' /\ mtp_chain_active' \in BOOLEAN
         /\ draft_tokens' = <<>> /\ outputs' = <<>> /\ call' = NoCall
         /\ reply' = "ok" /\ UNCHANGED <<record_rollback, snapshot>>
         /\ hist' = hist \o Prefix(Inputs(draft_tokens), a + 1)
         /\ hist' \in Seq(Token) /\ Len(hist') = Len(hist) + a + 1
         /\ CacheOf(kv, hist') /\ hist' # Corrupt
         /\ rows[a] = hist'
         /\ returned' \in Seq(Token)
<1> DEFINE ts == Inputs(draft_tokens)
<1>1. /\ hist \in Seq(Token) /\ Len(hist) \in Nat
      /\ ts \in Seq(Token) /\ Len(ts) = call.count + 1 /\ call.count \in Nat
      /\ CacheOf(kv, hist)
      /\ \A k \in 0..Len(ts) : RowsOn(kv, hist, ts, k)
      /\ \A i \in 1..Len(ts) : rows[i - 1] = hist \o Prefix(ts, i)
      /\ Len(hist) + call.count + 1 <= maximum_context
      /\ draft_tokens \in Seq(Token) /\ Len(draft_tokens) = call.count
      /\ outputs \in Seq(Token) /\ Len(outputs) = call.count + 1
  BY Judged
<1>2. a + 1 \in 0..Len(ts) /\ a + 1 \in 1..Len(ts) /\ (a + 1) - 1 = a
  BY <1>1
<1>3. hist' = hist \o Prefix(ts, a + 1)
  BY InputsPrefix DEF Return, Succeed
<1>4. /\ hist \o Prefix(ts, a + 1) \in Seq(Token)
      /\ Len(hist \o Prefix(ts, a + 1)) = Len(hist) + (a + 1)
      /\ CacheOf(kv, hist \o Prefix(ts, a + 1))
  BY <1>1, <1>2, CacheGrows
<1>5. hist' # Corrupt
  <2>1. Len(hist) + (a + 1) <= maximum_context
    BY <1>1, SizeAssumption
  <2> QED
    BY <1>3, <1>4, <2>1, HistoryNotCorrupt
<1>6. rows[a] = hist'
  BY <1>1, <1>2, <1>3
<1>7. returned' \in Seq(Token)
  <2>1. Prefix(draft_tokens, a) \in Seq(Token)
    BY <1>1, PrefixType
  <2>2. outputs[a + 1] \in Token
    BY <1>1, <1>2, ElementOfSeq
  <2> QED
    BY <2>1, <2>2, AppendProperties DEF Return, Succeed
<1>8. Len(hist) + (a + 1) = Len(hist) + a + 1
  BY <1>1
<1> QED
  BY <1>3, <1>4, <1>5, <1>6, <1>7, <1>8 DEF Return, Succeed

(* The positions after a of c drafts were accepted.                        *)
LEMMA PositionArithmetic ==
  ASSUME NEW m \in Nat, NEW h \in Nat, NEW c \in Nat, NEW a \in 0..c,
         m + 1 = h, h + c + 1 <= maximum_context
  PROVE  /\ h + a + 1 \in 0..maximum_context
         /\ m + a + 1 \in 0..maximum_context
         /\ (m + a + 1) + 1 = h + a + 1
         /\ m + a + 1 <= h + a + 1
BY SizeAssumption

LEMMA AcceptPrefixInductive ==
  ASSUME Inductive, NEW a \in 0..MaximumBlock, AcceptPrefix(a)
  PROVE  Inductive'
<1> DEFINE ts == Inputs(draft_tokens)
<1>1. /\ pc = "download" /\ a \in 0..call.count /\ a < call.count /\ Return(a)
      /\ gdn' = [gdn EXCEPT ![committed] = Restored(a + 1)]
      /\ current_position' = call.target + a + 1
      /\ mtp_position' = call.mtp + a + 1
      /\ last_hidden' = a
      /\ UNCHANGED <<gdn_state_parity, committed, graphs, rollback_log, kv,
                    mtp_kv, rows>>
  BY DEF AcceptPrefix, Accepted, bufferVars
<1>2. /\ TypeOK /\ Len(hist) \in Nat /\ call.mtp \in Nat /\ call.count \in Nat
      /\ call.count <= MaximumBlock - 1
      /\ call.target = Len(hist) /\ call.mtp + 1 = Len(hist)
      /\ Len(hist) + call.count + 1 <= maximum_context
      /\ committed \in Buffer /\ gdn[committed] = hist /\ hist # Corrupt
      /\ rollback_log = [base |-> hist, tokens |-> ts] /\ ~record_rollback
  <2>1. /\ TypeOK /\ Len(hist) \in Nat /\ call.mtp \in Nat /\ call.count \in Nat
        /\ call.count \in 1..MaximumBlock - 1
        /\ call.target = Len(hist) /\ call.mtp + 1 = call.target
        /\ call.target + call.count + 1 <= maximum_context
        /\ committed \in Buffer /\ gdn[committed] = hist /\ hist # Corrupt
        /\ rollback_log = [base |-> hist, tokens |-> ts] /\ ~record_rollback
    BY <1>1, Judged
  <2>2. call.count <= MaximumBlock - 1
    BY <2>1, SizeAssumption
  <2> QED
    BY <2>1, <2>2
<1>3. /\ pc' = "idle" /\ ~mtp_chain_active' /\ mtp_chain_active' \in BOOLEAN
      /\ draft_tokens' = <<>> /\ outputs' = <<>> /\ call' = NoCall
      /\ reply' = "ok" /\ UNCHANGED <<record_rollback, snapshot>>
      /\ hist' = hist \o Prefix(ts, a + 1)
      /\ hist' \in Seq(Token) /\ Len(hist') = Len(hist) + a + 1
      /\ CacheOf(kv, hist') /\ hist' # Corrupt /\ rows[a] = hist'
      /\ returned' \in Seq(Token)
  BY <1>1, ReturnType
<1>4. Restored(a + 1) = hist'
  BY <1>2, <1>3 DEF Restored
<1>5. gdn' \in [Buffer -> Content] /\ gdn'[committed] = hist'
  BY <1>1, <1>2, <1>3, <1>4 DEF TypeOK, Content
<1>6. /\ last_hidden' \in Row
      /\ current_position' = Len(hist') /\ mtp_position' + 1 = current_position'
      /\ current_position' \in 0..maximum_context
      /\ mtp_position' \in 0..maximum_context
  <2>1. a \in Nat /\ a <= MaximumBlock - 1 /\ MaximumBlock \in Nat
    BY <1>1, <1>2, SizeAssumption
  <2>2. a \in Row
    BY <2>1 DEF Row
  <2>3. /\ Len(hist) + a + 1 \in 0..maximum_context
        /\ call.mtp + a + 1 \in 0..maximum_context
        /\ (call.mtp + a + 1) + 1 = Len(hist) + a + 1
    BY <1>1, <1>2, PositionArithmetic
  <2> QED
    BY <1>1, <1>2, <1>3, <2>2, <2>3
<1>7. TypeOK'
  BY <1>1, <1>2, <1>3, <1>5, <1>6, EmptySeq DEF TypeOK
<1>8. Positions'
  <2>1. mtp_position' <= current_position'
    BY <1>6, SizeAssumption
  <2> QED
    BY <1>2, <1>3, <1>6, <2>1 DEF Positions, InRound
<1>9. HistoryHeld'
  BY <1>1, <1>3, <1>5 DEF HistoryHeld, Coherent, CacheOf
<1>10. GraphsCaptured'
  BY <1>1, <1>3 DEF Inductive, GraphsCaptured
<1>11. HiddenIsCurrent' /\ RoundEvaluated'
  <2>1. last_hidden' # SnapshotHidden /\ last_hidden' - 0 = a
    BY <1>1, <1>2 DEF SnapshotHidden
  <2> QED
    BY <1>1, <1>3, <2>1 DEF HiddenIsCurrent, Hidden, RoundEvaluated
<1> QED
  BY <1>7, <1>8, <1>9, <1>10, <1>11 DEF Inductive

LEMMA TailEntryType ==
  ASSUME Inductive, pc = "download" PROVE TailEntry \in [Position -> MtpEntry]
<1>1. /\ TypeOK /\ draft_tokens \in Seq(Token) /\ Len(draft_tokens) = call.count
      /\ call.count \in 1..MaximumBlock - 1 /\ call.count \in Nat
      /\ last_hidden = call.count /\ mtp_position = call.mtp + call.count
      /\ call.mtp \in Nat
  BY Judged
<1>2. draft_tokens[call.count] \in Token
  <2>1. call.count \in 1..Len(draft_tokens)
    BY <1>1
  <2> QED
    BY <1>1, <2>1, ElementOfSeq
<1>3. <<draft_tokens[call.count]>> \in Seq(Token)
  BY <1>2
<1>4. Hidden(1) \in {Draft} \cup Content
  <2>1. last_hidden - 1 \in Row /\ last_hidden # SnapshotHidden
    BY <1>1, SizeAssumption DEF Row, SnapshotHidden
  <2> QED
    BY <1>1, <2>1 DEF Hidden, TypeOK
<1>5. mtp_position \in Nat
  BY <1>1
<1> QED
  BY <1>1, <1>3, <1>4, <1>5, MtpChainType DEF TailEntry

LEMMA AcceptAllInductive ==
  ASSUME Inductive, AcceptAll PROVE Inductive'
<1> DEFINE ts == Inputs(draft_tokens)
           a == call.count
<1>1. /\ pc = "download" /\ Return(a)
      /\ committed' = Other(committed)
      /\ gdn_state_parity' = 1 - gdn_state_parity
      /\ mtp_kv' = TailEntry /\ mtp_position' = mtp_position + 1
      /\ UNCHANGED <<current_position, gdn, graphs, rollback_log, kv, rows,
                    last_hidden>>
  BY DEF AcceptAll, SwapBuffers, deviceVars
<1>2. /\ TypeOK /\ Len(hist) \in Nat /\ call.mtp \in Nat /\ a \in Nat
      /\ call.mtp + 1 = Len(hist)
      /\ Len(hist) + a + 1 <= maximum_context
      /\ current_position = Len(hist) + a + 1 /\ mtp_position = call.mtp + a
      /\ committed \in Buffer /\ ~record_rollback /\ last_hidden = a
      /\ ts \in Seq(Token) /\ Len(ts) = a + 1
      /\ gdn[Other(committed)] = hist \o ts
  BY <1>1, Judged
<1>3. a \in 0..call.count
  BY <1>2
<1>4. /\ pc' = "idle" /\ ~mtp_chain_active' /\ mtp_chain_active' \in BOOLEAN
      /\ draft_tokens' = <<>> /\ outputs' = <<>> /\ call' = NoCall
      /\ reply' = "ok" /\ UNCHANGED <<record_rollback, snapshot>>
      /\ hist' = hist \o Prefix(ts, a + 1)
      /\ hist' \in Seq(Token) /\ Len(hist') = Len(hist) + a + 1
      /\ CacheOf(kv, hist') /\ hist' # Corrupt /\ rows[a] = hist'
      /\ returned' \in Seq(Token)
  BY <1>1, <1>3, ReturnType
<1>5. gdn[Other(committed)] = hist'
  BY <1>2, <1>4, WholePrefix
<1>6. /\ mtp_position' + 1 = current_position'
      /\ mtp_position' \in 0..maximum_context
      /\ mtp_position' <= current_position'
  <2>1. /\ (call.mtp + a + 1) + 1 = Len(hist) + a + 1
        /\ call.mtp + a + 1 \in 0..maximum_context
        /\ call.mtp + a + 1 <= Len(hist) + a + 1
    BY <1>2, <1>3, PositionArithmetic
  <2> QED
    BY <1>1, <1>2, <2>1
<1>7. committed' \in Buffer /\ gdn_state_parity' \in {0, 1}
  BY <1>1, <1>2, OtherBuffer DEF TypeOK
<1>8. TypeOK'
  BY <1>1, <1>2, <1>4, <1>6, <1>7, EmptySeq, TailEntryType DEF TypeOK
<1>9. Positions'
  BY <1>1, <1>2, <1>4, <1>6 DEF Positions, InRound
<1>10. HistoryHeld'
  BY <1>1, <1>4, <1>5 DEF HistoryHeld, Coherent, CacheOf
<1>11. GraphsCaptured'
  BY <1>1, <1>2, <1>4, OtherBuffer DEF Inductive, GraphsCaptured, TypeOK
<1>12. HiddenIsCurrent' /\ RoundEvaluated'
  <2>1. last_hidden' # SnapshotHidden /\ last_hidden' - 0 = a
    <3>1. last_hidden' = a /\ a \in Nat
      BY <1>1, <1>2
    <3> HIDE DEF a
    <3> QED
      BY <3>1 DEF SnapshotHidden
  <2> QED
    BY <1>1, <1>4, <2>1 DEF HiddenIsCurrent, Hidden, RoundEvaluated
<1> QED
  BY <1>8, <1>9, <1>10, <1>11, <1>12 DEF Inductive

LEMMA JudgementFailsInductive ==
  ASSUME Inductive, NEW a \in 0..MaximumBlock,
         RestoreFails(a) \/ TailFails \/ DownloadFails
  PROVE  Inductive'
<1>1. pc = "download" /\ pc' = "discarded" /\ TypeOK
  BY DEF RestoreFails, TailFails, DownloadFails, Discard, Inductive
<1>2. CASE RestoreFails(a)
  <2>1. gdn' \in [Buffer -> Content]
    BY <1>1, <1>2 DEF RestoreFails, TypeOK, Content
  <2>2. TypeOK'
    BY <1>1, <1>2, <2>1
    DEF RestoreFails, Discard, Fail, TypeOK, bufferVars, roundVars
  <2> QED
    BY <1>1, <2>2, DiscardedInductive
<1>3. CASE TailFails
  <2>1. committed' \in Buffer /\ gdn_state_parity' \in {0, 1}
    BY <1>1, <1>3, OtherBuffer DEF TailFails, SwapBuffers, TypeOK
  <2>2. mtp_kv' \in [Position -> MtpEntry]
    BY <1>1, <1>3, TailEntryType DEF TailFails, TypeOK
  <2>3. TypeOK'
    BY <1>1, <1>3, <2>1, <2>2
    DEF TailFails, SwapBuffers, Discard, Fail, TypeOK, deviceVars, roundVars
  <2> QED
    BY <1>1, <2>3, DiscardedInductive
<1>4. CASE DownloadFails
  <2>1. TypeOK'
    BY <1>1, <1>4
    DEF DownloadFails, Discard, Fail, TypeOK, bufferVars, deviceVars, roundVars
  <2> QED
    BY <1>1, <2>1, DiscardedInductive
<1> QED
  BY <1>2, <1>3, <1>4

------------------------------------------------------------------------------
(* The theorems *)

LEMMA StutterInductive ==
  ASSUME Inductive, UNCHANGED vars PROVE Inductive'
<1>1. TypeOK' /\ Positions' /\ HistoryHeld' /\ GraphsCaptured'
  BY DEF vars, Inductive, TypeOK, Positions, InRound, HistoryHeld, Coherent,
         GraphsCaptured
<1>2. HiddenIsCurrent' /\ RoundEvaluated'
  BY DEF vars, Inductive, HiddenIsCurrent, Hidden, RoundEvaluated, Inputs
<1> QED
  BY <1>1, <1>2 DEF Inductive

LEMMA NextInductive ==
  ASSUME Inductive, [Next]_vars PROVE Inductive'
<1>1. CASE Create
  BY <1>1, CaptureGraphInductive, CaptureFailsInductive DEF Create
<1>2. CASE Refuse
  BY <1>2, RefuseInductive
<1>3. CASE TargetCall
  <2>1. ASSUME NEW t \in Token, GreedyStep(t) PROVE Inductive'
    <3>1. <<t>> \in Batches /\ BlockStep(<<t>>)
      BY <2>1, GreedyStepIsBlockStep
    <3> QED
      BY <3>1, BlockStepInductive
  <2>2. ASSUME NEW ts \in Batches, BlockStep(ts) PROVE Inductive'
    BY <2>2, BlockStepInductive
  <2>3. ASSUME NEW ts \in Batches, TargetLaunchFails(ts) \/ TargetDownloadFails(ts)
        PROVE  Inductive'
    BY <2>3, TargetFailsInductive
  <2> QED
    BY <1>3, <2>1, <2>2, <2>3 DEF TargetCall
<1>4. CASE MtpCall
  BY <1>4, MtpDraftInductive DEF MtpCall
<1>5. CASE SpeculativeCall
  <2>1. CASE \E seed \in Token, count \in 1..MaximumBlock - 1 : Begin(seed, count)
    BY <2>1, BeginInductive
  <2>2. CASE Propose \/ Verify \/ LaunchGraph
    BY <2>2, ProposeInductive, VerifyInductive, LaunchGraphInductive
  <2>3. CASE ProposalFails \/ VerifierFails \/ GraphFails
    BY <2>3, RoundFailsInductive
  <2>4. CASE DownloadFails \/ TailFails
    <3>1. 0 \in 0..MaximumBlock
      BY SizeAssumption
    <3> QED
      BY <2>4, <3>1, JudgementFailsInductive
  <2>5. CASE \E a \in 0..MaximumBlock : AcceptPrefix(a) \/ RestoreFails(a)
    BY <2>5, AcceptPrefixInductive, JudgementFailsInductive
  <2>6. CASE AcceptAll
    BY <2>6, AcceptAllInductive
  <2>7. CASE SnapshotFails
    BY <2>7, RefuseInductive
  <2> QED
    BY <1>5, <2>1, <2>2, <2>3, <2>4, <2>5, <2>6, <2>7 DEF SpeculativeCall
<1>6. CASE Destroyed \/ UNCHANGED vars
  BY <1>6, StutterInductive DEF Destroyed
<1> QED
  BY <1>1, <1>2, <1>3, <1>4, <1>5, <1>6 DEF Next

(* The inductive invariant holds in every reachable state of a session.    *)
THEOREM InductiveInvariance == Spec => []Inductive
<1>1. Init => Inductive
  BY InitInductive
<1>2. Inductive /\ [Next]_vars => Inductive'
  BY NextInductive
<1> QED
  BY <1>1, <1>2, PTL DEF Spec

(* No call, successful or failing, takes a variable out of its range:      *)
(* positions stay inside the context and pointers designate rows.          *)
THEOREM TypeCorrectness == Spec => []TypeOK
<1>1. Inductive => TypeOK
  BY DEF Inductive
<1> QED
  BY <1>1, InductiveInvariance, PTL

(* Between calls the committed recurrent state and the K/V entries below   *)
(* the position are those of exactly the accepted tokens, for every        *)
(* context limit, block size, target model and sequence of calls.          *)
THEOREM CommittedStateHolds == Spec => []CommittedState
<1>1. Inductive => CommittedState
  BY DEF Inductive, Positions, HistoryHeld, CommittedState
<1> QED
  BY <1>1, InductiveInvariance, PTL

(* A round in progress never touches what it may have to fall back on.     *)
THEOREM RoundIsolation == Spec => []RoundIsolated
<1>1. Inductive => RoundIsolated
  BY DEF Inductive, Positions, HistoryHeld, InRound, RoundIsolated
<1> QED
  BY <1>1, InductiveInvariance, PTL

(* The captured graphs never go stale, however often the buffers swap.     *)
THEOREM GraphsNeverStale == Spec => []GraphMatchesBuffers
<1>1. Inductive => GraphMatchesBuffers
  BY DEF Inductive, GraphsCaptured, TypeOK, GraphMatchesBuffers
<1> QED
  BY <1>1, InductiveInvariance, PTL

(* The hidden state handed to the draft model is that of the last accepted *)
(* token, after acceptance, rejection and rollback alike.                  *)
THEOREM HiddenStaysCurrent == Spec => []HiddenIsCurrent
<1>1. Inductive => HiddenIsCurrent
  BY DEF Inductive
<1> QED
  BY <1>1, InductiveInvariance, PTL

(* Both judgements of a round are prepared when the verifier has run.      *)
THEOREM RoundsAreEvaluated == Spec => []RoundEvaluated
<1>1. Inductive => RoundEvaluated
  BY DEF Inductive
<1> QED
  BY <1>1, InductiveInvariance, PTL

------------------------------------------------------------------------------
(* Refinement *)

LEMMA PrefixOfPrefix ==
  ASSUME NEW s \in Seq(Token), NEW k \in 0..Len(s), NEW i \in 0..k
  PROVE  Prefix(Prefix(s, k), i) = Prefix(s, i)
<1> DEFINE left == Prefix(Prefix(s, k), i)
           right == Prefix(s, i)
<1>1. Len(s) \in Nat
  BY LenProperties
<1>2. Prefix(s, k) \in Seq(Token) /\ Len(Prefix(s, k)) = k
      /\ \A j \in 1..k : Prefix(s, k)[j] = s[j]
  BY PrefixType
<1>3. left \in Seq(Token) /\ Len(left) = i /\ \A j \in 1..i : left[j] = Prefix(s, k)[j]
  BY <1>2, PrefixType
<1>4. i \in 0..Len(s)
  BY <1>1
<1>5. right \in Seq(Token) /\ Len(right) = i /\ \A j \in 1..i : right[j] = s[j]
  BY <1>4, PrefixType
<1>6. \A j \in 1..i : left[j] = right[j]
  BY <1>1, <1>2, <1>3, <1>5
<1> QED
  BY <1>3, <1>5, <1>6, SeqEqual

(* A call that answers each token with the target model's choice for the   *)
(* history up to it is a step of the abstract session.                     *)
LEMMA AnswersConsume ==
  ASSUME NEW ts \in Seq(Token), Len(ts) \in 1..MaximumBlock,
         NEW out \in Seq(Token), Len(out) = Len(ts),
         \A i \in 1..Len(ts) : out[i] = Target(hist \o Prefix(ts, i)),
         hist' = hist \o ts, returned' = out
  PROVE  Serial!SerialNext
<1>1. ts \in [1..Len(ts) -> Token] /\ out \in [1..Len(ts) -> Token]
  BY LenProperties
<1>2. ts \in Serial!Batch
  BY <1>1 DEF Serial!Batch
<1>3. out = [i \in 1..Len(ts) |-> Target(hist \o SubSeq(ts, 1, i))]
  BY <1>1 DEF Prefix
<1>4. Serial!Consume(ts)
  BY <1>3 DEF Serial!Consume
<1> QED
  BY <1>2, <1>4 DEF Serial!SerialNext

LEMMA BlockStepConsumes ==
  ASSUME Inductive, NEW ts \in Batches, BlockStep(ts) PROVE Serial!SerialNext
<1>1. ts \in Seq(Token) /\ Len(ts) \in 1..MaximumBlock
  BY BatchType
<1>2. /\ gdn[committed] = hist /\ Coherent(committed, current_position)
      /\ hist' = hist \o ts
  BY DEF BlockStep, Inductive, Positions, HistoryHeld, Succeed
<1>3. PICK out \in Answers(ts, committed) : returned' = out
  BY DEF BlockStep, Succeed
<1>4. out \in Seq(Token) /\ Len(out) = Len(ts)
  BY <1>1, AnswersType
<1>5. \A i \in 1..Len(ts) : out[i] = Target(hist \o Prefix(ts, i))
  BY <1>2 DEF Answers
<1> QED
  BY <1>1, <1>2, <1>3, <1>4, <1>5, AnswersConsume

(* The accepted drafts are the target's own answers, and the token after   *)
(* them is its answer to the last one.                                     *)
LEMMA ReturnAnswers ==
  ASSUME Inductive, pc = "download", NEW a \in 0..call.count, Accepted(a), Return(a)
  PROVE  LET ts == Inputs(Prefix(draft_tokens, a)) IN
         /\ ts \in Seq(Token) /\ Len(ts) = a + 1 /\ Len(ts) \in 1..MaximumBlock
         /\ returned' \in Seq(Token) /\ Len(returned') = Len(ts)
         /\ \A i \in 1..Len(ts) : returned'[i] = Target(hist \o Prefix(ts, i))
         /\ \A i \in 1..a : returned'[i] = Prefix(draft_tokens, a)[i]
         /\ hist' = hist \o ts
<1> DEFINE ts == Inputs(draft_tokens)
           b == Prefix(draft_tokens, a)
           out == Append(b, outputs[a + 1])
<1>1. /\ ts \in Seq(Token) /\ Len(ts) = call.count + 1
      /\ call.count \in 1..MaximumBlock - 1 /\ call.count \in Nat
      /\ draft_tokens \in Seq(Token) /\ Len(draft_tokens) = call.count
      /\ outputs \in Seq(Token) /\ Len(outputs) = call.count + 1
  BY Judged
<1>2. /\ Inputs(b) = Prefix(ts, a + 1) /\ Inputs(b) \in Seq(Token)
      /\ Len(Inputs(b)) = a + 1
  BY InputsPrefix
<1>3. hist' = hist \o Inputs(b) /\ returned' = out
  BY DEF Return, Succeed
<1>4. b \in Seq(Token) /\ Len(b) = a /\ \A i \in 1..a : b[i] = draft_tokens[i]
  BY <1>1, PrefixType
<1>5. a + 1 \in 1..Len(outputs) /\ a + 1 \in 0..Len(ts) /\ a \in Nat
      /\ a + 1 \in 1..MaximumBlock
  BY <1>1, SizeAssumption
<1>6. outputs[a + 1] \in Token
  BY <1>1, <1>5, ElementOfSeq
<1>7. out \in Seq(Token) /\ Len(out) = a + 1
      /\ out[a + 1] = outputs[a + 1] /\ \A i \in 1..a : out[i] = b[i]
  BY <1>4, <1>6, AppendProperties
<1> HIDE DEF out, b
<1>8. ASSUME NEW i \in 1..a + 1
      PROVE  out[i] = Target(hist \o Prefix(Inputs(b), i))
  <2>1. out[i] = outputs[i]
    <3>1. CASE i = a + 1
      BY <1>7, <3>1
    <3>2. CASE i \in 1..a
      <4>1. out[i] = b[i]
        BY <1>7, <3>2
      <4>2. b[i] = draft_tokens[i]
        BY <1>4, <3>2
      <4>3. draft_tokens[i] = outputs[i]
        BY <3>2 DEF Accepted
      <4> QED
        BY <4>1, <4>2, <4>3
    <3> QED
      BY <1>5, <3>1, <3>2
  <2>2. i \in 1..Len(ts) /\ i \in 0..a + 1
    BY <1>1, <1>5
  <2>3. outputs[i] = Target(hist \o Prefix(ts, i))
    BY <2>2 DEF Inductive, RoundEvaluated
  <2>4. Prefix(Inputs(b), i) = Prefix(ts, i)
    BY <1>1, <1>2, <1>5, <2>2, PrefixOfPrefix
  <2> QED
    BY <2>1, <2>3, <2>4
<1> HIDE DEF ts
<1>9. \A i \in 1..Len(Inputs(b)) : returned'[i] = Target(hist \o Prefix(Inputs(b), i))
  BY <1>2, <1>3, <1>8
<1> QED
  BY <1>2, <1>3, <1>5, <1>7, <1>9 DEF b

LEMMA ReturnConsumes ==
  ASSUME Inductive, pc = "download", NEW a \in 0..call.count, Accepted(a), Return(a)
  PROVE  Serial!SerialNext
BY ReturnAnswers, AnswersConsume

LEMMA StepRefines ==
  ASSUME Inductive, [Next]_vars
  PROVE  [Serial!SerialNext]_(Serial!serialVars)
<1>1. CASE UNCHANGED <<hist, returned>>
  BY <1>1 DEF Serial!serialVars
<1>2. CASE TargetCall
  <2>1. ASSUME NEW t \in Token, GreedyStep(t) PROVE Serial!SerialNext
    BY <2>1, GreedyStepIsBlockStep, BlockStepConsumes
  <2>2. ASSUME NEW ts \in Batches, TargetLaunchFails(ts) \/ TargetDownloadFails(ts)
        PROVE  UNCHANGED <<hist, returned>>
    BY <2>2 DEF TargetLaunchFails, TargetDownloadFails, Discard, Fail
  <2> QED
    BY <1>1, <1>2, <2>1, <2>2, BlockStepConsumes DEF TargetCall
<1>3. CASE \E a \in 0..MaximumBlock : AcceptPrefix(a)
  <2>1. PICK a \in 0..MaximumBlock : AcceptPrefix(a)
    BY <1>3
  <2>2. pc = "download" /\ Accepted(a) /\ Return(a) /\ a \in 0..call.count
    BY <2>1 DEF AcceptPrefix, Accepted
  <2> QED
    BY <2>2, ReturnConsumes
<1>4. CASE AcceptAll
  <2>1. /\ pc = "download" /\ Accepted(call.count) /\ Return(call.count)
        /\ call.count \in 0..call.count
    BY <1>4 DEF AcceptAll, Accepted
  <2> QED
    BY <2>1, ReturnConsumes
<1>5. CASE Create \/ Refuse \/ MtpCall \/ Destroyed
  <2>1. UNCHANGED <<hist, returned>>
    BY <1>5 DEF Create, CaptureGraph, CaptureFails, callerVars, Refuse, MtpCall,
       MtpDraft, MtpDraftFails, Fail, Destroyed, vars
  <2> QED
    BY <1>1, <2>1
<1>6. CASE \/ \E seed \in Token, count \in 1..MaximumBlock - 1 : Begin(seed, count)
           \/ Propose \/ Verify \/ LaunchGraph
  <2>1. UNCHANGED <<hist, returned>>
    BY <1>6 DEF Begin, Propose, Verify, LaunchGraph, Launched, callerVars
  <2> QED
    BY <1>1, <2>1
<1>7. CASE \/ SnapshotFails \/ ProposalFails \/ VerifierFails \/ GraphFails
           \/ DownloadFails \/ TailFails
           \/ \E a \in 0..MaximumBlock : RestoreFails(a)
  <2>1. UNCHANGED <<hist, returned>>
    BY <1>7 DEF SnapshotFails, ProposalFails, VerifierFails, GraphFails, RollBack, DownloadFails,
       TailFails, RestoreFails, Discard, Fail
  <2> QED
    BY <1>1, <2>1
<1>8. CASE UNCHANGED vars
  BY <1>1, <1>8 DEF vars
<1> QED
  BY <1>2, <1>3, <1>4, <1>5, <1>6, <1>7, <1>8 DEF Next, SpeculativeCall

(* The session implements serial greedy decoding: whatever is drafted,     *)
(* accepted, rejected, rolled back or failed inside, its caller sees each  *)
(* token answered by the target model's choice for the history up to it.   *)
THEOREM Refinement == Spec => ImplementsSerialDecode
<1>1. Init => Serial!SerialInit
  BY DEF Init, Serial!SerialInit
<1>2. Inductive /\ [Next]_vars => [Serial!SerialNext]_(Serial!serialVars)
  BY StepRefines
<1> QED
  BY <1>1, <1>2, InductiveInvariance, PTL
  DEF Spec, ImplementsSerialDecode, Serial!SerialSpec

------------------------------------------------------------------------------
(***************************************************************************)
(* DecodeSession implements SessionCalls: each call, with all of its       *)
(* launches, its failures and its rollback, is one step of the session     *)
(* that Generate drives.                                                   *)
(***************************************************************************)

(* What the refinement mapping makes of the two positions and the reply.   *)
Drafted == IF pc = "download" THEN call.mtp ELSE mtp_position
Said == IF pc = "discarded" THEN "broken" ELSE reply

CallsStep == [Calls!CallsNext]_(Calls!sessionVars)

LEMMA Stutters ==
  ASSUME UNCHANGED <<hist, returned>>, Drafted' = Drafted, Said' = Said
  PROVE  CallsStep
BY DEF CallsStep, Calls!sessionVars, Drafted, Said

LEMMA Usable ==
  ASSUME Inductive, pc # "discarded"
  PROVE  Said = reply /\ Said # "broken"
BY DEF Inductive, TypeOK, Said

(* A call that failed for good leaves a broken session.                    *)
LEMMA Breaks ==
  ASSUME Inductive, pc # "discarded", pc' = "discarded", UNCHANGED <<hist, returned>>,
         mtp_position' \in Nat
  PROVE  CallsStep
<1>1. Calls!Broken
  BY Usable DEF Calls!Broken, Said
<1>2. Said # "broken"
  BY Usable
<1> QED
  BY <1>1, <1>2 DEF CallsStep, Calls!CallsNext, Said

(* A call that was rejected, or that failed and was undone.                *)
LEMMA Rejects ==
  ASSUME Inductive, pc # "discarded", pc' # "discarded", UNCHANGED <<hist, returned>>,
         Drafted' = Drafted, reply' \in {"refused", "failed"}
  PROVE  CallsStep
<1>1. Calls!Refused \/ Calls!Failed
  BY DEF Calls!Refused, Calls!Failed, Drafted
<1>2. Said # "broken"
  BY Usable
<1> QED
  BY <1>1, <1>2 DEF CallsStep, Calls!CallsNext, Said

(* A batch answered by the target model is a Feed of the abstract session. *)
LEMMA AnswersFeed ==
  ASSUME NEW ts \in Seq(Token), Len(ts) <= maximum_context - Len(hist),
         returned' \in Seq(Token), Len(returned') = Len(ts),
         \A i \in 1..Len(ts) : returned'[i] = Target(hist \o Prefix(ts, i)),
         hist' = hist \o ts, pc' # "discarded", reply' = "ok"
  PROVE  Calls!Feed(ts)
<1> DEFINE out == returned'
<1>1. out \in [1..Len(ts) -> Token]
  BY LenProperties
<1>2. out = [i \in 1..Len(ts) |-> Target(hist \o SubSeq(ts, 1, i))]
  BY <1>1 DEF Prefix
<1> QED
  BY <1>2 DEF Calls!Feed, Calls!Room

LEMMA BlockStepFeeds ==
  ASSUME Inductive, NEW ts \in Batches, BlockStep(ts)
  PROVE  CallsStep
<1>1. ts \in Seq(Token) /\ Len(ts) \in 1..MaximumBlock
  BY BatchType
<1>2. /\ pc = "idle" /\ pc' = "idle" /\ mtp_position' = mtp_position
      /\ gdn[committed] = hist /\ Coherent(committed, current_position)
      /\ current_position = Len(hist) /\ Len(ts) <= Room
      /\ hist' = hist \o ts /\ reply' = "ok"
  BY DEF BlockStep, Inductive, Positions, HistoryHeld, Succeed
<1>3. PICK out \in Answers(ts, committed) : returned' = out
  BY DEF BlockStep, Succeed
<1>4. out \in Seq(Token) /\ Len(out) = Len(ts)
  BY <1>1, AnswersType
<1>5. \A i \in 1..Len(ts) : returned'[i] = Target(hist \o Prefix(ts, i))
  BY <1>2, <1>3 DEF Answers
<1>6. Calls!Feed(ts)
  BY <1>1, <1>2, <1>3, <1>4, <1>5, AnswersFeed DEF Room
<1>7. Calls!Block(ts)
  BY <1>2, <1>6 DEF Calls!Block
<1>8. ts \in Calls!Batch
  BY <1>1, LenProperties DEF Calls!Batch
<1>9. Said # "broken"
  BY <1>2, Usable
<1> QED
  BY <1>7, <1>8, <1>9 DEF CallsStep, Calls!CallsNext, Said

LEMMA MtpDraftCalls ==
  ASSUME Inductive, NEW t \in Token, MtpDraft(t)
  PROVE  CallsStep
<1>1. /\ pc = "idle" /\ pc' = "idle" /\ mtp_position' = mtp_position + 1
      /\ reply' = "ok" /\ UNCHANGED <<hist, returned>>
      /\ mtp_position + 1 = Len(hist)
  BY DEF MtpDraft, DraftAccepted, Aligned, Inductive, Positions
<1>2. Calls!DraftCall
  BY <1>1 DEF Calls!DraftCall, Calls!Aligned
<1>3. Said # "broken"
  BY <1>1, Usable
<1> QED
  BY <1>2, <1>3 DEF CallsStep, Calls!CallsNext, Said

(* A round that is judged is one speculative call: it was accepted on the  *)
(* positions it began with, and what it consumes is the seed and the       *)
(* drafts that the target model itself answered.                           *)
LEMMA RoundSpeculates ==
  ASSUME Inductive, pc = "download", NEW a \in 0..call.count, Accepted(a), Return(a),
         mtp_position' = call.mtp + a + 1
  PROVE  CallsStep
<1> DEFINE ts == Inputs(Prefix(draft_tokens, a))
<1>1. /\ ts \in Seq(Token) /\ Len(ts) = a + 1 /\ Len(ts) \in 1..MaximumBlock
      /\ returned' \in Seq(Token) /\ Len(returned') = Len(ts)
      /\ \A i \in 1..Len(ts) : returned'[i] = Target(hist \o Prefix(ts, i))
      /\ \A i \in 1..a : returned'[i] = Prefix(draft_tokens, a)[i]
      /\ hist' = hist \o ts
  BY ReturnAnswers
<1>2. /\ call.count \in 1..MaximumBlock - 1 /\ call.count \in Nat /\ call.seed \in Token
      /\ call.target = Len(hist) /\ call.mtp + 1 = call.target /\ call.mtp \in Nat
      /\ call.target + call.count + 1 <= maximum_context
      /\ draft_tokens \in Seq(Token) /\ Len(draft_tokens) = call.count
      /\ Len(hist) \in Nat
  BY Judged
<1>3. pc' = "idle" /\ reply' = "ok"
  BY DEF Return, Succeed
<1>4. a \in Nat /\ a + 1 \in Nat /\ maximum_context \in Nat
  BY <1>2, SizeAssumption
<1>5. Len(ts) <= maximum_context - Len(hist)
  BY <1>1, <1>2, <1>4
<1>6. ts[1] = call.seed /\ \A i \in 1..a : ts[i + 1] = returned'[i]
  <2> DEFINE b == Prefix(draft_tokens, a)
  <2>1. b \in Seq(Token) /\ Len(b) = a
    BY <1>2, PrefixType
  <2>2. <<call.seed>> \in Seq(Token) /\ Len(<<call.seed>>) = 1 /\ <<call.seed>>[1] = call.seed
    BY <1>2
  <2>3. ts = <<call.seed>> \o b
    BY DEF Inputs
  <2> HIDE DEF b, ts
  <2> DEFINE s == <<call.seed>>
  <2> HIDE DEF s
  <2>4. \A i \in 1..Len(s) + Len(b) : (s \o b)[i] = IF i <= Len(s) THEN s[i] ELSE b[i - Len(s)]
    BY <2>1, <2>2, ConcatProperties DEF s
  <2>5. ts = s \o b /\ Len(s) = 1 /\ s[1] = call.seed
    BY <2>2, <2>3 DEF s
  <2>6. ts[1] = call.seed
    <3>1. 1 \in 1..Len(s) + Len(b) /\ 1 <= Len(s)
      BY <1>4, <2>1, <2>5
    <3>2. (s \o b)[1] = s[1]
      BY <2>4, <3>1
    <3> QED
      BY <2>5, <3>2
  <2>7. ASSUME NEW i \in 1..a
        PROVE  ts[i + 1] = b[i]
    <3>1. i + 1 \in 1..Len(s) + Len(b) /\ ~(i + 1 <= Len(s)) /\ (i + 1) - Len(s) = i
      BY <1>4, <2>1, <2>5
    <3> QED
      BY <2>4, <2>5, <3>1
  <2> QED
    BY <1>1, <2>6, <2>7 DEF b
<1> HIDE DEF ts
<1>7. Calls!Feed(ts)
  BY <1>1, <1>3, <1>5, AnswersFeed
<1>8. ts \in [1..a + 1 -> Token]
  BY <1>1, LenProperties
<1>9. Calls!SpeculationAccepted(call.count)
  BY <1>2, <1>4 DEF Calls!SpeculationAccepted, Calls!Aligned, Calls!Room
<1>10. Calls!Speculate(call.seed, call.count)
  BY <1>3, <1>6, <1>7, <1>8, <1>9 DEF Calls!Speculate
<1>11. Said # "broken"
  BY Usable
<1> QED
  BY <1>2, <1>10, <1>11 DEF CallsStep, Calls!CallsNext, Said

LEMMA StepCalls ==
  ASSUME Inductive, [Next]_vars
  PROVE  CallsStep
<1>0. /\ mtp_position \in Nat /\ TypeOK
      /\ InRound => call.mtp \in Nat
      /\ pc \in {"propose", "graph"} => mtp_position = call.mtp
  BY SizeAssumption DEF Inductive, TypeOK, Positions
<1>1. CASE CaptureGraph
  <2>1. pc' \in {"capture", "idle"} /\ pc = "capture" /\ UNCHANGED <<hist, returned>>
        /\ mtp_position' = mtp_position /\ reply' = reply
    BY <1>1 DEF CaptureGraph, callerVars
  <2> QED
    BY <2>1, Stutters DEF Drafted, Said
<1>2. CASE CaptureFails
  <2>1. pc = "capture" /\ pc' = "discarded" /\ UNCHANGED <<hist, returned>>
        /\ mtp_position' = mtp_position
    BY <1>2 DEF CaptureFails
  <2> QED
    BY <1>0, <2>1, Breaks
<1>3. CASE Refuse \/ SnapshotFails \/ \E t \in Token : MtpDraftFails(t)
  <2>1. pc = "idle" /\ pc' = "idle" /\ UNCHANGED <<hist, returned>>
        /\ mtp_position' = mtp_position /\ reply' \in {"refused", "failed"}
    BY <1>3 DEF Refuse, SnapshotFails, MtpDraftFails, Fail
  <2> QED
    BY <2>1, Rejects DEF Drafted
<1>4. CASE \E t \in Token : GreedyStep(t)
  BY <1>4, GreedyStepIsBlockStep, BlockStepFeeds
<1>5. CASE \E ts \in Batches : BlockStep(ts)
  BY <1>5, BlockStepFeeds
<1>6. CASE \E ts \in Batches : TargetLaunchFails(ts) \/ TargetDownloadFails(ts)
  <2>1. pc = "idle" /\ pc' = "discarded" /\ UNCHANGED <<hist, returned>>
        /\ mtp_position' = mtp_position
    BY <1>6 DEF TargetLaunchFails, TargetDownloadFails, Discard, Fail
  <2> QED
    BY <1>0, <2>1, Breaks
<1>7. CASE \E t \in Token : MtpDraft(t)
  BY <1>7, MtpDraftCalls
<1>8. CASE \E seed \in Token, count \in 1..MaximumBlock - 1 : Begin(seed, count)
  <2>1. pc = "idle" /\ pc' \in {"propose", "graph"} /\ UNCHANGED <<hist, returned>>
        /\ mtp_position' = mtp_position /\ reply' = reply
    BY <1>8 DEF Begin, callerVars
  <2> QED
    BY <2>1, Stutters DEF Drafted, Said
<1>9. CASE Propose
  <2>1. pc = "propose" /\ pc' = pc /\ UNCHANGED <<hist, returned>>
        /\ mtp_position' = mtp_position /\ reply' = reply
    BY <1>9 DEF Propose, callerVars
  <2> QED
    BY <2>1, Stutters DEF Drafted, Said
<1>10. CASE Verify \/ LaunchGraph
  <2>1. pc \in {"propose", "graph"} /\ pc' = "download" /\ UNCHANGED <<hist, returned>>
        /\ call' = call /\ reply' = reply
    BY <1>10 DEF Verify, LaunchGraph, Launched, callerVars
  <2> QED
    BY <1>0, <2>1, Stutters DEF Drafted, Said
<1>11. CASE ProposalFails \/ VerifierFails \/ GraphFails
  <2>1. pc \in {"propose", "graph"} /\ pc' = "idle" /\ UNCHANGED <<hist, returned>>
        /\ mtp_position' = call.mtp /\ reply' = "failed"
    BY <1>11 DEF ProposalFails, VerifierFails, GraphFails, RollBack, Fail
  <2> QED
    BY <1>0, <2>1, Rejects DEF Drafted
<1>12. CASE DownloadFails \/ TailFails \/ \E a \in 0..MaximumBlock : RestoreFails(a)
  <2>1. pc = "download" /\ pc' = "discarded" /\ UNCHANGED <<hist, returned>>
        /\ mtp_position' = mtp_position
    BY <1>12 DEF DownloadFails, TailFails, RestoreFails, Discard, Fail
  <2> QED
    BY <1>0, <2>1, Breaks
<1>13. CASE \E a \in 0..MaximumBlock : AcceptPrefix(a)
  <2>1. PICK a \in 0..MaximumBlock : AcceptPrefix(a)
    BY <1>13
  <2>2. pc = "download" /\ Accepted(a) /\ Return(a) /\ a \in 0..call.count
        /\ mtp_position' = call.mtp + a + 1
    BY <2>1 DEF AcceptPrefix, Accepted
  <2> QED
    BY <2>2, RoundSpeculates
<1>14. CASE AcceptAll
  <2>1. /\ pc = "download" /\ Accepted(call.count) /\ Return(call.count)
        /\ call.count \in 0..call.count /\ mtp_position' = mtp_position + 1
    BY <1>14 DEF AcceptAll, Accepted
  <2>2. mtp_position' = call.mtp + call.count + 1
    BY <2>1, Judged
  <2> QED
    BY <2>1, <2>2, RoundSpeculates
<1>15. CASE Destroyed \/ UNCHANGED vars
  <2>1. UNCHANGED <<pc, call, mtp_position, reply, hist, returned>>
    BY <1>15 DEF Destroyed, vars
  <2> QED
    BY <2>1, Stutters DEF Drafted, Said
<1> QED
  BY <1>1, <1>2, <1>3, <1>4, <1>5, <1>6, <1>7, <1>8, <1>9, <1>10, <1>11, <1>12, <1>13,
     <1>14, <1>15 DEF Next, Create, TargetCall, MtpCall, SpeculativeCall

(* Its callers may use the session as one of SessionCalls: each call is    *)
(* one step with the guards, the effect and the failures stated there.     *)
THEOREM CallRefinement == Spec => ImplementsSessionCalls
<1>1. Init => Calls!CallsInit
  BY DEF Init, Calls!CallsInit
<1>2. Inductive /\ [Next]_vars => [Calls!CallsNext]_(Calls!sessionVars)
  BY StepCalls DEF CallsStep
<1> QED
  BY <1>1, <1>2, InductiveInvariance, PTL
  DEF Spec, ImplementsSessionCalls, Calls!CallsSpec

------------------------------------------------------------------------------
(***************************************************************************)
(* The draft model's cache follows the target: whatever is proposed,       *)
(* judged or rolled back, the entries below mtp_position pair the accepted *)
(* tokens with hidden states of the accepted history.                      *)
(***************************************************************************)

(* The first n entries of a cache c follow the history h.                  *)
EntryFollows(c, h, p) ==
  /\ p + 1 < Len(h) => c[p].token = h[p + 2]
  /\ c[p].hidden # Draft => c[p].hidden = Prefix(h, p + 1)

Follows(c, h, n) == \A p \in 0..n - 1 : EntryFollows(c, h, p)

(* The k entries from at on are those of a round's first proposals.        *)
RoundEntries(c, at, ts, h, k) ==
  \A i \in 0..k - 1 :
    /\ c[at + i].token = ts[i + 1]
    /\ c[at + i].hidden = IF i = 0 THEN h ELSE Draft

(* A round in progress is dropped or counted from call.mtp.                *)
Base == IF pc = "download" THEN call.mtp ELSE mtp_position

DraftCache ==
  /\ pc # "discarded" => Follows(mtp_kv, hist, Base)
  /\ pc = "propose" =>
       RoundEntries(mtp_kv, call.mtp, Inputs(draft_tokens), hist, Len(draft_tokens))
  /\ pc = "download" =>
       RoundEntries(mtp_kv, call.mtp, Inputs(draft_tokens), hist, call.count)

------------------------------------------------------------------------------

LEMMA SameCache ==
  ASSUME DraftCache, pc # "discarded", UNCHANGED <<mtp_kv, hist>>, Base' = Base,
         pc' \notin {"propose", "download"}
  PROVE  DraftCache'
BY DEF DraftCache

(* What a chain of proposals writes, and what it leaves alone.             *)
LEMMA ChainBelow ==
  ASSUME NEW at \in Nat, NEW ts \in Seq(Token), NEW h, NEW p \in Nat,
         p < maximum_context, p < at
  PROVE  MtpChain(at, ts, h)[p] = mtp_kv[p]
<1>1. p \in Position /\ p \notin at..at + Len(ts) - 1
  BY SizeAssumption, LenProperties DEF Position
<1> QED
  BY <1>1 DEF MtpChain

LEMMA ChainWritten ==
  ASSUME NEW at \in Nat, NEW ts \in Seq(Token), NEW h, NEW i \in Nat,
         at + i < maximum_context, i < Len(ts)
  PROVE  /\ MtpChain(at, ts, h)[at + i].token = ts[i + 1]
         /\ MtpChain(at, ts, h)[at + i].hidden = IF i = 0 THEN h ELSE Draft
<1> DEFINE p == at + i
<1>1. /\ p \in Position /\ p \in at..at + Len(ts) - 1
      /\ p - at + 1 = i + 1 /\ (p = at <=> i = 0)
  BY SizeAssumption, LenProperties DEF Position
<1> HIDE DEF p
<1>2. MtpChain(at, ts, h)[p]
        = [token |-> ts[p - at + 1], hidden |-> IF p = at THEN h ELSE Draft]
  BY <1>1 DEF MtpChain
<1>3. /\ MtpChain(at, ts, h)[p].token = ts[i + 1]
      /\ MtpChain(at, ts, h)[p].hidden = IF i = 0 THEN h ELSE Draft
  BY <1>1, <1>2
<1> QED
  BY <1>3 DEF p

LEMMA ChainFirst ==
  ASSUME NEW at \in Nat, NEW ts \in Seq(Token), NEW h, at < maximum_context, Len(ts) > 0
  PROVE  MtpChain(at, ts, h)[at].token = ts[1] /\ MtpChain(at, ts, h)[at].hidden = h
<1>1. /\ at \in Position /\ at \in at..at + Len(ts) - 1 /\ at - at + 1 = 1
  BY SizeAssumption, LenProperties DEF Position
<1>2. MtpChain(at, ts, h)[at]
        = [token |-> ts[at - at + 1], hidden |-> IF at = at THEN h ELSE Draft]
  BY <1>1 DEF MtpChain
<1> QED
  BY <1>1, <1>2

(* Entries below the first proposal stay.                                  *)
LEMMA ChainKeepsBelow ==
  ASSUME NEW at \in Nat, NEW ts \in Seq(Token), NEW h, NEW g, NEW n \in Nat,
         n <= at, n <= maximum_context, Follows(mtp_kv, g, n)
  PROVE  Follows(MtpChain(at, ts, h), g, n)
<1>1. ASSUME NEW p \in 0..n - 1
      PROVE  MtpChain(at, ts, h)[p] = mtp_kv[p]
  <2>1. p \in Nat /\ p < maximum_context /\ p < at
    BY SizeAssumption
  <2> QED
    BY <2>1, ChainBelow
<1> QED
  BY <1>1 DEF Follows, EntryFollows

(* Entries keep following when a batch is consumed; the one for the last   *)
(* token, if there is one, must be for the batch's first token.            *)
LEMMA FollowsGrows ==
  ASSUME NEW c, NEW h \in Seq(Token), NEW u \in Seq(Token), NEW n \in Nat,
         n <= Len(h), Len(u) > 0, Follows(c, h, n),
         n = Len(h) /\ n > 0 => c[n - 1].token = u[1]
  PROVE  Follows(c, h \o u, n)
<1>1. Len(h) \in Nat /\ Len(u) \in Nat
  BY LenProperties
<1>2. /\ Len(h \o u) = Len(h) + Len(u)
      /\ \A i \in 1..Len(h) + Len(u) :
           (h \o u)[i] = IF i <= Len(h) THEN h[i] ELSE u[i - Len(h)]
  BY ConcatProperties
<1>3. ASSUME NEW p \in 0..n - 1
      PROVE  EntryFollows(c, h \o u, p)
  <2>1. p \in Nat /\ p + 1 \in 0..Len(h) /\ p + 2 \in 1..Len(h) + Len(u)
    BY <1>1
  <2>2. Prefix(h \o u, p + 1) = Prefix(h, p + 1)
    BY <2>1, PrefixOfHistory
  <2>3. EntryFollows(c, h, p)
    BY DEF Follows
  <2>4. c[p].token = (h \o u)[p + 2]
    <3>1. CASE p + 1 < Len(h)
      <4>1. (h \o u)[p + 2] = h[p + 2]
        BY <1>1, <1>2, <2>1, <3>1
      <4> QED
        BY <2>3, <3>1, <4>1 DEF EntryFollows
    <3>2. CASE ~(p + 1 < Len(h))
      <4>1. n = Len(h) /\ n > 0 /\ p = n - 1 /\ ~(p + 2 <= Len(h)) /\ p + 2 - Len(h) = 1
        BY <1>1, <2>1, <3>2
      <4>2. (h \o u)[p + 2] = u[1]
        BY <1>2, <2>1, <4>1
      <4> QED
        BY <4>1, <4>2
    <3> QED
      BY <3>1, <3>2
  <2> QED
    BY <2>2, <2>3, <2>4 DEF EntryFollows
<1> QED
  BY <1>3 DEF Follows

(* The entries of a round follow the history with the accepted tokens.     *)
LEMMA RoundFollows ==
  ASSUME NEW c, NEW h \in Seq(Token), NEW ts \in Seq(Token), NEW at \in Nat,
         NEW m \in 1..Len(ts), NEW k \in 0..m, at + 1 = Len(h),
         Follows(c, h, at), RoundEntries(c, at, ts, h, k)
  PROVE  Follows(c, h \o Prefix(ts, m), at + k)
<1> DEFINE u == Prefix(ts, m)
<1>1. Len(h) \in Nat /\ Len(ts) \in Nat /\ m \in 0..Len(ts) /\ m \in Nat /\ k \in Nat
  BY LenProperties
<1>2. u \in Seq(Token) /\ Len(u) = m /\ \A i \in 1..m : u[i] = ts[i]
  BY <1>1, PrefixType
<1> HIDE DEF u
<1>3. Follows(c, h \o u, at)
  <2>1. at <= Len(h) /\ at # Len(h) /\ Len(u) > 0
    BY <1>1, <1>2
  <2> QED
    BY <1>2, <2>1, FollowsGrows
<1>4. \A i \in 1..Len(h) + Len(u) :
        (h \o u)[i] = IF i <= Len(h) THEN h[i] ELSE u[i - Len(h)]
  BY <1>2, ConcatProperties
<1>5. ASSUME NEW i \in 0..k - 1
      PROVE  EntryFollows(c, h \o u, at + i)
  <2>1. c[at + i].token = ts[i + 1] /\ c[at + i].hidden = IF i = 0 THEN h ELSE Draft
    BY DEF RoundEntries
  <2>2. /\ at + i + 2 \in 1..Len(h) + Len(u) /\ ~(at + i + 2 <= Len(h))
        /\ at + i + 2 - Len(h) = i + 1 /\ i + 1 \in 1..m
    BY SMTT(30), <1>1, <1>2
  <2>3. (h \o u)[at + i + 2] = u[i + 1]
    BY <1>4, <2>2
  <2>4. i = 0 => c[at + i].hidden = Prefix(h \o u, at + i + 1)
    <3>1. Len(h) \in 0..Len(h)
      BY <1>1
    <3>2. Prefix(h \o u, Len(h)) = Prefix(h, Len(h)) /\ Prefix(h, Len(h)) = h
      BY <1>2, <3>1, PrefixOfHistory, WholePrefix
    <3>3. i = 0 => at + i + 1 = Len(h)
      BY <1>1
    <3> QED
      BY <2>1, <3>2, <3>3
  <2> QED
    BY <1>2, <2>1, <2>2, <2>3, <2>4 DEF EntryFollows
<1>6. \A p \in 0..at + k - 1 : p \in 0..at - 1 \/ (p - at \in 0..k - 1 /\ at + (p - at) = p)
  BY <1>1
<1>7. \A p \in 0..at + k - 1 : EntryFollows(c, h \o u, p)
  <2> TAKE p \in 0..at + k - 1
  <2>1. CASE p \in 0..at - 1
    BY <1>3, <2>1 DEF Follows
  <2>2. CASE p - at \in 0..k - 1 /\ at + (p - at) = p
    <3> DEFINE i == p - at
    <3>1. EntryFollows(c, h \o u, at + i)
      BY <1>5, <2>2
    <3> QED
      BY <2>2, <3>1
  <2> QED
    BY <1>6, <2>1, <2>2
<1> QED
  BY <1>7 DEF Follows, u

LEMMA FollowsNext ==
  ASSUME NEW c, NEW h, NEW n \in Nat, Follows(c, h, n), EntryFollows(c, h, n)
  PROVE  Follows(c, h, n + 1)
<1>1. ASSUME NEW p \in 0..n
      PROVE  EntryFollows(c, h, p)
  <2>1. CASE p \in 0..n - 1
    BY <2>1 DEF Follows
  <2>2. CASE p = n
    BY <2>2
  <2> QED
    BY <2>1, <2>2
<1>2. (n + 1) - 1 = n
  OBVIOUS
<1> QED
  BY <1>1, <1>2 DEF Follows

LEMMA InputsAt ==
  ASSUME Inductive, InRound, NEW ds \in Seq(Token)
  PROVE  Inputs(ds)[1] = call.seed /\ \A i \in 1..Len(ds) : Inputs(ds)[i + 1] = ds[i]
<1> DEFINE s == <<call.seed>>
<1>1. s \in Seq(Token) /\ Len(s) = 1 /\ s[1] = call.seed
  BY InputsType
<1>2. Inputs(ds) = s \o ds /\ Len(ds) \in Nat
  BY LenProperties DEF Inputs
<1> HIDE DEF s
<1>3. \A i \in 1..Len(s) + Len(ds) : (s \o ds)[i] = IF i <= Len(s) THEN s[i] ELSE ds[i - Len(s)]
  BY <1>1, ConcatProperties
<1>4. 1 \in 1..Len(s) + Len(ds) /\ 1 <= Len(s)
  BY <1>1, <1>2
<1>5. (s \o ds)[1] = s[1]
  BY <1>3, <1>4
<1>6. ASSUME NEW i \in 1..Len(ds)
      PROVE  (s \o ds)[i + 1] = ds[i]
  <2>1. i + 1 \in 1..Len(s) + Len(ds) /\ ~(i + 1 <= Len(s)) /\ (i + 1) - Len(s) = i
    BY <1>1, <1>2
  <2> QED
    BY <1>3, <2>1
<1> QED
  BY <1>1, <1>2, <1>5, <1>6

------------------------------------------------------------------------------
(* Calls *)

LEMMA InitCache == Init => DraftCache
BY DEF Init, DraftCache, Base, Follows

(* A batch is consumed, the token promised to mtp_draft first.             *)
LEMMA BlockStepCache ==
  ASSUME Inductive, DraftCache, NEW ts \in Batches, BlockStep(ts)
  PROVE  DraftCache'
<1>1. /\ ts \in Seq(Token) /\ Len(ts) > 0
  BY BatchType
<1>2. /\ pc = "idle" /\ pc' = "idle" /\ UNCHANGED <<mtp_position, mtp_kv>>
      /\ hist' = hist \o ts /\ Promised(ts[1])
  BY DEF BlockStep, Succeed
<1>3. /\ hist \in Seq(Token) /\ mtp_position \in Nat /\ mtp_position <= Len(hist)
      /\ current_position = Len(hist)
  BY <1>2, SizeAssumption DEF Inductive, TypeOK, Positions
<1>4. mtp_position = Len(hist) /\ mtp_position > 0 =>
        mtp_kv[mtp_position - 1].token = ts[1]
  BY <1>2, <1>3 DEF Promised
<1>5. Follows(mtp_kv, hist, mtp_position)
  BY <1>2 DEF DraftCache, Base
<1>6. Follows(mtp_kv, hist \o ts, mtp_position)
  BY <1>1, <1>3, <1>4, <1>5, FollowsGrows
<1> QED
  BY <1>2, <1>6 DEF DraftCache, Base

(* One proposal on the hidden state of the last accepted token.            *)
LEMMA MtpDraftCache ==
  ASSUME Inductive, DraftCache, NEW t \in Token, MtpDraft(t) \/ MtpDraftFails(t)
  PROVE  DraftCache'
<1> DEFINE n == mtp_position
           c == MtpChain(n, <<t>>, Hidden(0))
<1>1. /\ pc = "idle" /\ pc' = "idle" /\ hist' = hist /\ ~mtp_chain_active
      /\ last_hidden # NullHidden /\ n + 1 = current_position
      /\ current_position = Len(hist) /\ Hidden(0) = hist
      /\ hist \in Seq(Token)
  BY DEF MtpDraft, MtpDraftFails, DraftAccepted, Aligned, Fail, Inductive, TypeOK, Positions,
         HiddenIsCurrent
<1>2. /\ n \in Nat /\ n + 1 <= maximum_context /\ maximum_context \in Nat
      /\ <<t>> \in Seq(Token) /\ Len(<<t>>) = 1
  BY <1>1, SizeAssumption DEF Inductive, TypeOK
<1>3. Follows(mtp_kv, hist, n)
  BY <1>1 DEF DraftCache, Base
<1>4. Follows(c, hist, n)
  <2>1. n <= n /\ n <= maximum_context
    BY <1>2
  <2> QED
    BY <1>2, <1>3, <2>1, ChainKeepsBelow
<1>5. EntryFollows(c, hist, n)
  <2>1. MtpChain(n, <<t>>, Hidden(0))[n].hidden = Hidden(0)
    <3>1. n < maximum_context
      BY <1>2
    <3> DEFINE ts == <<t>>
               h == Hidden(0)
    <3>2. ts \in Seq(Token) /\ 0 < Len(ts) /\ n \in Nat
      BY <1>2
    <3> HIDE DEF ts, h
    <3>3. MtpChain(n, ts, h)[n].hidden = h
      BY <3>1, <3>2, ChainFirst
    <3> QED
      BY <3>3 DEF ts, h
  <2>2. c[n].hidden = hist /\ Prefix(hist, n + 1) = hist
    BY <1>1, <1>2, <2>1, WholePrefix
  <2>3. ~(n + 1 < Len(hist))
    BY <1>1, <1>2
  <2> QED
    BY <2>2, <2>3 DEF EntryFollows
<1> HIDE DEF c
<1>6. CASE MtpDraft(t)
  <2>1. mtp_kv' = c /\ mtp_position' = n + 1
    BY <1>1, <1>6 DEF MtpDraft, c
  <2>2. Follows(c, hist, n + 1)
    BY <1>2, <1>4, <1>5, FollowsNext
  <2> QED
    BY <1>1, <2>1, <2>2 DEF DraftCache, Base
<1>7. CASE MtpDraftFails(t)
  <2>1. mtp_kv' \in {mtp_kv, c} /\ mtp_position' = n
    BY <1>1, <1>7 DEF MtpDraftFails, c
  <2> QED
    BY <1>1, <1>3, <1>4, <2>1 DEF DraftCache, Base
<1> QED
  BY <1>6, <1>7


------------------------------------------------------------------------------
(* Rounds *)

(* Where a round stands before it is launched.                             *)
LEMMA Proposing ==
  ASSUME Inductive, DraftCache, pc \in {"propose", "graph"}
  PROVE  /\ call.mtp \in Nat /\ call.mtp + 1 = Len(hist) /\ mtp_position = call.mtp
         /\ call.count \in Nat /\ call.count > 0
         /\ call.mtp + call.count < maximum_context
         /\ maximum_context \in Nat
         /\ hist \in Seq(Token) /\ draft_tokens \in Seq(Token)
         /\ Len(draft_tokens) \in Nat /\ Len(draft_tokens) <= call.count
         /\ snapshot = hist /\ InRound
         /\ Follows(mtp_kv, hist, call.mtp)
<1>1. /\ call.mtp \in Nat /\ call.mtp + 1 = call.target /\ call.target = Len(hist)
      /\ call.count \in 1..MaximumBlock - 1
      /\ call.target + call.count + 1 <= maximum_context
      /\ mtp_position = call.mtp /\ Len(draft_tokens) <= call.count
      /\ snapshot = hist /\ InRound
  BY DEF Inductive, Positions, InRound
<1>2. /\ hist \in Seq(Token) /\ draft_tokens \in Seq(Token)
      /\ Len(draft_tokens) \in Nat /\ maximum_context \in Nat /\ MaximumBlock \in Nat
  BY SizeAssumption, LenProperties DEF Inductive, TypeOK
<1>3. Follows(mtp_kv, hist, mtp_position)
  BY DEF DraftCache, Base
<1>4. call.count \in Nat /\ call.count > 0 /\ call.mtp + call.count < maximum_context
  BY <1>1, <1>2
<1> QED
  BY <1>1, <1>2, <1>3, <1>4

LEMMA BeginCache ==
  ASSUME Inductive, DraftCache, NEW seed \in Token, NEW count \in 1..MaximumBlock - 1,
         Begin(seed, count)
  PROVE  DraftCache'
<1>1. /\ pc = "idle" /\ pc' \in {"graph", "propose"}
      /\ UNCHANGED <<mtp_position, mtp_kv, draft_tokens, hist>>
  BY DEF Begin, callerVars
<1>2. Len(draft_tokens') = 0
  BY <1>1, EmptySeq DEF Inductive, Positions
<1> QED
  BY <1>1, <1>2 DEF DraftCache, Base, RoundEntries

(* One more proposal: its entry joins those of the round.                  *)
LEMMA ProposeCache ==
  ASSUME Inductive, DraftCache, Propose
  PROVE  DraftCache'
<1> DEFINE n == Len(draft_tokens)
           x == Inputs(draft_tokens)
           y == Inputs(draft_tokens')
           one == <<x[n + 1]>>
           h == IF n = 0 THEN snapshot ELSE Draft
           c == MtpChain(call.mtp + n, one, h)
<1>1. /\ pc = "propose" /\ pc' = pc /\ n < call.count
      /\ UNCHANGED <<mtp_position, call, hist>> /\ mtp_kv' = c
  BY DEF Propose, ProposalEntry, callerVars
<1>2. PICK t \in Token : draft_tokens' = Append(draft_tokens, t)
  BY DEF Propose
<1>3. /\ call.mtp \in Nat /\ call.count \in Nat /\ mtp_position = call.mtp
      /\ call.mtp + call.count < maximum_context /\ maximum_context \in Nat
      /\ hist \in Seq(Token) /\ draft_tokens \in Seq(Token) /\ n \in Nat
      /\ snapshot = hist /\ InRound /\ Follows(mtp_kv, hist, call.mtp)
  BY <1>1, Proposing
<1>4. /\ draft_tokens' \in Seq(Token) /\ Len(draft_tokens') = n + 1
      /\ \A i \in 1..n : draft_tokens'[i] = draft_tokens[i]
  BY <1>2, <1>3, AppendProperties
<1>5. /\ x \in Seq(Token) /\ Len(x) = n + 1 /\ x[1] = call.seed
      /\ \A i \in 1..n : x[i + 1] = draft_tokens[i]
  BY <1>3, InputsType, InputsAt
<1>6. y[1] = call.seed /\ \A i \in 1..n + 1 : y[i + 1] = draft_tokens'[i]
  <2> DEFINE ds == draft_tokens'
  <2>1. ds \in Seq(Token) /\ Len(ds) = n + 1
    BY <1>4
  <2>2. Inputs(ds)[1] = call.seed /\ \A i \in 1..Len(ds) : Inputs(ds)[i + 1] = ds[i]
    <3> HIDE DEF ds
    <3> QED
      BY <1>3, <2>1, InputsAt
  <2>3. \A i \in 1..n + 1 : Inputs(ds)[i + 1] = ds[i]
    BY <2>1, <2>2
  <2> QED
    BY <2>2, <2>3
<1>7. \A i \in 0..n : y[i + 1] = x[i + 1]
  <2> SUFFICES ASSUME NEW i \in 0..n PROVE y[i + 1] = x[i + 1]
    OBVIOUS
  <2>1. CASE i = 0
    BY <1>5, <1>6, <2>1
  <2>2. CASE i # 0
    <3>1. i \in 1..n /\ i \in 1..n + 1
      BY <1>3, <2>2
    <3> QED
      BY <1>4, <1>5, <1>6, <3>1
  <2> QED
    BY <2>1, <2>2
<1>8. one \in Seq(Token) /\ Len(one) = 1 /\ one[1] = x[n + 1]
  <2>1. n + 1 \in 1..Len(x)
    BY <1>3, <1>5
  <2>2. x[n + 1] \in Token
    BY <1>5, <2>1, ElementOfSeq
  <2> QED
    BY <2>2
<1>9. call.mtp + n \in Nat /\ call.mtp + n < maximum_context
  BY <1>1, <1>3
<1> DEFINE at == call.mtp + n
<1> HIDE DEF one, h, x, y, at
<1>10. Follows(c, hist, call.mtp)
  <2>1. call.mtp <= at /\ call.mtp <= maximum_context /\ at \in Nat
    BY <1>3, <1>9 DEF at
  <2>2. Follows(MtpChain(at, one, h), hist, call.mtp)
    BY <1>3, <1>8, <2>1, ChainKeepsBelow
  <2> QED
    BY <2>2 DEF at
<1>11. ASSUME NEW i \in 0..n
       PROVE  /\ c[call.mtp + i].token = y[i + 1]
              /\ c[call.mtp + i].hidden = IF i = 0 THEN hist ELSE Draft
  <2>1. CASE i = n
    <3>1. at \in Nat /\ at < maximum_context /\ 0 < Len(one)
      BY <1>8, <1>9 DEF at
    <3>2. MtpChain(at, one, h)[at].token = one[1] /\ MtpChain(at, one, h)[at].hidden = h
      BY <1>8, <3>1, ChainFirst
    <3>3. at = call.mtp + i
      BY <2>1 DEF at
    <3>4. c[call.mtp + i].token = one[1] /\ c[call.mtp + i].hidden = h
      <4>1. c = MtpChain(at, one, h)
        BY DEF at
      <4> HIDE DEF c
      <4> QED
        BY <3>2, <3>3, <4>1
    <3>5. one[1] = y[i + 1]
      BY <1>7, <1>8, <2>1
    <3>6. h = IF i = 0 THEN hist ELSE Draft
      BY <1>3, <2>1 DEF h
    <3> QED
      BY <3>4, <3>5, <3>6
  <2>2. CASE i # n
    <3> DEFINE p == call.mtp + i
    <3>1. i \in 0..n - 1 /\ p \in Nat /\ p < maximum_context /\ p < at /\ at \in Nat
      BY <1>3, <1>9, <2>2 DEF at
    <3>2. MtpChain(at, one, h)[p] = mtp_kv[p]
      <4> HIDE DEF p
      <4> QED
        BY <1>8, <3>1, ChainBelow
    <3>3. /\ mtp_kv[p].token = x[i + 1]
          /\ mtp_kv[p].hidden = IF i = 0 THEN hist ELSE Draft
      BY <1>1, <3>1 DEF DraftCache, RoundEntries, x
    <3> QED
      BY <1>7, <3>2, <3>3 DEF at
  <2> QED
    BY <2>1, <2>2
<1> HIDE DEF c
<1>12. RoundEntries(c, call.mtp, y, hist, n + 1)
  <2>1. (n + 1) - 1 = n
    BY <1>3
  <2> QED
    BY <1>11, <2>1 DEF RoundEntries
<1>13. /\ pc' = "propose" /\ mtp_kv' = c /\ hist' = hist /\ call' = call
       /\ Base' = call.mtp /\ Len(draft_tokens') = n + 1
  BY <1>1, <1>3, <1>4 DEF Base
<1>14. Inputs(draft_tokens)' = y
  BY <1>1 DEF Inputs, y
<1> QED
  BY <1>10, <1>12, <1>13, <1>14 DEF DraftCache


(* The verifier adds nothing to the entries of an eager round.             *)
LEMMA VerifyCache ==
  ASSUME Inductive, DraftCache, Verify
  PROVE  DraftCache'
<1>1. /\ pc = "propose" /\ pc' = "download" /\ Len(draft_tokens) = call.count
      /\ UNCHANGED <<mtp_kv, draft_tokens, call, hist>>
  BY DEF Verify, Launched, callerVars
<1>2. Follows(mtp_kv, hist, call.mtp)
  BY <1>1, Proposing
<1>3. RoundEntries(mtp_kv, call.mtp, Inputs(draft_tokens), hist, call.count)
  BY <1>1 DEF DraftCache
<1>4. Inputs(draft_tokens)' = Inputs(draft_tokens)
  BY <1>1 DEF Inputs
<1> QED
  BY <1>1, <1>2, <1>3, <1>4 DEF DraftCache, Base

(* The graph writes all entries of a round at once.                        *)
LEMMA LaunchGraphCache ==
  ASSUME Inductive, DraftCache, LaunchGraph
  PROVE  DraftCache'
<1>1. PICK ds \in [1..call.count -> Token] :
        /\ draft_tokens' = ds
        /\ mtp_kv' = MtpChain(call.mtp, Prefix(Inputs(ds), call.count), snapshot)
        /\ pc' = "download" /\ UNCHANGED <<call, hist>>
  BY DEF LaunchGraph, Launched, callerVars
<1>2. /\ call.mtp \in Nat /\ call.count \in Nat /\ call.count > 0
      /\ call.mtp + call.count < maximum_context /\ maximum_context \in Nat
      /\ snapshot = hist /\ InRound /\ Follows(mtp_kv, hist, call.mtp)
  BY Proposing DEF LaunchGraph
<1>3. ds \in Seq(Token) /\ Len(ds) = call.count
  <2>1. ds \in Seq(Token)
    BY <1>2, SeqDef
  <2> QED
    BY <1>2, <2>1, LenProperties
<1> DEFINE x == Inputs(ds)
           ts == Prefix(x, call.count)
           c == MtpChain(call.mtp, ts, snapshot)
<1>4. x \in Seq(Token) /\ Len(x) = call.count + 1
  BY <1>2, <1>3, InputsType
<1>5. ts \in Seq(Token) /\ Len(ts) = call.count /\ \A i \in 1..call.count : ts[i] = x[i]
  <2>1. call.count \in 0..Len(x)
    BY <1>2, <1>4
  <2> QED
    BY <1>4, <2>1, PrefixType
<1> HIDE DEF ts, x
<1>6. Follows(c, hist, call.mtp)
  <2>1. call.mtp <= call.mtp /\ call.mtp <= maximum_context
    BY <1>2
  <2> QED
    BY <1>2, <1>5, <2>1, ChainKeepsBelow
<1>7. ASSUME NEW i \in 0..call.count - 1
      PROVE  /\ c[call.mtp + i].token = x[i + 1]
             /\ c[call.mtp + i].hidden = IF i = 0 THEN hist ELSE Draft
  <2>1. i \in Nat /\ call.mtp + i < maximum_context /\ i < Len(ts) /\ i + 1 \in 1..call.count
    BY <1>2, <1>5
  <2>2. /\ c[call.mtp + i].token = ts[i + 1]
        /\ c[call.mtp + i].hidden = IF i = 0 THEN snapshot ELSE Draft
    BY <1>2, <1>5, <2>1, ChainWritten
  <2> QED
    BY <1>2, <1>5, <2>1, <2>2
<1> HIDE DEF c
<1>8. RoundEntries(c, call.mtp, x, hist, call.count)
  BY <1>7 DEF RoundEntries
<1>9. Inputs(draft_tokens)' = x /\ mtp_kv' = c
  BY <1>1 DEF Inputs, x, ts, c
<1> QED
  BY <1>1, <1>6, <1>8, <1>9 DEF DraftCache, Base

(* A round given up before its launch: its entries are above the position. *)
LEMMA RoundFailsCache ==
  ASSUME Inductive, DraftCache, ProposalFails \/ VerifierFails \/ GraphFails
  PROVE  DraftCache'
<1>1. /\ pc \in {"propose", "graph"} /\ pc' = "idle" /\ hist' = hist
      /\ mtp_position' = call.mtp
      /\ mtp_kv' \in {mtp_kv, ProposalEntry}
  <2>1. /\ pc \in {"propose", "graph"} /\ pc' = "idle" /\ hist' = hist
        /\ mtp_position' = call.mtp
    BY DEF ProposalFails, VerifierFails, GraphFails, RollBack, Fail
  <2>2. ProposalFails => mtp_kv' \in {mtp_kv, ProposalEntry}
    BY DEF ProposalFails
  <2>3. VerifierFails \/ GraphFails => mtp_kv' = mtp_kv
    BY DEF VerifierFails, GraphFails
  <2>4. mtp_kv' \in {mtp_kv, ProposalEntry}
    BY <2>2, <2>3
  <2> QED
    BY <2>1, <2>4
<1>2. /\ call.mtp \in Nat /\ call.mtp <= maximum_context
      /\ draft_tokens \in Seq(Token) /\ Len(draft_tokens) \in Nat /\ InRound
      /\ Follows(mtp_kv, hist, call.mtp)
  BY <1>1, Proposing
<1>3. CASE mtp_kv' = mtp_kv
  BY <1>1, <1>2, <1>3 DEF DraftCache, Base
<1>4. CASE mtp_kv' = ProposalEntry
  <2> DEFINE n == Len(draft_tokens)
             one == <<Inputs(draft_tokens)[n + 1]>>
             h == IF n = 0 THEN snapshot ELSE Draft
             at == call.mtp + n
  <2>1. /\ Inputs(draft_tokens) \in Seq(Token) /\ n + 1 \in 1..Len(Inputs(draft_tokens))
    <3>1. Inputs(draft_tokens) \in Seq(Token) /\ Len(Inputs(draft_tokens)) = n + 1
      BY <1>2, InputsType
    <3> QED
      BY <1>2, <3>1
  <2>2. one \in Seq(Token)
    <3>1. Inputs(draft_tokens)[n + 1] \in Token
      BY <2>1, ElementOfSeq
    <3> QED
      BY <3>1
  <2>3. at \in Nat /\ call.mtp <= at
    BY <1>2
  <2>4. ProposalEntry = MtpChain(at, one, h)
    BY DEF ProposalEntry
  <2> HIDE DEF at, one, h
  <2>5. Follows(ProposalEntry, hist, call.mtp)
    BY <1>2, <2>2, <2>3, <2>4, ChainKeepsBelow
  <2> QED
    BY <1>1, <1>4, <2>5 DEF DraftCache, Base
<1> QED
  BY <1>1, <1>3, <1>4


(* What both judgements make of the round's entries.                       *)
LEMMA JudgedCache ==
  ASSUME Inductive, DraftCache, pc = "download", NEW a \in 0..call.count, Return(a)
  PROVE  LET ts == Inputs(draft_tokens) IN
         /\ ts \in Seq(Token) /\ Len(ts) = call.count + 1
         /\ call.count \in Nat /\ call.count > 0 /\ call.mtp \in Nat
         /\ call.mtp + call.count < maximum_context
         /\ hist \in Seq(Token) /\ Len(hist) = call.mtp + 1
         /\ pc' = "idle" /\ hist' = hist \o Prefix(ts, a + 1)
         /\ \A k \in 0..call.count : k <= a + 1 =>
              Follows(mtp_kv, hist \o Prefix(ts, a + 1), call.mtp + k)
<1> DEFINE ts == Inputs(draft_tokens)
<1>1. /\ ts \in Seq(Token) /\ Len(ts) = call.count + 1
      /\ call.count \in Nat /\ call.count \in 1..MaximumBlock - 1 /\ call.mtp \in Nat
      /\ call.target + call.count + 1 <= maximum_context
      /\ hist \in Seq(Token) /\ Len(hist) \in Nat
      /\ call.target = Len(hist) /\ call.mtp + 1 = call.target
  BY Judged
<1>2. call.count > 0 /\ Len(hist) = call.mtp + 1 /\ call.mtp + call.count < maximum_context
  BY <1>1, SizeAssumption
<1>3. pc' = "idle" /\ hist' = hist \o Prefix(ts, a + 1)
  BY ReturnType
<1>4. /\ Follows(mtp_kv, hist, call.mtp)
      /\ RoundEntries(mtp_kv, call.mtp, ts, hist, call.count)
  BY DEF DraftCache, Base
<1> HIDE DEF ts
<1>5. ASSUME NEW k \in 0..call.count, k <= a + 1
      PROVE  Follows(mtp_kv, hist \o Prefix(ts, a + 1), call.mtp + k)
  <2>1. RoundEntries(mtp_kv, call.mtp, ts, hist, k)
    BY <1>1, <1>4 DEF RoundEntries
  <2>2. a + 1 \in 1..Len(ts) /\ k \in 0..a + 1 /\ call.mtp + 1 = Len(hist)
    BY <1>1, <1>5
  <2> DEFINE m == a + 1
  <2>3. m \in 1..Len(ts) /\ k \in 0..m
    BY <2>2
  <2> HIDE DEF m
  <2>4. Follows(mtp_kv, hist \o Prefix(ts, m), call.mtp + k)
    BY <1>1, <1>4, <2>1, <2>2, <2>3, RoundFollows
  <2> QED
    BY <2>4 DEF m
<1> QED
  BY <1>1, <1>2, <1>3, <1>5 DEF ts

LEMMA AcceptPrefixCache ==
  ASSUME Inductive, DraftCache, NEW a \in 0..MaximumBlock, AcceptPrefix(a)
  PROVE  DraftCache'
<1>1. /\ pc = "download" /\ a \in 0..call.count /\ a < call.count /\ Return(a)
      /\ mtp_position' = call.mtp + a + 1 /\ mtp_kv' = mtp_kv
  BY DEF AcceptPrefix, Accepted
<1>2. /\ call.count \in Nat /\ call.mtp \in Nat
      /\ pc' = "idle" /\ hist' = hist \o Prefix(Inputs(draft_tokens), a + 1)
      /\ \A k \in 0..call.count : k <= a + 1 =>
           Follows(mtp_kv, hist \o Prefix(Inputs(draft_tokens), a + 1), call.mtp + k)
  BY <1>1, JudgedCache
<1>3. a + 1 \in 0..call.count /\ a + 1 <= a + 1 /\ call.mtp + (a + 1) = call.mtp + a + 1
  BY SMTT(30), <1>1, <1>2
<1>4. Follows(mtp_kv, hist', call.mtp + (a + 1))
  BY <1>2, <1>3
<1> QED
  BY <1>1, <1>2, <1>3, <1>4 DEF DraftCache, Base

(* The tail entry takes the last draft, on the exact row before it.        *)
LEMMA AcceptAllCache ==
  ASSUME Inductive, DraftCache, AcceptAll
  PROVE  DraftCache'
<1> DEFINE x == Inputs(draft_tokens)
           n == call.count
           one == <<draft_tokens[n]>>
           h == Hidden(1)
           g == hist \o Prefix(x, n + 1)
           c == MtpChain(mtp_position, one, h)
<1>1. /\ pc = "download" /\ n \in 0..n /\ Return(n)
      /\ mtp_position' = mtp_position + 1 /\ mtp_kv' = c
  BY DEF AcceptAll, Accepted, TailEntry
<1>2. /\ x \in Seq(Token) /\ Len(x) = n + 1 /\ n \in Nat /\ n > 0
      /\ call.mtp \in Nat /\ call.mtp + n < maximum_context
      /\ hist \in Seq(Token) /\ Len(hist) = call.mtp + 1
      /\ pc' = "idle" /\ hist' = g
      /\ \A k \in 0..n : k <= n + 1 => Follows(mtp_kv, g, call.mtp + k)
  BY <1>1, JudgedCache
<1>3. /\ mtp_position = call.mtp + n /\ last_hidden = n
      /\ draft_tokens \in Seq(Token) /\ Len(draft_tokens) = n
      /\ \A i \in 1..Len(x) : rows[i - 1] = hist \o Prefix(x, i)
  BY <1>1, Judged
<1>4. /\ n + 1 \in 0..Len(x) /\ n \in 1..Len(x) /\ n \in 0..n + 1 /\ n \in 1..n
      /\ n <= n + 1 /\ n + 1 \in 1..n + 1 /\ n \in 0..n
  BY <1>2
<1>5. /\ one \in Seq(Token) /\ Len(one) = 1 /\ one[1] = x[n + 1]
  <2>1. draft_tokens[n] \in Token
    BY <1>3, <1>4, ElementOfSeq
  <2>2. x[n + 1] = draft_tokens[n]
    <3>1. \A i \in 1..Len(draft_tokens) : Inputs(draft_tokens)[i + 1] = draft_tokens[i]
      BY <1>1, <1>3, InputsAt DEF InRound
    <3> QED
      BY <1>3, <1>4, <3>1
  <2> QED
    BY <2>1, <2>2
<1>6. h = Prefix(g, mtp_position + 1)
  <2>1. h = rows[n - 1]
    BY <1>2, <1>3 DEF Hidden, SnapshotHidden
  <2>2. rows[n - 1] = hist \o Prefix(x, n)
    BY <1>3, <1>4
  <2>3. Prefix(hist \o Prefix(x, n + 1), Len(hist) + n) = hist \o Prefix(x, n)
    <3> DEFINE m == n + 1
    <3>1. m \in 0..Len(x) /\ n \in 0..m
      BY <1>4
    <3> HIDE DEF m, x, n
    <3>2. Prefix(hist \o Prefix(x, m), Len(hist) + n) = hist \o Prefix(x, n)
      BY <1>2, <3>1, PrefixIntoBlock
    <3> QED
      BY <3>2 DEF m
  <2>4. Len(hist) + n = mtp_position + 1
    BY <1>2, <1>3
  <2> QED
    BY <2>1, <2>2, <2>3, <2>4
<1>7. Len(g) = Len(hist) + n + 1 /\ g[Len(hist) + n + 1] = x[n + 1]
  <2> DEFINE u == Prefix(x, n + 1)
  <2>1. u \in Seq(Token) /\ Len(u) = n + 1 /\ u[n + 1] = x[n + 1]
    <3> DEFINE m == n + 1
    <3>1. m \in 0..Len(x) /\ m \in 1..m
      BY <1>4
    <3> HIDE DEF m, x, n
    <3>2. Prefix(x, m) \in Seq(Token) /\ Len(Prefix(x, m)) = m /\ Prefix(x, m)[m] = x[m]
      BY <1>2, <3>1, PrefixType
    <3> QED
      BY <3>2 DEF m
  <2>2. /\ Len(hist) \in Nat /\ hist \in Seq(Token) /\ n \in Nat
    BY <1>2
  <2> HIDE DEF u, x, n
  <2>3. /\ Len(hist \o u) = Len(hist) + Len(u)
        /\ \A i \in 1..Len(hist) + Len(u) :
             (hist \o u)[i] = IF i <= Len(hist) THEN hist[i] ELSE u[i - Len(hist)]
    BY <2>1, <2>2, ConcatProperties
  <2> DEFINE last == Len(hist) + n + 1
  <2>4. /\ last \in 1..Len(hist) + Len(u) /\ ~(last <= Len(hist))
        /\ last - Len(hist) = n + 1 /\ Len(hist) + Len(u) = last
    BY <2>1, <2>2
  <2> HIDE DEF last
  <2>5. (hist \o u)[last] = u[n + 1]
    BY <2>3, <2>4
  <2> QED
    BY <2>1, <2>3, <2>4, <2>5 DEF u, last
<1> HIDE DEF x, one, h, g, n
<1>8. Follows(c, g, mtp_position)
  <2>1. mtp_position \in Nat /\ mtp_position <= mtp_position /\ mtp_position <= maximum_context
    BY <1>2, <1>3, SizeAssumption
  <2>2. Follows(mtp_kv, g, mtp_position)
    BY <1>2, <1>3, <1>4
  <2> QED
    BY <1>5, <2>1, <2>2, ChainKeepsBelow
<1>9. c[mtp_position].token = x[n + 1] /\ c[mtp_position].hidden = h
  <2>1. mtp_position \in Nat /\ mtp_position < maximum_context /\ Len(one) > 0
    BY <1>2, <1>3, <1>5
  <2>2. c[mtp_position].token = one[1] /\ c[mtp_position].hidden = h
    BY <1>5, <2>1, ChainFirst
  <2> QED
    BY <1>5, <2>2
<1> HIDE DEF c
<1>10. EntryFollows(c, g, mtp_position)
  <2>1. mtp_position + 2 = Len(hist) + n + 1
    BY <1>2, <1>3
  <2> QED
    BY <1>6, <1>7, <1>9, <2>1 DEF EntryFollows
<1>11. Follows(c, g, mtp_position + 1)
  <2>1. mtp_position \in Nat
    BY <1>2, <1>3
  <2> QED
    BY <1>8, <1>10, <2>1, FollowsNext
<1> QED
  BY <1>1, <1>2, <1>11 DEF DraftCache, Base

(* The draft cache survives every step.                                    *)
LEMMA DraftCacheStep ==
  ASSUME Inductive, DraftCache, [Next]_vars
  PROVE  DraftCache'
<1>1. CASE CaptureGraph \/ Refuse \/ SnapshotFails
  <2>1. /\ pc # "discarded" /\ pc \notin {"propose", "download"}
        /\ pc' \notin {"propose", "download"}
        /\ UNCHANGED <<mtp_kv, hist, mtp_position>>
    BY <1>1 DEF CaptureGraph, Refuse, SnapshotFails, callerVars, Fail
  <2>2. Base' = Base
    BY <2>1 DEF Base
  <2> QED
    BY <2>1, <2>2, SameCache
<1>2. CASE pc' = "discarded"
  BY <1>2 DEF DraftCache
<1>3. CASE \/ CaptureFails \/ DownloadFails \/ TailFails
           \/ \E ts \in Batches : TargetLaunchFails(ts) \/ TargetDownloadFails(ts)
           \/ \E a \in 0..MaximumBlock : RestoreFails(a)
  <2>1. pc' = "discarded"
    BY <1>3 DEF CaptureFails, DownloadFails, TailFails, TargetLaunchFails,
       TargetDownloadFails, RestoreFails, Discard
  <2> QED
    BY <1>2, <2>1
<1>4. ASSUME NEW t \in Token, GreedyStep(t) PROVE DraftCache'
  BY <1>4, GreedyStepIsBlockStep, BlockStepCache
<1>5. CASE TargetCall
  BY <1>3, <1>4, <1>5, BlockStepCache DEF TargetCall
<1>6. CASE MtpCall
  BY <1>6, MtpDraftCache DEF MtpCall
<1>7. CASE SpeculativeCall
  BY <1>1, <1>3, <1>7, BeginCache, ProposeCache, VerifyCache, LaunchGraphCache,
     RoundFailsCache, AcceptPrefixCache, AcceptAllCache DEF SpeculativeCall
<1>8. CASE UNCHANGED vars
  <2>1. DraftCache' = DraftCache
    BY <1>8 DEF vars, DraftCache, Base, Inputs
  <2> QED
    BY <2>1
<1> QED
  BY <1>1, <1>3, <1>5, <1>6, <1>7, <1>8 DEF Next, Create, Destroyed

(* MtpFollowsTarget: whatever was proposed, accepted, rejected or failed,  *)
(* between calls the draft cache pairs the accepted tokens with hidden     *)
(* states of the target or of the draft model, and no proposal is open.    *)
THEOREM DraftCacheFollows == Spec => []MtpFollowsTarget
<1>1. Init => DraftCache
  BY InitCache
<1>2. Inductive /\ DraftCache /\ [Next]_vars => DraftCache'
  BY DraftCacheStep
<1>3. Inductive /\ DraftCache => MtpFollowsTarget
  <2> SUFFICES ASSUME Inductive, DraftCache, pc = "idle" PROVE MtpFollowsTarget
    BY DEF MtpFollowsTarget
  <2>1. ~mtp_chain_active /\ ~record_rollback
    BY DEF Inductive, Positions
  <2>2. Follows(mtp_kv, hist, mtp_position)
    BY DEF DraftCache, Base
  <2> QED
    BY <2>1, <2>2 DEF MtpFollowsTarget, Follows, EntryFollows
<1> QED
  BY <1>1, <1>2, <1>3, InductiveInvariance, PTL DEF Spec
==============================================================================
