------------------------- MODULE DeviceStream_proofs -------------------------
(***************************************************************************)
(* The words a queued graph and the judging host read are those of their   *)
(* own round, for every vocabulary, context, block and queue length and    *)
(* any number of failed calls.  Claims about queued work are stated by the *)
(* place of an entry in the stream: what stands before place 1 has been    *)
(* executed, and its effect is in the device words.                        *)
(***************************************************************************)
EXTENDS DeviceStream, SequenceTheorems, TLAPS

Ops == {"seed", "base", "mtp", "graph", "propose", "verify", "argmax", "drafts", "outputs"}
Seeds == Token \cup {NoToken}
Rounds == [seed : Seeds, count : Nat, target : Int, mtp : Int]
Stagings == [seed : Seeds, base : Int, mtp : [0..MaximumBlock - 1 -> Int]]
Entries == [op : Ops, round : Rounds, n : Nat, late : BOOLEAN, value : Stagings]

Resting == {"idle", "target", "draft"}
Uploading == {"upload_seed", "upload_base", "upload_mtp", "launch"}
Starting == Uploading \cup {"stage", "propose", "roll_back"}
Running == {"download_drafts", "download_outputs", "synchronize", "judge"}

Types ==
  /\ config \in Configs
  /\ pc \in Resting \cup Starting \cup Running \cup {"gone"}
  /\ current_position \in Int /\ mtp_position \in Int
  /\ call \in Rounds /\ index \in Nat
  /\ host \in Stagings
  /\ stream \in Seq(Entries)
  /\ words = [w \in WordIndex |-> words[w]]
  /\ positions = [base |-> positions.base, mtp |-> positions.mtp]

(* A round is begun aligned, and its positions move when it is launched.   *)
Counted ==
  /\ pc # "gone" => Captured
  /\ pc \in Starting \cup Running =>
       call.count \in 1..MaximumBlock - 1 /\ call.target = call.mtp + 1
  /\ pc \in Uploading \cup {"stage"} => call.count + 1 = config.batch
  /\ pc = "propose" => index <= call.count
  /\ pc \in Starting => current_position = call.target
  /\ pc \in Running =>
       /\ mtp_position = call.mtp + call.count
       /\ current_position = call.target + call.count + 1
       /\ KernelsTake(call.count + 1)

GraphAt(g) == g \in 1..Len(stream) /\ stream[g].op = "graph"

(* While a graph is queued the positions are those of its round, which no  *)
(* call but the one that launched it can go on from.                       *)
GraphsBlock ==
  \A g \in Nat : GraphAt(g) =>
    /\ pc \notin Starting
    /\ pc \in Resting => mtp_position + 2 = current_position

(* The three copies before place g, those already executed by their effect.*)
SeedUp(g, r) ==
  IF g > 3 THEN stream[g - 3].op = "seed" /\ Staged(stream[g - 3]).seed = r.seed
  ELSE words[graph_seed_token] = Seed(r.seed)
BaseUp(g, r) ==
  IF g > 2 THEN stream[g - 2].op = "base" /\ Staged(stream[g - 2]).base = r.target
  ELSE positions.base = r.target
MtpUp(g, r) ==
  IF g > 1 THEN /\ stream[g - 1].op = "mtp"
                /\ \A i \in 0..r.count - 1 : Staged(stream[g - 1]).mtp[i] = r.mtp + i
  ELSE \A i \in 0..r.count - 1 : positions.mtp[i] = r.mtp + i
Uploaded(g, r) == SeedUp(g, r) /\ BaseUp(g, r) /\ MtpUp(g, r)

GraphsUploaded ==
  \A g \in Nat : GraphAt(g) =>
    Uploaded(g, stream[g].round) /\ stream[g].n = stream[g].round.count

(* A graph that is not launched yet will stand at place next.              *)
UploadsQueued ==
  /\ pc \in Uploading =>
       /\ host.seed = call.seed /\ host.base = call.target
       /\ \A i \in 0..call.count - 1 : host.mtp[i] = call.mtp + i
  /\ pc = "upload_base" => SeedUp(Len(stream) + 3, call)
  /\ pc = "upload_mtp" =>
       SeedUp(Len(stream) + 2, call) /\ BaseUp(Len(stream) + 2, call)
  /\ pc = "launch" => Uploaded(Len(stream) + 1, call)

(* A word of the round: the seed and the first i proposals.                *)
Row(i) == [seed |-> call.seed, mtp |-> [k \in 1..i |-> call.mtp + k - 1], base |-> NoBase]
Answer(i) == [Row(i) EXCEPT !.base = call.target]

(* The k proposals of an eager round that stand before place e.            *)
ProposalAt(g, n) ==
  IF g > 0 THEN stream[g].op = "propose" /\ stream[g].round = call /\ stream[g].n = n
  ELSE words[draft_token(n)] = Row(n + 1)
Proposals(e, k) == \A n \in 0..k - 1 : ProposalAt(e - k + n, n)

(* The verifier or the graph of the round at place v.                      *)
Evaluated ==
  /\ \A n \in 0..call.count - 1 : words[draft_token(n)] = Row(n + 1)
  /\ \A i \in 0..call.count : words[selected_token(i)] = Answer(i)
BlockAt(v) ==
  IF v > 0 THEN /\ stream[v].round = call /\ stream[v].n = call.count
                /\ \/ stream[v].op = "graph"
                   \/ stream[v].op = "verify" /\ Proposals(v, call.count)
  ELSE Evaluated

DraftsAt(d) ==
  IF d > 0 THEN stream[d].op = "drafts" /\ stream[d].n = call.count
  ELSE drafts = [i \in 0..call.count - 1 |-> Row(i + 1)]
OutputsAt(o) ==
  IF o > 0 THEN stream[o].op = "outputs" /\ stream[o].n = call.count
  ELSE target_outputs = [i \in 0..call.count |-> Answer(i)]

RoundQueued ==
  /\ pc = "propose" => Proposals(Len(stream) + 1, index)
  /\ pc = "download_drafts" => BlockAt(Len(stream))
  /\ pc = "download_outputs" => BlockAt(Len(stream) - 1) /\ DraftsAt(Len(stream))
  /\ pc \in {"synchronize", "judge"} =>
       BlockAt(Len(stream) - 2) /\ DraftsAt(Len(stream) - 1) /\ OutputsAt(Len(stream))
  /\ pc = "judge" => stream = <<>>

Inv == Types /\ Counted /\ GraphsBlock /\ GraphsUploaded /\ UploadsQueued /\ RoundQueued

------------------------------------------------------------------------------
(* The stream *)

LEMMA Appended ==
  ASSUME NEW s \in Seq(Entries), NEW x \in Entries
  PROVE  /\ Append(s, x) \in Seq(Entries)
         /\ Len(s) \in Nat /\ Len(Append(s, x)) = Len(s) + 1
         /\ \A i \in 1..Len(s) : Append(s, x)[i] = s[i]
         /\ Append(s, x)[Len(s) + 1] = x
BY AppendProperties, LenProperties

LEMMA Shortened ==
  ASSUME NEW s \in Seq(Entries), s # <<>>
  PROVE  /\ Tail(s) \in Seq(Entries) /\ Head(s) = s[1] /\ s[1] \in Entries
         /\ Len(s) \in Nat /\ Len(s) > 0 /\ Len(Tail(s)) = Len(s) - 1
         /\ \A i \in 1..Len(s) - 1 : Tail(s)[i] = s[i + 1]
BY HeadTailProperties, LenProperties, EmptySeq

LEMMA StagingTypes == NoStaging \in Stagings /\ NoCall \in Rounds
BY DEF NoStaging, NoCall, Stagings, Rounds, Seeds

LEMMA EntryTypes ==
  ASSUME Types
  PROVE  /\ \A op \in Ops, r \in Rounds, n \in Nat : Launch(op, r, n) \in Entries
         /\ \A op \in Ops, late \in BOOLEAN : Upload(op, late) \in Entries
BY StagingTypes DEF Types, Launch, Upload, Entries

------------------------------------------------------------------------------
(* Types *)

LEMMA TypesInit == Init => Types
<1> SUFFICES ASSUME Init PROVE Types
  OBVIOUS
<1>1. words = [w \in WordIndex |-> words[w]]
  BY DEF Init
<1>2. positions = [base |-> positions.base, mtp |-> positions.mtp]
  BY DEF Init, NoPositions
<1> QED
  BY <1>1, <1>2, StagingTypes DEF Init, Types, Resting

LEMMA TypesExecute == Types /\ Execute => Types'
<1> SUFFICES ASSUME Types, Execute PROVE Types'
  OBVIOUS
<1> DEFINE e == Head(stream)
<1>1. stream' \in Seq(Entries) /\ e \in Entries
  BY Shortened DEF Types, Execute
<1>2. words' = [w \in WordIndex |-> words'[w]]
  <2>1. words' = Effect(e)
    BY DEF Execute
  <2>2. \A i, v : [words EXCEPT ![i] = v] = [w \in WordIndex |-> IF w = i THEN v ELSE words[w]]
    BY DEF Types
  <2>3. words' = words \/ (\E i, v : words' = [words EXCEPT ![i] = v])
        \/ (\E f : words' = [w \in WordIndex |-> f[w]])
    <3>1. CASE e.op = "graph"
      <4>1. PICK b, c, d, f : words' = Verified(b, c, d, f)
        BY <2>1, <3>1 DEF Effect, Graph
      <4> DEFINE F == [w \in WordIndex |->
            IF w \notin selected_token(0)..selected_token(c) THEN b[w]
            ELSE [(IF w = 0 THEN d ELSE b[draft_token(w - 1)]) EXCEPT !.base = f]]
      <4>2. words' = [w \in WordIndex |-> F[w]]
        BY <4>1 DEF Verified
      <4> HIDE DEF F
      <4> QED BY <4>2
    <3>2. CASE e.op = "verify"
      <4>1. PICK b, c, d, f : words' = Verified(b, c, d, f)
        BY <2>1, <3>2 DEF Effect
      <4> DEFINE F == [w \in WordIndex |->
            IF w \notin selected_token(0)..selected_token(c) THEN b[w]
            ELSE [(IF w = 0 THEN d ELSE b[draft_token(w - 1)]) EXCEPT !.base = f]]
      <4>2. words' = [w \in WordIndex |-> F[w]]
        BY <4>1 DEF Verified
      <4> HIDE DEF F
      <4> QED BY <4>2
    <3>3. CASE e.op = "argmax"
      <4> DEFINE F == [w \in WordIndex |-> IF w < e.n THEN NoWord ELSE words[w]]
      <4>1. words' = [w \in WordIndex |-> F[w]]
        BY <2>1, <3>3 DEF Effect
      <4> QED BY <4>1
    <3>4. CASE e.op = "seed"
      BY <2>1, <3>4 DEF Effect
    <3>5. CASE e.op = "propose"
      BY <2>1, <3>5 DEF Effect
    <3>6. CASE e.op \notin {"graph", "verify", "argmax", "seed", "propose"}
      BY <2>1, <3>6 DEF Effect
    <3> QED BY <3>1, <3>2, <3>3, <3>4, <3>5, <3>6
  <2> QED BY <2>2, <2>3 DEF Types
<1>3. positions' = [base |-> positions'.base, mtp |-> positions'.mtp]
  BY DEF Execute, Types
<1>4. UNCHANGED <<config, pc, positionVars, call, index, host>>
  BY DEF Execute
<1> QED
  BY <1>1, <1>2, <1>3, <1>4 DEF Types, positionVars

LEMMA TypesHost == Types /\ [Host \/ Gone]_vars => Types'
<1> SUFFICES ASSUME Types, [Host \/ Gone]_vars PROVE Types'
  OBVIOUS
<1> USE DEF Types, Resting, Starting, Uploading, Running
<1>1. ASSUME UNCHANGED <<words, positions>>, stream' \in Seq(Entries), host' \in Stagings,
             config' = config, call' \in Rounds, index' \in Nat,
             current_position' \in Int, mtp_position' \in Int,
             pc' \in Resting \cup Starting \cup Running \cup {"gone"}
      PROVE  Types'
  BY <1>1
<1>2. \A op \in Ops, r \in Rounds, n \in Nat : Append(stream, Launch(op, r, n)) \in Seq(Entries)
  BY EntryTypes, Appended
<1>3. \A op \in Ops, late \in BOOLEAN : Append(stream, Upload(op, late)) \in Seq(Entries)
  BY EntryTypes, Appended
<1>4. call.count \in Nat /\ call.target \in Int /\ call.mtp \in Int
  BY DEF Rounds
<1> USE StagingTypes DEF Ops, deviceVars, positionVars
<1>5. CASE UNCHANGED vars
  BY <1>5 DEF vars
<1>6. ASSUME NEW rows \in 1..MaximumBlock, TargetStep(rows) PROVE Types'
  <2>1. call' \in Rounds
    BY <1>6 DEF TargetStep, Rounds, SizeAssumption
  <2> QED BY <1>6, <1>1, <1>2, <2>1, SizeAssumption DEF TargetStep, Enqueue
<1>7. CASE MtpDraft
  BY <1>7, <1>1, <1>2 DEF MtpDraft, Enqueue
<1>8. ASSUME NEW seed \in Token, NEW count \in 1..MaximumBlock - 1, Begin(seed, count)
      PROVE Types'
  <2>1. call' \in Rounds
    <3>1. count \in Nat
      BY SizeAssumption
    <3> QED BY <1>8, <3>1 DEF Begin, Rounds, Seeds
  <2> QED BY <1>8, <1>1, <2>1 DEF Begin
<1>9. CASE Stage
  <2>1. host' \in Stagings
    <3>1. call.seed \in Seeds /\ \A i \in 0..MaximumBlock - 1 : host.mtp[i] \in Int
      BY DEF Rounds, Stagings
    <3>2. \A i \in 0..MaximumBlock - 1 :
            (IF i < call.count THEN call.mtp + i ELSE host.mtp[i]) \in Int
      BY <1>4, <3>1
    <3> QED BY <1>9, <1>4, <3>1, <3>2 DEF Stage, Stagings
  <2> QED BY <1>9, <1>1, <2>1 DEF Stage
<1>10. CASE UploadSeed
  BY <1>10, <1>1, <1>3 DEF UploadSeed, UploadStep, Enqueue
<1>11. CASE UploadBase
  BY <1>11, <1>1, <1>3 DEF UploadBase, UploadStep, Enqueue
<1>12. CASE UploadMtp
  BY <1>12, <1>1, <1>3 DEF UploadMtp, UploadStep, Enqueue
<1>13. CASE LaunchGraph
  BY <1>13, <1>1, <1>2, <1>4 DEF LaunchGraph, Launched, Enqueue
<1>14. CASE Propose
  BY <1>14, <1>1, <1>2, <1>4 DEF Propose, Enqueue
<1>15. CASE Verify
  BY <1>15, <1>1, <1>2, <1>4 DEF Verify, Launched, Enqueue
<1>16. CASE RollBack
  BY <1>16, <1>1, <1>4 DEF RollBack
<1>17. CASE DownloadDrafts
  BY <1>17, <1>1, <1>2, <1>4 DEF DownloadDrafts, Download, Enqueue
<1>18. CASE DownloadOutputs
  BY <1>18, <1>1, <1>2, <1>4 DEF DownloadOutputs, Download, Enqueue
<1>19. CASE Synchronize
  BY <1>19, <1>1 DEF Synchronize
<1>20. CASE TargetReturns
  BY <1>20, <1>1, <1>4 DEF TargetReturns, Succeed, Failed, Return
<1>21. CASE MtpDraftReturns
  BY <1>21, <1>1 DEF MtpDraftReturns, Succeed, Failed, Return
<1>22. CASE RolledBack
  BY <1>22, <1>1 DEF RolledBack, Fail, Failed, Return
<1>23. CASE DownloadFails
  BY <1>23, <1>1 DEF DownloadFails, Fail, Failed, Return
<1>24. CASE JudgeFails
  BY <1>24, <1>1 DEF JudgeFails, Failed, Return
<1>25. ASSUME NEW accepted \in 0..MaximumBlock - 1, Judge(accepted) PROVE Types'
  BY <1>25, <1>1, <1>4 DEF Judge, Succeed, Return
<1>26. CASE Destroy
  BY <1>26, <1>1 DEF Destroy
<1> QED
  BY <1>5, <1>6, <1>7, <1>8, <1>9, <1>10, <1>11, <1>12, <1>13, <1>14, <1>15, <1>16, <1>17,
     <1>18, <1>19, <1>20, <1>21, <1>22, <1>23, <1>24, <1>25, <1>26
     DEF Host, Call, Prepared, Returns, Gone

LEMMA TypesStep == Types /\ [Next]_vars => Types'
BY TypesHost, TypesExecute DEF Next

------------------------------------------------------------------------------
(* The positions of a round *)

LEMMA CountedInit == Init => Counted
BY DEF Init, Counted, Starting, Uploading, Running

LEMMA CountedStep == Types /\ Counted /\ [Next]_vars => Counted'
<1> SUFFICES ASSUME Types, Counted, [Next]_vars PROVE Counted'
  OBVIOUS
<1>1. /\ call.count \in Nat /\ call.target \in Int /\ call.mtp \in Int
      /\ current_position \in Int /\ mtp_position \in Int /\ index \in Nat
      /\ config.batch \in Nat /\ MaximumBlock \in Nat /\ UntiledRows \in Nat
  BY SizeAssumption DEF Types, Rounds
<1> USE <1>1 DEF Counted, Starting, Uploading, Running, Captured, KernelsTake, positionVars
<1>2. ASSUME UNCHANGED <<config, call>>, pc' \in Resting \cup {"gone"}, pc # "gone"
      PROVE  Counted'
  BY <1>2 DEF Resting
<1>3. ASSUME UNCHANGED config, pc' \in Resting, pc # "gone"
      PROVE  Counted'
  BY <1>3 DEF Resting
<1>4. CASE UNCHANGED vars
  BY <1>4 DEF vars
<1>5. CASE Execute
  <2>1. UNCHANGED <<config, pc, positionVars, call, index>>
    BY <1>5 DEF Execute
  <2> QED BY <2>1
<1>6. ASSUME NEW rows \in 1..MaximumBlock, TargetStep(rows) PROVE Counted'
  BY <1>6, <1>3 DEF TargetStep, Resting
<1>7. CASE MtpDraft
  BY <1>7, <1>3 DEF MtpDraft, Resting
<1>8. ASSUME NEW seed \in Token, NEW count \in 1..MaximumBlock - 1, Begin(seed, count)
      PROVE Counted'
  <2>1. /\ call'.count = count /\ call'.target = current_position /\ call'.mtp = mtp_position
        /\ mtp_position + 1 = current_position /\ index' = 0 /\ config' = config
        /\ UNCHANGED <<current_position, mtp_position>>
        /\ pc = "idle" /\ pc' = IF count + 1 = config.batch THEN "stage" ELSE "propose"
    BY <1>8 DEF Begin, SpeculationAccepted, Aligned, positionVars
  <2> QED BY <2>1
<1>9. CASE Stage
  BY <1>9 DEF Stage
<1>10. CASE UploadSeed \/ UploadBase \/ UploadMtp
  BY <1>10 DEF UploadSeed, UploadBase, UploadMtp, UploadStep
<1>11. CASE LaunchGraph
  <2>1. /\ pc = "launch" /\ pc' = "download_drafts" /\ UNCHANGED <<config, call, index>>
        /\ current_position' = current_position + call.count + 1
        /\ mtp_position' = call.mtp + call.count
    BY <1>11 DEF LaunchGraph, Launched
  <2>2. current_position = call.target
    BY <2>1
  <2> QED BY <2>1, <2>2
<1>12. CASE Propose
  BY <1>12 DEF Propose
<1>13. CASE Verify
  <2>1. /\ pc = "propose" /\ pc' = "download_drafts" /\ UNCHANGED <<config, call, index>>
        /\ current_position' = current_position + call.count + 1
        /\ mtp_position' = call.mtp + call.count /\ KernelsTake(call.count + 1)
    BY <1>13 DEF Verify, Launched
  <2>2. current_position = call.target
    BY <2>1
  <2> QED BY <2>1, <2>2
<1>14. CASE RollBack
  BY <1>14 DEF RollBack
<1>15. CASE DownloadDrafts \/ DownloadOutputs
  BY <1>15 DEF DownloadDrafts, DownloadOutputs, Download
<1>16. CASE Synchronize
  BY <1>16 DEF Synchronize
<1>17. CASE Returns
  BY <1>17, <1>3 DEF Returns, TargetReturns, MtpDraftReturns, RolledBack, DownloadFails,
       JudgeFails, Judge, Succeed, Fail, Failed, Return, Resting
<1>18. CASE Destroy
  BY <1>18, <1>2 DEF Destroy
<1> QED
  BY <1>4, <1>5, <1>6, <1>7, <1>8, <1>9, <1>10, <1>11, <1>12, <1>13, <1>14, <1>15, <1>16,
     <1>17, <1>18 DEF Next, Host, Call, Prepared, Gone

------------------------------------------------------------------------------
(* A queued graph keeps the next round out *)

LEMMA GraphsBlockInit == Init => GraphsBlock
BY DEF Init, GraphsBlock, GraphAt

(* Which graphs a step leaves in the stream.                               *)
LEMMA GraphAppended ==
  ASSUME Types, NEW x \in Entries, stream' = Append(stream, x), NEW g \in Nat, GraphAt(g)'
  PROVE  GraphAt(g) \/ (x.op = "graph" /\ g = Len(stream) + 1)
<1>1. /\ Len(stream) \in Nat /\ Len(stream') = Len(stream) + 1
      /\ \A i \in 1..Len(stream) : stream'[i] = stream[i]
      /\ stream'[Len(stream) + 1] = x
  BY Appended DEF Types
<1> QED BY <1>1 DEF GraphAt

LEMMA GraphExecuted ==
  ASSUME Types, Execute, NEW g \in Nat, GraphAt(g)'
  PROVE  GraphAt(g + 1) /\ stream'[g] = stream[g + 1]
<1>1. stream # <<>> /\ stream' = Tail(stream)
  BY DEF Execute
<1>2. /\ Len(stream) \in Nat /\ Len(stream') = Len(stream) - 1
      /\ \A i \in 1..Len(stream) - 1 : stream'[i] = stream[i + 1]
  BY <1>1, Shortened DEF Types
<1> QED BY <1>2 DEF GraphAt

LEMMA GraphsBlockStep == Types /\ Counted /\ GraphsBlock /\ RoundQueued /\ [Next]_vars => GraphsBlock'
<1> SUFFICES ASSUME Types, Counted, GraphsBlock, RoundQueued, [Next]_vars,
                    NEW g \in Nat, GraphAt(g)'
             PROVE  /\ pc' \notin Starting
                    /\ pc' \in Resting => mtp_position' + 2 = current_position'
  BY DEF GraphsBlock
<1>1. /\ call.count \in Nat /\ call.target \in Int /\ call.mtp \in Int
      /\ current_position \in Int /\ mtp_position \in Int
  BY DEF Types, Rounds
<1> USE <1>1 DEF Starting, Uploading, Running, Resting, positionVars
<1>2. ASSUME NEW x \in Entries, stream' = Append(stream, x), x.op # "graph" PROVE GraphAt(g)
  BY <1>2, GraphAppended
<1>3. ASSUME stream' = stream PROVE GraphAt(g)
  BY <1>3 DEF GraphAt
<1>4. stream' # <<>>
  BY EmptySeq DEF GraphAt
<1>5. ASSUME GraphAt(g)
      PROVE  /\ pc \notin Starting
             /\ pc \in Resting => mtp_position + 2 = current_position
             /\ pc # "judge"
  BY <1>5, EmptySeq DEF GraphsBlock, RoundQueued, GraphAt
<1>6. CASE UNCHANGED vars
  BY <1>6, <1>3, <1>5 DEF vars
<1>7. CASE Execute
  <2>1. GraphAt(g + 1)
    BY <1>7, GraphExecuted
  <2>2. UNCHANGED <<pc, positionVars>>
    BY <1>7 DEF Execute
  <2> QED BY <2>1, <2>2 DEF GraphsBlock
<1>8. \A op \in Ops, r \in Rounds, n \in Nat :
        Launch(op, r, n) \in Entries /\ Launch(op, r, n).op = op
  BY EntryTypes DEF Launch
<1>9. \A op \in Ops, late \in BOOLEAN :
        Upload(op, late) \in Entries /\ Upload(op, late).op = op
  BY EntryTypes DEF Upload
<1> USE StagingTypes DEF Ops, Enqueue
<1>10. ASSUME NEW rows \in 1..MaximumBlock, TargetStep(rows) PROVE GraphAt(g) /\ pc = "idle"
  BY <1>10, <1>2, <1>8, SizeAssumption DEF TargetStep
<1>11. CASE MtpDraft
  BY <1>11, <1>2, <1>5, <1>8 DEF MtpDraft
<1>12. ASSUME NEW seed \in Token, NEW count \in 1..MaximumBlock - 1, Begin(seed, count)
      PROVE FALSE
  BY <1>12, <1>3, <1>5 DEF Begin, SpeculationAccepted, Aligned
<1>13. CASE Stage
  BY <1>13, <1>3, <1>5 DEF Stage
<1>14. CASE UploadSeed \/ UploadBase \/ UploadMtp
  <2>1. GraphAt(g) /\ pc \in Starting
    BY <1>14, <1>2, <1>9 DEF UploadSeed, UploadBase, UploadMtp, UploadStep
  <2> QED BY <2>1, <1>5
<1>15. CASE LaunchGraph
  BY <1>15 DEF LaunchGraph, Launched
<1>16. CASE Propose
  <2>1. GraphAt(g) /\ pc \in Starting
    BY <1>16, <1>2, <1>8 DEF Propose, Types
  <2> QED BY <2>1, <1>5
<1>17. CASE Verify
  BY <1>17 DEF Verify, Launched
<1>18. CASE RollBack
  BY <1>18, <1>3, <1>5 DEF RollBack
<1>19. CASE DownloadDrafts \/ DownloadOutputs
  BY <1>19 DEF DownloadDrafts, DownloadOutputs, Download
<1>20. CASE Synchronize
  BY <1>20 DEF Synchronize
<1>21. CASE TargetReturns
  <2>1. GraphAt(g) /\ stream # <<>>
    BY <1>21, <1>3, <1>4 DEF TargetReturns
  <2> QED BY <1>21, <2>1, <1>5 DEF TargetReturns, Synchronized, Failed, Return
<1>22. CASE MtpDraftReturns
  <2>1. GraphAt(g) /\ stream # <<>>
    BY <1>22, <1>3, <1>4 DEF MtpDraftReturns
  <2> QED BY <1>22, <2>1, <1>5 DEF MtpDraftReturns, Synchronized, Failed, Return
<1>23. CASE RolledBack
  BY <1>23, <1>3, <1>5 DEF RolledBack
<1>24. CASE DownloadFails
  <2>1. mtp_position + 2 = current_position
    BY <1>24 DEF DownloadFails, Counted
  <2> QED BY <1>24, <2>1 DEF DownloadFails, Fail, Failed, Return
<1>25. CASE JudgeFails
  BY <1>25, <1>3, <1>5 DEF JudgeFails
<1>26. ASSUME NEW accepted \in 0..MaximumBlock - 1, Judge(accepted) PROVE FALSE
  BY <1>26, <1>3, <1>5 DEF Judge
<1>27. CASE Destroy
  BY <1>27 DEF Destroy
<1>28. ASSUME NEW rows \in 1..MaximumBlock, TargetStep(rows)
       PROVE  pc' \notin Starting /\ mtp_position' + 2 = current_position'
  BY <1>28, <1>10, <1>5 DEF TargetStep
<1> QED
  BY <1>6, <1>7, <1>11, <1>12, <1>13, <1>14, <1>15, <1>16, <1>17, <1>18, <1>19, <1>20, <1>21,
     <1>22, <1>23, <1>24, <1>25, <1>26, <1>27, <1>28
     DEF Next, Host, Call, Prepared, Returns, Gone

------------------------------------------------------------------------------
(* The copies before a graph *)

LEMMA Words ==
  /\ graph_seed_token \in WordIndex /\ MaximumBlock \in Nat
  /\ \A n \in 0..MaximumBlock - 2 :
       draft_token(n) \in WordIndex /\ draft_token(n) # graph_seed_token
BY SizeAssumption DEF graph_seed_token, draft_token, WordIndex

LEMMA ExecuteEffects ==
  ASSUME Types, Execute
  PROVE  LET e == stream[1] IN
         /\ e.op = "seed" => words'[graph_seed_token] = Seed(Staged(e).seed)
         /\ e.op \in {"base", "mtp", "drafts", "outputs"} => words' = words
         /\ positions'.base = IF e.op = "base" THEN Staged(e).base ELSE positions.base
         /\ positions'.mtp = IF e.op = "mtp" THEN Staged(e).mtp ELSE positions.mtp
<1> DEFINE e == stream[1]
<1>1. Head(stream) = e
  BY Shortened DEF Types, Execute
<1>2. words' = Effect(e)
  BY <1>1 DEF Execute
<1>3. \A v : [words EXCEPT ![graph_seed_token] = v][graph_seed_token] = v
  BY Words DEF Types
<1>4. positions' = CASE e.op = "base" -> [positions EXCEPT !.base = Staged(e).base]
                     [] e.op = "mtp" -> [positions EXCEPT !.mtp = Staged(e).mtp]
                     [] OTHER -> positions
  BY <1>1 DEF Execute
<1> HIDE DEF e
<1>5. positions'.base = IF e.op = "base" THEN Staged(e).base ELSE positions.base
  BY <1>4 DEF Types
<1>6. positions'.mtp = IF e.op = "mtp" THEN Staged(e).mtp ELSE positions.mtp
  BY <1>4 DEF Types
<1>7. e.op = "seed" => words'[graph_seed_token] = Seed(Staged(e).seed)
  BY <1>2, <1>3 DEF Effect
<1>8. e.op \in {"base", "mtp", "drafts", "outputs"} => words' = words
  BY <1>2 DEF Effect
<1> QED
  BY <1>5, <1>6, <1>7, <1>8 DEF e

(* The device reaches what stands before place g, in order.                *)
LEMMA UploadsExecuted ==
  ASSUME Types, Execute, NEW g \in Nat, NEW h \in Nat, g = h + 1, NEW r \in Rounds,
         g <= Len(stream) + 3
  PROVE  /\ g > 3 /\ SeedUp(g, r) => SeedUp(h, r)'
         /\ g > 2 /\ g <= Len(stream) + 2 /\ SeedUp(g, r) /\ BaseUp(g, r)
              => SeedUp(h, r)' /\ BaseUp(h, r)'
         /\ g > 1 /\ g <= Len(stream) + 1 /\ Uploaded(g, r) => Uploaded(h, r)'
<1>1. /\ Len(stream) \in Nat /\ Len(stream) > 0
      /\ \A i \in 1..Len(stream) - 1 : stream'[i] = stream[i + 1]
  BY Shortened DEF Types, Execute
<1>2. host' = host
  BY DEF Execute
<1>3. g > 3 /\ SeedUp(g, r) => SeedUp(h, r)'
  <2> SUFFICES ASSUME g > 3, SeedUp(g, r) PROVE SeedUp(h, r)'
    OBVIOUS
  <2>1. CASE g = 4
    BY <1>1, <2>1, ExecuteEffects DEF SeedUp
  <2>2. CASE g > 4
    <3>1. g - 4 \in 1..Len(stream) - 1 /\ (g - 4) + 1 = g - 3 /\ h - 3 = g - 4
      BY <2>2, <1>1
    <3>2. stream'[g - 4] = stream[g - 3]
      BY <1>1, <3>1
    <3> QED BY <1>2, <2>2, <3>1, <3>2 DEF SeedUp, Staged
  <2> QED BY <2>1, <2>2
<1>4. g > 2 /\ g <= Len(stream) + 2 /\ SeedUp(g, r) /\ BaseUp(g, r)
        => SeedUp(h, r)' /\ BaseUp(h, r)'
  <2> SUFFICES ASSUME g > 2, g <= Len(stream) + 2, SeedUp(g, r), BaseUp(g, r)
               PROVE  SeedUp(h, r)' /\ BaseUp(h, r)'
    OBVIOUS
  <2>1. CASE g = 3
    BY <1>1, <2>1, ExecuteEffects DEF SeedUp, BaseUp
  <2>2. CASE g > 3
    <3>1. g - 3 \in 1..Len(stream) - 1 /\ (g - 3) + 1 = g - 2 /\ h - 2 = g - 3
      BY <2>2, <1>1
    <3>2. stream'[g - 3] = stream[g - 2]
      BY <1>1, <3>1
    <3> QED BY <1>2, <1>3, <2>2, <3>1, <3>2 DEF BaseUp, Staged
  <2> QED BY <2>1, <2>2
<1>5. g > 1 /\ g <= Len(stream) + 1 /\ Uploaded(g, r) => Uploaded(h, r)'
  <2> SUFFICES ASSUME g > 1, g <= Len(stream) + 1, Uploaded(g, r)
               PROVE  Uploaded(h, r)'
    OBVIOUS
  <2>1. CASE g = 2
    BY <1>1, <2>1, ExecuteEffects DEF Uploaded, SeedUp, BaseUp, MtpUp
  <2>2. CASE g > 2
    <3>1. g - 2 \in 1..Len(stream) - 1 /\ (g - 2) + 1 = g - 1 /\ h - 1 = g - 2
      BY <2>2, <1>1
    <3>2. stream'[g - 2] = stream[g - 1]
      BY <1>1, <3>1
    <3>3. MtpUp(h, r)'
      BY <1>2, <2>2, <3>1, <3>2 DEF Uploaded, MtpUp, Staged
    <3> QED BY <1>4, <2>2, <3>3 DEF Uploaded
  <2> QED BY <2>1, <2>2
<1> QED
  BY <1>3, <1>4, <1>5

(* What a call enqueues comes behind it.                                   *)
LEMMA UploadsKept ==
  ASSUME Types, UNCHANGED <<host, words, positions>>, NEW g \in Nat, NEW r \in Rounds,
         stream' = stream \/ \E x \in Entries : stream' = Append(stream, x)
  PROVE  /\ g <= Len(stream) + 3 /\ SeedUp(g, r) => SeedUp(g, r)'
         /\ g <= Len(stream) + 2 /\ BaseUp(g, r) => BaseUp(g, r)'
         /\ g <= Len(stream) + 1 /\ MtpUp(g, r) => MtpUp(g, r)'
         /\ g <= Len(stream) + 1 /\ Uploaded(g, r) => Uploaded(g, r)'
<1>1. Len(stream) \in Nat /\ \A i \in 1..Len(stream) : stream'[i] = stream[i]
  BY Appended, LenProperties DEF Types
<1>2. \A i \in Nat : i > 0 /\ i <= Len(stream) => stream'[i] = stream[i]
  BY <1>1
<1>3. g <= Len(stream) + 3 /\ SeedUp(g, r) => SeedUp(g, r)'
  BY <1>1, <1>2 DEF SeedUp, Staged
<1>4. g <= Len(stream) + 2 /\ BaseUp(g, r) => BaseUp(g, r)'
  BY <1>1, <1>2 DEF BaseUp, Staged
<1>5. g <= Len(stream) + 1 /\ MtpUp(g, r) => MtpUp(g, r)'
  BY <1>1, <1>2 DEF MtpUp, Staged
<1>6. g <= Len(stream) + 1 => g <= Len(stream) + 2 /\ g <= Len(stream) + 3
  BY <1>1
<1>7. g <= Len(stream) + 1 /\ Uploaded(g, r) => Uploaded(g, r)'
  BY <1>3, <1>4, <1>5, <1>6 DEF Uploaded
<1> QED
  BY <1>3, <1>4, <1>5, <1>7

(* What a step of the host does to the stream and to the staged values.    *)
LEMMA HostKinds ==
  ASSUME Types, [Host \/ Gone]_vars
  PROVE  \/ Stage \/ Destroy \/ LaunchGraph
         \/ /\ UNCHANGED <<host, words, positions>>
            /\ \/ stream' = stream
               \/ \E x \in Entries : x.op # "graph" /\ stream' = Append(stream, x)
<1> DEFINE Quiet ==
      /\ UNCHANGED <<host, words, positions>>
      /\ \/ stream' = stream
         \/ \E x \in Entries : x.op # "graph" /\ stream' = Append(stream, x)
<1>1. \A op \in Ops, r \in Rounds, n \in Nat :
        Launch(op, r, n) \in Entries /\ Launch(op, r, n).op = op
  BY EntryTypes DEF Launch
<1>2. \A op \in Ops, late \in BOOLEAN :
        Upload(op, late) \in Entries /\ Upload(op, late).op = op
  BY EntryTypes DEF Upload
<1>3. ASSUME NEW op \in Ops \ {"graph"}, NEW r \in Rounds, NEW n \in Nat,
             Enqueue(Launch(op, r, n)), UNCHANGED <<host, deviceVars>>
      PROVE  Quiet
  BY <1>1, <1>3 DEF Enqueue, deviceVars
<1>4. ASSUME NEW op \in Ops \ {"graph"}, NEW late \in BOOLEAN,
             Enqueue(Upload(op, late)), UNCHANGED <<host, deviceVars>>
      PROVE  Quiet
  BY <1>2, <1>4 DEF Enqueue, deviceVars
<1>5. call \in Rounds /\ call.count \in Nat /\ index \in Nat
  BY DEF Types, Rounds
<1> HIDE DEF Quiet
<1>6. CASE UNCHANGED vars
  BY <1>6 DEF vars, deviceVars, Quiet
<1>7. CASE Call
  <2>1. ASSUME NEW rows \in 1..MaximumBlock, TargetStep(rows) PROVE Quiet
    <3>1. rows \in Nat /\ "argmax" \in Ops \ {"graph"}
      BY SizeAssumption DEF Ops
    <3> QED BY <2>1, <3>1, <1>3, StagingTypes DEF TargetStep
  <2>2. ASSUME MtpDraft PROVE Quiet
    BY <2>2, <1>3, StagingTypes DEF MtpDraft, Ops
  <2>3. ASSUME NEW seed \in Token, NEW count \in 1..MaximumBlock - 1, Begin(seed, count)
        PROVE Quiet
    BY <2>3 DEF Begin, deviceVars, Quiet
  <2> QED BY <1>7, <2>1, <2>2, <2>3 DEF Call, Quiet
<1>8. CASE UploadSeed \/ UploadBase \/ UploadMtp
  <2>1. {"seed", "base", "mtp"} \subseteq Ops \ {"graph"}
    BY DEF Ops
  <2>2. CASE UploadSeed
    BY <2>1, <2>2, <1>4 DEF UploadSeed, UploadStep, Quiet
  <2>3. CASE UploadBase
    BY <2>1, <2>3, <1>4 DEF UploadBase, UploadStep, Quiet
  <2>4. CASE UploadMtp
    BY <2>1, <2>4, <1>4 DEF UploadMtp, UploadStep, Quiet
  <2> QED BY <1>8, <2>2, <2>3, <2>4
<1>9. CASE Propose
  BY <1>9, <1>3, <1>5 DEF Propose, Ops, Quiet
<1>10. CASE Verify
  BY <1>10, <1>3, <1>5 DEF Verify, Ops, Quiet
<1>11. CASE RollBack
  BY <1>11 DEF RollBack, deviceVars, Quiet
<1>12. CASE DownloadDrafts \/ DownloadOutputs
  <2>1. {"drafts", "outputs"} \subseteq Ops \ {"graph"}
    BY DEF Ops
  <2> QED BY <1>12, <2>1, <1>3, <1>5, StagingTypes DEF DownloadDrafts, DownloadOutputs, Download, Quiet
<1>13. CASE Synchronize
  BY <1>13 DEF Synchronize, deviceVars, Quiet
<1>14. CASE Returns
  BY <1>14 DEF Returns, TargetReturns, MtpDraftReturns, RolledBack, DownloadFails,
       JudgeFails, Judge, deviceVars, Quiet
<1> QED
  BY <1>6, <1>7, <1>8, <1>9, <1>10, <1>11, <1>12, <1>13, <1>14
     DEF Host, Prepared, Gone, Quiet

LEMMA GraphsUploadedInit == Init => GraphsUploaded
BY DEF Init, GraphsUploaded, GraphAt

LEMMA GraphsUploadedStep ==
  Types /\ GraphsBlock /\ GraphsUploaded /\ UploadsQueued /\ [Next]_vars => GraphsUploaded'
<1> SUFFICES ASSUME Types, GraphsBlock, GraphsUploaded, UploadsQueued, [Next]_vars,
                    NEW g \in Nat, GraphAt(g)'
             PROVE  (Uploaded(g, stream[g].round) /\ stream[g].n = stream[g].round.count)'
  BY DEF GraphsUploaded
<1>1. Types'
  BY TypesStep
<1>2. PICK r \in Rounds : r = stream'[g].round
  <2>1. stream'[g] \in Entries
    BY <1>1, ElementOfSeq DEF Types, GraphAt
  <2> QED BY <2>1 DEF Entries
<1>3. SUFFICES Uploaded(g, r)' /\ stream'[g].n = r.count
  BY <1>2 DEF Uploaded, SeedUp, BaseUp, MtpUp, Staged
<1>4. ASSUME NEW h \in Nat, GraphAt(h), stream[h] = stream'[g]
      PROVE  Uploaded(h, r) /\ stream'[g].n = r.count /\ h <= Len(stream)
  BY <1>2, <1>4 DEF GraphsUploaded, Uploaded, SeedUp, BaseUp, MtpUp, GraphAt
<1>5. CASE Execute
  <2>1. GraphAt(g + 1) /\ stream'[g] = stream[g + 1]
    BY <1>5, GraphExecuted
  <2>2. Uploaded(g + 1, r) /\ stream'[g].n = r.count /\ g + 1 <= Len(stream)
    BY <1>4, <2>1
  <2>3. g + 1 \in Nat /\ g + 1 > 1 /\ Len(stream) \in Nat
    BY LenProperties DEF GraphAt, Types
  <2>4. PICK h \in Nat : h = g + 1 /\ h > 1 /\ h <= Len(stream) + 1 /\ h <= Len(stream) + 3
    BY <2>2, <2>3
  <2>5. Uploaded(h, r) => Uploaded(g, r)'
    BY <1>5, <2>4, UploadsExecuted
  <2> QED BY <2>2, <2>4, <2>5
<1>6. CASE Stage
  BY <1>6 DEF Stage, GraphsBlock, GraphAt, Starting
<1>7. CASE Destroy
  BY <1>7, EmptySeq DEF Destroy, GraphAt
<1>8. ASSUME UNCHANGED <<host, words, positions>>, GraphAt(g), stream'[g] = stream[g],
             stream' = stream \/ \E x \in Entries : stream' = Append(stream, x)
      PROVE  Uploaded(g, r)' /\ stream'[g].n = r.count
  <2>1. Uploaded(g, r) /\ stream'[g].n = r.count /\ g <= Len(stream)
    BY <1>4, <1>8
  <2>2. g <= Len(stream) + 1
    BY <2>1, LenProperties DEF Types
  <2>3. Uploaded(g, r) => Uploaded(g, r)'
    BY <1>8, <2>2, UploadsKept
  <2> QED BY <2>1, <2>3
<1>9. CASE /\ UNCHANGED <<host, words, positions>>
           /\ \/ stream' = stream
              \/ \E x \in Entries : x.op # "graph" /\ stream' = Append(stream, x)
  <2>1. GraphAt(g) /\ stream'[g] = stream[g]
    <3>1. CASE stream' = stream
      BY <3>1 DEF GraphAt
    <3>2. ASSUME NEW x \in Entries, x.op # "graph", stream' = Append(stream, x)
          PROVE  GraphAt(g) /\ stream'[g] = stream[g]
      <4>1. GraphAt(g)
        BY <3>2, GraphAppended
      <4> QED BY <3>2, <4>1, Appended DEF GraphAt, Types
    <3> QED BY <1>9, <3>1, <3>2
  <2> QED BY <1>8, <1>9, <2>1
<1>10. CASE LaunchGraph
  <2>1. /\ pc = "launch" /\ stream' = Append(stream, Launch("graph", call, call.count))
        /\ UNCHANGED <<host, words, positions>>
    BY <1>10 DEF LaunchGraph, Enqueue, deviceVars
  <2>2. Launch("graph", call, call.count) \in Entries
    BY EntryTypes DEF Types, Rounds, Ops
  <2>3. CASE GraphAt(g)
    <3>1. stream'[g] = stream[g]
      BY <2>1, <2>2, <2>3, Appended DEF GraphAt, Types
    <3> QED BY <1>8, <2>1, <2>2, <2>3, <3>1
  <2>4. CASE g = Len(stream) + 1
    <3>1. stream'[g] = Launch("graph", call, call.count) /\ Len(stream) \in Nat
      BY <2>1, <2>2, <2>4, Appended DEF Types
    <3>2. r = call /\ stream'[g].n = r.count
      BY <1>2, <3>1 DEF Launch
    <3>3. Uploaded(g, r)
      BY <2>1, <2>4, <3>2 DEF UploadsQueued
    <3>4. g <= Len(stream) + 1 /\ \E x \in Entries : stream' = Append(stream, x)
      BY <2>1, <2>2, <2>4, <3>1
    <3>5. Uploaded(g, r) => Uploaded(g, r)'
      BY <2>1, <3>4, UploadsKept
    <3> QED BY <3>2, <3>3, <3>5
  <2> QED BY <2>1, <2>2, <2>3, <2>4, GraphAppended
<1> QED
  BY <1>5, <1>6, <1>7, <1>9, <1>10, HostKinds DEF Next

LEMMA UploadsQueuedInit == Init => UploadsQueued
BY DEF Init, UploadsQueued, Uploading

LEMMA UploadsQueuedStep == Types /\ Counted /\ UploadsQueued /\ [Next]_vars => UploadsQueued'
<1> SUFFICES ASSUME Types, Counted, UploadsQueued, [Next]_vars PROVE UploadsQueued'
  OBVIOUS
<1>1. PICK r \in Rounds : r = call
  BY DEF Types
<1>2. PICK n \in Nat : n = Len(stream)
  BY LenProperties DEF Types
<1>3. r.count \in Nat
  BY DEF Rounds
<1>4. /\ pc \in Uploading =>
           /\ host.seed = r.seed /\ host.base = r.target
           /\ \A i \in 0..r.count - 1 : host.mtp[i] = r.mtp + i
      /\ pc = "upload_base" => SeedUp(n + 3, r)
      /\ pc = "upload_mtp" => SeedUp(n + 2, r) /\ BaseUp(n + 2, r)
      /\ pc = "launch" => Uploaded(n + 1, r)
  BY <1>1, <1>2 DEF UploadsQueued
<1>5. SUFFICES
        ASSUME pc' \in Uploading
        PROVE  \E m \in Nat :
          /\ call' = r /\ Len(stream') = m
          /\ host'.seed = r.seed /\ host'.base = r.target
          /\ \A i \in 0..r.count - 1 : host'.mtp[i] = r.mtp + i
          /\ pc' = "upload_base" => SeedUp(m + 3, r)'
          /\ pc' = "upload_mtp" => SeedUp(m + 2, r)' /\ BaseUp(m + 2, r)'
          /\ pc' = "launch" => Uploaded(m + 1, r)'
  BY DEF UploadsQueued, Uploading, Uploaded, SeedUp, BaseUp, MtpUp, Staged
<1>6. CASE UNCHANGED vars
  <2>1. UNCHANGED <<pc, call, host, stream, words, positions>>
    BY <1>6 DEF vars, deviceVars
  <2>2. pc = "upload_base" => SeedUp(n + 3, r)'
    BY <1>4, <2>1 DEF SeedUp, Staged
  <2>3. pc = "upload_mtp" => SeedUp(n + 2, r)' /\ BaseUp(n + 2, r)'
    BY <1>4, <2>1 DEF SeedUp, BaseUp, Staged
  <2>4. pc = "launch" => Uploaded(n + 1, r)'
    BY <1>4, <2>1 DEF Uploaded, SeedUp, BaseUp, MtpUp, Staged
  <2> QED BY <1>1, <1>2, <1>4, <1>5, <2>1, <2>2, <2>3, <2>4
<1>7. CASE Execute
  <2>1. /\ UNCHANGED <<pc, call, host>> /\ Len(stream') = n - 1 /\ n > 0
    BY <1>2, <1>7, Shortened DEF Execute, Types
  <2>2. PICK m \in Nat : m = n - 1
    BY <2>1
  <2>3. pc = "upload_base" => SeedUp(m + 3, r)'
    <3>1. PICK g \in Nat, h \in Nat : g = n + 3 /\ h = m + 3
      OBVIOUS
    <3>2. g > 3 /\ g <= Len(stream) + 3 /\ g = h + 1
      BY <1>2, <2>1, <2>2, <3>1
    <3>3. SeedUp(g, r) => SeedUp(h, r)'
      BY <1>7, <3>2, UploadsExecuted
    <3> QED BY <1>4, <3>1, <3>3
  <2>4. pc = "upload_mtp" => SeedUp(m + 2, r)' /\ BaseUp(m + 2, r)'
    BY <1>2, <1>4, <1>7, <2>2, UploadsExecuted
  <2>5. pc = "launch" => Uploaded(m + 1, r)'
    BY <1>2, <1>4, <1>7, <2>2, UploadsExecuted
  <2> QED BY <1>1, <1>4, <1>5, <2>1, <2>2, <2>3, <2>4, <2>5
<1>8. CASE Stage
  <2>1. r.count - 1 <= MaximumBlock - 2 /\ MaximumBlock \in Nat
    BY <1>1, <1>8, SizeAssumption DEF Stage, Counted, Starting
  <2>2. /\ pc' = "upload_seed" /\ call' = r /\ Len(stream') = n
        /\ host' = [seed |-> r.seed, base |-> r.target,
                    mtp |-> [i \in 0..MaximumBlock - 1 |->
                               IF i < r.count THEN r.mtp + i ELSE host.mtp[i]]]
    BY <1>1, <1>2, <1>8 DEF Stage
  <2> QED BY <1>3, <2>1, <2>2
<1>9. ASSUME NEW op \in Ops, NEW at, NEW next, UploadStep(at, op, next), at \in Uploading
      PROVE  /\ pc = at /\ pc' = next /\ call' = r /\ Len(stream') = n + 1
             /\ host'.seed = r.seed /\ host'.base = r.target
             /\ \A i \in 0..r.count - 1 : host'.mtp[i] = r.mtp + i
             /\ UNCHANGED <<host, words, positions>>
             /\ \E x \in Entries : stream' = Append(stream, x)
             /\ stream'[n + 1].op = op /\ Staged(stream[n + 1])' = host'
  <2>1. PICK late \in BOOLEAN : stream' = Append(stream, Upload(op, late))
    BY <1>9 DEF UploadStep, Enqueue
  <2>2. Upload(op, late) \in Entries
    BY EntryTypes
  <2>3. Len(stream') = n + 1 /\ stream'[n + 1] = Upload(op, late)
    BY <1>2, <2>1, <2>2, Appended DEF Types
  <2>4. UNCHANGED <<call, host, words, positions>> /\ pc = at /\ pc' = next
    BY <1>9 DEF UploadStep, deviceVars
  <2>5. stream'[n + 1].op = op /\ Staged(stream[n + 1])' = host'
    BY <2>3, <2>4 DEF Upload, Staged
  <2> QED BY <1>1, <1>4, <1>9, <2>1, <2>2, <2>3, <2>4, <2>5
<1>10. CASE UploadSeed
  <2>1. /\ pc' = "upload_base" /\ call' = r /\ Len(stream') = n + 1
        /\ host'.seed = r.seed /\ host'.base = r.target
        /\ \A i \in 0..r.count - 1 : host'.mtp[i] = r.mtp + i
        /\ stream'[n + 1].op = "seed" /\ Staged(stream[n + 1])' = host'
    BY <1>9, <1>10 DEF UploadSeed, Ops, Uploading
  <2>2. SeedUp((n + 1) + 3, r)'
    <3>1. (n + 1) + 3 > 3 /\ ((n + 1) + 3) - 3 = n + 1
      OBVIOUS
    <3> QED BY <2>1, <3>1 DEF SeedUp
  <2> QED BY <2>1, <2>2
<1>11. CASE UploadBase
  <2>1. /\ pc = "upload_base" /\ pc' = "upload_mtp" /\ call' = r /\ Len(stream') = n + 1
        /\ host'.seed = r.seed /\ host'.base = r.target
        /\ \A i \in 0..r.count - 1 : host'.mtp[i] = r.mtp + i
        /\ UNCHANGED <<host, words, positions>>
        /\ \E x \in Entries : stream' = Append(stream, x)
        /\ stream'[n + 1].op = "base" /\ Staged(stream[n + 1])' = host'
    BY <1>9, <1>11 DEF UploadBase, Ops, Uploading
  <2>2. SeedUp(n + 3, r)'
    <3>1. PICK g \in Nat : g = n + 3
      OBVIOUS
    <3>2. SeedUp(g, r) => SeedUp(g, r)'
      BY <1>2, <2>1, <3>1, UploadsKept
    <3> QED BY <1>4, <2>1, <3>1, <3>2
  <2>3. BaseUp(n + 3, r)'
    <3>1. n + 3 > 2 /\ (n + 3) - 2 = n + 1
      OBVIOUS
    <3> QED BY <2>1, <3>1 DEF BaseUp
  <2>4. (n + 1) + 2 = n + 3 /\ n + 1 \in Nat
    OBVIOUS
  <2> QED BY <2>1, <2>2, <2>3, <2>4 DEF SeedUp, BaseUp
<1>12. CASE UploadMtp
  <2>1. /\ pc = "upload_mtp" /\ pc' = "launch" /\ call' = r /\ Len(stream') = n + 1
        /\ host'.seed = r.seed /\ host'.base = r.target
        /\ \A i \in 0..r.count - 1 : host'.mtp[i] = r.mtp + i
        /\ UNCHANGED <<host, words, positions>>
        /\ \E x \in Entries : stream' = Append(stream, x)
        /\ stream'[n + 1].op = "mtp" /\ Staged(stream[n + 1])' = host'
    BY <1>9, <1>12 DEF UploadMtp, Ops, Uploading
  <2>2. SeedUp(n + 2, r)' /\ BaseUp(n + 2, r)'
    <3>1. PICK g \in Nat : g = n + 2
      OBVIOUS
    <3>2. (SeedUp(g, r) => SeedUp(g, r)') /\ (BaseUp(g, r) => BaseUp(g, r)')
      BY <1>2, <2>1, <3>1, UploadsKept
    <3> QED BY <1>4, <2>1, <3>1, <3>2
  <2>3. MtpUp(n + 2, r)'
    <3>1. n + 2 > 1 /\ (n + 2) - 1 = n + 1
      OBVIOUS
    <3> QED BY <2>1, <3>1 DEF MtpUp
  <2>4. (n + 1) + 1 = n + 2 /\ n + 1 \in Nat
    OBVIOUS
  <2>5. PICK m \in Nat : m = n + 1
    BY <2>4
  <2>6. Uploaded(m + 1, r)'
    BY <2>2, <2>3, <2>4, <2>5 DEF Uploaded, SeedUp, BaseUp, MtpUp
  <2> QED BY <2>1, <2>5, <2>6
<1>13. CASE \/ Propose \/ Verify \/ LaunchGraph \/ RollBack \/ DownloadDrafts \/ DownloadOutputs
            \/ Synchronize \/ Returns \/ Destroy \/ Call
  <2>1. pc' \notin Uploading
    BY <1>13 DEF Propose, Verify, LaunchGraph, Launched, RollBack, DownloadDrafts, DownloadOutputs,
         Download, Synchronize, Returns, TargetReturns, MtpDraftReturns, RolledBack,
         DownloadFails, JudgeFails, Judge, Succeed, Fail, Failed, Return, Destroy, Call,
         TargetStep, MtpDraft, Begin, Uploading
  <2> QED BY <1>5, <2>1
<1>14. CASE Gone
  BY <1>6, <1>14 DEF Gone
<1> QED
  BY <1>6, <1>7, <1>8, <1>10, <1>11, <1>12, <1>13, <1>14 DEF Next, Host, Prepared

------------------------------------------------------------------------------
(* The words of a round *)

LEMMA RowsAppend ==
  ASSUME NEW n \in Nat, NEW at \in Int
  PROVE  Append([k \in 1..n |-> at + k - 1], at + n) = [k \in 1..n + 1 |-> at + k - 1]
<1> DEFINE s == [k \in 1..n |-> at + k - 1]
<1> DEFINE t == [k \in 1..n + 1 |-> at + k - 1]
<1>1. s \in Seq(Int) /\ Len(s) = n /\ t \in Seq(Int) /\ Len(t) = n + 1
  OBVIOUS
<1>2. \A k \in 1..n : s[k] = t[k]
  OBVIOUS
<1>3. t[n + 1] = at + n
  OBVIOUS
<1> HIDE DEF s, t
<1>4. /\ Append(s, at + n) \in Seq(Int) /\ Len(Append(s, at + n)) = n + 1
      /\ \A k \in 1..n : Append(s, at + n)[k] = s[k]
      /\ Append(s, at + n)[n + 1] = at + n
  BY <1>1, AppendProperties
<1>5. \A k \in 1..n + 1 : Append(s, at + n)[k] = t[k]
  BY <1>2, <1>3, <1>4
<1>6. Append(s, at + n) = t
  BY <1>1, <1>4, <1>5, SeqEqual
<1> QED
  BY <1>6 DEF s, t

LEMMA RowOfNone == [k \in 1..0 |-> call.mtp + k - 1] = <<>>
BY EmptySeq

LEMMA ExecuteProposal ==
  ASSUME Types, Execute, NEW n \in 0..MaximumBlock - 2, call.mtp \in Int,
         stream[1].op = "propose", stream[1].round = call, stream[1].n = n,
         n > 0 => words[draft_token(n - 1)] = Row(n)
  PROVE  /\ words'[draft_token(n)] = Row(n + 1)
         /\ \A m \in 0..MaximumBlock - 2 : m # n => words'[draft_token(m)] = words[draft_token(m)]
<1> DEFINE from == IF n = 0 THEN Seed(call.seed) ELSE words[draft_token(n - 1)]
<1>1. Head(stream) = stream[1]
  BY Shortened DEF Types, Execute
<1>2. words' = [words EXCEPT ![draft_token(n)] =
                  Proposal(from, Append(from.mtp, call.mtp + n))]
  BY <1>1 DEF Execute, Effect
<1>3. n \in Nat
  BY SizeAssumption
<1>4. from = Row(n)
  BY <1>3, RowOfNone DEF Seed, Row
<1>5. Append(from.mtp, call.mtp + n) = [k \in 1..n + 1 |-> call.mtp + k - 1]
  BY <1>3, <1>4, RowsAppend DEF Row
<1> HIDE DEF from
<1>6. Proposal(from, Append(from.mtp, call.mtp + n)) = Row(n + 1)
  <2>1. \A x : Proposal(Row(n), x) = [seed |-> call.seed, mtp |-> x, base |-> NoBase]
    BY DEF Proposal, Row
  <2>2. Row(n + 1) = [seed |-> call.seed, mtp |-> [k \in 1..n + 1 |-> call.mtp + k - 1],
                      base |-> NoBase]
    BY DEF Row
  <2> QED BY <1>4, <1>5, <2>1, <2>2
<1>7. /\ draft_token(n) \in WordIndex
      /\ \A m \in 0..MaximumBlock - 2 : draft_token(m) \in WordIndex
                                       /\ (m # n => draft_token(m) # draft_token(n))
  BY SizeAssumption DEF draft_token, WordIndex
<1>8. words' = [words EXCEPT ![draft_token(n)] = Row(n + 1)]
  BY <1>2, <1>6
<1> QED
  BY <1>7, <1>8 DEF Types

LEMMA ProposalsExecuted ==
  ASSUME Types, Execute, NEW e \in Int, NEW h \in Int, h = e - 1, NEW k \in 0..MaximumBlock - 1,
         call.mtp \in Int, e <= Len(stream) + 1, Proposals(e, k), e <= 1 => words' = words
  PROVE  Proposals(h, k)'
<1> SUFFICES ASSUME NEW n \in 0..k - 1 PROVE ProposalAt(h - k + n, n)'
  BY DEF Proposals
<1> DEFINE g == e - k + n
<1>1. /\ Len(stream) \in Nat /\ Len(stream) > 0 /\ call' = call
      /\ \A i \in 1..Len(stream) - 1 : stream'[i] = stream[i + 1]
  BY Shortened DEF Types, Execute
<1>2. /\ g \in Int /\ h - k + n = g - 1 /\ k \in Int /\ n \in Int /\ MaximumBlock \in Int
      /\ n \in 0..MaximumBlock - 2 /\ g < e
  BY SizeAssumption
<1>3. ProposalAt(g, n)
  BY DEF Proposals
<1> HIDE DEF g
<1>4. CASE g > 1
  <2>1. g - 1 \in 1..Len(stream) - 1 /\ (g - 1) + 1 = g
    BY <1>1, <1>2, <1>4
  <2>2. stream'[g - 1] = stream[g]
    BY <1>1, <2>1
  <2> QED BY <1>1, <1>2, <1>3, <1>4, <2>2 DEF ProposalAt
<1>5. CASE g = 1
  <2>1. n > 0 => words[draft_token(n - 1)] = Row(n)
    <3>1. n > 0 => n - 1 \in 0..k - 1 /\ e - k + (n - 1) = 0 /\ (n - 1) + 1 = n
      BY <1>2, <1>5 DEF g
    <3> QED BY <3>1 DEF Proposals, ProposalAt
  <2>2. words'[draft_token(n)] = Row(n + 1)
    BY <1>2, <1>3, <1>5, <2>1, ExecuteProposal DEF ProposalAt
  <2> QED BY <1>1, <1>2, <1>5, <2>2 DEF ProposalAt, Row
<1>6. CASE g < 1
  <2>1. words[draft_token(n)] = Row(n + 1)
    BY <1>2, <1>3, <1>6 DEF ProposalAt
  <2>2. words'[draft_token(n)] = words[draft_token(n)]
    <3>1. CASE e > 1
      <4>1. PICK m \in Int : m = k - e + 1
        BY <1>2
      <4>2. m \in 0..k - 1 /\ e - k + m = 1 /\ m # n /\ m \in 0..MaximumBlock - 2
        BY <1>2, <1>6, <3>1, <4>1 DEF g
      <4>3. ProposalAt(1, m) /\ (m > 0 => ProposalAt(0, m - 1))
        <5>1. m > 0 => m - 1 \in 0..k - 1 /\ e - k + (m - 1) = 0
          BY <1>2, <4>2
        <5> QED BY <4>2, <5>1 DEF Proposals
      <4>4. m > 0 => words[draft_token(m - 1)] = Row(m)
        <5>1. m > 0 => (m - 1) + 1 = m
          BY <4>1, <1>2
        <5> QED BY <4>3, <5>1 DEF ProposalAt
      <4> QED BY <1>2, <4>2, <4>3, <4>4, ExecuteProposal DEF ProposalAt
    <3>2. CASE e <= 1
      BY <3>2
    <3> QED BY <3>1, <3>2
  <2> QED BY <1>1, <1>2, <1>6, <2>1, <2>2 DEF ProposalAt, Row
<1> QED
  BY <1>2, <1>4, <1>5, <1>6

LEMMA VerifiedWords ==
  ASSUME NEW before, NEW count \in 1..MaximumBlock - 1, NEW seed, NEW base
  PROVE  LET after == Verified(before, count, seed, base) IN
         /\ after[selected_token(0)] = [seed EXCEPT !.base = base]
         /\ \A i \in 1..count :
              after[selected_token(i)] = [before[draft_token(i - 1)] EXCEPT !.base = base]
         /\ \A n \in 0..count - 1 : after[draft_token(n)] = before[draft_token(n)]
<1>1. /\ \A i \in 0..count : selected_token(i) = i /\ i \in WordIndex
                            /\ i \in selected_token(0)..selected_token(count)
      /\ \A n \in 0..count - 1 : /\ draft_token(n) \in WordIndex
           /\ draft_token(n) \notin selected_token(0)..selected_token(count)
  BY SizeAssumption DEF selected_token, draft_token, WordIndex
<1>2. count \in Nat
  BY SizeAssumption
<1>3. \A w \in WordIndex : Verified(before, count, seed, base)[w] =
        IF w \notin selected_token(0)..selected_token(count) THEN before[w]
        ELSE [(IF w = 0 THEN seed ELSE before[draft_token(w - 1)]) EXCEPT !.base = base]
  BY DEF Verified
<1>4. Verified(before, count, seed, base)[selected_token(0)] = [seed EXCEPT !.base = base]
  <2>1. 0 \in 0..count
    BY <1>2
  <2> QED BY <1>1, <1>3, <2>1
<1>5. ASSUME NEW i \in 1..count
      PROVE  Verified(before, count, seed, base)[selected_token(i)]
               = [before[draft_token(i - 1)] EXCEPT !.base = base]
  <2>1. i \in 0..count /\ i # 0
    BY <1>2
  <2> QED BY <1>1, <1>3, <2>1
<1>6. ASSUME NEW n \in 0..count - 1
      PROVE  Verified(before, count, seed, base)[draft_token(n)] = before[draft_token(n)]
  BY <1>1, <1>3
<1> QED
  BY <1>4, <1>5, <1>6

LEMMA GraphWords ==
  ASSUME NEW count \in 1..MaximumBlock - 1
  PROVE  LET chain(i) == Proposal(words[graph_seed_token], [k \in 1..i |-> positions.mtp[k - 1]])
         IN /\ Graph(count)[selected_token(0)] = [words[graph_seed_token] EXCEPT !.base = positions.base]
            /\ \A i \in 1..count :
                 Graph(count)[selected_token(i)] = [chain(i) EXCEPT !.base = positions.base]
            /\ \A n \in 0..count - 1 : Graph(count)[draft_token(n)] = chain(n + 1)
<1> DEFINE chain(i) == Proposal(words[graph_seed_token], [k \in 1..i |-> positions.mtp[k - 1]])
           proposed == [w \in WordIndex |->
             IF w \notin draft_token(0)..draft_token(count - 1) THEN words[w]
             ELSE Proposal(words[graph_seed_token],
                           [k \in 1..w - draft_token(0) + 1 |-> positions.mtp[k - 1]])]
<1>1. Graph(count) = Verified(proposed, count, proposed[graph_seed_token], positions.base)
  BY DEF Graph
<1>2. /\ graph_seed_token \in WordIndex
      /\ graph_seed_token \notin draft_token(0)..draft_token(count - 1)
      /\ \A n \in 0..count - 1 : /\ draft_token(n) \in WordIndex
           /\ draft_token(n) \in draft_token(0)..draft_token(count - 1)
           /\ draft_token(n) - draft_token(0) + 1 = n + 1
  BY SizeAssumption DEF graph_seed_token, draft_token, WordIndex
<1>3. proposed[graph_seed_token] = words[graph_seed_token]
  BY <1>2
<1>4. ASSUME NEW n \in 0..count - 1 PROVE proposed[draft_token(n)] = chain(n + 1)
  BY <1>2, <1>4
<1>5. \A i \in 1..count : i - 1 \in 0..count - 1 /\ (i - 1) + 1 = i
  BY SizeAssumption
<1> HIDE DEF proposed, chain
<1>6. \A i \in 1..count : proposed[draft_token(i - 1)] = chain(i)
  BY <1>4, <1>5
<1>7. /\ Graph(count)[selected_token(0)] = [words[graph_seed_token] EXCEPT !.base = positions.base]
      /\ \A i \in 1..count :
           Graph(count)[selected_token(i)] = [chain(i) EXCEPT !.base = positions.base]
      /\ \A n \in 0..count - 1 : Graph(count)[draft_token(n)] = chain(n + 1)
  BY <1>1, <1>3, <1>4, <1>6, VerifiedWords
<1> QED
  BY <1>7 DEF chain

LEMMA BlockExecuted ==
  ASSUME Types, GraphsUploaded, Execute, NEW v \in Int, NEW h \in Int, h = v - 1,
         v <= Len(stream), call.count \in 1..MaximumBlock - 1, BlockAt(v),
         v <= 0 => words' = words
  PROVE  BlockAt(h)'
<1>1. /\ Len(stream) \in Nat /\ Len(stream) > 0 /\ call' = call /\ Head(stream) = stream[1]
      /\ \A i \in 1..Len(stream) - 1 : stream'[i] = stream[i + 1]
  BY Shortened DEF Types, Execute
<1>2. /\ call.mtp \in Int /\ call.count \in Nat /\ MaximumBlock \in Nat
      /\ call.count \in 0..MaximumBlock - 1
  BY SizeAssumption DEF Types, Rounds
<1>3. CASE v <= 0
  BY <1>1, <1>3 DEF BlockAt, Evaluated, Row, Answer
<1>4. CASE v > 1
  <2>1. h \in 1..Len(stream) - 1 /\ h + 1 = v /\ h > 0
    BY <1>1, <1>4
  <2>2. stream'[h] = stream[v]
    BY <1>1, <2>1
  <2>3. Proposals(v, call.count) => Proposals(h, call.count)'
    <3>1. PICK k \in 0..MaximumBlock - 1 : k = call.count
      BY <1>2
    <3>2. Proposals(v, k) => Proposals(h, k)'
      BY <1>1, <1>2, <1>4, ProposalsExecuted
    <3> QED BY <1>1, <3>1, <3>2 DEF Proposals, ProposalAt, Row
  <2> QED BY <1>1, <1>4, <2>1, <2>2, <2>3 DEF BlockAt
<1>5. CASE v = 1
  <2>1. /\ words' = Effect(stream[1]) /\ stream[1].round = call /\ stream[1].n = call.count
    BY <1>1, <1>5 DEF Execute, BlockAt
  <2>2. PICK count \in 1..MaximumBlock - 1 : count = call.count
    OBVIOUS
  <2>3. Answer(0) = [Seed(call.seed) EXCEPT !.base = call.target]
    BY RowOfNone DEF Answer, Row, Seed
  <2>4. SUFFICES /\ \A n \in 0..count - 1 : words'[draft_token(n)] = Row(n + 1)
                 /\ words'[selected_token(0)] = Answer(0)
                 /\ \A i \in 1..count : words'[selected_token(i)] = Answer(i)
    <3>1. \A i \in 0..count : i = 0 \/ i \in 1..count
      BY <1>2
    <3> SUFFICES ASSUME /\ \A n \in 0..count - 1 : words'[draft_token(n)] = Row(n + 1)
                        /\ \A i \in 0..count : words'[selected_token(i)] = Answer(i)
                 PROVE  BlockAt(h)'
      BY <3>1
    <3>2. /\ \A n \in 0..call'.count - 1 : words'[draft_token(n)] = Row(n + 1)'
          /\ \A i \in 0..call'.count : words'[selected_token(i)] = Answer(i)'
      BY <1>1, <2>2 DEF Row, Answer
    <3> QED BY <1>5, <3>2 DEF BlockAt, Evaluated
  <2>5. CASE stream[1].op = "verify" /\ Proposals(1, call.count)
    <3>1. words' = Verified(words, count, Seed(call.seed), call.target)
      BY <2>1, <2>2, <2>5 DEF Effect
    <3>2. \A n \in 0..count - 1 : words[draft_token(n)] = Row(n + 1)
      <4>1. \A n \in 0..count - 1 : ~(1 - count + n > 0)
        BY <1>2, <2>2
      <4> QED BY <2>2, <2>5, <4>1 DEF Proposals, ProposalAt
    <3>3. \A i \in 1..count : words[draft_token(i - 1)] = Row(i)
      <4>1. \A i \in 1..count : i - 1 \in 0..count - 1 /\ (i - 1) + 1 = i
        BY <1>2, <2>2
      <4> QED BY <3>2, <4>1
    <3> QED BY <2>3, <3>1, <3>2, <3>3, VerifiedWords DEF Answer
  <2>6. CASE stream[1].op = "graph"
    <3>1. words' = Graph(count)
      BY <2>1, <2>2, <2>6 DEF Effect
    <3>2. Uploaded(1, call)
      BY <1>1, <2>1, <2>6 DEF GraphsUploaded, GraphAt
    <3>3. /\ words[graph_seed_token] = Seed(call.seed) /\ positions.base = call.target
          /\ \A i \in 0..count - 1 : positions.mtp[i] = call.mtp + i
      BY <2>2, <3>2 DEF Uploaded, SeedUp, BaseUp, MtpUp
    <3>4. ASSUME NEW i \in 1..count
          PROVE  Proposal(words[graph_seed_token], [k \in 1..i |-> positions.mtp[k - 1]]) = Row(i)
      <4>1. \A k \in 1..i : positions.mtp[k - 1] = call.mtp + k - 1
        <5>1. \A k \in 1..i : k - 1 \in 0..count - 1 /\ call.mtp + (k - 1) = call.mtp + k - 1
          BY <1>2, <2>2
        <5> QED BY <3>3, <5>1
      <4>2. [k \in 1..i |-> positions.mtp[k - 1]] = [k \in 1..i |-> call.mtp + k - 1]
        BY <4>1
      <4>3. \A x : Proposal(Seed(call.seed), x) = [seed |-> call.seed, mtp |-> x, base |-> NoBase]
        BY DEF Proposal, Seed
      <4> QED BY <3>3, <4>2, <4>3 DEF Row
    <3>5. \A n \in 0..count - 1 : n + 1 \in 1..count
      BY <1>2, <2>2
    <3>6. \A n \in 0..count - 1 : words'[draft_token(n)] = Row(n + 1)
      BY <3>1, <3>4, <3>5, GraphWords
    <3>7. words'[selected_token(0)] = Answer(0)
      BY <2>3, <3>1, <3>3, GraphWords
    <3>8. \A i \in 1..count : words'[selected_token(i)] = Answer(i)
      <4>1. \A i \in 1..count : words'[selected_token(i)] =
              [Proposal(words[graph_seed_token], [k \in 1..i |-> positions.mtp[k - 1]])
                 EXCEPT !.base = positions.base]
        BY <3>1, GraphWords
      <4>2. \A i \in 1..count : words'[selected_token(i)] = [Row(i) EXCEPT !.base = call.target]
        BY <3>3, <3>4, <4>1
      <4> QED BY <4>2 DEF Answer
    <3> QED BY <3>6, <3>7, <3>8
  <2> QED BY <1>5, <2>5, <2>6 DEF BlockAt
<1> QED
  BY <1>3, <1>4, <1>5

(* What is behind the block: the two downloads.                            *)
LEMMA DownloadsExecuted ==
  ASSUME Types, Execute, InRound, call.count \in 1..MaximumBlock - 1,
         NEW d \in Int, NEW b \in Int, d = b + 1, d <= Len(stream),
         DraftsAt(d), d = 1 => Evaluated,
         d < 1 => stream[1].op = "outputs"
  PROVE  DraftsAt(b)'
<1>1. /\ Len(stream) \in Nat /\ Len(stream) > 0 /\ call' = call /\ Head(stream) = stream[1]
      /\ \A i \in 1..Len(stream) - 1 : stream'[i] = stream[i + 1]
  BY Shortened DEF Types, Execute
<1>2. drafts' = IF stream[1].op = "drafts"
                THEN [i \in 0..stream[1].n - 1 |-> words[draft_token(0) + i]] ELSE drafts
  BY <1>1 DEF Execute
<1>3. CASE d > 1
  <2>1. b \in 1..Len(stream) - 1 /\ b + 1 = d /\ b > 0
    BY <1>1, <1>3
  <2> QED BY <1>1, <1>3, <2>1 DEF DraftsAt
<1>4. CASE d = 1
  <2>1. drafts' = [i \in 0..call.count - 1 |-> words[draft_token(0) + i]]
    BY <1>2, <1>4 DEF DraftsAt
  <2>2. \A i \in 0..call.count - 1 : words[draft_token(0) + i] = Row(i + 1)
    <3>1. \A i \in 0..call.count - 1 : draft_token(0) + i = draft_token(i)
      BY SizeAssumption DEF draft_token
    <3> QED BY <1>4, <3>1 DEF Evaluated
  <2>3. drafts' = [i \in 0..call.count - 1 |-> Row(i + 1)]
    BY <2>1, <2>2
  <2>4. ~(b > 0)
    BY <1>4
  <2> QED BY <1>1, <2>3, <2>4 DEF DraftsAt, Row
<1>5. CASE d < 1
  <2>1. ~(b > 0) /\ ~(d > 0)
    BY <1>5
  <2> QED BY <1>1, <1>2, <1>5, <2>1 DEF DraftsAt, Row
<1> QED
  BY <1>3, <1>4, <1>5

LEMMA OutputsExecuted ==
  ASSUME Types, Execute, InRound, call.count \in 1..MaximumBlock - 1,
         NEW o \in Int, NEW b \in Int, o = b + 1, o <= Len(stream), o >= 1,
         OutputsAt(o), o = 1 => Evaluated
  PROVE  OutputsAt(b)'
<1>1. /\ Len(stream) \in Nat /\ Len(stream) > 0 /\ call' = call /\ Head(stream) = stream[1]
      /\ \A i \in 1..Len(stream) - 1 : stream'[i] = stream[i + 1]
  BY Shortened DEF Types, Execute
<1>2. CASE o > 1
  <2>1. b \in 1..Len(stream) - 1 /\ b + 1 = o /\ b > 0
    BY <1>1, <1>2
  <2> QED BY <1>1, <1>2, <2>1 DEF OutputsAt
<1>3. CASE o = 1
  <2>1. target_outputs' = [i \in 0..call.count + 1 - 1 |-> words[selected_token(0) + i]]
    <3>1. PICK e : e = Head(stream) /\ e = stream[1]
      BY <1>1
    <3>2. e.op = "outputs" /\ e.n = call.count
      BY <1>3, <3>1 DEF OutputsAt
    <3>3. target_outputs' = IF e.op = "outputs" /\ InRound
            THEN [i \in 0..(e.n + 1) - 1 |-> words[selected_token(0) + i]]
            ELSE target_outputs
      BY <3>1, Zenon DEF Execute
    <3>4. target_outputs' = [i \in 0..(e.n + 1) - 1 |-> words[selected_token(0) + i]]
      BY <3>2, <3>3, Zenon
    <3> QED BY <3>2, <3>4
  <2>2. 0..call.count + 1 - 1 = 0..call.count
    BY SizeAssumption
  <2>3. \A i \in 0..call.count : words[selected_token(0) + i] = Answer(i)
    BY <1>3 DEF Evaluated, selected_token
  <2>4. target_outputs' = [i \in 0..call.count |-> Answer(i)]
    BY <2>1, <2>2, <2>3
  <2>5. ~(b > 0)
    BY <1>3
  <2> QED BY <1>1, <2>4, <2>5 DEF OutputsAt, Answer, Row
<1> QED
  BY <1>2, <1>3

(* What the host enqueues behind them changes none of it.                  *)
LEMMA RoundKept ==
  ASSUME Types, UNCHANGED <<call, words>>, NEW x \in Entries, stream' = Append(stream, x)
  PROVE  /\ \A e \in Int, k \in Nat : e <= Len(stream) + 1 /\ Proposals(e, k) => Proposals(e, k)'
         /\ \A v \in Int : v <= Len(stream) /\ BlockAt(v) => BlockAt(v)'
         /\ \A d \in Int : d <= Len(stream) /\ drafts' = drafts /\ DraftsAt(d) => DraftsAt(d)'
<1>1. Len(stream) \in Nat /\ \A i \in 1..Len(stream) : stream'[i] = stream[i]
  BY Appended DEF Types
<1>2. call.count \in Nat
  BY DEF Types, Rounds
<1>3. ASSUME NEW e \in Int, NEW k \in Nat, e <= Len(stream) + 1, Proposals(e, k)
      PROVE  Proposals(e, k)'
  <2> SUFFICES ASSUME NEW n \in 0..k - 1 PROVE ProposalAt(e - k + n, n)'
    BY DEF Proposals
  <2>1. e - k + n \in Int /\ (e - k + n > 0 => e - k + n \in 1..Len(stream))
    BY <1>1, <1>3
  <2>2. ProposalAt(e - k + n, n)
    BY <1>3 DEF Proposals
  <2> QED BY <1>1, <2>1, <2>2 DEF ProposalAt, Row
<1>4. ASSUME NEW v \in Int, v <= Len(stream), BlockAt(v) PROVE BlockAt(v)'
  <2>1. Proposals(v, call.count) => Proposals(v, call.count)'
    <3>1. PICK k \in Nat : k = call.count
      BY <1>2
    <3>2. v <= Len(stream) + 1
      BY <1>1, <1>4
    <3>3. Proposals(v, k) => Proposals(v, k)'
      BY <1>3, <3>2
    <3>4. call' = call
      OBVIOUS
    <3> QED BY <3>1, <3>3, <3>4 DEF Proposals
  <2> QED BY <1>1, <1>4, <2>1 DEF BlockAt, Evaluated, Row, Answer
<1>5. ASSUME NEW d \in Int, d <= Len(stream), drafts' = drafts, DraftsAt(d) PROVE DraftsAt(d)'
  BY <1>1, <1>5 DEF DraftsAt, Row
<1> QED
  BY <1>3, <1>4, <1>5

LEMMA RoundQueuedInit == Init => RoundQueued
BY DEF Init, RoundQueued

LEMMA RoundQueuedExecute ==
  Types /\ Counted /\ GraphsUploaded /\ RoundQueued /\ Execute => RoundQueued'
<1> SUFFICES ASSUME Types, Counted, GraphsUploaded, RoundQueued, Execute PROVE RoundQueued'
  OBVIOUS
<1>1. /\ Len(stream) \in Nat /\ Len(stream) > 0 /\ Len(stream') = Len(stream) - 1
      /\ UNCHANGED <<pc, call, index>> /\ stream # <<>>
  BY Shortened DEF Types, Execute
<1>2. PICK n \in Nat : n = Len(stream) /\ n > 0
  BY <1>1
<1>3. /\ call.count \in Nat /\ call.mtp \in Int /\ index \in Nat /\ MaximumBlock \in Nat
  BY SizeAssumption DEF Types, Rounds
<1>4. pc \in {"download_drafts", "download_outputs", "synchronize"} =>
        call.count \in 1..MaximumBlock - 1
  BY DEF Counted, Running
<1>5. pc # "judge"
  BY <1>1 DEF RoundQueued
<1>6. CASE pc = "propose"
  <2>1. PICK k \in 0..MaximumBlock - 1 : k = index
    BY <1>3, <1>6 DEF Counted, Starting
  <2>2. Proposals(n + 1, k) /\ n + 1 <= Len(stream) + 1 /\ ~(n + 1 <= 1)
    BY <1>2, <1>6, <2>1 DEF RoundQueued
  <2>3. Proposals(n, k)'
    BY <1>3, <2>2, ProposalsExecuted
  <2> QED BY <1>1, <1>2, <1>6, <2>1, <2>3 DEF RoundQueued, Proposals
<1>7. ASSUME NEW v \in Int, NEW w \in Int, w = v - 1, v <= n, BlockAt(v),
             call.count \in 1..MaximumBlock - 1,
             v < 1 => stream[1].op \in {"drafts", "outputs"}
      PROVE  BlockAt(w)'
  <2>1. v <= 0 => words' = words
    BY <1>7, ExecuteEffects
  <2> QED BY <1>2, <1>7, <2>1, BlockExecuted
<1>8. CASE pc = "download_drafts"
  <2>1. PICK m \in Int : m = n - 1
    BY <1>2
  <2>2. BlockAt(n)
    BY <1>2, <1>8 DEF RoundQueued
  <2>3. BlockAt(m)'
    BY <1>2, <1>4, <1>7, <1>8, <2>1, <2>2
  <2> QED BY <1>1, <1>2, <1>8, <2>1, <2>3 DEF RoundQueued, BlockAt, Proposals
<1>9. CASE pc = "download_outputs"
  <2>1. PICK m \in Int, l \in Int : m = n - 1 /\ l = n - 2
    BY <1>2
  <2>2. BlockAt(m) /\ DraftsAt(n)
    BY <1>2, <1>9, <2>1 DEF RoundQueued
  <2>3. m < 1 => stream[1].op = "drafts" /\ n = 1 /\ Evaluated
    BY <1>2, <2>1, <2>2 DEF DraftsAt, BlockAt
  <2>4. BlockAt(l)'
    BY <1>2, <1>4, <1>7, <1>9, <2>1, <2>2, <2>3
  <2>5. DraftsAt(m)'
    <3>1. n = 1 => m < 1
      BY <2>1
    <3> QED BY <1>2, <1>4, <1>9, <2>1, <2>2, <2>3, <3>1, DownloadsExecuted DEF InRound
  <2>6. Len(stream') = m /\ m - 1 = l
    BY <1>1, <1>2, <2>1
  <2> QED BY <1>1, <1>9, <2>4, <2>5, <2>6 DEF RoundQueued, BlockAt, DraftsAt, Proposals
<1>10. CASE pc = "synchronize"
  <2>1. PICK m \in Int, l \in Int, k \in Int : m = n - 1 /\ l = n - 2 /\ k = n - 3
    BY <1>2
  <2>2. BlockAt(l) /\ DraftsAt(m) /\ OutputsAt(n)
    BY <1>2, <1>10, <2>1 DEF RoundQueued
  <2>3. l < 1 => stream[1].op \in {"drafts", "outputs"} /\ Evaluated
    <3>1. n = 1 \/ n = 2 \/ l >= 1
      BY <1>2, <2>1
    <3>2. n = 1 => stream[1].op = "outputs"
      BY <2>2 DEF OutputsAt
    <3>3. n = 2 => m = 1 /\ stream[1].op = "drafts"
      BY <2>1, <2>2 DEF DraftsAt
    <3>4. l < 1 => Evaluated
      BY <2>1, <2>2 DEF BlockAt
    <3> QED BY <3>1, <3>2, <3>3, <3>4, <2>1
  <2>4. BlockAt(k)'
    BY <1>2, <1>4, <1>7, <1>10, <2>1, <2>2, <2>3
  <2>5. DraftsAt(l)'
    <3>1. (m = 1 => l < 1) /\ (m < 1 => n = 1)
      BY <1>2, <2>1, SMTT(20)
    <3>2. m < 1 => stream[1].op = "outputs"
      BY <2>2, <3>1 DEF OutputsAt
    <3> QED BY <1>2, <1>4, <1>10, <2>1, <2>2, <2>3, <3>1, <3>2, DownloadsExecuted DEF InRound
  <2>6. OutputsAt(m)'
    <3>1. n = 1 => l < 1
      BY <2>1
    <3> QED BY <1>2, <1>4, <1>10, <2>1, <2>2, <2>3, <3>1, OutputsExecuted DEF InRound
  <2>7. Len(stream') = m /\ m - 1 = l /\ m - 2 = k
    BY <1>1, <1>2, <2>1
  <2> QED BY <1>1, <1>10, <2>4, <2>5, <2>6, <2>7
       DEF RoundQueued, BlockAt, DraftsAt, OutputsAt, Proposals
<1> QED
  BY <1>1, <1>5, <1>6, <1>8, <1>9, <1>10 DEF RoundQueued

(* The host: each entry that it appends is the one RoundQueued expects.    *)
LEMMA HostAppends ==
  ASSUME Types, NEW x \in Entries, Enqueue(x)
  PROVE  /\ stream' = Append(stream, x) /\ Len(stream) \in Nat
         /\ Len(stream') = Len(stream) + 1 /\ stream'[Len(stream) + 1] = x
BY Appended DEF Types, Enqueue

LEMMA Launches ==
  ASSUME Types, NEW op \in {"graph", "propose", "verify", "drafts", "outputs"},
         NEW round \in Rounds, NEW k \in Nat
  PROVE  /\ Launch(op, round, k) \in Entries
         /\ Launch(op, round, k).op = op /\ Launch(op, round, k).round = round
         /\ Launch(op, round, k).n = k
BY EntryTypes DEF Launch, Ops

LEMMA RoundQueuedHost ==
  Types /\ Counted /\ RoundQueued /\ Host => RoundQueued'
<1> SUFFICES ASSUME Types, Counted, RoundQueued, Host PROVE RoundQueued'
  OBVIOUS
<1>1. /\ call.count \in Nat /\ index \in Nat /\ call \in Rounds
      /\ call.count + 0 = call.count
  BY DEF Types, Rounds
<1>2. PICK n \in Nat : n = Len(stream)
  BY LenProperties DEF Types
<1>3. ASSUME NEW seed \in Token, NEW count \in 1..MaximumBlock - 1, Begin(seed, count)
      PROVE  RoundQueued'
  <2>1. pc' \in {"stage", "propose"} /\ index' = 0
    BY <1>3 DEF Begin
  <2>2. Proposals(Len(stream) + 1, 0)'
    BY DEF Proposals
  <2> QED BY <2>1, <2>2 DEF RoundQueued, Proposals
<1>4. CASE Propose
  <2>1. PICK k \in Nat : k = index
    BY <1>1
  <2>2. PICK x : x = Launch("propose", call, k)
    OBVIOUS
  <2>3. x \in Entries /\ Enqueue(x) /\ UNCHANGED <<call, words>> /\ pc = "propose" /\ pc' = pc
        /\ index' = k + 1 /\ x.op = "propose" /\ x.round = call /\ x.n = k
    BY <1>1, <1>4, <2>1, <2>2, Launches DEF Propose, deviceVars
  <2>4. /\ stream' = Append(stream, x) /\ Len(stream') = n + 1 /\ stream'[n + 1] = x
    BY <1>2, <2>3, HostAppends
  <2>5. Proposals(n + 1, k)
    BY <1>2, <2>1, <2>3 DEF RoundQueued
  <2>6. Proposals(n + 1, k)'
    <3>1. PICK g \in Int : g = n + 1 /\ g <= Len(stream) + 1
      BY <1>2
    <3>2. UNCHANGED <<call, words>>
      BY <2>3
    <3>3. Proposals(g, k) => Proposals(g, k)'
      BY <2>3, <2>4, <3>1, <3>2, RoundKept
    <3> QED BY <2>5, <3>1, <3>3
  <2>7. Proposals(n + 2, k + 1)'
    <3> SUFFICES ASSUME NEW i \in 0..(k + 1) - 1 PROVE ProposalAt(n + 2 - (k + 1) + i, i)'
      BY <2>1 DEF Proposals
    <3>1. CASE i \in 0..k - 1
      <4>1. n + 2 - (k + 1) + i = n + 1 - k + i
        BY <3>1
      <4>2. ProposalAt(n + 1 - k + i, i)'
        BY <2>6, <3>1 DEF Proposals
      <4> QED BY <4>1, <4>2
    <3>2. CASE i = k
      <4>1. n + 2 - (k + 1) + i = n + 1
        BY <3>2
      <4>2. ProposalAt(n + 1, k)'
        BY <2>3, <2>4 DEF ProposalAt
      <4> QED BY <3>2, <4>1, <4>2
    <3> QED BY <2>1, <3>1, <3>2
  <2>8. Len(stream') + 1 = n + 2
    BY <2>4
  <2> QED BY <2>3, <2>7, <2>8 DEF RoundQueued, Proposals
<1>5. ASSUME NEW x \in Entries, Enqueue(x), x.round = call, x.n = call.count,
             UNCHANGED <<call, words>>, pc' = "download_drafts",
             \/ x.op = "graph"
             \/ x.op = "verify" /\ Proposals(n + 1, call.count)
      PROVE  RoundQueued'
  <2>1. /\ stream' = Append(stream, x) /\ Len(stream') = n + 1 /\ stream'[n + 1] = x
    BY <1>2, <1>5, HostAppends
  <2>2. PICK k \in Nat : k = call.count
    BY <1>1
  <2>3. Proposals(n + 1, k) => Proposals(n + 1, k)'
    <3>1. UNCHANGED <<call, words>>
      BY <1>5
    <3>2. n + 1 \in Int /\ n + 1 <= Len(stream) + 1
      BY <1>2
    <3> QED BY <2>1, <3>1, <3>2, RoundKept
  <2>4. BlockAt(n + 1)'
    <3>1. x.op = "verify" => \A i \in 0..k - 1 : ProposalAt(n + 1 - k + i, i)'
      BY <1>5, <2>2, <2>3 DEF Proposals
    <3>2. n + 1 > 0 /\ call' = call
      BY <1>5
    <3>3. x.op = "verify" => Proposals(n + 1, call.count)'
      BY <2>2, <3>1, <3>2 DEF Proposals
    <3> QED BY <1>5, <2>1, <3>2, <3>3 DEF BlockAt
  <2> QED BY <1>5, <2>1, <2>4 DEF RoundQueued, BlockAt, Proposals
<1>6. CASE LaunchGraph
  <2>1. PICK x : x = Launch("graph", call, call.count)
    OBVIOUS
  <2>2. x \in Entries /\ Enqueue(x) /\ x.op = "graph" /\ x.round = call /\ x.n = call.count
    BY <1>1, <1>6, <2>1, Launches DEF LaunchGraph
  <2> QED BY <1>5, <1>6, <2>2 DEF LaunchGraph, Launched, deviceVars
<1>7. CASE Verify
  <2>1. PICK x : x = Launch("verify", call, call.count)
    OBVIOUS
  <2>2. x \in Entries /\ Enqueue(x) /\ x.op = "verify" /\ x.round = call /\ x.n = call.count
    BY <1>1, <1>7, <2>1, Launches DEF Verify
  <2>3. Proposals(n + 1, call.count)
    BY <1>2, <1>7 DEF Verify, RoundQueued
  <2> QED BY <1>5, <1>7, <2>2, <2>3 DEF Verify, Launched, deviceVars
<1>8. CASE DownloadDrafts
  <2>1. PICK x : x = Launch("drafts", NoCall, call.count)
    OBVIOUS
  <2>2. /\ x \in Entries /\ Enqueue(x) /\ x.op = "drafts" /\ x.n = call.count
        /\ UNCHANGED <<call, words>> /\ pc = "download_drafts" /\ pc' = "download_outputs"
    BY <1>1, <1>8, <2>1, StagingTypes, Launches DEF DownloadDrafts, Download, deviceVars
  <2>3. /\ stream' = Append(stream, x) /\ Len(stream') = n + 1 /\ stream'[n + 1] = x
    BY <1>2, <2>2, HostAppends
  <2>4. BlockAt(n)
    BY <1>2, <2>2 DEF RoundQueued
  <2>5. BlockAt(n)'
    BY <1>2, <2>2, <2>3, <2>4, RoundKept
  <2>6. DraftsAt(n + 1)'
    BY <2>2, <2>3 DEF DraftsAt
  <2>7. Len(stream') - 1 = n
    BY <2>3
  <2> QED BY <2>2, <2>3, <2>5, <2>6, <2>7 DEF RoundQueued, BlockAt, DraftsAt, Proposals, ProposalAt
<1>9. CASE DownloadOutputs
  <2>1. PICK x : x = Launch("outputs", NoCall, call.count)
    OBVIOUS
  <2>2. /\ x \in Entries /\ Enqueue(x) /\ x.op = "outputs" /\ x.n = call.count
        /\ UNCHANGED <<call, words, drafts>>
        /\ pc = "download_outputs" /\ pc' = "synchronize"
    BY <1>1, <1>9, <2>1, StagingTypes, Launches
       DEF DownloadOutputs, Download, deviceVars, resultVars
  <2>3. /\ stream' = Append(stream, x) /\ Len(stream') = n + 1 /\ stream'[n + 1] = x
    BY <1>2, <2>2, HostAppends
  <2>4. PICK m \in Int : m = n - 1
    BY <1>2
  <2>5. BlockAt(m) /\ DraftsAt(n) /\ m <= Len(stream)
    BY <1>2, <2>2, <2>4 DEF RoundQueued
  <2>6. BlockAt(m)' /\ DraftsAt(n)'
    BY <1>2, <2>2, <2>3, <2>5, RoundKept
  <2>7. OutputsAt(n + 1)'
    BY <2>2, <2>3 DEF OutputsAt
  <2>8. Len(stream') - 1 = n /\ Len(stream') - 2 = m
    BY <2>3, <2>4
  <2> QED BY <2>2, <2>3, <2>6, <2>7, <2>8
       DEF RoundQueued, BlockAt, DraftsAt, OutputsAt, Proposals, ProposalAt
<1>10. CASE Synchronize
  <2>1. /\ UNCHANGED <<call, words, stream, drafts, target_outputs>>
        /\ pc = "synchronize" /\ pc' = "judge" /\ stream = <<>>
    BY <1>10 DEF Synchronize, Synchronized, deviceVars, resultVars
  <2>2. BlockAt(Len(stream) - 2) /\ DraftsAt(Len(stream) - 1) /\ OutputsAt(Len(stream))
    BY <2>1 DEF RoundQueued
  <2> QED BY <2>1, <2>2 DEF RoundQueued, BlockAt, DraftsAt, OutputsAt, Evaluated,
                           Proposals, ProposalAt, Row, Answer
<1>11. CASE pc' \notin {"propose"} \cup Running
  BY <1>11 DEF RoundQueued, Running
<1>12. ASSUME ~(\E seed \in Token, count \in 1..MaximumBlock - 1 : Begin(seed, count)),
              ~Propose, ~LaunchGraph, ~Verify, ~DownloadDrafts, ~DownloadOutputs, ~Synchronize
       PROVE  pc' \notin {"propose"} \cup Running
  <2>1. CASE Call
    BY <1>12, <2>1 DEF Call, TargetStep, MtpDraft, Running
  <2>2. CASE Stage \/ UploadSeed \/ UploadBase \/ UploadMtp
    BY <2>2 DEF Stage, UploadSeed, UploadBase, UploadMtp, UploadStep, Running
  <2>3. CASE RollBack \/ Destroy
    BY <2>3 DEF RollBack, Destroy, Running
  <2>4. CASE Returns
    BY <2>4 DEF Returns, TargetReturns, MtpDraftReturns, RolledBack, DownloadFails, JudgeFails,
                Judge, Succeed, Fail, Failed, Return, Running
  <2> QED BY <1>12, <2>1, <2>2, <2>3, <2>4 DEF Host, Prepared
<1> QED
  BY <1>3, <1>4, <1>6, <1>7, <1>8, <1>9, <1>10, <1>11, <1>12

LEMMA RoundQueuedStep ==
  Types /\ Counted /\ GraphsUploaded /\ RoundQueued /\ [Next]_vars => RoundQueued'
<1>1. ASSUME RoundQueued, UNCHANGED vars PROVE RoundQueued'
  <2>1. UNCHANGED <<pc, call, index, drafts, target_outputs, stream, words>>
    BY <1>1 DEF vars, positionVars, resultVars, deviceVars
  <2>2. /\ \A e, k : Proposals(e, k)' <=> Proposals(e, k)
        /\ Evaluated' <=> Evaluated
    BY <2>1 DEF Proposals, ProposalAt, Evaluated, Row, Answer
  <2>3. \A v : BlockAt(v)' <=> BlockAt(v)
    BY <2>1, <2>2 DEF BlockAt
  <2>4. \A d : (DraftsAt(d)' <=> DraftsAt(d)) /\ (OutputsAt(d)' <=> OutputsAt(d))
    BY <2>1 DEF DraftsAt, OutputsAt, Row, Answer
  <2> QED BY <1>1, <2>1, <2>2, <2>3, <2>4 DEF RoundQueued
<1> QED
  BY <1>1, RoundQueuedExecute, RoundQueuedHost DEF Next, Gone

------------------------------------------------------------------------------
(* Theorems *)

(* What was enqueued, and what it will read, follows from the calls made,  *)
(* in whatever order the device runs behind the host.                      *)
THEOREM InductiveInvariance == Spec => []Inv
<1>1. Init => Inv
  BY TypesInit, CountedInit, GraphsBlockInit, GraphsUploadedInit, UploadsQueuedInit,
     RoundQueuedInit DEF Inv
<1>2. Inv /\ [Next]_vars => Inv'
  BY TypesStep, CountedStep, GraphsBlockStep, GraphsUploadedStep, UploadsQueuedStep,
     RoundQueuedStep DEF Inv
<1> QED
  BY <1>1, <1>2, PTL DEF Spec

(* A prepared graph that comes first in the queue finds its own seed and   *)
(* positions in the device words (qwen_runtime.cpp:888-934).               *)
THEOREM GraphsReadTheirRound == Spec => []GraphReadsItsRound
<1>1. Inv => GraphReadsItsRound
  <2> SUFFICES ASSUME Inv, stream # <<>>, stream[1].op = "graph"
               PROVE  LET round == stream[1].round IN
                      /\ words[graph_seed_token] = Seed(round.seed)
                      /\ positions.base = round.target
                      /\ \A i \in 0..stream[1].n - 1 : positions.mtp[i] = round.mtp + i
    <3>1. Inv /\ stream # <<>> => Head(stream) = stream[1]
      BY Shortened DEF Inv, Types
    <3> QED BY <3>1 DEF GraphReadsItsRound
  <2>1. GraphAt(1)
    BY Shortened DEF Inv, Types, GraphAt
  <2>2. Uploaded(1, stream[1].round) /\ stream[1].n = stream[1].round.count
    BY <2>1 DEF Inv, GraphsUploaded
  <2> QED BY <2>2 DEF Uploaded, SeedUp, BaseUp, MtpUp
<1> QED
  BY <1>1, InductiveInvariance, PTL

(* After its one synchronization the host judges the proposals and the     *)
(* answers of its own round (qwen_runtime.cpp:1441-1501).                  *)
THEOREM RoundsJudgeTheirOwn == Spec => []JudgesItsRound
<1>1. Inv => JudgesItsRound
  <2> SUFFICES ASSUME Inv, pc = "judge"
               PROVE  /\ drafts = [i \in 0..call.count - 1 |-> Row(i + 1)]
                      /\ target_outputs = [i \in 0..call.count |-> Answer(i)]
                      /\ KernelsTake(call.count + 1)
    BY DEF JudgesItsRound, Row, Answer
  <2>1. stream = <<>> /\ Len(stream) = 0
    BY DEF Inv, RoundQueued
  <2>2. DraftsAt(-1) /\ OutputsAt(0)
    <3>1. DraftsAt(Len(stream) - 1) /\ OutputsAt(Len(stream))
      BY DEF Inv, RoundQueued
    <3>2. Len(stream) - 1 = -1
      BY <2>1
    <3> QED BY <2>1, <3>1, <3>2
  <2>3. KernelsTake(call.count + 1)
    BY DEF Inv, Counted, Running
  <2> QED BY <2>2, <2>3 DEF DraftsAt, OutputsAt
<1> QED
  BY <1>1, InductiveInvariance, PTL
=============================================================================
