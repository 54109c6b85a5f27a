----------------------------- MODULE DeviceStream -----------------------------
(***************************************************************************)
(* A decode session and its HIP stream (src/qwen_runtime.cpp) as two       *)
(* processes: the host enqueues copies and launches, tests each status and *)
(* waits where the code synchronizes; the device executes the queue in     *)
(* order, at any time.  Module DecodeSession has the mathematics of the    *)
(* same calls; here it is what the queued work reads when it runs: the     *)
(* host members graph_host_*, and the device words around selected_token.  *)
(*                                                                         *)
(* A word is abstracted to what it was computed from.  Work that touches   *)
(* neither the words nor the staged values (the snapshot, the restored     *)
(* state, the tail of the MTP cache) is left out.  A caller may repeat a   *)
(* call that failed; nothing that the guards accept is ruled out.          *)
(***************************************************************************)
EXTENDS Integers, Sequences

CONSTANTS
  Token, NoToken,
  maximum_context,
  MaximumBlock,  \* kMaximumBlock
  UntiledRows,   \* the rows launch_lowbit_gemv_batch takes: 8
  Configs,       \* of a session: tiled_weights and graph_verifier_batch
  QueueBound,    \* no call begins behind more work than this,
  FailureBound   \* nor after more failed calls

ASSUME TokenAssumption == NoToken \notin Token
ASSUME SizeAssumption ==
  /\ maximum_context \in Nat \ {0}
  /\ MaximumBlock \in Nat \ {0, 1}
  /\ UntiledRows \in 1..MaximumBlock /\ {QueueBound, FailureBound} \subseteq Nat
  /\ Configs \subseteq [tiled : BOOLEAN, batch : {0} \cup 2..MaximumBlock]

VARIABLES
  config,
  pc,                \* of the host; "idle" between calls
  current_position, mtp_position, mtp_chain_active,
  call,              \* of a round: seed, drafts and base positions
  index,             \* proposals enqueued
  failures,          \* calls that returned an error
  host,              \* graph_host_seed_token, _base_position, _mtp_positions
  drafts, target_outputs,  \* the vectors a round downloads into
  stream,            \* what was enqueued and has not been executed
  words,             \* selected_token, draft_tokens and graph_seed_token
  positions          \* graph_base_position and graph_mtp_positions

positionVars == <<current_position, mtp_position, mtp_chain_active>>
resultVars == <<drafts, target_outputs>>
deviceVars == <<words, positions>>
vars == <<config, pc, positionVars, call, index, failures, host, resultVars, stream, deviceVars>>

------------------------------------------------------------------------------
(* Device memory *)

(* A token on the device: the seed of its round, the MTP positions of the  *)
(* proposals behind it and, of a verifier's answer, its base position.     *)
NoBase == -1
Seed(t) == [seed |-> t, mtp |-> <<>>, base |-> NoBase]
NoWord == Seed(NoToken)

WordIndex == 0..2 * MaximumBlock - 1
selected_token(i) == i
draft_token(i) == MaximumBlock + i

(* Fault: the seed is kept in the word of the last draft.                  *)
seed_in_last_draft == draft_token(MaximumBlock - 2)

graph_seed_token == draft_token(MaximumBlock - 1)

NoPositions == [base |-> 0, mtp |-> [i \in 0..MaximumBlock - 1 |-> 0]]
NoStaging == [seed |-> NoToken, base |-> 0, mtp |-> [i \in 0..MaximumBlock - 1 |-> 0]]
NoCall == [seed |-> NoToken, count |-> 0, target |-> 0, mtp |-> 0]

(* Host memory that is copied asynchronously is read when the copy is      *)
(* enqueued or when it is executed (late): the code cannot know which.     *)
Launch(op, round, n) ==
  [op |-> op, round |-> round, n |-> n, late |-> FALSE, value |-> NoStaging]
Upload(op, late) ==
  [op |-> op, round |-> NoCall, n |-> 0, late |-> late,
   value |-> IF late THEN NoStaging ELSE host]
Staged(entry) == IF entry.late THEN host ELSE entry.value

Enqueue(entry) == stream' = Append(stream, entry)

(* A proposal of the word `from` at a position; the verifier's answers, in *)
(* one row for the seed and one for each draft.                            *)
Proposal(from, mtp) == [from EXCEPT !.mtp = mtp]
Verified(before, count, seed, base) ==
  [w \in WordIndex |->
     IF w \notin selected_token(0)..selected_token(count) THEN before[w]
     ELSE [(IF w = 0 THEN seed ELSE before[draft_token(w - 1)]) EXCEPT !.base = base]]

(* The captured chain: the first proposal reads graph_seed_token, each     *)
(* other one the draft before it, and then the verifier reads all of them. *)
Graph(count) ==
  LET proposed == [w \in WordIndex |->
        IF w \notin draft_token(0)..draft_token(count - 1) THEN words[w]
        ELSE Proposal(words[graph_seed_token],
                      [k \in 1..w - draft_token(0) + 1 |-> positions.mtp[k - 1]])]
  IN Verified(proposed, count, proposed[graph_seed_token], positions.base)

Effect(entry) ==
  LET round == entry.round
      n == entry.n
  IN CASE entry.op = "seed" -> [words EXCEPT ![graph_seed_token] = Seed(Staged(entry).seed)]
       [] entry.op = "graph" -> Graph(n)
       [] entry.op = "propose" ->
            LET from == IF n = 0 THEN Seed(round.seed) ELSE words[draft_token(n - 1)]
            IN [words EXCEPT ![draft_token(n)] = Proposal(from, Append(from.mtp, round.mtp + n))]
       [] entry.op = "verify" -> Verified(words, n, Seed(round.seed), round.target)
       [] entry.op = "argmax" -> [w \in WordIndex |-> IF w < n THEN NoWord ELSE words[w]]
       [] OTHER -> words

(* The vectors of a round live as long as its call.                        *)
InRound == pc \in {"download_drafts", "download_outputs", "synchronize", "judge"}

Execute ==
  /\ stream # <<>> /\ stream' = Tail(stream)
  /\ LET entry == Head(stream)
         download(op, first, n, vector) ==
           IF entry.op = op /\ InRound THEN [i \in 0..n - 1 |-> words[first + i]] ELSE vector
     IN /\ words' = Effect(entry)
        /\ positions' = CASE entry.op = "base" -> [positions EXCEPT !.base = Staged(entry).base]
                          [] entry.op = "mtp" -> [positions EXCEPT !.mtp = Staged(entry).mtp]
                          [] OTHER -> positions
        /\ drafts' = download("drafts", draft_token(0), entry.n, drafts)
        /\ target_outputs' = download("outputs", selected_token(0), entry.n + 1, target_outputs)
  /\ UNCHANGED <<config, failures, pc, positionVars, call, index, host>>

------------------------------------------------------------------------------
(* Creation and destruction *)

KernelsTake(rows) == config.tiled \/ rows <= UntiledRows

Captured == config.batch = 0 \/ KernelsTake(config.batch)

Init ==
  /\ config \in Configs
  /\ pc = IF Captured THEN "idle" ELSE "gone"
  /\ current_position = 0 /\ mtp_position = 0 /\ mtp_chain_active = FALSE
  /\ call = NoCall /\ index = 0 /\ failures = 0 /\ host = NoStaging
  /\ drafts = <<>> /\ target_outputs = <<>>
  /\ stream = <<>> /\ words = [w \in WordIndex |-> NoWord] /\ positions = NoPositions

(* ~Impl: hipFree waits for the device; then the members are gone.         *)
Destroy ==
  /\ pc = "idle" /\ stream = <<>>
  /\ pc' = "gone" /\ host' = NoStaging
  /\ UNCHANGED <<config, failures, positionVars, call, index, resultVars, stream, deviceVars>>

------------------------------------------------------------------------------
(* Calls of one step *)

Room == maximum_context - current_position
Synchronized == stream = <<>>

Return == pc' = "idle" /\ call' = NoCall /\ index' = 0 /\ drafts' = <<>> /\ target_outputs' = <<>>

Succeed == Return /\ UNCHANGED failures
Failed == Return /\ failures' = failures + 1
Fail == Failed /\ UNCHANGED positionVars

(* greedy_step and block_step: the rows, the argmax, then the download of  *)
(* the selected words, which is of no use to anybody later.                *)
TargetStep(rows) ==
  /\ pc = "idle" /\ rows <= Room /\ KernelsTake(rows)
  /\ pc' = "target"
  /\ call' = [NoCall EXCEPT !.count = rows]
  /\ Enqueue(Launch("argmax", NoCall, rows))
  /\ UNCHANGED <<config, failures, positionVars, index, host, resultVars, deviceVars>>

(* An error, of the download or of the work, is as if it came last: work   *)
(* whose launch failed would have changed no word that is read.            *)
TargetReturns ==
  /\ pc = "target"
  /\ \/ Synchronized /\ current_position' = current_position + call.count /\ Succeed
     \/ UNCHANGED current_position /\ Failed
  /\ UNCHANGED <<config, mtp_position, mtp_chain_active, host, stream, deviceVars>>

Aligned == mtp_position + 1 = current_position

(* launch_kv_append refuses a position behind the cache.                   *)
MtpDraft ==
  /\ pc = "idle" /\ (mtp_chain_active \/ Aligned) /\ mtp_position < maximum_context
  /\ pc' = "draft"
  /\ Enqueue(Launch("argmax", NoCall, 1))
  /\ UNCHANGED <<config, failures, positionVars, call, index, host, resultVars, deviceVars>>

MtpDraftReturns ==
  /\ pc = "draft"
  /\ \/ Synchronized /\ mtp_position' = mtp_position + 1 /\ Succeed
     \/ UNCHANGED mtp_position /\ Failed
  /\ UNCHANGED <<config, current_position, mtp_chain_active, host, stream, deviceVars>>

------------------------------------------------------------------------------
(* speculative_step *)

(* Fault: the draft cache need not follow the target.                      *)
SpeculationUnaligned(count) == current_position > 0 /\ count + 1 <= Room

(* Aligned, a target call has succeeded: last_hidden is set.               *)
SpeculationAccepted(count) == Aligned /\ count + 1 <= Room

Begin(seed, count) ==
  /\ pc = "idle" /\ SpeculationAccepted(count)
  /\ call' = [seed |-> seed, count |-> count, target |-> current_position, mtp |-> mtp_position]
  /\ pc' = IF count + 1 = config.batch THEN "stage" ELSE "propose"
  /\ index' = 0 /\ drafts' = <<>> /\ target_outputs' = <<>>
  /\ UNCHANGED <<config, failures, positionVars, host, stream, deviceVars>>

(* launch_prepared_speculative_graph: the round is staged, uploaded with   *)
(* three copies and launched.                                              *)
Stage ==
  /\ pc = "stage" /\ pc' = "upload_seed"
  /\ host' = [seed |-> call.seed, base |-> call.target,
              mtp |-> [i \in 0..MaximumBlock - 1 |->
                         IF i < call.count THEN call.mtp + i ELSE host.mtp[i]]]
  /\ UNCHANGED <<config, failures, positionVars, call, index, resultVars, stream, deviceVars>>

UploadStep(at, op, next) ==
  /\ pc = at /\ pc' = next
  /\ \E late \in BOOLEAN : Enqueue(Upload(op, late))
  /\ UNCHANGED <<config, failures, positionVars, call, index, host, resultVars, deviceVars>>

UploadSeed == UploadStep("upload_seed", "seed", "upload_base")
UploadBase == UploadStep("upload_base", "base", "upload_mtp")
UploadMtp == UploadStep("upload_mtp", "mtp", "launch")

(* The positions move when the work is enqueued.                           *)
Launched ==
  /\ current_position' = current_position + call.count + 1
  /\ mtp_position' = call.mtp + call.count
  /\ mtp_chain_active' = TRUE
  /\ pc' = "download_drafts"

LaunchGraph ==
  /\ pc = "launch"
  /\ Enqueue(Launch("graph", call, call.count))
  /\ Launched
  /\ UNCHANGED <<config, failures, call, index, host, resultVars, deviceVars>>

(* Without a prepared graph the seed and the positions go by value.        *)
Propose ==
  /\ pc = "propose" /\ index < call.count
  /\ Enqueue(Launch("propose", call, index))
  /\ index' = index + 1
  /\ UNCHANGED <<config, failures, pc, positionVars, call, host, resultVars, deviceVars>>

Verify ==
  /\ pc = "propose" /\ index = call.count /\ KernelsTake(call.count + 1)
  /\ Enqueue(Launch("verify", call, call.count))
  /\ Launched
  /\ UNCHANGED <<config, failures, call, index, host, resultVars, deviceVars>>

(* Any of these can fail, and a block of more rows than the kernels take   *)
(* always does: the positions go back, and the host synchronizes.          *)
RollBack ==
  /\ pc \in {"propose", "upload_seed", "upload_base", "upload_mtp", "launch"}
  /\ pc' = "roll_back"
  /\ mtp_chain_active' = FALSE
  /\ mtp_position' = call.mtp /\ current_position' = call.target
  /\ UNCHANGED <<config, failures, call, index, host, resultVars, stream, deviceVars>>

(* Synchronized or not, the status is an error.                            *)
RolledBack ==
  /\ pc = "roll_back" /\ Fail
  /\ UNCHANGED <<config, host, stream, deviceVars>>

Download(at, op, next) ==
  /\ pc = at /\ pc' = next
  /\ Enqueue(Launch(op, NoCall, call.count))
  /\ UNCHANGED <<config, failures, positionVars, call, index, host, resultVars, deviceVars>>

DownloadDrafts == Download("download_drafts", "drafts", "download_outputs")
DownloadOutputs == Download("download_outputs", "outputs", "synchronize")

(* An error here leaves the positions moved and the queue as it is.        *)
DownloadFails ==
  /\ pc \in {"download_drafts", "download_outputs", "synchronize"}
  /\ Fail
  /\ UNCHANGED <<config, host, stream, deviceVars>>

Synchronize ==
  /\ pc = "synchronize" /\ Synchronized /\ pc' = "judge"
  /\ UNCHANGED <<config, failures, positionVars, call, index, host, resultVars, stream,
                 deviceVars>>

(* The drafts and the answers agree in the first `accepted` rows.          *)
Judge(accepted) ==
  /\ pc = "judge" /\ Succeed
  /\ mtp_chain_active' = FALSE
  /\ IF accepted < call.count
     THEN /\ current_position' = call.target + accepted + 1
          /\ mtp_position' = call.mtp + accepted + 1
     ELSE /\ mtp_position' = mtp_position + 1
          /\ UNCHANGED current_position
  /\ UNCHANGED <<config, host, stream, deviceVars>>

(* The restoring launch or that of the last cache entry fails.             *)
JudgeFails ==
  /\ pc = "judge" /\ Failed
  /\ mtp_chain_active' = FALSE
  /\ UNCHANGED <<config, current_position, mtp_position, host, stream, deviceVars>>

------------------------------------------------------------------------------

Call ==
  /\ Len(stream) <= QueueBound /\ failures <= FailureBound
  /\ \/ \E rows \in 1..MaximumBlock : TargetStep(rows)
     \/ MtpDraft
     \/ \E seed \in Token, count \in 1..MaximumBlock - 1 : Begin(seed, count)

Prepared == Stage \/ UploadSeed \/ UploadBase \/ UploadMtp \/ LaunchGraph

Returns ==
  \/ TargetReturns \/ MtpDraftReturns \/ RolledBack \/ DownloadFails \/ JudgeFails
  \/ \E accepted \in 0..MaximumBlock - 1 : accepted <= call.count /\ Judge(accepted)

Host ==
  \/ Call \/ Prepared \/ Propose \/ Verify \/ RollBack
  \/ DownloadDrafts \/ DownloadOutputs \/ Synchronize \/ Returns \/ Destroy

Gone == pc = "gone" /\ Synchronized /\ UNCHANGED vars

Next == Host \/ Execute \/ Gone

Spec == Init /\ [][Next]_vars

------------------------------------------------------------------------------
(* Properties *)

(* When the device reaches a prepared graph, the device words hold the     *)
(* seed and the positions of the round the graph was launched for, however *)
(* late the copies were executed and whatever calls failed and were        *)
(* repeated before.  (qwen_runtime.cpp:888-934)                            *)
GraphReadsItsRound ==
  stream # <<>> /\ Head(stream).op = "graph" =>
    LET round == Head(stream).round IN
    /\ words[graph_seed_token] = Seed(round.seed)
    /\ positions.base = round.target
    /\ \A i \in 0..Head(stream).n - 1 : positions.mtp[i] = round.mtp + i

(* What the host compares after its one synchronization is the round's     *)
(* own: each draft proposed from the seed and the drafts before it, at the *)
(* MTP positions that follow, and each answer given to the same words at   *)
(* the round's base, in no more rows than the kernels take.                *)
(* (qwen_runtime.cpp:1441-1501)                                            *)
JudgesItsRound ==
  pc = "judge" =>
    LET row(i) == [seed |-> call.seed, mtp |-> [k \in 1..i |-> call.mtp + k - 1], base |-> NoBase]
    IN /\ drafts = [i \in 0..call.count - 1 |-> row(i + 1)]
       /\ target_outputs = [i \in 0..call.count |-> [row(i) EXCEPT !.base = call.target]]
       /\ KernelsTake(call.count + 1)
=============================================================================
