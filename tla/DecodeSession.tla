---------------------------- MODULE DecodeSession ----------------------------
(***************************************************************************)
(* QwenDecodeSession (src/qwen_runtime.cpp): one request's mutable state   *)
(* and the calls that advance it: greedy_step, block_step, mtp_draft and   *)
(* speculative_step.                                                       *)
(*                                                                         *)
(* The numbers on the device are abstracted to where they came from: a     *)
(* recurrent (GDN) state, a K/V cache entry or a hidden row is the token   *)
(* history it was computed from, or Corrupt when a launch sequence failed  *)
(* half way or mixed states that do not belong together.  All device work  *)
(* of a session is ordered by one stream, so a launch takes effect before  *)
(* whatever is launched after it.  Every call can fail at every step where *)
(* the code tests a status.                                                *)
(***************************************************************************)
EXTENDS Naturals, Integers, Sequences

CONSTANTS
  Token,                \* the vocabulary
  maximum_context,      \* config.maximum_context_tokens
  MaximumBlock,         \* kMaximumBlock: the most rows one block evaluates
  graph_verifier_batch, \* config.graph_verifier_batch: 0 or 2..MaximumBlock
  Target(_),            \* argmax of the target model after a history
  Corrupt,              \* device contents of no token history
  Draft,                \* mtp_hidden: the draft model's own hidden state
  NoToken               \* no token

ASSUME TokenAssumption == Token # {}
ASSUME SizeAssumption ==
  /\ maximum_context \in Nat \ {0}
  /\ MaximumBlock \in Nat \ {0, 1}
  /\ graph_verifier_batch \in {0} \cup 2..MaximumBlock

History == UNION {[1..n -> Token] : n \in 0..maximum_context}

ASSUME TargetAssumption == \A h \in History : Target(h) \in Token
ASSUME MarkerAssumption ==
  Corrupt \notin History /\ Draft \notin History \cup {Corrupt} /\ NoToken \notin Token

VARIABLES
  pc,                \* where the call in progress is; "idle" between calls
  current_position,  \* tokens in the target caches
  mtp_position,      \* tokens in the MTP cache
  mtp_chain_active,
  record_rollback,
  gdn_state_parity,  \* 0 or 1: which prepared graph fits the buffers
  committed,         \* the buffer that conv_states and gdn_states point at
  gdn,               \* contents of the two convolution/recurrent buffers
  rollback_log,      \* convolution, key, delta and decay logs of a verifier
  kv,                \* target K/V caches, by position
  mtp_kv,            \* MTP K/V cache, by position
  rows,              \* hidden_a: final hidden state of each row
  snapshot,          \* target_hidden_snapshot
  last_hidden,       \* which hidden state the pointer designates
  draft_tokens,      \* the proposals of the round, on the device
  outputs,           \* selected_token: the verifier's answers, on the device
                     \* (this and draft_tokens are <<>> when nobody reads them)
  graphs,            \* speculative_graphs: captured buffer pointers
  call,              \* arguments and base positions of a speculative call
  hist,              \* history: the tokens the caller has seen accepted
  reply,             \* history: how the last call ended
  returned           \* history: the tokens the last target call returned

deviceVars == <<gdn, rollback_log, kv, rows>>
roundVars == <<snapshot, draft_tokens, outputs, call>>
bufferVars == <<gdn_state_parity, committed, graphs>>
callerVars == <<hist, reply, returned>>
vars == <<pc, current_position, mtp_position, mtp_chain_active,
          record_rollback, gdn_state_parity, committed, gdn, rollback_log,
          kv, mtp_kv, rows, snapshot, last_hidden, draft_tokens, outputs,
          graphs, call, hist, reply, returned>>

------------------------------------------------------------------------------
(* Values *)

Buffer == {"A", "B"}
Other(b) == IF b = "A" THEN "B" ELSE "A"

Position == 0..maximum_context - 1
Row == 0..MaximumBlock - 1
Content == {Corrupt} \cup Seq(Token)

NullHidden == -2       \* last_hidden = nullptr
SnapshotHidden == -1   \* last_hidden = target_hidden_snapshot

(* An MTP cache entry pairs the embedding of a token with a hidden state   *)
(* of the preceding position, the target's or the draft model's.           *)
NoEntry == [token |-> NoToken, hidden |-> Draft]
MtpEntry == [token : Token \cup {NoToken}, hidden : {Draft} \cup Content]

NoGraph == [src |-> "none", dst |-> "none"]
NoCall == [seed |-> NoToken, count |-> 0, target |-> 0, mtp |-> 0]
NoLog == [base |-> Corrupt, tokens |-> <<>>]

Prefix(h, n) == SubSeq(h, 1, n)
Batches == UNION {[1..n -> Token] : n \in 1..MaximumBlock}

------------------------------------------------------------------------------
(* Device work *)

(* The target layers read the recurrent state in buffer b and the first n  *)
(* K/V entries; only when both hold one and the same history of n tokens   *)
(* is what they compute the model's answer for a history.                  *)
Coherent(b, n) ==
  /\ gdn[b] # Corrupt
  /\ Len(gdn[b]) = n
  /\ \A p \in 0..n - 1 : kv[p] = Prefix(gdn[b], p + 1)

(* The history of row i when the rows hold ts after buffer b. *)
RowHistory(b, n, ts, i) ==
  IF Coherent(b, n) THEN gdn[b] \o Prefix(ts, i) ELSE Corrupt

(* The rows ts through the 64 layers: K/V is appended at current_position, *)
(* the recurrent state is read from src and written to dst, and the logs   *)
(* are written only when dst is not src.                                   *)
RunTarget(ts, src, dst) ==
  LET n == current_position IN
  /\ kv' = [p \in Position |->
              IF p \in n..n + Len(ts) - 1
              THEN RowHistory(src, n, ts, p - n + 1) ELSE kv[p]]
  /\ rows' = [r \in Row |->
                IF r < Len(ts) THEN RowHistory(src, n, ts, r + 1) ELSE rows[r]]
  /\ gdn' = [gdn EXCEPT ![dst] = RowHistory(src, n, ts, Len(ts))]
  /\ rollback_log' = IF dst = src THEN rollback_log
                     ELSE [base |-> RowHistory(src, n, ts, 0), tokens |-> ts]

(* What the head and the argmax can then select for each row: the model's  *)
(* answer, or anything when the state was not that of a history.           *)
Answers(ts, src) ==
  {out \in [1..Len(ts) -> Token] :
     Coherent(src, current_position) =>
       \A i \in 1..Len(ts) : out[i] = Target(gdn[src] \o Prefix(ts, i))}

(* The launch sequence cut short: only the layers before the failing       *)
(* launch ran.  The embedding rows are gathered first, then layer 0        *)
(* advances recurrent state, then layer 3 appends K/V.                     *)
RunTargetPartly(ts, dst) ==
  LET n == current_position IN
  /\ rows' = [r \in Row |-> IF r < Len(ts) THEN Corrupt ELSE rows[r]]
  /\ gdn' \in {gdn, [gdn EXCEPT ![dst] = Corrupt]}
  /\ \/ UNCHANGED kv
     \/ /\ gdn' # gdn
        /\ kv' = [p \in Position |->
                    IF p \in n..n + Len(ts) - 1 THEN Corrupt ELSE kv[p]]
  /\ UNCHANGED rollback_log

(* Fault: forget that the seed token is replayed too.                      *)
RestoredWithoutSeed(n) ==
  IF gdn[committed] # Corrupt /\ rollback_log.base = gdn[committed]
  THEN gdn[committed] \o Prefix(rollback_log.tokens, n - 1) ELSE Corrupt

(* Replay the first n logged tokens into the committed buffer. *)
Restored(n) ==
  IF gdn[committed] # Corrupt /\ rollback_log.base = gdn[committed]
  THEN gdn[committed] \o Prefix(rollback_log.tokens, n) ELSE Corrupt

(* The hidden state last_hidden - kHidden * back designates. *)
Hidden(back) ==
  IF last_hidden = SnapshotHidden THEN snapshot ELSE rows[last_hidden - back]

(* K/V entries of an MTP chain of the tokens ts, the first conditioned on  *)
(* the hidden state h and each other one on the draft model's output.      *)
MtpChain(at, ts, h) ==
  [p \in Position |->
     IF p \in at..at + Len(ts) - 1
     THEN [token |-> ts[p - at + 1], hidden |-> IF p = at THEN h ELSE Draft]
     ELSE mtp_kv[p]]
------------------------------------------------------------------------------
(* Creation *)

Init ==
  /\ pc = IF graph_verifier_batch = 0 THEN "idle" ELSE "capture"
  /\ current_position = 0 /\ mtp_position = 0
  /\ mtp_chain_active = FALSE
  /\ record_rollback = (graph_verifier_batch # 0)
  /\ gdn_state_parity = 0 /\ committed = "A"
  /\ gdn = [b \in Buffer |-> IF b = committed THEN <<>> ELSE Corrupt]
  /\ rollback_log = NoLog
  /\ kv = [p \in Position |-> Corrupt]
  /\ mtp_kv = [p \in Position |-> NoEntry]
  /\ rows = [r \in Row |-> Corrupt]
  /\ snapshot = Corrupt /\ last_hidden = NullHidden
  /\ draft_tokens = <<>> /\ outputs = <<>>
  /\ graphs = [parity \in {0, 1} |-> NoGraph]
  /\ call = NoCall
  /\ hist = <<>> /\ reply = "none" /\ returned = <<>>

(* prepare_speculative_graphs: one graph per parity, the second captured   *)
(* with the two buffers swapped and swapped back afterwards.               *)
CaptureGraph ==
  LET parity == IF graphs[0] = NoGraph THEN 0 ELSE 1
      src == IF parity = 0 THEN committed ELSE Other(committed)
      dst == IF record_rollback THEN Other(src) ELSE src
  IN
  /\ pc = "capture"
  /\ graphs' = [graphs EXCEPT ![parity] = [src |-> src, dst |-> dst]]
  /\ pc' = IF parity = 0 THEN "capture" ELSE "idle"
  /\ record_rollback' = (parity = 0)
  /\ UNCHANGED <<current_position, mtp_position, mtp_chain_active,
                 gdn_state_parity, committed, deviceVars, mtp_kv, roundVars,
                 last_hidden, callerVars>>

(* A capture that fails makes create() return an error: no session.        *)
CaptureFails ==
  /\ pc = "capture"
  /\ pc' = "discarded"
  /\ record_rollback' = FALSE
  /\ reply' = "failed"
  /\ UNCHANGED <<current_position, mtp_position, mtp_chain_active, bufferVars,
                 deviceVars, mtp_kv, roundVars, last_hidden, hist, returned>>

------------------------------------------------------------------------------
(* Calls *)

Room == maximum_context - current_position
Aligned == mtp_position + 1 = current_position

DraftAccepted ==
  /\ last_hidden # NullHidden
  /\ mtp_chain_active \/ Aligned

(* Fault: leave no room for the seed token.                                *)
SpeculationIgnoringSeed(count) ==
  /\ last_hidden # NullHidden
  /\ count \in 1..MaximumBlock - 1
  /\ Aligned
  /\ count <= Room

SpeculationAccepted(count) ==
  /\ last_hidden # NullHidden
  /\ count \in 1..MaximumBlock - 1
  /\ Aligned
  /\ count + 1 <= Room

(* Callers feed the token they gave to mtp_draft before.                   *)
Promised(t) ==
  mtp_position = current_position /\ current_position > 0
    => mtp_kv[current_position - 1].token = t

(* A call whose arguments or positions the guards reject changes nothing.  *)
Refuse ==
  /\ pc = "idle"
  /\ \/ Room = 0
     \/ ~DraftAccepted
     \/ \E count \in 1..MaximumBlock : ~SpeculationAccepted(count)
  /\ reply' = "refused"
  /\ UNCHANGED <<pc, current_position, mtp_position, mtp_chain_active,
                 record_rollback, bufferVars, deviceVars, mtp_kv, roundVars,
                 last_hidden, hist, returned>>

Succeed(ts, answers) ==
  /\ hist' = hist \o ts
  /\ returned' = answers
  /\ reply' = "ok"

Fail == reply' = "failed" /\ UNCHANGED <<hist, returned>>

(* Callers drop a session whose call failed for good.                      *)
Discard == pc' = "discarded" /\ Fail

GreedyStep(t) ==
  /\ pc = "idle" /\ Room > 0 /\ Promised(t)
  /\ RunTarget(<<t>>, committed, committed)
  /\ \E out \in Answers(<<t>>, committed) : Succeed(<<t>>, out)
  /\ last_hidden' = 0
  /\ current_position' = current_position + 1
  /\ UNCHANGED <<pc, mtp_position, mtp_chain_active, record_rollback,
                 bufferVars, mtp_kv, roundVars>>

(* block_step evaluates in place unless a rollback is being recorded.      *)
BlockStep(ts) ==
  LET dst == IF record_rollback THEN Other(committed) ELSE committed IN
  /\ pc = "idle" /\ Len(ts) <= Room /\ Promised(ts[1])
  /\ RunTarget(ts, committed, dst)
  /\ \E out \in Answers(ts, committed) : Succeed(ts, out)
  /\ last_hidden' = Len(ts) - 1
  /\ current_position' = current_position + Len(ts)
  /\ UNCHANGED <<pc, mtp_position, mtp_chain_active, record_rollback,
                 bufferVars, mtp_kv, roundVars>>

(* A launch of greedy_step or block_step fails.                            *)
TargetLaunchFails(ts) ==
  /\ pc = "idle" /\ Len(ts) <= Room /\ Promised(ts[1])
  /\ RunTargetPartly(ts, committed)
  /\ Discard
  /\ UNCHANGED <<current_position, mtp_position, mtp_chain_active,
                 record_rollback, bufferVars, mtp_kv, roundVars, last_hidden>>

(* All of it ran, but the selected tokens cannot be downloaded.            *)
TargetDownloadFails(ts) ==
  /\ pc = "idle" /\ Len(ts) <= Room /\ Promised(ts[1])
  /\ RunTarget(ts, committed, committed)
  /\ last_hidden' = Len(ts) - 1
  /\ Discard
  /\ UNCHANGED <<current_position, mtp_position, mtp_chain_active,
                 record_rollback, bufferVars, mtp_kv, roundVars>>

(* mtp_draft: one proposal, synchronously.                                 *)
MtpDraft(t) ==
  /\ pc = "idle" /\ DraftAccepted
  /\ mtp_kv' = MtpChain(mtp_position, <<t>>,
                        IF mtp_chain_active THEN Draft ELSE Hidden(0))
  /\ mtp_position' = mtp_position + 1
  /\ reply' = "ok"
  /\ UNCHANGED <<pc, current_position, mtp_chain_active, record_rollback,
                 bufferVars, deviceVars, roundVars, last_hidden, hist,
                 returned>>

(* The proposal may have reached the cache; the position does not move, so *)
(* the call can be repeated.                                               *)
MtpDraftFails(t) ==
  /\ pc = "idle" /\ DraftAccepted
  /\ mtp_kv' \in {mtp_kv, MtpChain(mtp_position, <<t>>,
                        IF mtp_chain_active THEN Draft ELSE Hidden(0))}
  /\ Fail
  /\ UNCHANGED <<pc, current_position, mtp_position, mtp_chain_active,
                 record_rollback, bufferVars, deviceVars, roundVars,
                 last_hidden>>

------------------------------------------------------------------------------
(* speculative_step *)

Begin(seed, count) ==
  /\ pc = "idle" /\ SpeculationAccepted(count) /\ Promised(seed)
  /\ snapshot' = Hidden(0)
  /\ call' = [seed |-> seed, count |-> count,
              target |-> current_position, mtp |-> mtp_position]
  /\ pc' = IF count + 1 = graph_verifier_batch THEN "graph" ELSE "propose"
  /\ UNCHANGED <<current_position, mtp_position, mtp_chain_active,
                 record_rollback, bufferVars, deviceVars, mtp_kv,
                 draft_tokens, outputs, last_hidden, callerVars>>

(* The snapshot cannot be enqueued: the call ends before it changed a thing. *)
SnapshotFails ==
  /\ pc = "idle" /\ \E count \in 1..MaximumBlock - 1 : SpeculationAccepted(count)
  /\ Fail
  /\ UNCHANGED <<pc, current_position, mtp_position, mtp_chain_active,
                 record_rollback, bufferVars, deviceVars, mtp_kv, roundVars,
                 last_hidden>>

(* The tokens the round embeds when its drafts are ds.                     *)
Inputs(ds) == <<call.seed>> \o ds

(* One launch_mtp_proposal of the eager chain: the draft is any token.     *)
ProposalEntry ==
  LET i == Len(draft_tokens) IN
  MtpChain(call.mtp + i, <<Inputs(draft_tokens)[i + 1]>>,
           IF i = 0 THEN snapshot ELSE Draft)

Propose ==
  /\ pc = "propose" /\ Len(draft_tokens) < call.count
  /\ mtp_kv' = ProposalEntry
  /\ \E t \in Token : draft_tokens' = Append(draft_tokens, t)
  /\ UNCHANGED <<pc, current_position, mtp_position, mtp_chain_active,
                 record_rollback, bufferVars, deviceVars, snapshot, outputs,
                 call, last_hidden, callerVars>>

(* The positions move before anything has been read back.                  *)
Launched(ds, src, dst) ==
  /\ RunTarget(Inputs(ds), src, dst)
  /\ outputs' \in Answers(Inputs(ds), src)
  /\ last_hidden' = call.count
  /\ current_position' = current_position + call.count + 1
  /\ mtp_position' = call.mtp + call.count
  /\ mtp_chain_active' = TRUE
  /\ record_rollback' = FALSE
  /\ pc' = "download"
  /\ UNCHANGED <<bufferVars, snapshot, call, callerVars>>

(* Fault: do not record a rollback, so that the verifier runs in place.    *)
VerifyInPlace ==
  /\ pc = "propose" /\ Len(draft_tokens) = call.count
  /\ Launched(draft_tokens, committed, committed)
  /\ UNCHANGED <<mtp_kv, draft_tokens>>

(* The eager verifier records its rollback, so it writes the other buffer. *)
Verify ==
  /\ pc = "propose" /\ Len(draft_tokens) = call.count
  /\ Launched(draft_tokens, committed, Other(committed))
  /\ UNCHANGED <<mtp_kv, draft_tokens>>

(* The prepared graph of the current parity: proposals and verifier on the *)
(* pointers it captured, the snapshot among them.                          *)
LaunchGraph ==
  LET graph == graphs[gdn_state_parity] IN
  /\ pc = "graph" /\ graph # NoGraph
  /\ \E ds \in [1..call.count -> Token] :
       /\ draft_tokens' = ds
       /\ mtp_kv' = MtpChain(call.mtp, Prefix(Inputs(ds), call.count), snapshot)
       /\ Launched(ds, graph.src, graph.dst)

(* Up to here a failure is undone: positions and hidden state go back.     *)
RollBack ==
  /\ mtp_chain_active' = FALSE
  /\ record_rollback' = FALSE
  /\ mtp_position' = call.mtp
  /\ current_position' = call.target
  /\ last_hidden' = SnapshotHidden
  /\ pc' = "idle"
  /\ draft_tokens' = <<>> /\ call' = NoCall
  /\ Fail
  /\ UNCHANGED <<bufferVars, snapshot, outputs>>

ProposalFails ==
  /\ pc = "propose" /\ Len(draft_tokens) < call.count
  /\ mtp_kv' \in {mtp_kv, ProposalEntry}
  /\ RollBack
  /\ UNCHANGED deviceVars

VerifierFails ==
  /\ pc = "propose" /\ Len(draft_tokens) = call.count
  /\ RunTargetPartly(Inputs(draft_tokens), Other(committed))
  /\ RollBack
  /\ UNCHANGED mtp_kv

GraphFails ==
  /\ pc = "graph"
  /\ RollBack
  /\ UNCHANGED <<deviceVars, mtp_kv>>

(* From here on it is not.                                                 *)
DownloadFails ==
  /\ pc = "download"
  /\ Discard
  /\ UNCHANGED <<current_position, mtp_position, mtp_chain_active,
                 record_rollback, bufferVars, deviceVars, mtp_kv, roundVars,
                 last_hidden>>

(* Fault: compare each draft with the answer of the next row.              *)
AcceptedOneRowLate(a) ==
  /\ a \in 0..call.count
  /\ \A i \in 1..a : draft_tokens[i] = outputs[i + 1]
  /\ a < call.count => draft_tokens[a + 1] # outputs[a + 2]

(* The length of the longest prefix of drafts the target agrees with.      *)
Accepted(a) ==
  /\ a \in 0..call.count
  /\ \A i \in 1..a : draft_tokens[i] = outputs[i]
  /\ a < call.count => draft_tokens[a + 1] # outputs[a + 1]

Return(a) ==
  /\ Succeed(Inputs(Prefix(draft_tokens, a)),
             Append(Prefix(draft_tokens, a), outputs[a + 1]))
  /\ mtp_chain_active' = FALSE
  /\ pc' = "idle"
  /\ draft_tokens' = <<>> /\ outputs' = <<>> /\ call' = NoCall
  /\ UNCHANGED <<record_rollback, snapshot>>

(* Fault: keep the restored snapshot instead of the last accepted row.     *)
AcceptPrefixOnSnapshot(a) ==
  /\ pc = "download" /\ Accepted(a) /\ a < call.count
  /\ gdn' = [gdn EXCEPT ![committed] = Restored(a + 1)]
  /\ current_position' = call.target + a + 1
  /\ mtp_position' = call.mtp + a + 1
  /\ last_hidden' = SnapshotHidden
  /\ Return(a)
  /\ UNCHANGED <<bufferVars, rollback_log, kv, mtp_kv, rows>>

(* Some drafts were rejected: replay the accepted rows from the logs.      *)
AcceptPrefix(a) ==
  /\ pc = "download" /\ Accepted(a) /\ a < call.count
  /\ gdn' = [gdn EXCEPT ![committed] = Restored(a + 1)]
  /\ current_position' = call.target + a + 1
  /\ mtp_position' = call.mtp + a + 1
  /\ last_hidden' = a
  /\ Return(a)
  /\ UNCHANGED <<bufferVars, rollback_log, kv, mtp_kv, rows>>

(* Two kernels restore the state; either launch can fail.                  *)
RestoreFails(a) ==
  /\ pc = "download" /\ Accepted(a) /\ a < call.count
  /\ gdn' \in {gdn, [gdn EXCEPT ![committed] = Corrupt]}
  /\ last_hidden' = SnapshotHidden
  /\ mtp_chain_active' = FALSE
  /\ Discard
  /\ UNCHANGED <<current_position, mtp_position, record_rollback, bufferVars,
                 rollback_log, kv, mtp_kv, rows, roundVars>>

(* Fault: swap the buffers without changing the parity.                    *)
SwapKeepingParity ==
  /\ committed' = Other(committed)
  /\ UNCHANGED <<gdn_state_parity, graphs>>

(* Every draft was accepted: the verifier's buffer becomes the committed   *)
(* one, and the MTP cache takes the last draft, conditioned on the exact   *)
(* hidden state of the row before it.                                      *)
SwapBuffers ==
  /\ committed' = Other(committed)
  /\ gdn_state_parity' = 1 - gdn_state_parity
  /\ UNCHANGED graphs

(* Fault: condition the last draft on its own row.                         *)
TailEntryOnOwnRow ==
  MtpChain(mtp_position, <<draft_tokens[call.count]>>, Hidden(0))

TailEntry == MtpChain(mtp_position, <<draft_tokens[call.count]>>, Hidden(1))

(* Fault: let the draft cache take the last draft without counting it.     *)
AcceptAllUncounted ==
  /\ pc = "download" /\ Accepted(call.count)
  /\ SwapBuffers
  /\ mtp_kv' = TailEntry
  /\ Return(call.count)
  /\ UNCHANGED <<current_position, mtp_position, deviceVars, last_hidden>>

AcceptAll ==
  /\ pc = "download" /\ Accepted(call.count)
  /\ SwapBuffers
  /\ mtp_kv' = TailEntry
  /\ mtp_position' = mtp_position + 1
  /\ Return(call.count)
  /\ UNCHANGED <<current_position, deviceVars, last_hidden>>

TailFails ==
  /\ pc = "download" /\ Accepted(call.count)
  /\ SwapBuffers
  /\ mtp_kv' \in {mtp_kv, TailEntry}
  /\ mtp_chain_active' = FALSE
  /\ Discard
  /\ UNCHANGED <<current_position, mtp_position, record_rollback, deviceVars,
                 roundVars, last_hidden>>

(* A discarded session is destroyed; nothing happens to it any more.       *)
Destroyed == pc = "discarded" /\ UNCHANGED vars

------------------------------------------------------------------------------

Create == CaptureGraph \/ CaptureFails

TargetCall ==
  \/ \E t \in Token : GreedyStep(t)
  \/ \E ts \in Batches : BlockStep(ts)
  \/ \E ts \in Batches : TargetLaunchFails(ts) \/ TargetDownloadFails(ts)

MtpCall == \E t \in Token : MtpDraft(t) \/ MtpDraftFails(t)

SpeculativeCall ==
  \/ \E seed \in Token, count \in 1..MaximumBlock - 1 : Begin(seed, count)
  \/ SnapshotFails \/ Propose \/ Verify \/ LaunchGraph
  \/ ProposalFails \/ VerifierFails \/ GraphFails \/ DownloadFails
  \/ \E a \in 0..MaximumBlock : AcceptPrefix(a) \/ RestoreFails(a)
  \/ AcceptAll \/ TailFails

Next == Create \/ Refuse \/ TargetCall \/ MtpCall \/ SpeculativeCall \/ Destroyed

Spec == Init /\ [][Next]_vars

------------------------------------------------------------------------------
(* Properties *)

(* Every variable stays in its range: positions inside the context, cache  *)
(* entries and rows that hold histories, pointers that designate something.*)
TypeOK ==
  /\ pc \in {"capture", "idle", "propose", "graph", "download", "discarded"}
  /\ current_position \in 0..maximum_context
  /\ mtp_position \in 0..maximum_context
  /\ mtp_chain_active \in BOOLEAN /\ record_rollback \in BOOLEAN
  /\ gdn_state_parity \in {0, 1} /\ committed \in Buffer
  /\ gdn \in [Buffer -> Content]
  /\ rollback_log \in [base : Content, tokens : Seq(Token)]
  /\ kv \in [Position -> Content]
  /\ mtp_kv \in [Position -> MtpEntry]
  /\ rows \in [Row -> Content]
  /\ snapshot \in Content
  /\ last_hidden \in Row \cup {NullHidden, SnapshotHidden}
  /\ draft_tokens \in Seq(Token) /\ outputs \in Seq(Token)
  /\ graphs \in [{0, 1} -> [src : Buffer, dst : Buffer] \cup {NoGraph}]
  /\ call \in [seed : Token, count : 1..MaximumBlock - 1,
               target : Nat, mtp : Nat] \cup {NoCall}
  /\ hist \in Seq(Token) /\ returned \in Seq(Token)
  /\ reply \in {"none", "ok", "refused", "failed"}

InRound == pc \in {"propose", "graph", "download"}

(* Between calls the session is where its caller believes it is: the       *)
(* position counts the accepted tokens, and the committed recurrent state  *)
(* and every K/V entry below the position are those of exactly these       *)
(* tokens, however many drafts were evaluated and rejected on the way.     *)
CommittedState ==
  pc = "idle" => /\ current_position = Len(hist)
                 /\ gdn[committed] = hist
                 /\ Coherent(committed, current_position)

(* A round evaluates its rows into the other buffer: until it is accepted  *)
(* the committed recurrent state and the K/V entries below the base are    *)
(* untouched, so that dropping the round is always possible.               *)
RoundIsolated ==
  InRound =>
    /\ gdn[committed] = hist
    /\ Coherent(committed, call.target)

(* The graph that speculative_step launches for the current parity reads   *)
(* the committed buffer and writes the other one, after any number of      *)
(* swaps.                                                                  *)
GraphMatchesBuffers ==
  pc \in {"idle", "graph"} /\ graph_verifier_batch # 0 =>
    graphs[gdn_state_parity] = [src |-> committed, dst |-> Other(committed)]

(* The MTP cache lags the target by one token whenever the caller could    *)
(* speculate, and its entry p pairs the token at p + 1 with the target's   *)
(* hidden state of p or with the draft model's approximation of it.        *)
MtpFollowsTarget ==
  pc = "idle" =>
    /\ ~mtp_chain_active /\ ~record_rollback
    /\ \A p \in 0..mtp_position - 1 :
         /\ p + 1 < Len(hist) => mtp_kv[p].token = hist[p + 2]
         /\ mtp_kv[p].hidden # Draft => mtp_kv[p].hidden = Prefix(hist, p + 1)

(* The hidden state the next proposal is conditioned on is that of the     *)
(* last accepted token, also after a rejected suffix or a rollback.        *)
HiddenIsCurrent ==
  /\ pc = "idle" /\ last_hidden # NullHidden => Hidden(0) = hist
  /\ pc \in {"propose", "graph"} => snapshot = hist

(* When the verifier has run, both judgements are prepared: the other      *)
(* buffer, the caches and the rows hold the whole block on top of the      *)
(* accepted tokens, the logs hold its tokens one by one, and each answer   *)
(* is the target model's for the rows up to it.                            *)
RoundEvaluated ==
  pc = "download" =>
    LET ts == Inputs(draft_tokens) IN
    /\ Len(draft_tokens) = call.count
    /\ gdn[Other(committed)] = hist \o ts
    /\ rollback_log = [base |-> hist, tokens |-> ts]
    /\ \A i \in 1..Len(ts) :
         /\ kv[Len(hist) + i - 1] = hist \o Prefix(ts, i)
         /\ rows[i - 1] = hist \o Prefix(ts, i)
         /\ outputs[i] = Target(hist \o Prefix(ts, i))

(* Whenever a call returns an error, the session is as it was before the   *)
(* call, as docs/ARCHITECTURE.md:38 says of errors in general.             *)
ErrorsRollBack ==
  reply = "failed" =>
    /\ current_position = Len(hist)
    /\ gdn[committed] = hist
    /\ ~mtp_chain_active

(* The caller sees what serial greedy decoding would have given it.        *)
Serial == INSTANCE SerialDecode WITH fed <- hist, predicted <- returned
ImplementsSerialDecode == Serial!SerialSpec

(* Its callers may use it as the session of module SessionCalls: a round   *)
(* is one call that takes effect when it returns, whatever happened to the *)
(* positions and buffers before; a dropped session is a broken one.        *)
Calls == INSTANCE SessionCalls
  WITH fed <- hist, predicted <- returned,
       drafted <- IF pc = "download" THEN call.mtp ELSE mtp_position,
       reply <- IF pc = "discarded" THEN "broken" ELSE reply
ImplementsSessionCalls == Calls!CallsSpec
==============================================================================
