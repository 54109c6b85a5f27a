---------------------------- MODULE SessionCalls ----------------------------
(***************************************************************************)
(* A decode session as its callers see it: every call of                   *)
(* QwenDecodeSession (src/qwen_runtime.cpp) is one step, and what is left  *)
(* of the device is the tokens it has consumed and how far the draft cache *)
(* has followed them.  DecodeSession implements this module; Generate      *)
(* drives it.                                                              *)
(***************************************************************************)
EXTENDS Naturals, Sequences

CONSTANTS
  Token,            \* the vocabulary
  maximum_context,  \* config.maximum_context_tokens
  MaximumBlock,     \* kMaximumBlock: the most rows one call evaluates
  Target(_)         \* argmax of the target model after a history

VARIABLES
  fed,              \* the tokens consumed so far, in order
  predicted,        \* the answer to the last call of the target model
  drafted,          \* mtp_position: tokens in the draft model's cache
  reply             \* how the last call ended

sessionVars == <<fed, predicted, drafted, reply>>

CallsInit == fed = <<>> /\ predicted = <<>> /\ drafted = 0 /\ reply = "none"

Room == maximum_context - Len(fed)
Aligned == drafted + 1 = Len(fed)

SpeculationAccepted(count) ==
  count \in 1..MaximumBlock - 1 /\ Aligned /\ count + 1 <= Room

(* Consume ts and answer each of its tokens.                               *)
Feed(ts) ==
  /\ Len(ts) <= Room
  /\ fed' = fed \o ts
  /\ predicted' = [i \in 1..Len(ts) |-> Target(fed \o SubSeq(ts, 1, i))]
  /\ reply' = "ok"

(* greedy_step is a block of one token.                                    *)
Block(ts) == Feed(ts) /\ UNCHANGED drafted

DraftCall ==
  /\ Aligned
  /\ drafted' = drafted + 1
  /\ reply' = "ok"
  /\ UNCHANGED <<fed, predicted>>

(* The seed and the drafts the target agrees with are consumed, and the    *)
(* draft cache follows.                                                    *)
Speculate(seed, count) ==
  /\ SpeculationAccepted(count)
  /\ \E accepted \in 0..count : \E ts \in [1..accepted + 1 -> Token] :
       /\ ts[1] = seed
       /\ Feed(ts)
       /\ \A i \in 1..accepted : ts[i + 1] = predicted'[i]
       /\ drafted' = drafted + accepted + 1

Refused == reply' = "refused" /\ UNCHANGED <<fed, predicted, drafted>>

(* A call failed and the session may be used again.                        *)
Failed == reply' = "failed" /\ UNCHANGED <<fed, predicted, drafted>>

(* A call failed and left the session unusable.                            *)
Broken ==
  /\ reply # "broken" /\ reply' = "broken"
  /\ drafted' \in Nat
  /\ UNCHANGED <<fed, predicted>>

Batch == UNION {[1..n -> Token] : n \in 1..MaximumBlock}

CallsNext ==
  /\ reply # "broken"
  /\ \/ \E ts \in Batch : Block(ts)
     \/ DraftCall
     \/ \E seed \in Token, count \in 1..MaximumBlock - 1 : Speculate(seed, count)
     \/ Refused \/ Failed \/ Broken

CallsSpec == CallsInit /\ [][CallsNext]_sessionVars
=============================================================================
