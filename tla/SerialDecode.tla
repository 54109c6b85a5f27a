---------------------------- MODULE SerialDecode ----------------------------
(***************************************************************************)
(* What a decode session promises its caller, whatever it does inside:     *)
(* tokens are consumed in order and each one is answered by the token the  *)
(* target model selects for exactly the history that ends with it, as if   *)
(* the tokens had been fed one at a time.                                  *)
(***************************************************************************)
EXTENDS Naturals, Sequences

CONSTANTS
  Token,          \* the vocabulary
  MaximumBlock,   \* the most tokens one call consumes
  Target(_)       \* the token serial greedy decoding selects after a history

VARIABLES
  fed,            \* the tokens consumed so far, in order
  predicted       \* the answer to the most recent call

serialVars == <<fed, predicted>>

(* The token sequences that one call may consume. *)
Batch == UNION {[1..n -> Token] : n \in 1..MaximumBlock}

SerialInit == fed = <<>> /\ predicted = <<>>

Consume(ts) ==
  /\ fed' = fed \o ts
  /\ predicted' = [i \in 1..Len(ts) |-> Target(fed \o SubSeq(ts, 1, i))]

SerialNext == \E ts \in Batch : Consume(ts)

SerialSpec == SerialInit /\ [][SerialNext]_serialVars
=============================================================================
