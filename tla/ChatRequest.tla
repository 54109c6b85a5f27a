----------------------------- MODULE ChatRequest -----------------------------
(***************************************************************************)
(* parse_chat_request (src/server/main.cpp): what a chat body asks for, or *)
(* the first thing that is wrong with it.  A body is a record of the       *)
(* fields the parser looks at; a field is absent, of the wrong kind, or    *)
(* has a value.  A count that is null, negative or 0 is of the wrong kind, *)
(* and a body that is not a JSON object has no field of a right one.       *)
(***************************************************************************)
EXTENDS Integers, Sequences

CONSTANTS
  DefaultTokens  \* what a body without a limit asks for: 256

ASSUME DefaultAssumption == DefaultTokens \in Nat \ {0}

Absent == -1
WrongKind == 0

BodyType(body) ==
  /\ {body.max_tokens, body.max_completion_tokens} \subseteq Nat \cup {Absent}
  /\ body.messages \in Seq(STRING)

(* optional_positive_integer, twice: max_completion_tokens is looked at    *)
(* only when there is no max_tokens.                                       *)
maximum_tokens(body) ==
  IF body.max_tokens # Absent THEN body.max_tokens
  ELSE IF body.max_completion_tokens # Absent THEN body.max_completion_tokens
  ELSE DefaultTokens

(* optional_bool.                                                          *)
IsFlag(field) == field \in {"absent", "true", "false"}

Roles == {"developer", "system", "user", "assistant"}

TooMany(body, maximum_output_tokens) == maximum_tokens(body) > maximum_output_tokens

(* The checks in their order; "none" is the answer to a body that passes.  *)
chat_error(body, maximum_output_tokens) ==
  IF ~body.object THEN "limit"
  ELSE IF body.model \notin {"absent", "served"} THEN "model"
  ELSE IF maximum_tokens(body) = WrongKind THEN "limit"
  ELSE IF TooMany(body, maximum_output_tokens) THEN "too many"
  ELSE IF ~IsFlag(body.stream) THEN "stream"
  ELSE IF body.include_usage # "no options" /\ body.stream # "true" THEN "options"
  ELSE IF body.include_usage # "no options" /\ ~IsFlag(body.include_usage) THEN "usage"
  ELSE IF ~body.greedy THEN "temperature"
  ELSE IF ~body.single THEN "n"
  ELSE IF body.unsupported THEN "unsupported"
  ELSE IF body.messages = <<>> THEN "messages"
  ELSE IF \E i \in DOMAIN body.messages : body.messages[i] \notin Roles THEN "role"
  ELSE "none"

(* What generate is handed.                                                *)
chat_request(body) ==
  [maximum_tokens |-> maximum_tokens(body), stream |-> body.stream = "true",
   usage |-> body.include_usage = "true",
   roles |-> [i \in DOMAIN body.messages |->
                IF body.messages[i] = "developer" THEN "system" ELSE body.messages[i]]]
=============================================================================
