------------------------------ MODULE Generate ------------------------------
(***************************************************************************)
(* One chat request (src/server/main.cpp): handle_chat opens the reply,    *)
(* generate feeds the prompt to a fresh decode session, then decodes one   *)
(* token or one speculative round at a time, hands each new token to       *)
(* consume_token, which streams the text that is complete so far, and      *)
(* handle_chat closes the reply.  The session is that of SessionCalls; any *)
(* call of it can fail, and so can any send to the client.                 *)
(***************************************************************************)
EXTENDS SessionCalls, SequencesExt

CONSTANTS
  Requests,   \* what clients ask for: [prompt, maximum_tokens, stream, usage]
  Drafts,     \* values of options.draft_count
  Terminal,   \* kEndToken and kEndOfTextToken
  Piece(_),   \* the bytes of a token: a sequence of Byte
  NoToken

ASSUME RequestAssumption ==
  \A r \in Requests : /\ r.prompt \in Seq(Token)
                      /\ r.maximum_tokens \in Nat \ {0}
                      /\ r.stream \in BOOLEAN
                      /\ r.usage => r.stream
ASSUME OptionsAssumption ==
  Drafts \subseteq 0..MaximumBlock - 1 /\ Terminal \subseteq Token
ASSUME SessionAssumption ==
  /\ maximum_context \in Nat /\ MaximumBlock \in Nat \ {0}
  /\ \A n \in 0..maximum_context : \A h \in [1..n -> Token] : Target(h) \in Token
  /\ NoToken \notin Token

(* What the prefix of whole characters tells apart of a byte.              *)
Byte == {"ascii", "lead2", "lead3", "lead4", "continuation", "invalid"}

ASSUME PieceAssumption == \A t \in Token : Piece(t) \in Seq(Byte)

VARIABLES
  pc,
  request,
  draft_count,
  synced,        \* the token last given to mtp_draft, until it is fed
  next,          \* the token the session is fed next
  pending,       \* tokens of the last answer that are not yet consumed
  emitted,       \* completion tokens, the terminal one included
  sent_bytes,    \* bytes of the text already handed to the client
  stopped,
  client_connected,
  reply_events   \* what was put on the connection, in order

loopVars == <<synced, next, pending, emitted, sent_bytes, stopped, client_connected>>
vars == <<sessionVars, pc, request, draft_count, loopVars, reply_events>>

------------------------------------------------------------------------------
(* Text *)

(* The length the first byte of a character announces; 0 if none starts so.*)
CharacterLength(byte) ==
  CASE byte = "ascii" -> 1 [] byte = "lead2" -> 2 [] byte = "lead3" -> 3
    [] byte = "lead4" -> 4 [] OTHER -> 0

(* A whole character starts behind the first n bytes of the text.          *)
CharacterAt(text, n) ==
  LET length == CharacterLength(text[n + 1]) IN
  /\ length > 0
  /\ n + length <= Len(text)
  /\ \A i \in 2..length : text[n + i] = "continuation"

valid_utf8_prefix(text) ==
  LET scan[n \in 0..Len(text)] ==
        IF n = Len(text) \/ ~CharacterAt(text, n) THEN n
        ELSE scan[n + CharacterLength(text[n + 1])]
  IN scan[0]

(* The terminal token is not among the content tokens.                     *)
Shown(token) == IF token \in Terminal THEN <<>> ELSE Piece(token)

Decoded(tokens) == FlattenSeq([i \in DOMAIN tokens |-> Shown(tokens[i])])

------------------------------------------------------------------------------
(* The connection *)

Event(kind, bytes) == [kind |-> kind, bytes |-> bytes]

(* A send succeeds, or it fails and the client has at most a part of it.   *)
Delivered(kind, bytes) ==
  reply_events' = Append(reply_events, Event(kind, bytes))
Lost == reply_events' \in {reply_events, Append(reply_events, Event("cut", <<>>))}

Init ==
  /\ CallsInit
  /\ pc = "open"
  /\ request \in Requests /\ draft_count \in Drafts
  /\ synced = NoToken /\ next = NoToken /\ pending = <<>> /\ emitted = <<>>
  /\ sent_bytes = 0 /\ stopped = FALSE /\ client_connected = TRUE
  /\ reply_events = <<>>

(* A stream starts with its headers and the role before anything is known  *)
(* about the prompt.                                                       *)
Open ==
  /\ pc = "open"
  /\ \/ ~request.stream /\ pc' = "check" /\ UNCHANGED reply_events
     \/ /\ request.stream
        /\ \/ /\ pc' = "check"
              /\ reply_events' = <<Event("headers", <<>>), Event("role", <<>>)>>
           \/ /\ pc' = "closed"
              /\ reply_events' \in {<<>>, <<Event("headers", <<>>)>>}
  /\ UNCHANGED <<sessionVars, request, draft_count, loopVars>>

(* Fault: check the prompt alone against the context.                      *)
FitsWithoutOutput == request.prompt # <<>> /\ Len(request.prompt) <= maximum_context

Fits ==
  /\ request.prompt # <<>>
  /\ Len(request.prompt) + request.maximum_tokens <= maximum_context

(* A fresh session is created for each request, or cannot be.              *)
CreateSession ==
  /\ pc = "check"
  /\ pc' \in IF Fits THEN {"prefill", "error"} ELSE {"error"}
  /\ UNCHANGED <<sessionVars, request, draft_count, loopVars, reply_events>>

------------------------------------------------------------------------------
(* Prefill *)

PromptToken == request.prompt[Len(fed) + 1]

(* The draft cache is synchronised before every prompt token but the first.*)
NeedsSync == draft_count # 0 /\ fed # <<>> /\ synced = NoToken

(* Fault: synchronise with the token fed last.                             *)
SyncWithLastToken ==
  /\ pc = "prefill" /\ NeedsSync
  /\ DraftCall
  /\ synced' = request.prompt[Len(fed)]
  /\ UNCHANGED <<pc, request, draft_count, next, pending, emitted, sent_bytes,
                 stopped, client_connected, reply_events>>

Sync ==
  /\ pc = "prefill" /\ NeedsSync
  /\ DraftCall
  /\ synced' = PromptToken
  /\ UNCHANGED <<pc, request, draft_count, next, pending, emitted, sent_bytes,
                 stopped, client_connected, reply_events>>

Prefill ==
  /\ pc = "prefill" /\ ~NeedsSync
  /\ Block(<<PromptToken>>)
  /\ synced' = NoToken
  /\ next' = predicted'[1]
  /\ IF Len(fed') = Len(request.prompt)
     THEN pc' = "consume" /\ pending' = predicted'
     ELSE pc' = "prefill" /\ UNCHANGED pending
  /\ UNCHANGED <<request, draft_count, emitted, sent_bytes, stopped,
                 client_connected, reply_events>>
------------------------------------------------------------------------------
(* Decode *)

remaining == request.maximum_tokens - Len(emitted)

Least(a, b) == IF a < b THEN a ELSE b

(* Fault: the last token of the budget still takes a round.                *)
OneAtATimeUnlessDrafting == draft_count = 0

OneAtATime == draft_count = 0 \/ remaining = 1
round_depth == Least(draft_count, remaining - 1)

DecodeOne ==
  /\ pc = "decode" /\ OneAtATime
  /\ Block(<<next>>)
  /\ pc' = "consume" /\ pending' = predicted'
  /\ UNCHANGED <<request, draft_count, synced, next, emitted, sent_bytes,
                 stopped, client_connected, reply_events>>

DecodeRound ==
  /\ pc = "decode" /\ ~OneAtATime
  /\ Speculate(next, round_depth)
  /\ pc' = "consume" /\ pending' = predicted'
  /\ UNCHANGED <<request, draft_count, synced, next, emitted, sent_bytes,
                 stopped, client_connected, reply_events>>

(* The guards of the session reject the call the loop makes now.           *)
Rejected ==
  \/ pc = "prefill" /\ (IF NeedsSync THEN ~Aligned ELSE Room = 0)
  \/ pc = "decode" /\ (IF OneAtATime THEN Room = 0
                                     ELSE ~SpeculationAccepted(round_depth))

(* Fault: start again with a fresh session.                                *)
RetryWithFreshSession ==
  /\ pc \in {"prefill", "decode"}
  /\ fed' = <<>> /\ predicted' = <<>> /\ drafted' = 0 /\ reply' = "none"
  /\ synced' = NoToken
  /\ pc' = "prefill"
  /\ UNCHANGED <<request, draft_count, next, pending, emitted, sent_bytes,
                 stopped, client_connected, reply_events>>

(* An error of any call ends the request.                                  *)
CallFails ==
  /\ pc \in {"prefill", "decode"}
  /\ IF Rejected THEN Refused ELSE Failed
  /\ pc' = "error"
  /\ UNCHANGED <<request, draft_count, loopVars, reply_events>>

(* Fault: look at the whole round before looking whether to stop.          *)
ContinueRound ==
  IF pending' # <<>> THEN pc' = "consume"
  ELSE pc' = IF ~client_connected' \/ stopped'
                \/ Len(emitted') >= request.maximum_tokens
             THEN "finish" ELSE "decode"

(* consume_token goes on to the next token of the answer unless the loop   *)
(* is over.                                                                *)
Continue ==
  IF ~client_connected' \/ stopped' \/ Len(emitted') = request.maximum_tokens
  THEN pc' = "finish"
  ELSE pc' = IF pending' = <<>> THEN "decode" ELSE "consume"

Take ==
  /\ pc = "consume"
  /\ next' = Head(pending)
  /\ pending' = Tail(pending)
  /\ emitted' = Append(emitted, next')
  /\ UNCHANGED <<sessionVars, request, draft_count, synced>>

ConsumeTerminal ==
  /\ Take /\ next' \in Terminal
  /\ stopped' = TRUE
  /\ UNCHANGED <<sent_bytes, client_connected, reply_events>>
  /\ Continue

(* Fault: send all of the text, complete characters or not.                *)
EmitEverything ==
  LET text == Decoded(emitted') IN
  IF ~request.stream \/ Len(text) <= sent_bytes
  THEN UNCHANGED <<sent_bytes, client_connected, reply_events>>
  ELSE /\ Delivered("delta", SubSeq(text, sent_bytes + 1, Len(text)))
       /\ sent_bytes' = Len(text)
       /\ UNCHANGED client_connected

(* emit_content sends the bytes of complete characters behind sent_bytes.  *)
Emit ==
  LET text == Decoded(emitted')
      valid_bytes == valid_utf8_prefix(text)
  IN IF ~request.stream \/ valid_bytes <= sent_bytes
     THEN UNCHANGED <<sent_bytes, client_connected, reply_events>>
     ELSE \/ /\ Delivered("delta", SubSeq(text, sent_bytes + 1, valid_bytes))
             /\ sent_bytes' = valid_bytes
             /\ UNCHANGED client_connected
          \/ /\ Lost
             /\ client_connected' = FALSE
             /\ UNCHANGED sent_bytes

ConsumeContent ==
  /\ Take /\ next' \notin Terminal
  /\ Emit
  /\ UNCHANGED stopped
  /\ Continue

(* The tokenizer has no piece for a token.                                 *)
DecodeTextFails ==
  /\ Take /\ next' \notin Terminal
  /\ pc' = "error"
  /\ UNCHANGED <<sent_bytes, stopped, client_connected, reply_events>>
------------------------------------------------------------------------------
(* Closing the reply *)

SendOr(kind, bytes, then) ==
  \/ Delivered(kind, bytes) /\ pc' = then
  \/ Lost /\ pc' = "closed"

(* Fault: report the finish to a client that is gone.                      *)
FinishAnyway ==
  /\ pc = "finish"
  /\ IF ~request.stream
     THEN SendOr("completion", Decoded(emitted), "closed")
     ELSE SendOr("finish", <<>>, IF request.usage THEN "usage" ELSE "done")
  /\ UNCHANGED <<sessionVars, request, draft_count, loopVars>>

Finish ==
  /\ pc = "finish"
  /\ IF ~client_connected THEN pc' = "closed" /\ UNCHANGED reply_events
     ELSE IF ~request.stream
     THEN SendOr("completion", Decoded(emitted), "closed")
     ELSE SendOr("finish", <<>>, IF request.usage THEN "usage" ELSE "done")
  /\ UNCHANGED <<sessionVars, request, draft_count, loopVars>>

SendUsage ==
  /\ pc = "usage"
  /\ SendOr("usage", <<>>, "done")
  /\ UNCHANGED <<sessionVars, request, draft_count, loopVars>>

(* A failed request: one JSON error, or an error event and the end marker, *)
(* sent whether or not the event got through.                              *)
ReportError ==
  /\ pc = "error"
  /\ \/ Delivered("error", <<>>) \/ Lost
  /\ pc' = IF request.stream THEN "done" ELSE "closed"
  /\ UNCHANGED <<sessionVars, request, draft_count, loopVars>>

SendDone ==
  /\ pc = "done"
  /\ \/ Delivered("done", <<>>) \/ Lost
  /\ pc' = "closed"
  /\ UNCHANGED <<sessionVars, request, draft_count, loopVars>>

Handle ==
  \/ Open \/ CreateSession \/ Sync \/ Prefill \/ DecodeOne \/ DecodeRound
  \/ CallFails \/ ConsumeTerminal \/ ConsumeContent \/ DecodeTextFails
  \/ Finish \/ SendUsage \/ ReportError \/ SendDone

Closed == pc = "closed" /\ UNCHANGED vars

Next == Handle \/ Closed

Spec == Init /\ [][Next]_vars

(* The handler runs on the server's one thread and every call and every    *)
(* send of it returns: sends give up after SO_SNDTIMEO.                    *)
FairSpec == Spec /\ WF_vars(Handle)

------------------------------------------------------------------------------
(* Properties *)

(* The loop never makes a call that the session's guards reject: the check *)
(* of the prompt leaves room for every round, the depth is one the session *)
(* takes, and the two caches stay aligned from call to call.               *)
NoCallRefused == reply # "refused"

(* What DecodeSession assumes of its callers (Promised): the token given   *)
(* to mtp_draft is the next one the target is fed.                         *)
CallerKeepsPromise ==
  pc \in {"prefill", "decode"} /\ fed # <<>> /\ drafted = Len(fed) =>
    pc = "prefill" /\ synced = PromptToken

(* The client is answered with the serial greedy continuation of its       *)
(* prompt, up to the first terminal token or the budget, wherever rounds   *)
(* begin and end and however much of the last one the session evaluated    *)
(* too far.                                                                *)
AnswerIsSerial ==
  /\ Len(emitted) <= request.maximum_tokens
  /\ \A i \in 1..Len(emitted) :
       /\ emitted[i] = Target(request.prompt \o SubSeq(emitted, 1, i - 1))
       /\ i < Len(emitted) => emitted[i] \notin Terminal
  /\ pc \in {"finish", "usage"} /\ client_connected =>
       \/ Len(emitted) = request.maximum_tokens
       \/ emitted # <<>> /\ emitted[Len(emitted)] \in Terminal

Kinds == [i \in 1..Len(reply_events) |-> reply_events[i].kind]
Sent(kind) == \E i \in 1..Len(reply_events) : reply_events[i].kind = kind

DeltaBytes(e) == IF e.kind = "delta" THEN e.bytes ELSE <<>>
Streamed == FlattenSeq([i \in DOMAIN reply_events |-> DeltaBytes(reply_events[i])])

(* Every delta of a stream consists of whole characters, the deltas are    *)
(* the beginning of the answer's text, and when the finish is reported     *)
(* nothing of the text's complete characters is missing.                   *)
StreamedText ==
  LET text == Decoded(emitted)
  IN /\ \A i \in 1..Len(reply_events) :
          reply_events[i].kind = "delta" =>
            /\ reply_events[i].bytes # <<>>
            /\ valid_utf8_prefix(reply_events[i].bytes) = Len(reply_events[i].bytes)
     /\ sent_bytes \in 0..Len(text)
     /\ Streamed = SubSeq(text, 1, sent_bytes)
     /\ Sent("finish") => sent_bytes = valid_utf8_prefix(text)

(* The order of events on a connection.                                    *)
Stage(kind) ==
  CASE kind = "headers" -> 1 [] kind = "role" -> 2 [] kind = "delta" -> 3
    [] kind \in {"finish", "error", "completion"} -> 4
    [] kind = "usage" -> 5 [] kind = "cut" -> 6 [] kind = "done" -> 7

(* Events come in order and only deltas repeat; nothing follows a delta    *)
(* that did not get through; a finish is reported only for a whole answer, *)
(* and a usage chunk that was asked for comes before the end marker, as    *)
(* docs/SERVING.md:36 says.                                                *)
ReplyWellFormed ==
  /\ \A i, j \in 1..Len(reply_events) : i < j =>
       \/ Stage(Kinds[i]) < Stage(Kinds[j])
       \/ Kinds[i] = Kinds[j] /\ Kinds[i] \in {"delta", "cut"}
  /\ Sent("finish") \/ Sent("completion") =>
       \/ Len(emitted) = request.maximum_tokens
       \/ stopped
  /\ Sent("done") /\ Sent("finish") => (Sent("usage") <=> request.usage)
  /\ ~client_connected => ~Sent("finish") /\ ~Sent("error") /\ ~Sent("done")

(* Every request is over at some time, whatever fails.                     *)
RequestEnds == <>(pc = "closed")
=============================================================================
