------------------------------- MODULE Server --------------------------------
(***************************************************************************)
(* The server process (src/server/main.cpp): start-up, the loop that takes *)
(* one connection at a time, the reading and routing of its request, and   *)
(* the signal handler that ends the loop by closing the listening socket.  *)
(* The clients are the environment: each may connect, send its request in  *)
(* pieces of any size, fall silent or hang up.  What generate does with a  *)
(* chat is module Generate; here it ends in one of its replies.            *)
(***************************************************************************)
EXTENDS ChatRequest, FiniteSets, SequencesExt

CONSTANTS
  Clients,
  Requests,        \* [route, header, lines, body, sends]: sizes are in bytes
  Scripts,         \* who asks for what: a set of functions from Clients to Requests
  Options,         \* command lines: [wellformed, context, maximum_output_tokens, drafts]
  Signals,         \* SIGINT and SIGTERM
  MaxSignals,      \* how often a signal is sent (bounds the model)
  MaximumContext,  \* Qwen38Spec::maximum_context_tokens
  HeaderChunk, MaximumHeader, BodyChunk, MaximumBody,
  Backlog,         \* connections listen() lets wait: 16
  None

ASSUME SizesAssumption ==
  /\ {HeaderChunk, MaximumHeader, BodyChunk, MaximumBody, Backlog} \subseteq Nat \ {0}
  /\ MaxSignals \in Nat /\ None \notin Clients
ASSUME RequestsAssumption ==
  /\ Scripts \subseteq [Clients -> Requests]
  /\ \A r \in Requests :
       /\ r.header \in Nat \ {0} /\ r.sends \in Nat
       /\ r.lines \in Seq(Range(r.lines))
       /\ \A n \in DOMAIN r.lines :
            r.lines[n].name = "content-length" => r.lines[n].value \in Int
       /\ r.body.object => BodyType(r.body)
ASSUME OptionsAssumption ==
  /\ MaximumContext \in Nat
  /\ \A o \in Options : {o.context, o.maximum_output_tokens} \subseteq Nat

VARIABLES
  pc,          \* where the main thread is
  options,
  running,
  published,   \* listener_for_signal >= 0
  listener,    \* the listening socket: "none", "open" or "closed"
  handlers,    \* the handlers that run, the innermost first: [signal, at]
  signals,     \* signals sent so far
  backlog,     \* connections that wait to be accepted
  client,      \* the connection being handled
  line,        \* the state of a client's connection
  asks,        \* what each client wants to send
  arrived,     \* bytes of it that its socket was given
  received,    \* bytes of the request that recv returned so far
  hung_up,     \* the client sends no more and reads no more
  answer       \* the reply to the request: None, or [status, error]

mainVars == <<pc, options, client>>
signalVars == <<running, published, listener, handlers, signals>>
clientVars == <<asks, arrived, hung_up>>
netVars == <<backlog, line, received, answer>>
vars == <<mainVars, signalVars, clientVars, netVars>>

------------------------------------------------------------------------------
(* The request *)

(* The headers, one line at a time: the first bad line is the error, and   *)
(* the last Content-Length counts.                                         *)
BadLine(l) ==
  \/ l.name = "none"
  \/ l.name = "content-length" /\ l.value < 0
  \/ l.name = "transfer-encoding" /\ l.value # "identity"
LineError(l) == CASE l.name = "none" -> "malformed header"
                  [] l.name = "content-length" -> "invalid length"
                  [] OTHER -> "chunked"

header_error(r) ==
  IF r.route = "malformed" THEN "malformed line"
  ELSE LET bad == {n \in DOMAIN r.lines : BadLine(r.lines[n])}
       IN IF bad = {} THEN "none" ELSE LineError(r.lines[Min(bad)])

content_length(r) ==
  LET given == {n \in DOMAIN r.lines : r.lines[n].name = "content-length"}
  IN IF given = {} THEN 0 ELSE r.lines[Max(given)].value

Answer(status, error) == [status |-> status, error |-> error]
Refusal(error) == Answer(400, error)

(* What a request that was read whole is answered: the routes of           *)
(* handle_connection, and handle_chat as far as the body decides it.  A    *)
(* chat that passes ends in one of the replies of generate.                *)
Replies(r) ==
  CASE r.route \in {"GET /health", "GET /v1/models"} -> {Answer(200, "none")}
    [] r.route = "POST /v1/chat/completions" ->
         LET error == chat_error(r.body, options.maximum_output_tokens)
         IN IF error # "none" THEN {Refusal(error)}
            ELSE {Answer(200, "none"), Refusal("generation")}
    [] OTHER -> {Answer(404, "not found")}

asked == asks[client]
Unread == arrived[client] - received
AtMost(limit) == IF Unread < limit THEN Unread ELSE limit

(* Fault: count the bytes of the headers as bytes of the body.             *)
BodyWithHeaders == received

Body == received - asked.header
------------------------------------------------------------------------------
(* Start *)

Init ==
  /\ pc = "options" /\ options \in Options /\ client = None
  /\ running = TRUE /\ published = FALSE /\ listener = "none"
  /\ handlers = <<>> /\ signals = 0
  /\ backlog = <<>> /\ line = [c \in Clients |-> "away"]
  /\ asks \in Scripts
  /\ arrived = [c \in Clients |-> 0] /\ received = 0
  /\ hung_up = [c \in Clients |-> FALSE] /\ answer = None

(* The main thread runs only while no handler does.                        *)
At(here) == pc = here /\ handlers = <<>>
Goto(there) == pc' = there /\ UNCHANGED <<options, client>>

OptionsAccepted ==
  /\ options.wellformed
  /\ options.context \in 1..MaximumContext
  /\ options.maximum_output_tokens # 0
  /\ options.drafts <= 31
  /\ options.maximum_output_tokens <= options.context

ParseOptions ==
  /\ At("options")
  /\ Goto(IF OptionsAccepted THEN "load" ELSE "exited")
  /\ UNCHANGED <<signalVars, clientVars, netVars>>

(* The engine and the tokenizer are loaded, or the process ends.           *)
Load ==
  /\ At("load")
  /\ \/ Goto("listen") \/ Goto("exited")
  /\ UNCHANGED <<signalVars, clientVars, netVars>>

listen_socket ==
  /\ At("listen")
  /\ \/ Goto("publish") /\ listener' = "open"
     \/ Goto("exited") /\ UNCHANGED listener
  /\ UNCHANGED <<running, published, handlers, signals, clientVars, netVars>>

Publish ==
  /\ At("publish")
  /\ Goto("test")
  /\ published' = TRUE
  /\ UNCHANGED <<running, listener, handlers, signals, clientVars, netVars>>
------------------------------------------------------------------------------
(* The loop *)

TestRunning ==
  /\ At("test")
  /\ Goto(IF running THEN "accept" ELSE "final")
  /\ UNCHANGED <<signalVars, clientVars, netVars>>

Accept ==
  /\ At("accept") /\ listener = "open" /\ backlog # <<>>
  /\ client' = Head(backlog)
  /\ backlog' = Tail(backlog)
  /\ line' = [line EXCEPT ![Head(backlog)] = "open"]
  /\ pc' = "headers"
  /\ received' = 0 /\ answer' = None
  /\ UNCHANGED <<options, signalVars, clientVars>>

(* A closed descriptor, an aborted connection, no descriptor left: any     *)
(* error but an interruption ends the loop.  A signal does not interrupt   *)
(* accept: it is restarted, and fails then if the handler closed the       *)
(* socket.                                                                 *)
AcceptFails ==
  /\ At("accept")
  /\ listener = "closed" \/ backlog # <<>>
  /\ Goto("final")
  /\ UNCHANGED <<signalVars, clientVars, netVars>>

(* send_json: the reply goes out, or the client is gone.                   *)
Reply(reply) ==
  /\ \/ answer' = reply
     \/ hung_up[client] /\ UNCHANGED answer
  /\ Goto("close")

Receive(limit, there) ==
  /\ received' = received + AtMost(limit)
  /\ Goto(there)
  /\ UNCHANGED answer

(* Fault: wait for the client as long as it takes.                         *)
ReceiveWithoutTimeout(where) ==
  /\ At(where) /\ Unread = 0
  /\ hung_up[client] /\ Reply(Refusal("connection closed"))
  /\ UNCHANGED received

(* recv brings no more: the client closed its side, the connection failed, *)
(* or nothing came for the 300 seconds of SO_RCVTIMEO.                     *)
ReceiveFails(where) ==
  /\ At(where) /\ Unread = 0
  /\ \/ hung_up[client] /\ Reply(Refusal("connection closed"))
     \/ Reply(Refusal("cannot read"))
  /\ UNCHANGED received

(* Fault: keep room for one more piece when the limit is tested.           *)
ReadHeadersKeepingRoom ==
  /\ \/ /\ At("headers") /\ Unread > 0
        /\ LET bytes == received + AtMost(HeaderChunk) IN
           /\ received' = bytes
           /\ IF bytes + HeaderChunk > MaximumHeader THEN Reply(Refusal("headers too long"))
              ELSE Goto(IF bytes < asked.header THEN "headers" ELSE "parse")
                   /\ UNCHANGED answer
     \/ ReceiveFails("headers")
  /\ UNCHANGED <<signalVars, clientVars, backlog, line>>

(* The limit is tested on all bytes read so far, before the end of the     *)
(* headers is looked for: body bytes of the same piece count.              *)
ReadHeaders ==
  /\ \/ /\ At("headers") /\ Unread > 0
        /\ LET bytes == received + AtMost(HeaderChunk) IN
           /\ received' = bytes
           /\ IF bytes > MaximumHeader THEN Reply(Refusal("headers too long"))
              ELSE Goto(IF bytes < asked.header THEN "headers" ELSE "parse")
                   /\ UNCHANGED answer
     \/ ReceiveFails("headers")
  /\ UNCHANGED <<signalVars, clientVars, backlog, line>>

ParseHeaders ==
  /\ At("parse")
  /\ IF header_error(asked) # "none" THEN Reply(Refusal(header_error(asked)))
     ELSE IF content_length(asked) > MaximumBody THEN Reply(Refusal("body too long"))
     ELSE Goto("body") /\ UNCHANGED answer
  /\ UNCHANGED <<signalVars, clientVars, backlog, line, received>>

(* Bytes behind the body that came with the headers are ignored; recv is   *)
(* never asked for more than what is missing.                              *)
ReadBody ==
  /\ \/ /\ At("body") /\ Body < content_length(asked) /\ Unread > 0
        /\ Receive(Min({BodyChunk, content_length(asked) - Body}), "body")
     \/ ReceiveFails("body") /\ Body < content_length(asked)
     \/ /\ At("body") /\ Body >= content_length(asked)
        /\ Goto("route") /\ UNCHANGED <<received, answer>>
  /\ UNCHANGED <<signalVars, clientVars, backlog, line>>

Route ==
  /\ At("route")
  /\ \E reply \in Replies(asked) : Reply(reply)
  /\ UNCHANGED <<signalVars, clientVars, backlog, line, received>>

(* Fault: leave the connection open.                                       *)
ForgetClient ==
  /\ At("close")
  /\ client' = None /\ pc' = "test"
  /\ received' = 0 /\ answer' = None
  /\ UNCHANGED <<options, backlog, line, arrived, hung_up, signalVars, asks>>

(* close(client).  Closing a socket with unread input resets it, and the   *)
(* reply on its way may be lost.                                           *)
CloseClient ==
  /\ At("close")
  /\ line' = [line EXCEPT ![client] = IF Unread > 0 THEN "reset" ELSE "closed"]
  /\ client' = None /\ pc' = "test"
  /\ received' = 0 /\ answer' = None
  /\ arrived' = [arrived EXCEPT ![client] = 0]
  /\ hung_up' = [hung_up EXCEPT ![client] = FALSE]
  /\ UNCHANGED <<options, backlog, signalVars, asks>>

(* What a closed listening socket does to the connections that wait.       *)
CloseListener ==
  /\ listener' = IF listener = "open" THEN "closed" ELSE listener
  /\ IF listener = "open"
     THEN /\ backlog' = <<>>
          /\ line' = [c \in Clients |-> IF line[c] = "waits" THEN "reset" ELSE line[c]]
     ELSE UNCHANGED <<backlog, line>>

Final ==
  /\ At("final")
  /\ Goto(IF published THEN "close listener" ELSE "exited")
  /\ UNCHANGED <<signalVars, clientVars, netVars>>

CloseAtExit ==
  /\ At("close listener")
  /\ CloseListener
  /\ Goto("exited")
  /\ published' = FALSE
  /\ UNCHANGED <<running, handlers, signals, received, answer, clientVars>>

Main ==
  \/ ParseOptions \/ Load \/ listen_socket \/ Publish \/ TestRunning
  \/ Accept \/ AcceptFails \/ ReadHeaders \/ ParseHeaders \/ ReadBody
  \/ Route \/ CloseClient \/ Final \/ CloseAtExit
------------------------------------------------------------------------------
(* The signal handler.  It interrupts the main thread, or the handler of   *)
(* the other signal, between any two steps.                                *)

Signal(s) ==
  /\ pc \notin {"options", "exited"} /\ signals < MaxSignals
  /\ \A i \in DOMAIN handlers : handlers[i].signal # s
  /\ handlers' = <<[signal |-> s, at |-> "enter"]>> \o handlers
  /\ signals' = signals + 1
  /\ UNCHANGED <<running, published, listener, mainVars, clientVars, netVars>>

Step(there) == handlers' = [handlers EXCEPT ![1].at = there]
Return == handlers' = Tail(handlers)

(* Fault: only ask the loop to stop.                                       *)
HandlerOnlyClearsRunning ==
  /\ handlers # <<>>
  /\ running' = FALSE /\ Return
  /\ UNCHANGED <<published, listener, signals, mainVars, clientVars, netVars>>

handle_signal ==
  /\ handlers # <<>>
  /\ LET at == Head(handlers).at IN
     \/ /\ at = "enter"
        /\ running' = FALSE
        /\ IF published THEN Step("close") ELSE Return
        /\ UNCHANGED <<published, listener, netVars>>
     \/ /\ at = "close"
        /\ CloseListener
        /\ Step("forget")
        /\ UNCHANGED <<running, published, received, answer>>
     \/ /\ at = "forget"
        /\ published' = FALSE
        /\ Return
        /\ UNCHANGED <<running, listener, netVars>>
  /\ UNCHANGED <<signals, mainVars, clientVars>>
------------------------------------------------------------------------------
(* The clients *)

Connect(c) ==
  /\ line[c] = "away" /\ listener = "open" /\ Len(backlog) < Backlog
  /\ line' = [line EXCEPT ![c] = "waits"]
  /\ backlog' = Append(backlog, c)
  /\ UNCHANGED <<mainVars, signalVars, clientVars, received, answer>>

Arrive(c) ==
  /\ line[c] \in {"waits", "open"} /\ ~hung_up[c]
  /\ \E n \in arrived[c] + 1 .. asks[c].sends : arrived' = [arrived EXCEPT ![c] = n]
  /\ UNCHANGED <<mainVars, signalVars, netVars, asks, hung_up>>

HangUp(c) ==
  /\ line[c] \in {"waits", "open"} /\ ~hung_up[c]
  /\ hung_up' = [hung_up EXCEPT ![c] = TRUE]
  /\ UNCHANGED <<mainVars, signalVars, netVars, asks, arrived>>

Exited == pc = "exited" /\ UNCHANGED vars

Next ==
  \/ Main \/ handle_signal
  \/ \E s \in Signals : Signal(s)
  \/ \E c \in Clients : Connect(c) \/ Arrive(c) \/ HangUp(c)
  \/ Exited

Spec == Init /\ [][Next]_vars

(* The process is scheduled: its thread goes on, a handler first, and a    *)
(* recv that nothing reaches gives up after SO_RCVTIMEO.  Clients owe      *)
(* nothing.                                                                *)
FairSpec == Spec /\ WF_vars(Main) /\ WF_vars(handle_signal)

------------------------------------------------------------------------------
(* Properties *)

(* Every variable stays in its range; the descriptor of a connection is    *)
(* open exactly while the main thread handles it, and one connection at a  *)
(* time is.                                                                *)
Locations == {"options", "load", "listen", "publish", "test", "accept", "headers",
              "parse", "body", "route", "close", "final", "close listener", "exited"}
Handling == {"headers", "parse", "body", "route", "close"}

TypeOK ==
  /\ pc \in Locations
  /\ options \in Options /\ asks \in Scripts
  /\ running \in BOOLEAN /\ published \in BOOLEAN
  /\ listener \in {"none", "open", "closed"}
  /\ handlers \in Seq([signal : Signals, at : {"enter", "close", "forget"}])
  /\ signals \in 0..MaxSignals
  /\ backlog \in Seq(Clients) /\ Len(backlog) <= Backlog
  /\ client \in IF pc \in Handling THEN Clients ELSE {None}
  /\ line \in [Clients -> {"away", "waits", "open", "closed", "reset"}]
  /\ \A c \in Clients : line[c] = "open" <=> c = client
  /\ \A c \in Clients : arrived[c] \in 0..asks[c].sends /\ hung_up[c] \in BOOLEAN
  /\ received \in 0..IF client = None THEN 0 ELSE arrived[client]
  /\ answer # None => pc = "close" /\ answer.status \in {200, 400, 404}

NetworkErrors == {"connection closed", "cannot read"}

(* Headers within the limit by less than one piece, and bytes behind them  *)
(* that pass it: whether such bytes come in one piece with the end of the  *)
(* headers decides if the headers are found too long.                      *)
CutMatters(r) ==
  /\ r.header <= MaximumHeader /\ r.header + HeaderChunk - 1 > MaximumHeader
  /\ r.sends > MaximumHeader

(* The answer to a request that is read in one go.                         *)
Whole(r) ==
  IF r.header > MaximumHeader THEN {Refusal("headers too long")}
  ELSE IF header_error(r) # "none" THEN {Refusal(header_error(r))}
  ELSE IF content_length(r) > MaximumBody THEN {Refusal("body too long")}
  ELSE Replies(r)

(* What generate may be asked: a positive budget the context can hold,     *)
(* usage only with a stream, and a prompt of the roles of the template.    *)
Generates(r) ==
  LET chat == chat_request(r.body) IN
  /\ chat.maximum_tokens \in 1..options.maximum_output_tokens
  /\ chat.maximum_tokens <= options.context /\ options.context <= MaximumContext
  /\ chat.usage => chat.stream
  /\ chat.roles # <<>>
  /\ \A i \in DOMAIN chat.roles : chat.roles[i] \in {"system", "user", "assistant"}

(* Unless the connection failed or fell silent, the answer is the one to   *)
(* the whole request, however the network cut it, with one exception: the  *)
(* limit of the headers is tested on bytes behind them too, so headers     *)
(* that are just within it may be found too long, and only so.  No route   *)
(* is taken before the whole body is there, and generate is asked only     *)
(* what module Generate assumes of a request.  (main.cpp:228-328)          *)
AnswerIsOfRequest ==
  answer # None /\ answer.error \notin NetworkErrors =>
    /\ \/ answer \in Whole(asked)
       \/ answer = Refusal("headers too long") /\ CutMatters(asked)
    /\ answer.status \in {200, 404} => received >= asked.header + content_length(asked)
    /\ answer.status = 200 /\ asked.route = "POST /v1/chat/completions" => Generates(asked)

(* A client that sends just its request, with nothing wrong in its headers,*)
(* never has its answer thrown away by a reset: when its socket is closed  *)
(* all of it was read, unless a recv failed or the answer is that the      *)
(* headers are too long.                                                   *)
GoodRequestNotReset ==
  /\ answer # None /\ answer.error \notin NetworkErrors \cup {"headers too long"}
  /\ header_error(asked) = "none" /\ content_length(asked) <= MaximumBody
  /\ asked.sends = asked.header + content_length(asked)
  => Unread = 0

(* A signal ends the server, whenever it comes and whatever the clients do:*)
(* between the test of running and accept, before the listening socket is  *)
(* published, in the handler of the other signal, or while it is closed.   *)
SignalEnds == ~running ~> pc = "exited"

(* A silent client does not hold the others for ever: every connection     *)
(* that waits is handled, or given up when the server ends.                *)
ConnectionServed == \A c \in Clients : line[c] = "waits" ~> line[c] \in {"closed", "reset"}
=============================================================================
