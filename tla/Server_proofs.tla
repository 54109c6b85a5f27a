---------------------------- MODULE Server_proofs ----------------------------
(***************************************************************************)
(* Proofs about Server, for any clients and requests, any sizes of the     *)
(* buffers and limits, and any number of signals.                          *)
(***************************************************************************)
EXTENDS Server, SequenceTheorems, WellFoundedInduction, TLAPS

------------------------------------------------------------------------------
(* Maxima *)

LEMMA Least ==
  ASSUME NEW T, T \subseteq Nat, T # {}
  PROVE  \E x \in T : \A y \in T : x <= y
<1>1. PICK x \in T : \A y \in T : <<y, x>> \notin OpToRel(<, Nat)
  BY NatLessThanWellFounded, WFMin
<1>2. \A y \in T : ~(y < x)
  BY <1>1 DEF OpToRel
<1> QED
  BY <1>2

LEMMA MaxOfBounded ==
  ASSUME NEW n \in Nat, NEW T, T \subseteq 1..n, T # {}
  PROVE  Max(T) \in T
<1>1. PICK d \in {n - x : x \in T} : \A e \in {n - x : x \in T} : d <= e
  <2>1. \A x \in T : n - x \in Nat
    OBVIOUS
  <2>2. {n - x : x \in T} \subseteq Nat /\ {n - x : x \in T} # {}
    BY <2>1, Zenon
  <2> QED
    BY <2>2, Least, Zenon
<1>2. PICK m \in T : \A x \in T : m >= x
  <2>1. PICK m \in T : d = n - m
    BY <1>1
  <2>2. \A x \in T : n - m <= n - x
    BY <1>1, <2>1
  <2> QED
    BY <2>2
<1> QED
  BY <1>2 DEF Max

LEMMA MinOfTwo ==
  ASSUME NEW a \in Int, NEW b \in Int
  PROVE  Min({a, b}) = IF a <= b THEN a ELSE b
BY DEF Min

(* A request's content length is a number, and no bad one passes the       *)
(* headers.                                                                *)
LEMMA ContentLength ==
  ASSUME NEW r \in Requests
  PROVE  content_length(r) \in Int
<1> DEFINE given == {n \in DOMAIN r.lines : r.lines[n].name = "content-length"}
<1>1. given \subseteq 1..Len(r.lines) /\ Len(r.lines) \in Nat
  <2>1. r.lines \in Seq(Range(r.lines))
    BY RequestsAssumption
  <2> QED
    BY <2>1, LenProperties
<1>2. CASE given = {}
  BY <1>2 DEF content_length
<1>3. CASE given # {}
  <2>1. Max(given) \in given
    BY <1>1, <1>3, MaxOfBounded
  <2>2. r.lines[Max(given)].value \in Int
    BY <2>1, RequestsAssumption
  <2> QED
    BY <1>3, <2>2 DEF content_length
<1> QED
  BY <1>2, <1>3

------------------------------------------------------------------------------
(* Types *)

HandlerType == [signal : Signals, at : {"enter", "close", "forget"}]
LineType == [Clients -> {"away", "waits", "open", "closed", "reset"}]

(* TypeOK, and what it leaves open of the functions of the clients.        *)
TypeInv ==
  /\ TypeOK
  /\ arrived \in [Clients -> Nat] /\ hung_up \in [Clients -> BOOLEAN]

(* The parts of the type invariant that one group of actions disturbs.     *)
ControlOK == pc \in Locations /\ options \in Options
             /\ client \in IF pc \in Handling THEN Clients ELSE {None}
SignalsOK == /\ running \in BOOLEAN /\ published \in BOOLEAN
             /\ listener \in {"none", "open", "closed"}
             /\ handlers \in Seq(HandlerType) /\ signals \in 0..MaxSignals
LinesOK == /\ backlog \in Seq(Clients) /\ Len(backlog) <= Backlog
           /\ line \in LineType /\ \A c \in Clients : line[c] = "open" <=> c = client
ClientsOK == /\ asks \in Scripts
             /\ arrived \in [Clients -> Nat] /\ hung_up \in [Clients -> BOOLEAN]
             /\ \A c \in Clients : arrived[c] \in 0..asks[c].sends /\ hung_up[c] \in BOOLEAN
ReceivedOK == received \in 0..IF client = None THEN 0 ELSE arrived[client]
Status(a) == a.status
AnswerOK == answer # None => pc = "close" /\ Status(answer) \in {200, 400, 404}

LEMMA TypeParts ==
  TypeInv <=> ControlOK /\ SignalsOK /\ LinesOK /\ ClientsOK /\ ReceivedOK /\ AnswerOK
BY DEF TypeInv, TypeOK, ControlOK, SignalsOK, LinesOK, ClientsOK, ReceivedOK, AnswerOK,
       HandlerType, LineType, Status

LEMMA TypePartsAfter ==
  ASSUME ControlOK', SignalsOK', LinesOK', ClientsOK', ReceivedOK', AnswerOK'
  PROVE  TypeInv'
BY DEF TypeInv, TypeOK, ControlOK, SignalsOK, LinesOK, ClientsOK, ReceivedOK, AnswerOK,
       HandlerType, LineType, Status

LEMMA TypePartsHold ==
  ASSUME TypeInv'
  PROVE  ControlOK' /\ SignalsOK' /\ LinesOK' /\ ClientsOK' /\ ReceivedOK' /\ AnswerOK'
BY DEF TypeInv, TypeOK, ControlOK, SignalsOK, LinesOK, ClientsOK, ReceivedOK, AnswerOK,
       HandlerType, LineType, Status

(* The request that is being handled.                                      *)
LEMMA AskedType ==
  ASSUME TypeInv
  PROVE  /\ \A c \in Clients : asks[c] \in Requests /\ asks[c].sends \in Nat
         /\ pc \in Handling => /\ client \in Clients /\ client # None /\ asked \in Requests
                               /\ asked.header \in Nat \ {0} /\ asked.sends \in Nat
                               /\ content_length(asked) \in Int
                               /\ arrived[client] \in Nat /\ arrived[client] <= asked.sends
                               /\ received \in Nat /\ Unread \in Nat
<1>1. asks \in [Clients -> Requests]
  BY TypeParts, RequestsAssumption DEF ClientsOK
<1>2. \A c \in Clients : asks[c] \in Requests /\ asks[c].sends \in Nat
  BY <1>1, RequestsAssumption
<1>3. ASSUME pc \in Handling
      PROVE  /\ client \in Clients /\ client # None /\ asked \in Requests
             /\ asked.header \in Nat \ {0} /\ asked.sends \in Nat
  BY <1>2, <1>3, TypeParts, RequestsAssumption, SizesAssumption DEF ControlOK, asked
<1>4. ASSUME pc \in Handling
      PROVE  /\ arrived[client] \in Nat /\ arrived[client] <= asked.sends
             /\ received \in Nat /\ Unread \in Nat
  BY <1>3, <1>4, TypeParts DEF ClientsOK, ReceivedOK, Unread, asked
<1> QED
  BY <1>2, <1>3, <1>4, ContentLength

(* What a piece of recv adds.                                              *)
LEMMA PieceType ==
  ASSUME TypeInv, pc \in Handling, NEW limit \in Nat
  PROVE  /\ AtMost(limit) \in Nat /\ AtMost(limit) <= limit
         /\ received + AtMost(limit) \in 0..arrived[client]
BY AskedType DEF AtMost, Unread
LEMMA InitTypes == Init => TypeInv
<1> SUFFICES ASSUME Init PROVE TypeInv
  OBVIOUS
<1>1. ControlOK
  BY DEF Init, ControlOK, Locations, Handling
<1>2. SignalsOK
  <2>1. handlers \in Seq(HandlerType)
    BY EmptySeq DEF Init
  <2>2. 0 \in 0..MaxSignals
    BY SizesAssumption
  <2> QED
    BY <2>1, <2>2 DEF Init, SignalsOK
<1>3. LinesOK
  <2>1. backlog \in Seq(Clients) /\ Len(backlog) <= Backlog
    BY SizesAssumption, EmptySeq DEF Init
  <2> QED
    BY <2>1, SizesAssumption DEF Init, LinesOK, LineType
<1>4. ClientsOK
  <2>1. \A c \in Clients : asks[c].sends \in Nat
    BY RequestsAssumption DEF Init
  <2> QED
    BY <2>1 DEF Init, ClientsOK
<1>5. ReceivedOK /\ AnswerOK
  BY DEF Init, ReceivedOK, AnswerOK
<1> QED
  BY <1>1, <1>2, <1>3, <1>4, <1>5, TypeParts

(* The main thread between two connections.                                *)
LEMMA IdleTypes ==
  ASSUME TypeInv,
         ParseOptions \/ Load \/ listen_socket \/ Publish \/ TestRunning \/ AcceptFails \/ Final
  PROVE  TypeInv'
<1>1. /\ pc \in {"options", "load", "listen", "publish", "test", "accept", "final"}
      /\ pc' \in {"load", "listen", "publish", "test", "accept", "final", "close listener",
                  "exited"}
      /\ UNCHANGED <<options, client, clientVars, netVars, running, handlers, signals>>
      /\ published' \in {published, TRUE} /\ listener' \in {listener, "open"}
  BY DEF ParseOptions, Load, listen_socket, Publish, TestRunning, AcceptFails, Final,
         At, Goto, signalVars
<1>2. ControlOK'
  BY <1>1, TypeParts DEF ControlOK, Locations, Handling
<1>3. SignalsOK'
  BY <1>1, TypeParts DEF SignalsOK
<1>4. LinesOK' /\ ClientsOK' /\ ReceivedOK'
  BY <1>1, TypeParts DEF LinesOK, ClientsOK, ReceivedOK, clientVars, netVars
<1>5. AnswerOK'
  BY ZenonT(30), <1>1, TypeParts DEF AnswerOK, netVars
<1> QED
  BY <1>2, <1>3, <1>4, <1>5, TypePartsAfter

LEMMA AcceptTypes ==
  ASSUME TypeInv, Accept
  PROVE  TypeInv'
<1>1. /\ Head(backlog) \in Clients /\ Tail(backlog) \in Seq(Clients)
      /\ Len(Tail(backlog)) = Len(backlog) - 1 /\ Len(backlog) \in Nat
  BY TypeParts, HeadTailProperties, LenProperties DEF Accept, LinesOK
<1>2. client = None /\ \A c \in Clients : line[c] # "open"
  BY SizesAssumption, TypeParts DEF Accept, At, ControlOK, Handling, LinesOK
<1>3. ControlOK'
  BY <1>1, TypeParts DEF Accept, ControlOK, Locations, Handling
<1>4. SignalsOK' /\ ClientsOK'
  BY TypeParts DEF Accept, SignalsOK, ClientsOK, signalVars, clientVars
<1>5. LinesOK'
  BY <1>1, <1>2, SizesAssumption, TypeParts DEF Accept, LinesOK, LineType
<1>6. ReceivedOK' /\ AnswerOK'
  <2>1. arrived[Head(backlog)] \in Nat
    BY <1>1, TypeParts DEF ClientsOK
  <2> QED
    BY <1>1, <2>1, SizesAssumption DEF Accept, ReceivedOK, AnswerOK, clientVars
<1> QED
  BY <1>3, <1>4, <1>5, <1>6, TypePartsAfter

(* The steps that handle a connection, up to the close.                    *)
Handles == ReadHeaders \/ ParseHeaders \/ ReadBody \/ Route

(* What a reply leaves: the answer, or nothing.                            *)
LEMMA ReplySent ==
  ASSUME NEW reply, Reply(reply), answer = None
  PROVE  pc' = "close" /\ answer' \in {reply, None} /\ UNCHANGED <<options, client>>
BY DEF Reply, Goto

LEMMA Statuses ==
  ASSUME NEW r, NEW reply \in Replies(r)
  PROVE  Status(reply) \in {200, 400, 404}
<1>1. CASE r.route \in {"GET /health", "GET /v1/models"}
  <2>1. reply = Answer(200, "none")
    BY <1>1 DEF Replies
  <2> QED
    BY <1>1, <2>1 DEF Answer, Status
<1>2. CASE r.route = "POST /v1/chat/completions"
  <2> DEFINE error == chat_error(r.body, options.maximum_output_tokens)
  <2>1. reply \in IF error # "none" THEN {Refusal(error)}
                   ELSE {Answer(200, "none"), Refusal("generation")}
    BY <1>2 DEF Replies
  <2> HIDE DEF error
  <2>2. CASE error # "none"
    <3>1. reply = Refusal(error)
      BY <2>1, <2>2
    <3> QED
      BY <3>1 DEF Refusal, Answer, Status
  <2>3. CASE error = "none"
    <3>1. reply = Answer(200, "none") \/ reply = Refusal("generation")
      BY <2>1, <2>3
    <3>2. Status(reply) \in {200, 400}
      BY <3>1 DEF Refusal, Answer, Status
    <3> QED
      BY <2>3, <3>2 DEF error
  <2> QED
    BY <2>2, <2>3
<1>3. CASE r.route \notin {"GET /health", "GET /v1/models", "POST /v1/chat/completions"}
  <2>1. reply = Answer(404, "not found")
    BY <1>3 DEF Replies
  <2> QED
    BY <2>1, <1>3 DEF Answer, Status
<1> QED
  BY <1>1, <1>2, <1>3

IsChat(r) == r.route = "POST /v1/chat/completions"
LEMMA Generating ==
  ASSUME NEW r, NEW reply \in Replies(r), Status(reply) = 200, IsChat(r)
  PROVE  chat_error(r.body, options.maximum_output_tokens) = "none"
<1> DEFINE error == chat_error(r.body, options.maximum_output_tokens)
<1>1. reply \in IF error # "none" THEN {Refusal(error)}
                 ELSE {Answer(200, "none"), Refusal("generation")}
  BY DEF Replies, IsChat
<1> HIDE DEF error
<1>2. reply # Refusal(error)
  <2>1. Status(Refusal(error)) = 400
    BY DEF Refusal, Answer, Status
  <2> QED
    BY <2>1
<1>3. error = "none"
  BY <1>1, <1>2
<1> QED
  BY <1>3 DEF error

LEMMA RefusalStatus ==
  ASSUME NEW a, NEW x, NEW y, NEW z, a \in {Refusal(x), Refusal(y), Refusal(z), None}
  PROVE  a = None \/ Status(a) = 400
BY DEF Refusal, Answer, Status

LEMMA ReadHeadersStep ==
  ASSUME TypeInv, ReadHeaders
  PROVE  /\ pc = "headers" /\ handlers = <<>> /\ answer = None
         /\ UNCHANGED <<options, client, signalVars, clientVars, backlog, line>>
         /\ \/ /\ received' = received + AtMost(HeaderChunk)
               /\ \/ /\ received' > MaximumHeader
                     /\ pc' = "close" /\ answer' \in {Refusal("headers too long"), None}
                  \/ /\ received' <= MaximumHeader
                     /\ pc' = IF received' < asked.header THEN "headers" ELSE "parse"
                     /\ answer' = None
            \/ /\ received' = received /\ pc' = "close"
               /\ answer' \in {Refusal("connection closed"), Refusal("cannot read"), None}
<1>1. pc = "headers" /\ handlers = <<>>
  BY DEF ReadHeaders, ReceiveFails, At
<1>2. answer = None /\ received + AtMost(HeaderChunk) \in Int
  <2>1. pc \in Handling /\ HeaderChunk \in Nat
    BY <1>1, SizesAssumption DEF Handling
  <2> QED
    BY <1>1, <2>1, TypeParts, PieceType DEF AnswerOK
<1>3. CASE ReceiveFails("headers")
  BY <1>1, <1>2, <1>3, ReplySent DEF ReadHeaders, ReceiveFails
<1>4. CASE ~ReceiveFails("headers")
  <2>1. /\ received' = received + AtMost(HeaderChunk)
        /\ IF received' > MaximumHeader THEN Reply(Refusal("headers too long"))
           ELSE /\ Goto(IF received' < asked.header THEN "headers" ELSE "parse")
                /\ UNCHANGED answer
        /\ UNCHANGED <<signalVars, clientVars, backlog, line>>
    BY <1>4 DEF ReadHeaders
  <2>2. CASE received' > MaximumHeader
    BY <1>1, <1>2, <2>1, <2>2, ReplySent
  <2>3. CASE ~(received' > MaximumHeader)
    <3>1. received' <= MaximumHeader
      BY <1>2, <2>1, <2>3, SizesAssumption
    <3> QED
      BY <1>1, <1>2, <2>1, <2>3, <3>1 DEF Goto
  <2> QED
    BY <2>2, <2>3
<1> QED
  BY <1>3, <1>4

LEMMA ParseHeadersStep ==
  ASSUME TypeInv, ParseHeaders
  PROVE  /\ pc = "parse" /\ handlers = <<>> /\ answer = None
         /\ UNCHANGED <<options, client, signalVars, clientVars, backlog, line, received>>
         /\ \/ /\ header_error(asked) # "none" /\ pc' = "close"
               /\ answer' \in {Refusal(header_error(asked)), None}
            \/ /\ header_error(asked) = "none" /\ content_length(asked) > MaximumBody
               /\ pc' = "close" /\ answer' \in {Refusal("body too long"), None}
            \/ /\ header_error(asked) = "none" /\ ~(content_length(asked) > MaximumBody)
               /\ pc' = "body" /\ answer' = None
<1>1. answer = None /\ pc = "parse" /\ handlers = <<>>
  BY TypeParts DEF ParseHeaders, At, AnswerOK
<1> QED
  BY <1>1, ReplySent DEF ParseHeaders, Goto

LEMMA ReadBodyStep ==
  ASSUME TypeInv, ReadBody
  PROVE  /\ pc = "body" /\ handlers = <<>> /\ answer = None
         /\ UNCHANGED <<options, client, signalVars, clientVars, backlog, line>>
         /\ \/ /\ pc' = "body" /\ answer' = None
               /\ received' \in received..arrived[client]
            \/ /\ received' = received /\ pc' = "close"
               /\ answer' \in {Refusal("connection closed"), Refusal("cannot read"), None}
            \/ /\ received' = received /\ pc' = "route" /\ answer' = None
               /\ received >= asked.header + content_length(asked)
<1>1. pc = "body" /\ handlers = <<>> /\ pc \in Handling
  BY DEF ReadBody, ReceiveFails, At, Handling
<1>2. answer = None /\ received \in Nat
  BY <1>1, TypeParts, AskedType DEF AnswerOK
<1>3. UNCHANGED <<signalVars, clientVars, backlog, line>>
  BY DEF ReadBody
<1>4. CASE ReceiveFails("body")
  BY <1>1, <1>2, <1>3, <1>4, ReplySent DEF ReceiveFails
<1>5. CASE /\ Body < content_length(asked)
           /\ Receive(Min({BodyChunk, content_length(asked) - Body}), "body")
  <2>1. /\ BodyChunk \in Nat /\ Body \in Int /\ content_length(asked) \in Int
        /\ content_length(asked) - Body \in Nat
    BY <1>1, <1>5, AskedType, SizesAssumption DEF Body
  <2>2. Min({BodyChunk, content_length(asked) - Body}) \in Nat
    BY <2>1, MinOfTwo
  <2>3. received' \in received..arrived[client]
    <3> DEFINE limit == Min({BodyChunk, content_length(asked) - Body})
    <3>1. limit \in Nat
      BY <2>2
    <3>2. received' = received + AtMost(limit)
      BY <1>5 DEF Receive
    <3> HIDE DEF limit
    <3>3. AtMost(limit) \in Nat /\ received + AtMost(limit) \in 0..arrived[client]
      BY <1>1, <3>1, PieceType
    <3> QED
      BY <1>1, <1>2, <3>2, <3>3, AskedType
  <2> QED
    BY <1>1, <1>2, <1>3, <1>5, <2>3 DEF Receive, Goto
<1>6. CASE /\ Body >= content_length(asked)
           /\ Goto("route") /\ UNCHANGED <<received, answer>>
  <2>1. received >= asked.header + content_length(asked)
    BY <1>1, <1>2, <1>6, AskedType DEF Body
  <2> QED
    BY <1>1, <1>2, <1>3, <1>6, <2>1 DEF Goto
<1> QED
  BY <1>4, <1>5, <1>6 DEF ReadBody

LEMMA RouteStep ==
  ASSUME TypeInv, Route
  PROVE  /\ pc = "route" /\ handlers = <<>> /\ answer = None /\ pc' = "close"
         /\ UNCHANGED <<options, client, signalVars, clientVars, backlog, line, received>>
         /\ answer' \in Replies(asked) \cup {None}
<1>1. answer = None /\ pc = "route" /\ handlers = <<>>
  BY TypeParts DEF Route, At, AnswerOK
<1>2. PICK reply \in Replies(asked) : Reply(reply)
  BY DEF Route
<1> QED
  BY <1>1, <1>2, ReplySent DEF Route

LEMMA HandlesStep ==
  ASSUME TypeInv, Handles
  PROVE  /\ pc \in Handling \ {"close"} /\ pc' \in Handling
         /\ UNCHANGED <<options, client, signalVars, clientVars, backlog, line>>
         /\ received' \in received..arrived[client]
         /\ answer' # None => pc' = "close" /\ Status(answer)' \in {200, 400, 404}
<1>1. pc \in Handling => received \in Nat /\ received <= arrived[client] /\ arrived[client] \in Nat
  BY AskedType, TypeParts DEF ReceivedOK
<1>2. received \in received..arrived[client]
  <2>1. pc \in Handling
    BY DEF Handles, ReadHeaders, ParseHeaders, ReadBody, Route, At, ReceiveFails, Handling
  <2> QED
    BY <1>1, <2>1
<1>3. CASE ReadHeaders
  <2>1. pc = "headers" /\ pc \in Handling /\ HeaderChunk \in Nat
    BY <1>3, ReadHeadersStep, SizesAssumption DEF Handling
  <2>2. received + AtMost(HeaderChunk) \in received..arrived[client]
    BY <1>1, <2>1, PieceType
  <2>3. received' \in received..arrived[client]
    BY <1>2, <1>3, <2>2, ReadHeadersStep
  <2>4. pc' \in {"headers", "parse", "close"} /\ (answer' # None => pc' = "close")
    BY <1>3, ReadHeadersStep
  <2>5. answer' # None => Status(answer)' = 400
    <3>1. answer' \in {Refusal("headers too long"), Refusal("connection closed"),
                       Refusal("cannot read"), None}
      BY <1>3, ReadHeadersStep
    <3>2. \A a \in {Refusal("headers too long"), Refusal("connection closed"),
                        Refusal("cannot read"), None} :
            a = None \/ Status(a) = 400
      BY RefusalStatus
    <3> QED
      BY <3>1, <3>2
  <2> QED
    BY <1>3, <2>1, <2>3, <2>4, <2>5, ReadHeadersStep DEF Handling
<1>4. CASE ParseHeaders
  <2>1. pc' \in {"body", "close"} /\ (answer' # None => pc' = "close")
    BY <1>4, ParseHeadersStep
  <2>2. answer' # None => Status(answer)' = 400
    <3>1. answer' \in {Refusal(header_error(asked)), Refusal("body too long"),
                       Refusal("body too long"), None}
      BY <1>4, ParseHeadersStep
    <3>2. \A a \in {Refusal(header_error(asked)), Refusal("body too long"),
                        Refusal("body too long"), None} :
            a = None \/ Status(a) = 400
      BY RefusalStatus
    <3> QED
      BY <3>1, <3>2
  <2> QED
    BY <1>2, <1>4, <2>1, <2>2, ParseHeadersStep DEF Handling
<1>5. CASE ReadBody
  <2>1. /\ pc' \in {"body", "route", "close"} /\ (answer' # None => pc' = "close")
        /\ received' \in received..arrived[client]
    BY <1>2, <1>5, ReadBodyStep
  <2>2. answer' # None => Status(answer)' = 400
    <3>1. answer' \in {Refusal("connection closed"), Refusal("cannot read"),
                       Refusal("cannot read"), None}
      BY <1>5, ReadBodyStep
    <3>2. \A a \in {Refusal("connection closed"), Refusal("cannot read"),
                        Refusal("cannot read"), None} :
            a = None \/ Status(a) = 400
      BY RefusalStatus
    <3> QED
      BY <3>1, <3>2
  <2> QED
    BY <1>5, <2>1, <2>2, ReadBodyStep DEF Handling
<1>6. CASE Route
  <2>1. /\ pc = "route" /\ pc' = "close" /\ UNCHANGED received
        /\ UNCHANGED <<options, client, signalVars, clientVars, backlog, line>>
        /\ answer' \in Replies(asked) \cup {None}
    BY <1>6, RouteStep
  <2>2. \A a \in Replies(asked) : Status(a) \in {200, 400, 404}
    BY Statuses
  <2> QED
    BY <1>2, <2>1, <2>2 DEF Handling
<1> QED
  BY <1>3, <1>4, <1>5, <1>6 DEF Handles

LEMMA HandlesTypes ==
  ASSUME TypeInv, Handles
  PROVE  TypeInv'
<1>1. pc \in Handling /\ client \in Clients /\ client # None /\ received \in Nat
  BY HandlesStep, AskedType
<1>2. ControlOK'
  BY ZenonT(30), <1>1, HandlesStep, TypeParts DEF ControlOK, Handling, Locations
<1>3. SignalsOK' /\ LinesOK' /\ ClientsOK'
  BY HandlesStep, TypeParts DEF SignalsOK, LinesOK, ClientsOK, signalVars, clientVars
<1>4. ReceivedOK' /\ AnswerOK'
  BY <1>1, HandlesStep DEF ReceivedOK, AnswerOK, clientVars
<1> QED
  BY <1>2, <1>3, <1>4, TypePartsAfter

LEMMA CloseClientTypes ==
  ASSUME TypeInv, CloseClient
  PROVE  TypeInv'
<1>1. pc = "close" /\ client \in Clients /\ None \notin Clients
  BY SizesAssumption, TypeParts DEF CloseClient, At, ControlOK, Handling
<1>2. /\ pc' = "test" /\ client' = None /\ received' = 0 /\ answer' = None
      /\ UNCHANGED <<options, backlog, asks, running, published, listener, handlers, signals>>
  BY DEF CloseClient, signalVars
<1>3. ControlOK' /\ SignalsOK' /\ ReceivedOK' /\ AnswerOK'
  <2>1. ControlOK'
    BY <1>2, TypeParts DEF ControlOK, Locations, Handling
  <2>2. SignalsOK'
    BY <1>2, TypeParts DEF SignalsOK
  <2>3. ReceivedOK'
    BY <1>2 DEF ReceivedOK
  <2>4. AnswerOK'
    BY <1>2 DEF AnswerOK
  <2> QED
    BY <2>1, <2>2, <2>3, <2>4
<1>4. LinesOK'
  BY <1>1, <1>2, TypeParts DEF CloseClient, LinesOK, LineType
<1>5. ClientsOK'
  <2>1. \A c \in Clients : asks[c].sends \in Nat
    BY AskedType
  <2>2. arrived' \in [Clients -> Nat] /\ hung_up' \in [Clients -> BOOLEAN]
    BY TypeParts DEF CloseClient, ClientsOK
  <2>3. \A c \in Clients : arrived'[c] \in {arrived[c], 0}
    BY TypeParts DEF CloseClient, ClientsOK
  <2>4. \A c \in Clients : arrived'[c] \in 0..asks[c].sends
    BY <2>1, <2>3, TypeParts DEF ClientsOK
  <2> QED
    BY <1>2, <2>2, <2>4, TypeParts DEF ClientsOK
<1> QED
  BY <1>3, <1>4, <1>5, TypePartsAfter

(* Closing the listening socket resets the connections that wait.          *)
LEMMA ListenerClosed ==
  ASSUME TypeInv, CloseListener, client' = client
  PROVE  LinesOK' /\ listener' \in {"none", "closed"}
<1>1. CASE listener = "open"
  <2>1. backlog' \in Seq(Clients) /\ Len(backlog') <= Backlog
    BY <1>1, SizesAssumption, EmptySeq DEF CloseListener
  <2>2. line' = [c \in Clients |-> IF line[c] = "waits" THEN "reset" ELSE line[c]]
    BY <1>1 DEF CloseListener
  <2>3. line' \in LineType /\ \A c \in Clients : line'[c] = "open" <=> line[c] = "open"
    BY <2>2, TypeParts DEF LinesOK, LineType
  <2> QED
    BY <1>1, <2>1, <2>3, TypeParts DEF CloseListener, LinesOK
<1>2. CASE listener # "open"
  BY <1>2, TypeParts DEF CloseListener, LinesOK, SignalsOK
<1> QED
  BY <1>1, <1>2

LEMMA CloseAtExitTypes ==
  ASSUME TypeInv, CloseAtExit
  PROVE  TypeInv'
<1>1. /\ pc = "close listener" /\ pc' = "exited" /\ published' = FALSE /\ CloseListener
      /\ UNCHANGED <<options, client, running, handlers, signals, received, answer, clientVars>>
  BY DEF CloseAtExit, At, Goto
<1>2. LinesOK' /\ listener' \in {"none", "closed"}
  BY <1>1, ListenerClosed
<1>3. ControlOK' /\ SignalsOK'
  BY <1>1, <1>2, TypeParts DEF ControlOK, Locations, Handling, SignalsOK
<1>4. ClientsOK' /\ ReceivedOK' /\ AnswerOK'
  BY <1>1, TypeParts DEF ClientsOK, ReceivedOK, AnswerOK, clientVars
<1> QED
  BY <1>2, <1>3, <1>4, TypePartsAfter

LEMMA SignalTypes ==
  ASSUME TypeInv, NEW s \in Signals, Signal(s)
  PROVE  TypeInv'
<1>1. [signal |-> s, at |-> "enter"] \in HandlerType
  BY DEF HandlerType
<1>2. handlers' \in Seq(HandlerType)
  <2>1. <<[signal |-> s, at |-> "enter"]>> \in Seq(HandlerType)
    BY <1>1
  <2> QED
    BY <2>1, ConcatProperties, TypeParts DEF Signal, SignalsOK
<1>3. signals' \in 0..MaxSignals
  BY SizesAssumption, TypeParts DEF Signal, SignalsOK
<1>4. SignalsOK' /\ ControlOK'
  BY <1>2, <1>3, TypeParts DEF Signal, SignalsOK, ControlOK, mainVars
<1>5. LinesOK' /\ ClientsOK' /\ ReceivedOK' /\ AnswerOK'
  BY TypeParts DEF Signal, LinesOK, ClientsOK, ReceivedOK, AnswerOK, mainVars, clientVars, netVars
<1> QED
  BY <1>4, <1>5, TypePartsAfter

(* The stages of a handler, with what each leaves alone.                   *)
LEMMA HandlerStep ==
  ASSUME TypeInv, handle_signal
  PROVE  /\ handlers # <<>> /\ UNCHANGED <<signals, mainVars, clientVars, received, answer>>
         /\ \/ /\ Head(handlers).at = "enter" /\ running' = FALSE
               /\ IF published THEN Step("close") ELSE Return
               /\ UNCHANGED <<published, listener, backlog, line>>
            \/ /\ Head(handlers).at = "close" /\ CloseListener /\ Step("forget")
               /\ UNCHANGED <<running, published>>
            \/ /\ Head(handlers).at = "forget" /\ published' = FALSE /\ Return
               /\ UNCHANGED <<running, listener, backlog, line>>
BY DEF handle_signal, netVars

LEMMA HandlersShrink ==
  ASSUME TypeInv, handlers # <<>>, NEW there \in {"close", "forget"}
  PROVE  /\ Step(there) => /\ handlers' \in Seq(HandlerType) /\ Len(handlers') = Len(handlers)
                           /\ handlers'[1].at = there
                           /\ \A i \in 2..Len(handlers) : handlers'[i] = handlers[i]
         /\ Return => /\ handlers' \in Seq(HandlerType) /\ Len(handlers') = Len(handlers) - 1
                      /\ \A i \in 1..Len(handlers') : handlers'[i] = handlers[i + 1]
         /\ Len(handlers) \in Nat \ {0} /\ Head(handlers) = handlers[1]
         /\ handlers[1] \in HandlerType
<1>1. handlers \in Seq(HandlerType)
  BY TypeParts DEF SignalsOK
<1>2. Len(handlers) \in Nat \ {0} /\ Head(handlers) = handlers[1] /\ handlers[1] \in HandlerType
  BY <1>1, EmptySeq, ElementOfSeq
<1>3. ASSUME Step(there)
      PROVE  /\ handlers' \in Seq(HandlerType) /\ Len(handlers') = Len(handlers)
             /\ handlers'[1].at = there
             /\ \A i \in 2..Len(handlers) : handlers'[i] = handlers[i]
  <2> DEFINE e == [handlers[1] EXCEPT !.at = there]
  <2>1. e \in HandlerType /\ e.at = there
    BY <1>2 DEF HandlerType
  <2>2. handlers' = [handlers EXCEPT ![1] = e]
    BY <1>3 DEF Step
  <2> HIDE DEF e
  <2>3. 1 \in 1..Len(handlers)
    BY <1>2
  <2>4. /\ handlers' \in Seq(HandlerType) /\ Len(handlers') = Len(handlers)
        /\ \A i \in 1..Len(handlers) : handlers'[i] = IF i = 1 THEN e ELSE handlers[i]
    BY <1>1, <2>1, <2>2, <2>3, ExceptSeq
  <2> QED
    BY <1>2, <2>1, <2>3, <2>4
<1>4. ASSUME Return
      PROVE  /\ handlers' \in Seq(HandlerType) /\ Len(handlers') = Len(handlers) - 1
             /\ \A i \in 1..Len(handlers') : handlers'[i] = handlers[i + 1]
  BY <1>1, <1>4, HeadTailProperties DEF Return
<1> QED
  BY <1>2, <1>3, <1>4

LEMMA HandlerTypes ==
  ASSUME TypeInv, handle_signal
  PROVE  TypeInv'
<1>1. handlers # <<>> /\ UNCHANGED <<signals, pc, options, client, clientVars, received, answer>>
  BY HandlerStep DEF mainVars
<1>2. handlers' \in Seq(HandlerType)
  BY <1>1, HandlerStep, HandlersShrink
<1>3. /\ running' \in BOOLEAN /\ published' \in BOOLEAN
      /\ listener' \in {"none", "open", "closed"} /\ LinesOK'
  BY <1>1, HandlerStep, ListenerClosed, TypeParts DEF SignalsOK, LinesOK
<1>4. SignalsOK' /\ ControlOK' /\ ClientsOK' /\ ReceivedOK' /\ AnswerOK'
  BY <1>1, <1>2, <1>3, TypeParts
     DEF SignalsOK, ControlOK, ClientsOK, ReceivedOK, AnswerOK, clientVars
<1> QED
  BY <1>3, <1>4, TypePartsAfter

LEMMA ClientTypes ==
  ASSUME TypeInv, NEW c \in Clients, Connect(c) \/ Arrive(c) \/ HangUp(c)
  PROVE  TypeInv'
<1>1. UNCHANGED <<mainVars, signalVars, asks, received, answer>>
  BY DEF Connect, Arrive, HangUp, clientVars, netVars
<1>2. ControlOK' /\ SignalsOK' /\ AnswerOK'
  BY <1>1, TypeParts DEF ControlOK, SignalsOK, AnswerOK, mainVars, signalVars
<1>3. CASE Connect(c)
  <2>1. backlog' \in Seq(Clients) /\ Len(backlog') = Len(backlog) + 1 /\ Len(backlog) \in Nat
    BY <1>3, TypeParts, AppendProperties, LenProperties DEF Connect, LinesOK
  <2>2. LinesOK'
    BY <1>1, <1>3, <2>1, SizesAssumption, TypeParts DEF Connect, LinesOK, LineType, mainVars
  <2>3. ClientsOK' /\ ReceivedOK'
    BY <1>1, <1>3, TypeParts DEF Connect, ClientsOK, ReceivedOK, mainVars, clientVars
  <2> QED
    BY <1>2, <2>2, <2>3, TypePartsAfter
<1>4. CASE Arrive(c)
  <2>1. PICK n \in arrived[c] + 1 .. asks[c].sends : arrived' = [arrived EXCEPT ![c] = n]
    BY <1>4 DEF Arrive
  <2>2. arrived[c] \in Nat /\ asks[c].sends \in Nat
    BY AskedType, TypeParts DEF ClientsOK
  <2>3. n \in 0..asks[c].sends /\ n > arrived[c]
    BY <2>1, <2>2
  <2>4. ClientsOK'
    BY <1>1, <1>4, <2>1, <2>3, TypeParts DEF Arrive, ClientsOK
  <2>5. ReceivedOK'
    <3>1. CASE client = None
      BY <1>1, <3>1, TypeParts DEF ReceivedOK, mainVars
    <3>2. CASE client # None
      <4>1. client \in Clients /\ arrived[client] \in Nat
        BY <3>2, TypeParts DEF ControlOK, ClientsOK
      <4>2. arrived'[client] \in Nat /\ arrived'[client] >= arrived[client]
        BY <2>1, <2>2, <2>3, <4>1, TypeParts DEF ClientsOK
      <4> QED
        BY <1>1, <3>2, <4>1, <4>2, TypeParts DEF ReceivedOK, mainVars
    <3> QED
      BY <3>1, <3>2
  <2>6. LinesOK'
    BY <1>1, <1>4, TypeParts DEF Arrive, LinesOK, netVars, mainVars
  <2> QED
    BY <1>2, <2>4, <2>5, <2>6, TypePartsAfter
<1>5. CASE HangUp(c)
  <2>1. ClientsOK' /\ ReceivedOK'
    BY <1>1, <1>5, TypeParts DEF HangUp, ClientsOK, ReceivedOK, mainVars
  <2>2. LinesOK'
    BY <1>1, <1>5, TypeParts DEF HangUp, LinesOK, netVars, mainVars
  <2> QED
    BY <1>2, <2>1, <2>2, TypePartsAfter
<1> QED
  BY <1>3, <1>4, <1>5

LEMMA StutterTypes ==
  ASSUME TypeInv, UNCHANGED vars
  PROVE  TypeInv'
<1>1. UNCHANGED <<pc, options, client, signalVars, clientVars, netVars>>
  BY DEF vars, mainVars
<1> QED
  BY <1>1, TypeParts, TypePartsAfter
     DEF ControlOK, SignalsOK, LinesOK, ClientsOK, ReceivedOK, AnswerOK,
         signalVars, clientVars, netVars
LEMMA TypeStep ==
  ASSUME TypeInv, [Next]_vars
  PROVE  TypeInv'
<1>1. CASE Main
  BY <1>1, IdleTypes, AcceptTypes, HandlesTypes, CloseClientTypes, CloseAtExitTypes
     DEF Main, Handles
<1>2. CASE handle_signal
  BY <1>2, HandlerTypes
<1>3. CASE \E s \in Signals : Signal(s)
  BY <1>3, SignalTypes
<1>4. CASE \E c \in Clients : Connect(c) \/ Arrive(c) \/ HangUp(c)
  BY <1>4, ClientTypes
<1>5. CASE UNCHANGED vars
  BY <1>5, StutterTypes
<1> QED
  BY <1>1, <1>2, <1>3, <1>4, <1>5 DEF Next, Exited

LEMMA TypeInvariant == Spec => []TypeInv
<1>1. Init => TypeInv
  BY InitTypes
<1>2. TypeInv /\ [Next]_vars => TypeInv'
  BY TypeStep
<1> QED
  BY <1>1, <1>2, PTL DEF Spec

(* Every variable of the server stays in its range, whatever the clients   *)
(* send and whenever signals come; one connection at a time is open, while *)
(* handle_connection runs, and only bytes that arrived are counted as read.*)
THEOREM TypeCorrectness == Spec => []TypeOK
<1>1. TypeInv => TypeOK
  BY DEF TypeInv
<1> QED
  BY <1>1, TypeInvariant, PTL
------------------------------------------------------------------------------
(* The answer fits the request *)

(* After the start the options are accepted ones.                          *)
Accepted == pc \notin {"options", "exited"} => OptionsAccepted

(* How far the request has been read and found right.                      *)
Progress ==
  /\ pc = "headers" => received < asked.header
  /\ pc \in {"parse", "body", "route"} => asked.header <= MaximumHeader
  /\ pc \in {"body", "route"} => /\ header_error(asked) = "none"
                                 /\ ~(content_length(asked) > MaximumBody)
  /\ pc = "route" => received >= asked.header + content_length(asked)

(* A request of which nothing but itself is sent, with right headers.      *)
Sound(r) ==
  /\ header_error(r) = "none" /\ content_length(r) <= MaximumBody
  /\ r.sends = r.header + content_length(r)

TooLong == Refusal("headers too long")

(* What holds of an answer sent when so many bytes were read.  That all of *)
(* a sound request was read, and not only what has arrived, is what more   *)
(* arriving bytes cannot undo.                                             *)
Error(a) == a.error
Fits(a, bytes) ==
  a # None /\ Error(a) \notin NetworkErrors =>
    /\ a \in Whole(asked) \/ (a = TooLong /\ CutMatters(asked))
    /\ Status(a) \in {200, 404} => bytes >= asked.header + content_length(asked)
    /\ Status(a) = 200 /\ IsChat(asked) => Generates(asked)
    /\ Sound(asked) /\ Error(a) # "headers too long" => bytes >= asked.sends
AnswerFits == Fits(answer, received)

RequestInv == TypeInv /\ Accepted /\ Progress /\ AnswerFits

(* The request and the limits stay while it is handled.                    *)
LEMMA FitsFrame ==
  ASSUME UNCHANGED <<options, client, asks>>, Fits(answer', received')
  PROVE  AnswerFits'
BY DEF AnswerFits, Fits, asked, Whole, Replies, Generates, Status, Error, Sound, CutMatters, IsChat

LEMMA Unanswered ==
  ASSUME NEW a, NEW bytes, a = None \/ Error(a) \in NetworkErrors
  PROVE  Fits(a, bytes)
BY DEF Fits

LEMMA NetworkRefusals ==
  ASSUME NEW a \in {Refusal("connection closed"), Refusal("cannot read"), None}
  PROVE  a = None \/ Error(a) \in NetworkErrors
<1>1. Error(Refusal("connection closed")) \in NetworkErrors
  BY DEF Error, Refusal, Answer, NetworkErrors
<1>2. Error(Refusal("cannot read")) \in NetworkErrors
  BY DEF Error, Refusal, Answer, NetworkErrors
<1> QED
  BY <1>1, <1>2

(* Headers within the limit are found too long only when bytes behind them *)
(* were read with their end: less than a piece is read past what they lack.*)
LEMMA HeadersTooLong ==
  ASSUME TypeInv, Progress, pc = "headers", received + AtMost(HeaderChunk) > MaximumHeader
  PROVE  Fits(TooLong, received + AtMost(HeaderChunk))
<1> DEFINE a == TooLong
           bytes == received + AtMost(HeaderChunk)
<1>1. /\ received \in Nat /\ received < asked.header /\ asked.header \in Nat
      /\ AtMost(HeaderChunk) \in Nat /\ AtMost(HeaderChunk) <= HeaderChunk
      /\ HeaderChunk \in Nat /\ MaximumHeader \in Nat
  BY AskedType, PieceType, SizesAssumption DEF Progress, Handling
<1>2. asked.header <= MaximumHeader => CutMatters(asked)
  <2>1. /\ received + AtMost(HeaderChunk) <= arrived[client]
        /\ arrived[client] \in Nat /\ arrived[client] <= asked.sends /\ asked.sends \in Nat
    BY AskedType, PieceType, SizesAssumption DEF Handling
  <2> QED
    BY <1>1, <2>1 DEF CutMatters
<1>3. Error(a) = "headers too long"
  BY DEF TooLong, Refusal, Answer, Error
<1>7. Status(a) = 400
  BY DEF TooLong, Refusal, Answer, Status
<1>4. asked.header > MaximumHeader => a \in Whole(asked)
  BY DEF Whole, TooLong
<1>6. a = TooLong
  OBVIOUS
<1> HIDE DEF a, bytes
<1>5. Fits(a, bytes)
  <2>1. a \in Whole(asked) \/ (a = TooLong /\ CutMatters(asked))
    BY <1>1, <1>2, <1>4, <1>6
  <2>2. Status(a) \notin {200, 404} /\ Status(a) # 200
    BY <1>7
  <2> QED
    BY <1>3, <2>1, <2>2, Zenon DEF Fits
<1> QED
  BY <1>5 DEF a, bytes

(* What parsing refuses, the whole request is refused for.                 *)
LEMMA ParseFacts ==
  ASSUME TypeInv, Progress, pc = "parse"
  PROVE  /\ ~(asked.header > MaximumHeader)
         /\ content_length(asked) > MaximumBody => ~(content_length(asked) <= MaximumBody)
<1>1. asked.header <= MaximumHeader /\ asked.header \in Nat /\ MaximumHeader \in Nat
  BY AskedType, SizesAssumption DEF Progress, Handling
<1>2. content_length(asked) \in Int /\ MaximumBody \in Nat
  BY AskedType, SizesAssumption DEF Handling
<1> QED
  BY <1>1, <1>2

LEMMA HeadersRefused ==
  ASSUME TypeInv, Progress, pc = "parse"
  PROVE  /\ header_error(asked) # "none" => Fits(Refusal(header_error(asked)), received)
         /\ header_error(asked) = "none" /\ content_length(asked) > MaximumBody =>
              Fits(Refusal("body too long"), received)
<1>1. \A x : Status(Refusal(x)) = 400
  BY DEF Refusal, Answer, Status
<1>2. ASSUME NEW x, Refusal(x) \in Whole(asked), ~Sound(asked)
      PROVE  Fits(Refusal(x), received)
  <2>1. Status(Refusal(x)) \notin {200, 404}
    BY <1>1
  <2> QED
    BY <1>2, <2>1 DEF Fits
<1>3. ASSUME header_error(asked) # "none"
      PROVE  Refusal(header_error(asked)) \in Whole(asked) /\ ~Sound(asked)
  BY <1>3, ParseFacts DEF Whole, Sound
<1>4. ASSUME header_error(asked) = "none", content_length(asked) > MaximumBody
      PROVE  Refusal("body too long") \in Whole(asked) /\ ~Sound(asked)
  BY <1>4, ParseFacts DEF Whole, Sound
<1> QED
  BY <1>2, <1>3, <1>4

(* What the checks of parse_chat_request leave is what generate assumes.   *)
LEMMA ChatPasses ==
  ASSUME NEW r \in Requests, OptionsAccepted, options \in Options,
         chat_error(r.body, options.maximum_output_tokens) = "none"
  PROVE  Generates(r)
<1> DEFINE body == r.body
           m == maximum_tokens(r.body)
           chat == chat_request(r.body)
<1>1. BodyType(body)
  BY RequestsAssumption DEF chat_error
<1>2. /\ m # WrongKind /\ ~TooMany(body, options.maximum_output_tokens)
      /\ IsFlag(body.stream)
      /\ ~(body.include_usage # "no options" /\ body.stream # "true")
      /\ body.messages # <<>> /\ \A i \in DOMAIN body.messages : body.messages[i] \in Roles
  BY DEF chat_error
<1>3. m \in Nat \ {0}
  <2>1. body.max_tokens \in Nat \cup {Absent} /\ body.max_completion_tokens \in Nat \cup {Absent}
    BY <1>1 DEF BodyType
  <2> QED
    BY <1>2, <2>1, DefaultAssumption DEF maximum_tokens, WrongKind
<1>4. /\ options.context \in Nat /\ options.maximum_output_tokens \in Nat
      /\ options.maximum_output_tokens <= options.context /\ options.context <= MaximumContext
  BY OptionsAssumption DEF OptionsAccepted
<1>5. /\ chat.maximum_tokens = m /\ chat.usage = (body.include_usage = "true")
      /\ chat.stream = (body.stream = "true")
      /\ chat.roles = [i \in DOMAIN body.messages |->
                         IF body.messages[i] = "developer" THEN "system" ELSE body.messages[i]]
  BY DEF chat_request
<1>6. m <= options.maximum_output_tokens
  <2>1. ~(m > options.maximum_output_tokens)
    BY <1>2 DEF TooMany
  <2> HIDE DEF m
  <2> QED
    BY <1>3, <1>4, <2>1
<1>7. chat.usage => chat.stream
  BY <1>2, <1>5
<1>8. /\ chat.roles # <<>>
      /\ \A i \in DOMAIN chat.roles : chat.roles[i] \in {"system", "user", "assistant"}
  <2>1. body.messages \in Seq(STRING) /\ body.messages # <<>>
    BY <1>1, <1>2 DEF BodyType
  <2>2. 1 \in DOMAIN body.messages
    BY <2>1, EmptySeq, LenProperties
  <2>3. DOMAIN chat.roles = DOMAIN body.messages
    BY <1>5
  <2>4. chat.roles # <<>>
    BY <2>2, <2>3, EmptySeq
  <2> QED
    BY ZenonT(30), <1>2, <1>5, <2>3, <2>4 DEF Roles
<1> HIDE DEF m, body
<1>9. chat.maximum_tokens \in 1..options.maximum_output_tokens
      /\ chat.maximum_tokens <= options.context
  BY <1>3, <1>4, <1>5, <1>6
<1> QED
  BY <1>4, <1>7, <1>8, <1>9 DEF Generates

LEMMA RouteAnswers ==
  ASSUME RequestInv, pc = "route", NEW a \in Replies(asked)
  PROVE  Fits(a, received)
<1>1. /\ asked \in Requests /\ asked.header \in Nat /\ content_length(asked) \in Int
      /\ MaximumHeader \in Nat /\ MaximumBody \in Nat
  BY AskedType, SizesAssumption DEF RequestInv, Handling
<1>2. /\ asked.header <= MaximumHeader /\ header_error(asked) = "none"
      /\ ~(content_length(asked) > MaximumBody)
      /\ received >= asked.header + content_length(asked)
  BY DEF RequestInv, Progress
<1>3. a \in Whole(asked)
  <2>1. ~(asked.header > MaximumHeader)
    BY <1>1, <1>2
  <2> QED
    BY <1>2, <2>1 DEF Whole
<1>4. Status(a) = 200 /\ IsChat(asked) => Generates(asked)
  <2>1. OptionsAccepted /\ options \in Options
    BY TypeParts DEF RequestInv, Accepted, ControlOK
  <2>2. Status(a) = 200 /\ IsChat(asked) =>
          chat_error(asked.body, options.maximum_output_tokens) = "none"
    BY Generating
  <2> QED
    BY <1>1, <2>1, <2>2, ChatPasses
<1>5. Sound(asked) => received >= asked.sends
  BY <1>2 DEF Sound
<1> QED
  BY <1>2, <1>3, <1>4, <1>5 DEF Fits
LEMMA QuietRequest ==
  ASSUME RequestInv, TypeInv', UNCHANGED <<pc, options, client, asks, received, answer>>
  PROVE  RequestInv'
<1>1. Accepted'
  BY DEF RequestInv, Accepted, OptionsAccepted
<1>2. Progress'
  BY DEF RequestInv, Progress, asked
<1>3. AnswerFits'
  BY FitsFrame DEF RequestInv, AnswerFits
<1> QED
  BY <1>1, <1>2, <1>3 DEF RequestInv

(* Between two connections there is nothing to answer.                     *)
LEMMA IdleRequest ==
  ASSUME RequestInv, TypeInv',
         \/ ParseOptions \/ Load \/ listen_socket \/ Publish \/ TestRunning
         \/ AcceptFails \/ Final \/ CloseAtExit \/ CloseClient
  PROVE  RequestInv'
<1>1. /\ pc' \in Locations \ {"headers", "parse", "body", "route", "close"}
      /\ UNCHANGED options
      /\ pc' \notin {"options", "exited"} => OptionsAccepted
  BY DEF ParseOptions, Load, listen_socket, Publish, TestRunning, AcceptFails, Final,
         CloseAtExit, CloseClient, At, Goto, RequestInv, Accepted, Locations
<1>2. Accepted'
  BY <1>1 DEF Accepted, OptionsAccepted
<1>3. Progress'
  BY <1>1 DEF Progress
<1>4. AnswerFits'
  <2>1. answer' = None
    BY <1>1, TypePartsHold DEF AnswerOK
  <2> QED
    BY <2>1 DEF AnswerFits, Fits
<1> QED
  BY <1>2, <1>3, <1>4 DEF RequestInv

LEMMA AcceptRequest ==
  ASSUME RequestInv, TypeInv', Accept
  PROVE  RequestInv'
<1>1. pc = "accept" /\ pc' = "headers" /\ UNCHANGED options /\ received' = 0 /\ answer' = None
  BY DEF Accept, At
<1>2. Accepted'
  BY <1>1 DEF RequestInv, Accepted, OptionsAccepted
<1>3. Progress'
  <2>1. client' \in Clients /\ asks' = asks
    BY <1>1, TypePartsHold DEF ControlOK, Handling, Accept, clientVars
  <2>2. asks[client'] \in Requests
    BY <2>1, AskedType DEF RequestInv
  <2>3. asks[client'].header \in Nat \ {0}
    BY <2>2, RequestsAssumption
  <2>4. asked' = asks[client']
    BY <2>1 DEF asked
  <2>5. received' < (asked').header
    BY <1>1, <2>3, <2>4
  <2> QED
    BY <1>1, <2>5 DEF Progress
<1>4. AnswerFits'
  BY <1>1 DEF AnswerFits, Fits
<1> QED
  BY <1>2, <1>3, <1>4 DEF RequestInv

(* The steps of a connection: which answer they give, and how far they     *)
(* get.                                                                    *)
LEMMA HandlesAnswer ==
  ASSUME RequestInv, Handles
  PROVE  Fits(answer', received')
<1>1. CASE ReadHeaders
  <2>1. CASE answer' \in {Refusal("connection closed"), Refusal("cannot read"), None}
    BY <2>1, NetworkRefusals, Unanswered
  <2>2. CASE answer' = Refusal("headers too long") /\ answer' # None
    <3>1. /\ pc = "headers" /\ received' = received + AtMost(HeaderChunk)
          /\ received' > MaximumHeader \/ answer' = None
          \/ answer' \in {Refusal("connection closed"), Refusal("cannot read"), None}
      BY <1>1, ReadHeadersStep DEF RequestInv
    <3> QED
      BY <2>1, <2>2, <3>1, HeadersTooLong DEF RequestInv, TooLong
  <2> QED
    BY <1>1, <2>1, <2>2, ReadHeadersStep DEF RequestInv
<1>2. CASE ParseHeaders
  BY <1>2, ParseHeadersStep, HeadersRefused, Unanswered DEF RequestInv
<1>3. CASE ReadBody
  BY <1>3, ReadBodyStep, NetworkRefusals, Unanswered DEF RequestInv
<1>4. CASE Route
  BY <1>4, RouteStep, RouteAnswers, Unanswered DEF RequestInv
<1> QED
  BY <1>1, <1>2, <1>3, <1>4 DEF Handles

LEMMA HandlesProgress ==
  ASSUME RequestInv, Handles
  PROVE  Progress'
<1>1. asked' = asked
  BY HandlesStep DEF RequestInv, asked, clientVars
<1>2. asked.header \in Nat /\ MaximumHeader \in Nat /\ received' \in Int
  <2>1. pc \in Handling
    BY HandlesStep DEF RequestInv
  <2> QED
    BY <2>1, HandlesStep, AskedType, SizesAssumption DEF RequestInv
<1>3. CASE ReadHeaders
  <2>1. \/ pc' = "close"
        \/ pc' = "headers" /\ received' < asked.header
        \/ pc' = "parse" /\ received' <= MaximumHeader /\ ~(received' < asked.header)
    BY <1>3, ReadHeadersStep DEF RequestInv
  <2>2. pc' = "parse" => asked.header <= MaximumHeader
    BY <1>2, <2>1
  <2> QED
    BY <1>1, <2>1, <2>2 DEF Progress
<1>4. CASE ParseHeaders
  <2>1. pc = "parse" /\ pc' \in {"body", "close"}
    BY <1>4, ParseHeadersStep DEF RequestInv
  <2>2. pc' = "body" => header_error(asked) = "none" /\ ~(content_length(asked) > MaximumBody)
    BY <1>4, ParseHeadersStep DEF RequestInv
  <2> QED
    BY <1>1, <2>1, <2>2 DEF RequestInv, Progress
<1>5. CASE ReadBody
  <2>1. pc = "body" /\ pc' \in {"body", "route", "close"}
        /\ (pc' = "route" => received' >= asked.header + content_length(asked))
    BY <1>5, ReadBodyStep DEF RequestInv
  <2> QED
    BY <1>1, <2>1 DEF RequestInv, Progress
<1>6. CASE Route
  BY <1>6, RouteStep DEF RequestInv, Progress
<1> QED
  BY <1>3, <1>4, <1>5, <1>6 DEF Handles

LEMMA HandlesRequest ==
  ASSUME RequestInv, TypeInv', Handles
  PROVE  RequestInv'
<1>1. pc \in Handling \ {"close"} /\ pc' \in Handling /\ UNCHANGED <<options, client, asks>>
  BY HandlesStep DEF RequestInv, clientVars
<1>2. Accepted'
  BY <1>1 DEF RequestInv, Accepted, OptionsAccepted, Handling
<1>3. Progress' /\ AnswerFits'
  BY <1>1, HandlesAnswer, HandlesProgress, FitsFrame
<1> QED
  BY <1>2, <1>3 DEF RequestInv

LEMMA RequestStep ==
  ASSUME RequestInv, [Next]_vars
  PROVE  RequestInv'
<1>1. TypeInv'
  BY TypeStep DEF RequestInv
<1>2. CASE Main
  BY <1>1, <1>2, IdleRequest, AcceptRequest, HandlesRequest DEF Main, Handles
<1>3. CASE UNCHANGED <<pc, options, client, asks, received, answer>>
  BY <1>1, <1>3, QuietRequest
<1>4. CASE handle_signal \/ \E s \in Signals : Signal(s)
  <2>1. UNCHANGED <<pc, options, client, asks, received, answer>>
    BY <1>4 DEF handle_signal, Signal, mainVars, clientVars, netVars
  <2> QED
    BY <1>3, <2>1
<1>5. CASE \E c \in Clients : Connect(c) \/ Arrive(c) \/ HangUp(c)
  <2>1. UNCHANGED <<pc, options, client, asks, received, answer>>
    BY <1>5 DEF Connect, Arrive, HangUp, mainVars, clientVars, netVars
  <2> QED
    BY <1>3, <2>1
<1>6. CASE UNCHANGED vars
  BY <1>3, <1>6 DEF vars, mainVars, clientVars, netVars
<1> QED
  BY <1>2, <1>4, <1>5, <1>6 DEF Next, Exited

LEMMA RequestInvariant == Spec => []RequestInv
<1>1. Init => RequestInv
  <2> SUFFICES ASSUME Init PROVE RequestInv
    OBVIOUS
  <2>1. Accepted /\ Progress
    BY DEF Init, Accepted, Progress
  <2>2. AnswerFits
    BY Unanswered DEF Init, AnswerFits
  <2> QED
    BY <2>1, <2>2, InitTypes DEF RequestInv
<1>2. RequestInv /\ [Next]_vars => RequestInv'
  BY RequestStep
<1> QED
  BY <1>1, <1>2, PTL DEF Spec

(* However the network cuts a request, its answer is the one to the whole  *)
(* request, unless the connection failed, or its headers end within a      *)
(* piece of their limit, more bytes follow past it, and they were found    *)
(* too long; no route is taken before the whole body is there, and         *)
(* generate is asked only for what it can do.  (main.cpp:228-328)          *)
THEOREM AnswersFitRequests == Spec => []AnswerIsOfRequest
<1>1. RequestInv => AnswerIsOfRequest
  BY DEF RequestInv, AnswerFits, Fits, AnswerIsOfRequest, Error, Status, IsChat, TooLong
<1> QED
  BY <1>1, RequestInvariant, PTL

(* The answer to a sound request whose headers were taken is not thrown    *)
(* away by a reset: all of it was read when the socket is closed, and      *)
(* nothing more can arrive.  (main.cpp:308-326, 924)                       *)
THEOREM GoodRequestsNotReset == Spec => []GoodRequestNotReset
<1>1. RequestInv => GoodRequestNotReset
  <2>1. SUFFICES ASSUME RequestInv, answer # None, Sound(asked), Error(answer) \notin NetworkErrors,
                        Error(answer) # "headers too long"
                 PROVE  Unread = 0
    BY DEF GoodRequestNotReset, Error, Sound
  <2>2. received >= asked.sends
    BY <2>1 DEF RequestInv, AnswerFits, Fits
  <2>3. pc \in Handling /\ TypeInv
    BY <2>1, TypeParts DEF RequestInv, AnswerOK, Handling
  <2>4. /\ arrived[client] \in Nat /\ arrived[client] <= asked.sends /\ asked.sends \in Nat
        /\ received \in 0..arrived[client]
    BY <2>3, AskedType, TypeParts DEF ReceivedOK
  <2> QED
    BY <2>2, <2>4 DEF Unread
<1> QED
  BY <1>1, RequestInvariant, PTL
------------------------------------------------------------------------------
(* A signal reaches accept *)

(* Where the main thread has last tested running.                          *)
InLoop == {"accept"} \cup Handling

Closes(i) == handlers[i].at = "close"
Forgets(i) == handlers[i].at = "forget"

(* Handlers touch the socket only once it is published; they forget it     *)
(* only when it is closed; and a handler that ends the loop closes it, or  *)
(* finds it closed.                                                        *)
Publishing == pc \in {"options", "load", "listen", "publish"} =>
                ~published /\ \A i \in DOMAIN handlers : ~Closes(i) /\ ~Forgets(i)
Published == /\ pc = "publish" \/ published => listener # "none"
             /\ pc \in InLoop \cup {"test"} => published \/ listener = "closed"
Closing == \A i \in DOMAIN handlers : /\ Closes(i) => listener # "none"
                                      /\ Forgets(i) => listener = "closed"
Ending == pc \in InLoop /\ ~running =>
            listener = "closed" \/ \E i \in DOMAIN handlers : Closes(i)

SignalInv == TypeInv /\ Publishing /\ Published /\ Closing /\ Ending

LEMMA SignalQuiet ==
  ASSUME SignalInv, TypeInv', UNCHANGED <<pc, running, published, listener, handlers>>
  PROVE  SignalInv'
BY DEF SignalInv, Publishing, Published, Closing, Ending, Closes, Forgets

(* The main thread runs only while no handler does.                        *)
LEMMA SignalMain ==
  ASSUME SignalInv, TypeInv', Main
  PROVE  SignalInv'
<1>1. handlers = <<>> /\ handlers' = <<>> /\ running' = running
  <2>1. CASE Handles
    BY <2>1, HandlesStep, ReadHeadersStep, ParseHeadersStep, ReadBodyStep, RouteStep
       DEF SignalInv, Handles, signalVars
  <2>2. CASE ~Handles
    BY <2>2 DEF Main, Handles, ParseOptions, Load, listen_socket, Publish, TestRunning, Accept,
                AcceptFails, Final, CloseAtExit, CloseClient, At, signalVars
  <2> QED
    BY <2>1, <2>2
<1>2. DOMAIN handlers = {} /\ DOMAIN handlers' = {}
  BY <1>1, EmptySeq
<1>3. Closing'
  BY <1>2 DEF Closing
<1>4. /\ pc = "publish" \/ published => listener # "none"
      /\ pc \in InLoop \cup {"test"} => published \/ listener = "closed"
      /\ pc \in {"options", "load", "listen", "publish"} => ~published
      /\ pc \in InLoop /\ ~running => listener = "closed"
  BY <1>2 DEF SignalInv, Published, Publishing, Ending
<1>5. /\ pc' = "publish" \/ published' => listener' # "none"
      /\ pc' \in InLoop \cup {"test"} => published' \/ listener' = "closed"
      /\ pc' \in {"options", "load", "listen", "publish"} => ~published'
      /\ pc' \in InLoop /\ ~running' => listener' = "closed"
  <2>1. CASE ParseOptions \/ Load \/ listen_socket
    BY <1>4, <2>1 DEF ParseOptions, Load, listen_socket, At, Goto, signalVars, InLoop, Handling
  <2>2. CASE Publish \/ TestRunning
    BY <1>4, <2>2 DEF Publish, TestRunning, At, Goto, signalVars, InLoop, Handling
  <2>3. CASE AcceptFails \/ Final
    <3>1. pc' \in {"final", "close listener", "exited"} /\ UNCHANGED signalVars
      BY <2>3 DEF AcceptFails, Final, Goto
    <3> QED
      BY <1>4, <3>1 DEF signalVars, InLoop, Handling
  <2>4. CASE CloseAtExit
    BY <1>4, <2>4 DEF CloseAtExit, CloseListener, At, Goto, InLoop, Handling
  <2>5. CASE Accept
    BY <1>4, <2>5 DEF Accept, At, signalVars, InLoop, Handling
  <2>6. CASE Handles
    <3>1. pc \in Handling /\ pc' \in Handling /\ UNCHANGED signalVars
      BY <2>6, HandlesStep DEF SignalInv
    <3> QED
      BY <1>4, <3>1 DEF signalVars, InLoop, Handling
  <2>7. CASE CloseClient
    BY <1>4, <2>7 DEF CloseClient, At, signalVars, InLoop, Handling
  <2> QED
    BY <2>1, <2>2, <2>4, <2>5, <2>6, <2>7, <2>3 DEF Main, Handles
<1>6. Publishing' /\ Published' /\ Ending'
  BY <1>2, <1>5 DEF Publishing, Published, Ending
<1> QED
  BY <1>3, <1>6 DEF SignalInv

LEMMA SignalArrives ==
  ASSUME SignalInv, TypeInv', NEW s \in Signals, Signal(s)
  PROVE  SignalInv'
<1> DEFINE e == [signal |-> s, at |-> "enter"]
<1>1. UNCHANGED <<pc, running, published, listener>> /\ handlers' = <<e>> \o handlers
  BY DEF Signal, mainVars
<1>2. handlers \in Seq(HandlerType) /\ Len(handlers) \in Nat
  BY TypeParts, LenProperties DEF SignalInv, SignalsOK
<1>3. /\ Len(handlers') = Len(handlers) + 1 /\ handlers'[1] = e
      /\ \A i \in 1..Len(handlers) : handlers'[i + 1] = handlers[i]
      /\ DOMAIN handlers' = 1..Len(handlers') /\ DOMAIN handlers = 1..Len(handlers)
  <2>1. e \in HandlerType
    BY DEF HandlerType
  <2> HIDE DEF e
  <2>2. <<e>> \in Seq(HandlerType) /\ Len(<<e>>) = 1 /\ <<e>>[1] = e
    BY <2>1
  <2>3. /\ <<e>> \o handlers \in Seq(HandlerType)
        /\ Len(<<e>> \o handlers) = 1 + Len(handlers)
        /\ \A i \in 1..(1 + Len(handlers)) :
             (<<e>> \o handlers)[i] = IF i <= 1 THEN <<e>>[i] ELSE handlers[i - 1]
    BY <1>2, <2>2, ConcatProperties
  <2>4. 1 \in 1..(1 + Len(handlers))
        /\ \A i \in 1..Len(handlers) : i + 1 \in 1..(1 + Len(handlers)) /\ ~(i + 1 <= 1)
                                       /\ (i + 1) - 1 = i
    BY <1>2
  <2>5. /\ DOMAIN (<<e>> \o handlers) = 1..Len(<<e>> \o handlers)
        /\ DOMAIN handlers = 1..Len(handlers)
    BY <1>2, <2>3, LenProperties
  <2>6. (<<e>> \o handlers)[1] = e
    BY <2>2, <2>3, <2>4
  <2>7. \A i \in 1..Len(handlers) : (<<e>> \o handlers)[i + 1] = handlers[i]
    BY <2>3, <2>4
  <2> QED
    BY <1>1, <1>2, <2>3, <2>5, <2>6, <2>7
<1>4. ASSUME NEW j \in DOMAIN handlers', j # 1
      PROVE  j - 1 \in DOMAIN handlers /\ handlers'[j] = handlers[j - 1]
  <2>1. j \in 1..(Len(handlers) + 1)
    BY <1>3
  <2>2. j - 1 \in 1..Len(handlers) /\ (j - 1) + 1 = j
    BY <1>2, <1>4, <2>1
  <2> QED
    BY <1>3, <2>2
<1>5. \A j \in DOMAIN handlers' : /\ Closes(j)' => j - 1 \in DOMAIN handlers /\ Closes(j - 1)
                                  /\ Forgets(j)' => j - 1 \in DOMAIN handlers /\ Forgets(j - 1)
  <2>1. e.at = "enter"
    OBVIOUS
  <2> HIDE DEF e
  <2> QED
    BY <1>3, <1>4, <2>1 DEF Closes, Forgets
<1>6. \A i \in DOMAIN handlers : Closes(i) => i + 1 \in DOMAIN handlers' /\ Closes(i + 1)'
  BY <1>2, <1>3 DEF Closes
<1>7. Publishing'
  BY <1>1, <1>5 DEF SignalInv, Publishing
<1>8. Published'
  BY <1>1 DEF SignalInv, Published
<1>9. Closing'
  BY <1>1, <1>5 DEF SignalInv, Closing
<1>10. Ending'
  BY <1>1, <1>6 DEF SignalInv, Ending
<1> QED
  BY <1>7, <1>8, <1>9, <1>10 DEF SignalInv

(* What a handler leaves of the handlers it interrupted.                   *)
LEMMA SignalHandled ==
  ASSUME SignalInv, TypeInv', handle_signal
  PROVE  SignalInv'
<1>1. TypeInv /\ handlers # <<>> /\ pc' = pc
  BY HandlerStep DEF SignalInv, mainVars
<1>2. /\ Len(handlers) \in Nat \ {0} /\ Head(handlers) = handlers[1]
      /\ DOMAIN handlers = 1..Len(handlers) /\ handlers[1] \in HandlerType
  BY <1>1, HandlersShrink, TypeParts, LenProperties DEF SignalsOK
<1>3. ASSUME Return
      PROVE  \A j \in DOMAIN handlers' : j + 1 \in DOMAIN handlers
                                         /\ handlers'[j] = handlers[j + 1]
  <2>1. /\ handlers' \in Seq(HandlerType) /\ Len(handlers') = Len(handlers) - 1
        /\ \A i \in 1..Len(handlers') : handlers'[i] = handlers[i + 1]
    BY <1>1, <1>3, HandlersShrink
  <2>2. DOMAIN handlers' = 1..Len(handlers') /\ Len(handlers') \in Nat
    BY <2>1, LenProperties
  <2> QED
    BY <1>2, <2>1, <2>2
<1>4. ASSUME NEW there \in {"close", "forget"}, Step(there)
      PROVE  /\ DOMAIN handlers' = DOMAIN handlers /\ handlers'[1].at = there
             /\ \A i \in DOMAIN handlers : i # 1 => handlers'[i] = handlers[i]
  <2>1. /\ handlers' \in Seq(HandlerType) /\ Len(handlers') = Len(handlers)
        /\ handlers'[1].at = there
        /\ \A i \in 2..Len(handlers) : handlers'[i] = handlers[i]
    BY <1>1, <1>4, HandlersShrink
  <2>2. DOMAIN handlers' = 1..Len(handlers')
    BY <2>1, LenProperties
  <2> QED
    BY <1>2, <2>1, <2>2
<1>5. ASSUME Head(handlers).at = "enter", running' = FALSE, UNCHANGED <<published, listener>>,
             IF published THEN Step("close") ELSE Return
      PROVE  Publishing' /\ Published' /\ Closing' /\ Ending'
  <2>1. CASE published
    <3>1. pc \notin {"options", "load", "listen", "publish"} /\ listener # "none"
      BY <2>1 DEF SignalInv, Publishing, Published
    <3>2. /\ DOMAIN handlers' = DOMAIN handlers /\ handlers'[1].at = "close"
          /\ \A i \in DOMAIN handlers : i # 1 => handlers'[i] = handlers[i]
      BY <1>4, <1>5, <2>1
    <3>3. 1 \in DOMAIN handlers' /\ Closes(1)' /\ ~Forgets(1)'
      BY <1>2, <3>2 DEF Closes, Forgets
    <3>4. Publishing' /\ Published'
      BY <1>1, <1>5, <3>1 DEF SignalInv, Publishing, Published
    <3>5. Closing'
      BY <1>5, <3>1, <3>2, <3>3 DEF SignalInv, Closing, Closes, Forgets
    <3>6. Ending'
      BY <3>3 DEF Ending
    <3> QED
      BY <3>4, <3>5, <3>6
  <2>2. CASE ~published
    <3>1. \A j \in DOMAIN handlers' : j + 1 \in DOMAIN handlers /\ handlers'[j] = handlers[j + 1]
      BY <1>3, <1>5, <2>2
    <3>2. Publishing' /\ Published' /\ Closing'
      BY <1>1, <1>5, <3>1 DEF SignalInv, Publishing, Published, Closing, Closes, Forgets
    <3>3. Ending'
      BY <1>1, <1>5, <2>2 DEF SignalInv, Published, Ending
    <3> QED
      BY <3>2, <3>3
  <2> QED
    BY <2>1, <2>2
<1>6. ASSUME Head(handlers).at = "close", CloseListener, Step("forget"),
             UNCHANGED <<running, published>>
      PROVE  Publishing' /\ Published' /\ Closing' /\ Ending'
  <2>1. 1 \in DOMAIN handlers /\ Closes(1)
    BY <1>2, <1>6 DEF Closes
  <2>2. pc \notin {"options", "load", "listen", "publish"} /\ listener # "none"
    BY <2>1 DEF SignalInv, Publishing, Closing
  <2>3. listener' = "closed"
    BY <1>1, <1>6, <2>2, TypeParts DEF CloseListener, SignalsOK
  <2> QED
    BY <1>1, <2>2, <2>3 DEF SignalInv, Publishing, Published, Closing, Ending
<1>7. ASSUME Head(handlers).at = "forget", published' = FALSE, Return,
             UNCHANGED <<running, listener>>
      PROVE  Publishing' /\ Published' /\ Closing' /\ Ending'
  <2>1. 1 \in DOMAIN handlers /\ Forgets(1)
    BY <1>2, <1>7 DEF Forgets
  <2>2. pc \notin {"options", "load", "listen", "publish"} /\ listener = "closed"
    BY <2>1 DEF SignalInv, Publishing, Closing
  <2> QED
    BY <1>1, <1>7, <2>2 DEF SignalInv, Publishing, Published, Closing, Ending
<1> QED
  BY <1>1, <1>5, <1>6, <1>7, HandlerStep DEF SignalInv

LEMMA SignalStep ==
  ASSUME SignalInv, [Next]_vars
  PROVE  SignalInv'
<1>1. TypeInv'
  BY TypeStep DEF SignalInv
<1>2. CASE Main
  BY <1>1, <1>2, SignalMain
<1>3. CASE handle_signal
  BY <1>1, <1>3, SignalHandled
<1>4. CASE \E s \in Signals : Signal(s)
  BY <1>1, <1>4, SignalArrives
<1>5. CASE UNCHANGED <<pc, running, published, listener, handlers>>
  BY <1>1, <1>5, SignalQuiet
<1>6. CASE \E c \in Clients : Connect(c) \/ Arrive(c) \/ HangUp(c)
  BY <1>5, <1>6 DEF Connect, Arrive, HangUp, mainVars, signalVars
<1>7. CASE UNCHANGED vars
  BY <1>5, <1>7 DEF vars, mainVars, signalVars
<1> QED
  BY <1>2, <1>3, <1>4, <1>6, <1>7 DEF Next, Exited

(* The safety half of SignalEnds: whenever signals come and however their  *)
(* handlers interrupt each other, once all have returned the loop does not *)
(* wait in accept on a socket that is still open.                          *)
AcceptNotStuck == pc = "accept" /\ ~running /\ handlers = <<>> => listener = "closed"

THEOREM SignalsReachAccept == Spec => []AcceptNotStuck
<1>1. Init => SignalInv
  <2> SUFFICES ASSUME Init PROVE SignalInv
    OBVIOUS
  <2>1. DOMAIN handlers = {}
    BY EmptySeq DEF Init
  <2> QED
    BY <2>1, InitTypes
       DEF Init, SignalInv, Publishing, Published, Closing, Ending, InLoop, Handling
<1>2. SignalInv /\ [Next]_vars => SignalInv'
  BY SignalStep
<1>3. SignalInv => AcceptNotStuck
  <2>1. DOMAIN <<>> = {}
    BY EmptySeq
  <2> QED
    BY <2>1 DEF SignalInv, Ending, InLoop, AcceptNotStuck
<1> QED
  BY <1>1, <1>2, <1>3, PTL DEF Spec
=============================================================================
