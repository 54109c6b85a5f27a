------------------------------ MODULE MCServer -------------------------------
(* Sizes are scaled: pieces of 2 bytes, headers of up to 3, bodies of up   *)
(* to 2.  A header of 3 with a body of 1 passes or not as it is cut.       *)
EXTENDS Server

Line(name, value) == [name |-> name, value |-> value]
NoBody == [object |-> FALSE]

Chat == [object |-> TRUE, model |-> "served", max_tokens |-> Absent,
         max_completion_tokens |-> Absent, stream |-> "absent",
         include_usage |-> "no options", greedy |-> TRUE, single |-> TRUE,
         unsupported |-> FALSE, messages |-> <<"developer", "user">>]

Request(route, header, lines, body, extra) ==
  [route |-> route, header |-> header, lines |-> lines, body |-> body,
   sends |-> header + extra]

Post == "POST /v1/chat/completions"
Lengths(n) == <<Line("content-length", n)>>

(* Every way a chat body can be right or wrong.                            *)
ChatBodies ==
  {NoBody, [Chat EXCEPT !.model = "other"],
   [Chat EXCEPT !.max_tokens = 3], [Chat EXCEPT !.max_tokens = WrongKind],
   [Chat EXCEPT !.max_completion_tokens = 1],
   [Chat EXCEPT !.max_completion_tokens = 3],
   [Chat EXCEPT !.stream = "true", !.include_usage = "true"],
   [Chat EXCEPT !.include_usage = "true"],
   [Chat EXCEPT !.greedy = FALSE], [Chat EXCEPT !.messages = <<"tool">>]}
ChatRequests == {Request(Post, 1, Lengths(1), body, 1) : body \in ChatBodies}

(* Every way the bytes of a request can be cut, short or too many.         *)
CutRequests ==
  {Request("GET /health", 2, <<>>, NoBody, 0),
   Request(Post, 2, Lengths(2), Chat, 2),
   Request(Post, 3, Lengths(1), Chat, 1),
   Request(Post, 4, <<>>, Chat, 0),
   Request(Post, 1, Lengths(2), Chat, 1),
   Request(Post, 1, Lengths(1), Chat, 2),
   Request(Post, 1, Lengths(3), Chat, 1),
   Request("DELETE /v1", 1, Lengths(1) \o Lengths(2), NoBody, 2),
   Request(Post, 1, Lengths(-1), Chat, 1),
   Request(Post, 1, <<Line("none", ""), Line("transfer-encoding", "chunked")>>, Chat, 0),
   Request(Post, 1, <<Line("transfer-encoding", "chunked")>>, Chat, 1),
   Request("malformed", 1, <<>>, NoBody, 0)}

PlainChat == Request(Post, 1, Lengths(1), Chat, 1)
MCRequests == CutRequests \cup ChatRequests \cup {PlainChat}
First == CHOOSE c \in Clients : TRUE
(* The first client takes every request, the others a plain chat.          *)
MCScripts ==
  {[c \in Clients |-> IF c = First THEN r ELSE PlainChat] : r \in MCRequests}

MCOptions ==
  {[wellformed |-> TRUE, context |-> 3, maximum_output_tokens |-> 2, drafts |-> 4],
   [wellformed |-> TRUE, context |-> 2, maximum_output_tokens |-> 3, drafts |-> 4]}
=============================================================================
