----------------------------- MODULE MCGenerate -----------------------------
(* Generate with a vocabulary of five tokens: a letter, the two halves of a *)
(* character, a stray continuation byte behind a letter, and the terminal   *)
(* token.  The target model's answer depends on all tokens of the history   *)
(* and their places.                                                        *)
EXTENDS Generate

MCToken == {"letter", "lead", "tail", "stray", "end"}
MCTerminal == {"end"}

MCPiece(t) ==
  CASE t = "letter" -> <<"ascii">>
    [] t = "lead" -> <<"ascii", "lead3", "continuation">>
    [] t = "tail" -> <<"continuation">>
    [] t = "stray" -> <<"ascii", "continuation">>
    [] t = "end" -> <<>>

Number(t) ==
  CASE t = "letter" -> 0 [] t = "lead" -> 1 [] t = "tail" -> 2
    [] t = "stray" -> 3 [] t = "end" -> 4

MCTarget(h) ==
  LET sum[n \in 0..Len(h)] ==
        IF n = 0 THEN 0 ELSE (3 * sum[n - 1] + n * Number(h[n]) + n) % 11
  IN CASE sum[Len(h)] \in {0, 1, 2} -> "letter" [] sum[Len(h)] \in {3, 4} -> "lead"
       [] sum[Len(h)] \in {5, 6, 7} -> "tail" [] sum[Len(h)] \in {8, 9} -> "stray"
       [] OTHER -> "end"

Prompts == UNION {[1..n -> MCToken] : n \in 1..3}

MCRequests ==
  {r \in [prompt : Prompts, maximum_tokens : 1..5,
          stream : BOOLEAN, usage : BOOLEAN] : r.usage => r.stream}
=============================================================================
