------------------------------ MODULE MCTokenizer ------------------------------
(* Six bytes: a space (0), the letters a (1) and b (2), a mark (3), a      *)
(* letter with this mark (4) and < (5); 0, 3 and 4 have substitutes.       *)
EXTENDS Tokenizer

MCClass == [b \in 0..5 |-> CASE b = 0 -> "S" [] b = 5 -> "P" [] OTHER -> "L"]
MCCompose == <<1, 3>> :> 4

A == <<1>>  B == <<2>>  AA == <<1, 1>>  AB == <<1, 2>>  BA == <<2, 1>>  AAB == <<1, 1, 2>>
AAA == <<1, 1, 1>>  SA == <<6, 1>>

Contents == <<<<6>>, A, B, <<7>>, <<8>>, <<5>>, AA, AB, BA, AAB, AAA, SA, <<1, 1, 1, 1>>>>
Vocab == [n \in DOMAIN Contents |-> [content |-> Contents[n], id |-> n - 1]]

(* Added tokens: <a, <aa and aa<, the first two the same up to a point.    *)
Added(n, content) == [content |-> content, id |-> n]
AddedTokens == <<Added(13, <<5, 1>>), Added(14, <<5, 1, 1>>), Added(15, <<1, 1, 5>>)>>

Merges == {<<A, A>>, <<A, B>>, <<B, A>>, <<AA, B>>, <<A, AB>>, <<AA, A>>, <<AA, AA>>, <<<<6>>, A>>}
MergeLists == {<<m, n, o>> : m, n, o \in Merges} \cup {<<m, n>> : m, n \in Merges} \cup {<<>>}

Json(vocab, added, merges) == [vocab |-> vocab, added_tokens |-> added, merges |-> merges]
Good == Json(Vocab, AddedTokens, <<<<A, A>>, <<AA, A>>>>)
Bad == {[Good EXCEPT !.vocab[2].id = 0], [Good EXCEPT !.vocab[2].id = 16],
        [Good EXCEPT !.added_tokens[1].id = 16], [Good EXCEPT !.added_tokens = Tail(@)],
        [Good EXCEPT !.merges[1][2] = <<>>], [Good EXCEPT !.merges[1] = <<B, B>>],
        [Good EXCEPT !.added_tokens[2].content = A],
        [Good EXCEPT !.added_tokens[1] = Added(9, <<5, 1>>), !.vocab[10] = [content |-> AAB, id |-> 13]]}
MCJsons == {Json(Vocab, AddedTokens, merges) : merges \in MergeLists} \cup Bad

MCTexts ==
  {<<1, 1, 1, 1, 1>>, <<1, 2, 1, 1, 2>>, <<2, 1, 1, 2, 1>>, <<1, 1, 2, 1, 1>>, <<2, 2, 1>>,
   <<0, 1, 1, 1>>, <<0, 0, 1, 2>>, <<1, 0, 0>>, <<1, 3, 1, 1>>, <<4, 1, 3>>, <<5, 5, 1>>,
   <<1, 5, 1, 1, 5, 3>>, <<1, 1, 5, 1, 1>>, <<5, 1, 1, 1, 5, 1>>, <<0, 5, 0>>, <<>>}
=============================================================================
