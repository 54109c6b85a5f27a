------------------------------- MODULE MCConvert -------------------------------
(* Two fragments of 32 codes per group, tiles of two rows; a model of two  *)
(* MLP layers, an embedding, an LM head of eight rows and a norm, in two   *)
(* shards with a vision tensor; six tokens, of which three are special,    *)
(* and a draft head of four.                                               *)
EXTENDS Convert

MCShape == [embed |-> <<4, 64>>, gate0 |-> <<2, 128>>, gate1 |-> <<4, 64>>,
            lm_head |-> <<8, 64>>, norm |-> <<64>>, visual |-> <<3>>]
MCMlpLayer == [gate0 |-> 0, gate1 |-> 1]
MCModelNames == <<"embed", "gate0", "gate1", "lm_head", "norm">>
MCSpecials == <<2, 4, 5>>
MCResources == <<"merges.txt", "tokenizer.json">>

BytesOf(name) == Product(MCShape[name], 2)
Tensor(name, begin) ==
  [name |-> name, dtype |-> "bf16", shape |-> MCShape[name],
   begin |-> begin, end |-> begin + BytesOf(name)]

(* The tensors of a shard one behind the other.                            *)
Shard(list) ==
  LET begin(n) == Sum([k \in 1..n - 1 |-> BytesOf(list[k])])
  IN [wellformed |-> TRUE, header_bytes |-> 20,
      nonfinite |-> {}, bytes |-> 28 + Sum([k \in DOMAIN list |-> BytesOf(list[k])]),
      tensors |-> [n \in DOMAIN list |-> Tensor(list[n], begin(n))]]

First == <<"norm", "embed", "lm_head">>
Second == <<"visual", "gate1", "gate0">>
Files == [a |-> Shard(First), b |-> Shard(Second)]
Map(a, b) == [n \in DOMAIN a |-> <<a[n], "a">>] \o [n \in DOMAIN b |-> <<b[n], "b">>]
Index(pairs) ==
  [wellformed |-> TRUE, weight_map |-> pairs,
   total_size |-> Sum([n \in DOMAIN pairs |-> BytesOf(pairs[n][1])])]

Disk(index_file, files, merges, counts) ==
  [index |-> index_file, files |-> files, ranking |-> counts,
   resources |-> ("merges.txt" :> merges @@ "tokenizer.json" :> 3)]

Counts == {c \in [0..5 -> 0..1] : c[0] = 0}
Flat == [t \in 0..5 |-> 0]
Good == Disk(Index(Map(First, Second)), Files, 2, Flat)

(* The same model in other shards, and with an overlap, a shape, a type, a *)
(* size or a place that is wrong.                                          *)
Moved == Disk(Index(Map(<<"norm", "embed">>, <<"visual", "gate1", "gate0", "lm_head">>)),
              [a |-> Shard(<<"norm", "embed">>),
               b |-> Shard(<<"visual", "gate1", "gate0", "lm_head">>)], 4, Flat)
Misplaced == [Good EXCEPT !.index = Index(Map(<<"norm", "embed", "gate1">>,
                                              <<"visual", "lm_head", "gate0">>))]
Twice == [Good EXCEPT !.files["b"] = Shard(<<"visual", "gate1", "gate0", "norm">>)]
Reshaped == [Good EXCEPT !.files["a"].tensors[2].shape = <<2, 128>>]
Typed == [Good EXCEPT !.files["a"].tensors[1].dtype = "f16"]
Overlapping == [Good EXCEPT !.files["a"].tensors[1].begin = 100, !.files["a"].tensors[1].end = 228]
Short == [Good EXCEPT !.files["b"].bytes = 400]
Unsafe == [Good EXCEPT !.index.weight_map[1][2] = "../a"]
Partial == [Good EXCEPT !.index.weight_map = Tail(@)]
NoMerges == [Good EXCEPT !.resources["merges.txt"] = 0]
Longer == [Good EXCEPT !.resources["merges.txt"] = 5]
Unranked == [Good EXCEPT !.ranking = NoRanking]

(* Weights that are not finite: in the first or last rows of matrices, and *)
(* where nothing is quantized.                                             *)
NotFinite(shard, name, row_number) ==
  [Good EXCEPT !.files[shard].nonfinite = {<<name, row_number>>}]
NotFinites == {NotFinite("b", "gate0", 0), NotFinite("a", "embed", 3), NotFinite("a", "lm_head", 4),
               NotFinite("a", "norm", 0), NotFinite("b", "visual", 0)}

MCDisks == {Moved, Misplaced, Twice, Reshaped, Typed, Overlapping, Short, Unsafe, Partial,
            NoMerges, Longer, Unranked} \cup NotFinites \cup {[Good EXCEPT !.ranking = c] : c \in Counts}
MCReplacements == {Good, Moved, Reshaped, Short, NoMerges, Longer, Unranked, NotFinite("a", "embed", 0)}

Option(rank, chunk, mlp, head) ==
  [ranked |-> rank, plan_only |-> FALSE, chunk_rows |-> chunk, mlp_bits |-> mlp,
   output_head_bits |-> head, w3_start_layer |-> 0, w4_tail_layers |-> 0]
MCOptions ==
  {Option(TRUE, 2, 2, 4), Option(TRUE, 4, 3, 3), Option(FALSE, 3, 2, 2), Option(TRUE, 3, 2, 4),
   [Option(FALSE, 4, 3, 4) EXCEPT !.w3_start_layer = 1],
   [Option(FALSE, 4, 3, 4) EXCEPT !.w4_tail_layers = 1], Option(FALSE, 2, 4, 4),
   [Option(FALSE, 4, 2, 4) EXCEPT !.plan_only = TRUE],
   [Option(FALSE, 4, 2, 4) EXCEPT !.w4_tail_layers = 3], Option(FALSE, 5, 2, 4)}
=============================================================================
