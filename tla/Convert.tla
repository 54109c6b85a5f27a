-------------------------------- MODULE Convert --------------------------------
(***************************************************************************)
(* convert_qwen38 (src/converter.cpp): from the checkpoint of a directory  *)
(* to an installed artifact.  The directory is validated first and read    *)
(* again, and somebody may replace it meanwhile; every call on files can   *)
(* fail.  The temporary file of the writer is not seen here (it is in      *)
(* ArtifactStream): an error return drops what was written.                *)
(*                                                                         *)
(* A plane is the sequence of the things appended to it: for a low-bit     *)
(* matrix its fragments <<tensor, row, group, k_tile>> and its scales      *)
(* <<tensor, row, group>>, for another tensor or a resource its name.  Of  *)
(* the weights only this matters, whether they are finite: nonfinite of a  *)
(* shard is the set of <<tensor, row>> that hold one that is not.          *)
(***************************************************************************)
EXTENDS Lowbit, SafeTensors

CONSTANTS
  Disks,         \* what the directory may hold
  Replacements,  \* what it may hold later
  Options,       \* the options of the calls
  LayerCount,    \* 64
  MlpLayer,      \* the layer of a tensor of an MLP of a numbered layer
  ModelNames,    \* the names of qwen38_source_tensor_names(false, true), sorted
  DraftRows,     \* kDraftHeadRows: 98304
  Tokens,        \* tokenizer_vocabulary_size: 248077
  Specials,      \* required_special_tokens, ascending
  Resources,     \* the names of the resources
  MaxChunk,      \* 4096
  NoRanking

ASSUME ConvertAssumption ==
  /\ DraftRows \in Nat /\ Tokens \in Nat /\ DraftRows <= Tokens
  /\ DraftRows % TileRows = 0
  /\ Specials \in Seq(0..Tokens - 1) /\ Len(Specials) <= DraftRows
  /\ \A i, j \in DOMAIN Specials : i < j => Specials[i] < Specials[j]
  /\ ModelNames \in Seq(STRING) /\ Range(ModelNames) = qwen38_source_tensor_names(FALSE)
  /\ Resources \in Seq(STRING)
(* The LM head has a row for every token, and whole tiles and groups.      *)
ASSUME HeadAssumption ==
  /\ "lm_head" \in qwen38_source_tensor_names(FALSE) /\ Len(Shape["lm_head"]) = 2
  /\ Tokens <= Shape["lm_head"][1] /\ Shape["lm_head"][2] % kGroupSize = 0
ASSUME OptionsAssumption ==
  \A o \in Options : o.chunk_rows \in Nat /\ o.ranked \in BOOLEAN /\ o.plan_only \in BOOLEAN
(* The embedding is not a tensor of an MLP: its name has no .mlp. in it.   *)
ASSUME EmbedAssumption == "embed" \notin DOMAIN MlpLayer
(* What may be in a directory: files of sizes, rankings of numbers.        *)
ASSUME DisksAssumption ==
  \A d \in Disks \cup Replacements :
    /\ d.index.weight_map \in Seq(STRING \X STRING)
    /\ \A s \in DOMAIN d.files : /\ d.files[s].tensors \in Seq(SourceTensors)
                                 /\ d.files[s].nonfinite \subseteq STRING \X Nat
    /\ d.resources \in [Range(Resources) -> Nat]
    /\ d.ranking # NoRanking => d.ranking \in [0..Tokens - 1 -> Int]

VARIABLES
  disk,      \* the directory
  changed,   \* history: it was replaced during the call
  options,
  pc,
  index,     \* the index as it was loaded for the conversion
  shards,    \* the shards as they were mapped for it
  plan,      \* the items
  item,      \* item being written
  row,       \* first row of the next chunk of it
  planes,    \* what was appended to the data and auxiliary planes
  output,    \* the artifact at output_path
  result     \* "none" while the call runs, "ok" or the kind of error

fileVars == <<disk, changed>>
sourceVars == <<options, index, shards, plan>>
writerVars == <<item, row, planes>>
vars == <<fileVars, sourceVars, writerVars, pc, output, result>>

(* What is at output_path before is not looked at.                         *)
Old == [weights_id |-> "old", recipe_id |-> "old", entries |-> <<>>, planes |-> <<>>]

Init ==
  /\ disk \in Disks /\ changed = FALSE
  /\ options \in Options
  /\ pc = "options"
  /\ index = disk.index /\ shards = <<>> /\ plan = <<>>
  /\ item = 1 /\ row = 0 /\ planes = <<>>
  /\ output = Old /\ result = "none"

Goto(label) == pc' = label
Return(kind) == pc' = "returned" /\ result' = kind
(* A call on a file or the file system that fails.                         *)
IoFails == Return("io")

Replace ==
  /\ pc # "returned" /\ ~changed
  /\ disk' \in Replacements \ {disk} /\ changed' = TRUE
  /\ UNCHANGED <<sourceVars, writerVars, pc, output, result>>

------------------------------------------------------------------------------
(* Options and sources *)

ranked(o) == o.ranked

options_valid(o) ==
  /\ o.chunk_rows # 0 /\ o.chunk_rows <= MaxChunk
  /\ o.mlp_bits \in {2, 3, 4} /\ o.output_head_bits \in {2, 3, 4}
  /\ o.w3_start_layer <= LayerCount /\ o.w4_tail_layers <= LayerCount
  /\ ranked(o) => o.chunk_rows % TileRows = 0

CheckOptions ==
  /\ pc = "options"
  /\ IF options_valid(options) THEN Goto("validate") /\ UNCHANGED result
     ELSE Return("invalid")
  /\ UNCHANGED <<fileVars, sourceVars, writerVars, output>>

Validate ==
  /\ pc = "validate"
  /\ \/ IF validate_qwen38_model_directory(disk.index, disk.files)
        THEN Goto("index") /\ UNCHANGED result
        ELSE Return("invalid source")
     \/ IoFails
  /\ UNCHANGED <<fileVars, sourceVars, writerVars, output>>

LoadIndex ==
  /\ pc = "index"
  /\ \/ IF index_valid(disk.index)
        THEN index' = disk.index /\ Goto("shards") /\ UNCHANGED result
        ELSE Return("source") /\ UNCHANGED index
     \/ IoFails /\ UNCHANGED index
  /\ UNCHANGED <<fileVars, options, shards, plan, writerVars, output>>

(* The next shard by name is opened and mapped.                            *)
OpenShard ==
  /\ pc = "shards"
  /\ LET left == shard_names(index) \ DOMAIN shards IN
     IF left = {} THEN Goto("plan") /\ UNCHANGED <<shards, result>>
     ELSE LET s == CHOOSE x \in left : TRUE IN
          \/ IF s \in DOMAIN disk.files /\ shard_valid(disk.files[s])
             THEN /\ shards' = [x \in DOMAIN shards \cup {s} |->
                                  IF x = s THEN disk.files[s] ELSE shards[x]]
                  /\ UNCHANGED <<pc, result>>
             ELSE Return("source") /\ UNCHANGED shards
          \/ IoFails /\ UNCHANGED shards
  /\ UNCHANGED <<fileVars, options, index, plan, writerVars, output>>

------------------------------------------------------------------------------
(* The plan *)

is_early_mlp(name, w4_tail_layers) ==
  name \in DOMAIN MlpLayer /\ MlpLayer[name] < LayerCount - w4_tail_layers

head_format(o) ==
  CASE o.output_head_bits = 2 -> "w2" [] o.output_head_bits = 3 -> "w3" [] OTHER -> "w4"

choose_quantization(name, shape, o) ==
  IF Len(shape) # 2 \/ shape[1] % TileRows # 0 \/ shape[2] % kGroupSize # 0 THEN "none"
  ELSE IF name = "lm_head" THEN head_format(o)
  ELSE IF ~is_early_mlp(name, o.w4_tail_layers) \/ o.mlp_bits = 4 THEN "w4"
  ELSE IF o.mlp_bits = 3 /\ MlpLayer[name] >= o.w3_start_layer THEN "w3"
  ELSE "w2"

(* A descriptor of the mapped shards, if there is one.                     *)
Available(name) ==
  LET map == weight_map(index) IN
  name \in DOMAIN map /\ name \in names(shards[map[name]])
Descriptor(name) == find(shards[weight_map(index)[name]], name)
bf16_available(name) == Available(name) /\ Descriptor(name).dtype = "bf16"

Matrix(name, source, format, shape, kind, rows) ==
  [name |-> name, source |-> source, kind |-> kind, format |-> format,
   rows |-> shape[1], groups |-> shape[2] \div kGroupSize, selected_rows |-> rows,
   data_bytes |-> shape[1] * packed_row_bytes(format, shape[2]),
   aux_bytes |-> 2 * shape[1] * (shape[2] \div kGroupSize)]
Other(name, kind, rows, data_bytes) ==
  [name |-> name, source |-> name, kind |-> kind, format |-> "none", rows |-> 0,
   groups |-> 0, selected_rows |-> rows, data_bytes |-> data_bytes, aux_bytes |-> 0]

TensorItem(name) ==
  LET t == Descriptor(name)
      format == choose_quantization(name, t.shape, options)
  IN IF format = "none" THEN Other(name, "tensor", <<>>, t.end - t.begin)
     ELSE Matrix(name, name, format, t.shape, "matrix", <<>>)

better(counts, left, right) ==
  counts[left] > counts[right] \/ (counts[left] = counts[right] /\ left < right)

(* Fault: any row may go.                                                  *)
replace_last_rows(ranked_rows) ==
  LET step(state, token) ==
        IF token \in Range(ranked_rows) THEN state
        ELSE [rows |-> [state.rows EXCEPT ![state.replacement] = token],
              replacement |-> state.replacement - 1]
  IN FoldLeft(step, [rows |-> ranked_rows, replacement |-> Len(ranked_rows)],
              Specials).rows

(* The special tokens that are not among the rows take the places of other *)
(* rows, from the last one back.                                           *)
replace_rows(ranked_rows) ==
  LET place(rows, replacement) ==   \* the next row that may go, 0 if none
        Max({0} \cup {n \in 1..replacement : rows[n] \notin Range(Specials)})
      step(state, token) ==
        IF token \in Range(ranked_rows) THEN state
        ELSE LET n == place(state.rows, state.replacement)
             IN [rows |-> IF n = 0 THEN state.rows ELSE [state.rows EXCEPT ![n] = token],
                 replacement |-> IF n = 0 THEN 0 ELSE n - 1]
  IN FoldLeft(step, [rows |-> ranked_rows, replacement |-> Len(ranked_rows)],
              Specials).rows

(* Rows, which are distinct, in the order of better: before the n-th are   *)
(* n - 1 better ones.                                                      *)
sorted(rows, counts) ==
  LET before(i) == {j \in DOMAIN rows : better(counts, rows[j], rows[i])}
  IN [n \in DOMAIN rows |-> rows[CHOOSE i \in DOMAIN rows : Cardinality(before(i)) = n - 1]]

select_draft_head_rows(counts) ==
  LET all == [n \in 1..Tokens |-> n - 1]
  IN sorted(replace_rows(SubSeq(sorted(all, counts), 1, DraftRows)), counts)

head_available ==
  /\ Available("lm_head")
  /\ Descriptor("lm_head").shape = Shape["lm_head"]

DraftItems(rows) ==
  <<Matrix("mtp.draft_head.weight", "lm_head", head_format(options),
           <<DraftRows, Shape["lm_head"][2]>>, "draft_head", rows),
    Other("mtp.draft_head_token_ids", "draft_token_ids", rows, 4 * DraftRows)>>

make_plan ==
  [n \in DOMAIN ModelNames |-> TensorItem(ModelNames[n])]
  \o (IF ranked(options) THEN DraftItems(select_draft_head_rows(disk.ranking)) ELSE <<>>)
  \o [n \in DOMAIN Resources |->
        Other(Resources[n], "resource", <<>>, disk.resources[Resources[n]])]

MakePlan ==
  /\ pc = "plan"
  /\ IF \E name \in Range(ModelNames) : ~bf16_available(name)
     THEN Return("source") /\ UNCHANGED plan
     ELSE IF ranked(options) /\ disk.ranking = NoRanking
     THEN Return("ranking") /\ UNCHANGED plan
     ELSE IF ranked(options) /\ ~head_available
     THEN Return("source") /\ UNCHANGED plan
     ELSE IF \E r \in Range(Resources) : disk.resources[r] = 0
     THEN Return("resource") /\ UNCHANGED plan
     ELSE /\ plan' = make_plan
          /\ IF options.plan_only THEN Return("ok") ELSE Goto("create") /\ UNCHANGED result
  /\ UNCHANGED <<fileVars, options, index, shards, writerVars, output>>

------------------------------------------------------------------------------
(* Writing *)

(* The directory of the output, the space in it and the temporary file.    *)
CreateWriter ==
  /\ pc = "create"
  /\ \/ /\ planes' = [n \in DOMAIN plan |-> [data |-> <<>>, aux |-> <<>>,
                                            data_written |-> 0, aux_written |-> 0]]
        /\ Goto("write") /\ UNCHANGED result
     \/ Return("storage") /\ UNCHANGED planes
     \/ IoFails /\ UNCHANGED planes
  /\ UNCHANGED <<fileVars, sourceVars, item, row, output>>

(* append_data and append_auxiliary of the current item.                   *)
Fits(data_bytes, aux_bytes) ==
  /\ planes[item].data_written + data_bytes <= plan[item].data_bytes
  /\ planes[item].aux_written + aux_bytes <= plan[item].aux_bytes

Append2(data, data_bytes, aux, aux_bytes) ==
  planes' = [planes EXCEPT ![item] = [data |-> @.data \o data, aux |-> @.aux \o aux,
                                      data_written |-> @.data_written + data_bytes,
                                      aux_written |-> @.aux_written + aux_bytes]]

(* tile_group128_for_gfx12 of the rows of a chunk: by tile, group, k_tile  *)
(* and row in the tile.                                                    *)
tile_codes(source, rows, groups) ==
  [n \in 1..Len(rows) * groups * KTiles |->
     LET tile == (n - 1) \div (TileRows * KTiles * groups)
         group == ((n - 1) \div (TileRows * KTiles)) % groups
         k_tile == ((n - 1) \div TileRows) % KTiles
     IN <<source, rows[tile * TileRows + ((n - 1) % TileRows) + 1], group, k_tile>>]

tile_scales(source, rows, groups) ==
  [n \in 1..Len(rows) * groups |->
     LET tile == (n - 1) \div (TileRows * groups)
         group == ((n - 1) \div TileRows) % groups
     IN <<source, rows[tile * TileRows + ((n - 1) % TileRows) + 1], group>>]

(* The rows of the item's next chunk in its source.                        *)
chunk_rows ==
  LET count == Min({options.chunk_rows, plan[item].rows - row})
  IN [n \in 1..count |-> IF plan[item].kind = "draft_head"
                         THEN plan[item].selected_rows[row + n] ELSE row + n - 1]

not_finite(file, name) == {w[2] : w \in {v \in file.nonfinite : v[1] = name}}
mapped(name) == shards[weight_map(index)[name]]

(* Fault: each row sets the flag anew.                                     *)
quantizes_last(source, rows) == rows[Len(rows)] \notin not_finite(mapped(source), source)

(* quantize_group128 takes a chunk unless a weight of it is not finite.    *)
quantizes(source, rows) == Range(rows) \cap not_finite(mapped(source), source) = {}

NextItem == item' = item + 1 /\ row' = 0

WriteChunk ==
  /\ pc = "write" /\ item <= Len(plan)
  /\ plan[item].kind \in {"matrix", "draft_head"}
  /\ LET p == plan[item]
         count == Len(chunk_rows)
         data_bytes == count * p.groups * KTiles * fragment_bytes(p.format)
         aux_bytes == 2 * count * p.groups
         rows_valid == p.kind = "draft_head" =>
                         /\ count % TileRows = 0
                         /\ \A r \in Range(chunk_rows) : r < Descriptor(p.source).shape[1]
         finite == quantizes(p.source, chunk_rows)
         tiles == count % TileRows = 0 /\ Fits(data_bytes, aux_bytes)
     IN \/ /\ ~rows_valid \/ (finite /\ ~tiles)
           /\ Return("chunk") /\ UNCHANGED writerVars
        \/ /\ rows_valid /\ ~finite
           /\ Return("weight") /\ UNCHANGED writerVars
        \/ /\ rows_valid /\ finite /\ tiles
           /\ Append2(tile_codes(p.source, chunk_rows, p.groups), data_bytes,
                      tile_scales(p.source, chunk_rows, p.groups), aux_bytes)
           /\ IF row + options.chunk_rows >= p.rows THEN NextItem
              ELSE row' = row + options.chunk_rows /\ UNCHANGED item
           /\ UNCHANGED <<pc, result>>
        \/ IoFails /\ UNCHANGED writerVars
  /\ UNCHANGED <<fileVars, sourceVars, output>>

(* A tensor or the token ids, from memory.                                 *)
WriteWhole ==
  /\ pc = "write" /\ item <= Len(plan)
  /\ plan[item].kind \in {"tensor", "draft_token_ids"}
  /\ LET p == plan[item]
         bytes == IF p.kind = "tensor" THEN Descriptor(p.name).end - Descriptor(p.name).begin
                  ELSE 4 * Len(p.selected_rows)
     IN \/ /\ Fits(bytes, 0)
           /\ Append2(IF p.kind = "tensor" THEN <<p.name>> ELSE p.selected_rows, bytes, <<>>, 0)
           /\ NextItem /\ UNCHANGED <<pc, result>>
        \/ IoFails /\ UNCHANGED writerVars
  /\ UNCHANGED <<fileVars, sourceVars, output>>

(* read_file and append_data: the file may have another size by now.       *)
WriteResource ==
  /\ pc = "write" /\ item <= Len(plan)
  /\ plan[item].kind = "resource"
  /\ LET bytes == disk.resources[plan[item].name]
     IN \/ /\ bytes # 0 /\ Fits(bytes, 0)
           /\ Append2(<<plan[item].name>>, bytes, <<>>, 0)
           /\ NextItem /\ UNCHANGED <<pc, result>>
        \/ /\ bytes = 0 \/ ~Fits(bytes, 0)
           /\ Return("resource") /\ UNCHANGED writerVars
        \/ IoFails /\ UNCHANGED writerVars
  /\ UNCHANGED <<fileVars, sourceVars, output>>

------------------------------------------------------------------------------
(* The end *)

weights_id(o) ==
  IF o.output_head_bits # 4
  THEN IF o.output_head_bits = 2 THEN "rdna4-w3seq-w4-h2-a4-t8-f96k-ls"
       ELSE "rdna4-w3seq-w4-h3-a4-t8-f96k-ls"
  ELSE IF o.mlp_bits = 4 THEN "rdna4-w4-a4-t8-f96k-ls"
  ELSE IF o.mlp_bits = 3
  THEN IF o.w3_start_layer # 0 THEN "rdna4-w2-w3seq-w4-a4-t8-f96k-ls"
       ELSE "rdna4-w3seq-w4-a4-t8-f96k-ls"
  ELSE "rdna4-w2w4-a4-t8"

recipe_id(o) ==
  IF o.output_head_bits # 4
  THEN IF o.output_head_bits = 2 THEN "qwen38-code-w3seq-w4-head2-wmma-tiled-v9"
       ELSE "qwen38-code-w3seq-w4-head3-wmma-tiled-v9"
  ELSE IF o.mlp_bits = 4 THEN "qwen38-code-w4-wmma-tiled-v7"
  ELSE IF o.mlp_bits = 3
  THEN IF o.w3_start_layer # 0 THEN "qwen38-w2-w3seq-w4-wmma-tiled-v9"
       ELSE "qwen38-code-w3seq-w4-wmma-tiled-v9"
  ELSE IF ranked(o) THEN "qwen38-maxspeed-wmma-tiled-ranked-v3"
       ELSE "qwen38-maxspeed-wmma-tiled-v2"

(* Every plane must have its declared size; then header, manifest, fsync,  *)
(* close and rename.                                                       *)
Finalize ==
  /\ pc = "write" /\ item > Len(plan)
  /\ \/ /\ \A n \in DOMAIN plan : /\ planes[n].data_written = plan[n].data_bytes
                                  /\ planes[n].aux_written = plan[n].aux_bytes
        /\ output' = [weights_id |-> weights_id(options), recipe_id |-> recipe_id(options),
                      entries |-> plan, planes |-> planes]
        /\ Goto("installed") /\ UNCHANGED result
     \/ /\ \E n \in DOMAIN plan : \/ planes[n].data_written # plan[n].data_bytes
                                  \/ planes[n].aux_written # plan[n].aux_bytes
        /\ Return("incomplete") /\ UNCHANGED output
     \/ IoFails /\ UNCHANGED output
  /\ UNCHANGED <<fileVars, sourceVars, writerVars>>

(* file_size of the installed artifact.                                    *)
StatOutput ==
  /\ pc = "installed"
  /\ Return("ok") \/ IoFails
  /\ UNCHANGED <<fileVars, sourceVars, writerVars, output>>

Next ==
  \/ Replace
  \/ CheckOptions \/ Validate \/ LoadIndex \/ OpenShard \/ MakePlan
  \/ CreateWriter \/ WriteChunk \/ WriteWhole \/ WriteResource
  \/ Finalize \/ StatOutput

Spec == Init /\ [][Next]_vars

------------------------------------------------------------------------------
(* The flag of QwenDecodeSession::create that chooses the kernel.          *)
sequential_w3(recipe) ==
  recipe \in {"qwen38-code-w3seq-w4-head2-wmma-tiled-v9",
              "qwen38-code-w3seq-w4-head3-wmma-tiled-v9",
              "qwen38-w2-w3seq-w4-wmma-tiled-v9", "qwen38-code-w3seq-w4-wmma-tiled-v9"}

(* Codes of a row of two groups: column c has every value as p varies.     *)
Pattern(format, p) == [c \in 0..2 * kGroupSize - 1 |-> (5 * c + p) % 2^bits[format]]

(* Every code that is packed, tiled and expanded again is the level it     *)
(* stands for, in every column of every fragment.                          *)
Expands(format, sequential) ==
  \A p \in 0..2^bits[format] - 1, group \in 0..1, k_tile \in 0..KTiles - 1 :
    LET codes == Pattern(format, p)
        bytes == fragment(store_codes(codes, format), group, k_tile, format)
        weights == i4_weights(bytes, format, sequential)
    IN \A c \in 0..FragmentCodes - 1 :
         LET column == group * kGroupSize + k_tile * FragmentCodes + c
             level == decode_value(codes[column], format)
         IN /\ weights[c] = level
            /\ format # "w3" => gather_weight(bytes, c, format) = level

(* Where the kernels read.                                                 *)
kernel_fragment(data, p, r, group, k_tile) ==
  data[(((r \div TileRows) * p.groups + group) * KTiles + k_tile) * TileRows
       + (r % TileRows) + 1]
kernel_scale(aux, p, r, group) ==
  aux[((r \div TileRows) * p.groups + group) * TileRows + (r % TileRows) + 1]

(* An artifact that a conversion has installed is complete, and the        *)
(* kernels its recipe selects find the code and the scale of every weight  *)
(* where they look: row r of a matrix is row r of its source, row r of the *)
(* draft head the row of the LM head that the token ids name.              *)
(* (converter.cpp:345-460, quantization.cpp:253-318, lowbit_gemv.hip)      *)
InstalledReadable ==
  pc = "installed" =>
    LET ids == {n \in DOMAIN output.entries : output.entries[n].kind = "draft_token_ids"}
        source_row(p, r) == IF p.kind = "draft_head"
                            THEN output.planes[CHOOSE n \in ids : TRUE].data[r + 1] ELSE r
    IN /\ \A format \in {p.format : p \in Range(output.entries)} \ {"none"} :
            Expands(format, sequential_w3(output.recipe_id))
       /\ \A n \in DOMAIN output.entries :
            LET p == output.entries[n]
                plane == output.planes[n]
            IN /\ plane.data_written = p.data_bytes /\ plane.aux_written = p.aux_bytes
               /\ p.kind \in {"tensor", "resource"} => plane.data = <<p.source>>
               /\ p.name = "embed" => p.format # "w3"
               /\ \A r \in 0..p.rows - 1, group \in 0..p.groups - 1 :
                    /\ kernel_scale(plane.aux, p, r, group) = <<p.source, source_row(p, r), group>>
                    /\ \A k_tile \in 0..KTiles - 1 :
                         kernel_fragment(plane.data, p, r, group, k_tile) =
                           <<p.source, source_row(p, r), group, k_tile>>

(* The rows of a draft head: no token twice, every special token among     *)
(* them, and of the others none that is worse than one left out; the best  *)
(* come first.  (converter.cpp:121-178)                                    *)
DraftRowsBest ==
  \A n \in DOMAIN plan : plan[n].kind = "draft_head" =>
    LET rows == plan[n].selected_rows
        taken == Range(rows)
        out == (0..Tokens - 1) \ taken
        others == taken \ Range(Specials)
    IN /\ Cardinality(taken) = DraftRows /\ Range(Specials) \subseteq taken
       /\ ~changed => \A a \in others, b \in out : better(disk.ranking, a, b)
       /\ ~changed => \A i, j \in 1..DraftRows :
                        i < j => better(disk.ranking, rows[i], rows[j])

(* Every weight of an installed low-bit matrix, those of the draft head    *)
(* included, was finite in the source as it was mapped, in whatever chunk  *)
(* it came: its code and scale say something about it.                     *)
(* (quantization.cpp:193-218, converter.cpp:345-440)                       *)
InstalledFinite ==
  pc = "installed" =>
    \A p \in Range(output.entries) : p.kind \in {"matrix", "draft_head"} =>
      \A r \in 0..p.rows - 1 :
        (IF p.kind = "draft_head" THEN p.selected_rows[r + 1] ELSE r)
          \notin not_finite(mapped(p.source), p.source)

(* A checkpoint that passed the validation and is left alone is refused    *)
(* later on for one reason only: the validation does not look at weights,  *)
(* and a matrix to be quantized may have one that is not finite.  It was   *)
(* all of what the conversion asks of the index, the shards and the        *)
(* tensors.  Nor does a conversion of a good ranking and of chunks of      *)
(* whole tiles stop halfway, but for such a weight or for files.           *)
(* (safetensors.cpp:298-345, converter.cpp:373, 439, 478-497, 545-575)     *)
ValidSourceConverts ==
  ~changed =>
    /\ result # "source" /\ result # "incomplete"
    /\ options.chunk_rows % TileRows = 0 => result # "chunk"
    /\ result = "weight" =>
         \E p \in Range(plan) :
           /\ p.kind \in {"matrix", "draft_head"}
           /\ not_finite(disk.files[weight_map(disk.index)[p.source]], p.source) # {}
=============================================================================
