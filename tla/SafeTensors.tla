------------------------------ MODULE SafeTensors ------------------------------
(***************************************************************************)
(* The source checkpoint (src/safetensors.cpp, src/qwen38_spec.cpp): what  *)
(* SafeTensorFile::open accepts of a shard, load_safetensors_index of the  *)
(* index, and validate_qwen38_model_directory of both.                     *)
(*                                                                         *)
(* A shard is a record of its size, the length its header claims and the   *)
(* descriptors in the header, in file order; an index holds the pairs of   *)
(* weight_map and metadata.total_size.  Offsets are words.                 *)
(***************************************************************************)
EXTENDS Integers, Sequences, FiniteSets, SequencesExt

CONSTANTS
  Word,           \* 2^64
  MaxHeader,      \* maximum_header_bytes: 128 MiB
  Shape,          \* the shapes of qwen38_source_tensor_specs, by name
  Vision,         \* the names of the vision tensors
  UnsafeShards    \* names safe_shard_name refuses

ASSUME ShapeAssumption ==
  IsFiniteSet(DOMAIN Shape) /\ \A name \in DOMAIN Shape : Shape[name] \in Seq(Nat)

(* The descriptors of a header.                                            *)
SourceTensors == [name : STRING, dtype : STRING, shape : Seq(Nat), begin : Nat, end : Nat]

source_dtype_bytes == [bf16 |-> 2, f16 |-> 2, f32 |-> 4]

Product(shape, element_bytes) == FoldLeft(LAMBDA a, b : a * b, element_bytes, shape)
(* The product is refused as soon as it leaves a word, unless a dimension  *)
(* is 0.                                                                   *)
safe_product(shape, element_bytes) ==
  \A n \in DOMAIN shape :
    shape[n] # 0 => Product(SubSeq(shape, 1, n), element_bytes) < Word

source_range_valid(offset, bytes, file_bytes) ==
  offset <= file_bytes /\ bytes <= file_bytes - offset

data_base(file) == 8 + file.header_bytes

descriptor_valid(file, t) ==
  LET bytes == Product(t.shape, source_dtype_bytes[t.dtype]) IN
  /\ t.dtype \in DOMAIN source_dtype_bytes
  /\ t.begin <= t.end
  /\ safe_product(t.shape, source_dtype_bytes[t.dtype])
  /\ bytes = t.end - t.begin
  /\ source_range_valid((data_base(file) + t.begin) % Word, bytes, file.bytes)

RangeLess(a, b) == a[1] < b[1] \/ (a[1] = b[1] /\ a[2] < b[2])

ranges_separate(tensors) ==
  LET ranges == SortSeq([n \in DOMAIN tensors |-> <<tensors[n].begin, tensors[n].end>>],
                        RangeLess)
  IN \A n \in 2..Len(ranges) : ranges[n][1] >= ranges[n - 1][2]

shard_valid(file) ==
  /\ file.bytes >= 10
  /\ file.header_bytes >= 2 /\ file.header_bytes <= MaxHeader
  /\ source_range_valid(8, file.header_bytes, file.bytes)
  /\ file.wellformed
  /\ \A i, j \in DOMAIN file.tensors :
       i # j => file.tensors[i].name # file.tensors[j].name
  /\ \A i \in DOMAIN file.tensors : descriptor_valid(file, file.tensors[i])
  /\ ranges_separate(file.tensors)

names(file) == {t.name : t \in Range(file.tensors)}
find(file, name) == CHOOSE t \in Range(file.tensors) : t.name = name

------------------------------------------------------------------------------

index_valid(index) ==
  /\ index.wellformed
  /\ \A n \in DOMAIN index.weight_map : index.weight_map[n][2] \notin UnsafeShards
  /\ \A i, j \in DOMAIN index.weight_map :
       i # j => index.weight_map[i][1] # index.weight_map[j][1]

weight_map(index) ==
  [name \in {m[1] : m \in Range(index.weight_map)} |->
     (CHOOSE m \in Range(index.weight_map) : m[1] = name)[2]]
shard_names(index) == {m[2] : m \in Range(index.weight_map)}

qwen38_source_tensor_names(include_vision) ==
  IF include_vision THEN DOMAIN Shape ELSE DOMAIN Shape \ Vision

Sum(numbers) == FoldLeft(LAMBDA a, b : a + b, 0, numbers)
tensor_bytes(file) ==
  Sum([n \in DOMAIN file.tensors |-> file.tensors[n].end - file.tensors[n].begin])

(* Fault: the shard a tensor is in need not be the one the index names.    *)
source_valid_anywhere(map, shard, t) ==
  /\ t.name \in DOMAIN map
  /\ t.dtype = "bf16"
  /\ t.name \in DOMAIN Shape /\ Shape[t.name] = t.shape

(* A tensor of a shard, which every check of the loop over the shards      *)
(* looks at; observed are the names of the shards before this one.         *)
source_valid(map, shard, t) ==
  /\ t.name \in DOMAIN map /\ map[t.name] = shard
  /\ t.dtype = "bf16"
  /\ t.name \in DOMAIN Shape /\ Shape[t.name] = t.shape

(* files are the files of the directory: a function of their names.        *)
validate_qwen38_model_directory(index, files) ==
  LET map == weight_map(index)
      shards == SetToSeq(shard_names(index))
      observed(shard) == names(files[shard])
  IN /\ index_valid(index)
     /\ DOMAIN map = qwen38_source_tensor_names(TRUE)
     /\ \A s \in shard_names(index) :
          /\ s \in DOMAIN files /\ shard_valid(files[s])
          /\ \A t \in Range(files[s].tensors) : source_valid(map, s, t)
     /\ \A s, u \in shard_names(index) :
          s # u => observed(s) \cap observed(u) = {}
     /\ Sum([n \in DOMAIN shards |-> Len(files[shards[n]].tensors)]) = Cardinality(DOMAIN map)
     /\ Sum([n \in DOMAIN shards |-> tensor_bytes(files[shards[n]])]) = index.total_size
=============================================================================
