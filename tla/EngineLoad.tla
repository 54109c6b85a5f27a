----------------------------- MODULE EngineLoad ------------------------------
(***************************************************************************)
(* Engine::create and ~Impl (src/engine.cpp) over an artifact that          *)
(* ArtifactView::open maps and checks (src/artifact.cpp).  The tensors that *)
(* are not resources are placed in one arena of device memory and uploaded *)
(* by asynchronous copies on the engine's stream: the device performs them *)
(* later, reading the mapped file and writing the arena.  Every call can   *)
(* fail; an error, and the end of the engine, releases what there is.      *)
(***************************************************************************)
EXTENDS ArtifactLayout, FiniteSets

CONSTANTS
  Files,          \* artifacts: Written plans and others
  Plans,          \* plans of the writers
  Configs,        \* [valid, verify, upload, budget]; budget 0 is the default
  Totals,         \* sizes of device memory
  Reserve,        \* 512 MiB
  Resources       \* names that begin with "resources/"

ASSUME LoadAssumption ==
  /\ Reserve \in Nat /\ Totals \subseteq Nat
  /\ \A c \in Configs : c.budget \in Nat

WrittenFiles == {Written(plan) : plan \in {p \in Plans : WritersAccept(p)}}

(* DiskHeader and the directory of DiskTensorEntry hold unsigned words.    *)
FileFields(f) ==
  /\ Len(f.entries) \in Nat /\ DOMAIN f.entries = 1..Len(f.entries)
  /\ {f.mapped_bytes, f.file_bytes, f.directory_offset, f.strings_offset,
      f.strings_bytes, f.data_offset, f.data_bytes} \subseteq 0..Word - 1
  /\ \A n \in DOMAIN f.entries :
       LET entry == f.entries[n] IN
       {entry.name_offset, entry.name_bytes, entry.alignment, entry.data_offset,
        entry.data_bytes, entry.aux_offset, entry.aux_bytes} \subseteq 0..Word - 1

ASSUME FilesAssumption == \A f \in Files : FileFields(f)

(* A request of the writers: sizes are words, and the empty name is bad.   *)
PlanFields(plan) ==
  /\ Len(plan) \in Nat /\ DOMAIN plan = 1..Len(plan)
  /\ \A n \in DOMAIN plan :
       /\ plan[n].name_bytes \in Nat /\ (plan[n].name_bytes = 0 => plan[n].name \in BadNames)
       /\ {plan[n].alignment, plan[n].data_bytes, plan[n].aux_bytes} \subseteq 0..Word - 1

ASSUME PlansAssumption == \A plan \in Plans : PlanFields(plan)

VARIABLES
  pc,
  file, config, total,
  index,        \* of the loop that runs
  ranges,       \* the payloads sorted by where they begin
  arena_bytes,
  placements,   \* of the resident tensors: [tensor, data, aux]
  device_tensors,
  mapped, arena, stream,  \* what Impl holds and its destructor releases
  inflight,     \* copies on the stream that the device has not performed
  loaded        \* payloads that are in the arena

choice == <<file, config, total>>
held == <<mapped, arena, stream>>
device == <<inflight, loaded>>
vars == <<pc, choice, index, ranges, arena_bytes, placements, device_tensors, held, device>>

tensors == file.entries
Goto(there) == pc' = there
(* An error destroys Impl; the stream goes first.                          *)
Fail == Goto("destroy_stream")

Init ==
  /\ pc = "open" /\ file \in Files \cup WrittenFiles
  /\ config \in Configs /\ total \in Totals
  /\ index = 1 /\ ranges = <<>> /\ arena_bytes = 0
  /\ placements = <<>> /\ device_tensors = <<>>
  /\ mapped = FALSE /\ arena = FALSE /\ stream = FALSE
  /\ inflight = {} /\ loaded = {}
------------------------------------------------------------------------------
(* ArtifactView::open *)

(* The configuration is checked, a device found, the file mapped.          *)
Open ==
  /\ pc = "open"
  /\ IF ~config.valid \/ file.mapped_bytes < FileAlignment
     THEN Fail /\ UNCHANGED mapped
     ELSE \/ Fail /\ UNCHANGED mapped
          \/ Goto("header") /\ mapped' = TRUE
  /\ UNCHANGED <<choice, index, ranges, arena_bytes, placements, device_tensors,
                 arena, stream, device>>

CheckHeader ==
  /\ pc = "header"
  /\ IF header_valid(file) /\ (config.verify => file.manifest_crc)
     THEN Goto("entries") ELSE Fail
  /\ UNCHANGED <<choice, index, ranges, arena_bytes, placements, device_tensors,
                 held, device>>

NamesBefore(n) == {tensors[k].name : k \in 1..n - 1}

(* Payloads in the order std::sort gives their ranges: by begin, then end. *)
Precedes(p, q) ==
  \/ Begin(file, p) < Begin(file, q)
  \/ Begin(file, p) = Begin(file, q) /\ End(file, p) <= End(file, q)
Sorted(order) == \A i, j \in DOMAIN order : i < j => Precedes(order[i], order[j])
Orders ==
  LET n == Cardinality(payloads(file)) IN
  {order \in [1..n -> payloads(file)] :
     Sorted(order) /\ \A p \in payloads(file) : \E i \in 1..n : order[i] = p}

CheckEntry ==
  /\ pc = "entries"
  /\ IF index > Len(tensors)
     THEN ranges' \in Orders /\ index' = 2 /\ Goto("neighbours")
     ELSE /\ UNCHANGED ranges
          /\ IF /\ entry_valid(file, tensors[index], NamesBefore(index))
                /\ config.verify => tensors[index].crc
             THEN index' = index + 1 /\ Goto("entries")
             ELSE Fail /\ UNCHANGED index
  /\ UNCHANGED <<choice, arena_bytes, placements, device_tensors, held, device>>

(* Fault: compare where two neighbours begin.                              *)
CompareBegins ==
  /\ pc = "neighbours"
  /\ IF index > Len(ranges) THEN index' = 1 /\ Goto("identity")
     ELSE IF Begin(file, ranges[index]) < Begin(file, ranges[index - 1])
     THEN Fail /\ UNCHANGED index
     ELSE index' = index + 1 /\ Goto("neighbours")
  /\ UNCHANGED <<choice, ranges, arena_bytes, placements, device_tensors, held, device>>

CheckNeighbours ==
  /\ pc = "neighbours"
  /\ IF index > Len(ranges) THEN index' = 1 /\ Goto("identity")
     ELSE IF Begin(file, ranges[index]) < End(file, ranges[index - 1])
     THEN Fail /\ UNCHANGED index
     ELSE index' = index + 1 /\ Goto("neighbours")
  /\ UNCHANGED <<choice, ranges, arena_bytes, placements, device_tensors, held, device>>
------------------------------------------------------------------------------
(* Engine::create *)

maximum_budget == IF total > Reserve THEN total - Reserve ELSE 0
budget == IF config.budget = 0 THEN maximum_budget ELSE config.budget

(* The identity, the budget and hipMemGetInfo.                             *)
CheckIdentity ==
  /\ pc = "identity"
  /\ IF file.arch = "gfx1200" /\ file.model = "qwen3.8-27b" /\ budget <= maximum_budget
     THEN Goto("place") \/ Fail ELSE Fail
  /\ UNCHANGED <<choice, index, ranges, arena_bytes, placements, device_tensors,
                 held, device>>

(* Fault: align without looking whether the sum fits.                      *)
AlignedUnchecked(cursor, bytes, alignment) ==
  IF alignment \notin Alignments THEN -1
  ELSE ((cursor + alignment - 1) \div alignment) * alignment + bytes

(* aligned_size, or -1 when the sum does not fit.                          *)
aligned_size(cursor, bytes, alignment) ==
  IF alignment \notin Alignments \/ cursor > Word - alignment THEN -1
  ELSE LET begin == align_up(cursor, alignment)
       IN IF bytes > Word - 1 - begin THEN -1 ELSE begin + bytes

PlaceTensor(tensor) ==
  LET data == aligned_size(arena_bytes, 0, tensor.alignment)
      data_end == IF data = -1 THEN -1 ELSE aligned_size(data, tensor.data_bytes, 1)
      aux == IF data_end = -1 THEN -1 ELSE aligned_size(data_end, 0, tensor.alignment)
      aux_end == IF aux = -1 THEN -1 ELSE aligned_size(aux, tensor.aux_bytes, 1)
      end == IF tensor.aux_bytes = 0 THEN data_end ELSE aux_end
  IN IF end = -1 THEN Fail /\ UNCHANGED <<arena_bytes, placements, index>>
     ELSE /\ arena_bytes' = end
          /\ placements' = Append(placements,
               [tensor |-> index, data |-> data,
                aux |-> IF tensor.aux_bytes = 0 THEN 0 ELSE aux])
          /\ index' = index + 1 /\ Goto("place")

(* Fault: forget what an auxiliary plane takes.                            *)
PlaceWithoutAux ==
  /\ pc = "place"
  /\ IF index > Len(tensors)
     THEN index' = 1 /\ Goto("fits") /\ UNCHANGED <<arena_bytes, placements>>
     ELSE IF tensors[index].name \in Resources
     THEN index' = index + 1 /\ Goto("place") /\ UNCHANGED <<arena_bytes, placements>>
     ELSE LET data == aligned_size(arena_bytes, 0, tensors[index].alignment)
              end == data + tensors[index].data_bytes
          IN /\ arena_bytes' = end
             /\ placements' = Append(placements,
                  [tensor |-> index, data |-> data,
                   aux |-> IF tensors[index].aux_bytes = 0 THEN 0
                           ELSE aligned_size(end, 0, tensors[index].alignment)])
             /\ index' = index + 1 /\ Goto("place")
  /\ UNCHANGED <<choice, ranges, device_tensors, held, device>>

PlaceTensors ==
  /\ pc = "place"
  /\ IF index > Len(tensors)
     THEN index' = 1 /\ Goto("fits") /\ UNCHANGED <<arena_bytes, placements>>
     ELSE IF tensors[index].name \in Resources
     THEN index' = index + 1 /\ Goto("place") /\ UNCHANGED <<arena_bytes, placements>>
     ELSE PlaceTensor(tensors[index])
  /\ UNCHANGED <<choice, ranges, device_tensors, held, device>>

(* Without upload the engine is complete now.  Free memory is what other   *)
(* programs leave; hipMalloc can fail although it is enough.               *)
Allocate ==
  /\ pc = "fits"
  /\ IF arena_bytes > budget THEN Fail /\ UNCHANGED arena
     ELSE IF ~config.upload THEN Goto("ready") /\ UNCHANGED arena
     ELSE \/ Fail /\ UNCHANGED arena
          \/ Goto("stream") /\ arena' = TRUE
  /\ UNCHANGED <<choice, index, ranges, arena_bytes, placements, device_tensors,
                 mapped, stream, device>>

CreateStream ==
  /\ pc = "stream"
  /\ \/ Fail /\ UNCHANGED stream
     \/ Goto("upload") /\ stream' = TRUE
  /\ UNCHANGED <<choice, index, ranges, arena_bytes, placements, device_tensors,
                 mapped, arena, device>>

(* The copies of one placement; the second can fail after the first.       *)
Upload ==
  /\ pc = "upload"
  /\ IF index > Len(placements)
     THEN Goto("synchronize") /\ UNCHANGED <<index, device_tensors, inflight>>
     ELSE LET n == placements[index].tensor
              planes == {p \in payloads(file) : p[1] = n}
          IN \/ /\ inflight' = inflight \cup planes
                /\ device_tensors' = Append(device_tensors, placements[index])
                /\ index' = index + 1 /\ Goto("upload")
             \/ /\ inflight' \in {inflight, inflight \cup {<<n, "data">>}}
                /\ Fail /\ UNCHANGED <<index, device_tensors>>
  /\ UNCHANGED <<choice, ranges, arena_bytes, placements, held, loaded>>

(* hipStreamSynchronize waits, or reports an error of a copy.              *)
Synchronize ==
  /\ pc = "synchronize"
  /\ \/ inflight = {} /\ Goto("ready")
     \/ Fail
  /\ UNCHANGED <<choice, index, ranges, arena_bytes, placements, device_tensors,
                 held, device>>

(* The device performs the copies of a stream in some order.               *)
Copy ==
  \E p \in inflight :
    /\ inflight' = inflight \ {p} /\ loaded' = loaded \cup {p}
    /\ UNCHANGED <<pc, choice, index, ranges, arena_bytes, placements,
                   device_tensors, held>>
------------------------------------------------------------------------------
(* ~Impl: the destructor's body, then the members in reverse order: the    *)
(* artifact is unmapped last.                                              *)

Destroy ==
  /\ pc = "ready" /\ Goto("destroy_stream")
  /\ UNCHANGED <<choice, index, ranges, arena_bytes, placements, device_tensors,
                 held, device>>

(* hipStreamDestroy does not wait for the copies of the stream.            *)
DestroyStream ==
  /\ pc = "destroy_stream"
  /\ stream' = FALSE /\ Goto("free")
  /\ UNCHANGED <<choice, index, ranges, arena_bytes, placements, device_tensors,
                 mapped, arena, device>>

(* Fault: unmap the artifact first.                                        *)
FreeLast ==
  /\ pc = "free"
  /\ mapped' = FALSE /\ arena' = FALSE /\ Goto("unmap")
  /\ UNCHANGED <<choice, index, ranges, arena_bytes, placements, device_tensors,
                 stream, device>>

(* hipFree waits until the device is idle.                                 *)
FreeArena ==
  /\ pc = "free" /\ (arena => inflight = {})
  /\ arena' = FALSE /\ Goto("unmap")
  /\ UNCHANGED <<choice, index, ranges, arena_bytes, placements, device_tensors,
                 mapped, stream, device>>

Unmap ==
  /\ pc = "unmap"
  /\ mapped' = FALSE /\ Goto("gone")
  /\ UNCHANGED <<choice, index, ranges, arena_bytes, placements, device_tensors,
                 arena, stream, device>>

Gone == pc = "gone" /\ UNCHANGED vars

Next ==
  \/ Open \/ CheckHeader \/ CheckEntry \/ CheckNeighbours \/ CheckIdentity
  \/ PlaceTensors \/ Allocate \/ CreateStream \/ Upload \/ Synchronize \/ Copy
  \/ Destroy \/ DestroyStream \/ FreeArena \/ Unmap \/ Gone

Spec == Init /\ [][Next]_vars

------------------------------------------------------------------------------
(* Properties *)

Opened == {"identity", "place", "fits", "stream", "upload", "synchronize", "ready"}
Closing == {"destroy_stream", "free", "unmap", "gone"}

(* Every variable stays in its range; sizes never wrap.                    *)
TypeOK ==
  /\ pc \in Opened \cup Closing \cup {"open", "header", "entries", "neighbours"}
  /\ file \in Files \cup WrittenFiles /\ config \in Configs /\ total \in Totals
  /\ index \in 1..2 * Len(tensors) + 2
  /\ ranges \in Seq(payloads(file))
  /\ arena_bytes \in 0..Word - 1
  /\ placements \in Seq([tensor : DOMAIN tensors, data : 0..Word - 1, aux : 0..Word - 1])
  /\ device_tensors \in Seq([tensor : DOMAIN tensors, data : 0..Word - 1, aux : 0..Word - 1])
  /\ mapped \in BOOLEAN /\ arena \in BOOLEAN /\ stream \in BOOLEAN
  /\ inflight \subseteq payloads(file) /\ loaded \subseteq payloads(file)

Apart(begin1, bytes1, begin2, bytes2) ==
  begin1 + bytes1 <= begin2 \/ begin2 + bytes2 <= begin1

(* docs/ARTIFACT_FORMAT.md:19, "Regions may not overlap": the payloads of  *)
(* an artifact that opens lie in the file, behind its header, directory    *)
(* and names, and apart from each other, although open tests neither where *)
(* the directory begins nor any two ranges but neighbours, and although    *)
(* the offsets come from the file.                                         *)
PayloadsSeparate ==
  pc \in Opened => \A p \in payloads(file) :
    /\ Begin(file, p) + Bytes(file, p) <= file.mapped_bytes
    /\ Begin(file, p) >= FileAlignment
    /\ Begin(file, p) >= file.strings_offset + file.strings_bytes
    /\ \A q \in payloads(file) \ {p} :
         Apart(Begin(file, p), Bytes(file, p), Begin(file, q), Bytes(file, q))

(* What the writers install opens: no check of open refuses a file that a  *)
(* writer laid out, aligned and with or without auxiliary planes.          *)
WrittenOpens ==
  [][(file \in WrittenFiles /\ pc \in {"header", "entries", "neighbours"}) =>
     (pc' # "destroy_stream")]_vars

Resident == {n \in DOMAIN tensors : tensors[n].name \notin Resources}

(* Two placed planes of the arena.                                         *)
PlanesOf(k) ==
  LET n == placements[k].tensor IN
  {[key |-> <<n, "data">>, begin |-> placements[k].data, bytes |-> tensors[n].data_bytes]}
  \cup {[key |-> <<n, "aux">>, begin |-> placements[k].aux, bytes |-> b] :
          b \in {tensors[n].aux_bytes} \ {0}}

(* An engine that is handed out has every tensor that is not a resource in *)
(* its arena: aligned, apart from each other, within the budget and, when  *)
(* weights are uploaded, copied completely and listed in artifact order.   *)
EngineReady ==
  pc = "ready" =>
    LET planes == UNION {PlanesOf(k) : k \in DOMAIN placements} IN
    /\ {placements[k].tensor : k \in DOMAIN placements} = Resident
    /\ \A x \in planes :
         /\ x.begin % tensors[x.key[1]].alignment = 0
         /\ x.begin + x.bytes <= arena_bytes /\ arena_bytes <= budget
         /\ budget + Reserve <= total \/ budget = 0
         /\ \A y \in planes \ {x} : Apart(x.begin, x.bytes, y.begin, y.bytes)
    /\ config.upload =>
         /\ loaded = {x.key : x \in planes}
         /\ device_tensors = placements

(* The device never reads the file after it is unmapped and never writes   *)
(* the arena after it is freed, although an error returns while copies are *)
(* in flight and the stream is destroyed without a wait: hipFree waits.    *)
NoCopyAfterRelease == inflight # {} => mapped /\ arena
=============================================================================
