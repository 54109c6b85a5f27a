--------------------------- MODULE ArtifactLayout ----------------------------
(***************************************************************************)
(* The framing of a .gfxi artifact (src/artifact.cpp): how the writers lay *)
(* out the payloads of a plan, and what of a file the checks of            *)
(* ArtifactView::open look at.  Offsets and sizes are unsigned words: what *)
(* the code does not test wraps at Word.                                   *)
(***************************************************************************)
EXTENDS Integers, Sequences

CONSTANTS
  Word,           \* 2^64
  FileAlignment,  \* kFileAlignment: 256, also the size of the header
  EntryBytes,     \* sizeof(DiskTensorEntry): 128
  Alignments,     \* the powers of two among the alignments of the files
  BadNames        \* names valid_name refuses

ASSUME LayoutAssumption ==
  /\ FileAlignment \in Nat \ {0} /\ EntryBytes \in Nat \ {0}
  /\ FileAlignment < Word /\ Word \in Nat
  /\ Alignments \subseteq 1..Word - 1

align_up(value, alignment) ==
  IF alignment \notin Alignments \/ value > Word - alignment THEN 0
  ELSE ((value + alignment - 1) \div alignment) * alignment

range_valid(offset, bytes, file_bytes) ==
  offset <= file_bytes /\ bytes <= file_bytes - offset

------------------------------------------------------------------------------
(* Writing: the layout of a plan, a sequence of                            *)
(* [name, name_bytes, alignment, data_bytes, aux_bytes].                   *)

PlanValid(plan) ==
  /\ \A i, j \in DOMAIN plan : i # j => plan[i].name # plan[j].name
  /\ \A i \in DOMAIN plan : /\ plan[i].name \notin BadNames
                            /\ plan[i].data_bytes # 0
                            /\ plan[i].alignment >= FileAlignment
                            /\ plan[i].alignment \in Alignments

NameOffset(plan, n) ==
  LET sum[i \in 0..n - 1] == IF i = 0 THEN 0 ELSE sum[i - 1] + plan[i].name_bytes
  IN sum[n - 1]

strings_offset(plan) == FileAlignment + Len(plan) * EntryBytes
strings_bytes(plan) == NameOffset(plan, Len(plan) + 1)
data_offset(plan) == align_up(strings_offset(plan) + strings_bytes(plan), FileAlignment)

(* Fault: the auxiliary plane follows the data without alignment.          *)
PlaceUnaligned(cursor, bytes, alignment) ==
  IF cursor = 0 \/ bytes > Word - 1 - cursor THEN 0 ELSE cursor

(* Where a plane begins behind cursor; 0 if it does not fit in a word.     *)
Place(cursor, bytes, alignment) ==
  LET begin == IF cursor = 0 THEN 0 ELSE align_up(cursor, alignment)
  IN IF bytes > Word - 1 - begin THEN 0 ELSE begin

(* The end of the first n tensors and their offsets; the end 0 is an error.*)
Placed(plan) ==
  LET placed[n \in 0..Len(plan)] ==
        IF n = 0 THEN [cursor |-> data_offset(plan), data |-> <<>>, aux |-> <<>>]
        ELSE LET before == placed[n - 1]
                 data == Place(before.cursor, plan[n].data_bytes, plan[n].alignment)
                 end == IF data = 0 THEN 0 ELSE data + plan[n].data_bytes
                 aux == IF plan[n].aux_bytes = 0 THEN 0
                        ELSE Place(end, plan[n].aux_bytes, plan[n].alignment)
             IN [cursor |-> IF plan[n].aux_bytes = 0 THEN end
                            ELSE IF aux = 0 THEN 0 ELSE aux + plan[n].aux_bytes,
                 data |-> Append(before.data, data), aux |-> Append(before.aux, aux)]
  IN placed[Len(plan)]

WritersAccept(plan) ==
  PlanValid(plan) /\ data_offset(plan) # 0 /\ Placed(plan).cursor # 0

(* The file the writers install, its identity being that of the converter. *)
Written(plan) ==
  LET placed == Placed(plan) IN
  [wellformed |-> TRUE, arch |-> "gfx1200", model |-> "qwen3.8-27b",
   file_bytes |-> placed.cursor, mapped_bytes |-> placed.cursor,
   directory_offset |-> FileAlignment,
   strings_offset |-> strings_offset(plan), strings_bytes |-> strings_bytes(plan),
   data_offset |-> data_offset(plan), data_bytes |-> placed.cursor - data_offset(plan),
   manifest_crc |-> TRUE,
   entries |-> [n \in DOMAIN plan |->
     [name |-> plan[n].name, kinds |-> TRUE,
      name_offset |-> NameOffset(plan, n), name_bytes |-> plan[n].name_bytes,
      alignment |-> plan[n].alignment,
      data_offset |-> placed.data[n], data_bytes |-> plan[n].data_bytes,
      aux_offset |-> placed.aux[n], aux_bytes |-> plan[n].aux_bytes,
      crc |-> TRUE]]]
------------------------------------------------------------------------------
(* Reading: the checks of open on the header and on one entry.             *)

directory_bytes(file) == Len(file.entries) * EntryBytes

header_valid(file) ==
  /\ file.mapped_bytes >= FileAlignment
  /\ file.wellformed
  /\ file.file_bytes = file.mapped_bytes
  /\ range_valid(file.directory_offset, directory_bytes(file), file.file_bytes)
  /\ range_valid(file.strings_offset, file.strings_bytes, file.file_bytes)
  /\ range_valid(file.data_offset, file.data_bytes, file.file_bytes)
  /\ file.strings_offset = file.directory_offset + directory_bytes(file)
  /\ file.data_offset >= (file.strings_offset + file.strings_bytes) % Word
  /\ file.arch # "" /\ file.model # ""

(* A data or auxiliary plane of an entry.                                  *)
plane_valid(file, alignment, offset, bytes) ==
  /\ offset % alignment = 0
  /\ range_valid(offset, bytes, file.file_bytes)
  /\ offset >= file.data_offset

(* names are those of the entries before this one.                         *)
entry_valid(file, entry, names) ==
  /\ entry.kinds /\ entry.name_bytes # 0
  /\ range_valid(entry.name_offset, entry.name_bytes, file.strings_bytes)
  /\ entry.name \notin BadNames /\ entry.name \notin names
  /\ entry.alignment >= FileAlignment /\ entry.alignment \in Alignments
  /\ plane_valid(file, entry.alignment, entry.data_offset, entry.data_bytes)
  /\ entry.aux_bytes # 0 =>
       plane_valid(file, entry.alignment, entry.aux_offset, entry.aux_bytes)

------------------------------------------------------------------------------
(* A payload is the data or the auxiliary plane of an entry.               *)

payloads(file) ==
  {<<n, "data">> : n \in DOMAIN file.entries} \cup
  {<<n, "aux">> : n \in {k \in DOMAIN file.entries : file.entries[k].aux_bytes # 0}}

Begin(file, p) == IF p[2] = "data" THEN file.entries[p[1]].data_offset
                                   ELSE file.entries[p[1]].aux_offset
Bytes(file, p) == IF p[2] = "data" THEN file.entries[p[1]].data_bytes
                                   ELSE file.entries[p[1]].aux_bytes
End(file, p) == (Begin(file, p) + Bytes(file, p)) % Word
=============================================================================
