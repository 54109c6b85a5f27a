---------------------------- MODULE MCEngineLoad -----------------------------
(* Words of 6 bits; alignments of 4 and 8 stand for 256 and 512, entries   *)
(* take 2 bytes of the directory and names 1.                              *)
EXTENDS EngineLoad

Tensor(name, alignment, data_bytes, aux_bytes) ==
  [name |-> name, name_bytes |-> 1, alignment |-> alignment,
   data_bytes |-> data_bytes, aux_bytes |-> aux_bytes]

(* Plans of a resource and two tensors, some too large for a word.         *)
MCPlans ==
  {<<Tensor("resources/r", 4, 3, 0), Tensor("a", a, m, x), Tensor("b", 8, n, y)>> :
     a \in {4, 8}, m \in {0, 1, 5, 20}, x \in {0, 3, 30}, n \in {4, 25}, y \in {0, 2}}
  \cup {<<>>}

(* A file of two entries whose sections and planes are where they like.    *)
Base == Written(<<Tensor("a", 4, 4, 4), Tensor("b", 4, 4, 0)>>)

Moved ==
  {[Base EXCEPT !.entries[1].data_offset = o, !.entries[1].data_bytes = n,
                !.entries[2].data_offset = p] :
     o \in {0, 4, 12, 16, 20, 60}, n \in {0, 1, 4, 6, 63}, p \in {8, 12, 16, 20, 24}}
Shifted ==
  {[Base EXCEPT !.directory_offset = d, !.strings_offset = (d + 4) % Word,
                !.strings_bytes = b, !.data_offset = o, !.entries[2].data_offset = p,
                !.entries[2].data_bytes = 4] :
     d \in {0, 1, 4, 60}, b \in {2, 58}, o \in {0, 6, 12}, p \in {0, 4, 8, 20}}
Damaged ==
  {[Base EXCEPT !.manifest_crc = FALSE], [Base EXCEPT !.entries[1].crc = FALSE],
   [Base EXCEPT !.model = "other"], [Base EXCEPT !.mapped_bytes = 2],
   [Base EXCEPT !.file_bytes = 12], [Base EXCEPT !.entries[2].name = "a"],
   [Base EXCEPT !.entries[1].alignment = 2], [Base EXCEPT !.entries[1].aux_offset = 20]}
(* The directory lists planes in another order than the file has them: the *)
(* arena leaves a gap before the second and would end beyond a word.       *)
Plane3 == Written(<<Tensor("a", 4, 1, 0), Tensor("b", 32, 28, 0), Tensor("c", 4, 8, 0)>>)
Reordered ==
  {[Plane3 EXCEPT !.entries[3].data_offset = o, !.entries[3].data_bytes = n,
                  !.mapped_bytes = 60, !.file_bytes = 60, !.data_bytes = 44] :
     o \in {20, 24}, n \in {2, 8}}
MCFiles == Moved \cup Shifted \cup Damaged \cup Reordered

Config(verify, upload, budget_bytes) ==
  [valid |-> TRUE, verify |-> verify, upload |-> upload, budget |-> budget_bytes]
MCConfigs == {Config(TRUE, TRUE, 0), Config(FALSE, FALSE, 24),
              [Config(TRUE, TRUE, 0) EXCEPT !.valid = FALSE]}
=============================================================================
