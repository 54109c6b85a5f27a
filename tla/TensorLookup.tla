---------------------------- MODULE TensorLookup ----------------------------
(***************************************************************************)
(* How a decode session finds its weights: the order in which the          *)
(* converter plans the tensors of an artifact (make_plan in                *)
(* src/converter.cpp), which the stream writer and the engine's upload     *)
(* loop keep, the binary search by name in Engine::find_device_tensor      *)
(* (src/engine.cpp), one probe a step, and the draft head that             *)
(* QwenDecodeSession::create (src/qwen_runtime.cpp) binds.                 *)
(*                                                                         *)
(* A tensor is its name, and a name is its rank in the order of names.     *)
(***************************************************************************)
EXTENDS Integers, Sequences

CONSTANTS
  Inventories,    \* the source inventories: sorted sequences of names
  Required,       \* the names a session cannot do without
  Rankings,       \* whether the converter was given a draft ranking
  DraftHead,      \* "mtp.draft_head.weight"
  DraftTokenIds   \* "mtp.draft_head_token_ids"

Sorted(s) == \A i, j \in 1..Len(s) : i < j => s[i] < s[j]

ASSUME InventoryAssumption ==
  Inventories # {} /\ \A s \in Inventories : s \in Seq(Nat) /\ Sorted(s)
ASSUME NameAssumption ==
  /\ Required \subseteq Nat /\ Rankings \subseteq BOOLEAN
  /\ DraftHead \in Nat /\ DraftTokenIds \in Nat

VARIABLES
  device_tensors,  \* the names of the resident tensors, in upload order
  ranking,         \* history: the plan holds a ranked draft head
  lookup_pc,              \* "idle", "search", "failed" when create gives up
  target,          \* the name being looked up
  first, count,    \* what lower_bound still has to search
  found,           \* the 1-based answer of the last lookup, or Null
  ranked_head,     \* the answers for the two draft names
  token_ids,
  draft_head       \* the head the session proposes with

lookup_vars == <<device_tensors, ranking, lookup_pc, target, first, count, found,
          ranked_head, token_ids, draft_head>>
bindings == <<ranked_head, token_ids, draft_head>>

Null == 0
Unasked == -1
Answer == {Unasked} \cup Nat

(* make_plan: the derived tensors follow the sorted inventory.             *)
Plan(inventory, with_ranking) ==
  inventory \o (IF with_ranking THEN <<DraftHead, DraftTokenIds>> ELSE <<>>)

LookupInit ==
  /\ ranking \in Rankings
  /\ \E inventory \in Inventories : device_tensors = Plan(inventory, ranking)
  /\ lookup_pc = "idle"
  /\ target = 0 /\ first = 0 /\ count = 0 /\ found = Null
  /\ ranked_head = Unasked /\ token_ids = Unasked
  /\ draft_head = "none"

(* create asks for the ranked head, then for its token map, and for every  *)
(* required tensor before or after.                                        *)
Asked ==
  Required \cup (IF ranked_head = Unasked THEN {DraftHead} ELSE {})
           \cup (IF ranked_head # Unasked /\ token_ids = Unasked
                 THEN {DraftTokenIds} ELSE {})

Lookup(name) ==
  /\ lookup_pc = "idle" /\ name \in Asked
  /\ target' = name
  /\ first' = 0 /\ count' = Len(device_tensors)
  /\ lookup_pc' = "search"
  /\ UNCHANGED <<device_tensors, ranking, found, bindings>>

(* Fault: give up the middle element although it may be the bound.         *)
ProbeTooFar ==
  LET step == count \div 2 IN
  /\ lookup_pc = "search" /\ count > 0
  /\ IF device_tensors[first + step + 1] <= target
     THEN first' = first + step + 1 /\ count' = count - (step + 1)
     ELSE first' = first /\ count' = step
  /\ UNCHANGED <<device_tensors, ranking, lookup_pc, target, found, bindings>>

(* Fault: forget to count the middle element.                              *)
ProbeTooMany ==
  LET step == count \div 2 IN
  /\ lookup_pc = "search" /\ count > 0
  /\ IF device_tensors[first + step + 1] < target
     THEN first' = first + step + 1 /\ count' = count - step
     ELSE first' = first /\ count' = step
  /\ UNCHANGED <<device_tensors, ranking, lookup_pc, target, found, bindings>>

(* One halving of lower_bound.                                             *)
Probe ==
  LET step == count \div 2 IN
  /\ lookup_pc = "search" /\ count > 0
  /\ IF device_tensors[first + step + 1] < target
     THEN first' = first + step + 1 /\ count' = count - (step + 1)
     ELSE first' = first /\ count' = step
  /\ UNCHANGED <<device_tensors, ranking, lookup_pc, target, found, bindings>>

(* The bound is the tensor if it has the name; a required tensor that is   *)
(* not found makes create return an error.                                 *)
Return ==
  LET hit == first < Len(device_tensors) /\ device_tensors[first + 1] = target
      answer == IF hit THEN first + 1 ELSE Null
  IN
  /\ lookup_pc = "search" /\ count = 0
  /\ found' = answer
  /\ ranked_head' = IF target = DraftHead THEN answer ELSE ranked_head
  /\ token_ids' = IF target = DraftTokenIds THEN answer ELSE token_ids
  /\ lookup_pc' = IF answer = Null /\ target \notin {DraftHead, DraftTokenIds}
           THEN "failed" ELSE "idle"
  /\ UNCHANGED <<device_tensors, ranking, target, first, count, draft_head>>

(* Both draft tensors or neither; without them the first rows of the LM    *)
(* head stand in.                                                          *)
BindDraftHead ==
  /\ lookup_pc = "idle" /\ draft_head = "none"
  /\ ranked_head # Unasked /\ token_ids # Unasked
  /\ IF (ranked_head = Null) # (token_ids = Null)
     THEN lookup_pc' = "failed" /\ UNCHANGED draft_head
     ELSE /\ draft_head' = IF ranked_head = Null THEN "lm_head prefix" ELSE "ranked"
          /\ UNCHANGED lookup_pc
  /\ UNCHANGED <<device_tensors, ranking, target, first, count, found,
                 ranked_head, token_ids>>

LookupNext ==
  \/ \E name \in Required \cup {DraftHead, DraftTokenIds} : Lookup(name)
  \/ Probe \/ Return \/ BindDraftHead

LookupSpec == LookupInit /\ [][LookupNext]_lookup_vars

------------------------------------------------------------------------------
(* Properties *)

(* The search stays inside the table.                                      *)
TableTypeOK ==
  /\ device_tensors \in Seq(Nat) /\ ranking \in BOOLEAN
  /\ lookup_pc \in {"idle", "search", "failed"}
  /\ target \in Nat
  /\ first \in 0..Len(device_tensors)
  /\ count \in 0..Len(device_tensors) - first
  /\ found \in 0..Len(device_tensors)
  /\ ranked_head \in Answer /\ token_ids \in Answer
  /\ draft_head \in {"none", "ranked", "lm_head prefix"}

(* find_device_tensor answers with the tensor of that name whenever the    *)
(* table holds one, and with null otherwise, if the table is sorted.       *)
Answered == lookup_pc # "search" /\ target # 0

LookupCorrect ==
  Answered /\ Sorted(device_tensors) =>
    IF found = Null THEN \A i \in 1..Len(device_tensors) : device_tensors[i] # target
                    ELSE device_tensors[found] = target

(* A session over an artifact that holds a ranked draft head proposes from *)
(* it: docs/ARCHITECTURE.md:29 has each registered tensor bound to its     *)
(* consumer during load, and docs/ROADMAP.md:41 lists the ranked shortlist *)
(* as active.                                                              *)
RankedHeadBound ==
  ranking /\ draft_head # "none" => draft_head = "ranked"
=============================================================================
