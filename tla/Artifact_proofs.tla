--------------------------- MODULE Artifact_proofs ---------------------------
(***************************************************************************)
(* Two ends of an artifact.  The writers (ArtifactStream), for any number  *)
(* of writers, files and planes of any size: that the final path names     *)
(* only whole artifacts, and that nothing is left behind, rest on one      *)
(* condition that the source does not establish, that no two writers have  *)
(* the same temporary path.  And the lookup of a tensor by name in what    *)
(* was loaded (TensorLookup), for every table, every name and every number *)
(* of probes.                                                              *)
(***************************************************************************)
EXTENDS ArtifactStream, TensorLookup, SequenceTheorems, TLAPS

DistinctTemporaries ==
  \A v, w \in Writer : v # w => Temporary(v) # Temporary(w)

Filling(w) == pc[w] \in {"create", "append", "sync", "close"}

Whole(i) == content[i] = Part /\ disk_content[i] = Part

(* What either directory calls final is whole and synced.                  *)
FinalsWhole ==
  /\ links[Final] # NoInode => Whole(links[Final])
  /\ disk_links[Final] # NoInode => Whole(disk_links[Final])

(* A writer fills the file its temporary path names.                       *)
OwnFile ==
  \A w \in Writer : Filling(w) => fd[w] # NoInode /\ links[Temporary(w)] = fd[w]

(* How far the file of a writer is.                                        *)
ProgressOf(w) ==
  /\ pc[w] = "append" =>
       \A p \in Plane : \A n \in 1..states[w][p] : <<p, n>> \in content[fd[w]]
  /\ pc[w] \in {"sync", "close"} => content[fd[w]] = Part
  /\ pc[w] = "close" => disk_content[fd[w]] = Part
  /\ pc[w] \in {"idle", "create"} => \A p \in Plane : states[w][p] = 0
  /\ pc[w] = "rename" /\ links[Temporary(w)] # NoInode =>
       Whole(links[Temporary(w)])

Progress == \A w \in Writer : ProgressOf(w)

Installing == FinalsWhole /\ OwnFile /\ Progress

------------------------------------------------------------------------------
(* Types *)

LEMMA PartFacts ==
  /\ Manifest \in Part
  /\ \A p \in Plane : \A n \in 1..Size[p] : <<p, n>> \in Part
  /\ \A part \in Part : \/ part = Manifest
                        \/ \E p \in Plane : \E n \in 1..Size[p] : part = <<p, n>>
BY DEF Part

LEMMA PathFacts ==
  Final \in Path /\ \A w \in Writer : Temporary(w) \in Path
BY DEF Path

LEMMA NextChunkType ==
  ASSUME TypeOK, NEW w \in Writer, NEW p \in Plane, states[w][p] < Size[p]
  PROVE  NextChunk(w, p) \in Part
<1>1. states[w][p] + 1 \in 1..Size[p]
  BY SizeAssumption DEF TypeOK
<1> QED
  BY <1>1, PartFacts DEF NextChunk

LEMMA PartlyType ==
  ASSUME TypeOK, NEW w \in Writer
  PROVE  Partly(w) \subseteq Part
BY NextChunkType, PartFacts DEF Partly

LEMMA ReclaimedType ==
  ASSUME NEW c \in [Inode -> SUBSET Part]
  PROVE  /\ Reclaimed(c) \in [Inode -> SUBSET Part]
         /\ \A i \in Inode : i \notin Free' => Reclaimed(c)[i] = c[i]
<1> DEFINE keeps(i) == IF i \in Free' THEN {} ELSE c[i]
<1>1. \A i \in Inode : keeps(i) \in SUBSET Part
  OBVIOUS
<1>2. Reclaimed(c) = [i \in Inode |-> keeps(i)]
  BY DEF Reclaimed
<1> QED
  BY <1>1, <1>2

LEMMA ReclaimType ==
  ASSUME TypeOK, Reclaim
  PROVE  /\ content' \in [Inode -> SUBSET Part]
         /\ disk_content' \in [Inode -> SUBSET Part]
         /\ \A i \in Inode : i \notin Free' => /\ content'[i] = content[i]
                                               /\ disk_content'[i] = disk_content[i]
BY ReclaimedType DEF TypeOK, Reclaim

LEMMA InitType == Init => TypeOK
BY SizeAssumption DEF Init, TypeOK, Nothing

LEMMA NextType ==
  ASSUME TypeOK, [Next]_vars
  PROVE  TypeOK'
<1> USE DEF TypeOK, Goto
<1>1. ASSUME NEW w \in Writer, OpenTemporary(w) PROVE TypeOK'
  <2>1. PICK i \in Inode : /\ links' = [links EXCEPT ![Temporary(w)] = i]
                           /\ fd' = [fd EXCEPT ![w] = i]
    BY <1>1 DEF OpenTemporary, Free
  <2>2. /\ links' \in [Path -> Inode \cup {NoInode}]
        /\ fd' \in [Writer -> Inode \cup {NoInode}]
    BY <2>1, PathFacts
  <2>3. /\ UNCHANGED <<disk_links, content, disk_content, states>>
        /\ killed' \subseteq Writer
        /\ pc' = [pc EXCEPT ![w] = "create"]
    BY <1>1 DEF OpenTemporary
  <2> QED
    BY <2>2, <2>3
<1>2. ASSUME NEW w \in Writer, CreateFails(w) PROVE TypeOK'
  BY <1>2 DEF CreateFails, fileVars
<1>3. ASSUME NEW w \in Writer, WriteDraft(w) PROVE TypeOK'
  BY <1>3 DEF WriteDraft, fileVars, writerVars
<1>4. ASSUME NEW w \in Writer, NEW p \in Plane, AppendData(w, p) PROVE TypeOK'
  <2>1. NextChunk(w, p) \in Part
    BY <1>4, NextChunkType DEF AppendData
  <2>2. content' \in [Inode -> SUBSET Part]
    BY <1>4, <2>1 DEF AppendData, Write
  <2>3. /\ states' \in [Writer -> [Plane -> Nat]]
        /\ \A v \in Writer, q \in Plane : states'[v][q] <= Size[q]
    BY <1>4, SizeAssumption DEF AppendData
  <2> QED
    BY <1>4, <2>2, <2>3 DEF AppendData
<1>5. ASSUME NEW w \in Writer, WriteManifest(w) PROVE TypeOK'
  BY <1>5, PartFacts DEF WriteManifest, Write, writerVars
<1>6. ASSUME NEW w \in Writer, Sync(w) PROVE TypeOK'
  <2>1. fd[w] \in Inode => content[fd[w]] \in SUBSET Part
    OBVIOUS
  <2>2. disk_content' \in [Inode -> SUBSET Part]
    BY <1>6, <2>1 DEF Sync
  <2> QED
    BY <1>6, <2>2 DEF Sync, writerVars
<1>7. ASSUME NEW w \in Writer, Close(w) PROVE TypeOK'
  BY <1>7, ReclaimType DEF Close
<1>8. ASSUME NEW w \in Writer, Rename(w) PROVE TypeOK'
  <2>1. links' \in [Path -> Inode \cup {NoInode}]
    BY <1>8, PathFacts DEF Rename
  <2>2. /\ states' \in [Writer -> [Plane -> Nat]]
        /\ \A v \in Writer, q \in Plane : states'[v][q] <= Size[q]
    BY <1>8, SizeAssumption DEF Rename, Nothing
  <2> QED
    BY <1>8, <2>1, <2>2, ReclaimType DEF Rename
<1>9. ASSUME NEW w \in Writer, CallFails(w) PROVE TypeOK'
  <2>1. PICK written \in {{}} \cup {{part} : part \in Partly(w)} :
          content' = Reclaimed([i \in Inode |-> IF i = fd[w] THEN content[i] \cup written
                                                             ELSE content[i]])
    BY <1>9 DEF CallFails
  <2>2. written \subseteq Part
    BY <2>1, PartlyType
  <2>3. content' \in [Inode -> SUBSET Part]
    BY <2>1, <2>2, ReclaimedType
  <2>4. disk_content' \in [Inode -> SUBSET Part]
    BY <1>9, ReclaimedType DEF CallFails
  <2> QED
    BY <1>9, <2>3, <2>4 DEF CallFails
<1>10. ASSUME NEW w \in Writer, Unlink(w) PROVE TypeOK'
  <2>1. /\ states' \in [Writer -> [Plane -> Nat]]
        /\ \A v \in Writer, q \in Plane : states'[v][q] <= Size[q]
    BY <1>10, SizeAssumption DEF Unlink, Nothing
  <2> QED
    BY <1>10, <2>1, PathFacts, ReclaimType DEF Unlink
<1>11. ASSUME NEW w \in Writer, Kill(w) PROVE TypeOK'
  <2>1. /\ states' \in [Writer -> [Plane -> Nat]]
        /\ \A v \in Writer, q \in Plane : states'[v][q] <= Size[q]
    BY <1>11, SizeAssumption DEF Kill, Nothing
  <2> QED
    BY <1>11, <2>1, ReclaimType DEF Kill
<1>12. ASSUME Commit PROVE TypeOK'
  BY <1>12, ReclaimType DEF Commit, writerVars
<1>13. ASSUME Crash PROVE TypeOK'
  <2>1. PICK lost \in SUBSET Part :
          content' = Reclaimed([i \in Inode |-> content[i] \ (lost \ disk_content[i])])
    BY <1>13 DEF Crash
  <2>2. content' \in [Inode -> SUBSET Part]
    BY <2>1, ReclaimedType
  <2>3. /\ states' \in [Writer -> [Plane -> Nat]]
        /\ \A v \in Writer, q \in Plane : states'[v][q] <= Size[q]
    BY <1>13, SizeAssumption DEF Crash, Nothing
  <2> QED
    BY <1>13, <2>2, <2>3 DEF Crash
<1>14. CASE UNCHANGED vars
  BY <1>14 DEF vars, fileVars, writerVars
<1> QED
  BY <1>1, <1>2, <1>3, <1>4, <1>5, <1>6, <1>7, <1>8, <1>9, <1>10, <1>11, <1>12,
     <1>13, <1>14 DEF Next, WriterStep

(* No system call, failure or crash takes a variable out of its range, and *)
(* no file holds a part that its plan has not declared.                    *)
THEOREM TypeCorrectness == Spec => []TypeOK
BY InitType, NextType, PTL DEF Spec

------------------------------------------------------------------------------
(* What steps keep *)

(* Parts are lost only in a crash or when nobody can see the file.         *)
LEMMA PartsStay ==
  ASSUME TypeOK, [Next]_vars, ~Crash, NEW i \in Inode, i \notin Free'
  PROVE  /\ content[i] \subseteq content'[i]
         /\ disk_content[i] \subseteq disk_content'[i] \/ disk_content'[i] = content[i]
<1> USE DEF TypeOK
<1>1. ASSUME NEW w \in Writer, OpenTemporary(w) \/ CreateFails(w) \/ WriteDraft(w)
      PROVE  content' = content /\ disk_content' = disk_content
  BY <1>1 DEF OpenTemporary, CreateFails, WriteDraft, fileVars
<1>2. ASSUME NEW w \in Writer,
             WriteManifest(w) \/ \E p \in Plane : AppendData(w, p)
      PROVE  content[i] \subseteq content'[i] /\ disk_content' = disk_content
  BY <1>2 DEF WriteManifest, AppendData, Write
<1>3. ASSUME NEW w \in Writer, Sync(w)
      PROVE  /\ content' = content
             /\ disk_content'[i] \in {disk_content[i], content[i]}
  BY <1>3 DEF Sync
<1>4. ASSUME NEW w \in Writer, Close(w) \/ Rename(w) \/ Unlink(w) \/ Kill(w)
      PROVE  content'[i] = content[i] /\ disk_content'[i] = disk_content[i]
  BY <1>4, ReclaimType DEF Close, Rename, Unlink, Kill
<1>5. ASSUME NEW w \in Writer, CallFails(w)
      PROVE  content[i] \subseteq content'[i] /\ disk_content'[i] = disk_content[i]
  <2>1. PICK written \in {{}} \cup {{part} : part \in Partly(w)} :
          content' = Reclaimed([j \in Inode |-> IF j = fd[w] THEN content[j] \cup written
                                                             ELSE content[j]])
    BY <1>5 DEF CallFails
  <2>2. written \subseteq Part
    BY <2>1, PartlyType
  <2>3. content'[i] = IF i = fd[w] THEN content[i] \cup written ELSE content[i]
    BY <2>1, <2>2, ReclaimedType
  <2>4. disk_content'[i] = disk_content[i]
    BY <1>5, ReclaimedType DEF CallFails
  <2> QED
    BY <2>3, <2>4
<1>6. ASSUME Commit
      PROVE  content'[i] = content[i] /\ disk_content'[i] = disk_content[i]
  BY <1>6, ReclaimType DEF Commit
<1>7. CASE UNCHANGED vars
  BY <1>7 DEF vars, fileVars
<1> QED
  BY <1>1, <1>2, <1>3, <1>4, <1>5, <1>6, <1>7 DEF Next, WriterStep

(* A file that is whole and synced stays so while anybody can see it.      *)
LEMMA WholeStays ==
  ASSUME TypeOK, [Next]_vars, NEW i \in Inode, Whole(i), i \notin Free'
  PROVE  content'[i] = Part /\ disk_content'[i] = Part
<1>1. content'[i] \subseteq Part /\ disk_content'[i] \subseteq Part
  BY NextType DEF TypeOK
<1>2. CASE ~Crash
  BY <1>1, <1>2, PartsStay DEF Whole
<1>3. CASE Crash
  <2>1. PICK lost \in SUBSET Part :
          content' = Reclaimed([j \in Inode |-> content[j] \ (lost \ disk_content[j])])
    BY <1>3 DEF Crash
  <2>2. content'[i] = content[i] \ (lost \ disk_content[i])
    BY <2>1, ReclaimedType DEF TypeOK
  <2> QED
    BY <1>3, <2>2 DEF Crash, Whole
<1> QED
  BY <1>2, <1>3

LEMMA LinkedNotFree ==
  ASSUME TypeOK', NEW p \in Path
  PROVE  /\ links'[p] # NoInode => links'[p] \in Inode /\ links'[p] \notin Free'
         /\ disk_links'[p] # NoInode =>
              disk_links'[p] \in Inode /\ disk_links'[p] \notin Free'
BY DEF TypeOK, Free

(* A linked file that was whole before a step is whole after it.           *)
LEMMA LinkStays ==
  ASSUME TypeOK, [Next]_vars, NEW p \in Path, NEW i \in Inode \cup {NoInode},
         i # NoInode => Whole(i)
  PROVE  /\ links'[p] = i /\ i # NoInode =>
              content'[i] = Part /\ disk_content'[i] = Part
         /\ disk_links'[p] = i /\ i # NoInode =>
              content'[i] = Part /\ disk_content'[i] = Part
BY NextType, LinkedNotFree, WholeStays

------------------------------------------------------------------------------
(* The invariant of installation *)

LEMMA InitInstalling == Init => Installing
BY PathFacts DEF Init, Installing, FinalsWhole, OwnFile, Progress, ProgressOf, Filling, Nothing

(* Only a rename changes what is final, and it installs a whole file.      *)
LEMMA FinalsStep ==
  ASSUME TypeOK, Installing, [Next]_vars
  PROVE  FinalsWhole'
<1> DEFINE kept(l) == l # NoInode => Whole(l)
<1>1. /\ links[Final] \in Inode \cup {NoInode} /\ kept(links[Final])
      /\ disk_links[Final] \in Inode \cup {NoInode} /\ kept(disk_links[Final])
  BY PathFacts DEF TypeOK, Installing, FinalsWhole
<1>2. disk_links'[Final] \in {disk_links[Final], links[Final]}
  BY DEF Next, WriterStep, vars, fileVars, OpenTemporary, CreateFails, WriteDraft,
         AppendData, WriteManifest, Sync, Close, Rename, CallFails, Unlink, Kill,
         Commit, Crash
<1>3. CASE \E w \in Writer : Rename(w)
  <2>1. PICK w \in Writer : Rename(w)
    BY <1>3
  <2>2. links'[Final] = links[Temporary(w)]
    BY <2>1, PathFacts, PathAssumption DEF Rename, TypeOK
  <2>3. links[Temporary(w)] \in Inode /\ Whole(links[Temporary(w)])
    BY <2>1, PathFacts DEF Rename, Installing, Progress, ProgressOf, TypeOK
  <2> QED
    BY <1>1, <1>2, <2>2, <2>3, LinkStays, PathFacts DEF FinalsWhole, Whole
<1>4. CASE ~\E w \in Writer : Rename(w)
  <2>1. links'[Final] \in {links[Final], disk_links[Final]}
    BY <1>4, PathAssumption, PathFacts
       DEF TypeOK, Next, WriterStep, vars, fileVars, OpenTemporary, CreateFails,
           WriteDraft, AppendData, WriteManifest, Sync, Close, CallFails, Unlink, Kill,
           Commit, Crash
  <2> QED
    BY <1>1, <1>2, <2>1, LinkStays, PathFacts DEF FinalsWhole, Whole
<1> QED
  BY <1>3, <1>4
------------------------------------------------------------------------------
(* Progress of the writers *)

(* Whoever fills a file keeps its name: no other writer has the same path. *)
LEMMA OwnFileStep ==
  ASSUME TypeOK, DistinctTemporaries, OwnFile, [Next]_vars
  PROVE  OwnFile'
<1> SUFFICES ASSUME NEW w \in Writer, Filling(w)'
             PROVE  fd'[w] # NoInode /\ links'[Temporary(w)] = fd'[w]
  BY DEF OwnFile
<1> USE DEF Filling, Goto
<1>1. CASE OpenTemporary(w)
  BY <1>1, PathFacts, InodeAssumption DEF OpenTemporary, TypeOK, Free
<1>2. ASSUME NEW v \in Writer, v # w, WriterStep(v)
      PROVE  pc'[w] = pc[w] /\ fd'[w] = fd[w] /\ links'[Temporary(w)] = links[Temporary(w)]
  <2>1. Temporary(v) # Temporary(w) /\ Temporary(w) # Final
    BY <1>2, PathAssumption DEF DistinctTemporaries
  <2> QED
    BY <1>2, <2>1, PathFacts
       DEF WriterStep, TypeOK, fileVars, writerVars, OpenTemporary, CreateFails,
           WriteDraft, AppendData, WriteManifest, Sync, Close, Rename, CallFails, Unlink,
           Kill
<1>3. CASE WriterStep(w) /\ ~OpenTemporary(w)
  <2>1. Filling(w) /\ fd'[w] = fd[w] /\ links' = links
    BY <1>3 DEF WriterStep, TypeOK, fileVars, writerVars, CreateFails,
           WriteDraft, AppendData, WriteManifest, Sync, Close, Rename, CallFails, Unlink,
           Kill
  <2> QED
    BY <2>1 DEF OwnFile
<1>4. CASE Commit \/ UNCHANGED vars
  BY <1>4 DEF OwnFile, Commit, vars, fileVars, writerVars
<1>5. CASE Crash
  BY <1>5 DEF Crash
<1> QED
  BY <1>1, <1>2, <1>3, <1>4, <1>5, PathFacts DEF Next, OwnFile

(* The file a writer has open is not free.                                 *)
LEMMA OpenNotFree ==
  ASSUME TypeOK', NEW w \in Writer, fd'[w] # NoInode
  PROVE  fd'[w] \in Inode /\ fd'[w] \notin Free'
BY DEF TypeOK, Free

(* Steps of the others and of the file system do not set a writer back.    *)
LEMMA ProgressOfOthers ==
  ASSUME TypeOK, DistinctTemporaries, OwnFile, Progress, [Next]_vars, ~Crash,
         NEW w \in Writer,
         pc'[w] = pc[w], fd'[w] = fd[w], states'[w] = states[w],
         links'[Temporary(w)] = links[Temporary(w)]
  PROVE  ProgressOf(w)'
<1> DEFINE i == fd[w]
<1>0. TypeOK'
  BY NextType
<1>1. ASSUME Filling(w)
      PROVE  /\ i \in Inode /\ i \notin Free'
             /\ content[i] \subseteq content'[i]
             /\ content'[i] \subseteq Part
             /\ disk_content[i] \subseteq disk_content'[i] \/ disk_content'[i] = content[i]
             /\ disk_content'[i] \subseteq Part
  <2>1. i \in Inode /\ i \notin Free'
    BY <1>0, <1>1, OpenNotFree DEF OwnFile
  <2> QED
    BY <1>0, <2>1, PartsStay DEF TypeOK
<1>2. CASE pc[w] = "append"
  BY <1>1, <1>2 DEF Filling, Progress, ProgressOf
<1>3. CASE pc[w] \in {"sync", "close"}
  <2>1. content[i] = Part /\ (pc[w] = "close" => disk_content[i] = Part)
    BY <1>3 DEF Progress, ProgressOf
  <2>2. content'[i] = Part /\ (pc[w] = "close" => disk_content'[i] = Part)
    BY <1>1, <1>3, <2>1 DEF Filling
  <2> QED
    BY <1>3, <2>2 DEF ProgressOf
<1>4. CASE pc[w] \in {"create", "idle", "unlink"}
  BY <1>4 DEF Progress, ProgressOf
<1>5. CASE pc[w] = "rename"
  <2>1. links[Temporary(w)] \in Inode \cup {NoInode}
    BY PathFacts DEF TypeOK
  <2>2. links[Temporary(w)] # NoInode => Whole(links[Temporary(w)])
    BY <1>5 DEF Progress, ProgressOf
  <2> QED
    BY <1>5, <2>1, <2>2, LinkStays, PathFacts DEF Whole, ProgressOf
<1> QED
  BY <1>2, <1>3, <1>4, <1>5 DEF TypeOK

LEMMA ProgressStep ==
  ASSUME TypeOK, DistinctTemporaries, OwnFile, Progress, [Next]_vars
  PROVE  Progress'
<1> SUFFICES ASSUME NEW w \in Writer
             PROVE  ProgressOf(w)'
  BY DEF Progress
<1> USE DEF Goto
<1>0. TypeOK' /\ OwnFile' /\ ProgressOf(w)
  BY NextType, OwnFileStep DEF Progress
<1>1a. CASE Crash
  <2>1. pc'[w] = "idle" /\ \A p \in Plane : states'[w][p] = 0
    BY <1>1a DEF Crash, Nothing
  <2> QED
    BY <2>1 DEF ProgressOf
<1>12. SUFFICES ASSUME ~Crash PROVE ProgressOf(w)'
  BY <1>1a
<1>1. CASE OpenTemporary(w)
  BY <1>0, <1>1 DEF OpenTemporary, TypeOK, ProgressOf
<1>2. CASE WriteDraft(w)
  BY <1>0, <1>2 DEF WriteDraft, writerVars, TypeOK, ProgressOf
<1>3. ASSUME NEW p \in Plane, AppendData(w, p)
      PROVE  ProgressOf(w)'
  <2>1. /\ fd[w] \in Inode /\ fd'[w] = fd[w]
        /\ pc' = pc /\ pc[w] = "append"
        /\ states' = [states EXCEPT ![w][p] = @ + 1]
    BY <1>0, <1>3 DEF AppendData, OwnFile, Filling, TypeOK
  <2>2. content'[fd[w]] = content[fd[w]] \cup {<<p, states[w][p] + 1>>}
    BY <1>3, <2>1 DEF AppendData, Write, NextChunk, TypeOK
  <2>3. ASSUME NEW q \in Plane, NEW n \in 1..states'[w][q]
        PROVE  <<q, n>> \in content'[fd'[w]]
    <3>1. states[w][q] \in Nat /\ states'[w][q] = IF q = p THEN states[w][q] + 1 ELSE states[w][q]
      BY <2>1 DEF TypeOK
    <3>2. CASE n \in 1..states[w][q]
      BY <1>0, <2>1, <2>2, <3>2 DEF ProgressOf
    <3>3. CASE q = p /\ n = states[w][q] + 1
      BY <2>1, <2>2, <3>3
    <3> QED
      BY <3>1, <3>2, <3>3
  <2> QED
    BY <2>1, <2>3 DEF ProgressOf
<1>4. CASE WriteManifest(w)
  <2>1. /\ fd[w] \in Inode /\ fd'[w] = fd[w] /\ pc[w] = "append" /\ pc'[w] = "sync"
        /\ states[w] = Size
    BY <1>0, <1>4 DEF WriteManifest, writerVars, OwnFile, Filling, TypeOK
  <2>2. content'[fd[w]] = content[fd[w]] \cup {Manifest}
    BY <1>4, <2>1 DEF WriteManifest, Write, TypeOK
  <2>3. Part \subseteq content'[fd[w]]
    BY <1>0, <2>1, <2>2, PartFacts DEF ProgressOf
  <2>4. content'[fd[w]] = Part
    BY <1>0, <2>1, <2>3 DEF TypeOK
  <2> QED
    BY <2>1, <2>4 DEF ProgressOf
<1>5. CASE Sync(w)
  <2>1. /\ fd[w] \in Inode /\ fd'[w] = fd[w] /\ pc[w] = "sync" /\ pc'[w] = "close"
        /\ content' = content /\ disk_content'[fd[w]] = content[fd[w]]
    BY <1>0, <1>5 DEF Sync, writerVars, OwnFile, Filling, TypeOK
  <2> QED
    BY <1>0, <2>1 DEF ProgressOf
<1>6. CASE Close(w)
  <2>1. /\ pc[w] = "close" /\ pc'[w] = "rename"
        /\ links'[Temporary(w)] = fd[w] /\ fd[w] \in Inode
    BY <1>0, <1>6 DEF Close, OwnFile, Filling, TypeOK
  <2>2. Whole(fd[w])
    BY <1>0, <2>1 DEF ProgressOf, Whole
  <2> QED
    BY <2>1, <2>2, LinkStays, PathFacts DEF ProgressOf, Whole
<1>7. CASE Rename(w) \/ Unlink(w) \/ Kill(w)
  <2>1. pc'[w] = "idle" /\ \A p \in Plane : states'[w][p] = 0
    BY <1>7 DEF Rename, Unlink, Kill, Nothing, TypeOK
  <2> QED
    BY <2>1 DEF ProgressOf
<1>8. CASE CreateFails(w) \/ CallFails(w)
  <2>1. pc'[w] = "unlink"
    BY <1>8 DEF CreateFails, CallFails, TypeOK
  <2> QED
    BY <2>1 DEF ProgressOf
<1>9. ASSUME NEW v \in Writer, v # w, WriterStep(v)
      PROVE  ProgressOf(w)'
  <2>1. Temporary(v) # Temporary(w) /\ Temporary(w) # Final
    BY <1>9, PathAssumption DEF DistinctTemporaries
  <2>2. /\ pc'[w] = pc[w] /\ fd'[w] = fd[w] /\ states'[w] = states[w]
        /\ links'[Temporary(w)] = links[Temporary(w)]
    BY <1>9, <2>1, PathFacts
       DEF WriterStep, TypeOK, fileVars, writerVars, OpenTemporary, CreateFails,
           WriteDraft, AppendData, WriteManifest, Sync, Close, Rename, CallFails, Unlink,
           Kill
  <2> QED
    BY <1>12, <2>2, ProgressOfOthers
<1>10. CASE Commit \/ UNCHANGED vars
  BY <1>10, <1>12, ProgressOfOthers DEF Commit, vars, fileVars, writerVars
<1> QED
  BY <1>1, <1>2, <1>3, <1>4, <1>5, <1>6, <1>7, <1>8, <1>9, <1>10, <1>12
     DEF Next, WriterStep
------------------------------------------------------------------------------
(* Theorems *)

(* The invariant of installation holds in every reachable state.           *)
THEOREM InstallInvariance ==
  ASSUME DistinctTemporaries
  PROVE  Spec => [](TypeOK /\ Installing)
<1>1. Init => TypeOK /\ Installing
  BY InitType, InitInstalling
<1>2. TypeOK /\ Installing /\ [Next]_vars => (TypeOK /\ Installing)'
  BY NextType, FinalsStep, OwnFileStep, ProgressStep DEF Installing
<1> QED
  BY <1>1, <1>2, PTL DEF Spec

(* With different temporary paths, whoever opens the final path at any     *)
(* moment and after any crash finds a whole artifact or none.              *)
THEOREM FinalAlwaysComplete ==
  ASSUME DistinctTemporaries
  PROVE  Spec => []FinalComplete
<1>1. TypeOK /\ Installing => FinalComplete
  BY DEF Installing, FinalsWhole, Whole, FinalComplete
<1> QED
  BY <1>1, InstallInvariance, PTL

(* With different temporary paths, a writer that ended by itself left no   *)
(* temporary file.                                                         *)
THEOREM NothingLeftBehind ==
  ASSUME DistinctTemporaries
  PROVE  Spec => []NoLitter
<1>1. Init => NoLitter
  BY PathFacts DEF Init, NoLitter
<1>2. TypeOK /\ NoLitter /\ [Next]_vars => NoLitter'
  <2> SUFFICES ASSUME TypeOK, NoLitter, [Next]_vars, NEW w \in Writer,
                      pc'[w] = "idle", w \notin killed'
               PROVE  links'[Temporary(w)] = NoInode
    BY DEF NoLitter
  <2>1. ASSUME NEW v \in Writer, v # w, WriterStep(v)
        PROVE  /\ pc'[w] = pc[w] /\ (w \in killed <=> w \in killed')
               /\ links'[Temporary(w)] = links[Temporary(w)]
    <3>1. Temporary(v) # Temporary(w) /\ Temporary(w) # Final
      BY <2>1, PathAssumption DEF DistinctTemporaries
    <3> QED
      BY <2>1, <3>1, PathFacts
         DEF WriterStep, TypeOK, Goto, fileVars, writerVars, OpenTemporary, CreateFails,
             WriteDraft, AppendData, WriteManifest, Sync, Close, Rename, CallFails, Unlink,
             Kill
  <2>2. CASE Rename(w) \/ Unlink(w)
    BY <2>2, PathFacts DEF Rename, Unlink, TypeOK
  <2>3. CASE WriterStep(w) /\ ~Rename(w) /\ ~Unlink(w)
    BY <2>3 DEF WriterStep, TypeOK, Goto, OpenTemporary, CreateFails, WriteDraft, AppendData,
                WriteManifest, Sync, Close, CallFails, Kill
  <2>4. CASE Crash
    BY <2>4 DEF Crash
  <2>5. CASE Commit \/ UNCHANGED vars
    BY <2>5 DEF Commit, vars, fileVars, writerVars, NoLitter
  <2> QED
    BY <2>1, <2>2, <2>3, <2>4, <2>5 DEF Next, NoLitter
<1> QED
  BY <1>1, <1>2, TypeCorrectness, PTL DEF Spec

------------------------------------------------------------------------------
(* Looking a tensor up *)

(* What the probes so far have established: everything before the window   *)
(* is smaller than the name, and nothing behind it is.                     *)
Window ==
  lookup_pc = "search" /\ Sorted(device_tensors) =>
    /\ \A i \in 1..first : device_tensors[i] < target
    /\ \A i \in first + count + 1..Len(device_tensors) : device_tensors[i] >= target

LookupInv == TableTypeOK /\ Window /\ LookupCorrect

LEMMA TableType ==
  ASSUME TableTypeOK
  PROVE  /\ Len(device_tensors) \in Nat /\ first \in Nat /\ count \in Nat
         /\ first + count <= Len(device_tensors)
         /\ \A i \in 1..Len(device_tensors) : device_tensors[i] \in Nat
<1>1. Len(device_tensors) \in Nat
  BY LenProperties DEF TableTypeOK
<1>2. \A i \in 1..Len(device_tensors) : device_tensors[i] \in Nat
  BY ElementOfSeq DEF TableTypeOK
<1>3. first \in 0..Len(device_tensors) /\ count \in 0..Len(device_tensors) - first
  BY DEF TableTypeOK
<1>4. first \in Nat /\ Len(device_tensors) - first \in Nat
  BY <1>1, <1>3
<1>5. count \in Nat /\ first + count <= Len(device_tensors)
  BY <1>1, <1>3, <1>4
<1> QED
  BY <1>1, <1>2, <1>4, <1>5

LEMMA Halving ==
  ASSUME NEW n \in Nat, n > 0
  PROVE  n \div 2 \in Nat /\ n \div 2 < n
OBVIOUS

LEMMA InitLookup == LookupInit => LookupInv
<1> SUFFICES ASSUME LookupInit PROVE LookupInv
  OBVIOUS
<1>1. device_tensors \in Seq(Nat)
  <2>1. PICK s \in Inventories : device_tensors = Plan(s, ranking)
    BY DEF LookupInit
  <2>2. s \in Seq(Nat)
    BY <2>1, InventoryAssumption
  <2>3. <<DraftHead, DraftTokenIds>> \in Seq(Nat) /\ <<>> \in Seq(Nat)
    BY NameAssumption
  <2> QED
    BY <2>1, <2>2, <2>3, ConcatProperties DEF Plan
<1>2. Len(device_tensors) \in Nat
  BY <1>1, LenProperties
<1>3. TableTypeOK
  BY <1>1, <1>2, NameAssumption DEF LookupInit, TableTypeOK, Answer, Null
<1> QED
  BY <1>3 DEF LookupInit, LookupInv, Window, LookupCorrect, Answered

LEMMA LookupStep ==
  ASSUME LookupInv, NEW name \in Required \cup {DraftHead, DraftTokenIds},
         Lookup(name)
  PROVE  LookupInv'
<1>1. name \in Nat
  BY NameAssumption
<1>2. Len(device_tensors) \in Nat
  BY TableType DEF LookupInv
<1>3. TableTypeOK'
  <2>1. 0 \in 0..Len(device_tensors)
        /\ Len(device_tensors) \in 0..Len(device_tensors) - 0
    BY <1>2
  <2> QED
    BY <1>1, <2>1 DEF LookupInv, Lookup, bindings, TableTypeOK
<1>4. Window'
  BY <1>2 DEF Lookup, Window
<1>5. LookupCorrect'
  BY DEF Lookup, LookupCorrect, Answered
<1> QED
  BY <1>3, <1>4, <1>5 DEF LookupInv

LEMMA ProbeStep ==
  ASSUME LookupInv, Probe PROVE LookupInv'
<1> DEFINE step == count \div 2
           n == Len(device_tensors)
           middle == device_tensors[first + step + 1]
<1>1. /\ TableTypeOK /\ n \in Nat /\ first \in Nat /\ count \in Nat /\ count > 0
      /\ first + count <= n /\ target \in Nat
      /\ \A i \in 1..n : device_tensors[i] \in Nat
  BY TableType DEF LookupInv, Probe, TableTypeOK
<1>2. step \in Nat /\ step < count
  BY <1>1, Halving
<1> HIDE DEF step
<1>3. first + step + 1 \in 1..n /\ middle \in Nat
  BY <1>1, <1>2
<1>4. /\ UNCHANGED <<device_tensors, ranking, lookup_pc, target, found, ranked_head,
                    token_ids, draft_head>>
      /\ lookup_pc = "search"
      /\ \/ middle < target /\ first' = first + step + 1 /\ count' = count - (step + 1)
         \/ ~(middle < target) /\ first' = first /\ count' = step
  BY DEF Probe, bindings, step
<1>5. first' \in 0..n /\ count' \in 0..n - first' /\ first' + count' <= first + count
  BY <1>1, <1>2, <1>4
<1>6. TableTypeOK'
  BY <1>1, <1>4, <1>5 DEF TableTypeOK
<1>7. Window'
  <2> SUFFICES ASSUME Sorted(device_tensors)
               PROVE  /\ \A i \in 1..first' : device_tensors[i] < target
                      /\ \A i \in first' + count' + 1..n : device_tensors[i] >= target
    BY <1>4 DEF Window, Sorted
  <2>1. /\ \A i \in 1..first : device_tensors[i] < target
        /\ \A i \in first + count + 1..n : device_tensors[i] >= target
    BY <1>4 DEF LookupInv, Window
  <2>2. \A i \in 1..n :
          /\ i < first + step + 1 => device_tensors[i] < middle
          /\ first + step + 1 < i => middle < device_tensors[i]
    BY <1>3 DEF Sorted
  <2>3. CASE middle < target
    <3>1. first' = first + step + 1 /\ first' + count' = first + count
      BY <1>1, <1>2, <1>4, <2>3
    <3>2. ASSUME NEW i \in 1..first' PROVE device_tensors[i] < target
      <4>1. i \in 1..n /\ (i < first + step + 1 \/ i = first + step + 1)
        BY <1>1, <1>2, <3>1
      <4>2. device_tensors[i] \in Nat
        BY <1>1, <4>1
      <4> QED
        BY <1>1, <1>3, <2>2, <2>3, <4>1, <4>2
    <3> QED
      BY <2>1, <3>1, <3>2
  <2>4. CASE ~(middle < target)
    <3>1. first' = first /\ first' + count' + 1 = first + step + 1
      BY <1>1, <1>2, <1>4, <2>4
    <3>2. ASSUME NEW i \in first' + count' + 1..n PROVE device_tensors[i] >= target
      <4>1. i \in 1..n /\ (first + step + 1 < i \/ i = first + step + 1)
        BY <1>1, <1>2, <3>1
      <4>2. device_tensors[i] \in Nat
        BY <1>1, <4>1
      <4> QED
        BY <1>1, <1>3, <2>2, <2>4, <4>1, <4>2
    <3> QED
      BY <2>1, <3>1, <3>2
  <2> QED
    BY <2>3, <2>4
<1>8. LookupCorrect'
  BY <1>4 DEF LookupCorrect, Answered
<1> QED
  BY <1>6, <1>7, <1>8 DEF LookupInv

LEMMA ReturnStep ==
  ASSUME LookupInv, Return PROVE LookupInv'
<1> DEFINE n == Len(device_tensors)
           hit == first < n /\ device_tensors[first + 1] = target
<1>1. /\ TableTypeOK /\ n \in Nat /\ first \in Nat /\ count = 0 /\ first <= n
      /\ target \in Nat /\ \A i \in 1..n : device_tensors[i] \in Nat
  <2>1. TableTypeOK /\ count = 0 /\ target \in Nat
    BY DEF LookupInv, Return, TableTypeOK
  <2>2. /\ n \in Nat /\ first \in Nat /\ first + count <= n
        /\ \A i \in 1..n : device_tensors[i] \in Nat
    BY <2>1, TableType
  <2> QED
    BY <2>1, <2>2
<1>2. /\ UNCHANGED <<device_tensors, ranking, target, first, count, draft_head>>
      /\ lookup_pc = "search" /\ lookup_pc' \in {"idle", "failed"}
      /\ found' = IF hit THEN first + 1 ELSE 0
      /\ ranked_head' \in {ranked_head, found'} /\ token_ids' \in {token_ids, found'}
  BY DEF Return, Null
<1>3. found' \in 0..n
  BY <1>1, <1>2
<1>4. TableTypeOK'
  <2>1. found' \in Nat
    BY <1>1, <1>3
  <2>2. ranked_head' \in Answer /\ token_ids' \in Answer
    BY <1>1, <1>2, <2>1 DEF TableTypeOK, Answer
  <2> QED
    BY <1>1, <1>2, <1>3, <2>2 DEF TableTypeOK
<1>5. Window'
  BY <1>2 DEF Window
<1>6. LookupCorrect'
  <2> SUFFICES ASSUME Sorted(device_tensors)
               PROVE  IF found' = 0
                      THEN \A i \in 1..n : device_tensors[i] # target
                      ELSE device_tensors[found'] = target
    BY <1>2 DEF LookupCorrect, Answered, Null, Sorted
  <2>1. CASE hit
    BY <1>1, <1>2, <2>1
  <2>2. CASE ~hit
    <3>1. /\ \A i \in 1..first : device_tensors[i] < target
          /\ \A i \in first + 1..n : device_tensors[i] >= target
      BY <1>1, <1>2 DEF LookupInv, Window
    <3>2. ASSUME NEW i \in 1..n PROVE device_tensors[i] # target
      <4>1. CASE i <= first
        BY <1>1, <3>1, <4>1
      <4>2. CASE i = first + 1
        BY <1>1, <2>2, <4>2
      <4>3. CASE i > first + 1
        <5>1. first + 1 \in 1..n /\ first + 1 \in first + 1..n
          BY <1>1, <4>3
        <5>2. device_tensors[first + 1] < device_tensors[i]
          BY <4>3, <5>1 DEF Sorted
        <5>3. device_tensors[first + 1] >= target /\ device_tensors[first + 1] \in Nat
              /\ device_tensors[i] \in Nat
          BY <1>1, <3>1, <5>1
        <5> QED
          BY <1>1, <5>2, <5>3
      <4> QED
        BY <1>1, <4>1, <4>2, <4>3
    <3> QED
      BY <1>2, <2>2, <3>2
  <2> QED
    BY <2>1, <2>2
<1> QED
  BY <1>4, <1>5, <1>6 DEF LookupInv

LEMMA BindStep ==
  ASSUME LookupInv, BindDraftHead PROVE LookupInv'
<1>1. TableTypeOK'
  BY DEF LookupInv, BindDraftHead, TableTypeOK
<1>2. Window' /\ LookupCorrect'
  BY DEF LookupInv, BindDraftHead, Window, LookupCorrect, Answered
<1> QED
  BY <1>1, <1>2 DEF LookupInv

THEOREM LookupInvariance == LookupSpec => []LookupInv
<1>1. LookupInit => LookupInv
  BY InitLookup
<1>2. LookupInv /\ [LookupNext]_lookup_vars => LookupInv'
  <2> SUFFICES ASSUME LookupInv, [LookupNext]_lookup_vars PROVE LookupInv'
    OBVIOUS
  <2>1. CASE UNCHANGED lookup_vars
    BY <2>1 DEF lookup_vars, LookupInv, TableTypeOK, Window, LookupCorrect, Answered
  <2> QED
    BY <2>1, LookupStep, ProbeStep, ReturnStep, BindStep DEF LookupNext
<1> QED
  BY <1>1, <1>2, PTL DEF LookupSpec

(* The search never probes outside the table, sorted or not.               *)
THEOREM SearchStaysInTable == LookupSpec => []TableTypeOK
<1>1. LookupInv => TableTypeOK
  BY DEF LookupInv
<1> QED
  BY <1>1, LookupInvariance, PTL

(* In a sorted table find_device_tensor finds exactly the names it holds.  *)
THEOREM LookupsAreCorrect == LookupSpec => []LookupCorrect
<1>1. LookupInv => LookupCorrect
  BY DEF LookupInv
<1> QED
  BY <1>1, LookupInvariance, PTL
=============================================================================
