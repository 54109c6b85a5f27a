--------------------------- MODULE ArtifactStream ---------------------------
(***************************************************************************)
(* ArtifactStreamWriter (src/artifact.cpp): an artifact is written into a  *)
(* temporary file of its final size, in any order of its planes, and       *)
(* installed under its final name by a rename once header, manifest and    *)
(* payload are complete and synced.  Several writers install artifacts at  *)
(* the same path; a temporary path ends with the writer's process number,  *)
(* so writers of one process, or of two containers with equal numbers,     *)
(* share it.  Every system call is a step and can fail; processes can be   *)
(* killed and the machine can crash.                                       *)
(*                                                                         *)
(* A file is the set of the parts that are in it.  A crash takes the       *)
(* directory back to some earlier state (no call syncs it) and leaves any  *)
(* of the parts that were written since a file was last synced.            *)
(***************************************************************************)
EXTENDS Naturals, FiniteSets

CONSTANTS
  Writer,
  Temporary(_),   \* temporary_path of a writer
  Final,          \* final_path, the same for all
  Inode,          \* files; a deleted one can be used again
  NoInode,
  Plane,          \* the data and auxiliary planes of the tensors
  Size            \* the declared size of a plane, in appended chunks

ASSUME PathAssumption == \A w \in Writer : Temporary(w) # Final
ASSUME InodeAssumption == NoInode \notin Inode
ASSUME SizeAssumption == Size \in [Plane -> Nat]

VARIABLES
  links,         \* the directory: path to file
  disk_links,    \* the directory on disk
  content,       \* the parts that reads of a file return
  disk_content,  \* the parts that are on disk for certain
  pc,            \* where each writer is; "idle" before create and at the end
  fd,            \* the file a writer has open
  states,        \* chunks a writer has appended to each plane
  killed         \* history: writers that were killed before they could end

fileVars == <<links, disk_links, content, disk_content>>
writerVars == <<fd, states, killed>>
vars == <<fileVars, pc, writerVars>>

Path == {Final} \cup {Temporary(w) : w \in Writer}

(* The parts of a file: the chunks of the planes, and the manifest with    *)
(* the header that holds its checksum.                                     *)
Manifest == <<"manifest">>
Part == {Manifest} \cup UNION {{<<p, n>> : n \in 1..Size[p]} : p \in Plane}

Nothing == [p \in Plane |-> 0]

Init ==
  /\ links = [p \in Path |-> NoInode] /\ disk_links = links
  /\ content = [i \in Inode |-> {}] /\ disk_content = content
  /\ pc = [w \in Writer |-> "idle"]
  /\ fd = [w \in Writer |-> NoInode]
  /\ states = [w \in Writer |-> Nothing]
  /\ killed = {}

Goto(w, label) == pc' = [pc EXCEPT ![w] = label]

Free ==
  {i \in Inode : /\ \A p \in Path : i \notin {links[p], disk_links[p]}
                 /\ \A w \in Writer : fd[w] # i}

(* The space of a file that no path names and no writer has open is given  *)
(* back; c is what the files would hold.                                   *)
Reclaimed(c) == [i \in Inode |-> IF i \in Free' THEN {} ELSE c[i]]

Reclaim ==
  /\ content' = Reclaimed(content)
  /\ disk_content' = Reclaimed(disk_content)

------------------------------------------------------------------------------
(* create *)

(* open with O_CREAT and O_EXCL.                                           *)
OpenTemporary(w) ==
  /\ pc[w] = "idle" /\ links[Temporary(w)] = NoInode
  /\ \E i \in Free :
       /\ links' = [links EXCEPT ![Temporary(w)] = i]
       /\ fd' = [fd EXCEPT ![w] = i]
  /\ killed' = killed \ {w}
  /\ Goto(w, "create")
  /\ UNCHANGED <<disk_links, content, disk_content, states>>

(* The identity, a plan or open itself is rejected: the writer is          *)
(* destroyed with its temporary path set.                                  *)
CreateFails(w) ==
  /\ pc[w] = "idle"
  /\ killed' = killed \ {w}
  /\ Goto(w, "unlink")
  /\ UNCHANGED <<fileVars, fd, states>>

(* The size, and a header and directory without checksums, which no reader *)
(* accepts.                                                                *)
WriteDraft(w) ==
  /\ pc[w] = "create"
  /\ Goto(w, "append")
  /\ UNCHANGED <<fileVars, writerVars>>

------------------------------------------------------------------------------
(* append_data and append_auxiliary, finalize *)

Write(w, part) == content' = [content EXCEPT ![fd[w]] = @ \cup {part}]

NextChunk(w, p) == <<p, states[w][p] + 1>>

(* Fault: do not compare with the declared size.                           *)
AppendUnchecked(w, p) ==
  /\ pc[w] = "append" /\ states[w][p] <= Size[p]
  /\ Write(w, NextChunk(w, p))
  /\ states' = [states EXCEPT ![w][p] = @ + 1]
  /\ UNCHANGED <<links, disk_links, disk_content, pc, fd, killed>>

AppendData(w, p) ==
  /\ pc[w] = "append" /\ states[w][p] < Size[p]
  /\ Write(w, NextChunk(w, p))
  /\ states' = [states EXCEPT ![w][p] = @ + 1]
  /\ UNCHANGED <<links, disk_links, disk_content, pc, fd, killed>>

(* Fault: do not test that every plane is complete.                        *)
WriteManifestEarly(w) ==
  /\ pc[w] = "append"
  /\ Write(w, Manifest)
  /\ Goto(w, "sync")
  /\ UNCHANGED <<links, disk_links, disk_content, writerVars>>

WriteManifest(w) ==
  /\ pc[w] = "append" /\ states[w] = Size
  /\ Write(w, Manifest)
  /\ Goto(w, "sync")
  /\ UNCHANGED <<links, disk_links, disk_content, writerVars>>

(* Fault: leave it to the system to write the file back.                   *)
SyncLater(w) ==
  /\ pc[w] = "sync"
  /\ Goto(w, "close")
  /\ UNCHANGED <<fileVars, writerVars>>

Sync(w) ==
  /\ pc[w] = "sync"
  /\ disk_content' = [disk_content EXCEPT ![fd[w]] = content[fd[w]]]
  /\ Goto(w, "close")
  /\ UNCHANGED <<links, disk_links, content, writerVars>>

Close(w) ==
  /\ pc[w] = "close"
  /\ fd' = [fd EXCEPT ![w] = NoInode]
  /\ Goto(w, "rename")
  /\ UNCHANGED <<links, disk_links, states, killed>>
  /\ Reclaim

(* Whatever the temporary path names by now is installed.                  *)
Rename(w) ==
  /\ pc[w] = "rename" /\ links[Temporary(w)] # NoInode
  /\ links' = [links EXCEPT ![Final] = links[Temporary(w)],
                            ![Temporary(w)] = NoInode]
  /\ states' = [states EXCEPT ![w] = Nothing]
  /\ Goto(w, "idle")
  /\ UNCHANGED <<disk_links, fd, killed>>
  /\ Reclaim

------------------------------------------------------------------------------
(* Failures *)

(* What the call a writer is in can have written before it fails.          *)
Partly(w) ==
  CASE pc[w] = "append" /\ states[w] = Size -> {Manifest}
    [] pc[w] = "append" -> {NextChunk(w, p) : p \in {q \in Plane : states[w][q] < Size[q]}}
    [] OTHER -> {}

(* A call fails; the callers then drop the writer, which closes its file.  *)
CallFails(w) ==
  /\ pc[w] \in {"create", "append", "sync", "close", "rename"}
  /\ fd' = [fd EXCEPT ![w] = NoInode]
  /\ Goto(w, "unlink")
  /\ UNCHANGED <<links, disk_links, states, killed>>
  /\ \E written \in {{}} \cup {{part} : part \in Partly(w)} :
       content' = Reclaimed([i \in Inode |-> IF i = fd[w] THEN content[i] \cup written
                                                          ELSE content[i]])
  /\ disk_content' = Reclaimed(disk_content)

(* Fault: the destructor closes the file and leaves it.                    *)
UnlinkNothing(w) ==
  /\ pc[w] = "unlink"
  /\ states' = [states EXCEPT ![w] = Nothing]
  /\ Goto(w, "idle")
  /\ UNCHANGED <<fileVars, fd, killed>>

(* The destructor of a writer that is not finalized removes the path.      *)
Unlink(w) ==
  /\ pc[w] = "unlink"
  /\ links' = [links EXCEPT ![Temporary(w)] = NoInode]
  /\ states' = [states EXCEPT ![w] = Nothing]
  /\ Goto(w, "idle")
  /\ UNCHANGED <<disk_links, fd, killed>>
  /\ Reclaim

Kill(w) ==
  /\ pc[w] # "idle"
  /\ fd' = [fd EXCEPT ![w] = NoInode]
  /\ states' = [states EXCEPT ![w] = Nothing]
  /\ killed' = killed \cup {w}
  /\ Goto(w, "idle")
  /\ UNCHANGED <<links, disk_links>>
  /\ Reclaim

(* The file system writes the directory back.                              *)
Commit ==
  /\ disk_links # links
  /\ disk_links' = links
  /\ UNCHANGED <<links, pc, writerVars>>
  /\ Reclaim

(* Of the parts that were not synced any can be lost.                      *)
Crash ==
  /\ links' = disk_links
  /\ pc' = [w \in Writer |-> "idle"]
  /\ fd' = [w \in Writer |-> NoInode]
  /\ states' = [w \in Writer |-> Nothing]
  /\ killed' = Writer
  /\ UNCHANGED disk_links
  /\ \E lost \in SUBSET Part :
       content' = Reclaimed([i \in Inode |-> content[i] \ (lost \ disk_content[i])])
  /\ disk_content' = content'

WriterStep(w) ==
  \/ OpenTemporary(w) \/ CreateFails(w) \/ WriteDraft(w)
  \/ \E p \in Plane : AppendData(w, p)
  \/ WriteManifest(w) \/ Sync(w) \/ Close(w) \/ Rename(w)
  \/ CallFails(w) \/ Unlink(w) \/ Kill(w)

Next == (\E w \in Writer : WriterStep(w)) \/ Commit \/ Crash

Spec == Init /\ [][Next]_vars

------------------------------------------------------------------------------
(* Properties *)

(* Every variable stays in its range; no file holds a part its plan has    *)
(* not declared.                                                           *)
TypeOK ==
  /\ links \in [Path -> Inode \cup {NoInode}]
  /\ disk_links \in [Path -> Inode \cup {NoInode}]
  /\ content \in [Inode -> SUBSET Part]
  /\ disk_content \in [Inode -> SUBSET Part]
  /\ pc \in [Writer -> {"idle", "create", "append", "sync", "close", "rename",
                        "unlink"}]
  /\ fd \in [Writer -> Inode \cup {NoInode}]
  /\ states \in [Writer -> [Plane -> Nat]]
  /\ \A w \in Writer, p \in Plane : states[w][p] <= Size[p]
  /\ killed \subseteq Writer

(* The final path never names anything but a whole artifact, to a reader   *)
(* who opens it at any moment and after any crash: the streamer is atomic, *)
(* as docs/ROADMAP.md:18 says.                                             *)
FinalComplete == links[Final] # NoInode => content[links[Final]] = Part

(* A writer that ended by itself, by installing its artifact or by an      *)
(* error, left no temporary file behind, not even that of a killed         *)
(* predecessor with the same number.                                       *)
NoLitter ==
  \A w \in Writer : pc[w] = "idle" /\ w \notin killed => links[Temporary(w)] = NoInode
=============================================================================
