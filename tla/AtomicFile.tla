----------------------------- MODULE AtomicFile -----------------------------
(***************************************************************************)
(* AtomicWriteFile of PafioCore/AtomicFile.cpp (the POSIX build), called   *)
(* by several processes for one target, down to the system calls: mkstemp, *)
(* write, fsync, close, rename and fsync of the directory, with errors of  *)
(* each, kills and losses of power.                                        *)
(*                                                                         *)
(* A file is its data and whether the data reached the disk.  The target's *)
(* directory entry may lag: until the directory is synchronized a loss of  *)
(* power may bring back any file the entry named since the last time.      *)
(***************************************************************************)
EXTENDS Integers, FiniteSets, TLC

CONSTANTS
  Writer,      \* concurrent calls of AtomicWriteFile for the target
  Content,     \* what they write
  Name,        \* the names mkstemp draws from
  Faults,      \* a subset of {"io", "remove", "kill", "power"}
  NoContent,   \* no file
  NoName       \* no temporary file

ASSUME AtomicFileAssumption ==
  /\ Faults \subseteq {"io", "remove", "kill", "power"}
  /\ NoContent \notin Content
  /\ "partial" \notin Content \cup {NoContent}
  /\ NoName \notin Name

\* "partial": not all bytes were written, or not all of them reached the disk.
File == [data : Content \cup {"partial"}, synced : BOOLEAN]
Missing == [data |-> NoContent, synced |-> TRUE]

VARIABLES
  target,   \* the file the target's directory entry names
  onDisk,   \* the files that entry may name after a loss of power
  temp,     \* [Name -> the temporary file of that name]
  phase,    \* [Writer -> the system call it makes next]
  content,  \* [Writer -> what it writes]
  name      \* [Writer -> its temporary file]

vars == <<target, onDisk, temp, phase, content, name>>

\* Not called yet, or killed; returned; thrown.
Resting == {"idle", "ok", "failed"}
Phases == Resting \cup {"create", "write", "sync", "close", "rename", "syncDir",
                        "cleanup"}

TypeOK ==
  /\ target \in File \cup {Missing}
  /\ onDisk \in SUBSET (File \cup {Missing})
  /\ temp \in [Name -> File \cup {Missing}]
  /\ phase \in [Writer -> Phases]
  /\ content \in [Writer -> Content \cup {NoContent}]
  /\ name \in [Writer -> Name \cup {NoName}]

Init ==
  /\ target \in {Missing} \cup [data : Content, synced : {TRUE}]
  /\ onDisk = {target}
  /\ temp = [n \in Name |-> Missing]
  /\ phase = [w \in Writer |-> "idle"]
  /\ content = [w \in Writer |-> NoContent]
  /\ name = [w \in Writer |-> NoName]

Goto(w, next) == phase' = [phase EXCEPT ![w] = next]

Return(w, how) ==
  /\ Goto(w, how)
  /\ content' = [content EXCEPT ![w] = NoContent]
  /\ name' = [name EXCEPT ![w] = NoName]

Start(w, c) ==
  /\ phase[w] \in Resting
  /\ content' = [content EXCEPT ![w] = c]
  /\ Goto(w, "create")
  /\ UNCHANGED <<target, onDisk, temp, name>>

\* mkstemp creates an entry that did not exist.  It draws from 62^6 names, so
\* that it draws one another call still remembers is left out.
CreateTemp(w) ==
  /\ phase[w] = "create"
  /\ \E n \in Name :
       /\ temp[n] = Missing
       /\ \A v \in Writer : name[v] # n
       /\ temp' = [temp EXCEPT ![n] = [data |-> "partial", synced |-> FALSE]]
       /\ name' = [name EXCEPT ![w] = n]
  /\ Goto(w, "write")
  /\ UNCHANGED <<target, onDisk, content>>

\* The loop over write(2): it may write less than asked, or be interrupted.
WriteAll(w) ==
  /\ phase[w] = "write"
  /\ temp' = [temp EXCEPT ![name[w]] =
                [data |-> content[w], synced |-> FALSE]]
  /\ Goto(w, "sync")
  /\ UNCHANGED <<target, onDisk, content, name>>

\* Variant: the data stay in the page cache.
SyncTemp_Skipped(w) ==
  /\ phase[w] = "sync"
  /\ Goto(w, "close")
  /\ UNCHANGED <<target, onDisk, temp, content, name>>

SyncTemp(w) ==
  /\ phase[w] = "sync"
  /\ temp' = [temp EXCEPT ![name[w]] = [data |-> @.data, synced |-> TRUE]]
  /\ Goto(w, "close")
  /\ UNCHANGED <<target, onDisk, content, name>>

CloseTemp(w) ==
  /\ phase[w] = "close"
  /\ Goto(w, "rename")
  /\ UNCHANGED <<target, onDisk, temp, content, name>>

Rename(w) ==
  /\ phase[w] = "rename"
  /\ target' = temp[name[w]]
  /\ onDisk' = onDisk \cup {target'}
  /\ temp' = [temp EXCEPT ![name[w]] = Missing]
  /\ Goto(w, "syncDir")
  /\ UNCHANGED <<content, name>>

\* Variant: the directory is not synchronized.
SyncParent_Skipped(w) ==
  /\ phase[w] = "syncDir"
  /\ Return(w, "ok")
  /\ UNCHANGED <<target, onDisk, temp>>

\* SynchronizeParentDirectory; then the call returns.
SyncParent(w) ==
  /\ phase[w] = "syncDir"
  /\ onDisk' = {target}
  /\ Return(w, "ok")
  /\ UNCHANGED <<target, temp>>

\* Variant: an error after the rename was prepared skips the catch block.
CallFails_Leaks(w) ==
  /\ "io" \in Faults
  /\ phase[w] \in Phases \ (Resting \cup {"cleanup"})
  /\ IF phase[w] \in {"create", "rename", "syncDir"} THEN Return(w, "failed")
     ELSE Goto(w, "cleanup") /\ UNCHANGED <<content, name>>
  /\ UNCHANGED <<target, onDisk, temp>>

\* A system call fails.  mkstemp failed outside the try block; every other
\* error, also one after the rename, reaches the catch block.  A write that
\* failed may have written some of its bytes, a close that failed none less.
CallFails(w) ==
  /\ "io" \in Faults
  /\ phase[w] \in Phases \ (Resting \cup {"cleanup"})
  /\ IF phase[w] = "create" THEN Return(w, "failed")
     ELSE Goto(w, "cleanup") /\ UNCHANGED <<content, name>>
  /\ UNCHANGED <<target, onDisk, temp>>

\* RemoveTemporaryFile ignores its own error; the temporary file may be gone
\* already (it became the target).
RemoveTemp(w) ==
  /\ phase[w] = "cleanup"
  /\ \/ temp' = [temp EXCEPT ![name[w]] = Missing]
     \/ "remove" \in Faults /\ UNCHANGED temp
  /\ Return(w, "failed")
  /\ UNCHANGED <<target, onDisk>>

Kill(w) ==
  /\ "kill" \in Faults
  /\ phase[w] \notin Resting
  /\ Return(w, "idle")
  /\ UNCHANGED <<target, onDisk, temp>>

\* Data that were not synchronized may be lost.
AfterPowerLoss(f) ==
  {[data |-> d, synced |-> TRUE] :
     d \in {f.data} \cup IF f.synced THEN {} ELSE {"partial"}}

PowerLoss ==
  /\ "power" \in Faults
  /\ \E f \in onDisk : target' \in AfterPowerLoss(f)
  /\ onDisk' = {target'}
  /\ temp' \in {t \in [Name -> {Missing} \cup
                               UNION {AfterPowerLoss(temp[n]) : n \in Name}] :
                 \A n \in Name : t[n] \in {Missing} \cup AfterPowerLoss(temp[n])}
  /\ phase' = [w \in Writer |-> "idle"]
  /\ content' = [w \in Writer |-> NoContent]
  /\ name' = [w \in Writer |-> NoName]

Call(w) ==
  \/ CreateTemp(w) \/ WriteAll(w) \/ SyncTemp(w) \/ CloseTemp(w)
  \/ Rename(w) \/ SyncParent(w)
  \/ CallFails(w) \/ RemoveTemp(w)

Next ==
  \/ \E w \in Writer :
       \/ \E c \in Content : Start(w, c)
       \/ Call(w)
       \/ Kill(w)
  \/ PowerLoss

Spec == Init /\ [][Next]_vars

-----------------------------------------------------------------------------
(* Properties.                                                              *)

\* Whatever fails, is killed or loses power: the target is absent or holds all
\* bytes of one call, for readers now and after the next loss of power.
TargetIsWhole ==
  \A f \in onDisk \cup {target} : f # Missing => f.data \in Content /\ f.synced

\* A call that returns or throws has left no temporary file beside the target,
\* wherever it failed, unless it was the removal that failed.
NoLitter ==
  [][\A w \in Writer :
       name[w] # NoName /\ phase'[w] \in {"ok", "failed"} =>
         \/ temp'[name[w]] = Missing
         \/ phase[w] = "cleanup" /\ UNCHANGED temp]_vars

\* The call as DurableRegister sees it.
Pending(w) ==
  IF phase[w] \in Resting THEN [state |-> phase[w], content |-> NoContent]
  ELSE [state |-> IF \/ phase[w] = "syncDir"
                     \/ phase[w] = "cleanup" /\ temp[name[w]] = Missing
                    THEN "done" ELSE "called",
        content |-> content[w]]

Register ==
  INSTANCE DurableRegister
    WITH value <- target.data,
         revealable <- {f.data : f \in onDisk},
         pending <- [w \in Writer |-> Pending(w)]

\* AtomicWriteFile implements the register its callers rely on.
ImplementsRegister == Register!RegisterSpec
=============================================================================
