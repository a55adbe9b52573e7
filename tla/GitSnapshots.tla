---------------------------- MODULE GitSnapshots ----------------------------
(***************************************************************************)
(* One revision of one git source: the mirror and the unpacked snapshot in *)
(* the cache that all pafio processes of a user share (GitSourceCache in   *)
(* PafioResolve/Resolver.cpp), and the copy of the snapshot in a project's *)
(* vendor directory (PafioVendor/Vendor.cpp).  No lock is taken for any of *)
(* the three.                                                              *)
(***************************************************************************)
EXTENDS Integers, TLC

CONSTANTS
  Proc,        \* pafio processes, each runs one command after another
  Manifest,    \* the pafio.toml of the snapshot
  Source,      \* the rest of it
  Marker,      \* .pafio-snapshot-ready
  Vendors,     \* bound on the runs of pafio vendor
  Mishaps,     \* a subset of {"crash", "step", "purge"}
  None         \* no place

ASSUME SnapshotAssumption ==
  /\ Manifest # Source /\ Marker \notin {Manifest, Source}
  /\ None \notin {"cache", "vendor"}
  /\ Vendors \in Nat
  /\ Mishaps \subseteq {"crash", "step", "purge"}

Files == {Manifest, Source}
Tree == SUBSET (Files \cup {Marker})
Place == {"cache", "vendor"}

VARIABLES
  mirror,    \* "none", "partial" (being cloned, or what is left of that), "ready"
  archive,   \* "none", "partial", "whole"
  tree,      \* [Place -> what is in the snapshot's directory there]
  at,        \* what a process does next
  command,   \* "resolve" or "vendor"
  offline,   \* its --offline
  place,     \* where it found the snapshot
  inside,    \* its tar is in the directory that is there
  todo,      \* what tar, or the copy, has still to write
  vendors,   \* runs of pafio vendor so far
  vendored,  \* history: pafio vendor has succeeded
  shared     \* history: two commands have been at it at once

request == <<command, offline, vendors>>
locals == <<place, inside, todo>>
snapshotVars == <<mirror, archive, tree, at, request, locals, vendored, shared>>

SnapshotPhases ==
  {"idle", "find", "mirror", "cloneStart", "clone", "revision", "snapshot", "clear",
   "archive", "archiving", "list", "extract", "have", "clearVendor", "copyStart",
   "copy"}

SnapshotTypeOK ==
  /\ mirror \in {"none", "partial", "ready"}
  /\ archive \in {"none", "partial", "whole"}
  /\ tree \in [Place -> Tree]
  /\ at \in [Proc -> SnapshotPhases]
  /\ command \in [Proc -> {"resolve", "vendor"}]
  /\ offline \in [Proc -> BOOLEAN]
  /\ place \in [Proc -> Place \cup {None}]
  /\ inside \in [Proc -> BOOLEAN]
  /\ todo \in [Proc -> Tree]
  /\ vendors \in 0..Vendors
  /\ vendored \in BOOLEAN
  /\ shared \in BOOLEAN
  /\ \A p \in Proc :
       place[p] # None <=> at[p] \in {"have", "clearVendor", "copyStart", "copy"}

SnapshotInit ==
  /\ mirror = "none"
  /\ archive = "none"
  /\ tree = [l \in Place |-> {}]
  /\ at = [p \in Proc |-> "idle"]
  /\ command = [p \in Proc |-> "resolve"]
  /\ offline = [p \in Proc |-> FALSE]
  /\ place = [p \in Proc |-> None]
  /\ inside = [p \in Proc |-> FALSE]
  /\ todo = [p \in Proc |-> {}]
  /\ vendors = 0
  /\ vendored = FALSE
  /\ shared = FALSE

Proceed(p, next) == at' = [at EXCEPT ![p] = next]

\* The command is over, well or not.
End(p) ==
  /\ Proceed(p, "idle")
  /\ place' = [place EXCEPT ![p] = None]
  /\ inside' = [inside EXCEPT ![p] = FALSE]
  /\ todo' = [todo EXCEPT ![p] = {}]

\* An external step fails; only then.
Fails(p) == "step" \in Mishaps /\ End(p)

StartCommand(p, cmd, off) ==
  /\ at[p] = "idle"
  /\ cmd = "vendor" => vendors < Vendors
  /\ vendors' = IF cmd = "vendor" THEN vendors + 1 ELSE vendors
  /\ command' = [command EXCEPT ![p] = cmd]
  /\ offline' = [offline EXCEPT ![p] = off]
  /\ Proceed(p, "find")
  /\ shared' = (shared \/ \E q \in Proc : at[q] # "idle")
  /\ UNCHANGED <<mirror, archive, tree, locals, vendored>>

-----------------------------------------------------------------------------
(* Materialize.                                                             *)

\* Variant: the vendored copy is a matter of being online.
FindVendored_Online(p) ==
  /\ at[p] = "find"
  /\ IF ~offline[p] /\ tree["vendor"] \cap {Marker, Manifest} # {}
       THEN place' = [place EXCEPT ![p] = "vendor"] /\ Proceed(p, "have")
       ELSE Proceed(p, "mirror") /\ UNCHANGED place
  /\ UNCHANGED <<mirror, archive, tree, request, inside, todo, vendored, shared>>

\* FindVendoredSnapshot: a marker, or a manifest, makes it one.
FindVendored(p) ==
  /\ at[p] = "find"
  /\ IF tree["vendor"] \cap {Marker, Manifest} # {}
       THEN place' = [place EXCEPT ![p] = "vendor"] /\ Proceed(p, "have")
       ELSE Proceed(p, "mirror") /\ UNCHANGED place
  /\ UNCHANGED <<mirror, archive, tree, request, inside, todo, vendored, shared>>

LookForMirror(p) ==
  /\ at[p] = "mirror"
  /\ \/ mirror # "none" /\ Proceed(p, "revision") /\ UNCHANGED locals
     \/ /\ mirror = "none" /\ ~offline[p]
        /\ Proceed(p, "cloneStart")
        /\ UNCHANGED locals
     \/ mirror = "none" /\ offline[p] /\ End(p)
  /\ UNCHANGED <<mirror, archive, tree, request, vendored, shared>>

\* git clone refuses a directory that another process has made meanwhile.
CloneStart(p) ==
  /\ at[p] = "cloneStart"
  /\ IF mirror = "none"
       THEN mirror' = "partial" /\ Proceed(p, "clone") /\ UNCHANGED locals
       ELSE End(p) /\ UNCHANGED mirror
  /\ UNCHANGED <<archive, tree, request, vendored, shared>>

\* A clone that fails removes what it made, one that is killed does not.
Clone(p) ==
  /\ at[p] = "clone"
  /\ \/ mirror' = "ready" /\ Proceed(p, "revision") /\ UNCHANGED locals
     \/ mirror' = "none" /\ Fails(p)
  /\ UNCHANGED <<archive, tree, request, vendored, shared>>

\* HasRevision, and FetchOrigin if it has not, which may complete a partial mirror.
Revision(p) ==
  /\ at[p] = "revision"
  /\ \/ mirror = "ready" /\ Proceed(p, "snapshot") /\ UNCHANGED <<mirror, locals>>
     \/ /\ mirror = "partial" /\ ~offline[p]
        /\ mirror' = "ready"
        /\ Proceed(p, "snapshot")
        /\ UNCHANGED locals
     \/ mirror # "ready" /\ End(p) /\ UNCHANGED mirror
     \/ Fails(p) /\ UNCHANGED mirror
  /\ UNCHANGED <<archive, tree, request, vendored, shared>>

\* EnsureSnapshot: the marker says all is there.
LookForSnapshot(p) ==
  /\ at[p] = "snapshot"
  /\ IF Marker \in tree["cache"]
       THEN place' = [place EXCEPT ![p] = "cache"] /\ Proceed(p, "have")
       ELSE Proceed(p, "clear") /\ UNCHANGED place
  /\ UNCHANGED <<mirror, archive, tree, request, inside, todo, vendored, shared>>

\* remove_all of the directory, an entry at a time.
ClearEntry(p) ==
  /\ at[p] = "clear"
  /\ \E f \in tree["cache"] : tree' = [tree EXCEPT !["cache"] = @ \ {f}]
  /\ UNCHANGED <<mirror, archive, at, request, locals, vendored, shared>>

\* Then the directory itself, which makes way for a new one; no tar can write
\* into the old one any more.  It may have been filled again: that is an error.
ClearDirectory(p) ==
  /\ at[p] = "clear"
  /\ IF tree["cache"] = {}
       THEN /\ inside' = [q \in Proc |-> FALSE]
            /\ Proceed(p, "archive")
            /\ UNCHANGED <<place, todo>>
       ELSE (\E q \in Proc : inside[q]) /\ End(p)
  /\ UNCHANGED <<mirror, archive, tree, request, vendored, shared>>

\* git archive opens the one archive of the revision and writes it.
ArchiveStart(p) ==
  /\ at[p] = "archive"
  /\ IF mirror = "ready"
       THEN archive' = "partial" /\ Proceed(p, "archiving") /\ UNCHANGED locals
       ELSE archive' = "none" /\ End(p)
  /\ UNCHANGED <<mirror, tree, request, vendored, shared>>

Archive(p) ==
  /\ at[p] = "archiving"
  /\ \/ /\ archive' = IF archive = "none" THEN "none" ELSE "whole"
        /\ Proceed(p, "list")
        /\ UNCHANGED locals
     \/ archive' = "none" /\ Fails(p)
  /\ UNCHANGED <<mirror, tree, request, vendored, shared>>

\* Variant: the marker comes before the files.
List_MarksEarly(p) ==
  /\ at[p] = "list"
  /\ \/ /\ archive = "whole"
        /\ tree' = [tree EXCEPT !["cache"] = @ \cup {Marker}]
        /\ todo' = [todo EXCEPT ![p] = Files]
        /\ inside' = [inside EXCEPT ![p] = TRUE]
        /\ Proceed(p, "extract")
        /\ UNCHANGED <<archive, place>>
     \/ archive # "whole" /\ archive' = "none" /\ End(p) /\ UNCHANGED tree
     \/ archive' = "none" /\ Fails(p) /\ UNCHANGED tree
  /\ UNCHANGED <<mirror, request, vendored, shared>>

\* The two listings and the prescan; tar enters the directory.
List(p) ==
  /\ at[p] = "list"
  /\ \/ /\ archive = "whole"
        /\ todo' = [todo EXCEPT ![p] = Files]
        /\ inside' = [inside EXCEPT ![p] = TRUE]
        /\ Proceed(p, "extract")
        /\ UNCHANGED <<archive, place>>
     \/ archive # "whole" /\ archive' = "none" /\ End(p)
     \/ archive' = "none" /\ Fails(p)
  /\ UNCHANGED <<mirror, tree, request, vendored, shared>>

\* tar writes a file, or finds that its directory is gone.
Extract(p) ==
  /\ at[p] = "extract"
  /\ \E f \in todo[p] :
       IF inside[p]
         THEN /\ tree' = [tree EXCEPT !["cache"] = @ \cup {f}]
              /\ todo' = [todo EXCEPT ![p] = @ \ {f}]
              /\ UNCHANGED <<archive, at, place, inside>>
         ELSE archive' = "none" /\ End(p) /\ UNCHANGED tree
  /\ UNCHANGED <<mirror, request, vendored, shared>>

\* The archive goes, and the marker is written; of that no error is seen.
ExtractEnds(p) ==
  /\ at[p] = "extract"
  /\ todo[p] = {}
  /\ archive' = "none"
  /\ \/ /\ inside' = [inside EXCEPT ![p] = FALSE]
        /\ tree' = [tree EXCEPT !["cache"] = @ \cup {Marker}]
        /\ place' = [place EXCEPT ![p] = "cache"]
        /\ Proceed(p, "have")
        /\ UNCHANGED todo
     \/ Fails(p) /\ UNCHANGED tree
  /\ UNCHANGED <<mirror, request, vendored, shared>>

-----------------------------------------------------------------------------
(* What follows.                                                            *)

\* The graph is resolved; pafio vendor goes on.
Resolved(p) ==
  /\ at[p] = "have"
  /\ IF command[p] = "vendor"
       THEN Proceed(p, "clearVendor") /\ UNCHANGED locals
       ELSE End(p)
  /\ UNCHANGED <<mirror, archive, tree, request, vendored, shared>>

\* WriteVendorTree begins with remove_all of what is vendored.
ClearVendor(p) ==
  /\ at[p] = "clearVendor"
  /\ tree' = [tree EXCEPT !["vendor"] = {}]
  /\ Proceed(p, "copyStart")
  /\ UNCHANGED <<mirror, archive, request, locals, vendored, shared>>

\* CopySnapshotTree, from where the resolver found the snapshot.
CopyStart(p) ==
  /\ at[p] = "copyStart"
  /\ IF tree[place[p]] = {}
       THEN End(p)
       ELSE /\ todo' = [todo EXCEPT ![p] = tree[place[p]]]
            /\ Proceed(p, "copy")
            /\ UNCHANGED <<place, inside>>
  /\ UNCHANGED <<mirror, archive, tree, request, vendored, shared>>

\* In the order the directory lists its entries, the copied marker among them.
Copy(p) ==
  /\ at[p] = "copy"
  /\ \E f \in todo[p] :
       /\ tree' = [tree EXCEPT !["vendor"] = @ \cup {f}]
       /\ todo' = [todo EXCEPT ![p] = @ \ {f}]
  /\ UNCHANGED <<mirror, archive, at, request, place, inside, vendored, shared>>

CopyEnds(p) ==
  /\ at[p] = "copy"
  /\ \/ /\ todo[p] = {}
        /\ tree' = [tree EXCEPT !["vendor"] = @ \cup {Marker}]
        /\ vendored' = TRUE
        /\ End(p)
     \/ Fails(p) /\ UNCHANGED <<tree, vendored>>
  /\ UNCHANGED <<mirror, archive, request, shared>>

Crash(p) ==
  /\ "crash" \in Mishaps
  /\ at[p] # "idle"
  /\ End(p)
  /\ UNCHANGED <<mirror, archive, tree, request, vendored, shared>>

\* PAFIO_HOME is another one, or was cleaned.
Purge ==
  /\ "purge" \in Mishaps
  /\ \A p \in Proc : at[p] = "idle"
  /\ mirror' = "none"
  /\ archive' = "none"
  /\ tree' = [tree EXCEPT !["cache"] = {}]
  /\ UNCHANGED <<at, request, locals, vendored, shared>>

SnapshotNext ==
  \/ \E p \in Proc :
       \/ \E cmd \in {"resolve", "vendor"}, off \in BOOLEAN : StartCommand(p, cmd, off)
       \/ FindVendored(p) \/ LookForMirror(p) \/ CloneStart(p) \/ Clone(p)
       \/ Revision(p) \/ LookForSnapshot(p) \/ ClearEntry(p) \/ ClearDirectory(p)
       \/ ArchiveStart(p) \/ Archive(p) \/ List(p) \/ Extract(p) \/ ExtractEnds(p)
       \/ Resolved(p) \/ ClearVendor(p) \/ CopyStart(p) \/ Copy(p) \/ CopyEnds(p)
       \/ Crash(p)
  \/ Purge

SnapshotSpec == SnapshotInit /\ [][SnapshotNext]_snapshotVars

-----------------------------------------------------------------------------
(* Properties.                                                              *)

\* What the resolver works with is the whole snapshot, from the moment it has found
\* it until it is done, wherever earlier commands failed or were killed, as long
\* as they came one after another and no copy of pafio vendor was cut short.
SnapshotIsWhole ==
  ~shared =>
    \A p \in Proc :
      at[p] = "have" /\ (place[p] = "cache" \/ vendored) =>
        Files \subseteq tree[place[p]]

\* "pafio vendor creates project-local dependency state for offline use": once it
\* has, no run needs the cache or the source any more.
VendoredIsEnough ==
  [][\A p \in Proc :
       vendored /\ at[p] = "find" => at'[p] # "mirror"]_snapshotVars
=============================================================================
