----------------------------- MODULE Publishing -----------------------------
(***************************************************************************)
(* pafio pack and pafio publish: selection of a package of a workspace     *)
(* (PafioPack/PackageSelection), the archive (PafioPack/Pack.cpp), the     *)
(* checks and the request of a publication (PafioPublish/Publish.cpp) and  *)
(* its exchange with the registry (PafioApp/PackageApp.cpp).  Each process *)
(* runs one command; meanwhile files are edited, another process writes    *)
(* the same archive, and requests and answers are late or lost.  A process *)
(* that is killed is one that takes no more steps.  The registry is not    *)
(* part of this program: it takes a version once.                          *)
(***************************************************************************)
EXTENDS Manifests

CONSTANTS
  Client,      \* pafio processes
  Place,       \* the directories with a manifest; Root is above the others
  Root,
  Files,       \* every path of the tree, in the order of an archive: a sequence
               \*   of records [at, kind], at the nearest Place above the path
  Trees,       \* what the tree may be when the first command starts
  Edits,       \* what a file may become: a set of [file, data]
  Requests,    \* what may be asked for
  Refused,     \* contents of the shape of a credential
  Link,        \* a symbolic link, or anything that is no regular file
  MaxSize,     \* the largest archive that is uploaded, in members
  MaxEntries,  \* the largest table of dependencies that is published
  MaxEdits,    \* bound on the edits of a behaviour
  Troubles     \* a subset of {"io", "network"}

File == ToSet(Files)
Kind == {"manifest", "lock", "plain", "hidden", "generated", "secret"}

ASSUME PublishingAssumption ==
  /\ Root \in Place
  /\ Files \in Seq([at : Place, kind : Kind])
  /\ \A place \in Place : [at |-> place, kind |-> "manifest"] \in File
  /\ \A t \in Trees :
       /\ DOMAIN t = File
       /\ \A f \in File : f.kind = "manifest" => Parsed(t[f])
  /\ \A e \in Edits :
       /\ e.file \in File
       /\ e.file.kind = "manifest" => Parsed(e.data)
  /\ MaxEdits \in Nat
  /\ Troubles \subseteq {"io", "network"}

VARIABLES
  tree,       \* [File -> contents, documents, Link or Absent]
  archives,   \* the archives in place: a function from their paths
  registry,   \* what has been published: a function from <<name, version>>
  stage,      \* what a process does next
  request,    \* the command, the package asked for and the output
  candidate,  \* the selection publish validates: [place, manifest]
  selection,  \* the one that is packed
  next,       \* position in Files of walk, scan and write
  entries,    \* the files that the walk has collected
  temp,       \* the temporary archive
  size,       \* the size of the archive that was looked up
  upload,     \* what the request carries
  wire,       \* the processes whose request may still reach the registry
  answer,     \* what curl came back with
  seen,       \* history: the tree when the command began
  edited,     \* history: files that were edited while it ran
  replaced,   \* history: its archive was replaced by another process
  edits       \* edits so far

walking == <<next, entries, temp>>
sending == <<size, upload, wire, answer>>
past == <<seen, edited, replaced>>
publishVars == <<tree, archives, registry, stage, request, candidate, selection, walking,
          sending, past, edits>>

Busy(p) == stage[p] \notin {"idle", "done", "failed"}
GoOn(p, to) == stage' = [stage EXCEPT ![p] = to]
Set(f, p, value) == [f EXCEPT ![p] = value]
Put(f, x, value) == [y \in DOMAIN f \cup {x} |-> IF y = x THEN value ELSE f[y]]

PublishInit ==
  /\ tree \in Trees
  /\ archives = Empty
  /\ registry = Empty
  /\ stage = [p \in Client |-> "idle"]
  /\ request \in [Client -> Requests]
  /\ candidate = [p \in Client |-> Absent]
  /\ selection = [p \in Client |-> Absent]
  /\ next = [p \in Client |-> 1]
  /\ entries = [p \in Client |-> {}]
  /\ temp = [p \in Client |-> Absent]
  /\ size = [p \in Client |-> 0]
  /\ upload = [p \in Client |-> Absent]
  /\ wire = {}
  /\ answer = [p \in Client |-> Absent]
  /\ seen = [p \in Client |-> Absent]
  /\ edited = [p \in Client |-> {}]
  /\ replaced = [p \in Client |-> FALSE]
  /\ edits = 0

Begin(p) ==
  /\ stage[p] = "idle"
  /\ GoOn(p, IF request[p].command = "pack" THEN "select" ELSE "choose")
  /\ seen' = Set(seen, p, tree)
  /\ UNCHANGED <<tree, archives, registry, request, candidate, selection, walking, sending,
                 edited, replaced, edits>>

-----------------------------------------------------------------------------
(* SelectWorkspacePackage.                                                  *)

ManifestFile(place) == [at |-> place, kind |-> "manifest"]

Document(place) == IF tree[ManifestFile(place)] = Absent THEN Junk ELSE tree[ManifestFile(place)]

Members(manifest) == IF manifest.workspace = Absent THEN Empty ELSE manifest.workspace.members

\* All manifests parse, and every member is a package.
Loadable(place) ==
  /\ Accepted(Document(place))
  /\ LET members == Members(LoadManifest(Document(place)))
     IN \A i \in DOMAIN members :
          /\ members[i] \in Place
          /\ Accepted(Document(members[i]))
          /\ LoadManifest(Document(members[i])).package # Absent

\* The package of a manifest, and its members as often as they are listed.
CollectPackageCandidates(place) ==
  LET manifest == LoadManifest(Document(place))
      members == Members(manifest)
  IN (IF manifest.package = Absent THEN {} ELSE {[nth |-> 0, place |-> place]})
       \cup {[nth |-> i, place |-> members[i]] : i \in DOMAIN members}

\* The one that is meant; none, if there is no such one or more than one.
Selected(place, package) ==
  LET candidates == CollectPackageCandidates(place)
      ManifestOf(c) == LoadManifest(Document(c.place))
      matches ==
        IF package # Absent
          THEN {c \in candidates : ManifestOf(c).package.name = package}
        ELSE IF LoadManifest(Document(place)).package # Absent
          THEN {c \in candidates : c.nth = 0}
        ELSE candidates
  IN IF Cardinality(matches) = 1
       THEN {[place |-> c.place, manifest |-> ManifestOf(c)] : c \in matches} ELSE {}

Choose(p) ==
  /\ stage[p] = "choose"
  /\ IF Loadable(Root) /\ Selected(Root, request[p].package) # {}
       THEN /\ \E s \in Selected(Root, request[p].package) : candidate' = Set(candidate, p, s)
            /\ GoOn(p, "validate")
       ELSE GoOn(p, "failed") /\ UNCHANGED candidate
  /\ UNCHANGED <<tree, archives, registry, request, selection, walking, sending, past,
                 edits>>

\* Variant: only what is built depends on the registry.
Publishable_NotDev(package) ==
  /\ package.publish
  /\ \A alias \in DOMAIN package.dependencies : package.dependencies[alias].kind = "registry"

Publishable(package) ==
  /\ package.publish
  /\ \A table \in {package.dependencies, package.devDependencies} :
       \A alias \in DOMAIN table : table[alias].kind = "registry"

ValidatePublishCandidate(p) ==
  /\ stage[p] = "validate"
  /\ GoOn(p, IF Publishable(candidate[p].manifest.package) THEN "select" ELSE "failed")
  /\ UNCHANGED <<tree, archives, registry, request, candidate, selection, walking, sending,
                 past, edits>>

\* WriteSourcePackage selects again, for publish from the chosen manifest and
\* by the chosen name.
Select(p) ==
  LET place == IF candidate[p] = Absent THEN Root ELSE candidate[p].place
      package == IF candidate[p] = Absent THEN request[p].package
                 ELSE candidate[p].manifest.package.name
  IN /\ stage[p] = "select"
     /\ IF Loadable(place) /\ Selected(place, package) # {} /\ request[p].output # "source"
          THEN /\ \E s \in Selected(place, package) : selection' = Set(selection, p, s)
               /\ GoOn(p, "walk")
          ELSE GoOn(p, "failed") /\ UNCHANGED selection
     /\ UNCHANGED <<tree, archives, registry, request, candidate, walking, sending, past,
                    edits>>

-----------------------------------------------------------------------------
(* CollectPackEntries: a walk over the package, then a scan of what it      *)
(* collected.  The order of the walk is not specified; it is that of Files  *)
(* here.                                                                    *)

Own(p) == ManifestFile(selection[p].place)
Prefix(p) == <<selection[p].manifest.package.name, selection[p].manifest.package.version>>
Inline(p) == SerializeManifestCanonical(selection[p].manifest)

\* Where the archive goes: --output, or dist/ below the package.
ArchivePath(p) ==
  IF request[p].output = "elsewhere" THEN <<"elsewhere">>
  ELSE <<selection[p].place>> \o Prefix(p)

Listed(manifest) ==
  ToSet(Members(manifest))
    \cup IF manifest.workspace = Absent THEN {} ELSE ToSet(manifest.workspace.exclude)

\* What the walk passes over without a look.
Skipped(p, file) ==
  LET top == selection[p].place
  IN \/ top # Root /\ file.at # top
     \/ file.at = top /\ file.kind \in {"manifest", "lock", "generated"}
     \/ file.at # top /\ file.at \in Listed(selection[p].manifest)
     \/ file.kind = "hidden"

\* The files of a set that are still to come, and the first of them.
Coming(p, files) == {i \in next[p]..Len(Files) : Files[i] \in files}
First(p, files) == Files[Min(Coming(p, files))]
Advance(p, files) == next' = Set(next, p, Min(Coming(p, files)) + 1)
Rewind(p, to) == next' = Set(next, p, 1) /\ GoOn(p, to)

\* What the walk comes to: the files that are there.
Visible(p) == {file \in File : tree[file] # Absent /\ ~Skipped(p, file)}

\* A name that tells of a credential, and what is no regular file, end it.
Walk(p) ==
  LET file == First(p, Visible(p))
  IN /\ stage[p] = "walk"
     /\ IF Coming(p, Visible(p)) = {} THEN Rewind(p, "scan") /\ UNCHANGED entries
        ELSE IF file.kind = "secret" \/ tree[file] = Link
          THEN GoOn(p, "failed") /\ UNCHANGED <<next, entries>>
        ELSE /\ Advance(p, Visible(p))
             /\ entries' = [entries EXCEPT ![p] = @ \cup {file}]
             /\ UNCHANGED stage
     /\ UNCHANGED <<tree, archives, registry, request, candidate, selection, temp, sending,
                    past, edits>>

\* The manifest is carried along, everything else is read when it is used.
Contents(p, file) == IF file = Own(p) THEN Inline(p) ELSE tree[file]
Packed(p) == entries[p] \cup {Own(p)}

\* Variant: the manifest, which pafio wrote itself, is all that is scanned.
Scan_Inline(p) ==
  /\ stage[p] = "scan"
  /\ IF Inline(p) \in Refused THEN GoOn(p, "failed") /\ UNCHANGED next
     ELSE Rewind(p, "create")
  /\ UNCHANGED <<tree, archives, registry, request, candidate, selection, entries, temp,
                 sending, past, edits>>

\* RejectSecretContents of the next entry.
Scan(p) ==
  /\ stage[p] = "scan"
  /\ IF Coming(p, Packed(p)) = {} THEN Rewind(p, "create")
     ELSE IF Contents(p, First(p, Packed(p))) \in Refused \cup {Absent}
       THEN GoOn(p, "failed") /\ UNCHANGED next
     ELSE Advance(p, Packed(p)) /\ UNCHANGED stage
  /\ UNCHANGED <<tree, archives, registry, request, candidate, selection, entries, temp,
                 sending, past, edits>>

-----------------------------------------------------------------------------
(* WriteTarArchive.  A temporary file is the process's own (mkstemp).       *)

\* What may fail does; the temporary file is removed.
FailsAt(p, where) ==
  /\ "io" \in Troubles /\ stage[p] = where
  /\ Rewind(p, "failed")
  /\ entries' = Set(entries, p, {})
  /\ temp' = Set(temp, p, Absent)
  /\ UNCHANGED <<tree, archives, registry, request, candidate, selection, sending, past,
                 edits>>

Create(p) ==
  /\ stage[p] = "create"
  /\ GoOn(p, "write")
  /\ temp' = Set(temp, p, [prefix |-> Prefix(p), own |-> Own(p), parts |-> Empty,
                           closed |-> FALSE, by |-> p, selection |-> selection[p],
                           edited |-> {}])
  /\ UNCHANGED <<tree, archives, registry, request, candidate, selection, next, entries,
                 sending, past, edits>>

\* The next member of the archive, read once more.
Write(p) ==
  LET file == First(p, Packed(p))
  IN /\ stage[p] = "write"
     /\ IF Coming(p, Packed(p)) = {} THEN Rewind(p, "close") /\ UNCHANGED temp
        ELSE IF Contents(p, file) = Absent
          THEN GoOn(p, "failed") /\ temp' = Set(temp, p, Absent) /\ UNCHANGED next
        ELSE /\ Advance(p, Packed(p))
             /\ temp' = [temp EXCEPT ![p].parts = Put(@, file, Contents(p, file))]
             /\ UNCHANGED stage
     /\ UNCHANGED <<tree, archives, registry, request, candidate, selection, entries, sending,
                    past, edits>>

\* The trailer, fsync and close.
Close(p) ==
  /\ stage[p] = "close"
  /\ GoOn(p, "rename")
  /\ temp' = [temp EXCEPT ![p].closed = TRUE, ![p].edited = edited[p]]
  /\ UNCHANGED <<tree, archives, registry, request, candidate, selection, next, entries,
                 sending, past, edits>>

Rename(p) ==
  /\ stage[p] = "rename"
  /\ archives' = Put(archives, ArchivePath(p), temp[p])
  /\ temp' = Set(temp, p, Absent)
  /\ GoOn(p, IF request[p].command = "publish" THEN "secure" ELSE "done")
  /\ replaced' = [q \in Client |->
       \/ replaced[q]
       \/ /\ q # p
          /\ stage[q] \in {"secure", "size", "read"}
          /\ ArchivePath(q) = ArchivePath(p)]
  /\ UNCHANGED <<tree, registry, request, candidate, selection, next, entries, sending, seen,
                 edited, edits>>

-----------------------------------------------------------------------------
(* BuildRemotePublishRequestJson and the exchange with the registry.        *)

\* ResolveRegistryWriteSecurity: plaintext only to a loopback, when asked for.
Secure(p) ==
  /\ stage[p] = "secure"
  /\ GoOn(p, IF request[p].secure THEN "size" ELSE "failed")
  /\ UNCHANGED <<tree, archives, registry, request, candidate, selection, walking, sending,
                 past, edits>>

SizeOf(archive) == Cardinality(DOMAIN archive.parts)

Measure(p) ==
  LET measured == SizeOf(archives[ArchivePath(p)])
  IN /\ stage[p] = "size"
     /\ IF measured > MaxSize
          THEN GoOn(p, "failed") /\ UNCHANGED size
          ELSE GoOn(p, "read") /\ size' = Set(size, p, measured)
     /\ UNCHANGED <<tree, archives, registry, request, candidate, selection, walking, upload,
                    wire, answer, past, edits>>

\* As many bytes as were measured are read, of whatever is there by now; what
\* is declared beside them is of the validated candidate.
Read(p) ==
  LET archive == archives[ArchivePath(p)]
      package == candidate[p].manifest.package
  IN /\ stage[p] = "read"
     /\ IF \/ SizeOf(archive) < size[p]
           \/ \E table \in {package.dependencies, package.devDependencies} :
                Cardinality(DOMAIN table) > MaxEntries
          THEN GoOn(p, "failed") /\ UNCHANGED <<upload, wire>>
          ELSE /\ upload' = Set(upload, p,
                    [package |-> package.name, version |-> package.version,
                     archive |-> archive, whole |-> SizeOf(archive) = size[p],
                     dependencies |-> package.dependencies,
                     devDependencies |-> package.devDependencies, by |-> p,
                     disturbed |-> replaced[p] \/ \E f \in edited[p] : f.kind = "manifest"])
               /\ wire' = wire \cup {p}
               /\ GoOn(p, "wait")
     /\ UNCHANGED <<tree, archives, registry, request, candidate, selection, walking, size,
                    answer, past, edits>>

\* What curl may bring: its exit code, whether the body is an object, and the
\* fields of the envelope that are looked at.
Taken == [exit |-> 0, object |-> TRUE, returncode |-> 0, payload |-> TRUE]
Denials == {[exit |-> 22, object |-> FALSE, returncode |-> Absent, payload |-> FALSE],
            [exit |-> 0, object |-> TRUE, returncode |-> 1, payload |-> FALSE]}
Strays == {[exit |-> 0, object |-> FALSE, returncode |-> Absent, payload |-> FALSE],
           [exit |-> 0, object |-> TRUE, returncode |-> Absent, payload |-> TRUE],
           [exit |-> 0, object |-> TRUE, returncode |-> 0, payload |-> FALSE]}
Silence == [exit |-> 28, object |-> FALSE, returncode |-> Absent, payload |-> FALSE]

Version(u) == <<u.package, u.version>>

Answer(p, with) ==
  IF stage[p] = "wait"
    THEN GoOn(p, "answer") /\ answer' = Set(answer, p, with)
    ELSE UNCHANGED <<stage, answer>>

\* The registry takes a version that it has not, and refuses what it will.
Deliver(p) ==
  /\ p \in wire
  /\ wire' = wire \ {p}
  /\ \/ /\ Version(upload[p]) \notin DOMAIN registry
        /\ registry' = Put(registry, Version(upload[p]), upload[p])
        /\ Answer(p, Taken)
     \/ /\ \E denial \in Denials : Answer(p, denial)
        /\ UNCHANGED registry
  /\ UNCHANGED <<tree, archives, request, candidate, selection, walking, size, upload,
                 past, edits>>

\* Somebody else answers, or nobody does in time; the request may be late.
Stray(p) ==
  /\ "network" \in Troubles /\ stage[p] = "wait"
  /\ \E with \in Strays \cup {Silence} : Answer(p, with)
  /\ UNCHANGED <<tree, archives, registry, request, candidate, selection, walking, size,
                 upload, wire, past, edits>>

\* Variant: a missing return code is none.
Conclude_NoCodeIsZero(p) ==
  LET a == answer[p]
      returncode == IF a.returncode = Absent THEN 0 ELSE a.returncode
  IN /\ stage[p] = "answer"
     /\ GoOn(p, IF a.exit = 0 /\ a.object /\ returncode = 0 /\ a.payload
                THEN "done" ELSE "failed")
     /\ UNCHANGED <<tree, archives, registry, request, candidate, selection, walking, sending,
                    past, edits>>

\* The checks of RunRegistryV2ControlPlanePublish on what came back.
Conclude(p) ==
  LET a == answer[p]
      returncode == IF a.returncode = Absent THEN -1 ELSE a.returncode
  IN /\ stage[p] = "answer"
     /\ GoOn(p, IF a.exit = 0 /\ a.object /\ returncode = 0 /\ a.payload
                THEN "done" ELSE "failed")
     /\ UNCHANGED <<tree, archives, registry, request, candidate, selection, walking, sending,
                    past, edits>>

-----------------------------------------------------------------------------
(* What else may happen.                                                    *)

\* Somebody creates, changes or removes a file.
Edit(file, data) ==
  /\ edits < MaxEdits /\ tree[file] # data
  /\ tree' = [tree EXCEPT ![file] = data]
  /\ edits' = edits + 1
  /\ edited' = [p \in Client |-> IF Busy(p) THEN edited[p] \cup {file} ELSE edited[p]]
  /\ UNCHANGED <<archives, registry, stage, request, candidate, selection, walking, sending,
                 seen, replaced>>

Step(p) ==
  \/ Begin(p) \/ Choose(p) \/ ValidatePublishCandidate(p) \/ Select(p) \/ Walk(p) \/ Scan(p)
  \/ Create(p) \/ Write(p) \/ Close(p) \/ Rename(p)
  \/ \E where \in {"create", "write", "close", "rename"} : FailsAt(p, where)
  \/ Secure(p) \/ Measure(p) \/ Read(p) \/ Deliver(p) \/ Stray(p) \/ Conclude(p)

PublishNext == (\E p \in Client : Step(p)) \/ \E e \in Edits : Edit(e.file, e.data)

PublishSpec == PublishInit /\ [][PublishNext]_publishVars

-----------------------------------------------------------------------------
(* Properties.                                                              *)

\* Files that belong to a package: below it, shown, not generated, and not of
\* a member or of what the workspace excludes.
Belongs(file, selected) ==
  LET top == selected.place
  IN /\ IF file.at = top THEN file.kind = "plain"
        ELSE top = Root /\ file.at \notin Listed(selected.manifest)
     /\ file.kind \in {"plain", "manifest", "lock", "generated"}

\* An archive that is in place is complete: of every file nobody edited while
\* it was made, it holds what the file held if the file belongs to the package,
\* and nothing of it otherwise; no content in it has the shape of a credential
\* or is a link; and its manifest is the one of the package.  CollectPackEntries
\* and WriteTarArchive look at each file up to three times.
ArchiveIsPackage ==
  \A path \in DOMAIN archives :
    LET a == archives[path]
        before == seen[a.by]
    IN /\ a.closed
       /\ a.parts[a.own] = SerializeManifestCanonical(a.selection.manifest)
       /\ \A file \in File \ (a.edited \cup {a.own}) :
            IF Belongs(file, a.selection) /\ before[file] # Absent
              THEN /\ file \in DOMAIN a.parts
                   /\ a.parts[file] = before[file]
                   /\ a.parts[file] \notin Refused \cup {Link}
              ELSE file \notin DOMAIN a.parts

\* What is published is what it is declared to be: the whole archive of that
\* package and version, with a manifest that a consumer accepts and that says
\* the same of its dependencies as the request did, all of them of registries.
\* It holds unless a manifest was edited, or another process put its archive
\* in the same place, between publish's looks at them.
PublishedIsDeclared ==
  \A version \in DOMAIN registry :
    LET u == registry[version]
        document == u.archive.parts[u.archive.own]
    IN u.disturbed
       \/ /\ u.whole
          /\ u.archive.prefix = version
          /\ Accepted(document)
          /\ LET package == LoadManifest(document).package
             IN /\ <<package.name, package.version>> = version
                /\ package.dependencies = u.dependencies
                /\ package.devDependencies = u.devDependencies
                /\ package.publish
                /\ \A table \in {u.dependencies, u.devDependencies} :
                     \A alias \in DOMAIN table : table[alias].kind = "registry"

\* A publish that reports success has published: the registry holds, for its
\* package and version, what this very process sent, whatever earlier requests
\* arrive late and whoever answers in the registry's place.
SuccessIsPublished ==
  \A p \in Client : stage[p] = "done" /\ request[p].command = "publish" =>
    /\ Version(upload[p]) \in DOMAIN registry
    /\ registry[Version(upload[p])].by = p
=============================================================================
