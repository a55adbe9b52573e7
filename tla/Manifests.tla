------------------------------ MODULE Manifests ------------------------------
(***************************************************************************)
(* What a pafio.toml means and how one is written (PafioManifest/          *)
(* Manifest.cpp).  A document is the table that toml++ makes of a file: a  *)
(* function from the keys that are there; a document that does not parse,  *)
(* and a value that has not the type its key asks for, is Junk.  Strings   *)
(* are told apart by the checks they pass; the name of a target is a       *)
(* number, zero the empty one, as only the order of names matters.         *)
(***************************************************************************)
EXTENDS Integers, Sequences, FiniteSets, SequencesExt

CONSTANTS
  PackageName,    \* strings of the form namespace/name
  Semver,         \* exact versions
  CommitId,       \* full git commits
  RelativePath,   \* paths that are not empty and not absolute
  ContainedPath,  \* those that stay inside the package
  GitUrl,         \* not empty, without userinfo
  RegistryUrl,    \* file, http or https, without userinfo
  Edition,        \* strings that are not empty
  Absent,         \* no such key, or std::nullopt
  Junk            \* not what is asked for

ASSUME ManifestAssumption ==
  /\ ContainedPath \subseteq RelativePath
  /\ Absent # Junk
  /\ \A strings \in {PackageName, Semver, CommitId, RelativePath, GitUrl, RegistryUrl,
                     Edition} :
       {Absent, Junk} \cap strings = {}
  /\ {Absent, Junk} \cap BOOLEAN = {} /\ Absent # 1

Empty == << >>

At(table, key) == IF key \in DOMAIN table THEN table[key] ELSE Absent

\* toml++ makes a sequence of an array; the names of targets are in an order.
Array(value) == value = Absent \/ value = Junk \/ value \in Seq(ToSet(value))

Parsed(doc) ==
  doc = Absent \/ doc = Junk \/
    /\ \A key \in DOMAIN doc \cap {"bin", "test"} :
         /\ Array(doc[key])
         /\ doc[key] # Junk =>
              \A i \in DOMAIN doc[key] :
                LET target == doc[key][i]
                IN target # Junk /\ "name" \in DOMAIN target =>
                        target["name"] \in Nat \cup {Junk}
    /\ "workspace" \in DOMAIN doc /\ doc["workspace"] # Junk =>
         Array(At(doc["workspace"], "members"))

\* What stands for no value, and for one of the wrong type, is no table.
JunkIsNoTable == \A S, T : Absent \notin [S -> T] /\ Junk \notin [S -> T]

\* as_table and as_array: what is not of the type is taken for missing.
Optional(table, key, default) ==
  IF At(table, key) = Junk \/ At(table, key) = Absent THEN default ELSE At(table, key)

-----------------------------------------------------------------------------
(* Dependencies.                                                            *)

SourceKinds(entry) ==
  (DOMAIN entry \cap {"path", "git"})
    \cup {kind \in {"registry"} : DOMAIN entry \cap {"version", "registry"} # {}}

\* One source of one kind, and what that kind needs.
ValidDependency(entry) ==
  /\ entry # Junk
  /\ Cardinality(SourceKinds(entry)) = 1
  /\ Optional(entry, "package", Absent) \in PackageName \cup {Absent}
  /\ \/ SourceKinds(entry) = {"path"} /\ At(entry, "path") \in RelativePath
     \/ /\ SourceKinds(entry) = {"git"}
        /\ At(entry, "git") \in GitUrl
        /\ At(entry, "rev") \in CommitId
     \/ /\ SourceKinds(entry) = {"registry"}
        /\ At(entry, "package") \in PackageName
        /\ At(entry, "version") \in Semver
        /\ At(entry, "registry") \in RegistryUrl

\* Keys that the kind does not use are dropped.
ParseDependency(entry) ==
  LET kind == CHOOSE k \in SourceKinds(entry) : TRUE
  IN [package |-> Optional(entry, "package", Absent),
      kind |-> kind,
      source |-> entry[kind],
      rev |-> IF kind = "git" THEN entry["rev"] ELSE Absent,
      version |-> IF kind = "registry" THEN entry["version"] ELSE Absent]

ValidDependencies(doc, key) ==
  LET table == Optional(doc, key, Empty)
  IN \A alias \in DOMAIN table : ValidDependency(table[alias])

ParseDependencies(doc, key) ==
  LET table == Optional(doc, key, Empty)
  IN [alias \in DOMAIN table |-> ParseDependency(table[alias])]

-----------------------------------------------------------------------------
(* Targets.                                                                 *)

ValidTargets(doc, key) ==
  LET entries == Optional(doc, key, Empty)
  IN /\ \A i \in DOMAIN entries :
          /\ entries[i] # Junk
          /\ At(entries[i], "name") \notin {Absent, Junk, 0}
          /\ At(entries[i], "path") \in ContainedPath
     /\ \A i, j \in DOMAIN entries :
          entries[i]["name"] = entries[j]["name"] => i = j

ParseTargets(doc, key) == Optional(doc, key, Empty)

ValidLib(doc) ==
  LET lib == Optional(doc, "lib", Absent)
  IN lib # Absent => At(lib, "path") \in ContainedPath

-----------------------------------------------------------------------------
(* LoadManifest: which documents it takes, and what it makes of one.        *)

ValidPackage(doc) ==
  /\ doc["package"] # Junk
  /\ At(doc["package"], "name") \in PackageName
  /\ At(doc["package"], "version") \in Semver
  /\ At(doc["package"], "edition") \in Edition
  /\ Optional(doc, "build", Empty) # Empty
  /\ At(doc["build"], "implicit-std") \in BOOLEAN
  /\ ValidLib(doc)
  /\ \A key \in {"bin", "test"} : ValidTargets(doc, key)
  /\ \A key \in {"dependencies", "dev-dependencies"} : ValidDependencies(doc, key)
  /\ \/ Optional(doc, "lib", Absent) # Absent
     \/ \E key \in {"bin", "test"} : ParseTargets(doc, key) # Empty

ParsePackage(doc) ==
  [name |-> doc["package"]["name"],
   version |-> doc["package"]["version"],
   edition |-> doc["package"]["edition"],
   publish |-> Optional(doc["package"], "publish", FALSE),
   implicitStd |-> doc["build"]["implicit-std"],
   lib |-> Optional(doc, "lib", Absent),
   bins |-> ParseTargets(doc, "bin"),
   tests |-> ParseTargets(doc, "test"),
   dependencies |-> ParseDependencies(doc, "dependencies"),
   devDependencies |-> ParseDependencies(doc, "dev-dependencies")]

AllPaths(list) == \A i \in DOMAIN list : list[i] \in RelativePath

ValidWorkspace(doc) ==
  LET workspace == doc["workspace"]
  IN /\ workspace # Junk
     /\ At(workspace, "members") \notin {Absent, Junk, Empty}
     /\ AllPaths(workspace["members"])
     /\ At(workspace, "exclude") # Junk
     /\ AllPaths(Optional(workspace, "exclude", Empty))
     /\ At(workspace, "resolver") = 1

ParseWorkspace(doc) ==
  [members |-> doc["workspace"]["members"],
   exclude |-> Optional(doc["workspace"], "exclude", Empty)]

Accepted(doc) ==
  /\ doc # Junk
  /\ At(doc, "manifest-version") = 1
  /\ DOMAIN doc \cap {"package", "workspace"} # {}
  /\ "package" \in DOMAIN doc => ValidPackage(doc)
  /\ "workspace" \in DOMAIN doc => ValidWorkspace(doc)

LoadManifest(doc) ==
  [package |-> IF "package" \in DOMAIN doc THEN ParsePackage(doc) ELSE Absent,
   workspace |-> IF "workspace" \in DOMAIN doc THEN ParseWorkspace(doc) ELSE Absent]

-----------------------------------------------------------------------------
(* SerializeManifestCanonical.                                              *)

Keys == {"manifest-version", "package", "build", "lib", "bin", "test", "dependencies",
         "dev-dependencies", "workspace"}

\* A table of the keys that have a value; a section, unless it is empty.
Written(table) == [key \in {k \in DOMAIN table : table[k] # Absent} |-> table[key]]
Section(value) == IF value = Empty THEN Absent ELSE value

EmitDependency(dependency) ==
  LET Source(kind) == IF dependency.kind = kind THEN dependency.source ELSE Absent
  IN Written([package |-> dependency.package, path |-> Source("path"), git |-> Source("git"),
              rev |-> dependency.rev, version |-> dependency.version,
              registry |-> Source("registry")])

EmitDependencySection(dependencies) ==
  [alias \in DOMAIN dependencies |-> EmitDependency(dependencies[alias])]

\* The targets by their names, which differ: the first has none before it.
ByName(targets) ==
  LET Before(t) == {u \in ToSet(targets) : u["name"] < t["name"]}
  IN [i \in DOMAIN targets |-> CHOOSE t \in ToSet(targets) : Cardinality(Before(t)) = i - 1]

EmitPackage(package, key) ==
  CASE key = "package" ->
         [name |-> package.name, version |-> package.version,
          edition |-> package.edition, publish |-> package.publish]
    [] key = "build" -> [std \in {"implicit-std"} |-> package.implicitStd]
    [] key = "lib" -> package.lib
    [] key = "bin" -> Section(ByName(package.bins))
    [] key = "test" -> Section(ByName(package.tests))
    [] key = "dependencies" -> Section(EmitDependencySection(package.dependencies))
    [] key = "dev-dependencies" -> Section(EmitDependencySection(package.devDependencies))

EmitWorkspace(workspace) ==
  Written([members |-> workspace.members, exclude |-> Section(workspace.exclude),
           resolver |-> 1])

SerializeManifestCanonical(manifest) ==
  Written([key \in Keys |->
    CASE key = "manifest-version" -> 1
      [] key = "workspace" ->
           IF manifest.workspace = Absent THEN Absent ELSE EmitWorkspace(manifest.workspace)
      [] OTHER ->
           IF manifest.package = Absent THEN Absent ELSE EmitPackage(manifest.package, key)])
=============================================================================
