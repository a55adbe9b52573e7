---------------------------- MODULE MCPublishing ----------------------------
(* A small instance of Publishing for TLC: two stories.                     *)
EXTENDS Publishing

CONSTANTS Text, New, Token  \* contents
VARIABLE story  \* what happens in this behaviour, fixed from the start

Path(place, kind) == [at |-> place, kind |-> kind]
Main == Path("root", "plain")

MCFiles == <<Path("root", "generated"), Path("root", "hidden"), Path("member", "hidden"),
             Path("member", "manifest"), Path("member", "plain"), Path("member", "lock"),
             Path("root", "lock"), Path("root", "manifest"), Main, Path("root", "secret")>>

\* The keys of a record are those of a table.
Registered(package) ==
  "package" :> package @@ "version" :> "1.0.0" @@ "registry" :> "https://r"
Bins == <<"name" :> 2 @@ "path" :> "src/b", "name" :> 1 @@ "path" :> "src/a">>

Table(name, version, publish, more) ==
  "manifest-version" :> 1
    @@ "package" :> ("name" :> name @@ "version" :> version @@ "edition" :> "2026" @@ publish)
    @@ "build" :> ("implicit-std" :> TRUE) @@ more

Lib == "lib" :> ("path" :> "src/lib")
Yes == "publish" :> TRUE
Usual(name) == Table(name, "0.1.0", Yes, Lib)
Of(members) == "workspace" :> ("members" :> members @@ "resolver" :> 1)

Dependencies ==
  {Registered("x/y"), Junk, Empty, "path" :> "../y", "path" :> "/y",
   "path" :> "../y" @@ "package" :> Junk @@ "rev" :> "main",
   "git" :> "https://g" @@ "rev" :> "4b825dc", "git" :> "https://g" @@ "rev" :> "main",
   "git" :> "https://g" @@ "path" :> "../y",
   "package" :> "x/y" @@ "version" :> "1.0.0", "version" :> "1.0.0" @@ "registry" :> "https://r",
   Registered("x/y") @@ "path" :> Junk, Registered("x y")}

\* A package with one peculiarity.
Peculiar ==
  {Table("a/root", "0.1.0", Yes, Lib @@ key :> table) :
     key \in {"dependencies", "dev-dependencies"},
     table \in {Junk} \cup {"d" :> d : d \in Dependencies}
               \cup {"e" :> Registered("x/y") @@ "d" :> d : d \in Dependencies}}
  \cup {Table("a/root", "0.1.0", publish, more) :
     publish \in {Yes, Empty, "publish" :> FALSE, "publish" :> Junk},
     more \in {Lib, Empty, "lib" :> Junk, "lib" :> ("path" :> "../l"), "bin" :> Bins,
               "test" :> <<Bins[1], Bins[1]>>, "bin" :> <<Bins[2]>> @@ "test" :> Bins,
               "bin" :> Empty, "test" :> <<Junk>>, "bin" :> <<"name" :> 0 @@ "path" :> "src/a">>}}
  \cup {Table(name, version, Yes, Lib) :
     name \in {"a/root", "x y", Junk}, version \in {"0.1.0", "1"}}
  \cup {Lib, Usual("a/root") @@ "workspace" :> Junk,
        "build" :> Junk @@ Usual("a/root"), "manifest-version" :> 2 @@ Usual("a/root")}

\* A workspace: with a package or without, its lists, and what its member is.
Workspaces ==
  {top @@ "workspace" :> workspace :
     top \in {"manifest-version" :> 1, Usual("a/root"), Usual("a/member")},
     workspace \in {"members" :> <<"member">> @@ "resolver" :> 1,
                    "members" :> <<"member", "member">> @@ "resolver" :> 1,
                    "members" :> Empty @@ "resolver" :> 1,
                    "members" :> <<"member">>,
                    "members" :> <<"nowhere">> @@ "exclude" :> <<"member">> @@ "resolver" :> 1,
                    "members" :> <<"member">> @@ "exclude" :> <<"member">> @@ "resolver" :> 1,
                    "members" :> <<"member">> @@ "exclude" :> Junk @@ "resolver" :> 1}}

Plain == [f \in File |->
  CASE f = Path("root", "manifest") -> Usual("a/root")
    [] f = Path("member", "manifest") -> Usual("a/member")
    [] f.kind = "secret" \/ f = Path("member", "lock") -> Absent
    [] OTHER -> Text]

With(file, data) == [Plain EXCEPT ![file] = data]
Workspace == With(Path("root", "manifest"), Usual("a/root") @@ Of(<<"member">>))

ManifestTrees ==
  {With(Path("root", "manifest"), d) : d \in Peculiar \cup Workspaces \cup {Junk, Absent}}
  \cup {[Workspace EXCEPT ![Path("member", "manifest")] = d] :
          d \in {Junk, Absent, Of(<<"member">>) @@ "manifest-version" :> 1,
                 Table("a/root", "0.1.0", Yes, Lib), Table("a/member", "0.1.0", Empty, Lib)}}
  \cup {With(f, d) : f \in {g \in File : g.kind # "manifest"}, d \in {Absent, Link, Text, Token}}

\* Two commands over a small workspace.
RaceTrees == {[f \in File |-> IF f.kind \in {"manifest", "plain"} THEN Workspace[f] ELSE Absent]}

MCTrees == ManifestTrees \cup RaceTrees

MCEdits ==
  {[file |-> Main, data |-> d] : d \in {Absent, Token, New}}
  \cup {[file |-> Path("root", "manifest"), data |-> d] :
          d \in {Table("a/root", "0.2.0", Yes, Lib) @@ Of(<<"member">>),
                 Table("a/root", "0.1.0", Yes, Lib @@ "dependencies" :> ("d" :> Registered("x/y")))}}

Ask(command, package, output) ==
  [command |-> command, package |-> package, output |-> output, secure |-> TRUE]

MCRequests ==
  {Ask(c, n, o) : c \in {"pack", "dry-run", "publish"}, n \in {Absent, "a/root", "a/member"},
                  o \in {"dist", "elsewhere"}}
  \cup {Ask("pack", Absent, "source"), [Ask("publish", Absent, "dist") EXCEPT !.secure = FALSE]}

\* "manifests": every manifest and every tree, one command, nothing moves.
\* "race": two commands on one workspace, edits, faults and a slow network.
ScenarioInit ==
  /\ PublishInit
  /\ \/ /\ story = "manifests"
        /\ tree \in ManifestTrees
        /\ \E p \in Client :
             \A q \in Client \ {p} : request[q] = Ask("pack", Absent, "source")
     \/ /\ story = "race"
        /\ tree \in RaceTrees
        /\ \A p \in Client : request[p] \in
             {Ask("publish", Absent, "dist"), Ask("publish", "a/root", "elsewhere"),
              Ask("publish", "a/member", "elsewhere"), Ask("pack", Absent, "dist")}

Allowed ==
  /\ story = "manifests" =>
       /\ edits' = edits
       /\ \A p \in Client : stage'[p] = "failed" => stage[p] \notin {"create", "close", "rename"}
  /\ edits' # edits => \E p \in Client : Busy(p)

MCSymmetry == Permutations(Client)

Scenario == ScenarioInit /\ [][PublishNext /\ Allowed /\ UNCHANGED story]_<<publishVars, story>>
=============================================================================
