SPECIFICATION Scenario
SYMMETRY MCSymmetry
CHECK_DEADLOCK FALSE
CONSTANTS
  PackageName = {"a/root", "a/member", "x/y"}
  Semver = {"0.1.0", "0.2.0", "1.0.0"}
  CommitId = {"4b825dc"}
  RelativePath = {"src/lib", "src/a", "src/b", "member", "nowhere", "../y", "../l"}
  ContainedPath = {"src/lib", "src/a", "src/b"}
  GitUrl = {"https://g"}
  RegistryUrl = {"https://r"}
  Edition = {"2026"}
  Absent = Absent
  Junk = Junk
  Client = {p1, p2}
  Place = {"root", "member"}
  Root = "root"
  Files <- MCFiles
  Trees <- MCTrees
  Edits <- MCEdits
  Requests <- MCRequests
  Refused = {Token}
  Text = Text
  New = New
  Token = Token
  Link = Link
  MaxSize = 4
  MaxEntries = 1
  MaxEdits = 1
  Troubles = {"io", "network"}
INVARIANTS
  
  PublishedIsDeclared
  SuccessIsPublished
