CONSTANTS
  App = App
  Lib = Lib
  Util = Util
  GitTop = GitTop
  GitPart = GitPart
  d1 = d1
  d2 = d2
  d3 = d3
  None = None
  Unreadable = Unreadable
  Place <- GraphPlaces
  Name <- Names
  Version = {1, 2}
  Alias <- Aliases
  Root <- App
  Repo <- Repos
  LocalRepo <- NoRepos
  Top <- GraphTop
  Inside <- GraphInside
  Digest <- Digests
  Trees <- AllTrees
  Editable <- EditableTrees
  Release <- Releases
  Home = {here, there}
  MaxRuns = 2
  Changes <- AllChanges
SPECIFICATION Scenario
CHECK_DEADLOCK FALSE
INVARIANTS
  OneSourcePerName
  GraphIsExact
  GraphIsAcyclic
  ReportsAreTrue
PROPERTIES
  Terminates
  
  LockIsHonoured
