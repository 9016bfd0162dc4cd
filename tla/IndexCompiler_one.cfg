SPECIFICATION FairSpec
CONSTANTS
  bm25 = bm25
  vector = vector
  init = init
  serve = serve
  all = all
  tests = tests
  old = old
  new = new
  View = {bm25, vector}
  InPlace = {bm25}
  Compiler = {init}
  Selection = {all}
  Default = all
  Inherit = Inherit
  Registered <- OneRegistered
  Chosen <- OneChosen
  Identity <- OneIdentity
  NoSource = NoSource
  NoArtifact = NoArtifact
  NoView = NoView
  Reverts = FALSE
  MaxEdits = 1
  MaxCommits = 1
  MaxFaults = 1
INVARIANTS FreshIsWhatItSays ManifestsLoad
PROPERTIES LastIndexedIsWhole FailureKeepsTheEntry EventuallyCurrent
