SPECIFICATION Spec
CONSTANTS
  bm25 = bm25
  vector = vector
  init = init
  serve = serve
  all = all
  tests = tests
  old = old
  new = new
  View = {bm25, vector}
  InPlace = {bm25}
  Compiler = {init, serve}
  Selection = {all, tests}
  Default = all
  Inherit = Inherit
  Registered <- TwoRegistered
  Chosen <- TwoChosen
  Identity <- TwoIdentities
  NoSource = NoSource
  NoArtifact = NoArtifact
  NoView = NoView
  Reverts = FALSE
  MaxEdits = 1
  MaxCommits = 0
  MaxFaults = 1
PROPERTIES PublishedViewsAreOnDisk NoViewIsForgotten ImplementsAbstractIndex
