SPECIFICATION MCSpec
CONSTANTS
  file1 = file1
  file2 = file2
  textX = textX
  textY = textY
  chunkA = chunkA
  chunkB = chunkB
  chunkC = chunkC
  Paths = {file1, file2}
  Texts = {textX, textY}
  FileVersions <- MCVersions
  Branches = {main, other}
  MaxRefreshes = 2
  MaxFailures = 1
  MaxDeaths = 1
  Readers = {r1, r2}
  MaxBuilds = 2
  MaxCommits = 3
  MaxStops = 1
  Questions <- MCQuestions
  Limit = 2
  ExpandFrom = 1
  PerName = 1
  MaxExpanded = 2
INVARIANTS
  StacksAligned FilesWhole SearchExact
  OpenedIsLatest AnswerBounded AgreementKept
PROPERTIES
  CommitsWhole ActiveBranchLabelled VectorsFollowChunks BuiltStays
CHECK_DEADLOCK FALSE
