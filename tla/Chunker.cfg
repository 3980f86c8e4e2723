SPECIFICATION MCSpec
CONSTANTS
  Files <- MCFiles
  Cuttings <- MCCuttings
  Nesting = 2
  Nodes <- MCNodes
  MaxLines = 5
  MaxNodes = 2
  MaxHeight = 22
  MaxChunks = 20
  MaxText = 30
  MaxUnits = 3
  MinSpan = 2
  BladeDepth = 2
  VueDepth = 1
  ObjectDepth = 1
  PdfPages = 3
  PdfChars = 6
  Chunks <- MCChunks
  MaxLongLines = 6
  MaxChars = 11
  MinWindow = 4
  Overlap = 2
  SigScan = 3
INVARIANTS
  TextKept SpansHold DefinitionsAttributed BlocksKeptApart NothingDropped
CHECK_DEADLOCK FALSE
