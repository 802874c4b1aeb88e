CONSTANTS
  SizeBits = 5
  Default <- DefaultNs
  NoGroup <- NoGroupV
  OutOfRange <- OutOfRangeV
  DefaultNs = DefaultNs
  NoGroupV = NoGroupV
  OutOfRangeV = OutOfRangeV
  Tokens <- MCTokens
  GroupTokens <- MCGroupTokens
  Files <- MCFiles
SPECIFICATION Spec
INVARIANTS TypeOK GetFilenameFollowsGrammar PrepareSessionFollowsGrammar
