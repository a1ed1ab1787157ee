CONSTANTS
  Rankings <- MCRankings
  Numbers <- MCNumbers
  Rowids <- MCRowids
  MaxUsize = 6
  None = None
SPECIFICATION KnnSpec
INVARIANTS
  AnswerIsAskedFor
  NothingLeftToTheHost
