\* Two tokens, columns of length one, two updates under way.
SPECIFICATION Spec
CONSTANTS
  Lists <- MCLists
  Tokens <- MCTokens
  Recent = recent
  NoFetch = NoFetch
  MaxToken = 2
  Limit = 1
  MaxCurve = 2
  MaxQueue = 2
INVARIANTS
  ListeningIsRight
  ColumnsAreSound
  NewestShown
PROPERTY
  StreamComesBack
