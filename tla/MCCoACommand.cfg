SPECIFICATION Spec
CONSTANTS
  Rank <- MCRank
  OctetSize = 32
  WordSize = 2
  BlockSize = 3
  Md5 <- MCMd5
  Xor <- MCXor
  Secret <- MCSecret
  LetterS = 18
  LetterBigI = 19
  LetterI = 20
  Colon = 21
  Blank = 22
  Ampersand = 23
  DefaultServer <- MCServer
  Cases <- MCCases
  Replies <- MCReplies
  Randoms <- MCRandoms
  MaxRead = 6
INVARIANTS
  TypeOK
  CommandArrives
  
PROPERTY
  UnpackEnds
CHECK_DEADLOCK FALSE
