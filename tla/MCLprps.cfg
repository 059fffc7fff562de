CONSTANTS
  Chars <- MCChars
  MBSIZE = 12
  OQ = 2
  IQ = 2
  JobLen = 4
  Texts <- MCTexts
  StatusOf <- MCStatusOf
  PageNo <- MCPageNo
  MaxInts = 2
SPECIFICATION Spec
INVARIANTS PagesCharged JobDelivered LineInSync TimeoutReprints NothingLost
PROPERTY OutputNeverBlocks
CHECK_DEADLOCK FALSE
