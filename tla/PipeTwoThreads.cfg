SPECIFICATION Spec
CONSTANTS
  w = w
  r = r
  None = None
  Writers <- TheWriter
  Readers <- TheReader
  Block = 11
  Sizes <- TwoWords
  MaxSent = 3
INVARIANT ReaderFindsData
