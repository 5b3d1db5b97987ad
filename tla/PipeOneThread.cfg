SPECIFICATION Spec
CONSTANTS
  w = w
  r = r
  None = None
  Writers <- TheWriter
  Readers <- TheWriter
  Block = 11
  Sizes <- TwoWords
  MaxSent = 8
INVARIANT PipeIsFifo
INVARIANT CountsAgree
