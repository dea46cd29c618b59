\* The sequence numbers of one owner are held against the next.
SPECIFICATION Spec
CONSTANTS
  None = None
  opA = opA
  opB = opB
  Operators = {opA, opB}
  Timeout = 2
  MaxSeq = 3
  Reconnects = FALSE
INVARIANTS
  SequenceIsPerSender
