SPECIFICATION Spec
CONSTANTS
  Runners = {"r1", "r2"}
  Marks = {"inc"}
  Slots = {}
  Limited = "xf"
  Sinks = {"k1"}
  Making <- One
  Taking <- Last
  Carry = {}
  MaxRow = 2
  Batch = 1
  MaxTries = 1
  Budget <- None
INVARIANT NoRowSkipped
CHECK_DEADLOCK FALSE
