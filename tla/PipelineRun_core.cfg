SPECIFICATION FairSpec
CONSTANTS
  Runners = {"r1"}
  Marks = {"inc"}
  Slots = {"pg"}
  Limited = "xf"
  Sinks = {"k1", "k2"}
  Making <- Both
  Taking <- Two
  Carry = {"k1"}
  MaxRow = 2
  Batch = 1
  MaxTries = 2
  Budget <- Single
INVARIANT TypeOK
INVARIANT NoRowSkipped
INVARIANT RepeatsAreAccounted
 
PROPERTY RowsArrive
CHECK_DEADLOCK FALSE
