SPECIFICATION Spec
CONSTANTS
  max_unit_num = 4
  Window = 7
INVARIANTS UnitsSafe LenIsHonest FirstTrySucceeds
PROPERTY ImplementsFifo
