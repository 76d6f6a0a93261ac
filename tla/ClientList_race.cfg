SPECIFICATION ListSpec
CONSTANTS
  Elems = {e1, e2, e3}
  Head0 = Head0
  Tail0 = Tail0
  Null = Null
INVARIANT LookupExact
CHECK_DEADLOCK FALSE
