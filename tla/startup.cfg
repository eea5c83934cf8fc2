SPECIFICATION Spec
CONSTANTS
  Args <- MCArgs
  MaxArgs = 4
  SocksPort = 49152
INVARIANT ScansAgree
INVARIANT SpecsArrive
INVARIANT SocksAgree
CHECK_DEADLOCK FALSE
