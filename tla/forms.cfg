SPECIFICATION Spec
CONSTANTS
  AddrSize = 8
  Objects <- AllObjects
INVARIANTS TableRight PointerRight ValuesRight KnownFailures
