SPECIFICATION Spec
CONSTANTS
  Absent = Absent
  Null = Null
  StackLimit = 5
  Infos <- NodeInfos
INVARIANT NoOverflow
