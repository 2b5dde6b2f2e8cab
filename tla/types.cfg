SPECIFICATION Spec
CONSTANTS
  Absent = Absent
  Null = Null
  StackLimit = 9
  Infos <- AllInfos
INVARIANTS KnownTypeRight ResolvedUnlessDoomed
