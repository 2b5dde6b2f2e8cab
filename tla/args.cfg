SPECIFICATION Spec
CONSTANTS
  MaxArgs = 5
  Parts <- AllParts
  Argvs <- CommandLines
INVARIANTS TypeOK UnderstoodRight NamedAfterPlainInput
