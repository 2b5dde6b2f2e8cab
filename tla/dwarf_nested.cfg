SPECIFICATION Spec
CONSTANTS
  Padding = "padding"
  Tags = {"padding", "compile_unit", "structure_type", "member", "unspecified_parameters"}
  MaxEntries = 4
  MaxMarks = 3
  ObjAddrSize = 8
  ReservedLength = 100
  Units <- GoodUnits
INVARIANT AllMarksFound
