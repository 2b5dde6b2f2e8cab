SPECIFICATION FairSpec
CONSTANTS
  Padding = "padding"
  Tags = {"padding", "compile_unit", "structure_type", "member", "unspecified_parameters"}
  MaxEntries = 5
  MaxMarks = 3
  ObjAddrSize = 8
  ReservedLength = 100
  Units <- AllUnits
INVARIANTS TypeOK Forest AcceptedTreeRight StaysInUnit PlainUnitsAccepted
PROPERTIES Termination TreeDelivered
