SPECIFICATION FairPipelineSpec
CONSTANTS
  Names = {"a", "b"}
  Values = {0, 64}
  MaxWrites = 1
  StackLimit = 16
  ObjAddrSize = 8
  ReservedLength = 100
  Padding = "padding"
  Tags = {"padding", "compile_unit", "base_type", "pointer_type", "structure_type", "member",
          "array_type", "subrange_type", "typedef", "const_type", "subprogram", "variable"}
  Absent = Absent
  Null = Null
  NoName = NoName
  Requests <- Lists
  Worlds <- AllWorlds
  Units <- AllUnits
  ObjectTypes <- AllTypes
  AddressOf <- Addresses
INVARIANT OutputRight
PROPERTY DriverImplemented
