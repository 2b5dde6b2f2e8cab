SPECIFICATION Spec
CONSTANTS
  MaxSyms = 2
  MaxWrites = 2
  Names = {"a", "b"}
  Values = {0, 1}
  Requests <- Lists
  Worlds <- FileWorlds
INVARIANTS ExampleWorks
