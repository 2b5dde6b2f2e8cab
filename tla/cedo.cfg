SPECIFICATION FairSpec
CONSTANTS
  MaxSyms = 2
  MaxWrites = 2
  Names = {"a", "b"}
  Values = {0, 1}
  Requests <- Lists
  Worlds <- AllWorlds
INVARIANTS TypeOK Serialized FailureKeepsOutput SuccessWritesOutput MappingScoped EverySymbolAccounted
PROPERTY Progress
