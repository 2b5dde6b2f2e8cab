SPECIFICATION Spec
CONSTANTS
  MaxSyms = 2
  AddrSize = 8
  NoName = "none"
  Names = {"a", "b", "c", "alias"}
  Types <- GoodTypes
  SymLists <- GoodLists
  Memories <- PointerMaps
INVARIANTS TypeOK InPlace SizeRight NothingLost PointersRight LinksResolve
