SPECIFICATION Spec
CONSTANTS
  Temp = temp
  Objects = {temp, a, b, c}
  MapFailed = MapFailed
  Addrs = {x, y}
  NoFd = NoFd
  Fds = {f, g}
  Contents <- Files
INVARIANTS TypeOK SoleOwner OwnedIsMapped NothingLeaks DescriptorsClosed
PROPERTY UnmappedByOwner
