SPECIFICATION Both
CONSTANTS
  Names = {"t", "v"}
  Devices = {1, 2}
  Depth = 2
  MaxMounts = 3
  Shares <- SharesAll
  Bases <- BasesTwo
  Args <- ArgsAll
  MaxArgs = 3
  MaxConfig = 15
  MaxArgc = 6
  TermSize = 4
  Terms <- TermsAll
  MemoryRange <- MemoryAll
  CpuRange <- CpuAll
  Releases <- ReleasesAll
  Identities <- IdentitiesAll
  Groups <- GroupsAll
  Inherited <- InheritedAll
  Modules = {"virtio", "9p"}
INVARIANTS NothingLeft AsAsked 
PROPERTIES UnreachableWhenChosen
