SPECIFICATION Both
CONSTANTS
  MAX_NAMED_SEMAPHORES = 2
  MAX_REFERENCES = 2
  Names = {n1, n2}
  Addresses = {a1, a2, a3}
  MaxCreated = 4
  Space = 16
  ArenaBase = 4
  ArenaSize = 8
  Guard = 1
  ImageBase = 13
  ImageSize = 2
  StringMax = 3
  Nul = {0, 7, 14}
  MAX_FDS = 12
  Fds <- FdsMoved
  Numbers = {0, 1, 12}
  Places = {0, 4, 6, 11}
  Sizes = {0, 2, 15}
  Spellings <- SpellingsAll
  StructSize = 2
  Interrupted = {"READ", "SETGID", "GETADDRINFO", "OPENDIR", "GETCWD", "SIGMASK"}
  HandlerCalls = {"LSEEK", "SETUID"}
  MaxDepth = 2
  Limits = {0, 2}
  MAX_DIRS = 1
  AddressLists <- Lists
  Interfaces <- InterfaceLists
INVARIANTS TableAgrees  Answered CredentialsCurrent NothingLeaks
PROPERTY SameSemaphore
