------------------------------ MODULE Requests ------------------------------
(***************************************************************************)
(* Every request the guest's C library sends, and how the loader treats    *)
(* its arguments before it calls Linux (host.c, posix_generated_host.h,    *)
(* network_host.h, misc_host.h, raw_host.h).                               *)
(*                                                                         *)
(* A row gives a set of operations, the treatment of each argument and the *)
(* order of the checks.  Checks come in batches: the code evaluates all of *)
(* a batch before it looks whether one of them failed, so that the errno   *)
(* of the last failure stands.  Treatments of an argument:                 *)
(*   "int"                        passed on as it is                       *)
(*   "fd", "at", "optfd"          a descriptor; or AT_FDCWD; or negative   *)
(*   "path", "link", "pathx"      a path, whose alias of a stream is       *)
(*                                followed, not followed, as flags say     *)
(*   "optpath"                    a path that is followed, or null         *)
(*   "str", "optstr"              a string; or null                        *)
(*   "mem", "opt", "optval"       a structure; or null; EINVAL for EFAULT  *)
(*   "buf", "bytes", "optbytes"   a buffer of the size another argument    *)
(*                                gives; anything if that is 0; or null    *)
(*   "sized", "anybytes"          unchecked when of size 0; or also null   *)
(*   "flag", "known", "dir"       refused with EINVAL, ENOTSUP, EBADF      *)
(*   "silent"                     refused without an errno                 *)
(***************************************************************************)
EXTENDS GuestAccess

CONSTANTS Numbers,     \* the descriptors the guest tries
          Places,      \* the addresses it tries
          Sizes,       \* the sizes of buffers it tries
          Spellings,   \* the paths it tries
          StructSize   \* the size that stands for that of a structure

ASSUME RequestAssumption ==
  /\ Numbers \subseteq Int /\ Places \subseteq 0 .. Last /\ Sizes \subseteq 0 .. Last
  /\ Spellings \subseteq Paths /\ StructSize \in 1 .. Last
-----------------------------------------------------------------------------
(* One argument: the values it may have, and the errno its check leaves.   *)
(* A buffer comes with its size, a path with what the flags say of its     *)
(* alias.                                                                  *)

Null == [at |-> 0, form |-> "plain", digits |-> << >>, rest |-> "end"]

Values(kind) ==
  CASE kind = "int" -> {0}
    [] kind = "fd" -> Numbers
    [] kind = "optfd" -> Numbers \cup {-1}
    [] kind = "at" -> Numbers \cup {AT_CWD}
    [] kind \in {"path", "link"} -> Spellings
    [] kind = "pathx" -> Spellings \X BOOLEAN
    [] kind = "optpath" -> Spellings \cup {Null}
    [] kind \in {"str", "optstr", "mem", "opt", "optval"} -> Places
    [] kind \in {"buf", "bytes", "sized", "optbytes", "anybytes"} -> Places \X Sizes
    [] kind \in {"flag", "known", "dir", "silent"} -> BOOLEAN

\* The path and whether its alias is followed, of an argument that is a path.
Spelled(kind, v) == IF kind = "pathx" THEN v[1] ELSE v
Followed(kind, v) == IF kind = "pathx" THEN v[2] ELSE kind # "link"

Checked(kind, v) ==
  CASE kind = "int" -> OK
    [] kind = "fd" -> IF fd(v) < 0 THEN "EBADF" ELSE OK
    [] kind = "at" -> IF v # AT_CWD /\ fd(v) < 0 THEN "EBADF" ELSE OK
    [] kind = "optfd" -> IF v >= 0 /\ fd(v) < 0 THEN "EBADF" ELSE OK
    [] kind \in {"path", "link", "pathx"} ->
         path_string_mode(Spelled(kind, v), Followed(kind, v)).error
    [] kind = "optpath" -> IF v.at = 0 THEN OK ELSE path_string_mode(v, TRUE).error
    [] kind = "str" -> string(v)
    [] kind = "optstr" -> IF v = 0 THEN OK ELSE string(v)
    [] kind = "mem" -> memory(v, StructSize)
    [] kind = "opt" -> IF v = 0 THEN OK ELSE memory(v, StructSize)
    [] kind = "optval" -> IF v = 0 \/ memory(v, StructSize) = OK THEN OK ELSE "EINVAL"
    [] kind \in {"buf", "bytes"} -> memory(v[1], v[2])
    [] kind = "sized" -> IF v[2] = 0 THEN OK ELSE memory(v[1], v[2])
    [] kind = "optbytes" -> IF v[1] = 0 THEN OK ELSE memory(v[1], v[2])
    [] kind = "anybytes" -> IF v[1] = 0 \/ v[2] = 0 THEN OK ELSE memory(v[1], v[2])
    [] kind = "flag" -> IF v THEN OK ELSE "EINVAL"
    [] kind = "known" -> IF v THEN OK ELSE "ENOTSUP"
    [] kind = "dir" -> IF v THEN OK ELSE "EBADF"
    [] kind = "silent" -> IF v THEN OK ELSE "silent"

\* A failed check refuses the request, but for a buffer of no bytes.
Refused(kind, v) == Checked(kind, v) # OK /\ ~(kind = "bytes" /\ v[2] = 0)

\* What Linux is then given is the guest's: its bytes, its open descriptor,
\* the file its path names, or null where Linux accepts that.
Proper(kind, v) ==
  CASE kind \in {"fd", "dir", "known", "flag"} -> ~Refused(kind, v)
    [] kind = "at" -> v = AT_CWD \/ fd(v) >= 0
    [] kind = "optfd" -> v < 0 \/ fd(v) >= 0
    [] kind \in {"path", "link", "pathx"} ->
         /\ Owned(Spelled(kind, v).at, 1)
         /\ SameFile(Spelled(kind, v), Followed(kind, v),
                     path_string_mode(Spelled(kind, v), Followed(kind, v)))
    [] kind = "optpath" -> v = Null \/ SameFile(v, TRUE, path_string_mode(v, TRUE))
    [] kind \in {"str", "optstr"} ->
         \/ v = 0 /\ kind = "optstr"
         \/ \E n \in 1 .. StringMax : Owned(v, n) /\ v + n - 1 \in Nul
    [] kind \in {"mem", "opt", "optval"} -> (v = 0 /\ kind # "mem") \/ Owned(v, StructSize)
    [] kind = "buf" -> Owned(v[1], v[2])
    [] kind \in {"bytes", "sized"} -> v[2] = 0 \/ Owned(v[1], v[2])
    [] kind \in {"optbytes", "anybytes"} -> v[1] = 0 \/ v[2] = 0 \/ Owned(v[1], v[2])
    [] OTHER -> TRUE
-----------------------------------------------------------------------------
(* The rows. *)

\* The checks one after the other, in the order of the arguments.
Each(n) == [i \in 1 .. n |-> << i >>]
Plain(operations, kinds) == << operations, kinds, Each(Len(kinds)) >>
-----------------------------------------------------------------------------
(* service, host.c *)

BridgeProcess == <<
  << {"POLL"}, << "sized", "flag", "int", "opt" >>, << << 2 >>, << 1, 4 >> >> >>,
  << {"STATX"}, << "at", "pathx", "flag", "int", "mem" >>, << << 3 >>, << 5, 2, 1 >> >> >>,
  Plain({"GETPGID", "SETPGID", "SETSID", "ALARM"}, << >>),
  Plain({"TCGETPGRP", "TCSETPGRP"}, << "fd" >>),
  << {"TCGETATTR", "TCSETATTR"}, << "fd", "mem" >>, << << 2, 1 >> >> >>,
  << {"TTYNAME"}, << "fd", "buf" >>, << << 1, 2 >> >> >>,
  Plain({"KILL"}, << "int", "flag" >>), Plain({"FORK"}, << >>) >>

BridgeSignals == <<
  Plain({"SIGACTION"}, << "flag", "optval", "optval" >>),
  << {"SIGMASK"}, << "int", "opt", "opt" >>, << << 2, 3 >> >> >>,
  Plain({"PIPE"}, << "mem" >>), Plain({"WAITPID"}, << "int", "opt" >>) >>

BridgeTransfer == <<
  << {"READ", "WRITE"}, << "fd", "buf" >>, << << 1, 2 >> >> >>,
  Plain({"OPEN"}, << "pathx" >>), Plain({"LSEEK"}, << "fd" >>) >>

BridgeFiles == <<
  << {"STAT"}, << "path", "mem" >>, << << 2 >>, << 1 >> >> >>,
  << {"LSTAT"}, << "link", "mem" >>, << << 2 >>, << 1 >> >> >>,
  << {"FSTAT"}, << "fd", "mem" >>, << << 2 >>, << 1 >> >> >>,
  Plain({"ACCESS", "CHDIR", "CHMOD"}, << "path" >>), Plain({"GETCWD"}, << "buf" >>),
  Plain({"MKDIR", "RMDIR", "UNLINK", "MKFIFO"}, << "link" >>),
  << {"LINK"}, << "link", "link" >>, << << 1, 2 >> >> >>,
  << {"SYMLINK"}, << "str", "link" >>, << << 1, 2 >> >> >>,
  << {"READLINK"}, << "link", "buf" >>, << << 1, 2 >> >> >>,
  Plain({"FCHMOD", "FCHDIR", "FSYNC", "ISATTY"}, << "fd" >>),
  Plain({"UMASK", "GETTIME"}, << >>), Plain({"UNAME"}, << "mem" >>) >>

BridgeSystem == <<
  Plain({"SLEEP"}, << "int", "int", "opt" >>),
  Plain({"GETPWUID", "GETGRGID"}, << "int", "mem" >>),
  << {"GETPWNAM", "GETGRNAM"}, << "str", "mem" >>, << << 2 >>, << 1 >> >> >>,
  Plain({"GETGROUPS"}, << "flag", "sized" >>), Plain({"OPENDIR"}, << "path" >>),
  Plain({"DIRFD", "CLOSEDIR"}, << "dir" >>), Plain({"READDIR"}, << "dir", "mem" >>) >>

BridgeDevices == <<
  Plain({"IOCTL"}, << "fd", "known", "mem" >>), Plain({"IOCTL_VALUE"}, << "fd" >>),
  << {"GETRLIMIT", "SETRLIMIT"}, << "flag", "mem" >>, << << 2 >>, << 1 >> >> >>,
  << {"REALPATH"}, << "path", "buf" >>, << << 1, 2 >> >> >>,
  Plain({"SYNC"}, << >>), Plain({"MKDTEMP"}, << "str" >>) >>
-----------------------------------------------------------------------------
(* service_posix, posix_generated_host.h *)

PosixFiles == <<
  Plain({"CHOWN", "TRUNCATE"}, << "path" >>), Plain({"LCHOWN", "MKNOD"}, << "link" >>),
  Plain({"FCHOWN", "FTRUNCATE", "FLOCK", "POSIX_FALLOCATE"}, << "fd" >>),
  Plain({"PREAD", "PWRITE"}, << "fd", "bytes" >>),
  Plain({"READLINKAT"}, << "at", "link", "bytes" >>),
  Plain({"UNLINKAT"}, << "at", "link", "flag" >>), Plain({"FUTIMENS"}, << "fd", "opt" >>) >>

PosixSockets == <<
  Plain({"GETSID", "GETPRIORITY", "SETPRIORITY", "GETHOSTID", "SCHED_GET_PRIORITY_MAX",
         "SCHED_GET_PRIORITY_MIN", "SOCKET", "INOTIFY_INIT1"}, << >>),
  Plain({"SETHOSTNAME", "GETRANDOM"}, << "bytes" >>),
  Plain({"SCHED_GETAFFINITY", "SCHED_SETAFFINITY"}, << "int", "int", "bytes" >>),
  Plain({"BIND", "CONNECT", "SEND", "RECV"}, << "fd", "bytes" >>),
  Plain({"LISTEN", "SHUTDOWN"}, << "fd" >>),
  Plain({"SENDTO"}, << "fd", "bytes", "int", "int", "optbytes" >>) >>

PosixTerminals == <<
  Plain({"INOTIFY_ADD_WATCH"}, << "fd", "path" >>),
  Plain({"INOTIFY_RM_WATCH", "GRANTPT", "UNLOCKPT", "TCFLOW", "SETNS"}, << "fd" >>),
  Plain({"POSIX_OPENPT", "REBOOT", "UNSHARE"}, << >>),
  Plain({"PTSNAME_R", "TTYNAME_R"}, << "fd", "bytes" >>),
  Plain({"SHM_UNLINK", "MEMFD_CREATE"}, << "str" >>),
  Plain({"CLOCK_SETTIME"}, << "flag", "mem" >>),
  Plain({"SWAPON", "SWAPOFF", "UMOUNT2"}, << "path" >>),
  Plain({"RENAME"}, << "link", "link" >>) >>

PosixSystem == <<
  Plain({"SHM_OPEN", "INITGROUPS"}, << "str" >>),
  Plain({"MOUNT"}, << "optpath", "path", "optstr", "int", "optstr" >>),
  Plain({"SETGROUPS"}, << "int", "bytes" >>), Plain({"MLOCK", "MUNLOCK"}, << "bytes" >>),
  Plain({"SETUID", "SETGID", "SETRESUID", "SETRESGID", "EPOLL_CREATE1", "SCHED_YIELD", "PAUSE",
         "MLOCKALL", "MUNLOCKALL", "MSGGET", "SHMGET", "SEMGET"}, << >>),
  Plain({"CHROOT"}, << "path" >>), Plain({"UTIMENSAT"}, << "at", "pathx", "opt", "flag" >>),
  Plain({"CLOCK_GETRES"}, << "flag", "opt" >>) >>

PosixAttributes == <<
  Plain({"TIMES"}, << "opt" >>), Plain({"FACCESSAT"}, << "at", "pathx", "int", "flag" >>),
  Plain({"GETXATTR", "SETXATTR"}, << "path", "str", "optbytes" >>),
  Plain({"LISTXATTR"}, << "path", "optbytes" >>), Plain({"REMOVEXATTR"}, << "path", "str" >>),
  Plain({"LGETXATTR", "LSETXATTR"}, << "link", "str", "optbytes" >>),
  Plain({"LLISTXATTR"}, << "link", "optbytes" >>), Plain({"LREMOVEXATTR"}, << "link", "str" >>),
  Plain({"FGETXATTR", "FSETXATTR"}, << "fd", "str", "optbytes" >>) >>

PosixDirectories == <<
  Plain({"FLISTXATTR"}, << "fd", "optbytes" >>), Plain({"FREMOVEXATTR"}, << "fd", "str" >>),
  Plain({"RENAMEAT"}, << "at", "link", "at", "link" >>),
  Plain({"COPY_FILE_RANGE"}, << "fd", "opt", "fd", "opt" >>),
  Plain({"MQ_UNLINK"}, << "str" >>), Plain({"MQ_OPEN"}, << "str", "int", "int", "opt" >>),
  Plain({"LINKAT"}, << "at", "pathx", "at", "link", "flag" >>),
  Plain({"STATFS"}, << "path", "mem" >>), Plain({"MKFIFOAT", "MKDIRAT"}, << "at", "link" >>),
  Plain({"SYMLINKAT"}, << "str", "at", "link" >>) >>
-----------------------------------------------------------------------------
(* service_posix_extra, network_host.h; service_misc, misc_host.h *)

Network == <<
  Plain({"SOCKETPAIR"}, << "int", "int", "int", "mem" >>),
  << {"ACCEPT", "GETSOCKNAME", "GETPEERNAME"}, << "fd", "optbytes", "opt" >>,
     << << 1 >>, << 3 >>, << 2 >> >> >>,
  << {"GETSOCKOPT"}, << "fd", "int", "int", "bytes", "mem" >>, << << 1, 5 >>, << 4 >> >> >>,
  << {"RECVFROM"}, << "fd", "bytes", "int", "int", "optbytes", "opt" >>,
     << << 1, 2, 6 >>, << 5 >> >> >>,
  << {"GETADDRINFO"}, << "optstr", "optstr", "opt", "mem" >>, << << 1, 2, 3, 4 >> >> >>,
  \* the fifth and sixth are in the structure of the third
  << {"GETNAMEINFO"}, << "buf", "int", "mem", "int", "optbytes", "optbytes" >>,
     << << 1, 3 >>, << 5, 6 >> >> >>,
  Plain({"IF_NAMETOINDEX"}, << "str" >>), Plain({"IF_INDEXTONAME"}, << "int", "mem" >>) >>

MiscFiles == <<
  \* the fifth is in the structure of the fourth
  << {"GIT_STRFTIME"}, << "buf", "int", "str", "mem", "optstr" >>, << << 4, 3, 1 >>, << 5 >> >> >>,
  << {"OPENAT"}, << "at", "pathx" >>, << << 1, 2 >> >> >>,
  << {"FSTATAT"}, << "at", "pathx", "mem", "flag" >>, << << 4 >>, << 1, 2 >>, << 3 >> >> >>,
  Plain({"FDOPENDIR"}, << "fd" >>),
  << {"EPOLL_CTL"}, << "fd", "int", "fd", "opt" >>, << << 1, 3 >>, << 4 >> >> >>,
  << {"EPOLL_WAIT"}, << "fd", "buf", "flag" >>, << << 1 >>, << 3 >>, << 2 >> >> >> >>

MiscTimes == <<
  << {"STATVFS"}, << "path", "mem" >>, << << 2 >>, << 1 >> >> >>,
  << {"FSTATVFS"}, << "fd", "mem" >>, << << 2 >>, << 1 >> >> >>,
  << {"UTIMES"}, << "path", "opt" >>, << << 1, 2 >> >> >>,
  << {"ADJTIME"}, << "opt", "opt" >>, << << 1, 2 >> >> >>,
  << {"SETITIMER"}, << "int", "opt", "opt" >>, << << 2, 3 >> >> >>,
  Plain({"ADJTIMEX"}, << "mem" >>),
  << {"SETSOCKOPT"}, << "fd", "int", "int", "bytes" >>, << << 1, 4 >> >> >>,
  Plain({"GETRUSAGE"}, << "int", "mem" >>),
  \* the fifth is the number the fourth points to
  << {"GETGROUPLIST"}, << "str", "int", "sized", "mem", "flag" >>,
     << << 1, 4 >>, << 5 >>, << 3 >> >> >> >>

MiscSignals == <<
  Plain({"GETIFADDRS"}, << "mem" >>),
  << {"SIGNALFD"}, << "optfd", "mem" >>, << << 2 >>, << 1 >> >> >>,
  << {"SIGTIMEDWAIT"}, << "mem", "mem", "opt" >>, << << 1, 2, 3 >> >> >>,
  Plain({"SYSCONF"}, << "flag" >>),
  Plain({"MSGCTL", "SHMCTL"}, << "int", "int", "int", "opt" >>), Plain({"SEMCTL_SETVAL"}, << >>),
  << {"SEMCTL"}, << "int", "int", "known", "opt" >>, << << 4 >>, << 3 >> >> >> >>
-----------------------------------------------------------------------------
(* service_raw, raw_host.h.  The arguments of a raw call are in an array,  *)
(* whose address is the seventh.                                           *)

Raw(operations, kinds, batches) ==
  << operations, [i \in 1 .. 7 |-> IF i = 7 THEN "mem" ELSE IF i <= Len(kinds) THEN kinds[i] ELSE "int"],
     << << 7 >> >> \o batches >>
RawEach(operations, kinds) == Raw(operations, kinds, Each(Len(kinds)))

RawProcess == <<
  Plain({"PRCTL"}, << "known" >>), Plain({"PRCTL_OUT"}, << "int", "mem" >>),
  Plain({"PTRACE"}, << "known" >>), Plain({"PTRACE_OUT"}, << "int", "int", "int", "mem" >>) >>

RawCalls == <<
  RawEach({"SYS_getrandom"}, << "sized" >>), RawEach({"SYS_add_key"}, << "str", "str", "sized" >>),
  RawEach({"KEYCTL_JOIN_SESSION_KEYRING"}, << "int", "optstr" >>),
  RawEach({"KEYCTL_SEARCH"}, << "int", "int", "str", "str" >>),
  RawEach({"KEYCTL_READ"}, << "int", "int", "sized" >>), RawEach({"SYS_keyctl"}, << "known" >>),
  \* the length and the address of the filter are in the structure of the third
  Raw({"SYS_seccomp"}, << "known", "silent", "mem", "buf" >>,
      << << 1 >>, << 3 >>, << 2 >>, << 4 >> >>),
  RawEach({"SYS_pidfd_send_signal"}, << "fd", "int", "known" >>),
  RawEach({"SYS_capget", "SYS_capset"}, << "mem", "mem" >>),
  RawEach({"SYS_pidfd_open", "SYS_sched_getscheduler", "SYS_ioprio_get", "SYS_ioprio_set"}, << >>),
  RawEach({"SYS_sched_getparam"}, << "int", "mem" >>),
  RawEach({"SYS_sched_setscheduler"}, << "int", "int", "mem" >>),
  RawEach({"SYS_sched_getattr"}, << "int", "buf" >>),
  \* the second again, with the size found in it
  RawEach({"SYS_sched_setattr"}, << "int", "mem", "buf" >>),
  RawEach({"SYS_prlimit64"}, << "int", "int", "opt", "opt" >>),
  RawEach({"SYS_pivot_root"}, << "str", "str" >>), RawEach({"SYS_finit_module"}, << "fd", "str" >>),
  RawEach({"SYS_delete_module"}, << "str" >>), RawEach({"SYS_syslog"}, << "int", "anybytes" >>),
  RawEach({"SYS_clone", "SYS_unlisted"}, << "known" >>) >>
-----------------------------------------------------------------------------
Rows == BridgeProcess \o BridgeSignals \o BridgeTransfer \o BridgeFiles \o BridgeSystem \o BridgeDevices
        \o PosixFiles \o PosixSockets \o PosixTerminals \o PosixSystem \o PosixAttributes
        \o PosixDirectories \o Network \o MiscFiles \o MiscTimes \o MiscSignals
        \o RawProcess \o RawCalls
Operations == UNION {Rows[i][1] : i \in DOMAIN Rows}
RowOf == [op \in Operations |-> Rows[CHOOSE i \in DOMAIN Rows : op \in Rows[i][1]]]
Kinds(op) == RowOf[op][2]
-----------------------------------------------------------------------------
(* Which arguments are addresses, by the declarations of the guest's C     *)
(* library and, for a raw call, of Linux.                                  *)

BridgePointers == <<
  << {1}, {"PIPE"} >>, << {2}, {"READ", "WRITE", "WAITPID", "TTYNAME", "TCGETATTR", "TCSETATTR"} >>,
  << {2, 3}, {"SIGACTION", "SIGMASK"} >>, << {1, 4}, {"POLL"} >>, << {2, 5}, {"STATX"} >> >>

FilePointers == <<
  << {1}, {"OPEN", "ACCESS", "CHDIR", "GETCWD", "MKDIR", "RMDIR", "UNLINK", "CHMOD", "MKFIFO"} >>,
  << {1, 2}, {"LINK", "SYMLINK", "READLINK"} >> >>

RecordPointers == <<
  << {1}, {"UNAME"} >>, << {2}, {"FSTAT", "GETPWUID", "GETGRGID", "GETGROUPS"} >>,
  << {1, 2}, {"STAT", "LSTAT", "GETPWNAM", "GETGRNAM"} >> >>

SystemPointers == <<
  << {1}, {"OPENDIR", "MKDTEMP"} >>, << {2}, {"READDIR", "GETRLIMIT", "SETRLIMIT"} >>,
  << {3}, {"IOCTL", "SLEEP"} >>, << {1, 2}, {"REALPATH"} >> >>

PosixPointers == <<
  << {1}, {"CHOWN", "LCHOWN", "TRUNCATE", "MKNOD", "SETHOSTNAME", "GETRANDOM", "SHM_UNLINK", "SWAPON",
           "SWAPOFF", "UMOUNT2"} >>,
  << {2}, {"PREAD", "PWRITE", "UNLINKAT", "FUTIMENS", "BIND", "CONNECT", "SEND", "RECV",
           "INOTIFY_ADD_WATCH", "PTSNAME_R", "TTYNAME_R", "CLOCK_SETTIME"} >>,
  << {3}, {"SCHED_GETAFFINITY", "SCHED_SETAFFINITY"} >>, << {4}, {"SETSOCKOPT"} >>,
  << {2, 3}, {"READLINKAT"} >>, << {2, 5}, {"SENDTO"} >> >>

PosixPointersMore == <<
  << {1}, {"MEMFD_CREATE", "SHM_OPEN", "INITGROUPS", "MLOCK", "MUNLOCK", "CHROOT", "TIMES",
           "MQ_UNLINK"} >>,
  << {2}, {"SETGROUPS", "CLOCK_GETRES", "FACCESSAT", "FLISTXATTR", "FREMOVEXATTR", "MKFIFOAT",
           "MKDIRAT"} >>,
  << {1, 2}, {"RENAME", "LISTXATTR", "REMOVEXATTR", "LLISTXATTR", "LREMOVEXATTR", "STATFS"} >>,
  << {1, 3}, {"SYMLINKAT"} >>, << {2, 3}, {"UTIMENSAT", "FGETXATTR", "FSETXATTR"} >>,
  << {2, 4}, {"RENAMEAT", "COPY_FILE_RANGE", "LINKAT"} >>,
  << {1, 2, 3}, {"GETXATTR", "SETXATTR", "LGETXATTR", "LSETXATTR"} >>,
  << {1, 2, 3, 5}, {"MOUNT"} >> >>

NetworkPointers == <<
  << {1}, {"IF_NAMETOINDEX"} >>, << {2}, {"IF_INDEXTONAME"} >>, << {4}, {"SOCKETPAIR"} >>,
  << {2, 3}, {"ACCEPT", "GETSOCKNAME", "GETPEERNAME"} >>, << {4, 5}, {"GETSOCKOPT"} >>,
  << {2, 5, 6}, {"RECVFROM"} >>, << {1, 2, 3, 4}, {"GETADDRINFO"} >>,
  << {1, 3, 5, 6}, {"GETNAMEINFO"} >> >>

MiscPointers == <<
  << {1, 3, 4, 5}, {"GIT_STRFTIME"} >>, << {1, 4}, {"MQ_OPEN"} >>, << {4}, {"EPOLL_CTL"} >>,
  << {2}, {"OPENAT", "EPOLL_WAIT", "FSTATVFS", "GETRUSAGE"} >>,
  << {2, 3}, {"FSTATAT", "SETITIMER"} >>, << {1, 2}, {"STATVFS", "UTIMES", "ADJTIME"} >>,
  << {1}, {"ADJTIMEX"} >> >>

MiscPointersMore == <<
  << {1}, {"GETIFADDRS"} >>, << {2}, {"SIGNALFD"} >>, << {1, 3, 4}, {"GETGROUPLIST"} >>,
  << {1, 2, 3}, {"SIGTIMEDWAIT"} >>, << {4}, {"MSGCTL", "SHMCTL", "SEMCTL"} >> >>

LinuxPointers == <<
  << {1}, {"SYS_getrandom", "SYS_delete_module"} >>, << {1, 2, 3}, {"SYS_add_key"} >>,
  << {2}, {"PRCTL_OUT", "KEYCTL_JOIN_SESSION_KEYRING", "SYS_sched_getparam", "SYS_sched_getattr",
           "SYS_finit_module", "SYS_syslog"} >>,
  << {3}, {"KEYCTL_READ", "SYS_sched_setscheduler"} >>, << {4}, {"PTRACE_OUT"} >>,
  << {1, 2}, {"SYS_capget", "SYS_capset", "SYS_pivot_root"} >>,
  << {2, 3}, {"SYS_sched_setattr"} >>, << {3, 4}, {"KEYCTL_SEARCH", "SYS_seccomp", "SYS_prlimit64"} >> >>

PointerRows == BridgePointers \o FilePointers \o RecordPointers \o SystemPointers
               \o PosixPointers \o PosixPointersMore \o NetworkPointers \o MiscPointers
               \o MiscPointersMore \o LinuxPointers
Pointers(op) == UNION {PointerRows[i][1] : i \in {j \in DOMAIN PointerRows : op \in PointerRows[j][2]}}
-----------------------------------------------------------------------------
(* A whole request. *)

\* All the values arguments treated in these ways may have.
Tuples(kinds) ==
  LET tuples[n \in 0 .. Len(kinds)] ==
        IF n = 0 THEN {<< >>} ELSE {Append(t, v) : t \in tuples[n - 1], v \in Values(kinds[n])}
  IN  tuples[Len(kinds)]
Arguments(op) == Tuples(Kinds(op))

\* The batch that refuses the request, 0 if it is passed on to Linux.
Refusing(kinds, batches, args) ==
  LET bad == {b \in DOMAIN batches : \E k \in DOMAIN batches[b] :
                Refused(kinds[batches[b][k]], args[batches[b][k]])}
  IN  IF bad = {} THEN 0 ELSE CHOOSE b \in bad : \A c \in bad : b <= c

\* errno after the checks up to a batch: of the last one that failed before the
\* call or the return, and that includes the check of a buffer of no bytes.
Residue(kinds, batches, args, stop) ==
  LET check(p) == Checked(kinds[batches[p[1]][p[2]]], args[batches[p[1]][p[2]]])
      failed == {p \in (1 .. stop) \X (1 .. 7) : p[2] \in DOMAIN batches[p[1]] /\ check(p) # OK}
      last == CHOOSE p \in failed :
                \A q \in failed : q[1] < p[1] \/ (q[1] = p[1] /\ q[2] <= p[2])
      error == check(last)
  IN  IF failed = {} \/ error = "silent" THEN OK ELSE error

\* What the checks of a request come to: is it refused, and what errno is left?
Verdict(row, args) ==
  LET bad == Refusing(row[2], row[3], args)
  IN  [refused |-> bad # 0,
       errno |-> Residue(row[2], row[3], args, IF bad = 0 THEN Len(row[3]) ELSE bad)]
Outcome(op, args) == Verdict(RowOf[op], args)

\* Each address the guest passed has been checked as one, and everything that
\* was checked is the guest's.
AllProper(pointers, kinds, args) ==
  /\ \A i \in pointers : kinds[i] # "int"
  /\ \A i \in DOMAIN args : Proper(kinds[i], args[i])
=============================================================================
