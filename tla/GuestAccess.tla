---------------------------- MODULE GuestAccess ----------------------------
(***************************************************************************)
(* What the loader does to the three kinds of names a guest sends it       *)
(* (host.c, paths_host.h): an address is checked against the two regions   *)
(* the guest owns, a descriptor is looked up in the logical table, and a   *)
(* path that spells a descriptor is rewritten to the loader's own one.     *)
(* A check yields the errno of its refusal, or OK.                         *)
(***************************************************************************)
EXTENDS Integers, Sequences

CONSTANTS Space,                   \* how many addresses there are: 2^64
          ArenaBase, ArenaSize,    \* bpf_capsule_memory_start and _size
          Guard,                   \* the 4096 bytes at its start that are not guest memory
          ImageBase, ImageSize,    \* h->image, h->image_size
          StringMax,               \* the 4096 bytes a string may take
          Nul,                     \* the addresses of zero bytes
          MAX_FDS,
          Fds                      \* h->fds

OK == "OK"
AT_CWD == -2                       \* the guest's AT_FDCWD

Last == Space - 1
Arena == ArenaBase + Guard .. ArenaBase + ArenaSize - 1
Image == IF ImageBase = 0 THEN {} ELSE ImageBase .. ImageBase + ImageSize - 1

\* The two regions are mappings of the loader, which do not wrap.
ASSUME AccessAssumption ==
  /\ {Space, ArenaBase, ArenaSize, Guard, ImageBase, ImageSize, StringMax, MAX_FDS} \subseteq Nat
  /\ Guard <= ArenaSize /\ ArenaBase + ArenaSize < Space /\ ImageBase + ImageSize < Space
  /\ Fds \in [0 .. MAX_FDS - 1 -> Int]
-----------------------------------------------------------------------------
(* Addresses: uint64_t, so sums and differences wrap. *)

Plus(x, y) == IF x + y < Space THEN x + y ELSE x + y - Space
Minus(x, y) == IF x >= y THEN x - y ELSE x - y + Space

\* How many bytes the guest has from an address on.
available(address) ==
  IF address >= Plus(ArenaBase, Guard) /\ Minus(address, ArenaBase) < ArenaSize
    THEN ArenaSize - Minus(address, ArenaBase)
  ELSE IF ImageBase # 0 /\ address >= ImageBase /\ Minus(address, ImageBase) < ImageSize
    THEN ImageSize - Minus(address, ImageBase)
  ELSE 0

\* Mutant: the sum that wraps is compared instead of the room that is left.
MutMemory(address, size) ==
  IF available(address) # 0 /\ available(Plus(address, size)) # 0 THEN OK ELSE "EFAULT"
memory(address, size) ==
  IF available(address) = 0 \/ size > available(address) THEN "EFAULT" ELSE OK

string(address) ==
  LET left == IF available(address) > StringMax THEN StringMax ELSE available(address)
  IN  IF left = 0 THEN "EFAULT"
      ELSE IF \E k \in 0 .. left - 1 : address + k \in Nul THEN OK
      ELSE "ENAMETOOLONG"
-----------------------------------------------------------------------------
(* Descriptors. *)

fd(guest) == IF guest \in 0 .. MAX_FDS - 1 THEN Fds[guest] ELSE -1
-----------------------------------------------------------------------------
(* Paths.  A path lies at an address and is one of                         *)
(*   "number"  one of the three directories of descriptors, then digits;   *)
(*   "stream"  the alias of a standard stream, whose number is the digit;  *)
(*   "plain"   anything else;                                              *)
(* with what follows: nothing, a slash and more, or another character.     *)

Paths == [at : 0 .. Last, form : {"number", "stream", "plain"}, digits : Seq(0 .. 9),
          rest : {"end", "slash", "other"}]

\* The loop over the digits: -1 once the number has reached MAX_FDS.
Digits(s) ==
  LET value[n \in 0 .. Len(s)] ==
        IF n = 0 THEN 0
        ELSE IF value[n - 1] = -1 \/ value[n - 1] * 10 + s[n] >= MAX_FDS THEN -1
        ELSE value[n - 1] * 10 + s[n]
  IN  value[Len(s)]

\* Where Linux is sent: to the path as the guest wrote it, or to one of the
\* loader's descriptors; "error" is that of the refusal.
Same == [error |-> OK, native |-> -1]
Translated(logical) ==
  IF fd(logical) < 0 THEN [error |-> "ENOENT", native |-> -1]
  ELSE [error |-> OK, native |-> fd(logical)]

path_string_mode(p, follow) ==
  CASE string(p.at) # OK -> [error |-> string(p.at), native |-> -1]
    [] string(p.at) = OK /\ p.form = "plain" -> Same
    [] string(p.at) = OK /\ p.form = "stream" ->
         IF p.rest = "other" \/ (~follow /\ p.rest = "end") THEN Same
         ELSE Translated(p.digits[1])
    [] string(p.at) = OK /\ p.form = "number" ->
         IF p.digits = << >> THEN Same
         ELSE IF (p.digits[1] = 0 /\ Len(p.digits) > 1) \/ Digits(p.digits) = -1
           THEN [error |-> "ENOENT", native |-> -1]
         ELSE IF p.rest = "other" THEN Same
         ELSE Translated(Digits(p.digits))
-----------------------------------------------------------------------------
(* What these names mean, stated without the code. *)

\* Every byte of the range is the guest's.
Owned(address, size) == \A k \in 0 .. size - 1 : address + k \in Arena \cup Image

\* The descriptor a decimal name stands for, in a directory with an entry for
\* each open one: no entry has a leading zero or another character.
Named(p) == {n \in 0 .. MAX_FDS - 1 :
               /\ Fds[n] >= 0 /\ p.rest # "other"
               /\ p.digits = IF n < 10 THEN << n >> ELSE << n \div 10, n % 10 >>}

\* Linux, sent where "to" says, finds what the guest's path names among the
\* guest's descriptors: the file of that descriptor, or nothing.
SameFile(p, follow, to) ==
  CASE p.form = "number" /\ p.digits # << >> ->
         IF Named(p) = {} THEN to.error = "ENOENT" \/ (to = Same /\ p.rest = "other")
         ELSE \E n \in Named(p) : to = [error |-> OK, native |-> Fds[n]]
    [] p.form = "stream" /\ p.rest # "other" /\ (follow \/ p.rest = "slash") ->
         IF Named(p) = {} THEN to.error = "ENOENT"
         ELSE \E n \in Named(p) : to = [error |-> OK, native |-> Fds[n]]
    [] OTHER -> to = Same
=============================================================================
