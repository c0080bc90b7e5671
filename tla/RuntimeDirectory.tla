-------------------------- MODULE RuntimeDirectory --------------------------
(***************************************************************************)
(* private_directory of sandbox_host.c: where the launcher keeps the files *)
(* of a session, a directory that QEMU runs from and that must not be      *)
(* reachable through the working directory it shares with the guest.       *)
(* Mounts may be made by others at any step.                               *)
(***************************************************************************)
EXTENDS MountTable, FiniteSets

CONSTANTS Names,       \* names of directories
          Devices,
          Depth,       \* length of the longest path
          MaxMounts,
          Shares,      \* the working directories considered
          Bases        \* /tmp and /var/tmp, in this order

Paths == UNION {[1 .. n -> Names] : n \in 0 .. Depth}
PrivateName == "lash-os"     \* what mkdtemp makes of its template

ASSUME RuntimeAssumption ==
  /\ Depth \in Nat /\ MaxMounts \in Nat /\ PrivateName \notin Names
  /\ Shares \subseteq Paths /\ Bases \in Seq(Paths)

VARIABLES
  mounts,
  share,      \* the place of the shared directory, opened at the start
  pc,         \* "open", "base", "make", "made", "check", "remove", "done" or "failed"
  base,       \* index of the directory tried
  directory,  \* the place of the directory that is being looked at
  made,       \* private directories that exist
  result,     \* the directory chosen
  since       \* history: how many mounts there were when the first directory was made

vars == << mounts, share, pc, base, directory, made, result, since >>

RootMount == [device |-> CHOOSE d \in Devices : TRUE, root |-> << >>, point |-> << >>]

Init ==
  /\ mounts = << RootMount >>
  /\ share \in {Resolve(mounts, p) : p \in Shares}
  /\ pc = "open" /\ base = 1 /\ directory = Place(1, << >>) /\ made = {} /\ result = << >> /\ since = 0

\* Somebody mounts a device, or binds a part of one.
Mount ==
  /\ Len(mounts) < MaxMounts
  /\ \E d \in Devices, r \in Paths, p \in Paths \ {<< >>} :
       mounts' = Append(mounts, [device |-> d, root |-> r, point |-> p])
  /\ UNCHANGED << share, pc, base, directory, made, result, since >>
-----------------------------------------------------------------------------
(* reachable_from_share. *)

\* path_under: the component-wise prefix test.
path_under(path, prefix) == Below(path, prefix)

\* Mutant: only the mount that the directory is on is looked at.
MutMapped(found, location) ==
  {mounts[found].point \o Rest(location, mounts[found].root)}
\* Every path that some mount of the same device would give the location.
Mapped(found, location) ==
  {mounts[i].point \o Rest(location, mounts[i].root) :
     i \in {j \in DOMAIN mounts : /\ mounts[j].device = mounts[found].device
                                  /\ path_under(location, mounts[j].root)}}

\* The location on the device: the path below the mount's point, below the mount's root.
Location(found, target) == mounts[found].root \o Rest(target, mounts[found].point)

\* mount_reachable, with mountinfo read in one go: 1 reachable, 0 not, -1 unknown.
mount_reachable(sharepath, target, found) ==
  IF ~path_under(target, mounts[found].point) THEN -1
  ELSE IF \E c \in Mapped(found, Location(found, target)) : path_under(c, sharepath) THEN 1 ELSE 0

\* contains_directory: going up from the directory by ".." one meets the ancestor before
\* one that is its own parent.
contains_directory(ancestor, d) ==
  LET up[i \in 0 .. 2 * Depth + 1] == IF i = 0 THEN d ELSE Up(mounts, up[i - 1])
      seen(i) == Object(mounts, up[i])
  IN \E i \in 0 .. 2 * Depth : /\ seen(i) = Object(mounts, ancestor)
                               /\ \A k \in 0 .. i - 1 : seen(k) # seen(k + 1)

reachable_from_share(d) ==
  \/ contains_directory(share, d)
  \/ mount_reachable(PathOf(mounts, share), PathOf(mounts, d), d.mount) # 0
-----------------------------------------------------------------------------
(* private_directory. *)

\* The next of the two, or none is left.
NextBase ==
  IF base < Len(Bases) THEN pc' = "open" /\ base' = base + 1 ELSE pc' = "failed" /\ UNCHANGED base

\* open(bases[i]); the next one if that fails.
OpenBase ==
  /\ pc = "open"
  /\ \/ pc' = "base" /\ directory' = Resolve(mounts, Bases[base]) /\ UNCHANGED base
     \/ NextBase /\ UNCHANGED directory
  /\ UNCHANGED << mounts, share, made, result, since >>

\* usable_runtime of the base: not mounted noexec, and not reachable.
CheckBase ==
  /\ pc = "base"
  /\ \/ ~reachable_from_share(directory) /\ pc' = "make" /\ UNCHANGED base
     \/ NextBase
  /\ UNCHANGED << mounts, share, directory, made, result, since >>

PrivatePlace ==
  LET p == Resolve(mounts, Bases[base]) IN Place(p.mount, Append(p.location, PrivateName))

\* mkdtemp, which follows the path anew.
MakeDirectory ==
  /\ pc = "make"
  /\ \/ /\ made' = made \cup {Object(mounts, PrivatePlace)} /\ pc' = "made" /\ UNCHANGED base
        /\ since' = IF made = {} THEN Len(mounts) ELSE since
     \/ NextBase /\ UNCHANGED << made, since >>
  /\ UNCHANGED << mounts, share, directory, result >>

\* So does the open of what it has made, which fails if something has been mounted over it.
OpenDirectory ==
  /\ pc = "made"
  /\ IF Object(mounts, PrivatePlace) \in made
       THEN pc' = "check" /\ directory' = PrivatePlace
       ELSE pc' = "remove" /\ UNCHANGED directory
  /\ UNCHANGED << mounts, share, base, made, result, since >>

Usable(d) == ~reachable_from_share(d)
\* "Check the directory itself too; a mount can appear below the base."
CheckDirectory ==
  /\ pc = "check"
  /\ \/ Usable(directory) /\ pc' = "done" /\ result' = << Object(mounts, directory) >>
     \/ pc' = "remove" /\ UNCHANGED result
  /\ UNCHANGED << mounts, share, base, directory, made, since >>

\* Mutant: a directory that is not usable is kept.
MutRemoved == made
Removed == made \ {Object(mounts, PrivatePlace)}
\* rmdir, by name once more.
RemoveDirectory ==
  /\ pc = "remove" /\ made' = Removed /\ NextBase
  /\ UNCHANGED << mounts, share, directory, result, since >>

Ended == pc \in {"done", "failed"} /\ UNCHANGED vars

Next == Mount \/ OpenBase \/ CheckBase \/ MakeDirectory \/ OpenDirectory \/ CheckDirectory \/ RemoveDirectory \/ Ended
Spec == Init /\ [][Next]_vars
-----------------------------------------------------------------------------
(* Properties. *)

\* Type correctness.
TypeOK ==
  /\ Len(mounts) <= MaxMounts /\ base \in 1 .. Len(Bases)
  /\ \A p \in {share, directory} :
       p.mount \in DOMAIN mounts /\ Below(p.location, mounts[p.mount].root)
  /\ pc \in {"open", "base", "make", "made", "check", "remove", "done", "failed"}
  /\ Len(result) <= 1 /\ (result # << >> => result[1] \in made)

\* The guest, which goes down from the shared directory, comes across the object.
Reachable(object) ==
  \E p \in Paths \cup {Append(q, PrivateName) : q \in Paths} :
     Object(mounts, Down(mounts, share, p)) = object

\* "Fails closed: anything that cannot be proven outside the share counts as reachable":
\* the directory chosen cannot be reached from the share at the time it is chosen, however
\* mounts show one directory at several places, and hide or cover each other.
UnreachableWhenChosen == [][result' # result => ~Reachable(result'[1])]_vars

\* The state is well typed, and where no directory is chosen none is left, unless a mount was made meanwhile: rmdir goes
\* by name, and does not find a directory that has been hidden.
NothingLeft == TypeOK /\ (pc = "failed" /\ Len(mounts) = since => made = {})
=============================================================================
