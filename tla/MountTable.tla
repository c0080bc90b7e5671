----------------------------- MODULE MountTable -----------------------------
(***************************************************************************)
(* A Linux mount namespace, as far as sandbox_host.c relies on it: what a  *)
(* path leads to, and what /proc/self/mountinfo and /proc/self/fd say.     *)
(*                                                                         *)
(* A path is a sequence of names.  A mount shows the part of a device that *)
(* lies at or below its root, at its point.  mounts is the sequence of     *)
(* mounts in the order they were made; the first one is the root mount.    *)
(* Each sits on the directory that its point led to when it was made, so   *)
(* a later mount may hide an earlier one, or a part of it.                 *)
(***************************************************************************)
EXTENDS Naturals, SequencesExt

Below(path, prefix) == IsPrefix(prefix, path)
\* What is left of a path below a prefix of it.
Rest(path, prefix) == SubSeq(path, Len(prefix) + 1, Len(path))

\* A place is a directory of a mount: the mount's number and the location on its device.
Place(m, l) == [mount |-> m, location |-> l]

\* Follow every mount that sits on a place; covers[m] is the place mount m sits on.
Topmost(mounts, covers, from) ==
  LET top[m \in 0 .. Len(mounts)] ==
        IF m = 0 THEN from
        ELSE IF m > 1 /\ m \in DOMAIN covers /\ covers[m] = top[m - 1]
          THEN Place(m, mounts[m].root) ELSE top[m - 1]
  IN top[Len(mounts)]

\* Go down from a place.
WalkFrom(mounts, covers, from, path) ==
  LET step[i \in 0 .. Len(path)] ==
        IF i = 0 THEN from
        ELSE Topmost(mounts, covers,
                     Place(step[i - 1].mount, Append(step[i - 1].location, path[i])))
  IN step[Len(path)]
Walk(mounts, covers, path) ==
  WalkFrom(mounts, covers, Topmost(mounts, covers, Place(1, << >>)), path)

\* Which place each mount sits on: where its point led when it was made.
Covers(mounts) ==
  LET upto[n \in 0 .. Len(mounts)] ==
        IF n <= 1 THEN [m \in 1 .. n |-> Place(0, << >>)]
        ELSE [m \in 1 .. n |-> IF m < n THEN upto[n - 1][m]
                               ELSE Walk(SubSeq(mounts, 1, n - 1), upto[n - 1], mounts[n].point)]
  IN upto[Len(mounts)]

\* The place a path leads to.
Resolve(mounts, path) == Walk(mounts, Covers(mounts), path)
\* The directory itself: the same one may be at several places.
Object(mounts, place) == << mounts[place.mount].device, place.location >>
\* What is found below a place.
Down(mounts, place, path) == WalkFrom(mounts, Covers(mounts), place, path)
\* "..": from the root of a mount one first leaves it; at the very top one stays.
Up(mounts, place) ==
  LET covers == Covers(mounts)
      out[m \in 0 .. Len(mounts)] ==     \* the mounts from the last to the first
        IF m = 0 THEN place
        ELSE LET p == out[m - 1]
                 k == Len(mounts) + 1 - m
             IN IF k > 1 /\ p = Place(k, mounts[k].root) THEN covers[k] ELSE p
      left == out[Len(mounts)]
  IN IF left.location = mounts[left.mount].root THEN left
     ELSE Topmost(mounts, covers, Place(left.mount, Front(left.location)))
\* readlink of /proc/self/fd: the path of a place, through its mount.
PathOf(mounts, place) ==
  mounts[place.mount].point \o Rest(place.location, mounts[place.mount].root)
=============================================================================
