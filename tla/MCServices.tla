----------------------------- MODULE MCServices -----------------------------
(* NamedSem and Services for TLC.  The two share no state: what one of them *)
(* does is explored while the other has not begun.                          *)
EXTENDS NamedSem, Services

At(a, form, digits, rest) == [at |-> a, form |-> form, digits |-> digits, rest |-> rest]
\* A logical table that is not the loader's own: 0 and 11 are open, 1 is not.
FdsMoved == [n \in 0 .. MAX_FDS - 1 |-> CASE n = 0 -> 3 [] n = 11 -> 0 [] OTHER -> -1]
SpellingsAll ==
  {At(0, "plain", << >>, "end"), At(11, "plain", << >>, "end"), At(6, "plain", << >>, "end"),
   At(6, "number", << >>, "end"), At(6, "number", << 0 >>, "end"), At(6, "number", << 0 >>, "slash"),
   At(6, "number", << 0 >>, "other"), At(6, "number", << 1 >>, "end"),
   At(6, "number", << 1, 1 >>, "end"), At(6, "number", << 1, 2 >>, "end"),
   At(6, "number", << 0, 0 >>, "end"), At(6, "stream", << 0 >>, "end"),
   At(6, "stream", << 1 >>, "slash"), At(6, "stream", << 0 >>, "other")}
Lists == {<< {"address"} >>, << {"address", "name"}, {} >>, << {"name"}, {"address"} >>}
InterfaceLists == {<< {"name"} >>, << {"name", "address", "mask"}, {"name"} >>}

BothInit == Init /\ SvcInit
BothNext ==
  \/ SvcInit /\ Next /\ UNCHANGED svcVars
  \/ Init /\ SvcNext /\ UNCHANGED vars
Both == BothInit /\ [][BothNext]_<< vars, svcVars >>
=============================================================================
