------------------------------ MODULE MCReactor -----------------------------
(***************************************************************************)
(* Instances of the reactor for TLC: which policies bypass fake addresses  *)
(* of which engines.                                                       *)
(***************************************************************************)
EXTENDS Reactor

\* The policy of version 2 does not suit the engine of version 1.
LaterPolicy == {<<2, 1>>}

\* Versions 1 and 3 do not suit each other; version 2 suits everyone.
Rivals == {<<1, 3>>, <<3, 1>>}
=============================================================================
