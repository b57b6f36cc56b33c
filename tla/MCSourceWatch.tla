---------------------------- MODULE MCSourceWatch ----------------------------
(* The root file and one that may become unreadable, in one directory.     *)
EXTENDS SourceWatch

CONSTANTS main, lib, denied

MCFiles == {main, lib}
MCFlaky == {lib}
MCErrors == {denied}
MCParentOf == [f \in MCFiles |-> "src"]
=============================================================================
