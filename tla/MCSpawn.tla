------------------------------ MODULE MCSpawn ------------------------------
(* Spawn with three objects of which two may be active.                     *)
EXTENDS Spawn
CONSTANTS o1, o2, o3
MCObjects == {o1, o2, o3}
MCLoopers == {o1}
=============================================================================
