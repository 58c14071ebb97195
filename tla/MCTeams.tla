------------------------------ MODULE MCTeams ------------------------------
(* Two managers who move teams and assign and remove members at the same   *)
(* time, and a third who creates and deletes teams.                        *)
EXTENDS Teams, TLC

CONSTANTS tree1, manager1, manager2, u1

MCSessions == {tree1, manager1, manager2}
MCTree     == {tree1}
MCManagers == {manager1, manager2}
MCUsers    == {u1}
Managers   == Permutations(MCManagers)
=============================================================================
