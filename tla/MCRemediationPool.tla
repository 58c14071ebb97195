-------------------------- MODULE MCRemediationPool --------------------------
(* Small pools: two slots, a channel of one, two callers, and alerts that   *)
(* fan out or not.                                                          *)
EXTENDS RemediationPool, TLC

CONSTANTS c1, c2, s1, s2, a1, a2, a3, a4

MCCallers == {c1, c2}
MCSlots   == {s1, s2}
MCAlerts  == {a1, a2, a3, a4}

(* One project with alert rules, three matches; the others with workflows.  *)
OneFans        == a1 :> "rules" @@ a2 :> "workflow" @@ a3 :> "workflow" @@ a4 :> "workflow"
OneFansMatches == a1 :> 3 @@ a2 :> 0 @@ a3 :> 0 @@ a4 :> 2

(* Alert rules everywhere: as many jobs that fan out as there are slots.    *)
AllFan        == a1 :> "rules" @@ a2 :> "rules" @@ a3 :> "rules" @@ a4 :> "workflow"
AllFanMatches == a1 :> 1 @@ a2 :> 1 @@ a3 :> 1 @@ a4 :> 0
==============================================================================
