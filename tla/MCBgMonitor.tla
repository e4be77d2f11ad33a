----------------------------- MODULE MCBgMonitor -----------------------------
(* BgMonitor for TLC: all jobs are launched by one session.                *)
EXTENDS BgMonitor, TLC

CONSTANT TheSession

OneSession == {TheSession}
AllInOne   == [j \in Job |-> TheSession]

JobSymmetry == Permutations(Job)
=============================================================================
