---------------------------- MODULE MCSchedules ----------------------------
(* Instances of ScheduleApprovals for TLC: one-off and daily schedules whose  *)
(* runs hold drafts, and an interval with a catch-up window.                  *)
EXTENDS ScheduleApprovals, TLC

CONSTANTS c1, c2

Intervals == {"interval"}
OnceOrDaily == {"once", "daily"}
CatchUpOnly == {"catch-up"}
WindowOnly == {"window"}
SkipRunning == {"skip-if-running"}
Notify == {"notify"}
Untold == {"none"}
TwoClicks == {c1, c2}
NoClick == {}
Symmetry == Permutations(TwoClicks)

============================================================================
