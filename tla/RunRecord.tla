------------------------------ MODULE RunRecord ------------------------------
(***************************************************************************)
(* What a public run record promises (ADR-0004): the abstract              *)
(* specification that the execution of runs implements.  A record only     *)
(* moves forward, a terminal record never changes its status, evidence of  *)
(* consequence only grows, and a run that never started cannot have any    *)
(* outcome other than a cancellation request or "indeterminate".           *)
(***************************************************************************)
EXTENDS Integers

CONSTANT Runs

VARIABLES status, consequence

recordVars == <<status, consequence>>

Outcome == {"succeeded", "failed", "cancelled", "timed_out", "indeterminate"}

\* The statuses that may follow s.
Successors(s) ==
    CASE s = "absent" -> {"accepted"}
      [] s = "accepted" -> {"running", "cancel_requested", "indeterminate"}
      [] s = "running" -> {"waiting", "cancel_requested"} \cup Outcome
      [] s = "waiting" -> {"running", "cancel_requested"} \cup Outcome
      [] s = "cancel_requested" -> Outcome
      [] OTHER -> {}

RecordInit ==
    /\ status = [r \in Runs |-> "absent"]
    /\ consequence = [r \in Runs |-> 0]

\* A restart moves many records in one step, hence the quantifier.
RecordNext ==
    \A r \in Runs :
        /\ status'[r] = status[r] \/ status'[r] \in Successors(status[r])
        /\ consequence[r] <= consequence'[r]

RecordSpec == RecordInit /\ [][RecordNext]_recordVars
=============================================================================
