----------------------------- MODULE TeamBoard -----------------------------
(***************************************************************************)
(* The board of one team run: the team_tasks and team_runs rows of the     *)
(* team store and the tools that write them (team/store.ts, schema.ts,     *)
(* conductor-tools.ts, member-tools.ts).                                   *)
(*                                                                         *)
(* A task's id is its seq.  Titles, briefs, results and receipts are left  *)
(* out; costs are reduced to whether the spend has reached the run's cap.  *)
(* created_at and updated_at never tie: a task's position is its age, and  *)
(* every write makes a new board version.  Leases are left out: they are   *)
(* taken only in a wrapped tool's validateInput, which a member's session  *)
(* never calls.                                                            *)
(***************************************************************************)
EXTENDS Integers, Sequences, FiniteSets

CONSTANTS
    Members,   \* slugs of the roster
    Verifier,  \* VERIFIER_SLUG
    Nobody,    \* owner IS NULL
    MaxTasks,  \* bound on tasks that are not verify rounds
    Waves,     \* what file_tasks is called with: tasks in order, each with its
               \* owner and its dependencies, on existing tasks (their ids) and
               \* on tasks of the wave (-k for the k-th)
    VerifyCap  \* VERIFY_ROUND_CAP

ASSUME TeamAssumption ==
    /\ Verifier \notin Members /\ Nobody \notin Members \cup {Verifier}
    /\ MaxTasks \in Nat /\ VerifyCap \in Nat
    /\ \A wave \in Waves : wave \in Seq([owner : Members, deps : SUBSET Int]) /\ wave # <<>>

VARIABLES
    run,     \* team_runs.status
    board,   \* the run's tasks, in seq order
    over,    \* the spend has reached max_cost_usd
    tracker  \* wakeTrackers: the last wake's reasons and its attempts, void
             \* once the board has another version

boardVars == <<run, board, over, tracker>>

-----------------------------------------------------------------------------
(* Vocabulary *)

Kinds == {"goal", "work", "question", "verify"}
Statuses == {"ready", "active", "blocked", "done", "failed", "cancelled"}

\* OPEN_TASK_STATUSES; nothing files a draft or moves a task to review.
OpenStatuses == {"ready", "active", "blocked"}

NoTracker == [key |-> {}, attempts |-> 0]
Unresolved == 0  \* a "local:" placeholder in depends_on
NoParent == 0

Tasks == [kind : Kinds, status : Statuses, owner : Members \cup {Verifier, Nobody},
          deps : SUBSET Nat, parent : Nat]

\* TASK_STATUS_TRANSITIONS
Transitions ==
    [ready     |-> {"active", "blocked", "done", "cancelled"},
     active    |-> {"done", "failed", "blocked", "ready", "cancelled"},
     blocked   |-> {"ready", "cancelled", "failed"},
     done      |-> {},
     failed    |-> {"ready", "cancelled"},
     cancelled |-> {}]

Ids == DOMAIN board
OfKind(kind) == {t \in Ids : board[t].kind = kind}
HasGoal == OfKind("goal") # {}
Open(t) == board[t].status \in OpenStatuses
OpenQuestions(t) == {q \in OfKind("question") : board[q].parent = t /\ Open(q)}

\* doneOrSettled: an unknown dependency never settles.
Settled(t) == t \in Ids /\ board[t].status \in {"done", "cancelled"}

\* The newest verify round is done and no work is younger.
VerifiedClean ==
    \E v \in OfKind("verify") :
        /\ board[v].status = "done"
        /\ \A w \in OfKind("verify") \cup OfKind("work") : w <= v

DoneWork == {t \in OfKind("work") : board[t].status = "done"}

-----------------------------------------------------------------------------
(* The store *)

\* setTaskStatus throws on an illegal move; the same status is a no-op.
MayMove(t, status) ==
    board[t].status = status \/ status \in Transitions[board[t].status]

SetTaskStatus(t, status) ==
    /\ MayMove(t, status)
    /\ board' = [board EXCEPT ![t].status = status]
    /\ tracker' = IF board[t].status = status THEN tracker ELSE NoTracker

InsertTask(task) ==
    /\ board' = Append(board, task)
    /\ tracker' = NoTracker

NewTask(kind, status, owner, deps, parent) ==
    [kind |-> kind, status |-> status, owner |-> owner, deps |-> deps, parent |-> parent]

\* Filing keeps the tasks of a wave under way within the bound.
Room(reserved) ==
    Cardinality(Ids \ OfKind("verify")) + reserved < MaxTasks

-----------------------------------------------------------------------------
(* Member tools: the caller is `member`, working on task t *)

CompleteTask(member, t) ==
    /\ board[t].owner = member
    /\ board[t].status = "active"
    /\ SetTaskStatus(t, "done")

FileTask(reserved) ==
    /\ run = "active"
    /\ Room(reserved)
    /\ InsertTask(NewTask("work", "ready", Nobody, {}, NoParent))

AskTeam(t, reserved) ==
    /\ run = "active"
    /\ Room(reserved)
    /\ InsertTask(NewTask("question", "ready", Nobody, {}, t))

-----------------------------------------------------------------------------
(* board_write and finish_run, all refused once the run is not active      *)

SetGoal ==
    /\ run = "active"
    /\ ~HasGoal
    /\ Room(0)
    /\ InsertTask(NewTask("goal", "active", Nobody, {}, NoParent))

\* An owner is read of work and of verify rounds only; a failed task is
\* queued again.
Assign(t, owner) ==
    /\ run = "active"
    /\ board[t].kind \in {"work", "verify"}
    /\ board[t].status \notin {"done", "cancelled"}
    /\ board' = [board EXCEPT ![t].owner = owner,
                              ![t].status = IF @ = "failed" THEN "ready" ELSE @]
    /\ tracker' = NoTracker

\* update, or set_goal when there is one: a new version of the same board
UpdateTask ==
    /\ run = "active"
    /\ board # <<>>
    /\ board' = board
    /\ tracker' = NoTracker

AnswerQuestion(t) ==
    /\ run = "active"
    /\ board[t].kind = "question"
    /\ board[t].status \in {"ready", "active"}
    /\ SetTaskStatus(t, "done")

CancelTask(t) ==
    /\ run = "active"
    /\ board[t].kind # "goal"
    /\ board[t].status \notin {"done", "cancelled"}
    /\ SetTaskStatus(t, "cancelled")

\* file_tasks validates the wave's references before it inserts anything.
MayFile(wave) ==
    /\ run = "active"
    /\ Room(Len(wave) - 1)
    /\ \A k \in DOMAIN wave : \A d \in wave[k].deps : d \in Ids \/ -d \in DOMAIN wave

\* Mutant of Known: a forward reference is left out until it is known.
KnownOnly(deps, filed) ==
    {d \in deps : d > 0} \cup {filed[-d] : d \in {e \in deps : e < 0 /\ -e \in DOMAIN filed}}

\* A wave's dependencies as far as they are known: its k-th task got the id
\* filed[k], and a forward reference is held open by a placeholder.
Known(deps, filed) ==
    {d \in deps : d > 0}
        \cup {filed[-d] : d \in {e \in deps : e < 0 /\ -e \in DOMAIN filed}}
        \cup {Unresolved : d \in {e \in deps : e < 0 /\ -e \notin DOMAIN filed}}

FileNext(wave, filed) ==
    LET next == wave[Len(filed) + 1]
    IN  InsertTask(NewTask("work", "ready", next.owner, Known(next.deps, filed), NoParent))

\* updateTaskStructure with the references resolved
ResolveDeps(t, deps, filed) ==
    /\ board' = [board EXCEPT ![t].deps = Known(deps, filed)]
    /\ tracker' = NoTracker

\* finish_run refuses while anything is open or the work is unverified.
MayFinish ==
    /\ run = "active"
    /\ HasGoal
    /\ \A t \in Ids \ OfKind("goal") : ~Open(t)
    /\ DoneWork = {} \/ VerifiedClean \/ Cardinality(OfKind("verify")) >= VerifyCap

\* The goal is done and the run closed, whatever happened since the check.
FinishRun ==
    /\ board' = [t \in Ids |-> IF board[t].kind = "goal" THEN [board[t] EXCEPT !.status = "done"]
                               ELSE board[t]]
    /\ tracker' = NoTracker
    /\ run' = "done"
=============================================================================
