--------------------------- MODULE TeamScheduler ---------------------------
(***************************************************************************)
(* The kernel that works a board: TeamScheduler's ticks, conductor wakes,  *)
(* member and verifier sessions, liveness sweep, cancel and resume         *)
(* (team/scheduler.ts, module.ts, handlers.ts), and the conductor's turns. *)
(*                                                                         *)
(* One run.  A step ends where the code awaits something that another      *)
(* step can change; reads that follow each other with nothing at stake in  *)
(* between are one step.  So are the end of a session's last turn, the     *)
(* kernel's verdict on it and the finally block, and the retry timer and   *)
(* the wake it delivers.  Storage works.  The roster is fixed.  The        *)
(* sweep's timer is always armed.  A crash, or a shutdown, and the boot    *)
(* after it are one step.                                                  *)
(***************************************************************************)
EXTENDS TeamBoard, FiniteSetsExt

CONSTANTS
    Slots,          \* member and verifier sessions that can be alive at once
    MaxConcurrent,  \* MAX_CONCURRENT_MEMBERS
    MaxWakes,       \* MAX_WAKE_ATTEMPTS
    MaxDue,         \* tick requests told apart
    MaxEvents       \* bound on turns of the conductor, its calls of tools,
                    \* crashes, failures, cancellations and sweeps

ASSUME SchedulerAssumption ==
    /\ Slots # {}
    /\ MaxConcurrent \in Nat \ {0} /\ MaxWakes \in Nat \ {0} /\ MaxDue \in Nat \ {0}
    /\ MaxEvents \in Nat

VARIABLES
    due,        \* ticks requested by tickSoon and not begun
    tick,       \* the tick under way
    pending,    \* pendingWakes, and the retry timer that goes with it
    awaiting,   \* awaitingUser: "no", "asked", or "replied" (a newer message)
    conductor,  \* the conductor's turn
    posts,      \* ended turns that were woken and not yet looked at: "asked" or
                \* "quiet"
    sessions,   \* member and verifier sessions, by slot
    working,    \* keys of activeWork
    reclaimed,  \* keys of reclaimAttempts
    sweep,      \* the task the liveness sweep found active
    events      \* what MaxEvents bounds, so far

tickVars == <<due, tick>>
wakeVars == <<pending, awaiting>>
turnVars == <<conductor, posts>>
workVars == <<sessions, working, reclaimed>>
faultVars == <<sweep, events>>

teamVars == <<boardVars, tickVars, wakeVars, turnVars, workVars, faultVars>>

-----------------------------------------------------------------------------
(* Vocabulary *)

Idle == [at |-> "idle"]
Unblocking(todo, spent) == [at |-> "unblock", todo |-> todo, over |-> spent]
Dispatching(todo, busy, count) == [at |-> "dispatch", todo |-> todo, busy |-> busy, count |-> count]
TurnBy(whom) == [by |-> whom, doing |-> "nothing", asked |-> FALSE]
NoTurn == TurnBy("nobody")
NoSession == [at |-> "none"]
Session == [at : {"assemble", "turn", "nudge"}, task : Nat, member : Members \cup {Verifier, Nobody}]
NoTask == 0

\* A turn of the conductor begins, it calls a tool, or something rare
\* happens: a crash, a failure, a cancellation, a sweep.
Event == events < MaxEvents /\ events' = events + 1

Live(s) == sessions[s].at # "none"
FreeSlots == {s \in Slots : ~Live(s)}

\* tickSoon
TickSoon == due' = Min({due + 1, MaxDue})

\* Tasks of a wave that file_tasks has still to insert
Reserved == IF conductor.doing = "filing" THEN Len(conductor.wave) - Len(conductor.filed) ELSE 0

\* clearRunTimers
ClearRunTimers ==
    /\ pending' = FALSE
    /\ tracker' = NoTracker
    /\ awaiting' = "no"

\* onBoardChange: the conductor no longer waits for its user.
OnBoardChange ==
    /\ awaiting' = "no"
    /\ TickSoon

-----------------------------------------------------------------------------
(* A tick *)

Unblockable == {t \in Ids : board[t].status = "blocked" /\ OpenQuestions(t) = {}}

ReadyVerifies == {t \in OfKind("verify") : board[t].status = "ready"}
ActiveWork == {t \in OfKind("work") : board[t].status = "active"}

Candidates ==
    {t \in OfKind("work") :
        /\ board[t].status = "ready"
        /\ board[t].owner # Nobody
        /\ \A d \in board[t].deps : Settled(d)}

Judgments ==
    {reason \in {"unassigned-work", "task-failed", "question"} :
        \E t \in Ids :
            CASE reason = "unassigned-work" ->
                    board[t].kind = "work" /\ board[t].status = "ready" /\ board[t].owner = Nobody
              [] reason = "task-failed" -> board[t].status = "failed" /\ board[t].kind # "verify"
              [] reason = "question" -> board[t].kind = "question" /\ board[t].status = "ready"}

BoardSettled == Judgments = {} /\ \A t \in Ids \ OfKind("goal") : ~Open(t)
NeedsVerify == DoneWork # {} /\ ~VerifiedClean
CapReached == Cardinality(OfKind("verify")) >= VerifyCap

\* Why the conductor is woken when nothing can be dispatched
Reasons ==
    IF BoardSettled THEN IF NeedsVerify THEN {"verify-cap"} ELSE {"board-dry"} ELSE Judgments

TickStart ==
    /\ due > 0 /\ tick = Idle
    /\ due' = due - 1
    /\ tick' = IF run = "active" /\ HasGoal
               THEN Unblocking(Unblockable, over) ELSE Idle
    /\ UNCHANGED <<boardVars, wakeVars, turnVars, workVars, faultVars>>

\* A move the table forbids is thrown, and the tick is over.
TickUnblock ==
    /\ tick.at = "unblock" /\ tick.todo # {}
    /\ LET t == Min(tick.todo)
       IN  \/ /\ SetTaskStatus(t, "ready")
              /\ tick' = Unblocking(tick.todo \ {t}, tick.over)
           \/ /\ ~MayMove(t, "ready")
              /\ tick' = Idle
              /\ UNCHANGED <<board, tracker>>
    /\ UNCHANGED <<run, over, due, wakeVars, turnVars, workVars, faultVars>>

\* The board as listTasks returns it, and the spend as the run's row had it
\* when the tick began, decide the rest of the tick.
TickLook ==
    /\ tick.at = "unblock" /\ tick.todo = {}
    /\ tick' =
         CASE tick.over -> [at |-> "wake", reasons |-> {"budget-exceeded"}]
           [] ~tick.over /\ ReadyVerifies # {} -> [at |-> "verify", task |-> Min(ReadyVerifies)]
           [] ~tick.over /\ ReadyVerifies = {} /\ Candidates \cup ActiveWork # {} ->
                Dispatching([t \in Candidates |-> board[t].owner],
                            {board[t].owner : t \in ActiveWork}, Cardinality(ActiveWork))
           [] OTHER ->
                IF BoardSettled /\ NeedsVerify /\ ~CapReached THEN [at |-> "file"]
                ELSE IF Reasons # {} THEN [at |-> "wake", reasons |-> Reasons]
                ELSE Idle
    /\ UNCHANGED <<boardVars, due, wakeVars, turnVars, workVars, faultVars>>

\* setTaskStatus(active), and runMemberTask or runVerifierTask in the background
StartSession(t, member) ==
    \E s \in FreeSlots :
        /\ SetTaskStatus(t, "active")
        /\ sessions' = [sessions EXCEPT ![s] = [at |-> "assemble", task |-> t, member |-> member]]

TickVerify ==
    /\ tick.at = "verify"
    /\ \/ StartSession(tick.task, Verifier)
       \/ ~MayMove(tick.task, "active") /\ UNCHANGED <<board, tracker, sessions>>
    /\ tick' = Idle
    /\ UNCHANGED <<run, over, due, wakeVars, turnVars, working, reclaimed, faultVars>>

\* The next candidate: passed over when its owner is busy or its hints
\* overlap an active task's, else dispatched to its owner of this moment.
TickDispatch ==
    /\ tick.at = "dispatch"
    /\ LET left == DOMAIN tick.todo
           t == Min(left)
           rest == [u \in left \ {t} |-> tick.todo[u]]
       IN  \/ /\ left = {} \/ tick.count >= MaxConcurrent
              /\ tick' = Idle
              /\ UNCHANGED <<board, tracker, sessions>>
           \/ /\ left # {} /\ tick.count \in 1..(MaxConcurrent - 1)
              /\ tick' = Dispatching(rest, tick.busy, tick.count)
              /\ UNCHANGED <<board, tracker, sessions>>
           \/ /\ left # {} /\ tick.count < MaxConcurrent /\ tick.todo[t] \notin tick.busy
              /\ StartSession(t, board[t].owner)
              /\ tick' = Dispatching(rest, tick.busy \cup {board[t].owner}, tick.count + 1)
           \/ /\ left # {} /\ tick.count < MaxConcurrent /\ tick.todo[t] \notin tick.busy
              /\ ~MayMove(t, "active")
              /\ tick' = Idle
              /\ UNCHANGED <<board, tracker, sessions>>
    /\ UNCHANGED <<run, over, due, wakeVars, turnVars, working, reclaimed, faultVars>>

\* The kernel files the next verify round itself.
TickFile ==
    /\ tick.at = "file"
    /\ InsertTask(NewTask("verify", "ready", Verifier, {}, NoParent))
    /\ tick' = Idle
    /\ TickSoon
    /\ UNCHANGED <<run, over, wakeVars, turnVars, workVars, faultVars>>

-----------------------------------------------------------------------------
(* Conductor wakes *)

Attempts(key) == IF tracker.key = key THEN tracker.attempts + 1 ELSE 1

\* requestWake
TickWake ==
    /\ tick.at = "wake"
    /\ \/ /\ awaiting # "no"
          /\ tick' = Idle
          /\ UNCHANGED <<tracker, pending>>
       \/ /\ awaiting = "no"
          /\ tracker' = [key |-> tick.reasons, attempts |-> Attempts(tick.reasons)]
          /\ \/ /\ Attempts(tick.reasons) > MaxWakes
                /\ tick' = [at |-> "fail"]
                /\ UNCHANGED pending
             \/ /\ Attempts(tick.reasons) <= MaxWakes /\ conductor # NoTurn
                /\ tick' = Idle
                /\ pending' = TRUE
             \/ /\ Attempts(tick.reasons) <= MaxWakes /\ conductor = NoTurn
                /\ tick' = [at |-> "deliver"]
                /\ UNCHANGED pending
    /\ UNCHANGED <<run, board, over, due, awaiting, turnVars, workVars, faultVars>>

\* deliverWake: the turn starts; or a turn slipped in, and the wake is
\* queued again; or it throws.
TickDeliver ==
    /\ tick.at = "deliver"
    /\ \/ /\ conductor = NoTurn /\ Event
          /\ conductor' = TurnBy("kernel")
          /\ tick' = Idle
          /\ UNCHANGED pending
       \/ /\ conductor # NoTurn
          /\ pending' = TRUE
          /\ tick' = Idle
          /\ UNCHANGED <<conductor, events>>
       \/ /\ Event
          /\ tick' = [at |-> "fail"]
          /\ UNCHANGED <<conductor, pending>>
    /\ UNCHANGED <<boardVars, due, awaiting, posts, workVars, sweep>>

\* failRun: the run has failed, whatever it is by now.
FailRun ==
    /\ run' = "failed"
    /\ ClearRunTimers

TickFail ==
    /\ tick.at = "fail"
    /\ FailRun
    /\ tick' = Idle
    /\ UNCHANGED <<board, over, due, turnVars, workVars, faultVars>>

\* The retry timer: drop the wake of a closed run; fail the run after the
\* deadline or when the wake cannot be delivered; deliver.  A conductor
\* still busy leaves it for later.
WakeRetry ==
    /\ pending
    /\ \/ /\ run # "active"
          /\ pending' = FALSE
          /\ UNCHANGED <<run, tracker, awaiting, conductor, events>>
       \/ /\ run = "active" /\ Event
          /\ FailRun
          /\ UNCHANGED conductor
       \/ /\ run = "active" /\ conductor = NoTurn /\ Event
          /\ conductor' = TurnBy("kernel")
          /\ pending' = FALSE
          /\ UNCHANGED <<run, tracker, awaiting>>
    /\ UNCHANGED <<board, over, tickVars, posts, workVars, sweep>>

-----------------------------------------------------------------------------
(* Member and verifier sessions *)

InTurn(s) == sessions[s].at \in {"turn", "nudge"}

At(s, at) == sessions' = [sessions EXCEPT ![s].at = at]

Assemble(s) ==
    /\ sessions[s].at = "assemble"
    /\ At(s, "turn")
    /\ working' = working \cup {sessions[s].task}
    /\ UNCHANGED <<boardVars, tickVars, wakeVars, turnVars, reclaimed, faultVars>>

\* A team tool's call; one that is refused changes nothing.
MemberActs(s) ==
    /\ InTurn(s)
    /\ \/ CompleteTask(sessions[s].member, sessions[s].task)
       \/ FileTask(Reserved)
       \/ AskTeam(sessions[s].task, Reserved)
    /\ OnBoardChange
    /\ UNCHANGED <<run, over, tick, pending, turnVars, workVars, faultVars>>

\* Mutant of EndSession: the tick the team tools asked for is relied on.
EndSessionQuietly(s) ==
    /\ sessions' = [sessions EXCEPT ![s] = NoSession]
    /\ working' = working \ {sessions[s].task}
    /\ reclaimed' = reclaimed \ {sessions[s].task}
    /\ UNCHANGED due

\* The finally block: the task's entries go, whoever else works on it.
EndSession(s) ==
    /\ sessions' = [sessions EXCEPT ![s] = NoSession]
    /\ working' = working \ {sessions[s].task}
    /\ reclaimed' = reclaimed \ {sessions[s].task}
    /\ TickSoon

Asked(s) == sessions[s].member # Verifier /\ OpenQuestions(sessions[s].task) # {}

\* The first turn is over and the task still active: a member is blocked on
\* an open question of its own; any other session is nudged once.
FirstTurnEnds(s) ==
    LET t == sessions[s].task
    IN  /\ sessions[s].at = "turn"
        /\ board[t].status = "active"
        /\ \/ Asked(s) /\ SetTaskStatus(t, "blocked") /\ EndSession(s)
           \/ ~Asked(s) /\ At(s, "nudge") /\ UNCHANGED <<board, tracker, due, working, reclaimed>>
        /\ UNCHANGED <<run, over, tick, wakeVars, turnVars, faultVars>>

\* Mutant of SessionOver: a second silence passes for an answer.
SessionOverForgiving(s) ==
    /\ Live(s)
    /\ UNCHANGED <<board, tracker, events>>
    /\ EndSession(s)
    /\ UNCHANGED <<run, over, tick, wakeVars, turnVars, sweep>>

\* A session is over when its task is no longer active, or it has failed
\* it: by another silence, or by an error or an abort at any time.
SessionOver(s) ==
    LET t == sessions[s].task
    IN  /\ Live(s)
        /\ \/ /\ InTurn(s) /\ board[t].status # "active"
              /\ UNCHANGED <<board, tracker, events>>
           \/ /\ sessions[s].at = "nudge" /\ board[t].status = "active"
              /\ SetTaskStatus(t, "failed")
              /\ UNCHANGED events
           \/ /\ Event
              /\ IF board[t].status = "active" THEN SetTaskStatus(t, "failed")
                 ELSE UNCHANGED <<board, tracker>>
        /\ EndSession(s)
        /\ UNCHANGED <<run, over, tick, wakeVars, turnVars, sweep>>

\* What a session has cost (addRunCost), or a turn of the conductor (the
\* thread's totalCost), uses up the budget.  It is booked while the session
\* still stands, or the turn.
Overspend ==
    /\ conductor # NoTurn \/ \E s \in Slots : Live(s)
    /\ ~over
    /\ Event
    /\ over' = TRUE
    /\ UNCHANGED <<run, board, tracker, tickVars, wakeVars, turnVars, workVars, sweep>>

-----------------------------------------------------------------------------
(* The conductor's turns *)

\* A message of the user's starts a turn too.
UserTurn ==
    /\ Event
    /\ run = "active" /\ conductor = NoTurn
    /\ conductor' = TurnBy("user")
    /\ awaiting' = IF awaiting = "asked" THEN "replied" ELSE awaiting
    /\ UNCHANGED <<boardVars, tickVars, pending, posts, workVars, sweep>>

Thinking == conductor # NoTurn /\ conductor.doing = "nothing"

ConductorWrites ==
    /\ Thinking /\ Event
    /\ \/ SetGoal
       \/ UpdateTask
       \/ \E t \in Ids : AnswerQuestion(t) \/ CancelTask(t) \/ \E m \in Members : Assign(t, m)
    /\ OnBoardChange
    /\ UNCHANGED <<run, over, tick, pending, conductor, posts, workVars, sweep>>

\* The cap is raised past what is spent; less changes nothing.
SetBudget ==
    /\ Thinking /\ Event /\ run = "active"
    /\ over /\ over' = FALSE
    /\ OnBoardChange
    /\ UNCHANGED <<run, board, tracker, tick, pending, conductor, posts,
                   workVars, sweep>>

\* What a turn of the user's asks is not looked at.
AskUser ==
    /\ Thinking /\ Event
    /\ conductor.by = "kernel"
    /\ conductor' = [by |-> "kernel", doing |-> "nothing", asked |-> TRUE]
    /\ UNCHANGED <<boardVars, tickVars, wakeVars, posts, workVars, sweep>>

Doing(what) == [by |-> conductor.by, asked |-> conductor.asked, doing |-> what]
Filing(wave, filed, fixed) ==
    [by |-> conductor.by, asked |-> conductor.asked, doing |-> "filing",
     wave |-> wave, filed |-> filed, fixed |-> fixed]

FileTasks ==
    /\ Thinking /\ Event
    /\ \E wave \in Waves :
        /\ MayFile(wave)
        /\ conductor' = Filing(wave, <<>>, 0)
    /\ UNCHANGED <<boardVars, tickVars, wakeVars, posts, workVars, sweep>>

\* One insert after the other, then the forward references one after the
\* other, and only then the board counts as changed.
FilingStep ==
    LET c == conductor
        n == Len(c.wave)
    IN  /\ c.doing = "filing"
        /\ \/ /\ Len(c.filed) < n
              /\ FileNext(c.wave, c.filed)
              /\ conductor' = Filing(c.wave, Append(c.filed, Len(board) + 1), c.fixed)
              /\ UNCHANGED <<awaiting, due>>
           \/ /\ Len(c.filed) = n /\ c.fixed < n
              /\ conductor' = Filing(c.wave, c.filed, c.fixed + 1)
              /\ IF \E d \in c.wave[c.fixed + 1].deps : -d > c.fixed
                 THEN ResolveDeps(c.filed[c.fixed + 1], c.wave[c.fixed + 1].deps, c.filed)
                 ELSE UNCHANGED <<board, tracker>>
              /\ UNCHANGED <<awaiting, due>>
           \/ /\ c.fixed = n
              /\ conductor' = Doing("nothing")
              /\ OnBoardChange
              /\ UNCHANGED <<board, tracker>>
        /\ UNCHANGED <<run, over, tick, pending, posts, workVars, faultVars>>

FinishCheck ==
    /\ Thinking /\ Event
    /\ MayFinish
    /\ conductor' = Doing("finishing")
    /\ UNCHANGED <<boardVars, tickVars, wakeVars, posts, workVars, sweep>>

FinishWrite ==
    /\ conductor.doing = "finishing"
    /\ FinishRun
    /\ conductor' = Doing("nothing")
    /\ OnBoardChange
    /\ UNCHANGED <<over, tick, pending, posts, workVars, faultVars>>

\* Only a turn the kernel started is followed by a look at what it did.
ConductorEnds ==
    /\ Thinking
    /\ conductor' = NoTurn
    /\ posts' = IF conductor.by = "user" THEN posts
                ELSE posts \cup {IF conductor.asked THEN "asked" ELSE "quiet"}
    /\ UNCHANGED <<boardVars, tickVars, wakeVars, workVars, faultVars>>

\* handle.done.finally: the messages there are now count as seen.
AfterWake ==
    /\ \E p \in posts :
        /\ posts' = posts \ {p}
        /\ awaiting' = IF p = "asked" THEN "asked" ELSE awaiting
    /\ TickSoon
    /\ UNCHANGED <<boardVars, tick, pending, conductor, workVars, faultVars>>

-----------------------------------------------------------------------------
(* Liveness sweep, cancellation, crash *)

Unfinished == {t \in Ids \ OfKind("goal") : board[t].status = "active"}

\* sweepOnce: a user's reply lifts the suppression.
SweepReply ==
    /\ run = "active" /\ awaiting = "replied"
    /\ awaiting' = "no"
    /\ TickSoon
    /\ UNCHANGED <<boardVars, tick, pending, turnVars, workVars, faultVars>>

\* listTasks shows an active task; each task of a list is its own sweep
\* here, since all that lies between two of them is time.
SweepList ==
    /\ Event
    /\ run = "active" /\ sweep = NoTask
    /\ sweep' \in Unfinished
    /\ UNCHANGED <<boardVars, tickVars, wakeVars, turnVars, workVars>>

\* Without an entry in activeWork it is put back, or failed the second time.
SweepTask ==
    LET to == IF sweep \in reclaimed THEN "failed" ELSE "ready"
    IN  /\ sweep # NoTask
        /\ sweep' = NoTask
        /\ \/ /\ sweep \in working
              /\ UNCHANGED <<board, tracker, reclaimed, due>>
           \/ /\ sweep \notin working
              /\ reclaimed' = reclaimed \cup {sweep}
              /\ SetTaskStatus(sweep, to)
              /\ TickSoon
           \/ /\ sweep \notin working /\ ~MayMove(sweep, to)
              /\ reclaimed' = reclaimed \cup {sweep}
              /\ UNCHANGED <<board, tracker, due>>
        /\ UNCHANGED <<run, over, tick, wakeVars, turnVars, sessions, working, events>>

\* The sessions it aborts end like any turn that fails.
CancelRun ==
    /\ Event
    /\ run = "active"
    /\ run' = "cancelled"
    /\ ClearRunTimers
    /\ UNCHANGED <<board, over, tickVars, turnVars, workVars, sweep>>

\* The process ends, without a word to the board, and the next boot resumes
\* the run if it is active (listActiveRuns, resumeRun).  The tasks of a run
\* that is closed stay as they are.
CrashAndResume ==
    /\ Event
    /\ \/ /\ run = "active"
          /\ board' = [t \in Ids |-> IF t \in Unfinished
                                     THEN [board[t] EXCEPT !.status = "ready"] ELSE board[t]]
          /\ due' = 1
       \/ /\ run # "active"
          /\ due' = 0
          /\ UNCHANGED board
    /\ ClearRunTimers
    /\ tick' = Idle /\ conductor' = NoTurn /\ posts' = {}
    /\ sessions' = [s \in Slots |-> NoSession]
    /\ working' = {} /\ reclaimed' = {} /\ sweep' = NoTask
    /\ UNCHANGED <<run, over>>

-----------------------------------------------------------------------------
(* Specification *)

\* createRun: an empty board, and a user about to speak.
TeamInit ==
    /\ run = "active" /\ board = <<>> /\ over = FALSE /\ tracker = NoTracker
    /\ due = 0 /\ tick = Idle
    /\ pending = FALSE /\ awaiting = "no"
    /\ conductor = NoTurn /\ posts = {}
    /\ sessions = [s \in Slots |-> NoSession]
    /\ working = {} /\ reclaimed = {} /\ sweep = NoTask /\ events = 0

TeamNext ==
    \/ TickStart \/ TickUnblock \/ TickLook \/ TickVerify \/ TickDispatch \/ TickFile
    \/ TickWake \/ TickDeliver \/ TickFail \/ WakeRetry
    \/ \E s \in Slots : Assemble(s) \/ MemberActs(s) \/ FirstTurnEnds(s) \/ SessionOver(s)
    \/ Overspend
    \/ UserTurn \/ ConductorWrites \/ SetBudget \/ AskUser \/ FileTasks \/ FilingStep
    \/ FinishCheck \/ FinishWrite \/ ConductorEnds \/ AfterWake
    \/ SweepReply \/ SweepList \/ SweepTask \/ CancelRun \/ CrashAndResume

TeamSpec == TeamInit /\ [][TeamNext]_teamVars

-----------------------------------------------------------------------------
(* Properties *)

\* No member works on a task before everything it depends on is done or
\* cancelled, although a wave is filed task by task while ticks go on and
\* its forward references are filled in afterwards (file_tasks, tickOnce).
DependenciesFirst ==
    \A s \in Slots : Live(s) => \A d \in board[sessions[s].task].deps : Settled(d)

\* As long as a run is active, a task that stands as active is being worked
\* on: whatever ends a session, and in whatever order sweeps, ticks and
\* restarts meet it, the kernel has moved the task on (runMemberTask,
\* sweepOnce, resumeRun).  A closed run promises less: a process that ends
\* under a session it still has leaves the task active for good, since no
\* boot resumes that run.
ActiveIsWorked ==
    run = "active" => \A t \in Unfinished : \E s \in Slots : Live(s) /\ sessions[s].task = t

\* The board gives the kernel something to do.  That the cap is reached is
\* no reason of its own: it keeps back what there is to dispatch.
Actionable ==
    Unblockable # {} \/ ReadyVerifies # {} \/ Candidates # {} \/ Reasons # {}

\* A tick, a wake, a turn or a session that will come back to the board
SomethingComes ==
    \/ due > 0 \/ tick # Idle \/ pending \/ posts # {} \/ conductor # NoTurn
    \/ \E s \in Slots : Live(s)

\* A run never goes quiet over a board that needs attention: as long as
\* it is active and has a goal, either the kernel is going to look at the
\* board again or the conductor waits for its user (tickSoon, requestWake,
\* scheduleWakeRetry, onBoardChange).
NoLostWakeup ==
    ~SomethingComes /\ run = "active" /\ HasGoal /\ Actionable => awaiting # "no"
=============================================================================
