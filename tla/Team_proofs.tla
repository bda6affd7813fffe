---------------------------- MODULE Team_proofs ----------------------------
(***************************************************************************)
(* What the scheduler of a team run keeps for any roster, any waves, any   *)
(* number of sessions and any bounds: a member starts after what its task  *)
(* depends on, an active task is worked on, and a board that needs         *)
(* attention gets it.                                                      *)
(***************************************************************************)
EXTENDS TeamScheduler, WellFoundedInduction, FiniteSetTheorems, TLAPS

-----------------------------------------------------------------------------
(* The inductive invariant *)

DepsDone(t) == \A d \in board[t].deps : Settled(d)

\* What the variables hold.  Verify rounds depend on nothing.
TeamTypeOK ==
    /\ board \in Seq(Tasks)
    /\ \A t \in OfKind("verify") : board[t].deps = {}
    /\ due \in Nat
    /\ sweep \in Ids \cup {NoTask}

\* A session works on a task of the board whose dependencies are settled.
SessionsKept ==
    /\ sessions \in [Slots -> Session \cup {NoSession}]
    /\ \A s \in Slots : Live(s) => sessions[s].task \in Ids /\ DepsDone(sessions[s].task)

\* What the tick under way has read and still relies on
TickKept ==
    /\ tick.at = "unblock" => tick.todo \subseteq Ids
    /\ tick.at = "verify" => tick.task \in OfKind("verify")
    /\ tick.at = "dispatch" =>
         /\ tick.count \in Nat
         /\ \A t \in DOMAIN tick.todo : t \in Ids /\ DepsDone(t)

\* A wave under way: every task filed so far is a task of its own, and
\* holds its placeholder until its forward references are resolved.
WaveKept ==
    conductor.doing = "filing" =>
        /\ conductor.wave \in Waves
        /\ conductor.filed \in Seq(Nat)
        /\ conductor.fixed \in Nat
        /\ \A k \in DOMAIN conductor.filed :
             /\ conductor.filed[k] \in Ids
             /\ \A j \in DOMAIN conductor.filed :
                    conductor.filed[j] = conductor.filed[k] => j = k
             /\ k > conductor.fixed /\ (\E d \in conductor.wave[k].deps : -d >= k)
                    => Unresolved \in board[conductor.filed[k]].deps

\* Something that looks at the board is on its way, or nobody has to.
Covered ==
    \/ due > 0 \/ pending \/ posts # {}
    \/ conductor.by = "kernel" \/ conductor.doing = "filing"
    \/ \E s \in Slots : Live(s)
    \/ awaiting # "no" \/ run # "active" \/ ~HasGoal

\* Otherwise the tick under way knows what there is to do, and without one
\* there is nothing to do.
LookKept ==
    ~Covered =>
        /\ tick.at = "idle" => ~Actionable
        /\ tick.at = "unblock" => tick.todo = Unblockable
        /\ tick.at = "verify" => tick.task \in ReadyVerifies
        /\ tick.at = "dispatch" =>
             /\ tick.count = 0
             /\ DOMAIN tick.todo # {}
             /\ \A t \in DOMAIN tick.todo : board[t].status = "ready"

TeamInv ==
    /\ TeamTypeOK
    /\ SessionsKept
    /\ TickKept
    /\ WaveKept
    /\ ActiveIsWorked
    /\ LookKept

-----------------------------------------------------------------------------
(* Moves of the board *)

\* The least of some tasks is one of them.
LEMMA MinIn ==
    ASSUME NEW S \in SUBSET Nat, S # {}
    PROVE  Min(S) \in S
<1>d. DEFINE Below(y) == {z \in S : z <= y}
<1>1. {Below(y) : y \in S} \subseteq FiniteSubsetsOf(Nat)
  <2>1. ASSUME NEW y \in S
        PROVE  Below(y) \in SUBSET Nat /\ IsFiniteSet(Below(y))
    BY FS_BoundedSetOfNaturals
  <2>q. QED BY <2>1 DEF FiniteSubsetsOf
<1>2. PICK low \in {Below(y) : y \in S} :
         \A B \in {Below(y) : y \in S} : <<B, low>> \notin StrictSubsetOrdering(Nat)
  <2>1. {Below(y) : y \in S} # {}
    OBVIOUS
  <2>h. HIDE DEF Below
  <2>q. QED BY <1>1, <2>1, FS_StrictSubsetOrderingWellFounded, WFMin
<1>3. PICK x \in S : low = Below(x)
  OBVIOUS
<1>4. ASSUME NEW y \in S, ~(x <= y)
      PROVE  FALSE
  <2>1. Below(y) \subseteq Below(x) /\ x \in Below(x) /\ x \notin Below(y)
    <3>1. x \in Nat /\ y \in Nat /\ y < x /\ x <= x /\ ~(x <= y)
      BY <1>4
    <3>2. ASSUME NEW z \in S, z <= y
          PROVE  z <= x
      BY <3>1, <3>2
    <3>3. Below(y) \subseteq Below(x)
      BY <3>2
    <3>q. QED BY <3>1, <3>3
  <2>2. Below(x) \in SUBSET Nat /\ Below(y) \in SUBSET Nat
    OBVIOUS
  <2>h. HIDE DEF Below
  <2>3. <<Below(y), Below(x)>> \in StrictSubsetOrdering(Nat)
    BY <2>1, <2>2 DEF StrictSubsetOrdering
  <2>q. QED BY <1>2, <1>3, <2>3
<1>q. QED BY <1>4 DEF Min

\* A task's status is set.
LEMMA StatusSet ==
    ASSUME NEW b \in Seq(Tasks), NEW t \in DOMAIN b, NEW status \in Statuses,
           NEW c, c = [b EXCEPT ![t].status = status]
    PROVE  /\ c \in Seq(Tasks) /\ DOMAIN c = DOMAIN b
           /\ \A u \in DOMAIN b : /\ c[u].kind = b[u].kind /\ c[u].deps = b[u].deps
                                  /\ c[u].owner = b[u].owner /\ c[u].parent = b[u].parent
                                  /\ c[u].status = IF u = t THEN status ELSE b[u].status
<1>1. b[t] \in Tasks
  OBVIOUS
<1>2. [b[t] EXCEPT !.status = status] \in Tasks
  BY <1>1 DEF Tasks
<1>3. c = [b EXCEPT ![t] = [b[t] EXCEPT !.status = status]]
  OBVIOUS
<1>4. c \in Seq(Tasks) /\ DOMAIN c = DOMAIN b
  BY <1>2, <1>3
<1>5. ASSUME NEW u \in DOMAIN b
      PROVE  /\ c[u].kind = b[u].kind /\ c[u].deps = b[u].deps
             /\ c[u].owner = b[u].owner /\ c[u].parent = b[u].parent
             /\ c[u].status = IF u = t THEN status ELSE b[u].status
  BY <1>1, <1>3 DEF Tasks
<1>q. QED BY <1>4, <1>5

\* A task is inserted.
LEMMA TaskAdded ==
    ASSUME NEW b \in Seq(Tasks), NEW task \in Tasks, NEW c, c = Append(b, task)
    PROVE  /\ c \in Seq(Tasks) /\ DOMAIN c = DOMAIN b \cup {Len(b) + 1}
           /\ Len(b) + 1 \notin DOMAIN b
           /\ c[Len(b) + 1] = task
           /\ \A u \in DOMAIN b : c[u] = b[u]
OBVIOUS

\* The status of a settled task is final.
LEMMA SettledIsFinal ==
    ASSUME NEW t, board[t].status \in {"done", "cancelled"}, NEW status, MayMove(t, status)
    PROVE  status = board[t].status
BY DEF MayMove, Transitions

\* What every step keeps of the board: tasks stay, of their kind, settled ones
\* settled, and only a task that holds a placeholder gets other dependencies.
BoardKept ==
    /\ board' \in Seq(Tasks)
    /\ Ids \subseteq Ids'
    /\ \A t \in Ids : board'[t].kind = board[t].kind
    /\ \A t \in Ids : board[t].status \in {"done", "cancelled"} => board'[t].status \in {"done", "cancelled"}
    /\ \A t \in Ids : Unresolved \notin board[t].deps => board'[t].deps = board[t].deps
    /\ \A t \in Ids' : board'[t].kind = "verify" => board'[t].deps = {}

SameDeps == \A t \in Ids : board'[t].deps = board[t].deps

\* No task becomes active.
NoneStarts ==
    \A t \in Ids' : board'[t].kind # "goal" /\ board'[t].status = "active" =>
        t \in Ids /\ board[t].kind # "goal" /\ board[t].status = "active"

LEMMA SameBoard ==
    ASSUME TeamTypeOK, UNCHANGED board
    PROVE  BoardKept /\ SameDeps /\ NoneStarts
BY DEF TeamTypeOK, BoardKept, SameDeps, NoneStarts, Ids, OfKind

LEMMA MoveKept ==
    ASSUME TeamTypeOK, NEW t \in Ids, NEW status \in Statuses, SetTaskStatus(t, status)
    PROVE  /\ BoardKept /\ SameDeps /\ Ids' = Ids
           /\ status # "active" => NoneStarts
           /\ board'[t].status = status
           /\ \A u \in Ids : u # t => board'[u].status = board[u].status
           /\ \A u \in Ids : board'[u].owner = board[u].owner /\ board'[u].parent = board[u].parent
<1>1. /\ board \in Seq(Tasks) /\ t \in DOMAIN board /\ MayMove(t, status)
      /\ board' = [board EXCEPT ![t].status = status]
  BY DEF TeamTypeOK, SetTaskStatus, Ids
<1>2. /\ board' \in Seq(Tasks) /\ DOMAIN board' = DOMAIN board
      /\ \A u \in DOMAIN board :
            /\ board'[u].kind = board[u].kind /\ board'[u].deps = board[u].deps
            /\ board'[u].owner = board[u].owner /\ board'[u].parent = board[u].parent
            /\ board'[u].status = IF u = t THEN status ELSE board[u].status
  BY <1>1, StatusSet
<1>3. board[t].status \in {"done", "cancelled"} => status = board[t].status
  BY <1>1, SettledIsFinal
<1>q. QED BY <1>2, <1>3 DEF TeamTypeOK, BoardKept, SameDeps, NoneStarts, Ids, OfKind

LEMMA InsertKept ==
    ASSUME TeamTypeOK, NEW task \in Tasks, task.kind = "verify" => task.deps = {},
           task.status = "active" => task.kind = "goal", InsertTask(task)
    PROVE  /\ BoardKept /\ SameDeps /\ NoneStarts
           /\ Ids' = Ids \cup {Len(board) + 1} /\ Len(board) + 1 \notin Ids
           /\ board'[Len(board) + 1] = task /\ \A t \in Ids : board'[t] = board[t]
<1>1. board \in Seq(Tasks) /\ board' = Append(board, task)
  BY DEF TeamTypeOK, InsertTask
<1>2. /\ board' \in Seq(Tasks) /\ DOMAIN board' = DOMAIN board \cup {Len(board) + 1}
      /\ Len(board) + 1 \notin DOMAIN board
      /\ board'[Len(board) + 1] = task
      /\ \A u \in DOMAIN board : board'[u] = board[u]
  BY <1>1, TaskAdded
<1>q. QED BY <1>2 DEF TeamTypeOK, BoardKept, SameDeps, NoneStarts, Ids, OfKind

LEMMA AssignKept ==
    ASSUME TeamTypeOK, NEW t \in Ids, NEW m \in Members, Assign(t, m)
    PROVE  /\ BoardKept /\ SameDeps /\ NoneStarts /\ Ids' = Ids
<1>1. board \in Seq(Tasks) /\ board[t] \in Tasks
  BY DEF TeamTypeOK, Ids
<1>2. PICK status \in Statuses : status = IF board[t].status = "failed" THEN "ready" ELSE board[t].status
  BY <1>1 DEF Tasks, Statuses
<1>3. PICK task \in Tasks :
        /\ task.kind = board[t].kind /\ task.deps = board[t].deps /\ task.status = status
        /\ board' = [board EXCEPT ![t] = task]
  <2>1. PICK given : given = [board[t] EXCEPT !.owner = m]
    OBVIOUS
  <2>2. given \in Tasks /\ given.kind = board[t].kind /\ given.deps = board[t].deps
    BY <1>1, <2>1 DEF Tasks
  <2>3. PICK task : task = [given EXCEPT !.status = status]
    OBVIOUS
  <2>4. /\ task \in Tasks /\ task.status = status
        /\ task.kind = board[t].kind /\ task.deps = board[t].deps
    BY <2>2, <2>3 DEF Tasks
  <2>5. board' = [board EXCEPT ![t] = task]
    BY <1>1, <1>2, <2>1, <2>3 DEF Assign, Ids, Tasks
  <2>q. QED BY <2>4, <2>5
<1>4. /\ board' \in Seq(Tasks) /\ DOMAIN board' = DOMAIN board
      /\ \A u \in DOMAIN board : board'[u] = IF u = t THEN task ELSE board[u]
  BY <1>1, <1>3 DEF Ids
<1>5. board[t].status \notin {"done", "cancelled"}
  BY DEF Assign
<1>q. QED BY <1>2, <1>3, <1>4, <1>5 DEF TeamTypeOK, BoardKept, SameDeps, NoneStarts, Ids, OfKind

LEMMA ResolveKept ==
    ASSUME TeamTypeOK, NEW t \in Ids, NEW deps, NEW filed, ResolveDeps(t, deps, filed),
           Known(deps, filed) \in SUBSET Nat, Unresolved \in board[t].deps
    PROVE  /\ BoardKept /\ NoneStarts /\ Ids' = Ids
           /\ \A u \in Ids : u # t => board'[u] = board[u]
<1>1. board \in Seq(Tasks) /\ board[t] \in Tasks
  BY DEF TeamTypeOK, Ids
<1>2. PICK task \in Tasks :
        /\ task.kind = board[t].kind /\ task.status = board[t].status
        /\ board' = [board EXCEPT ![t] = task]
  <2>1. DEFINE task == [board[t] EXCEPT !.deps = Known(deps, filed)]
  <2>2. task \in Tasks /\ task.kind = board[t].kind /\ task.status = board[t].status
    BY <1>1 DEF Tasks
  <2>3. board' = [board EXCEPT ![t] = task]
    BY DEF ResolveDeps
  <2>q. QED BY <2>2, <2>3
<1>3. /\ board' \in Seq(Tasks) /\ DOMAIN board' = DOMAIN board
      /\ \A u \in DOMAIN board : board'[u] = IF u = t THEN task ELSE board[u]
  BY <1>1, <1>2 DEF Ids
<1>4. board[t].kind # "verify"
  BY DEF TeamTypeOK, OfKind
<1>q. QED BY <1>2, <1>3, <1>4 DEF TeamTypeOK, BoardKept, NoneStarts, Ids, OfKind

\* A new board in which only statuses differ, and settled tasks do not.
LEMMA StatusesKept ==
    ASSUME TeamTypeOK, NEW S \in SUBSET Ids, NEW status \in Statuses \ {"active"},
           \A t \in S : board[t].status \notin {"done", "cancelled"} \/ status = "done",
           board' = [t \in Ids |-> IF t \in S THEN [board[t] EXCEPT !.status = status] ELSE board[t]]
    PROVE  /\ BoardKept /\ SameDeps /\ NoneStarts /\ Ids' = Ids
           /\ \A t \in Ids : board'[t].status = IF t \in S THEN status ELSE board[t].status
<1>1. board \in Seq(Tasks) /\ \A t \in Ids : board[t] \in Tasks
  BY DEF TeamTypeOK, Ids
<1>2. ASSUME NEW t \in Ids
      PROVE  /\ board'[t] \in Tasks
             /\ board'[t].kind = board[t].kind /\ board'[t].deps = board[t].deps
             /\ board'[t].status = IF t \in S THEN status ELSE board[t].status
  BY <1>1 DEF Tasks
<1>3. board' \in Seq(Tasks) /\ Ids' = Ids
  <2>1. Ids = 1..Len(board) /\ Len(board) \in Nat
    BY <1>1 DEF Ids
  <2>2. board' \in [1..Len(board) -> Tasks]
    BY <1>2, <2>1
  <2>q. QED BY <2>1, <2>2 DEF Ids
<1>q. QED BY <1>2, <1>3 DEF TeamTypeOK, BoardKept, SameDeps, NoneStarts, OfKind

LEMMA NewTaskTyped ==
    ASSUME NEW kind \in Kinds, NEW status \in Statuses,
           NEW owner \in Members \cup {Verifier, Nobody}, NEW deps \in SUBSET Nat, NEW parent \in Nat
    PROVE  /\ NewTask(kind, status, owner, deps, parent) \in Tasks
           /\ NewTask(kind, status, owner, deps, parent).kind = kind
           /\ NewTask(kind, status, owner, deps, parent).status = status
           /\ NewTask(kind, status, owner, deps, parent).deps = deps
BY DEF NewTask, Tasks

\* A wave's dependencies, as far as they are known, are ids or placeholders,
\* and a reference that is not known yet leaves a placeholder.
LEMMA KnownTyped ==
    ASSUME NEW deps \in SUBSET Int, NEW filed \in Seq(Nat)
    PROVE  /\ Known(deps, filed) \in SUBSET Nat
           /\ \A d \in deps : -d > Len(filed) => Unresolved \in Known(deps, filed)
<1>1. ASSUME NEW d \in deps, d > 0
      PROVE  d \in Nat
  BY <1>1
<1>2. ASSUME NEW d \in deps, -d \in DOMAIN filed
      PROVE  filed[-d] \in Nat
  BY <1>2
<1>3. Unresolved \in Nat
  BY DEF Unresolved
<1>4. Known(deps, filed) \in SUBSET Nat
  BY <1>1, <1>2, <1>3 DEF Known
<1>5. ASSUME NEW d \in deps, -d > Len(filed)
      PROVE  Unresolved \in Known(deps, filed)
  <2>1. d < 0 /\ -d \notin DOMAIN filed
    BY <1>5
  <2>q. QED BY <2>1 DEF Known
<1>q. QED BY <1>4, <1>5

LEMMA ElementTyped ==
    ASSUME NEW S, NEW s \in Seq(S), NEW k \in 1..Len(s)
    PROVE  s[k] \in S
OBVIOUS

\* The steps of a wave's filing.
LEMMA FilingCases ==
    ASSUME TeamInv, FilingStep
    PROVE  /\ conductor.wave \in Seq([owner : Members, deps : SUBSET Int])
           /\ \/ /\ Len(conductor.filed) < Len(conductor.wave)
                 /\ \E task \in Tasks :
                      /\ task.kind = "work" /\ task.status = "ready" /\ InsertTask(task)
                      /\ \A d \in conductor.wave[Len(conductor.filed) + 1].deps :
                            -d > Len(conductor.filed) => Unresolved \in task.deps
                 /\ conductor' = Filing(conductor.wave, Append(conductor.filed, Len(board) + 1),
                                        conductor.fixed)
              \/ /\ Len(conductor.filed) = Len(conductor.wave)
                 /\ conductor.fixed < Len(conductor.wave)
                 /\ conductor' = Filing(conductor.wave, conductor.filed, conductor.fixed + 1)
                 /\ UNCHANGED board
              \/ /\ Len(conductor.filed) = Len(conductor.wave)
                 /\ conductor.fixed < Len(conductor.wave)
                 /\ conductor' = Filing(conductor.wave, conductor.filed, conductor.fixed + 1)
                 /\ \E t \in Ids, deps \in SUBSET Int :
                      /\ t = conductor.filed[conductor.fixed + 1]
                      /\ Unresolved \in board[t].deps
                      /\ ResolveDeps(t, deps, conductor.filed)
                      /\ Known(deps, conductor.filed) \in SUBSET Nat
              \/ /\ conductor' = Doing("nothing")
                 /\ OnBoardChange
                 /\ UNCHANGED board
<1>w. conductor.doing = "filing"
  BY DEF FilingStep
<1>t. /\ conductor.wave \in Waves /\ conductor.filed \in Seq(Nat) /\ conductor.fixed \in Nat
      /\ \A k \in DOMAIN conductor.filed :
             /\ conductor.filed[k] \in Ids
             /\ k > conductor.fixed /\ (\E d \in conductor.wave[k].deps : -d >= k)
                    => Unresolved \in board[conductor.filed[k]].deps
  BY <1>w DEF TeamInv, WaveKept
<1>v. conductor.wave \in Seq([owner : Members, deps : SUBSET Int])
  BY <1>t, TeamAssumption
<1>1. CASE /\ Len(conductor.filed) < Len(conductor.wave)
           /\ FileNext(conductor.wave, conductor.filed)
           /\ conductor' = Filing(conductor.wave, Append(conductor.filed, Len(board) + 1),
                                  conductor.fixed)
  <2>1. PICK next \in [owner : Members, deps : SUBSET Int] :
           next = conductor.wave[Len(conductor.filed) + 1]
    <3>1. Len(conductor.filed) + 1 \in 1..Len(conductor.wave)
      BY <1>t, <1>v, <1>1
    <3>q. QED BY <1>v, <3>1, ElementTyped
  <2>2. next.owner \in Members /\ next.deps \in SUBSET Int
    OBVIOUS
  <2>3. PICK deps \in SUBSET Nat :
          /\ deps = Known(next.deps, conductor.filed)
          /\ \A d \in next.deps : -d > Len(conductor.filed) => Unresolved \in deps
    BY <1>t, <2>2, KnownTyped
  <2>4. PICK task \in Tasks : /\ task = NewTask("work", "ready", next.owner, deps, NoParent)
                              /\ task.kind = "work" /\ task.status = "ready" /\ task.deps = deps
    BY <2>2, NewTaskTyped DEF Kinds, Statuses, NoParent
  <2>5. InsertTask(task)
    BY <1>1, <2>1, <2>3, <2>4 DEF FileNext
  <2>q. QED BY <1>v, <1>1, <2>1, <2>3, <2>4, <2>5
<1>2. CASE /\ Len(conductor.filed) = Len(conductor.wave) /\ conductor.fixed < Len(conductor.wave)
           /\ conductor' = Filing(conductor.wave, conductor.filed, conductor.fixed + 1)
           /\ IF \E d \in conductor.wave[conductor.fixed + 1].deps : -d > conductor.fixed
              THEN ResolveDeps(conductor.filed[conductor.fixed + 1],
                               conductor.wave[conductor.fixed + 1].deps, conductor.filed)
              ELSE UNCHANGED <<board, tracker>>
  <2>1. CASE ~\E d \in conductor.wave[conductor.fixed + 1].deps : -d > conductor.fixed
    BY <1>v, <1>2, <2>1
  <2>2. CASE \E d \in conductor.wave[conductor.fixed + 1].deps : -d > conductor.fixed
    <3>1. PICK k \in DOMAIN conductor.filed : k = conductor.fixed + 1 /\ k \in DOMAIN conductor.wave
      BY <1>t, <1>v, <1>2
    <3>2. conductor.wave[k].deps \in SUBSET Int
      <4>1. k \in 1..Len(conductor.wave)
        BY <1>v, <3>1
      <4>2. conductor.wave[k] \in [owner : Members, deps : SUBSET Int]
        BY <1>v, <4>1, ElementTyped
      <4>q. QED BY <4>2
    <3>3. \E d \in conductor.wave[k].deps : -d >= k
      BY <1>t, <2>2, <3>1, <3>2
    <3>4. conductor.filed[k] \in Ids /\ Unresolved \in board[conductor.filed[k]].deps
      <4>1. k > conductor.fixed
        BY <1>t, <3>1
      <4>q. QED BY <1>t, <3>1, <3>3, <4>1
    <3>5. Known(conductor.wave[k].deps, conductor.filed) \in SUBSET Nat
      BY <1>t, <3>2, KnownTyped
    <3>q. QED BY <1>v, <1>2, <2>2, <3>1, <3>2, <3>4, <3>5
  <2>q. QED BY <2>1, <2>2
<1>3. CASE conductor' = Doing("nothing") /\ OnBoardChange /\ UNCHANGED <<board, tracker>>
  BY <1>v, <1>3
<1>q. QED BY <1>1, <1>2, <1>3 DEF FilingStep

-----------------------------------------------------------------------------
(* What each action does to the board *)

\* Facts of the invariant that most actions need
LEMMA InvFacts ==
    ASSUME TeamInv
    PROVE  /\ TeamTypeOK /\ board \in Seq(Tasks) /\ Ids \subseteq Nat /\ 0 \notin Ids
           /\ \A s \in Slots : Live(s) => sessions[s].task \in Ids /\ sessions[s] \in Session
<1>1. board \in Seq(Tasks)
  BY DEF TeamInv, TeamTypeOK
<1>2. Ids = 1..Len(board) /\ Len(board) \in Nat
  BY <1>1 DEF Ids
<1>3. ASSUME NEW s \in Slots, Live(s)
      PROVE  sessions[s].task \in Ids /\ sessions[s] \in Session
  BY <1>3 DEF TeamInv, SessionsKept, Live, NoSession
<1>q. QED BY <1>1, <1>2, <1>3 DEF TeamInv

LEMMA PlainSteps ==
    ASSUME TeamInv,
           \/ TickStart \/ TickLook \/ TickWake \/ TickDeliver \/ TickFail \/ WakeRetry
           \/ UserTurn \/ SetBudget \/ AskUser \/ FileTasks \/ FinishCheck \/ ConductorEnds
           \/ AfterWake \/ SweepReply \/ SweepList \/ CancelRun
           \/ Overspend \/ \E s \in Slots : Assemble(s)
    PROVE  UNCHANGED board
<1>1. CASE TickStart
  BY <1>1 DEF TickStart, boardVars
<1>2. CASE TickLook
  BY <1>2 DEF TickLook, boardVars
<1>3. CASE TickWake
  BY <1>3 DEF TickWake, boardVars
<1>4. CASE TickDeliver
  BY <1>4 DEF TickDeliver, boardVars
<1>5. CASE TickFail
  BY <1>5 DEF TickFail, boardVars
<1>6. CASE WakeRetry
  BY <1>6 DEF WakeRetry, boardVars
<1>7. CASE UserTurn
  BY <1>7 DEF UserTurn, boardVars
<1>8. CASE SetBudget
  BY <1>8 DEF SetBudget, boardVars
<1>9. CASE AskUser
  BY <1>9 DEF AskUser, boardVars
<1>10. CASE FileTasks
  BY <1>10 DEF FileTasks, boardVars
<1>11. CASE FinishCheck
  BY <1>11 DEF FinishCheck, boardVars
<1>12. CASE ConductorEnds
  BY <1>12 DEF ConductorEnds, boardVars
<1>13. CASE AfterWake
  BY <1>13 DEF AfterWake, boardVars
<1>14. CASE SweepReply
  BY <1>14 DEF SweepReply, boardVars
<1>15. CASE SweepList
  BY <1>15 DEF SweepList, boardVars
<1>16. CASE CancelRun
  BY <1>16 DEF CancelRun, boardVars
<1>17. CASE \E s \in Slots : Assemble(s)
  BY <1>17 DEF Assemble, boardVars
<1>18. CASE Overspend
  BY <1>18 DEF Overspend
<1>q. QED BY <1>1, <1>2, <1>3, <1>4, <1>5, <1>6, <1>7, <1>8, <1>9, <1>10, <1>11, <1>12, <1>13,
             <1>14, <1>15, <1>16, <1>17, <1>18

LEMMA Effects ==
    ASSUME TeamInv, TeamNext
    PROVE  /\ BoardKept
           /\ SameDeps \/ FilingStep
           /\ NoneStarts \/ TickVerify \/ TickDispatch
<1>i. /\ TeamTypeOK /\ Ids \subseteq Nat /\ 0 \notin Ids
      /\ \A s \in Slots : Live(s) => sessions[s].task \in Ids /\ sessions[s] \in Session
  BY InvFacts
<1>u. CASE UNCHANGED board
  BY <1>i, <1>u, SameBoard
<1>m. ASSUME NEW t \in Ids, NEW status \in Statuses, SetTaskStatus(t, status),
             status # "active" \/ TickVerify \/ TickDispatch
      PROVE  BoardKept /\ SameDeps /\ (NoneStarts \/ TickVerify \/ TickDispatch)
  <2>1. BoardKept /\ SameDeps /\ (status # "active" => NoneStarts)
    BY <1>i, <1>m, MoveKept
  <2>q. QED BY <1>m, <2>1
<1>n. ASSUME NEW task \in Tasks, InsertTask(task), task.kind = "verify" => task.deps = {},
             task.status = "active" => task.kind = "goal"
      PROVE  BoardKept /\ SameDeps /\ NoneStarts
  BY <1>i, <1>n, InsertKept
<1>1. CASE TickUnblock
  <2>1. tick.at = "unblock" /\ tick.todo # {}
    BY <1>1 DEF TickUnblock
  <2>2. tick.todo \subseteq Ids
    BY <2>1 DEF TeamInv, TickKept
  <2>3. tick.todo \in SUBSET Nat
    BY <1>i, <2>2
  <2>4. PICK t \in Ids : t = Min(tick.todo)
    BY <2>1, <2>2, <2>3, MinIn
  <2>5. SetTaskStatus(t, "ready") \/ UNCHANGED board
    BY <1>1, <2>4 DEF TickUnblock
  <2>q. QED BY <1>u, <1>m, <2>5 DEF Statuses
<1>2. CASE TickVerify
  <2>1. tick.task \in Ids
    BY <1>2 DEF TickVerify, TeamInv, TickKept, OfKind
  <2>2. SetTaskStatus(tick.task, "active") \/ UNCHANGED board
    BY <1>2 DEF TickVerify, StartSession
  <2>q. QED BY <1>u, <1>m, <1>2, <2>1, <2>2 DEF Statuses
<1>3. CASE TickDispatch
  <2>1. tick.at = "dispatch"
    BY <1>3 DEF TickDispatch
  <2>2. DOMAIN tick.todo \subseteq Ids
    BY <2>1 DEF TeamInv, TickKept
  <2>3. ASSUME DOMAIN tick.todo # {}
        PROVE  Min(DOMAIN tick.todo) \in Ids
    <3>1. DOMAIN tick.todo \in SUBSET Nat
      BY <1>i, <2>2
    <3>q. QED BY <2>2, <2>3, <3>1, MinIn
  <2>4. \/ UNCHANGED board
        \/ DOMAIN tick.todo # {} /\ SetTaskStatus(Min(DOMAIN tick.todo), "active")
    BY <1>3 DEF TickDispatch, StartSession
  <2>q. QED BY <1>u, <1>m, <1>3, <2>3, <2>4 DEF Statuses
<1>4. CASE TickFile
  <2>1. PICK task \in Tasks : /\ task = NewTask("verify", "ready", Verifier, {}, NoParent)
                              /\ task.deps = {} /\ task.status = "ready"
    BY NewTaskTyped DEF Kinds, Statuses, NoParent
  <2>2. InsertTask(task)
    BY <1>4, <2>1 DEF TickFile
  <2>q. QED BY <1>n, <2>1, <2>2
<1>5. CASE \E s \in Slots : MemberActs(s)
  <2>1. PICK s \in Slots : MemberActs(s)
    BY <1>5
  <2>2. sessions[s].task \in Ids /\ sessions[s].task \in Nat
    BY <1>i, <2>1 DEF MemberActs, InTurn, Live
  <2>3. CASE CompleteTask(sessions[s].member, sessions[s].task)
    <3>1. SetTaskStatus(sessions[s].task, "done")
      BY <2>3 DEF CompleteTask
    <3>q. QED BY <1>m, <2>2, <3>1 DEF Statuses
  <2>4. CASE FileTask(Reserved)
    <3>1. PICK task \in Tasks : /\ task = NewTask("work", "ready", Nobody, {}, NoParent)
                                /\ task.kind = "work" /\ task.status = "ready"
      <4>1. /\ "work" \in Kinds /\ "ready" \in Statuses /\ NoParent \in Nat
            /\ Nobody \in Members \cup {Verifier, Nobody} /\ {} \in SUBSET Nat
        BY DEF Kinds, Statuses, NoParent
      <4>q. QED BY <4>1, NewTaskTyped
    <3>2. InsertTask(task)
      BY <2>4, <3>1 DEF FileTask
    <3>q. QED BY <1>n, <3>1, <3>2
  <2>5. CASE AskTeam(sessions[s].task, Reserved)
    <3>1. PICK task \in Tasks : /\ task = NewTask("question", "ready", Nobody, {}, sessions[s].task)
                                /\ task.kind = "question" /\ task.status = "ready"
      <4>1. /\ "question" \in Kinds /\ "ready" \in Statuses
            /\ Nobody \in Members \cup {Verifier, Nobody} /\ {} \in SUBSET Nat
        BY DEF Kinds, Statuses
      <4>q. QED BY <2>2, <4>1, NewTaskTyped
    <3>2. InsertTask(task)
      BY <2>5, <3>1 DEF AskTeam
    <3>q. QED BY <1>n, <3>1, <3>2
  <2>q. QED BY <2>1, <2>3, <2>4, <2>5 DEF MemberActs
<1>6. CASE \E s \in Slots : FirstTurnEnds(s)
  <2>1. PICK s \in Slots : FirstTurnEnds(s)
    BY <1>6
  <2>2. sessions[s].task \in Ids
    BY <1>i, <2>1 DEF FirstTurnEnds, Live
  <2>3. SetTaskStatus(sessions[s].task, "blocked") \/ UNCHANGED board
    BY <2>1 DEF FirstTurnEnds
  <2>q. QED BY <1>u, <1>m, <2>2, <2>3 DEF Statuses
<1>7. CASE \E s \in Slots : SessionOver(s)
  <2>1. PICK s \in Slots : SessionOver(s)
    BY <1>7
  <2>2. sessions[s].task \in Ids
    BY <1>i, <2>1 DEF SessionOver
  <2>3. SetTaskStatus(sessions[s].task, "failed") \/ UNCHANGED board
    BY <2>1 DEF SessionOver
  <2>q. QED BY <1>u, <1>m, <2>2, <2>3 DEF Statuses
<1>8. CASE ConductorWrites
  <2>1. CASE SetGoal
    <3>1. PICK task \in Tasks : /\ task = NewTask("goal", "active", Nobody, {}, NoParent)
                                /\ task.kind = "goal"
      <4>1. /\ "goal" \in Kinds /\ "active" \in Statuses /\ NoParent \in Nat
            /\ Nobody \in Members \cup {Verifier, Nobody} /\ {} \in SUBSET Nat
        BY DEF Kinds, Statuses, NoParent
      <4>q. QED BY <4>1, NewTaskTyped
    <3>2. InsertTask(task)
      BY <2>1, <3>1 DEF SetGoal
    <3>q. QED BY <1>n, <3>1, <3>2
  <2>2. CASE UpdateTask
    BY <1>u, <2>2 DEF UpdateTask
  <2>3. ASSUME NEW t \in Ids, AnswerQuestion(t)
        PROVE  BoardKept /\ SameDeps /\ (NoneStarts \/ TickVerify \/ TickDispatch)
    <3>1. SetTaskStatus(t, "done")
      BY <2>3 DEF AnswerQuestion
    <3>q. QED BY <1>m, <3>1 DEF Statuses
  <2>4. ASSUME NEW t \in Ids, CancelTask(t)
        PROVE  BoardKept /\ SameDeps /\ (NoneStarts \/ TickVerify \/ TickDispatch)
    <3>1. SetTaskStatus(t, "cancelled")
      BY <2>4 DEF CancelTask
    <3>q. QED BY <1>m, <3>1 DEF Statuses
  <2>5. ASSUME NEW t \in Ids, NEW m \in Members, Assign(t, m)
        PROVE  BoardKept /\ SameDeps /\ NoneStarts
    BY <1>i, <2>5, AssignKept
  <2>q. QED BY <1>8, <2>1, <2>2, <2>3, <2>4, <2>5 DEF ConductorWrites
<1>9. CASE FilingStep
  <2>1. CASE \E task \in Tasks : task.kind = "work" /\ task.status = "ready" /\ InsertTask(task)
    BY <1>n, <2>1
  <2>2. CASE \E t \in Ids, deps \in SUBSET Int :
               /\ Unresolved \in board[t].deps
               /\ ResolveDeps(t, deps, conductor.filed)
               /\ Known(deps, conductor.filed) \in SUBSET Nat
    BY <1>i, <1>9, <2>2, ResolveKept
  <2>q. QED BY <1>u, <1>9, <2>1, <2>2, FilingCases
<1>10. CASE FinishWrite
  <2>1. board' = [t \in Ids |-> IF t \in OfKind("goal") THEN [board[t] EXCEPT !.status = "done"]
                                ELSE board[t]]
    BY <1>10 DEF FinishWrite, FinishRun, OfKind
  <2>2. OfKind("goal") \in SUBSET Ids /\ "done" \in Statuses \ {"active"}
    BY DEF OfKind, Statuses
  <2>q. QED BY <1>i, <2>1, <2>2, StatusesKept
<1>11. CASE SweepTask
  <2>1. CASE UNCHANGED board
    BY <1>u, <2>1
  <2>2. CASE SetTaskStatus(sweep, IF sweep \in reclaimed THEN "failed" ELSE "ready")
    <3>1. sweep \in Ids
      BY <1>11 DEF SweepTask, TeamInv, TeamTypeOK
    <3>2. PICK to \in Statuses : /\ to = IF sweep \in reclaimed THEN "failed" ELSE "ready"
                                 /\ to # "active"
      BY DEF Statuses
    <3>q. QED BY <1>m, <2>2, <3>1, <3>2
  <2>q. QED BY <1>11, <2>1, <2>2 DEF SweepTask
<1>12. CASE CrashAndResume
  <2>1. CASE UNCHANGED board
    BY <1>u, <2>1
  <2>2. CASE board' = [t \in Ids |-> IF t \in Unfinished THEN [board[t] EXCEPT !.status = "ready"]
                                     ELSE board[t]]
    <3>1. /\ Unfinished \in SUBSET Ids /\ "ready" \in Statuses \ {"active"}
          /\ \A t \in Unfinished : board[t].status \notin {"done", "cancelled"}
      BY DEF Unfinished, Statuses
    <3>q. QED BY <1>i, <2>2, <3>1, StatusesKept
  <2>q. QED BY <1>12, <2>1, <2>2 DEF CrashAndResume
<1>13. CASE \/ TickStart \/ TickLook \/ TickWake \/ TickDeliver \/ TickFail \/ WakeRetry
            \/ UserTurn \/ SetBudget \/ AskUser \/ FileTasks \/ FinishCheck \/ ConductorEnds
            \/ AfterWake \/ SweepReply \/ SweepList \/ CancelRun
            \/ Overspend \/ \E s \in Slots : Assemble(s)
  BY <1>u, <1>13, PlainSteps
<1>q. QED BY <1>1, <1>2, <1>3, <1>4, <1>5, <1>6, <1>7, <1>8, <1>9, <1>10, <1>11, <1>12, <1>13 DEF TeamNext

-----------------------------------------------------------------------------
(* Dependencies *)

\* Settled dependencies stay settled, and a task that has only such ones
\* holds no placeholder.
LEMMA DepsStay ==
    ASSUME TeamInv, BoardKept, NEW t \in Ids, DepsDone(t)
    PROVE  t \in Ids' /\ DepsDone(t)'
<1>1. Unresolved \notin board[t].deps
  BY InvFacts DEF DepsDone, Settled, Unresolved
<1>2. t \in Ids' /\ board'[t].deps = board[t].deps
  BY <1>1 DEF BoardKept
<1>3. ASSUME NEW d \in board[t].deps
      PROVE  Settled(d)'
  <2>1. d \in Ids /\ board[d].status \in {"done", "cancelled"}
    BY <1>3 DEF DepsDone, Settled
  <2>q. QED BY <2>1 DEF BoardKept, Settled, Ids
<1>q. QED BY <1>2, <1>3 DEF DepsDone

\* Sessions are where they were, elsewhere on the same task, or new on a task
\* whose dependencies are settled.
LEMMA SessionsStep ==
    ASSUME TeamInv, BoardKept,
           sessions' \in [Slots -> Session \cup {NoSession}],
           \A s \in Slots : Live(s)' =>
               \/ Live(s) /\ sessions'[s].task = sessions[s].task
               \/ sessions'[s].task \in Ids /\ DepsDone(sessions'[s].task)
    PROVE  SessionsKept'
<1>1. ASSUME NEW s \in Slots, Live(s)'
      PROVE  sessions'[s].task \in Ids' /\ (\A d \in board'[sessions'[s].task].deps : Settled(d)')
  <2>1. PICK t : t = sessions'[s].task
    OBVIOUS
  <2>2. t \in Ids /\ DepsDone(t)
    BY <1>1, <2>1 DEF TeamInv, SessionsKept
  <2>3. t \in Ids' /\ DepsDone(t)'
    BY <2>2, DepsStay
  <2>q. QED BY <2>1, <2>3 DEF DepsDone
<1>q. QED BY <1>1 DEF SessionsKept, DepsDone

\* A session ends, or goes on elsewhere.
LEMMA SessionMoves ==
    ASSUME TeamInv, NEW s \in Slots, NEW at \in {"assemble", "turn", "nudge"},
           \/ sessions' = [sessions EXCEPT ![s] = NoSession]
           \/ Live(s) /\ sessions' = [sessions EXCEPT ![s].at = at]
    PROVE  /\ sessions' \in [Slots -> Session \cup {NoSession}]
           /\ \A r \in Slots : Live(r)' => Live(r) /\ sessions'[r].task = sessions[r].task
           /\ \A r \in Slots : r # s => sessions'[r] = sessions[r]
<1>t. sessions \in [Slots -> Session \cup {NoSession}]
  BY DEF TeamInv, SessionsKept
<1>1. CASE sessions' = [sessions EXCEPT ![s] = NoSession]
  BY <1>t, <1>1 DEF Live, NoSession
<1>2. CASE Live(s) /\ sessions' = [sessions EXCEPT ![s].at = at]
  <2>1. sessions[s] \in Session
    BY <1>2, InvFacts
  <2>2. PICK next \in Session : /\ next.task = sessions[s].task /\ next.at # "none"
                                /\ sessions' = [sessions EXCEPT ![s] = next]
    <3>1. DEFINE next == [sessions[s] EXCEPT !.at = at]
    <3>2. next \in Session /\ next.task = sessions[s].task /\ next.at # "none"
      BY <2>1 DEF Session
    <3>q. QED BY <1>2, <3>2
  <2>q. QED BY <1>t, <1>2, <2>2 DEF Live
<1>q. QED BY <1>1, <1>2

\* A new session gets a task whose dependencies are settled.
LEMMA SessionStarts ==
    ASSUME TeamInv, NEW t \in Ids, DepsDone(t), NEW m \in Members \cup {Verifier, Nobody},
           StartSession(t, m)
    PROVE  /\ sessions' \in [Slots -> Session \cup {NoSession}]
           /\ \A s \in Slots : Live(s)' =>
                 \/ Live(s) /\ sessions'[s].task = sessions[s].task
                 \/ sessions'[s].task \in Ids /\ DepsDone(sessions'[s].task)
           /\ \A s \in Slots : Live(s) => sessions'[s] = sessions[s]
           /\ \E s \in Slots : Live(s)' /\ sessions'[s].task = t
<1>t. sessions \in [Slots -> Session \cup {NoSession}] /\ t \in Nat
  BY InvFacts DEF TeamInv, SessionsKept
<1>1. PICK s \in FreeSlots :
        sessions' = [sessions EXCEPT ![s] = [at |-> "assemble", task |-> t, member |-> m]]
  BY DEF StartSession
<1>2. PICK new \in Session : /\ new = [at |-> "assemble", task |-> t, member |-> m]
                             /\ new.task = t /\ new.at # "none"
  <2>1. [at |-> "assemble", task |-> t, member |-> m] \in Session
    BY <1>t DEF Session
  <2>q. QED BY <2>1
<1>3. s \in Slots /\ ~Live(s) /\ sessions' = [sessions EXCEPT ![s] = new]
  BY <1>1, <1>2 DEF FreeSlots
<1>q. QED BY <1>t, <1>2, <1>3 DEF Live

-----------------------------------------------------------------------------
(* Which actions change what *)

LEMMA Frames ==
    ASSUME TeamNext
    PROVE  /\ \/ UNCHANGED sessions \/ TickVerify \/ TickDispatch \/ CrashAndResume
              \/ \E s \in Slots : Assemble(s) \/ FirstTurnEnds(s) \/ SessionOver(s)
           /\ \/ UNCHANGED tick \/ TickStart \/ TickUnblock \/ TickLook \/ TickVerify
              \/ TickDispatch \/ tick'.at \in {"idle", "deliver", "fail"}
           /\ UNCHANGED conductor \/ FileTasks \/ FilingStep \/ conductor'.doing # "filing"
           /\ UNCHANGED due \/ TickSoon \/ (due > 0 /\ due' = due - 1) \/ due' \in {0, 1}
           /\ UNCHANGED sweep \/ sweep' = NoTask \/ sweep' \in Ids
           /\ UNCHANGED run \/ run' # "active"
<1>1. CASE TickStart
  BY <1>1 DEF TickStart, boardVars, tickVars, turnVars, workVars, faultVars, Idle
<1>2. CASE TickUnblock
  BY <1>2 DEF TickUnblock, boardVars, tickVars, turnVars, workVars, faultVars, Idle
<1>3. CASE TickLook
  BY <1>3 DEF TickLook, boardVars, tickVars, turnVars, workVars, faultVars
<1>4. CASE TickVerify
  BY <1>4 DEF TickVerify, boardVars, tickVars, turnVars, workVars, faultVars
<1>5. CASE TickDispatch
  BY <1>5 DEF TickDispatch, boardVars, tickVars, turnVars, workVars, faultVars
<1>6. CASE TickFile
  BY <1>6 DEF TickFile, boardVars, tickVars, turnVars, workVars, faultVars, Idle
<1>7. CASE TickWake
  BY <1>7 DEF TickWake, boardVars, tickVars, turnVars, workVars, faultVars, Idle
<1>8. CASE TickDeliver
  BY <1>8 DEF TickDeliver, boardVars, tickVars, turnVars, workVars, faultVars, Idle, TurnBy
<1>9. CASE TickFail
  BY <1>9 DEF TickFail, FailRun, boardVars, tickVars, turnVars, workVars, faultVars, Idle
<1>10. CASE WakeRetry
  BY <1>10 DEF WakeRetry, FailRun, boardVars, tickVars, turnVars, workVars, faultVars, TurnBy
<1>11. CASE \E s \in Slots : Assemble(s)
  BY <1>11 DEF Assemble, boardVars, tickVars, turnVars, workVars, faultVars
<1>12. CASE \E s \in Slots : MemberActs(s)
  BY <1>12 DEF MemberActs, boardVars, tickVars, turnVars, workVars, faultVars, OnBoardChange
<1>13. CASE \E s \in Slots : FirstTurnEnds(s)
  BY <1>13 DEF FirstTurnEnds, boardVars, tickVars, turnVars, workVars, faultVars, EndSession
<1>14. CASE \E s \in Slots : SessionOver(s)
  BY <1>14 DEF SessionOver, boardVars, tickVars, turnVars, workVars, faultVars, EndSession
<1>15. CASE Overspend
  BY <1>15 DEF Overspend, boardVars, tickVars, turnVars, workVars, faultVars
<1>16. CASE UserTurn
  BY <1>16 DEF UserTurn, boardVars, tickVars, turnVars, workVars, faultVars, TurnBy
<1>17. CASE ConductorWrites
  BY <1>17 DEF ConductorWrites, boardVars, tickVars, turnVars, workVars, faultVars, OnBoardChange
<1>18. CASE SetBudget
  BY <1>18 DEF SetBudget, boardVars, tickVars, turnVars, workVars, faultVars, OnBoardChange
<1>19. CASE AskUser
  BY <1>19 DEF AskUser, boardVars, tickVars, turnVars, workVars, faultVars
<1>20. CASE FileTasks
  BY <1>20 DEF FileTasks, boardVars, tickVars, turnVars, workVars, faultVars
<1>21. CASE FilingStep
  BY <1>21 DEF FilingStep, boardVars, tickVars, turnVars, workVars, faultVars, OnBoardChange, Doing
<1>22. CASE FinishCheck
  BY <1>22 DEF FinishCheck, boardVars, tickVars, turnVars, workVars, faultVars, Doing
<1>23. CASE FinishWrite
  BY <1>23 DEF FinishWrite, FinishRun, boardVars, tickVars, turnVars, workVars, faultVars, OnBoardChange, Doing
<1>24. CASE ConductorEnds
  BY <1>24 DEF ConductorEnds, boardVars, tickVars, turnVars, workVars, faultVars, NoTurn, TurnBy
<1>25. CASE AfterWake
  BY <1>25 DEF AfterWake, boardVars, tickVars, turnVars, workVars, faultVars
<1>26. CASE SweepReply
  BY <1>26 DEF SweepReply, boardVars, tickVars, turnVars, workVars, faultVars
<1>27. CASE SweepList
  BY <1>27 DEF SweepList, boardVars, tickVars, turnVars, workVars, faultVars, Unfinished
<1>28. CASE SweepTask
  BY <1>28 DEF SweepTask, boardVars, tickVars, turnVars, workVars, faultVars
<1>29. CASE CancelRun
  BY <1>29 DEF CancelRun, boardVars, tickVars, turnVars, workVars, faultVars
<1>30. CASE CrashAndResume
  BY <1>30 DEF CrashAndResume, boardVars, tickVars, turnVars, workVars, faultVars, Idle, NoTurn, TurnBy
<1>q. QED BY <1>1, <1>2, <1>3, <1>4, <1>5, <1>6, <1>7, <1>8, <1>9, <1>10, <1>11, <1>12, <1>13,
             <1>14, <1>15, <1>16, <1>17, <1>18, <1>19, <1>20, <1>21, <1>22, <1>23, <1>24, <1>25,
             <1>26, <1>27, <1>28, <1>29, <1>30 DEF TeamNext

LEMMA SoonTyped ==
    ASSUME due \in Nat, TickSoon
    PROVE  due' \in Nat /\ due' > 0
<1>1. {due + 1, MaxDue} \in SUBSET Nat /\ {due + 1, MaxDue} # {} /\ MaxDue > 0
  BY SchedulerAssumption
<1>2. Min({due + 1, MaxDue}) \in {due + 1, MaxDue}
  BY <1>1, MinIn
<1>q. QED BY <1>1, <1>2, SchedulerAssumption DEF TickSoon

LEMMA TypesStep ==
    ASSUME TeamInv, TeamNext
    PROVE  TeamTypeOK'
<1>1. BoardKept /\ due \in Nat /\ sweep \in Ids \cup {NoTask}
  BY Effects DEF TeamInv, TeamTypeOK
<1>2. due' \in Nat
  BY <1>1, Frames, SoonTyped
<1>3. sweep' \in Ids' \cup {NoTask}
  BY <1>1, Frames DEF BoardKept
<1>q. QED BY <1>1, <1>2, <1>3 DEF BoardKept, TeamTypeOK, OfKind

LEMMA DepsStep ==
    ASSUME TeamInv, TeamNext
    PROVE  SessionsKept'
<1>1. BoardKept
  BY Effects
<1>2. CASE UNCHANGED sessions
  BY <1>1, <1>2, SessionsStep DEF TeamInv, SessionsKept, Live
<1>3. CASE TickVerify
  <2>1. tick.task \in OfKind("verify")
    BY <1>3 DEF TickVerify, TeamInv, TickKept
  <2>2. tick.task \in Ids /\ DepsDone(tick.task)
    BY <2>1 DEF TeamInv, TeamTypeOK, OfKind, DepsDone
  <2>3. CASE StartSession(tick.task, Verifier)
    BY <1>1, <2>2, <2>3, SessionStarts, SessionsStep
  <2>q. QED BY <1>2, <1>3, <2>3 DEF TickVerify
<1>4. CASE TickDispatch
  <2>1. tick.at = "dispatch"
    BY <1>4 DEF TickDispatch
  <2>2. \A t \in DOMAIN tick.todo : t \in Ids /\ DepsDone(t)
    BY <2>1 DEF TeamInv, TickKept
  <2>3. DOMAIN tick.todo \in SUBSET Nat
    BY <2>2, InvFacts
  <2>4. CASE /\ DOMAIN tick.todo # {}
             /\ StartSession(Min(DOMAIN tick.todo), board[Min(DOMAIN tick.todo)].owner)
    <3>1. PICK t \in Ids : t = Min(DOMAIN tick.todo) /\ DepsDone(t)
      BY <2>2, <2>3, <2>4, MinIn
    <3>2. board[t].owner \in Members \cup {Verifier, Nobody}
      <4>1. board[t] \in Tasks
        BY InvFacts DEF Ids
      <4>q. QED BY <4>1 DEF Tasks
    <3>q. QED BY <1>1, <2>4, <3>1, <3>2, SessionStarts, SessionsStep
  <2>q. QED BY <1>2, <1>4, <2>4 DEF TickDispatch
<1>5. CASE CrashAndResume
  BY <1>1, <1>5, SessionsStep DEF CrashAndResume, Live, NoSession
<1>6. ASSUME NEW s \in Slots, Assemble(s) \/ FirstTurnEnds(s) \/ SessionOver(s)
      PROVE  SessionsKept'
  <2>1. Live(s)
    BY <1>6 DEF Assemble, FirstTurnEnds, SessionOver, Live
  <2>2. \/ sessions' = [sessions EXCEPT ![s] = NoSession]
        \/ sessions' = [sessions EXCEPT ![s].at = "turn"]
        \/ sessions' = [sessions EXCEPT ![s].at = "nudge"]
    BY <1>6 DEF Assemble, FirstTurnEnds, SessionOver, EndSession, At
  <2>3. /\ sessions' \in [Slots -> Session \cup {NoSession}]
        /\ \A r \in Slots : Live(r)' => Live(r) /\ sessions'[r].task = sessions[r].task
    BY <2>1, <2>2, SessionMoves
  <2>q. QED BY <1>1, <2>3, SessionsStep
<1>q. QED BY <1>2, <1>3, <1>4, <1>5, <1>6, Frames

LEMMA TickStep ==
    ASSUME TeamInv, TeamNext
    PROVE  TickKept'
<1>1. BoardKept
  BY Effects
<1>2. CASE UNCHANGED tick
  <2>1. ASSUME tick.at = "dispatch", NEW t \in DOMAIN tick.todo
        PROVE  t \in Ids' /\ DepsDone(t)'
    BY <1>1, <2>1, DepsStay DEF TeamInv, TickKept
  <2>q. QED BY <1>1, <1>2, <2>1 DEF TeamInv, TickKept, BoardKept, OfKind
<1>3. CASE TickStart
  BY <1>3 DEF TickStart, TickKept, Unblocking, Idle, Unblockable, boardVars, Ids
<1>4. CASE TickUnblock
  <2>1. tick.todo \subseteq Ids
    BY <1>4 DEF TickUnblock, TeamInv, TickKept
  <2>q. QED BY <1>1, <1>4, <2>1 DEF TickUnblock, TickKept, Unblocking, Idle, BoardKept
<1>5. CASE TickLook
  <2>b. UNCHANGED board
    BY <1>5 DEF TickLook, boardVars
  <2>1. CASE tick'.at = "verify" /\ ReadyVerifies # {} /\ tick'.task = Min(ReadyVerifies)
    <3>1. ReadyVerifies \in SUBSET Nat
      BY InvFacts DEF ReadyVerifies, OfKind
    <3>2. Min(ReadyVerifies) \in ReadyVerifies
      BY <2>1, <3>1, MinIn
    <3>q. QED BY <2>b, <2>1, <3>2 DEF TickKept, ReadyVerifies, OfKind, Ids
  <2>2. CASE tick' = Dispatching([t \in Candidates |-> board[t].owner],
                                 {board[t].owner : t \in ActiveWork}, Cardinality(ActiveWork))
    <3>1. Cardinality(ActiveWork) \in Nat
      <4>1. Ids = 1..Len(board) /\ Len(board) \in Int
        BY InvFacts DEF Ids
      <4>2. IsFiniteSet(Ids)
        BY <4>1, FS_Interval
      <4>3. ActiveWork \in SUBSET Ids
        BY DEF ActiveWork, OfKind
      <4>q. QED BY <4>2, <4>3, FS_Subset, FS_CardinalityType
    <3>2. tick'.at = "dispatch" /\ DOMAIN tick'.todo = Candidates /\ tick'.count = Cardinality(ActiveWork)
      BY <2>2 DEF Dispatching
    <3>3. ASSUME NEW t \in Candidates
          PROVE  t \in Ids' /\ DepsDone(t)'
      BY <2>b DEF Candidates, OfKind, DepsDone, Settled, Ids
    <3>q. QED BY <3>1, <3>2, <3>3 DEF TickKept
  <2>3. CASE tick'.at \in {"wake", "file", "idle"}
    BY <2>3 DEF TickKept
  <2>q. QED BY <1>5, <2>1, <2>2, <2>3 DEF TickLook, Idle
<1>6. CASE TickVerify
  BY <1>6 DEF TickVerify, TickKept, Idle
<1>7. CASE TickDispatch
  <2>1. /\ tick.at = "dispatch" /\ tick.count \in Nat
        /\ \A t \in DOMAIN tick.todo : t \in Ids /\ DepsDone(t)
    BY <1>7 DEF TickDispatch, TeamInv, TickKept
  <2>2. ASSUME NEW t \in DOMAIN tick.todo
        PROVE  t \in Ids' /\ DepsDone(t)'
    BY <1>1, <2>1, DepsStay
  <2>3. \/ tick'.at = "idle"
        \/ /\ tick'.at = "dispatch" /\ tick'.count \in {tick.count, tick.count + 1}
           /\ DOMAIN tick'.todo \subseteq DOMAIN tick.todo
    BY <1>7 DEF TickDispatch, Dispatching, Idle
  <2>q. QED BY <2>1, <2>2, <2>3 DEF TickKept
<1>8. CASE tick'.at \in {"idle", "deliver", "fail"}
  BY <1>8 DEF TickKept
<1>q. QED BY <1>2, <1>3, <1>4, <1>5, <1>6, <1>7, <1>8, Frames

LEMMA WaveStep ==
    ASSUME TeamInv, TeamNext
    PROVE  WaveKept'
<1>1. BoardKept /\ (SameDeps \/ FilingStep)
  BY Effects
<1>2. CASE conductor'.doing # "filing"
  BY <1>2 DEF WaveKept
<1>3. CASE FileTasks
  <2>1. PICK wave \in Waves : conductor' = Filing(wave, <<>>, 0)
    BY <1>3 DEF FileTasks
  <2>2. conductor'.wave \in Waves /\ conductor'.filed = <<>> /\ conductor'.fixed = 0
    BY <2>1 DEF Filing
  <2>3. conductor'.filed \in Seq(Nat) /\ DOMAIN conductor'.filed = {}
    BY <2>2
  <2>q. QED BY <2>2, <2>3 DEF WaveKept
<1>4. CASE FilingStep
  <2>w. conductor.doing = "filing"
    BY <1>4 DEF FilingStep
  <2>t. /\ conductor.wave \in Waves /\ conductor.filed \in Seq(Nat) /\ conductor.fixed \in Nat
        /\ \A k \in DOMAIN conductor.filed :
             /\ conductor.filed[k] \in Ids
             /\ \A j \in DOMAIN conductor.filed :
                    conductor.filed[j] = conductor.filed[k] => j = k
             /\ k > conductor.fixed /\ (\E d \in conductor.wave[k].deps : -d >= k)
                    => Unresolved \in board[conductor.filed[k]].deps
    BY <2>w DEF TeamInv, WaveKept
  <2>1. ASSUME NEW task \in Tasks, task.kind = "work", task.status = "ready", InsertTask(task),
               Len(conductor.filed) < Len(conductor.wave),
               \A d \in conductor.wave[Len(conductor.filed) + 1].deps :
                   -d > Len(conductor.filed) => Unresolved \in task.deps,
               conductor' = Filing(conductor.wave, Append(conductor.filed, Len(board) + 1),
                                   conductor.fixed)
        PROVE  WaveKept'
    <3>1. PICK n \in Nat : n = Len(conductor.filed) + 1
      BY <2>t
    <3>2. PICK new \in Nat : /\ new = Len(board) + 1 /\ new \notin Ids /\ new \in Ids'
                             /\ board'[new] = task /\ \A t \in Ids : board'[t] = board[t]
      <4>1. Len(board) + 1 \in Nat
        BY InvFacts
      <4>q. QED BY <2>1, <4>1, InvFacts, InsertKept
    <3>3. /\ conductor'.wave = conductor.wave /\ conductor'.fixed = conductor.fixed
          /\ conductor'.filed = Append(conductor.filed, new)
      BY <2>1, <3>2 DEF Filing
    <3>4. /\ conductor'.filed \in Seq(Nat) /\ DOMAIN conductor'.filed = DOMAIN conductor.filed \cup {n}
          /\ conductor'.filed[n] = new
          /\ \A k \in DOMAIN conductor.filed : conductor'.filed[k] = conductor.filed[k]
      BY <2>t, <3>1, <3>3
    <3>5. (\E d \in conductor.wave[n].deps : -d >= n) => Unresolved \in task.deps
      <4>1. conductor.wave \in Seq([owner : Members, deps : SUBSET Int])
        BY <1>4, FilingCases
      <4>2. n \in 1..Len(conductor.wave)
        BY <2>t, <2>1, <3>1, <4>1
      <4>3. conductor.wave[n] \in [owner : Members, deps : SUBSET Int]
        BY <4>1, <4>2, ElementTyped
      <4>4. conductor.wave[n].deps \in SUBSET Int
        BY <4>3
      <4>5. ASSUME NEW d \in conductor.wave[n].deps, -d >= n
            PROVE  -d > Len(conductor.filed)
        BY <2>t, <3>1, <4>4, <4>5
      <4>q. QED BY <2>1, <3>1, <4>5
    <3>6. ASSUME NEW k \in DOMAIN conductor'.filed
          PROVE  /\ conductor'.filed[k] \in Ids'
                 /\ \A j \in DOMAIN conductor'.filed :
                        conductor'.filed[j] = conductor'.filed[k] => j = k
                 /\ k > conductor.fixed /\ (\E d \in conductor.wave[k].deps : -d >= k)
                        => Unresolved \in board'[conductor'.filed[k]].deps
      <4>1. CASE k = n
        <5>1. \A j \in DOMAIN conductor.filed : conductor'.filed[j] # new
          BY <2>t, <3>2, <3>4
        <5>q. QED BY <3>2, <3>4, <3>5, <4>1, <5>1
      <4>2. CASE k # n
        <5>1. /\ k \in DOMAIN conductor.filed /\ conductor'.filed[k] = conductor.filed[k]
              /\ conductor.filed[k] \in Ids /\ conductor.filed[k] # new
          BY <2>t, <3>2, <3>4, <3>6, <4>2
        <5>2. conductor'.filed[k] \in Ids' /\ board'[conductor'.filed[k]] = board[conductor.filed[k]]
          BY <1>1, <3>2, <5>1 DEF BoardKept
        <5>3. ASSUME NEW j \in DOMAIN conductor'.filed, conductor'.filed[j] = conductor'.filed[k]
              PROVE  j = k
          BY <2>t, <3>4, <5>1, <5>3
        <5>q. QED BY <2>t, <5>1, <5>2, <5>3
      <4>q. QED BY <4>1, <4>2
    <3>q. QED BY <2>t, <3>3, <3>4, <3>6 DEF WaveKept
  <2>2. ASSUME conductor' = Filing(conductor.wave, conductor.filed, conductor.fixed + 1),
               \A k \in DOMAIN conductor.filed : k > conductor.fixed + 1 =>
                   board'[conductor.filed[k]].deps = board[conductor.filed[k]].deps
        PROVE  WaveKept'
    <3>1. /\ conductor'.wave = conductor.wave /\ conductor'.filed = conductor.filed
          /\ conductor'.fixed = conductor.fixed + 1
      BY <2>2 DEF Filing
    <3>2. conductor.fixed + 1 \in Nat
      BY <2>t
    <3>3. ASSUME NEW k \in DOMAIN conductor.filed, k > conductor.fixed + 1
          PROVE  k > conductor.fixed
      BY <2>t, <3>3
    <3>4. ASSUME NEW k \in DOMAIN conductor.filed
          PROVE  conductor.filed[k] \in Ids'
      BY <1>1, <2>t DEF BoardKept
    <3>5. ASSUME NEW k \in DOMAIN conductor.filed, k > conductor.fixed + 1,
                 \E d \in conductor.wave[k].deps : -d >= k
          PROVE  Unresolved \in board'[conductor.filed[k]].deps
      <4>1. Unresolved \in board[conductor.filed[k]].deps
        BY <2>t, <3>3, <3>5
      <4>q. QED BY <2>2, <3>5, <4>1
    <3>6. ASSUME NEW j \in DOMAIN conductor.filed, NEW k \in DOMAIN conductor.filed,
                 conductor.filed[j] = conductor.filed[k]
          PROVE  j = k
      BY <2>t, <3>6
    <3>7. conductor'.wave \in Waves /\ conductor'.filed \in Seq(Nat) /\ conductor'.fixed \in Nat
      BY <2>t, <3>1, <3>2
    <3>q. QED BY <3>1, <3>4, <3>5, <3>6, <3>7 DEF WaveKept
  <2>3. ASSUME conductor' = Filing(conductor.wave, conductor.filed, conductor.fixed + 1),
               Len(conductor.filed) = Len(conductor.wave), conductor.fixed < Len(conductor.wave),
               NEW t \in Ids, NEW deps \in SUBSET Int, t = conductor.filed[conductor.fixed + 1],
               Unresolved \in board[t].deps, ResolveDeps(t, deps, conductor.filed),
               Known(deps, conductor.filed) \in SUBSET Nat
        PROVE  WaveKept'
    <3>1. \A u \in Ids : u # t => board'[u] = board[u]
      BY <2>3, InvFacts, ResolveKept
    <3>2. conductor.fixed + 1 \in DOMAIN conductor.filed
      <4>1. conductor.fixed < Len(conductor.filed)
        BY <2>3
      <4>q. QED BY <2>t, <4>1
    <3>3. ASSUME NEW k \in DOMAIN conductor.filed, k > conductor.fixed + 1
          PROVE  board'[conductor.filed[k]].deps = board[conductor.filed[k]].deps
      <4>1. k # conductor.fixed + 1
        BY <2>t, <3>3
      <4>q. QED BY <2>t, <2>3, <3>1, <3>2, <4>1
    <3>q. QED BY <2>2, <2>3, <3>3
  <2>4. CASE conductor' = Doing("nothing")
    BY <1>2, <2>4 DEF Doing
  <2>q. QED BY <1>4, <2>1, <2>2, <2>3, <2>4, FilingCases
<1>5. CASE UNCHANGED conductor /\ SameDeps
  BY <1>1, <1>5 DEF TeamInv, WaveKept, BoardKept, SameDeps
<1>q. QED BY <1>1, <1>2, <1>3, <1>4, <1>5, Frames

-----------------------------------------------------------------------------
(* Active tasks *)

LEMMA ActiveStep ==
    ASSUME TeamInv, TeamNext
    PROVE  ActiveIsWorked'
<1>0. SUFFICES ASSUME run' = "active" PROVE ActiveIsWorked'
  BY DEF ActiveIsWorked
<1>r. run = "active"
  BY <1>0, Frames
<1>d. Unfinished = {t \in Ids : board[t].kind # "goal" /\ board[t].status = "active"}
  BY DEF Unfinished, OfKind
<1>e. Unfinished' = {t \in Ids' : board'[t].kind # "goal" /\ board'[t].status = "active"}
  BY DEF Unfinished, OfKind
<1>w. \A t \in Unfinished : \E s \in Slots : Live(s) /\ sessions[s].task = t
  BY <1>r DEF TeamInv, ActiveIsWorked
<1>1. NoneStarts \/ TickVerify \/ TickDispatch
  BY Effects
<1>2. CASE NoneStarts /\ UNCHANGED sessions
  BY <1>d, <1>e, <1>w, <1>2 DEF NoneStarts, ActiveIsWorked, Live
<1>3. ASSUME NEW t \in Ids, DepsDone(t), NEW m \in Members \cup {Verifier, Nobody}, StartSession(t, m)
      PROVE  ActiveIsWorked'
  <2>1. /\ \A s \in Slots : Live(s) => sessions'[s] = sessions[s]
        /\ \E s \in Slots : Live(s)' /\ sessions'[s].task = t
    BY <1>3, SessionStarts
  <2>2. SetTaskStatus(t, "active")
    BY <1>3 DEF StartSession
  <2>3. Ids' = Ids /\ \A u \in Ids : u # t => board'[u].status = board[u].status
    BY <2>2, InvFacts, MoveKept DEF Statuses
  <2>4. \A u \in Ids : board'[u].kind = board[u].kind
    BY Effects DEF BoardKept
  <2>5. \A u \in Unfinished' : u \in Unfinished \/ u = t
    BY <1>d, <1>e, <2>3, <2>4
  <2>q. QED BY <1>w, <2>1, <2>5 DEF ActiveIsWorked, Live
<1>4. CASE TickVerify
  <2>1. tick.task \in OfKind("verify")
    BY <1>4 DEF TickVerify, TeamInv, TickKept
  <2>2. tick.task \in Ids /\ DepsDone(tick.task)
    BY <2>1 DEF TeamInv, TeamTypeOK, OfKind, DepsDone
  <2>3. CASE UNCHANGED <<board, sessions>>
    BY <1>2, <2>3, InvFacts, SameBoard
  <2>q. QED BY <1>3, <1>4, <2>2, <2>3 DEF TickVerify
<1>5. CASE TickDispatch
  <2>1. tick.at = "dispatch"
    BY <1>5 DEF TickDispatch
  <2>2. \A t \in DOMAIN tick.todo : t \in Ids /\ DepsDone(t)
    BY <2>1 DEF TeamInv, TickKept
  <2>3. DOMAIN tick.todo \in SUBSET Nat
    BY <2>2, InvFacts
  <2>4. CASE /\ DOMAIN tick.todo # {}
             /\ StartSession(Min(DOMAIN tick.todo), board[Min(DOMAIN tick.todo)].owner)
    <3>1. PICK t \in Ids : t = Min(DOMAIN tick.todo) /\ DepsDone(t)
      BY <2>2, <2>3, <2>4, MinIn
    <3>2. board[t] \in Tasks
      BY InvFacts DEF Ids
    <3>3. board[t].owner \in Members \cup {Verifier, Nobody}
      BY <3>2 DEF Tasks
    <3>q. QED BY <1>3, <2>4, <3>1, <3>3
  <2>5. CASE UNCHANGED <<board, sessions>>
    BY <1>2, <2>5, InvFacts, SameBoard
  <2>q. QED BY <1>5, <2>4, <2>5 DEF TickDispatch
<1>6. CASE CrashAndResume
  <2>1. board' = [t \in Ids |-> IF t \in Unfinished THEN [board[t] EXCEPT !.status = "ready"]
                                ELSE board[t]]
    BY <1>6, <1>r DEF CrashAndResume
  <2>2. /\ Unfinished \in SUBSET Ids /\ "ready" \in Statuses \ {"active"}
        /\ \A t \in Unfinished : board[t].status \notin {"done", "cancelled"}
    BY <1>d DEF Statuses
  <2>3. /\ Ids' = Ids /\ BoardKept
        /\ \A t \in Ids : board'[t].status = IF t \in Unfinished THEN "ready" ELSE board[t].status
    BY <2>1, <2>2, InvFacts, StatusesKept
  <2>4. Unfinished' = {}
    BY <1>d, <1>e, <2>3 DEF BoardKept
  <2>q. QED BY <2>4 DEF ActiveIsWorked
<1>7. ASSUME NEW s \in Slots, sessions' = [sessions EXCEPT ![s] = NoSession], Live(s),
             NoneStarts, sessions[s].task \notin Unfinished'
      PROVE  ActiveIsWorked'
  <2>1. \A r \in Slots : r # s => sessions'[r] = sessions[r]
    BY <1>7, SessionMoves
  <2>2. \A t \in Unfinished' : t \in Unfinished /\ t # sessions[s].task
    BY <1>d, <1>e, <1>7 DEF NoneStarts
  <2>q. QED BY <1>w, <2>1, <2>2 DEF ActiveIsWorked, Live
<1>8. ASSUME NEW s \in Slots, NEW at \in {"assemble", "turn", "nudge"},
             sessions' = [sessions EXCEPT ![s].at = at], Live(s), NoneStarts
      PROVE  ActiveIsWorked'
  <2>1. sessions \in [Slots -> Session \cup {NoSession}] /\ sessions[s] \in Session
    BY <1>8, InvFacts DEF TeamInv, SessionsKept
  <2>2. \A r \in Slots : Live(r) => sessions'[r].at # "none" /\ sessions'[r].task = sessions[r].task
    BY <1>8, <2>1 DEF Session, Live
  <2>q. QED BY <1>d, <1>e, <1>w, <1>8, <2>2 DEF ActiveIsWorked, Live, NoneStarts
<1>9. ASSUME NEW s \in Slots, Assemble(s)
      PROVE  ActiveIsWorked'
  <2>1. sessions' = [sessions EXCEPT ![s].at = "turn"] /\ Live(s) /\ UNCHANGED board
    BY <1>9 DEF Assemble, At, Live, boardVars
  <2>2. NoneStarts
    BY <2>1, InvFacts, SameBoard
  <2>q. QED BY <1>8, <2>1, <2>2
<1>10. ASSUME NEW s \in Slots, FirstTurnEnds(s)
       PROVE  ActiveIsWorked'
  <2>1. Live(s) /\ sessions[s].task \in Ids
    BY <1>10, InvFacts DEF FirstTurnEnds, Live
  <2>2. CASE SetTaskStatus(sessions[s].task, "blocked") /\ EndSession(s)
    <3>1. NoneStarts /\ board'[sessions[s].task].status = "blocked"
      BY <2>1, <2>2, InvFacts, MoveKept DEF Statuses
    <3>q. QED BY <1>e, <1>7, <2>1, <2>2, <3>1 DEF EndSession
  <2>3. CASE At(s, "nudge") /\ UNCHANGED board
    <3>1. NoneStarts
      BY <2>3, InvFacts, SameBoard
    <3>q. QED BY <1>8, <2>1, <2>3, <3>1 DEF At
  <2>q. QED BY <1>10, <2>2, <2>3 DEF FirstTurnEnds
<1>11. ASSUME NEW s \in Slots, SessionOver(s)
       PROVE  ActiveIsWorked'
  <2>1. Live(s) /\ sessions[s].task \in Ids /\ sessions' = [sessions EXCEPT ![s] = NoSession]
    BY <1>11, InvFacts DEF SessionOver, EndSession
  <2>2. CASE SetTaskStatus(sessions[s].task, "failed")
    <3>1. NoneStarts /\ board'[sessions[s].task].status = "failed"
      BY <2>1, <2>2, InvFacts, MoveKept DEF Statuses
    <3>q. QED BY <1>e, <1>7, <2>1, <3>1
  <2>3. CASE board[sessions[s].task].status # "active" /\ UNCHANGED board
    <3>1. NoneStarts
      BY <2>3, InvFacts, SameBoard
    <3>q. QED BY <1>e, <1>7, <2>1, <2>3, <3>1
  <2>q. QED BY <1>11, <2>2, <2>3 DEF SessionOver
<1>q. QED BY <1>1, <1>2, <1>4, <1>5, <1>6, <1>9, <1>10, <1>11, Frames

-----------------------------------------------------------------------------
(* A look at the board is on its way *)

\* A tick that was asked for covers the board.
LEMMA DueCovers ==
    ASSUME TeamInv, TickSoon
    PROVE  Covered'
BY SoonTyped DEF TeamInv, TeamTypeOK, Covered

\* Nothing the cover depends on has changed.
LEMMA CoverFrame ==
    ASSUME UNCHANGED <<board, pending, posts, conductor, sessions, awaiting, run, due>>
    PROVE  Covered' <=> Covered
BY DEF Covered, HasGoal, OfKind, Ids, Live

\* Of the steps that are not a tick's, those that touch the board leave it
\* covered, and so does every step while it is covered.
LEMMA OthersCover ==
    ASSUME TeamInv, TeamNext
    PROVE  \/ Covered'
           \/ ~Covered /\ UNCHANGED <<board, tick>>
           \/ TickStart \/ TickUnblock \/ TickLook \/ TickVerify \/ TickDispatch
           \/ TickWake \/ TickDeliver
<1>k. ASSUME NEW s \in Slots, Live(s)'
      PROVE  Covered'
  BY <1>k DEF Covered
<1>1. CASE TickFile
  BY <1>1, DueCovers DEF TickFile
<1>2. CASE TickFail
  BY <1>2 DEF TickFail, FailRun, Covered
<1>3. CASE WakeRetry
  <2>1. CASE run' = "failed"
    BY <2>1 DEF Covered
  <2>2. CASE run # "active" /\ UNCHANGED run
    BY <2>2 DEF Covered
  <2>3. CASE conductor' = TurnBy("kernel")
    BY <2>3 DEF Covered, TurnBy
  <2>q. QED BY <1>3, <2>1, <2>2, <2>3 DEF WakeRetry, FailRun
<1>4. ASSUME NEW s \in Slots, Assemble(s)
      PROVE  Covered'
  <2>1. Live(s) /\ sessions' = [sessions EXCEPT ![s].at = "turn"]
    BY <1>4 DEF Assemble, At, Live
  <2>2. sessions \in [Slots -> Session \cup {NoSession}] /\ sessions[s] \in Session
    BY <2>1, InvFacts DEF TeamInv, SessionsKept
  <2>3. Live(s)'
    BY <2>1, <2>2 DEF Live, Session
  <2>q. QED BY <1>k, <2>3
<1>5. ASSUME NEW s \in Slots, MemberActs(s)
      PROVE  Covered'
  BY <1>5, DueCovers DEF MemberActs, OnBoardChange
<1>6. ASSUME NEW s \in Slots, FirstTurnEnds(s)
      PROVE  Covered'
  <2>1. CASE EndSession(s)
    BY <2>1, DueCovers DEF EndSession
  <2>2. CASE At(s, "nudge")
    <3>1. Live(s) /\ sessions' = [sessions EXCEPT ![s].at = "nudge"]
      BY <1>6, <2>2 DEF FirstTurnEnds, At, Live
    <3>2. sessions \in [Slots -> Session \cup {NoSession}] /\ sessions[s] \in Session
      BY <3>1, InvFacts DEF TeamInv, SessionsKept
    <3>3. Live(s)'
      BY <3>1, <3>2 DEF Live, Session
    <3>q. QED BY <1>k, <3>3
  <2>q. QED BY <1>6, <2>1, <2>2 DEF FirstTurnEnds
<1>7. ASSUME NEW s \in Slots, SessionOver(s)
      PROVE  Covered'
  BY <1>7, DueCovers DEF SessionOver, EndSession
<1>8. CASE Overspend
  BY <1>8, CoverFrame DEF Overspend, tickVars, wakeVars, turnVars, workVars
<1>9. CASE UserTurn
  <2>1. /\ conductor.by # "kernel" /\ conductor.doing # "filing"
        /\ UNCHANGED <<board, tick, due, pending, posts, sessions, run>>
        /\ awaiting # "no" => awaiting' # "no"
    BY <1>9 DEF UserTurn, NoTurn, TurnBy, boardVars, tickVars, workVars
  <2>2. Covered => Covered'
    BY <2>1 DEF Covered, HasGoal, OfKind, Ids, Live
  <2>q. QED BY <2>1, <2>2
<1>10. CASE ConductorWrites
  BY <1>10, DueCovers DEF ConductorWrites, OnBoardChange
<1>11. CASE SetBudget
  BY <1>11, DueCovers DEF SetBudget, OnBoardChange
<1>12. CASE AskUser
  BY <1>12 DEF AskUser, Covered
<1>13. CASE FileTasks
  BY <1>13 DEF FileTasks, Filing, Covered
<1>14. CASE FilingStep
  <2>1. CASE conductor'.doing = "filing"
    BY <2>1 DEF Covered
  <2>2. CASE OnBoardChange
    BY <2>2, DueCovers DEF OnBoardChange
  <2>q. QED BY <1>14, <2>1, <2>2 DEF FilingStep, Filing
<1>15. CASE FinishCheck
  <2>1. /\ conductor.doing # "filing" /\ conductor'.by = conductor.by
        /\ UNCHANGED <<board, tick, due, pending, posts, sessions, run, awaiting>>
    BY <1>15 DEF FinishCheck, Thinking, Doing, boardVars, tickVars, wakeVars, workVars
  <2>2. Covered => Covered'
    BY <2>1 DEF Covered, HasGoal, OfKind, Ids, Live
  <2>q. QED BY <2>1, <2>2
<1>16. CASE FinishWrite
  BY <1>16, DueCovers DEF FinishWrite, OnBoardChange
<1>17. CASE ConductorEnds
  <2>1. CASE conductor.by # "user"
    <3>1. posts' # {}
      BY <1>17, <2>1 DEF ConductorEnds
    <3>q. QED BY <3>1 DEF Covered
  <2>2. CASE conductor.by = "user"
    <3>1. /\ conductor.by # "kernel" /\ conductor.doing # "filing"
          /\ UNCHANGED <<board, tick, due, pending, posts, sessions, run, awaiting>>
      BY <1>17, <2>2 DEF ConductorEnds, Thinking, boardVars, tickVars, wakeVars, workVars
    <3>2. Covered => Covered'
      BY <3>1 DEF Covered, HasGoal, OfKind, Ids, Live
    <3>q. QED BY <3>1, <3>2
  <2>q. QED BY <2>1, <2>2
<1>18. CASE AfterWake
  BY <1>18, DueCovers DEF AfterWake
<1>19. CASE SweepReply
  BY <1>19, DueCovers DEF SweepReply
<1>20. CASE SweepList
  BY <1>20, CoverFrame DEF SweepList, boardVars, tickVars, wakeVars, turnVars, workVars
<1>21. CASE SweepTask
  <2>1. CASE TickSoon
    BY <2>1, DueCovers
  <2>2. CASE UNCHANGED <<board, due>>
    BY <1>21, <2>2, CoverFrame DEF SweepTask, wakeVars, turnVars
  <2>q. QED BY <1>21, <2>1, <2>2 DEF SweepTask
<1>22. CASE CancelRun
  BY <1>22 DEF CancelRun, Covered
<1>23. CASE CrashAndResume
  BY <1>23 DEF CrashAndResume, Covered
<1>q. QED BY <1>1, <1>2, <1>3, <1>4, <1>5, <1>6, <1>7, <1>8, <1>9, <1>10, <1>11, <1>12, <1>13,
             <1>14, <1>15, <1>16, <1>17, <1>18, <1>19, <1>20, <1>21, <1>22, <1>23 DEF TeamNext

\* Unblocking one task leaves the others to unblock.
LEMMA UnblockOne ==
    ASSUME TeamInv, NEW t \in Unblockable, SetTaskStatus(t, "ready")
    PROVE  /\ Unblockable' = Unblockable \ {t}
           /\ HasGoal' <=> HasGoal
<1>1. t \in Ids /\ board[t].status = "blocked"
  BY DEF Unblockable
<1>2. /\ BoardKept /\ Ids' = Ids /\ board'[t].status = "ready"
      /\ \A u \in Ids : u # t => board'[u].status = board[u].status
      /\ \A u \in Ids : board'[u].parent = board[u].parent
  BY <1>1, InvFacts, MoveKept DEF Statuses
<1>3. \A u \in Ids : board'[u].kind = board[u].kind
  BY <1>2 DEF BoardKept
<1>4. \A u \in Ids : Open(u)' <=> Open(u)
  BY <1>1, <1>2 DEF Open, OpenStatuses
<1>5. ASSUME NEW u \in Ids
      PROVE  OpenQuestions(u)' = OpenQuestions(u)
  BY <1>2, <1>3, <1>4 DEF OpenQuestions, OfKind
<1>q. QED BY <1>1, <1>2, <1>3, <1>5 DEF Unblockable, HasGoal, OfKind

LEMMA LookStep ==
    ASSUME TeamInv, TeamNext
    PROVE  LookKept'
<1>l. LookKept
  BY DEF TeamInv
<1>c. CASE Covered'
  BY <1>c DEF LookKept
<1>s. ASSUME NEW t, NEW m, StartSession(t, m)
      PROVE  Covered'
  <2>1. PICK s \in FreeSlots :
           sessions' = [sessions EXCEPT ![s] = [at |-> "assemble", task |-> t, member |-> m]]
    BY <1>s DEF StartSession
  <2>2. s \in Slots /\ sessions'[s].at = "assemble"
    BY <2>1 DEF FreeSlots, TeamInv, SessionsKept
  <2>q. QED BY <2>2 DEF Covered, Live
<1>1. CASE ~Covered /\ UNCHANGED <<board, tick>>
  <2>1. /\ Actionable' <=> Actionable
        /\ Unblockable' = Unblockable /\ ReadyVerifies' = ReadyVerifies
    BY <1>1 DEF Actionable, Unblockable, ReadyVerifies, Candidates, Reasons, BoardSettled, NeedsVerify,
                Judgments, DoneWork, VerifiedClean, OpenQuestions, Open, Settled, OfKind, Ids
  <2>q. QED BY <1>l, <1>1, <2>1 DEF LookKept
<1>2. CASE TickStart
  <2>1. /\ run' = run /\ board' = board
        /\ tick' = IF run = "active" /\ HasGoal THEN Unblocking(Unblockable, over) ELSE Idle
    BY <1>2 DEF TickStart, boardVars
  <2>2. CASE run = "active" /\ HasGoal
    <3>1. Unblockable' = Unblockable
      BY <2>1 DEF Unblockable, OpenQuestions, Open, OfKind, Ids
    <3>2. tick'.at = "unblock" /\ tick'.todo = Unblockable
      BY <2>1, <2>2 DEF Unblocking
    <3>q. QED BY <2>1, <3>1, <3>2 DEF LookKept
  <2>3. CASE run # "active" \/ ~HasGoal
    <3>1. Covered'
      BY <2>1, <2>3 DEF Covered, HasGoal, OfKind, Ids
    <3>q. QED BY <1>c, <3>1
  <2>q. QED BY <2>2, <2>3
<1>3. CASE TickUnblock
  <2>1. /\ tick.at = "unblock" /\ tick.todo # {}
        /\ UNCHANGED <<due, pending, posts, conductor, sessions, awaiting, run>>
    BY <1>3 DEF TickUnblock, wakeVars, turnVars, workVars
  <2>2. tick.todo \subseteq Ids /\ tick.todo \in SUBSET Nat
    BY <2>1, InvFacts DEF TeamInv, TickKept
  <2>3. PICK t \in tick.todo : t = Min(tick.todo)
    BY <2>1, <2>2, MinIn
  <2>4. CASE Covered
    <3>1. Ids' = Ids /\ \A u \in Ids : board'[u].kind = board[u].kind
      <4>1. SetTaskStatus(t, "ready") \/ UNCHANGED board
        BY <1>3, <2>3 DEF TickUnblock
      <4>2. CASE SetTaskStatus(t, "ready")
        BY <2>2, <4>2, InvFacts, MoveKept DEF Statuses, BoardKept
      <4>q. QED BY <4>1, <4>2 DEF Ids
    <3>2. Covered'
      BY <2>1, <2>4, <3>1 DEF Covered, HasGoal, OfKind, Live
    <3>q. QED BY <1>c, <3>2
  <2>5. CASE ~Covered
    <3>1. tick.todo = Unblockable
      BY <1>l, <2>1, <2>5 DEF LookKept
    <3>2. t \in Unblockable /\ MayMove(t, "ready")
      BY <2>3, <3>1 DEF Unblockable, MayMove, Transitions
    <3>3. SetTaskStatus(t, "ready") /\ tick' = Unblocking(tick.todo \ {t}, tick.over)
      BY <1>3, <2>3, <3>2 DEF TickUnblock
    <3>4. Unblockable' = Unblockable \ {t}
      BY <3>2, <3>3, UnblockOne
    <3>5. tick'.at = "unblock" /\ tick'.todo = Unblockable'
      BY <3>1, <3>3, <3>4 DEF Unblocking
    <3>q. QED BY <3>5 DEF LookKept
  <2>q. QED BY <2>4, <2>5
<1>4. CASE TickLook
  <2>1. /\ tick.at = "unblock" /\ tick.todo = {}
        /\ run = "active" \/ Covered
        /\ UNCHANGED <<board, due, pending, posts, conductor, sessions, awaiting, run>>
    BY <1>4 DEF Covered, TickLook, boardVars, wakeVars, turnVars, workVars
  <2>2. Covered' <=> Covered
    BY <2>1, CoverFrame
  <2>3. CASE Covered
    BY <1>c, <2>2, <2>3
  <2>4. CASE ~Covered
    <3>1. Unblockable = {}
      BY <1>l, <2>1, <2>4 DEF LookKept
    <3>2. ActiveWork = {}
      <4>1. ASSUME NEW t \in ActiveWork
            PROVE  FALSE
        <5>1. t \in Unfinished
          BY DEF ActiveWork, Unfinished, OfKind
        <5>2. \E s \in Slots : Live(s)
          BY <2>1, <2>4, <5>1 DEF TeamInv, ActiveIsWorked
        <5>q. QED BY <2>4, <5>2 DEF Covered
      <4>q. QED BY <4>1
    <3>3. CASE tick' = [at |-> "wake", reasons |-> {"budget-exceeded"}]
      BY <3>3 DEF LookKept
    <3>4. CASE ReadyVerifies # {} /\ tick' = [at |-> "verify", task |-> Min(ReadyVerifies)]
      <4>1. ReadyVerifies \in SUBSET Nat
        BY InvFacts DEF ReadyVerifies, OfKind
      <4>2. Min(ReadyVerifies) \in ReadyVerifies
        BY <3>4, <4>1, MinIn
      <4>3. ReadyVerifies' = ReadyVerifies
        BY <2>1 DEF ReadyVerifies, OfKind, Ids
      <4>q. QED BY <3>4, <4>2, <4>3 DEF LookKept
    <3>5. CASE /\ Candidates \cup ActiveWork # {}
               /\ tick' = Dispatching([t \in Candidates |-> board[t].owner],
                                      {board[t].owner : t \in ActiveWork}, Cardinality(ActiveWork))
      <4>1. Cardinality(ActiveWork) = 0
        BY <3>2, FS_EmptySet
      <4>2. tick'.at = "dispatch" /\ DOMAIN tick'.todo = Candidates /\ tick'.count = 0
        BY <3>5, <4>1 DEF Dispatching
      <4>3. Candidates # {} /\ \A t \in Candidates : board'[t].status = "ready"
        BY <2>1, <3>2, <3>5 DEF Candidates
      <4>q. QED BY <4>2, <4>3 DEF LookKept
    <3>6. CASE tick' = [at |-> "file"] \/ tick' = [at |-> "wake", reasons |-> Reasons]
      BY <3>6 DEF LookKept
    <3>7. CASE /\ ReadyVerifies = {} /\ Candidates \cup ActiveWork = {}
               /\ Reasons = {} /\ tick' = Idle
      <4>1. ~Actionable
        BY <3>1, <3>7 DEF Actionable
      <4>2. Actionable' <=> Actionable
        BY <2>1 DEF Actionable, Unblockable, ReadyVerifies, Candidates, Reasons, BoardSettled,
                    NeedsVerify, Judgments, DoneWork, VerifiedClean, OpenQuestions, Open, Settled,
                    OfKind, Ids
      <4>3. tick'.at = "idle"
        BY <3>7 DEF Idle
      <4>q. QED BY <4>1, <4>2, <4>3 DEF LookKept
    <3>q. QED BY <1>4, <3>3, <3>4, <3>5, <3>6, <3>7 DEF TickLook
  <2>q. QED BY <2>3, <2>4
<1>5. CASE TickVerify
  <2>1. CASE StartSession(tick.task, Verifier)
    BY <1>c, <1>s, <2>1
  <2>2. CASE ~MayMove(tick.task, "active") /\ UNCHANGED <<board, sessions>>
    <3>1. Covered' <=> Covered
      BY <1>5, <2>2, CoverFrame DEF TickVerify, wakeVars, turnVars
    <3>2. Covered
      <4>1. ASSUME ~Covered
            PROVE  FALSE
        <5>1. board[tick.task].status = "ready"
          BY <1>l, <1>5, <4>1 DEF LookKept, TickVerify, ReadyVerifies
        <5>q. QED BY <2>2, <5>1 DEF MayMove, Transitions
      <4>q. QED BY <4>1
    <3>q. QED BY <1>c, <3>1, <3>2
  <2>q. QED BY <1>5, <2>1, <2>2 DEF TickVerify
<1>6. CASE TickDispatch
  <2>1. CASE \E t, m : StartSession(t, m)
    BY <1>c, <1>s, <2>1
  <2>2. CASE ~\E t, m : StartSession(t, m)
    <3>1. UNCHANGED <<board, sessions, due, pending, posts, conductor, awaiting, run>>
      BY <1>6, <2>2 DEF TickDispatch, wakeVars, turnVars
    <3>2. Covered' <=> Covered
      BY <3>1, CoverFrame
    <3>3. Covered
      <4>1. ASSUME ~Covered
            PROVE  FALSE
        <5>1. /\ tick.count = 0 /\ DOMAIN tick.todo # {}
              /\ \A t \in DOMAIN tick.todo : board[t].status = "ready"
          BY <1>l, <1>6, <4>1 DEF LookKept, TickDispatch
        <5>2. DOMAIN tick.todo \in SUBSET Nat
          BY <1>6, InvFacts DEF TeamInv, TickKept, TickDispatch
        <5>3. PICK t \in DOMAIN tick.todo : t = Min(DOMAIN tick.todo)
          BY <5>1, <5>2, MinIn
        <5>4. MayMove(t, "active")
          BY <5>1, <5>3 DEF MayMove, Transitions
        <5>5. ~(tick.count >= MaxConcurrent) /\ tick.count \notin 1..(MaxConcurrent - 1)
          BY <5>1, SchedulerAssumption
        <5>q. QED BY <1>6, <2>2, <5>1, <5>3, <5>4, <5>5 DEF TickDispatch
      <4>q. QED BY <4>1
    <3>q. QED BY <1>c, <3>2, <3>3
  <2>q. QED BY <2>1, <2>2
<1>7. CASE TickWake
  <2>1. CASE tick' = [at |-> "fail"] \/ tick' = [at |-> "deliver"]
    BY <2>1 DEF LookKept
  <2>2. CASE awaiting # "no" /\ awaiting' = awaiting
    BY <1>c, <2>2 DEF Covered
  <2>3. CASE pending' = TRUE
    BY <1>c, <2>3 DEF Covered
  <2>4. \/ tick' = [at |-> "fail"] \/ tick' = [at |-> "deliver"]
        \/ awaiting # "no" /\ awaiting' = awaiting
        \/ pending' = TRUE
    BY <1>7, Zenon DEF TickWake
  <2>q. QED BY <2>1, <2>2, <2>3, <2>4
<1>8. CASE TickDeliver
  <2>1. CASE conductor' = TurnBy("kernel")
    BY <1>c, <2>1 DEF Covered, TurnBy
  <2>2. CASE pending' = TRUE
    BY <1>c, <2>2 DEF Covered
  <2>3. CASE tick' = [at |-> "fail"]
    BY <2>3 DEF LookKept
  <2>q. QED BY <1>8, <2>1, <2>2, <2>3 DEF TickDeliver
<1>q. QED BY <1>c, <1>1, <1>2, <1>3, <1>4, <1>5, <1>6, <1>7, <1>8, OthersCover

-----------------------------------------------------------------------------
(* Theorems *)

LEMMA TeamInitInv ==
    ASSUME TeamInit
    PROVE  TeamInv
<1>1. board = <<>> /\ Ids = {}
  BY DEF TeamInit, Ids
<1>2. TeamTypeOK
  BY <1>1 DEF TeamInit, TeamTypeOK, OfKind
<1>3. SessionsKept /\ \A s \in Slots : ~Live(s)
  BY DEF TeamInit, SessionsKept, Live, NoSession
<1>4. TickKept /\ WaveKept
  BY DEF TeamInit, TickKept, WaveKept, Idle, NoTurn, TurnBy
<1>5. ActiveIsWorked
  BY <1>1 DEF ActiveIsWorked, Unfinished
<1>6. LookKept
  BY <1>1 DEF LookKept, Covered, HasGoal, OfKind
<1>q. QED BY <1>2, <1>3, <1>4, <1>5, <1>6 DEF TeamInv

LEMMA TeamStutters ==
    ASSUME TeamInv, UNCHANGED teamVars
    PROVE  TeamInv'
<1>1. UNCHANGED <<board, sessions, tick, conductor, due, sweep, pending, posts, awaiting, run>>
  BY DEF teamVars, boardVars, tickVars, wakeVars, turnVars, workVars, faultVars
<1>2. BoardKept /\ SameDeps /\ NoneStarts
  BY <1>1, InvFacts, SameBoard
<1>3. TeamTypeOK' /\ ActiveIsWorked'
  BY <1>1 DEF TeamInv, TeamTypeOK, ActiveIsWorked, Unfinished, OfKind, Ids, Live
<1>4. SessionsKept'
  BY <1>1, <1>2, SessionsStep DEF TeamInv, SessionsKept, Live
<1>5. TickKept'
  BY <1>1 DEF TeamInv, TickKept, OfKind, Ids, DepsDone, Settled
<1>6. WaveKept'
  BY <1>1 DEF TeamInv, WaveKept, Ids
<1>7. LookKept'
  <2>1. Covered' <=> Covered
    BY <1>1, CoverFrame
  <2>2. /\ Actionable' <=> Actionable
        /\ Unblockable' = Unblockable /\ ReadyVerifies' = ReadyVerifies
    BY <1>1 DEF Actionable, Unblockable, ReadyVerifies, Candidates, Reasons, BoardSettled, NeedsVerify,
                Judgments, DoneWork, VerifiedClean, OpenQuestions, Open, Settled, OfKind, Ids
  <2>q. QED BY <1>1, <2>1, <2>2 DEF TeamInv, LookKept
<1>q. QED BY <1>3, <1>4, <1>5, <1>6, <1>7 DEF TeamInv

\* The invariant behind the three results below: the sessions, the tick under
\* way, the wave under way and the board agree (scheduler.ts, store.ts).
THEOREM TeamInvariant == TeamSpec => []TeamInv
<1>1. TeamInit => TeamInv
  BY TeamInitInv
<1>2. TeamInv /\ [TeamNext]_teamVars => TeamInv'
  BY TypesStep, DepsStep, TickStep, WaveStep, ActiveStep, LookStep, TeamStutters DEF TeamInv
<1>q. QED BY <1>1, <1>2, PTL DEF TeamSpec

\* No member works on a task before what it depends on is settled, however the
\* filing of a wave and the ticks interleave (file_tasks, tickOnce).
THEOREM DependenciesTheorem == TeamSpec => []DependenciesFirst
<1>1. TeamInv => DependenciesFirst
  BY DEF TeamInv, SessionsKept, DependenciesFirst, DepsDone
<1>q. QED BY <1>1, TeamInvariant, PTL

\* As long as the run is active, a task that stands as active has a session at
\* work on it, through sweeps, failures, aborts and restarts (runMemberTask,
\* sweepOnce, resumeRun).
THEOREM ActiveTheorem == TeamSpec => []ActiveIsWorked
<1>1. TeamInv => ActiveIsWorked
  BY DEF TeamInv
<1>q. QED BY <1>1, TeamInvariant, PTL

\* An active run never goes quiet over a board that needs attention, unless its
\* conductor waits for its user (tickSoon, requestWake, scheduleWakeRetry).
THEOREM WakeupTheorem == TeamSpec => []NoLostWakeup
<1>1. TeamInv => NoLostWakeup
  <2>1. ASSUME TeamInv, ~SomethingComes, run = "active", HasGoal, Actionable, awaiting = "no"
        PROVE  FALSE
    <3>1. tick.at = "idle" /\ conductor = NoTurn /\ due \in Nat
      BY <2>1 DEF SomethingComes, Idle, TeamInv, TeamTypeOK
    <3>2. ~Covered
      BY <2>1, <3>1 DEF SomethingComes, Covered, NoTurn, TurnBy
    <3>q. QED BY <2>1, <3>1, <3>2 DEF TeamInv, LookKept
  <2>q. QED BY <2>1 DEF NoLostWakeup
<1>q. QED BY <1>1, TeamInvariant, PTL
=============================================================================
