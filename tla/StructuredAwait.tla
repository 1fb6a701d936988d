---------------------------- MODULE StructuredAwait ----------------------------
(***************************************************************************)
(* The Structured Await reducer of                                         *)
(* galerina-core-runtime/src/structured-await.ts, together with the host   *)
(* that drives it.                                                         *)
(*                                                                         *)
(* The reducer is pure: a state and an event give a new state and          *)
(* commands (start a task, cancel a task, announce the outcome), or a      *)
(* refusal that changes nothing.  The host keeps the latest state, feeds   *)
(* it one event at a time, and carries out the commands at once; tasks     *)
(* report in any order, the clock may jump, and the caller may cancel at   *)
(* any moment.  Events the reducer refuses (a task that is not running,    *)
(* time that runs backwards, anything after the outcome, a cancel while    *)
(* cancelling) are stuttering.                                             *)
(*                                                                         *)
(* Tasks are named by their position in the plan.                          *)
(***************************************************************************)
EXTENDS Integers, FiniteSets, Sequences

CONSTANTS
    Plans,        \* the plans callers submit
    MaxElapsed    \* the clock stops here

VARIABLES
    plan,         \* state.plan
    elapsedMs,    \* state.elapsedMs
    scopeStatus,  \* state.scopeStatus
    terminalIntent,   \* state.terminalIntent
    terminalTaskId,   \* state.terminalTaskId
    tasks,        \* state.tasks, as status by position
    alive,        \* host: the tasks it started that have not reported
    asked,        \* host: the tasks it was told to cancel
    announced     \* host: the outcomes it was told to announce, in order

state == <<plan, elapsedMs, scopeStatus, terminalIntent, terminalTaskId, tasks>>
vars == <<state, alive, asked, announced>>

Completion == {"all_cancel_remaining", "all_wait_for_all", "first_success",
               "first_result"}
Outcome == {"succeeded", "failed", "timed_out", "cancelled"}
TaskStatus == {"pending", "running", "succeeded", "failed", "cancelled"}
Reported == {"succeeded", "failed", "cancelled"}

(* undefined in the code                                                   *)
NoIntent == "undecided"
NoTask == 0

Plan == [size : Nat \ {0}, timeoutMs : Nat \ {0}, maxInFlight : Nat \ {0},
         completion : Completion]

(* What plan admission guarantees of the numbers.                          *)
Admitted(p) == p \in Plan /\ p.maxInFlight =< p.size

ASSUME PlansAssumption == \A p \in Plans : Admitted(p)
ASSUME MaxElapsedAssumption == MaxElapsed \in Nat

In(ts, status) == {i \in DOMAIN ts : ts[i] = status}

RunningCount(ts) == Cardinality(In(ts, "running"))

AllTasksTerminal(ts) == In(ts, "pending") = {} /\ In(ts, "running") = {}

(* Mutant: one task too many is started.                                   *)
FillCapacityOver(ts, maxInFlight) ==
    [i \in DOMAIN ts |->
        IF /\ ts[i] = "pending"
           /\ RunningCount(ts) + Cardinality({j \in In(ts, "pending") : j < i})
                  =< maxInFlight
        THEN "running" ELSE ts[i]]

(* Pending tasks are started in plan order while there is room.            *)
FillCapacity(ts, maxInFlight) ==
    [i \in DOMAIN ts |->
        IF /\ ts[i] = "pending"
           /\ RunningCount(ts) + Cardinality({j \in In(ts, "pending") : j < i})
                  < maxInFlight
        THEN "running" ELSE ts[i]]

(* Mutant: what has not started waits on.                                  *)
KeepPending(ts) == ts

(* The statuses once cancellation begins: what never started never will.   *)
DropPending(ts) ==
    [i \in DOMAIN ts |-> IF ts[i] = "pending" THEN "cancelled" ELSE ts[i]]

IsTerminalScope(status) == status \in Outcome

-----------------------------------------------------------------------------
(* The parts every handler ends with.  ts is the working copy of the       *)
(* statuses, now the event's elapsed time, still the tasks that are alive  *)
(* once the event has been delivered.                                      *)

(* Keep running, starting whatever fits.                                   *)
ContinueRunning(ts, now, still) ==
    /\ tasks' = FillCapacity(ts, plan.maxInFlight)
    /\ alive' = still \cup (In(tasks', "running") \ In(ts, "running"))
    /\ elapsedMs' = now
    /\ UNCHANGED <<plan, scopeStatus, terminalIntent, terminalTaskId, asked,
                   announced>>

(* Every task is over: the outcome is announced in the same step.          *)
Finish(ts, now, still, outcome) ==
    /\ tasks' = ts
    /\ alive' = still
    /\ elapsedMs' = now
    /\ scopeStatus' = outcome
    /\ terminalIntent' = outcome
    /\ announced' = Append(announced, outcome)
    /\ UNCHANGED <<plan, terminalTaskId, asked>>

(* Mutant: the outcome is announced without waiting for running tasks.     *)
BeginCancellationAtOnce(ts, now, still, intent, task) ==
    /\ tasks' = DropPending(ts)
    /\ alive' = still
    /\ asked' = asked \cup In(ts, "running")
    /\ elapsedMs' = now
    /\ terminalIntent' = intent
    /\ terminalTaskId' = task
    /\ scopeStatus' = intent
    /\ announced' = Append(announced, intent)
    /\ UNCHANGED plan

(* The outcome is decided: pending tasks are dropped, running ones are     *)
(* told to stop, and the announcement waits for the last of them.          *)
BeginCancellation(ts, now, still, intent, task) ==
    /\ tasks' = DropPending(ts)
    /\ alive' = still
    /\ asked' = asked \cup In(ts, "running")
    /\ elapsedMs' = now
    /\ terminalIntent' = intent
    /\ terminalTaskId' = task
    /\ IF RunningCount(ts) = 0
       THEN scopeStatus' = intent /\ announced' = Append(announced, intent)
       ELSE scopeStatus' = "cancelling" /\ UNCHANGED announced
    /\ UNCHANGED plan

-----------------------------------------------------------------------------
(* The events.                                                             *)

Init ==
    /\ plan \in Plans
    /\ elapsedMs = 0
    /\ scopeStatus = "running"
    /\ terminalIntent = NoIntent
    /\ terminalTaskId = NoTask
    /\ tasks = FillCapacity([i \in 1 .. plan.size |-> "pending"], plan.maxInFlight)
    /\ alive = In(tasks, "running")
    /\ asked = {}
    /\ announced = << >>

Now == elapsedMs .. MaxElapsed

(* Mutant: the deadline itself is still in time.                           *)
TimedOutAfter(now) == now > plan.timeoutMs

TimedOut(now) == now >= plan.timeoutMs

(* Mutant: the clock moves but the deadline is never looked at.            *)
TickOnly(now) ==
    /\ ~IsTerminalScope(scopeStatus)
    /\ elapsedMs' = now
    /\ UNCHANGED <<plan, scopeStatus, terminalIntent, terminalTaskId, tasks,
                   alive, asked, announced>>

Tick(now) ==
    /\ ~IsTerminalScope(scopeStatus)
    /\ IF scopeStatus = "running" /\ TimedOut(now)
       THEN BeginCancellation(tasks, now, alive, "timed_out", NoTask)
       ELSE /\ elapsedMs' = now
            /\ UNCHANGED <<plan, scopeStatus, terminalIntent, terminalTaskId, tasks,
                           alive, asked, announced>>

(* Mutant: a scope that is being cancelled takes another cancel.           *)
CancelAgain(now) ==
    /\ ~IsTerminalScope(scopeStatus)
    /\ BeginCancellation(tasks, now, alive,
                         IF TimedOut(now) THEN "timed_out" ELSE "cancelled", NoTask)

Cancel(now) ==
    /\ scopeStatus = "running"
    /\ BeginCancellation(tasks, now, alive,
                         IF TimedOut(now) THEN "timed_out" ELSE "cancelled", NoTask)

(* Mutant: any report decides a first_success scope.                       *)
DecidesAny(result) ==
    \/ plan.completion \in {"first_result", "first_success"}
    \/ plan.completion = "all_cancel_remaining" /\ result # "succeeded"

(* Whether a report decides a running scope, before the scope is complete. *)
Decides(result) ==
    \/ plan.completion = "first_result"
    \/ plan.completion = "first_success" /\ result = "succeeded"
    \/ plan.completion = "all_cancel_remaining" /\ result # "succeeded"

(* What a deciding report decides, and whether the report is its witness.  *)
Decided(result) == IF result = "succeeded" THEN "succeeded" ELSE "failed"

(* Mutant: the witness is counted from one instead of zero.                *)
WitnessOffByOne(task) ==
    IF plan.completion = "all_cancel_remaining" THEN NoTask ELSE task + 1

Witness(task) == IF plan.completion = "all_cancel_remaining" THEN NoTask ELSE task

RunningTaskEvent(task, result, now) ==
    /\ scopeStatus = "running"
    /\ tasks[task] = "running"
    /\ LET ts == [tasks EXCEPT ![task] = result]
           still == alive \ {task}
           filled == FillCapacity(ts, plan.maxInFlight) IN
       IF TimedOut(now) THEN BeginCancellation(ts, now, still, "timed_out", NoTask)
       ELSE IF Decides(result)
       THEN BeginCancellation(ts, now, still, Decided(result), Witness(task))
       ELSE IF ~AllTasksTerminal(filled) THEN ContinueRunning(ts, now, still)
       ELSE Finish(ts, now, still,
                   IF \E i \in DOMAIN ts : ts[i] \in {"failed", "cancelled"}
                   THEN "failed" ELSE "succeeded")

CancellingTaskEvent(task, result, now) ==
    /\ scopeStatus = "cancelling"
    /\ tasks[task] = "running"
    /\ LET ts == [tasks EXCEPT ![task] = result]
           still == alive \ {task} IN
       IF RunningCount(ts) > 0
       THEN /\ tasks' = ts
            /\ alive' = still
            /\ elapsedMs' = now
            /\ UNCHANGED <<plan, scopeStatus, terminalIntent, terminalTaskId, asked,
                           announced>>
       ELSE Finish(ts, now, still, terminalIntent)

Report(task) ==
    \E result \in Reported, now \in Now :
        \/ RunningTaskEvent(task, result, now)
        \/ CancellingTaskEvent(task, result, now)

Next ==
    \/ \E now \in Now : Tick(now)
    \/ \E now \in Now : Cancel(now)
    \/ \E task \in alive : Report(task)

(* The host's side of the contract.  Its timer keeps running until the     *)
(* deadline has been seen, and a task that was told to stop reports in the *)
(* end; a task that was not told may hang forever.                         *)
Fairness ==
    /\ WF_vars(\E now \in Now : TimedOut(now) /\ Tick(now))
    /\ WF_vars(\E task \in alive \cap asked : Report(task))

Spec == Init /\ [][Next]_vars /\ Fairness

-----------------------------------------------------------------------------
(* Properties.                                                             *)

TypeOK ==
    /\ plan \in Plans
    /\ elapsedMs \in Nat
    /\ scopeStatus \in Outcome \cup {"running", "cancelling"}
    /\ terminalIntent \in Outcome \cup {NoIntent}
    /\ terminalTaskId \in 0 .. plan.size
    /\ tasks \in [1 .. plan.size -> TaskStatus]
    /\ alive \subseteq 1 .. plan.size
    /\ asked \subseteq 1 .. plan.size
    /\ announced \in Seq(Outcome)

(* No task outlives its scope: when an outcome is announced the host has   *)
(* no task left and none will start, and the outcome is announced once, at *)
(* the end, and is the one that was decided.                               *)
NoOrphans ==
    /\ alive = In(tasks, "running")
    /\ announced # << >> <=> IsTerminalScope(scopeStatus)
    /\ announced # << >> =>
           /\ announced = <<terminalIntent>> /\ scopeStatus = terminalIntent
           /\ AllTasksTerminal(tasks)

(* A decided scope that still waits has told every task it waits for to    *)
(* stop, and an undecided one has told nobody.                             *)
EveryoneToldToStop ==
    /\ scopeStatus = "cancelling" =>
           /\ terminalIntent # NoIntent
           /\ alive # {} /\ alive \subseteq asked
           /\ In(tasks, "pending") = {}
    /\ scopeStatus = "running" => terminalIntent = NoIntent /\ asked = {}

(* A running scope never stalls: some task is in flight, and while tasks   *)
(* wait the scope is full; it is never above its limit.                    *)
CapacityUsed ==
    /\ RunningCount(tasks) =< plan.maxInFlight
    /\ scopeStatus = "running" =>
           /\ alive # {}
           /\ In(tasks, "pending") # {} => RunningCount(tasks) = plan.maxInFlight

(* The announced outcome is what the plan asked for.  Success of an all    *)
(* plan means every task succeeded; of the other plans, that the witness   *)
(* task did.  Failure means that some task did not succeed.                *)
OutcomeJustified ==
    /\ terminalIntent = "succeeded" =>
           IF plan.completion \in {"first_success", "first_result"}
              /\ terminalTaskId # NoTask
           THEN tasks[terminalTaskId] = "succeeded"
           ELSE \A i \in DOMAIN tasks : tasks[i] = "succeeded"
    /\ terminalIntent = "failed" =>
           \E i \in DOMAIN tasks : tasks[i] \in {"failed", "cancelled"}
    /\ terminalIntent = "failed" /\ plan.completion = "first_success" =>
           \A i \in DOMAIN tasks : tasks[i] # "succeeded"
    /\ terminalIntent = "timed_out" => TimedOut(elapsedMs)

(* A late answer decides nothing: no event at or after the deadline        *)
(* decides any other outcome than the timeout, and a decision once made is *)
(* never changed, whatever the tasks still report.                         *)
DeadlineDecides ==
    [][/\ terminalIntent # NoIntent => UNCHANGED <<terminalIntent, terminalTaskId>>
       /\ terminalIntent = NoIntent /\ terminalIntent' # NoIntent =>
              (terminalIntent' = "timed_out" <=> elapsedMs' >= plan.timeoutMs)]_vars

(* A task that reported keeps its status, a started one never goes back.   *)
StatusForward ==
    [][\A i \in DOMAIN tasks :
           \/ tasks'[i] = tasks[i]
           \/ tasks[i] = "pending" /\ tasks'[i] \in {"running", "cancelled"}
           \/ tasks[i] = "running" /\ tasks'[i] \in Reported]_vars

(* Every scope ends, even if a task that was never told to stop hangs.     *)
EveryScopeEnds == <>IsTerminalScope(scopeStatus)

(* The scope as its caller sees it.                                        *)
Contract == INSTANCE AwaitContract WITH
    Outcomes <- Outcome, Undecided <- NoIntent,
    decision <- terminalIntent, live <- alive, done <- announced # << >>

ImplementsContract == Contract!Spec
=============================================================================
