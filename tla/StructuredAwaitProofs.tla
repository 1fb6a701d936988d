------------------------- MODULE StructuredAwaitProofs -------------------------
(***************************************************************************)
(* Proofs about StructuredAwait, for every set of admitted plans, of any   *)
(* number of tasks, and every bound of the clock.                          *)
(*                                                                         *)
(* The invariants of the module are inductive together, but for one fact   *)
(* about first_success scopes (NoSuccessYet).  The                         *)
(* counting behind CapacityUsed needs the first task that had to wait and  *)
(* the last one that was started; both come from the well-foundedness of   *)
(* the natural numbers.                                                    *)
(***************************************************************************)
EXTENDS StructuredAwait, FiniteSetTheorems, WellFoundedInduction, TLAPS

(* Every non-empty set of task positions has a first and a last.           *)
LEMMA LeastElement ==
    ASSUME NEW T \in SUBSET Nat, T # {}
    PROVE  \E x \in T : \A y \in T : x =< y
<1>1. IsWellFoundedOn(OpToRel(<, Nat), Nat)
  BY NatLessThanWellFounded
<1>2. PICK x \in T : \A y \in T : <<y, x>> \notin OpToRel(<, Nat)
  BY <1>1, WFMin
<1>3. \A y \in T : ~(y < x)
  BY <1>2 DEF OpToRel
<1>4. \A y \in T : x =< y
  <2>1. x \in Nat /\ \A y \in T : y \in Nat
    OBVIOUS
  <2> QED
    BY <1>3, <2>1
<1> QED
  BY <1>4

LEMMA GreatestElement ==
    ASSUME NEW n \in Nat, NEW T \in SUBSET (1 .. n), T # {}
    PROVE  \E x \in T : \A y \in T : y =< x
<1> DEFINE D == {k \in Nat : n - k \in T}
<1>1. D # {}
  <2>1. PICK x \in T : TRUE
    OBVIOUS
  <2>2. x \in Int /\ n - x \in Nat /\ n - (n - x) = x
    BY <2>1
  <2> QED
    BY <2>1, <2>2
<1>2. PICK k \in D : \A l \in D : k =< l
  <2> D \in SUBSET Nat
    OBVIOUS
  <2> HIDE DEF D
  <2> QED
    BY <1>1, LeastElement
<1>3. \A y \in T : y =< n - k
  <2>1. TAKE y \in T
  <2>2. y \in Int /\ n - y \in Nat /\ n - (n - y) = y
    OBVIOUS
  <2>3. n - y \in D
    BY <2>2
  <2>4. k \in Nat /\ k =< n - y
    <3>1. k =< n - y
      BY <1>2, <2>3
    <3> QED
      BY <1>2, <3>1
  <2> HIDE DEF D
  <2> QED
    BY <2>2, <2>4
<1>4. n - k \in T
  BY <1>2
<1> HIDE DEF D
<1> QED
  BY <1>3, <1>4

-----------------------------------------------------------------------------
(* The statuses by position.                                               *)

Statuses(n) == [1 .. n -> TaskStatus]

LEMMA InFinite ==
    ASSUME NEW n \in Nat, NEW ts \in Statuses(n), NEW status
    PROVE  /\ In(ts, status) \in SUBSET (1 .. n)
           /\ IsFiniteSet(In(ts, status))
           /\ Cardinality(In(ts, status)) \in Nat
<1>1. In(ts, status) \in SUBSET (1 .. n)
  BY DEF In, Statuses
<1>2. IsFiniteSet(1 .. n)
  BY FS_Interval
<1> QED
  BY <1>1, <1>2, FS_Subset, FS_CardinalityType

LEMMA RunningCountZero ==
    ASSUME NEW n \in Nat, NEW ts \in Statuses(n)
    PROVE  /\ RunningCount(ts) \in Nat
           /\ RunningCount(ts) = 0 <=> In(ts, "running") = {}
BY InFinite, FS_EmptySet DEF RunningCount

(* What starting tasks does to each of them.                               *)
LEMMA FillShape ==
    ASSUME NEW n \in Nat, NEW ts \in Statuses(n), NEW m
    PROVE  /\ FillCapacity(ts, m) \in Statuses(n)
           /\ \A i \in 1 .. n :
                  \/ FillCapacity(ts, m)[i] = ts[i]
                  \/ ts[i] = "pending" /\ FillCapacity(ts, m)[i] = "running"
BY DEF FillCapacity, Statuses, TaskStatus

LEMMA DropShape ==
    ASSUME NEW n \in Nat, NEW ts \in Statuses(n)
    PROVE  /\ DropPending(ts) \in Statuses(n)
           /\ In(DropPending(ts), "pending") = {}
           /\ In(DropPending(ts), "running") = In(ts, "running")
           /\ \A i \in 1 .. n :
                  \/ DropPending(ts)[i] = ts[i]
                  \/ ts[i] = "pending" /\ DropPending(ts)[i] = "cancelled"
BY DEF DropPending, Statuses, TaskStatus, In

(* Tasks are started up to the limit and no further: FillCapacity never    *)
(* exceeds it and leaves a task waiting only when it is reached.           *)
LEMMA FillCount ==
    ASSUME NEW n \in Nat, NEW ts \in Statuses(n), NEW m \in Nat,
           RunningCount(ts) =< m
    PROVE  LET filled == FillCapacity(ts, m) IN
           /\ RunningCount(filled) =< m
           /\ In(filled, "pending") # {} => RunningCount(filled) = m
<1> DEFINE filled == FillCapacity(ts, m)
           R == In(ts, "running")
           P == In(ts, "pending")
           Before(i) == {j \in P : j < i}
           S == {i \in P : Cardinality(R) + Cardinality(Before(i)) < m}
<1>1. /\ R \in SUBSET (1 .. n) /\ P \in SUBSET (1 .. n) /\ S \in SUBSET P
      /\ R \cap S = {}
  BY InFinite DEF In
<1>2. IsFiniteSet(R) /\ IsFiniteSet(P) /\ IsFiniteSet(S)
  BY InFinite, FS_Subset
<1>3. \A i \in P : IsFiniteSet(Before(i)) /\ Cardinality(Before(i)) \in Nat
  <2>1. TAKE i \in P
  <2>2. Before(i) \in SUBSET P
    OBVIOUS
  <2> QED
    BY <1>2, <2>2, FS_Subset, FS_CardinalityType
<1>4. Cardinality(R) \in Nat /\ Cardinality(S) \in Nat /\ Cardinality(R) =< m
  BY <1>2, FS_CardinalityType DEF RunningCount
<1>5. In(filled, "running") = R \cup S /\ In(filled, "pending") = P \ S
  BY DEF FillCapacity, RunningCount, In, Statuses
<1>6. RunningCount(filled) = Cardinality(R) + Cardinality(S)
  <2> HIDE DEF S, R, P, filled
  <2>1. Cardinality(R \cup S)
            = Cardinality(R) + Cardinality(S) - Cardinality({})
    BY <1>1, <1>2, FS_Union
  <2>2. Cardinality({}) = 0
    BY FS_EmptySet
  <2> QED
    BY <1>4, <1>5, <2>1, <2>2 DEF RunningCount
<1>7. Cardinality(R) + Cardinality(S) =< m
  <2>1. CASE S = {}
    <3>1. Cardinality(S) = 0
      BY <2>1, FS_EmptySet
    <3> HIDE DEF S, R
    <3> QED
      BY <1>4, <3>1
  <2>2. CASE S # {}
    <3>1. PICK i \in S : \A j \in S : j =< i
      <4> HIDE DEF S, P
      <4> QED
        BY <1>1, <2>2, GreatestElement
    <3>2. S \in SUBSET (Before(i) \cup {i})
      <4>1. \A j \in S : j = i \/ (j \in P /\ j < i)
        <5> HIDE DEF S, P
        <5> QED
          BY <1>1, <3>1
      <4> HIDE DEF S, P
      <4> QED
        BY <4>1
    <3>3. /\ IsFiniteSet(Before(i) \cup {i})
          /\ Cardinality(Before(i) \cup {i}) =< Cardinality(Before(i)) + 1
      <4>1. IsFiniteSet(Before(i)) /\ Cardinality(Before(i)) \in Nat
        <5> HIDE DEF Before
        <5> QED
          BY <1>3, <3>1
      <4> HIDE DEF Before
      <4>2. /\ IsFiniteSet(Before(i) \cup {i})
            /\ Cardinality(Before(i) \cup {i})
                  = IF i \in Before(i) THEN Cardinality(Before(i))
                                       ELSE Cardinality(Before(i)) + 1
        BY <4>1, FS_AddElement
      <4> QED
        BY <4>1, <4>2
    <3>4. Cardinality(S) =< Cardinality(Before(i) \cup {i})
      BY <3>2, <3>3, FS_Subset
    <3>5. Cardinality(Before(i) \cup {i}) \in Nat
      BY <3>3, FS_CardinalityType
    <3>6. /\ Cardinality(R) + Cardinality(Before(i)) < m
          /\ Cardinality(Before(i)) \in Nat
      BY <1>3, <3>1
    <3> HIDE DEF S, R, Before
    <3> QED
      BY <1>4, <3>3, <3>4, <3>5, <3>6
  <2> QED
    BY <2>1, <2>2
<1>8. P \ S # {} => Cardinality(R) + Cardinality(S) >= m
  <2>1. SUFFICES ASSUME P \ S # {}
                 PROVE  Cardinality(R) + Cardinality(S) >= m
    OBVIOUS
  <2>2. PICK i \in P \ S : \A j \in P \ S : i =< j
    <3>1. P \ S \in SUBSET Nat
      BY <1>1
    <3> HIDE DEF S, P
    <3> QED
      BY <2>1, <3>1, LeastElement
  <2>3. Before(i) \in SUBSET S
    <3>1. \A j \in P : j < i => j \in S
      <4> HIDE DEF S, P
      <4> QED
        BY <1>1, <2>2
    <3> HIDE DEF S, P
    <3> QED
      BY <3>1
  <2>4. Cardinality(Before(i)) =< Cardinality(S)
    BY <1>2, <2>3, FS_Subset
  <2>5. /\ ~(Cardinality(R) + Cardinality(Before(i)) < m)
        /\ Cardinality(Before(i)) \in Nat
    BY <1>3, <2>2
  <2> HIDE DEF S, R, Before
  <2> QED
    BY <1>4, <2>4, <2>5
<1> HIDE DEF S, R, P
<1> QED
  BY <1>4, <1>5, <1>6, <1>7, <1>8

-----------------------------------------------------------------------------
(* The inductive invariant.                                                *)

(* A first_success scope runs as long as nothing has succeeded, and fails  *)
(* only when the last task does not, so it is never cancelled to fail.     *)
NoSuccessYet ==
    plan.completion = "first_success" =>
        /\ scopeStatus = "running" =>
               \A i \in DOMAIN tasks : tasks[i] # "succeeded"
        /\ scopeStatus = "cancelling" => terminalIntent # "failed"

IInv ==
    /\ TypeOK
    /\ NoOrphans
    /\ EveryoneToldToStop
    /\ CapacityUsed
    /\ OutcomeJustified
    /\ NoSuccessYet

LEMMA PlanType ==
    ASSUME plan \in Plans
    PROVE  /\ plan.size \in Nat \ {0} /\ plan.timeoutMs \in Nat \ {0}
           /\ plan.maxInFlight \in Nat \ {0} /\ plan.completion \in Completion
BY PlansAssumption DEF Admitted, Plan

LEMMA NowType ==
    ASSUME elapsedMs \in Nat, NEW now \in Now
    PROVE  now \in Nat /\ elapsedMs =< now
BY MaxElapsedAssumption DEF Now

LEMMA InitIInv == Init => IInv
<1> SUFFICES ASSUME Init PROVE IInv
  OBVIOUS
<1> USE DEF Init
<1> DEFINE waiting == [i \in 1 .. plan.size |-> "pending"]
<1>1. /\ plan.size \in Nat \ {0} /\ plan.maxInFlight \in Nat \ {0}
  BY PlanType
<1>2. waiting \in Statuses(plan.size) /\ In(waiting, "running") = {}
  BY DEF Statuses, TaskStatus, In
<1>3. /\ tasks = FillCapacity(waiting, plan.maxInFlight)
      /\ tasks \in Statuses(plan.size)
      /\ \A i \in 1 .. plan.size : tasks[i] \in {"pending", "running"}
  <2>1. tasks = FillCapacity(waiting, plan.maxInFlight)
    OBVIOUS
  <2>2. \A i \in 1 .. plan.size : waiting[i] = "pending"
    OBVIOUS
  <2> HIDE DEF waiting, Init
  <2> QED
    BY <1>1, <1>2, <2>1, <2>2, FillShape
<1> HIDE DEF waiting
<1>4. /\ RunningCount(tasks) =< plan.maxInFlight
      /\ In(tasks, "pending") # {} => RunningCount(tasks) = plan.maxInFlight
  <2>1. RunningCount(waiting) = 0
    BY <1>1, <1>2, RunningCountZero
  <2>2. RunningCount(waiting) =< plan.maxInFlight
    BY <1>1, <2>1
  <2> HIDE DEF Init
  <2> QED
    BY <1>1, <1>2, <1>3, <2>2, FillCount
<1>5. alive = In(tasks, "running") /\ alive # {} /\ alive \subseteq 1 .. plan.size
  <2>1. RunningCount(tasks) = 0 <=> In(tasks, "running") = {}
    BY <1>1, <1>3, RunningCountZero
  <2>2. CASE In(tasks, "pending") = {}
    <3>1. 1 \in 1 .. plan.size /\ DOMAIN tasks = 1 .. plan.size
      BY <1>1, <1>3 DEF Statuses
    <3>2. tasks[1] = "running"
      BY <1>3, <2>2, <3>1 DEF In
    <3>3. 1 \in In(tasks, "running")
      BY <3>1, <3>2 DEF In
    <3> QED
      BY <1>3, <3>1, <3>3 DEF In
  <2>3. CASE In(tasks, "pending") # {}
    BY <1>1, <1>3, <1>4, <2>1, <2>3 DEF In, Statuses
  <2> QED
    BY <2>2, <2>3
<1>6. TypeOK
  <2>1. announced \in Seq(Outcome) /\ elapsedMs \in Nat
    OBVIOUS
  <2>2. /\ scopeStatus \in Outcome \cup {"running", "cancelling"}
        /\ terminalIntent \in Outcome \cup {NoIntent}
        /\ asked \subseteq 1 .. plan.size /\ plan \in Plans
    OBVIOUS
  <2>3. terminalTaskId \in 0 .. plan.size
    BY <1>1 DEF NoTask
  <2> HIDE DEF Init
  <2> QED
    BY <1>3, <1>5, <2>1, <2>2, <2>3 DEF TypeOK, Statuses
<1>7. NoOrphans /\ EveryoneToldToStop
  BY <1>5 DEF NoOrphans, EveryoneToldToStop, IsTerminalScope, Outcome
<1>8. CapacityUsed
  BY <1>4, <1>5 DEF CapacityUsed
<1>9. OutcomeJustified /\ NoSuccessYet
  BY <1>3 DEF OutcomeJustified, NoSuccessYet, NoIntent, Statuses
<1> QED
  BY <1>6, <1>7, <1>8, <1>9 DEF IInv

-----------------------------------------------------------------------------
(* What a step does, besides keeping the invariant.                        *)

DeadlineStep ==
    /\ terminalIntent # NoIntent => UNCHANGED <<terminalIntent, terminalTaskId>>
    /\ terminalIntent = NoIntent /\ terminalIntent' # NoIntent =>
           (terminalIntent' = "timed_out" <=> elapsedMs' >= plan.timeoutMs)

StatusStep ==
    \A i \in DOMAIN tasks :
        \/ tasks'[i] = tasks[i]
        \/ tasks[i] = "pending" /\ tasks'[i] \in {"running", "cancelled"}
        \/ tasks[i] = "running" /\ tasks'[i] \in Reported

ContractStep ==
    [Contract!Next]_<<terminalIntent, alive, announced # << >> >>

StepOK == DeadlineStep /\ StatusStep /\ ContractStep

(* The statuses and the living tasks once an event has been delivered: at  *)
(* most one running task has reported.                                     *)
Delivered(ts, still) ==
    /\ ts \in Statuses(plan.size)
    /\ still = In(ts, "running")
    /\ still \subseteq alive
    /\ \A i \in 1 .. plan.size :
           \/ ts[i] = tasks[i]
           \/ tasks[i] = "running" /\ ts[i] \in Reported

LEMMA NothingDelivered ==
    ASSUME IInv
    PROVE  Delivered(tasks, alive)
BY DEF Delivered, IInv, TypeOK, NoOrphans, Statuses

LEMMA ReportDelivered ==
    ASSUME IInv, NEW task \in alive, NEW result \in Reported,
           tasks[task] = "running"
    PROVE  /\ Delivered([tasks EXCEPT ![task] = result], alive \ {task})
           /\ task \in 1 .. plan.size
           /\ [tasks EXCEPT ![task] = result][task] = result
           /\ \A i \in 1 .. plan.size \ {task} :
                  [tasks EXCEPT ![task] = result][i] = tasks[i]
<1>1. /\ alive = In(tasks, "running") /\ tasks \in Statuses(plan.size)
      /\ task \in 1 .. plan.size
  BY DEF IInv, TypeOK, NoOrphans, Statuses
<1>2. result \in TaskStatus \ {"pending", "running"}
  BY DEF Reported, TaskStatus
<1> QED
  BY <1>1, <1>2 DEF Delivered, In, Statuses

-----------------------------------------------------------------------------
(* The three ways an event can end, and the one that only moves the clock. *)

LEMMA BeginCancellationStep ==
    ASSUME IInv, scopeStatus = "running",
           NEW ts, NEW still, Delivered(ts, still), NEW now \in Now,
           NEW intent \in Outcome, NEW task \in 0 .. plan.size,
           BeginCancellation(ts, now, still, intent, task),
           intent = "timed_out" <=> TimedOut(now),
           intent = "succeeded" =>
               /\ plan.completion \in {"first_success", "first_result"}
               /\ task # NoTask /\ ts[task] = "succeeded",
           intent = "failed" =>
               /\ plan.completion # "first_success"
               /\ \E i \in 1 .. plan.size : ts[i] \in {"failed", "cancelled"}
    PROVE  IInv' /\ StepOK
<1> DEFINE dropped == DropPending(ts)
<1> USE DEF BeginCancellation
<1>1. /\ plan.size \in Nat /\ plan.maxInFlight \in Nat \ {0}
      /\ plan' = plan /\ now \in Nat /\ elapsedMs \in Nat /\ elapsedMs =< now
      /\ terminalIntent = NoIntent /\ asked = {} /\ announced = << >>
      /\ tasks \in Statuses(plan.size)
      /\ alive = In(tasks, "running") /\ alive \subseteq 1 .. plan.size
      /\ RunningCount(tasks) =< plan.maxInFlight
      /\ terminalTaskId \in 0 .. plan.size /\ plan \in Plans
  BY PlanType, NowType
     DEF IInv, TypeOK, EveryoneToldToStop, NoOrphans, IsTerminalScope, Outcome,
         Statuses, CapacityUsed
<1>2. /\ ts \in Statuses(plan.size) /\ still = In(ts, "running")
      /\ still \subseteq alive
      /\ \A i \in 1 .. plan.size :
             \/ ts[i] = tasks[i]
             \/ tasks[i] = "running" /\ ts[i] \in Reported
  BY DEF Delivered
<1>3. /\ tasks' = dropped /\ dropped \in Statuses(plan.size)
      /\ In(dropped, "pending") = {} /\ In(dropped, "running") = still
      /\ \A i \in 1 .. plan.size :
             dropped[i] = ts[i] \/ (ts[i] = "pending" /\ dropped[i] = "cancelled")
  BY <1>1, <1>2, DropShape
<1>4. /\ RunningCount(ts) = 0 <=> still = {}
      /\ RunningCount(dropped) =< plan.maxInFlight
  <2>1. IsFiniteSet(alive) /\ Cardinality(alive) =< plan.maxInFlight
    BY <1>1, InFinite DEF RunningCount
  <2>2. Cardinality(still) =< Cardinality(alive)
    BY <1>2, <2>1, FS_Subset
  <2>3. Cardinality(still) \in Nat /\ Cardinality(alive) \in Nat
    BY <1>2, <2>1, FS_Subset, FS_CardinalityType
  <2>4. RunningCount(dropped) = Cardinality(still)
    BY <1>3 DEF RunningCount
  <2>5. RunningCount(ts) = 0 <=> still = {}
    BY <1>1, <1>2, RunningCountZero
  <2> QED
    BY <1>1, <2>1, <2>2, <2>3, <2>4, <2>5
<1> HIDE DEF dropped
<1>5. announced' = IF still = {} THEN <<intent>> ELSE << >>
  <2>1. Append(<< >>, intent) = <<intent>>
    OBVIOUS
  <2> QED
    BY <1>1, <1>4, <2>1
<1>6. TypeOK'
  <2>1. /\ scopeStatus' \in Outcome \cup {"running", "cancelling"}
        /\ <<intent>> \in Seq(Outcome) /\ << >> \in Seq(Outcome)
    OBVIOUS
  <2> QED
    BY <1>1, <1>2, <1>3, <1>5, <2>1 DEF TypeOK, Statuses, In
<1>7. NoOrphans' /\ EveryoneToldToStop'
  <2>1. CASE RunningCount(ts) = 0
    BY <1>1, <1>3, <1>4, <2>1
       DEF NoOrphans, EveryoneToldToStop, AllTasksTerminal, IsTerminalScope,
           Outcome, NoIntent
  <2>2. CASE RunningCount(ts) # 0
    BY <1>1, <1>2, <1>3, <1>4, <2>2
       DEF NoOrphans, EveryoneToldToStop, IsTerminalScope, Outcome, NoIntent
  <2> QED
    BY <2>1, <2>2
<1>8. CapacityUsed' /\ NoSuccessYet'
  <2>1. scopeStatus' # "running"
    BY DEF Outcome
  <2> QED
    BY <1>1, <1>3, <1>4, <2>1 DEF CapacityUsed, NoSuccessYet, RunningCount, In
<1>9. OutcomeJustified'
  <2>1. /\ terminalIntent' = intent /\ terminalTaskId' = task /\ elapsedMs' = now
        /\ plan' = plan /\ tasks' = dropped
        /\ DOMAIN dropped = 1 .. plan.size
    BY <1>1, <1>3 DEF Statuses
  <2>2. intent = "succeeded" => dropped[task] = "succeeded"
    <3>1. SUFFICES ASSUME intent = "succeeded"
                   PROVE  dropped[task] = "succeeded"
      OBVIOUS
    <3>2. task \in 1 .. plan.size
      BY <1>1, <3>1 DEF NoTask
    <3> QED
      BY <1>3, <3>1, <3>2
  <2>3. intent = "failed" =>
            \E i \in 1 .. plan.size : dropped[i] \in {"failed", "cancelled"}
    BY <1>3
  <2>4. intent = "timed_out" => TimedOut(now)
    OBVIOUS
  <2> QED
    BY <2>1, <2>2, <2>3, <2>4 DEF OutcomeJustified, TimedOut
<1>10. DeadlineStep
  BY <1>1 DEF DeadlineStep, TimedOut
<1>11. StatusStep
  BY <1>1, <1>2, <1>3 DEF StatusStep, Statuses, Reported
<1>12. ContractStep
  <2>1. terminalIntent' \in Outcome /\ alive' \subseteq alive
    BY <1>2
  <2>2. (announced' # << >>) = (alive' = {})
    BY <1>5
  <2> QED
    BY <1>1, <2>1, <2>2 DEF ContractStep, Contract!Next, Contract!Decide
<1> QED
  BY <1>6, <1>7, <1>8, <1>9, <1>10, <1>11, <1>12 DEF IInv, StepOK

LEMMA ContinueRunningStep ==
    ASSUME IInv, scopeStatus = "running",
           NEW ts, NEW still, Delivered(ts, still), NEW now \in Now,
           ContinueRunning(ts, now, still),
           ~AllTasksTerminal(FillCapacity(ts, plan.maxInFlight)),
           plan.completion = "first_success" =>
               \A i \in 1 .. plan.size : ts[i] # "succeeded"
    PROVE  IInv' /\ StepOK
<1> DEFINE filled == FillCapacity(ts, plan.maxInFlight)
<1> USE DEF ContinueRunning
<1>1. /\ plan.size \in Nat /\ plan.maxInFlight \in Nat \ {0}
      /\ plan' = plan /\ now \in Nat /\ plan \in Plans
      /\ terminalIntent = NoIntent /\ asked = {} /\ announced = << >>
      /\ tasks \in Statuses(plan.size)
      /\ alive = In(tasks, "running") /\ RunningCount(tasks) =< plan.maxInFlight
      /\ terminalTaskId \in 0 .. plan.size
  BY PlanType, NowType
     DEF IInv, TypeOK, EveryoneToldToStop, NoOrphans, IsTerminalScope, Outcome,
         Statuses, CapacityUsed
<1>2. /\ ts \in Statuses(plan.size) /\ still = In(ts, "running")
      /\ still \subseteq alive
      /\ \A i \in 1 .. plan.size :
             \/ ts[i] = tasks[i]
             \/ tasks[i] = "running" /\ ts[i] \in Reported
  BY DEF Delivered
<1>3. RunningCount(ts) \in Nat /\ RunningCount(ts) =< plan.maxInFlight
  <2>1. IsFiniteSet(alive) /\ Cardinality(alive) \in Nat
    BY <1>1, InFinite
  <2>2. Cardinality(still) =< Cardinality(alive)
    BY <1>2, <2>1, FS_Subset
  <2>3. RunningCount(ts) \in Nat
    BY <1>1, <1>2, RunningCountZero
  <2> QED
    BY <1>1, <1>2, <2>1, <2>2, <2>3 DEF RunningCount
<1>4. /\ tasks' = filled /\ filled \in Statuses(plan.size)
      /\ \A i \in 1 .. plan.size :
             filled[i] = ts[i] \/ (ts[i] = "pending" /\ filled[i] = "running")
  BY <1>1, <1>2, FillShape
<1>5. /\ RunningCount(filled) =< plan.maxInFlight
      /\ In(filled, "pending") # {} => RunningCount(filled) = plan.maxInFlight
  BY <1>1, <1>2, <1>3, FillCount
<1>6. ~AllTasksTerminal(filled)
  OBVIOUS
<1> HIDE DEF filled
<1>7. /\ alive' = In(filled, "running") /\ alive' \subseteq 1 .. plan.size
      /\ alive' # {}
  <2>1. alive' = still \cup (In(filled, "running") \ In(ts, "running"))
    BY <1>4
  <2>2. In(ts, "running") \subseteq In(filled, "running")
    BY <1>2, <1>4 DEF In, Statuses
  <2>3. In(filled, "running") # {}
    <3>1. RunningCount(filled) = 0 <=> In(filled, "running") = {}
      BY <1>1, <1>4, RunningCountZero
    <3> QED
      BY <1>1, <1>5, <1>6, <3>1 DEF AllTasksTerminal
  <2> QED
    BY <1>2, <1>4, <2>1, <2>2, <2>3 DEF In, Statuses
<1>8. TypeOK'
  <2>1. /\ scopeStatus' = scopeStatus /\ terminalIntent' = terminalIntent
        /\ terminalTaskId' = terminalTaskId /\ asked' = asked
        /\ announced' = announced /\ elapsedMs' = now
    OBVIOUS
  <2> QED
    BY <1>1, <1>4, <1>7, <2>1 DEF TypeOK, IInv, Statuses
<1>9. NoOrphans' /\ EveryoneToldToStop'
  BY <1>1, <1>4, <1>7
     DEF NoOrphans, EveryoneToldToStop, IsTerminalScope, Outcome
<1>10. CapacityUsed'
  BY <1>1, <1>4, <1>5, <1>7 DEF CapacityUsed
<1>11. OutcomeJustified'
  BY <1>1 DEF OutcomeJustified, NoIntent
<1>12. NoSuccessYet'
  <2>1. plan.completion = "first_success" =>
            \A i \in 1 .. plan.size : filled[i] # "succeeded"
    BY <1>4
  <2> QED
    BY <1>1, <1>4, <2>1 DEF NoSuccessYet, Statuses
<1>13. DeadlineStep
  BY <1>1 DEF DeadlineStep
<1>14. StatusStep
  BY <1>1, <1>2, <1>4 DEF StatusStep, Statuses, Reported
<1>15. ContractStep
  BY <1>1 DEF ContractStep, Contract!Next, Contract!Work
<1> QED
  BY <1>8, <1>9, <1>10, <1>11, <1>12, <1>13, <1>14, <1>15 DEF IInv, StepOK

LEMMA FinishStep ==
    ASSUME IInv, ~IsTerminalScope(scopeStatus),
           NEW ts, NEW still, Delivered(ts, still), NEW now \in Now,
           NEW outcome \in Outcome, Finish(ts, now, still, outcome),
           AllTasksTerminal(ts),
           terminalIntent # NoIntent => outcome = terminalIntent,
           terminalIntent = NoIntent =>
               /\ outcome \in {"succeeded", "failed"} /\ ~TimedOut(now)
               /\ outcome = "succeeded" =>
                      \A i \in 1 .. plan.size : ts[i] = "succeeded"
               /\ outcome = "failed" =>
                      \E i \in 1 .. plan.size : ts[i] \in {"failed", "cancelled"}
               /\ outcome = "failed" /\ plan.completion = "first_success" =>
                      \A i \in 1 .. plan.size : ts[i] # "succeeded"
    PROVE  IInv' /\ StepOK
<1> USE DEF Finish
<1>1. /\ plan.size \in Nat /\ plan.maxInFlight \in Nat \ {0}
      /\ plan.timeoutMs \in Nat /\ plan \in Plans /\ plan' = plan
      /\ now \in Nat /\ elapsedMs \in Nat /\ elapsedMs =< now
      /\ announced = << >> /\ tasks \in Statuses(plan.size)
      /\ terminalTaskId \in 0 .. plan.size /\ asked \subseteq 1 .. plan.size
  BY PlanType, NowType DEF IInv, TypeOK, NoOrphans, Statuses
<1>2. /\ ts \in Statuses(plan.size) /\ still = In(ts, "running")
      /\ still \subseteq alive
      /\ \A i \in 1 .. plan.size :
             \/ ts[i] = tasks[i]
             \/ tasks[i] = "running" /\ ts[i] \in Reported
  BY DEF Delivered
<1>3. /\ tasks' = ts /\ alive' = {} /\ elapsedMs' = now
      /\ scopeStatus' = outcome /\ terminalIntent' = outcome
      /\ announced' = <<outcome>> /\ terminalTaskId' = terminalTaskId
      /\ asked' = asked /\ In(ts, "running") = {} /\ In(ts, "pending") = {}
  <2>1. Append(<< >>, outcome) = <<outcome>>
    OBVIOUS
  <2> QED
    BY <1>1, <1>2, <2>1 DEF AllTasksTerminal
<1>4. outcome \notin {"running", "cancelling", NoIntent}
  BY DEF Outcome, NoIntent
<1>5. TypeOK'
  <2>1. <<outcome>> \in Seq(Outcome)
    OBVIOUS
  <2> HIDE DEF Finish
  <2> QED
    BY <1>1, <1>2, <1>3, <2>1 DEF TypeOK, Statuses
<1> HIDE DEF Finish
<1>6. NoOrphans' /\ EveryoneToldToStop'
  <2>1. << >> # <<outcome>>
    OBVIOUS
  <2> QED
    BY <1>3, <1>4, <2>1
       DEF NoOrphans, EveryoneToldToStop, AllTasksTerminal, IsTerminalScope
<1>7. CapacityUsed' /\ NoSuccessYet'
  <2>1. RunningCount(ts) = 0
    BY <1>1, <1>2, <1>3, RunningCountZero
  <2> QED
    BY <1>1, <1>3, <1>4, <2>1 DEF CapacityUsed, NoSuccessYet
<1>8. OutcomeJustified'
  <2>1. CASE terminalIntent = NoIntent
    BY <1>1, <1>2, <1>3, <2>1 DEF OutcomeJustified, Statuses, NoTask
  <2>2. CASE terminalIntent # NoIntent
    <3>1. \A i \in 1 .. plan.size : tasks[i] \in Reported => ts[i] = tasks[i]
      BY <1>2 DEF Reported
    <3>2. OutcomeJustified /\ outcome = terminalIntent
      BY <2>2 DEF IInv
    <3>3. TimedOut(elapsedMs) => TimedOut(now)
      BY <1>1 DEF TimedOut
    <3>4. DOMAIN tasks = 1 .. plan.size /\ DOMAIN ts = 1 .. plan.size
      BY <1>1, <1>2 DEF Statuses
    <3>5. outcome = "failed" /\ plan.completion = "first_success" =>
              \A i \in 1 .. plan.size : ts[i] # "succeeded"
      <4>1. scopeStatus = "cancelling" /\ terminalIntent = outcome
        BY <3>2, <2>2 DEF IInv, TypeOK, IsTerminalScope, EveryoneToldToStop
      <4> QED
        BY <4>1 DEF IInv, NoSuccessYet
    <3> QED
      BY <1>1, <1>3, <3>1, <3>2, <3>3, <3>4, <3>5 DEF OutcomeJustified, Reported, NoTask, TimedOut
  <2> QED
    BY <2>1, <2>2
<1>9. DeadlineStep
  BY <1>1, <1>3, <1>4 DEF DeadlineStep, TimedOut
<1>10. StatusStep
  BY <1>1, <1>2, <1>3 DEF StatusStep, Statuses
<1>11. ContractStep
  <2>1. announced' # << >> /\ terminalIntent' \in Outcome
    BY <1>3
  <2> QED
    BY <1>1, <1>3, <2>1
       DEF ContractStep, Contract!Next, Contract!Decide, Contract!Drain
<1> QED
  BY <1>5, <1>6, <1>7, <1>8, <1>9, <1>10, <1>11 DEF IInv, StepOK

(* Time passes and, in a cancelling scope, a task may end that is not the  *)
(* last one: nothing else changes.                                         *)
LEMMA WaitStep ==
    ASSUME IInv, ~IsTerminalScope(scopeStatus),
           NEW ts, NEW still, Delivered(ts, still), NEW now \in Now,
           ts = tasks \/ (scopeStatus = "cancelling" /\ still # {}),
           tasks' = ts, alive' = still, elapsedMs' = now,
           UNCHANGED <<plan, scopeStatus, terminalIntent, terminalTaskId, asked,
                       announced>>
    PROVE  IInv' /\ StepOK
<1>1. /\ plan.size \in Nat /\ plan.maxInFlight \in Nat \ {0}
      /\ plan.timeoutMs \in Nat
      /\ now \in Nat /\ elapsedMs \in Nat /\ elapsedMs =< now
      /\ announced = << >> /\ tasks \in Statuses(plan.size)
      /\ alive = In(tasks, "running") /\ RunningCount(tasks) =< plan.maxInFlight
  BY PlanType, NowType DEF IInv, TypeOK, NoOrphans, Statuses, CapacityUsed
<1>2. /\ ts \in Statuses(plan.size) /\ still = In(ts, "running")
      /\ still \subseteq alive
      /\ \A i \in 1 .. plan.size :
             \/ ts[i] = tasks[i]
             \/ tasks[i] = "running" /\ ts[i] \in Reported
  BY DEF Delivered
<1>3. TypeOK'
  BY <1>1, <1>2 DEF IInv, TypeOK, Statuses, In
<1>4. NoOrphans' /\ EveryoneToldToStop'
  <2>1. In(tasks, "pending") = {} => In(ts, "pending") = {}
    BY <1>1, <1>2 DEF In, Statuses, Reported
  <2>2. alive # {} => ts = tasks \/ still # {}
    OBVIOUS
  <2>3. ts = tasks => still = alive
    BY <1>1, <1>2
  <2> QED
    BY <1>1, <1>2, <2>1, <2>2, <2>3
       DEF IInv, NoOrphans, EveryoneToldToStop, IsTerminalScope, Outcome
<1>5. CapacityUsed'
  <2>1. IsFiniteSet(alive) /\ Cardinality(alive) \in Nat
    BY <1>1, InFinite
  <2>2. Cardinality(still) =< Cardinality(alive) /\ Cardinality(still) \in Nat
    BY <1>2, <2>1, FS_Subset, FS_CardinalityType
  <2>3. RunningCount(ts) =< plan.maxInFlight
    BY <1>1, <1>2, <2>1, <2>2 DEF RunningCount
  <2> QED
    BY <1>1, <1>2, <2>3 DEF IInv, CapacityUsed
<1>6. OutcomeJustified'
  <2>1. \A i \in 1 .. plan.size : tasks[i] \in Reported => ts[i] = tasks[i]
    BY <1>2 DEF Reported
  <2>2. OutcomeJustified /\ NoSuccessYet /\ EveryoneToldToStop /\ TypeOK
    BY DEF IInv
  <2>3. TimedOut(elapsedMs) => TimedOut(now)
    BY <1>1 DEF TimedOut
  <2>4. DOMAIN tasks = 1 .. plan.size /\ DOMAIN ts = 1 .. plan.size
    BY <1>1, <1>2 DEF Statuses
  <2>5. CASE ts = tasks
    BY <2>2, <2>3, <2>5 DEF OutcomeJustified, TimedOut
  <2>6. CASE scopeStatus = "cancelling" /\ still # {}
    <3>1. plan.completion = "first_success" => terminalIntent # "failed"
      BY <2>2, <2>6 DEF NoSuccessYet
    <3> QED
      BY <1>1, <2>1, <2>2, <2>3, <2>4, <3>1
         DEF OutcomeJustified, Reported, NoTask, TimedOut, TypeOK
  <2> QED
    BY <2>5, <2>6
<1>7. NoSuccessYet'
  BY <1>1, <1>2 DEF IInv, NoSuccessYet, Statuses
<1>8. DeadlineStep
  BY DEF DeadlineStep
<1>9. StatusStep
  BY <1>1, <1>2 DEF StatusStep, Statuses
<1>10. ContractStep
  <2>1. CASE ts = tasks
    BY <1>1, <1>2, <2>1 DEF ContractStep
  <2>2. CASE scopeStatus = "cancelling" /\ still # {}
    <3>1. terminalIntent # NoIntent
      BY <2>2 DEF IInv, EveryoneToldToStop
    <3> QED
      BY <1>1, <1>2, <2>2, <3>1 DEF ContractStep, Contract!Next, Contract!Drain
  <2> QED
    BY <2>1, <2>2
<1> QED
  BY <1>3, <1>4, <1>5, <1>6, <1>7, <1>8, <1>9, <1>10 DEF IInv, StepOK

-----------------------------------------------------------------------------
(* The events.                                                             *)

LEMMA TickStep ==
    ASSUME IInv, NEW now \in Now, Tick(now)
    PROVE  IInv' /\ StepOK
<1>1. Delivered(tasks, alive) /\ NoTask \in 0 .. plan.size
  BY NothingDelivered, PlanType DEF IInv, TypeOK, NoTask
<1>2. CASE scopeStatus = "running" /\ TimedOut(now)
  <2>1. BeginCancellation(tasks, now, alive, "timed_out", NoTask)
    BY <1>2 DEF Tick
  <2>2. "timed_out" \in Outcome
    BY DEF Outcome
  <2> QED
    BY <1>1, <1>2, <2>1, <2>2, BeginCancellationStep
<1>3. CASE ~(scopeStatus = "running" /\ TimedOut(now))
  <2> DEFINE ts == tasks
             still == alive
  <2>1. /\ ~IsTerminalScope(scopeStatus) /\ elapsedMs' = now
        /\ UNCHANGED <<plan, scopeStatus, terminalIntent, terminalTaskId, tasks,
                       alive, asked, announced>>
    BY <1>3 DEF Tick
  <2>2. ts = tasks \/ (scopeStatus = "cancelling" /\ still # {})
    OBVIOUS
  <2>3. /\ tasks' = ts /\ alive' = still /\ elapsedMs' = now
        /\ UNCHANGED <<plan, scopeStatus, terminalIntent, terminalTaskId, asked,
                       announced>>
    BY <2>1
  <2>4. Delivered(ts, still) /\ ~IsTerminalScope(scopeStatus)
    BY <1>1, <2>1
  <2> HIDE DEF ts, still
  <2> QED
    BY <2>2, <2>3, <2>4, WaitStep
<1> QED
  BY <1>2, <1>3

LEMMA CancelStep ==
    ASSUME IInv, NEW now \in Now, Cancel(now)
    PROVE  IInv' /\ StepOK
<1> DEFINE intent == IF TimedOut(now) THEN "timed_out" ELSE "cancelled"
<1>1. Delivered(tasks, alive) /\ NoTask \in 0 .. plan.size
  BY NothingDelivered, PlanType DEF IInv, TypeOK, NoTask
<1>2. /\ intent \in Outcome
      /\ intent = "timed_out" <=> TimedOut(now)
      /\ intent # "succeeded" /\ intent # "failed"
  BY DEF Outcome
<1>3. scopeStatus = "running" /\ BeginCancellation(tasks, now, alive, intent, NoTask)
  BY DEF Cancel
<1> HIDE DEF intent
<1> QED
  BY <1>1, <1>2, <1>3, BeginCancellationStep

LEMMA RunningTaskEventStep ==
    ASSUME IInv, NEW task \in alive, NEW result \in Reported, NEW now \in Now,
           RunningTaskEvent(task, result, now)
    PROVE  IInv' /\ StepOK
<1> DEFINE ts == [tasks EXCEPT ![task] = result]
           still == alive \ {task}
           filled == FillCapacity(ts, plan.maxInFlight)
           outcome == IF \E i \in DOMAIN ts : ts[i] \in {"failed", "cancelled"}
                      THEN "failed" ELSE "succeeded"
<1>1. scopeStatus = "running" /\ tasks[task] = "running"
  BY DEF RunningTaskEvent
<1>2. /\ Delivered(ts, still) /\ task \in 1 .. plan.size /\ ts[task] = result
      /\ \A i \in 1 .. plan.size \ {task} : ts[i] = tasks[i]
  BY <1>1, ReportDelivered
<1>3. /\ plan \in Plans /\ plan.size \in Nat /\ plan.completion \in Completion
      /\ terminalIntent = NoIntent /\ ts \in Statuses(plan.size)
      /\ DOMAIN ts = 1 .. plan.size /\ DOMAIN tasks = 1 .. plan.size
  BY <1>1, <1>2, PlanType
     DEF IInv, TypeOK, EveryoneToldToStop, Delivered, Statuses
<1>4. result \in {"succeeded", "failed", "cancelled"}
  BY DEF Reported
<1>5. \/ TimedOut(now) /\ BeginCancellation(ts, now, still, "timed_out", NoTask)
      \/ /\ ~TimedOut(now) /\ Decides(result)
         /\ BeginCancellation(ts, now, still, Decided(result), Witness(task))
      \/ /\ ~TimedOut(now) /\ ~Decides(result) /\ ~AllTasksTerminal(filled)
         /\ ContinueRunning(ts, now, still)
      \/ /\ ~TimedOut(now) /\ ~Decides(result) /\ AllTasksTerminal(filled)
         /\ Finish(ts, now, still, outcome)
  BY DEF RunningTaskEvent
<1> HIDE DEF ts, still, outcome, filled
<1>6. CASE TimedOut(now) /\ BeginCancellation(ts, now, still, "timed_out", NoTask)
  <2>1. "timed_out" \in Outcome /\ NoTask \in 0 .. plan.size
    BY <1>3 DEF Outcome, NoTask
  <2> QED
    BY <1>1, <1>2, <1>6, <2>1, BeginCancellationStep
<1>7. CASE /\ ~TimedOut(now) /\ Decides(result)
           /\ BeginCancellation(ts, now, still, Decided(result), Witness(task))
  <2>1. Decided(result) \in Outcome /\ Decided(result) # "timed_out"
    BY DEF Decided, Outcome
  <2>2. Witness(task) \in 0 .. plan.size
    BY <1>2, <1>3 DEF Witness, NoTask
  <2>3. Decided(result) = "succeeded" =>
            /\ plan.completion \in {"first_success", "first_result"}
            /\ Witness(task) # NoTask /\ ts[Witness(task)] = "succeeded"
    BY <1>2, <1>7 DEF Decided, Decides, Witness, NoTask
  <2>4. Decided(result) = "failed" =>
            /\ plan.completion # "first_success"
            /\ \E i \in 1 .. plan.size : ts[i] \in {"failed", "cancelled"}
    BY <1>2, <1>4, <1>7 DEF Decided, Decides
  <2> QED
    BY <1>1, <1>2, <1>7, <2>1, <2>2, <2>3, <2>4, BeginCancellationStep
<1>8. plan.completion = "first_success" /\ ~Decides(result) =>
          \A i \in 1 .. plan.size : ts[i] # "succeeded"
  BY <1>1, <1>2, <1>3 DEF IInv, NoSuccessYet, Decides
<1>9. CASE /\ ~TimedOut(now) /\ ~Decides(result) /\ ~AllTasksTerminal(filled)
           /\ ContinueRunning(ts, now, still)
  BY <1>1, <1>2, <1>8, <1>9, ContinueRunningStep DEF filled
<1>10. CASE /\ ~TimedOut(now) /\ ~Decides(result) /\ AllTasksTerminal(filled)
            /\ Finish(ts, now, still, outcome)
  <2>1. AllTasksTerminal(ts)
    <3>1. \A i \in 1 .. plan.size :
              \/ filled[i] = ts[i]
              \/ ts[i] = "pending" /\ filled[i] = "running"
      BY <1>3, FillShape DEF filled
    <3>2. filled \in Statuses(plan.size)
      BY <1>3, FillShape DEF filled
    <3> QED
      BY <1>3, <1>10, <3>1, <3>2 DEF AllTasksTerminal, In, Statuses
  <2>2. \A i \in 1 .. plan.size : ts[i] \in {"succeeded", "failed", "cancelled"}
    BY <1>3, <2>1 DEF AllTasksTerminal, In, Statuses, TaskStatus
  <2>3. /\ outcome \in Outcome /\ outcome \in {"succeeded", "failed"}
        /\ outcome = "succeeded" =>
               \A i \in 1 .. plan.size : ts[i] = "succeeded"
        /\ outcome = "failed" =>
               \E i \in 1 .. plan.size : ts[i] \in {"failed", "cancelled"}
    BY <1>3, <2>2 DEF outcome, Outcome
  <2>4. ~IsTerminalScope(scopeStatus)
    BY <1>1 DEF IsTerminalScope, Outcome
  <2> QED
    BY <1>2, <1>3, <1>8, <1>10, <2>1, <2>3, <2>4, FinishStep
<1> QED
  BY <1>5, <1>6, <1>7, <1>9, <1>10

LEMMA CancellingTaskEventStep ==
    ASSUME IInv, NEW task \in alive, NEW result \in Reported, NEW now \in Now,
           CancellingTaskEvent(task, result, now)
    PROVE  IInv' /\ StepOK
<1> DEFINE ts == [tasks EXCEPT ![task] = result]
           still == alive \ {task}
<1>1. scopeStatus = "cancelling" /\ tasks[task] = "running"
  BY DEF CancellingTaskEvent
<1>2. /\ Delivered(ts, still)
      /\ \A i \in 1 .. plan.size : ts[i] = tasks[i] \/ ts[i] = result
  BY <1>1, ReportDelivered
<1>3. /\ plan \in Plans /\ plan.size \in Nat
      /\ terminalIntent \in Outcome /\ terminalIntent # NoIntent
      /\ ts \in Statuses(plan.size) /\ still = In(ts, "running")
      /\ In(tasks, "pending") = {} /\ tasks \in Statuses(plan.size)
      /\ ~IsTerminalScope(scopeStatus)
  BY <1>1, <1>2, PlanType
     DEF IInv, TypeOK, EveryoneToldToStop, Delivered, Statuses, IsTerminalScope,
         Outcome
<1>4. /\ RunningCount(ts) \in Nat
      /\ RunningCount(ts) = 0 <=> still = {}
  BY <1>3, RunningCountZero
<1>5. IF RunningCount(ts) > 0
      THEN /\ tasks' = ts /\ alive' = still /\ elapsedMs' = now
           /\ UNCHANGED <<plan, scopeStatus, terminalIntent, terminalTaskId, asked,
                          announced>>
      ELSE Finish(ts, now, still, terminalIntent)
  BY DEF CancellingTaskEvent
<1> HIDE DEF ts, still
<1>6. CASE RunningCount(ts) > 0
  <2>1. still # {}
    BY <1>4, <1>6
  <2> QED
    BY <1>1, <1>2, <1>3, <1>5, <1>6, <2>1, WaitStep
<1>7. CASE ~(RunningCount(ts) > 0)
  <2>1. AllTasksTerminal(ts)
    <3>1. result # "pending"
      BY DEF Reported
    <3>2. In(ts, "pending") = {}
      BY <1>2, <1>3, <3>1 DEF In, Statuses
    <3> QED
      BY <1>3, <1>4, <1>7, <3>2 DEF AllTasksTerminal
  <2> QED
    BY <1>2, <1>3, <1>5, <1>7, <2>1, FinishStep
<1> QED
  BY <1>6, <1>7

LEMMA NextStep ==
    ASSUME IInv, [Next]_vars
    PROVE  IInv' /\ StepOK
<1>1. CASE \E now \in Now : Tick(now)
  BY <1>1, TickStep
<1>2. CASE \E now \in Now : Cancel(now)
  BY <1>2, CancelStep
<1>3. CASE \E task \in alive : Report(task)
  BY <1>3, RunningTaskEventStep, CancellingTaskEventStep DEF Report
<1>4. CASE UNCHANGED vars
  <2>1. UNCHANGED <<plan, elapsedMs, scopeStatus, terminalIntent, terminalTaskId,
                    tasks, alive, asked, announced>>
    BY <1>4 DEF vars, state
  <2>2. IInv'
    BY <2>1 DEF IInv, TypeOK, NoOrphans, EveryoneToldToStop, CapacityUsed,
                OutcomeJustified, NoSuccessYet, TimedOut
  <2>3. StepOK
    BY <2>1 DEF StepOK, DeadlineStep, StatusStep, ContractStep
  <2> QED
    BY <2>2, <2>3
<1> QED
  BY <1>1, <1>2, <1>3, <1>4 DEF Next

(* The invariant holds throughout every behaviour of the specification.    *)
THEOREM Invariant == Spec => []IInv
<1>1. IInv /\ [Next]_vars => IInv'
  BY NextStep
<1> QED
  BY InitIInv, <1>1, PTL DEF Spec

-----------------------------------------------------------------------------
(* The theorems.                                                           *)

(* Every value keeps its type.                                             *)
THEOREM TypeCorrect == Spec => []TypeOK
<1>1. IInv => TypeOK
  BY DEF IInv
<1> QED
  BY Invariant, <1>1, PTL

(* An outcome is announced once, by a scope none of whose tasks is still   *)
(* alive.                                                                  *)
THEOREM NoTaskOutlivesItsScope == Spec => []NoOrphans
<1>1. IInv => NoOrphans
  BY DEF IInv
<1> QED
  BY Invariant, <1>1, PTL

(* A scope that waits for its tasks to end has told each of them to stop.  *)
THEOREM WaitedForMeansTold == Spec => []EveryoneToldToStop
<1>1. IInv => EveryoneToldToStop
  BY DEF IInv
<1> QED
  BY Invariant, <1>1, PTL

(* The concurrency limit is never exceeded, and a running scope is never   *)
(* below it while tasks wait.                                              *)
THEOREM CapacityIsUsed == Spec => []CapacityUsed
<1>1. IInv => CapacityUsed
  BY DEF IInv
<1> QED
  BY Invariant, <1>1, PTL

(* The outcome is the one the completion policy asks for.                  *)
THEOREM OutcomeIsJustified == Spec => []OutcomeJustified
<1>1. IInv => OutcomeJustified
  BY DEF IInv
<1> QED
  BY Invariant, <1>1, PTL

(* A decision is final, and is the timeout exactly when it is made at or   *)
(* after the deadline.                                                     *)
THEOREM DeadlineIsDecisive == Spec => DeadlineDecides
<1>1. IInv /\ [Next]_vars => DeadlineStep
  BY NextStep DEF StepOK
<1> QED
  BY Invariant, <1>1, PTL DEF Spec, DeadlineDecides, DeadlineStep

(* The status of a task only moves forward.                                *)
THEOREM StatusMovesForward == Spec => StatusForward
<1>1. IInv /\ [Next]_vars => StatusStep
  BY NextStep DEF StepOK
<1> QED
  BY Invariant, <1>1, PTL DEF Spec, StatusForward, StatusStep

(* The reducer and its host implement the contract of a structured await.  *)
THEOREM StructuredAwaitImplementsContract == Spec => ImplementsContract
<1>1. Init => Contract!Init
  BY DEF Init, Contract!Init
<1>2. IInv /\ [Next]_vars => ContractStep
  BY NextStep DEF StepOK
<1> QED
  BY Invariant, <1>1, <1>2, PTL
     DEF Spec, ImplementsContract, Contract!Spec, ContractStep
=============================================================================
