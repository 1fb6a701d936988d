----------------------------- MODULE AwaitContract -----------------------------
(***************************************************************************)
(* What a structured await promises its caller, whatever the completion    *)
(* policy: a scope decides its outcome once, starts nothing afterwards,    *)
(* and is done only when none of the tasks it started is still alive.      *)
(***************************************************************************)
CONSTANTS
    Outcomes,     \* how a scope can end
    Undecided     \* the decision before there is one

VARIABLES
    decision,     \* the outcome, or Undecided
    live,         \* the tasks that have been started and are not over
    done          \* the caller has been told

Init == decision = Undecided /\ done = FALSE

(* Tasks come and go while nothing is decided.                             *)
Work ==
    /\ decision = Undecided
    /\ UNCHANGED <<decision, done>>

Decide ==
    /\ decision = Undecided
    /\ decision' \in Outcomes
    /\ live' \subseteq live
    /\ done' = (live' = {})

(* Tasks end one way or another; the caller is told with the last of them. *)
Drain ==
    /\ decision # Undecided
    /\ ~done
    /\ live' \subseteq live
    /\ done' = (live' = {})
    /\ UNCHANGED decision

Next == Work \/ Decide \/ Drain

Spec == Init /\ [][Next]_<<decision, live, done>>
=============================================================================
