---------------------------- MODULE SecretsRotation ----------------------------
(***************************************************************************)
(* The secrets manager of                                                  *)
(* galerina-ext-secrets-vault/src/rotation-manager.ts, for one credential; *)
(* what it keeps about one credential it never reads for another.          *)
(*                                                                         *)
(* load, rotate and rotateOrFault are asynchronous: each call reads the    *)
(* secret from the vault and goes on when the answer arrives, and calls    *)
(* overlap as the callers and the sweep's timer please.  What a call does  *)
(* between two awaits is one step.  The vault may put a newer secret in    *)
(* place at any time, also between answering a read and the arrival of     *)
(* that answer.                                                            *)
(*                                                                         *)
(* Calls are numbered in the order they are made.  A call owns the buffer  *)
(* its read filled, so a call names that buffer, and a load also names the *)
(* handle it installs.  The staging slot of a handle is always null and    *)
(* its version number decides nothing, so both are left out.               *)
(***************************************************************************)
EXTENDS Naturals

CONSTANTS
    MaxCalls,  \* how many calls of load, rotate and rotateOrFault are made
    MaxIssued  \* how many secrets the vault issues, one after the other

ASSUME BoundsAssumption == MaxCalls \in Nat /\ MaxIssued \in Nat \ {0}

Calls == 1 .. MaxCalls

(* undefined: no handle, no lease                                          *)
None == 0

VARIABLES
    issued,    \* the number of the secret the vault holds
    kind,      \* what each call in progress is
    stage,     \* how far it has come
    secret,    \* the number of the secret its read returned
    held,      \* the calls whose buffer has content: filled and not wiped
    target,    \* the handle a rotation captured before its first await
    live,      \* handles.get(id): the load that installed the handle
    active,    \* the activeValue of each handle: the call that owns the buffer
    faulted,   \* the handles that are marked faulted
    lease,     \* rotations.get(id)
    stopped    \* dispose has been called

calls == <<kind, stage, secret, held, target>>
manager == <<live, active, faulted, lease, stopped>>
vars == <<issued, calls, manager>>

(* rotateOrFault is named by its fault policy.                             *)
Policy == {"halt", "quarantine", "log"}
Rotation == {"rotate"} \cup Policy
Stage == {"idle", "reading", "answered", "failed", "done"}

InFlight(c) == stage[c] \in {"reading", "answered"}

Init ==
    /\ issued = 1
    /\ kind = [c \in Calls |-> "none"]
    /\ stage = [c \in Calls |-> "idle"]
    /\ secret = [c \in Calls |-> 0]
    /\ held = {}
    /\ target = [c \in Calls |-> None]
    /\ live = None
    /\ active = [c \in Calls |-> c]
    /\ faulted = {}
    /\ lease = None
    /\ stopped = FALSE

(* The vault's operator puts the next secret in place.                     *)
Issue ==
    /\ issued < MaxIssued
    /\ issued' = issued + 1
    /\ UNCHANGED <<calls, manager>>

(* A call is over; what it was and had captured is forgotten.              *)
End(c) ==
    /\ stage' = [stage EXCEPT ![c] = "done"]
    /\ kind' = [kind EXCEPT ![c] = "none"]
    /\ target' = [target EXCEPT ![c] = None]

(* The buffer of the handle in place is filled with zeros.                 *)
WipeLive == held \ {active[h] : h \in {live} \ {None}}

-----------------------------------------------------------------------------
(* The calls.  The program makes none after it has disposed the manager.   *)

CanCall(c) ==
    /\ stage[c] = "idle" /\ ~stopped
    /\ c > 1 => stage[c - 1] # "idle"

Load(c) ==
    /\ CanCall(c)
    /\ kind' = [kind EXCEPT ![c] = "load"]
    /\ stage' = [stage EXCEPT ![c] = "reading"]
    /\ UNCHANGED <<issued, secret, held, target, manager>>

(* Mutant: no lease is looked at.                                          *)
RotateUnleased(c, k) ==
    /\ CanCall(c)
    /\ live # None
    /\ kind' = [kind EXCEPT ![c] = k]
    /\ stage' = [stage EXCEPT ![c] = "reading"]
    /\ target' = [target EXCEPT ![c] = live]
    /\ lease' = c
    /\ UNCHANGED <<issued, secret, held, live, active, faulted, stopped>>

Rotate(c, k) ==
    /\ CanCall(c)
    /\ lease = None /\ live # None
    /\ kind' = [kind EXCEPT ![c] = k]
    /\ stage' = [stage EXCEPT ![c] = "reading"]
    /\ target' = [target EXCEPT ![c] = live]
    /\ lease' = c
    /\ UNCHANGED <<issued, secret, held, live, active, faulted, stopped>>

(* Another rotation holds the lease, or the credential is unknown.         *)
Refuse(c, k) ==
    /\ CanCall(c)
    /\ lease # None \/ live = None
    /\ kind' = [kind EXCEPT ![c] = k]
    /\ stage' = [stage EXCEPT ![c] = "failed"]
    /\ UNCHANGED <<issued, secret, held, target, manager>>

(* A rotation throws; its caller has not seen it yet.                      *)
Fail(c) ==
    /\ stage' = [stage EXCEPT ![c] = "failed"]
    /\ target' = [target EXCEPT ![c] = None]
    /\ UNCHANGED kind

(* The vault answers with the secret of this moment.                       *)
Answer(c) ==
    /\ stage[c] = "reading"
    /\ stage' = [stage EXCEPT ![c] = "answered"]
    /\ secret' = [secret EXCEPT ![c] = issued]
    /\ held' = held \cup {c}
    /\ UNCHANGED <<issued, kind, target, manager>>

(* Mutant: the request has no deadline and nothing else fails.             *)
ReadNeverFails(c) == FALSE /\ stage[c] = "reading" /\ UNCHANGED vars

(* Mutant: a failed rotation leaves its lease behind.                      *)
ReadFailsLeased(c) ==
    /\ stage[c] = "reading"
    /\ IF kind[c] = "load" THEN End(c) ELSE Fail(c)
    /\ UNCHANGED <<issued, secret, held, manager>>

(* The request fails, at the latest by its own deadline; rotate gives the  *)
(* lease back.                                                             *)
ReadFails(c) ==
    /\ stage[c] = "reading"
    /\ IF kind[c] = "load"
       THEN End(c) /\ UNCHANGED lease
       ELSE Fail(c) /\ lease' = None
    /\ UNCHANGED <<issued, secret, held, live, active, faulted, stopped>>

-----------------------------------------------------------------------------
(* The rest of each call, when the answer has arrived.                     *)

(* load wipes and replaces whatever handle is there by then.               *)
Install(c) ==
    /\ stage[c] = "answered" /\ kind[c] = "load"
    /\ End(c)
    /\ held' = WipeLive
    /\ live' = c
    /\ UNCHANGED <<issued, secret, active, faulted, lease, stopped>>

(* Mutant: the captured handle is written whether or not it is still live. *)
CommitUnchecked(c) ==
    /\ stage[c] = "answered" /\ kind[c] \in Rotation
    /\ End(c)
    /\ held' = held \ {active[target[c]]}
    /\ active' = [active EXCEPT ![target[c]] = c]
    /\ faulted' = IF kind[c] \in Policy THEN faulted \ {target[c]} ELSE faulted
    /\ lease' = None
    /\ UNCHANGED <<issued, secret, live, stopped>>

(* The quiesce timer: the handle is the captured one, its buffer is        *)
(* swapped and the old one wiped.  The awaits up to rotateOrFault resume   *)
(* in the timer's turn, with nothing between them.                         *)
Commit(c) ==
    /\ stage[c] = "answered" /\ kind[c] \in Rotation
    /\ target[c] = live
    /\ End(c)
    /\ held' = WipeLive
    /\ active' = [active EXCEPT ![live] = c]
    /\ faulted' = IF kind[c] \in Policy THEN faulted \ {live} ELSE faulted
    /\ lease' = None
    /\ UNCHANGED <<issued, secret, live, stopped>>

(* The quiesce timer: the handle was replaced or removed meanwhile.        *)
Changed(c) ==
    /\ stage[c] = "answered" /\ kind[c] \in Rotation
    /\ target[c] # live
    /\ Fail(c)
    /\ held' = held \ {c}
    /\ lease' = None
    /\ UNCHANGED <<issued, secret, live, active, faulted, stopped>>

(* Mutant: quarantine wipes the value and forgets the mark.                *)
ApplyPolicyUnmarked(c) ==
    /\ stage[c] = "failed"
    /\ End(c)
    /\ held' = IF kind[c] \in {"halt", "quarantine"} THEN WipeLive ELSE held
    /\ live' = IF kind[c] = "halt" THEN None ELSE live
    /\ UNCHANGED <<issued, secret, active, faulted, lease, stopped>>

(* The catch of rotateOrFault, on whatever handle is there by now; a plain *)
(* rotate only throws.                                                     *)
ApplyPolicy(c) ==
    /\ stage[c] = "failed"
    /\ End(c)
    /\ held' = IF kind[c] \in {"halt", "quarantine"} THEN WipeLive ELSE held
    /\ live' = IF kind[c] = "halt" THEN None ELSE live
    /\ faulted' = IF kind[c] = "quarantine" THEN faulted \cup ({live} \ {None}) ELSE faulted
    /\ UNCHANGED <<issued, secret, active, lease, stopped>>

Dispose ==
    /\ ~stopped
    /\ stopped' = TRUE
    /\ held' = WipeLive
    /\ live' = None
    /\ UNCHANGED <<issued, kind, stage, secret, target, active, faulted, lease>>

Continue(c) == Install(c) \/ Commit(c) \/ Changed(c)

Next ==
    \/ Issue
    \/ Dispose
    \/ \E c \in Calls :
           \/ Load(c)
           \/ \E k \in Rotation : Rotate(c, k) \/ Refuse(c, k)
           \/ Answer(c) \/ ReadFails(c)
           \/ Continue(c)
           \/ ApplyPolicy(c)

(* Nothing makes the vault answer, but a request has a hard deadline, and  *)
(* timers and resumptions run.                                             *)
Fairness ==
    \A c \in Calls : WF_vars(ReadFails(c)) /\ WF_vars(Continue(c)) /\ WF_vars(ApplyPolicy(c))

Spec == Init /\ [][Next]_vars /\ Fairness

-----------------------------------------------------------------------------
(* Properties.                                                             *)

(* The types; the lease belongs to a rotation that is still in flight.     *)
TypeOK ==
    /\ issued \in 1 .. MaxIssued
    /\ kind \in [Calls -> {"none", "load"} \cup Rotation]
    /\ stage \in [Calls -> Stage]
    /\ secret \in [Calls -> 0 .. MaxIssued]
    /\ held \subseteq Calls
    /\ target \in [Calls -> Calls \cup {None}]
    /\ live \in Calls \cup {None}
    /\ active \in [Calls -> Calls]
    /\ faulted \subseteq Calls
    /\ lease \in {c \in Calls : kind[c] \in Rotation /\ InFlight(c)} \cup {None}
    /\ stopped \in BOOLEAN

(* useActive copies the value out for its callback.                        *)
Serves == live # None /\ live \notin faulted

(* What useActive hands out is a secret and never a buffer of zeros,       *)
(* whatever fault policies struck while rotations were in flight.          *)
NeverServesWiped == Serves => active[live] \in held

(* Every secret still in memory is the live handle's, or belongs to a call *)
(* in flight: evicting, quarantining, replacing or disposing a handle      *)
(* under a rotation leaves no copy behind.                                 *)
NothingLeftBehind ==
    \A c \in held : stage[c] = "answered" \/ (live # None /\ c = active[live])

(* While a handle stays in place, its value is never replaced by one the   *)
(* vault issued earlier: overlapping rotations cannot commit in the wrong  *)
(* order.  A load replaces the handle, and may well install an older one.  *)
RotationNeverRollsBack ==
    [][live # None /\ live' = live =>
           secret'[active'[live]] >= secret[active[live]]]_vars

(* A rotation lease ends, even if the vault never answers.                 *)
LeaseEnds == \A c \in Calls : lease = c ~> lease # c
=============================================================================
