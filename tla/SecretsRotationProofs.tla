------------------------- MODULE SecretsRotationProofs -------------------------
(***************************************************************************)
(* The invariants of SecretsRotation, for any number of calls and secrets. *)
(*                                                                         *)
(* What is in memory is tied to who owns it: a call that is answered and   *)
(* not over owns its buffer, a handle in place owns the buffer of a call   *)
(* that is over, and one rotation at a time is in flight, the one that     *)
(* holds the lease.                                                        *)
(***************************************************************************)
EXTENDS SecretsRotation, TLAPS

Rotating(c) == kind[c] \in Rotation /\ InFlight(c)

(* The lease is held by every rotation in flight, so there is at most one. *)
OneRotation ==
    \A c \in Calls :
        /\ InFlight(c) => kind[c] # "none"
        /\ Rotating(c) => /\ lease = c
                          /\ target[c] \in Calls
                          /\ stage[target[c]] = "done"

(* The handle in place was installed, and its buffer filled, by calls that *)
(* are over; a handle that is not installed yet names its own buffer.      *)
HandlesOver ==
    /\ live # None => stage[live] = "done" /\ stage[active[live]] = "done"
    /\ \A c \in Calls : stage[c] # "done" => active[c] = c

AnsweredHeld == \A c \in Calls : stage[c] = "answered" => c \in held

(* A rotation of the handle in place brings nothing older than what the    *)
(* handle has.                                                             *)
NothingOlder ==
    /\ \A c \in Calls : secret[c] =< issued
    /\ \A c \in Calls : Rotating(c) /\ target[c] = live /\ live # None =>
           secret[active[live]] =<
               (IF stage[c] = "answered" THEN secret[c] ELSE issued)

Owned == OneRotation /\ HandlesOver /\ AnsweredHeld

IInv == TypeOK /\ Owned /\ NeverServesWiped /\ NothingLeftBehind /\ NothingOlder

LEMMA CallsNotNone == \A c \in Calls : c # None /\ c \in Nat
  BY BoundsAssumption DEF Calls, None

LEMMA Establishes == Init => IInv
<1> SUFFICES ASSUME Init PROVE IInv
  OBVIOUS
<1>1. TypeOK
  <2>1. issued \in 1 .. MaxIssued /\ 0 \in 0 .. MaxIssued
    BY BoundsAssumption DEF Init
  <2>2. /\ kind \in [Calls -> {"none", "load"} \cup Rotation]
        /\ stage \in [Calls -> Stage]
        /\ secret \in [Calls -> 0 .. MaxIssued]
        /\ target \in [Calls -> Calls \cup {None}]
        /\ active \in [Calls -> Calls]
    BY <2>1 DEF Init, Stage
  <2> QED
    BY <2>1, <2>2 DEF Init, TypeOK
<1>2. Owned /\ NeverServesWiped /\ NothingLeftBehind /\ NothingOlder
  BY DEF Init, Owned, OneRotation, HandlesOver, AnsweredHeld, NothingOlder,
         NeverServesWiped, NothingLeftBehind, Serves, Rotating, InFlight
<1> QED
  BY <1>1, <1>2 DEF IInv

LEMMA IssueKeeps == IInv /\ Issue => IInv'
  BY BoundsAssumption, CallsNotNone
  DEF Issue, IInv, TypeOK, Owned, OneRotation, HandlesOver, AnsweredHeld, NothingOlder,
      NeverServesWiped, NothingLeftBehind, Serves, Rotating, InFlight, calls, manager, None

(* A call that begins owns nothing yet.                                    *)
LEMMA BeginKeeps ==
  ASSUME IInv, NEW c \in Calls, NEW k \in Rotation, Load(c) \/ Rotate(c, k) \/ Refuse(c, k)
  PROVE  IInv'
<1>1. stage[c] = "idle"
  BY DEF Load, Rotate, Refuse, CanCall
<1>2. TypeOK'
  BY <1>1, CallsNotNone
  DEF IInv, TypeOK, Load, Rotate, Refuse, manager, Rotation, Policy, Stage, InFlight, None
<1>3. OneRotation'
  BY <1>1, CallsNotNone
  DEF IInv, TypeOK, Owned, OneRotation, HandlesOver, Rotating, InFlight, Load, Rotate,
      Refuse, manager, Rotation, Policy, None
<1>4. HandlesOver' /\ AnsweredHeld'
  BY <1>1, CallsNotNone
  DEF IInv, TypeOK, Owned, HandlesOver, AnsweredHeld, Load, Rotate, Refuse, manager, None
<1>5. NeverServesWiped' /\ NothingLeftBehind'
  BY <1>1
  DEF IInv, TypeOK, NeverServesWiped, NothingLeftBehind, Serves, Load, Rotate, Refuse, manager
<1>6. NothingOlder'
  BY <1>1, CallsNotNone
  DEF IInv, TypeOK, NothingOlder, Rotating, InFlight, Load, Rotate, Refuse, manager,
      Rotation, Policy, None
<1> QED
  BY <1>2, <1>3, <1>4, <1>5, <1>6 DEF IInv, Owned

LEMMA AnswerKeeps ==
  ASSUME IInv, NEW c \in Calls, Answer(c)
  PROVE  IInv'
<1>1. stage[c] = "reading" /\ (live # None => active[live] # c)
  BY DEF Answer, IInv, Owned, HandlesOver
<1>2. TypeOK'
  BY DEF IInv, TypeOK, Answer, manager, Stage, InFlight
<1>3. Owned'
  BY <1>1
  DEF IInv, TypeOK, Owned, OneRotation, HandlesOver, AnsweredHeld, Rotating, InFlight, Answer, manager
<1>4. NeverServesWiped' /\ NothingLeftBehind'
  BY DEF IInv, TypeOK, NeverServesWiped, NothingLeftBehind, Serves, Answer, manager
<1>5. NothingOlder'
  BY <1>1, CallsNotNone
  DEF IInv, TypeOK, NothingOlder, Rotating, InFlight, Answer, manager, None
<1> QED
  BY <1>2, <1>3, <1>4, <1>5 DEF IInv

LEMMA ReadFailsKeeps ==
  ASSUME IInv, NEW c \in Calls, ReadFails(c)
  PROVE  IInv'
<1>1. stage[c] = "reading" /\ (live # None => active[live] # c) /\ c \notin held
  BY DEF ReadFails, IInv, Owned, HandlesOver, NothingLeftBehind
<1>2. TypeOK'
  BY CallsNotNone
  DEF IInv, TypeOK, Owned, OneRotation, Rotating, ReadFails, End, Fail, Stage, InFlight, None, Rotation, Policy
<1>3. kind[c] # "load" => \A d \in Calls : Rotating(d) => d = c
  BY <1>1 DEF IInv, TypeOK, Owned, OneRotation, Rotating, InFlight
<1>4. Owned'
  BY <1>1, <1>3, CallsNotNone
  DEF IInv, TypeOK, Owned, OneRotation, HandlesOver, AnsweredHeld, Rotating, InFlight, ReadFails,
      End, Fail, None, Rotation, Policy
<1>5. NeverServesWiped' /\ NothingLeftBehind'
  BY <1>1 DEF IInv, TypeOK, NeverServesWiped, NothingLeftBehind, Serves, ReadFails, End, Fail
<1>6. NothingOlder'
  BY <1>1, CallsNotNone
  DEF IInv, TypeOK, NothingOlder, Rotating, InFlight, ReadFails, End, Fail, None, Rotation, Policy
<1> QED
  BY <1>2, <1>4, <1>5, <1>6 DEF IInv

LEMMA InstallKeeps ==
  ASSUME IInv, NEW c \in Calls, Install(c)
  PROVE  IInv'
<1>1. /\ stage[c] = "answered" /\ c \in held /\ active[c] = c
      /\ live # None => active[live] # c /\ live # c
  BY DEF Install, IInv, Owned, HandlesOver, AnsweredHeld
<1>2. TypeOK'
  BY CallsNotNone
  DEF IInv, TypeOK, Install, End, WipeLive, Stage, InFlight, None, Rotation, Policy
<1>3. Owned'
  BY <1>1, CallsNotNone
  DEF IInv, TypeOK, Owned, OneRotation, HandlesOver, AnsweredHeld, Rotating, InFlight, Install,
      End, WipeLive, None, Rotation, Policy
<1>4. NeverServesWiped' /\ NothingLeftBehind'
  BY <1>1, CallsNotNone
  DEF IInv, TypeOK, NeverServesWiped, NothingLeftBehind, Serves, Install, End, WipeLive, None
<1>5. NothingOlder'
  BY <1>1, CallsNotNone
  DEF IInv, TypeOK, Owned, OneRotation, NothingOlder, Rotating, InFlight, Install, End, None,
      Rotation, Policy
<1> QED
  BY <1>2, <1>3, <1>4, <1>5 DEF IInv

LEMMA CommitKeeps ==
  ASSUME IInv, NEW c \in Calls, Commit(c)
  PROVE  IInv'
<1>1. /\ stage[c] = "answered" /\ kind[c] \in Rotation /\ c \in held
      /\ live = target[c] /\ live \in Calls /\ live # c /\ active[live] # c
      /\ lease = c /\ \A d \in Calls : Rotating(d) => d = c
  BY CallsNotNone
  DEF Commit, IInv, TypeOK, Owned, OneRotation, HandlesOver, AnsweredHeld, Rotating, InFlight
<1>2. TypeOK'
  BY <1>1, CallsNotNone DEF IInv, TypeOK, Commit, End, WipeLive, Stage, None
<1>3. Owned'
  BY <1>1, CallsNotNone
  DEF IInv, TypeOK, Owned, OneRotation, HandlesOver, AnsweredHeld, Rotating, InFlight, Commit,
      End, WipeLive, None, Rotation, Policy
<1>4. NeverServesWiped' /\ NothingLeftBehind'
  BY <1>1, CallsNotNone
  DEF IInv, TypeOK, NeverServesWiped, NothingLeftBehind, Serves, Commit, End, WipeLive, None
<1>5. NothingOlder'
  BY <1>1, CallsNotNone
  DEF IInv, TypeOK, NothingOlder, Rotating, InFlight, Commit, End, None, Rotation, Policy
<1> QED
  BY <1>2, <1>3, <1>4, <1>5 DEF IInv

LEMMA ChangedKeeps ==
  ASSUME IInv, NEW c \in Calls, Changed(c)
  PROVE  IInv'
<1>1. /\ stage[c] = "answered" /\ kind[c] \in Rotation
      /\ live # None => active[live] # c
      /\ lease = c /\ \A d \in Calls : Rotating(d) => d = c
  BY DEF Changed, IInv, TypeOK, Owned, OneRotation, HandlesOver, Rotating, InFlight
<1>2. TypeOK'
  BY <1>1, CallsNotNone DEF IInv, TypeOK, Changed, Fail, Stage, None
<1>3. Owned'
  BY <1>1, CallsNotNone
  DEF IInv, TypeOK, Owned, OneRotation, HandlesOver, AnsweredHeld, Rotating, InFlight, Changed,
      Fail, None
<1>4. NeverServesWiped' /\ NothingLeftBehind'
  BY <1>1, CallsNotNone
  DEF IInv, TypeOK, NeverServesWiped, NothingLeftBehind, Serves, Changed, Fail, None
<1>5. NothingOlder'
  BY <1>1, CallsNotNone
  DEF IInv, TypeOK, NothingOlder, Rotating, InFlight, Changed, Fail, None
<1> QED
  BY <1>2, <1>3, <1>4, <1>5 DEF IInv

LEMMA ApplyPolicyKeeps ==
  ASSUME IInv, NEW c \in Calls, ApplyPolicy(c)
  PROVE  IInv'
<1>1. /\ stage[c] = "failed"
      /\ live' \in {live, None}
      /\ held' \in {held, WipeLive}
      /\ held' # held => live' = None \/ (live' = live /\ live \in faulted')
      /\ live' # live => held' = WipeLive
      /\ faulted \subseteq faulted' /\ faulted' \subseteq Calls
  BY CallsNotNone DEF ApplyPolicy, IInv, TypeOK, WipeLive, None
<1>2. /\ stage' = [stage EXCEPT ![c] = "done"]
      /\ kind' = [kind EXCEPT ![c] = "none"]
      /\ target' = [target EXCEPT ![c] = None]
      /\ UNCHANGED <<issued, secret, active, lease, stopped>>
  BY DEF ApplyPolicy, End
<1>3. TypeOK'
  BY <1>1, <1>2, CallsNotNone
  DEF IInv, TypeOK, WipeLive, Stage, None, InFlight, Rotation, Policy
<1>4. Owned'
  BY <1>1, <1>2, CallsNotNone
  DEF IInv, TypeOK, Owned, OneRotation, HandlesOver, AnsweredHeld, Rotating, InFlight,
      WipeLive, None, Rotation, Policy
<1>5. NeverServesWiped' /\ NothingLeftBehind'
  BY <1>1, <1>2, CallsNotNone
  DEF IInv, TypeOK, NeverServesWiped, NothingLeftBehind, Serves, WipeLive, None
<1>6. NothingOlder'
  BY <1>1, <1>2, CallsNotNone
  DEF IInv, TypeOK, NothingOlder, Rotating, InFlight, None, Rotation, Policy
<1> QED
  BY <1>3, <1>4, <1>5, <1>6 DEF IInv

LEMMA DisposeKeeps == IInv /\ Dispose => IInv'
  BY CallsNotNone
  DEF IInv, TypeOK, Owned, OneRotation, HandlesOver, AnsweredHeld, NothingOlder,
      NeverServesWiped, NothingLeftBehind, Serves, Rotating, InFlight, Dispose, WipeLive, None

LEMMA Preserves == IInv /\ [Next]_vars => IInv'
<1> SUFFICES ASSUME IInv, [Next]_vars PROVE IInv'
  OBVIOUS
<1>1. CASE Issue
  BY <1>1, IssueKeeps
<1>2. CASE Dispose
  BY <1>2, DisposeKeeps
<1>3. ASSUME NEW c \in Calls, Load(c) PROVE IInv'
  BY <1>3, BeginKeeps DEF Rotation, Policy
<1>4. ASSUME NEW c \in Calls, NEW k \in Rotation, Rotate(c, k) \/ Refuse(c, k) PROVE IInv'
  BY <1>4, BeginKeeps
<1>5. ASSUME NEW c \in Calls, Answer(c) \/ ReadFails(c) PROVE IInv'
  BY <1>5, AnswerKeeps, ReadFailsKeeps
<1>6. ASSUME NEW c \in Calls, Continue(c) PROVE IInv'
  BY <1>6, InstallKeeps, CommitKeeps, ChangedKeeps DEF Continue
<1>7. ASSUME NEW c \in Calls, ApplyPolicy(c) PROVE IInv'
  BY <1>7, ApplyPolicyKeeps
<1>8. CASE UNCHANGED vars
  BY <1>8
  DEF IInv, TypeOK, Owned, OneRotation, HandlesOver, AnsweredHeld, NothingOlder,
      NeverServesWiped, NothingLeftBehind, Serves, Rotating, InFlight, vars, calls, manager
<1> QED
  BY <1>1, <1>2, <1>3, <1>4, <1>5, <1>6, <1>7, <1>8 DEF Next

THEOREM Invariance == Spec => []IInv
  BY Establishes, Preserves, PTL DEF Spec

(* The types; whoever holds the lease is a rotation still in flight.       *)
THEOREM TypeCorrect == Spec => []TypeOK
<1>1. IInv => TypeOK
  BY DEF IInv
<1> QED
  BY Invariance, <1>1, PTL

(* useActive hands out a buffer that is filled, whatever policies and      *)
(* disposals struck while rotations were in flight.                        *)
THEOREM ServedIsFilled == Spec => []NeverServesWiped
<1>1. IInv => NeverServesWiped
  BY DEF IInv
<1> QED
  BY Invariance, <1>1, PTL

(* No secret is left in memory but the live handle's and those of calls    *)
(* still in flight.                                                        *)
THEOREM NothingLeaks == Spec => []NothingLeftBehind
<1>1. IInv => NothingLeftBehind
  BY DEF IInv
<1> QED
  BY Invariance, <1>1, PTL

(* The value of a handle that stays in place is never replaced by an       *)
(* older one: only Commit replaces it, under the lease.                    *)
THEOREM NoRollback == Spec => RotationNeverRollsBack
<1> DEFINE Forward == live # None /\ live' = live =>
                          secret'[active'[live]] >= secret[active[live]]
<1>1. ASSUME IInv, [Next]_vars PROVE [Forward]_vars
  <2> SUFFICES ASSUME Next, live # None, live' = live
               PROVE  secret'[active'[live]] >= secret[active[live]]
    BY <1>1
  <2>1. /\ live \in Calls /\ active[live] \in Calls
        /\ secret[active[live]] \in Nat
        /\ stage[live] = "done" /\ stage[active[live]] = "done"
    BY <1>1, BoundsAssumption DEF IInv, TypeOK, Owned, HandlesOver
  <2>2. ASSUME UNCHANGED <<secret, active>>
        PROVE  secret'[active'[live]] >= secret[active[live]]
    BY <2>1, <2>2
  <2>3. ASSUME NEW c \in Calls, Commit(c)
        PROVE  secret'[active'[live]] >= secret[active[live]]
    <3>1. /\ Rotating(c) /\ target[c] = live /\ stage[c] = "answered"
          /\ active'[live] = c /\ secret' = secret
      BY <2>1, <2>3, <1>1 DEF Commit, Rotating, InFlight, IInv, TypeOK
    <3>2. secret[active[live]] =< secret[c] /\ secret[c] \in Nat
      BY <3>1, <1>1, BoundsAssumption DEF IInv, NothingOlder, TypeOK
    <3> QED
      BY <2>1, <3>1, <3>2
  <2>4. ASSUME NEW c \in Calls, Answer(c)
        PROVE  secret'[active'[live]] >= secret[active[live]]
    BY <2>1, <2>4, <1>1 DEF Answer, manager, IInv, TypeOK
  <2> QED
    BY <2>2, <2>3, <2>4
    DEF Next, Issue, Dispose, Load, Rotate, Refuse, ReadFails, Continue, Install, Changed,
        ApplyPolicy, calls, manager
<1> QED
  BY Invariance, Preserves, <1>1, PTL DEF Spec, RotationNeverRollsBack
=============================================================================
