------------------------- MODULE GenerationStoreProofs -------------------------
(***************************************************************************)
(* The invariants of GenerationStore, for any set of calls and any number  *)
(* of power losses.                                                        *)
(*                                                                         *)
(* WholeOrAbsent and OwnReceiptStands rest on who may do what to the final *)
(* name: linking needs it free, taking back is done by the call whose file *)
(* has it, and a file is linked only when it is on disk.                   *)
(***************************************************************************)
EXTENDS GenerationStore, TLAPS

(* A call that may still take its file back owns the final name: link      *)
(* refuses a name that is taken, so no two calls ever hold it.             *)
OneTakesBack ==
    /\ \A p \in published : final = p
    /\ \A p \in Publishers : pc[p] \in {"reopen", "proveOwn"} => p \in published

(* What is about to be linked is on disk, and so is what has been.         *)
StagedOnDisk ==
    /\ \A p \in Publishers :
           /\ pc[p] = "sync" => p \in whole
           /\ pc[p] = "link" => p \in whole \cap synced
    /\ names \ {None} \subseteq whole \cap synced

IInv == TypeOK /\ OneTakesBack /\ StagedOnDisk /\ OwnReceiptStands

LEMMA Establishes == Init => IInv
  BY NoneAssumption, LossesAssumption
  DEF Init, IInv, TypeOK, OneTakesBack, StagedOnDisk, OwnReceiptStands, Step

(* The steps that change no file and go on with the call.                  *)
Quiet(p) ==
    \/ LookFound(p) \/ LookFailed(p) \/ Recheck(p) \/ RecheckFailed(p)
    \/ Open(p) \/ LinkTaken(p) \/ Found(p) \/ Reopen(p) \/ Throw(p)
    \/ Unproven(p)

LEMMA QuietKeeps ==
  ASSUME IInv, NEW p \in Publishers, Quiet(p)
  PROVE  IInv'
<1> DEFINE to == pc'[p]
<1>1. /\ UNCHANGED <<files, published, losses>>
      /\ pc' = [pc EXCEPT ![p] = to]
      /\ to \in Step
      /\ to \notin {"sync", "link", "reopen", "returnedOwn"}
      /\ to = "proveOwn" => pc[p] = "reopen"
      /\ pc[p] \in {"reopen", "proveOwn"} => to \in {"proveOwn", "cleanup"}
      /\ pc[p] # "cleanup"
  BY DEF Quiet, IInv, TypeOK, Step, GoTo, LookFound, LookFailed, Recheck, RecheckFailed,
         Open, LinkTaken, Found, Reopen, Throw, Unproven
<1> QED
  BY <1>1 DEF IInv, TypeOK, OneTakesBack, StagedOnDisk, OwnReceiptStands, files

LEMMA StagingKeeps ==
  ASSUME IInv, NEW p \in Publishers, Write(p) \/ Sync(p)
  PROVE  IInv'
  BY DEF IInv, TypeOK, OneTakesBack, StagedOnDisk, OwnReceiptStands, Step, GoTo,
         Write, Sync

LEMMA LinkKeeps ==
  ASSUME IInv, NEW p \in Publishers, Link(p)
  PROVE  IInv'
<1>1. published = {}
  BY NoneAssumption DEF IInv, TypeOK, OneTakesBack, Link
<1>2. \A q \in Publishers : pc[q] # "returnedOwn"
  BY NoneAssumption DEF IInv, TypeOK, OwnReceiptStands, Link
<1> QED
  BY <1>1, <1>2
  DEF IInv, TypeOK, OneTakesBack, StagedOnDisk, OwnReceiptStands, Step, GoTo, Link

LEMMA ProveKeeps ==
  ASSUME IInv, NEW p \in Publishers, Prove(p)
  PROVE  IInv'
<1>1. pc[p] = "proveOwn" => final = p
  BY DEF IInv, OneTakesBack
<1>2. \A q \in Publishers : pc[q] = "returnedOwn" => final = q
  BY DEF IInv, TypeOK, OwnReceiptStands
<1> QED
  BY <1>1, <1>2
  DEF IInv, TypeOK, OneTakesBack, StagedOnDisk, OwnReceiptStands, Step, GoTo, Prove

LEMMA EndingKeeps ==
  ASSUME IInv, NEW p \in Publishers, LeaveBehind(p) \/ Die(p)
  PROVE  IInv'
  BY DEF IInv, TypeOK, OneTakesBack, StagedOnDisk, OwnReceiptStands, Step, GoTo,
         LeaveBehind, Die, Ended, files

(* The call that takes its file back owns the name, so no other call holds *)
(* it, and no call that returned a receipt of its own has it.              *)
LEMMA TakeBackKeeps ==
  ASSUME IInv, NEW p \in Publishers, TakeBack(p)
  PROVE  IInv'
<1>1. final = p /\ published = {p}
  BY DEF IInv, TypeOK, OneTakesBack, TakeBack
<1>2. \A q \in Publishers : pc[q] # "returnedOwn"
  BY <1>1 DEF IInv, TypeOK, OwnReceiptStands, TakeBack
<1> QED
  BY <1>1, <1>2
  DEF IInv, TypeOK, OneTakesBack, StagedOnDisk, OwnReceiptStands, Step, GoTo, TakeBack

LEMMA PowerFailsKeeps ==
  ASSUME IInv, PowerFails
  PROVE  IInv'
<1>1. /\ final' \in Publishers \cup {None} /\ final' \in names
      /\ names' = {final'}
      /\ synced' = synced /\ published' = {}
      /\ losses' \in 0 .. MaxLosses
  BY LossesAssumption DEF IInv, TypeOK, PowerFails
<1>2. /\ whole' \subseteq Publishers
      /\ whole \cap synced \subseteq whole'
  BY DEF IInv, TypeOK, PowerFails
<1>3. /\ pc' \in [Publishers -> Step]
      /\ \A q \in Publishers :
             /\ pc'[q] \in {"look", "refused", "returned", "returnedOwn"}
             /\ pc'[q] = "returnedOwn" => pc[q] = "returnedOwn"
  BY DEF IInv, TypeOK, PowerFails, Step, Ended
<1>4. TypeOK'
  BY <1>1, <1>2, <1>3 DEF IInv, TypeOK
<1>5. OneTakesBack'
  BY <1>1, <1>3 DEF OneTakesBack
<1>6. StagedOnDisk'
  BY <1>1, <1>2, <1>3 DEF IInv, StagedOnDisk
<1>7. OwnReceiptStands'
  BY <1>1, <1>3 DEF IInv, OwnReceiptStands
<1> QED
  BY <1>4, <1>5, <1>6, <1>7 DEF IInv

LEMMA Preserves == IInv /\ [Next]_vars => IInv'
<1> SUFFICES ASSUME IInv, [Next]_vars PROVE IInv'
  OBVIOUS
<1>1. CASE PowerFails
  BY <1>1, PowerFailsKeeps
<1>2. ASSUME NEW p \in Publishers, Publish(p) PROVE IInv'
  <2>1. \/ Quiet(p) \/ Write(p) \/ Sync(p) \/ Link(p) \/ Prove(p)
        \/ TakeBack(p) \/ LeaveBehind(p)
    BY <1>2 DEF Publish, Quiet
  <2> QED
    BY <2>1, QuietKeeps, StagingKeeps, LinkKeeps, ProveKeeps, TakeBackKeeps, EndingKeeps
<1>3. ASSUME NEW p \in Publishers, Die(p) PROVE IInv'
  BY <1>3, EndingKeeps
<1>4. CASE UNCHANGED vars
  BY <1>4
  DEF IInv, TypeOK, OneTakesBack, StagedOnDisk, OwnReceiptStands, vars, files
<1> QED
  BY <1>1, <1>2, <1>3, <1>4 DEF Next

THEOREM Invariance == Spec => []IInv
  BY Establishes, Preserves, PTL DEF Spec

(* The types, and that no call that has ended still claims a file.         *)
THEOREM TypeCorrect == Spec => []TypeOK
<1>1. IInv => TypeOK
  BY DEF IInv
<1> QED
  BY Invariance, <1>1, PTL

(* Through any number of power losses and failing calls, a file under the  *)
(* final name has all its bytes: content is flushed before it is linked.   *)
THEOREM NeverTorn == Spec => []WholeOrAbsent
<1>1. IInv => WholeOrAbsent
  BY DEF IInv, StagedOnDisk, WholeOrAbsent
<1> QED
  BY Invariance, <1>1, PTL

(* A receipt for a file the call has linked itself is final: no failing    *)
(* call takes that file back and no loss of power reverts its name.        *)
THEOREM OwnReceiptFinal == Spec => []OwnReceiptStands
<1>1. IInv => OwnReceiptStands
  BY DEF IInv
<1> QED
  BY Invariance, <1>1, PTL
=============================================================================
