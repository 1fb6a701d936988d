---------------------------- MODULE GenerationStore ----------------------------
(***************************************************************************)
(* persistRegistryGeneration of                                            *)
(* galerina-framework-app-kernel/src/registry-generation-store.ts: calls,  *)
(* in one process or in several, that publish the same generation into the *)
(* same directory.                                                         *)
(*                                                                         *)
(* The file is named after the hash of its content, so every call writes   *)
(* the same bytes under the same name and never replaces a file.  Each     *)
(* call fills a staging file of its own and links it to the final name; a  *)
(* call that finds the name taken re-reads what is there.  Every await is  *)
(* an interleaving point and every file operation may throw.               *)
(*                                                                         *)
(* What the disk holds lags behind what the processes see: content is safe *)
(* after fsync, the directory entry after the durability adapter reported  *)
(* success.  A loss of power ends every call and reverts the name to any   *)
(* value it has had since that report; the death of a process ends one     *)
(* call, without its finally block.                                        *)
(*                                                                         *)
(* A staging file has a random name and no other call ever touches it, so  *)
(* only its content is kept here.                                          *)
(***************************************************************************)
EXTENDS Naturals

CONSTANTS
    Publishers,  \* the calls of persistRegistryGeneration
    None,        \* no file has the final name
    MaxLosses    \* how often the power fails

ASSUME NoneAssumption == None \notin Publishers
ASSUME LossesAssumption == MaxLosses \in Nat

VARIABLES
    pc,        \* where each call is
    final,     \* the call whose staging file has the final name
    names,     \* what the final name may refer to after a loss of power
    whole,     \* the calls whose staging file has all its bytes
    synced,    \* the calls whose staging file is on disk
    published, \* the calls with published set and completed not
    losses     \* how often the power has failed

files == <<final, names, whole, synced>>
vars == <<pc, files, published, losses>>

(* The directory is flushed in "prove" for a file that was in place when   *)
(* the call began, in "provePeer" for one found when linking and in        *)
(* "proveOwn" for the one this call has linked.                            *)
Step == {"look", "recheck", "open", "write", "sync", "link", "found", "reopen",
         "prove", "provePeer", "proveOwn", "cleanup",
         "refused", "returned", "returnedOwn"}

Ended == {"refused", "returned", "returnedOwn"}

Init ==
    /\ pc = [p \in Publishers |-> "look"]
    /\ final = None
    /\ names = {None}
    /\ whole = {} /\ synced = {} /\ published = {}
    /\ losses = 0

GoTo(p, step) == pc' = [pc EXCEPT ![p] = step]

(* loadRegistryGeneration: the file is there, has not changed while it was *)
(* read, and its bytes hash to its name and verify.                        *)
Loads == final \in whole

-----------------------------------------------------------------------------
(* The file may have been published already.                               *)

LookFound(p) ==
    /\ pc[p] = "look" /\ Loads
    /\ GoTo(p, "prove")
    /\ UNCHANGED <<files, published, losses>>

(* It is absent, or could not be read.                                     *)
LookFailed(p) ==
    /\ pc[p] = "look"
    /\ GoTo(p, "recheck")
    /\ UNCHANGED <<files, published, losses>>

(* Two lstats, of which the second decides: a file that is there and does  *)
(* not load is never written over.                                         *)
Recheck(p) ==
    /\ pc[p] = "recheck"
    /\ GoTo(p, IF final = None THEN "open" ELSE "refused")
    /\ UNCHANGED <<files, published, losses>>

RecheckFailed(p) ==
    /\ pc[p] = "recheck"
    /\ GoTo(p, "refused")
    /\ UNCHANGED <<files, published, losses>>

-----------------------------------------------------------------------------
(* Staging.                                                                *)

Open(p) ==
    /\ pc[p] = "open"
    /\ GoTo(p, "write")
    /\ UNCHANGED <<files, published, losses>>

Write(p) ==
    /\ pc[p] = "write"
    /\ whole' = whole \cup {p}
    /\ GoTo(p, "sync")
    /\ UNCHANGED <<final, names, synced, published, losses>>

(* Mutant: the bytes are not flushed.                                      *)
SyncNothing(p) ==
    /\ pc[p] = "sync"
    /\ GoTo(p, "link")
    /\ UNCHANGED <<files, published, losses>>

(* sync, and the size check on the handle, which is then closed            *)
Sync(p) ==
    /\ pc[p] = "sync"
    /\ synced' = synced \cup {p}
    /\ GoTo(p, "link")
    /\ UNCHANGED <<final, names, whole, published, losses>>

Link(p) ==
    /\ pc[p] = "link" /\ final = None
    /\ final' = p
    /\ names' = names \cup {p}
    /\ published' = published \cup {p}
    /\ GoTo(p, "reopen")
    /\ UNCHANGED <<whole, synced, losses>>

(* EEXIST                                                                  *)
LinkTaken(p) ==
    /\ pc[p] = "link" /\ final # None
    /\ GoTo(p, "found")
    /\ UNCHANGED <<files, published, losses>>

-----------------------------------------------------------------------------
(* The published file is read back and the directory flushed.              *)

Found(p) ==
    /\ pc[p] = "found" /\ Loads
    /\ GoTo(p, "provePeer")
    /\ UNCHANGED <<files, published, losses>>

Reopen(p) ==
    /\ pc[p] = "reopen" /\ Loads
    /\ GoTo(p, "proveOwn")
    /\ UNCHANGED <<files, published, losses>>

(* Mutant: completed is not set.                                           *)
ProveIncomplete(p) ==
    /\ pc[p] \in {"prove", "provePeer", "proveOwn"}
    /\ names' = {final}
    /\ GoTo(p, IF pc[p] = "proveOwn" THEN "returnedOwn" ELSE "returned")
    /\ UNCHANGED <<final, whole, synced, published, losses>>

(* The adapter answers true: a durable receipt is returned for the        *)
(* directory as it is now.                                                 *)
Prove(p) ==
    /\ pc[p] \in {"prove", "provePeer", "proveOwn"}
    /\ names' = {final}
    /\ published' = published \ {p}
    /\ GoTo(p, IF pc[p] = "proveOwn" THEN "returnedOwn" ELSE "returned")
    /\ UNCHANGED <<final, whole, synced, losses>>

(* Anything from opening the staging file on throws, or the adapter does   *)
(* not answer true.                                                        *)
Throw(p) ==
    /\ pc[p] \in {"open", "write", "sync", "link", "found", "reopen",
                  "provePeer", "proveOwn"}
    /\ GoTo(p, "cleanup")
    /\ UNCHANGED <<files, published, losses>>

(* The adapter does not answer true for a file that was in place when the  *)
(* call began: the error takes the way of a file that could not be read.   *)
Unproven(p) ==
    /\ pc[p] = "prove"
    /\ GoTo(p, "recheck")
    /\ UNCHANGED <<files, published, losses>>

-----------------------------------------------------------------------------
(* The finally block of a call that throws.                                *)

(* Mutant: whatever has the final name is taken back.                      *)
TakeBackAny(p) ==
    /\ pc[p] = "cleanup"
    /\ final' = None
    /\ names' = names \cup {None}
    /\ published' = published \ {p}
    /\ GoTo(p, "refused")
    /\ UNCHANGED <<whole, synced, losses>>

(* A file this call has linked is unlinked again.                          *)
TakeBack(p) ==
    /\ pc[p] = "cleanup" /\ p \in published
    /\ final' = None
    /\ names' = names \cup {None}
    /\ published' = published \ {p}
    /\ GoTo(p, "refused")
    /\ UNCHANGED <<whole, synced, losses>>

(* It is not this call's, or the unlink throws and the file survives.      *)
LeaveBehind(p) ==
    /\ pc[p] = "cleanup"
    /\ published' = published \ {p}
    /\ GoTo(p, "refused")
    /\ UNCHANGED <<files, losses>>

-----------------------------------------------------------------------------
(* Faults.                                                                 *)

Die(p) ==
    /\ pc[p] \notin Ended
    /\ published' = published \ {p}
    /\ GoTo(p, "refused")
    /\ UNCHANGED <<files, losses>>

PowerFails ==
    /\ losses < MaxLosses
    /\ losses' = losses + 1
    /\ final' \in names
    /\ names' = {final'}
    /\ \E kept \in SUBSET whole : synced \cap whole \subseteq kept /\ whole' = kept
    /\ published' = {}
    /\ pc' = [p \in Publishers |->
                 IF pc[p] \in {"look"} \cup Ended THEN pc[p] ELSE "refused"]
    /\ UNCHANGED <<synced>>

Publish(p) ==
    \/ LookFound(p) \/ LookFailed(p) \/ Recheck(p) \/ RecheckFailed(p)
    \/ Open(p) \/ Write(p) \/ Sync(p) \/ Link(p) \/ LinkTaken(p)
    \/ Found(p) \/ Reopen(p) \/ Prove(p) \/ Throw(p) \/ Unproven(p)
    \/ TakeBack(p) \/ LeaveBehind(p)

Next == PowerFails \/ \E p \in Publishers : Publish(p) \/ Die(p)

Spec == Init /\ [][Next]_vars

-----------------------------------------------------------------------------
(* Properties.                                                             *)

(* The types; a call that may still take its file back has not ended.      *)
TypeOK ==
    /\ pc \in [Publishers -> Step]
    /\ final \in Publishers \cup {None}
    /\ names \subseteq Publishers \cup {None}
    /\ final \in names
    /\ whole \subseteq Publishers
    /\ synced \subseteq Publishers
    /\ published \subseteq
           {p \in Publishers : pc[p] \in {"reopen", "proveOwn", "cleanup"}}
    /\ losses \in 0 .. MaxLosses

(* Whatever has the final name, or may have it after the power fails, has  *)
(* all its bytes.  A torn file would be fatal: its name is taken, it does  *)
(* not load, and every later call refuses to write over it.                *)
WholeOrAbsent == \A f \in names \ {None} : f \in whole

(* A call that published the file itself and returned its receipt is never *)
(* undone: the file stays, through other calls that fail and through a     *)
(* loss of power.                                                          *)
OwnReceiptStands ==
    \A p \in Publishers : pc[p] = "returnedOwn" => names = {p}

(* "A generation file is written and durably closed before any checkpoint  *)
(* may select it": a receipt is what lets a checkpoint select the          *)
(* generation, so while one is held the file is there.  It may not be: a   *)
(* call that found the file of another call holds a receipt for a file     *)
(* that other call still takes back.                                       *)
ReceiptMeansPresent ==
    (\E p \in Publishers : pc[p] \in {"returned", "returnedOwn"}) => final # None
=============================================================================
