# TLA+ models of the Galerina governance runtime

This directory holds TLA+ models of the parts of the Galerina runtime whose
correctness depends on the order of many steps: the rotation of a signing key,
alone and driven by the registry through checkpoints that survive crashes; the
structured await of the core runtime; the audit ledger's writer, alone and while
its key is rotated; the store that publishes registry generations; and the
manager that rotates secrets. Paths below are relative to `src/packages-ts/`
unless they start with `src/`.

- [Inventory](#inventory)
- [Modules and how they correspond to the code](#modules-and-how-they-correspond-to-the-code)
- [Runs](#runs)
- [What is proved](#what-is-proved)
- [What disagrees with the code's own words](#what-disagrees-with-the-codes-own-words)
- [What is only model-checked, and what is not modelled](#what-is-only-model-checked-and-what-is-not-modelled)
- [Plan](#plan)

## Inventory

The repository is a language and runtime for governed programs: a compiler, a
governance tower that decides with three-valued verdicts, sentinels that guard
the host's resources, an application framework with a package registry, and a
large set of developer tools. Most of it is sequential transformation of data.
The parts that keep state across steps, and can get it wrong in ways a unit test
hardly reaches, are these.

| Component | State | Operations | What makes it correct | Hard behaviour |
|---|---|---|---|---|
| **Key rotation core** `galerina-tower-citizen/src/key-rotation.ts`, `quorum.ts`, `three-valued-governance.ts` | an append-only ring of key epochs; a process: phase, ring, locked transition | stage, switch, fall back, revoke on the ring; eight phase operations, each behind a verdict | always exactly one signer, which is accepted; the ring always verifies; status only moves forward, but for one reversal; no symmetric key's ledger is orphaned; no phase is a dead end | long sequences of rotations, fallbacks and abandoned processes over one ring; evidence that was true when it was read |
| **Structured Await** `galerina-core-runtime/src/structured-await.ts` | a scope: plan, clock, status, decision, task statuses | start, task reports, tick, cancel | one decision, one announcement, no orphan task; late answers decide nothing; no idle slot while tasks wait; every scope ends | reports, ticks and cancels in any order; the deadline racing an answer; tasks that hang |
| **Audit egress** `galerina-core-sentinel-egress/src/audit-egress.ts`, `ring-buffer.ts` | staged records, sequence number, chain head, epoch; the ledger file | push, flush, adoptEpoch, construction; verifyChain, verifyChainEpochAware, readEgressLedger | batches chain without forks or repeats; no record straddles an epoch; the ledger verifies; no record is dropped | a write that throws or leaves part of a line; restart over an existing file |
| **Registry rotation** `galerina-tower-citizen/src/registry-key-rotation.ts`, `galerina-framework-app-kernel/src/registry-rotation-controller.ts`, `registry-rotation-authority.ts` | sealed checkpoints of a rotation process, rollback floors, custody of private keys, accepted delegation and index | advance one phase from a restored checkpoint; seal; restore | what is accepted never goes back; a private key is destroyed only when nothing needs it any more; a refused key stays refused; every outcome can be sealed | crash between a step and the sealing of its checkpoint; restoring an older checkpoint; going on with a state that was restored long ago; a checkpoint that grows |
| **Generation store** `galerina-framework-app-kernel/src/registry-generation-store.ts` | staging and final files of a directory, durable receipts | publish, load, prove durability | a receipt means the generation is there; a published file is whole | several publishers; failure after the link; loss of power |
| **Secrets rotation** `galerina-ext-secrets-vault/src/rotation-manager.ts` | handles by credential, rotation leases | load, rotate, fault policies, sweep, dispose | a rotation does not overwrite a newer value; a wiped value is never served; no buffer of the manager keeps a secret it no longer serves; a lease ends | asynchronous reads that overlap; a timer over operations in flight |
| **Sentinel state snapshots** `galerina-core-sentinel-state/src/atomic-writer.ts` | a live snapshot and a temporary file | save, load | a snapshot is never seen half written | overlapping saves, crash |
| **Transport, leases, gate cache** `galerina-tower-citizen/src/transport-fsm.ts`, `lease.ts`, `gate-cache.ts` | connection state; leases; cached verdicts | advance; grant, expire; look up | nothing is used past its expiry | stale cached verdicts |
| **Native authority and durability** `galerina-core-runtime/native/` | the native side of the registry's durable publication | publish, probe | as the generation store | crash recovery |
| **Compiler, framework, data, web, inference, tools** | no state across steps that other components share | | | |

How they interact: the components share no memory. The key rotation core is a
library of pure functions; a caller keeps the process and brings *evidence*
(answers of custody checks, votes, counters, the ledger's chain head). The
ledger's writer is an object that the same caller tells to adopt the new epoch.
The verifier of the ledger asks the ring, through a callback (`keyForEpoch`), for
the key of each batch's epoch. The registry rotation controller is a caller of
the rotation core that also destroys keys and seals checkpoints; it admits a
generation only with a receipt of the generation store. Structured Await is a pure
reducer whose host owns the timers and the tasks. The secrets manager stands alone:
its callers and the sweep's timer make asynchronous calls that share its two maps.

## Modules and how they correspond to the code

`Verdicts` - the trit verdicts, their conjunction (`allOf`), the boundary
(`authorize`), custody seams (absent and throwing seams abstain) and the witness
quorum of `quorum.ts`. A vote list is the set of its votes, because the tally
reads nothing else of it.

`KeyRing` - the pure ring functions. A function that throws is a guard
(`CanStage`, `CanSwitch`, `CanFallback`, `CanMarkRevoked`) and a result. The head
MAC is left out: all rings come from these functions, which recompute it.

`KeyRotation` EXTENDS both - the process (`ring`, `phase`, `transition`) and one
action per phase operation; the gates are operators that return a verdict.
Evidence is chosen freely at every call. A gate that does not allow leaves the
process unchanged, so it is a stuttering step. `BeginRotation` may happen at any
time: the code lets a caller open a new process over a ring in any state.

`SigningAuthority` - the abstract specification of a rotation: keys are minted,
the newest takes over from its predecessor, or hands back to it and is then
refused for good; a key that does not sign may be revoked. `KeyRotation`
implements it with minted = length of the ring, signer = active epoch,
verifiable = the epochs `epochForVerification` answers for.

`StructuredAwait` - the reducer and its host. The variables `plan` to `tasks` are
the fields of `StructuredAwaitState`; `alive`, `asked` and `announced` are what
the host did with the commands it was given. `BeginCancellation`, `Finish`
(`terminalStep` and the end of `handleRunningTaskEvent`) and `ContinueRunning` are
what the handlers end with; `Tick`, `Cancel` and `Report` are the events. Events
the reducer refuses are stuttering. A task's answer may itself be `cancelled`.

`AwaitContract` - the abstract specification: a scope decides once, starts nothing
afterwards, and is done exactly when nothing it started is alive.

`AuditEgress` - the writer, the file and restarts. `Seal` is `flush`: the ring is
drained first, the line is appended, the chain moves on only if that succeeded.
`appendFileSync` may succeed, throw with nothing written, or throw with part of a
line written (`TORN`); the next line then continues the torn one. `Reopen` is the
death of the process and the constructor over the same directory. The MAC of a
batch is the tuple of its inputs, so two MACs are equal exactly when their inputs
are. A write that throws after the whole line but before its newline is not
distinguished from a torn one. `opened` is a history variable, no state of the code:
the lengths the file had when a writer was opened over it. `BatchesChain` admits a
chain that starts at GENESIS there and nowhere else; `LedgerChain` adds that the file
as a whole is one chain exactly as long as no such writer has sealed.

`EpochLedger` - `KeyRotation` and `AuditEgress` side by side (INSTANCE), with an
honest caller: the chain checks in its evidence are what the epoch-aware verifier
really answers about the ledger with the ring's keys, the locked transition names
the chain head of that moment, and the writer adopts the epoch that signs, at any
time. Custody and witnesses agree. Restarted writers get the signer's epoch.
`lockedAt` is a history variable: how long the ledger was when the locks were
committed last.

`RegistryRotation` - `advanceRegistryRotationState` over `KeyRotation` (INSTANCE):
one action per phase of the controller, each the conjunction of the guards of the
call (`MayAdvance`), the operation of the rotation core, and what it does to the
accepted generation (`Verify`) or to custody (`Retire`). `Seal`, `Restore`, `TakeUp`
and `OpenNext` are the host. The outcome of a call is not branded, so it has to be
sealed and restored before the next (`State \in held`). A restored state is branded
for good: the WeakSet of `registry-key-rotation.ts:23` never forgets one, and neither
the controller (`registry-rotation-controller.ts:429`) nor the seal compares it with
the floors again. `held` are the branded states the host still refers to. Whenever it
seals or restores it may go on referring to `MaxKept` of those it had, and `TakeUp`
advances one of them later; with `MaxKept = 0`, the *careful host* below, it lets go
of a state once its outcome is sealed, and may only repeat the call it has just made.

A crash needs no action of its own: `Restore` may happen in any state and loses
whatever is not sealed, but not `destroyed`. `sealed` holds every checkpoint there
ever was and `newest` the one sealed last, whose facts are the floors, the strictest
a host can keep; the floors admit the checkpoints of `Admitted`, so the host may come
back with an old one. `Fits` is the bound on a checkpoint's JSON text, over a length
that is a parameter (`PayloadLength`); the bounds on the number and length of log
entries (`registry-key-rotation.ts:141-145`) are left out, since a process starts with
an empty log and each phase that moves adds one short entry. `refused` is a history
variable: the keys whose canary was refused. A generation stands for what the
controller compares field by field: receipt, index, persisted file, forward probe,
durability profile; `Stage` takes any custody reference for the key that the root
admitted. A refused call changes nothing and is a stuttering step.

`GenerationStore` - `persistRegistryGeneration`, one action per await. All calls
publish the same bytes under the same name, since the name is the hash of the
content. `final` and `whole` are what processes see; `names` and `synced` are what
survives a loss of power: content after `sync`, the name after the durability
adapter has answered true. `Throw` is any failure from opening the staging file on,
`TakeBack` and `LeaveBehind` the `finally` block, whose `unlink` may itself fail.
`Die` ends one call without its `finally`, `PowerFails` all of them.

`SecretsRotation` - the manager for one credential. A call of `load`, `rotate` or
`rotateOrFault` is made (`Load`, `Rotate`, `Refuse`), is answered by the vault or
fails (`Answer`, `ReadFails`), and goes on when its await resumes (`Install`,
`Commit`, `Changed`, `ApplyPolicy`); what lies between two awaits is one step. The
answer carries the secret of the moment the vault gave it, and the vault's operator
may issue a newer one before it is used. Buffers are named by the call whose read
filled them; `held` are those with content. The raw response and the JSON string a
secret is parsed from (`vault-client.ts:187-196`) are never wiped by the code and are
outside the model: what the properties say of buffers is said of the decoded values
only. The sweep is a caller of `rotateOrFault` like any other.

Operators whose comment starts with "Mutant:" are wrong variants of the operator
below them (a dropped guard, a swapped order, a missing reset). No specification
uses them; putting one in place of the right operator breaks the property that
the manifest names, which shows that the property watches that code.

## Runs

| Run | Instance | States | Shows |
|---|---|---|---|
| `key_rotation` | 3 distinct keys (2 symmetric), one that reuses a file, one with a weak commitment; 4 ticks; 5 sets of custody answers; 3 vote lists; counters -1..1 | 6 216 | ring invariants, phase and ring agree, forward only, symmetric keys kept, no dead end, implements `SigningAuthority` |
| `structured_await` | every plan of up to 3 tasks, every limit and completion policy, deadline 2, clock to 3 | 12 888 | decisions, orphans, capacity, justification, deadline, contract, and that every scope ends |
| `audit_egress` | 5 records, batches of 2, ring of 3, epochs none/1/2, one restart, any write may fail | 118 084 | the chain and where it breaks, order, epochs, room, verification |
| `audit_egress_dropped` | the same | violation | a record that was taken is lost |
| `epoch_ledger` | 3 interchangeable keys, 3 ticks, 4 records in batches of 2, one restart | 489 456 | rotation and writer interleaved: what verifies, what the handover names, which batches are accepted, who is stranded |
| `secrets_rotation` | 4 overlapping calls, 2 secrets issued, all three fault policies | 147 890 | nothing wiped is served, nothing left behind, no rollback, leases end |
| `generation_store` | 3 publishers, every operation may fail, 2 losses of power | 23 124 | the published file is whole, the receipt of its publisher is final |
| `generation_store_receipt` | the same | violation | another publisher's receipt is not |
| `registry_rotation` | 3 keys, one also under a long custody reference, a generation under each, 3 ticks, complete, incomplete and refusing evidence; careful host | 70 552 | acceptance moves forward, keys kept, only a checkpoint's length is ever refused |
| `registry_rotation_mixed` | 3 generations, 2 ticks, careful host | violation | a generation is accepted under a key that is not active |
| `registry_rotation_second_chance` | the same | violation | a refused key is accepted after a crash |
| `registry_rotation_stale` | the same, a host that keeps one restored state | violation | a fallback to a destroyed key |

**Bounds, and why they are enough.** Three good keys allow two complete rotations,
or one that falls back and one attempt after it: everything a ring can hold (a
retired, a revoked and an active epoch, one staged, a fallback's hole) occurs.
Ticks must increase from epoch to epoch, so four ticks are three epochs and an
operation after them; equal ticks of switch and fallback occur. Custody answers
fail one at a time; the conjunction cannot tell more. Three tasks with limits 1 to
3 give a task that waits, one that runs and one that has reported, in every
combination; a deadline at 2 and a clock to 3 give events before, at and after the
deadline, and clock jumps over it. Five records in batches of two make a full
batch, one cut short by a flush, one by an epoch, and one after a failure.
Four calls of the secrets manager are a load, a rotation in flight, and two more
that replace, evict or overlap it; two secrets tell an older value from a newer
one. Three publishers are the one that links, the one that finds its file, and one
that comes after; a second loss of power meets what the first one left. Three
generations are the first, one for the rotation and one that is newer still, which a
call may name instead or a second rotation stage. A checkpoint has room for three
epochs, and for none with a long reference, so both an outcome that fits and one that
does not occur at every length. The host of `registry_rotation_stale` keeps one
state, which is enough to be older than the newest checkpoint by a whole rotation.
Crashes and restores of checkpoints are not bounded. What depends on the number of
keys, tasks, ticks, calls, publishers, records or losses is settled by the proofs
for every property listed under them.

**Deadlock.** It is not checked where the system really stops: a scope that has
announced, a writer that has taken `MaxRecords` and used its restarts, a manager
that is disposed, publishers that have all returned. The rotation core can always
begin again.

**Fairness.** Two models assume any. In `StructuredAwait` the host's timer goes on until
the deadline has been seen (`WF` of a tick at or after the deadline), and a task
that was told to stop reports in the end. Both are the host's documented duties:
the reducer owns no timer, and its cancel command asks for exactly that report.
A task that was not told may hang for ever; then the deadline ends the scope.
In `SecretsRotation` nothing makes the vault answer; a read fails in the end (`WF`
of `ReadFails`) because `makeRequest` destroys every request that passes its
deadline (`galerina-ext-secrets-vault/src/vault-client.ts:86`), and timers and
resumptions run (`WF` of `Continue` and `ApplyPolicy`).

## What is proved

The proofs hold for every value of the constants, under the assumptions stated in
the modules: candidates are records of the four fields, ticks are naturals, votes
are finite sets of votes, counters and thresholds are integers; a plan has at
least one task, a positive deadline and a limit between one and the number of
tasks; a batch and the writer's ring hold at least one record; generations have
positive serials and times (what their admission parses), and the registry's
candidates are asymmetric keys.

**`KeyRingProofs`** states what the ring functions preserve: they keep `VerifyRing`
and the order of the epochs. **`KeyRotationProofs`** proves from them

* `TypeCorrect`, `RingAlwaysVerifies`, `PhaseTellsTheTruth`, `EpochsStayInOrder`,
  `WayOut` - the five invariants;
* `OnlyForward`, `SymmetricNeverOrphaned`, `FallbackEndsRotation` - the action
  properties;
* `KeyRotationImplementsAuthority` - the refinement of `SigningAuthority`.

None of these is inductive alone. That a ring verifies after a fallback depends on
the predecessor being retired and the candidate being the signer, which is what
`PhaseMatchesRing` and `EpochsInOrder` say; and those two speak of *the* signer,
which is unique only because the ring verifies. `AlwaysAWayOut` needs to know in
addition that a switched process switched at a tick not before the new epoch was
created, which no other part records. So the inductive invariant is `IInv ==
Typed /\ RingVerifies /\ PhaseMatchesRing /\ EpochsInOrder /\ SwitchTicks`. Its
step has four cases: staging, switching, falling back and retiring change the ring;
the other operations change only the phase and the transition. `Typed` is `TypeOK`
without the type of the transition, which no other part needs: so every operation
preserves `IInv` whatever evidence it is given (`AnyStep`), which lets the two
proofs below that compose this machine with another use it as it stands.

**`StructuredAwaitProofs`** proves the inductive invariant `IInv`
(`Invariant`) and from it `TypeCorrect`, `NoTaskOutlivesItsScope`,
`WaitedForMeansTold`, `CapacityIsUsed`, `OutcomeIsJustified`; the action
properties `DeadlineIsDecisive` and `StatusMovesForward`; and the refinement
`StructuredAwaitImplementsContract`. The work is in `CapacityUsed`: filling slots
"in plan order while there is room" is a statement about cardinalities, proved
with the first pending task that is not started. `OutcomeJustified` needs one
strengthening, `NoSuccessYet`: while a `first_success` scope runs no task has
succeeded, and it is never cancelled in order to fail.

**`AuditEgressProofs`** proves all six invariants of the ledger for any batch size,
capacity, epochs, records and restarts. That a new batch continues the line before it
(`BatchesChain`) rests on no writer having been opened at a length the file has not
reached, which `TypeOK` says of `opened`. Four parts of `IInv` are not among the six.
`OnlyPushed`: no record staged or on disk is newer than the last one pushed, without
which the next push could collide with it. `OneWriterWhole`: while the ledger of one
writer parses, the writer's head and sequence number are those of its last line;
that is why its next batch verifies. `OneOpened` and `Unbroken`: a single writer was
opened over the empty file, and the file is a chain while no writer was opened in the
middle of it. With `BatchesChain`, which has such a writer start at sequence number
zero, the last one makes `SingleChain` an equivalence (`OneChainUntilRestart`).
Sealing is proved once, in four outcomes (the line is written, torn, glued to a torn
one, or the file is untouched), for the file (`SealKeepsFile`) and for the records
(`SealKeepsRecords`); push, flush and adoptEpoch cite both. `LinesStay` says what the
writer never does to its file: it only appends, a torn line stays torn, and a new
batch is of the writer's epoch.

**`SecretsRotationProofs`** proves the three invariants and `RotationNeverRollsBack`
for any number of calls and secrets. The strengthening says that every rotation in
flight holds the lease, so there is at most one; that the live handle and its buffer
are those of calls that are over; and that what a rotation in flight has read, or may
still read, is no older than what its handle has.

**`GenerationStoreProofs`** proves the three invariants for any number of publishers
and losses of power. They need two facts more: what is or may be under the final
name, and what is about to be linked, is on disk; and only the call whose file has
the final name will take it back, because `link` refuses a name that is taken.

**`RegistryRotationProofs`** has two layers, both for any keys, generations, evidence
and crashes. The first makes no assumption on the host, which may go on with any state
it ever restored. A step of the controller reads nothing but the state it is given, so
`AllUsable` looks at every state by itself: each one sealed, each one held and the one
the host is in satisfies the invariant of the phase machine (`Sound`) and the shape a
checkpoint requires. It is inductive (`StatesUsable`), and gives `TypeCorrect` and
`RefusedForSizeOnly` (`OnlySizeRefused`).

The second layer relates the states to each other and to custody, and holds of a
careful host only: `Invariance`, `KeysKept` (`NeededKeysKept`) and `NoAcceptedRollback`
(`AcceptedForward`) assume `MaxKept = 0`. Without it they are false, as
`registry_rotation_stale` shows of the first; a kept state that is sealed late takes
the accepted generation back in the same way. A restored checkpoint may be any that
the floors admit, so the invariant is about all of them at once, and about the state
of the host as one more:

* the destroyed keys are among those of each one's `Spent` epochs, which can never
  sign again: those before the signer, and before its predecessor while a fallback is
  still possible;
* they are `Checkpoints` of one era: the same generation accepted, the same number of
  epochs; the host is ahead of them by at most one acceptance and one candidate;
* the era is settled once one of them has passed the canary: then all have the
  same ring, and none is staged, locked or switched.

The last one is what `NeededKeysKept` turns on. The controller destroys the old
private key in a phase after the canary. Had an admitted checkpoint of the same
era still been before it, a crash could restore it and find that the key it signs
with, or would fall back to, is gone. It cannot, because the canary's outcome has to
be sealed first, acceptance raises the floors, and the floors admit only what accepts
the same. The preservation of `Sound` is `KeyRotationProofs` itself, brought in
by INSTANCE; the first section shows that its definitions are those of the model.

**`EpochLedgerProofs`** proves the five properties of `EpochLedger`, for any keys,
batch sizes, failing writes and interleavings of rotation and writer. Most of `IInv`
is what either side has alone, instantiated from `KeyRotationProofs` and
`AuditEgressProofs`. Four parts are about both. `KeysUpToSigner`: no epoch up to the
signer's is revoked, since the honest caller retires cold and a fallback revokes what
lies after the signer. `WriterInStep`: the writer is ahead of the signer only after a
fallback, and level with it from the canary on; the canary's evidence asks for a batch
under the new epoch, so it cannot pass before the writer has adopted it.
`HandoverOnChain`: what was the head when the locks were passed stays on the chain.
`EpochsAccounted`: the epoch of a batch is in the ring, and is revoked if it lies after
the signer's; it got there by a switch, and only a fallback takes the signer back. With
`KeysUpToSigner` that is `HistoryUpToSigner` (`HistoryKept`), for any number of writers.
Then `LedgerFollowsRing` follows: without a fallback every batch has an epoch up to
the signer's, those are verifiable under keys that do not change, and the rest of
what the verifier asks is `OneWriterVerifies`. `StrandedForGood` holds because adopted
epochs increase and the writer adopts only the signer's, which after a fallback never
changes again.

## What disagrees with the code's own words

Ten statements in the repository do not hold of the code. Five have a run that finds
them violated. For the other five the property says exactly what holds in their place
and where it stops, and is checked and proved: the statement fails wherever the
property draws the line.

1. **No rotation after a fallback** (`FallbackIsFinal`). A failed candidate
   stays in the ring, revoked. The next one is numbered after it, two above the
   active epoch, while locks A4 and B4 want active + 1; nothing unstages it.
   `key-rotation.ts:679` says the fallback returns the process to idle "for a fresh
   mint"; that mint can be staged and never locked. `FallbackEndsRotation` proves
   that the signer never changes again.
2. **A failed write drops records** (`audit_egress_dropped`). `flush` drains the
   ring before `appendFileSync`; a throw loses what was drained.
   `audit-egress.ts:183` says "an audit record is NEVER dropped".
3. **A fallback takes history with it** (`HistoryUpToSigner`). The canary batches
   sealed under the failed candidate stay on the ledger and are refused from then
   on, and the writer cannot be told to return to the old epoch. The design
   document (`src/docs/architecture/audit-key-rotation-triple-lock-design-2026-07-10.md:30`)
   says every batch stays verifiable for ever, and (`:121`) that a bad key is rolled
   back "with zero loss". `HistoryKept` proves that the batches of the epochs after the
   signer's are refused and no others; `StrandedStays` that the writer stays behind.
4. **A receipt for a file that is taken back** (`generation_store_receipt`). A
   publisher that fails after its `link` unlinks the final path. Another one may
   meanwhile have found that file, verified it, flushed the directory and returned a
   durable receipt. The activation specification
   (`src/docs/superpowers/specs/2026-07-30-content-addressed-registry-generation-activation.md:33`)
   wants the file closed and durable before a checkpoint may select it, and (`:40`)
   old generations not deleted. `OwnReceiptFinal` proves that the receipt of the call
   that linked the file is safe.
5. **Another generation is accepted than the one whose key was staged**
   (`registry_rotation_mixed`). The admitted receipt's key is compared with the ring
   only when the key is staged. A later call may bring another admitted, newer
   generation; after a clean canary that one is accepted, signed by a key that is not
   active. The same specification (`:35`) says production loading requires the active
   key epoch, so it then refuses; (`:89`) that the checkpoint selects the candidate.
6. **The ledger is not one chain** (`LedgerChain`). A writer opened over an
   existing ledger starts at sequence number zero and GENESIS and reads nothing of the
   file (`audit-egress.ts:109-139`), which as a whole then no longer verifies.
   `audit-egress.ts:20-23` says "the whole ledger forms a single tamper-evident hash
   chain". `OneChainUntilRestart` proves that it is one exactly until such a writer
   seals its first batch, and `ChainNeverForks` that the chain breaks nowhere else.
7. **The handover names an earlier batch** (`HandoverOnChain`). The transition's
   chain head is compared with the ledger's when the locks are passed; batches sealed
   between then and the switch come after it, and the canary compares other hashes.
   `key-rotation.ts:88` says "the old epoch's last batch hash - no gap, no fork", the
   design document (`:74`) "the old epoch's last batchHash". `HandoverStaysOnChain`
   proves that it goes on naming the batch that was the last at the locks: there is no
   fork, and the gap is whatever the writer sealed since, before it adopted the new epoch.
8. **An outcome that cannot be sealed** (`OnlySizeRefused`). A checkpoint
   has a size bound (`registry-key-rotation.ts:236-238`, `:258`), staging takes a
   custody reference of any length, and the ring only grows.
   `registry-rotation-controller.ts:376` says the state a call returns "must be
   sealed and restored before another phase may advance". `RefusedForSizeOnly` proves
   that the length is the only thing that can stand in the way; the run reaches states
   too long to seal.
9. **A fallback to a destroyed key** (`registry_rotation_stale`). The brand of a
   restored state is never withdrawn. A switched state restored before the rotation was
   verified, drained and retired can still be advanced afterwards, and a refused canary
   then re-activates a key whose private half is gone. `key-rotation.ts:297` says "it
   was never destroyed; reversal is free". `KeysKept` proves it of a careful host.
10. **A second chance for a refused key** (`registry_rotation_second_chance`). The
    checkpoint sealed before a fallback differs from the one after it in nothing the
    floors compare. A host that comes back with it, after a crash or not, is switched
    to the refused key, and a clean canary accepts it. `key-rotation.ts:298` says "A
    key that failed live verification never gets a second chance".

More behaviours are the code's and contradict no document, but a reader should
know them. Between the switch and the canary the accepted generation is signed by
the retired key, so production loading refuses it for that time. A forward probe
that is absent is refused in every phase, so it never leads to a fallback. A slow
`load` installs the value it read before a rotation that has finished since, and a
load still in flight when the manager is disposed installs its handle afterwards. A
sweep that meets a rotation in flight is refused, and the default policy then evicts
the healthy credential. A torn line makes `readEgressLedger` throw for the whole file.

## What is only model-checked, and what is not modelled

Liveness (`EveryScopeEnds`, `LeaseEnds`) is out of the prover's reach and stays with
TLC, as do the counterexamples of the runs that expect one. Every invariant, action
property and refinement that a passing run checks is a theorem too, two of them with
the hypothesis on the host that their run makes.

Abstracted in the models: the bytes of keys, MACs and hashes, which are opaque
values or tuples of inputs; diagnostics and reasons; the parsing of untrusted plans
and events, of which the models keep the numeric facts admission guarantees.
Not modelled: two writers on one directory at the same time; a host that advances
an old await state twice; the statically linked native host that may publish a
generation in place of `persistRegistryGeneration`; the signatures behind an
admission. The sentinel's snapshots are one synchronous write and a rename; what can go
wrong with several processes or a loss of power is listed among the hazards. A lease
check and the transport machine are pure functions, the gate cache memoizes one; a
reverification that arrives after the transport's timeout but before a tick is
listed as well. The compiler, the framework's request path,
data, web and inference packages and the developer tools, by far the largest part of
the repository, transform data sequentially and keep no protocol state: a model of
them would be a second implementation, so they are left to their tests.

## Plan

Done: `Verdicts`, `KeyRing`, `KeyRotation` with `SigningAuthority`;
`StructuredAwait` with `AwaitContract`; `AuditEgress`; `EpochLedger`;
`RegistryRotation`; `GenerationStore`; `SecretsRotation`; the proofs about all of
them.

Next, in this order:

1. The native durability host as a refinement of `GenerationStore`, and the store
   under `RegistryRotation`: what a checkpoint has accepted is on disk.
2. Overlapping saves of the sentinel's snapshots, and a loss of power between the
   write and the rename; the transport machine with a host that ticks late.
3. Proofs: `GenerationStore` and `RegistryRotation` as implementations of abstract
   specifications of their own, as `KeyRotation` is of `SigningAuthority`.
