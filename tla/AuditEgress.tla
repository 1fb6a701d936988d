------------------------------ MODULE AuditEgress ------------------------------
(***************************************************************************)
(* The audit ledger's writer and verifier of                               *)
(* galerina-core-sentinel-egress/src/audit-egress.ts.                      *)
(*                                                                         *)
(* Records are staged in a ring and leave it in batches, each one line of  *)
(* a file, chained to the batch before it by a MAC under the key of the    *)
(* epoch the writer seals under.  The write can throw, with or without     *)
(* part of the line on disk; the process can die and a new writer can be   *)
(* opened over the same directory.  Whatever is only in memory is then     *)
(* gone, the chain head and the sequence number included.                  *)
(*                                                                         *)
(* Records are numbered in the order they are pushed.  An epoch stands     *)
(* for its key: custody hands the writer the key of the epoch it names,    *)
(* and none of them is the development key.  The MAC of a batch is the     *)
(* tuple of what goes into it.                                             *)
(***************************************************************************)
EXTENDS Integers, Sequences

CONSTANTS
    Epochs,       \* the epochs a writer may be given; Legacy is none
    BatchSize,    \* opts.batchSize
    RingCapacity, \* opts.ringCapacity
    MaxRecords,   \* how many records are pushed
    MaxWriters,   \* how many writers are opened, one after the other
    GENESIS       \* the chain head before any batch

VARIABLES
    ring,         \* #ring
    seq,          \* #seq
    prevHash,     \* #prevHash
    epochId,      \* #epochId
    ledger,       \* the lines of audit-egress.jsonl
    tornTail,     \* the last line lacks its newline
    pushed,       \* the epoch of the writer each record was pushed to
    accepted,     \* the records whose push returned, of the present writer
    writers,      \* how many writers have been opened
    opened        \* history: how long the file was when each was opened

writer == <<ring, seq, prevHash, epochId>>
file == <<ledger, tornTail>>
vars == <<writer, file, pushed, accepted, writers, opened>>

(* undefined in the code: the single-key ledger                            *)
Legacy == 0

ASSUME EpochsAssumption == Epochs \subseteq Nat
ASSUME SizesAssumption == BatchSize \in Nat \ {0} /\ RingCapacity \in Nat \ {0}
ASSUME BoundsAssumption == MaxRecords \in Nat /\ MaxWriters \in Nat

BatchHash(epoch, prev, records) == <<epoch, prev, records>>

(* The count and the hash of a batch are functions of the rest.            *)
Batch(n, prev, records, epoch) ==
    [seq |-> n, prevHash |-> prev, records |-> records, epochId |-> epoch]

(* A line of the file that does not parse.                                 *)
TORN == [torn |-> TRUE]

HashOf(b) == BatchHash(b.epochId, b.prevHash, b.records)

(* What appending one line to the file leaves: after part of a line the    *)
(* next one continues it, and the two do not parse.                        *)
AppendLine(lines, line) ==
    IF tornTail THEN lines ELSE Append(lines, line)

-----------------------------------------------------------------------------
(* The writer.                                                             *)

(* appendFileSync: the line is written, or the call throws before or       *)
(* amid writing it.                                                        *)
WriteResult == {"written", "nothing", "part"}

(* Mutant: the chain moves on before the write is known to succeed.        *)
SealMovesFirst(records, result) ==
    /\ ring' = << >>
    /\ prevHash' = BatchHash(epochId, prevHash, records)
    /\ seq' = seq + 1
    /\ CASE result = "written" ->
                /\ ledger' = AppendLine(ledger, Batch(seq, prevHash, records, epochId))
                /\ tornTail' = FALSE
         [] result = "part" ->
                ledger' = AppendLine(ledger, TORN) /\ tornTail' = TRUE
         [] result = "nothing" -> UNCHANGED file

(* Mutant: the sequence number moves on, the head does not.                *)
SealHeadStays(records, result) ==
    /\ ring' = << >> /\ prevHash' = prevHash
    /\ CASE result = "written" ->
                /\ ledger' = AppendLine(ledger, Batch(seq, prevHash, records, epochId))
                /\ seq' = seq + 1 /\ tornTail' = FALSE
         [] result = "part" ->
                ledger' = AppendLine(ledger, TORN) /\ tornTail' = TRUE /\ seq' = seq
         [] result = "nothing" -> UNCHANGED <<file, seq>>

(* Mutant: the ring is copied, not drained.                                *)
SealWithoutDrain(records, result) ==
    /\ ring' = records
    /\ IF result = "written"
       THEN /\ ledger' = AppendLine(ledger, Batch(seq, prevHash, records, epochId))
            /\ prevHash' = BatchHash(epochId, prevHash, records)
            /\ seq' = seq + 1
            /\ tornTail' = FALSE
       ELSE UNCHANGED <<file, prevHash, seq>>

(* The ring is drained first, whatever becomes of the write; the chain     *)
(* moves on only if it succeeds.                                           *)
Seal(records, result) ==
    /\ ring' = << >>
    /\ CASE result = "written" ->
                /\ ledger' = AppendLine(ledger, Batch(seq, prevHash, records, epochId))
                /\ prevHash' = BatchHash(epochId, prevHash, records)
                /\ seq' = seq + 1
                /\ tornTail' = FALSE
         [] result = "part" ->
                /\ ledger' = AppendLine(ledger, TORN)
                /\ tornTail' = TRUE
                /\ UNCHANGED <<prevHash, seq>>
         [] result = "nothing" -> UNCHANGED <<file, prevHash, seq>>

Init ==
    /\ ring = << >> /\ seq = 0 /\ prevHash = GENESIS
    /\ epochId \in Epochs
    /\ ledger = << >> /\ tornTail = FALSE
    /\ pushed = << >> /\ accepted = {} /\ writers = 1 /\ opened = {0}

(* Mutant: a batch is due one record late.                                 *)
PushLate(result) ==
    LET record == Len(pushed) + 1
        staged == Append(ring, record)
        due == Len(staged) > RingCapacity \/ Len(staged) > BatchSize IN
    /\ record =< MaxRecords
    /\ pushed' = Append(pushed, epochId)
    /\ IF due THEN Seal(staged, result)
              ELSE ring' = staged /\ UNCHANGED <<seq, prevHash, file>>
    /\ accepted' = IF due /\ result # "written" THEN accepted
                   ELSE accepted \cup {record}
    /\ UNCHANGED <<epochId, writers, opened>>

(* The code also handles a ring that is full when a record arrives;        *)
(* RingHasRoom shows that it never is.                                     *)
Push(result) ==
    LET record == Len(pushed) + 1
        staged == Append(ring, record)
        due == Len(staged) >= RingCapacity \/ Len(staged) >= BatchSize IN
    /\ record =< MaxRecords
    /\ Len(ring) < RingCapacity
    /\ pushed' = Append(pushed, epochId)
    /\ IF due THEN Seal(staged, result)
              ELSE ring' = staged /\ UNCHANGED <<seq, prevHash, file>>
    /\ accepted' = IF due /\ result # "written" THEN accepted
                   ELSE accepted \cup {record}
    /\ UNCHANGED <<epochId, writers, opened>>

(* Mutant: an empty ring is sealed too.                                    *)
FlushEmpty(result) ==
    Seal(ring, result) /\ UNCHANGED <<epochId, pushed, accepted, writers, opened>>

Flush(result) ==
    /\ ring # << >>
    /\ Seal(ring, result)
    /\ UNCHANGED <<epochId, pushed, accepted, writers, opened>>

(* Mutant: any epoch may be adopted, an earlier one too.                   *)
AdoptAnyEpoch(epoch, result) ==
    /\ epoch >= 1
    /\ IF ring = << >>
       THEN epochId' = epoch /\ UNCHANGED <<ring, seq, prevHash, file>>
       ELSE /\ Seal(ring, result)
            /\ epochId' = IF result = "written" THEN epoch ELSE epochId
    /\ UNCHANGED <<pushed, accepted, writers, opened>>

(* Mutant: what is staged is not sealed first.                             *)
AdoptEpochUnsealed(epoch, result) ==
    /\ epoch >= 1
    /\ epoch > epochId
    /\ epochId' = epoch
    /\ UNCHANGED <<ring, seq, prevHash, file, pushed, accepted, writers, opened>>

(* What is staged is sealed under the old key; if that throws, the epoch   *)
(* stays.                                                                  *)
AdoptEpoch(epoch, result) ==
    /\ epoch >= 1
    /\ epoch > epochId
    /\ IF ring = << >>
       THEN epochId' = epoch /\ UNCHANGED <<ring, seq, prevHash, file>>
       ELSE /\ Seal(ring, result)
            /\ epochId' = IF result = "written" THEN epoch ELSE epochId
    /\ UNCHANGED <<pushed, accepted, writers, opened>>

(* The process dies and a writer is opened over the same directory.        *)
Reopen(epoch) ==
    /\ writers < MaxWriters
    /\ writers' = writers + 1
    /\ opened' = opened \cup {Len(ledger)}
    /\ ring' = << >> /\ seq' = 0 /\ prevHash' = GENESIS
    /\ epochId' = epoch
    /\ accepted' = {}
    /\ UNCHANGED <<file, pushed>>

Next ==
    \/ \E result \in WriteResult : Push(result)
    \/ \E result \in WriteResult : Flush(result)
    \/ \E epoch \in Epochs, result \in WriteResult : AdoptEpoch(epoch, result)
    \/ \E epoch \in Epochs : Reopen(epoch)

Spec == Init /\ [][Next]_vars

-----------------------------------------------------------------------------
(* The verifiers, on the lines of a ledger.                                *)

Parses(lines) == \A i \in DOMAIN lines : lines[i] # TORN

LinkOK(lines, i, expectedPrev) ==
    lines[i].prevHash = expectedPrev /\ lines[i].seq = i - 1

Chained(lines) ==
    \A i \in DOMAIN lines :
        LinkOK(lines, i, IF i = 1 THEN GENESIS ELSE HashOf(lines[i - 1]))

(* One key for the whole ledger.                                           *)
VerifyChain(lines, key) ==
    Chained(lines) /\ \A i \in DOMAIN lines : lines[i].epochId = key

(* The key of each batch's epoch, for the epochs that have one.            *)
VerifyChainEpochAware(lines, known) ==
    /\ Chained(lines)
    /\ \A i \in DOMAIN lines : lines[i].epochId >= 1 /\ lines[i].epochId \in known
    /\ \A i, j \in DOMAIN lines : i < j => lines[i].epochId =< lines[j].epochId

-----------------------------------------------------------------------------
(* Properties.                                                             *)

IsBatch(line) ==
    /\ line # TORN
    /\ DOMAIN line = {"seq", "prevHash", "records", "epochId"}
    /\ line.seq \in Nat
    /\ line.epochId \in Epochs
    /\ line.records \in Seq(1 .. MaxRecords) \ {<< >>}

TypeOK ==
    /\ ring \in Seq(1 .. MaxRecords)
    /\ seq \in Nat
    /\ epochId \in Epochs
    /\ \A i \in 1 .. Len(ledger) : ledger[i] = TORN \/ IsBatch(ledger[i])
    /\ tornTail \in BOOLEAN
    /\ pushed \in Seq(Epochs) /\ Len(pushed) =< MaxRecords
    /\ accepted \subseteq 1 .. Len(pushed)
    /\ writers \in 1 .. MaxWriters + 1
    /\ opened \subseteq 0 .. Len(ledger)

(* When a record arrives there is room for it: the ring is never full, nor *)
(* at the batch size, between two calls, whatever calls threw.             *)
RingHasRoom == Len(ring) < RingCapacity /\ Len(ring) < BatchSize

(* What follows the first n lines with this sequence number, this head and *)
(* this epoch is the first of a writer opened there, or continues the line *)
(* before it, if that can be read.                                         *)
Continues(n, prev, epoch, b) ==
    prev = HashOf(b) /\ n = b.seq + 1 /\ epoch >= b.epochId

StartsChain(n, prev) == n = 0 /\ prev = GENESIS

Linked(n, number, prev, epoch) ==
    n = 0 \/ ledger[n] # TORN =>
        IF n \in opened THEN StartsChain(number, prev)
                       ELSE Continues(number, prev, epoch, ledger[n])

(* Neither a failed write nor a switch forks the chain: every batch on the *)
(* file continues the batch before it, but for the one at which a writer   *)
(* was opened, which starts at GENESIS; and the writer continues the last  *)
(* line, or has written none.                                              *)
BatchesChain ==
    /\ \A n \in 0 .. Len(ledger) - 1 : ledger[n + 1] # TORN =>
           LET b == ledger[n + 1] IN Linked(n, b.seq, b.prevHash, b.epochId)
    /\ Linked(Len(ledger), seq, prevHash, epochId)

(* The file says of itself that "the whole ledger forms a single           *)
(* tamper-evident hash chain".  It is one chain from GENESIS, as the       *)
(* verifiers want it, exactly as long as every line can be read and no     *)
(* batch was sealed by a writer that was opened over earlier ones: failed  *)
(* writes and switches never break it, such a restart always does.         *)
SingleChain ==
    Parses(ledger) => (Chained(ledger) <=> opened \subseteq {0, Len(ledger)})

(* What can break the chain, line by line and for the file as a whole.     *)
LedgerChain == BatchesChain /\ SingleChain

(* Across failed writes, retries and restarts, no record is on disk twice, *)
(* or after one that was pushed later.                                     *)
RecordsInOrder ==
    /\ \A i, j \in 1 .. Len(ledger) : ledger[i] # TORN /\ ledger[j] # TORN =>
           \A p \in DOMAIN ledger[i].records, q \in DOMAIN ledger[j].records :
               i < j \/ (i = j /\ p < q) => ledger[i].records[p] < ledger[j].records[q]
    /\ \A p, q \in DOMAIN ring : p < q => ring[p] < ring[q]
    /\ \A i \in 1 .. Len(ledger) : ledger[i] # TORN =>
           \A p \in DOMAIN ledger[i].records, q \in DOMAIN ring :
               ledger[i].records[p] < ring[q]

(* No record straddles a switch: it is sealed under the epoch the writer   *)
(* had when it was pushed.                                                 *)
NoStraddling ==
    /\ \A p \in DOMAIN ring : pushed[ring[p]] = epochId
    /\ \A i \in 1 .. Len(ledger) : ledger[i] # TORN =>
           \A p \in DOMAIN ledger[i].records :
               pushed[ledger[i].records[p]] = ledger[i].epochId

(* The ledger of a single writer verifies at every moment, whatever writes *)
(* failed and epochs were adopted, as long as no line was torn: under the  *)
(* single key before the first epoch, under the keys of the epochs if it   *)
(* had one from the start.                                                 *)
OneWriterVerifies ==
    writers = 1 /\ Parses(ledger) =>
        /\ epochId = Legacy => VerifyChain(ledger, Legacy)
        /\ (\A i \in 1 .. Len(ledger) : ledger[i].epochId # Legacy) =>
               VerifyChainEpochAware(ledger, Epochs)

Held(record) ==
    \/ \E p \in DOMAIN ring : ring[p] = record
    \/ \E i \in 1 .. Len(ledger) : ledger[i] # TORN /\
           \E p \in DOMAIN ledger[i].records : ledger[i].records[p] = record

(* What push says of itself ("an audit record is NEVER dropped"): a record *)
(* the writer has taken is staged or on disk.                              *)
NeverDropped == \A record \in accepted : Held(record)
=============================================================================
