--------------------------- MODULE AuditEgressProofs ---------------------------
(***************************************************************************)
(* The invariants of AuditEgress, for any batch size, ring capacity, set   *)
(* of epochs, number of records and number of restarts.                    *)
(*                                                                         *)
(* Two things the invariants of the model leave unsaid carry the proof: no *)
(* record that is staged or on disk is newer than the last one pushed, and *)
(* while the ledger of one writer parses, the writer's head and sequence   *)
(* number are those of its last line.  The chain needs a third: no writer  *)
(* was opened at a length the file has yet to reach, so the batch a writer *)
(* seals is one it must itself continue.                                   *)
(***************************************************************************)
EXTENDS AuditEgress, SequenceTheorems, TLAPS

IsSeq(s) == \E S : s \in Seq(S)

LEMMA Appended ==
  ASSUME NEW s, IsSeq(s), NEW e
  PROVE  /\ IsSeq(Append(s, e))
         /\ Len(s) \in Nat /\ Len(Append(s, e)) = Len(s) + 1
         /\ DOMAIN s = 1 .. Len(s) /\ DOMAIN Append(s, e) = 1 .. Len(s) + 1
         /\ \A i \in 1 .. Len(s) : Append(s, e)[i] = s[i]
         /\ Append(s, e)[Len(s) + 1] = e
<1>1. PICK S : s \in Seq(S)
  BY DEF IsSeq
<1>2. s \in Seq(S \cup {e}) /\ e \in S \cup {e}
  BY <1>1
<1>3. Append(s, e) \in Seq(S \cup {e})
  BY <1>2, AppendProperties
<1> QED
  BY <1>1, <1>2, <1>3, AppendProperties, LenProperties DEF IsSeq

LEMMA TornIsNoBatch ==
  ASSUME NEW n, NEW prev, NEW records, NEW epoch
  PROVE  Batch(n, prev, records, epoch) # TORN
<1>1. "torn" \in DOMAIN TORN /\ "torn" \notin DOMAIN Batch(n, prev, records, epoch)
  BY DEF TORN, Batch
<1> QED
  BY <1>1

-----------------------------------------------------------------------------
(* The inductive invariant.                                                *)

LedgerShape ==
    /\ IsSeq(ledger)
    /\ 0 \in opened
    /\ tornTail => Len(ledger) > 0 /\ ledger[Len(ledger)] = TORN

(* What is staged or on disk was pushed.                                   *)
OnlyPushed ==
    /\ \A p \in DOMAIN ring : ring[p] \in 1 .. Len(pushed)
    /\ \A i \in 1 .. Len(ledger) : ledger[i] # TORN =>
           \A p \in DOMAIN ledger[i].records :
               ledger[i].records[p] \in 1 .. Len(pushed)

Whole ==
    /\ \A i \in 1 .. Len(ledger) :
           /\ LinkOK(ledger, i, IF i = 1 THEN GENESIS ELSE HashOf(ledger[i - 1]))
           /\ ledger[i].epochId =< epochId
    /\ \A i, j \in 1 .. Len(ledger) : i < j => ledger[i].epochId =< ledger[j].epochId
    /\ seq = Len(ledger)
    /\ prevHash = IF Len(ledger) = 0 THEN GENESIS ELSE HashOf(ledger[Len(ledger)])

(* As long as no writer was opened over a file with batches on it.         *)
OneWriterWhole == opened = {0} /\ Parses(ledger) => Whole

(* A writer that was opened last and has not sealed yet breaks nothing.    *)
Unbroken == opened \subseteq {0, Len(ledger)} /\ Parses(ledger) => Chained(ledger)

OneOpened == writers = 1 => opened = {0}

IInv ==
    /\ TypeOK /\ RingHasRoom /\ LedgerShape /\ OnlyPushed
    /\ BatchesChain /\ RecordsInOrder /\ NoStraddling
    /\ OneWriterWhole /\ Unbroken /\ OneOpened

-----------------------------------------------------------------------------
(* What sealing does to the file and to the chain.                         *)

Wrote(records) ==
    LET sealed == Batch(seq, prevHash, records, epochId) IN
    /\ ~tornTail /\ ~tornTail'
    /\ ledger' = Append(ledger, sealed)
    /\ prevHash' = HashOf(sealed) /\ seq' = seq + 1

Tore ==
    /\ ~tornTail /\ tornTail' = TRUE
    /\ ledger' = Append(ledger, TORN)
    /\ UNCHANGED <<prevHash, seq>>

(* The line continues a torn one and is lost with it.                      *)
Glued == tornTail /\ tornTail' \in BOOLEAN /\ ledger' = ledger /\ seq' \in Nat

LEMMA SealCases ==
  ASSUME IInv, NEW records, NEW result \in WriteResult, Seal(records, result)
  PROVE  /\ ring' = << >>
         /\ Wrote(records) \/ Tore \/ Glued \/ UNCHANGED <<file, prevHash, seq>>
<1>1. seq \in Nat /\ tornTail \in BOOLEAN
  BY DEF IInv, TypeOK
<1>2. CASE result = "written"
  <2> DEFINE sealed == Batch(seq, prevHash, records, epochId)
  <2>1. HashOf(sealed) = BatchHash(epochId, prevHash, records)
    BY DEF HashOf, Batch
  <2>2. /\ ring' = << >> /\ ledger' = AppendLine(ledger, sealed)
        /\ prevHash' = BatchHash(epochId, prevHash, records)
        /\ seq' = seq + 1 /\ tornTail' = FALSE
    BY <1>2 DEF Seal
  <2>3. CASE tornTail
    <3>1. ledger' = ledger
      BY <2>2, <2>3 DEF AppendLine
    <3>2. seq' \in Nat
      BY <1>1, <2>2
    <3>3. tornTail' \in BOOLEAN
      BY <2>2
    <3> QED
      BY <3>1, <3>2, <3>3, <2>2, <2>3 DEF Glued
  <2>4. CASE ~tornTail
    BY <2>1, <2>2, <2>4 DEF AppendLine, Wrote
  <2> QED
    BY <2>3, <2>4
<1>3. CASE result = "part"
  BY <1>1, <1>3 DEF Seal, AppendLine, Tore, Glued
<1>4. CASE result = "nothing"
  BY <1>1, <1>4 DEF Seal
<1> QED
  BY <1>2, <1>3, <1>4 DEF WriteResult, Seal

LineLinked(n) ==
    ledger[n + 1] # TORN =>
        Linked(n, ledger[n + 1].seq, ledger[n + 1].prevHash, ledger[n + 1].epochId)

LEMMA LineByLine ==
  BatchesChain <=> /\ \A n \in 0 .. Len(ledger) - 1 : LineLinked(n)
                   /\ Linked(Len(ledger), seq, prevHash, epochId)
BY DEF BatchesChain, LineLinked

(* A line already on the file stays linked as long as no writer is opened. *)
LEMMA LineStays ==
  ASSUME NEW n \in Nat, LineLinked(n), n \in opened <=> n \in opened',
         ledger'[n + 1] = ledger[n + 1], n = 0 \/ ledger'[n] = ledger[n],
         0 \in opened
  PROVE  LineLinked(n)'
<1>1. CASE n = 0
  BY <1>1 DEF LineLinked, Linked, StartsChain
<1>2. CASE n # 0
  BY <1>2 DEF LineLinked, Linked, StartsChain, Continues
<1> QED
  BY <1>1, <1>2

(* The facts about the file that do not mention the ring or the pushes.    *)
FileInv ==
    /\ seq \in Nat /\ tornTail \in BOOLEAN
    /\ \A i \in 1 .. Len(ledger) : ledger[i] = TORN \/ IsBatch(ledger[i])
    /\ opened \subseteq 0 .. Len(ledger)
    /\ LedgerShape /\ BatchesChain /\ OneWriterWhole /\ Unbroken /\ OneOpened

LEMMA SealKeepsFile ==
  ASSUME IInv, UNCHANGED <<writers, opened>>, NEW records,
         \/ records \in Seq(1 .. MaxRecords) \ {<< >>} /\ Wrote(records)
         \/ Tore \/ Glued \/ UNCHANGED <<file, prevHash, seq>>,
         epochId' \in Epochs, epochId' >= epochId
  PROVE  FileInv'
<1> DEFINE sealed == Batch(seq, prevHash, records, epochId)
<1>0. /\ seq \in Nat /\ tornTail \in BOOLEAN /\ IsSeq(ledger) /\ epochId \in Nat
      /\ epochId' \in Nat /\ epochId \in Epochs
      /\ writers' = writers /\ opened' = opened /\ 0 \in opened
      /\ opened \subseteq 0 .. Len(ledger) /\ OneOpened'
  BY EpochsAssumption DEF IInv, TypeOK, LedgerShape, OneOpened
<1>1. CASE records \in Seq(1 .. MaxRecords) \ {<< >>} /\ Wrote(records)
  <2>1. /\ Len(ledger) \in Nat /\ Len(ledger') = Len(ledger) + 1
        /\ \A i \in 1 .. Len(ledger) : ledger'[i] = ledger[i]
        /\ ledger'[Len(ledger')] = sealed /\ IsSeq(ledger')
        /\ DOMAIN ledger = 1 .. Len(ledger) /\ DOMAIN ledger' = 1 .. Len(ledger')
    BY <1>0, <1>1, Appended DEF Wrote
  <2>2. /\ sealed.seq = seq /\ sealed.prevHash = prevHash /\ sealed.records = records
        /\ sealed.epochId = epochId /\ IsBatch(sealed) /\ sealed # TORN
    BY <1>0, <1>1, TornIsNoBatch DEF Batch, IsBatch
  <2>3. seq' = seq + 1 /\ prevHash' = HashOf(sealed) /\ tornTail' = FALSE
    BY <1>1 DEF Wrote, IInv, TypeOK
  <2>4. \A i \in 1 .. Len(ledger') : ledger'[i] = TORN \/ IsBatch(ledger'[i])
    BY <2>1, <2>2 DEF IInv, TypeOK
  <2>5. BatchesChain'
    <3>1. ASSUME NEW n \in 0 .. Len(ledger)
          PROVE  LineLinked(n)'
      <4>1. n = 0 \/ ledger'[n] = ledger[n]
        BY <2>1
      <4>2. CASE n = Len(ledger)
        <5>1. n = 0 \/ ledger[n] # TORN =>
                  IF n \in opened THEN StartsChain(seq, prevHash)
                                 ELSE Continues(seq, prevHash, epochId, ledger[n])
          BY <4>2 DEF IInv, BatchesChain, Linked
        <5>2. /\ (ledger[n + 1].seq)' = seq /\ (ledger[n + 1].prevHash)' = prevHash
              /\ (ledger[n + 1].epochId)' = epochId
          BY <4>2, <2>1, <2>2
        <5>3. CASE n = 0
          <6>1. n \in opened' /\ StartsChain(seq, prevHash)
            BY <1>0, <5>1, <5>3
          <6> QED
            BY <5>2, <6>1 DEF LineLinked, Linked, StartsChain
        <5>4. CASE n # 0
          <6>1. ledger'[n] # TORN =>
                  IF n \in opened' THEN StartsChain(seq, prevHash)
                                  ELSE Continues(seq, prevHash, epochId, ledger'[n])
            BY <1>0, <4>1, <5>1, <5>4 DEF Continues
          <6> QED
            BY <5>2, <5>4, <6>1 DEF LineLinked, Linked, StartsChain, Continues
        <5> QED
          BY <5>3, <5>4
      <4>3. CASE n # Len(ledger)
        <5>1. Len(ledger) \in Nat /\ n \in 0 .. Len(ledger)
          BY <2>1
        <5>2. n \in Nat /\ n < Len(ledger)
          BY <4>3, <5>1
        <5>3. n \in 0 .. Len(ledger) - 1 /\ n \in Nat /\ n + 1 \in 1 .. Len(ledger)
          BY <5>1, <5>2
        <5>4. ledger'[n + 1] = ledger[n + 1]
          BY <5>3, <2>1
        <5> QED
          BY <1>0, <4>1, <5>3, <5>4, LineByLine, LineStays DEF IInv
      <4> QED
        BY <4>2, <4>3
    <3>2. Continues(seq', prevHash', epochId', sealed)
      BY <1>0, <2>2, <2>3 DEF Continues
    <3>3. Len(ledger') \notin opened' /\ Len(ledger') # 0
      BY <1>0, <2>1
    <3>4. Linked(Len(ledger), seq, prevHash, epochId)'
      BY <3>2, <3>3, <2>1 DEF Linked, Continues
    <3>5. Len(ledger') - 1 = Len(ledger)
      BY <2>1
    <3>6. \A n \in 0 .. Len(ledger') - 1 : LineLinked(n)'
      BY <3>1, <3>5
    <3> QED
      BY <3>4, <3>6 DEF BatchesChain, LineLinked
  <2>6. OneWriterWhole'
    <3> SUFFICES ASSUME opened = {0}, Parses(ledger') PROVE Whole'
      BY <1>0 DEF OneWriterWhole
    <3>1. Whole
      BY <2>1 DEF IInv, OneWriterWhole, Parses
    <3>2. ASSUME NEW i \in 1 .. Len(ledger')
          PROVE  /\ LinkOK(ledger', i, IF i = 1 THEN GENESIS ELSE HashOf(ledger'[i - 1]))
                 /\ ledger'[i].epochId =< epochId /\ ledger'[i].epochId \in Nat
      <4>1. CASE i = Len(ledger) + 1
        BY <3>1, <4>1, <2>1, <2>2, <1>0 DEF Whole, LinkOK
      <4>2. CASE i \in 1 .. Len(ledger)
        <5>1. ledger'[i].epochId \in Nat
          BY <4>2, <2>1, <2>4, EpochsAssumption DEF Parses, IsBatch
        <5> QED
          BY <5>1, <3>1, <4>2, <2>1 DEF Whole, LinkOK
      <4> QED
        BY <4>1, <4>2, <2>1
    <3>3. ASSUME NEW i \in 1 .. Len(ledger'), NEW j \in 1 .. Len(ledger'), i < j
          PROVE  ledger'[i].epochId =< ledger'[j].epochId
      <4>1. i \in 1 .. Len(ledger)
        BY <3>3, <2>1
      <4>2. CASE j = Len(ledger) + 1
        BY <4>1, <4>2, <3>2, <2>1, <2>2
      <4>3. CASE j \in 1 .. Len(ledger)
        BY <4>1, <4>3, <3>3, <3>1, <2>1 DEF Whole
      <4> QED
        BY <4>2, <4>3, <2>1
    <3>4. seq' = Len(ledger') /\ prevHash' = HashOf(ledger'[Len(ledger')]) /\ Len(ledger') # 0
      BY <3>1, <2>1, <2>3 DEF Whole
    <3>5. \A i \in 1 .. Len(ledger') : ledger'[i].epochId =< epochId'
      BY <3>2, <1>0
    <3> QED
      BY <3>2, <3>3, <3>4, <3>5 DEF Whole, LinkOK
  <2>7. LedgerShape'
    <3>1. tornTail' = FALSE /\ IsSeq(ledger') /\ 0 \in opened'
      BY <1>0, <2>1, <2>3
    <3> QED
      BY <3>1 DEF LedgerShape, IsSeq
  <2>8. seq' \in Nat
    BY <1>0, <2>3
  <2>9. tornTail' \in BOOLEAN
    BY <2>3
  <2>10. opened' \subseteq 0 .. Len(ledger')
    BY <1>0, <2>1
  <2>11. Unbroken'
    <3> SUFFICES ASSUME opened \subseteq {0, Len(ledger')}, Parses(ledger')
                 PROVE  Chained(ledger')
      BY <1>0 DEF Unbroken
    <3>1. opened = {0}
      <4>1. Len(ledger') \notin opened
        BY <1>0, <2>1
      <4> QED
        BY <1>0, <4>1
    <3>2. Whole'
      BY <1>0, <2>6, <3>1 DEF OneWriterWhole
    <3> QED
      BY <2>1, <3>2 DEF Whole, Chained
  <2> QED
    BY <1>0, <2>4, <2>5, <2>6, <2>7, <2>8, <2>9, <2>10, <2>11 DEF FileInv
<1>2. CASE Tore
  <2>1. /\ Len(ledger) \in Nat /\ Len(ledger') = Len(ledger) + 1
        /\ \A i \in 1 .. Len(ledger) : ledger'[i] = ledger[i]
        /\ ledger'[Len(ledger')] = TORN /\ IsSeq(ledger')
        /\ DOMAIN ledger' = 1 .. Len(ledger')
    BY <1>0, <1>2, Appended DEF Tore
  <2>2. seq' = seq /\ prevHash' = prevHash /\ tornTail' = TRUE
    BY <1>2 DEF Tore
  <2>3. BatchesChain'
    <3>1. ASSUME NEW n \in 0 .. Len(ledger') - 1
          PROVE  LineLinked(n)'
      <4>1. CASE ledger'[n + 1] = TORN
        BY <4>1 DEF LineLinked
      <4>2. CASE ledger'[n + 1] # TORN
        <5>1. /\ n \in 0 .. Len(ledger) - 1 /\ n \in Nat
              /\ ledger'[n + 1] = ledger[n + 1]
              /\ n = 0 \/ ledger'[n] = ledger[n]
          BY <2>1, <4>2
        <5> QED
          BY <1>0, <5>1, LineByLine, LineStays DEF IInv
      <4> QED
        BY <4>1, <4>2
    <3>2. Linked(Len(ledger), seq, prevHash, epochId)'
      BY <2>1 DEF Linked
    <3> QED
      BY <3>1, <3>2 DEF BatchesChain, LineLinked
  <2>4. ~Parses(ledger')
    BY <2>1 DEF Parses
  <2>5. \A i \in 1 .. Len(ledger') : ledger'[i] = TORN \/ IsBatch(ledger'[i])
    BY <2>1 DEF IInv, TypeOK
  <2>6. opened' \subseteq 0 .. Len(ledger')
    BY <1>0, <2>1
  <2> QED
    BY <1>0, <2>1, <2>2, <2>3, <2>4, <2>5, <2>6
    DEF FileInv, LedgerShape, OneWriterWhole, Unbroken
<1>3. CASE Glued
  <2>1. /\ ledger' = ledger /\ tornTail' \in BOOLEAN /\ seq' \in Nat
        /\ Len(ledger) > 0 /\ ledger[Len(ledger)] = TORN
    BY <1>3 DEF Glued, IInv, LedgerShape
  <2>2. DOMAIN ledger = 1 .. Len(ledger) /\ Len(ledger) \in Nat
    BY <1>0, Appended
  <2>3. BatchesChain'
    <3>1. Linked(Len(ledger), seq, prevHash, epochId)'
      BY <2>1, <2>2 DEF Linked
    <3>2. \A n \in 0 .. Len(ledger) - 1 : LineLinked(n)'
      BY <1>0, <2>1, <2>2, LineByLine, LineStays DEF IInv
    <3> QED
      BY <2>1, <3>1, <3>2 DEF BatchesChain, LineLinked
  <2>4. ~Parses(ledger')
    BY <2>1, <2>2 DEF Parses
  <2> QED
    BY <1>0, <2>1, <2>3, <2>4
    DEF FileInv, LedgerShape, OneWriterWhole, Unbroken, IInv, TypeOK
<1>4. CASE UNCHANGED <<file, prevHash, seq>>
  <2>1. Len(ledger) \in Nat
    BY <1>0, Appended
  <2>2. BatchesChain'
    <3>1. ASSUME Len(ledger) # 0, ledger[Len(ledger)] # TORN
          PROVE  ledger[Len(ledger)].epochId \in Nat
      <4>1. Len(ledger) \in 1 .. Len(ledger)
        BY <3>1, <2>1
      <4> QED
        BY <4>1, <3>1, EpochsAssumption DEF IInv, TypeOK, IsBatch
    <3>2. UNCHANGED <<ledger, prevHash, seq>>
      BY <1>4 DEF file
    <3>3. Linked(Len(ledger), seq, prevHash, epochId)'
      BY <1>0, <3>1, <3>2 DEF IInv, BatchesChain, Linked, StartsChain, Continues
    <3>4. \A n \in 0 .. Len(ledger) - 1 : LineLinked(n)'
      BY <1>0, <2>1, <3>2, LineByLine, LineStays DEF IInv
    <3> QED
      BY <3>2, <3>3, <3>4 DEF BatchesChain, LineLinked
  <2>3. OneWriterWhole'
    <3> SUFFICES ASSUME opened = {0}, Parses(ledger) PROVE Whole'
      BY <1>0, <1>4 DEF OneWriterWhole, file
    <3>1. Whole
      BY DEF IInv, OneWriterWhole
    <3>2. \A i \in 1 .. Len(ledger) : ledger[i].epochId \in Nat
      BY <1>0, Appended, EpochsAssumption DEF Parses, IInv, TypeOK, IsBatch
    <3>3. \A i \in 1 .. Len(ledger) : ledger[i].epochId =< epochId'
      BY <3>1, <3>2, <1>0 DEF Whole
    <3> QED
      BY <3>1, <3>3, <1>4 DEF Whole, file, LinkOK
  <2> QED
    BY <1>0, <1>4, <2>2, <2>3 DEF FileInv, LedgerShape, IInv, TypeOK, Unbroken, file
<1> QED
  BY <1>1, <1>2, <1>3, <1>4

-----------------------------------------------------------------------------
(* What may be sealed: records of the present epoch, in the order they     *)
(* were pushed and newer than all on disk.                                 *)

Staged(s, epochs) ==
    /\ s \in Seq(1 .. MaxRecords)
    /\ \A i \in DOMAIN s : s[i] \in 1 .. Len(epochs) /\ epochs[s[i]] = epochId
    /\ \A i, j \in DOMAIN s : i < j => s[i] < s[j]
    /\ \A i \in 1 .. Len(ledger) : ledger[i] # TORN =>
           \A p \in DOMAIN ledger[i].records, q \in DOMAIN s :
               ledger[i].records[p] < s[q]

RecordsInv == OnlyPushed /\ RecordsInOrder /\ NoStraddling

Extends(epochs) ==
    /\ Len(pushed) =< Len(epochs)
    /\ \A i \in 1 .. Len(pushed) : epochs[i] = pushed[i]

Ordered(lines, s) ==
    /\ \A i, j \in 1 .. Len(lines) : lines[i] # TORN /\ lines[j] # TORN =>
           \A p \in DOMAIN lines[i].records, q \in DOMAIN lines[j].records :
               i < j \/ (i = j /\ p < q) => lines[i].records[p] < lines[j].records[q]
    /\ \A p, q \in DOMAIN s : p < q => s[p] < s[q]
    /\ \A i \in 1 .. Len(lines) : lines[i] # TORN =>
           \A p \in DOMAIN lines[i].records, q \in DOMAIN s :
               lines[i].records[p] < s[q]

LEMMA RingStaged ==
  ASSUME IInv
  PROVE  Staged(ring, pushed)
BY DEF IInv, TypeOK, OnlyPushed, RecordsInOrder, NoStraddling, Staged

LEMMA PushStaged ==
  ASSUME IInv, Len(pushed) + 1 =< MaxRecords
  PROVE  /\ Staged(Append(ring, Len(pushed) + 1), Append(pushed, epochId))
         /\ Append(ring, Len(pushed) + 1) # << >>
         /\ Len(Append(ring, Len(pushed) + 1)) \in Nat
         /\ Extends(Append(pushed, epochId))
         /\ Append(pushed, epochId) \in Seq(Epochs)
         /\ Len(Append(pushed, epochId)) = Len(pushed) + 1
<1> DEFINE record == Len(pushed) + 1
           s == Append(ring, record)
           epochs == Append(pushed, epochId)
<1>1. /\ ring \in Seq(1 .. MaxRecords) /\ pushed \in Seq(Epochs)
      /\ epochId \in Epochs /\ Len(pushed) \in Nat /\ record \in 1 .. MaxRecords
  BY BoundsAssumption DEF IInv, TypeOK
<1>2. /\ epochs \in Seq(Epochs) /\ Len(epochs) = record
      /\ \A i \in 1 .. Len(pushed) : epochs[i] = pushed[i]
      /\ epochs[record] = epochId
  BY <1>1, AppendProperties
<1>3. /\ s \in Seq(1 .. MaxRecords) /\ DOMAIN s = 1 .. Len(ring) + 1
      /\ Len(ring) \in Nat /\ DOMAIN ring = 1 .. Len(ring) /\ Len(s) = Len(ring) + 1
      /\ \A i \in 1 .. Len(ring) : s[i] = ring[i]
      /\ s[Len(ring) + 1] = record
  BY <1>1, AppendProperties
<1>4. \A i \in DOMAIN s :
          \/ i \in DOMAIN ring /\ s[i] = ring[i]
          \/ i = Len(ring) + 1 /\ s[i] = record
  BY <1>3
<1> HIDE DEF record, s, epochs
<1>5. Staged(ring, pushed)
  BY RingStaged
<1>6. \A i \in DOMAIN s : s[i] \in 1 .. Len(epochs) /\ epochs[s[i]] = epochId
  BY <1>1, <1>2, <1>4, <1>5 DEF Staged, record
<1>7. \A i, j \in DOMAIN s : i < j => s[i] < s[j]
  BY <1>1, <1>3, <1>4, <1>5 DEF Staged, record
<1>8. ASSUME NEW i \in 1 .. Len(ledger), ledger[i] # TORN,
             NEW p \in DOMAIN ledger[i].records, NEW q \in DOMAIN s
      PROVE  ledger[i].records[p] < s[q]
  <2>1. ledger[i].records[p] \in 1 .. Len(pushed)
    BY <1>8 DEF IInv, OnlyPushed
  <2> QED
    BY <2>1, <1>1, <1>4, <1>5, <1>8 DEF Staged, record
<1>9. Staged(s, epochs)
  BY <1>3, <1>6, <1>7, <1>8 DEF Staged
<1> QED
  BY <1>1, <1>2, <1>3, <1>9 DEF record, s, epochs, Extends

LEMMA SealKeepsRecords ==
  ASSUME IInv, NEW records, Staged(records, pushed'), Extends(pushed'),
         Len(pushed') \in Nat, ring' = << >>,
         Wrote(records) \/ Tore \/ Glued \/ UNCHANGED <<file, prevHash, seq>>
  PROVE  RecordsInv'
<1>0. /\ IsSeq(ledger) /\ Len(ledger) \in Nat /\ Len(pushed) \in Nat
      /\ DOMAIN ring' = {}
  BY Appended DEF IInv, LedgerShape, TypeOK
<1>1. \A i \in 1 .. Len(ledger') : ledger'[i] # TORN =>
          \/ i \in 1 .. Len(ledger) /\ ledger'[i] = ledger[i]
          \/ /\ i = Len(ledger) + 1 /\ ledger'[i].records = records
             /\ ledger'[i].epochId = epochId
  <2>1. CASE Wrote(records)
    <3> DEFINE sealed == Batch(seq, prevHash, records, epochId)
    <3>1. sealed.records = records /\ sealed.epochId = epochId
      BY DEF Batch
    <3>2. ledger' = Append(ledger, sealed)
      BY <2>1 DEF Wrote
    <3> HIDE DEF sealed
    <3> QED
      BY <1>0, <3>1, <3>2, Appended
  <2>2. CASE Tore
    BY <1>0, <2>2, Appended DEF Tore
  <2>3. CASE ledger' = ledger
    BY <2>3
  <2> QED
    BY <2>1, <2>2, <2>3 DEF Glued, file
<1>2. OnlyPushed'
  <2>1. ASSUME NEW i \in 1 .. Len(ledger'), ledger'[i] # TORN,
               NEW p \in DOMAIN ledger'[i].records
        PROVE  ledger'[i].records[p] \in 1 .. Len(pushed')
    BY <1>0, <1>1, <2>1 DEF IInv, OnlyPushed, Staged, Extends
  <2> QED
    BY <1>0, <2>1 DEF OnlyPushed
<1>3. RecordsInOrder'
  <2>1. ASSUME NEW i \in 1 .. Len(ledger'), NEW j \in 1 .. Len(ledger'),
               ledger'[i] # TORN, ledger'[j] # TORN,
               NEW p \in DOMAIN ledger'[i].records, NEW q \in DOMAIN ledger'[j].records,
               i < j \/ (i = j /\ p < q)
        PROVE  ledger'[i].records[p] < ledger'[j].records[q]
    <3>1. CASE j \in 1 .. Len(ledger) /\ ledger'[j] = ledger[j]
      <4>1. i \in 1 .. Len(ledger) /\ ledger'[i] = ledger[i]
        BY <1>0, <1>1, <2>1, <3>1
      <4> QED
        BY <2>1, <3>1, <4>1 DEF IInv, RecordsInOrder
    <3>2. CASE j = Len(ledger) + 1 /\ ledger'[j].records = records
      BY <1>0, <1>1, <2>1, <3>2 DEF Staged
    <3> QED
      BY <1>1, <2>1, <3>1, <3>2
  <2> QED
    BY <1>0, <2>1 DEF RecordsInOrder
<1>4. NoStraddling'
  <2>1. ASSUME NEW i \in 1 .. Len(ledger'), ledger'[i] # TORN,
               NEW p \in DOMAIN ledger'[i].records
        PROVE  pushed'[ledger'[i].records[p]] = ledger'[i].epochId
    <3>1. CASE i \in 1 .. Len(ledger) /\ ledger'[i] = ledger[i]
      BY <2>1, <3>1 DEF IInv, OnlyPushed, NoStraddling, Extends
    <3>2. CASE ledger'[i].records = records /\ ledger'[i].epochId = epochId
      BY <2>1, <3>2 DEF Staged
    <3> QED
      BY <1>1, <2>1, <3>1, <3>2
  <2> QED
    BY <1>0, <2>1 DEF NoStraddling
<1> QED
  BY <1>2, <1>3, <1>4 DEF RecordsInv

-----------------------------------------------------------------------------
(* Every step preserves the inductive invariant.                           *)

LEMMA Establishes ==
  ASSUME Init
  PROVE  IInv
<1>1. Len(ring) = 0 /\ Len(ledger) = 0 /\ Len(pushed) = 0 /\ DOMAIN ring = {}
  BY DEF Init
<1>2. TypeOK /\ RingHasRoom
  <2>1. ring \in Seq(1 .. MaxRecords) /\ pushed \in Seq(Epochs)
    BY DEF Init
  <2>2. \A i \in 1 .. Len(ledger) : ledger[i] = TORN \/ IsBatch(ledger[i])
    BY <1>1
  <2>3. /\ accepted \subseteq 1 .. Len(pushed) /\ seq \in Nat /\ epochId \in Epochs
        /\ writers \in 1 .. MaxWriters + 1 /\ Len(pushed) =< MaxRecords
    BY <1>1, BoundsAssumption DEF Init
  <2>4. tornTail \in BOOLEAN
    BY DEF Init
  <2>6. opened \subseteq 0 .. Len(ledger)
    BY <1>1 DEF Init
  <2>5. RingHasRoom
    BY <1>1, SizesAssumption DEF RingHasRoom
  <2> QED
    BY <2>1, <2>2, <2>3, <2>4, <2>5, <2>6 DEF TypeOK
<1>3. LedgerShape /\ OnlyPushed
  BY <1>1 DEF Init, LedgerShape, OnlyPushed, IsSeq
<1>4. BatchesChain /\ RecordsInOrder /\ NoStraddling
  BY <1>1 DEF Init, BatchesChain, RecordsInOrder, NoStraddling, Linked, StartsChain
<1>5. OneWriterWhole /\ Unbroken /\ OneOpened
  <2>1. DOMAIN ledger = {}
    BY DEF Init
  <2> QED
    BY <1>1, <2>1 DEF Init, OneWriterWhole, Whole, Unbroken, OneOpened, Chained
<1> QED
  BY <1>2, <1>3, <1>4, <1>5 DEF IInv

(* A call that seals, or finds nothing to seal, and may move the epoch on. *)
LEMMA SealPreserves ==
  ASSUME IInv, NEW records, Staged(records, pushed'), Extends(pushed'),
         pushed' \in Seq(Epochs), Len(pushed') =< MaxRecords,
         UNCHANGED <<writers, opened>>, accepted' \subseteq 1 .. Len(pushed'),
         epochId' \in Epochs, epochId' >= epochId, ring' = << >>,
         \/ records # << >> /\ Wrote(records)
         \/ Tore \/ Glued \/ UNCHANGED <<file, prevHash, seq>>
  PROVE  IInv'
<1>1. records \in Seq(1 .. MaxRecords) /\ Len(pushed') \in Nat
  BY DEF Staged
<1>2. FileInv'
  BY <1>1, SealKeepsFile
<1>3. RecordsInv'
  BY <1>1, SealKeepsRecords
<1>4. Len(ring') = 0 /\ ring' \in Seq(1 .. MaxRecords)
  OBVIOUS
<1>5. RingHasRoom'
  BY <1>4, SizesAssumption DEF RingHasRoom
<1>6. TypeOK'
  BY <1>2, <1>4 DEF FileInv, TypeOK, IInv
<1> QED
  BY <1>2, <1>3, <1>5, <1>6 DEF FileInv, RecordsInv, IInv

LEMMA PushPreserves ==
  ASSUME IInv, NEW result \in WriteResult, Push(result)
  PROVE  IInv'
<1> DEFINE record == Len(pushed) + 1
           s == Append(ring, record)
           due == Len(s) >= RingCapacity \/ Len(s) >= BatchSize
<1>1. /\ record =< MaxRecords /\ pushed' = Append(pushed, epochId)
      /\ UNCHANGED <<epochId, writers, opened>>
      /\ due => Seal(s, result)
      /\ ~due => ring' = s /\ UNCHANGED <<seq, prevHash, file>>
      /\ accepted' \subseteq accepted \cup {record}
  BY DEF Push
<1>2. /\ Staged(s, pushed') /\ s # << >> /\ Len(s) \in Nat /\ Extends(pushed')
      /\ pushed' \in Seq(Epochs) /\ Len(pushed') = record
  BY <1>1, PushStaged
<1>3. /\ Len(pushed) \in Nat /\ epochId \in Epochs /\ epochId' >= epochId
      /\ accepted \subseteq 1 .. Len(pushed)
  BY <1>1, EpochsAssumption DEF IInv, TypeOK
<1>4. accepted' \subseteq 1 .. Len(pushed')
  BY <1>1, <1>2, <1>3
<1>5. UNCHANGED <<writers, opened>> /\ epochId' \in Epochs /\ Len(pushed') =< MaxRecords
  BY <1>1, <1>2, <1>3
<1> HIDE DEF record, s, due
<1>6. CASE due
  <2>1. /\ ring' = << >>
        /\ Wrote(s) \/ Tore \/ Glued \/ UNCHANGED <<file, prevHash, seq>>
    BY <1>1, <1>6, SealCases
  <2> QED
    BY <1>2, <1>3, <1>4, <1>5, <2>1, SealPreserves
<1>7. CASE ~due
  <2>1. FileInv'
    BY <1>1, <1>3, <1>5, <1>7, SealKeepsFile
  <2>2. ring' = s /\ UNCHANGED <<seq, prevHash, file>>
    BY <1>1, <1>7
  <2>3. Len(ledger) \in Nat /\ UNCHANGED ledger /\ UNCHANGED epochId
    BY <1>1, <2>2, Appended DEF IInv, LedgerShape, file
  <2>4. OnlyPushed'
    <3>1. \A i \in 1 .. Len(ledger) : ledger[i] # TORN =>
              \A p \in DOMAIN ledger[i].records :
                  ledger[i].records[p] \in 1 .. Len(pushed')
      BY <1>2, <1>3 DEF IInv, OnlyPushed, record
    <3> QED
      BY <1>2, <2>2, <2>3, <3>1 DEF OnlyPushed, Staged
  <2>5. RecordsInOrder'
    <3>1. Ordered(ledger, s)
      BY <1>2 DEF IInv, RecordsInOrder, Staged, Ordered
    <3>2. Ordered(ledger', ring')
      BY <2>2, <2>3, <3>1
    <3> QED
      BY <3>2 DEF RecordsInOrder, Ordered
  <2>6. NoStraddling'
    <3>1. \A i \in 1 .. Len(ledger) : ledger[i] # TORN =>
              \A p \in DOMAIN ledger[i].records :
                  pushed'[ledger[i].records[p]] = ledger[i].epochId
      BY <1>2 DEF IInv, OnlyPushed, NoStraddling, Extends
    <3> QED
      BY <1>2, <2>2, <2>3, <3>1 DEF NoStraddling, Staged
  <2>7. RingHasRoom'
    <3>1. /\ RingCapacity \in Nat /\ BatchSize \in Nat /\ Len(ring') = Len(s)
          /\ ~(Len(s) >= RingCapacity) /\ ~(Len(s) >= BatchSize)
      BY <1>7, <2>2, SizesAssumption DEF due
    <3> QED
      BY <1>2, <3>1 DEF RingHasRoom
  <2>8. TypeOK'
    BY <1>2, <1>4, <1>5, <2>1, <2>2 DEF FileInv, TypeOK, IInv, Staged
  <2> QED
    BY <2>1, <2>4, <2>5, <2>6, <2>7, <2>8 DEF FileInv, IInv
<1> QED
  BY <1>6, <1>7

LEMMA RingSealed ==
  ASSUME IInv, UNCHANGED <<pushed, accepted>>
  PROVE  /\ Staged(ring, pushed') /\ Extends(pushed') /\ pushed' \in Seq(Epochs)
         /\ Len(pushed') =< MaxRecords /\ accepted' \subseteq 1 .. Len(pushed')
BY RingStaged DEF Extends, IInv, TypeOK

LEMMA FlushPreserves ==
  ASSUME IInv, NEW result \in WriteResult, Flush(result)
  PROVE  IInv'
<1>1. /\ ring # << >> /\ Seal(ring, result)
      /\ UNCHANGED <<epochId, pushed, accepted, writers, opened>>
  BY DEF Flush
<1>2. /\ ring' = << >>
      /\ Wrote(ring) \/ Tore \/ Glued \/ UNCHANGED <<file, prevHash, seq>>
  BY <1>1, SealCases
<1>3. epochId' \in Epochs /\ epochId' >= epochId
  BY <1>1, EpochsAssumption DEF IInv, TypeOK
<1> QED
  BY <1>1, <1>2, <1>3, RingSealed, SealPreserves

LEMMA AdoptPreserves ==
  ASSUME IInv, NEW epoch \in Epochs, NEW result \in WriteResult,
         AdoptEpoch(epoch, result)
  PROVE  IInv'
<1>1. UNCHANGED <<pushed, accepted, writers, opened>>
  BY DEF AdoptEpoch
<1>2. epochId' \in Epochs /\ epochId' >= epochId
  BY EpochsAssumption DEF AdoptEpoch, IInv, TypeOK
<1>3. CASE ring = << >>
  <2>1. ring' = << >> /\ UNCHANGED <<file, prevHash, seq>>
    BY <1>3 DEF AdoptEpoch
  <2> QED
    BY <1>1, <1>2, <2>1, RingSealed, SealPreserves
<1>4. CASE ring # << >>
  <2>1. Seal(ring, result)
    BY <1>4 DEF AdoptEpoch
  <2>2. /\ ring' = << >>
        /\ Wrote(ring) \/ Tore \/ Glued \/ UNCHANGED <<file, prevHash, seq>>
    BY <2>1, SealCases
  <2> QED
    BY <1>1, <1>2, <1>4, <2>2, RingSealed, SealPreserves
<1> QED
  BY <1>3, <1>4

LEMMA ReopenPreserves ==
  ASSUME IInv, NEW epoch \in Epochs, Reopen(epoch)
  PROVE  IInv'
<1>1. /\ writers' = writers + 1 /\ writers \in Nat \ {0} /\ writers < MaxWriters
      /\ MaxWriters \in Nat
  BY BoundsAssumption DEF Reopen, IInv, TypeOK
<1>2. /\ ring' = << >> /\ seq' = 0 /\ prevHash' = GENESIS /\ epochId' = epoch
      /\ accepted' = {} /\ UNCHANGED <<ledger, tornTail, pushed>>
      /\ opened' = opened \cup {Len(ledger)} /\ Len(ledger) \in Nat
  BY Appended DEF Reopen, file, IInv, LedgerShape
<1>3. DOMAIN ring' = {} /\ Len(ring') = 0 /\ ring' \in Seq(1 .. MaxRecords)
  BY <1>2
<1>4. TypeOK'
  <2>1. opened \subseteq 0 .. Len(ledger)
    BY DEF IInv, TypeOK
  <2>2. opened' \subseteq 0 .. Len(ledger')
    <3>1. Len(ledger) \in 0 .. Len(ledger) /\ ledger' = ledger
      BY <1>2
    <3> QED
      BY <1>2, <2>1, <3>1, Zenon
  <2> QED
    BY <1>1, <1>2, <1>3, <2>2 DEF IInv, TypeOK
<1>5. RingHasRoom'
  BY <1>3, SizesAssumption DEF RingHasRoom
<1>6. LedgerShape' /\ OnlyPushed'
  BY <1>2, <1>3 DEF IInv, LedgerShape, OnlyPushed
<1>7. BatchesChain'
  <2>1. \A n \in 0 .. Len(ledger) - 1 : LineLinked(n)'
    BY <1>2, LineByLine, LineStays DEF IInv, LedgerShape
  <2>2. Linked(Len(ledger), seq, prevHash, epochId)'
    BY <1>2 DEF Linked, StartsChain
  <2> QED
    BY <1>2, <2>1, <2>2 DEF BatchesChain, LineLinked
<1>8. RecordsInOrder'
  <2>1. Ordered(ledger, << >>)
    BY DEF IInv, RecordsInOrder, Ordered
  <2>2. Ordered(ledger', ring')
    BY <1>2, <2>1
  <2> QED
    BY <2>2 DEF RecordsInOrder, Ordered
<1>9. NoStraddling'
  BY <1>2, <1>3 DEF IInv, NoStraddling
<1>10. OneWriterWhole'
  <2> SUFFICES ASSUME opened' = {0} PROVE Whole'
    BY DEF OneWriterWhole
  <2>1. Len(ledger) = 0
    BY <1>2
  <2> QED
    BY <1>2, <2>1 DEF Whole
<1>11. Unbroken'
  BY <1>2 DEF IInv, Unbroken
<1>12. OneOpened'
  BY <1>1 DEF OneOpened
<1> QED
  BY <1>4, <1>5, <1>6, <1>7, <1>8, <1>9, <1>10, <1>11, <1>12 DEF IInv

LEMMA Preserves ==
  ASSUME IInv, [Next]_vars
  PROVE  IInv'
<1>1. CASE \E result \in WriteResult : Push(result)
  BY <1>1, PushPreserves
<1>2. CASE \E result \in WriteResult : Flush(result)
  BY <1>2, FlushPreserves
<1>3. CASE \E epoch \in Epochs, result \in WriteResult : AdoptEpoch(epoch, result)
  BY <1>3, AdoptPreserves
<1>4. CASE \E epoch \in Epochs : Reopen(epoch)
  BY <1>4, ReopenPreserves
<1>5. CASE UNCHANGED vars
  <2>1. UNCHANGED <<ring, seq, prevHash, epochId, ledger, tornTail, pushed, accepted, writers, opened>>
    BY <1>5 DEF vars, writer, file
  <2>2. TypeOK' /\ RingHasRoom' /\ LedgerShape' /\ OnlyPushed'
    BY <2>1 DEF IInv, TypeOK, RingHasRoom, LedgerShape, OnlyPushed
  <2>3. BatchesChain' /\ NoStraddling'
    BY <2>1 DEF IInv, BatchesChain, Linked, NoStraddling
  <2>4. RecordsInOrder'
    <3>1. Ordered(ledger', ring')
      BY <2>1 DEF IInv, RecordsInOrder, Ordered
    <3> QED
      BY <3>1 DEF RecordsInOrder, Ordered
  <2>5. OneWriterWhole' /\ Unbroken' /\ OneOpened'
    BY <2>1 DEF IInv, OneWriterWhole, Whole, Parses, LinkOK, Unbroken, OneOpened
  <2> QED
    BY <2>2, <2>3, <2>4, <2>5 DEF IInv
<1> QED
  BY <1>1, <1>2, <1>3, <1>4, <1>5 DEF Next

(* The file is only appended to, a torn line stays torn, and a writer that *)
(* was replaced is gone: what a caller has seen on the ledger stays there. *)
(* A line that is new is torn or of the epoch the writer seals under.      *)
LEMMA LinesStay ==
  ASSUME IInv, Next
  PROVE  /\ \A i \in DOMAIN ledger : i \in DOMAIN ledger' /\ ledger'[i] = ledger[i]
         /\ \A i \in DOMAIN ledger' :
                i \in DOMAIN ledger \/ ledger'[i] = TORN \/ ledger'[i].epochId = epochId
         /\ Parses(ledger') => Parses(ledger)
         /\ writers' = 1 => writers = 1
<1>1. IsSeq(ledger) /\ writers \in Nat \ {0}
  BY DEF IInv, TypeOK, LedgerShape
<1> DEFINE Due(line) == line = TORN \/ line.epochId = epochId
<1>2. ledger' = ledger \/ \E line : Due(line) /\ ledger' = Append(ledger, line)
  <2>1. ASSUME NEW records, NEW result \in WriteResult, Seal(records, result)
        PROVE  ledger' = ledger \/ \E line : Due(line) /\ ledger' = Append(ledger, line)
    <3>1. Wrote(records) \/ Tore \/ Glued \/ UNCHANGED <<file, prevHash, seq>>
      BY <2>1, SealCases
    <3>2. CASE Wrote(records)
      BY <3>2 DEF Wrote, Batch
    <3>3. CASE Tore
      BY <3>3 DEF Tore
    <3>4. CASE Glued \/ UNCHANGED <<file, prevHash, seq>>
      BY <3>4 DEF Glued, file
    <3> QED
      BY <3>1, <3>2, <3>3, <3>4
  <2>2. CASE \E result \in WriteResult : Push(result)
    <3>1. PICK result \in WriteResult : Push(result)
      BY <2>2
    <3>2. Seal(Append(ring, Len(pushed) + 1), result) \/ UNCHANGED file
      BY <3>1 DEF Push
    <3> QED
      BY <2>1, <3>2 DEF file
  <2>3. CASE \E result \in WriteResult : Flush(result)
    BY <2>1, <2>3 DEF Flush
  <2>4. CASE \E epoch \in Epochs, result \in WriteResult : AdoptEpoch(epoch, result)
    <3>1. PICK epoch \in Epochs, result \in WriteResult : AdoptEpoch(epoch, result)
      BY <2>4
    <3>2. Seal(ring, result) \/ UNCHANGED file
      BY <3>1 DEF AdoptEpoch
    <3> QED
      BY <2>1, <3>2 DEF file
  <2>5. CASE \E epoch \in Epochs : Reopen(epoch)
    BY <2>5 DEF Reopen, file
  <2> QED
    BY <2>2, <2>3, <2>4, <2>5 DEF Next
<1>3. /\ \A i \in DOMAIN ledger : i \in DOMAIN ledger' /\ ledger'[i] = ledger[i]
      /\ \A i \in DOMAIN ledger' : i \in DOMAIN ledger \/ Due(ledger'[i])
  <2>1. CASE ledger' = ledger
    BY <2>1
  <2>2. ASSUME NEW line, Due(line), ledger' = Append(ledger, line)
        PROVE  /\ \A i \in DOMAIN ledger : i \in DOMAIN ledger' /\ ledger'[i] = ledger[i]
               /\ \A i \in DOMAIN ledger' : i \in DOMAIN ledger \/ Due(ledger'[i])
    <3>1. /\ Len(ledger) \in Nat /\ DOMAIN ledger = 1 .. Len(ledger)
          /\ DOMAIN ledger' = 1 .. Len(ledger) + 1
          /\ \A i \in 1 .. Len(ledger) : ledger'[i] = ledger[i]
          /\ ledger'[Len(ledger) + 1] = line
      BY <1>1, <2>2, Appended
    <3>2. \A i \in DOMAIN ledger' : i \in DOMAIN ledger \/ i = Len(ledger) + 1
      BY <3>1
    <3>3. \A i \in DOMAIN ledger : i \in DOMAIN ledger'
      BY <3>1
    <3> QED
      BY <2>2, <3>1, <3>2, <3>3
  <2> QED
    BY <1>2, <2>1, <2>2
<1>4. writers' = writers \/ writers' = writers + 1
  BY DEF Next, Push, Flush, AdoptEpoch, Reopen
<1> QED
  BY <1>1, <1>3, <1>4 DEF Parses

(* The inductive invariant holds in every state.                           *)
THEOREM Invariance == Spec => []IInv
<1>1. Init => IInv
  BY Establishes
<1>2. IInv /\ [Next]_vars => IInv'
  BY Preserves
<1> QED
  BY <1>1, <1>2, PTL DEF Spec

(* The writer's state and every line of its file are of their types.       *)
THEOREM TypeCorrect == Spec => []TypeOK
<1>1. IInv => TypeOK
  BY DEF IInv
<1> QED
  BY <1>1, Invariance, PTL

(* The ring is below its capacity and the batch size between any two calls *)
(* of the writer, so push never finds it full.                             *)
THEOREM RoomForNext == Spec => []RingHasRoom
<1>1. IInv => RingHasRoom
  BY DEF IInv
<1> QED
  BY <1>1, Invariance, PTL

(* Whatever writes fail, a batch of the file continues the one before it,  *)
(* unless a writer was opened there: the chain is broken by restarts only. *)
THEOREM ChainNeverForks == Spec => []BatchesChain
<1>1. IInv => BatchesChain
  BY DEF IInv
<1> QED
  BY <1>1, Invariance, PTL

(* A place in the middle of a sequence has a next one.                     *)
LEMMA Between ==
  ASSUME NEW last \in Nat, NEW n \in 0 .. last, n # 0, n # last
  PROVE  /\ n \in 1 .. last /\ n + 1 \in 1 .. last /\ n \in 0 .. last - 1
         /\ n + 1 # 1 /\ n + 1 - 1 # 0
OBVIOUS

(* The file is one chain from GENESIS exactly as long as it can be read    *)
(* and no batch was sealed by a writer opened over earlier ones.           *)
THEOREM OneChainUntilRestart == Spec => []SingleChain
<1>1. ASSUME IInv PROVE SingleChain
  <2> SUFFICES ASSUME Parses(ledger), Chained(ledger)
               PROVE  opened \subseteq {0, Len(ledger)}
    BY <1>1 DEF IInv, Unbroken, SingleChain
  <2> SUFFICES ASSUME NEW n \in opened, n # 0, n # Len(ledger) PROVE FALSE
    OBVIOUS
  <2>1. /\ Len(ledger) \in Nat /\ DOMAIN ledger = 1 .. Len(ledger)
        /\ opened \subseteq 0 .. Len(ledger)
    BY <1>1, Appended DEF IInv, LedgerShape, TypeOK
  <2>2. n \in 0 .. Len(ledger)
    BY <2>1
  <2>3. /\ n \in 1 .. Len(ledger) /\ n + 1 \in 1 .. Len(ledger)
        /\ n \in 0 .. Len(ledger) - 1 /\ n + 1 # 1 /\ n + 1 - 1 # 0
    BY <2>1, <2>2, Between
  <2>4. ledger[n] # TORN /\ ledger[n + 1] # TORN
    BY <2>1, <2>3 DEF Parses
  <2>5. LineLinked(n)
    BY <1>1, <2>3, LineByLine DEF IInv
  <2>6. ledger[n + 1].seq = 0
    BY <2>4, <2>5 DEF LineLinked, Linked, StartsChain
  <2>7. ledger[n + 1].seq = n + 1 - 1
    BY <2>3 DEF Chained, LinkOK
  <2> QED
    BY <2>3, <2>6, <2>7
<1>2. IInv => SingleChain
  BY <1>1
<1> QED
  BY <1>2, Invariance, PTL

(* Whatever writes fail and whenever epochs are adopted, nothing but a     *)
(* restart breaks the chain, and every restart that seals does.            *)
THEOREM ChainBreaksAtRestarts == Spec => []LedgerChain
<1>1. BatchesChain /\ SingleChain => LedgerChain
  BY DEF LedgerChain
<1> QED
  BY <1>1, ChainNeverForks, OneChainUntilRestart, PTL

(* A record is never on disk twice, nor after one pushed later, over any   *)
(* number of failed writes and restarts.                                   *)
THEOREM OrderKept == Spec => []RecordsInOrder
<1>1. IInv => RecordsInOrder
  BY DEF IInv
<1> QED
  BY <1>1, Invariance, PTL

(* A record is sealed under the epoch it was pushed in.                    *)
THEOREM SealedInItsEpoch == Spec => []NoStraddling
<1>1. IInv => NoStraddling
  BY DEF IInv
<1> QED
  BY <1>1, Invariance, PTL

LEMMA WholeVerifies ==
  ASSUME IInv
  PROVE  OneWriterVerifies
<1> SUFFICES ASSUME writers = 1, Parses(ledger)
             PROVE  /\ epochId = Legacy => VerifyChain(ledger, Legacy)
                    /\ (\A i \in 1 .. Len(ledger) : ledger[i].epochId # Legacy) =>
                           VerifyChainEpochAware(ledger, Epochs)
  BY DEF OneWriterVerifies
<1>1. Whole /\ DOMAIN ledger = 1 .. Len(ledger)
  BY Appended DEF IInv, OneWriterWhole, OneOpened, LedgerShape
<1>2. Chained(ledger)
  BY <1>1 DEF Whole, Chained
<1>3. \A i \in 1 .. Len(ledger) : ledger[i].epochId \in Epochs /\ ledger[i].epochId \in Nat
  BY <1>1, EpochsAssumption DEF Parses, IInv, TypeOK, IsBatch
<1>4. epochId = Legacy => VerifyChain(ledger, Legacy)
  BY <1>1, <1>2, <1>3 DEF Whole, VerifyChain, Legacy
<1>5. (\A i \in 1 .. Len(ledger) : ledger[i].epochId # Legacy) =>
          VerifyChainEpochAware(ledger, Epochs)
  BY <1>1, <1>2, <1>3 DEF Whole, VerifyChainEpochAware, Legacy
<1> QED
  BY <1>4, <1>5

(* The untorn ledger of one writer verifies, under the single key or under *)
(* the keys of its epochs, after every call.                               *)
THEOREM OneWriterAccepted == Spec => []OneWriterVerifies
<1>1. IInv => OneWriterVerifies
  BY WholeVerifies
<1> QED
  BY <1>1, Invariance, PTL
=============================================================================
