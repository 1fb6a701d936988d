----------------------------- MODULE KeyRingProofs -----------------------------
(***************************************************************************)
(* What the key-ring functions preserve, for every set of candidates and   *)
(* every set of ticks.  Each function takes a ring that passes VerifyRing  *)
(* to one that passes it again, of the same type, and changes the statuses *)
(* in exactly the way its lemma says.                                      *)
(***************************************************************************)
EXTENDS KeyRing, SequenceTheorems, TLAPS

Ring == Seq(KeyEpoch)

(* The fields of a well-typed epoch, one by one.                           *)
LEMMA EpochFields ==
    ASSUME NEW r \in Ring, NEW i \in DOMAIN r
    PROVE  /\ i \in 1 .. Len(r) /\ Len(r) \in Nat
           /\ r[i] \in KeyEpoch
           /\ r[i].epochId \in Nat
           /\ r[i].createdTick \in Nat
           /\ r[i].retiredTick \in Nat \cup {NoTick}
           /\ r[i].status \in KeyEpochStatus
<1>1. /\ DOMAIN r = 1 .. Len(r) /\ Len(r) \in Nat
  BY LenProperties DEF Ring
<1>2. r[i] \in KeyEpoch
  BY <1>1, ElementOfSeq DEF Ring
<1> QED BY <1>1, <1>2 DEF KeyEpoch

(* activeEpoch of a verified ring is its one active epoch.                 *)
LEMMA ActiveIsUnique ==
    ASSUME NEW r \in Ring, VerifyRing(r)
    PROVE  /\ ActiveEpoch(r) \in 1 .. Len(r)
           /\ ActiveEpoch(r) \in DOMAIN r
           /\ r[ActiveEpoch(r)].status = "active"
           /\ \A i \in DOMAIN r : r[i].status = "active" => i = ActiveEpoch(r)
<1>1. PICK a \in DOMAIN r : Having(r, "active") = {a}
  BY DEF VerifyRing
<1>2. \A i \in DOMAIN r : r[i].status = "active" <=> i = a
  BY <1>1 DEF Having
<1>3. /\ ActiveEpoch(r) \in DOMAIN r /\ r[ActiveEpoch(r)].status = "active"
  BY <1>2 DEF ActiveEpoch
<1> QED BY <1>2, <1>3, LenProperties DEF Ring

(* A ring whose one active epoch is known.                                 *)
LEMMA ActiveIs ==
    ASSUME NEW r, NEW a \in DOMAIN r, r[a].status = "active",
           \A i \in DOMAIN r : r[i].status = "active" => i = a
    PROVE  ActiveEpoch(r) = a /\ Having(r, "active") = {a}
<1>1. ActiveEpoch(r) \in DOMAIN r /\ r[ActiveEpoch(r)].status = "active"
  BY DEF ActiveEpoch
<1>2. ActiveEpoch(r) = a
  BY <1>1
<1>3. Having(r, "active") = {a}
  BY DEF Having
<1> QED BY <1>2, <1>3

LEMMA NewEpochType ==
    ASSUME NEW id \in Nat, NEW c \in Candidates, NEW tick \in Ticks,
           NEW status \in KeyEpochStatus
    PROVE  NewEpoch(id, c, tick, status) \in KeyEpoch
<1>1. c \in Candidate
  BY CandidatesAssumption
<1>2. tick \in Nat
  BY TicksAssumption
<1> QED BY <1>1, <1>2 DEF NewEpoch, KeyEpoch, Candidate

(* createKeyRing starts with one active epoch, numbered 1.                 *)
LEMMA CreateVerifies ==
    ASSUME NEW c \in Candidates, NEW tick \in Ticks, CanCreate(c)
    PROVE  LET r == CreateKeyRing(c, tick) IN
           /\ r \in Ring /\ VerifyRing(r)
           /\ Len(r) = 1 /\ ActiveEpoch(r) = 1 /\ r[1].status = "active"
<1> DEFINE e == NewEpoch(1, c, tick, "active")
<1> DEFINE r == CreateKeyRing(c, tick)
<1>1. e \in KeyEpoch
  BY NewEpochType DEF KeyEpochStatus
<1>2. /\ r = <<e>> /\ DOMAIN r = {1} /\ Len(r) = 1 /\ r[1] = e
  BY DEF CreateKeyRing
<1>3. r \in Ring
  BY <1>1, <1>2 DEF Ring
<1>4. /\ e.status = "active" /\ e.epochId = 1 /\ e.keyCommit = c.keyCommit
      /\ e.retiredTick = NoTick
  BY DEF NewEpoch
<1>5. ActiveEpoch(r) = 1 /\ Having(r, "active") = {1}
  BY <1>2, <1>4, ActiveIs
<1>6. Having(r, "staged") = {}
  BY <1>2, <1>4 DEF Having
<1>7. \A i \in DOMAIN r : WellFormedEpoch(r, i)
  BY <1>2, <1>4 DEF WellFormedEpoch, CanCreate
<1>8. VerifyRing(r)
  <2>1. r # << >>
    BY <1>2
  <2> QED BY <1>2, <1>5, <1>6, <1>7, <2>1 DEF VerifyRing
<1> QED BY <1>2, <1>3, <1>4, <1>5, <1>8

(* stageEpoch appends one staged epoch and leaves the others alone.        *)
LEMMA StageVerifies ==
    ASSUME NEW r \in Ring, NEW c \in Candidates, NEW tick \in Ticks,
           CanStage(r, c, tick)
    PROVE  LET s == StageEpoch(r, c, tick) IN
           /\ s \in Ring /\ VerifyRing(s)
           /\ Len(s) = Len(r) + 1
           /\ \A i \in DOMAIN r : i \in DOMAIN s /\ s[i] = r[i]
           /\ s[Len(s)].status = "staged"
           /\ ActiveEpoch(s) = ActiveEpoch(r)
<1> DEFINE n == Len(r)
<1> DEFINE e == NewEpoch(r[n].epochId + 1, c, tick, "staged")
<1> DEFINE s == StageEpoch(r, c, tick)
<1>1. VerifyRing(r) /\ r # << >> /\ Having(r, "staged") = {}
  BY DEF CanStage, VerifyRing
<1>2. n \in Nat /\ n >= 1 /\ DOMAIN r = 1 .. n
  BY <1>1, LenProperties, EmptySeq DEF Ring
<1>3. r[n].epochId = n
  BY <1>1, <1>2 DEF VerifyRing, WellFormedEpoch
<1>4. e \in KeyEpoch
  <2>1. r[n].epochId + 1 \in Nat
    BY <1>2, <1>3
  <2> QED BY <2>1, NewEpochType DEF KeyEpochStatus
<1>5. /\ s \in Ring /\ Len(s) = n + 1 /\ DOMAIN s = 1 .. (n + 1)
      /\ \A i \in 1 .. n : s[i] = r[i]
      /\ s[n + 1] = e
  BY <1>2, <1>4 DEF StageEpoch, Ring
<1>6. /\ e.status = "staged" /\ e.epochId = n + 1 /\ e.retiredTick = NoTick
      /\ e.keyCommit = c.keyCommit /\ e.keyId = c.keyId /\ e.fileRef = c.fileRef
      /\ e.createdTick = tick
  BY <1>3 DEF NewEpoch
<1>7. tick \in Nat /\ tick > r[n].createdTick /\ WellFormedCommit(c.keyCommit)
      /\ \A i \in 1 .. n : ~SameKey(r[i], c)
  BY <1>2, TicksAssumption DEF CanStage
<1>8. /\ ActiveEpoch(r) \in 1 .. n /\ r[ActiveEpoch(r)].status = "active"
      /\ \A i \in 1 .. n : r[i].status = "active" => i = ActiveEpoch(r)
  BY <1>1, <1>2, ActiveIsUnique
<1>9. ActiveEpoch(s) = ActiveEpoch(r) /\ Having(s, "active") = {ActiveEpoch(r)}
  <2>1. ActiveEpoch(r) \in DOMAIN s /\ s[ActiveEpoch(r)].status = "active"
    BY <1>2, <1>5, <1>8
  <2>2. \A i \in DOMAIN s : s[i].status = "active" => i = ActiveEpoch(r)
    BY <1>2, <1>5, <1>6, <1>8
  <2> QED BY <2>1, <2>2, ActiveIs
<1>10. \A i \in DOMAIN s : WellFormedEpoch(s, i)
  <2>1. \A i \in 1 .. n : WellFormedEpoch(s, i)
    BY <1>1, <1>2, <1>5 DEF VerifyRing, WellFormedEpoch
  <2>2. WellFormedEpoch(s, n + 1)
    BY <1>5, <1>6, <1>7 DEF WellFormedEpoch, WellFormedCommit
  <2> QED BY <1>2, <1>5, <2>1, <2>2
<1>11. ASSUME NEW i \in DOMAIN s, NEW j \in DOMAIN s, i < j
       PROVE  s[i].createdTick < s[j].createdTick /\ ~SameKey(s[i], s[j])
  <2>1. CASE j \in 1 .. n
    BY <1>1, <1>2, <1>5, <1>11, <2>1 DEF VerifyRing
  <2>2. CASE j = n + 1
    <3>1. i \in 1 .. n /\ s[i] = r[i] /\ s[j] = e
      BY <1>2, <1>5, <1>11, <2>2
    <3>2. r[i].createdTick =< r[n].createdTick
      <4>1. i = n \/ r[i].createdTick < r[n].createdTick
        BY <1>1, <1>2, <3>1 DEF VerifyRing
      <4>2. r[i].createdTick \in Nat /\ r[n].createdTick \in Nat
        BY <1>2, <3>1, EpochFields
      <4> QED BY <4>1, <4>2
    <3>3. r[i].createdTick \in Nat /\ r[n].createdTick \in Nat
      BY <1>2, <3>1, EpochFields
    <3>4. r[i].createdTick < tick
      BY <1>7, <3>2, <3>3
    <3>5. ~SameKey(r[i], e)
      BY <1>6, <1>7, <3>1 DEF SameKey
    <3> QED BY <1>6, <3>1, <3>4, <3>5
  <2> QED BY <1>2, <1>5, <2>1, <2>2
<1>12. \A i, j \in Having(s, "staged") : i = j
  <2>1. \A i \in 1 .. n : r[i].status # "staged"
    BY <1>1, <1>2 DEF Having
  <2>2. Having(s, "staged") \subseteq {n + 1}
    BY <1>2, <1>5, <2>1 DEF Having
  <2> QED BY <2>2
<1>13. VerifyRing(s)
  <2>1. s # << >>
    BY <1>2, <1>5
  <2>2. \E i \in DOMAIN s : Having(s, "active") = {i}
    BY <1>2, <1>5, <1>8, <1>9
  <2> QED BY <1>10, <1>11, <1>12, <2>1, <2>2 DEF VerifyRing
<1> QED BY <1>2, <1>5, <1>6, <1>9, <1>13

(* Relabelling the epochs of a verified ring, without touching what they   *)
(* are, gives a verified ring if it leaves one active epoch, at most one   *)
(* staged one, and a retiredTick exactly where one belongs.                *)
LEMMA RelabelVerifies ==
    ASSUME NEW r \in Ring, VerifyRing(r), NEW s \in Ring, Len(s) = Len(r),
           \A i \in 1 .. Len(r) :
               /\ s[i].epochId = r[i].epochId
               /\ s[i].keyId = r[i].keyId
               /\ s[i].keyCommit = r[i].keyCommit
               /\ s[i].fileRef = r[i].fileRef
               /\ s[i].createdTick = r[i].createdTick
               /\ IF s[i].status \in {"retired", "revoked"}
                  THEN s[i].retiredTick \in Nat /\ s[i].retiredTick >= s[i].createdTick
                  ELSE s[i].retiredTick = NoTick
               /\ s[i].status = "staged" => r[i].status = "staged",
           NEW a \in 1 .. Len(r), s[a].status = "active",
           \A i \in 1 .. Len(r) : s[i].status = "active" => i = a
    PROVE  VerifyRing(s) /\ ActiveEpoch(s) = a
<1>1. DOMAIN r = 1 .. Len(r) /\ DOMAIN s = 1 .. Len(r) /\ Len(r) \in Nat
  BY LenProperties DEF Ring
<1>2. ActiveEpoch(s) = a /\ Having(s, "active") = {a}
  BY <1>1, ActiveIs
<1>3. \A i \in DOMAIN s : WellFormedEpoch(s, i)
  BY <1>1 DEF VerifyRing, WellFormedEpoch, WellFormedCommit, NoTick
<1>4. \A i, j \in DOMAIN s : i < j =>
          s[i].createdTick < s[j].createdTick /\ ~SameKey(s[i], s[j])
  BY <1>1 DEF VerifyRing, SameKey
<1>5. \A i, j \in Having(s, "staged") : i = j
  BY <1>1 DEF VerifyRing, Having
<1>6. s # << >>
  BY <1>1
<1> QED BY <1>1, <1>2, <1>3, <1>4, <1>5, <1>6 DEF VerifyRing

(* What an operation may not touch: the length of the ring and the key of  *)
(* every epoch in it.                                                      *)
SameKeys(r, s) ==
    /\ Len(s) = Len(r)
    /\ \A i \in DOMAIN r :
           /\ i \in DOMAIN s
           /\ s[i].epochId = r[i].epochId
           /\ s[i].keyId = r[i].keyId
           /\ s[i].keyKind = r[i].keyKind
           /\ s[i].keyCommit = r[i].keyCommit
           /\ s[i].fileRef = r[i].fileRef
           /\ s[i].createdTick = r[i].createdTick

(* switchActive retires the active epoch at the switch tick and activates  *)
(* the staged one.                                                         *)
LEMMA SwitchVerifies ==
    ASSUME NEW r \in Ring, NEW atTick \in Nat, CanSwitch(r, atTick)
    PROVE  LET s == SwitchActive(r, atTick) IN
           /\ s \in Ring /\ VerifyRing(s) /\ SameKeys(r, s)
           /\ Having(r, "staged") = {ActiveEpoch(s)}
           /\ \A i \in DOMAIN r :
                  s[i].status = CASE r[i].status = "active" -> "retired"
                                  [] r[i].status = "staged" -> "active"
                                  [] OTHER -> r[i].status
           /\ s[ActiveEpoch(r)].retiredTick = atTick
           /\ atTick >= s[ActiveEpoch(s)].createdTick
<1> DEFINE s == SwitchActive(r, atTick)
<1> DEFINE a == ActiveEpoch(r)
<1>1. VerifyRing(r) /\ DOMAIN r = 1 .. Len(r) /\ Len(r) \in Nat
  BY LenProperties DEF CanSwitch, Ring
<1>2. PICK c \in 1 .. Len(r) : r[c].status = "staged"
  BY <1>1 DEF CanSwitch, Having
<1>3. \A i \in 1 .. Len(r) : r[i].status = "staged" => i = c
  BY <1>1, <1>2 DEF VerifyRing, Having
<1>4. /\ a \in 1 .. Len(r) /\ r[a].status = "active"
      /\ \A i \in 1 .. Len(r) : r[i].status = "active" => i = a
  BY <1>1, ActiveIsUnique
<1>5. \A i \in 1 .. Len(r) :
          s[i] = CASE r[i].status = "active" ->
                      [r[i] EXCEPT !.status = "retired", !.retiredTick = atTick]
                   [] r[i].status = "staged" -> [r[i] EXCEPT !.status = "active"]
                   [] OTHER -> r[i]
  BY <1>1 DEF SwitchActive
<1>6. \A i \in 1 .. Len(r) : r[i] \in KeyEpoch
  BY <1>1, EpochFields
<1>7. ASSUME NEW i \in 1 .. Len(r)
      PROVE  s[i] \in KeyEpoch
  <2>1. r[i] \in KeyEpoch
    BY <1>6
  <2>2. [r[i] EXCEPT !.status = "retired", !.retiredTick = atTick] \in KeyEpoch
    BY <2>1 DEF KeyEpoch, KeyEpochStatus
  <2>3. [r[i] EXCEPT !.status = "active"] \in KeyEpoch
    BY <2>1 DEF KeyEpoch, KeyEpochStatus
  <2> QED BY <1>5, <2>1, <2>2, <2>3
<1>8. s \in Ring /\ Len(s) = Len(r)
  <2>1. s \in [1 .. Len(r) -> KeyEpoch]
    BY <1>1, <1>7 DEF SwitchActive
  <2> QED BY <1>1, <2>1, SeqDef, LenProperties DEF Ring
<1>9. ASSUME NEW i \in 1 .. Len(r)
      PROVE  /\ s[i].epochId = r[i].epochId
             /\ s[i].keyId = r[i].keyId
             /\ s[i].keyKind = r[i].keyKind
             /\ s[i].keyCommit = r[i].keyCommit
             /\ s[i].fileRef = r[i].fileRef
             /\ s[i].createdTick = r[i].createdTick
             /\ s[i].status = CASE r[i].status = "active" -> "retired"
                                [] r[i].status = "staged" -> "active"
                                [] OTHER -> r[i].status
             /\ s[i].retiredTick = IF r[i].status = "active" THEN atTick
                                   ELSE r[i].retiredTick
  BY <1>5, <1>6 DEF KeyEpoch
<1>10. ASSUME NEW i \in 1 .. Len(r)
       PROVE  /\ IF s[i].status \in {"retired", "revoked"}
                 THEN s[i].retiredTick \in Nat /\ s[i].retiredTick >= s[i].createdTick
                 ELSE s[i].retiredTick = NoTick
              /\ s[i].status # "staged"
  <2>1. r[i].status = "active" => atTick >= r[i].createdTick
    BY <1>1 DEF CanSwitch
  <2>2. WellFormedEpoch(r, i)
    BY <1>1 DEF VerifyRing
  <2> QED BY <1>1, <1>9, <2>1, <2>2, EpochFields DEF WellFormedEpoch, NoTick
<1>11. s[c].status = "active" /\ \A i \in 1 .. Len(r) : s[i].status = "active" => i = c
  BY <1>2, <1>3, <1>9, <1>10
<1>12. VerifyRing(s) /\ ActiveEpoch(s) = c
  <2> HIDE DEF s, a
  <2> QED BY <1>1, <1>8, <1>9, <1>10, <1>11, RelabelVerifies
<1>13. SameKeys(r, s)
  <2>1. DOMAIN s = 1 .. Len(r)
    BY <1>1 DEF SwitchActive
  <2> QED BY <1>1, <1>8, <1>9, <2>1 DEF SameKeys
<1>14. Having(r, "staged") = {c}
  BY <1>1, <1>2, <1>3 DEF Having
<1>15. s[a].retiredTick = atTick
  BY <1>4, <1>9
<1>16. atTick >= s[c].createdTick
  BY <1>1, <1>2, <1>9 DEF CanSwitch
<1> QED BY <1>1, <1>8, <1>9, <1>12, <1>13, <1>14, <1>15, <1>16

(* fallbackSwitch revokes the active epoch and re-activates its            *)
(* predecessor.                                                            *)
LEMMA FallbackVerifies ==
    ASSUME NEW r \in Ring, NEW atTick \in Nat, CanFallback(r, atTick)
    PROVE  LET s == FallbackSwitch(r, atTick)
               a == ActiveEpoch(r) IN
           /\ s \in Ring /\ VerifyRing(s) /\ SameKeys(r, s)
           /\ ActiveEpoch(s) = a - 1 /\ a - 1 \in DOMAIN r
           /\ r[a - 1].status = "retired"
           /\ \A i \in DOMAIN r :
                  s[i].status = CASE i = a -> "revoked"
                                  [] i = a - 1 -> "active"
                                  [] OTHER -> r[i].status
<1> DEFINE s == FallbackSwitch(r, atTick)
<1> DEFINE a == ActiveEpoch(r)
<1> DEFINE ea == [r[a] EXCEPT !.status = "revoked", !.retiredTick = atTick]
<1> DEFINE ep == [r[a - 1] EXCEPT !.status = "active", !.retiredTick = NoTick]
<1>1. VerifyRing(r) /\ DOMAIN r = 1 .. Len(r) /\ Len(r) \in Nat
  BY LenProperties DEF CanFallback, Ring
<1>2. /\ a \in 1 .. Len(r) /\ r[a].status = "active"
      /\ \A i \in 1 .. Len(r) : r[i].status = "active" => i = a
  BY <1>1, ActiveIsUnique
<1>3. a - 1 \in 1 .. Len(r) /\ r[a - 1].status = "retired"
  BY <1>1 DEF CanFallback, Having
<1>4. a # a - 1
  BY <1>2
<1>5. \A i \in 1 .. Len(r) : r[i] \in KeyEpoch
  BY <1>1, EpochFields
<1>6. s \in [1 .. Len(r) -> KeyEpoch]
      /\ \A i \in 1 .. Len(r) : s[i] = CASE i = a -> ea [] i = a - 1 -> ep [] OTHER -> r[i]
  <2>1. ea \in KeyEpoch /\ ep \in KeyEpoch
    BY <1>2, <1>3, <1>5 DEF KeyEpoch, KeyEpochStatus
  <2>2. r \in [1 .. Len(r) -> KeyEpoch]
    BY LenProperties DEF Ring
  <2>3. s = [[r EXCEPT ![a] = ea] EXCEPT ![a - 1] = ep]
    BY <1>2, <1>3, <1>4, <2>2 DEF FallbackSwitch
  <2> QED BY <1>2, <1>3, <1>4, <2>1, <2>2, <2>3
<1>7. s \in Ring /\ Len(s) = Len(r) /\ DOMAIN s = 1 .. Len(r)
  BY <1>1, <1>6, SeqDef, LenProperties DEF Ring
<1>8. ASSUME NEW i \in 1 .. Len(r)
      PROVE  /\ s[i].epochId = r[i].epochId
             /\ s[i].keyId = r[i].keyId
             /\ s[i].keyKind = r[i].keyKind
             /\ s[i].keyCommit = r[i].keyCommit
             /\ s[i].fileRef = r[i].fileRef
             /\ s[i].createdTick = r[i].createdTick
             /\ s[i].status = CASE i = a -> "revoked"
                                [] i = a - 1 -> "active"
                                [] OTHER -> r[i].status
             /\ s[i].retiredTick = CASE i = a -> atTick
                                     [] i = a - 1 -> NoTick
                                     [] OTHER -> r[i].retiredTick
  <2>1. CASE i = a
    <3>1. s[i] = [r[i] EXCEPT !.status = "revoked", !.retiredTick = atTick]
      BY <1>6, <2>1
    <3> QED BY <1>5, <2>1, <3>1 DEF KeyEpoch
  <2>2. CASE i = a - 1
    <3>1. s[i] = [r[i] EXCEPT !.status = "active", !.retiredTick = NoTick]
      BY <1>4, <1>6, <2>2
    <3> QED BY <1>4, <1>5, <2>2, <3>1 DEF KeyEpoch
  <2>3. CASE i # a /\ i # a - 1
    BY <1>6, <2>3
  <2> QED BY <2>1, <2>2, <2>3
<1>9. ASSUME NEW i \in 1 .. Len(r)
      PROVE  /\ IF s[i].status \in {"retired", "revoked"}
                THEN s[i].retiredTick \in Nat /\ s[i].retiredTick >= s[i].createdTick
                ELSE s[i].retiredTick = NoTick
             /\ s[i].status = "staged" => r[i].status = "staged"
             /\ s[i].status = "active" => i = a - 1
  <2>1. atTick >= r[a].createdTick
    BY DEF CanFallback
  <2>2. WellFormedEpoch(r, i)
    BY <1>1 DEF VerifyRing
  <2> QED BY <1>1, <1>2, <1>4, <1>8, <2>1, <2>2, EpochFields
          DEF WellFormedEpoch, NoTick
<1>10. s[a - 1].status = "active"
  BY <1>3, <1>4, <1>8
<1>11. VerifyRing(s) /\ ActiveEpoch(s) = a - 1
  <2> HIDE DEF s, a, ea, ep
  <2> QED BY <1>1, <1>3, <1>7, <1>8, <1>9, <1>10, RelabelVerifies
<1>12. SameKeys(r, s)
  BY <1>1, <1>7, <1>8 DEF SameKeys
<1> QED BY <1>1, <1>3, <1>7, <1>8, <1>11, <1>12

(* markRevoked takes one retired epoch, which is not the active one, to    *)
(* revoked.                                                                *)
LEMMA MarkRevokedVerifies ==
    ASSUME NEW r \in Ring, NEW id, NEW atTick, CanMarkRevoked(r, id, atTick)
    PROVE  LET s == MarkRevoked(r, id) IN
           /\ s \in Ring /\ VerifyRing(s) /\ SameKeys(r, s)
           /\ ActiveEpoch(s) = ActiveEpoch(r)
           /\ id \in DOMAIN r /\ r[id].status = "retired"
           /\ \A i \in DOMAIN r :
                  s[i].status = IF i = id THEN "revoked" ELSE r[i].status
<1> DEFINE s == MarkRevoked(r, id)
<1> DEFINE a == ActiveEpoch(r)
<1> DEFINE e == [r[id] EXCEPT !.status = "revoked"]
<1>1. VerifyRing(r) /\ DOMAIN r = 1 .. Len(r) /\ Len(r) \in Nat
  BY LenProperties DEF CanMarkRevoked, Ring
<1>2. /\ a \in 1 .. Len(r) /\ r[a].status = "active"
      /\ \A i \in 1 .. Len(r) : r[i].status = "active" => i = a
  BY <1>1, ActiveIsUnique
<1>3. id \in 1 .. Len(r) /\ r[id].status = "retired"
  BY <1>1 DEF CanMarkRevoked, Having
<1>4. \A i \in 1 .. Len(r) : r[i] \in KeyEpoch
  BY <1>1, EpochFields
<1>5. s \in [1 .. Len(r) -> KeyEpoch]
      /\ \A i \in 1 .. Len(r) : s[i] = IF i = id THEN e ELSE r[i]
  <2>1. e \in KeyEpoch
    BY <1>3, <1>4 DEF KeyEpoch, KeyEpochStatus
  <2>2. r \in [1 .. Len(r) -> KeyEpoch]
    BY LenProperties DEF Ring
  <2>3. s = [r EXCEPT ![id] = e]
    BY <1>3, <2>2 DEF MarkRevoked
  <2> QED BY <1>3, <2>1, <2>2, <2>3
<1>6. s \in Ring /\ Len(s) = Len(r) /\ DOMAIN s = 1 .. Len(r)
  BY <1>1, <1>5, SeqDef, LenProperties DEF Ring
<1>7. ASSUME NEW i \in 1 .. Len(r)
      PROVE  /\ s[i].epochId = r[i].epochId
             /\ s[i].keyId = r[i].keyId
             /\ s[i].keyKind = r[i].keyKind
             /\ s[i].keyCommit = r[i].keyCommit
             /\ s[i].fileRef = r[i].fileRef
             /\ s[i].createdTick = r[i].createdTick
             /\ s[i].retiredTick = r[i].retiredTick
             /\ s[i].status = IF i = id THEN "revoked" ELSE r[i].status
  <2>1. CASE i = id
    <3>1. s[i] = [r[i] EXCEPT !.status = "revoked"]
      BY <1>5, <2>1
    <3> QED BY <1>4, <2>1, <3>1 DEF KeyEpoch
  <2>2. CASE i # id
    BY <1>5, <2>2
  <2> QED BY <2>1, <2>2
<1>8. ASSUME NEW i \in 1 .. Len(r)
      PROVE  /\ IF s[i].status \in {"retired", "revoked"}
                THEN s[i].retiredTick \in Nat /\ s[i].retiredTick >= s[i].createdTick
                ELSE s[i].retiredTick = NoTick
             /\ s[i].status = "staged" => r[i].status = "staged"
             /\ s[i].status = "active" => i = a
  <2>1. WellFormedEpoch(r, i)
    BY <1>1 DEF VerifyRing
  <2> QED BY <1>1, <1>2, <1>3, <1>7, <2>1, EpochFields DEF WellFormedEpoch, NoTick
<1>9. s[a].status = "active"
  BY <1>2, <1>3, <1>7
<1>10. VerifyRing(s) /\ ActiveEpoch(s) = a
  <2> HIDE DEF s, a, e
  <2> QED BY <1>1, <1>2, <1>6, <1>7, <1>8, <1>9, RelabelVerifies
<1>11. SameKeys(r, s)
  BY <1>1, <1>6, <1>7 DEF SameKeys
<1> QED BY <1>1, <1>3, <1>6, <1>7, <1>10, <1>11
=============================================================================
