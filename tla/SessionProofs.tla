--------------------------- MODULE SessionProofs ---------------------------
(***************************************************************************)
(* Proofs about Session: what a checkpoint, a damaged envelope, a restore, *)
(* a replay and the witnesses guarantee, for every population, learning    *)
(* rule, interval and length of play.                                      *)
(***************************************************************************)
EXTENDS Session, NaturalLemmas, SequenceTheorems

(* A backend is all of its fields, and a stored member all of its words.   *)
PoolFormed(pool) ==
  pool = [spec |-> pool.spec, rule |-> pool.rule,
          members |-> [team \in Team |-> Stored(pool.members[team])]]

PerTeam(lane) == lane = [team \in Team |-> lane[team]]

Formed(backend) ==
  /\ backend = [header      |-> backend.header,
                pools       |-> [role \in Role |-> backend.pools[role]],
                mailboxes   |-> backend.mailboxes,
                edgeLogits  |-> backend.edgeLogits,
                teamRewards |-> backend.teamRewards,
                nextTick    |-> backend.nextTick,
                bodyPulses  |-> backend.bodyPulses,
                coachPulses |-> backend.coachPulses,
                learnPasses |-> backend.learnPasses]
  /\ \A role \in Role : PoolFormed(backend.pools[role])
  /\ PerTeam(backend.mailboxes) /\ PerTeam(backend.edgeLogits) /\ PerTeam(backend.teamRewards)

(* A backend of this roster that ran from tick zero. *)
Faithful(backend) ==
  /\ Formed(backend)
  /\ backend.header = Header
  /\ backend.nextTick \in Nat
  /\ TellsSchedule(backend)

Elements(seq) == {seq[i] : i \in DOMAIN seq}

(* What a checkpoint looks like, and what it still looks like once a word  *)
(* of its tail has changed.                                                *)
Enveloped(cells) ==
  /\ cells \in Seq(Elements(cells)) /\ Len(cells) = 16
  /\ cells[1] = Cell("magic", Magic)
  /\ cells[2] = Cell("header", Header)
  /\ cells[3] = Cell("length", 4)
  /\ cells[4] = Cell("cursor", cells[4].value)
  /\ \A position \in 1 .. 3 :
       /\ cells[position + 4] =
            Cell("architecture", [id |-> position, pool |-> cells[position + 4].value.pool])
       /\ PoolFormed(cells[position + 4].value.pool)
  /\ \A position \in 8 .. 16 : cells[position] = Cell("word", cells[position].value)

(* The trail leads from the backend that was saved to the one that plays,  *)
(* by the steps the journal holds.                                         *)
TrailTold ==
  /\ journal \in Seq(Elements(journal))
  /\ trail \in Seq(Elements(trail))
  /\ saved = NoEnvelope => journal = <<>> /\ ~resumed
  /\ saved # NoEnvelope =>
       /\ Len(trail) = Len(journal) + 1
       /\ saved = Checkpoint(trail[1])
       /\ live = trail[Len(trail)]
       /\ \A i \in 1 .. Len(trail) : Faithful(trail[i])
       /\ \A i \in 1 .. Len(journal) :
            trail[i + 1] = Driven(trail[i], trail[i].nextTick, journal[i].senses, journal[i].rewards)

(* A resumed spare walks the trail. *)
SpareOnTrail ==
  /\ replayed \in 0 .. Len(journal)
  /\ resumed => spare = trail[replayed + 1]

IInv ==
  /\ clock \in 0 .. LiveTicks
  /\ Faithful(live) /\ live.nextTick = clock
  /\ Faithful(spare)
  /\ TrailTold
  /\ SpareOnTrail

-----------------------------------------------------------------------------

(* A concatenation, part by part. *)
LEMMA Joined ==
  ASSUME NEW S, NEW front \in Seq(S), NEW back \in Seq(S)
  PROVE  /\ front \o back \in Seq(S)
         /\ front \o back = [i \in 1 .. Len(front) + Len(back) |->
                               IF i <= Len(front) THEN front[i] ELSE back[i - Len(front)]]
<1> DEFINE both == front \o back
<1>1. /\ both \in Seq(S)
      /\ Len(both) = Len(front) + Len(back)
      /\ \A i \in 1 .. Len(front) + Len(back) :
           both[i] = IF i <= Len(front) THEN front[i] ELSE back[i - Len(front)]
  BY ConcatProperties
<1>2. both \in [1 .. Len(front) + Len(back) -> S]
  BY <1>1, LenProperties
<1> HIDE DEF both
<1> QED
  BY <1>1, <1>2 DEF both

(* A sequence and one element more. *)
LEMMA Appended ==
  ASSUME NEW S, NEW front \in Seq(S), NEW last \in S
  PROVE  /\ Append(front, last) \in Seq(S)
         /\ Append(front, last) = [i \in 1 .. Len(front) + 1 |->
                                     IF i <= Len(front) THEN front[i] ELSE last]
<1> DEFINE longer == Append(front, last)
<1>1. /\ longer \in Seq(S) /\ Len(longer) = Len(front) + 1
      /\ \A i \in 1 .. Len(front) : longer[i] = front[i]
      /\ longer[Len(front) + 1] = last
  BY AppendProperties
<1>2. Len(front) \in Nat
  BY LenProperties
<1> HIDE DEF longer
<1>3. longer \in [1 .. Len(front) + 1 -> S]
  BY <1>1, <1>2, LenProperties
<1>4. \A i \in 1 .. Len(front) + 1 : longer[i] = IF i <= Len(front) THEN front[i] ELSE last
  BY <1>1, <1>2
<1> QED
  BY <1>1, <1>3, <1>4 DEF longer

(* An envelope, cell by cell (ZoomieBackend::checkpoint).                  *)
LEMMA CheckpointCells ==
  ASSUME NEW backend
  PROVE  /\ Checkpoint(backend) \in Seq(Elements(Checkpoint(backend)))
         /\ Len(Checkpoint(backend)) = 16
         /\ Checkpoint(backend)[1] = Cell("magic", Magic)
         /\ Checkpoint(backend)[2] = Cell("header", backend.header)
         /\ Checkpoint(backend)[3] = Cell("length", 4)
         /\ Checkpoint(backend)[4] = Cell("cursor", backend.nextTick)
         /\ \A position \in 1 .. 3 : Checkpoint(backend)[position + 4] = Architecture(backend, position)
         /\ Checkpoint(backend)[8] = Cell("word", backend.mailboxes["zero"])
         /\ Checkpoint(backend)[9] = Cell("word", backend.edgeLogits["zero"])
         /\ Checkpoint(backend)[10] = Cell("word", backend.teamRewards["zero"])
         /\ Checkpoint(backend)[11] = Cell("word", backend.mailboxes["one"])
         /\ Checkpoint(backend)[12] = Cell("word", backend.edgeLogits["one"])
         /\ Checkpoint(backend)[13] = Cell("word", backend.teamRewards["one"])
         /\ Checkpoint(backend)[14] = Cell("word", backend.bodyPulses)
         /\ Checkpoint(backend)[15] = Cell("word", backend.coachPulses)
         /\ Checkpoint(backend)[16] = Cell("word", backend.learnPasses)
<1> DEFINE head  == <<Cell("magic", Magic), Cell("header", backend.header),
                      Cell("length", Len(Payload(backend)))>>
           pools == [position \in 1 .. 3 |-> Architecture(backend, position)]
           tail  == <<Cell("word", backend.bodyPulses), Cell("word", backend.coachPulses),
                      Cell("word", backend.learnPasses)>>
           zero  == TeamTransients(backend, "zero")
           one   == TeamTransients(backend, "one")
           cursor == <<Cell("cursor", backend.nextTick)>>
           Cells == {head[1], head[2], head[3], cursor[1], pools[1], pools[2], pools[3],
                     zero[1], zero[2], zero[3], one[1], one[2], one[3], tail[1], tail[2], tail[3]}
<1>1. /\ head \in Seq(Cells) /\ Len(head) = 3
      /\ cursor \in Seq(Cells) /\ Len(cursor) = 1
      /\ tail \in Seq(Cells) /\ Len(tail) = 3
  OBVIOUS
<1>2. zero \in Seq(Cells) /\ Len(zero) = 3 /\ one \in Seq(Cells) /\ Len(one) = 3
  BY DEF TeamTransients
<1>3. pools \in Seq(Cells) /\ Len(pools) = 3
  <2>1. pools \in [1 .. 3 -> Cells]
    OBVIOUS
  <2> QED
    BY <2>1, SeqDef
<1> DEFINE payload == cursor \o pools
           teams == zero \o one
           transients == teams \o tail
           upTo == head \o payload
           all == upTo \o transients
<1>4. /\ Payload(backend) = payload /\ Transients(backend) = transients
      /\ Checkpoint(backend) = all
  BY DEF Payload, Transients, Checkpoint
<1>5. /\ cursor[1] = Cell("cursor", backend.nextTick)
      /\ \A position \in 1 .. 3 : pools[position] = Architecture(backend, position)
      /\ zero[1] = Cell("word", backend.mailboxes["zero"])
      /\ zero[2] = Cell("word", backend.edgeLogits["zero"])
      /\ zero[3] = Cell("word", backend.teamRewards["zero"])
      /\ one[1] = Cell("word", backend.mailboxes["one"])
      /\ one[2] = Cell("word", backend.edgeLogits["one"])
      /\ one[3] = Cell("word", backend.teamRewards["one"])
      /\ tail = <<Cell("word", backend.bodyPulses), Cell("word", backend.coachPulses),
                  Cell("word", backend.learnPasses)>>
  BY DEF TeamTransients
<1>6. head = <<Cell("magic", Magic), Cell("header", backend.header), Cell("length", Len(payload))>>
  BY <1>4
<1> HIDE DEF head, pools, tail, zero, one, cursor, Cells, all, upTo, transients, teams, payload
<1>7. /\ payload \in Seq(Cells) /\ Len(payload) = 4
      /\ payload = [i \in 1 .. 4 |-> IF i <= 1 THEN cursor[i] ELSE pools[i - 1]]
  <2>1. cursor \in Seq(Cells) /\ pools \in Seq(Cells)
    BY <1>1, <1>3
  <2>2. /\ payload \in Seq(Cells)
        /\ payload = [i \in 1 .. Len(cursor) + Len(pools) |->
                        IF i <= Len(cursor) THEN cursor[i] ELSE pools[i - Len(cursor)]]
    BY <2>1, Joined DEF payload
  <2> QED
    BY <2>2, <1>1, <1>3
<1>8. /\ teams \in Seq(Cells) /\ Len(teams) = 6
      /\ teams = [i \in 1 .. 6 |-> IF i <= 3 THEN zero[i] ELSE one[i - 3]]
  <2>1. zero \in Seq(Cells) /\ one \in Seq(Cells)
    BY <1>2
  <2>2. /\ teams \in Seq(Cells)
        /\ teams = [i \in 1 .. Len(zero) + Len(one) |->
                        IF i <= Len(zero) THEN zero[i] ELSE one[i - Len(zero)]]
    BY <2>1, Joined DEF teams
  <2> QED
    BY <2>2, <1>2
<1>9. /\ transients \in Seq(Cells) /\ Len(transients) = 9
      /\ transients = [i \in 1 .. 9 |-> IF i <= 6 THEN teams[i] ELSE tail[i - 6]]
  <2>1. teams \in Seq(Cells) /\ tail \in Seq(Cells)
    BY <1>1, <1>8
  <2>2. /\ transients \in Seq(Cells)
        /\ transients = [i \in 1 .. Len(teams) + Len(tail) |->
                        IF i <= Len(teams) THEN teams[i] ELSE tail[i - Len(teams)]]
    BY <2>1, Joined DEF transients
  <2> QED
    BY <2>2, <1>1, <1>8
<1>10. /\ upTo \in Seq(Cells) /\ Len(upTo) = 7
      /\ upTo = [i \in 1 .. 7 |-> IF i <= 3 THEN head[i] ELSE payload[i - 3]]
  <2>1. head \in Seq(Cells) /\ payload \in Seq(Cells)
    BY <1>1, <1>7
  <2>2. /\ upTo \in Seq(Cells)
        /\ upTo = [i \in 1 .. Len(head) + Len(payload) |->
                        IF i <= Len(head) THEN head[i] ELSE payload[i - Len(head)]]
    BY <2>1, Joined DEF upTo
  <2> QED
    BY <2>2, <1>1, <1>7
<1>11. /\ all \in Seq(Cells) /\ Len(all) = 16
      /\ all = [i \in 1 .. 16 |-> IF i <= 7 THEN upTo[i] ELSE transients[i - 7]]
  <2>1. upTo \in Seq(Cells) /\ transients \in Seq(Cells)
    BY <1>9, <1>10
  <2>2. /\ all \in Seq(Cells)
        /\ all = [i \in 1 .. Len(upTo) + Len(transients) |->
                        IF i <= Len(upTo) THEN upTo[i] ELSE transients[i - Len(upTo)]]
    BY <2>1, Joined DEF all
  <2> QED
    BY <2>2, <1>9, <1>10
<1>12. all \in Seq(Elements(all))
  <2>1. all \in [1 .. 16 -> Elements(all)]
    BY <1>11 DEF Elements
  <2> QED
    BY <2>1, SeqDef
<1>13. /\ upTo[1] = head[1] /\ upTo[2] = head[2] /\ upTo[3] = head[3]
       /\ upTo[4] = cursor[1]
       /\ upTo[5] = pools[1] /\ upTo[6] = pools[2] /\ upTo[7] = pools[3]
  BY <1>7, <1>10
<1>14. /\ transients[1] = zero[1] /\ transients[2] = zero[2] /\ transients[3] = zero[3]
       /\ transients[4] = one[1] /\ transients[5] = one[2] /\ transients[6] = one[3]
       /\ transients[7] = tail[1] /\ transients[8] = tail[2] /\ transients[9] = tail[3]
  BY <1>8, <1>9
<1>15. /\ all[1] = head[1] /\ all[2] = head[2] /\ all[3] = head[3]
       /\ all[4] = cursor[1]
       /\ all[5] = pools[1] /\ all[6] = pools[2] /\ all[7] = pools[3]
  BY <1>11, <1>13
<1>16. /\ all[8] = zero[1] /\ all[9] = zero[2] /\ all[10] = zero[3]
       /\ all[11] = one[1] /\ all[12] = one[2] /\ all[13] = one[3]
       /\ all[14] = tail[1] /\ all[15] = tail[2] /\ all[16] = tail[3]
  BY <1>11, <1>14
<1>17. \A position \in 1 .. 3 : all[position + 4] = Architecture(backend, position)
  BY <1>5, <1>15
<1> QED
  BY <1>4, <1>5, <1>6, <1>7, <1>11, <1>12, <1>15, <1>16, <1>17

LEMMA CheckpointEnveloped ==
  ASSUME NEW backend, Formed(backend), backend.header = Header
  PROVE  Enveloped(Checkpoint(backend))
<1> DEFINE cells == Checkpoint(backend)
<1>1. \A position \in 1 .. 3 : Roles[position] \in Role
  BY DEF Roles, Role
<1>2. \A position \in 1 .. 3 :
        /\ cells[position + 4] = Cell("architecture", [id |-> position, pool |-> backend.pools[Roles[position]]])
        /\ PoolFormed(backend.pools[Roles[position]])
  BY <1>1, CheckpointCells DEF Architecture, Formed
<1>3. /\ cells \in Seq(Elements(cells)) /\ Len(cells) = 16
      /\ cells[1] = Cell("magic", Magic)
      /\ cells[2] = Cell("header", Header)
      /\ cells[3] = Cell("length", 4)
      /\ cells[4] = Cell("cursor", backend.nextTick)
  BY CheckpointCells
<1>4. /\ cells[8] = Cell("word", backend.mailboxes["zero"])
      /\ cells[9] = Cell("word", backend.edgeLogits["zero"])
      /\ cells[10] = Cell("word", backend.teamRewards["zero"])
      /\ cells[11] = Cell("word", backend.mailboxes["one"])
      /\ cells[12] = Cell("word", backend.edgeLogits["one"])
      /\ cells[13] = Cell("word", backend.teamRewards["one"])
      /\ cells[14] = Cell("word", backend.bodyPulses)
      /\ cells[15] = Cell("word", backend.coachPulses)
      /\ cells[16] = Cell("word", backend.learnPasses)
  BY CheckpointCells
<1> HIDE DEF cells
<1>5. \A position \in 1 .. 3 :
        /\ cells[position + 4] =
            Cell("architecture", [id |-> position, pool |-> cells[position + 4].value.pool])
        /\ PoolFormed(cells[position + 4].value.pool)
  BY <1>2 DEF Cell
<1>6. /\ cells[4] = Cell("cursor", cells[4].value)
      /\ \A position \in 8 .. 16 : cells[position] = Cell("word", cells[position].value)
  <2>1. \A position \in 8 .. 16 : position \in {8, 9, 10, 11, 12, 13, 14, 15, 16}
    OBVIOUS
  <2> QED
    BY <1>3, <1>4, <2>1 DEF Cell
<1>7. Enveloped(cells)
  BY <1>3, <1>5, <1>6 DEF Enveloped
<1> QED
  BY <1>7 DEF cells

(* Where restore reads an envelope's pack and its tail. *)
LEMMA EnvelopeParts ==
  ASSUME NEW cells, Enveloped(cells)
  PROVE  /\ PayloadEnd(cells) = 7
         /\ Len(PackOf(cells)) = 4
         /\ \A i \in 1 .. 4 : PackOf(cells)[i] = cells[i + 3]
         /\ Len(TailOf(cells)) = 9
         /\ \A i \in 1 .. 9 : TailOf(cells)[i] = cells[i + 7]
<1>1. PayloadEnd(cells) = 7
  BY DEF PayloadEnd, PayloadOffset, Enveloped, Cell
<1>2. cells \in Seq(Elements(cells)) /\ Len(cells) = 16
  BY DEF Enveloped
<1>3. PackOf(cells) = SubSeq(cells, 4, 7) /\ TailOf(cells) = SubSeq(cells, 8, 16)
  BY <1>1, <1>2 DEF PackOf, TailOf, PayloadOffset
<1>4. \A i \in 1 .. 16 : cells[i] \in Elements(cells)
  BY <1>2, LenProperties DEF Elements
<1>5. /\ Len(SubSeq(cells, 4, 7)) = 4
      /\ \A i \in 1 .. 4 : SubSeq(cells, 4, 7)[i] = cells[4 + i - 1]
  BY <1>4, SubSeqProperties
<1>6. /\ Len(SubSeq(cells, 8, 16)) = 9
      /\ \A i \in 1 .. 9 : SubSeq(cells, 8, 16)[i] = cells[8 + i - 1]
  BY <1>4, SubSeqProperties
<1>7. \A i \in Int : 4 + i - 1 = i + 3 /\ 8 + i - 1 = i + 7
  OBVIOUS
<1> QED
  BY <1>1, <1>3, <1>5, <1>6, <1>7

LEMMA RolePositions ==
  /\ PositionOf("fielders") = 1 /\ PositionOf("goalies") = 2 /\ PositionOf("coaches") = 3
  /\ \A position \in 1 .. 3 : Roles[position] \in Role /\ PositionOf(Roles[position]) = position
  /\ \A role \in Role : PositionOf(role) \in 1 .. 3 /\ Roles[PositionOf(role)] = role
<1>1. /\ Roles[1] = "fielders" /\ Roles[2] = "goalies" /\ Roles[3] = "coaches"
      /\ "fielders" # "goalies" /\ "fielders" # "coaches" /\ "goalies" # "coaches"
  BY DEF Roles
<1>2. \A position \in 1 .. 3 : position = 1 \/ position = 2 \/ position = 3
  OBVIOUS
<1>3. ASSUME NEW role \in Role PROVE \E position \in 1 .. 3 : Roles[position] = role
  BY <1>1 DEF Role
<1>4. ASSUME NEW role \in Role PROVE PositionOf(role) \in 1 .. 3 /\ Roles[PositionOf(role)] = role
  BY <1>3 DEF PositionOf
<1>5. \A position \in 1 .. 3 : Roles[position] \in Role
  BY <1>1, <1>2 DEF Role
<1>6. ASSUME NEW position \in 1 .. 3 PROVE PositionOf(Roles[position]) = position
  BY <1>1, <1>2, <1>4, <1>5
<1> QED
  BY <1>1, <1>4, <1>5, <1>6

(* The backend an envelope describes, from the cells it was read from.     *)
LEMMA DescribedFields ==
  ASSUME NEW backend, NEW cells, Enveloped(cells)
  PROVE  Described(backend, cells) =
           [header      |-> backend.header,
            pools       |-> [role \in Role |-> cells[PositionOf(role) + 4].value.pool],
            mailboxes   |-> [team \in Team |-> cells[IF team = "zero" THEN 8 ELSE 11].value],
            edgeLogits  |-> [team \in Team |-> cells[IF team = "zero" THEN 9 ELSE 12].value],
            teamRewards |-> [team \in Team |-> cells[IF team = "zero" THEN 10 ELSE 13].value],
            nextTick    |-> cells[4].value,
            bodyPulses  |-> cells[14].value,
            coachPulses |-> cells[15].value,
            learnPasses |-> cells[16].value]
<1> DEFINE pack == PackOf(cells)
           tail == TailOf(cells)
           lane(offset) ==
             [team \in Team |-> tail[offset + (IF team = "zero" THEN 0 ELSE 3)].value]
<1>1. /\ \A i \in 1 .. 4 : pack[i] = cells[i + 3]
      /\ \A i \in 1 .. 9 : tail[i] = cells[i + 7]
  BY EnvelopeParts
<1> HIDE DEF pack, tail
<1>2. pack[1] = cells[4] /\ tail[7] = cells[14] /\ tail[8] = cells[15] /\ tail[9] = cells[16]
  BY <1>1
<1>3. /\ lane(1) = [team \in Team |-> cells[IF team = "zero" THEN 8 ELSE 11].value]
      /\ lane(2) = [team \in Team |-> cells[IF team = "zero" THEN 9 ELSE 12].value]
      /\ lane(3) = [team \in Team |-> cells[IF team = "zero" THEN 10 ELSE 13].value]
  <2>1. /\ tail[1] = cells[8] /\ tail[2] = cells[9] /\ tail[3] = cells[10]
        /\ tail[4] = cells[11] /\ tail[5] = cells[12] /\ tail[6] = cells[13]
    BY <1>1
  <2> QED
    BY <2>1 DEF Team
<1>4. ASSUME NEW role \in Role
      PROVE  RestoredPool(backend, pack, role) = cells[PositionOf(role) + 4].value.pool
  <2>1. PositionOf(role) + 1 \in 1 .. 4 /\ (PositionOf(role) + 1) + 3 = PositionOf(role) + 4
    BY RolePositions
  <2> QED
    BY <1>1, <2>1 DEF RestoredPool
<1>5. Described(backend, cells) =
        [header      |-> backend.header,
         pools       |-> [role \in Role |-> RestoredPool(backend, pack, role)],
         mailboxes   |-> lane(1),
         edgeLogits  |-> lane(2),
         teamRewards |-> lane(3),
         nextTick    |-> pack[1].value,
         bodyPulses  |-> tail[7].value,
         coachPulses |-> tail[8].value,
         learnPasses |-> tail[9].value]
  BY DEF Described, pack, tail
<1>6. [role \in Role |-> RestoredPool(backend, pack, role)] =
        [role \in Role |-> cells[PositionOf(role) + 4].value.pool]
  BY <1>4
<1> QED
  BY <1>2, <1>3, <1>5, <1>6

(* Restoring a checkpoint gives back the backend that wrote it.            *)
LEMMA RestoreInvertsCheckpoint ==
  ASSUME NEW backend, NEW writer, Formed(writer),
         writer.header = Header, backend.header = Header
  PROVE  Described(backend, Checkpoint(writer)) = writer
<1> DEFINE cells == Checkpoint(writer)
<1>1. Enveloped(cells)
  BY CheckpointEnveloped
<1>2. /\ cells[4].value = writer.nextTick
      /\ cells[8].value = writer.mailboxes["zero"] /\ cells[11].value = writer.mailboxes["one"]
      /\ cells[9].value = writer.edgeLogits["zero"] /\ cells[12].value = writer.edgeLogits["one"]
      /\ cells[10].value = writer.teamRewards["zero"] /\ cells[13].value = writer.teamRewards["one"]
      /\ cells[14].value = writer.bodyPulses
      /\ cells[15].value = writer.coachPulses
      /\ cells[16].value = writer.learnPasses
  <2>1. /\ cells[4] = Cell("cursor", writer.nextTick)
        /\ cells[8] = Cell("word", writer.mailboxes["zero"])
        /\ cells[9] = Cell("word", writer.edgeLogits["zero"])
        /\ cells[10] = Cell("word", writer.teamRewards["zero"])
        /\ cells[11] = Cell("word", writer.mailboxes["one"])
        /\ cells[12] = Cell("word", writer.edgeLogits["one"])
        /\ cells[13] = Cell("word", writer.teamRewards["one"])
        /\ cells[14] = Cell("word", writer.bodyPulses)
        /\ cells[15] = Cell("word", writer.coachPulses)
        /\ cells[16] = Cell("word", writer.learnPasses)
    BY CheckpointCells
  <2> HIDE DEF cells
  <2> QED
    BY <2>1 DEF Cell
<1>3. ASSUME NEW role \in Role PROVE cells[PositionOf(role) + 4].value.pool = writer.pools[role]
  <2>1. cells[PositionOf(role) + 4] = Architecture(writer, PositionOf(role))
    BY RolePositions, CheckpointCells
  <2> HIDE DEF cells
  <2> QED
    BY <2>1, RolePositions DEF Architecture, Cell
<1>4. Described(backend, cells) =
        [header      |-> backend.header,
         pools       |-> [role \in Role |-> cells[PositionOf(role) + 4].value.pool],
         mailboxes   |-> [team \in Team |-> cells[IF team = "zero" THEN 8 ELSE 11].value],
         edgeLogits  |-> [team \in Team |-> cells[IF team = "zero" THEN 9 ELSE 12].value],
         teamRewards |-> [team \in Team |-> cells[IF team = "zero" THEN 10 ELSE 13].value],
         nextTick    |-> cells[4].value,
         bodyPulses  |-> cells[14].value,
         coachPulses |-> cells[15].value,
         learnPasses |-> cells[16].value]
  BY <1>1, DescribedFields
<1> HIDE DEF cells
<1>5. /\ [team \in Team |-> cells[IF team = "zero" THEN 8 ELSE 11].value] = writer.mailboxes
      /\ [team \in Team |-> cells[IF team = "zero" THEN 9 ELSE 12].value] = writer.edgeLogits
      /\ [team \in Team |-> cells[IF team = "zero" THEN 10 ELSE 13].value] = writer.teamRewards
  <2>1. /\ writer.mailboxes = [team \in Team |-> writer.mailboxes[team]]
        /\ writer.edgeLogits = [team \in Team |-> writer.edgeLogits[team]]
        /\ writer.teamRewards = [team \in Team |-> writer.teamRewards[team]]
    BY DEF Formed, PerTeam
  <2>2. \A team \in Team :
          /\ cells[IF team = "zero" THEN 8 ELSE 11].value = writer.mailboxes[team]
          /\ cells[IF team = "zero" THEN 9 ELSE 12].value = writer.edgeLogits[team]
          /\ cells[IF team = "zero" THEN 10 ELSE 13].value = writer.teamRewards[team]
    BY <1>2 DEF Team
  <2> QED
    BY <2>1, <2>2
<1>6. [role \in Role |-> cells[PositionOf(role) + 4].value.pool] = [role \in Role |-> writer.pools[role]]
  BY <1>3
<1>7. writer = [header      |-> writer.header,
                pools       |-> [role \in Role |-> writer.pools[role]],
                mailboxes   |-> writer.mailboxes,
                edgeLogits  |-> writer.edgeLogits,
                teamRewards |-> writer.teamRewards,
                nextTick    |-> writer.nextTick,
                bodyPulses  |-> writer.bodyPulses,
                coachPulses |-> writer.coachPulses,
                learnPasses |-> writer.learnPasses]
  BY DEF Formed
<1>8. Described(backend, cells) = writer
  BY <1>2, <1>4, <1>5, <1>6, <1>7
<1> QED
  BY <1>8 DEF cells

(* A backend that takes an envelope would write the same envelope back.    *)
LEMMA CheckpointInvertsRestore ==
  ASSUME NEW backend, backend.header = Header, NEW cells, Enveloped(cells)
  PROVE  Checkpoint(Described(backend, cells)) = cells
<1> DEFINE restored == Described(backend, cells)
           written == Checkpoint(restored)
<1>1. /\ restored.header = Header
      /\ \A role \in Role : restored.pools[role] = cells[PositionOf(role) + 4].value.pool
      /\ restored.mailboxes["zero"] = cells[8].value /\ restored.mailboxes["one"] = cells[11].value
      /\ restored.edgeLogits["zero"] = cells[9].value /\ restored.edgeLogits["one"] = cells[12].value
      /\ restored.teamRewards["zero"] = cells[10].value /\ restored.teamRewards["one"] = cells[13].value
      /\ restored.nextTick = cells[4].value
      /\ restored.bodyPulses = cells[14].value
      /\ restored.coachPulses = cells[15].value
      /\ restored.learnPasses = cells[16].value
  BY DescribedFields DEF Team
<1> HIDE DEF restored
<1>2. written \in Seq(Elements(written)) /\ Len(written) = 16
  BY CheckpointCells
<1>3. /\ written[1] = cells[1] /\ written[2] = cells[2] /\ written[3] = cells[3]
      /\ written[4] = cells[4]
  <2>1. /\ cells[1] = Cell("magic", Magic) /\ cells[2] = Cell("header", Header)
        /\ cells[3] = Cell("length", 4) /\ cells[4] = Cell("cursor", cells[4].value)
    BY DEF Enveloped
  <2>2. /\ written[1] = Cell("magic", Magic) /\ written[2] = Cell("header", restored.header)
        /\ written[3] = Cell("length", 4) /\ written[4] = Cell("cursor", restored.nextTick)
    BY CheckpointCells
  <2> QED
    BY <1>1, <2>1, <2>2
<1>4. ASSUME NEW position \in 1 .. 3 PROVE written[position + 4] = cells[position + 4]
  <2>1. written[position + 4] = Architecture(restored, position)
    BY CheckpointCells
  <2>2. restored.pools[Roles[position]] = cells[position + 4].value.pool
    BY <1>1, RolePositions
  <2> QED
    BY <2>1, <2>2 DEF Architecture, Enveloped
<1>5. /\ written[8] = cells[8] /\ written[9] = cells[9] /\ written[10] = cells[10]
      /\ written[11] = cells[11] /\ written[12] = cells[12] /\ written[13] = cells[13]
      /\ written[14] = cells[14] /\ written[15] = cells[15] /\ written[16] = cells[16]
  <2>1. \A position \in 8 .. 16 : cells[position] = Cell("word", cells[position].value)
    BY DEF Enveloped
  <2> QED
    BY <1>1, <2>1, CheckpointCells
<1>6. ASSUME NEW i \in 1 .. 16 PROVE written[i] = cells[i]
  <2>1. i \in {1, 2, 3, 4, 1 + 4, 2 + 4, 3 + 4, 8, 9, 10, 11, 12, 13, 14, 15, 16}
    OBVIOUS
  <2> QED
    BY <1>3, <1>4, <1>5, <2>1
<1> HIDE DEF written
<1>7. cells \in Seq(Elements(cells)) /\ Len(cells) = 16
  BY DEF Enveloped
<1>8. written = cells
  BY <1>2, <1>6, <1>7, LenProperties
<1> QED
  BY <1>8 DEF written, restored

(* What an envelope has passed once no check of restore has failed. *)
LEMMA Accepted ==
  ASSUME NEW backend, NEW cells, RestoreError(backend, cells) = "none"
  PROVE  /\ cells[1] = Cell("magic", Magic)
         /\ cells[2] = Cell("header", backend.header)
         /\ ~(Len(cells) < 3)
         /\ DecodesLive(PackOf(cells))
         /\ Len(TailOf(cells)) = 9
BY DEF RestoreError, PayloadOffset, TailLength

(* A cell of the head or of the pack that is not what was written.         *)
LEMMA DamagedCellRejected ==
  ASSUME NEW backend, backend.header = Header, NEW cells, Enveloped(cells),
         NEW position \in 1 .. 7, NEW cell,
         \/ position = 1 /\ cell = Cell("magic", "other")
         \/ position = 2 /\ cell \in {Cell("header", header) : header \in OtherHeaders}
         \/ position = 3 /\ cell \in {Cell("length", 3), Cell("length", 5)}
         \/ position \in 4 .. 7 /\ cell = Cell("garbage", Noise)
  PROVE  RestoreError(backend, [cells EXCEPT ![position] = cell]) # "none"
<1> DEFINE damaged == [cells EXCEPT ![position] = cell]
<1>1. /\ cells \in Seq(Elements(cells)) /\ DOMAIN cells = 1 .. 16 /\ Len(cells) = 16
      /\ cells[3] = Cell("length", 4)
  BY LenProperties DEF Enveloped
<1>2. /\ DOMAIN damaged = 1 .. 16 /\ damaged[position] = cell
      /\ \A i \in 1 .. 16 : i # position => damaged[i] = cells[i]
  BY <1>1
<1> HIDE DEF damaged
<1> SUFFICES ASSUME RestoreError(backend, damaged) = "none" PROVE FALSE
  BY DEF damaged
<1>3. /\ damaged[1] = Cell("magic", Magic)
      /\ damaged[2] = Cell("header", Header)
      /\ DecodesLive(PackOf(damaged))
  BY Accepted
<1>4. ~(position = 1 /\ cell = Cell("magic", "other"))
  BY <1>2, <1>3 DEF Cell, Magic
<1>5. ~(position = 2 /\ cell \in {Cell("header", header) : header \in OtherHeaders})
  BY <1>2, <1>3, SessionAssumption DEF Cell
<1>6. \A i \in 1 .. 16 : damaged[i] \in {damaged[j] : j \in 1 .. 16}
  OBVIOUS
<1>7. ASSUME position = 3, cell \in {Cell("length", 3), Cell("length", 5)} PROVE FALSE
  <2>1. PICK length \in {3, 5} : cell = Cell("length", length)
    BY <1>7
  <2>2. PackOf(damaged) = SubSeq(damaged, 4, 3 + length)
    <3>1. damaged[3] = cell /\ cell.value = length
      BY <1>2, <1>7, <2>1 DEF Cell
    <3> QED
      BY <3>1 DEF PackOf, PayloadEnd, PayloadOffset
  <2>3. Len(SubSeq(damaged, 4, 3 + length)) = length
    <3>1. 3 + length \in Int /\ \A i \in 4 .. 3 + length : damaged[i] \in {damaged[j] : j \in 1 .. 16}
      BY <1>6
    <3>2. Len(SubSeq(damaged, 4, 3 + length)) = (3 + length) - 4 + 1
      BY <3>1, SubSeqProperties
    <3> QED
      BY <3>2
  <2>4. Len(PackOf(damaged)) = 4
    BY <1>3 DEF DecodesLive
  <2>5. Len(PackOf(damaged)) = length
    BY <2>2, <2>3, Zenon
  <2> QED
    BY <2>1, <2>4, <2>5
<1>8. ASSUME position \in 4 .. 7, cell = Cell("garbage", Noise) PROVE FALSE
  <2>1. PackOf(damaged) = SubSeq(damaged, 4, 7)
    <3>1. damaged[3].value = 4
      BY <1>1, <1>2, <1>8 DEF Cell
    <3> QED
      BY <3>1 DEF PackOf, PayloadEnd, PayloadOffset
  <2>2. \A i \in 1 .. 4 : PackOf(damaged)[i] = damaged[4 + i - 1]
    BY <1>6, <2>1, SubSeqProperties
  <2>3. PackOf(damaged)[position - 3] = Cell("garbage", Noise)
    <3>1. position - 3 \in 1 .. 4 /\ 4 + (position - 3) - 1 = position
      BY <1>8
    <3> QED
      BY <1>2, <1>8, <2>2, <3>1
  <2>4. position - 3 = 1 \/ position - 3 \in 2 .. 4
    BY <1>8
  <2> QED
    BY <1>3, <2>3, <2>4 DEF DecodesLive, Cell
<1> QED
  BY <1>4, <1>5, <1>7, <1>8

(* An envelope cut short. *)
LEMMA CutRejected ==
  ASSUME NEW backend, NEW cells, Enveloped(cells), NEW length \in 0 .. Len(cells) - 1
  PROVE  RestoreError(backend, SubSeq(cells, 1, length)) # "none"
<1> DEFINE cut == SubSeq(cells, 1, length)
<1>1. /\ cells \in Seq(Elements(cells)) /\ Len(cells) = 16 /\ length \in 0 .. 15
      /\ cells[3] = Cell("length", 4)
  BY DEF Enveloped
<1>2. \A i \in 1 .. 16 : cells[i] \in Elements(cells)
  BY <1>1, LenProperties DEF Elements
<1>3. cut \in Seq(Elements(cells)) /\ Len(cut) = length /\ \A i \in 1 .. length : cut[i] = cells[i]
  <2>0. length \in Int /\ \A i \in 1 .. length : cells[i] \in Elements(cells)
    BY <1>1, <1>2
  <2>1. /\ cut \in Seq(Elements(cells))
        /\ Len(cut) = IF 1 <= length THEN length - 1 + 1 ELSE 0
        /\ \A i \in 1 .. length - 1 + 1 : cut[i] = cells[1 + i - 1]
    BY <2>0, SubSeqProperties
  <2> HIDE DEF cut
  <2>2. length - 1 + 1 = length /\ \A i \in 1 .. length : 1 + i - 1 = i
    BY <1>1
  <2> QED
    BY <1>1, <2>1, <2>2
<1> HIDE DEF cut
<1> SUFFICES ASSUME RestoreError(backend, cut) = "none" PROVE FALSE
  BY DEF cut
<1>4. ~(Len(cut) < 3) /\ Len(TailOf(cut)) = 9
  BY Accepted
<1>5. TailOf(cut) = SubSeq(cut, 8, length)
  BY <1>1, <1>3, <1>4 DEF TailOf, PayloadEnd, PayloadOffset, Cell
<1>6. Len(SubSeq(cut, 8, length)) = IF 8 <= length THEN length - 8 + 1 ELSE 0
  <2>1. \A i \in 8 .. length : cut[i] \in Elements(cells)
    BY <1>1, <1>2, <1>3
  <2> QED
    BY <1>1, <2>1, SubSeqProperties
<1> QED
  BY <1>1, <1>4, <1>5, <1>6

(* An envelope that runs on. *)
LEMMA OverrunRejected ==
  ASSUME NEW backend, NEW cells, Enveloped(cells), NEW cell
  PROVE  RestoreError(backend, Append(cells, cell)) # "none"
<1> DEFINE long == Append(cells, cell)
           S == Elements(cells) \cup {cell}
<1>1. cells \in Seq(S) /\ Len(cells) = 16 /\ cells[3] = Cell("length", 4)
  <2>1. cells \in Seq(Elements(cells)) /\ Elements(cells) \subseteq S
    BY DEF Enveloped
  <2> QED
    BY <2>1, SeqMonotonic DEF Enveloped
<1>2. long \in Seq(S) /\ Len(long) = 17 /\ long[3] = cells[3]
  <2>1. long \in Seq(S) /\ long = [i \in 1 .. Len(cells) + 1 |->
                                     IF i <= Len(cells) THEN cells[i] ELSE cell]
    <3>1. cells \in Seq(S) /\ cell \in S
      BY <1>1
    <3> HIDE DEF S
    <3> QED
      BY <3>1, Appended
  <2> HIDE DEF long, S
  <2> QED
    BY <1>1, <2>1
<1> HIDE DEF long
<1> SUFFICES ASSUME RestoreError(backend, long) = "none" PROVE FALSE
  BY DEF long
<1>3. TailOf(long) = SubSeq(long, 8, 17)
  BY <1>1, <1>2 DEF TailOf, PayloadEnd, PayloadOffset, Cell
<1>4. Len(SubSeq(long, 8, 17)) = 10
  <2>1. \A i \in 8 .. 17 : long[i] \in S
    <3>1. long \in [1 .. 17 -> S]
      BY <1>2, LenProperties
    <3> HIDE DEF S
    <3> QED
      BY <3>1
  <2>2. Len(SubSeq(long, 8, 17)) = 17 - 8 + 1
    BY <2>1, SubSeqProperties
  <2> QED
    BY <2>2
<1>5. Len(TailOf(long)) = 9
  BY Accepted
<1> QED
  BY <1>3, <1>4, <1>5

(* Whatever Damaged does to an envelope, restore notices. *)
LEMMA DamageRejected ==
  ASSUME NEW backend, backend.header = Header, NEW cells, Enveloped(cells),
         NEW damaged \in Damaged(cells)
  PROVE  RestoreError(backend, damaged) # "none"
<1>1. /\ Len(cells) = 16 /\ PayloadOffset = 3 /\ PayloadEnd(cells) = 7
      /\ cells[3].value = 4
  <2>1. PayloadEnd(cells) = 7
    BY EnvelopeParts
  <2> QED
    BY <2>1 DEF Enveloped, PayloadOffset, Cell
<1>2. CASE damaged \in {SubSeq(cells, 1, length) : length \in 0 .. Len(cells) - 1}
  BY <1>2, CutRejected
<1>3. CASE damaged \in {Append(cells, Cell("word", Noise))}
  BY <1>3, OverrunRejected
<1>4. CASE damaged \in {[cells EXCEPT ![PayloadOffset] = Cell("length", @.value + change)] : change \in {-1, 1}}
  <2>1. PICK change \in {-1, 1} :
          damaged = [cells EXCEPT ![PayloadOffset] = Cell("length", @.value + change)]
    BY <1>4
  <2>2. damaged = [cells EXCEPT ![3] = Cell("length", 4 + change)]
    BY <1>1, <2>1
  <2>3. 4 + change = 3 \/ 4 + change = 5
    OBVIOUS
  <2>4. Cell("length", 4 + change) \in {Cell("length", 3), Cell("length", 5)}
    BY <2>3
  <2>5. 3 \in 1 .. 7
    OBVIOUS
  <2> QED
    BY <2>2, <2>4, <2>5, DamagedCellRejected
<1>5. CASE damaged \in {[cells EXCEPT ![1] = Cell("magic", "other")]}
  <2>1. 1 \in 1 .. 7
    OBVIOUS
  <2> QED
    BY <1>5, <2>1, DamagedCellRejected
<1>6. CASE damaged \in {[cells EXCEPT ![2] = Cell("header", header)] : header \in OtherHeaders}
  <2>1. PICK header \in OtherHeaders : damaged = [cells EXCEPT ![2] = Cell("header", header)]
    BY <1>6
  <2>2. 2 \in 1 .. 7 /\ Cell("header", header) \in {Cell("header", h) : h \in OtherHeaders}
    OBVIOUS
  <2> QED
    BY <2>1, <2>2, DamagedCellRejected
<1>7. CASE damaged \in {[cells EXCEPT ![position] = Cell("garbage", Noise)] :
                          position \in PayloadOffset + 1 .. PayloadEnd(cells)}
  <2>1. PICK position \in 4 .. 7 : damaged = [cells EXCEPT ![position] = Cell("garbage", Noise)]
    BY <1>1, <1>7
  <2>2. position \in 1 .. 7
    OBVIOUS
  <2> QED
    BY <2>1, <2>2, DamagedCellRejected
<1> QED
  BY <1>2, <1>3, <1>4, <1>5, <1>6, <1>7 DEF Damaged

(* An envelope with a word of its tail changed is an envelope still. *)
LEMMA RetouchedEnveloped ==
  ASSUME NEW cells, Enveloped(cells), NEW retouched \in Retouched(cells)
  PROVE  Enveloped(retouched)
<1>1. /\ cells \in Seq(Elements(cells)) /\ DOMAIN cells = 1 .. 16 /\ Len(cells) = 16
      /\ PayloadEnd(cells) = 7
  BY EnvelopeParts, LenProperties DEF Enveloped
<1>2. PICK position \in 8 .. 16 : retouched = [cells EXCEPT ![position] = Cell("word", Noise)]
  BY <1>1 DEF Retouched
<1>3. /\ DOMAIN retouched = 1 .. 16
      /\ \A i \in 1 .. 16 : retouched[i] = IF i = position THEN Cell("word", Noise) ELSE cells[i]
      /\ retouched = [i \in 1 .. 16 |-> retouched[i]]
  <2>1. cells = [i \in 1 .. 16 |-> cells[i]]
    BY <1>1, LenProperties
  <2> QED
    BY <1>2, <2>1
<1>4. retouched \in Seq(Elements(retouched)) /\ Len(retouched) = 16
  <2>1. retouched \in [1 .. 16 -> Elements(retouched)]
    BY <1>3 DEF Elements
  <2>2. retouched \in Seq(Elements(retouched))
    BY <2>1, SeqDef
  <2> QED
    BY <2>1, <2>2, LenProperties
<1>5. \A i \in 1 .. 7 : i \in 1 .. 16 /\ i # position
  BY <1>2
<1>6. \A i \in 1 .. 7 : retouched[i] = cells[i]
  BY <1>3, <1>5
<1>7. /\ retouched[1] = cells[1] /\ retouched[2] = cells[2] /\ retouched[3] = cells[3]
      /\ retouched[4] = cells[4]
      /\ \A i \in 1 .. 3 : retouched[i + 4] = cells[i + 4]
  <2>1. \A i \in 1 .. 3 : i + 4 \in 1 .. 7
    OBVIOUS
  <2> QED
    BY <1>6, <2>1
<1>8. \A i \in 8 .. 16 : retouched[i] = Cell("word", retouched[i].value)
  <2>1. \A i \in 8 .. 16 : i \in 1 .. 16 /\ cells[i] = Cell("word", cells[i].value)
    BY DEF Enveloped
  <2> QED
    BY <1>3, <2>1 DEF Cell
<1> QED
  BY <1>4, <1>7, <1>8 DEF Enveloped

-----------------------------------------------------------------------------

(* A stepped population is a population. *)
LEMMA StepPoolFormed ==
  ASSUME NEW pool, PoolFormed(pool), NEW inputs, NEW tick
  PROVE  PoolFormed(StepPool(pool, inputs, tick))
<1> DEFINE members == [team \in Team |-> Stored(Pulsed(pool.rule, pool.members[team], inputs[team], tick))]
<1>1. pool = [spec |-> pool.spec, rule |-> pool.rule,
              members |-> [team \in Team |-> Stored(pool.members[team])]]
  BY DEF PoolFormed
<1>2. StepPool(pool, inputs, tick) = [pool EXCEPT !.members = members]
  BY DEF StepPool
<1>3. members = [team \in Team |-> Stored(members[team])]
  BY DEF Stored
<1> HIDE DEF members
<1>4. [pool EXCEPT !.members = members] = [spec |-> pool.spec, rule |-> pool.rule, members |-> members]
  BY <1>1
<1> QED
  BY <1>2, <1>3, <1>4 DEF PoolFormed

(* A coach pulse publishes and counts itself, and nothing more. *)
LEMMA ActCoachesFormed ==
  ASSUME NEW backend, Formed(backend), NEW request
  PROVE  LET acted == ActCoaches(backend, request)
         IN  /\ Formed(acted)
             /\ acted.header = backend.header
             /\ acted.nextTick = backend.nextTick
             /\ acted.bodyPulses = backend.bodyPulses
             /\ acted.coachPulses = backend.coachPulses + 1
             /\ acted.learnPasses = backend.learnPasses
<1> DEFINE inputs  == [team \in Team |-> <<request.senses[team], backend.teamRewards[team]>>]
           coaches == StepPool(backend.pools["coaches"], inputs, CoachTick(request.tick))
           mail    == [team \in Team |-> Spoken(coaches.members[team]).mail]
           logits  == [team \in Team |-> Spoken(coaches.members[team]).logits]
           acted   == ActCoaches(backend, request)
<1>1. PoolFormed(coaches)
  BY StepPoolFormed DEF Formed, Role
<1>2. acted = [backend EXCEPT !.pools["coaches"] = coaches,
                              !.mailboxes = mail,
                              !.edgeLogits = logits,
                              !.coachPulses = @ + 1]
  BY DEF ActCoaches
<1>3. PerTeam(mail) /\ PerTeam(logits)
  BY DEF PerTeam
<1> HIDE DEF coaches, mail, logits, acted
<1>4. acted = [header      |-> backend.header,
               pools       |-> [backend.pools EXCEPT !["coaches"] = coaches],
               mailboxes   |-> mail,
               edgeLogits  |-> logits,
               teamRewards |-> backend.teamRewards,
               nextTick    |-> backend.nextTick,
               bodyPulses  |-> backend.bodyPulses,
               coachPulses |-> backend.coachPulses + 1,
               learnPasses |-> backend.learnPasses]
  BY <1>2 DEF Formed
<1>5. /\ acted.pools = [role \in Role |-> acted.pools[role]]
      /\ \A role \in Role : PoolFormed(acted.pools[role])
  <2>1. backend.pools = [role \in Role |-> backend.pools[role]]
    BY DEF Formed
  <2>2. acted.pools = [role \in Role |-> IF role = "coaches" THEN coaches ELSE backend.pools[role]]
    BY <1>4, <2>1
  <2> QED
    BY <1>1, <2>2 DEF Formed
<1> QED
  BY <1>3, <1>4, <1>5 DEF Formed, acted

(* A body pulse counts itself and moves the resume cursor past its tick. *)
LEMMA ActBodiesFormed ==
  ASSUME NEW backend, Formed(backend), NEW request
  PROVE  LET acted == ActBodies(backend, request)
         IN  /\ Formed(acted)
             /\ acted.header = backend.header
             /\ acted.nextTick = request.tick + 1
             /\ acted.bodyPulses = backend.bodyPulses + 1
             /\ acted.coachPulses = backend.coachPulses
             /\ acted.learnPasses = backend.learnPasses
<1> DEFINE inputs == [team \in Team |-> <<request.senses[team], backend.mailboxes[team]>>]
           pools  == [role \in Role |->
                        IF role \in BodyRole
                        THEN StepPool(backend.pools[role], inputs, request.tick)
                        ELSE backend.pools[role]]
           acted  == ActBodies(backend, request)
<1>1. /\ pools = [role \in Role |-> pools[role]]
      /\ \A role \in Role : PoolFormed(pools[role])
  BY StepPoolFormed DEF Formed
<1>2. acted = [backend EXCEPT !.pools = pools,
                              !.bodyPulses = @ + 1,
                              !.nextTick = request.tick + 1]
  BY DEF ActBodies, CursorAfter
<1> HIDE DEF pools, acted
<1>3. acted = [header      |-> backend.header,
               pools       |-> pools,
               mailboxes   |-> backend.mailboxes,
               edgeLogits  |-> backend.edgeLogits,
               teamRewards |-> backend.teamRewards,
               nextTick    |-> request.tick + 1,
               bodyPulses  |-> backend.bodyPulses + 1,
               coachPulses |-> backend.coachPulses,
               learnPasses |-> backend.learnPasses]
  BY <1>2 DEF Formed
<1> QED
  BY <1>1, <1>3 DEF Formed, acted

(* A learning pass rewrites members and what coaches read back, and counts *)
(* itself.                                                                 *)
LEMMA LearnFormed ==
  ASSUME NEW backend, Formed(backend), NEW tick, NEW rewards
  PROVE  LET learned == Learn(backend, tick, rewards)
         IN  /\ Formed(learned)
             /\ learned.header = backend.header
             /\ learned.nextTick = backend.nextTick
             /\ learned.bodyPulses = backend.bodyPulses
             /\ learned.coachPulses = backend.coachPulses
             /\ learned.learnPasses = backend.learnPasses + 1
<1> DEFINE gate == [team \in Team |-> Clamp(rewards[team])]
           env(role) == IF role = "coaches" THEN CoachTick(tick) ELSE tick
           members(role) == [team \in Team |-> Stored(Reinforced(backend.pools[role].rule,
                                                                 backend.pools[role].members[team],
                                                                 gate[team], env(role)))]
           pool(role) == [backend.pools[role] EXCEPT !.members = members(role)]
           pools == [role \in Role |-> pool(role)]
           learned == Learn(backend, tick, rewards)
<1>1. ASSUME NEW role \in Role PROVE PoolFormed(pool(role))
  <2>1. backend.pools[role] =
          [spec |-> backend.pools[role].spec, rule |-> backend.pools[role].rule,
           members |-> [team \in Team |-> Stored(backend.pools[role].members[team])]]
    BY DEF Formed, PoolFormed
  <2>2. members(role) = [team \in Team |-> Stored(members(role)[team])]
    BY DEF Stored
  <2> HIDE DEF members
  <2>3. pool(role) = [spec |-> backend.pools[role].spec, rule |-> backend.pools[role].rule,
                      members |-> members(role)]
    BY <2>1
  <2> QED
    BY <2>2, <2>3 DEF PoolFormed
<1>2. learned = [backend EXCEPT !.pools = pools,
                                !.teamRewards = gate,
                                !.learnPasses = @ + 1]
  BY DEF Learn
<1>3. PerTeam(gate)
  BY DEF PerTeam
<1>4. pools = [role \in Role |-> pools[role]] /\ \A role \in Role : PoolFormed(pools[role])
  BY <1>1
<1> HIDE DEF pools, gate, learned
<1>5. learned = [header      |-> backend.header,
                 pools       |-> pools,
                 mailboxes   |-> backend.mailboxes,
                 edgeLogits  |-> backend.edgeLogits,
                 teamRewards |-> gate,
                 nextTick    |-> backend.nextTick,
                 bodyPulses  |-> backend.bodyPulses,
                 coachPulses |-> backend.coachPulses,
                 learnPasses |-> backend.learnPasses + 1]
  BY <1>2 DEF Formed
<1> QED
  BY <1>3, <1>4, <1>5 DEF Formed, learned

(* A driven tick keeps a backend of this roster on the schedule. *)
LEMMA DrivenFaithful ==
  ASSUME NEW backend, Faithful(backend), NEW senses, NEW rewards
  PROVE  LET driven == Driven(backend, backend.nextTick, senses, rewards)
         IN  Faithful(driven) /\ driven.nextTick = backend.nextTick + 1
<1> DEFINE tick    == backend.nextTick
           request == [tick |-> tick, senses |-> senses, coachDue |-> CoachDue(tick)]
           pulsed  == IF CoachDue(tick) THEN ActCoaches(backend, request) ELSE backend
           acted   == ActBodies(pulsed, request)
           driven  == IF LearnDue(tick) THEN Learn(acted, tick + 1, rewards) ELSE acted
<1>1. Driven(backend, tick, senses, rewards) = driven
  BY DEF Driven, Act
<1>2. /\ tick \in Nat /\ Formed(backend) /\ backend.header = Header
      /\ backend.bodyPulses = tick
      /\ backend.coachPulses = (tick + CoachInterval - 1) \div CoachInterval
      /\ backend.learnPasses = tick \div LearningInterval
      /\ CoachInterval \in Nat \ {0} /\ LearningInterval \in Nat \ {0}
  BY SessionAssumption DEF Faithful, TellsSchedule
<1>p. /\ CoachDue(tick) =>
           (tick + 1 + CoachInterval - 1) \div CoachInterval = backend.coachPulses + 1
      /\ ~CoachDue(tick) =>
           (tick + 1 + CoachInterval - 1) \div CoachInterval = backend.coachPulses
  <2> HIDE DEF tick
  <2>1. /\ tick % CoachInterval = 0 =>
             (tick + 1 + CoachInterval - 1) \div CoachInterval
               = (tick + CoachInterval - 1) \div CoachInterval + 1
        /\ tick % CoachInterval # 0 =>
             (tick + 1 + CoachInterval - 1) \div CoachInterval
               = (tick + CoachInterval - 1) \div CoachInterval
    BY <1>2, CountAtStarts, Zenon
  <2> QED
    BY <1>2, <2>1, Zenon DEF CoachDue
<1>l. /\ LearnDue(tick) => (tick + 1) \div LearningInterval = backend.learnPasses + 1
      /\ ~LearnDue(tick) => (tick + 1) \div LearningInterval = backend.learnPasses
  <2> HIDE DEF tick
  <2> QED
    BY <1>2, CountAtEnds, Zenon DEF LearnDue
<1>r. request.tick = tick
  OBVIOUS
<1> HIDE DEF request, tick
<1>3. /\ Formed(pulsed) /\ pulsed.header = Header
      /\ pulsed.bodyPulses = tick
      /\ pulsed.coachPulses = (tick + 1 + CoachInterval - 1) \div CoachInterval
      /\ pulsed.learnPasses = backend.learnPasses
  <2>1. ASSUME CoachDue(tick)
        PROVE  /\ Formed(pulsed) /\ pulsed.header = Header /\ pulsed.bodyPulses = tick
               /\ pulsed.coachPulses = backend.coachPulses + 1
               /\ pulsed.learnPasses = backend.learnPasses
    BY <1>2, <2>1, ActCoachesFormed
  <2> QED
    BY <1>2, <1>p, <2>1
<1> HIDE DEF pulsed
<1>4. /\ Formed(acted) /\ acted.header = Header
      /\ acted.nextTick = tick + 1
      /\ acted.bodyPulses = tick + 1
      /\ acted.coachPulses = pulsed.coachPulses
      /\ acted.learnPasses = backend.learnPasses
  <2>1. /\ Formed(acted) /\ acted.header = pulsed.header
        /\ acted.nextTick = request.tick + 1
        /\ acted.bodyPulses = pulsed.bodyPulses + 1
        /\ acted.coachPulses = pulsed.coachPulses
        /\ acted.learnPasses = pulsed.learnPasses
    BY <1>3, ActBodiesFormed
  <2> HIDE DEF acted
  <2> QED
    BY <1>3, <1>r, <2>1
<1> HIDE DEF acted
<1>5. /\ Formed(driven) /\ driven.header = Header
      /\ driven.nextTick = tick + 1
      /\ driven.bodyPulses = tick + 1
      /\ driven.coachPulses = (tick + 1 + CoachInterval - 1) \div CoachInterval
      /\ driven.learnPasses = (tick + 1) \div LearningInterval
  <2>1. ASSUME LearnDue(tick)
        PROVE  /\ Formed(driven) /\ driven.header = acted.header
               /\ driven.nextTick = acted.nextTick
               /\ driven.bodyPulses = acted.bodyPulses
               /\ driven.coachPulses = acted.coachPulses
               /\ driven.learnPasses = acted.learnPasses + 1
    BY <1>4, <2>1, LearnFormed
  <2>2. ASSUME ~LearnDue(tick) PROVE driven = acted
    BY <2>2
  <2> HIDE DEF driven
  <2> QED
    BY <1>2, <1>3, <1>4, <1>l, <2>1, <2>2
<1> HIDE DEF driven
<1> QED
  BY <1>1, <1>2, <1>5 DEF Faithful, TellsSchedule, tick

(* A backend as it is built has run no tick. *)
LEMMA NewBackendFaithful ==
  ASSUME NEW seed, NEW rule
  PROVE  /\ Faithful(NewBackend(Header, seed, rule))
         /\ NewBackend(Header, seed, rule).nextTick = 0
<1> DEFINE backend == NewBackend(Header, seed, rule)
<1>1. Formed(backend)
  BY DEF Formed, PoolFormed, PerTeam, NewBackend, Stored
<1>2. /\ backend.header = Header /\ backend.nextTick = 0
      /\ backend.bodyPulses = 0 /\ backend.coachPulses = 0 /\ backend.learnPasses = 0
  BY DEF NewBackend
<1>3. /\ (0 + CoachInterval - 1) \div CoachInterval = 0
      /\ 0 \div LearningInterval = 0
  <2>1. CoachInterval \in Nat \ {0} /\ LearningInterval \in Nat \ {0}
    BY SessionAssumption
  <2>2. CoachInterval - 1 \in 0 .. CoachInterval - 1
    BY <2>1
  <2> QED
    BY <2>1, <2>2, QuotientOf
<1> HIDE DEF backend
<1> QED
  BY <1>1, <1>2, <1>3 DEF Faithful, TellsSchedule, backend

-----------------------------------------------------------------------------

(* A sequence one element longer, over its own elements. *)
LEMMA Extended ==
  ASSUME NEW seq, seq \in Seq(Elements(seq)), NEW last
  PROVE  LET longer == Append(seq, last)
         IN  /\ longer \in Seq(Elements(longer))
             /\ Len(seq) \in Nat /\ Len(longer) = Len(seq) + 1
             /\ \A i \in 1 .. Len(seq) : longer[i] = seq[i]
             /\ longer[Len(seq) + 1] = last
<1> DEFINE S == Elements(seq) \cup {last}
           longer == Append(seq, last)
<1>1. seq \in Seq(S) /\ last \in S
  <2>1. Elements(seq) \subseteq S
    OBVIOUS
  <2> QED
    BY <2>1, SeqMonotonic
<1> HIDE DEF S
<1>2. longer = [i \in 1 .. Len(seq) + 1 |-> IF i <= Len(seq) THEN seq[i] ELSE last]
  BY <1>1, Appended
<1>3. Len(seq) \in Nat
  BY <1>1, LenProperties
<1> HIDE DEF longer
<1>4. longer \in [1 .. Len(seq) + 1 -> Elements(longer)]
  BY <1>2, <1>3 DEF Elements
<1>5. Len(seq) + 1 \in Nat
  BY <1>3
<1>6. longer \in Seq(Elements(longer))
  BY <1>4, <1>5, SeqDef
<1>7. Len(longer) = Len(seq) + 1
  BY <1>4, <1>5, <1>6, LenProperties
<1> QED
  BY <1>2, <1>3, <1>6, <1>7 DEF longer

(* Nothing has been played or written at first. *)
LEMMA InitEstablishes == Init => IInv
<1> SUFFICES ASSUME Init PROVE IInv
  OBVIOUS
<1>1. Faithful(live) /\ live.nextTick = clock /\ Faithful(spare)
  BY NewBackendFaithful DEF Init
<1>2. clock \in 0 .. LiveTicks
  BY SessionAssumption DEF Init
<1>3. <<>> \in Seq(Elements(<<>>)) /\ Len(<<>>) = 0
  OBVIOUS
<1>4. TrailTold /\ SpareOnTrail
  BY <1>3 DEF Init, TrailTold, SpareOnTrail, NoEnvelope
<1> QED
  BY <1>1, <1>2, <1>4 DEF IInv

(* A tick of the running match: before the envelope is written only live   *)
(* moves, afterwards trail and journal grow with it.                       *)
LEMMA PlayKeeps ==
  ASSUME IInv, NEW senses, NEW rewards, Play(senses, rewards)
  PROVE  IInv'
<1>1. /\ clock \in 0 .. LiveTicks /\ clock < LiveTicks /\ clock' = clock + 1
      /\ LiveTicks \in Nat
  BY SessionAssumption DEF IInv, Play
<1>2. live' = Driven(live, live.nextTick, senses, rewards) /\ live.nextTick = clock
  BY DEF IInv, Play
<1>3. Faithful(live') /\ live'.nextTick = clock'
  BY <1>1, <1>2, DrivenFaithful DEF IInv
<1>4. Faithful(spare')
  BY DEF IInv, Play
<1>5. /\ journal \in Seq(Elements(journal)) /\ trail \in Seq(Elements(trail))
      /\ saved = NoEnvelope => journal = <<>> /\ ~resumed
      /\ replayed \in 0 .. Len(journal) /\ (resumed => spare = trail[replayed + 1])
      /\ spare' = spare /\ resumed' = resumed /\ saved' = saved /\ replayed' = replayed
  BY DEF IInv, TrailTold, SpareOnTrail, Play
<1>6. CASE saved = NoEnvelope
  <2>1. journal' = journal /\ trail' = trail
    BY <1>6 DEF Play
  <2>2. TrailTold' /\ SpareOnTrail'
    BY <1>5, <1>6, <2>1 DEF TrailTold, SpareOnTrail
  <2> QED
    BY <1>1, <1>3, <1>4, <2>2 DEF IInv
<1>7. CASE saved # NoEnvelope
  <2>1. /\ journal' = Append(journal, [senses |-> senses, rewards |-> rewards])
        /\ trail' = Append(trail, live')
    BY <1>7 DEF Play
  <2>2. /\ Len(trail) = Len(journal) + 1
        /\ saved = Checkpoint(trail[1])
        /\ live = trail[Len(trail)]
        /\ \A i \in 1 .. Len(trail) : Faithful(trail[i])
        /\ \A i \in 1 .. Len(journal) :
             trail[i + 1] = Driven(trail[i], trail[i].nextTick, journal[i].senses, journal[i].rewards)
    BY <1>7 DEF IInv, TrailTold
  <2>3. /\ journal' \in Seq(Elements(journal'))
        /\ Len(journal) \in Nat /\ Len(journal') = Len(journal) + 1
        /\ \A i \in 1 .. Len(journal) : journal'[i] = journal[i]
        /\ journal'[Len(journal) + 1] = [senses |-> senses, rewards |-> rewards]
    BY <1>5, <2>1, Extended
  <2>4. /\ trail' \in Seq(Elements(trail'))
        /\ Len(trail) \in Nat /\ Len(trail') = Len(trail) + 1
        /\ \A i \in 1 .. Len(trail) : trail'[i] = trail[i]
        /\ trail'[Len(trail) + 1] = live'
    BY <1>5, <2>1, Extended
  <2>5. Len(trail') = Len(journal') + 1 /\ live' = trail'[Len(trail')]
    BY <2>2, <2>3, <2>4
  <2>6. saved' = Checkpoint(trail'[1])
    BY <1>5, <2>2, <2>3, <2>4
  <2>7. \A i \in 1 .. Len(trail') : Faithful(trail'[i])
    BY <1>3, <2>2, <2>4
  <2>8. ASSUME NEW i \in 1 .. Len(journal')
        PROVE  trail'[i + 1] = Driven(trail'[i], trail'[i].nextTick, journal'[i].senses, journal'[i].rewards)
    <3>1. CASE i \in 1 .. Len(journal)
      <4>1. i \in 1 .. Len(trail) /\ i + 1 \in 1 .. Len(trail)
        BY <2>2, <2>3, <3>1
      <4>2. trail'[i] = trail[i] /\ trail'[i + 1] = trail[i + 1] /\ journal'[i] = journal[i]
        BY <2>3, <2>4, <3>1, <4>1
      <4> QED
        BY <2>2, <3>1, <4>2
    <3>2. CASE i = Len(journal) + 1
      <4>1. i = Len(trail) /\ i \in 1 .. Len(trail)
        BY <2>2, <2>3, <3>2
      <4>2. /\ trail'[i] = live /\ trail'[i + 1] = live'
            /\ journal'[i].senses = senses /\ journal'[i].rewards = rewards
        BY <2>2, <2>3, <2>4, <3>2, <4>1
      <4> QED
        BY <1>2, <4>2
    <3> QED
      BY <2>3, <3>1, <3>2
  <2>9. TrailTold'
    BY <1>5, <1>7, <2>3, <2>4, <2>5, <2>6, <2>7, <2>8 DEF TrailTold
  <2>10. SpareOnTrail'
    <3>1. replayed' \in 0 .. Len(journal')
      BY <1>5, <2>3
    <3>2. replayed + 1 \in 1 .. Len(trail)
      BY <1>5, <2>2, <2>3
    <3> QED
      BY <1>5, <2>4, <3>1, <3>2 DEF SpareOnTrail
  <2> QED
    BY <1>1, <1>3, <1>4, <2>9, <2>10 DEF IInv
<1> QED
  BY <1>6, <1>7

(* Writing the envelope starts the trail. *)
LEMMA SaveKeeps ==
  ASSUME IInv, Save
  PROVE  IInv'
<1>1. /\ trail' = <<live>> /\ saved' = Checkpoint(live) /\ Faithful(live)
      /\ live' = live /\ clock' = clock /\ spare' = spare /\ resumed' = resumed
      /\ journal' = journal /\ replayed' = replayed
      /\ journal = <<>> /\ ~resumed
      /\ journal \in Seq(Elements(journal)) /\ replayed \in 0 .. Len(journal)
  BY DEF Save, IInv, TrailTold, SpareOnTrail
<1>2. /\ trail' \in Seq(Elements(trail')) /\ Len(trail') = 1 /\ trail'[1] = live
  BY <1>1 DEF Elements
<1>3. Len(journal') = 0
  BY <1>1
<1>4. TrailTold'
  BY <1>1, <1>2, <1>3 DEF TrailTold
<1>5. SpareOnTrail'
  BY <1>1 DEF SpareOnTrail
<1> QED
  BY <1>1, <1>4, <1>5 DEF IInv

(* The saved envelope is well formed and describes the trail's first       *)
(* backend to whoever was built for this roster.                           *)
LEMMA SavedEnvelope ==
  ASSUME IInv, saved # NoEnvelope
  PROVE  /\ Enveloped(saved)
         /\ 1 \in 1 .. Len(trail) /\ Faithful(trail[1])
         /\ Described(spare, saved) = trail[1]
<1>1. /\ saved = Checkpoint(trail[1]) /\ Len(trail) = Len(journal) + 1
      /\ \A i \in 1 .. Len(trail) : Faithful(trail[i])
      /\ journal \in Seq(Elements(journal))
      /\ spare.header = Header
  BY DEF IInv, TrailTold, Faithful
<1>2. Len(journal) \in Nat
  BY <1>1, LenProperties
<1>3. 1 \in 1 .. Len(trail)
  BY <1>1, <1>2
<1>4. Faithful(trail[1])
  BY <1>1, <1>3
<1> QED
  BY <1>1, <1>3, <1>4, CheckpointEnveloped, RestoreInvertsCheckpoint DEF Faithful

(* What is neither a tick of live nor a write leaves the trail as told. *)
LEMMA TrailStays ==
  ASSUME TrailTold, UNCHANGED <<live, saved, journal, trail>>,
         resumed' => resumed \/ saved # NoEnvelope
  PROVE  TrailTold'
BY DEF TrailTold

(* A tick of the spare's own match: it is not resumed yet. *)
LEMMA WarmKeeps ==
  ASSUME IInv, NEW senses, NEW rewards, Warm(senses, rewards)
  PROVE  IInv'
<1>1. /\ spare' = Driven(spare, spare.nextTick, senses, rewards)
      /\ ~resumed /\ UNCHANGED <<live, clock, resumed, saved, journal, replayed, trail>>
  BY DEF Warm
<1>2. Faithful(spare')
  BY <1>1, DrivenFaithful DEF IInv
<1>3. TrailTold'
  BY <1>1, TrailStays DEF IInv
<1>4. SpareOnTrail'
  BY <1>1 DEF IInv, SpareOnTrail
<1> QED
  BY <1>1, <1>2, <1>3, <1>4 DEF IInv

(* A restore puts the spare on the head of the trail or leaves it.         *)
LEMMA ResumeKeeps ==
  ASSUME IInv, Resume
  PROVE  IInv'
<1>1. /\ saved # NoEnvelope /\ UNCHANGED <<live, clock, saved, journal, trail>>
      /\ spare' = Restore(spare, saved)
  BY DEF Resume
<1>2. TrailTold'
  BY <1>1, TrailStays DEF IInv
<1>3. Len(journal) \in Nat
  BY LenProperties DEF IInv, TrailTold
<1>4. CASE RestoreError(spare, saved) = "none"
  <2>1. spare' = trail[1] /\ Faithful(trail[1]) /\ replayed' = 0
    BY <1>1, <1>4, SavedEnvelope DEF Restore, Resume
  <2>2. SpareOnTrail'
    BY <1>1, <1>3, <2>1 DEF SpareOnTrail
  <2> QED
    BY <1>1, <1>2, <2>1, <2>2 DEF IInv
<1>5. CASE RestoreError(spare, saved) # "none"
  <2>1. spare' = spare /\ (resumed' => resumed) /\ replayed' = replayed
    BY <1>1, <1>5 DEF Restore, Resume
  <2>2. SpareOnTrail'
    BY <1>1, <2>1 DEF SpareOnTrail, IInv
  <2> QED
    BY <1>1, <1>2, <2>1, <2>2 DEF IInv
<1> QED
  BY <1>4, <1>5

(* A damaged envelope changes nothing. *)
LEMMA ResumeDamagedKeeps ==
  ASSUME IInv, ResumeDamaged
  PROVE  IInv' /\ spare' = spare
<1>1. PICK cells \in Damaged(saved) : spare' = Restore(spare, cells)
  BY DEF ResumeDamaged
<1>2. /\ saved # NoEnvelope
      /\ UNCHANGED <<live, clock, resumed, saved, journal, replayed, trail>>
  BY DEF ResumeDamaged
<1>3. spare.header = Header
  BY DEF IInv, Faithful
<1>4. RestoreError(spare, cells) # "none"
  BY <1>2, <1>3, SavedEnvelope, DamageRejected
<1>5. spare' = spare
  BY <1>1, <1>4 DEF Restore
<1>6. TrailTold'
  BY <1>2, TrailStays DEF IInv
<1>7. SpareOnTrail'
  BY <1>2, <1>5 DEF SpareOnTrail, IInv
<1> QED
  BY <1>2, <1>5, <1>6, <1>7 DEF IInv

(* A replayed tick moves the spare one step along the trail. *)
LEMMA ReplayKeeps ==
  ASSUME IInv, Replay
  PROVE  IInv'
<1>1. /\ resumed /\ replayed < Len(journal) /\ replayed' = replayed + 1
      /\ spare' = Driven(spare, spare.nextTick, journal[replayed + 1].senses, journal[replayed + 1].rewards)
      /\ UNCHANGED <<live, clock, resumed, saved, journal, trail>>
  BY DEF Replay
<1>2. /\ saved # NoEnvelope
      /\ replayed \in 0 .. Len(journal) /\ spare = trail[replayed + 1]
      /\ \A i \in 1 .. Len(journal) :
           trail[i + 1] = Driven(trail[i], trail[i].nextTick, journal[i].senses, journal[i].rewards)
  BY <1>1 DEF IInv, TrailTold, SpareOnTrail
<1>3. Len(journal) \in Nat
  BY LenProperties DEF IInv, TrailTold
<1>4. replayed + 1 \in 1 .. Len(journal) /\ replayed' \in 0 .. Len(journal)
  BY <1>1, <1>2, <1>3
<1>5. spare' = trail[replayed + 1 + 1]
  BY <1>1, <1>2, <1>4
<1>6. Faithful(spare')
  BY <1>1, DrivenFaithful DEF IInv
<1>7. TrailTold'
  BY <1>1, TrailStays DEF IInv
<1>8. SpareOnTrail'
  BY <1>1, <1>4, <1>5 DEF SpareOnTrail
<1> QED
  BY <1>1, <1>6, <1>7, <1>8 DEF IInv

LEMMA StepKeeps == IInv /\ [Next]_vars => IInv'
<1> SUFFICES ASSUME IInv, [Next]_vars PROVE IInv'
  OBVIOUS
<1>1. ASSUME NEW senses \in Senses, NEW rewards \in RewardBatches \cup {NoRewards}, Play(senses, rewards)
      PROVE  IInv'
  BY <1>1, PlayKeeps
<1>2. ASSUME NEW senses \in Senses, NEW rewards \in RewardBatches \cup {NoRewards}, Warm(senses, rewards)
      PROVE  IInv'
  BY <1>2, WarmKeeps
<1>3. CASE Save
  BY <1>3, SaveKeeps
<1>4. CASE Resume
  BY <1>4, ResumeKeeps
<1>5. CASE ResumeDamaged
  BY <1>5, ResumeDamagedKeeps
<1>6. CASE Replay
  BY <1>6, ReplayKeeps
<1>7. CASE UNCHANGED vars
  BY <1>7 DEF vars, IInv, TrailTold, SpareOnTrail
<1> QED
  BY <1>1, <1>2, <1>3, <1>4, <1>5, <1>6, <1>7 DEF Next

LEMMA Invariance == Spec => []IInv
<1>1. Init => IInv
  BY InitEstablishes
<1>2. IInv /\ [Next]_vars => IInv'
  BY StepKeeps
<1> QED
  BY <1>1, <1>2, PTL DEF Spec

-----------------------------------------------------------------------------

(* What two backends must share to step alike: everything but the wiring,  *)
(* the pulse counts and the resume cursor.                                 *)
Alike(one, other) ==
  /\ \A role \in Role : /\ one.pools[role].rule = other.pools[role].rule
                        /\ one.pools[role].members = other.pools[role].members
  /\ one.mailboxes = other.mailboxes
  /\ one.edgeLogits = other.edgeLogits
  /\ one.teamRewards = other.teamRewards
  /\ one.learnPasses = other.learnPasses

(* The witnesses see all of it, because a stored member is its inference   *)
(* words and its credit words.                                             *)
LEMMA AgreeingAreAlike ==
  ASSUME NEW one, NEW other, Formed(one), Formed(other), WitnessesAgree(one, other)
  PROVE  Alike(one, other)
<1> DEFINE inference(backend) ==
             [role \in Role |-> [team \in Team |-> backend.pools[role].members[team].inference]]
           credit(backend) ==
             [role \in Role |-> [team \in Team |-> backend.pools[role].members[team].credit]]
           rules(backend) == [role \in Role |-> backend.pools[role].rule]
<1>1. <<inference(one), one.mailboxes, one.edgeLogits>>
        = <<inference(other), other.mailboxes, other.edgeLogits>>
  BY DEF WitnessesAgree, ControllerWitness
<1>2. <<credit(one), rules(one), one.teamRewards, one.learnPasses>>
        = <<credit(other), rules(other), other.teamRewards, other.learnPasses>>
  BY DEF WitnessesAgree, LearningWitness
<1>3. /\ inference(one) = inference(other) /\ credit(one) = credit(other) /\ rules(one) = rules(other)
      /\ one.mailboxes = other.mailboxes /\ one.edgeLogits = other.edgeLogits
      /\ one.teamRewards = other.teamRewards /\ one.learnPasses = other.learnPasses
  <2> HIDE DEF inference, credit, rules
  <2> QED
    BY <1>1, <1>2
<1>4. ASSUME NEW role \in Role
      PROVE  /\ one.pools[role].rule = other.pools[role].rule
             /\ one.pools[role].members = other.pools[role].members
  <2>1. one.pools[role].rule = other.pools[role].rule
    <3>1. rules(one)[role] = rules(other)[role]
      BY <1>3
    <3> QED
      BY <3>1
  <2>2. ASSUME NEW team \in Team
        PROVE  /\ one.pools[role].members[team].inference = other.pools[role].members[team].inference
               /\ one.pools[role].members[team].credit = other.pools[role].members[team].credit
    <3>1. inference(one)[role][team] = inference(other)[role][team]
          /\ credit(one)[role][team] = credit(other)[role][team]
      BY <1>3
    <3> QED
      BY <3>1
  <2>3. /\ PoolFormed(one.pools[role]) /\ PoolFormed(other.pools[role])
    BY DEF Formed
  <2>4. /\ one.pools[role].members = [team \in Team |-> Stored(one.pools[role].members[team])]
        /\ other.pools[role].members = [team \in Team |-> Stored(other.pools[role].members[team])]
    <3>1. ASSUME NEW pool, PoolFormed(pool)
          PROVE  pool.members = [team \in Team |-> Stored(pool.members[team])]
      BY <3>1 DEF PoolFormed
    <3> QED
      BY <2>3, <3>1
  <2> QED
    BY <2>1, <2>2, <2>4 DEF Stored
<1> QED
  BY <1>3, <1>4 DEF Alike

LEMMA AlikeAgree ==
  ASSUME NEW one, NEW other, Alike(one, other)
  PROVE  WitnessesAgree(one, other)
<1>1. ControllerWitness(one) = ControllerWitness(other)
  BY DEF Alike, ControllerWitness
<1>2. LearningWitness(one) = LearningWitness(other)
  BY DEF Alike, LearningWitness
<1> QED
  BY <1>1, <1>2 DEF WitnessesAgree

(* What a step makes of a population depends on its rule and its members. *)
LEMMA StepPoolFields ==
  ASSUME NEW pool, PoolFormed(pool), NEW inputs, NEW tick
  PROVE  /\ StepPool(pool, inputs, tick).rule = pool.rule
         /\ StepPool(pool, inputs, tick).members =
              [team \in Team |-> Stored(Pulsed(pool.rule, pool.members[team], inputs[team], tick))]
<1> DEFINE members == [team \in Team |-> Stored(Pulsed(pool.rule, pool.members[team], inputs[team], tick))]
           before == [team \in Team |-> Stored(pool.members[team])]
<1>1. pool = [spec |-> pool.spec, rule |-> pool.rule, members |-> before]
  BY DEF PoolFormed
<1>2. StepPool(pool, inputs, tick) = [pool EXCEPT !.members = members]
  BY DEF StepPool
<1> HIDE DEF members, before
<1>3. /\ StepPool(pool, inputs, tick).rule = pool.rule
      /\ StepPool(pool, inputs, tick).members = members
  BY <1>1, <1>2
<1> QED
  BY <1>3 DEF members

LEMMA StepPoolAlike ==
  ASSUME NEW one, NEW other, PoolFormed(one), PoolFormed(other),
         one.rule = other.rule, one.members = other.members, NEW inputs, NEW tick
  PROVE  /\ StepPool(one, inputs, tick).rule = StepPool(other, inputs, tick).rule
         /\ StepPool(one, inputs, tick).members = StepPool(other, inputs, tick).members
<1> DEFINE members(pool) ==
             [team \in Team |-> Stored(Pulsed(pool.rule, pool.members[team], inputs[team], tick))]
<1>1. members(one) = members(other)
  OBVIOUS
<1>2. /\ StepPool(one, inputs, tick).rule = one.rule
      /\ StepPool(one, inputs, tick).members = members(one)
  BY StepPoolFields
<1>3. /\ StepPool(other, inputs, tick).rule = other.rule
      /\ StepPool(other, inputs, tick).members = members(other)
  BY StepPoolFields
<1> HIDE DEF members
<1> QED
  BY <1>1, <1>2, <1>3

LEMMA ActCoachesAlike ==
  ASSUME NEW one, NEW other, Formed(one), Formed(other), Alike(one, other), NEW request
  PROVE  Alike(ActCoaches(one, request), ActCoaches(other, request))
<1> DEFINE inputs == [team \in Team |-> <<request.senses[team], one.teamRewards[team]>>]
           tick == CoachTick(request.tick)
           coaches(backend) == StepPool(backend.pools["coaches"], inputs, tick)
           mail(pool) == [team \in Team |-> Spoken(pool.members[team]).mail]
           logits(pool) == [team \in Team |-> Spoken(pool.members[team]).logits]
           acted(backend) == [backend EXCEPT !.pools["coaches"] = coaches(backend),
                                             !.mailboxes = mail(coaches(backend)),
                                             !.edgeLogits = logits(coaches(backend)),
                                             !.coachPulses = @ + 1]
<1>1. ActCoaches(one, request) = acted(one) /\ ActCoaches(other, request) = acted(other)
  BY DEF ActCoaches, Alike
<1>2. /\ coaches(one).rule = coaches(other).rule
      /\ coaches(one).members = coaches(other).members
  <2>1. "coaches" \in Role
    BY DEF Role
  <2>2. PoolFormed(one.pools["coaches"]) /\ PoolFormed(other.pools["coaches"])
    BY <2>1 DEF Formed
  <2>3. /\ one.pools["coaches"].rule = other.pools["coaches"].rule
        /\ one.pools["coaches"].members = other.pools["coaches"].members
    BY <2>1 DEF Alike
  <2> HIDE DEF inputs, tick
  <2> QED
    BY <2>2, <2>3, StepPoolAlike
<1>3. mail(coaches(one)) = mail(coaches(other)) /\ logits(coaches(one)) = logits(coaches(other))
  BY <1>2
<1>4. ASSUME NEW backend, Formed(backend)
      PROVE  /\ acted(backend).pools = [role \in Role |-> IF role = "coaches" THEN coaches(backend)
                                                         ELSE backend.pools[role]]
             /\ acted(backend).mailboxes = mail(coaches(backend))
             /\ acted(backend).edgeLogits = logits(coaches(backend))
             /\ acted(backend).teamRewards = backend.teamRewards
             /\ acted(backend).learnPasses = backend.learnPasses
  <2> HIDE DEF coaches, mail, logits
  <2>1. backend.pools = [role \in Role |-> backend.pools[role]]
    BY <1>4 DEF Formed
  <2>2. acted(backend).pools = [backend.pools EXCEPT !["coaches"] = coaches(backend)]
    BY <1>4 DEF Formed
  <2>3. acted(backend).pools = [role \in Role |-> IF role = "coaches" THEN coaches(backend)
                                                         ELSE backend.pools[role]]
    <3> HIDE DEF acted
    <3> QED
      BY <2>1, <2>2
  <2>4. /\ acted(backend).mailboxes = mail(coaches(backend))
        /\ acted(backend).edgeLogits = logits(coaches(backend))
        /\ acted(backend).teamRewards = backend.teamRewards
        /\ acted(backend).learnPasses = backend.learnPasses
    BY <1>4 DEF Formed
  <2> QED
    BY <2>3, <2>4
<1> HIDE DEF coaches, mail, logits, acted
<1>5. ASSUME NEW role \in Role
      PROVE  /\ acted(one).pools[role].rule = acted(other).pools[role].rule
             /\ acted(one).pools[role].members = acted(other).pools[role].members
  <2>1. /\ acted(one).pools[role] = IF role = "coaches" THEN coaches(one) ELSE one.pools[role]
        /\ acted(other).pools[role] = IF role = "coaches" THEN coaches(other) ELSE other.pools[role]
    BY <1>4
  <2> QED
    BY <1>2, <2>1 DEF Alike
<1>6. /\ acted(one).mailboxes = acted(other).mailboxes
      /\ acted(one).edgeLogits = acted(other).edgeLogits
      /\ acted(one).teamRewards = acted(other).teamRewards
      /\ acted(one).learnPasses = acted(other).learnPasses
  <2>1. /\ acted(one).mailboxes = mail(coaches(one)) /\ acted(one).edgeLogits = logits(coaches(one))
        /\ acted(one).teamRewards = one.teamRewards /\ acted(one).learnPasses = one.learnPasses
    BY <1>4
  <2>2. /\ acted(other).mailboxes = mail(coaches(other)) /\ acted(other).edgeLogits = logits(coaches(other))
        /\ acted(other).teamRewards = other.teamRewards /\ acted(other).learnPasses = other.learnPasses
    BY <1>4
  <2>3. one.teamRewards = other.teamRewards /\ one.learnPasses = other.learnPasses
    BY DEF Alike
  <2> QED
    BY <1>3, <2>1, <2>2, <2>3
<1> QED
  BY <1>1, <1>5, <1>6 DEF Alike

LEMMA ActBodiesAlike ==
  ASSUME NEW one, NEW other, Formed(one), Formed(other), Alike(one, other), NEW request
  PROVE  Alike(ActBodies(one, request), ActBodies(other, request))
<1> DEFINE inputs == [team \in Team |-> <<request.senses[team], one.mailboxes[team]>>]
           tick == request.tick
           stepped(backend, role) == StepPool(backend.pools[role], inputs, tick)
           pools(backend) == [role \in Role |-> IF role \in BodyRole THEN stepped(backend, role)
                                                ELSE backend.pools[role]]
           acted(backend) == [backend EXCEPT !.pools = pools(backend),
                                             !.bodyPulses = @ + 1,
                                             !.nextTick = CursorAfter(tick)]
<1>1. ActBodies(one, request) = acted(one) /\ ActBodies(other, request) = acted(other)
  BY DEF ActBodies, Alike
<1>2. ASSUME NEW role \in Role
      PROVE  /\ stepped(one, role).rule = stepped(other, role).rule
             /\ stepped(one, role).members = stepped(other, role).members
  <2>1. PoolFormed(one.pools[role]) /\ PoolFormed(other.pools[role])
    BY DEF Formed
  <2>2. /\ one.pools[role].rule = other.pools[role].rule
        /\ one.pools[role].members = other.pools[role].members
    BY DEF Alike
  <2> HIDE DEF inputs, tick
  <2> QED
    BY <2>1, <2>2, StepPoolAlike
<1>3. ASSUME NEW backend, Formed(backend)
      PROVE  /\ acted(backend).pools = pools(backend)
             /\ acted(backend).mailboxes = backend.mailboxes
             /\ acted(backend).edgeLogits = backend.edgeLogits
             /\ acted(backend).teamRewards = backend.teamRewards
             /\ acted(backend).learnPasses = backend.learnPasses
  <2> HIDE DEF pools, tick
  <2> QED
    BY <1>3 DEF Formed
<1> HIDE DEF stepped, acted, tick
<1>4. ASSUME NEW role \in Role
      PROVE  /\ pools(one)[role].rule = pools(other)[role].rule
             /\ pools(one)[role].members = pools(other)[role].members
  BY <1>2 DEF Alike
<1> HIDE DEF pools
<1> QED
  BY <1>1, <1>3, <1>4 DEF Alike

LEMMA LearnAlike ==
  ASSUME NEW one, NEW other, Formed(one), Formed(other), Alike(one, other), NEW tick, NEW rewards
  PROVE  Alike(Learn(one, tick, rewards), Learn(other, tick, rewards))
<1> DEFINE gate == [team \in Team |-> Clamp(rewards[team])]
           env(role) == IF role = "coaches" THEN CoachTick(tick) ELSE tick
           members(pool, role) == [team \in Team |-> Stored(Reinforced(pool.rule, pool.members[team],
                                                                       gate[team], env(role)))]
           pool(backend, role) == [backend.pools[role] EXCEPT !.members = members(backend.pools[role], role)]
           pools(backend) == [role \in Role |-> pool(backend, role)]
           learned(backend) == [backend EXCEPT !.pools = pools(backend),
                                               !.teamRewards = gate,
                                               !.learnPasses = @ + 1]
<1>1. Learn(one, tick, rewards) = learned(one) /\ Learn(other, tick, rewards) = learned(other)
  BY DEF Learn
<1>2. ASSUME NEW backend, Formed(backend), NEW role \in Role
      PROVE  /\ pool(backend, role).rule = backend.pools[role].rule
             /\ pool(backend, role).members = members(backend.pools[role], role)
  <2> HIDE DEF members
  <2>1. PoolFormed(backend.pools[role])
    BY <1>2 DEF Formed
  <2> QED
    BY <2>1 DEF PoolFormed
<1>3. ASSUME NEW role \in Role
      PROVE  members(one.pools[role], role) = members(other.pools[role], role)
  BY DEF Alike
<1>4. ASSUME NEW backend, Formed(backend)
      PROVE  /\ learned(backend).pools = pools(backend)
             /\ learned(backend).mailboxes = backend.mailboxes
             /\ learned(backend).edgeLogits = backend.edgeLogits
             /\ learned(backend).teamRewards = gate
             /\ learned(backend).learnPasses = backend.learnPasses + 1
  <2> HIDE DEF pools, gate
  <2> QED
    BY <1>4 DEF Formed
<1> HIDE DEF gate, members, pool, learned
<1>5. ASSUME NEW role \in Role
      PROVE  /\ pools(one)[role].rule = pools(other)[role].rule
             /\ pools(one)[role].members = pools(other)[role].members
  BY <1>2, <1>3 DEF Alike
<1> HIDE DEF pools
<1> QED
  BY <1>1, <1>4, <1>5 DEF Alike

(* Backends that are alike answer alike. *)
LEMMA CommandsAlike ==
  ASSUME NEW one, NEW other, Alike(one, other)
  PROVE  Commands(one) = Commands(other)
<1>1. \A role \in BodyRole : role \in Role
  BY DEF BodyRole, Role
<1>2. \A role \in BodyRole : one.pools[role].members = other.pools[role].members
  BY <1>1 DEF Alike
<1> QED
  BY <1>2 DEF Commands

LEMMA ActAlike ==
  ASSUME NEW one, NEW other, Formed(one), Formed(other), Alike(one, other), NEW request
  PROVE  /\ Formed(Act(one, request)) /\ Formed(Act(other, request))
         /\ Alike(Act(one, request), Act(other, request))
<1> DEFINE pulsed(backend) == IF request.coachDue THEN ActCoaches(backend, request) ELSE backend
<1>1. /\ Formed(pulsed(one)) /\ Formed(pulsed(other)) /\ Alike(pulsed(one), pulsed(other))
  BY ActCoachesFormed, ActCoachesAlike
<1>2. Act(one, request) = ActBodies(pulsed(one), request) /\ Act(other, request) = ActBodies(pulsed(other), request)
  BY DEF Act
<1> HIDE DEF pulsed
<1> QED
  BY <1>1, <1>2, ActBodiesFormed, ActBodiesAlike

LEMMA DrivenAlike ==
  ASSUME NEW one, NEW other, Formed(one), Formed(other), Alike(one, other),
         NEW tick, NEW senses, NEW rewards
  PROVE  Alike(Driven(one, tick, senses, rewards), Driven(other, tick, senses, rewards))
<1> DEFINE request == [tick |-> tick, senses |-> senses, coachDue |-> CoachDue(tick)]
<1>1. /\ Driven(one, tick, senses, rewards) =
           IF LearnDue(tick) THEN Learn(Act(one, request), tick + 1, rewards) ELSE Act(one, request)
      /\ Driven(other, tick, senses, rewards) =
           IF LearnDue(tick) THEN Learn(Act(other, request), tick + 1, rewards) ELSE Act(other, request)
  BY DEF Driven
<1> HIDE DEF request
<1>2. /\ Formed(Act(one, request)) /\ Formed(Act(other, request))
      /\ Alike(Act(one, request), Act(other, request))
  BY ActAlike
<1> QED
  BY <1>1, <1>2, LearnAlike

-----------------------------------------------------------------------------

(* The resume cursor is the match's tick; the spare never replays what     *)
(* live has not been through; nothing is journalled or resumed before an   *)
(* envelope is written.                                                    *)
THEOREM TypeCorrect == Spec => []SessionTypeOK
<1>1. IInv => SessionTypeOK
  BY DEF IInv, SessionTypeOK, Faithful, TrailTold, SpareOnTrail
<1> QED
  BY <1>1, Invariance, PTL

(* A resume is the bit-identical continuation: a spare of any past, seed   *)
(* and rule that accepts the envelope and is driven over what live has     *)
(* met since it was written is live, to the last word, however long that   *)
(* was (ZoomieBackend::checkpoint, restore, act and learn).                *)
THEOREM ResumeContinues == Spec => []ResumeIsExact
<1>1. IInv => ResumeIsExact
  <2> SUFFICES ASSUME IInv, resumed, replayed = Len(journal) PROVE spare = live
    BY DEF ResumeIsExact
  <2>1. /\ saved # NoEnvelope /\ spare = trail[replayed + 1]
        /\ Len(trail) = Len(journal) + 1 /\ live = trail[Len(trail)]
    BY DEF IInv, TrailTold, SpareOnTrail
  <2> QED
    BY <2>1
<1> QED
  BY <1>1, Invariance, PTL

(* Restore is transactional: an envelope, as written, damaged or with a    *)
(* word of its tail changed, is either taken whole, so that the backend    *)
(* would write it back cell for cell, or changes nothing at all.           *)
THEOREM RestoreIsTransactional == Spec => []RestoreIsAllOrNothing
<1>1. IInv => RestoreIsAllOrNothing
  <2> SUFFICES ASSUME IInv, saved # NoEnvelope,
                      NEW cells \in Damaged(saved) \cup Retouched(saved) \cup {saved}
               PROVE  IF RestoreError(spare, cells) = "none"
                      THEN Checkpoint(Restore(spare, cells)) = cells
                      ELSE Restore(spare, cells) = spare
    BY DEF RestoreIsAllOrNothing
  <2>1. Enveloped(saved) /\ spare.header = Header
    BY SavedEnvelope DEF IInv, Faithful
  <2>2. CASE RestoreError(spare, cells) = "none"
    <3>1. cells \notin Damaged(saved)
      BY <2>1, <2>2, DamageRejected
    <3>2. Enveloped(cells)
      BY <2>1, <3>1, RetouchedEnveloped
    <3> QED
      BY <2>1, <2>2, <3>2, CheckpointInvertsRestore DEF Restore
  <2>3. CASE RestoreError(spare, cells) # "none"
    BY <2>3 DEF Restore
  <2> QED
    BY <2>2, <2>3
<1> QED
  BY <1>1, Invariance, PTL

(* Every cut, every extra cell, every lying length prefix, every foreign   *)
(* magic or header and every damaged field of the payload is rejected,     *)
(* whatever a population's words are.                                      *)
THEOREM DamageNeverPasses == Spec => []DamageIsCaught
<1>1. IInv => DamageIsCaught
  <2> SUFFICES ASSUME IInv, saved # NoEnvelope, NEW cells \in Damaged(saved)
               PROVE  RestoreError(spare, cells) # "none"
    BY DEF DamageIsCaught
  <2>1. Enveloped(saved) /\ spare.header = Header
    BY SavedEnvelope DEF IInv, Faithful
  <2> QED
    BY <2>1, DamageRejected
<1> QED
  BY <1>1, Invariance, PTL

(* The counters and the resume cursor agree with the schedule for any two  *)
(* intervals, through ticks, learning passes, restores and replays.        *)
THEOREM ScheduleIsTold == Spec => []CountersTellTheSchedule
<1>1. IInv => CountersTellTheSchedule
  BY DEF IInv, Faithful, CountersTellTheSchedule
<1> QED
  BY <1>1, Invariance, PTL

(* The two witnesses together decide the next tick: backends that agree on *)
(* both answer alike and agree again after it, for every population and    *)
(* learning rule, whatever their wiring, pulse counts and cursors.         *)
THEOREM WitnessesSuffice == Spec => []WitnessesDecide
<1>1. IInv => WitnessesDecide
  <2> SUFFICES ASSUME IInv, WitnessesAgree(live, spare),
                      NEW senses \in Senses, NEW rewards \in BatchesAt(clock)
               PROVE  LET request == [tick |-> clock, senses |-> senses, coachDue |-> CoachDue(clock)]
                      IN  /\ Commands(Act(live, request)) = Commands(Act(spare, request))
                          /\ WitnessesAgree(Driven(live, clock, senses, rewards),
                                            Driven(spare, clock, senses, rewards))
    BY DEF WitnessesDecide
  <2> DEFINE request == [tick |-> clock, senses |-> senses, coachDue |-> CoachDue(clock)]
  <2>1. Formed(live) /\ Formed(spare)
    BY DEF IInv, Faithful
  <2>2. Alike(live, spare)
    BY <2>1, AgreeingAreAlike
  <2> HIDE DEF request
  <2>3. Commands(Act(live, request)) = Commands(Act(spare, request))
    BY <2>1, <2>2, ActAlike, CommandsAlike
  <2>4. WitnessesAgree(Driven(live, clock, senses, rewards), Driven(spare, clock, senses, rewards))
    BY <2>1, <2>2, DrivenAlike, AlikeAgree
  <2> QED
    BY <2>3, <2>4 DEF request
<1> QED
  BY <1>1, Invariance, PTL

(* A backend with other publications standing in it. *)
Bearing(backend, told, advice) ==
  [header |-> backend.header, pools |-> backend.pools,
   mailboxes |-> told, edgeLogits |-> advice,
   teamRewards |-> backend.teamRewards, nextTick |-> backend.nextTick,
   bodyPulses |-> backend.bodyPulses, coachPulses |-> backend.coachPulses,
   learnPasses |-> backend.learnPasses]

(* With its own, it is itself. *)
LEMMA BearsItsOwn ==
  ASSUME NEW backend, Formed(backend)
  PROVE  backend = Bearing(backend, backend.mailboxes, backend.edgeLogits)
<1>1. PICK pools : backend = [Bearing(backend, backend.mailboxes, backend.edgeLogits)
                                EXCEPT !.pools = pools]
  BY DEF Formed, Bearing
<1> QED
  BY <1>1 DEF Bearing

(* A coach pulse rewrites every lane it publishes and reads none of them.  *)
LEMMA CoachesForgetMail ==
  ASSUME NEW backend, NEW request, NEW mail, NEW logits
  PROVE  ActCoaches(Bearing(backend, mail, logits), request)
           = ActCoaches(Bearing(backend, backend.mailboxes, backend.edgeLogits), request)
<1> DEFINE inputs == [team \in Team |-> <<request.senses[team], backend.teamRewards[team]>>]
           coaches == StepPool(backend.pools["coaches"], inputs, CoachTick(request.tick))
           mails == [team \in Team |-> Spoken(coaches.members[team]).mail]
           votes == [team \in Team |-> Spoken(coaches.members[team]).logits]
           acted == [header |-> backend.header,
                     pools |-> [backend.pools EXCEPT !["coaches"] = coaches],
                     mailboxes |-> mails, edgeLogits |-> votes,
                     teamRewards |-> backend.teamRewards, nextTick |-> backend.nextTick,
                     bodyPulses |-> backend.bodyPulses,
                     coachPulses |-> backend.coachPulses + 1,
                     learnPasses |-> backend.learnPasses]
<1>1. ASSUME NEW told, NEW advice
      PROVE  ActCoaches(Bearing(backend, told, advice), request) = acted
  <2> DEFINE bearer == Bearing(backend, told, advice)
  <2>1. bearer.pools = backend.pools /\ bearer.teamRewards = backend.teamRewards
    BY DEF Bearing
  <2> HIDE DEF bearer
  <2>2. ActCoaches(bearer, request) =
          [bearer EXCEPT !.pools["coaches"] = coaches, !.mailboxes = mails,
                         !.edgeLogits = votes, !.coachPulses = @ + 1]
    BY <2>1 DEF ActCoaches
  <2> HIDE DEF coaches, mails, votes
  <2>3. bearer = Bearing(backend, told, advice)
    BY DEF bearer
  <2>4. ActCoaches(bearer, request) = acted
    BY <2>2, <2>3 DEF Bearing
  <2> QED
    BY <2>4 DEF bearer
<1> HIDE DEF acted
<1> QED
  BY <1>1

(* On a tick that pulses coaches no word of the standing publications      *)
(* matters, for every population, learning rule and interval: bodies hear  *)
(* what that tick published and nothing older (ZoomieBackend::act).        *)
THEOREM CoachesAreHeardAtOnce == Spec => []StaleMailIsUnheard
<1>1. IInv => StaleMailIsUnheard
  <2> SUFFICES ASSUME IInv, CoachDue(clock), NEW senses \in Senses
               PROVE  LET request  == [tick |-> clock, senses |-> senses, coachDue |-> TRUE]
                          misfiled == [live EXCEPT !.mailboxes = spare.mailboxes,
                                                   !.edgeLogits = spare.edgeLogits]
                      IN  Act(misfiled, request) = Act(live, request)
    BY DEF StaleMailIsUnheard
  <2> DEFINE request == [tick |-> clock, senses |-> senses, coachDue |-> TRUE]
             misfiled == [live EXCEPT !.mailboxes = spare.mailboxes,
                                      !.edgeLogits = spare.edgeLogits]
  <2>1. Formed(live) /\ request.coachDue
    BY DEF IInv, Faithful
  <2> HIDE DEF request
  <2>2. ActCoaches(misfiled, request) = ActCoaches(live, request)
    <3> DEFINE posted == [live EXCEPT !.mailboxes = spare.mailboxes]
               filed  == [posted EXCEPT !.edgeLogits = spare.edgeLogits]
    <3>1. live = Bearing(live, live.mailboxes, live.edgeLogits)
      BY <2>1, BearsItsOwn
    <3>2. posted = Bearing(live, spare.mailboxes, live.edgeLogits)
      BY <3>1 DEF Bearing
    <3>3. misfiled = filed
      OBVIOUS
    <3> HIDE DEF posted
    <3>4. filed = Bearing(live, spare.mailboxes, spare.edgeLogits)
      BY <3>2 DEF Bearing
    <3> HIDE DEF misfiled, filed
    <3> QED
      BY <3>1, <3>3, <3>4, CoachesForgetMail
  <2> HIDE DEF misfiled
  <2>3. Act(misfiled, request) = ActBodies(ActCoaches(misfiled, request), request)
    BY <2>1 DEF Act
  <2>4. Act(live, request) = ActBodies(ActCoaches(live, request), request)
    BY <2>1 DEF Act
  <2>5. Act(misfiled, request) = Act(live, request)
    BY <2>2, <2>3, <2>4
  <2> QED
    BY <2>5 DEF request, misfiled
<1> QED
  BY <1>1, Invariance, PTL

=============================================================================
