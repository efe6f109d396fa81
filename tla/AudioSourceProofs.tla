------------------------- MODULE AudioSourceProofs -------------------------
(***************************************************************************)
(* Theorems about AudioSource for every capacity, cursor width, packet and *)
(* target: the ring stays intact, no slot is written while it is read, and *)
(* what is played is of the format and the talkspurt that were applied.    *)
(***************************************************************************)
EXTENDS AudioSource, TLAPS

(* What lies in the ring: also what was copied and is not published yet.   *)
Stored == read .. (IF ppc = "publish" THEN write + count ELSE write) - 1

(* How far the cursor may have gone beyond a boundary that still has to be *)
(* applied: not at all right after the consumer looked for one, and at     *)
(* most a ring further with every move it has made since.                  *)
FormatReach ==
    IF cpc \in {"spurt", "cursor", "take"} THEN 0
    ELSE IF cpc \in {"sample", "gauge", "trim"} THEN Capacity ELSE 2 * Capacity
SpurtReach ==
    IF cpc \in {"sample", "gauge", "trim", "take"} THEN 0
    ELSE IF cpc \in {"spurt", "cursor"} THEN 2 * Capacity ELSE Capacity

CursorsInv ==
    /\ read <= write /\ write <= read + Capacity
    /\ reset <= write /\ spurtCursor <= write /\ snapshot <= write
    /\ ppc \in {"copy", "publish"} => write + count <= read + Capacity
    /\ ppc \in {"format generation", "close generation"} => reset = write
    /\ ppc = "spurt" => spurtCursor = write

(* The reach is below a full turn of the cursors, so that Advanced never   *)
(* mistakes a boundary it has passed for one ahead.                        *)
FormatLag ==
    /\ applied <= generation
    /\ cpc \in {"rate", "boundary"} => applied < loaded /\ loaded <= generation
    /\ cpc \in {"rate", "boundary"} /\ loaded # generation => read <= reset
    /\ generation # applied => read <= reset + FormatReach

SpurtLag ==
    /\ seen <= spurt
    /\ cpc = "cursor" => seen < loaded /\ loaded <= spurt
    /\ cpc = "cursor" /\ loaded # spurt => read <= spurtCursor
    /\ spurt # seen => read <= spurtCursor + SpurtReach

(* The frames of the block at hand: once the generations were compared     *)
(* nothing newer is among them.                                            *)
BlockInv ==
    /\ cpc = "generation" /\ after = "take" => read <= snapshot /\ ~cut
    /\ cpc = "spurt" /\ after = "take" /\ ~cut =>
          /\ read <= snapshot
          /\ generation # applied => snapshot <= reset
          /\ \A i \in Taken : FrameAt(i).generation <= applied
    /\ cpc = "take" =>
          /\ after = "take" /\ read <= snapshot
          /\ generation # applied => snapshot <= reset
          /\ spurt # seen => snapshot <= spurtCursor
          /\ \A i \in Taken : FrameAt(i).generation <= applied /\ FrameAt(i).spurt <= seen

FramesInv ==
    \A i \in Stored :
        /\ FrameAt(i).index = i
        /\ FrameAt(i).generation \in applied .. generation
        /\ i >= reset => FrameAt(i).generation = generation
        /\ FrameAt(i).spurt \in seen .. spurt
        /\ i >= spurtCursor => FrameAt(i).spurt = spurt

ControlInv ==
    /\ cpc \in {"generation", "rate", "boundary", "spurt", "cursor"} => after \in {"sample", "take"}
    /\ cpc \in {"trim", "untrim"} => after \in {"decide", "loop"}

AudioInv == AudioTypeOK /\ ControlInv /\ CursorsInv /\ FormatLag /\ SpurtLag /\ BlockInv /\ FramesInv

----------------------------------------------------------------------------
(* Positions and differences of cursors.                                   *)

LEMMA AheadOf ==
    ASSUME NEW a \in Nat, NEW b \in Nat, b <= a, a <= b + Capacity
    PROVE  Ahead(a, b) = a - b
  BY AudioConstants DEF Ahead

LEMMA AheadBehind ==
    ASSUME NEW a \in Nat, NEW b \in Nat, a < b, b <= a + 2 * Capacity
    PROVE  Ahead(a, b) > Capacity
<1>1. (a - b) % Width = a - b + Width
  BY AudioConstants
<1> QED BY <1>1, AudioConstants DEF Ahead

LEMMA SlotIs ==
    ASSUME NEW a \in Nat
    PROVE  Slot(a) \in 0 .. Capacity - 1
  BY AudioConstants DEF Slot

LEMMA SlotSplits ==
    ASSUME NEW a \in Nat
    PROVE  \E q \in Int : a = Capacity * q + Slot(a)
<1>1. a = Capacity * (a \div Capacity) + (a % Capacity) /\ a \div Capacity \in Int
  BY AudioConstants
<1>2. a = Capacity * (a \div Capacity) + Slot(a)
  BY <1>1 DEF Slot
<1> HIDE DEF Slot
<1> DEFINE q == a \div Capacity
<1>3. q \in Int /\ a = Capacity * q + Slot(a)
  BY <1>1, <1>2
<1> HIDE DEF q
<1> QED BY <1>3

LEMMA SlotsDiffer ==
    ASSUME NEW a \in Nat, NEW b \in Nat, a < b, b < a + Capacity
    PROVE  Slot(a) # Slot(b)
<1>1. PICK p \in Int : a = Capacity * p + Slot(a)
  BY SlotSplits
<1>2. PICK q \in Int : b = Capacity * q + Slot(b)
  BY SlotSplits
<1>3. SUFFICES ASSUME Slot(a) = Slot(b) PROVE FALSE
  OBVIOUS
<1>4. Capacity * (q - p) = b - a
  BY <1>1, <1>2, <1>3, SlotIs, AudioConstants
<1>5. CASE q - p >= 1
  <2>1. Capacity * (q - p) >= Capacity
    BY <1>1, <1>2, <1>5, AudioConstants
  <2> QED BY <2>1, <1>4, AudioConstants
<1>6. CASE q - p <= 0
  <2>1. Capacity * (q - p) <= 0
    BY <1>1, <1>2, <1>6, AudioConstants
  <2> QED BY <2>1, <1>4
<1> QED BY <1>1, <1>2, <1>5, <1>6

----------------------------------------------------------------------------
(* The quantities the steps look at.                                       *)

LEMMA Cursors ==
    ASSUME AudioInv
    PROVE  /\ Queue = write - read /\ Queue \in 0 .. Capacity
           /\ Free = Capacity - Queue
<1>1. read \in Nat /\ write \in Nat /\ read <= write /\ write <= read + Capacity
  BY DEF AudioInv, AudioTypeOK, CursorsInv
<1>2. Queue = write - read
  BY <1>1, AheadOf DEF Queue
<1> QED BY <1>1, <1>2, AudioConstants DEF Free

LEMMA FormatBoundary ==
    ASSUME AudioInv, cpc = "boundary"
    PROVE  Advanced(reset) = IF read <= reset THEN reset ELSE read
<1>1. read \in Nat /\ write \in Nat /\ reset \in Nat /\ reset <= write /\ write <= read + Capacity
  BY DEF AudioInv, AudioTypeOK, CursorsInv
<1>2. CASE read <= reset
  <2>1. Ahead(reset, read) = reset - read /\ reset - read <= Capacity
    BY <1>1, <1>2, AheadOf, AudioConstants
  <2> QED BY <2>1, <1>2 DEF Advanced
<1>3. CASE reset < read
  <2>1. read <= reset + 2 * Capacity
    <3>1. applied \in Nat /\ generation \in Nat /\ loaded \in Nat
      BY DEF AudioInv, AudioTypeOK
    <3>2. applied < loaded /\ loaded <= generation
      BY DEF AudioInv, FormatLag
    <3>3. FormatReach = 2 * Capacity
      BY DEF FormatReach
    <3> QED BY <3>1, <3>2, <3>3 DEF AudioInv, FormatLag
  <2>2. Ahead(reset, read) > Capacity
    BY <1>1, <1>3, <2>1, AheadBehind
  <2>3. ~(Ahead(reset, read) <= Capacity)
    BY <1>1, <2>2, AudioConstants DEF Ahead
  <2> QED BY <1>1, <1>3, <2>3 DEF Advanced
<1> QED BY <1>1, <1>2, <1>3

LEMMA SpurtBoundary ==
    ASSUME AudioInv, cpc = "cursor"
    PROVE  Advanced(spurtCursor) = IF read <= spurtCursor THEN spurtCursor ELSE read
<1>1. /\ read \in Nat /\ write \in Nat /\ spurtCursor \in Nat
      /\ spurtCursor <= write /\ write <= read + Capacity
  BY DEF AudioInv, AudioTypeOK, CursorsInv
<1>2. CASE read <= spurtCursor
  <2>1. Ahead(spurtCursor, read) = spurtCursor - read /\ spurtCursor - read <= Capacity
    BY <1>1, <1>2, AheadOf, AudioConstants
  <2> QED BY <2>1, <1>2 DEF Advanced
<1>3. CASE spurtCursor < read
  <2>1. read <= spurtCursor + 2 * Capacity
    <3>1. seen \in Nat /\ spurt \in Nat /\ loaded \in Nat
      BY DEF AudioInv, AudioTypeOK
    <3>2. seen < loaded /\ loaded <= spurt
      BY DEF AudioInv, SpurtLag
    <3>3. SpurtReach = 2 * Capacity
      BY DEF SpurtReach
    <3> QED BY <3>1, <3>2, <3>3 DEF AudioInv, SpurtLag
  <2>2. Ahead(spurtCursor, read) > Capacity
    BY <1>1, <1>3, <2>1, AheadBehind
  <2>3. ~(Ahead(spurtCursor, read) <= Capacity)
    BY <1>1, <2>2, AudioConstants DEF Ahead
  <2> QED BY <1>1, <1>3, <2>3 DEF Advanced
<1> QED BY <1>1, <1>2, <1>3

LEMMA TakenIs ==
    ASSUME AudioInv, cpc = "take"
    PROVE  /\ Available = snapshot - read /\ Available \in 0 .. Capacity
           /\ Contiguous <= Available
<1>1. /\ read \in Nat /\ snapshot \in Nat /\ write \in Nat
      /\ read <= snapshot /\ snapshot <= write /\ write <= read + Capacity
  BY DEF AudioInv, AudioTypeOK, CursorsInv, BlockInv
<1>2. Available = snapshot - read /\ Available \in 0 .. Capacity
  BY <1>1, AheadOf, AudioConstants DEF Available
<1> QED BY <1>1, <1>2, SlotIs, AudioConstants DEF Contiguous

----------------------------------------------------------------------------
(* What a step does to the cursors.                                        *)

LEMMA ReadMoves ==
    ASSUME AudioInv, Consumer
    PROVE  /\ read' \in Nat /\ read <= read' /\ read' <= write
           /\ UNCHANGED <<write, ring, generation, pending, reset, spurt, spurtCursor, ppc, arrived, count>>
           /\ snapshot' = snapshot \/ snapshot' = write
<1>0. /\ read \in Nat /\ write \in Nat /\ reset \in Nat /\ spurtCursor \in Nat /\ snapshot \in Nat
      /\ read <= write /\ reset <= write /\ spurtCursor <= write /\ snapshot <= write
      /\ target \in Nat /\ Kept \in Nat
  BY AudioConstants DEF AudioInv, AudioTypeOK, CursorsInv
<1>1. CASE ReadBegin
  BY <1>0, <1>1 DEF ReadBegin, shared, producer, consumer, time
<1>2. CASE LoadGeneration
  BY <1>0, <1>2 DEF LoadGeneration, shared, producer, consumer, time
<1>3. CASE LoadRate
  BY <1>0, <1>3 DEF LoadRate, shared, producer, consumer, time
<1>4. CASE ApplyGeneration
  BY <1>0, <1>4, FormatBoundary DEF ApplyGeneration, producer
<1>5. CASE LoadSpurt
  BY <1>0, <1>5 DEF LoadSpurt, shared, producer, consumer, time
<1>6. CASE ApplySpurt
  BY <1>0, <1>6, SpurtBoundary DEF ApplySpurt, producer
<1>7. CASE Sample
  BY <1>0, <1>7 DEF Sample, shared, producer, consumer, time
<1>8. CASE Gauge
  BY <1>0, <1>8 DEF Gauge, shared, producer, consumer, time
<1>9. CASE Trim
  BY <1>0, <1>9, Cursors DEF Trim, producer
<1>10. CASE Untrim
  BY <1>0, <1>10 DEF Untrim, shared, producer, consumer, time
<1>11. CASE Decide
  BY <1>0, <1>11 DEF Decide, shared, producer, consumer, time
<1>12. CASE NextFrames
  BY <1>0, <1>12 DEF NextFrames, shared, producer, consumer, time
<1>13. CASE Take
  <2>1. /\ Available = snapshot - read /\ Contiguous <= Available /\ cpc = "take"
        /\ \/ read' = read
           \/ \E n \in 1 .. Contiguous : read' = read + n
        /\ UNCHANGED <<write, ring, generation, pending, reset, spurt, spurtCursor, ppc, arrived, count, snapshot>>
    BY <1>13, TakenIs DEF Take, producer
  <2>2. Contiguous \in Int
    BY <1>0, <2>1, SlotIs, AudioConstants DEF Contiguous
  <2> QED BY <1>0, <2>1, <2>2
<1>14. CASE ReadEnd
  BY <1>0, <1>14 DEF ReadEnd, shared, producer, consumer, time
<1> QED BY <1>1, <1>2, <1>3, <1>4, <1>5, <1>6, <1>7, <1>8, <1>9, <1>10, <1>11, <1>12, <1>13, <1>14 DEF Consumer

----------------------------------------------------------------------------
(* Every step keeps the types and the places a shared step returns to.     *)

CountersOK ==
    /\ read \in Nat /\ write \in Nat /\ reset \in Nat /\ spurtCursor \in Nat /\ snapshot \in Nat
    /\ generation \in Nat /\ pending \in Nat /\ spurt \in Nat
    /\ applied \in Nat /\ rate \in Nat /\ seen \in Nat /\ loaded \in Nat
    /\ target \in Targets /\ count \in 0 .. Packet
FlagsOK ==
    {open, trim, arrived, live, fading, cut, dry, quiet, stampOld, stampAfter, clockAfter}
           \subseteq BOOLEAN
RingOK == ring \in [0 .. Capacity - 1 -> Frames]
StepsOK ==
    /\ ppc \in {"idle", "format boundary", "format generation", "open", "close boundary",
                "close generation", "spurt", "room", "copy", "publish", "stamp"}
    /\ cpc \in {"rest", "generation", "rate", "boundary", "spurt", "cursor", "sample", "gauge",
                "trim", "untrim", "decide", "loop", "take", "end"}
    /\ after \in {"sample", "take", "decide", "loop"}

LEMMA Typed == AudioTypeOK <=> CountersOK /\ FlagsOK /\ RingOK /\ StepsOK
  BY DEF AudioTypeOK, CountersOK, FlagsOK, RingOK, StepsOK

LEMMA CountersStep ==
    ASSUME AudioInv, AudioNext
    PROVE  CountersOK'
<1>0. CountersOK /\ InitialTarget \in Targets /\ Packet \in Nat /\ Free \in Nat
  BY Typed, Cursors, AudioConstants DEF AudioInv
<1>1. CASE SetFormat
  <2>1. /\ pending' = generation + 1 /\ target' = InitialTarget
        /\ UNCHANGED <<read, write, generation, reset, spurt, spurtCursor, count, consumer>>
    BY <1>1 DEF SetFormat
  <2> QED BY <1>0, <2>1 DEF CountersOK, consumer
<1>2. CASE CloseSource
  BY <1>0, <1>2 DEF CloseSource, CountersOK, shared, producer, consumer, time
<1>3. CASE StoreBoundary
  BY <1>0, <1>3 DEF StoreBoundary, CountersOK, shared, producer, consumer, time
<1>4. CASE NextGeneration
  <2>1. /\ generation' = generation + 1
        /\ UNCHANGED <<read, write, pending, reset, spurt, spurtCursor, target, count, consumer>>
    BY <1>4 DEF NextGeneration
  <2> QED BY <1>0, <2>1 DEF CountersOK, consumer
<1>5. CASE OpenSource
  BY <1>0, <1>5 DEF OpenSource, CountersOK, shared, producer, consumer, time
<1>6. CASE PushBegin
  BY <1>0, <1>6 DEF PushBegin, CountersOK, shared, producer, consumer, time
<1>7. CASE NextSpurt
  BY <1>0, <1>7 DEF NextSpurt, CountersOK, shared, producer, consumer, time
<1>8. CASE Fit
  BY <1>0, <1>8 DEF Fit, CountersOK, shared, producer, consumer, time
<1>9. CASE Copy
  BY <1>0, <1>9 DEF Copy, CountersOK, shared, producer, consumer, time
<1>10. CASE Publish
  BY <1>0, <1>10 DEF Publish, CountersOK, shared, producer, consumer, time
<1>11. CASE Stamp
  BY <1>0, <1>11 DEF Stamp, CountersOK, shared, producer, consumer, time
<1>12. CASE ReadBegin
  BY <1>0, <1>12 DEF ReadBegin, CountersOK, shared, producer, consumer, time
<1>13. CASE LoadGeneration
  BY <1>0, <1>13 DEF LoadGeneration, CountersOK, shared, producer, consumer, time
<1>14. CASE LoadRate
  BY <1>0, <1>14 DEF LoadRate, CountersOK, shared, producer, consumer, time
<1>15. CASE ApplyGeneration
  BY <1>0, <1>15, ReadMoves DEF ApplyGeneration, Consumer, CountersOK, shared, producer, consumer, time
<1>16. CASE LoadSpurt
  BY <1>0, <1>16 DEF LoadSpurt, CountersOK, shared, producer, consumer, time
<1>17. CASE ApplySpurt
  BY <1>0, <1>17, ReadMoves DEF ApplySpurt, Consumer, CountersOK, shared, producer, consumer, time
<1>18. CASE Sample
  BY <1>0, <1>18, ReadMoves DEF Sample, Consumer, CountersOK, shared, producer, consumer, time
<1>19. CASE Gauge
  BY <1>0, <1>19 DEF Gauge, CountersOK, shared, producer, consumer, time
<1>20. CASE Trim
  BY <1>0, <1>20, ReadMoves DEF Trim, Consumer, CountersOK, shared, producer, consumer, time
<1>21. CASE Untrim
  BY <1>0, <1>21 DEF Untrim, CountersOK, shared, producer, consumer, time
<1>22. CASE Decide
  BY <1>0, <1>22 DEF Decide, CountersOK, shared, producer, consumer, time
<1>23. CASE NextFrames
  BY <1>0, <1>23 DEF NextFrames, CountersOK, shared, producer, consumer, time
<1>24. CASE Take
  BY <1>0, <1>24, ReadMoves DEF Take, Consumer, CountersOK, shared, producer, consumer, time
<1>25. CASE ReadEnd
  BY <1>0, <1>25 DEF ReadEnd, CountersOK, shared, producer, consumer, time
<1>26. CASE Elapse
  BY <1>0, <1>26 DEF Elapse, CountersOK, shared, producer, consumer, time
<1> QED
  BY <1>1, <1>2, <1>3, <1>4, <1>5, <1>6, <1>7, <1>8, <1>9, <1>10, <1>11, <1>12, <1>13, <1>14, <1>15, <1>16, <1>17, <1>18, <1>19, <1>20, <1>21, <1>22, <1>23, <1>24, <1>25, <1>26
  DEF AudioNext, Producer, Pushing, Consumer

LEMMA FlagsStep ==
    ASSUME AudioInv, AudioNext
    PROVE  FlagsOK'
<1>0. FlagsOK
  BY Typed DEF AudioInv
<1>1. CASE SetFormat
  BY <1>0, <1>1 DEF SetFormat, FlagsOK, Discontinue, shared, producer, consumer, time
<1>2. CASE CloseSource
  BY <1>0, <1>2 DEF CloseSource, FlagsOK, Discontinue, shared, producer, consumer, time
<1>3. CASE StoreBoundary
  BY <1>0, <1>3 DEF StoreBoundary, FlagsOK, Discontinue, shared, producer, consumer, time
<1>4. CASE NextGeneration
  BY <1>0, <1>4 DEF NextGeneration, FlagsOK, Discontinue, shared, producer, consumer, time
<1>5. CASE OpenSource
  BY <1>0, <1>5 DEF OpenSource, FlagsOK, Discontinue, shared, producer, consumer, time
<1>6. CASE PushBegin
  BY <1>0, <1>6 DEF PushBegin, FlagsOK, Discontinue, shared, producer, consumer, time
<1>7. CASE NextSpurt
  BY <1>0, <1>7 DEF NextSpurt, FlagsOK, Discontinue, shared, producer, consumer, time
<1>8. CASE Fit
  BY <1>0, <1>8 DEF Fit, FlagsOK, Discontinue, shared, producer, consumer, time
<1>9. CASE Copy
  BY <1>0, <1>9 DEF Copy, FlagsOK, Discontinue, shared, producer, consumer, time
<1>10. CASE Publish
  BY <1>0, <1>10 DEF Publish, FlagsOK, Discontinue, shared, producer, consumer, time
<1>11. CASE Stamp
  BY <1>0, <1>11 DEF Stamp, FlagsOK, Discontinue, shared, producer, consumer, time
<1>12. CASE ReadBegin
  BY <1>0, <1>12 DEF ReadBegin, FlagsOK, Discontinue, shared, producer, consumer, time
<1>13. CASE LoadGeneration
  BY <1>0, <1>13 DEF LoadGeneration, FlagsOK, Discontinue, shared, producer, consumer, time
<1>14. CASE LoadRate
  BY <1>0, <1>14 DEF LoadRate, FlagsOK, Discontinue, shared, producer, consumer, time
<1>15. CASE ApplyGeneration
  BY <1>0, <1>15 DEF ApplyGeneration, FlagsOK, Discontinue, shared, producer, consumer, time
<1>16. CASE LoadSpurt
  BY <1>0, <1>16 DEF LoadSpurt, FlagsOK, Discontinue, shared, producer, consumer, time
<1>17. CASE ApplySpurt
  BY <1>0, <1>17 DEF ApplySpurt, FlagsOK, Discontinue, shared, producer, consumer, time
<1>18. CASE Sample
  BY <1>0, <1>18 DEF Sample, FlagsOK, Discontinue, shared, producer, consumer, time
<1>19. CASE Gauge
  BY <1>0, <1>19 DEF Gauge, FlagsOK, Discontinue, shared, producer, consumer, time
<1>20. CASE Trim
  BY <1>0, <1>20 DEF Trim, FlagsOK, Discontinue, shared, producer, consumer, time
<1>21. CASE Untrim
  BY <1>0, <1>21 DEF Untrim, FlagsOK, Discontinue, shared, producer, consumer, time
<1>22. CASE Decide
  BY <1>0, <1>22 DEF Decide, FlagsOK, Discontinue, shared, producer, consumer, time
<1>23. CASE NextFrames
  BY <1>0, <1>23 DEF NextFrames, FlagsOK, Discontinue, shared, producer, consumer, time
<1>24. CASE Take
  BY <1>0, <1>24 DEF Take, FlagsOK, Discontinue, shared, producer, consumer, time
<1>25. CASE ReadEnd
  BY <1>0, <1>25 DEF ReadEnd, FlagsOK, Discontinue, shared, producer, consumer, time
<1>26. CASE Elapse
  BY <1>0, <1>26 DEF Elapse, FlagsOK, Discontinue, shared, producer, consumer, time
<1> QED
  BY <1>1, <1>2, <1>3, <1>4, <1>5, <1>6, <1>7, <1>8, <1>9, <1>10, <1>11, <1>12, <1>13, <1>14, <1>15, <1>16, <1>17, <1>18, <1>19, <1>20, <1>21, <1>22, <1>23, <1>24, <1>25, <1>26
  DEF AudioNext, Producer, Pushing, Consumer

LEMMA StepsStep ==
    ASSUME AudioInv, AudioNext
    PROVE  StepsOK'
<1>0. StepsOK /\ ControlInv
  BY Typed DEF AudioInv
<1>1. CASE SetFormat
  BY <1>0, <1>1 DEF SetFormat, StepsOK, ControlInv, Onward, SegmentEnd, shared, producer, consumer, time
<1>2. CASE CloseSource
  BY <1>0, <1>2 DEF CloseSource, StepsOK, ControlInv, Onward, SegmentEnd, shared, producer, consumer, time
<1>3. CASE StoreBoundary
  BY <1>0, <1>3 DEF StoreBoundary, StepsOK, ControlInv, Onward, SegmentEnd, shared, producer, consumer, time
<1>4. CASE NextGeneration
  BY <1>0, <1>4 DEF NextGeneration, StepsOK, ControlInv, Onward, SegmentEnd, shared, producer, consumer, time
<1>5. CASE OpenSource
  BY <1>0, <1>5 DEF OpenSource, StepsOK, ControlInv, Onward, SegmentEnd, shared, producer, consumer, time
<1>6. CASE PushBegin
  BY <1>0, <1>6 DEF PushBegin, StepsOK, ControlInv, Onward, SegmentEnd, shared, producer, consumer, time
<1>7. CASE NextSpurt
  BY <1>0, <1>7 DEF NextSpurt, StepsOK, ControlInv, Onward, SegmentEnd, shared, producer, consumer, time
<1>8. CASE Fit
  BY <1>0, <1>8 DEF Fit, StepsOK, ControlInv, Onward, SegmentEnd, shared, producer, consumer, time
<1>9. CASE Copy
  BY <1>0, <1>9 DEF Copy, StepsOK, ControlInv, Onward, SegmentEnd, shared, producer, consumer, time
<1>10. CASE Publish
  BY <1>0, <1>10 DEF Publish, StepsOK, ControlInv, Onward, SegmentEnd, shared, producer, consumer, time
<1>11. CASE Stamp
  BY <1>0, <1>11 DEF Stamp, StepsOK, ControlInv, Onward, SegmentEnd, shared, producer, consumer, time
<1>12. CASE ReadBegin
  BY <1>0, <1>12 DEF ReadBegin, StepsOK, ControlInv, Onward, SegmentEnd, shared, producer, consumer, time
<1>13. CASE LoadGeneration
  BY <1>0, <1>13 DEF LoadGeneration, StepsOK, ControlInv, Onward, SegmentEnd, shared, producer, consumer, time
<1>14. CASE LoadRate
  BY <1>0, <1>14 DEF LoadRate, StepsOK, ControlInv, Onward, SegmentEnd, shared, producer, consumer, time
<1>15. CASE ApplyGeneration
  BY <1>0, <1>15 DEF ApplyGeneration, StepsOK, ControlInv, Onward, SegmentEnd, shared, producer, consumer, time
<1>16. CASE LoadSpurt
  BY <1>0, <1>16 DEF LoadSpurt, StepsOK, ControlInv, Onward, SegmentEnd, shared, producer, consumer, time
<1>17. CASE ApplySpurt
  BY <1>0, <1>17 DEF ApplySpurt, StepsOK, ControlInv, Onward, SegmentEnd, shared, producer, consumer, time
<1>18. CASE Sample
  BY <1>0, <1>18 DEF Sample, StepsOK, ControlInv, Onward, SegmentEnd, shared, producer, consumer, time
<1>19. CASE Gauge
  BY <1>0, <1>19 DEF Gauge, StepsOK, ControlInv, Onward, SegmentEnd, shared, producer, consumer, time
<1>20. CASE Trim
  BY <1>0, <1>20 DEF Trim, StepsOK, ControlInv, Onward, SegmentEnd, shared, producer, consumer, time
<1>21. CASE Untrim
  BY <1>0, <1>21 DEF Untrim, StepsOK, ControlInv, Onward, SegmentEnd, shared, producer, consumer, time
<1>22. CASE Decide
  BY <1>0, <1>22 DEF Decide, StepsOK, ControlInv, Onward, SegmentEnd, shared, producer, consumer, time
<1>23. CASE NextFrames
  BY <1>0, <1>23 DEF NextFrames, StepsOK, ControlInv, Onward, SegmentEnd, shared, producer, consumer, time
<1>24. CASE Take
  BY <1>0, <1>24 DEF Take, StepsOK, ControlInv, Onward, SegmentEnd, shared, producer, consumer, time
<1>25. CASE ReadEnd
  BY <1>0, <1>25 DEF ReadEnd, StepsOK, ControlInv, Onward, SegmentEnd, shared, producer, consumer, time
<1>26. CASE Elapse
  BY <1>0, <1>26 DEF Elapse, StepsOK, ControlInv, Onward, SegmentEnd, shared, producer, consumer, time
<1> QED
  BY <1>1, <1>2, <1>3, <1>4, <1>5, <1>6, <1>7, <1>8, <1>9, <1>10, <1>11, <1>12, <1>13, <1>14, <1>15, <1>16, <1>17, <1>18, <1>19, <1>20, <1>21, <1>22, <1>23, <1>24, <1>25, <1>26
  DEF AudioNext, Producer, Pushing, Consumer

LEMMA ControlStep ==
    ASSUME AudioInv, AudioNext
    PROVE  ControlInv'
<1>0. ControlInv /\ StepsOK
  BY Typed DEF AudioInv
<1>1. CASE SetFormat
  BY <1>0, <1>1 DEF SetFormat, ControlInv, StepsOK, Onward, SegmentEnd, shared, producer, consumer, time
<1>2. CASE CloseSource
  BY <1>0, <1>2 DEF CloseSource, ControlInv, StepsOK, Onward, SegmentEnd, shared, producer, consumer, time
<1>3. CASE StoreBoundary
  BY <1>0, <1>3 DEF StoreBoundary, ControlInv, StepsOK, Onward, SegmentEnd, shared, producer, consumer, time
<1>4. CASE NextGeneration
  BY <1>0, <1>4 DEF NextGeneration, ControlInv, StepsOK, Onward, SegmentEnd, shared, producer, consumer, time
<1>5. CASE OpenSource
  BY <1>0, <1>5 DEF OpenSource, ControlInv, StepsOK, Onward, SegmentEnd, shared, producer, consumer, time
<1>6. CASE PushBegin
  BY <1>0, <1>6 DEF PushBegin, ControlInv, StepsOK, Onward, SegmentEnd, shared, producer, consumer, time
<1>7. CASE NextSpurt
  BY <1>0, <1>7 DEF NextSpurt, ControlInv, StepsOK, Onward, SegmentEnd, shared, producer, consumer, time
<1>8. CASE Fit
  BY <1>0, <1>8 DEF Fit, ControlInv, StepsOK, Onward, SegmentEnd, shared, producer, consumer, time
<1>9. CASE Copy
  BY <1>0, <1>9 DEF Copy, ControlInv, StepsOK, Onward, SegmentEnd, shared, producer, consumer, time
<1>10. CASE Publish
  BY <1>0, <1>10 DEF Publish, ControlInv, StepsOK, Onward, SegmentEnd, shared, producer, consumer, time
<1>11. CASE Stamp
  BY <1>0, <1>11 DEF Stamp, ControlInv, StepsOK, Onward, SegmentEnd, shared, producer, consumer, time
<1>12. CASE ReadBegin
  BY <1>0, <1>12 DEF ReadBegin, ControlInv, StepsOK, Onward, SegmentEnd, shared, producer, consumer, time
<1>13. CASE LoadGeneration
  BY <1>0, <1>13 DEF LoadGeneration, ControlInv, StepsOK, Onward, SegmentEnd, shared, producer, consumer, time
<1>14. CASE LoadRate
  BY <1>0, <1>14 DEF LoadRate, ControlInv, StepsOK, Onward, SegmentEnd, shared, producer, consumer, time
<1>15. CASE ApplyGeneration
  BY <1>0, <1>15 DEF ApplyGeneration, ControlInv, StepsOK, Onward, SegmentEnd, shared, producer, consumer, time
<1>16. CASE LoadSpurt
  BY <1>0, <1>16 DEF LoadSpurt, ControlInv, StepsOK, Onward, SegmentEnd, shared, producer, consumer, time
<1>17. CASE ApplySpurt
  BY <1>0, <1>17 DEF ApplySpurt, ControlInv, StepsOK, Onward, SegmentEnd, shared, producer, consumer, time
<1>18. CASE Sample
  BY <1>0, <1>18 DEF Sample, ControlInv, StepsOK, Onward, SegmentEnd, shared, producer, consumer, time
<1>19. CASE Gauge
  BY <1>0, <1>19 DEF Gauge, ControlInv, StepsOK, Onward, SegmentEnd, shared, producer, consumer, time
<1>20. CASE Trim
  BY <1>0, <1>20 DEF Trim, ControlInv, StepsOK, Onward, SegmentEnd, shared, producer, consumer, time
<1>21. CASE Untrim
  BY <1>0, <1>21 DEF Untrim, ControlInv, StepsOK, Onward, SegmentEnd, shared, producer, consumer, time
<1>22. CASE Decide
  BY <1>0, <1>22 DEF Decide, ControlInv, StepsOK, Onward, SegmentEnd, shared, producer, consumer, time
<1>23. CASE NextFrames
  BY <1>0, <1>23 DEF NextFrames, ControlInv, StepsOK, Onward, SegmentEnd, shared, producer, consumer, time
<1>24. CASE Take
  BY <1>0, <1>24 DEF Take, ControlInv, StepsOK, Onward, SegmentEnd, shared, producer, consumer, time
<1>25. CASE ReadEnd
  BY <1>0, <1>25 DEF ReadEnd, ControlInv, StepsOK, Onward, SegmentEnd, shared, producer, consumer, time
<1>26. CASE Elapse
  BY <1>0, <1>26 DEF Elapse, ControlInv, StepsOK, Onward, SegmentEnd, shared, producer, consumer, time
<1> QED
  BY <1>1, <1>2, <1>3, <1>4, <1>5, <1>6, <1>7, <1>8, <1>9, <1>10, <1>11, <1>12, <1>13, <1>14, <1>15, <1>16, <1>17, <1>18, <1>19, <1>20, <1>21, <1>22, <1>23, <1>24, <1>25, <1>26
  DEF AudioNext, Producer, Pushing, Consumer

----------------------------------------------------------------------------
(* A copy fills slots of its own.                                          *)

LEMMA Copied ==
    ASSUME AudioInv, Copy
    PROVE  /\ RingOK'
           /\ \A i \in read .. write - 1 : ring'[Slot(i)] = ring[Slot(i)]
           /\ \A i \in Incoming :
                 ring'[Slot(i)] = [index |-> i, generation |-> generation,
                                   format |-> pending, spurt |-> spurt]
<1> DEFINE frame(i) == [index |-> i, generation |-> generation, format |-> pending, spurt |-> spurt]
           taken(s) == \E i \in Incoming : Slot(i) = s
           from(s) == CHOOSE i \in Incoming : Slot(i) = s
<1>1. /\ read \in Nat /\ write \in Nat /\ count \in Nat /\ read <= write /\ RingOK
      /\ generation \in Nat /\ pending \in Nat /\ spurt \in Nat
      /\ write + count <= read + Capacity
  BY Typed, AudioConstants DEF AudioInv, CountersOK, CursorsInv, Copy
<1>2. ring' = [s \in 0 .. Capacity - 1 |->
                  IF taken(s) THEN [index |-> from(s), generation |-> generation,
                                    format |-> pending, spurt |-> spurt]
                  ELSE ring[s]]
  BY DEF Copy
<1>3. \A i \in Incoming : i \in Nat /\ write <= i /\ i < write + count
  BY <1>1 DEF Incoming
<1>4. \A s : taken(s) => from(s) \in Incoming /\ Slot(from(s)) = s
  OBVIOUS
<1>5. RingOK'
  <2>1. ASSUME NEW s \in 0 .. Capacity - 1, taken(s)
        PROVE  [index |-> from(s), generation |-> generation,
                format |-> pending, spurt |-> spurt] \in Frames
    BY <2>1, <1>1, <1>3, <1>4 DEF Frames
  <2>2. ASSUME NEW s \in 0 .. Capacity - 1
        PROVE  ring[s] \in Frames
    BY <1>1, <2>2 DEF RingOK
  <2> HIDE DEF taken, from
  <2> QED BY <1>2, <2>1, <2>2 DEF RingOK
<1>6. ASSUME NEW i \in read .. write - 1 PROVE ring'[Slot(i)] = ring[Slot(i)]
  <2>1. i \in Nat /\ read <= i /\ i < write /\ Slot(i) \in 0 .. Capacity - 1
    BY <1>1, <1>6, SlotIs
  <2>2. ASSUME NEW j \in Incoming PROVE Slot(j) # Slot(i)
    <3>1. j \in Nat /\ i < j /\ j < i + Capacity
      BY <1>1, <1>3, <2>1, <2>2, AudioConstants
    <3> QED BY <2>1, <3>1, SlotsDiffer
  <2>3. ~taken(Slot(i))
    BY <2>2
  <2> QED BY <1>2, <2>1, <2>3
<1>7. ASSUME NEW i \in Incoming PROVE ring'[Slot(i)] = frame(i)
  <2>1. i \in Nat /\ Slot(i) \in 0 .. Capacity - 1
    BY <1>3, <1>7, SlotIs
  <2>2. taken(Slot(i))
    BY <1>7
  <2>3. ASSUME NEW j \in Incoming, Slot(j) = Slot(i) PROVE j = i
    <3>1. j \in Nat /\ i \in Nat /\ i < j + Capacity /\ j < i + Capacity
      BY <1>1, <1>3, <1>7, <2>3, AudioConstants
    <3> QED BY <2>3, <3>1, SlotsDiffer
  <2>4. from(Slot(i)) = i
    BY <1>4, <2>2, <2>3
  <2> HIDE DEF taken, from
  <2> QED BY <1>2, <2>1, <2>2, <2>4
<1> QED BY <1>5, <1>6, <1>7

LEMMA RingStep ==
    ASSUME AudioInv, AudioNext
    PROVE  RingOK'
<1>1. RingOK
  BY Typed DEF AudioInv
<1>2. ASSUME Copy PROVE RingOK'
  BY <1>2, Copied
<1>3. ASSUME Consumer PROVE RingOK'
  BY <1>1, <1>3, ReadMoves DEF RingOK
<1>4. ASSUME UNCHANGED ring PROVE RingOK'
  BY <1>1, <1>4 DEF RingOK
<1>5. ASSUME AudioNext, ~Copy, ~Consumer PROVE UNCHANGED ring
  BY <1>5 DEF AudioNext, Producer, Pushing, SetFormat, CloseSource, StoreBoundary, NextGeneration,
     OpenSource, PushBegin, NextSpurt, Fit, Publish, Stamp, Elapse, shared
<1> QED BY <1>2, <1>3, <1>4, <1>5

LEMMA TypeStep ==
    ASSUME AudioInv, AudioNext
    PROVE  AudioTypeOK'
<1>1. CountersOK' /\ FlagsOK' /\ RingOK' /\ StepsOK'
  BY CountersStep, FlagsStep, RingStep, StepsStep
<1> QED BY <1>1 DEF AudioTypeOK, CountersOK, FlagsOK, RingOK, StepsOK

----------------------------------------------------------------------------
(* The cursors, the boundaries and the frames.                             *)

(* The counters are numbers before and after a step.                       *)
NaturalsOK ==
    /\ read \in Nat /\ write \in Nat /\ reset \in Nat /\ spurtCursor \in Nat /\ snapshot \in Nat
    /\ generation \in Nat /\ pending \in Nat /\ spurt \in Nat
    /\ applied \in Nat /\ seen \in Nat /\ loaded \in Nat /\ count \in Nat

LEMMA CountedNumbers ==
    ASSUME CountersOK
    PROVE  NaturalsOK
<1>1. count \in Nat
  BY AudioConstants DEF CountersOK
<1> QED BY <1>1 DEF CountersOK, NaturalsOK

LEMMA Numbers ==
    ASSUME AudioInv
    PROVE  NaturalsOK
  BY CountedNumbers, Typed DEF AudioInv

LEMMA NumbersStep ==
    ASSUME AudioInv, AudioNext
    PROVE  NaturalsOK'
<1>1. CountersOK'
  BY CountersStep
<1>2. Packet \in Nat
  BY AudioConstants
<1>3. count' \in Nat
  BY <1>1, <1>2 DEF CountersOK
<1> QED BY <1>1, <1>3 DEF CountersOK, NaturalsOK

(* Of the cursors, first their order and then what the producer's step says.*)
Ordered ==
    /\ read <= write /\ write <= read + Capacity
    /\ reset <= write /\ spurtCursor <= write /\ snapshot <= write

LEMMA OrderedStep ==
    ASSUME AudioInv, AudioNext
    PROVE  Ordered'
<1>0. Ordered /\ NaturalsOK /\ NaturalsOK' /\ Capacity \in Nat
  BY Numbers, NumbersStep, AudioConstants DEF AudioInv, CursorsInv, Ordered
<1>1. CASE Publish
  <2>1. write' = write + count /\ UNCHANGED <<read, reset, spurtCursor, snapshot>>
    BY <1>1 DEF Publish, consumer
  <2>2. write + count <= read + Capacity
    BY <1>1 DEF Publish, AudioInv, CursorsInv
  <2> QED BY <1>0, <2>1, <2>2 DEF Ordered, NaturalsOK
<1>2. CASE Consumer
  <2>1. PICK r \in Nat : read' = r /\ read <= r /\ r <= write
    BY <1>2, ReadMoves
  <2>2. /\ snapshot' = snapshot \/ snapshot' = write
        /\ UNCHANGED <<write, reset, spurtCursor>>
    BY <1>2, ReadMoves
  <2> QED BY <1>0, <2>1, <2>2 DEF Ordered, NaturalsOK
<1>3. CASE StoreBoundary
  <2>1. reset' = write /\ UNCHANGED <<read, write, spurtCursor, snapshot>>
    BY <1>3 DEF StoreBoundary, consumer
  <2> QED BY <1>0, <2>1 DEF Ordered, NaturalsOK
<1>4. CASE PushBegin
  <2>1. /\ spurtCursor' = write \/ spurtCursor' = spurtCursor
        /\ UNCHANGED <<read, write, reset, snapshot>>
    BY <1>4 DEF PushBegin, consumer
  <2> QED BY <1>0, <2>1 DEF Ordered, NaturalsOK
<1>5. ASSUME AudioNext, ~Publish, ~Consumer, ~StoreBoundary, ~PushBegin
      PROVE  UNCHANGED <<read, write, reset, spurtCursor, snapshot>>
  BY <1>5 DEF AudioNext, Producer, Pushing, SetFormat, CloseSource, NextGeneration, OpenSource,
     NextSpurt, Fit, Copy, Stamp, Elapse, shared, consumer
<1>6. ASSUME UNCHANGED <<read, write, reset, spurtCursor, snapshot>> PROVE Ordered'
  BY <1>0, <1>6 DEF Ordered, NaturalsOK
<1> QED BY <1>1, <1>2, <1>3, <1>4, <1>5, <1>6

LEMMA CursorsStep ==
    ASSUME AudioInv, AudioNext
    PROVE  CursorsInv'
<1>0. CursorsInv /\ NaturalsOK /\ NaturalsOK' /\ Capacity \in Nat
  BY Numbers, NumbersStep, AudioConstants DEF AudioInv
<1>1. ppc' \in {"copy", "publish"} => write' + count' <= read' + Capacity
  <2>1. CASE Fit
    <3>1. Free = Capacity - (write - read) /\ Free \in Nat
      BY Cursors, <1>0, AudioConstants DEF NaturalsOK
    <3>2. PICK n \in Nat : count' = n /\ n <= Free /\ UNCHANGED <<read, write>>
      BY <2>1, <3>1, AudioConstants DEF Fit
    <3> QED BY <1>0, <3>1, <3>2 DEF NaturalsOK
  <2>2. CASE Copy
    <3>1. ppc = "copy" /\ UNCHANGED <<read, write, count>>
      BY <2>2 DEF Copy
    <3> QED BY <1>0, <3>1 DEF CursorsInv, NaturalsOK
  <2>3. CASE Consumer
    <3>1. PICK r \in Nat : read' = r /\ read <= r
      BY <2>3, ReadMoves
    <3>2. UNCHANGED <<write, count, ppc>>
      BY <2>3, ReadMoves
    <3>3. ASSUME ppc \in {"copy", "publish"} PROVE write + count <= r + Capacity
      <4>1. write + count <= read + Capacity
        BY <1>0, <3>3 DEF CursorsInv
      <4> QED BY <1>0, <3>1, <4>1 DEF NaturalsOK
    <3> QED BY <3>1, <3>2, <3>3
  <2>4. CASE Elapse
    BY <2>4 DEF Elapse, producer
  <2>5. CASE Producer /\ ~Fit /\ ~Copy
    BY <2>5 DEF Producer, Pushing, SetFormat, CloseSource, StoreBoundary, NextGeneration,
       OpenSource, PushBegin, NextSpurt, Publish, Stamp
  <2> QED BY <2>1, <2>2, <2>3, <2>4, <2>5 DEF AudioNext
<1>2. ppc' \in {"format generation", "close generation"} => reset' = write'
  <2>1. CASE StoreBoundary
    BY <2>1 DEF StoreBoundary
  <2>2. CASE Consumer
    BY <1>0, <2>2, ReadMoves DEF CursorsInv
  <2>3. CASE Elapse
    BY <2>3 DEF Elapse, producer
  <2>4. CASE Producer /\ ~StoreBoundary
    BY <2>4 DEF Producer, Pushing, SetFormat, CloseSource, NextGeneration,
       OpenSource, PushBegin, NextSpurt, Fit, Copy, Publish, Stamp
  <2> QED BY <2>1, <2>2, <2>3, <2>4 DEF AudioNext
<1>3. ppc' = "spurt" => spurtCursor' = write'
  <2>1. CASE PushBegin
    BY <2>1 DEF PushBegin
  <2>2. CASE Consumer
    BY <1>0, <2>2, ReadMoves DEF CursorsInv
  <2>3. CASE Elapse
    BY <2>3 DEF Elapse, producer
  <2>4. CASE Producer /\ ~PushBegin
    BY <2>4 DEF Producer, Pushing, SetFormat, CloseSource, StoreBoundary, NextGeneration,
       OpenSource, NextSpurt, Fit, Copy, Publish, Stamp
  <2> QED BY <2>1, <2>2, <2>3, <2>4 DEF AudioNext
<1>4. Ordered'
  BY OrderedStep
<1> QED BY <1>1, <1>2, <1>3, <1>4 DEF CursorsInv, Ordered

LEMMA TakeMoves ==
    ASSUME AudioInv, Take
    PROVE  read' \in Nat /\ read <= read' /\ read' <= snapshot
<1>1. /\ read \in Nat /\ snapshot \in Nat /\ read <= snapshot
  BY Typed DEF AudioInv, CountersOK, BlockInv, Take
<1>2. /\ Available = snapshot - read /\ Contiguous <= Available
      /\ \/ read' = read
         \/ \E n \in 1 .. Contiguous : read' = read + n
  BY TakenIs DEF Take
<1>3. Contiguous \in Int
  BY <1>1, <1>2, SlotIs, AudioConstants DEF Contiguous
<1> QED BY <1>1, <1>2, <1>3

----------------------------------------------------------------------------
(* The boundaries stay within reach.                                       *)

LEMMA FormatLagStep ==
    ASSUME AudioInv, AudioNext
    PROVE  FormatLag'
<1>0. /\ FormatLag /\ CursorsInv /\ NaturalsOK /\ Capacity \in Nat
  BY Numbers, AudioConstants DEF AudioInv
<1>1. PICK r \in Nat, g \in Nat, a \in Nat, l \in Nat, b \in Nat :
          read' = r /\ generation' = g /\ applied' = a /\ loaded' = l /\ reset' = b
  BY NumbersStep DEF NaturalsOK
<1>2. ASSUME UNCHANGED <<read, reset, generation, applied, loaded, cpc>> PROVE FormatLag'
  BY <1>0, <1>2 DEF FormatLag, FormatReach
<1>3. CASE StoreBoundary
  <2>1. reset' = write /\ UNCHANGED <<read, generation, applied, loaded, cpc>>
    BY <1>3 DEF StoreBoundary, consumer
  <2>2. read <= write
    BY <1>0 DEF CursorsInv
  <2>3. FormatReach' = FormatReach /\ FormatReach \in Nat
    BY <1>0, <2>1 DEF FormatReach
  <2>4. read <= write + FormatReach
    BY <1>0, <2>2, <2>3 DEF NaturalsOK
  <2> QED BY <1>0, <2>1, <2>2, <2>3, <2>4 DEF FormatLag
<1>4. CASE NextGeneration
  <2>1. generation' = generation + 1 /\ UNCHANGED <<read, reset, applied, loaded, cpc>>
    BY <1>4 DEF NextGeneration, consumer
  <2>2. read <= reset
    BY <1>0, <1>4 DEF CursorsInv, NextGeneration
  <2>3. FormatReach' = FormatReach /\ FormatReach \in Nat
    BY <1>0, <2>1 DEF FormatReach
  <2>4. read <= reset + FormatReach
    BY <1>0, <2>2, <2>3 DEF NaturalsOK
  <2> QED BY <1>0, <2>1, <2>2, <2>3, <2>4 DEF FormatLag, NaturalsOK
<1>5. CASE (Producer /\ ~StoreBoundary /\ ~NextGeneration) \/ Elapse
  <2>1. UNCHANGED <<read, reset, generation, applied, loaded, cpc>>
    BY <1>5 DEF Producer, Pushing, SetFormat, CloseSource, OpenSource, PushBegin, NextSpurt, Fit,
       Copy, Publish, Stamp, Elapse, shared, consumer
  <2> QED BY <1>2, <2>1
<1>6. CASE LoadGeneration
  <2>1. UNCHANGED <<read, reset, generation, applied>> /\ cpc = "generation"
    BY <1>6 DEF LoadGeneration, shared
  <2>2. CASE generation = applied
    <3>1. cpc' = "spurt"
      BY <1>6, <2>2 DEF LoadGeneration
    <3> QED BY <1>0, <2>1, <2>2, <3>1 DEF FormatLag
  <2>3. CASE generation # applied
    <3>1. cpc' = "rate" /\ loaded' = generation
      BY <1>6, <2>3 DEF LoadGeneration
    <3>2. FormatReach' = FormatReach
      BY <2>1, <3>1 DEF FormatReach
    <3> QED BY <1>0, <2>1, <2>3, <3>1, <3>2 DEF FormatLag, NaturalsOK
  <2> QED BY <2>2, <2>3
<1>7. CASE LoadRate
  <2>1. UNCHANGED <<read, reset, generation, applied, loaded>> /\ cpc = "rate" /\ cpc' = "boundary"
    BY <1>7 DEF LoadRate, shared
  <2>2. FormatReach' = FormatReach
    BY <2>1 DEF FormatReach
  <2> QED BY <1>0, <2>1, <2>2 DEF FormatLag
<1>8. CASE ApplyGeneration
  <2>1. /\ cpc = "boundary" /\ cpc' = "spurt" /\ applied' = loaded
        /\ UNCHANGED <<reset, generation>>
        /\ read' = IF read <= reset THEN reset ELSE read
    BY <1>8, FormatBoundary DEF ApplyGeneration
  <2>2. loaded <= generation /\ (loaded # generation => read <= reset)
    BY <1>0, <2>1 DEF FormatLag
  <2>3. FormatReach' = 0
    BY <2>1 DEF FormatReach
  <2>4. loaded # generation => r <= reset + 0
    BY <1>0, <1>1, <2>1, <2>2 DEF NaturalsOK
  <2> QED BY <1>1, <2>1, <2>2, <2>3, <2>4 DEF FormatLag
<1>9. CASE Consumer /\ ~LoadGeneration /\ ~LoadRate /\ ~ApplyGeneration
  <2>1. UNCHANGED <<reset, generation, applied>> /\ cpc' \notin {"rate", "boundary"}
    BY <1>9, ReadMoves DEF AudioInv, ControlInv, Consumer, ReadBegin, LoadSpurt, ApplySpurt, Sample, Gauge,
       Trim, Untrim, Decide, NextFrames, Take, ReadEnd, Onward, SegmentEnd
  <2>2. generation # applied => r <= reset + FormatReach'
    <3>1. r <= write /\ write <= read + Capacity /\ read <= r
      BY <1>0, <1>1, <1>9, ReadMoves DEF CursorsInv
    <3>2. CASE UNCHANGED read /\ FormatReach' \in Nat /\ FormatReach <= FormatReach'
      <4> DEFINE f == FormatReach'
      <4>1. f \in Nat /\ FormatReach \in Nat /\ FormatReach <= f /\ r = read
        BY <1>0, <1>1, <3>2 DEF FormatReach
      <4> HIDE DEF f
      <4>2. generation # applied => r <= reset + f
        BY <1>0, <4>1 DEF FormatLag, NaturalsOK
      <4> QED BY <4>2 DEF f
    <3>3. CASE FormatReach \in Nat /\ FormatReach' = FormatReach + Capacity
      <4>1. generation # applied => r <= reset + (FormatReach + Capacity)
        BY <1>0, <3>1, <3>3 DEF FormatLag, NaturalsOK
      <4> QED BY <3>3, <4>1
    <3>4. CASE cpc = "cursor"
      <4>1. cpc' \in {"end", "sample"} /\ FormatReach = 0
        BY <1>9, <3>4 DEF Consumer, ReadBegin, LoadSpurt, ApplySpurt, Sample, Gauge,
           Trim, Untrim, Decide, NextFrames, Take, ReadEnd, Onward, AudioInv, ControlInv, FormatReach
      <4>2. r <= reset + Capacity \/ generation = applied
        BY <1>0, <3>1, <4>1 DEF FormatLag, NaturalsOK
      <4>3. CASE cpc' = "sample"
        BY <4>2, <4>3 DEF FormatReach
      <4>4. CASE cpc' = "end"
        <5>1. r <= reset + 2 * Capacity \/ generation = applied
          BY <1>0, <1>1, <4>2 DEF NaturalsOK
        <5> QED BY <4>4, <5>1 DEF FormatReach
      <4> QED BY <4>1, <4>3, <4>4
    <3>5. CASE Take
      <4>1. generation # applied => snapshot <= reset
        BY <3>5 DEF AudioInv, BlockInv, Take
      <4>2. r <= snapshot
        BY <1>1, <3>5, TakeMoves
      <4> DEFINE f == FormatReach'
      <4>3. f \in Nat
        BY <1>0 DEF FormatReach
      <4> HIDE DEF f
      <4>4. generation # applied => r <= reset + f
        BY <1>0, <4>1, <4>2, <4>3 DEF NaturalsOK
      <4> QED BY <4>4 DEF f
    <3>6. CASE Sample \/ Trim
      <4>1. CASE Trim \/ cpc' = "end"
        <5>1. FormatReach = Capacity /\ FormatReach' = 2 * Capacity
          BY <3>6, <4>1 DEF Trim, Sample, FormatReach
        <5>2. generation # applied => r <= reset + 2 * Capacity
          BY <1>0, <3>1, <5>1 DEF FormatLag, NaturalsOK
        <5> QED BY <5>1, <5>2
      <4>2. CASE Sample /\ cpc' # "end"
        <5>1. FormatReach = Capacity /\ FormatReach' = Capacity /\ UNCHANGED read
          BY <4>2 DEF Sample, FormatReach
        <5> QED BY <1>0, <1>1, <5>1 DEF FormatLag
      <4> QED BY <3>6, <4>1, <4>2
    <3>7. CASE cpc # "cursor" /\ ~Take /\ ~Sample /\ ~Trim
      <4>1. UNCHANGED read
        BY <1>9, <3>7 DEF Consumer, ReadBegin, LoadSpurt, ApplySpurt, Gauge, Untrim, Decide,
           NextFrames, ReadEnd, shared
      <4>2. \/ cpc \in {"spurt", "take"}
            \/ cpc = "gauge" /\ cpc' \in {"loop", "trim", "decide"}
            \/ cpc' \notin {"spurt", "cursor", "take", "sample", "gauge", "trim"}
        BY <1>9, <3>7 DEF Consumer, ReadBegin, LoadSpurt, ApplySpurt, Gauge, Untrim, Decide,
           NextFrames, ReadEnd, AudioInv, ControlInv
      <4>3. FormatReach' \in Nat /\ FormatReach <= FormatReach'
        BY <1>0, <4>2 DEF FormatReach
      <4> QED BY <3>2, <4>1, <4>3
    <3> QED BY <3>4, <3>5, <3>6, <3>7
  <2> QED BY <1>0, <1>1, <2>1, <2>2 DEF FormatLag
<1> QED BY <1>3, <1>4, <1>5, <1>6, <1>7, <1>8, <1>9 DEF AudioNext

LEMMA SpurtLagStep ==
    ASSUME AudioInv, AudioNext
    PROVE  SpurtLag'
<1>0. /\ SpurtLag /\ CursorsInv /\ NaturalsOK /\ Capacity \in Nat
  BY Numbers, AudioConstants DEF AudioInv
<1>1. PICK r \in Nat, g \in Nat, a \in Nat, l \in Nat, b \in Nat :
          read' = r /\ spurt' = g /\ seen' = a /\ loaded' = l /\ spurtCursor' = b
  BY NumbersStep DEF NaturalsOK
<1>2. ASSUME UNCHANGED <<read, spurtCursor, spurt, seen, loaded, cpc>> PROVE SpurtLag'
  BY <1>0, <1>2 DEF SpurtLag, SpurtReach
<1>3. CASE PushBegin
  <2>1. spurtCursor' = write \/ UNCHANGED spurtCursor
    BY <1>3 DEF PushBegin
  <2>2. UNCHANGED <<read, spurt, seen, loaded, cpc>>
    BY <1>3 DEF PushBegin, consumer
  <2>3. CASE spurtCursor' = write
    <3>1. read <= write
      BY <1>0 DEF CursorsInv
    <3>2. SpurtReach' = SpurtReach /\ SpurtReach \in Nat
      BY <1>0, <2>2 DEF SpurtReach
    <3>3. read <= write + SpurtReach
      BY <1>0, <3>1, <3>2 DEF NaturalsOK
    <3> QED BY <1>0, <2>2, <2>3, <3>1, <3>2, <3>3 DEF SpurtLag
  <2> QED BY <1>2, <2>1, <2>2, <2>3
<1>4. CASE NextSpurt
  <2>1. spurt' = spurt + 1 /\ UNCHANGED <<read, spurtCursor, seen, loaded, cpc>>
    BY <1>4 DEF NextSpurt, consumer
  <2>2. read <= spurtCursor
    BY <1>0, <1>4 DEF CursorsInv, NextSpurt
  <2>3. SpurtReach' = SpurtReach /\ SpurtReach \in Nat
    BY <1>0, <2>1 DEF SpurtReach
  <2>4. read <= spurtCursor + SpurtReach
    BY <1>0, <2>2, <2>3 DEF NaturalsOK
  <2> QED BY <1>0, <2>1, <2>2, <2>3, <2>4 DEF SpurtLag, NaturalsOK
<1>5. CASE (Producer /\ ~PushBegin /\ ~NextSpurt) \/ Elapse
  <2>1. UNCHANGED <<read, spurtCursor, spurt, seen, loaded, cpc>>
    BY <1>5 DEF Producer, Pushing, SetFormat, CloseSource, StoreBoundary, NextGeneration, OpenSource,
       Fit, Copy, Publish, Stamp, Elapse, shared, consumer
  <2> QED BY <1>2, <2>1
<1>6. CASE LoadSpurt
  <2>1. UNCHANGED <<read, spurtCursor, spurt, seen>> /\ cpc = "spurt"
    BY <1>6 DEF LoadSpurt, shared
  <2>2. CASE spurt = seen
    <3>1. cpc' # "cursor"
      BY <1>6, <2>2 DEF LoadSpurt, Onward, AudioInv, ControlInv
    <3> QED BY <1>0, <2>1, <2>2, <3>1 DEF SpurtLag
  <2>3. CASE spurt # seen
    <3>1. cpc' = "cursor" /\ loaded' = spurt
      BY <1>6, <2>3 DEF LoadSpurt
    <3>2. SpurtReach' = SpurtReach
      BY <2>1, <3>1 DEF SpurtReach
    <3> QED BY <1>0, <2>1, <2>3, <3>1, <3>2 DEF SpurtLag, NaturalsOK
  <2> QED BY <2>2, <2>3
<1>7. CASE ApplySpurt
  <2>1. /\ cpc = "cursor" /\ cpc' # "cursor" /\ seen' = loaded
        /\ UNCHANGED <<spurtCursor, spurt>>
        /\ read' = IF read <= spurtCursor THEN spurtCursor ELSE read
    BY <1>7, SpurtBoundary DEF ApplySpurt, Onward, AudioInv, ControlInv
  <2>2. loaded <= spurt /\ (loaded # spurt => read <= spurtCursor)
    BY <1>0, <2>1 DEF SpurtLag
  <2> DEFINE f == SpurtReach'
  <2>3. f \in Nat
    BY <1>0 DEF SpurtReach
  <2> HIDE DEF f
  <2>4. loaded # spurt => r <= spurtCursor + f
    BY <1>0, <1>1, <2>1, <2>2, <2>3 DEF NaturalsOK
  <2> QED BY <1>1, <2>1, <2>2, <2>4 DEF SpurtLag, f
<1>8. CASE Consumer /\ ~LoadSpurt /\ ~ApplySpurt
  <2>1. UNCHANGED <<spurtCursor, spurt, seen>> /\ cpc' # "cursor"
    BY <1>8, ReadMoves DEF AudioInv, ControlInv, Consumer, ReadBegin, LoadGeneration, LoadRate,
       ApplyGeneration, Sample, Gauge, Trim, Untrim, Decide, NextFrames, Take, ReadEnd, SegmentEnd
  <2>2. spurt # seen => r <= spurtCursor + SpurtReach'
    <3>1. r <= write /\ write <= read + Capacity /\ read <= r
      BY <1>0, <1>1, <1>8, ReadMoves DEF CursorsInv
    <3>2. CASE UNCHANGED read /\ SpurtReach' \in Nat /\ SpurtReach <= SpurtReach'
      <4> DEFINE f == SpurtReach'
      <4>1. f \in Nat /\ SpurtReach \in Nat /\ SpurtReach <= f /\ r = read
        BY <1>0, <1>1, <3>2 DEF SpurtReach
      <4> HIDE DEF f
      <4>2. spurt # seen => r <= spurtCursor + f
        BY <1>0, <4>1 DEF SpurtLag, NaturalsOK
      <4> QED BY <4>2 DEF f
    <3>3. CASE SpurtReach \in Nat /\ SpurtReach' = SpurtReach + Capacity
      <4>1. spurt # seen => r <= spurtCursor + (SpurtReach + Capacity)
        BY <1>0, <3>1, <3>3 DEF SpurtLag, NaturalsOK
      <4> QED BY <3>3, <4>1
    <3>4. CASE ApplyGeneration \/ Trim
      <4>1. SpurtReach \in Nat /\ SpurtReach' = SpurtReach + Capacity
        BY <1>0, <3>4 DEF ApplyGeneration, Trim, SpurtReach
      <4> QED BY <3>3, <4>1
    <3>5. CASE Take
      <4>1. spurt # seen => snapshot <= spurtCursor
        BY <3>5 DEF AudioInv, BlockInv, Take
      <4>2. r <= snapshot
        BY <1>1, <3>5, TakeMoves
      <4> DEFINE f == SpurtReach'
      <4>3. f \in Nat
        BY <1>0 DEF SpurtReach
      <4> HIDE DEF f
      <4>4. spurt # seen => r <= spurtCursor + f
        BY <1>0, <4>1, <4>2, <4>3 DEF NaturalsOK
      <4> QED BY <4>4 DEF f
    <3>6. CASE Sample
      <4>1. CASE cpc' = "end"
        <5>1. SpurtReach \in Nat /\ SpurtReach' = SpurtReach + Capacity
          BY <1>0, <3>6, <4>1 DEF Sample, SpurtReach
        <5> QED BY <3>3, <5>1
      <4>2. CASE cpc' # "end"
        <5>1. SpurtReach \in Nat /\ SpurtReach' = SpurtReach /\ UNCHANGED read
          BY <1>0, <3>6, <4>2 DEF Sample, SpurtReach
        <5> QED BY <1>0, <1>1, <5>1 DEF SpurtLag
      <4> QED BY <4>1, <4>2
    <3>7. CASE ~ApplyGeneration /\ ~Trim /\ ~Take /\ ~Sample
      <4>1. UNCHANGED read
        BY <1>8, <3>7 DEF Consumer, ReadBegin, LoadGeneration, LoadRate, Gauge, Untrim, Decide,
           NextFrames, ReadEnd, shared
      <4>2. \/ cpc = "gauge"
            \/ /\ cpc \notin {"sample", "gauge", "trim", "take", "spurt", "cursor"}
               /\ cpc' \notin {"sample", "gauge", "trim", "take"}
        BY <1>8, <3>7 DEF Consumer, ReadBegin, LoadGeneration, LoadRate, Gauge, Untrim, Decide,
           NextFrames, ReadEnd, AudioInv, ControlInv
      <4>3. SpurtReach' \in Nat /\ SpurtReach <= SpurtReach'
        BY <1>0, <4>2 DEF SpurtReach
      <4> QED BY <3>2, <4>1, <4>3
    <3> QED BY <3>4, <3>5, <3>6, <3>7
  <2> QED BY <1>0, <1>1, <2>1, <2>2 DEF SpurtLag
<1> QED BY <1>3, <1>4, <1>5, <1>6, <1>7, <1>8 DEF AudioNext

----------------------------------------------------------------------------
(* The frames.                                                             *)

LEMMA FramesStep ==
    ASSUME AudioInv, AudioNext
    PROVE  FramesInv'
<1>0. /\ FramesInv /\ FormatLag /\ SpurtLag /\ CursorsInv /\ NaturalsOK /\ Capacity \in Nat
  BY Numbers, AudioConstants DEF AudioInv
<1>1. ASSUME NEW i \in Stored
      PROVE  /\ i \in Nat /\ read <= i
             /\ ppc # "publish" => i < write
             /\ FrameAt(i).index = i
             /\ FrameAt(i).generation \in Nat /\ FrameAt(i).spurt \in Nat
             /\ applied <= FrameAt(i).generation /\ FrameAt(i).generation <= generation
             /\ i >= reset => FrameAt(i).generation = generation
             /\ seen <= FrameAt(i).spurt /\ FrameAt(i).spurt <= spurt
             /\ i >= spurtCursor => FrameAt(i).spurt = spurt
  <2>1. i \in Nat /\ read <= i /\ (ppc # "publish" => i < write)
    BY <1>0 DEF Stored, NaturalsOK
  <2>2. FrameAt(i).generation \in Nat /\ FrameAt(i).spurt \in Nat
    <3>1. Slot(i) \in 0 .. Capacity - 1 /\ RingOK
      BY <2>1, SlotIs, Typed DEF AudioInv
    <3>2. ring[Slot(i)] \in Frames
      BY <3>1 DEF RingOK
    <3> QED BY <3>2 DEF FrameAt, Frames
  <2> QED BY <1>0, <2>1, <2>2 DEF FramesInv, NaturalsOK
<1>2. ASSUME Stored' \subseteq Stored, \A i \in Stored' : ring'[Slot(i)] = ring[Slot(i)],
             UNCHANGED <<applied, generation, reset, seen, spurt, spurtCursor>>
      PROVE  FramesInv'
  BY <1>0, <1>2 DEF FramesInv, FrameAt
<1>3. CASE StoreBoundary
  <2>1. /\ ppc # "publish" /\ ppc' # "publish" /\ reset' = write
        /\ UNCHANGED <<read, write, ring, applied, generation, seen, spurt, spurtCursor>>
    BY <1>3 DEF StoreBoundary, consumer
  <2>2. Stored' = Stored
    BY <2>1 DEF Stored
  <2>3. \A i \in Stored : ~(i >= reset')
    BY <1>0, <1>1, <2>1 DEF NaturalsOK
  <2> QED BY <1>0, <2>1, <2>2, <2>3 DEF FramesInv, FrameAt
<1>4. CASE NextGeneration
  <2>1. /\ ppc # "publish" /\ ppc' # "publish" /\ reset = write /\ generation' = generation + 1
        /\ UNCHANGED <<read, write, ring, applied, reset, seen, spurt, spurtCursor>>
    BY <1>0, <1>4 DEF NextGeneration, consumer, CursorsInv
  <2>2. Stored' = Stored
    BY <2>1 DEF Stored
  <2>3. \A i \in Stored : ~(i >= reset)
    BY <1>0, <1>1, <2>1 DEF NaturalsOK
  <2>4. \A i \in Stored : FrameAt(i).generation \in applied .. generation + 1
    BY <1>0, <1>1 DEF NaturalsOK
  <2> QED BY <1>0, <2>1, <2>2, <2>3, <2>4 DEF FramesInv, FrameAt
<1>5. CASE PushBegin
  <2>1. /\ ppc # "publish" /\ ppc' # "publish"
        /\ spurtCursor' = write \/ UNCHANGED spurtCursor
        /\ UNCHANGED <<read, write, ring, applied, generation, reset, seen, spurt>>
    BY <1>5 DEF PushBegin, consumer
  <2>2. Stored' = Stored
    BY <2>1 DEF Stored
  <2>3. CASE spurtCursor' = write
    <3>1. \A i \in Stored : ~(i >= spurtCursor')
      BY <1>0, <1>1, <2>1, <2>3 DEF NaturalsOK
    <3> QED BY <1>0, <2>1, <2>2, <3>1 DEF FramesInv, FrameAt
  <2>4. CASE UNCHANGED spurtCursor
    BY <1>2, <2>1, <2>2, <2>4
  <2> QED BY <2>1, <2>3, <2>4
<1>6. CASE NextSpurt
  <2>1. /\ ppc # "publish" /\ ppc' # "publish" /\ spurtCursor = write /\ spurt' = spurt + 1
        /\ UNCHANGED <<read, write, ring, applied, generation, reset, seen, spurtCursor>>
    BY <1>0, <1>6 DEF NextSpurt, consumer, CursorsInv
  <2>2. Stored' = Stored
    BY <2>1 DEF Stored
  <2>3. \A i \in Stored : ~(i >= spurtCursor)
    BY <1>0, <1>1, <2>1 DEF NaturalsOK
  <2>4. \A i \in Stored : FrameAt(i).spurt \in seen .. spurt + 1
    BY <1>0, <1>1 DEF NaturalsOK
  <2> QED BY <1>0, <2>1, <2>2, <2>3, <2>4 DEF FramesInv, FrameAt
<1>7. CASE Copy
  <2>1. /\ ppc = "copy" /\ ppc' = "publish"
        /\ UNCHANGED <<read, write, count, applied, generation, reset, seen, spurt, spurtCursor>>
    BY <1>7 DEF Copy, consumer
  <2>2. Stored = read .. write - 1 /\ Stored' = read .. (write + count) - 1
    <3>1. Stored = read .. write - 1
      BY <2>1 DEF Stored
    <3>2. Stored' = read' .. (write' + count') - 1
      BY <2>1 DEF Stored
    <3> QED BY <2>1, <3>1, <3>2
  <2>3. ASSUME NEW i \in Stored'
        PROVE  /\ FrameAt(i)'.index = i
               /\ FrameAt(i)'.generation \in applied .. generation
               /\ i >= reset => FrameAt(i)'.generation = generation
               /\ FrameAt(i)'.spurt \in seen .. spurt
               /\ i >= spurtCursor => FrameAt(i)'.spurt = spurt
    <3>1. CASE i \in Stored
      <4>1. ring'[Slot(i)] = ring[Slot(i)]
        BY <1>7, <2>2, <3>1, Copied
      <4> QED BY <1>0, <3>1, <4>1 DEF FramesInv, FrameAt
    <3>2. CASE i \notin Stored
      <4>1. i \in Incoming
        BY <1>0, <2>2, <2>3, <3>2 DEF Incoming, NaturalsOK
      <4>2. ring'[Slot(i)] = [index |-> i, generation |-> generation, format |-> pending, spurt |-> spurt]
        BY <1>7, <4>1, Copied
      <4>3. generation \in applied .. generation /\ spurt \in seen .. spurt
        BY <1>0 DEF FormatLag, SpurtLag, NaturalsOK
      <4> QED BY <4>2, <4>3 DEF FrameAt
    <3> QED BY <3>1, <3>2
  <2> QED BY <2>1, <2>3 DEF FramesInv
<1>8. CASE Publish
  <2>1. /\ ppc = "publish" /\ ppc' # "publish" /\ write' = write + count
        /\ UNCHANGED <<read, ring, applied, generation, reset, seen, spurt, spurtCursor>>
    BY <1>8 DEF Publish, consumer
  <2>2. Stored' = Stored
    BY <2>1 DEF Stored
  <2> QED BY <1>2, <2>1, <2>2
<1>9. CASE Consumer
  <2>1. PICK r \in Nat : read' = r /\ read <= r
    BY <1>9, ReadMoves
  <2>2. UNCHANGED <<write, ring, ppc, count, generation, reset, spurt, spurtCursor>>
    BY <1>9, ReadMoves
  <2>3. Stored' \subseteq Stored /\ \A i \in Stored' : r <= i
    BY <1>0, <2>1, <2>2 DEF Stored, NaturalsOK
  <2>4. CASE ApplyGeneration
    <3>1. /\ applied' = loaded /\ loaded <= generation /\ UNCHANGED seen
          /\ read' = IF read <= reset THEN reset ELSE read
      BY <1>0, <2>4, FormatBoundary DEF ApplyGeneration, FormatLag
    <3>2. reset <= r
      BY <1>0, <2>1, <3>1 DEF NaturalsOK
    <3>3. \A i \in Stored' : i \in Stored /\ i >= reset
      BY <1>0, <1>1, <2>3, <3>2 DEF NaturalsOK
    <3>4. \A i \in Stored' : FrameAt(i).generation \in loaded .. generation
      BY <1>0, <1>1, <3>1, <3>3 DEF NaturalsOK
    <3> QED BY <1>0, <2>2, <3>1, <3>3, <3>4 DEF FramesInv, FrameAt
  <2>5. CASE ApplySpurt
    <3>1. /\ seen' = loaded /\ loaded <= spurt /\ UNCHANGED applied
          /\ read' = IF read <= spurtCursor THEN spurtCursor ELSE read
      BY <1>0, <2>5, SpurtBoundary DEF ApplySpurt, SpurtLag
    <3>2. spurtCursor <= r
      BY <1>0, <2>1, <3>1 DEF NaturalsOK
    <3>3. \A i \in Stored' : i \in Stored /\ i >= spurtCursor
      BY <1>0, <1>1, <2>3, <3>2 DEF NaturalsOK
    <3>4. \A i \in Stored' : FrameAt(i).spurt \in loaded .. spurt
      BY <1>0, <1>1, <3>1, <3>3 DEF NaturalsOK
    <3> QED BY <1>0, <2>2, <3>1, <3>3, <3>4 DEF FramesInv, FrameAt
  <2>6. CASE ~ApplyGeneration /\ ~ApplySpurt
    <3>1. UNCHANGED <<applied, seen>>
      BY <1>9, <2>6 DEF Consumer, ReadBegin, LoadGeneration, LoadRate, LoadSpurt, Sample, Gauge,
         Trim, Untrim, Decide, NextFrames, Take, ReadEnd
    <3> QED BY <1>2, <2>2, <2>3, <3>1
  <2> QED BY <2>4, <2>5, <2>6
<1>10. CASE SetFormat \/ CloseSource \/ OpenSource \/ Fit \/ Stamp \/ Elapse
  <2>1. /\ ppc # "publish" /\ ppc' # "publish"
        /\ UNCHANGED <<read, write, ring, applied, generation, reset, seen, spurt, spurtCursor>>
    BY <1>10 DEF SetFormat, CloseSource, OpenSource, Fit, Stamp, Elapse, shared, producer, consumer
  <2>2. Stored' = Stored
    BY <2>1 DEF Stored
  <2> QED BY <1>2, <2>1, <2>2
<1> QED
  BY <1>3, <1>4, <1>5, <1>6, <1>7, <1>8, <1>9, <1>10 DEF AudioNext, Producer, Pushing

----------------------------------------------------------------------------
(* The block at hand.                                                      *)

LEMMA BlockStep ==
    ASSUME AudioInv, AudioNext
    PROVE  BlockInv'
<1>0. /\ BlockInv /\ FramesInv /\ CursorsInv /\ FormatLag /\ SpurtLag /\ NaturalsOK /\ ControlInv
      /\ Capacity \in Nat
  BY Numbers, AudioConstants DEF AudioInv
<1>1. ASSUME read <= snapshot, NEW i \in Taken
      PROVE  /\ i \in read .. write - 1
             /\ FrameAt(i).generation \in applied .. generation
             /\ FrameAt(i).spurt \in seen .. spurt
  <2>0. snapshot <= write
    BY <1>0 DEF CursorsInv
  <2>1. i \in Int /\ read <= i /\ i < snapshot
    BY <1>0, <1>1 DEF Taken, NaturalsOK
  <2>2. i \in read .. write - 1
    BY <1>0, <2>0, <2>1 DEF NaturalsOK
  <2>3. i \in Stored
    BY <1>0, <2>0, <2>1 DEF Stored, NaturalsOK
  <2> QED BY <1>0, <2>2, <2>3 DEF FramesInv
<1>2. ASSUME UNCHANGED <<read, cpc, after, cut, snapshot, applied, seen, generation, reset, spurt, spurtCursor>>,
             cpc \in {"spurt", "take"} /\ read <= snapshot => \A i \in Taken : ring'[Slot(i)] = ring[Slot(i)]
      PROVE  BlockInv'
  BY <1>0, <1>2 DEF BlockInv, Taken, FrameAt
<1>3. CASE SetFormat \/ CloseSource \/ OpenSource \/ Fit \/ Publish \/ Stamp \/ Elapse
  <2>1. UNCHANGED <<read, ring, cpc, after, cut, snapshot, applied, seen, generation, reset, spurt, spurtCursor>>
    BY <1>3 DEF SetFormat, CloseSource, OpenSource, Fit, Publish, Stamp, Elapse, shared, consumer
  <2> QED BY <1>2, <2>1
<1>4. CASE Copy
  <2>1. UNCHANGED <<read, cpc, after, cut, snapshot, applied, seen, generation, reset, spurt, spurtCursor>>
    BY <1>4 DEF Copy, consumer
  <2>2. read <= snapshot => \A i \in Taken : ring'[Slot(i)] = ring[Slot(i)]
    BY <1>1, <1>4, Copied
  <2> QED BY <1>2, <2>1, <2>2
<1>5. CASE StoreBoundary \/ NextGeneration
  <2>1. /\ UNCHANGED <<read, ring, cpc, after, cut, snapshot, applied, seen, spurt, spurtCursor>>
        /\ reset' = write
    BY <1>0, <1>5 DEF StoreBoundary, NextGeneration, consumer, CursorsInv
  <2>2. snapshot <= write
    BY <1>0 DEF CursorsInv
  <2> QED BY <1>0, <2>1, <2>2 DEF BlockInv, Taken, FrameAt
<1>6. CASE PushBegin \/ NextSpurt
  <2>1. /\ UNCHANGED <<read, ring, cpc, after, cut, snapshot, applied, seen, generation, reset>>
        /\ \/ UNCHANGED <<spurt, spurtCursor>>
           \/ spurtCursor' = write
    BY <1>0, <1>6 DEF PushBegin, NextSpurt, consumer, CursorsInv
  <2>2. snapshot <= write
    BY <1>0 DEF CursorsInv
  <2>3. CASE UNCHANGED <<spurt, spurtCursor>>
    BY <1>2, <2>1, <2>3
  <2>4. CASE spurtCursor' = write
    BY <1>0, <2>1, <2>2, <2>4 DEF BlockInv, Taken, FrameAt
  <2> QED BY <2>1, <2>3, <2>4
<1>7. CASE LoadGeneration
  <2>1. /\ cpc = "generation" /\ cpc' \in {"spurt", "rate"}
        /\ cpc' = "spurt" => generation = applied
        /\ UNCHANGED <<read, ring, after, cut, snapshot, applied, seen, generation, reset, spurt, spurtCursor>>
    BY <1>7 DEF LoadGeneration, shared
  <2>2. ASSUME after = "take", cpc' = "spurt"
        PROVE  read <= snapshot /\ \A i \in Taken : FrameAt(i).generation <= applied
    <3>1. read <= snapshot
      BY <1>0, <2>1, <2>2 DEF BlockInv
    <3>2. \A i \in Taken : FrameAt(i).generation \in applied .. applied
      BY <1>1, <2>1, <2>2, <3>1
    <3> QED BY <1>0, <3>1, <3>2 DEF NaturalsOK
  <2> QED BY <2>1, <2>2 DEF BlockInv, Taken, FrameAt
<1>8. CASE LoadSpurt
  <2>1. /\ cpc = "spurt"
        /\ cpc' = "cursor" \/ (spurt = seen /\ cpc' = Onward(cut))
        /\ UNCHANGED <<read, ring, after, cut, snapshot, applied, seen, generation, reset, spurt, spurtCursor>>
    BY <1>8 DEF LoadSpurt, shared
  <2>2. cpc' \notin {"generation", "spurt"}
    BY <1>0, <2>1 DEF Onward, ControlInv
  <2>3. ASSUME cpc' = "take"
        PROVE  /\ after = "take" /\ read <= snapshot /\ spurt = seen
               /\ generation # applied => snapshot <= reset
               /\ \A i \in Taken : FrameAt(i).generation <= applied /\ FrameAt(i).spurt <= seen
    <3>1. after = "take" /\ ~cut /\ spurt = seen
      BY <1>0, <2>1, <2>3 DEF Onward, ControlInv
    <3>2. /\ read <= snapshot
          /\ generation # applied => snapshot <= reset
          /\ \A i \in Taken : FrameAt(i).generation <= applied
      BY <1>0, <2>1, <3>1 DEF BlockInv
    <3>3. \A i \in Taken : FrameAt(i).spurt \in seen .. seen
      BY <1>1, <3>1, <3>2
    <3>4. \A i \in Taken : FrameAt(i).spurt <= seen
      BY <1>0, <3>3 DEF NaturalsOK
    <3> QED BY <3>1, <3>2, <3>4
  <2> QED BY <2>1, <2>2, <2>3 DEF BlockInv, Taken, FrameAt
<1>9. CASE ApplyGeneration
  BY <1>9 DEF ApplyGeneration, Discontinue, BlockInv
<1>10. CASE NextFrames
  <2>1. cpc' = "generation" /\ snapshot' = write /\ cut' = FALSE /\ UNCHANGED read
    BY <1>10 DEF NextFrames, shared
  <2>2. read <= write
    BY <1>0 DEF CursorsInv
  <2> QED BY <2>1, <2>2 DEF BlockInv
<1>11. CASE ReadBegin
  BY <1>11 DEF ReadBegin, BlockInv
<1>12. CASE LoadRate \/ ApplySpurt \/ Sample \/ Gauge \/ Trim \/ Untrim \/ Decide \/ Take \/ ReadEnd
  <2>1. cpc' \notin {"generation", "spurt", "take"}
    BY <1>0, <1>12 DEF LoadRate, ApplySpurt, Sample, Gauge, Trim, Untrim, Decide, Take, ReadEnd,
       Onward, SegmentEnd, ControlInv
  <2> QED BY <2>1 DEF BlockInv
<1> QED
  BY <1>3, <1>4, <1>5, <1>6, <1>7, <1>8, <1>9, <1>10, <1>11, <1>12
  DEF AudioNext, Producer, Pushing, Consumer

----------------------------------------------------------------------------
(* The invariant.                                                          *)

LEMMA Initial == AudioInit => AudioInv
<1> SUFFICES ASSUME AudioInit PROVE AudioInv
  OBVIOUS
<1>1. AudioTypeOK
  <2>1. CountersOK
    BY AudioConstants DEF AudioInit, CountersOK
  <2>2. FlagsOK /\ StepsOK
    BY DEF AudioInit, FlagsOK, StepsOK
  <2>3. [index |-> 0, generation |-> 0, format |-> 0, spurt |-> 0] \in Frames
    BY DEF Frames
  <2>4. RingOK
    BY <2>3 DEF AudioInit, RingOK
  <2> QED BY <2>1, <2>2, <2>4, Typed
<1>2. ControlInv
  BY DEF AudioInit, ControlInv
<1>3. CursorsInv
  BY AudioConstants DEF AudioInit, CursorsInv
<1>4. FormatLag /\ SpurtLag
  BY AudioConstants DEF AudioInit, FormatLag, SpurtLag
<1>5. BlockInv
  BY DEF AudioInit, BlockInv
<1>6. Stored = {}
  BY DEF AudioInit, Stored
<1>7. FramesInv
  BY <1>6 DEF FramesInv
<1> QED BY <1>1, <1>2, <1>3, <1>4, <1>5, <1>7 DEF AudioInv

LEMMA Stutters ==
    ASSUME AudioInv, UNCHANGED audioVars
    PROVE  AudioInv'
<1>1. AudioTypeOK'
  BY DEF AudioInv, AudioTypeOK, audioVars, shared, producer, consumer, time
<1>2. ControlInv' /\ CursorsInv'
  BY DEF AudioInv, ControlInv, CursorsInv, audioVars, shared, producer, consumer, time
<1>3. FormatLag' /\ SpurtLag'
  BY DEF AudioInv, FormatLag, SpurtLag, FormatReach, SpurtReach, audioVars, shared, producer, consumer, time
<1>4. BlockInv' /\ FramesInv'
  BY DEF AudioInv, BlockInv, FramesInv, Stored, Taken, FrameAt, audioVars, shared, producer, consumer, time
<1> QED BY <1>1, <1>2, <1>3, <1>4 DEF AudioInv

THEOREM Invariance == AudioSpec => []AudioInv
<1>1. AudioInit => AudioInv
  BY Initial
<1>2. AudioInv /\ [AudioNext]_audioVars => AudioInv'
  <2>1. ASSUME AudioInv, AudioNext PROVE AudioInv'
    <3>1. AudioTypeOK' /\ ControlInv' /\ CursorsInv'
      BY <2>1, TypeStep, ControlStep, CursorsStep
    <3>2. FormatLag' /\ SpurtLag' /\ BlockInv' /\ FramesInv'
      BY <2>1, FormatLagStep, SpurtLagStep, BlockStep, FramesStep
    <3> QED BY <3>1, <3>2 DEF AudioInv
  <2> QED BY <2>1, Stutters
<1> QED BY <1>1, <1>2, PTL DEF AudioSpec

(* The types.                                                              *)
THEOREM Types == AudioSpec => []AudioTypeOK
<1>1. AudioInv => AudioTypeOK
  BY DEF AudioInv
<1> QED BY <1>1, Invariance, PTL

(* However the pump's moves and stale boundaries interleave with pushes, the *)
(* cursors stay in order and within a ring of each other, and the ring holds *)
(* exactly what was pushed between them.                                     *)
THEOREM Intact == AudioSpec => []RingIntact
<1>1. AudioInv => RingIntact
  <2> SUFFICES ASSUME AudioInv PROVE RingIntact
    OBVIOUS
  <2>1. NaturalsOK /\ CursorsInv /\ FramesInv
    BY Numbers DEF AudioInv
  <2>2. \A i \in Readable : i \in Stored
    BY <2>1 DEF Readable, Stored, NaturalsOK
  <2>3. \A i \in Readable : FrameAt(i).index = i
    BY <2>1, <2>2 DEF FramesInv
  <2> QED BY <2>1, <2>3 DEF RingIntact, CursorsInv
<1> QED BY <1>1, Invariance, PTL

(* What push copies and what the converter reads never share a slot.         *)
THEOREM Untorn == AudioSpec => []NoTornFrame
<1>1. AudioInv => NoTornFrame
  <2> SUFFICES ASSUME AudioInv, ppc = "copy", cpc = "take", NEW i \in Taken, NEW j \in Incoming
               PROVE  Slot(i) # Slot(j)
    BY DEF NoTornFrame
  <2>1. /\ NaturalsOK /\ Capacity \in Nat /\ read <= snapshot /\ snapshot <= write
        /\ write + count <= read + Capacity
    BY Numbers, AudioConstants DEF AudioInv, CursorsInv, BlockInv
  <2>2. i \in Int /\ read <= i /\ i < snapshot
    BY <2>1 DEF Taken, NaturalsOK
  <2>3. j \in Int /\ write <= j /\ j < write + count
    BY <2>1 DEF Incoming, NaturalsOK
  <2>4. i \in Nat /\ j \in Nat /\ i < j /\ j < i + Capacity
    BY <2>1, <2>2, <2>3 DEF NaturalsOK
  <2> QED BY <2>4, SlotsDiffer
<1> QED BY <1>1, Invariance, PTL

(* What is converted is of the applied generation and talkspurt.             *)
THEOREM Current == AudioSpec => []FramesAreCurrent
<1>1. AudioInv => FramesAreCurrent
  <2> SUFFICES ASSUME AudioInv, cpc = "take", NEW i \in Taken
               PROVE  FrameAt(i).generation = applied /\ FrameAt(i).spurt = seen
    BY DEF FramesAreCurrent
  <2>1. /\ NaturalsOK /\ read <= snapshot /\ snapshot <= write /\ FramesInv
        /\ FrameAt(i).generation <= applied /\ FrameAt(i).spurt <= seen
    BY Numbers DEF AudioInv, CursorsInv, BlockInv
  <2>2. i \in Stored
    BY <2>1 DEF Taken, Stored, NaturalsOK
  <2>3. FrameAt(i).generation \in applied .. generation /\ FrameAt(i).spurt \in seen .. spurt
    BY <2>1, <2>2 DEF FramesInv
  <2> QED BY <2>1, <2>3 DEF NaturalsOK
<1> QED BY <1>1, Invariance, PTL

----------------------------------------------------------------------------
(* The source is the queue of SoundQueue.                                  *)

(* Every queued frame lies in the stored part of the ring, with a stamp    *)
(* between what is applied and what is pushed.                             *)
LEMMA QueuedFrames ==
    ASSUME AudioInv, NEW i \in Readable
    PROVE  /\ i \in Stored /\ i \in Nat
           /\ FrameAt(i).index = i
           /\ FrameAt(i).generation \in Nat /\ FrameAt(i).spurt \in Nat
           /\ applied <= FrameAt(i).generation /\ FrameAt(i).generation <= generation
           /\ seen <= FrameAt(i).spurt /\ FrameAt(i).spurt <= spurt
<1>1. NaturalsOK /\ FramesInv
  BY Numbers DEF AudioInv
<1>2. i \in Stored /\ i \in Nat
  BY <1>1 DEF Readable, Stored, NaturalsOK
<1>3. FrameAt(i).index = i /\ FrameAt(i).generation \in applied .. generation /\ FrameAt(i).spurt \in seen .. spurt
  BY <1>1, <1>2 DEF FramesInv
<1> QED BY <1>1, <1>2, <1>3 DEF NaturalsOK

LEMMA SoundStutters ==
    ASSUME UNCHANGED <<read, write, ring, generation, spurt, applied, seen, cpc>>
    PROVE  UNCHANGED Sound!vars
  BY DEF Sound!vars, Readable, StampedFrame, FrameAt

LEMMA SoundStarts == AudioInit => Sound!Init
<1> SUFFICES ASSUME AudioInit PROVE Sound!Init
  OBVIOUS
<1>1. read = 0 /\ write = 0 /\ generation = 0 /\ spurt = 0 /\ applied = 0 /\ seen = 0 /\ cpc # "take"
  BY DEF AudioInit
<1>2. Readable = {} /\ read .. write - 1 = {}
  BY <1>1 DEF Readable
<1> QED BY <1>1, <1>2 DEF Sound!Init, Sound!Start

(* When the ring is left alone the frames that stay queued stay the same.  *)
LEMMA SoundKept ==
    ASSUME AudioInv, UNCHANGED <<write, ring>>, read' \in Nat, read <= read'
    PROVE  Sound!Keep
<1>1. NaturalsOK
  BY Numbers
<1>2. Readable' = read' .. write - 1
  BY DEF Readable
<1>3. ASSUME NEW i \in read' .. write - 1
      PROVE  i \in Readable /\ StampedFrame(i)' = StampedFrame(i)
  BY <1>1, <1>3 DEF Readable, StampedFrame, FrameAt, NaturalsOK
<1> QED BY <1>2, <1>3 DEF Sound!Keep

(* Outside the conversion the pump only ever drops the oldest frames, and  *)
(* what it applies is not newer than any frame it leaves.                  *)
LEMMA PumpDrops ==
    ASSUME AudioInv, AudioInv', Consumer, cpc # "take", cpc' # "take"
    PROVE  Sound!Drop
<1>1. /\ read' \in Nat /\ read <= read' /\ read' <= write
      /\ UNCHANGED <<write, ring, generation, spurt>>
  BY ReadMoves
<1>2. /\ NaturalsOK /\ FormatLag /\ SpurtLag
      /\ NaturalsOK' /\ FormatLag' /\ SpurtLag' /\ FramesInv'
  BY Numbers, NumbersStep DEF AudioInv, AudioNext
<1>3. applied <= applied' /\ seen <= seen'
  <2>1. CASE ApplyGeneration
    BY <1>2, <2>1 DEF ApplyGeneration, FormatLag, NaturalsOK
  <2>2. CASE ApplySpurt
    BY <1>2, <2>2 DEF ApplySpurt, SpurtLag, NaturalsOK
  <2>3. CASE ~ApplyGeneration /\ ~ApplySpurt
    <3>1. UNCHANGED <<applied, seen>>
      BY <2>3 DEF Consumer, ReadBegin, LoadGeneration, LoadRate, LoadSpurt, Sample, Gauge,
         Trim, Untrim, Decide, NextFrames, Take, ReadEnd
    <3> QED BY <1>2, <3>1 DEF NaturalsOK
  <2> QED BY <2>1, <2>2, <2>3
<1>4. applied' <= generation /\ seen' <= spurt /\ applied' \in Nat /\ seen' \in Nat
  BY <1>1, <1>2 DEF FormatLag, SpurtLag, NaturalsOK
<1>5. ASSUME NEW i \in read' .. write - 1
      PROVE  /\ i \in Readable
             /\ applied' <= FrameAt(i).generation /\ seen' <= FrameAt(i).spurt
  <2>1. i \in Readable /\ i \in Readable'
    BY <1>1, <1>2, <1>5 DEF Readable, NaturalsOK
  <2>2. FrameAt(i)' = FrameAt(i)
    BY <1>1 DEF FrameAt
  <2>3. applied' <= FrameAt(i)'.generation /\ seen' <= FrameAt(i)'.spurt
    <3>1. /\ write' \in Nat /\ count' \in Nat /\ read' \in Nat
          /\ applied' \in Nat /\ generation' \in Nat /\ seen' \in Nat /\ spurt' \in Nat
      BY <1>2 DEF NaturalsOK
    <3>2. i \in read' .. write' - 1
      BY <2>1 DEF Readable
    <3>3. i \in Stored'
      <4>1. PICK r \in Nat, w \in Nat, c \in Nat : r = read' /\ w = write' /\ c = count'
        BY <3>1
      <4>2. i \in r .. w - 1
        BY <3>2, <4>1
      <4>3. i \in r .. (IF ppc' = "publish" THEN w + c ELSE w) - 1
        BY <4>2
      <4> QED BY <4>1, <4>3 DEF Stored
    <3>4. FrameAt(i)'.generation \in applied' .. generation' /\ FrameAt(i)'.spurt \in seen' .. spurt'
      BY <1>2, <3>3 DEF FramesInv
    <3> QED BY <3>1, <3>4
  <2> QED BY <2>1, <2>2, <2>3
<1>6. Sound!Keep
  BY <1>1, SoundKept
<1>7. read' \in read .. write
  BY <1>1, <1>2 DEF NaturalsOK
<1> QED BY <1>1, <1>3, <1>4, <1>5, <1>6, <1>7
        DEF Sound!Drop, Sound!Upto, Sound!Stamps, StampedFrame

(* What the conversion takes is of the stamp that is applied.              *)
LEMMA TakeConverts ==
    ASSUME AudioInv, Take
    PROVE  Sound!Convert \/ Sound!Turn
<1>1. /\ read' \in Nat /\ read <= read' /\ read' <= snapshot
      /\ UNCHANGED <<write, ring, generation, spurt, applied, seen>>
  BY TakeMoves DEF Take
<1>2. cpc = "take" /\ cpc' # "take"
  BY DEF Take, SegmentEnd
<1>3. NaturalsOK /\ snapshot <= write /\ BlockInv
  BY Numbers DEF AudioInv, CursorsInv
<1>4. CASE read' = read
  <2>1. UNCHANGED <<[i \in Readable |-> StampedFrame(i)], read, write>>
    BY <1>1, <1>4 DEF Readable, StampedFrame, FrameAt
  <2> QED BY <1>1, <1>2, <2>1 DEF Sound!Turn
<1>5. CASE read' # read
  <2>1. ASSUME NEW i \in read .. read' - 1
        PROVE  /\ i \in Readable
               /\ FrameAt(i).generation = applied /\ FrameAt(i).spurt = seen
    <3>0. read \in Nat /\ snapshot \in Nat /\ write \in Nat
      BY <1>3 DEF NaturalsOK
    <3>1. PICK r \in Nat : r = read' /\ r <= snapshot
      BY <1>1
    <3>2. i \in read .. r - 1
      BY <2>1, <3>1
    <3>3. i \in Taken /\ i \in Readable
      <4>1. r <= snapshot /\ snapshot <= write
        BY <1>3, <3>1
      <4>2. i \in read .. snapshot - 1 /\ i \in read .. write - 1
        BY <3>0, <3>2, <4>1
      <4> QED BY <4>2 DEF Taken, Readable
    <3>4. FrameAt(i).generation <= applied /\ FrameAt(i).spurt <= seen
      BY <1>2, <1>3, <3>3 DEF BlockInv
    <3> QED BY <1>3, <3>3, <3>4, QueuedFrames DEF NaturalsOK
  <2>2. Sound!Keep
    BY <1>1, SoundKept
  <2>3. read' \in read + 1 .. write
    BY <1>1, <1>3, <1>5 DEF NaturalsOK
  <2>4. applied <= applied /\ seen <= seen
    BY <1>3 DEF NaturalsOK
  <2> QED BY <1>1, <1>2, <2>1, <2>2, <2>3, <2>4 DEF Sound!Convert, Sound!Upto, StampedFrame
<1> QED BY <1>4, <1>5

(* A published batch is queued behind the rest, stamped with what is in    *)
(* force, and overwrites nothing that is still queued.                     *)
LEMMA PublishPushes ==
    ASSUME AudioInv, Publish, count > 0
    PROVE  Sound!Push
<1>1. /\ ppc = "publish" /\ write' = write + count
      /\ UNCHANGED <<read, ring, generation, spurt, applied, seen, cpc>>
  BY DEF Publish, consumer
<1>2. /\ NaturalsOK /\ CursorsInv /\ FramesInv
  BY Numbers DEF AudioInv
<1>3. write' > write /\ write' <= read + Capacity
  BY <1>1, <1>2, AudioConstants DEF CursorsInv, NaturalsOK
<1>4. ASSUME NEW i \in read .. write' - 1
      PROVE  /\ StampedFrame(i)' = StampedFrame(i)
             /\ i < write => i \in Readable
             /\ ~(i < write) =>
                    StampedFrame(i) = [index |-> i, generation |-> generation, spurt |-> spurt]
  <2>1. i \in Stored /\ i \in Nat
    BY <1>1, <1>2, <1>4 DEF Stored, NaturalsOK
  <2>2. StampedFrame(i)' = StampedFrame(i)
    BY <1>1 DEF StampedFrame, FrameAt
  <2>3. i < write => i \in Readable
    BY <1>2, <1>4, <2>1 DEF Readable, NaturalsOK
  <2>4. ASSUME ~(i < write)
        PROVE  FrameAt(i).index = i /\ FrameAt(i).generation = generation /\ FrameAt(i).spurt = spurt
    <3>1. write \in Nat /\ reset \in Nat /\ spurtCursor \in Nat
      BY <1>2 DEF NaturalsOK
    <3>2. reset <= write /\ spurtCursor <= write
      BY <1>2 DEF CursorsInv
    <3>3. i >= reset /\ i >= spurtCursor
      BY <2>1, <2>4, <3>1, <3>2
    <3> QED BY <1>2, <2>1, <3>3 DEF FramesInv
  <2> QED BY <2>2, <2>3, <2>4 DEF StampedFrame
<1>5. Readable' = read .. write' - 1
  BY <1>1 DEF Readable
<1> QED BY <1>1, <1>3, <1>4, <1>5 DEF Sound!Push, Sound!Pushed

(* A push that found no room copies nothing and publishes nothing.         *)
BringsFrames == ppc \in {"copy", "publish"} => count > 0

LEMMA BringsStep ==
    ASSUME AudioInv, BringsFrames, [AudioNext]_audioVars
    PROVE  BringsFrames'
<1>1. CASE Fit
  <2>1. count' \in Nat /\ (ppc' = IF count' = 0 THEN "idle" ELSE "copy")
    BY <1>1, NumbersStep DEF Fit, NaturalsOK, AudioNext, Producer, Pushing
  <2> QED BY <2>1 DEF BringsFrames
<1>2. CASE Copy
  BY <1>2 DEF Copy, BringsFrames
<1>3. CASE Consumer \/ Elapse \/ UNCHANGED audioVars
  <2>1. UNCHANGED <<ppc, count>>
    BY <1>3, ReadMoves DEF Elapse, producer, audioVars
  <2> QED BY <2>1 DEF BringsFrames
<1>4. CASE Producer /\ ~Fit /\ ~Copy
  <2>1. ppc' \notin {"copy", "publish"}
    BY <1>4 DEF Producer, Pushing, SetFormat, CloseSource, StoreBoundary, NextGeneration,
       OpenSource, PushBegin, NextSpurt, Publish, Stamp
  <2> QED BY <2>1 DEF BringsFrames
<1> QED BY <1>1, <1>2, <1>3, <1>4 DEF AudioNext

LEMMA SoundProduces ==
    ASSUME AudioInv, BringsFrames, Producer
    PROVE  [Sound!Next]_(Sound!vars)
<1>1. CASE NextGeneration \/ NextSpurt
  <2>1. /\ \/ generation' = generation + 1 /\ spurt' = spurt
           \/ generation' = generation /\ spurt' = spurt + 1
        /\ UNCHANGED <<read, write, ring, applied, seen, cpc>>
    BY <1>1 DEF NextGeneration, NextSpurt, consumer
  <2>2. generation \in Nat /\ spurt \in Nat
    BY Numbers DEF NaturalsOK
  <2>3. Sound!Renew
    BY <2>1, <2>2 DEF Sound!Renew, Sound!Stamps, Sound!Upto, Readable, StampedFrame, FrameAt
  <2> QED BY <2>3 DEF Sound!Next
<1>2. CASE Copy
  <2>1. UNCHANGED <<read, write, generation, spurt, applied, seen, cpc>>
    BY <1>2 DEF Copy, consumer
  <2>2. \A i \in Readable : ring'[Slot(i)] = ring[Slot(i)]
    BY <1>2, Copied DEF Readable
  <2>3. UNCHANGED [i \in Readable |-> StampedFrame(i)]
    BY <2>1, <2>2 DEF Readable, StampedFrame, FrameAt
  <2> QED BY <2>1, <2>3 DEF Sound!vars
<1>3. CASE Publish
  <2>1. count > 0
    BY <1>3 DEF BringsFrames, Publish
  <2> QED BY <1>3, <2>1, PublishPushes DEF Sound!Next
<1>4. CASE SetFormat \/ CloseSource \/ StoreBoundary \/ OpenSource \/ PushBegin \/ Fit \/ Stamp
  <2>1. UNCHANGED <<read, write, ring, generation, spurt, applied, seen, cpc>>
    BY <1>4 DEF SetFormat, CloseSource, StoreBoundary, OpenSource, PushBegin, Fit, Stamp,
       shared, consumer
  <2> QED BY <2>1, SoundStutters
<1> QED BY <1>1, <1>2, <1>3, <1>4 DEF Producer, Pushing

LEMMA SoundConsumes ==
    ASSUME AudioInv, AudioInv', Consumer
    PROVE  [Sound!Next]_(Sound!vars)
<1>1. CASE Take
  BY <1>1, TakeConverts DEF Sound!Next
<1>2. CASE cpc # "take" /\ cpc' # "take"
  BY <1>2, PumpDrops DEF Sound!Next
<1>3. CASE cpc' = "take" /\ ~Take
  <2>1. LoadSpurt
    BY <1>3 DEF AudioInv, ControlInv, Consumer, ReadBegin, LoadGeneration, LoadRate, ApplyGeneration,
       ApplySpurt, Onward, Sample, Gauge, Trim, Untrim, Decide, NextFrames, ReadEnd
  <2>2. cpc # "take" /\ UNCHANGED <<read, write, ring, generation, spurt, applied, seen>>
    BY <2>1 DEF LoadSpurt, shared
  <2>3. UNCHANGED [i \in Readable |-> StampedFrame(i)]
    BY <2>2 DEF Readable, StampedFrame, FrameAt
  <2> QED BY <1>3, <2>2, <2>3 DEF Sound!Next, Sound!Turn
<1>4. CASE cpc = "take" /\ ~Take
  BY <1>4 DEF Consumer, ReadBegin, LoadGeneration, LoadRate, ApplyGeneration, LoadSpurt, ApplySpurt,
     Sample, Gauge, Trim, Untrim, Decide, NextFrames, ReadEnd
<1> QED BY <1>1, <1>2, <1>3, <1>4

(* However the pump and the decoding thread interleave, without a lock,    *)
(* every step of a source is a step of the lossy queue of SoundQueue, or   *)
(* one its listener cannot notice.                                         *)
THEOREM RefinesSoundQueue == AudioSpec => ImplementsSoundQueue
<1>1. AudioInit => BringsFrames
  BY DEF AudioInit, BringsFrames
<1>2. AudioInv /\ BringsFrames /\ [AudioNext]_audioVars => BringsFrames'
  BY BringsStep
<1>3. ASSUME AudioInv, AudioInv', BringsFrames, [AudioNext]_audioVars
      PROVE  [Sound!Next]_(Sound!vars)
  <2>1. CASE Producer
    BY <1>3, <2>1, SoundProduces
  <2>2. CASE Consumer
    BY <1>3, <2>2, SoundConsumes
  <2>3. CASE Elapse \/ UNCHANGED audioVars
    <3>1. UNCHANGED <<read, write, ring, generation, spurt, applied, seen, cpc>>
      BY <2>3 DEF Elapse, audioVars, shared, consumer
    <3> QED BY <3>1, SoundStutters
  <2> QED BY <1>3, <2>1, <2>2, <2>3 DEF AudioNext
<1> QED BY <1>1, <1>2, <1>3, SoundStarts, Invariance, PTL DEF AudioSpec, ImplementsSoundQueue, Sound!Spec
=============================================================================
