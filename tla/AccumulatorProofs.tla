-------------------------- MODULE AccumulatorProofs --------------------------
(* Proofs about Accumulator: frames are whole, the send never blocks, and  *)
(* the accumulator implements the stream of FrameStream, for every set of  *)
(* disks, every number of buckets and every capacity of the channel. And   *)
(* about FSUsage: whatever fs_usage prints and however it dies, the        *)
(* accumulator sees the one orderly adder that these theorems are about.   *)
EXTENDS FSUsage, TLAPS

USE DEF Full, Continue, Lock, Deleted, Stopped

-----------------------------------------------------------------------------
(* The inductive invariant *)

\* The mutex tells which goroutine is between its two maps.
LockInv ==
  /\ mu = "drain" <=> rpc = "drain"
  /\ mu = "add" => curr \in CellKey

\* From the look at the channel to the send, the room that it saw stays.
RoomInv ==
  /\ Len(frames) <= FrameCap
  /\ rpc \in {"lock", "drain", "send"} => Len(frames) < FrameCap

\* The two maps agree, but for the cell of the running add ...
MapsInv ==
  \A k \in StatKey :
    CellSum(IF rpc = "drain" THEN drained ELSE cells, k) =
      stats[k] \cup (IF mu = "add" /\ StatOf(curr) = k THEN {folded + 1} ELSE {})

\* ... and a drain that has emptied the first finds nothing new in it.
DrainInv == rpc = "drain" => cells = NoCells

AccInv == TypeOK /\ LockInv /\ RoomInv /\ MapsInv /\ DrainInv /\ NoTornFrame

-----------------------------------------------------------------------------
(* The operators *)

\* Scaling a position below m to one below n stays below n.
LEMMA ScaleInRange ==
  ASSUME NEW i \in Nat, NEW m \in Nat, NEW n \in Nat, i < m
  PROVE  (i * n) \div m \in 0 .. n - 1 \/ n = 0
<1> SUFFICES ASSUME n > 0 PROVE (i * n) \div m \in 0 .. n - 1
  OBVIOUS
<1>1. i * n \in Nat /\ i * n < m * n
  OBVIOUS
<1> DEFINE q == (i * n) \div m
<1>2. q \in Int /\ q * m <= i * n /\ i * n < q * m + m
  BY <1>1
<1> HIDE DEF q
<1>3. q >= 0
  <2>1. SUFFICES ASSUME q + 1 <= 0 PROVE FALSE
    BY <1>2
  <2>2. q * m + m = (q + 1) * m
    BY <1>2
  <2>3. (q + 1) * m <= 0
    BY <1>2, <2>1
  <2> QED
    BY <1>1, <1>2, <2>2, <2>3
<1>4. q < n
  <2>1. SUFFICES ASSUME n <= q PROVE FALSE
    BY <1>2
  <2>2. n * m <= q * m
    BY <1>2, <2>1
  <2> QED
    BY <1>1, <1>2, <2>2
<1> QED
  BY <1>2, <1>3, <1>4 DEF q

\* The bucket of an offset on the disk is a bucket of the map, so add never
\* writes a cell the display has no place for.
LEMMA BucketInRange ==
  ASSUME NEW dev \in Watched, NEW offset \in Int, OnDisk(dev, offset)
  PROVE  Bucket(dev, offset) \in 0 .. Buckets - 1
<1>1. /\ Media[dev] \in Nat /\ offset \in Nat /\ offset < Media[dev]
      /\ Buckets \in Nat /\ Buckets # 0
  BY MediaAssumption, BucketsAssumption DEF OnDisk
<1> QED
  BY <1>1, ScaleInRange DEF Bucket

LEMMA StatOfCell == \A c \in CellKey : StatOf(c) \in StatKey
BY DEF CellKey, StatKey, StatOf

\* Adding an I/O to one cell adds it to the sum of that cell's disk and
\* command, and to no other.
LEMMA CellSumAdd ==
  ASSUME NEW c \in CellKey, cells \in [CellKey -> SUBSET Nat],
         cells' = [cells EXCEPT ![c] = @ \cup {folded + 1}]
  PROVE  \A k \in StatKey :
           CellSum(cells', k) =
             CellSum(cells, k) \cup (IF StatOf(c) = k THEN {folded + 1} ELSE {})
<1> TAKE k \in StatKey
<1> DEFINE K == {d \in CellKey : StatOf(d) = k}
           i == folded + 1
<1> HIDE DEF i
<1>1. \A d \in CellKey :
        cells'[d] = IF d = c THEN cells[c] \cup {i} ELSE cells[d]
  BY DEF i
<1>2. c \in K <=> StatOf(c) = k
  OBVIOUS
<1>3. UNION {cells'[d] : d \in K} =
        (UNION {cells[d] : d \in K}) \cup (IF c \in K THEN {i} ELSE {})
  BY <1>1
<1> QED
  BY <1>2, <1>3 DEF CellSum, i

\* Empty maps agree.
LEMMA CellSumEmpty == \A k \in StatKey : CellSum(NoCells, k) = {} /\ NoStats[k] = {}
BY DEF CellSum, NoCells, NoStats

\* A queue keeps its head when it grows at the end.
LEMMA HeadTailAppend ==
  ASSUME NEW S, NEW q \in Seq(S), NEW x \in S, q # <<>>
  PROVE  /\ Append(q, x) # <<>>
         /\ Head(Append(q, x)) = Head(q)
         /\ Tail(Append(q, x)) = Append(Tail(q), x)
OBVIOUS

LEMMA EmptyFrame == NoFrame \in Frame /\ Matches(NoFrame)
BY CellSumEmpty DEF NoFrame, Frame, Matches, NoCells, NoStats

-----------------------------------------------------------------------------
(* The steps *)

LEMMA AccInitInv == Init => AccInv
<1> SUFFICES ASSUME Init PROVE AccInv
  OBVIOUS
<1>1. NoCells \in [CellKey -> SUBSET Nat] /\ NoStats \in [StatKey -> SUBSET Nat]
  BY DEF NoCells, NoStats
<1>2. TypeOK
  <2>1. frames \in Seq(Frame) /\ folded \in Nat /\ shown \in SUBSET Nat
    BY DEF Init
  <2>2. held \in Frame
    BY EmptyFrame DEF Init
  <2> QED
    BY <1>1, <2>1, <2>2 DEF Init, TypeOK
<1>3. MapsInv
  BY CellSumEmpty DEF Init, MapsInv
<1>4. NoTornFrame
  BY EmptyFrame DEF Init, NoTornFrame
<1> QED
  BY <1>2, <1>3, <1>4, FrameCapAssumption DEF Init, AccInv, LockInv, RoomInv, DrainInv

LEMMA AddCellInv ==
  ASSUME AccInv, NEW dev \in Watched \cup Unwatched, NEW cmd \in Cmd,
         NEW offset \in Offsets, AddCell(dev, cmd, offset)
  PROVE  AccInv'
<1> DEFINE k == [dev |-> dev, cmd |-> cmd, bucket |-> Bucket(dev, offset)]
<1>1. k \in CellKey
  <2>1. dev \in Watched /\ OnDisk(dev, offset) /\ offset \in Int
    BY OffsetsAssumption DEF AddCell, OnDisk
  <2>2. Bucket(dev, offset) \in 0 .. Buckets - 1
    BY <2>1, BucketInRange
  <2> QED
    BY <2>1, <2>2 DEF CellKey
<1>2. /\ mu = "free" /\ mu' = "add"
      /\ cells' = [cells EXCEPT ![k] = @ \cup {folded + 1}]
      /\ curr' = k
      /\ UNCHANGED <<stats, folded, rpc, drained, held, frames, tick,
                     cancelled, done, shown>>
  BY DEF AddCell
<1> HIDE DEF k
<1> USE DEF AccInv
<1>3. rpc # "drain" /\ cells \in [CellKey -> SUBSET Nat] /\ folded + 1 \in Nat
  BY <1>2 DEF LockInv, TypeOK
<1>4. TypeOK'
  BY <1>1, <1>2, <1>3 DEF TypeOK
<1>5. MapsInv'
  <2>1. \A s \in StatKey : CellSum(cells, s) = stats[s]
    BY <1>2, <1>3 DEF MapsInv
  <2>2. \A s \in StatKey : CellSum(cells', s) =
          CellSum(cells, s) \cup (IF StatOf(k) = s THEN {folded + 1} ELSE {})
    BY <1>1, <1>2, <1>3, CellSumAdd
  <2> QED
    BY <1>2, <1>3, <2>1, <2>2 DEF MapsInv
<1> QED
  BY <1>1, <1>2, <1>3, <1>4, <1>5 DEF LockInv, RoomInv, DrainInv, NoTornFrame

LEMMA AddStatInv == AccInv /\ AddStat => AccInv'
<1> SUFFICES ASSUME AccInv, AddStat PROVE AccInv'
  OBVIOUS
<1> USE DEF AccInv
<1>1. /\ mu = "add" /\ mu' = "free" /\ curr' = NoCell /\ folded' = folded + 1
      /\ stats' = [stats EXCEPT ![StatOf(curr)] = @ \cup {folded + 1}]
      /\ UNCHANGED <<cells, rpc, drained, held, frames, tick, cancelled, done,
                     shown>>
  BY DEF AddStat
<1>2. curr \in CellKey /\ StatOf(curr) \in StatKey /\ rpc # "drain"
  BY <1>1, StatOfCell DEF LockInv
<1>3. stats \in [StatKey -> SUBSET Nat] /\ folded \in Nat
  BY DEF TypeOK
<1>4. \A s \in StatKey :
        stats'[s] = stats[s] \cup (IF StatOf(curr) = s THEN {folded + 1} ELSE {})
  BY <1>1, <1>2, <1>3
<1>5. TypeOK'
  BY <1>1, <1>2, <1>3 DEF TypeOK
<1>6. MapsInv'
  BY <1>1, <1>2, <1>4 DEF MapsInv
<1> QED
  BY <1>1, <1>2, <1>5, <1>6 DEF LockInv, RoomInv, DrainInv, NoTornFrame

LEMMA DrainCellsInv == AccInv /\ DrainCells => AccInv'
<1> SUFFICES ASSUME AccInv, DrainCells PROVE AccInv'
  OBVIOUS
<1> USE DEF AccInv
<1>1. TypeOK'
  BY DEF DrainCells, TypeOK, NoCells
<1>2. MapsInv'
  BY DEF DrainCells, MapsInv
<1> QED
  BY <1>1, <1>2 DEF DrainCells, LockInv, RoomInv, DrainInv, NoTornFrame

LEMMA DrainStatsInv == AccInv /\ DrainStats => AccInv'
<1> SUFFICES ASSUME AccInv, DrainStats PROVE AccInv'
  OBVIOUS
<1> USE DEF AccInv
<1>1. /\ rpc = "drain" /\ mu = "drain" /\ cells = NoCells
      /\ cells' = cells /\ stats' = NoStats /\ mu' = "free" /\ rpc' = "send"
      /\ held' = [cells |-> drained, stats |-> stats]
      /\ frames' = frames
  BY DEF DrainStats, LockInv, DrainInv
<1>2. TypeOK'
  BY DEF DrainStats, TypeOK, Frame, NoCells, NoStats
<1>3. Matches(held')
  BY <1>1 DEF MapsInv, Matches
<1>4. MapsInv'
  BY <1>1, CellSumEmpty DEF MapsInv
<1> QED
  BY <1>1, <1>2, <1>3, <1>4 DEF DrainStats, LockInv, RoomInv, DrainInv, NoTornFrame

LEMMA SendInv == AccInv /\ Send => AccInv'
<1> SUFFICES ASSUME AccInv, Send PROVE AccInv'
  OBVIOUS
<1> USE DEF AccInv
<1>1. TypeOK'
  BY EmptyFrame DEF Send, TypeOK
<1>2. NoTornFrame'
  <2>1. /\ Len(frames') = Len(frames) + 1
        /\ Len(frames) \in Nat
        /\ \A k \in 1 .. Len(frames) : frames'[k] = frames[k]
        /\ frames'[Len(frames) + 1] = held
    BY DEF Send, TypeOK
  <2>2. ASSUME NEW k \in 1 .. Len(frames') PROVE Matches(frames'[k])
    <3>1. CASE k \in 1 .. Len(frames)
      BY <2>1, <3>1 DEF NoTornFrame
    <3>2. CASE k = Len(frames) + 1
      BY <2>1, <3>2 DEF NoTornFrame
    <3> QED
      BY <2>1, <3>1, <3>2
  <2> QED
    BY <2>2, EmptyFrame DEF Send, NoTornFrame
<1>3. MapsInv'
  BY DEF Send, MapsInv
<1>4. RoomInv'
  BY FrameCapAssumption DEF Send, RoomInv, TypeOK
<1> QED
  BY <1>1, <1>2, <1>3, <1>4 DEF Send, LockInv, DrainInv

LEMMA ReceiveInv == AccInv /\ Receive => AccInv'
<1> SUFFICES ASSUME AccInv, Receive PROVE AccInv'
  OBVIOUS
<1> USE DEF AccInv
<1>1. /\ frames \in Seq(Frame) /\ frames # <<>>
      /\ frames' = Tail(frames)
      /\ UNCHANGED <<cells, stats, mu, curr, folded, rpc, drained, held, tick,
                     cancelled, done>>
  BY DEF Receive, TypeOK
<1>2. /\ Len(frames) \in Nat \ {0}
      /\ Len(frames') = Len(frames) - 1
      /\ \A k \in 1 .. Len(frames') : frames'[k] = frames[k + 1]
      /\ Head(frames) \in Frame
      /\ frames' \in Seq(Frame)
  BY <1>1
<1>3. IOs(Head(frames)) \in SUBSET Nat
  BY <1>2 DEF IOs, Frame
<1>4. TypeOK'
  BY <1>1, <1>2, <1>3 DEF Receive, TypeOK
<1>5. NoTornFrame'
  BY <1>1, <1>2 DEF NoTornFrame
<1> QED
  BY <1>1, <1>2, <1>4, <1>5, FrameCapAssumption
     DEF LockInv, RoomInv, MapsInv, DrainInv

LEMMA OtherInv ==
  AccInv /\ (Tick \/ SelectTick \/ SelectStop \/ Cancel \/ CloseDone
             \/ UNCHANGED accVars) => AccInv'
<1> SUFFICES ASSUME AccInv,
                    Tick \/ SelectTick \/ SelectStop \/ Cancel \/ CloseDone
                    \/ UNCHANGED accVars
             PROVE  AccInv'
  OBVIOUS
<1> USE DEF AccInv
<1>1. UNCHANGED <<cells, stats, mu, curr, folded, drained, held, frames, shown>>
  BY DEF Tick, SelectTick, SelectStop, Cancel, CloseDone, accVars
<1>2. /\ rpc' \in {rpc, "select", "lock", "closed"}
      /\ rpc' = "lock" => rpc = "lock" \/ Len(frames) # FrameCap
      /\ rpc # "select" => rpc' = rpc
      /\ tick' \in BOOLEAN /\ cancelled' \in BOOLEAN /\ done' \in BOOLEAN
  BY DEF Tick, SelectTick, SelectStop, Cancel, CloseDone, accVars, TypeOK
<1>3. rpc' = "drain" <=> rpc = "drain"
  BY <1>2
<1>4. TypeOK' /\ LockInv'
  BY <1>1, <1>2, <1>3 DEF TypeOK, LockInv
<1>5. MapsInv' /\ DrainInv' /\ NoTornFrame'
  BY <1>1, <1>3 DEF MapsInv, DrainInv, NoTornFrame
<1>6. RoomInv'
  <2>1. Len(frames) \in Nat
    BY DEF TypeOK
  <2> QED
    BY <1>1, <1>2, <2>1, FrameCapAssumption DEF RoomInv
<1> QED
  BY <1>4, <1>5, <1>6

LEMMA AccStepInv == AccInv /\ [Next]_accVars => AccInv'
<1> SUFFICES ASSUME AccInv, [Next]_accVars PROVE AccInv'
  OBVIOUS
<1>1. ASSUME NEW dev \in Watched \cup Unwatched, NEW cmd \in Cmd,
             NEW offset \in Offsets, AddCell(dev, cmd, offset)
      PROVE  AccInv'
  BY <1>1, AddCellInv
<1>2. CASE AddStat
  BY <1>2, AddStatInv
<1>3. CASE DrainCells
  BY <1>3, DrainCellsInv
<1>4. CASE DrainStats
  BY <1>4, DrainStatsInv
<1>5. CASE Send
  BY <1>5, SendInv
<1>6. CASE Receive
  BY <1>6, ReceiveInv
<1>7. CASE Tick \/ SelectTick \/ SelectStop \/ Cancel \/ CloseDone
           \/ UNCHANGED accVars
  BY <1>7, OtherInv
<1> QED
  BY <1>1, <1>2, <1>3, <1>4, <1>5, <1>6, <1>7 DEF Next, RunStep, Finished

LEMMA AccInvariant == Spec => []AccInv
<1> QED
  BY AccInitInv, AccStepInv, PTL DEF Spec

-----------------------------------------------------------------------------
(* Safety *)

\* The state of the accumulator keeps its types: in particular every cell it
\* writes is a cell of the map.
THEOREM TypeCorrect == Spec => []TypeOK
<1>1. AccInv => TypeOK
  BY DEF AccInv
<1> QED
  BY AccInvariant, <1>1, PTL

\* Every frame's totals are the sums of its cells.
THEOREM FramesAreWhole == Spec => []NoTornFrame
<1>1. AccInv => NoTornFrame
  BY DEF AccInv
<1> QED
  BY AccInvariant, <1>1, PTL

\* The send after a drain always finds room in the channel.
THEOREM SendHasRoom == Spec => []SendNeverBlocks
<1>1. AccInv => SendNeverBlocks
  BY DEF AccInv, RoomInv, SendNeverBlocks
<1> QED
  BY AccInvariant, <1>1, PTL

-----------------------------------------------------------------------------
(* The accumulator implements the stream *)

\* What is in the maps has been folded.
PendingInv == \A k \in StatKey : stats[k] \subseteq 1 .. folded

LEMMA PendingInvariant == Spec => []PendingInv
<1>1. Init => PendingInv
  BY DEF Init, PendingInv, NoStats
<1>2. AccInv /\ PendingInv /\ [Next]_accVars => PendingInv'
  <2> SUFFICES ASSUME AccInv, PendingInv, [Next]_accVars PROVE PendingInv'
    OBVIOUS
  <2>1. stats \in [StatKey -> SUBSET Nat] /\ folded \in Nat
    BY DEF AccInv, TypeOK
  <2>2. CASE AddStat
    BY <2>1, <2>2 DEF AddStat, PendingInv
  <2>3. CASE DrainStats
    BY <2>3 DEF DrainStats, PendingInv, NoStats
  <2>4. CASE UNCHANGED <<stats, folded>>
    BY <2>4 DEF PendingInv
  <2> QED
    BY <2>2, <2>3, <2>4 DEF Next, RunStep, AddCell, Tick, SelectTick, DrainCells,
         Send, SelectStop, Receive, Cancel, CloseDone, Finished, accVars
<1> QED
  BY AccInvariant, <1>1, <1>2, PTL DEF Spec

\* An add that completes is an I/O that becomes pending.
LEMMA AddStatObserves == AccInv /\ AddStat => Stream!Observe
<1> SUFFICES ASSUME AccInv, AddStat PROVE Stream!Observe
  OBVIOUS
<1>1. /\ mu = "add" /\ curr \in CellKey
      /\ stats \in [StatKey -> SUBSET Nat]
      /\ stats' = [stats EXCEPT ![StatOf(curr)] = @ \cup {folded + 1}]
      /\ UNCHANGED <<frames, rpc, held, shown>>
      /\ folded' = folded + 1
  BY DEF AddStat, AccInv, LockInv, TypeOK
<1>2. StatOf(curr) \in StatKey
  BY <1>1, StatOfCell
<1>3. \A k \in StatKey :
        stats'[k] = stats[k] \cup (IF k = StatOf(curr) THEN {folded + 1} ELSE {})
  BY <1>1, <1>2
<1>4. Pending' = Pending \cup {folded + 1}
  BY <1>2, <1>3 DEF Pending
<1>5. UNCHANGED Queue
  BY <1>1 DEF Queue, IOs
<1> QED
  BY <1>1, <1>4, <1>5 DEF Stream!Observe

\* A drain that completes cuts all that is pending.
LEMMA DrainStatsCuts ==
  AccInv /\ PendingInv /\ DrainStats => Stream!Cut(folded)
<1> SUFFICES ASSUME AccInv, PendingInv, DrainStats PROVE Stream!Cut(folded)
  OBVIOUS
<1>1. /\ rpc = "drain" /\ rpc' = "send" /\ stats' = NoStats
      /\ held' = [cells |-> drained, stats |-> stats]
      /\ UNCHANGED <<frames, folded, shown>>
      /\ Len(frames) < FrameCap
      /\ frames \in Seq(Frame) /\ folded \in Nat
  BY DEF DrainStats, AccInv, RoomInv, TypeOK
<1>2. Stream!Taken(folded) = Pending
  BY <1>1 DEF Stream!Taken, Pending, PendingInv
<1>3. Pending' = {} /\ IOs(held') = Pending
  BY <1>1 DEF Pending, NoStats, IOs
<1> DEFINE sent == [k \in 1 .. Len(frames) |-> IOs(frames[k])]
<1>4. Queue = sent /\ Queue' = Append(sent, IOs(held'))
  BY <1>1 DEF Queue
<1>5. Len(sent) = Len(frames)
  BY <1>1
<1> HIDE DEF sent
<1> QED
  BY <1>1, <1>2, <1>3, <1>4, <1>5 DEF Stream!Cut

\* The send itself changes nothing: the frame was cut by the drain.
LEMMA SendStutters == AccInv /\ Send => UNCHANGED Stream!streamVars
<1> SUFFICES ASSUME AccInv, Send PROVE UNCHANGED Stream!streamVars
  OBVIOUS
<1>1. /\ rpc = "send" /\ rpc' = "select"
      /\ frames' = Append(frames, held)
      /\ frames \in Seq(Frame) /\ held \in Frame
      /\ UNCHANGED <<stats, folded, shown>>
  BY DEF Send, AccInv, TypeOK
<1>2. /\ Len(frames') = Len(frames) + 1 /\ Len(frames) \in Nat
      /\ \A k \in 1 .. Len(frames) : frames'[k] = frames[k]
      /\ frames'[Len(frames) + 1] = held
  BY <1>1
<1> DEFINE sent  == [k \in 1 .. Len(frames) |-> IOs(frames[k])]
           sent2 == [k \in 1 .. Len(frames') |-> IOs(frames'[k])]
           X     == SUBSET Nat
<1>3. \A f \in Frame : IOs(f) \in X
  BY DEF IOs, Frame
<1>4. sent \in Seq(X) /\ Len(sent) = Len(frames) /\ IOs(held) \in X
  BY <1>1, <1>3
<1>5. sent2 \in Seq(X) /\ Len(sent2) = Len(frames) + 1
  <2>1. \A k \in 1 .. Len(frames') : frames'[k] \in Frame
    BY <1>1, <1>2
  <2> QED
    BY <1>2, <1>3, <2>1
<1>6. \A k \in 1 .. Len(frames) + 1 : sent2[k] = Append(sent, IOs(held))[k]
  BY <1>2, <1>4
<1> HIDE DEF sent, sent2
<1>7. sent2 = Append(sent, IOs(held))
  BY <1>4, <1>5, <1>6
<1>8. UNCHANGED Queue
  BY <1>1, <1>7 DEF Queue, sent, sent2
<1>9. UNCHANGED Pending
  BY <1>1 DEF Pending
<1> QED
  BY <1>1, <1>8, <1>9 DEF Stream!streamVars

\* What the display receives is the head of the stream.
LEMMA ReceiveDelivers == AccInv /\ Receive => Stream!Deliver
<1> SUFFICES ASSUME AccInv, Receive PROVE Stream!Deliver
  OBVIOUS
<1>1. /\ frames \in Seq(Frame) /\ frames # <<>> /\ frames' = Tail(frames)
      /\ shown' = shown \cup IOs(Head(frames))
      /\ UNCHANGED <<stats, folded, rpc, held>>
      /\ held \in Frame
  BY DEF Receive, AccInv, TypeOK
<1>2. /\ Len(frames) \in Nat \ {0} /\ Head(frames) = frames[1]
      /\ Len(frames') = Len(frames) - 1
      /\ \A k \in 1 .. Len(frames') : frames'[k] = frames[k + 1]
  BY <1>1
<1> DEFINE sent  == [k \in 1 .. Len(frames) |-> IOs(frames[k])]
           sent2 == [k \in 1 .. Len(frames') |-> IOs(frames'[k])]
           X     == SUBSET Nat
<1>3. \A f \in Frame : IOs(f) \in X
  BY DEF IOs, Frame
<1>4. /\ sent \in Seq(X) /\ Len(sent) = Len(frames)
      /\ sent # <<>> /\ Head(sent) = IOs(Head(frames)) /\ IOs(held) \in X
  BY <1>1, <1>2, <1>3
<1>5. sent2 = Tail(sent)
  BY <1>2, <1>4
<1> HIDE DEF sent, sent2
<1>6. /\ Append(sent, IOs(held)) # <<>>
      /\ Head(Append(sent, IOs(held))) = Head(sent)
      /\ Tail(Append(sent, IOs(held))) = Append(Tail(sent), IOs(held))
  BY <1>4, HeadTailAppend
<1>7. Queue # <<>> /\ Head(Queue) = IOs(Head(frames)) /\ Queue' = Tail(Queue)
  BY <1>1, <1>4, <1>5, <1>6 DEF Queue, sent, sent2
<1>8. UNCHANGED Pending
  BY <1>1 DEF Pending
<1> QED
  BY <1>1, <1>7, <1>8 DEF Stream!Deliver

LEMMA OtherStutters ==
  ASSUME UNCHANGED <<stats, folded, frames, held, shown>>,
         rpc' = "send" <=> rpc = "send", rpc' = "closed" <=> rpc = "closed"
  PROVE  UNCHANGED Stream!streamVars
<1>1. UNCHANGED Pending /\ UNCHANGED Queue
  BY DEF Pending, Queue, IOs
<1> QED
  BY <1>1 DEF Stream!streamVars

LEMMA StopCloses == SelectStop => Stream!Close
<1> SUFFICES ASSUME SelectStop PROVE Stream!Close
  OBVIOUS
<1>1. /\ rpc = "select" /\ rpc' = "closed"
      /\ UNCHANGED <<stats, folded, frames, held, shown>>
  BY DEF SelectStop
<1>2. UNCHANGED Pending /\ UNCHANGED Queue
  BY <1>1 DEF Pending, Queue, IOs
<1> QED
  BY <1>1, <1>2 DEF Stream!Close

\* The accumulator implements a stream without drops, for a channel of any
\* capacity and any set of disks.
THEOREM AccumulatorImplementsStream == Spec => ImplementsStream
<1>1. Init => Stream!Init
  <2> SUFFICES ASSUME Init PROVE Stream!Init
    OBVIOUS
  <2>1. Pending = {} /\ Queue = <<>>
    BY DEF Init, Pending, Queue, NoStats
  <2> QED
    BY <2>1 DEF Init, Stream!Init
<1>2. AccInv /\ PendingInv /\ [Next]_accVars
        => [Stream!Next]_(Stream!streamVars)
  <2> SUFFICES ASSUME AccInv, PendingInv, [Next]_accVars
               PROVE  [Stream!Next]_(Stream!streamVars)
    OBVIOUS
  <2>1. CASE AddStat
    BY <2>1, AddStatObserves DEF Stream!Next
  <2>2. CASE DrainStats
    <3>1. folded \in 0 .. folded
      BY DEF AccInv, TypeOK
    <3> QED
      BY <2>2, <3>1, DrainStatsCuts DEF Stream!Next
  <2>3. CASE Send
    BY <2>3, SendStutters
  <2>4. CASE Receive
    BY <2>4, ReceiveDelivers DEF Stream!Next
  <2>5. CASE SelectStop
    BY <2>5, StopCloses DEF Stream!Next
  <2>6. CASE \/ \E dev \in Watched \cup Unwatched, cmd \in Cmd,
                  offset \in Offsets : AddCell(dev, cmd, offset)
             \/ Tick \/ SelectTick \/ DrainCells \/ Cancel \/ CloseDone
             \/ UNCHANGED accVars
    BY <2>6, OtherStutters DEF AddCell, Tick, SelectTick, DrainCells, Cancel,
         CloseDone, accVars
  <2> QED
    BY <2>1, <2>2, <2>3, <2>4, <2>5, <2>6 DEF Next, RunStep, Finished
<1> QED
  BY AccInvariant, PendingInvariant, <1>1, <1>2, PTL
     DEF Spec, ImplementsStream, Stream!Spec

\* FrameStream's own theorems, about the stream that Accumulator implements.
Complete == INSTANCE FrameStreamProofs WITH
  MayDrop <- FALSE, observed <- folded, pending <- Pending, queue <- Queue,
  lost <- {}, open <- (rpc # "closed")

\* So the I/Os that were folded are all in the stream, once and in order.
THEOREM IOsAreCountedOnce == Spec => []EveryIOOnce
<1>1. Stream!Init => Complete!Init
  BY DEF Stream!Init, Complete!Init
<1>2. [Stream!Next]_(Stream!streamVars) => [Complete!Next]_(Complete!streamVars)
  BY DEF Stream!Next, Stream!Observe, Stream!Cut, Stream!Drop, Stream!Taken,
         Stream!Deliver, Stream!Close, Stream!streamVars, Complete!Next,
         Complete!Observe, Complete!Cut, Complete!Drop, Complete!Taken,
         Complete!Deliver, Complete!Close, Complete!streamVars
<1>3. Complete!NothingInvented /\ Complete!InOrder => EveryIOOnce
  BY DEF Complete!NothingInvented, Complete!InOrder, Complete!Before,
         Stream!NothingInvented, Stream!InOrder, Stream!Before, EveryIOOnce
<1> QED
  BY AccumulatorImplementsStream, Complete!StreamIsComplete, <1>1, <1>2, <1>3,
     PTL DEF ImplementsStream, Stream!Spec, Complete!Spec
-----------------------------------------------------------------------------
(* FSUsage uses the accumulator *)

PipeInv == pipe \in Seq(Lines)

LEMMA PipeInvariant == FSSpec => []PipeInv
<1>1. FSInit => PipeInv
  BY DEF FSInit, PipeInv
<1>2. PipeInv /\ [FSNext]_fsVars => PipeInv'
  <2> SUFFICES ASSUME PipeInv, [FSNext]_fsVars PROVE PipeInv'
    OBVIOUS
  <2> USE DEF PipeInv
  <2>1. ASSUME NEW line \in Lines, PrintLine(line) PROVE PipeInv'
    BY <2>1 DEF PrintLine
  <2>2. CASE FoldLine \/ SkipLine
    BY <2>2 DEF FoldLine, SkipLine, NextLines, Scanned
  <2>3. ASSUME NEW n \in 0 .. Len(pipe), WaitReturns(n) PROVE PipeInv'
    BY <2>3 DEF WaitReturns
  <2>4. CASE UNCHANGED pipe
    BY <2>4
  <2> QED
    BY <2>1, <2>2, <2>3, <2>4 DEF FSNext, Exit, EndOfOutput, LineTooLong, Report,
         FSFinished, procVars, fsVars
<1> QED
  BY <1>1, <1>2, PTL DEF FSSpec

\* A line that is folded is an add of the accumulator's.
LEMMA FoldLineAdds == PipeInv /\ FoldLine => Next
<1> SUFFICES ASSUME PipeInv, FoldLine PROVE Next
  OBVIOUS
<1> DEFINE l == Head(pipe)
<1>1. l \in Lines /\ Folds(l)
  BY DEF PipeInv, FoldLine, Scanned
<1>2. DiskOf(l) \in Watched /\ CmdOf(l) \in Cmd /\ OffsetOf(l) \in Offsets
  BY <1>1, OffsetsCoverLines, CmdAssumption DEF Folds, Known, CmdOf
<1> QED
  BY <1>2 DEF FoldLine, Next

\* Every step of FSUsage is a step of the accumulator, or none.
THEOREM FSUsageUsesAccumulator == FSSpec => UsesAccumulator
<1>1. FSInit => Init
  BY DEF FSInit
<1>2. PipeInv /\ [FSNext]_fsVars => [Next]_accVars
  <2> SUFFICES ASSUME PipeInv, [FSNext]_fsVars PROVE [Next]_accVars
    OBVIOUS
  <2>1. CASE FoldLine
    BY <2>1, FoldLineAdds
  <2>2. CASE AddStat \/ EndOfOutput \/ LineTooLong \/ Tick \/ RunStep \/ Receive \/ Cancel
    BY <2>2 DEF Next, EndOfOutput, LineTooLong
  <2>3. CASE UNCHANGED accVars
    BY <2>3
  <2> QED
    BY <2>1, <2>2, <2>3 DEF FSNext, PrintLine, Exit, SkipLine, WaitReturns,
         Report, FSFinished, Finished, fsVars
<1> QED
  BY PipeInvariant, <1>1, <1>2, PTL DEF FSSpec, UsesAccumulator, Spec

\* So the frames of fs_usage are whole, and count every I/O once and in order.
THEOREM FSUsageFrames == FSSpec => [](NoTornFrame /\ EveryIOOnce)
<1> QED
  BY FSUsageUsesAccumulator, FramesAreWhole, IOsAreCountedOnce, PTL
     DEF UsesAccumulator

-----------------------------------------------------------------------------
(* No line is counted twice *)

\* An I/O that the accumulator has folded, or is folding, was a line that is
\* not in the pipe any more.
CountInv ==
  /\ printed \in 0 .. MaxLines
  /\ proc \in {"running", "ok", "failed"}
  /\ waiter \in {"wait", "check", "closed"}
  /\ folded + Len(pipe) + (IF mu = "add" THEN 1 ELSE 0) <= printed

LEMMA CountStep ==
  AccInv /\ PipeInv /\ CountInv /\ [FSNext]_fsVars => CountInv'
<1> SUFFICES ASSUME AccInv, PipeInv, CountInv, [FSNext]_fsVars PROVE CountInv'
  OBVIOUS
<1>1. /\ pipe \in Seq(Lines) /\ Len(pipe) \in Nat /\ folded \in Nat
      /\ printed \in Nat /\ MaxLines \in Nat
      /\ rpc = "drain" => mu = "drain"
      /\ mu \in {"free", "add", "drain"}
  BY MaxLinesAssumption DEF AccInv, TypeOK, LockInv, PipeInv, CountInv
<1>2. ASSUME NEW line \in Lines, PrintLine(line) PROVE CountInv'
  <2>1. Len(pipe') = Len(pipe) + 1
    BY <1>1, <1>2 DEF PrintLine
  <2> QED
    BY <1>1, <1>2, <2>1 DEF PrintLine, CountInv, accVars
<1>3. ASSUME Scanned, pipe' = Tail(pipe) PROVE Len(pipe') = Len(pipe) - 1
  BY <1>1, <1>3 DEF Scanned
<1>4. CASE FoldLine
  <2>1. mu' = "add" /\ mu # "add" /\ UNCHANGED <<folded, printed, proc, waiter>>
    BY <1>4 DEF FoldLine, AddCell, Scanned
  <2>2. Len(pipe') = Len(pipe) - 1
    BY <1>3, <1>4 DEF FoldLine, NextLines
  <2> QED
    BY <1>1, <2>1, <2>2 DEF CountInv
<1>5. CASE SkipLine
  <2>1. UNCHANGED <<mu, folded, printed, proc, waiter>>
    BY <1>5 DEF SkipLine, accVars
  <2>2. Len(pipe') = Len(pipe) - 1
    BY <1>3, <1>5 DEF SkipLine, NextLines
  <2> QED
    BY <1>1, <2>1, <2>2 DEF CountInv
<1>6. CASE AddStat /\ UNCHANGED procVars
  BY <1>1, <1>6 DEF AddStat, procVars, CountInv
<1>7. ASSUME NEW n \in 0 .. Len(pipe), WaitReturns(n) PROVE CountInv'
  <2>1. Len(pipe') <= Len(pipe) /\ Len(pipe') \in Nat
    BY <1>1, <1>7 DEF WaitReturns
  <2> QED
    BY <1>1, <1>7, <2>1 DEF WaitReturns, CountInv, accVars
<1>8. CASE (DrainCells \/ DrainStats) /\ UNCHANGED procVars
  BY <1>1, <1>8 DEF DrainCells, DrainStats, Lock, procVars, CountInv
<1>9. CASE \/ \E status \in {"ok", "failed"} : Exit(status)
           \/ EndOfOutput \/ LineTooLong \/ Report \/ FSFinished
           \/ (Tick \/ SelectTick \/ Send \/ SelectStop \/ Receive \/ Cancel)
                /\ UNCHANGED procVars
           \/ UNCHANGED fsVars
  <2>1. /\ UNCHANGED <<mu, folded, printed, pipe>>
        /\ proc' \in {proc, "ok", "failed"} /\ waiter' \in {waiter, "closed"}
    BY <1>9 DEF Exit, EndOfOutput, LineTooLong, CloseDone, Report, FSFinished,
         Finished, Tick, SelectTick, Send, SelectStop, Receive, Cancel, procVars,
         accVars, fsVars
  <2> QED
    BY <2>1 DEF CountInv
<1> QED
  BY <1>2, <1>4, <1>5, <1>6, <1>7, <1>8, <1>9 DEF FSNext, RunStep

\* Whatever fs_usage prints and wherever it dies, no more I/Os are counted than
\* there were lines, and what FSUsage and its accumulator keep has its type.
THEOREM FSTypeCorrect == FSSpec => []FSTypeOK
<1>1. FSInit => CountInv
  BY MaxLinesAssumption DEF FSInit, Init, CountInv
<1>2. AccInv /\ PipeInv /\ CountInv => FSTypeOK
  <2> SUFFICES ASSUME AccInv, PipeInv, CountInv PROVE FSTypeOK
    OBVIOUS
  <2>1. /\ Len(pipe) \in Nat /\ folded \in Nat /\ printed \in Nat
        /\ \A k \in DOMAIN pipe : pipe[k] \in Lines
    BY DEF AccInv, TypeOK, PipeInv, CountInv
  <2>2. TypeOK
    BY DEF AccInv
  <2>3. Len(pipe) <= printed
    BY <2>1 DEF CountInv
  <2> QED
    BY <2>1, <2>2, <2>3 DEF CountInv, FSTypeOK
<1>3. FSSpec => []AccInv
  BY FSUsageUsesAccumulator, AccInvariant, PTL DEF UsesAccumulator
<1> QED
  BY PipeInvariant, CountStep, <1>1, <1>2, <1>3, PTL DEF FSSpec
=============================================================================
