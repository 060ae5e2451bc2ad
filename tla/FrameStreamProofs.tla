-------------------------- MODULE FrameStreamProofs --------------------------
(* Proofs about FrameStream: the stream of any source is complete and in   *)
(* order.                                                                  *)
EXTENDS FrameStream, TLAPS

StreamTypeOK ==
  /\ observed \in Nat
  /\ pending \in SUBSET Nat
  /\ queue \in Seq(SUBSET Nat)
  /\ shown \in SUBSET Nat
  /\ lost \in SUBSET Nat
  /\ open \in BOOLEAN

StreamInv == StreamTypeOK /\ NothingInvented /\ InOrder

\* Whatever the next frame takes of the pending I/Os is older than the rest.
LEMMA TakenIsOlder ==
  ASSUME StreamTypeOK, NEW upto \in Nat
  PROVE  /\ Taken(upto) \in SUBSET Nat
         /\ Taken(upto) \subseteq pending
         /\ Before(Taken(upto), pending \ Taken(upto))
<1>1. Taken(upto) \subseteq pending /\ pending \subseteq Nat
  BY DEF Taken, StreamTypeOK
<1>2. ASSUME NEW i \in Taken(upto), NEW j \in pending \ Taken(upto)
      PROVE  i < j
  <2>1. i \in Nat /\ j \in Nat /\ i <= upto /\ ~(j <= upto)
    BY <1>1 DEF Taken
  <2> QED
    BY <2>1
<1> QED
  BY <1>1, <1>2 DEF Before

LEMMA StreamInitInv == Init => StreamInv
BY DEF Init, StreamInv, StreamTypeOK, NothingInvented, InOrder, Before

LEMMA ObserveInv == StreamInv /\ Observe => StreamInv'
<1> SUFFICES ASSUME StreamInv, Observe PROVE StreamInv'
  OBVIOUS
<1> USE DEF StreamInv, StreamTypeOK
<1>1. StreamTypeOK'
  BY DEF Observe
<1>2. NothingInvented'
  <2>1. 1 .. observed + 1 = (1 .. observed) \cup {observed + 1}
    OBVIOUS
  <2> QED
    BY <2>1 DEF Observe, NothingInvented
<1>3. \A i \in shown \cup lost \cup UNION {queue[k] : k \in 1 .. Len(queue)} :
        i < observed + 1
  BY DEF NothingInvented
<1>4. InOrder'
  BY <1>3 DEF Observe, InOrder, Before
<1> QED
  BY <1>1, <1>2, <1>4 DEF Observe

LEMMA CutInv == ASSUME StreamInv, NEW upto \in 0 .. observed, Cut(upto)
                PROVE  StreamInv'
<1> USE DEF StreamInv
<1>1. upto \in Nat
  BY DEF StreamTypeOK
<1> DEFINE T == Taken(upto)
<1>2. /\ T \in SUBSET Nat
      /\ T \subseteq pending
      /\ Before(T, pending \ T)
  BY <1>1, TakenIsOlder
<1> HIDE DEF T
<1>3. /\ queue' = Append(queue, T)
      /\ pending' = pending \ T
      /\ UNCHANGED <<observed, shown, lost, open>>
  BY DEF Cut, T
<1>4. StreamTypeOK'
  BY <1>2, <1>3 DEF StreamTypeOK
<1>5. /\ Len(queue') = Len(queue) + 1
      /\ \A k \in 1 .. Len(queue) : queue'[k] = queue[k]
      /\ queue'[Len(queue) + 1] = T
      /\ Len(queue) \in Nat
  BY <1>2, <1>3 DEF StreamTypeOK
<1>6. UNION {queue'[k] : k \in 1 .. Len(queue')}
        = T \cup UNION {queue[k] : k \in 1 .. Len(queue)}
  BY <1>5
<1>7. NothingInvented'
  BY <1>2, <1>3, <1>6 DEF NothingInvented
<1>8. InOrder'
  <2>1. Before(shown \cup lost, pending') /\ shown' \cap lost' = {}
    BY <1>2, <1>3 DEF InOrder, Before
  <2>2. T \cap lost = {}
    BY <1>2 DEF InOrder, Before, StreamTypeOK
  <2>3. ASSUME NEW k \in 1 .. Len(queue')
        PROVE  /\ Before(shown, queue'[k])
               /\ Before(queue'[k], pending')
               /\ queue'[k] \cap lost = {}
    <3>1. CASE k \in 1 .. Len(queue)
      BY <1>2, <1>3, <1>5, <3>1 DEF InOrder, Before
    <3>2. CASE k = Len(queue) + 1
      BY <1>2, <1>3, <1>5, <2>2, <3>2 DEF InOrder, Before
    <3> QED
      BY <1>5, <3>1, <3>2
  <2>4. ASSUME NEW k \in 1 .. Len(queue'), NEW l \in 1 .. Len(queue'), k < l
        PROVE  Before(queue'[k], queue'[l])
    <3>1. k \in 1 .. Len(queue)
      BY <1>5, <2>4
    <3>2. CASE l \in 1 .. Len(queue)
      BY <1>5, <2>4, <3>1, <3>2 DEF InOrder
    <3>3. CASE l = Len(queue) + 1
      BY <1>2, <1>5, <3>1, <3>3 DEF InOrder, Before
    <3> QED
      BY <1>5, <3>2, <3>3
  <2> QED
    BY <1>3, <2>1, <2>3, <2>4 DEF InOrder
<1> QED
  BY <1>3, <1>4, <1>7, <1>8

LEMMA DropInv == ASSUME StreamInv, NEW upto \in 0 .. observed, Drop(upto)
                 PROVE  StreamInv'
<1> USE DEF StreamInv
<1>1. upto \in Nat
  BY DEF StreamTypeOK
<1> DEFINE T == Taken(upto)
<1>2. /\ T \in SUBSET Nat
      /\ T \subseteq pending
      /\ Before(T, pending \ T)
  BY <1>1, TakenIsOlder
<1> HIDE DEF T
<1>3. /\ lost' = lost \cup T
      /\ pending' = pending \ T
      /\ UNCHANGED <<observed, queue, shown, open>>
  BY DEF Drop, T
<1>4. StreamTypeOK'
  BY <1>2, <1>3 DEF StreamTypeOK
<1>5. NothingInvented'
  BY <1>2, <1>3 DEF NothingInvented
<1>6. /\ shown \cap T = {}
      /\ \A k \in 1 .. Len(queue) : queue[k] \cap T = {}
  BY <1>2 DEF InOrder, Before, StreamTypeOK
<1>7. InOrder'
  BY <1>2, <1>3, <1>6 DEF InOrder, Before
<1> QED
  BY <1>3, <1>4, <1>5, <1>7

LEMMA DeliverInv == StreamInv /\ Deliver => StreamInv'
<1> SUFFICES ASSUME StreamInv, Deliver PROVE StreamInv'
  OBVIOUS
<1> USE DEF StreamInv
<1>1. /\ queue # <<>>
      /\ shown' = shown \cup Head(queue)
      /\ queue' = Tail(queue)
      /\ UNCHANGED <<observed, pending, lost, open>>
  BY DEF Deliver
<1>2. /\ Len(queue) \in Nat \ {0}
      /\ Head(queue) = queue[1]
      /\ Len(queue') = Len(queue) - 1
      /\ \A k \in 1 .. Len(queue') : queue'[k] = queue[k + 1]
      /\ queue[1] \in SUBSET Nat
      /\ queue' \in Seq(SUBSET Nat)
  BY <1>1 DEF StreamTypeOK
<1>3. StreamTypeOK'
  BY <1>1, <1>2 DEF StreamTypeOK
<1>4. UNION {queue[k] : k \in 1 .. Len(queue)}
        = queue[1] \cup UNION {queue'[k] : k \in 1 .. Len(queue')}
  <2>1. ASSUME NEW k \in 1 .. Len(queue), k # 1
        PROVE  k - 1 \in 1 .. Len(queue') /\ queue'[k - 1] = queue[k]
    BY <1>2, <2>1
  <2>2. ASSUME NEW k \in 1 .. Len(queue')
        PROVE  k + 1 \in 1 .. Len(queue) /\ queue[k + 1] = queue'[k]
    BY <1>2
  <2>3. 1 \in 1 .. Len(queue)
    BY <1>2
  <2> QED
    BY <2>1, <2>2, <2>3
<1>5. NothingInvented'
  BY <1>1, <1>2, <1>4 DEF NothingInvented
<1>6. InOrder'
  <2>1. 1 \in 1 .. Len(queue)
    BY <1>2
  <2>2. Before(shown' \cup lost, pending) /\ shown' \cap lost = {}
    BY <1>1, <1>2, <2>1 DEF InOrder, Before
  <2>3. ASSUME NEW k \in 1 .. Len(queue')
        PROVE  k + 1 \in 1 .. Len(queue) /\ 1 < k + 1 /\ queue'[k] = queue[k + 1]
    BY <1>2
  <2>4. ASSUME NEW k \in 1 .. Len(queue')
        PROVE  /\ Before(shown', queue'[k])
               /\ Before(queue'[k], pending)
               /\ queue'[k] \cap lost = {}
    BY <1>1, <1>2, <2>1, <2>3 DEF InOrder, Before
  <2>5. ASSUME NEW k \in 1 .. Len(queue'), NEW l \in 1 .. Len(queue'), k < l
        PROVE  Before(queue'[k], queue'[l])
    <3>1. k + 1 < l + 1
      BY <1>2, <2>5
    <3> QED
      BY <2>3, <3>1 DEF InOrder
  <2> QED
    BY <1>1, <2>2, <2>4, <2>5 DEF InOrder
<1> QED
  BY <1>1, <1>3, <1>5, <1>6

LEMMA CloseInv == StreamInv /\ Close => StreamInv'
BY DEF Close, StreamInv, StreamTypeOK, NothingInvented, InOrder, Before

LEMMA StreamInvariant == Spec => []StreamInv
<1>1. StreamInv /\ [Next]_streamVars => StreamInv'
  <2> SUFFICES ASSUME StreamInv, [Next]_streamVars PROVE StreamInv'
    OBVIOUS
  <2>1. CASE Observe
    BY <2>1, ObserveInv
  <2>2. ASSUME NEW upto \in 0 .. observed, Cut(upto) \/ Drop(upto)
        PROVE  StreamInv'
    BY <2>2, CutInv, DropInv
  <2>3. CASE Deliver
    BY <2>3, DeliverInv
  <2>4. CASE Close
    BY <2>4, CloseInv
  <2>5. CASE UNCHANGED streamVars
    BY <2>5 DEF streamVars, StreamInv, StreamTypeOK, NothingInvented, InOrder, Before
  <2> QED
    BY <2>1, <2>2, <2>3, <2>4, <2>5 DEF Next
<1> QED
  BY StreamInitInv, <1>1, PTL DEF Spec

\* Whatever the source and its reader do, every reported I/O is in the stream
\* once, and the frames are in the order the I/Os were reported.
THEOREM StreamIsComplete == Spec => [](NothingInvented /\ InOrder)
<1>1. StreamInv => NothingInvented /\ InOrder
  BY DEF StreamInv
<1> QED
  BY StreamInvariant, <1>1, PTL
=============================================================================
