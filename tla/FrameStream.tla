----------------------------- MODULE FrameStream -----------------------------
(***************************************************************************)
(* What a bio.Source promises its reader (src/bio/bio.go, Source and       *)
(* Frame): the I/Os of the watched disks arrive as a stream of frames on a *)
(* bounded channel, which closes when watching stops.                      *)
(*                                                                         *)
(* An I/O is its number in the order the system reported it, a frame is    *)
(* the set of the I/Os it accounts for, and the number of bytes or of      *)
(* operations in a frame is a sum over that set.                           *)
(***************************************************************************)
EXTENDS Naturals, Sequences

CONSTANTS FrameCap,   \* capacity of the frames channel
          MayDrop     \* TRUE when the source drops frames of a slow reader

VARIABLES observed,   \* how many I/Os have been reported so far
          pending,    \* those that no frame accounts for yet
          queue,      \* the frames waiting in the channel, oldest first
          shown,      \* the I/Os of the frames received from it
          lost,       \* those of the frames that were dropped
          open        \* the channel is not closed

streamVars == <<observed, pending, queue, shown, lost, open>>

Init ==
  /\ observed = 0
  /\ pending = {}
  /\ queue = <<>>
  /\ shown = {}
  /\ lost = {}
  /\ open = TRUE

\* The system completes one more I/O, whether or not the source still runs.
Observe ==
  /\ observed' = observed + 1
  /\ pending' = pending \cup {observed + 1}
  /\ UNCHANGED <<queue, shown, lost, open>>

\* The oldest pending I/Os, up to one of them, become a frame ...
Taken(upto) == {i \in pending : i <= upto}

\* ... that is sent,
Cut(upto) ==
  /\ open
  /\ Len(queue) < FrameCap
  /\ queue' = Append(queue, Taken(upto))
  /\ pending' = pending \ Taken(upto)
  /\ UNCHANGED <<observed, shown, lost, open>>

\* or dropped, where the source does that, and only for a full channel.
Drop(upto) ==
  /\ open
  /\ MayDrop
  /\ Len(queue) = FrameCap
  /\ lost' = lost \cup Taken(upto)
  /\ pending' = pending \ Taken(upto)
  /\ UNCHANGED <<observed, queue, shown, open>>

\* The reader takes the oldest frame; a closed channel still holds its frames.
Deliver ==
  /\ queue # <<>>
  /\ shown' = shown \cup Head(queue)
  /\ queue' = Tail(queue)
  /\ UNCHANGED <<observed, pending, lost, open>>

\* Watching stops. What was pending is never shown.
Close ==
  /\ open
  /\ open' = FALSE
  /\ UNCHANGED <<observed, pending, queue, shown, lost>>

Next ==
  \/ Observe
  \/ \E upto \in 0 .. observed : Cut(upto) \/ Drop(upto)
  \/ Deliver
  \/ Close

Spec == Init /\ [][Next]_streamVars

-----------------------------------------------------------------------------

\* Every reported I/O is in the stream somewhere, and nothing else is: the
\* sums that arrive are sums of I/Os that happened.
NothingInvented ==
  shown \cup lost \cup pending \cup UNION {queue[k] : k \in 1 .. Len(queue)}
    = 1 .. observed

Before(S, T) == \A i \in S, j \in T : i < j

\* What has been shown, the waiting frames from the oldest to the newest, and
\* what is pending follow each other in the order the I/Os were reported, and
\* none of them was dropped. So no I/O is counted by two frames and no frame
\* overtakes another.
InOrder ==
  /\ Before(shown \cup lost, pending)
  /\ shown \cap lost = {}
  /\ \A k \in 1 .. Len(queue) :
       /\ Before(shown, queue[k])
       /\ Before(queue[k], pending)
       /\ queue[k] \cap lost = {}
       /\ \A l \in 1 .. Len(queue) : k < l => Before(queue[k], queue[l])
=============================================================================
