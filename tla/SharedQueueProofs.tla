------------------------- MODULE SharedQueueProofs -------------------------
(***************************************************************************)
(* The shared queue never runs dry with nothing to poll, and no refill is   *)
(* refused, for every size of the queue, every limit and every traffic.     *)
(*                                                                         *)
(* What the main thread relies on is that more than the preserve is posted  *)
(* whenever the spin lock is free.  The limit thread raises the preserve    *)
(* before it posts; the lock hides that, and LimitRefill says why what it   *)
(* posts is enough for the preserve it has set.                             *)
(***************************************************************************)
EXTENDS SharedQueue, SumTheorems

Fits == srq + Len(cq) <= AllocSize

PreserveIsSet == preserve = Preserve(fill) /\ Limit <= fill

\* While the limit thread posts, what it has and is going to post is enough.
Refilling ==
    thread.at = "post" =>
        /\ thread.added + thread.left = fill - Limit
        /\ posted + fill - Limit > preserve

Refilled == thread.at # "post" => thread.added = 0 /\ posted > preserve

\* The thread has one event at most, and only between its two calls.
OneEvent ==
    /\ thread.at = "idle" => unacked = 0
    /\ thread.at \notin {"idle", "cancelled"} => unacked = 1

NoAbort == main.at # "abort"

IInv ==
    /\ QueueTypeOK /\ PostedIsExact /\ Fits /\ PreserveIsSet
    /\ Refilling /\ Refilled /\ OneEvent /\ NoAbort

-----------------------------------------------------------------------------
(* Numbers.                                                                 *)

LEMMA HalfBounds ==
    ASSUME NEW n \in Nat
    PROVE  /\ n \div 2 \in Nat
           /\ 2 * (n \div 2) <= n /\ n <= 2 * (n \div 2) + 1
  BY SMT

\* The preserve leaves room for at least one buffer to be taken.
LEMMA PreserveBelow ==
    ASSUME NEW n \in Nat, 1 <= n
    PROVE  Preserve(n) \in Nat /\ Preserve(n) < n
  BY SizeAssumption, HalfBounds, SMT DEF Preserve

LEMMA LeastIs ==
    ASSUME NEW a \in Int, NEW b \in Int
    PROVE  /\ Least(a, b) \in Int
           /\ Least(a, b) <= a /\ Least(a, b) <= b
           /\ Least(a, b) = a \/ Least(a, b) = b
  BY SMT DEF Least

\* Doubled: the preserve grows by no more than what the limit event adds.
LEMMA LimitRefill ==
    ASSUME NEW f \in Nat, NEW g \in Nat, NEW n \in Nat,
           1 <= f, f <= AllocSize, Limit <= f,
           g = Least(2 * f, AllocSize), n > Preserve(f)
    PROVE  /\ f <= g /\ g <= AllocSize
           /\ n + g - Limit > Preserve(g)
  <1> DEFINE hf == f \div 2
             hg == g \div 2
  <1>1. f <= g /\ g <= AllocSize /\ g <= 2 * f
    BY SizeAssumption, SMT DEF Least
  <1>2. /\ hf \in Nat /\ 2 * hf <= f /\ f <= 2 * hf + 1
        /\ hg \in Nat /\ 2 * hg <= g /\ g <= 2 * hg + 1
    BY HalfBounds
  <1>3. Preserve(f) = IF f > LargeFill THEN f - FillMargin ELSE hf
    BY DEF Preserve
  <1>4. Preserve(g) = IF g > LargeFill THEN g - FillMargin ELSE hg
    BY DEF Preserve
  <1> HIDE DEF hf, hg
  <1>5. CASE g > LargeFill
    <2>1. n + FillMargin > f
      BY <1>2, <1>3, SizeAssumption, SMT
    <2> QED
      BY <1>1, <1>4, <1>5, <2>1, SizeAssumption, SMT
  <1>6. CASE ~(g > LargeFill)
    <2>1. n > hf
      BY <1>1, <1>3, <1>6, SizeAssumption, SMT
    <2> QED
      BY <1>1, <1>2, <1>4, <1>6, <2>1, SizeAssumption, SMT
  <1> QED
    BY <1>5, <1>6

\* A refill of the main thread brings the posted buffers to the fill size.
LEMMA MainRefill ==
    ASSUME NEW n \in Nat, NEW f \in Nat, 1 <= n, 1 <= f, f <= AllocSize,
           n - 1 <= Preserve(f)
    PROVE  /\ f - (n - 1) \in Nat /\ f - (n - 1) <= f
           /\ Least(f - (n - 1), AllocSize - (n - 1)) = f - (n - 1)
  BY PreserveBelow, SizeAssumption, SMT DEF Least

LEMMA DivIsNat ==
    ASSUME NEW n \in Nat
    PROVE  (n + DataMax - 1) \div DataMax \in Nat
  BY TrafficAssumption, SMT

LEMMA PushedIsSeq ==
    ASSUME NEW left \in Nat, NEW inWindow \in Int
    PROVE  Pushed(left, inWindow) \in Seq(Int)
  <1> DEFINE needed(n) == (n + DataMax - 1) \div DataMax
             room == IF inWindow >= MaxPending THEN 0 ELSE needed(MaxPending - inWindow)
             count == Least(needed(left), room)
             bytes(i) == IF i * DataMax <= left THEN DataMax ELSE left - (i - 1) * DataMax
  <1>1. needed(left) \in Nat
    BY DivIsNat
  <1>2. room \in Nat
    <2>1. CASE inWindow >= MaxPending
      BY <2>1
    <2>2. CASE ~(inWindow >= MaxPending)
      <3>1. MaxPending - inWindow \in Nat
        BY <2>2, TrafficAssumption, SMT
      <3> QED
        BY <2>2, <3>1, DivIsNat
    <2> QED
      BY <2>1, <2>2
  <1>3. count \in Nat
    <2> HIDE DEF needed, room
    <2> QED
      BY <1>1, <1>2, SMT DEF Least
  <1>4. \A i \in 1 .. count : bytes(i) \in Int
    BY <1>3, TrafficAssumption, SMT
  <1>5. Pushed(left, inWindow) = [i \in 1 .. count |-> bytes(i)]
    BY Zenon DEF Pushed
  <1> HIDE DEF count, bytes
  <1> QED
    BY <1>3, <1>4, <1>5, SMT

-----------------------------------------------------------------------------
(* Steps.                                                                   *)

LEMMA InitInv == Init => IInv
  <1> SUFFICES ASSUME Init PROVE IInv
    OBVIOUS
  <1>1. Preserve(FillSize) \in Nat /\ Preserve(FillSize) < FillSize
    BY PreserveBelow, SizeAssumption
  <1>2. HcaTypes /\ PoolTypes
    <2>1. armed \in BOOLEAN /\ pending \in BOOLEAN
      BY Zenon DEF Init
    <2>2. /\ srq \in Nat /\ cq \in Seq(Int) /\ unacked \in 0 .. 1
          /\ posted \in Nat /\ fill \in 1 .. AllocSize /\ counter \in Nat
      BY SizeAssumption, SMT DEF Init
    <2>3. preserve \in Nat
      BY <1>1 DEF Init
    <2> QED
      BY <2>1, <2>2, <2>3 DEF HcaTypes, PoolTypes
  <1>3. main \in MainState /\ thread \in ThreadState
    BY SMT DEF Init, MainState, ThreadState
  <1>4. r3 \in Receiver /\ peer \in Sender
    BY TrafficAssumption, SMT DEF Init, Receiver, Sender
  <1>5. PostedIsExact /\ Fits /\ PreserveIsSet
    BY SizeAssumption, SMT DEF Init, PostedIsExact, Handled, Fits, PreserveIsSet
  <1>6. Refilling /\ Refilled /\ OneEvent /\ NoAbort
    BY <1>1, SizeAssumption, SMT DEF Init, Refilling, Refilled, OneEvent, NoAbort
  <1> QED
    BY <1>2, <1>3, <1>4, <1>5, <1>6 DEF IInv, QueueTypeOK

\* The types of what the steps write.
LEMMA ReceiverWritten ==
    ASSUME NEW r \in Receiver, NEW n \in Int, NEW k \in Int
    PROVE  [r EXCEPT !.left = n, !.received = k] \in Receiver
  <1>1. r \in [asked : Nat, left : Int, received : Int]
    BY DEF Receiver
  <1> QED
    BY <1>1 DEF Receiver

LEMMA AcksWritten ==
    ASSUME NEW p \in Sender, NEW a \in Seq(Int)
    PROVE  [p EXCEPT !.acks = a] \in Sender
  <1> DEFINE S == Seq(Int)
  <1>1. a \in S
    OBVIOUS
  <1>2. p \in [eager : Nat, wire : S, replies : Nat, left : Nat, pending : Int, acks : S]
    BY DEF Sender
  <1> HIDE DEF S
  <1>3. [p EXCEPT !.acks = a] \in
          [eager : Nat, wire : S, replies : Nat, left : Nat, pending : Int, acks : S]
    BY <1>1, <1>2
  <1> QED
    BY <1>3 DEF Sender, S

LEMMA ThreadWritten ==
    ASSUME NEW t \in ThreadState
    PROVE  /\ Signalled(t) \in ThreadState
           /\ Signalled(t).added = t.added /\ Signalled(t).left = t.left
           /\ \/ Signalled(t).at = t.at
              \/ t.at = "asleep" /\ Signalled(t).at = "woken"
  BY SMT DEF Signalled, ThreadState

\* A state of a thread goes from one place to another.
LEMMA MainGoes ==
    ASSUME main \in MainState,
           NEW pc \in {"run", "flow", "wake", "signal", "dispatch", "abort",
                       "destroy", "done"},
           Go(pc)
    PROVE  main' \in MainState /\ main'.at = pc
  BY SMT DEF MainState, Go

LEMMA ThreadGoes ==
    ASSUME thread \in ThreadState,
           NEW pc \in {"idle", "resize", "post", "count", "asleep", "woken",
                       "clear", "arm", "ack", "cancelled"},
           ThreadGo(pc)
    PROVE  /\ thread' \in ThreadState /\ thread'.at = pc
           /\ thread'.left = thread.left /\ thread'.added = thread.added
  BY SMT DEF ThreadState, ThreadGo

LEMMA PollInv ==
    ASSUME IInv, Poll
    PROVE  IInv'
  <1> USE DEF IInv, QueueTypeOK
  <1>1. /\ main.at = "run" /\ cq # << >> /\ cq' = Tail(cq)
        /\ main' = [at |-> "flow", packet |-> Head(cq)]
        /\ UNCHANGED <<srq, armed, pending, unacked, posted, fill, preserve,
                       counter, thread, r3, peer>>
    BY DEF Poll, hca, pool, traffic, At
  <1>2. /\ Head(cq) \in Int /\ Tail(cq) \in Seq(Int)
        /\ Len(cq) \in Nat /\ Len(Tail(cq)) = Len(cq) - 1
    BY <1>1, SMT DEF HcaTypes
  <1>3. main' \in MainState /\ main'.at = "flow"
    BY <1>1, <1>2, SMT DEF MainState
  <1>4. HcaTypes' /\ PoolTypes'
    BY <1>1, <1>2 DEF HcaTypes, PoolTypes
  <1>5. (PostedIsExact /\ Fits)'
    BY <1>1, <1>2, <1>3, SizeAssumption, SMT
       DEF HcaTypes, PoolTypes, ThreadState, PostedIsExact, Handled, Fits
  <1>6. (PreserveIsSet /\ Refilling /\ Refilled /\ OneEvent /\ NoAbort)'
    BY <1>1, <1>3 DEF PreserveIsSet, Refilling, Refilled, OneEvent, NoAbort
  <1> QED
    BY <1>1, <1>3, <1>4, <1>5, <1>6

LEMMA FlowControlInv ==
    ASSUME IInv, FlowControl
    PROVE  IInv'
  <1> USE DEF IInv, QueueTypeOK
  <1>1. /\ main.at = "flow" /\ thread.at # "post"
        /\ UNCHANGED <<cq, armed, pending, unacked, fill, preserve, counter, thread, r3, peer>>
    BY DEF FlowControl, SpinLocked, At, traffic
  <1>2. /\ posted \in Nat /\ fill \in Nat /\ srq \in Nat /\ Len(cq) \in Nat
        /\ 1 <= fill /\ fill <= AllocSize /\ thread.added = 0
        /\ posted = srq + Len(cq) + 1 /\ posted > preserve
        /\ preserve = Preserve(fill) /\ srq + Len(cq) <= AllocSize
    BY <1>1, SizeAssumption, SMT
       DEF HcaTypes, PoolTypes, PostedIsExact, Handled, Fits, PreserveIsSet, Refilled
  <1>3. preserve \in Nat /\ preserve < fill
    BY <1>2, PreserveBelow
  <1>4. /\ posted' \in Nat /\ srq' \in Nat /\ Go("wake")
        /\ posted' = srq' + Len(cq) /\ posted' > preserve
        /\ srq' + Len(cq) <= AllocSize
    <2>1. CASE posted - 1 > preserve
      <3>1. posted' = posted - 1 /\ srq' = srq /\ Go("wake")
        BY <2>1, Zenon DEF FlowControl
      <3> QED
        BY <1>2, <1>3, <2>1, <3>1, SizeAssumption, SMT
    <2>2. CASE ~(posted - 1 > preserve)
      <3> DEFINE n == fill - (posted - 1)
      <3>1. n \in Nat /\ n <= fill /\ Least(n, AllocSize - (posted - 1)) = n
        <4>1. 1 <= posted /\ posted - 1 <= Preserve(fill)
          BY <1>2, <1>3, <2>2, SMT
        <4> QED
          BY <1>2, <4>1, MainRefill
      <3>2. AllocSize - (posted - 1) = Free
        BY <1>2, SizeAssumption, SMT DEF Free
      <3>3. Posts(n) = n
        BY <3>1, <3>2 DEF Posts
      <3>4. ~TooMany(n)
        BY <1>2, <3>1, SMT DEF TooMany
      <3>5. posted' = (posted - 1) + Posts(n) /\ srq' = srq + Posts(n) /\ Go("wake")
        BY <2>2, <3>4, Zenon DEF FlowControl
      <3>6. posted' = (posted - 1) + n /\ srq' = srq + n
        BY <3>3, <3>5
      <3> QED
        BY <1>2, <1>3, <3>1, <3>5, <3>6, SizeAssumption, SMT
    <2> QED
      BY <2>1, <2>2
  <1>5. main' \in MainState /\ main'.at = "wake"
    BY <1>4, MainGoes
  <1>6. HcaTypes' /\ PoolTypes'
    BY <1>1, <1>4 DEF HcaTypes, PoolTypes
  <1>7. (PostedIsExact /\ Fits /\ PreserveIsSet)'
    BY <1>1, <1>2, <1>4, <1>5, SMT DEF PostedIsExact, Handled, Fits, PreserveIsSet
  <1>8. (Refilling /\ Refilled /\ OneEvent /\ NoAbort)'
    BY <1>1, <1>2, <1>4, <1>5 DEF Refilling, Refilled, OneEvent, NoAbort
  <1> QED
    BY <1>1, <1>5, <1>6, <1>7, <1>8

\* Steps that leave the buffers and the two counts of them alone.
QueueAlone ==
    /\ UNCHANGED <<srq, cq, unacked, posted, fill, preserve>>
    /\ main'.at = "flow" <=> main.at = "flow"
    /\ main'.at # "abort"
    /\ thread'.added = thread.added /\ thread'.left = thread.left
    /\ thread'.at = "post" <=> thread.at = "post"
    /\ thread'.at = "idle" => thread.at = "idle"
    /\ thread'.at \notin {"idle", "cancelled"} => thread.at \notin {"idle", "cancelled"}

LEMMA QueueAloneInv ==
    ASSUME IInv, QueueAlone, QueueTypeOK'
    PROVE  IInv'
  <1>1. (PostedIsExact /\ Fits /\ PreserveIsSet)'
    BY Zenon DEF IInv, QueueAlone, PostedIsExact, Handled, Fits, PreserveIsSet
  <1>2. (Refilling /\ Refilled)'
    BY Zenon DEF IInv, QueueAlone, Refilling, Refilled
  <1>3. (OneEvent /\ NoAbort)'
    BY Zenon DEF IInv, QueueAlone, OneEvent, NoAbort
  <1> QED
    BY <1>1, <1>2, <1>3 DEF IInv

LEMMA WakeInv ==
    ASSUME IInv, Wake
    PROVE  IInv'
  <1> USE DEF IInv, QueueTypeOK
  <1> DEFINE pc == IF counter >= ZeroPostMax THEN "signal" ELSE "dispatch"
  <1>1. /\ main.at = "wake" /\ Go(pc)
        /\ UNCHANGED <<srq, cq, armed, pending, unacked, posted, fill, preserve,
                       counter, thread, r3, peer>>
    BY Zenon DEF Wake, At, hca, pool, traffic
  <1>2. pc \in {"signal", "dispatch"}
    OBVIOUS
  <1> HIDE DEF pc
  <1>3. main' \in MainState /\ main'.at = pc
    BY <1>1, <1>2, MainGoes
  <1>4. QueueTypeOK'
    BY <1>1, <1>3 DEF HcaTypes, PoolTypes
  <1>5. QueueAlone
    BY <1>1, <1>2, <1>3 DEF QueueAlone
  <1> QED
    BY <1>4, <1>5, QueueAloneInv

LEMMA SignalInv ==
    ASSUME IInv, Signal
    PROVE  IInv'
  <1> USE DEF IInv, QueueTypeOK
  <1>1. /\ main.at = "signal" /\ Go("dispatch") /\ counter' = 0
        /\ thread' = Signalled(thread)
        /\ UNCHANGED <<srq, cq, armed, pending, unacked, posted, fill, preserve, r3, peer>>
    BY DEF Signal, At, hca, pool, traffic
  <1>2. main' \in MainState /\ main'.at = "dispatch"
    BY <1>1, MainGoes
  <1>3. /\ thread' \in ThreadState
        /\ thread'.added = thread.added /\ thread'.left = thread.left
        /\ \/ thread'.at = thread.at
           \/ thread.at = "asleep" /\ thread'.at = "woken"
    BY <1>1, ThreadWritten
  <1>4. QueueTypeOK'
    BY <1>1, <1>2, <1>3 DEF HcaTypes, PoolTypes
  <1>5. QueueAlone
    BY <1>1, <1>2, <1>3 DEF QueueAlone
  <1> QED
    BY <1>4, <1>5, QueueAloneInv

LEMMA DispatchInv ==
    ASSUME IInv, Dispatch
    PROVE  IInv'
  <1> USE DEF IInv, QueueTypeOK
  <1> DEFINE received == r3.received + main.packet
             due == main.packet > 0 /\ AckDue(received)
             kept == IF due THEN Unreported(received) ELSE received
             acks == IF due THEN Append(peer.acks, received) ELSE peer.acks
  <1>1. /\ main.at = "dispatch" /\ Go("run")
        /\ r3' = [r3 EXCEPT !.left = r3.left - main.packet, !.received = kept]
        /\ peer' = [peer EXCEPT !.acks = acks]
        /\ UNCHANGED <<srq, cq, armed, pending, unacked, posted, fill, preserve,
                       counter, thread>>
    BY Zenon DEF Dispatch, At, hca, pool
  <1>2. main' \in MainState /\ main'.at = "run"
    BY <1>1, MainGoes
  <1>3. received \in Int /\ r3.left - main.packet \in Int
    BY SMT DEF Receiver, MainState
  <1>4. kept \in Int
    BY <1>3 DEF Unreported
  <1>5. acks \in Seq(Int)
    BY <1>3, SMT DEF Sender
  <1> HIDE DEF received, due, kept, acks
  <1>6. r3' \in Receiver
    BY <1>1, <1>3, <1>4, ReceiverWritten
  <1>7. peer' \in Sender
    BY <1>1, <1>5, AcksWritten
  <1>8. QueueTypeOK'
    BY <1>1, <1>2, <1>6, <1>7 DEF HcaTypes, PoolTypes
  <1>9. QueueAlone
    BY <1>1, <1>2 DEF QueueAlone
  <1> QED
    BY <1>8, <1>9, QueueAloneInv

\* A transfer asked for, and the reply to it.
LEMMA AskedWritten ==
    ASSUME NEW r \in Receiver, NEW p \in Sender
    PROVE  /\ [r EXCEPT !.asked = r.asked + 1, !.left = R3Bytes] \in Receiver
           /\ [p EXCEPT !.replies = p.replies + 1] \in Sender
  <1>1. r \in [asked : Nat, left : Int, received : Int]
    BY DEF Receiver
  <1>2. r.asked + 1 \in Nat /\ R3Bytes \in Int
    BY <1>1, TrafficAssumption
  <1>3. [r EXCEPT !.asked = r.asked + 1, !.left = R3Bytes] \in Receiver
    BY <1>1, <1>2 DEF Receiver
  <1> DEFINE S == Seq(Int)
  <1>4. p \in [eager : Nat, wire : S, replies : Nat, left : Nat, pending : Int, acks : S]
    BY DEF Sender
  <1> HIDE DEF S
  <1>5. [p EXCEPT !.replies = p.replies + 1] \in
          [eager : Nat, wire : S, replies : Nat, left : Nat, pending : Int, acks : S]
    BY <1>4
  <1> QED
    BY <1>3, <1>5 DEF Sender, S

LEMMA RecvR3Inv ==
    ASSUME IInv, RecvR3
    PROVE  IInv'
  <1> USE DEF IInv, QueueTypeOK
  <1>1. /\ main.at = "run" /\ thread.at # "post"
        /\ UNCHANGED <<cq, armed, pending, unacked, fill, preserve, counter, thread>>
    BY DEF RecvR3, SpinLocked, At
  <1>2. posted > preserve
    BY <1>1 DEF Refilled
  <1>3. /\ UNCHANGED <<posted, srq, main>>
        /\ r3' = [r3 EXCEPT !.asked = r3.asked + 1, !.left = R3Bytes]
        /\ peer' = [peer EXCEPT !.replies = peer.replies + 1]
    BY <1>2, Zenon DEF RecvR3
  <1>4. r3' \in Receiver /\ peer' \in Sender
    BY <1>3, AskedWritten
  <1>5. QueueTypeOK'
    BY <1>1, <1>3, <1>4 DEF HcaTypes, PoolTypes
  <1>6. QueueAlone
    BY <1>1, <1>3 DEF QueueAlone, NoAbort
  <1> QED
    BY <1>5, <1>6, QueueAloneInv

LEMMA CancelThreadInv ==
    ASSUME IInv, CancelThread
    PROVE  IInv'
  <1> USE DEF IInv, QueueTypeOK
  <1>1. /\ main.at = "run" /\ thread.at # "post" /\ Go("destroy")
        /\ ThreadGo("cancelled")
        /\ UNCHANGED <<srq, cq, armed, pending, unacked, posted, fill, preserve,
                       counter, r3, peer>>
    BY DEF CancelThread, ThreadGo, SpinLocked, At, hca, pool, traffic
  <1>2. main' \in MainState /\ main'.at = "destroy"
    BY <1>1, MainGoes
  <1>3. /\ thread' \in ThreadState /\ thread'.at = "cancelled"
        /\ thread'.left = thread.left /\ thread'.added = thread.added
    BY <1>1, ThreadGoes
  <1>4. QueueTypeOK'
    BY <1>1, <1>2, <1>3 DEF HcaTypes, PoolTypes
  <1>5. QueueAlone
    BY <1>1, <1>2, <1>3 DEF QueueAlone
  <1> QED
    BY <1>4, <1>5, QueueAloneInv

LEMMA DestroySrqInv ==
    ASSUME IInv, DestroySrq
    PROVE  IInv'
  <1> USE DEF IInv, QueueTypeOK
  <1>1. /\ main.at = "destroy" /\ Go("done")
        /\ UNCHANGED <<srq, cq, armed, pending, unacked, posted, fill, preserve,
                       counter, thread, r3, peer>>
    BY DEF DestroySrq, At, hca, pool, traffic
  <1>2. main' \in MainState /\ main'.at = "done"
    BY <1>1, MainGoes
  <1>3. QueueTypeOK'
    BY <1>1, <1>2 DEF HcaTypes, PoolTypes
  <1>4. QueueAlone
    BY <1>1, <1>2 DEF QueueAlone
  <1> QED
    BY <1>3, <1>4, QueueAloneInv

LEMMA GetEventInv ==
    ASSUME IInv, GetEvent
    PROVE  IInv'
  <1> USE DEF IInv, QueueTypeOK
  <1>1. /\ thread.at = "idle" /\ ThreadGo("resize") /\ pending' = FALSE
        /\ unacked' = unacked + 1
        /\ UNCHANGED <<srq, cq, armed, posted, fill, preserve, counter, main, r3, peer>>
    BY DEF GetEvent, ThreadAt, pool, traffic
  <1>2. /\ thread' \in ThreadState /\ thread'.at = "resize"
        /\ thread'.left = thread.left /\ thread'.added = thread.added
    BY <1>1, ThreadGoes
  <1>3. unacked' = 1
    BY <1>1 DEF OneEvent
  <1>4. HcaTypes' /\ PoolTypes'
    <2>1. armed' \in BOOLEAN /\ pending' \in BOOLEAN
      BY <1>1, Zenon DEF HcaTypes
    <2> QED
      BY <1>1, <1>3, <2>1 DEF HcaTypes, PoolTypes
  <1>5. (PostedIsExact /\ Fits /\ PreserveIsSet)'
    BY <1>1, <1>2 DEF PostedIsExact, Handled, Fits, PreserveIsSet
  <1>6. (Refilling /\ Refilled /\ OneEvent /\ NoAbort)'
    BY <1>1, <1>2 DEF Refilling, Refilled, OneEvent, NoAbort
  <1> QED
    BY <1>1, <1>2, <1>4, <1>5, <1>6

LEMMA ResizeInv ==
    ASSUME IInv, Resize
    PROVE  IInv'
  <1> USE DEF IInv, QueueTypeOK
  <1> DEFINE size == Least(2 * fill, AllocSize)
  <1>1. /\ thread.at = "resize" /\ fill' = size /\ preserve' = Preserve(size)
        /\ thread' = [at |-> "post", left |-> Missing(size), added |-> 0]
        /\ UNCHANGED <<srq, cq, armed, pending, unacked, posted, counter, main, r3, peer>>
    BY DEF Resize, ThreadAt, hca, traffic
  <1>2. /\ posted \in Nat /\ fill \in Nat /\ 1 <= fill /\ fill <= AllocSize
        /\ preserve = Preserve(fill) /\ Limit <= fill
        /\ thread.added = 0 /\ posted > preserve
    BY <1>1, SizeAssumption, SMT DEF PoolTypes, PreserveIsSet, Refilled
  <1>3. size \in Nat
    BY <1>2, SizeAssumption, SMT DEF Least
  <1>4. fill <= size /\ size <= AllocSize /\ posted + size - Limit > Preserve(size)
    <2> HIDE DEF size
    <2>1. size = Least(2 * fill, AllocSize)
      BY DEF size
    <2> QED
      BY <1>2, <1>3, <2>1, LimitRefill
  <1>5. Preserve(size) \in Nat
    BY <1>2, <1>3, <1>4, SizeAssumption, PreserveBelow
  <1> HIDE DEF size
  <1>6. /\ Missing(size) \in Nat /\ 0 + Missing(size) = size - Limit
    BY <1>2, <1>3, <1>4, SizeAssumption, SMT DEF Missing
  <1>7. /\ thread' \in ThreadState /\ thread'.at = "post"
        /\ thread'.left = Missing(size) /\ thread'.added = 0
    BY <1>1, <1>6 DEF ThreadState
  <1>8. HcaTypes'
    BY <1>1 DEF HcaTypes
  <1>9. PoolTypes'
    BY <1>1, <1>2, <1>3, <1>4, <1>5, SizeAssumption, SMT DEF PoolTypes
  <1>10. (PostedIsExact /\ Fits)'
    BY <1>1, <1>2, <1>7 DEF PostedIsExact, Handled, Fits
  <1>11. PreserveIsSet'
    BY <1>1, <1>2, <1>3, <1>4, SizeAssumption, SMT DEF PreserveIsSet
  <1>12. (Refilling /\ Refilled /\ OneEvent /\ NoAbort)'
    BY <1>1, <1>4, <1>6, <1>7 DEF Refilling, Refilled, OneEvent, NoAbort
  <1> QED
    BY <1>1, <1>7, <1>8, <1>9, <1>10, <1>11, <1>12

LEMMA PostOneInv ==
    ASSUME IInv, PostOne
    PROVE  IInv'
  <1> USE DEF IInv, QueueTypeOK
  <1>1. /\ thread.at = "post" /\ thread.left > 0 /\ Free > 0 /\ srq' = srq + 1
        /\ thread' = [thread EXCEPT !.left = thread.left - 1, !.added = thread.added + 1]
        /\ UNCHANGED <<cq, armed, pending, unacked, posted, fill, preserve,
                       counter, main, r3, peer>>
    BY DEF PostOne, ThreadAt, pool, traffic
  <1>2. thread.left \in Nat /\ thread.added \in Nat
    BY DEF ThreadState
  <1>3. /\ thread' \in ThreadState /\ thread'.at = "post"
        /\ thread'.left = thread.left - 1 /\ thread'.added = thread.added + 1
    <2>1. thread.left - 1 \in Nat /\ thread.added + 1 \in Nat
      BY <1>1, <1>2, SMT
    <2> DEFINE n == thread.left - 1
               k == thread.added + 1
    <2>2. n \in Nat /\ k \in Nat /\ thread' = [thread EXCEPT !.left = n, !.added = k]
      BY <1>1, <2>1
    <2> HIDE DEF n, k
    <2>3. /\ thread' \in ThreadState /\ thread'.at = "post"
          /\ thread'.left = n /\ thread'.added = k
      BY <1>1, <2>2 DEF ThreadState
    <2> QED
      BY <2>3 DEF n, k
  <1>4. srq \in Nat /\ Len(cq) \in Nat /\ posted \in Nat
    BY SMT DEF HcaTypes, PoolTypes
  <1>5. HcaTypes' /\ PoolTypes'
    BY <1>1, <1>4 DEF HcaTypes, PoolTypes
  <1>6. PostedIsExact' /\ Fits'
    <2>1. Handled' = Handled /\ Handled \in Nat
      BY <1>1 DEF Handled
    <2>2. PostedIsExact'
      BY <1>1, <1>2, <1>3, <1>4, <2>1, SMT DEF PostedIsExact
    <2>3. Fits'
      BY <1>1, <1>4, SizeAssumption, SMT DEF Fits, Free
    <2> QED
      BY <2>2, <2>3
  <1>7. PreserveIsSet'
    BY <1>1 DEF PreserveIsSet
  <1>8. Refilling'
    BY <1>1, <1>2, <1>3, SMT DEF Refilling
  <1>9. (Refilled /\ OneEvent /\ NoAbort)'
    BY <1>1, <1>3 DEF Refilled, OneEvent, NoAbort
  <1> QED
    BY <1>1, <1>3, <1>5, <1>6, <1>7, <1>8, <1>9

LEMMA PostEndInv ==
    ASSUME IInv, PostEnd
    PROVE  IInv'
  <1> USE DEF IInv, QueueTypeOK
  <1> DEFINE pc == IF thread.added = 0 THEN "count" ELSE "clear"
  <1>1. /\ thread.at = "post" /\ (thread.left = 0 \/ Free = 0)
        /\ posted' = posted + thread.added
        /\ thread' = [at |-> pc, left |-> 0, added |-> 0]
        /\ UNCHANGED <<srq, cq, armed, pending, unacked, fill, preserve,
                       counter, main, r3, peer>>
    BY DEF PostEnd, ThreadAt, hca, traffic
  <1>2. pc \in {"count", "clear"}
    OBVIOUS
  <1> HIDE DEF pc
  <1>3. /\ thread' \in ThreadState /\ thread'.at = pc
        /\ thread'.left = 0 /\ thread'.added = 0
    BY <1>1, <1>2 DEF ThreadState
  <1>4. /\ srq \in Nat /\ Len(cq) \in Nat /\ posted \in Nat /\ thread.added \in Nat
        /\ fill \in Nat /\ 1 <= fill /\ fill <= AllocSize
    BY SizeAssumption, SMT DEF HcaTypes, PoolTypes, ThreadState
  <1>5. HcaTypes' /\ PoolTypes'
    BY <1>1, <1>4 DEF HcaTypes, PoolTypes
  <1>6. posted' > preserve
    <2>1. CASE thread.left = 0
      BY <1>1, <1>4, <2>1, SizeAssumption, SMT DEF Refilling, PoolTypes
    <2>2. CASE Free = 0
      <3>1. preserve \in Nat /\ preserve < fill
        BY <1>4, PreserveBelow DEF PreserveIsSet
      <3>2. srq + Len(cq) = AllocSize
        BY <1>4, <2>2, SizeAssumption, SMT DEF Free
      <3>3. posted + thread.added >= AllocSize
        BY <1>4, <3>2, SizeAssumption, SMT DEF PostedIsExact, Handled
      <3> QED
        BY <1>1, <1>4, <3>1, <3>3, SizeAssumption, SMT
    <2> QED
      BY <1>1, <2>1, <2>2
  <1>7. PostedIsExact'
    BY <1>1, <1>3, <1>4, SMT DEF PostedIsExact, Handled
  <1>8. (Fits /\ PreserveIsSet)'
    BY <1>1 DEF Fits, PreserveIsSet
  <1>9. (Refilling /\ Refilled /\ OneEvent /\ NoAbort)'
    BY <1>1, <1>2, <1>3, <1>6 DEF Refilling, Refilled, OneEvent, NoAbort
  <1> QED
    BY <1>1, <1>3, <1>5, <1>7, <1>8, <1>9

LEMMA CountInv ==
    ASSUME IInv, Count
    PROVE  IInv'
  <1> USE DEF IInv, QueueTypeOK
  <1> DEFINE pc == IF counter' >= ZeroPostMax THEN "asleep" ELSE "arm"
  <1>1. /\ thread.at = "count" /\ counter' = counter + 1 /\ ThreadGo(pc)
        /\ UNCHANGED <<srq, cq, armed, pending, unacked, posted, fill, preserve,
                       main, r3, peer>>
    BY DEF Count, Sleep, ThreadAt, hca, pool, traffic
  <1>2. pc \in {"asleep", "arm"}
    OBVIOUS
  <1> HIDE DEF pc
  <1>3. /\ thread' \in ThreadState /\ thread'.at = pc
        /\ thread'.left = thread.left /\ thread'.added = thread.added
    BY <1>1, <1>2, ThreadGoes
  <1>4. QueueTypeOK'
    BY <1>1, <1>3 DEF HcaTypes, PoolTypes
  <1>5. QueueAlone
    BY <1>1, <1>2, <1>3 DEF QueueAlone, NoAbort
  <1> QED
    BY <1>4, <1>5, QueueAloneInv

LEMMA WokenInv ==
    ASSUME IInv, Woken
    PROVE  IInv'
  <1> USE DEF IInv, QueueTypeOK
  <1> DEFINE pc == IF counter >= ZeroPostMax THEN "asleep" ELSE "arm"
  <1>1. /\ thread.at = "woken" /\ ThreadGo(pc)
        /\ UNCHANGED <<srq, cq, armed, pending, unacked, posted, fill, preserve,
                       counter, main, r3, peer>>
    BY DEF Woken, Sleep, ThreadAt, hca, pool, traffic
  <1>2. pc \in {"asleep", "arm"}
    OBVIOUS
  <1> HIDE DEF pc
  <1>3. /\ thread' \in ThreadState /\ thread'.at = pc
        /\ thread'.left = thread.left /\ thread'.added = thread.added
    BY <1>1, <1>2, ThreadGoes
  <1>4. QueueTypeOK'
    BY <1>1, <1>3 DEF HcaTypes, PoolTypes
  <1>5. QueueAlone
    BY <1>1, <1>2, <1>3 DEF QueueAlone, NoAbort
  <1> QED
    BY <1>4, <1>5, QueueAloneInv

LEMMA ClearInv ==
    ASSUME IInv, Clear
    PROVE  IInv'
  <1> USE DEF IInv, QueueTypeOK
  <1>1. /\ thread.at = "clear" /\ counter' = 0 /\ ThreadGo("arm")
        /\ UNCHANGED <<srq, cq, armed, pending, unacked, posted, fill, preserve,
                       main, r3, peer>>
    BY DEF Clear, ThreadAt, hca, pool, traffic
  <1>2. /\ thread' \in ThreadState /\ thread'.at = "arm"
        /\ thread'.left = thread.left /\ thread'.added = thread.added
    BY <1>1, ThreadGoes
  <1>3. QueueTypeOK'
    BY <1>1, <1>2 DEF HcaTypes, PoolTypes
  <1>4. QueueAlone
    BY <1>1, <1>2 DEF QueueAlone, NoAbort
  <1> QED
    BY <1>3, <1>4, QueueAloneInv

LEMMA ArmInv ==
    ASSUME IInv, Arm
    PROVE  IInv'
  <1> USE DEF IInv, QueueTypeOK
  <1>1. /\ thread.at = "arm" /\ armed' = TRUE /\ ThreadGo("ack")
        /\ UNCHANGED <<srq, cq, pending, unacked, posted, fill, preserve, counter,
                       main, r3, peer>>
    BY DEF Arm, ThreadAt, pool, traffic
  <1>2. /\ thread' \in ThreadState /\ thread'.at = "ack"
        /\ thread'.left = thread.left /\ thread'.added = thread.added
    BY <1>1, ThreadGoes
  <1>3. HcaTypes' /\ PoolTypes'
    <2>1. armed' \in BOOLEAN /\ pending' \in BOOLEAN
      BY <1>1, Zenon DEF HcaTypes
    <2> QED
      BY <1>1, <2>1 DEF HcaTypes, PoolTypes
  <1>4. (PostedIsExact /\ Fits /\ PreserveIsSet)'
    BY <1>1, <1>2 DEF PostedIsExact, Handled, Fits, PreserveIsSet
  <1>5. unacked = 1
    BY <1>1 DEF OneEvent, HcaTypes
  <1>6. (Refilling /\ Refilled /\ OneEvent /\ NoAbort)'
    BY <1>1, <1>2, <1>5 DEF Refilling, Refilled, OneEvent, NoAbort
  <1> QED
    BY <1>1, <1>2, <1>3, <1>4, <1>6

LEMMA AckInv ==
    ASSUME IInv, Ack
    PROVE  IInv'
  <1> USE DEF IInv, QueueTypeOK
  <1>1. /\ thread.at = "ack" /\ unacked' = unacked - 1 /\ ThreadGo("idle")
        /\ UNCHANGED <<srq, cq, armed, pending, posted, fill, preserve, counter,
                       main, r3, peer>>
    BY DEF Ack, ThreadAt, hca, pool, traffic
  <1>2. /\ thread' \in ThreadState /\ thread'.at = "idle"
        /\ thread'.left = thread.left /\ thread'.added = thread.added
    BY <1>1, ThreadGoes
  <1>3. unacked' = 0
    BY <1>1 DEF OneEvent
  <1>4. HcaTypes' /\ PoolTypes'
    BY <1>1, <1>3 DEF HcaTypes, PoolTypes
  <1>5. (PostedIsExact /\ Fits /\ PreserveIsSet)'
    BY <1>1, <1>2 DEF PostedIsExact, Handled, Fits, PreserveIsSet
  <1>6. (Refilling /\ Refilled /\ OneEvent /\ NoAbort)'
    BY <1>1, <1>2, <1>3 DEF Refilling, Refilled, OneEvent, NoAbort
  <1> QED
    BY <1>1, <1>2, <1>4, <1>5, <1>6

\* What viadev_rendezvous_push sends leaves the sender well formed.
LEMMA PushWritten ==
    ASSUME NEW p \in Sender
    PROVE  Push(p) \in Sender
  <1> DEFINE packets == Pushed(p.left, p.pending)
             bytes == Least(p.left, Len(packets) * DataMax)
             S == Seq(Int)
  <1>1. p \in [eager : Nat, wire : S, replies : Nat, left : Nat, pending : Int, acks : S]
    BY DEF Sender
  <1>2. p.left \in Nat /\ p.pending \in Int /\ p.wire \in S
    BY <1>1
  <1>3. packets \in S
    BY <1>2, PushedIsSeq
  <1>4. Len(packets) * DataMax \in Nat
    <2> HIDE DEF packets
    <2>1. Len(packets) \in Nat
      BY <1>3, SMT
    <2> QED
      BY <2>1, TrafficAssumption, SMT
  <1>5. bytes \in Nat /\ p.left - bytes \in Nat /\ p.pending + bytes \in Int
    <2> DEFINE sent == Len(packets) * DataMax
    <2>1. sent \in Nat /\ bytes = Least(p.left, sent)
      BY <1>4
    <2> HIDE DEF sent, bytes
    <2> QED
      BY <1>2, <2>1, SMT DEF Least
  <1>6. p.wire \o packets \in S
    <2> HIDE DEF packets
    <2> QED
      BY <1>2, <1>3, SMT
  <1> DEFINE wire == p.wire \o packets
             left == p.left - bytes
             inWindow == p.pending + bytes
  <1>7. Push(p) = [p EXCEPT !.wire = wire, !.left = left, !.pending = inWindow]
    BY DEF Push
  <1>8. wire \in S /\ left \in Nat /\ inWindow \in Int
    BY <1>5, <1>6
  <1> HIDE DEF packets, bytes, wire, left, inWindow, S
  <1>9. [p EXCEPT !.wire = wire, !.left = left, !.pending = inWindow] \in
          [eager : Nat, wire : S, replies : Nat, left : Nat, pending : Int, acks : S]
    BY <1>1, <1>8
  <1> QED
    BY <1>7, <1>9 DEF Sender, S

\* A step of the sender before it pushes, or in place of it.
LEMMA SenderWritten ==
    ASSUME NEW p \in Sender, NEW n \in Nat, NEW s \in Seq(Int), NEW k \in Int
    PROVE  /\ [p EXCEPT !.replies = n, !.left = R3Bytes] \in Sender
           /\ [p EXCEPT !.acks = s, !.pending = k] \in Sender
           /\ [p EXCEPT !.eager = n, !.wire = s] \in Sender
           /\ [p EXCEPT !.wire = s] \in Sender
  <1> DEFINE S == Seq(Int)
             T == [eager : Nat, wire : S, replies : Nat, left : Nat, pending : Int, acks : S]
  <1>1. p \in T /\ s \in S /\ R3Bytes \in Nat
    BY TrafficAssumption DEF Sender
  <1> HIDE DEF S
  <1>2. [p EXCEPT !.replies = n, !.left = R3Bytes] \in T
    BY <1>1
  <1>3. [p EXCEPT !.acks = s, !.pending = k] \in T
    BY <1>1
  <1>4. [p EXCEPT !.eager = n, !.wire = s] \in T
    BY <1>1
  <1>5. [p EXCEPT !.wire = s] \in T
    BY <1>1
  <1> QED
    BY <1>2, <1>3, <1>4, <1>5 DEF Sender, S

LEMMA SenderIs ==
    ASSUME NEW p \in Sender
    PROVE  /\ p.eager \in Nat /\ p.replies \in Nat /\ p.pending \in Int
           /\ p.wire \in Seq(Int) /\ p.acks \in Seq(Int)
  BY DEF Sender

\* A step of the other processes alone.
LEMMA PeerInv ==
    ASSUME IInv, peer' \in Sender,
           UNCHANGED <<srq, cq, armed, pending, unacked, posted, fill, preserve,
                       counter, main, thread, r3>>
    PROVE  IInv'
  <1>1. QueueTypeOK'
    BY DEF IInv, QueueTypeOK, HcaTypes, PoolTypes
  <1>2. QueueAlone
    BY DEF IInv, QueueAlone, NoAbort
  <1> QED
    BY <1>1, <1>2, QueueAloneInv

LEMMA PeerReplyInv ==
    ASSUME IInv, PeerReply
    PROVE  IInv'
  <1> DEFINE n == peer.replies - 1
             p == [peer EXCEPT !.replies = n, !.left = R3Bytes]
  <1>1. peer \in Sender
    BY DEF IInv, QueueTypeOK
  <1>2. n \in Nat
    BY <1>1, SenderIs, SMT DEF PeerReply
  <1>3. p \in Sender
    <2> HIDE DEF n
    <2>1. << >> \in Seq(Int) /\ 0 \in Int
      BY SMT
    <2> QED
      BY <1>1, <1>2, <2>1, SenderWritten
  <1>4. peer' = Push(p)
    BY DEF PeerReply
  <1>5. UNCHANGED <<srq, cq, armed, pending, unacked, posted, fill, preserve,
                    counter, main, thread, r3>>
    BY DEF PeerReply, hca, pool
  <1> HIDE DEF p
  <1> QED
    BY <1>3, <1>4, <1>5, PushWritten, PeerInv

LEMMA PeerAckInv ==
    ASSUME IInv, PeerAck
    PROVE  IInv'
  <1> DEFINE s == Tail(peer.acks)
             k == peer.pending - Head(peer.acks)
             p == [peer EXCEPT !.acks = s, !.pending = k]
  <1>1. peer \in Sender
    BY DEF IInv, QueueTypeOK
  <1>2. s \in Seq(Int) /\ k \in Int
    BY <1>1, SenderIs, SMT DEF PeerAck
  <1>3. p \in Sender
    <2> HIDE DEF s, k
    <2> QED
      BY <1>1, <1>2, SenderWritten
  <1>4. peer' = Push(p)
    BY DEF PeerAck
  <1>5. UNCHANGED <<srq, cq, armed, pending, unacked, posted, fill, preserve,
                    counter, main, thread, r3>>
    BY DEF PeerAck, hca, pool
  <1> HIDE DEF p
  <1> QED
    BY <1>3, <1>4, <1>5, PushWritten, PeerInv

LEMMA PeerEagerInv ==
    ASSUME IInv, PeerEager
    PROVE  IInv'
  <1> DEFINE n == peer.eager - 1
             s == Append(peer.wire, 0)
  <1>1. peer \in Sender
    BY DEF IInv, QueueTypeOK
  <1>2. n \in Nat /\ s \in Seq(Int)
    BY <1>1, SenderIs, SMT DEF PeerEager
  <1>3. peer' = [peer EXCEPT !.eager = n, !.wire = s]
    BY DEF PeerEager
  <1>4. UNCHANGED <<srq, cq, armed, pending, unacked, posted, fill, preserve,
                    counter, main, thread, r3>>
    BY DEF PeerEager, hca, pool
  <1> HIDE DEF n, s
  <1>5. peer' \in Sender
    <2>1. 0 \in Int
      OBVIOUS
    <2> QED
      BY <1>1, <1>2, <1>3, <2>1, SenderWritten
  <1> QED
    BY <1>4, <1>5, PeerInv

LEMMA LandInv ==
    ASSUME IInv, Land
    PROVE  IInv'
  <1> USE DEF IInv, QueueTypeOK
  <1> DEFINE s == Tail(peer.wire)
  <1>1. /\ srq > 0 /\ srq' = srq - 1 /\ cq' = Append(cq, Head(peer.wire))
        /\ peer.wire # << >> /\ peer' = [peer EXCEPT !.wire = s]
        /\ UNCHANGED <<armed, pending, unacked, posted, fill, preserve, counter,
                       main, thread, r3>>
    BY DEF Land, pool
  <1>2. /\ Head(peer.wire) \in Int /\ s \in Seq(Int)
    BY <1>1, SenderIs, SMT
  <1>3. /\ cq' \in Seq(Int) /\ Len(cq') = Len(cq) + 1 /\ Len(cq) \in Nat
        /\ srq \in Nat /\ srq' \in Nat
    BY <1>1, <1>2, SMT DEF HcaTypes
  <1> HIDE DEF s
  <1>4. peer' \in Sender
    <2>1. 0 \in Nat /\ 0 \in Int
      OBVIOUS
    <2> QED
      BY <1>1, <1>2, <2>1, SenderWritten
  <1>5. HcaTypes' /\ PoolTypes'
    BY <1>1, <1>3 DEF HcaTypes, PoolTypes
  <1>6. srq' + Len(cq') = srq + Len(cq)
    BY <1>1, <1>3, SMT
  <1>7. PostedIsExact'
    <2>1. Handled' = Handled /\ Handled \in Nat
      BY <1>1 DEF Handled
    <2> QED
      BY <1>1, <1>6, <2>1 DEF PostedIsExact
  <1>8. (Fits /\ PreserveIsSet)'
    BY <1>1, <1>6 DEF Fits, PreserveIsSet
  <1>9. (Refilling /\ Refilled /\ OneEvent /\ NoAbort)'
    BY <1>1 DEF Refilling, Refilled, OneEvent, NoAbort
  <1> QED
    BY <1>1, <1>4, <1>5, <1>7, <1>8, <1>9

LEMMA LimitReachedInv ==
    ASSUME IInv, LimitReached
    PROVE  IInv'
  <1>1. /\ armed' = FALSE /\ pending' = TRUE
        /\ UNCHANGED <<srq, cq, unacked, posted, fill, preserve, counter, main,
                       thread, r3, peer>>
    BY DEF LimitReached, pool, traffic
  <1>2. armed' \in BOOLEAN /\ pending' \in BOOLEAN
    BY <1>1, Zenon
  <1>3. QueueTypeOK'
    BY <1>1, <1>2 DEF IInv, QueueTypeOK, HcaTypes, PoolTypes
  <1>4. QueueAlone
    BY <1>1 DEF IInv, QueueAlone, NoAbort
  <1> QED
    BY <1>3, <1>4, QueueAloneInv

-----------------------------------------------------------------------------
LEMMA NextInv ==
    ASSUME IInv, [Next]_vars
    PROVE  IInv'
  <1>1. CASE MainThread
    BY <1>1, PollInv, FlowControlInv, WakeInv, SignalInv, DispatchInv, RecvR3Inv,
       CancelThreadInv, DestroySrqInv DEF MainThread
  <1>2. CASE AsyncThread
    BY <1>2, GetEventInv, ResizeInv, PostOneInv, PostEndInv, CountInv, WokenInv,
       ClearInv, ArmInv, AckInv DEF AsyncThread
  <1>3. CASE PeerReply \/ PeerAck \/ PeerEager
    BY <1>3, PeerReplyInv, PeerAckInv, PeerEagerInv
  <1>4. CASE Land \/ LimitReached
    BY <1>4, LandInv, LimitReachedInv
  <1>5. CASE UNCHANGED vars
    <2>1. UNCHANGED <<srq, cq, armed, pending, unacked, posted, fill, preserve,
                      counter, main, thread, r3, peer>>
      BY <1>5 DEF vars
    <2>2. peer' \in Sender
      BY <2>1 DEF IInv, QueueTypeOK
    <2> QED
      BY <2>1, <2>2, PeerInv
  <1> QED
    BY <1>1, <1>2, <1>3, <1>4, <1>5 DEF Next

\* The inductive invariant holds in every reachable state.
THEOREM InvTheorem == Spec => []IInv
  <1>1. Init => IInv
    BY InitInv
  <1>2. IInv /\ [Next]_vars => IInv'
    BY NextInv
  <1> QED
    BY <1>1, <1>2, PTL DEF Spec

LEMMA IInvNeverStarved ==
    ASSUME IInv
    PROVE  NeverStarved
  <1> SUFFICES ASSUME ~SpinLocked, main.at # "flow", cq = << >>
               PROVE  srq > preserve
    BY DEF IInv, NoAbort, NeverStarved
  <1>1. thread.added = 0 /\ posted > preserve
    BY DEF IInv, Refilled, SpinLocked
  <1>2. Handled = 0 /\ Len(cq) = 0
    BY DEF Handled
  <1>3. srq \in Nat /\ posted \in Nat
    BY DEF IInv, QueueTypeOK, HcaTypes, PoolTypes
  <1> QED
    BY <1>1, <1>2, <1>3, SMT DEF IInv, PostedIsExact

\* posted_bufs counts the buffers of the queue (viapriv.h), whatever the two
\* threads do at once.
THEOREM PostedTheorem == Spec => []PostedIsExact
  <1>1. IInv => PostedIsExact
    BY DEF IInv
  <1> QED
    BY <1>1, InvTheorem, PTL

\* The queue never runs dry with nothing to poll, and error_abort_all of
\* viadev_post_srq_buffers is never reached (viapriv.c:801).
THEOREM NeverStarvedTheorem == Spec => []NeverStarved
  <1>1. IInv => NeverStarved
    BY IInvNeverStarved
  <1> QED
    BY <1>1, InvTheorem, PTL

-----------------------------------------------------------------------------
(* The window of R3 data in bytes.                                          *)

\* What the main thread holds between the poll and the switch on the packet.
InHand ==
    IF main.at \in {"flow", "wake", "signal", "dispatch"} THEN main.packet ELSE 0

\* Bytes sent and not yet counted by the receiver.
UnderWay == SumFunction(peer.wire) + SumFunction(cq) + InHand

\* Bytes a reply under way asks for.
Due == IF peer.replies = 1 THEN R3Bytes ELSE 0

ByteTypes ==
    /\ peer.wire \in Seq(Nat) /\ cq \in Seq(Nat) /\ peer.acks \in Seq(Nat)
    /\ main.packet \in Nat /\ r3.received \in Nat
    /\ peer.left \in Nat /\ peer.replies \in 0 .. 1

\* The sender's window is what is under way, what the receiver has counted and
\* what acknowledgements tell; what the receiver waits for is under way or
\* still to be sent.
Bytes ==
    /\ ByteTypes
    /\ peer.pending = UnderWay + r3.received + SumFunction(peer.acks)
    /\ r3.left = UnderWay + peer.left + Due
    /\ r3.left <= R3Bytes

\* The packets of one push carry the bytes it takes from the message.
LEMMA CoverBytes ==
    ASSUME NEW n \in Nat
    PROVE  DataMax * ((n + DataMax - 1) \div DataMax) < n + DataMax
  <1> DEFINE m == n + DataMax - 1
  <1>1. m \in Nat /\ DataMax \in Nat /\ 1 <= DataMax
    BY TrafficAssumption
  <1> HIDE DEF m
  <1>2. m = DataMax * (m \div DataMax) + (m % DataMax) /\ m % DataMax \in Nat
        /\ m \div DataMax \in Nat
    BY <1>1
  <1>3. DataMax * (m \div DataMax) \in Nat
    BY <1>1, <1>2
  <1>4. DataMax * (m \div DataMax) <= m
    <2> DEFINE x == DataMax * (m \div DataMax)
               y == m % DataMax
    <2>1. m = x + y /\ x \in Nat /\ y \in Nat
      BY <1>2, <1>3
    <2> HIDE DEF x, y
    <2>2. x <= m
      BY <2>1
    <2> QED
      BY <2>2 DEF x
  <1> QED
    BY <1>3, <1>4, <1>1 DEF m

LEMMA PushedSum ==
    ASSUME NEW left \in Nat, NEW inWindow \in Int
    PROVE  LET s == Pushed(left, inWindow)
           IN  /\ s \in Seq(Nat)
               /\ SumFunction(s) = Least(left, Len(s) * DataMax)
  <1> DEFINE needed(n) == (n + DataMax - 1) \div DataMax
             room == IF inWindow >= MaxPending THEN 0
                     ELSE needed(MaxPending - inWindow)
             count == Least(needed(left), room)
             bytes(i) == IF i * DataMax <= left THEN DataMax
                         ELSE left - (i - 1) * DataMax
             s == [i \in 1 .. count |-> bytes(i)]
  <1>1. Pushed(left, inWindow) = s
    BY Zenon DEF Pushed
  <1>2. needed(left) \in Nat /\ room \in Nat
    <2>1. needed(left) \in Nat
      BY DivIsNat
    <2>2. CASE inWindow >= MaxPending
      BY <2>1, <2>2
    <2>3. CASE ~(inWindow >= MaxPending)
      <3>1. MaxPending - inWindow \in Nat
        BY <2>3, TrafficAssumption, SMT
      <3> QED
        BY <2>1, <2>3, <3>1, DivIsNat
    <2> QED
      BY <2>2, <2>3
  <1>3. count \in Nat /\ count <= needed(left)
    <2> HIDE DEF needed, room
    <2> QED
      BY <1>2, SMT DEF Least
  <1>4. DataMax * needed(left) < left + DataMax
    BY CoverBytes
  <1> HIDE DEF needed, room, count
  <1>5. DataMax \in Nat /\ 1 <= DataMax
    BY TrafficAssumption
  <1>6. \A i \in 1 .. count :
            /\ i * DataMax \in Nat /\ (i - 1) * DataMax \in Nat
            /\ i * DataMax = (i - 1) * DataMax + DataMax
            /\ i * DataMax < left + DataMax
    <2> TAKE i \in 1 .. count
    <2>1. i \in Nat /\ i - 1 \in Nat /\ i <= needed(left) /\ needed(left) \in Nat
      BY <1>2, <1>3
    <2>2. i * DataMax \in Nat /\ (i - 1) * DataMax \in Nat
      BY <1>5, <2>1
    <2>3. i * DataMax = (i - 1) * DataMax + DataMax
      BY <1>5, <2>1
    <2>4. i * DataMax <= DataMax * needed(left)
      BY <1>5, <2>1
    <2>5. DataMax * needed(left) \in Nat
      BY <1>5, <2>1
    <2> QED
      BY <1>4, <1>5, <2>2, <2>3, <2>4, <2>5
  <1> DEFINE c == [i \in 0 .. count |-> Least(left, i * DataMax)]
  <1>7. s \in Seq(Nat) /\ Len(s) = count
    <2>1. \A i \in 1 .. count : bytes(i) \in Nat
      <3> TAKE i \in 1 .. count
      <3> DEFINE x == i * DataMax
                 y == (i - 1) * DataMax
      <3>1. x \in Nat /\ y \in Nat /\ x = y + DataMax /\ x < left + DataMax
        BY <1>6
      <3>2. bytes(i) = IF x <= left THEN DataMax ELSE left - y
        OBVIOUS
      <3> HIDE DEF x, y, bytes
      <3> QED
        BY <1>5, <3>1, <3>2
    <2> HIDE DEF bytes
    <2> QED
      BY <1>3, <2>1
  <1>8. Running(c, s)
    <2>1. \A i \in 0 .. count : Least(left, i * DataMax) \in Nat
      <3> TAKE i \in 0 .. count
      <3>1. i * DataMax \in Nat
        BY <1>3, <1>5
      <3> QED
        BY <3>1 DEF Least
    <2>2. c \in [0 .. count -> Nat]
      BY <2>1
    <2>3. c[0] = 0
      <3>1. 0 * DataMax = 0 /\ 0 \in 0 .. count
        BY <1>3, <1>5
      <3> QED
        BY <3>1 DEF Least
    <2>4. \A i \in 1 .. count : c[i] = c[i - 1] + s[i]
      <3> TAKE i \in 1 .. count
      <3> DEFINE x == i * DataMax
                 y == (i - 1) * DataMax
      <3>1. x \in Nat /\ y \in Nat /\ x = y + DataMax /\ x < left + DataMax
        BY <1>6
      <3>2. i \in 0 .. count /\ i - 1 \in 0 .. count
        BY <1>3
      <3>3. c[i] = Least(left, x) /\ c[i - 1] = Least(left, y)
        BY <3>2
      <3>4. s[i] = IF x <= left THEN DataMax ELSE left - y
        OBVIOUS
      <3> HIDE DEF x, y, c, s
      <3> QED
        BY <1>5, <3>1, <3>3, <3>4 DEF Least
    <2> HIDE DEF c, s
    <2> QED
      BY <1>7, <2>2, <2>3, <2>4 DEF Running, Counting
  <1>9. SumFunction(s) = c[count]
    <2> HIDE DEF c, s
    <2> QED
      BY <1>7, <1>8, RunningSum
  <1>10. c[count] = Least(left, count * DataMax)
    BY <1>3
  <1> HIDE DEF c, s
  <1> QED
    BY <1>1, <1>7, <1>9, <1>10

\* A push moves some bytes from the message to the wire and into the window.
Moves(p, q, b) ==
    /\ q.wire \in Seq(Nat)
    /\ SumFunction(q.wire) = SumFunction(p.wire) + b
    /\ q.left = p.left - b /\ q.pending = p.pending + b
    /\ q.acks = p.acks /\ q.replies = p.replies

LEMMA PushMoves ==
    ASSUME NEW p \in Sender, p.wire \in Seq(Nat)
    PROVE  \E b \in 0 .. p.left : Moves(p, Push(p), b)
  <1> DEFINE packets == Pushed(p.left, p.pending)
             b == Least(p.left, Len(packets) * DataMax)
             T == [eager : Nat, wire : Seq(Int), replies : Nat, left : Nat,
                   pending : Int, acks : Seq(Int)]
  <1>1. p \in T /\ p.left \in Nat /\ p.pending \in Int
    BY DEF Sender
  <1>2. packets \in Seq(Nat) /\ SumFunction(packets) = b
    BY <1>1, PushedSum
  <1>3. b \in 0 .. p.left
    <2> DEFINE n == Len(packets) * DataMax
    <2>1. n \in Nat
      <3> HIDE DEF packets
      <3> QED
        BY <1>2, TrafficAssumption
    <2>2. b = Least(p.left, n)
      OBVIOUS
    <2> HIDE DEF n, b
    <2> QED
      BY <1>1, <2>1, <2>2 DEF Least
  <1> DEFINE wire == p.wire \o packets
             left == p.left - b
             inWindow == p.pending + b
  <1>4. Push(p) = [p EXCEPT !.wire = wire, !.left = left, !.pending = inWindow]
    BY DEF Push
  <1>5. wire \in Seq(Nat) /\ SumFunction(wire) = SumFunction(p.wire) + b
    <2>1. wire \in Seq(Nat)
      <3> HIDE DEF packets
      <3> QED
        BY <1>2
    <2>2. SumFunction(wire) = SumFunction(p.wire) + SumFunction(packets)
      <3> HIDE DEF packets
      <3> QED
        BY <1>2, SumConcat
    <2> QED
      BY <1>2, <2>1, <2>2
  <1> HIDE DEF wire, left, inWindow, b, packets
  <1>6. /\ Push(p).wire = wire /\ Push(p).left = left
        /\ Push(p).pending = inWindow
        /\ Push(p).acks = p.acks /\ Push(p).replies = p.replies
    <2> DEFINE S == Seq(Int)
    <2>1. p \in [eager : Nat, wire : S, replies : Nat, left : Nat,
                 pending : Int, acks : S]
      BY <1>1
    <2> HIDE DEF S
    <2> QED
      BY <1>4, <2>1
  <1>7. Moves(p, Push(p), b)
    BY <1>5, <1>6 DEF Moves, left, inWindow
  <1> QED
    BY <1>3, <1>7

-----------------------------------------------------------------------------
(* Steps that move bytes.                                                   *)

LEMMA BytesAre ==
    ASSUME Bytes
    PROVE  /\ SumFunction(peer.wire) \in Nat /\ SumFunction(cq) \in Nat
           /\ SumFunction(peer.acks) \in Nat
           /\ InHand \in Nat /\ R3Bytes \in Nat /\ 1 <= R3Bytes
  BY SeqSumType, TrafficAssumption DEF Bytes, ByteTypes, InHand

LEMMA BytesInit == Init => Bytes
  <1> SUFFICES ASSUME Init PROVE Bytes
    OBVIOUS
  <1>1. /\ peer.wire = << >> /\ cq = << >> /\ peer.acks = << >>
        /\ main.packet = 0 /\ main.at = "run" /\ r3.received = 0
        /\ r3.left = 0 /\ peer.left = 0 /\ peer.replies = 0 /\ peer.pending = 0
    BY DEF Init
  <1>2. << >> \in Seq(Nat)
    OBVIOUS
  <1> QED
    BY <1>1, <1>2, SumOfNone, TrafficAssumption
       DEF Bytes, ByteTypes, UnderWay, InHand, Due

\* Nothing moves.
LEMMA BytesStay ==
    ASSUME Bytes, UNCHANGED <<peer, cq, r3>>, UNCHANGED InHand,
           main'.packet = main.packet
    PROVE  Bytes'
  BY DEF Bytes, ByteTypes, UnderWay, Due

\* A step of the main thread from one place to another.
LEMMA MainMoves ==
    ASSUME IInv, Bytes, UNCHANGED <<peer, cq, r3>>,
           NEW pc, main' = [main EXCEPT !.at = pc],
           \/ /\ main.at \in {"flow", "wake", "signal", "dispatch"}
              /\ pc \in {"flow", "wake", "signal", "dispatch"}
           \/ /\ main.at \notin {"flow", "wake", "signal", "dispatch"}
              /\ pc \notin {"flow", "wake", "signal", "dispatch"}
    PROVE  Bytes'
  <1>1. main \in MainState
    BY DEF IInv, QueueTypeOK
  <1>2. main'.at = pc /\ main'.packet = main.packet
    BY <1>1 DEF MainState
  <1>3. UNCHANGED InHand
    BY <1>2 DEF InHand
  <1> QED
    BY <1>2, <1>3, BytesStay

LEMMA PollBytes ==
    ASSUME IInv, Bytes, Poll
    PROVE  Bytes'
  <1>1. /\ main.at = "run" /\ cq # << >> /\ cq' = Tail(cq) /\ UNCHANGED <<peer, r3>>
        /\ main'.at = "flow" /\ main'.packet = Head(cq)
    BY DEF Poll, At, traffic
  <1>2. cq \in Seq(Nat)
    BY DEF Bytes, ByteTypes
  <1>3. SumFunction(cq) = Head(cq) + SumFunction(Tail(cq))
    BY <1>1, <1>2, SumTail
  <1>4. Tail(cq) \in Seq(Nat) /\ Head(cq) \in Nat
    BY <1>1, <1>2
  <1>5. SumFunction(Tail(cq)) \in Nat
    BY <1>4, SeqSumType
  <1>6. InHand = 0 /\ InHand' = Head(cq)
    BY <1>1 DEF InHand
  <1>7. UnderWay' = UnderWay
    BY <1>1, <1>3, <1>4, <1>5, <1>6, BytesAre DEF UnderWay
  <1> QED
    BY <1>1, <1>4, <1>7 DEF Bytes, ByteTypes, Due

LEMMA DispatchBytes ==
    ASSUME IInv, Bytes, Dispatch
    PROVE  Bytes'
  <1> DEFINE n == main.packet
             received == r3.received + n
             due == n > 0 /\ AckDue(received)
  <1>1. /\ main.at = "dispatch" /\ main' = [main EXCEPT !.at = "run"]
        /\ UNCHANGED cq
        /\ r3' = [r3 EXCEPT !.left = @ - n,
                     !.received = IF due THEN Unreported(received) ELSE received]
        /\ peer' = [peer EXCEPT !.acks = IF due THEN Append(@, received) ELSE @]
    BY DEF Dispatch, At, Go, hca
  <1>2. main \in MainState /\ r3 \in Receiver /\ peer \in Sender
    BY DEF IInv, QueueTypeOK
  <1>3. n \in Nat /\ r3.received \in Nat /\ received \in Nat
        /\ peer.acks \in Seq(Nat)
    BY DEF Bytes, ByteTypes
  <1> DEFINE acks == IF due THEN Append(peer.acks, received) ELSE peer.acks
             kept == IF due THEN 0 ELSE received
             left == r3.left - n
  <1>4. main'.at = "run" /\ main'.packet = n
    BY <1>1, <1>2 DEF MainState
  <1>5. r3'.left = left /\ r3'.received = kept
    <2>1. r3' = [r3 EXCEPT !.left = left, !.received = kept]
      BY <1>1 DEF Unreported
    <2> HIDE DEF left, kept
    <2> QED
      BY <1>2, <2>1 DEF Receiver
  <1>6. /\ peer'.acks = acks
        /\ peer'.wire = peer.wire /\ peer'.left = peer.left
        /\ peer'.replies = peer.replies /\ peer'.pending = peer.pending
    <2> DEFINE S == Seq(Int)
    <2>1. peer' = [peer EXCEPT !.acks = acks]
      BY <1>1
    <2>2. peer \in [eager : Nat, wire : S, replies : Nat, left : Nat,
                    pending : Int, acks : S]
      BY <1>2 DEF Sender
    <2> HIDE DEF acks, S
    <2> QED
      BY <2>1, <2>2
  <1>7. acks \in Seq(Nat) /\ kept \in Nat
        /\ SumFunction(acks) + kept = SumFunction(peer.acks) + received
    <2>1. SumFunction(peer.acks) \in Nat
      BY BytesAre
    <2>2. CASE due
      <3>1. SumFunction(Append(peer.acks, received)) = SumFunction(peer.acks) + received
        <4> HIDE DEF received
        <4> QED
          BY <1>3, SumAppend
      <3>2. Append(peer.acks, received) \in Seq(Nat)
        <4> HIDE DEF received
        <4> QED
          BY <1>3
      <3>3. acks = Append(peer.acks, received) /\ kept = 0
        BY <2>2
      <3> HIDE DEF acks, kept, received
      <3> QED
        BY <1>3, <2>1, <3>1, <3>2, <3>3
    <2>3. CASE ~due
      <3>1. acks = peer.acks /\ kept = received
        BY <2>3
      <3> HIDE DEF acks, kept, received
      <3> QED
        BY <1>3, <2>1, <3>1
    <2> QED
      BY <2>2, <2>3
  <1>8. SumFunction(acks) \in Nat
    <2> HIDE DEF acks
    <2> QED
      BY <1>7, SeqSumType
  <1>9. InHand = n /\ InHand' = 0 /\ Due' = Due
    BY <1>1, <1>4, <1>6 DEF InHand, Due
  <1> HIDE DEF acks, kept, left
  <1>10. UnderWay = UnderWay' + n /\ UnderWay' \in Nat
    BY <1>1, <1>3, <1>6, <1>9, BytesAre DEF UnderWay
  <1>11. ByteTypes'
    BY <1>1, <1>3, <1>4, <1>5, <1>6, <1>7 DEF Bytes, ByteTypes
  <1>12. peer'.pending = UnderWay' + r3'.received + SumFunction(peer'.acks)
    <2>1. peer.pending = UnderWay + r3.received + SumFunction(peer.acks)
          /\ SumFunction(peer.acks) \in Nat
      BY BytesAre DEF Bytes
    <2>2. SumFunction(acks) + kept = SumFunction(peer.acks) + r3.received + n
      BY <1>3, <1>7, <2>1
    <2>3. n \in Nat /\ r3.received \in Nat /\ kept \in Nat
      BY <1>3, <1>7
    <2> HIDE DEF n
    <2>4. peer.pending = UnderWay' + kept + SumFunction(acks)
      BY <1>8, <1>10, <2>1, <2>2, <2>3
    <2> QED
      BY <1>5, <1>6, <2>4
  <1>13. r3'.left = UnderWay' + peer'.left + Due' /\ r3'.left <= R3Bytes
    <2>1. Due \in Nat /\ peer.left \in Nat
      BY TrafficAssumption DEF Due, Bytes, ByteTypes
    <2>2. r3.left = UnderWay + peer.left + Due /\ r3.left <= R3Bytes
          /\ R3Bytes \in Nat
      BY BytesAre DEF Bytes
    <2>3. n \in Nat
      BY <1>3
    <2>4. r3'.left = left /\ peer'.left = peer.left /\ Due' = Due
      BY <1>5, <1>6, <1>9
    <2> HIDE DEF n
    <2>5. left = UnderWay' + peer.left + Due /\ left <= R3Bytes
      BY <1>10, <2>1, <2>2, <2>3 DEF left
    <2> QED
      BY <2>4, <2>5
  <1> QED
    BY <1>11, <1>12, <1>13 DEF Bytes

LEMMA RecvR3Bytes ==
    ASSUME IInv, Bytes, RecvR3, IInv'
    PROVE  Bytes'
  <1>1. /\ main.at = "run" /\ r3.left = 0 /\ UNCHANGED cq
        /\ r3' = [r3 EXCEPT !.asked = @ + 1, !.left = R3Bytes]
        /\ peer' = [peer EXCEPT !.replies = @ + 1]
        /\ main' = main \/ main' = [main EXCEPT !.at = "abort"]
    BY DEF RecvR3, At, Go
  <1>2. main \in MainState /\ r3 \in Receiver /\ peer \in Sender
    BY DEF IInv, QueueTypeOK
  <1>3. main' = main
    <2>1. main'.at # "abort"
      BY DEF IInv, NoAbort
    <2> QED
      BY <1>1, <1>2, <2>1 DEF MainState
  <1>4. UnderWay \in Nat /\ peer.left \in Nat /\ Due \in Nat
    BY BytesAre, TrafficAssumption DEF UnderWay, Due, Bytes, ByteTypes
  <1>5. UnderWay = 0 /\ peer.left = 0 /\ Due = 0
    BY <1>1, <1>4 DEF Bytes
  <1>6. peer.replies = 0
    BY <1>5, BytesAre DEF Due, Bytes, ByteTypes
  <1>7. r3'.left = R3Bytes /\ r3'.received = r3.received
    <2> DEFINE k == r3.asked + 1
    <2>1. r3' = [r3 EXCEPT !.asked = k, !.left = R3Bytes]
      BY <1>1
    <2> HIDE DEF k
    <2> QED
      BY <1>2, <2>1 DEF Receiver
  <1>8. /\ peer'.replies = 1
        /\ peer'.wire = peer.wire /\ peer'.left = peer.left
        /\ peer'.acks = peer.acks /\ peer'.pending = peer.pending
    <2> DEFINE S == Seq(Int)
    <2>1. peer' = [peer EXCEPT !.replies = 1]
      BY <1>1, <1>6
    <2>2. peer \in [eager : Nat, wire : S, replies : Nat, left : Nat,
                    pending : Int, acks : S]
      BY <1>2 DEF Sender
    <2> HIDE DEF S
    <2> QED
      BY <2>1, <2>2
  <1>9. UnderWay' = UnderWay /\ Due' = R3Bytes
    BY <1>1, <1>3, <1>8 DEF UnderWay, InHand, Due
  <1>10. ByteTypes'
    BY <1>1, <1>3, <1>7, <1>8 DEF Bytes, ByteTypes
  <1> QED
    BY <1>4, <1>5, <1>7, <1>8, <1>9, <1>10, BytesAre DEF Bytes

\* The sender's step: p is what it is before it pushes.
LEMMA PushBytes ==
    ASSUME IInv, Bytes, NEW p \in Sender, peer' = Push(p),
           UNCHANGED <<cq, r3, main>>,
           p.wire = peer.wire, p.acks \in Seq(Nat), p.replies \in 0 .. 1,
           p.pending = UnderWay + r3.received + SumFunction(p.acks),
           r3.left = UnderWay + p.left + (IF p.replies = 1 THEN R3Bytes ELSE 0)
    PROVE  Bytes'
  <1>1. peer.wire \in Seq(Nat) /\ r3.received \in Nat
    BY DEF Bytes, ByteTypes
  <1>2. PICK b \in 0 .. p.left : Moves(p, Push(p), b)
    BY <1>1, PushMoves
  <1>3. p.left \in Nat /\ b \in Nat /\ p.left - b \in Nat
    BY DEF Sender
  <1>4. /\ peer'.wire \in Seq(Nat)
        /\ SumFunction(peer'.wire) = SumFunction(peer.wire) + b
        /\ peer'.left = p.left - b /\ peer'.pending = p.pending + b
        /\ peer'.acks = p.acks /\ peer'.replies = p.replies
    BY <1>2 DEF Moves
  <1>5. UnderWay' = UnderWay + b /\ UnderWay \in Nat
    BY <1>3, <1>4, BytesAre DEF UnderWay, InHand
  <1>6. Due' = IF p.replies = 1 THEN R3Bytes ELSE 0
    BY <1>4 DEF Due
  <1>7. SumFunction(p.acks) \in Nat
    BY SeqSumType
  <1>8. ByteTypes'
    BY <1>3, <1>4 DEF Bytes, ByteTypes
  <1>9. peer'.pending = UnderWay' + r3'.received + SumFunction(peer'.acks)
    BY <1>1, <1>3, <1>4, <1>5, <1>7
  <1>10. r3'.left = UnderWay' + peer'.left + Due'
    <2>1. Due' \in Nat
      BY <1>6, TrafficAssumption
    <2> QED
      BY <1>3, <1>4, <1>5, <1>6, <2>1
  <1> QED
    BY <1>8, <1>9, <1>10 DEF Bytes

LEMMA PeerReplyBytes ==
    ASSUME IInv, Bytes, PeerReply
    PROVE  Bytes'
  <1> DEFINE n == peer.replies - 1
             p == [peer EXCEPT !.replies = n, !.left = R3Bytes]
  <1>1. peer \in Sender /\ peer.replies > 0 /\ UNCHANGED <<cq, r3, main>>
        /\ peer' = Push(p)
    BY DEF IInv, QueueTypeOK, PeerReply, hca
  <1>2. peer.replies = 1 /\ n = 0
    BY <1>1 DEF Bytes, ByteTypes
  <1>3. p \in Sender
    <2> HIDE DEF n
    <2>1. << >> \in Seq(Int) /\ 0 \in Int /\ n \in Nat
      BY <1>2
    <2> QED
      BY <1>1, <2>1, SenderWritten
  <1>4. p.wire = peer.wire /\ p.acks = peer.acks /\ p.pending = peer.pending
        /\ p.replies = 0 /\ p.left = R3Bytes
    <2> DEFINE S == Seq(Int)
    <2>1. peer \in [eager : Nat, wire : S, replies : Nat, left : Nat,
                    pending : Int, acks : S]
      BY <1>1 DEF Sender
    <2> HIDE DEF S, n
    <2> QED
      BY <1>2, <2>1
  <1>5. UnderWay \in Nat /\ peer.left \in Nat /\ Due = R3Bytes
    BY <1>2, BytesAre DEF UnderWay, Due, Bytes, ByteTypes
  <1>6. r3.left = UnderWay + R3Bytes
    BY <1>5, BytesAre DEF Bytes
  <1> HIDE DEF p
  <1>7. r3.left = UnderWay + p.left + (IF p.replies = 1 THEN R3Bytes ELSE 0)
    BY <1>4, <1>5, <1>6, BytesAre
  <1>8. p.acks \in Seq(Nat) /\ p.replies \in 0 .. 1
        /\ p.pending = UnderWay + r3.received + SumFunction(p.acks)
    BY <1>4 DEF Bytes, ByteTypes
  <1> QED
    BY <1>1, <1>3, <1>4, <1>7, <1>8, PushBytes

LEMMA PeerAckBytes ==
    ASSUME IInv, Bytes, PeerAck
    PROVE  Bytes'
  <1> DEFINE s == Tail(peer.acks)
             k == peer.pending - Head(peer.acks)
             p == [peer EXCEPT !.acks = s, !.pending = k]
  <1>1. peer \in Sender /\ peer.acks # << >> /\ UNCHANGED <<cq, r3, main>>
        /\ peer' = Push(p)
    BY DEF IInv, QueueTypeOK, PeerAck, hca
  <1>2. peer.acks \in Seq(Nat) /\ peer.pending \in Int /\ r3.received \in Nat
    BY <1>1, SenderIs DEF Bytes, ByteTypes
  <1>3. s \in Seq(Nat) /\ Head(peer.acks) \in Nat /\ k \in Int
    BY <1>1, <1>2
  <1>4. SumFunction(peer.acks) = Head(peer.acks) + SumFunction(s)
    BY <1>1, <1>2, SumTail
  <1>5. s \in Seq(Int)
    BY <1>3
  <1>6. SumFunction(s) \in Nat
    <2> HIDE DEF s
    <2> QED
      BY <1>3, SeqSumType
  <1>7. UnderWay \in Nat
    BY BytesAre DEF UnderWay
  <1>8. k = UnderWay + r3.received + SumFunction(s)
    <2> HIDE DEF s
    <2>1. peer.pending = UnderWay + r3.received + SumFunction(peer.acks)
      BY DEF Bytes
    <2> DEFINE h == Head(peer.acks)
    <2>2. SumFunction(peer.acks) = h + SumFunction(s) /\ h \in Nat
          /\ k = peer.pending - h
      BY <1>3, <1>4
    <2> HIDE DEF h, k
    <2> QED
      BY <1>2, <1>6, <1>7, <2>1, <2>2
  <1> HIDE DEF s, k
  <1>9. p \in Sender
    <2>1. 0 \in Nat
      OBVIOUS
    <2> QED
      BY <1>1, <1>3, <1>5, <2>1, SenderWritten
  <1>10. p.wire = peer.wire /\ p.acks = s /\ p.pending = k
        /\ p.replies = peer.replies /\ p.left = peer.left
    <2> DEFINE S == Seq(Int)
    <2>1. peer \in [eager : Nat, wire : S, replies : Nat, left : Nat,
                    pending : Int, acks : S]
      BY <1>1 DEF Sender
    <2> HIDE DEF S
    <2> QED
      BY <2>1
  <1> HIDE DEF p
  <1>11. p.acks \in Seq(Nat) /\ p.replies \in 0 .. 1
         /\ p.pending = UnderWay + r3.received + SumFunction(p.acks)
    BY <1>3, <1>8, <1>10 DEF Bytes, ByteTypes
  <1>12. r3.left = UnderWay + p.left + (IF p.replies = 1 THEN R3Bytes ELSE 0)
    BY <1>10 DEF Bytes, Due
  <1> QED
    BY <1>1, <1>9, <1>10, <1>11, <1>12, PushBytes

\* Only the wire or the completion queue changes.
LEMMA WireBytes ==
    ASSUME IInv, Bytes, NEW s \in Seq(Nat), NEW t \in Seq(Nat), NEW n \in Nat,
           peer' = [peer EXCEPT !.eager = n, !.wire = s], cq' = t,
           UNCHANGED <<r3, main>>,
           SumFunction(s) + SumFunction(t)
               = SumFunction(peer.wire) + SumFunction(cq)
    PROVE  Bytes'
  <1>1. peer \in Sender
    BY DEF IInv, QueueTypeOK
  <1>2. /\ peer'.wire = s
        /\ peer'.acks = peer.acks /\ peer'.pending = peer.pending
        /\ peer'.replies = peer.replies /\ peer'.left = peer.left
    <2> DEFINE S == Seq(Int)
    <2>1. peer \in [eager : Nat, wire : S, replies : Nat, left : Nat,
                    pending : Int, acks : S]
      BY <1>1 DEF Sender
    <2> HIDE DEF S
    <2> QED
      BY <2>1
  <1>3. SumFunction(s) \in Nat /\ SumFunction(t) \in Nat
    BY SeqSumType
  <1>4. UnderWay' = UnderWay /\ Due' = Due
    BY <1>2, <1>3, BytesAre DEF UnderWay, InHand, Due
  <1>5. ByteTypes'
    BY <1>2 DEF Bytes, ByteTypes
  <1> QED
    BY <1>2, <1>4, <1>5 DEF Bytes

LEMMA PeerEagerBytes ==
    ASSUME IInv, Bytes, PeerEager
    PROVE  Bytes'
  <1> DEFINE s == Append(peer.wire, 0)
             n == peer.eager - 1
  <1>1. peer \in Sender /\ peer.wire \in Seq(Nat) /\ cq \in Seq(Nat)
    BY DEF IInv, QueueTypeOK, Bytes, ByteTypes
  <1>2. n \in Nat
    BY <1>1, SenderIs DEF PeerEager
  <1>3. s \in Seq(Nat)
    BY <1>1
  <1>4. SumFunction(s) = SumFunction(peer.wire) + 0
    BY <1>1, SumAppend
  <1>5. SumFunction(s) + SumFunction(cq) = SumFunction(peer.wire) + SumFunction(cq)
    BY <1>4, BytesAre
  <1>6. peer' = [peer EXCEPT !.eager = n, !.wire = s] /\ cq' = cq /\ UNCHANGED <<r3, main>>
    BY DEF PeerEager, hca
  <1> HIDE DEF s, n
  <1> QED
    BY <1>1, <1>2, <1>3, <1>5, <1>6, WireBytes

LEMMA LandBytes ==
    ASSUME IInv, Bytes, Land
    PROVE  Bytes'
  <1> DEFINE s == Tail(peer.wire)
             t == Append(cq, Head(peer.wire))
             n == peer.eager
  <1>1. peer \in Sender /\ peer.wire \in Seq(Nat) /\ cq \in Seq(Nat)
        /\ peer.wire # << >>
    BY DEF IInv, QueueTypeOK, Bytes, ByteTypes, Land
  <1>2. n \in Nat
    BY <1>1, SenderIs
  <1>3. s \in Seq(Nat) /\ t \in Seq(Nat) /\ Head(peer.wire) \in Nat
    BY <1>1
  <1>4. SumFunction(peer.wire) = Head(peer.wire) + SumFunction(s)
    BY <1>1, SumTail
  <1>5. SumFunction(t) = SumFunction(cq) + Head(peer.wire)
    BY <1>1, <1>3, SumAppend
  <1>6. peer' = [peer EXCEPT !.wire = s] /\ cq' = t /\ UNCHANGED <<r3, main>>
    BY DEF Land
  <1> HIDE DEF s, t
  <1>7. SumFunction(s) \in Nat
    BY <1>3, SeqSumType
  <1>8. SumFunction(s) + SumFunction(t) = SumFunction(peer.wire) + SumFunction(cq)
    BY <1>3, <1>4, <1>5, <1>7, BytesAre
  <1>9. peer' = [peer EXCEPT !.eager = n, !.wire = s]
    <2> DEFINE S == Seq(Int)
    <2>1. peer \in [eager : Nat, wire : S, replies : Nat, left : Nat,
                    pending : Int, acks : S]
      BY <1>1 DEF Sender
    <2> HIDE DEF S
    <2> QED
      BY <1>6, <2>1
  <1> HIDE DEF n
  <1> QED
    BY <1>2, <1>3, <1>6, <1>8, <1>9, WireBytes

LEMMA NextBytes ==
    ASSUME IInv, Bytes, [Next]_vars
    PROVE  Bytes'
  <1>1. IInv'
    BY NextInv
  <1>2. CASE Poll \/ Dispatch \/ RecvR3
    BY <1>1, <1>2, PollBytes, DispatchBytes, RecvR3Bytes
  <1>3. CASE FlowControl
    <2>1. main.at = "flow" /\ UNCHANGED <<peer, cq, r3>>
      BY <1>3 DEF FlowControl, At, traffic
    <2>2. PICK pc \in {"wake", "abort"} : main' = [main EXCEPT !.at = pc]
      BY <1>3 DEF FlowControl, Go
    <2>3. main \in MainState /\ main'.at # "abort"
      BY <1>1 DEF IInv, QueueTypeOK, NoAbort
    <2>4. pc = "wake"
      BY <2>2, <2>3 DEF MainState
    <2> QED
      BY <2>1, <2>2, <2>4, MainMoves
  <1>4. CASE Wake
    <2>1. main.at = "wake" /\ UNCHANGED <<peer, cq, r3>>
      BY <1>4 DEF Wake, At, traffic, hca
    <2>2. PICK pc \in {"signal", "dispatch"} : main' = [main EXCEPT !.at = pc]
      BY <1>4 DEF Wake, Go
    <2> QED
      BY <2>1, <2>2, MainMoves
  <1>5. CASE Signal
    <2>1. main.at = "signal" /\ UNCHANGED <<peer, cq, r3>>
          /\ main' = [main EXCEPT !.at = "dispatch"]
      BY <1>5 DEF Signal, At, Go, traffic, hca
    <2> QED
      BY <2>1, MainMoves
  <1>6. CASE CancelThread
    <2>1. main.at = "run" /\ UNCHANGED <<peer, cq, r3>>
          /\ main' = [main EXCEPT !.at = "destroy"]
      BY <1>6 DEF CancelThread, At, Go, traffic, hca
    <2> QED
      BY <2>1, MainMoves
  <1>7. CASE DestroySrq
    <2>1. main.at = "destroy" /\ UNCHANGED <<peer, cq, r3>>
          /\ main' = [main EXCEPT !.at = "done"]
      BY <1>7 DEF DestroySrq, At, Go, traffic, hca
    <2> QED
      BY <2>1, MainMoves
  <1>8. CASE AsyncThread \/ LimitReached \/ UNCHANGED vars
    <2>1. UNCHANGED <<main, peer, cq, r3>>
      BY <1>8 DEF AsyncThread, GetEvent, Resize, PostOne, PostEnd, Count, Woken,
         Clear, Arm, Ack, LimitReached, vars, hca, traffic
    <2>2. UNCHANGED InHand
      BY <2>1 DEF InHand
    <2> QED
      BY <2>1, <2>2, BytesStay
  <1>9. CASE PeerReply \/ PeerAck \/ PeerEager \/ Land
    BY <1>9, PeerReplyBytes, PeerAckBytes, PeerEagerBytes, LandBytes
  <1> QED
    BY <1>2, <1>3, <1>4, <1>5, <1>6, <1>7, <1>8, <1>9 DEF Next, MainThread

\* The window is at every moment what is under way, counted or acknowledged,
\* and the receiver waits for what is under way or still to be sent.
THEOREM WindowTheorem == Spec => []Bytes
  <1>1. Init => Bytes
    BY BytesInit
  <1>2. IInv /\ Bytes /\ [Next]_vars => Bytes'
    BY NextBytes
  <1> QED
    BY <1>1, <1>2, InvTheorem, PTL DEF Spec

\* No byte is acknowledged or received that was not sent (viacheck.c:2660 and
\* 2324), and the state has its type.
THEOREM TypeTheorem == Spec => []TypeOK
  <1>1. IInv /\ Bytes => TypeOK
    <2> SUFFICES ASSUME IInv, Bytes PROVE TypeOK
      OBVIOUS
    <2>1. UnderWay \in Nat /\ Due \in Nat
      BY BytesAre, TrafficAssumption DEF UnderWay, Due
    <2>2. /\ r3.received \in Nat /\ SumFunction(peer.acks) \in Nat
          /\ peer.left \in Nat
      BY BytesAre DEF Bytes, ByteTypes
    <2>3. /\ peer.pending = UnderWay + r3.received + SumFunction(peer.acks)
          /\ r3.left = UnderWay + peer.left + Due
      BY DEF Bytes
    <2>4. \A a, b, c \in Nat : a + b + c >= 0
      OBVIOUS
    <2>5. peer.pending >= 0
      BY <2>1, <2>2, <2>3, <2>4
    <2>6. r3.left >= 0
      BY <2>1, <2>2, <2>3, <2>4
    <2> QED
      BY <2>5, <2>6 DEF IInv, TypeOK
  <1> QED
    BY <1>1, InvTheorem, WindowTheorem, PTL
=============================================================================
