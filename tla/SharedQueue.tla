---------------------------- MODULE SharedQueue ----------------------------
(***************************************************************************)
(* The shared receive queue of a process (viadev_use_srq) and the two       *)
(* threads that fill it: the main thread after every packet it takes in     *)
(* (viadev_handle_flow_control_srq), and the asynchronous thread when the   *)
(* HCA reports that the queue has run low (process_srq_limit_event).  There *)
(* are no credits in this mode; R3 data is held back by a window of bytes   *)
(* instead (viadev_max_r3_pending_data).                                    *)
(*                                                                         *)
(* srq_post_spin_lock is held by the asynchronous thread while it posts;    *)
(* what the main thread does under it is one step.  A buffer is a work      *)
(* request of the queue until its completion has been polled.               *)
(***************************************************************************)
EXTENDS Integers, Sequences

CONSTANTS
    AllocSize,     \* viadev_srq_alloc_size: what the queue can hold
    FillSize,      \* viadev_srq_fill_size when the process starts
    Limit,         \* viadev_srq_limit
    ZeroPostMax,   \* viadev_srq_zero_post_max
    LargeFill,     \* 200 in the code: above it the preserve is
    FillMargin,    \* 100 less than the fill size, else half of it
    DataMax,       \* bytes of data in an R3 packet
    MaxPending,    \* viadev_max_r3_pending_data
    Eager,         \* bound: eager packets the process will receive
    Transfers,     \* bound: R3 messages the process will receive
    R3Bytes        \* bytes of each of these

ASSUME SizeAssumption ==
    /\ AllocSize \in Nat /\ FillSize \in Nat /\ Limit \in Nat
    /\ LargeFill \in Nat /\ FillMargin \in Nat /\ ZeroPostMax \in Nat
    /\ 1 <= FillSize /\ FillSize <= AllocSize /\ Limit <= FillSize
    /\ 1 <= ZeroPostMax /\ 1 <= FillMargin /\ LargeFill = 2 * FillMargin
ASSUME TrafficAssumption ==
    /\ DataMax \in Nat /\ MaxPending \in Nat /\ R3Bytes \in Nat
    /\ 1 <= DataMax /\ DataMax < MaxPending /\ 1 <= R3Bytes
    /\ Eager \in Nat /\ Transfers \in Nat

VARIABLES
    \* HCA: free buffers, received and not polled (bytes of R3 data in each), limit
    srq, cq, armed, pending,
    unacked,  \* limit events the thread has taken and not acknowledged
    posted,   \* posted_bufs
    fill,     \* viadev_srq_fill_size
    preserve, \* viadev_credit_preserve
    counter,  \* srq_zero_post_counter
    main,     \* main thread: where it is, the packet it handles
    thread,   \* asynchronous thread: where it is, still to post, posted
    r3,       \* receiver: transfers asked for, bytes to come, unacknowledged
    peer      \* sender: packets and replies under way, bytes to send, unacknowledged

hca == <<srq, cq, armed, pending>>
pool == <<posted, fill, preserve>>
traffic == <<r3, peer>>
vars == <<srq, cq, armed, pending, unacked, posted, fill, preserve, counter,
          main, thread, r3, peer>>

Least(a, b) == IF a < b THEN a ELSE b
Preserve(size) == IF size > LargeFill THEN size - FillMargin ELSE size \div 2

Init ==
    /\ srq = FillSize /\ cq = << >> /\ armed = TRUE /\ pending = FALSE /\ unacked = 0
    /\ posted = FillSize /\ fill = FillSize /\ preserve = Preserve(FillSize)
    /\ counter = 0
    /\ main = [at |-> "run", packet |-> 0]
    /\ thread = [at |-> "idle", left |-> 0, added |-> 0]
    /\ r3 = [asked |-> 0, left |-> 0, received |-> 0]
    /\ peer = [eager |-> Eager, wire |-> << >>, replies |-> 0, left |-> 0,
               pending |-> 0, acks |-> << >>]

Free == AllocSize - (srq + Len(cq))
SpinLocked == thread.at = "post"

\* Both parts of a refill of n buffers: error_abort_all for more than the
\* fill size, and as many as the queue takes.
TooMany(n) == n > fill
Posts(n) == Least(n, Free)

-----------------------------------------------------------------------------
(* Main thread.                                                             *)

At(pc) == main.at = pc
Go(pc) == main' = [main EXCEPT !.at = pc]

\* MPID_DeviceCheck takes a packet; its work request is free from now on.
Poll ==
    /\ At("run") /\ cq # << >>
    /\ cq' = Tail(cq) /\ main' = [at |-> "flow", packet |-> Head(cq)]
    /\ UNCHANGED <<srq, armed, pending, unacked, pool, counter, thread, traffic>>

\* viadev_handle_flow_control_srq, under the spin lock.
FlowControl ==
    /\ At("flow") /\ ~SpinLocked
    /\ LET left == posted - 1
           n == fill - left
       IN  IF left > preserve
           THEN posted' = left /\ UNCHANGED srq /\ Go("wake")
           ELSE IF TooMany(n) THEN UNCHANGED <<posted, srq>> /\ Go("abort")
           ELSE posted' = left + Posts(n) /\ srq' = srq + Posts(n) /\ Go("wake")
    /\ UNCHANGED <<cq, armed, pending, unacked, fill, preserve, counter, thread, traffic>>

\* The look at the counter, without a lock.
Wake ==
    /\ At("wake") /\ Go(IF counter >= ZeroPostMax THEN "signal" ELSE "dispatch")
    /\ UNCHANGED <<hca, unacked, pool, counter, thread, traffic>>

\* Fault: the counter is cleared and nobody told.
Signalled_Silently(t) == t

Signalled(t) == IF t.at = "asleep" THEN [t EXCEPT !.at = "woken"] ELSE t

\* The counter is cleared and the thread signalled, under the mutex.
Signal ==
    /\ At("signal") /\ Go("dispatch")
    /\ counter' = 0 /\ thread' = Signalled(thread)
    /\ UNCHANGED <<hca, unacked, pool, traffic>>

\* Faults: acknowledged late; acknowledged bytes are counted again.
AckDue_Late(bytes) == bytes > MaxPending
AckDue(bytes) == bytes >= MaxPending
Unreported_Kept(bytes) == bytes
Unreported(bytes) == 0

\* viadev_process_recv: eager, or viadev_incoming_r3_data and viadev_r3_ack.
Dispatch ==
    LET received == r3.received + main.packet
        due == main.packet > 0 /\ AckDue(received)
    IN  /\ At("dispatch") /\ Go("run")
        /\ r3' = [r3 EXCEPT !.left = @ - main.packet,
                            !.received = IF due THEN Unreported(received) ELSE received]
        /\ peer' = [peer EXCEPT !.acks = IF due THEN Append(@, received) ELSE @]
        /\ UNCHANGED <<hca, unacked, pool, counter, thread>>

\* viadev_recv_r3 on a matched rendezvous, and the reply that it sends.
RecvR3 ==
    LET expected == (R3Bytes + DataMax - 1) \div DataMax
    IN  /\ At("run") /\ ~SpinLocked
        /\ r3.asked < Transfers /\ r3.left = 0
        /\ IF posted > preserve THEN UNCHANGED <<posted, srq, main>>
           ELSE IF TooMany(expected) THEN UNCHANGED <<posted, srq>> /\ Go("abort")
           ELSE /\ posted' = posted + Posts(expected) /\ srq' = srq + Posts(expected)
                /\ UNCHANGED main
        /\ r3' = [r3 EXCEPT !.asked = @ + 1, !.left = R3Bytes]
        /\ peer' = [peer EXCEPT !.replies = @ + 1]
        /\ UNCHANGED <<cq, armed, pending, unacked, fill, preserve, counter, thread>>

\* Everything the other processes send has been handled.
Quiet ==
    /\ cq = << >> /\ peer.wire = << >> /\ peer.eager = 0 /\ peer.acks = << >>
    /\ r3.asked = Transfers /\ r3.left = 0

\* MPID_VIA_Finalize cancels and joins the thread, with the spin lock held so
\* that it is not posting.
CancelThread ==
    /\ At("run") /\ ~SpinLocked /\ Quiet
    /\ thread' = [thread EXCEPT !.at = "cancelled"] /\ Go("destroy")
    /\ UNCHANGED <<hca, unacked, pool, counter, traffic>>

\* ibv_destroy_srq returns when the events of the queue are acknowledged.
DestroySrq ==
    /\ At("destroy") /\ unacked = 0 /\ Go("done")
    /\ UNCHANGED <<hca, unacked, pool, counter, thread, traffic>>

MainThread ==
    \/ Poll \/ FlowControl \/ Wake \/ Signal \/ Dispatch \/ RecvR3
    \/ CancelThread \/ DestroySrq

-----------------------------------------------------------------------------
(* Asynchronous thread: async_thread and process_srq_limit_event.           *)

ThreadAt(pc) == thread.at = pc
ThreadGo(pc) == thread' = [thread EXCEPT !.at = pc]

GetEvent ==
    /\ ThreadAt("idle") /\ pending /\ ThreadGo("resize")
    /\ pending' = FALSE /\ unacked' = unacked + 1
    /\ UNCHANGED <<srq, cq, armed, pool, counter, main, traffic>>

\* Fault: what is missing is counted before the size is doubled.
Missing_Before(size) == fill - Limit
Missing(size) == size - Limit

\* The spin lock is taken and the fill size doubled.
Resize ==
    LET size == Least(2 * fill, AllocSize)
    IN  /\ ThreadAt("resize")
        /\ fill' = size /\ preserve' = Preserve(size)
        /\ thread' = [at |-> "post", left |-> Missing(size), added |-> 0]
        /\ UNCHANGED <<hca, unacked, posted, counter, main, traffic>>

\* One turn of viadev_post_srq_buffers: the main thread may poll meanwhile.
PostOne ==
    /\ ThreadAt("post") /\ thread.left > 0 /\ Free > 0
    /\ srq' = srq + 1
    /\ thread' = [thread EXCEPT !.left = @ - 1, !.added = @ + 1]
    /\ UNCHANGED <<cq, armed, pending, unacked, pool, counter, main, traffic>>

\* All are posted or the queue takes no more; the spin lock is given back.
PostEnd ==
    /\ ThreadAt("post") /\ (thread.left = 0 \/ Free = 0)
    /\ posted' = posted + thread.added
    /\ thread' = [at |-> IF thread.added = 0 THEN "count" ELSE "clear",
                  left |-> 0, added |-> 0]
    /\ UNCHANGED <<hca, unacked, fill, preserve, counter, main, traffic>>

\* pthread_cond_wait while the counter is at its bound, under the mutex
Sleep(c) == ThreadGo(IF c >= ZeroPostMax THEN "asleep" ELSE "arm")

Count ==
    /\ ThreadAt("count") /\ counter' = counter + 1 /\ Sleep(counter')
    /\ UNCHANGED <<hca, unacked, pool, main, traffic>>

Woken ==
    /\ ThreadAt("woken") /\ Sleep(counter)
    /\ UNCHANGED <<hca, unacked, pool, counter, main, traffic>>

\* The counter is cleared without the mutex.
Clear ==
    /\ ThreadAt("clear") /\ counter' = 0 /\ ThreadGo("arm")
    /\ UNCHANGED <<hca, unacked, pool, main, traffic>>

\* ibv_modify_srq, under the spin lock
Arm ==
    /\ ThreadAt("arm") /\ armed' = TRUE /\ ThreadGo("ack")
    /\ UNCHANGED <<srq, cq, pending, unacked, pool, counter, main, traffic>>

\* ibv_ack_async_event
Ack ==
    /\ ThreadAt("ack") /\ unacked' = unacked - 1 /\ ThreadGo("idle")
    /\ UNCHANGED <<hca, pool, counter, main, traffic>>

AsyncThread ==
    \/ GetEvent \/ Resize \/ PostOne \/ PostEnd \/ Count \/ Woken \/ Clear
    \/ Arm \/ Ack

-----------------------------------------------------------------------------
(* The senders and the HCA.                                                 *)

\* The packets viadev_rendezvous_push sends: until the data is sent or the
\* window is full.
Pushed(left, inWindow) ==
    LET needed(n) == (n + DataMax - 1) \div DataMax
        room == IF inWindow >= MaxPending THEN 0 ELSE needed(MaxPending - inWindow)
    IN  [i \in 1 .. Least(needed(left), room) |->
            IF i * DataMax <= left THEN DataMax ELSE left - (i - 1) * DataMax]

Push(p) ==
    LET packets == Pushed(p.left, p.pending)
        bytes == Least(p.left, Len(packets) * DataMax)
    IN  [p EXCEPT !.wire = @ \o packets, !.left = @ - bytes, !.pending = @ + bytes]

\* viadev_incoming_rendezvous_reply
PeerReply ==
    /\ peer.replies > 0
    /\ peer' = Push([peer EXCEPT !.replies = @ - 1, !.left = R3Bytes])
    /\ UNCHANGED <<hca, unacked, pool, counter, main, thread, r3>>

\* viadev_process_r3_ack, and process_flowlist after it
PeerAck ==
    /\ peer.acks # << >>
    /\ peer' = Push([peer EXCEPT !.acks = Tail(@), !.pending = @ - Head(peer.acks)])
    /\ UNCHANGED <<hca, unacked, pool, counter, main, thread, r3>>

\* An eager message of any process
PeerEager ==
    /\ peer.eager > 0
    /\ peer' = [peer EXCEPT !.eager = @ - 1, !.wire = Append(@, 0)]
    /\ UNCHANGED <<hca, unacked, pool, counter, main, thread, r3>>

\* A packet lands in a buffer; without one the sender's HCA tries again.
Land ==
    /\ peer.wire # << >> /\ srq > 0
    /\ srq' = srq - 1 /\ cq' = Append(cq, Head(peer.wire))
    /\ peer' = [peer EXCEPT !.wire = Tail(@)]
    /\ UNCHANGED <<armed, pending, unacked, pool, counter, main, thread, r3>>

\* The HCA reports once that the queue is below its limit.
LimitReached ==
    /\ armed /\ srq < Limit /\ armed' = FALSE /\ pending' = TRUE
    /\ UNCHANGED <<srq, cq, unacked, pool, counter, main, thread, traffic>>

-----------------------------------------------------------------------------
Next ==
    \/ MainThread \/ AsyncThread
    \/ PeerReply \/ PeerAck \/ PeerEager \/ Land \/ LimitReached

\* Both threads run, the other processes make progress, and the fabric and the
\* HCA deliver packets and events.
Fairness ==
    /\ WF_vars(MainThread) /\ WF_vars(AsyncThread)
    /\ WF_vars(PeerReply) /\ WF_vars(PeerAck) /\ WF_vars(PeerEager)
    /\ WF_vars(Land) /\ WF_vars(LimitReached)

Spec == Init /\ [][Next]_vars /\ Fairness
-----------------------------------------------------------------------------
(* Properties.                                                              *)

MainState ==
    [at : {"run", "flow", "wake", "signal", "dispatch", "abort", "destroy", "done"},
     packet : Int]
ThreadState ==
    [at : {"idle", "resize", "post", "count", "asleep", "woken", "clear", "arm",
           "ack", "cancelled"},
     left : Nat, added : Nat]
Receiver == [asked : Nat, left : Int, received : Int]
Sender ==
    [eager : Nat, wire : Seq(Int), replies : Nat, left : Nat, pending : Int,
     acks : Seq(Int)]

HcaTypes ==
    /\ srq \in Nat /\ cq \in Seq(Int) /\ unacked \in 0 .. 1
    /\ armed \in BOOLEAN /\ pending \in BOOLEAN
PoolTypes ==
    posted \in Nat /\ fill \in 1 .. AllocSize /\ preserve \in Nat /\ counter \in Nat

QueueTypeOK ==
    /\ HcaTypes /\ PoolTypes
    /\ main \in MainState /\ thread \in ThreadState
    /\ r3 \in Receiver /\ peer \in Sender

\* No byte is acknowledged or received that was not sent: the assertions of
\* viacheck.c:2660 and 2324 on the two ends of the window.
TypeOK == QueueTypeOK /\ peer.pending >= 0 /\ r3.left >= 0

Handled == IF main.at = "flow" THEN 1 ELSE 0

\* posted_bufs is, at every moment the spin lock is free, the buffers that are
\* free, received and not polled, or just polled (viapriv.h, posted_bufs).
PostedIsExact == posted + thread.added = srq + Len(cq) + Handled

\* When the main thread has handled all there is, more than the preserve is
\* free for what comes next, whether or not the limit event is armed and the
\* asynchronous thread awake; and nobody asks for more buffers than the fill
\* size, which ends the process (viapriv.c:801).
NeverStarved ==
    /\ main.at # "abort"
    /\ ~SpinLocked /\ main.at # "flow" /\ cq = << >> => srq > preserve

\* A thread that sleeps because all buffers wait in the completion queue is
\* woken when the main thread takes packets out of it: the counter is read and
\* cleared without the lock of the condition (viacheck.c:920, 2734).
ThreadWakes == thread.at = "asleep" /\ cq # << >> ~> thread.at = "woken"

\* Every transfer ends: the sender that stops at its window is owed an
\* acknowledgement by the receiver, across messages and short last packets
\* (viacheck.c:2242, 2336).
TransferEnds == <>[]Quiet
=============================================================================
