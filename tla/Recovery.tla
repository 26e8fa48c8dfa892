------------------------------ MODULE Recovery ------------------------------
(***************************************************************************)
(* Network fault recovery (VIADEV_USE_NFR) of one connection between two    *)
(* processes: the list of unacknowledged packets and its acknowledgements   *)
(* (nfr.h), what a process does when the HCA reports a failed send          *)
(* (nfr.c), the reconnect handshake of the connection manager thread        *)
(* (cm.c, cm_user.c), and the retransmission after it.  Messages go by the  *)
(* eager protocol or by rendezvous with RDMA read (RGET).                   *)
(*                                                                         *)
(* A process has a main thread, which runs the application and polls the    *)
(* completion queue, and a connection manager thread, which handles CM      *)
(* messages and can put a new queue pair under the main thread's feet.      *)
(* Queue pairs are numbered by the connection id (cid) they were made for.  *)
(***************************************************************************)
EXTENDS Naturals, Sequences, FiniteSets, SequencesExt

CONSTANTS
    IdSpace,       \* size of packet_sequence_t: 2^16 in viapacket.h
    FirstId,       \* id of the next packet when the behaviour starts
    AckThreshold,  \* viadev_nfr_ack_threshold
    Scripts,       \* the pairs of send sequences an application may run
    MaxFaults,     \* bound: faults of the network, per pair of sequences
    FaultInHandshake, \* TRUE: a fault may hit a reconnect under way
    ReceiveInRecovery \* TRUE: a receive may match while retries are due

End == {1, 2}
Kind == {"eager", "rget"}

ASSUME RecoveryAssumption ==
    /\ IdSpace \in Nat \ {0} /\ FirstId \in 0 .. (IdSpace - 1)
    /\ AckThreshold \in Nat /\ MaxFaults \in [Scripts -> Nat]
    /\ FaultInHandshake \in BOOLEAN /\ ReceiveInRecovery \in BOOLEAN
    /\ \A s \in Scripts : DOMAIN s = End /\ \A e \in End : s[e] \in Seq(Kind)

VARIABLES
    rank,   \* per process: its two threads, its connection and its HCA
    broken, \* the queue pairs that the network has failed
    faults  \* bound: how many it will still fail

net == <<broken, faults>>
vars == <<rank, broken, faults>>

Peer(e) == 3 - e
NextId(i) == (i + 1) % IdSpace

Packet(type, id, ack, msg) == [type |-> type, id |-> id, ack |-> ack, msg |-> msg]
\* The types nfr_add_to_list keeps until they are acknowledged.
Kept == {"eager", "start"}
\* The sequence s without the elements of the set X
Without(s, X) ==
    FoldLeft(LAMBDA acc, x : IF x \in X THEN acc ELSE Append(acc, x), << >>, s)

\* VIADEV_PACKET_NOOP with its four meanings: these carry no sequence number.
Unsequenced == {"noop", "nfr_req", "nfr_rep", "nfr_fin"}

(***************************************************************************)
(* The life of a connection: UP, DOWN after a failed send, REC when the     *)
(* connection manager thread has installed the new queue pair, REC_D when   *)
(* the main thread has seen it.                                             *)
(***************************************************************************)
Connected(s) == [
    \* viadev_connection_t
    vi |-> 0, status |-> "up", tosend |-> FirstId, expected |-> FirstId,
    pending |-> 0, waiting |-> << >>, recov |-> FALSE, rndv |-> << >>,
    \* connection manager, per peer
    state |-> "pt2pt", cli |-> "idle", srv |-> "idle", cid |-> 0, fresh |-> FALSE,
    req |-> FALSE, \* a copy of its request may be under way
    \* main thread
    phase |-> "run", bad |-> 0, replies |-> 0, halt |-> "no",
    \* application: sends to come, started, queued and over; messages taken in,
    \* read by RDMA and received
    todo |-> s, issued |-> 0, queued |-> << >>, sendDone |-> {},
    got |-> << >>, unexp |-> << >>, read |-> {}, recvDone |-> {},
    \* HCA: posted, landed but not yet completed, completion queue
    wire |-> << >>, sent |-> << >>, cq |-> << >>]

Init ==
    /\ \E s \in Scripts :
          rank = [e \in End |-> Connected(s[e])] /\ faults = MaxFaults[s]
    /\ broken = {}

-----------------------------------------------------------------------------
(* Posting a send.  A handler maps the record r of a process to its record  *)
(* after the step.                                                          *)

Completion(what, pkt, r) == [what |-> what, qp |-> r.vi, pkt |-> pkt]
Failure(r) == Completion("error", Packet("noop", 0, 0, 0), r)

\* ibv_post_send: a send on a failed queue pair is flushed with an error.
IbvPostSend(r, pkt) ==
    IF r.vi \notin broken THEN [r EXCEPT !.wire = Append(@, pkt)]
    ELSE IF \E i \in DOMAIN r.cq : r.cq[i] = Failure(r) THEN r
    ELSE [r EXCEPT !.cq = Append(@, Failure(r))]

\* PACKET_SET_HEADER_NFR and viadev_post_send
PostSend(r, type, msg) ==
    LET pkt == Packet(type, r.tosend, r.pending, msg)
        kept == Packet(type, r.tosend, 0, msg)
    IN  IbvPostSend([r EXCEPT
            !.tosend = NextId(@), !.pending = 0,
            !.waiting = IF type \in Kept THEN Append(@, kept) ELSE @], pkt)

\* PACKET_SET_HEADER_NOOP, as NFR_SEND_ACK_IFNEEDED sends it
SendAckIfNeeded(r) ==
    IF r.recov \/ r.pending <= AckThreshold THEN r
    ELSE IbvPostSend([r EXCEPT !.pending = 0], Packet("noop", 0, r.pending, 0))

\* send_reconnect_req, send_reconnect_rep and send_reconnect_fin
SendReconnect(r, type) ==
    IbvPostSend(r, Packet(type, 0, IF type = "nfr_fin" THEN 0 ELSE r.expected, 0))

\* re_post_send: the packet keeps its id and takes a new acknowledgement.
RePost(r, v) == IbvPostSend([r EXCEPT !.pending = 0], [v EXCEPT !.ack = r.pending])

\* An assertion fails or the process waits for good: it takes no more steps.
Abort(r) == [r EXCEPT !.halt = "assert"]

-----------------------------------------------------------------------------
(* Acknowledgements.                                                        *)

\* nfr_release_acked: the n oldest packets leave the list; the start of a
\* rendezvous stays until the rendezvous ends.
Released(w, n) ==
    FoldLeft(LAMBDA acc, v :
        IF acc.left > 0 /\ v.type # "start" THEN [acc EXCEPT !.left = @ - 1]
        ELSE [acc EXCEPT !.kept = Append(@, v)],
      [kept |-> << >>, left |-> n], w)

Release(r, n) ==
    LET rel == Released(r.waiting, n)
    IN  IF n = 0 THEN r
        ELSE IF rel.left > 0 THEN Abort(r)
        ELSE [r EXCEPT !.waiting = rel.kept]

\* nfr_try_to_release_rndv_start and SEND_COMPLETE, on the end of message m
FinishSend(r, m) ==
    LET others == Without(r.waiting, {v \in Range(r.waiting) : v.msg = m})
    IN  IF Len(others) = Len(r.waiting) THEN Abort(r)
        ELSE [r EXCEPT !.waiting = others, !.sendDone = @ \cup {m}]

-----------------------------------------------------------------------------
(* Receiving a rendezvous with RDMA read.                                   *)

Handle(m, id) == [msg |-> m, sn |-> id, fin |-> FALSE, retransmitted |-> FALSE]
InProcess(r, m) == \E i \in DOMAIN r.rndv : r.rndv[i].msg = m
SetHandle(r, m, F(_)) ==
    [r EXCEPT !.rndv = [i \in DOMAIN @ |-> IF @[i].msg = m THEN F(@[i]) ELSE @[i]]]
DropHandle(r, m) ==
    [r EXCEPT !.rndv = Without(@, {h \in Range(@) : h.msg = m}), !.recvDone = @ \cup {m}]

\* viadev_recv_rget
RecvRget(r, m) == IbvPostSend(r, Packet("read", 0, 0, m))
StartRget(r, m, id) == RecvRget([r EXCEPT !.rndv = Append(@, Handle(m, id))], m)

\* viadev_rget_finish
RgetFinish(r, m) ==
    PostSend(SetHandle(r, m, LAMBDA h : [h EXCEPT !.fin = TRUE]), "finish", m)

\* Fault: a read that was under way is taken for one that is over.
ReadIsOver_Always(h) == TRUE

\* rhandle->fin is set
ReadIsOver(h) == h.fin

\* nfr_process_retransmit: the peer repeats the start of a rendezvous.
ProcessRetransmit(r, pkt) ==
    LET again == SetHandle(r, pkt.msg, LAMBDA h : [h EXCEPT !.retransmitted = TRUE])
    IN  CASE \E i \in DOMAIN r.unexp : r.unexp[i].msg = pkt.msg -> r
          [] \E i \in DOMAIN r.rndv : r.rndv[i].msg = pkt.msg /\ ~ReadIsOver(r.rndv[i]) ->
                RecvRget(again, pkt.msg)
          [] OTHER -> RgetFinish(again, pkt.msg)

\* Fault: what the peer did not repeat is left alone.
EndedAtPeer_None(h) == FALSE

EndedAtPeer(h) == ~h.retransmitted

\* nfr_incoming_nfr_fin: the peer has repeated all it had to repeat.
IncomingFin(r) ==
    LET over == {i \in DOMAIN r.rndv : EndedAtPeer(r.rndv[i])}
    IN  IF \E i \in over : ~r.rndv[i].fin THEN Abort(r)
        ELSE [r EXCEPT !.rndv = Without(@, {h \in Range(@) : EndedAtPeer(h)}),
                       !.recvDone = @ \cup {r.rndv[i].msg : i \in over},
                       !.recov = FALSE]

-----------------------------------------------------------------------------
(* Retransmission.                                                          *)

\* Fault: the first packet the peer misses counts as arrived.
Arrived_OffByOne(v, last) == v.id <= last

Arrived(v, last) == v.id < last

\* One turn of the loop of send_lost_data on packet v of the waiting list,
\* where the peer expects the id last next: a packet below it has arrived
\* and is dropped, a rendezvous start is repeated as a retry, the rest is
\* posted again behind the nfr_fin that ends the retries.
LostPacket(acc, v, last) ==
    LET bigger == acc.firstIsBigger /\ v.id > last
        retry  == [v EXCEPT !.type = "retry"]
        fin    == IF acc.finSent THEN acc.r ELSE SendReconnect(acc.r, "nfr_fin")
        seen   == [acc EXCEPT !.firstIsBigger = bigger, !.id = v.id]
    IN  IF bigger \/ Arrived(v, last)
        THEN IF v.type \in {"start", "retry"}
             THEN [seen EXCEPT !.r = RePost(@, retry), !.kept = Append(@, retry)]
             ELSE seen
        ELSE [seen EXCEPT
                !.r = IF v.id < acc.r.tosend THEN RePost(fin, v) ELSE Abort(@),
                !.kept = Append(@, v), !.finSent = TRUE]

LostPackets(r, w, last) ==
    FoldLeft(LAMBDA acc, v : LostPacket(acc, v, last),
      [r |-> r, kept |-> << >>, finSent |-> FALSE, id |-> last,
       firstIsBigger |-> w # << >> /\ Head(w).id > last], w)

SendLostData(r, last) ==
    LET acc == LostPackets(r, r.waiting, last)
        next == IF acc.finSent /\ last # r.tosend THEN NextId(acc.id) ELSE last
        done == [acc.r EXCEPT !.waiting = acc.kept, !.tosend = next]
    IN  IF acc.finSent THEN done ELSE SendReconnect(done, "nfr_fin")

-----------------------------------------------------------------------------
(* The connection manager.                                                  *)

\* MPICM_Reconnect_req.  It returns with the lock held, which hangs both
\* threads, when the queue pair was replaced under a connected state.
ReconnectReq(r) ==
    LET down == [r EXCEPT !.state = "none"]
    IN  IF r.state = "pt2pt" /\ r.vi # r.cid THEN [r EXCEPT !.halt = "lock"]
        ELSE IF r.cli = "requesting" \/ r.srv # "idle" THEN down
        ELSE [down EXCEPT !.cli = "requesting", !.cid = @ + 1, !.req = TRUE]

\* ibv_destroy_qp takes the completions of the queue pair with it.
IbvDestroyQp(r) ==
    [r EXCEPT !.wire = << >>, !.sent = << >>,
              !.cq = Without(@, {x \in Range(@) : x.qp = r.vi})]

\* Fault: acknowledgements that the peer will not wait for are still owed.
ReEnable_StillOwed(r) ==
    [IbvDestroyQp(r) EXCEPT !.vi = r.cid,
                            !.status = IF @ = "down" THEN "rec" ELSE @]

\* odu_re_enable_qp
ReEnable(r) ==
    [IbvDestroyQp(r) EXCEPT !.pending = 0, !.vi = r.cid,
                            !.status = IF @ = "down" THEN "rec" ELSE @]

\* MPICM_Server_connection_establish
Establish(r) ==
    IF r.srv = "requested" THEN [r EXCEPT !.srv = "idle", !.state = "pt2pt"] ELSE r

\* cm_nfr_accept_rec and cm_accept, after the reset of cm_handle_msg
Accept(r, cid) ==
    [r EXCEPT !.state = "none", !.cli = "idle", !.srv = "requested", !.cid = cid]

\* Fault: both ends give up their own request.
YieldsTo_Always(e, p) == TRUE

\* Of two processes that ask one another the one with the larger rank serves.
YieldsTo(e, p) == p < e

\* cm_handle_msg on the request of process p for the connection cid
Requested(r, e, p, cid) ==
    LET next == IF cid = r.cid + 1 THEN Accept(r, cid) ELSE Abort(r)
    IN  CASE r.state = "pt2pt" \/ r.srv # "idle" -> IF r.cid >= cid THEN r ELSE next
          [] r.state # "pt2pt" /\ r.srv = "idle" /\ r.cli # "idle" ->
                IF cid # r.cid THEN Abort(r)
                ELSE IF YieldsTo(e, p) THEN Accept(r, cid) ELSE r
          [] OTHER -> next

\* A CM_MSG_TYPE_REQ arrives.  A timer sends it again for as long as the client
\* waits, and a copy may still be under way when the client has given up.
CmRequest(e) ==
    LET r == rank[e]  p == rank[Peer(e)]
    IN  /\ p.req /\ p.halt = "no" /\ r.halt = "no"
        /\ rank' = [rank EXCEPT ![e] = Requested(r, e, Peer(e), p.cid),
                                ![Peer(e)].req = (p.cli = "requesting")]
        /\ UNCHANGED net

\* cm_handle_msg, a CM_MSG_TYPE_REP, and cm_enable.  The messages of one
\* process arrive in the order it sent them.
CmReply(e) ==
    LET r == rank[e]  p == rank[Peer(e)]
    IN  /\ p.srv = "requested" /\ r.cli = "requesting" /\ r.cid = p.cid /\ ~p.req
        /\ p.halt = "no" /\ r.halt = "no"
        /\ rank' = [rank EXCEPT ![e] =
             [ReEnable(r) EXCEPT !.cli = "idle", !.req = FALSE, !.fresh = TRUE]]
        /\ UNCHANGED net

-----------------------------------------------------------------------------
(* The application.                                                         *)

Start(r, kind, m) == PostSend(r, IF kind = "eager" THEN "eager" ELSE "start", m)

\* cm_process_queue
ProcessQueue(r) ==
    FoldLeft(LAMBDA acc, x : Start(acc, x.kind, x.msg), [r EXCEPT !.queued = << >>], r.queued)

\* MPID_IsendContig: a send waits in the queue while there is no connection.
Send(e) ==
    LET r == rank[e]
        m == r.issued + 1
        kind == Head(r.todo)
        begun == [r EXCEPT !.todo = Tail(@), !.issued = m]
    IN  /\ r.phase = "run" /\ r.halt = "no" /\ r.todo # << >>
        /\ rank' = [rank EXCEPT ![e] =
             IF r.state = "pt2pt" THEN Start(ProcessQueue(begun), kind, m)
             ELSE [begun EXCEPT !.queued = Append(@, [kind |-> kind, msg |-> m])]]
        /\ UNCHANGED net

\* A receive is posted that matches a rendezvous on the unexpected queue.
Match(e) ==
    LET r == rank[e]  u == Head(r.unexp)
    IN  /\ r.phase = "run" /\ r.halt = "no" /\ r.unexp # << >>
        /\ ReceiveInRecovery \/ ~r.recov
        /\ rank' = [rank EXCEPT ![e] =
             StartRget([r EXCEPT !.unexp = Tail(@)], u.msg, u.id)]
        /\ UNCHANGED net

-----------------------------------------------------------------------------
(* The main thread in the device.                                           *)

\* odu_test_new_connection
TestNewConnection(r) ==
    LET seen == [r EXCEPT !.fresh = FALSE]
    IN  IF ~r.fresh THEN r
        ELSE IF r.status = "rec" THEN [seen EXCEPT !.bad = @ - 1, !.status = "rec_d"]
        ELSE IF r.state = "pt2pt" /\ r.status = "up" THEN ProcessQueue(seen)
        ELSE seen

\* nfr_process_qp_error on an error completion: process_bad_completion and
\* the start of pool_for_recovery
QpError(r) ==
    LET down == [r EXCEPT !.status = "down", !.bad = @ + 1]
    IN  [(IF r.status = "up" THEN ReconnectReq(down) ELSE r) EXCEPT !.phase = "pool"]

Restored(r) ==
    IF r.status = "rec" THEN [r EXCEPT !.bad = @ - 1, !.status = "up"] ELSE r
Renewed(r) == ReEnable(Establish(r))

\* nfr_incoming_nfr_req
IncomingReq(r, ack) ==
    LET up  == Restored(Renewed(r))
        rep == SendReconnect([up EXCEPT !.recov = TRUE], "nfr_rep")
    IN  ProcessQueue(SendLostData(rep, ack))

\* Fault: the reply is not counted.
Replied_NoCount(r) == [r EXCEPT !.state = "pt2pt"]

Replied(r) == [r EXCEPT !.state = "pt2pt", !.replies = @ - 1]

\* nfr_incoming_nfr_rep
IncomingRep(r, ack) ==
    Replied(SendLostData([r EXCEPT !.recov = TRUE], ack))

\* Fault: the number is not counted up.
Counted_Not(r) == [r EXCEPT !.recov = FALSE]

Counted(r) == [r EXCEPT !.recov = FALSE, !.expected = NextId(@)]

\* The switch of viadev_process_recv on a packet that is next in sequence.
Dispatch(r, pkt, expect) ==
    LET next == Counted(r)
    IN  CASE pkt.type = "eager" ->
                [next EXCEPT !.pending = @ + 1, !.got = Append(@, pkt.msg)]
          [] pkt.type = "start" /\ expect ->
                StartRget([next EXCEPT !.got = Append(@, pkt.msg)], pkt.msg, pkt.id)
          [] pkt.type = "start" /\ ~expect ->
                [next EXCEPT !.got = Append(@, pkt.msg), !.unexp = Append(@, pkt)]
          [] pkt.type = "finish" -> FinishSend(next, pkt.msg)
          [] OTHER -> Abort(r)

\* viadev_process_recv.  A packet out of sequence is taken in only as the
\* retry of a rendezvous in recovery mode; else the process stops for good.
ProcessRecv(r, pkt, expect) ==
    LET Acked(s) == IF s.halt # "no" THEN s ELSE SendAckIfNeeded(Release(s, pkt.ack))
    IN  CASE pkt.type = "nfr_req" -> IncomingReq(r, pkt.ack)
          [] pkt.type = "nfr_rep" -> IncomingRep(r, pkt.ack)
          [] pkt.type = "nfr_fin" -> IncomingFin(r)
          [] pkt.type = "noop"    -> Acked(r)
          [] pkt.type \notin Unsequenced /\ pkt.id = r.expected ->
                Acked(Dispatch(r, pkt, expect))
          [] OTHER -> IF r.recov /\ pkt.type = "retry" THEN ProcessRetransmit(r, pkt)
                      ELSE Abort(r)

\* viadev_process_send: the completion of an RDMA read or of a finish; a
\* finish whose message has ended before was one for a dummy handle.
ProcessSend(r, pkt) ==
    IF pkt.type = "read"
    THEN IF InProcess(r, pkt.msg)
         THEN RgetFinish([r EXCEPT !.read = @ \cup {pkt.msg}], pkt.msg) ELSE Abort(r)
    ELSE IF InProcess(r, pkt.msg) THEN DropHandle(r, pkt.msg) ELSE r

\* One turn of MPID_DeviceCheck or of poll4data.
Poll(e, expect) ==
    LET r == TestNewConnection(rank[e])
        x == Head(r.cq)
        rest == [r EXCEPT !.cq = Tail(@)]
    IN  /\ rank[e].halt = "no"
        /\ rank[e].fresh \/ rank[e].cq # << >>
        /\ rank' = [rank EXCEPT ![e] =
             IF r.cq = << >> THEN r
             ELSE CASE x.what = "error" -> QpError(rest)
                    [] x.what = "send"  -> ProcessSend(rest, x.pkt)
                    [] x.what = "recv"  -> ProcessRecv(rest, x.pkt, expect)]
        /\ UNCHANGED net

\* pool_for_recovery after its first loop: a client asks over the new queue
\* pair for the packets it lost.
EndPool(e) ==
    LET r == rank[e]
        wait == [r EXCEPT !.phase = "wait", !.replies = 0]
    IN  /\ r.phase = "pool" /\ r.bad = 0 /\ r.halt = "no"
        /\ rank' = [rank EXCEPT ![e] =
             IF r.status = "rec_d"
             THEN SendReconnect([wait EXCEPT !.state = "none", !.status = "up",
                                             !.replies = 1], "nfr_req")
             ELSE wait]
        /\ UNCHANGED net

EndWait(e) ==
    /\ rank[e].phase = "wait" /\ rank[e].replies <= 0 /\ rank[e].halt = "no"
    /\ rank' = [rank EXCEPT ![e].phase = "run"]
    /\ UNCHANGED net

-----------------------------------------------------------------------------
(* The fabric.                                                              *)

\* A packet lands in a receive buffer of the peer, if the peer has the other
\* queue pair of the connection.  An RDMA read involves no one at the peer.
Land(e) ==
    LET r == rank[e]  p == rank[Peer(e)]  pkt == Head(r.wire)
        here == [r EXCEPT !.wire = Tail(@), !.sent = Append(@, pkt)]
    IN  /\ r.wire # << >> /\ r.vi \in {p.vi, p.cid}
        /\ rank' = [rank EXCEPT ![e] = here,
             ![Peer(e)] = IF pkt.type = "read" THEN p
                          ELSE [p EXCEPT !.cq = Append(@, [what |-> "recv", qp |-> r.vi, pkt |-> pkt])]]
        /\ UNCHANGED net

\* The acknowledgement of the fabric completes the oldest send.  Only the
\* completions of reads and finishes change what the connection does next.
Acknowledge(e) ==
    LET r == rank[e]  pkt == Head(r.sent)
    IN  /\ r.sent # << >>
        /\ rank' = [rank EXCEPT ![e] =
             [r EXCEPT !.sent = Tail(@),
                       !.cq = IF pkt.type \in {"read", "finish"}
                              THEN Append(@, Completion("send", pkt, r)) ELSE @]]
        /\ UNCHANGED net

Recovered(e) ==
    /\ rank[e].phase = "run" /\ rank[e].status = "up" /\ rank[e].state = "pt2pt"
    /\ \A i \in DOMAIN rank[e].cq : rank[e].cq[i].what # "error"
    /\ \A i \in DOMAIN rank[e].cq : rank[e].cq[i].pkt.type \notin Unsequenced \ {"noop"}
    /\ \A i \in DOMAIN rank[e].wire : rank[e].wire[i].type \notin Unsequenced \ {"noop"}
    /\ rank[e].cli = "idle" /\ rank[e].srv = "idle" /\ rank[e].vi = rank[Peer(e)].vi

\* The network fails the connection: what was posted and not completed on
\* either side fails, whether it landed or not.
Fault(g) ==
    /\ g \notin broken /\ faults > 0
    /\ FaultInHandshake \/ \A e \in End : Recovered(e)
    /\ \E e \in End : rank[e].vi = g /\ rank[e].wire \o rank[e].sent # << >>
    /\ broken' = broken \cup {g} /\ faults' = faults - 1
    /\ rank' = [e \in End |->
         IF rank[e].vi = g /\ rank[e].wire \o rank[e].sent # << >>
         THEN [rank[e] EXCEPT !.wire = << >>, !.sent = << >>,
                              !.cq = Append(@, Failure(rank[e]))]
         ELSE rank[e]]

-----------------------------------------------------------------------------
Thread(e) ==
    \/ Send(e) \/ Match(e) \/ EndPool(e) \/ EndWait(e)
    \/ \E expect \in BOOLEAN : Poll(e, expect)

Next ==
    \/ \E e \in End : Thread(e) \/ CmRequest(e) \/ CmReply(e) \/ Land(e) \/ Acknowledge(e)
    \/ \E e \in End : Fault(rank[e].vi)

\* The application calls MPI again and again, the CM timer repeats lost CM
\* messages, and the fabric delivers what it does not fail.
Fairness ==
    \A e \in End :
        /\ WF_vars(Send(e)) /\ WF_vars(Match(e))
        /\ WF_vars(EndPool(e)) /\ WF_vars(EndWait(e))
        /\ WF_vars(\E expect \in BOOLEAN : Poll(e, expect))
        /\ WF_vars(CmRequest(e)) /\ WF_vars(CmReply(e))
        /\ WF_vars(Land(e)) /\ WF_vars(Acknowledge(e))

Spec == Init /\ [][Next]_vars /\ Fairness
-----------------------------------------------------------------------------
(* Properties.                                                              *)

\* The acknowledgements a process owes its peer: it has not sent them, or its
\* peer has not polled the packet that carries them.
Owed(e) ==
    LET wire == rank[e].wire  cq == rank[Peer(e)].cq
    IN  rank[e].pending
        + SumFunction([i \in DOMAIN wire |-> wire[i].ack])
        + SumFunction([i \in DOMAIN cq |-> IF cq[i].what = "recv" THEN cq[i].pkt.ack ELSE 0])

\* No assertion of the recovery code fails, no connection request meets a
\* state it does not expect (cm.c:888, 909, 941, 980) and no packet is out of
\* sequence for good (viacheck.c:1181).
NothingAborts == \A e \in End : rank[e].halt # "assert"

\* A message that was started and has not reached the other side is on the
\* list it can be retransmitted from (nfr.h:387): whatever fails, no fault,
\* acknowledgement or retransmission loses the only copy.
NothingForgotten ==
    \A e \in End : \A m \in 1 .. rank[e].issued :
        \/ m <= Len(rank[Peer(e)].got)
        \/ \E i \in DOMAIN rank[e].queued : rank[e].queued[i].msg = m
        \/ \E i \in DOMAIN rank[e].waiting : rank[e].waiting[i].msg = m

\* Outside a recovery, the packets on a sender's list that have arrived are
\* those the receiver still owes an acknowledgement for, or has one under way
\* for: the counter that a recovery resets on both sides (cm_user.c:231,
\* nfr.c:330) is right again when it ends.
AcksAreExact ==
    (\A e \in End : Recovered(e) /\ rank[e].vi \notin broken) =>
        \A e \in End :
            Cardinality({i \in DOMAIN rank[e].waiting :
                /\ rank[e].waiting[i].type = "eager"
                /\ rank[e].waiting[i].msg <= Len(rank[Peer(e)].got)})
            = Owed(Peer(e))

\* The two ends of a reconnect never both serve it: each would wait for the
\* other's first packet for ever (cm.c:953, both see the fault at once).
OneServer == ~ \A e \in End : rank[e].srv = "requested"

\* A process that runs the application has no connection it believes broken;
\* the count of these that pool_for_recovery waits for matches their states
\* although two threads change them (cm_user.c:236, nfr.c:1010).
BadConnectionsCounted ==
    \A e \in End :
        /\ rank[e].bad = (IF rank[e].status \in {"down", "rec"} THEN 1 ELSE 0)
        /\ rank[e].phase = "run" => rank[e].bad = 0

\* MPICM_Reconnect_req gives the lock back on all its ways out (cm.c:1548):
\* with the lock kept, both threads of the process stop at its next use.
LockReleased == \A e \in End : rank[e].halt # "lock"

\* The connected state is never on while the queue pair in use is not the
\* newest: sends would go to the old one, and MPICM_Reconnect_req would
\* return with its lock held (cm.c:1546).
ConnectedOnNewest ==
    \A e \in End : rank[e].state = "pt2pt" /\ rank[e].halt = "no" => rank[e].vi = rank[e].cid

\* What the two ends, the two threads of each and their counters know of the
\* reconnect agrees.
HandshakeAgrees == OneServer /\ BadConnectionsCounted /\ ConnectedOnNewest

\* The sender of a rendezvous hears of its end, and may reuse its buffer, only
\* when the receiver has read all of it, and nobody reads it afterwards
\* (nfr.c:951, the second read after a fault).
BufferReadInTime ==
    \A e \in End : \A m \in rank[e].sendDone :
        LET p == rank[Peer(e)] IN
        /\ m \in p.read
        /\ ~ \E i \in DOMAIN p.wire : p.wire[i].type = "read" /\ p.wire[i].msg = m

submitted == [pq \in End \X End |-> IF pq[1] # pq[2] THEN rank[pq[1]].issued ELSE 0]
received == [pq \in End \X End |-> IF pq[1] # pq[2] THEN rank[pq[2]].got ELSE << >>]
Sends == [pq \in End \X End |-> Max({Len(s[e]) : s \in Scripts, e \in End})]

OD == INSTANCE OrderedDelivery WITH Node <- End, MaxSends <- Sends

\* Every message is handed over exactly once and in order, across the faults,
\* and in the end.
ArrivesInOrder == OD!ODSafety

\* Every process gets out of recovery and every message is handed over, when
\* faults stop: no two waits of the recovery wait for one another.
EventuallyRecovered ==
    <>[](\A e \in End :
        /\ rank[e].phase = "run" /\ rank[e].todo = << >> /\ rank[e].queued = << >>
        /\ Len(rank[Peer(e)].got) = rank[e].issued)

RendezvousOver ==
    \A e \in End :
        /\ rank[e].rndv = << >> /\ rank[e].unexp = << >>
        /\ \A i \in DOMAIN rank[e].waiting : rank[e].waiting[i].type = "eager"

\* A fault leaves no rendezvous unfinished on either side: of the start, the
\* read, the finish and their completions any may be what was lost.
RendezvousSurvivesFault ==
    [](Cardinality(broken) <= 1) => <>[]RendezvousOver
=============================================================================
