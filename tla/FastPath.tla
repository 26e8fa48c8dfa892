------------------------------ MODULE FastPath ------------------------------
(***************************************************************************)
(* The RDMA eager fast path of one connection next to its send queue, with  *)
(* a shared receive queue (viadev_use_srq, the default): MPID_VIA_eager_send *)
(* in viasend.c, post_fast_rdma_with_completion, fast_rdma_ok,              *)
(* release_recv_rdma and search_header_cache in viapriv.c, poll_rdma_buffer *)
(* and viadev_process_recv in viacheck.c, FAST_PATH_ALLOC in nfr.h,         *)
(* vbuf_fast_rdma_alloc and vbuf_rdma_address_send in vbuf.c.               *)
(*                                                                         *)
(* The receiver of the first eager message allocates a ring of N buffers    *)
(* and sends its address over the queue.  From then on the other side       *)
(* writes into the ring as long as it has buffers, and uses the queue       *)
(* otherwise.  The packets of both share one sequence of numbers.  Buffers  *)
(* come back as credits in the headers of packets, and a header that is     *)
(* like the one before is left out.                                        *)
(*                                                                         *)
(* A message lands in the ring in one step; RdmaSlot has the words.         *)
(***************************************************************************)
EXTENDS Integers, Sequences, FiniteSets, FiniteSetsExt

CONSTANTS
    N,          \* viadev_num_rdma_buffer
    Headers,    \* envelopes of messages, 0 is the one of all zeros
    SendSizes,  \* bound: SendSizes[p, n], the sizes the n-th send of p may have
    MaxSends    \* bound: the sends a process starts

ASSUME RingAssumption ==
    /\ N \in Nat \ {0, 1}
    /\ Headers \subseteq Nat /\ 0 \in Headers
    /\ MaxSends \in [{0, 1} \X {0, 1} -> Nat]

Proc == {0, 1}
Peer(p) == 1 - p
Slot == 0 .. N - 1
After(s, k) == (s + k) % N

\* short: below viadev_max_fast_eager_size; ring: a buffer of the ring holds
\* it; queue: it takes more than one buffer.
Sizes == {"short", "ring", "queue"}

VARIABLES
    conn,         \* viadev_connection_t
    wire,         \* packets posted and not yet placed, oldest first
    ring,         \* the receive ring: the packet under a head flag, or None
    cq,           \* packets received from the queue and not yet polled
    completions,  \* RDMA writes placed whose completion was not polled yet
    waiting,      \* the packet viadev_process_recv holds back, or None
    unexpected,   \* buffers of the ring whose message waits for a receive
    lost,         \* credits that were dropped
    submitted,    \* sends started, per ordered pair
    received      \* sends handed over at the other side

vars == <<conn, wire, ring, cq, completions, waiting, unexpected, lost,
          submitted, received>>

None == [type |-> "none", id |-> 0]

\* The fields of a header that IS_HEADER_CACHED compares.
Header(env, credit) == [env |-> env, credit |-> credit]

InitialConnection ==
    [ send_ring |-> FALSE, phead |-> 0, ptail |-> 0,
      busy |-> {}, shandle |-> [s \in Slot |-> 0],
      recv_ring |-> FALSE, p_recv |-> 0, p_recv_tail |-> 0, free |-> {},
      rdma_credit |-> 0,
      cached_outgoing |-> Header(0, 0), cached_incoming |-> Header(0, 0),
      tosend |-> 1, expected |-> 1 ]

Init ==
    /\ conn = [p \in Proc |-> InitialConnection]
    /\ wire = [p \in Proc |-> << >>]
    /\ ring = [p \in Proc |-> [s \in Slot |-> None]]
    /\ cq = [p \in Proc |-> << >>]
    /\ completions = [p \in Proc |-> << >>]
    /\ waiting = [p \in Proc |-> None]
    /\ unexpected = [p \in Proc |-> {}]
    /\ lost = [p \in Proc |-> 0]
    /\ submitted = [pq \in Proc \X Proc |-> 0]
    /\ received = [pq \in Proc \X Proc |-> << >>]

-----------------------------------------------------------------------------
(* Packets.  A packet of type "cached" has no envelope and no credits on the *)
(* wire: its field header is what the sender means, for HeaderDecoded.      *)

Packet(c, type, header, size, msg) ==
    [type |-> type, id |-> c.tosend, header |-> header, size |-> size,
     msg |-> msg]

Numbered(c) == [c EXCEPT !.tosend = @ + 1]
CreditsTaken(c) == [c EXCEPT !.rdma_credit = 0]

OnQueue(pkt) == [via |-> "queue", slot |-> 0, pkt |-> pkt]
OnRing(s, pkt) == [via |-> "ring", slot |-> s, pkt |-> pkt]

\* What a process does to its connection and posts.
Posts(c, items) == [conn |-> c, items |-> items]

\* viadev_post_send with the shared receive queue.
PostSend(c, type, env, size, msg) ==
    Posts(CreditsTaken(Numbered(c)),
          <<OnQueue(Packet(c, type, Header(env, c.rdma_credit), size, msg))>>)

\* Faults: one of two tests is left out.
FastRdmaOk_NoCredit(c) == c.send_ring /\ c.phead \notin c.busy
FastRdmaOk_NoBusy(c) == c.send_ring /\ c.phead # c.ptail

\* fast_rdma_ok
FastRdmaOk(c) ==
    c.send_ring /\ c.phead # c.ptail /\ c.phead \notin c.busy

\* post_fast_rdma_with_completion
PostRing(c, pkt) ==
    Posts([CreditsTaken(Numbered(c)) EXCEPT
              !.busy = @ \cup {c.phead}, !.shandle[c.phead] = pkt.msg,
              !.phead = After(@, 1)],
          <<OnRing(c.phead, pkt)>>)

\* Fault: the credits are not compared.
IsHeaderCached_Envelope(cached, h) == cached.env = h.env

IsHeaderCached(cached, h) == cached = h

\* MPID_VIA_eager_send
EagerPost(c, env, size, msg) ==
    LET h == Header(env, c.rdma_credit)
    IN  IF ~FastRdmaOk(c) \/ size = "queue"
        THEN PostSend(c, "start", env, size, msg)
        ELSE IF size = "short" /\ IsHeaderCached(c.cached_outgoing, h)
        THEN PostRing(c, Packet(c, "cached", h, size, msg))
        ELSE PostRing(IF size = "short" THEN [c EXCEPT !.cached_outgoing = h]
                      ELSE c,
                      Packet(c, "start", h, size, msg))

-----------------------------------------------------------------------------
(* Receiving.                                                              *)

\* Buffers that can go back when buffer s is free, in the order of the ring.
Returned(c, s) ==
    LET first == After(c.p_recv_tail, 1)
        freed == c.free \cup {s}
        Run(k) == \A i \in 0 .. k - 1 :
                      /\ After(first, i) \in freed
                      /\ After(first, i) # c.p_recv
    IN  IF s # first THEN 0 ELSE Max({k \in 0 .. N : Run(k)})

\* Fault: a run of free buffers counts as one.
ReleaseRecv_OneCredit(c, s) ==
    LET k == Returned(c, s)
    IN  [c EXCEPT
            !.rdma_credit = @ + Min({k, 1}),
            !.p_recv_tail = After(@, k),
            !.free = (@ \cup {s}) \ {After(c.p_recv_tail, i) : i \in 1 .. k}]

\* release_recv_rdma
ReleaseRecv(c, s) ==
    LET k == Returned(c, s)
    IN  [c EXCEPT
            !.rdma_credit = @ + k,
            !.p_recv_tail = After(@, k),
            !.free = (@ \cup {s}) \ {After(c.p_recv_tail, i) : i \in 1 .. k}]

\* vbuf_fast_rdma_alloc(c, 1)
AllocRecv(c) ==
    [c EXCEPT !.recv_ring = TRUE, !.p_recv = 0, !.p_recv_tail = N - 1,
              !.rdma_credit = 0]

\* vbuf_fast_rdma_alloc(c, 0): it clears the credits of the receive ring, too.
AllocSend(c) ==
    [c EXCEPT !.send_ring = TRUE, !.phead = 0, !.ptail = N - 1,
              !.rdma_credit = 0]

\* FAST_PATH_ALLOC: the count of messages is set to the threshold plus one
\* as long as the polling group has room, so the first message decides.
FastPathAlloc(c) ==
    IF c.recv_ring THEN Posts(c, << >>)
    ELSE PostSend(AllocRecv(c), "address", 0, "queue", 0)

AbsorbCredits(c, credit) ==
    [c EXCEPT !.ptail = IF @ + credit >= N THEN @ + credit - N ELSE @ + credit]

\* The header of a packet as the receiver sees it.
HeaderOf(c, pkt) ==
    IF pkt.type = "cached" THEN c.cached_incoming ELSE pkt.header

\* viadev_incoming_eager_start: a header that came by the ring is kept.
KeepHeader(c, pkt, via) ==
    IF pkt.type = "start" /\ pkt.size = "short" /\ via = "ring"
    THEN [c EXCEPT !.cached_incoming = pkt.header]
    ELSE c

\* Fault: an address packet is not counted.
Accepted_MessagesOnly(c, pkt) ==
    IF pkt.type = "address" THEN c ELSE [c EXCEPT !.expected = @ + 1]

Accepted(c, pkt) == [c EXCEPT !.expected = @ + 1]

\* viadev_process_recv for a packet whose turn it is.
Receive(c, pkt, via) ==
    LET c1 == AbsorbCredits(Accepted(c, pkt), HeaderOf(c, pkt).credit)
    IN  CASE pkt.type = "address" -> Posts(AllocSend(c1), << >>)
          [] pkt.type = "start" ->
                 LET r == FastPathAlloc(c1)
                 IN  Posts(KeepHeader(r.conn, pkt, via), r.items)
          [] pkt.type = "cached" -> Posts(c1, << >>)

\* What p has done becomes visible, and the message is handed over.
Done(p, r) ==
    /\ conn' = [conn EXCEPT ![p] = r.conn]
    /\ wire' = [wire EXCEPT ![p] = @ \o r.items]

HandedOver(p, pkt) ==
    IF pkt.type = "address" THEN UNCHANGED received
    ELSE received' = [received EXCEPT ![<<Peer(p), p>>] = Append(@, pkt.msg)]

\* Credits that AllocSend drops.
Dropped(p, pkt) ==
    lost' = IF pkt.type = "address"
            THEN [lost EXCEPT ![p] = @ + conn[p].rdma_credit]
            ELSE lost

-----------------------------------------------------------------------------
(* Actions.                                                                *)

EagerSend(p, env, size) ==
    LET n == submitted[<<p, Peer(p)>>] + 1
    IN  /\ waiting[p] = None
        /\ n <= MaxSends[<<p, Peer(p)>>] /\ size \in SendSizes[<<p, n>>]
        /\ Done(p, EagerPost(conn[p], env, size, n))
        /\ submitted' = [submitted EXCEPT ![<<p, Peer(p)>>] = n]
        /\ UNCHANGED <<ring, cq, completions, waiting, unexpected, lost,
                       received>>

\* The HCA places a packet at the other side; the write completes.
Land(p) ==
    LET item == Head(wire[p])
        q == Peer(p)
    IN  /\ wire[p] # << >>
        /\ wire' = [wire EXCEPT ![p] = Tail(@)]
        /\ IF item.via = "ring"
           THEN /\ ring' = [ring EXCEPT ![q][item.slot] = item.pkt]
                /\ completions' = [completions EXCEPT ![p] =
                                      Append(@, [slot |-> item.slot,
                                                 msg |-> item.pkt.msg])]
                /\ UNCHANGED cq
           ELSE /\ cq' = [cq EXCEPT ![q] = Append(@, item.pkt)]
                /\ UNCHANGED <<ring, completions>>
        /\ UNCHANGED <<conn, waiting, unexpected, lost, submitted, received>>

\* viadev_process_send: the MPI send of the buffer completes.
ProcessSend(p) ==
    /\ waiting[p] = None
    /\ completions[p] # << >>
    /\ conn' = [conn EXCEPT ![p].busy = @ \ {Head(completions[p]).slot}]
    /\ completions' = [completions EXCEPT ![p] = Tail(@)]
    /\ UNCHANGED <<wire, ring, cq, waiting, unexpected, lost, submitted,
                   received>>

\* Fault: the ring is read whatever the number of the packet.
IsNext_Any(c, pkt) == pkt # None

IsNext(c, pkt) == pkt # None /\ pkt.id = c.expected

\* poll_rdma_buffer and viadev_process_recv, from MPID_DeviceCheck or from the
\* loop of viadev_process_recv that waits.  The message finds a receive, or
\* stays in its buffer.
PollRing(p) ==
    LET s == conn[p].p_recv
        pkt == ring[p][s]
        r == Receive([conn[p] EXCEPT !.p_recv = After(@, 1)], pkt, "ring")
    IN  /\ conn[p].recv_ring
        /\ IsNext(conn[p], pkt)
        /\ ring' = [ring EXCEPT ![p][s] = None]
        /\ \/ /\ Done(p, [r EXCEPT !.conn = ReleaseRecv(@, s)])
              /\ UNCHANGED unexpected
           \/ /\ Done(p, r)
              /\ unexpected' = [unexpected EXCEPT ![p] = @ \cup {s}]
        /\ HandedOver(p, pkt) /\ Dropped(p, pkt)
        /\ UNCHANGED <<cq, completions, waiting, submitted>>

\* A packet of the queue whose turn it is.
TakeFromQueue(p, pkt) ==
    /\ Done(p, Receive(conn[p], pkt, "queue"))
    /\ HandedOver(p, pkt) /\ Dropped(p, pkt)
    /\ UNCHANGED <<ring, completions, unexpected, submitted>>

ProcessRecv(p) ==
    /\ waiting[p] = None /\ cq[p] # << >>
    /\ cq' = [cq EXCEPT ![p] = Tail(@)]
    /\ \/ /\ Head(cq[p]).id = conn[p].expected
          /\ TakeFromQueue(p, Head(cq[p]))
          /\ UNCHANGED waiting
       \/ /\ Head(cq[p]).id # conn[p].expected
          /\ waiting' = [waiting EXCEPT ![p] = Head(cq[p])]
          /\ UNCHANGED <<conn, wire, ring, completions, unexpected, lost,
                         submitted, received>>

\* The loop ends: it was the ring's turn and now it is the packet's.
WaitIsOver(p) ==
    /\ waiting[p] # None /\ waiting[p].id = conn[p].expected
    /\ waiting' = [waiting EXCEPT ![p] = None]
    /\ TakeFromQueue(p, waiting[p])
    /\ UNCHANGED cq

\* A receive matches a message that waits in the ring (eager_pull).
MatchUnexpected(p, s) ==
    /\ waiting[p] = None
    /\ s \in unexpected[p]
    /\ unexpected' = [unexpected EXCEPT ![p] = @ \ {s}]
    /\ conn' = [conn EXCEPT ![p] = ReleaseRecv(@, s)]
    /\ UNCHANGED <<wire, ring, cq, completions, waiting, lost, submitted,
                   received>>

Next ==
    \E p \in Proc :
        \/ \E env \in Headers, size \in Sizes : EagerSend(p, env, size)
        \/ Land(p) \/ ProcessSend(p)
        \/ PollRing(p) \/ ProcessRecv(p) \/ WaitIsOver(p)
        \/ \E s \in Slot : MatchUnexpected(p, s)

Spec == Init /\ [][Next]_vars

\* The HCA goes on, and a process that waits calls MPID_DeviceCheck, which
\* polls the ring and the completion queue.
Fairness ==
    \A p \in Proc :
        /\ WF_vars(Land(p))
        /\ WF_vars(PollRing(p) \/ ProcessRecv(p) \/ WaitIsOver(p))

FairSpec == Spec /\ Fairness

-----------------------------------------------------------------------------
(* Properties.                                                             *)

ItemsOnRing(p) == {i \in DOMAIN wire[p] : wire[p][i].via = "ring"}
Landed(q) == {s \in Slot : ring[q][s] # None}

\* Buffers of the ring that were polled and are not given back.
Taken(q) ==
    LET c == conn[q]
    IN  {s \in Slot : c.recv_ring
            /\ (s - c.p_recv_tail - 1) % N
                 < (c.p_recv - c.p_recv_tail - 1) % N}

\* There is one copy of a buffer at the receiver and nothing else says that it
\* is in use: what is on its way to a buffer finds it empty, not read and not
\* waiting for a receive, and no two writes go to one buffer (viapriv.c:515).
NoOverwrite ==
    \A p \in Proc : \A i \in ItemsOnRing(p) :
        /\ wire[p][i].slot \notin Landed(Peer(p)) \cup Taken(Peer(p))
        /\ unexpected[Peer(p)] \subseteq Taken(Peer(p))
        /\ \A j \in ItemsOnRing(p) \ {i} : wire[p][i].slot # wire[p][j].slot

CreditOf(pkt) == IF pkt = None THEN 0 ELSE pkt.header.credit

\* What the packets on the wire, and those at the receiver, carry.
CreditsOn(w) == SumFunction([i \in DOMAIN w |-> CreditOf(w[i].pkt)])
CreditsIn(k) == SumFunction([i \in DOMAIN k |-> CreditOf(k[i])])

\* Credits from q to its peer in packets that were not received yet.
CreditsUnderWay(q) ==
    LET p == Peer(q)
    IN  CreditsOn(wire[q]) + CreditsIn(ring[p]) + CreditsIn(cq[p])
        + CreditOf(waiting[p])

\* Every buffer but one (the ring is never full) is where it can be found:
\* with the sender, on the wire, landed, taken, or on its way back.  Buffers
\* whose credits the set-up of the other ring dropped are gone (vbuf.c:530).
RingAccount ==
    \A p \in Proc :
        LET q == Peer(p)
        IN  conn[p].send_ring =>
            N - 1 = ((conn[p].ptail - conn[p].phead) % N)
                    + Cardinality(ItemsOnRing(p)) + Cardinality(Landed(q))
                    + Cardinality(Taken(q)) + conn[q].rdma_credit
                    + CreditsUnderWay(q) + lost[q]

\* The send that viadev_process_send completes is found in the buffer: it is
\* the one whose write has completed, and nobody has put another there.
SendsComplete ==
    \A p \in Proc :
        /\ \A i \in ItemsOnRing(p) :
               conn[p].shandle[wire[p][i].slot] = wire[p][i].pkt.msg
        /\ \A i \in DOMAIN completions[p] :
               conn[p].shandle[completions[p][i].slot] = completions[p][i].msg

\* The loop of viadev_process_recv that waits for the ring only, with the
\* completion queue left alone, waits for what is there: every packet before
\* the one held back has landed in the ring.
WaitIsShort ==
    \A p \in Proc : waiting[p] # None =>
        \A id \in conn[p].expected .. waiting[p].id - 1 :
            \E s \in Slot : ring[p][s].id = id

\* A header that was left out is the one the receiver has: when it is the turn
\* of such a packet, what the receiver takes for its envelope and its credits
\* is what the sender meant.
HeaderDecoded ==
    \A p \in Proc :
        LET pkt == ring[p][conn[p].p_recv]
        IN  IsNext(conn[p], pkt) => HeaderOf(conn[p], pkt) = pkt.header

OD == INSTANCE OrderedDelivery WITH Node <- Proc

\* Messages of ring and queue are handed over once, in the order of the sends,
\* and all of them.
ArrivesInOrder == OD!ODSpec
=============================================================================
