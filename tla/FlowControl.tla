---------------------------- MODULE FlowControl ----------------------------
(***************************************************************************)
(* Credit-based flow control of one send/receive connection of the ch_gen2 *)
(* device (viadev_use_srq = 0): viadev_post_send, viadev_backlog_send and   *)
(* the extended send queue (viapriv.c), viadev_process_send,                *)
(* viadev_process_recv, viadev_handle_flow_control_sr, the NOOPs and the    *)
(* flow list (viacheck.c), the preposting for R3 rendezvous (viarecv.c) and *)
(* the tests that gate eager and R3 data (viasend.c).                       *)
(*                                                                         *)
(* There are two processes, 0 and 1, and one reliable connection between    *)
(* them.  conn[p] is p's viadev_connection_t for the other.  Every handler  *)
(* of the code is a composition of operators that map such a record to the  *)
(* next one, in the order the code calls them.                              *)
(*                                                                         *)
(* conn[p].out is everything p has given credits to and the other side has  *)
(* not polled yet, oldest first: `landed' packets sit in receive buffers of *)
(* the other side, the last `ext_sendq_size' are still on p's extended send *)
(* queue, and the ones between are on the HCA send queue or on the wire.    *)
(***************************************************************************)
EXTENDS Integers, Sequences, Functions

CONSTANTS
    Depth,             \* viadev_prepost_depth
    NoopExtra,         \* viadev_prepost_noop_extra
    RendezvousExtra,   \* viadev_prepost_rendezvous_extra
    InitialPrepost,    \* viadev_initial_prepost_depth
    PrepostThreshold,  \* viadev_prepost_threshold
    NotifyThreshold,   \* viadev_credit_notify_threshold
    DynamicThreshold,  \* viadev_dynamic_credit_threshold
    CreditPreserve,    \* viadev_credit_preserve
    SqSize,            \* viadev_sq_size
    EagerSizes,        \* packets an eager message may take
    R3Sizes,           \* R3 data packets a rendezvous message may take
    MaxSends           \* bound: MaxSends[p] MPI sends p starts

Proc == {0, 1}
Peer(p) == 1 - p

\* What viadev_init_parameters leaves the parameters at.
ASSUME ParamAssumption ==
    /\ Depth \in Nat \ {0} /\ NoopExtra \in Nat \ {0}
    /\ RendezvousExtra \in Nat \ {0}
    /\ InitialPrepost \in 1 .. (Depth + NoopExtra)
    /\ PrepostThreshold \in Nat
    /\ NotifyThreshold \in Nat \ {0} /\ DynamicThreshold \in Nat \ {0}
    /\ CreditPreserve \in Nat \ {0}
    /\ Depth - PrepostThreshold > NotifyThreshold
    /\ Depth - PrepostThreshold > DynamicThreshold

ASSUME LoadAssumption ==
    /\ SqSize \in Nat \ {0}
    /\ EagerSizes \subseteq Nat \ {0} /\ R3Sizes \subseteq Nat \ {0}
    /\ MaxSends \in [Proc -> Nat]

InitialCredits ==
    IF InitialPrepost <= NoopExtra THEN InitialPrepost
                                   ELSE InitialPrepost - NoopExtra

RqSize == Depth + RendezvousExtra + NoopExtra

AtMost(a, b) == IF a < b THEN a ELSE b

-----------------------------------------------------------------------------
(***************************************************************************)
(* Packets.  `last' says that the vbuf carries an shandle (the last packet  *)
(* of a message), `vbufs' is the length of an R3 message in data packets.   *)
(* `upto' and `sent' are history fields: the credits granted and the        *)
(* credited packets sent by the sender up to and with this packet.          *)
(***************************************************************************)
PacketType == {"eager", "start", "reply", "r3data", "noop"}

Packet ==
    {pkt \in [type : PacketType, id : Nat, last : BOOLEAN, vbufs : Nat,
              vbuf_credit : Nat, remote_credit : Nat, upto : Nat, sent : Nat] :
        pkt.type \in {"start", "reply"} => pkt.vbufs \in R3Sizes}

NewPacket(type, id, last, vbufs) ==
    [type |-> type, id |-> id, last |-> last, vbufs |-> vbufs,
     vbuf_credit |-> 0, remote_credit |-> 0, upto |-> 0, sent |-> 0]

IsCredited(pkt) == pkt.type # "noop"
Noop == NewPacket("noop", 0, FALSE, 0)

(***************************************************************************)
(* The connection record.  granted, absorbed and noop_spent are history     *)
(* fields: credits ever put into a header, credits ever taken from one, and *)
(* NOOPs whose receive buffer was not posted again.                         *)
(***************************************************************************)
Connection ==
    [remote_credit : Nat, local_credit : Nat, preposts : Nat,
     initialized : BOOLEAN, remote_cc : Nat,
     send_wqes_avail : Nat, ext_sendq_size : Nat,
     backlog : Seq(Packet), out : Seq(Packet), landed : Nat,
     next_packet_tosend : Nat, next_packet_expected : Nat,
     rendezvous_packets_expected : Int,
     granted : Nat, absorbed : Nat, noop_spent : Nat]

\* viadev_post_init_connection and its on-demand twin.
InitialConnection ==
    [remote_credit |-> InitialCredits, local_credit |-> 0,
     preposts |-> InitialPrepost,
     initialized |-> (InitialPrepost = Depth + NoopExtra),
     remote_cc |-> InitialCredits,
     send_wqes_avail |-> SqSize, ext_sendq_size |-> 0,
     backlog |-> << >>, out |-> << >>, landed |-> 0,
     next_packet_tosend |-> 1, next_packet_expected |-> 1,
     rendezvous_packets_expected |-> 0,
     granted |-> 0, absorbed |-> 0, noop_spent |-> 0]

-----------------------------------------------------------------------------
(* Receive side: posting buffers.                                          *)

Needed(c) ==
    Depth + NoopExtra + AtMost(RendezvousExtra, c.rendezvous_packets_expected)

\* n times PREPOST_VBUF_RECV or collect_vbuf_for_recv.
Prepost(c, n) == [c EXCEPT !.preposts = @ + n, !.local_credit = @ + n]

\* Fault: <= for <, one buffer too many.
FillUp_OneMore(c) ==
    LET target == AtMost(RqSize, Needed(c))
    IN  IF c.preposts <= target THEN Prepost(c, target + 1 - c.preposts) ELSE c

\* while (preposts < rq_size && preposts < needed) PREPOST_VBUF_RECV(c)
FillUp(c) ==
    LET target == AtMost(RqSize, Needed(c))
    IN  IF c.preposts < target THEN Prepost(c, target - c.preposts) ELSE c

-----------------------------------------------------------------------------
(* Send side.                                                              *)

\* Fault: the queue is flushed without a look at the free work requests.
ExtSendqSend_NoCheck(c) ==
    [c EXCEPT !.send_wqes_avail = @ - c.ext_sendq_size, !.ext_sendq_size = 0]

\* Fault: the queue is not flushed.
ExtSendqSend_Forgotten(c) == c

\* viadev_ext_sendq_send (and the FLUSH_EXT_SQUEUE that guards it).
ExtSendqSend(c) ==
    LET n == AtMost(c.send_wqes_avail, c.ext_sendq_size)
    IN  [c EXCEPT !.send_wqes_avail = @ - n, !.ext_sendq_size = @ - n]

\* Hand a packet to the HCA if it has a free work request, else queue it.
Enqueue(c, pkt) ==
    IF c.send_wqes_avail > 0
    THEN [c EXCEPT !.out = Append(@, pkt), !.send_wqes_avail = @ - 1]
    ELSE [c EXCEPT !.out = Append(@, pkt), !.ext_sendq_size = @ + 1]

\* The header PACKET_SET_CREDITS leaves in a packet.
WithCredits(c, pkt) ==
    [pkt EXCEPT !.vbuf_credit = c.local_credit,
                !.remote_credit = c.remote_credit,
                !.upto = c.granted + c.local_credit,
                !.sent = c.next_packet_tosend - 1 - Len(c.backlog)]

\* Fault: the local credit is given with every packet again.
CreditsGiven_Kept(c) == [c EXCEPT !.granted = @ + c.local_credit]

\* ... and what it does to the connection.
CreditsGiven(c) ==
    [c EXCEPT !.granted = @ + c.local_credit, !.local_credit = 0]

\* The branch of viadev_post_send that does send a NOOP.
SendNoop(c) == Enqueue(ExtSendqSend(CreditsGiven(c)), WithCredits(c, Noop))

\* viadev_send_noop_ifneeded
NoopNeeded(c) ==
    \/ c.local_credit >= DynamicThreshold
    \/ c.remote_cc <= CreditPreserve /\ c.local_credit >= NotifyThreshold

SendNoopIfNeeded(c) == IF NoopNeeded(c) THEN SendNoop(c) ELSE c

\* A credited packet takes its credits, pays one, and goes out.
Transmit(c, pkt) ==
    Enqueue(ExtSendqSend([CreditsGiven(c) EXCEPT !.remote_credit = @ - 1]),
            WithCredits(c, pkt))

\* PACKET_SET_HEADER takes the sequence number when the packet is built.
Numbered(c) == [c EXCEPT !.next_packet_tosend = @ + 1]

\* Fault: a packet that goes to the backlog does not take its number.
PostSend_Unnumbered(c, type, last, vbufs) ==
    LET pkt == NewPacket(type, c.next_packet_tosend, last, vbufs)
    IN  IF c.remote_credit = 0 THEN [c EXCEPT !.backlog = Append(@, pkt)]
        ELSE Transmit(Numbered(c), pkt)

\* viadev_post_send of a credited packet, from PACKET_SET_HEADER on.
PostSend(c, type, last, vbufs) ==
    LET pkt    == NewPacket(type, c.next_packet_tosend, last, vbufs)
        n      == Numbered(c)
        posted == ExtSendqSend(c).send_wqes_avail > 0
        t      == Transmit(n, pkt)
    IN  IF c.remote_credit = 0
        THEN [n EXCEPT !.backlog = Append(@, pkt)]
        ELSE IF posted /\ PrepostThreshold # 0 /\ last /\ c.initialized
             THEN SendNoopIfNeeded(FillUp(t))
             ELSE t

\* viadev_backlog_send: as many backlogged packets as there are credits; the
\* first one carries the whole local credit.
BacklogSend(c) ==
    LET n     == AtMost(Len(c.backlog), c.remote_credit)
        wqes  == AtMost(n, c.send_wqes_avail)
        first == c.next_packet_tosend - Len(c.backlog)
        sent  == [i \in 1 .. n |->
                    [c.backlog[i] EXCEPT
                        !.vbuf_credit = IF i = 1 THEN c.local_credit ELSE 0,
                        !.remote_credit = c.remote_credit - (i - 1),
                        !.upto = c.granted + c.local_credit,
                        !.sent = first + i - 1]]
    IN  IF n = 0 THEN c
        ELSE [CreditsGiven(c) EXCEPT
                !.backlog = SubSeq(@, n + 1, Len(@)),
                !.remote_credit = @ - n,
                !.send_wqes_avail = @ - wqes,
                !.ext_sendq_size = @ + (n - wqes),
                !.out = @ \o sent]


-----------------------------------------------------------------------------
(* R3 rendezvous on the receive side.                                      *)

\* viadev_prepost_for_rendezvous
PrepostForRendezvous(c, n) ==
    SendNoopIfNeeded(FillUp([c EXCEPT !.rendezvous_packets_expected = @ + n]))

\* viadev_recv_r3: a match was found, make room for the data and ask for it.
RecvR3(c, n) == PostSend(PrepostForRendezvous(c, n), "reply", FALSE, n)

-----------------------------------------------------------------------------
(* viadev_handle_flow_control_sr, in the order of its statements.          *)

\* Fault: the buffer of a NOOP is posted again with a credit.
Repost_NoopCredited(c, pkt) ==
    IF c.preposts + PrepostThreshold < Needed(c) \/ pkt.type = "noop"
    THEN Prepost(c, 1) ELSE c

\* Repost on an initialized connection.
Repost(c, pkt) ==
    IF pkt.type = "noop" THEN [c EXCEPT !.preposts = @ + 1]
    ELSE IF c.preposts < RqSize /\ c.preposts + PrepostThreshold < Needed(c)
         THEN FillUp(c) ELSE c

\* The packet that makes the connection `initialized' posts the buffers that
\* are kept for NOOPs, without credit, and then fills up with credit.
UncreditedPosts ==
    LET reserve == InitialPrepost - InitialCredits
    IN  IF reserve < NoopExtra THEN NoopExtra - reserve ELSE 0

NoopSpent(c, pkt) ==
    [c EXCEPT !.noop_spent = IF pkt.type = "noop" THEN @ + 1 ELSE @]

Initialize(c, pkt) ==
    [FillUp([NoopSpent(c, pkt) EXCEPT !.preposts = @ + UncreditedPosts])
        EXCEPT !.initialized = TRUE]

\* Fault: a rendezvous start that arrives during MPI_Init is not special.
Replenish_NoStart(c, pkt, mpiInit) ==
    LET d == [c EXCEPT !.preposts = @ - 1]
    IN  IF d.initialized THEN Repost(d, pkt)
        ELSE IF mpiInit THEN Initialize(d, pkt)
        ELSE NoopSpent(d, pkt)

\* A buffer was consumed: post again what the state of the connection asks
\* for.  mpiInit is viadev.initialized, "MPI_Init has finished".
Replenish(c, pkt, mpiInit) ==
    LET d == [c EXCEPT !.preposts = @ - 1]
    IN  IF d.initialized THEN Repost(d, pkt)
        ELSE IF mpiInit \/ pkt.type = "start" THEN Initialize(d, pkt)
        ELSE NoopSpent(d, pkt)

\* R3 data keeps the extra preposts up.
ReplenishR3(c, pkt) ==
    IF pkt.type = "r3data" /\ c.rendezvous_packets_expected > 0
    THEN PrepostForRendezvous(c, 0) ELSE c

\* Fault: new credits do not start the backlog.
AbsorbCredits_NoBacklog(c, pkt) ==
    [c EXCEPT !.remote_cc = pkt.remote_credit,
              !.remote_credit = @ + pkt.vbuf_credit,
              !.absorbed = @ + pkt.vbuf_credit]

\* Take the credits of the header and send what they allow.
AbsorbCredits(c, pkt) ==
    LET d == [c EXCEPT !.remote_cc = pkt.remote_credit,
                       !.remote_credit = @ + pkt.vbuf_credit,
                       !.absorbed = @ + pkt.vbuf_credit]
    IN  IF pkt.vbuf_credit > 0 THEN BacklogSend(d) ELSE d

HandleFlowControlSR(c, pkt, mpiInit) ==
    AbsorbCredits(ReplenishR3(Replenish(c, pkt, mpiInit), pkt), pkt)

\* viadev_process_recv up to the dispatch on the packet type.
Accept(c, pkt, mpiInit) ==
    HandleFlowControlSR(
        [c EXCEPT !.next_packet_expected = IF IsCredited(pkt) THEN @ + 1 ELSE @],
        pkt, mpiInit)

\* Fault: R3 data is not counted off.
Dispatch_Uncounted(c, pkt, found) ==
    IF pkt.type = "start" /\ found THEN RecvR3(c, pkt.vbufs) ELSE c

\* The part of the dispatch that touches the connection; found says whether
\* a start packet meets a posted receive.
Dispatch(c, pkt, found) ==
    CASE pkt.type = "start" /\ found -> RecvR3(c, pkt.vbufs)
      [] pkt.type = "r3data" -> [c EXCEPT !.rendezvous_packets_expected = @ - 1]
      [] OTHER -> c

\* viadev_process_recv
ReceivePacket(c, pkt, found, mpiInit) ==
    SendNoopIfNeeded(Dispatch(Accept(c, pkt, mpiInit), pkt, found))

-----------------------------------------------------------------------------
VARIABLES
    conn,   \* conn[p]: p's connection record
    app     \* app[p]: what p's MPI layer has in progress on the connection

vars == << conn, app >>

(***************************************************************************)
(* app[p]: `initialized' is viadev.initialized; `sends' counts the MPI      *)
(* sends started; `unexpected' counts, by length, the R3 starts on the      *)
(* unexpected queue; `shandles' are the data packets still to send of each  *)
(* R3 send on the list at shandle_head; `inflow' says the connection is on  *)
(* the flow list; `pc' is "eager" inside the packet loop of                 *)
(* MPID_VIA_eager_send, "push" inside process_flowlist; `left' are the      *)
(* packets the eager loop has still to post.                                *)
(***************************************************************************)
App == [initialized : BOOLEAN, sends : Nat,
        unexpected : [R3Sizes -> Nat], shandles : Seq(Nat \ {0}),
        inflow : BOOLEAN, pc : {"idle", "eager", "push"}, left : Nat]

InitialApp ==
    [initialized |-> FALSE, sends |-> 0, unexpected |-> [n \in R3Sizes |-> 0],
     shandles |-> << >>, inflow |-> FALSE, pc |-> "idle", left |-> 0]

Init == /\ conn = [p \in Proc |-> InitialConnection]
        /\ app = [p \in Proc |-> InitialApp]

\* The process is not inside a loop of the device.
Idle(p) == app[p].pc = "idle"

\* MPI calls start after MPI_Init and outside MPID_DeviceCheck, which leaves no
\* flow list behind.
InApp(p) == Idle(p) /\ app[p].initialized /\ ~app[p].inflow

SetApp(p, a) == app' = [app EXCEPT ![p] = a]
SetConn(p, c) == conn' = [conn EXCEPT ![p] = c]

\* MPI_Init returns: viadev.initialized = 1.
FinishInit(p) ==
    /\ ~app[p].initialized
    /\ SetApp(p, [app[p] EXCEPT !.initialized = TRUE])
    /\ UNCHANGED conn

\* Fault: the packets of the message itself are not counted.
EagerOk_FirstOnly(c, n) == c.remote_credit - 1 >= CreditPreserve

\* viadev_eager_ok
EagerOk(c, n) == c.remote_credit - n >= CreditPreserve

\* The loop of MPID_VIA_eager_send: one packet; `left' are to go.
EagerPost(p, a, left) ==
    /\ SetConn(p, PostSend(conn[p], "eager", left = 1, 0))
    /\ SetApp(p, [a EXCEPT !.left = left - 1,
                           !.pc = IF left = 1 THEN "idle" ELSE "eager"])

EagerSend(p) ==
    /\ InApp(p) /\ app[p].sends < MaxSends[p]
    /\ \E n \in EagerSizes :
          /\ EagerOk(conn[p], n)
          /\ EagerPost(p, [app[p] EXCEPT !.sends = @ + 1], n)

EagerContinue(p) ==
    /\ app[p].pc = "eager"
    /\ EagerPost(p, app[p], app[p].left)

\* MPID_VIA_rendezvous_start with protocol R3 (any message may take it when
\* the credits are low).
RendezvousStart(p) ==
    /\ InApp(p) /\ app[p].sends < MaxSends[p]
    /\ \E n \in R3Sizes :
          SetConn(p, PostSend(conn[p], "start", FALSE, n))
    /\ SetApp(p, [app[p] EXCEPT !.sends = @ + 1])

\* MPID_VIA_Irecv finds an R3 start on the unexpected queue.
MatchUnexpected(p) ==
    /\ InApp(p)
    /\ \E n \in R3Sizes :
          /\ app[p].unexpected[n] > 0
          /\ SetApp(p, [app[p] EXCEPT !.unexpected[n] = @ - 1])
          /\ SetConn(p, RecvR3(conn[p], n))

-----------------------------------------------------------------------------
(* MPID_DeviceCheck.                                                       *)

\* The HCA writes the next packet of p into a posted buffer of the peer; with
\* none posted the peer answers RNR NAK and the packet waits.
OnWire(c) == Len(c.out) - c.ext_sendq_size - c.landed

Land(p) ==
    /\ OnWire(conn[p]) > 0
    /\ conn[p].landed < conn[Peer(p)].preposts
    /\ SetConn(p, [conn[p] EXCEPT !.landed = @ + 1])
    /\ UNCHANGED app

\* viadev_process_send: a posted work request has completed.
Completed(c) == SqSize - c.send_wqes_avail - OnWire(c)

ProcessSend(p) ==
    /\ Idle(p) /\ Completed(conn[p]) > 0
    /\ SetConn(p, ExtSendqSend([conn[p] EXCEPT !.send_wqes_avail = @ + 1]))
    /\ UNCHANGED app

\* What a packet does to the MPI layer: an unmatched start is queued, a reply
\* puts the send on the list of transfers in progress and the connection on
\* the flow list, and so do credits while such a transfer waits.
AppAfter(a, c, pkt, found) ==
    [a EXCEPT
        !.unexpected =
            IF pkt.type = "start" /\ ~found
            THEN [a.unexpected EXCEPT ![pkt.vbufs] = @ + 1]
            ELSE a.unexpected,
        !.shandles = IF pkt.type = "reply" THEN Append(@, pkt.vbufs) ELSE @,
        !.inflow = \/ @
                   \/ pkt.type = "reply"
                   \/ /\ pkt.vbuf_credit > 0
                      /\ c.remote_credit > 0 /\ a.shandles # << >>]

ProcessRecv(p) ==
    LET q   == Peer(p)
        pkt == Head(conn[q].out)
    IN  /\ Idle(p) /\ conn[q].landed > 0
        /\ \E found \in BOOLEAN :
              /\ found => pkt.type = "start" /\ app[p].initialized
              /\ conn' = [conn EXCEPT
                    ![p] = ReceivePacket(conn[p], pkt, found, app[p].initialized),
                    ![q] = [conn[q] EXCEPT !.out = Tail(@), !.landed = @ - 1]]
              /\ SetApp(p, AppAfter(app[p],
                                    Accept(conn[p], pkt, app[p].initialized),
                                    pkt, found))

\* viadev_rendezvous_push, R3: one packet of the oldest transfer.
CanPush(p) ==
    app[p].shandles # << >> /\ conn[p].remote_credit >= CreditPreserve

RendezvousPush(p) ==
    LET n == Head(app[p].shandles)
    IN  /\ app[p].inflow /\ app[p].pc \in {"idle", "push"} /\ CanPush(p)
        /\ SetConn(p, PostSend(conn[p], "r3data", n = 1, 0))
        /\ SetApp(p, [app[p] EXCEPT
                        !.pc = "push",
                        !.shandles = IF n = 1 THEN Tail(@)
                                     ELSE << n - 1 >> \o Tail(@)])

\* process_flowlist leaves the connection: done or out of credits.
PopFlowlist(p) ==
    /\ app[p].inflow /\ app[p].pc \in {"idle", "push"} /\ ~CanPush(p)
    /\ SetApp(p, [app[p] EXCEPT !.pc = "idle", !.inflow = FALSE])
    /\ UNCHANGED conn

\* What the application starts, and what the device does for it.
Start(p) == EagerSend(p) \/ RendezvousStart(p)

Progress(p) ==
    \/ FinishInit(p) \/ EagerContinue(p) \/ MatchUnexpected(p)
    \/ ProcessSend(p) \/ ProcessRecv(p)
    \/ RendezvousPush(p) \/ PopFlowlist(p)

Next == \E p \in Proc : Start(p) \/ Progress(p) \/ Land(p)

Spec == Init /\ [][Next]_vars

(***************************************************************************)
(* A process inside MPI keeps polling (MPID_DeviceCheck), the loops of the  *)
(* device run to their end, MPI_Init returns, every rendezvous is matched   *)
(* by a receive in the end, and the HCA delivers.  Nobody has to send.  All *)
(* of a process's steps are one thread's, so one condition covers them:     *)
(* each of them uses up work, so none can shut another out for ever.        *)
(***************************************************************************)
Fairness == \A p \in Proc : WF_vars(Progress(p)) /\ WF_vars(Land(p))

FairSpec == Spec /\ Fairness

-----------------------------------------------------------------------------
(* Properties.                                                             *)

\* Every field holds a value of its C type's legal range; the receive queue
\* and the credits never go negative.
TypeOK ==
    /\ conn \in [Proc -> Connection]
    /\ app \in [Proc -> App]

\* viapriv.c:361: "if we got here, the backlog queue better be empty".  A
\* packet waits on the backlog only while the connection has no credit at all.
BacklogOnlyWhenStarved ==
    \A p \in Proc : conn[p].backlog # << >> => conn[p].remote_credit = 0

\* viapriv.c:279: nothing is left on the extended send queue while the HCA
\* has a free work request, so no packet overtakes a queued one.
ExtSendqOnlyWhenFull ==
    \A p \in Proc : conn[p].ext_sendq_size > 0 => conn[p].send_wqes_avail = 0

\* viacheck.c:1207: a credited packet that reaches the other side carries the
\* sequence number expected there, through backlog and extended send queue.
InOrder ==
    \A p \in Proc :
        conn[p].landed > 0 /\ IsCredited(Head(conn[p].out)) =>
            Head(conn[p].out).id = conn[Peer(p)].next_packet_expected

\* Credited packets of p that have paid their credit and are not polled yet.
CreditedInFlight(p) ==
    (conn[p].next_packet_tosend - 1 - Len(conn[p].backlog))
        - (conn[Peer(p)].next_packet_expected - 1)

\* Credits granted by p that the other side has not taken yet.
CreditsInFlight(p) == conn[p].granted - conn[Peer(p)].absorbed

\* Buffers p posts beyond the credits it hands out.
Reserve(p) ==
    IF conn[p].initialized THEN NoopExtra ELSE InitialPrepost - InitialCredits

\* The law of the credits, exact to the buffer: what q has posted, and what
\* NOOPs used up, is the reserve, the credits p holds, the packets they paid
\* for and the credits on their way from q to p.
CreditConservation ==
    \A p \in Proc :
        LET q == Peer(p)
        IN  conn[q].preposts + conn[q].noop_spent =
                Reserve(q) + conn[p].remote_credit + CreditedInFlight(p)
                + conn[q].local_credit + CreditsInFlight(q)

\* A credit is a buffer: every credited packet under way, and every one p may
\* still send, has a receive posted for it.
CreditsAreBacked ==
    \A p \in Proc :
        conn[p].remote_credit + CreditedInFlight(p) <= conn[Peer(p)].preposts

\* The receive queue the QP was created with never overflows.
ReceiveQueueBounded == \A p \in Proc : conn[p].preposts <= RqSize

\* viarecv.c:745, assert(c->initialized): by the time a rendezvous asks for
\* buffers, and as long as R3 data is expected, the connection is initialized.
RendezvousInitialized ==
    \A p \in Proc :
        (\/ conn[p].rendezvous_packets_expected > 0
         \/ \E n \in R3Sizes : app[p].unexpected[n] > 0)
            => conn[p].initialized

\* viasend.c:581: an eager message leaves the credits that are kept for
\* control packets, whatever happens between its packets.  R3 data leaves one
\* less: viacheck.c:2238 tests for the preserve before it sends.
EagerKeepsPreserve ==
    [][\A p \in Proc :
        "eager" \in {app[p].pc, app'[p].pc} =>
            conn'[p].remote_credit - app'[p].left >= CreditPreserve]_vars

\* What the packets of s carry together, w says what each of them does.
Weighed(w, s) == SumFunction([i \in DOMAIN s |-> w[s[i]]])

CreditIn == [pkt \in Packet |-> pkt.vbuf_credit]
PacketIn == [pkt \in Packet |-> IF IsCredited(pkt) THEN 1 ELSE 0]
AskedIn  == [pkt \in Packet |-> IF pkt.type = "reply" THEN pkt.vbufs ELSE 0]
DataIn   == [pkt \in Packet |-> IF pkt.type = "r3data" THEN 1 ELSE 0]

\* Built and not polled: on its way, or on the backlog.
Unpolled(w, c) == Weighed(w, c.out) + Weighed(w, c.backlog)

\* The history fields mean what they say: the credits p granted and the other
\* side has not absorbed are exactly those in the headers of packets under
\* way, and the credited packets under way are those on the queue.
HistoryIsExact ==
    \A p \in Proc :
        /\ CreditsInFlight(p) = Weighed(CreditIn, conn[p].out)
        /\ CreditedInFlight(p) = Weighed(PacketIn, conn[p].out)

\* viacheck.c:1028 and viapriv.c:366 size the receive queue by
\* rendezvous_packets_expected: it is, at every moment, the data packets that
\* the other side has been asked for and this side has not polled, wherever
\* they are: in a reply under way, in a transfer, on a backlog, on the wire.
RendezvousAccount ==
    \A p \in Proc :
        LET q == Peer(p)
        IN  conn[q].rendezvous_packets_expected =
                Unpolled(AskedIn, conn[q]) + SumFunction(app[p].shandles)
                + Unpolled(DataIn, conn[p])

\* What is counted in one place is what is found in all the others: the
\* credits granted in headers, and the data packets asked for in buffers.
AccountsAreExact == HistoryIsExact /\ RendezvousAccount

\* No send is stuck: every packet built, every R3 transfer and every credit
\* wait comes to an end, whatever the two sides sent each other.
Settled ==
    \A p \in Proc :
        /\ conn[p].backlog = << >> /\ conn[p].out = << >>
        /\ app[p].shandles = << >>
        /\ conn[p].rendezvous_packets_expected = 0
        /\ \A n \in R3Sizes : app[p].unexpected[n] = 0
EventuallySettled == <>[]Settled

=============================================================================
