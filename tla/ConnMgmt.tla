------------------------------ MODULE ConnMgmt ------------------------------
(***************************************************************************)
(* On-demand connection management of the ch_gen2 device                   *)
(* (viadev_use_on_demand = 1, without network fault recovery and XRC):      *)
(* cm.c, cm_user.c, cm_user.h, the send entry of mpid_send.c and the part   *)
(* of MPID_DeviceCheck that looks for new connections and first packets.    *)
(*                                                                         *)
(* A reliable (RC) connection is set up when the first message to a peer is *)
(* sent.  The sender is the client: it sends REQ with the number of its     *)
(* queue pair over an unreliable datagram (UD) service; the peer, the       *)
(* server, answers REP; the server takes the connection for established     *)
(* when the first packet comes in on it.  REQ and REP stay on a list of     *)
(* pending messages and a timer thread sends them again until they are      *)
(* taken off.  Both sides may start at once.                                *)
(*                                                                         *)
(* Each process has three threads: the one that runs MPI, the one that      *)
(* handles UD messages and the timer.  The last two, and the parts of the   *)
(* first that say so, hold cm_conn_state_lock.  MPID_IsendContig and        *)
(* odu_test_new_connection read cm_conn_state without it.                   *)
(***************************************************************************)
EXTENDS Integers, Sequences, FiniteSets

CONSTANTS
    Rank,      \* the processes, by rank
    MaxSends,  \* bound: MaxSends[p, q] sends from p to q
    Copies     \* bound: copies of one UD message that can be under way

ASSUME RankAssumption == Rank \subseteq Nat /\ IsFiniteSet(Rank)
ASSUME BoundAssumption ==
    /\ MaxSends \in [Rank \X Rank -> Nat]
    /\ \A p \in Rank : MaxSends[<<p, p>>] = 0
    /\ Copies # {}

\* Ordered pairs of different processes: p's side of the connection to q.
Pair == {pq \in Rank \X Rank : pq[1] # pq[2]}

-----------------------------------------------------------------------------
(***************************************************************************)
(* p's side of the connection to a peer.  qpn is the number of the queue    *)
(* pair in qp_hndl (0 while it is NULL), qp its state and dest the number   *)
(* of the queue pair it is connected to.  pending_req holds the sends that  *)
(* wait for the connection.                                                 *)
(***************************************************************************)
Link ==
    [conn : {"none", "rc"}, cli : {"idle", "requesting"},
     srv : {"idle", "requested"},
     qpn : Nat, qp : {"none", "init", "rtr", "rts"}, dest : Nat,
     next_packet_tosend : Nat, next_packet_expected : Nat,
     pending_req : Seq(Nat)]

InitialLink ==
    [conn |-> "none", cli |-> "idle", srv |-> "idle",
     qpn |-> 0, qp |-> "none", dest |-> 0,
     next_packet_tosend |-> 0, next_packet_expected |-> 0,
     pending_req |-> << >>]

\* cm_create_rc_qp: a new queue pair, in INIT.
CreateQp(l) == [l EXCEPT !.qpn = @ + 1, !.qp = "init", !.dest = 0]

\* cm_enable_qp_init_to_rtr, and the first half of cm_enable_qp_init_to_rts.
ToRtr(l, qpn) == [l EXCEPT !.qp = "rtr", !.dest = qpn]
ToRts(l) == [l EXCEPT !.qp = "rts"]

\* odu_enable_qp, as far as the order of packets goes.
EnableQp(l) ==
    [l EXCEPT !.next_packet_tosend = 1, !.next_packet_expected = 1]

(***************************************************************************)
(* UD messages.  Both types carry the ranks of client and server.           *)
(***************************************************************************)
Message == [type : {"REQ", "REP"}, client : Rank, server : Rank, qpn : Nat]

Sender(m) == IF m.type = "REQ" THEN m.client ELSE m.server
Target(m) == IF m.type = "REQ" THEN m.server ELSE m.client

Req(p, q, qpn) == [type |-> "REQ", client |-> p, server |-> q, qpn |-> qpn]
Rep(p, q, qpn) == [type |-> "REP", client |-> q, server |-> p, qpn |-> qpn]

-----------------------------------------------------------------------------
VARIABLES
    link,      \* link[p, q]: p's side of its connection to q
    retry,     \* retry[p]: p's list of pending UD messages
    timer,     \* timer[p]: waiting on cm_cond_new_pending, or awake
    handler,   \* handler[p]: between the two writes of cm_enable, or idle
    new_connection,  \* new_connection[p]: viadev.cm_new_connection
    main,      \* main[p]: where the MPI thread is, and the peers it has to do
    net,       \* UD messages under way, each with the slot of its copy
    wire,      \* wire[p, q]: RC packets q has not polled yet
    submitted, received  \* as in OrderedDelivery

vars == <<link, retry, timer, handler, new_connection, main, net, wire,
          submitted, received>>

connVars == <<link, retry, timer, handler, new_connection, net>>
dataVars == <<wire, submitted, received>>

At(p, place) == main[p].at = place
Goto(p, place, peers) ==
    main' = [main EXCEPT ![p] = [at |-> place, peers |-> peers]]

\* No thread of p holds cm_conn_state_lock.
Unlocked(p) == handler[p] = "idle"

Init ==
    /\ link = [pq \in Pair |-> InitialLink]
    /\ retry = [p \in Rank |-> {}]
    /\ timer = [p \in Rank |-> "awake"]
    /\ handler = [p \in Rank |-> "idle"]
    /\ new_connection = [p \in Rank |-> FALSE]
    /\ main = [p \in Rank |-> [at |-> "app", peers |-> {}]]
    /\ net = {}
    /\ wire = [pq \in Pair |-> << >>]
    /\ submitted = [pq \in Rank \X Rank |-> 0]
    /\ received = [pq \in Rank \X Rank |-> << >>]

-----------------------------------------------------------------------------
(***************************************************************************)
(* The thread that handles UD messages: cm_handle_msg, under the lock.      *)
(***************************************************************************)

\* p's pending entry for q as client, or as server.
Entry(p, type, q) ==
    {m \in retry[p] : /\ m.type = type
                      /\ q = (IF type = "REQ" THEN m.server ELSE m.client)}

\* Fault: the timer is not woken up for the first entry.
SendUd_NoSignal(p, m, taken, cancelled) ==
    /\ retry' = [retry EXCEPT ![p] = (@ \cup {m}) \ cancelled]
    /\ UNCHANGED timer
    /\ \E slot \in Copies : net' = (net \ taken) \cup {<<m, slot>>}

\* cm_send_ud_msg puts the message on the list, sends a copy (in place of
\* the one received, if any) and wakes the timer up when the list was empty.
\* `cancelled' are entries the caller takes off the list after that.
SendUd(p, m, taken, cancelled) ==
    /\ retry' = [retry EXCEPT ![p] = (@ \cup {m}) \ cancelled]
    /\ timer' = [timer EXCEPT ![p] = IF retry[p] = {} THEN "awake" ELSE @]
    /\ \E slot \in Copies : net' = (net \ taken) \cup {<<m, slot>>}

\* Fault: a request sent again is answered again.
ReqIgnored_NotWhileAnswering(p, m) ==
    LET l == link[<<p, m.client>>]
    IN  l.conn = "rc" \/ (l.cli # "idle" /\ m.client > p)

\* A REQ is of no use once there is a connection, while it is being answered,
\* or when the sender, being of the higher rank, has to be the server.
ReqIgnored(p, m) ==
    LET l == link[<<p, m.client>>]
    IN  \/ l.conn = "rc"
        \/ l.srv # "idle"
        \/ l.cli # "idle" /\ m.client > p

\* The server's side of a connection whose queue pair is in INIT.
Answering(l, qpn) ==
    [EnableQp(ToRtr(l, qpn)) EXCEPT !.srv = "requested"]

\* cm_accept
Accept(p, m, slot) ==
    LET l == Answering(CreateQp(link[<<p, m.client>>]), m.qpn)
    IN  /\ m.type = "REQ" /\ ~ReqIgnored(p, m)
        /\ link[<<p, m.client>>].cli = "idle"
        /\ link' = [link EXCEPT ![<<p, m.client>>] = l]
        /\ SendUd(p, Rep(p, m.client, l.qpn), {<<m, slot>>}, {})
        /\ UNCHANGED <<handler, new_connection, main, dataVars>>

\* Fault: the request stays on the list.
Cancelled_Nothing(p, q) == {}

\* What p takes off its list when it gives up the role of the client to q.
Cancelled(p, q) == Entry(p, "REQ", q)

\* cm_accept_and_cancel: p gives up the role of the client.
AcceptAndCancel(p, m, slot) ==
    LET l == Answering(link[<<p, m.client>>], m.qpn)
    IN  /\ m.type = "REQ" /\ ~ReqIgnored(p, m)
        /\ link[<<p, m.client>>].cli = "requesting"
        /\ link' = [link EXCEPT ![<<p, m.client>>] = [l EXCEPT !.cli = "idle"]]
        /\ SendUd(p, Rep(p, m.client, l.qpn), {<<m, slot>>},
                  Cancelled(p, m.client))
        /\ UNCHANGED <<handler, new_connection, main, dataVars>>

\* p is the client and its request is still on the list.
WaitsForRep(p, q) ==
    link[<<p, q>>].cli = "requesting" /\ Entry(p, "REQ", q) # {}

\* cm_enable, up to the write of cm_new_connection.
Enable(p, m, slot) ==
    LET q == m.server
    IN  /\ m.type = "REP" /\ WaitsForRep(p, q)
        /\ retry' = [retry EXCEPT ![p] = @ \ Entry(p, "REQ", q)]
        /\ link' = [link EXCEPT ![<<p, q>>] =
                       [EnableQp(ToRts(ToRtr(@, m.qpn)))
                            EXCEPT !.conn = "rc", !.cli = "idle"]]
        /\ handler' = [handler EXCEPT ![p] = "marking"]
        /\ net' = net \ {<<m, slot>>}
        /\ UNCHANGED <<timer, new_connection, main, dataVars>>

Ignore(p, m, slot) ==
    /\ IF m.type = "REQ" THEN ReqIgnored(p, m)
                         ELSE ~WaitsForRep(p, m.server)
    /\ net' = net \ {<<m, slot>>}
    /\ UNCHANGED <<link, retry, timer, handler, new_connection, main, dataVars>>

HandleMsg(m, slot) ==
    LET p == Target(m)
    IN  /\ <<m, slot>> \in net /\ Unlocked(p)
        /\ \/ Accept(p, m, slot)
           \/ AcceptAndCancel(p, m, slot)
           \/ Enable(p, m, slot)
           \/ Ignore(p, m, slot)

\* cm_enable: viadev.cm_new_connection = 1; the lock is released.
MarkNewConnection(p) ==
    /\ handler[p] = "marking"
    /\ handler' = [handler EXCEPT ![p] = "idle"]
    /\ new_connection' = [new_connection EXCEPT ![p] = TRUE]
    /\ UNCHANGED <<link, retry, timer, main, net, dataVars>>

-----------------------------------------------------------------------------
(***************************************************************************)
(* The timer thread and the UD service.                                     *)
(***************************************************************************)

\* Fault: only the client's messages are sent again.
Resend_RequestsOnly(p, m) ==
    /\ timer[p] = "awake" /\ Unlocked(p) /\ m \in retry[p] /\ m.type = "REQ"
    /\ \E slot \in Copies : net' = net \cup {<<m, slot>>}
    /\ UNCHANGED <<link, retry, timer, handler, new_connection, main, dataVars>>

\* cm_timeout_handler: an entry has expired and is sent again.
Resend(p, m) ==
    /\ timer[p] = "awake" /\ Unlocked(p) /\ m \in retry[p]
    /\ \E slot \in Copies : net' = net \cup {<<m, slot>>}
    /\ UNCHANGED <<link, retry, timer, handler, new_connection, main, dataVars>>

\* cm_timeout_handler: nothing is pending, pthread_cond_wait.
TimerWaits(p) ==
    /\ timer[p] = "awake" /\ Unlocked(p) /\ retry[p] = {}
    /\ timer' = [timer EXCEPT ![p] = "waiting"]
    /\ UNCHANGED <<link, retry, handler, new_connection, main, net, dataVars>>

\* The UD service may lose a message.
Lose(m, slot) ==
    /\ <<m, slot>> \in net
    /\ net' = net \ {<<m, slot>>}
    /\ UNCHANGED <<link, retry, timer, handler, new_connection, main, dataVars>>

-----------------------------------------------------------------------------
(***************************************************************************)
(* The MPI thread.  A send takes one packet here; the next packet of p to q *)
(* has the sequence number next_packet_tosend.                              *)
(***************************************************************************)
Packet == [seq : Nat, id : Nat]

Packets(l, ids) ==
    [i \in 1 .. Len(ids) |->
        [seq |-> l.next_packet_tosend + i - 1, id |-> ids[i]]]

Sent(l, ids) ==
    [l EXCEPT !.next_packet_tosend = @ + Len(ids), !.pending_req = << >>]

\* What a send hands to the connection: what is queued (cm_process_queue),
\* then itself.
GoesOut(l, id) == Append(l.pending_req, id)

\* MPID_IsendContig and MPID_IssendContig: without a connection the send is
\* queued, and the first one that is asks for the connection; with one, what
\* is queued goes out (cm_process_queue), then the send itself.
Isend(p, q) ==
    LET l == link[<<p, q>>]
        id == submitted[<<p, q>>] + 1
    IN  /\ At(p, "app") /\ submitted[<<p, q>>] < MaxSends[<<p, q>>]
        /\ submitted' = [submitted EXCEPT ![<<p, q>>] = id]
        /\ IF l.conn = "rc"
           THEN /\ wire' = [wire EXCEPT ![<<p, q>>] =
                               @ \o Packets(l, GoesOut(l, id))]
                /\ link' = [link EXCEPT ![<<p, q>>] = Sent(l, GoesOut(l, id))]
                /\ UNCHANGED main
           ELSE /\ link' = [link EXCEPT ![<<p, q>>].pending_req = Append(@, id)]
                /\ IF l.pending_req = << >> THEN Goto(p, "connect", {q})
                                            ELSE UNCHANGED main
                /\ UNCHANGED wire
        /\ UNCHANGED <<retry, timer, handler, new_connection, net, received>>

\* MPICM_Connect_req, under the lock.
ConnectReq(p) ==
    \E q \in main[p].peers :
        LET l == link[<<p, q>>]
            new == [CreateQp(l) EXCEPT !.cli = "requesting"]
        IN  /\ At(p, "connect") /\ Unlocked(p)
            /\ Goto(p, "app", {})
            /\ IF \/ l.conn = "rc" \/ l.cli = "requesting" \/ l.srv # "idle"
                  \/ l.qpn # 0
               THEN UNCHANGED <<link, retry, timer, net>>
               ELSE /\ link' = [link EXCEPT ![<<p, q>>] = new]
                    /\ SendUd(p, Req(p, q, new.qpn), {}, {})
            /\ UNCHANGED <<handler, new_connection, dataVars>>

OtherRanks(p) == Rank \ {p}

\* odu_test_new_connection, called by MPID_DeviceCheck: the flag is put down
\* before the peers are looked at.
TestNewConnection(p) ==
    /\ At(p, "app")
    /\ IF new_connection[p]
       THEN /\ new_connection' = [new_connection EXCEPT ![p] = FALSE]
            /\ Goto(p, "scan", OtherRanks(p))
       ELSE /\ Goto(p, "poll", {})
            /\ UNCHANGED new_connection
    /\ UNCHANGED <<link, retry, timer, handler, net, dataVars>>

\* One turn of its loop, in the order of the ranks.
ScanPeer(p) ==
    \E q \in main[p].peers :
        LET l == link[<<p, q>>]
            rest == main[p].peers \ {q}
        IN  /\ At(p, "scan") /\ \A r \in rest : q < r
            /\ IF l.pending_req # << >> /\ l.conn = "rc"
               THEN /\ wire' = [wire EXCEPT ![<<p, q>>] =
                                   @ \o Packets(l, l.pending_req)]
                    /\ link' = [link EXCEPT ![<<p, q>>] =
                                   Sent(l, l.pending_req)]
               ELSE UNCHANGED <<wire, link>>
            /\ Goto(p, IF rest = {} THEN "poll" ELSE "scan", rest)
            /\ UNCHANGED <<retry, timer, handler, new_connection, net,
                           submitted, received>>

\* The RC service hands packets from q's queue pair to p's when each is
\* connected to the other.
Reaches(q, p) ==
    /\ link[<<p, q>>].qp \in {"rtr", "rts"}
    /\ link[<<p, q>>].dest = link[<<q, p>>].qpn
    /\ link[<<q, p>>].dest = link[<<p, q>>].qpn

\* Fault: the queue pair stays in RTR.
Established_NotRts(l) ==
    IF l.srv = "requested" THEN [l EXCEPT !.srv = "idle", !.conn = "rc"]
    ELSE l

\* MPICM_Server_connection_establish
Established(l) ==
    IF l.srv = "requested"
    THEN [ToRts(l) EXCEPT !.srv = "idle", !.conn = "rc"]
    ELSE l

\* Fault: the server does not look at its queue.
QueueAtFirst_NotSeen(l) == << >>

\* What is queued when the first packet comes in.
QueueAtFirst(l) == l.pending_req

\* MPID_DeviceCheck polls a packet of q.  On the first one the connection is
\* established under the lock, and what is queued goes out; then
\* viadev_process_recv takes the packet.
PollPacket(p, q) ==
    LET l == link[<<p, q>>]
        first == l.next_packet_expected = 1
        up == IF first THEN Established(l) ELSE l
        ids == IF first THEN QueueAtFirst(up) ELSE << >>
        after == IF ids = << >> THEN up ELSE Sent(up, ids)
    IN  /\ At(p, "poll") /\ wire[<<q, p>>] # << >> /\ Reaches(q, p)
        /\ first => Unlocked(p)
        /\ retry' = IF first /\ l.srv = "requested"
                    THEN [retry EXCEPT ![p] = @ \ Entry(p, "REP", q)]
                    ELSE retry
        /\ link' = [link EXCEPT ![<<p, q>>] =
                       [after EXCEPT !.next_packet_expected = @ + 1]]
        /\ wire' = [wire EXCEPT ![<<q, p>>] = Tail(@),
                                ![<<p, q>>] = @ \o Packets(up, ids)]
        /\ received' = [received EXCEPT ![<<q, p>>] =
                           Append(@, Head(wire[<<q, p>>]).id)]
        /\ Goto(p, "app", {})
        /\ UNCHANGED <<timer, handler, new_connection, net, submitted>>

\* The completion queue is empty.
PollNothing(p) ==
    /\ At(p, "poll")
    /\ ~ \E q \in Rank \ {p} : wire[<<q, p>>] # << >> /\ Reaches(q, p)
    /\ Goto(p, "app", {})
    /\ UNCHANGED <<connVars, dataVars>>

MainProgress(p) ==
    \/ ConnectReq(p) \/ TestNewConnection(p) \/ ScanPeer(p)
    \/ \E q \in Rank \ {p} : PollPacket(p, q)
    \/ PollNothing(p)

-----------------------------------------------------------------------------
Next ==
    \/ \E p \in Rank : \E q \in Rank \ {p} : Isend(p, q)
    \/ \E p \in Rank : MainProgress(p)
    \/ \E p \in Rank : MarkNewConnection(p) \/ TimerWaits(p)
    \/ \E p \in Rank : \E m \in retry[p] : Resend(p, m)
    \/ \E copy \in net : HandleMsg(copy[1], copy[2])
    \/ \E copy \in net : Lose(copy[1], copy[2])

Spec == Init /\ [][Next]_vars

\* A process that is inside MPI keeps calling MPID_DeviceCheck and polls
\* every connection in turn, its two other threads run, every pending message
\* expires again and again, and the UD service does not lose all the copies.
PollsFairly(p) ==
    \A q \in Rank \ {p} : SF_vars(PollPacket(p, q))
Delivers(type, p, q) ==
    \E copy \in net : /\ copy[1].type = type
                      /\ Sender(copy[1]) = p /\ Target(copy[1]) = q
                      /\ HandleMsg(copy[1], copy[2])
Resends(type, p, q) == \E m \in Entry(p, type, q) : Resend(p, m)

Fairness ==
    /\ \A p \in Rank : /\ WF_vars(MainProgress(p)) /\ PollsFairly(p)
                       /\ WF_vars(MarkNewConnection(p))
    /\ \A p \in Rank : \A q \in Rank \ {p} : \A type \in {"REQ", "REP"} :
           /\ WF_vars(Resends(type, p, q))
           /\ SF_vars(Delivers(type, p, q))

FairSpec == Spec /\ Fairness

-----------------------------------------------------------------------------
(***************************************************************************)
(* Properties.                                                              *)
(***************************************************************************)

\* However the requests of the two sides cross, are lost or repeated, a queue
\* pair that may send is connected to the peer's queue pair, which is connected
\* to it and may receive (cm_handle_msg).
QueuePairsMatch ==
    \A p \in Rank : \A q \in Rank \ {p} :
        link[<<p, q>>].qp = "rts" =>
            /\ link[<<p, q>>].dest = link[<<q, p>>].qpn
            /\ link[<<q, p>>].dest = link[<<p, q>>].qpn
            /\ link[<<q, p>>].qp \in {"rtr", "rts"}

\* The list of pending messages and the two state variables of a connection
\* agree, so the searches of the list never fail: no error return leaves the
\* lock held (cm.c:1699), and nothing is sent again for ever.
RetryMatchesState ==
    \A p \in Rank : \A q \in Rank \ {p} :
        LET l == link[<<p, q>>]
        IN  /\ Entry(p, "REQ", q) =
                   IF l.cli = "requesting" THEN {Req(p, q, l.qpn)} ELSE {}
            /\ Entry(p, "REP", q) =
                   IF l.srv = "requested" THEN {Rep(p, q, l.qpn)} ELSE {}

\* The wait of the timer thread for the first pending message loses no signal:
\* while something is pending it is awake.
TimerAwake ==
    \A p \in Rank : retry[p] # {} => timer[p] = "awake"

\* A queued send is never forgotten between the threads: without a connection
\* one is being asked for or answered, and with one the MPI thread is still to
\* look at the queue.
QueuedSendsAreSeen ==
    \A p \in Rank : \A q \in Rank \ {p} :
        link[<<p, q>>].pending_req # << >> =>
            \/ link[<<p, q>>].cli = "requesting"
            \/ link[<<p, q>>].srv = "requested"
            \/ main[p].at \in {"connect", "scan"} /\ q \in main[p].peers
            \/ link[<<p, q>>].conn = "rc"
                   /\ (new_connection[p] \/ handler[p] = "marking")

\* The sequence check of viadev_process_recv holds although the connection is
\* reset by another thread (odu_enable_qp) while sends are queued.
SequenceNumbersMatch ==
    \A p \in Rank : \A q \in Rank \ {p} :
        wire[<<q, p>>] # << >> =>
            Head(wire[<<q, p>>]).seq = link[<<p, q>>].next_packet_expected

\* The two ends of a connection are of one mind: about their queue pairs, and
\* about the number of the next packet.
EndsMatch == QueuePairsMatch /\ SequenceNumbersMatch

\* Packets are posted only to a queue pair that may send: cm_process_queue
\* does not look at the state of the connection.
PostsOnReadyQp ==
    [][\A p \in Rank : \A q \in Rank \ {p} :
           Len(wire'[<<p, q>>]) > Len(wire[<<p, q>>]) =>
               link'[<<p, q>>].qp = "rts"]_vars

OD == INSTANCE OrderedDelivery WITH Node <- Rank

\* Every send is handed over once, in order, across the set-up (cm_user.c:263,
\* mpid_send.c:120), and in the end, although requests and replies are lost.
ArrivesInOrder == OD!ODSpec
=============================================================================
