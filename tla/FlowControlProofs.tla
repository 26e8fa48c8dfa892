------------------------- MODULE FlowControlProofs -------------------------
(***************************************************************************)
(* Proofs about FlowControl, for every value of its parameters.             *)
(*                                                                         *)
(* The invariant has two parts.  End(c, a, r) speaks of one end of the      *)
(* connection alone: its queues, its numbering and its two laws of credits, *)
(* where a and r are what the other side has absorbed and accepted.  Every  *)
(* operator of the handlers keeps it (lemmas ...End).  IInv puts the two    *)
(* ends together.                                                          *)
(*                                                                         *)
(* The last part is about what packets carry.  A packet is stamped with     *)
(* what its sender has granted and sent so far, so the stamps are running   *)
(* sums of the headers (StampSums), and Moves(c, d, x, y, z) follows the    *)
(* R3 packets asked for through every operator (lemmas ...Moves), and the   *)
(* lemmas ...Fits follow the buffers posted.                                *)
(***************************************************************************)
EXTENDS FlowControl, SumTheorems

-----------------------------------------------------------------------------
(* The parts of a connection record.                                       *)

IsRecord(c) ==
    c = [remote_credit |-> c.remote_credit, local_credit |-> c.local_credit,
         preposts |-> c.preposts, initialized |-> c.initialized,
         remote_cc |-> c.remote_cc, send_wqes_avail |-> c.send_wqes_avail,
         ext_sendq_size |-> c.ext_sendq_size, backlog |-> c.backlog,
         out |-> c.out, landed |-> c.landed,
         next_packet_tosend |-> c.next_packet_tosend,
         next_packet_expected |-> c.next_packet_expected,
         rendezvous_packets_expected |-> c.rendezvous_packets_expected,
         granted |-> c.granted, absorbed |-> c.absorbed,
         noop_spent |-> c.noop_spent]

SendTypes(c) ==
    /\ c.remote_credit \in Nat /\ c.absorbed \in Nat
    /\ c.next_packet_tosend \in Nat /\ c.backlog \in Seq(Packet)

RecvTypes(c) ==
    /\ c.preposts \in Nat /\ c.initialized \in BOOLEAN
    /\ c.next_packet_expected \in Nat /\ c.noop_spent \in Nat
    /\ c.rendezvous_packets_expected \in Int

CreditTypes(c) ==
    c.local_credit \in Nat /\ c.granted \in Nat /\ c.remote_cc \in Nat

QueueTypes(c) ==
    /\ c.send_wqes_avail \in Nat /\ c.ext_sendq_size \in Nat
    /\ c.landed \in Nat /\ c.out \in Seq(Packet)

\* The fields each handler leaves alone come in these groups.
SameSend(c, d) ==
    /\ d.remote_credit = c.remote_credit /\ d.absorbed = c.absorbed
    /\ d.next_packet_tosend = c.next_packet_tosend /\ d.backlog = c.backlog

SameRecv(c, d) ==
    /\ d.preposts = c.preposts /\ d.initialized = c.initialized
    /\ d.next_packet_expected = c.next_packet_expected
    /\ d.noop_spent = c.noop_spent
    /\ d.rendezvous_packets_expected = c.rendezvous_packets_expected

SameCredit(c, d) ==
    /\ d.local_credit = c.local_credit /\ d.granted = c.granted
    /\ d.remote_cc = c.remote_cc

SameQueue(c, d) ==
    /\ d.send_wqes_avail = c.send_wqes_avail
    /\ d.ext_sendq_size = c.ext_sendq_size
    /\ d.landed = c.landed /\ d.out = c.out

LEMMA ConnectionParts ==
    ASSUME NEW c
    PROVE  c \in Connection <=>
             /\ IsRecord(c)
             /\ SendTypes(c) /\ RecvTypes(c) /\ CreditTypes(c) /\ QueueTypes(c)
BY DEF Connection, IsRecord, SendTypes, RecvTypes, CreditTypes, QueueTypes

-----------------------------------------------------------------------------
(* The invariant of one end.                                               *)

\* Credited packets that have paid.
Paid(c) == c.next_packet_tosend - 1 - Len(c.backlog)

ReserveOf(c) ==
    IF c.initialized THEN NoopExtra ELSE InitialPrepost - InitialCredits

Starved(c) == c.backlog # << >> => c.remote_credit = 0

\* The backlog holds the packets numbered after the ones that have paid.
Numbering(c) ==
    /\ Len(c.backlog) < c.next_packet_tosend
    /\ \A k \in 1 .. Len(c.backlog) :
          c.backlog[k].id = Paid(c) + k /\ IsCredited(c.backlog[k])

\* A credit that came in was paid out or is left.
SendLaw(c) == c.remote_credit = InitialCredits + c.absorbed - Paid(c)

\* A buffer that was posted belongs to the reserve or was promised.
RecvLaw(c) ==
    c.preposts + c.noop_spent =
        ReserveOf(c) + InitialCredits + c.granted + c.local_credit
            - (c.next_packet_expected - 1)

\* Before it is initialized a connection promises nothing.
Fresh(c) ==
    IF c.initialized THEN c.noop_spent <= 1
    ELSE /\ c.noop_spent = 0 /\ c.local_credit = 0 /\ c.granted = 0
         /\ c.rendezvous_packets_expected <= 0

QueuesFit(c) ==
    /\ c.ext_sendq_size + c.landed <= Len(c.out)
    /\ c.ext_sendq_size > 0 => c.send_wqes_avail = 0

\* pkt is the next one after a credits were granted and r packets were paid.
Follows(pkt, a, r) ==
    /\ pkt.upto = a + pkt.vbuf_credit
    /\ pkt.sent = IF IsCredited(pkt) THEN r + 1 ELSE r
    /\ IF IsCredited(pkt) THEN pkt.id = pkt.sent ELSE pkt.vbuf_credit > 0

\* s takes the other side from (a, r) to (g, n).
Stamped(s, a, r, g, n) ==
    /\ s = << >> => a = g /\ r = n
    /\ s # << >> => /\ Follows(s[1], a, r)
                    /\ s[Len(s)].upto = g /\ s[Len(s)].sent = n
    /\ \A i \in 1 .. Len(s) - 1 : Follows(s[i + 1], s[i].upto, s[i].sent)
    /\ \A i \in 1 .. Len(s) : s[i].upto <= g /\ s[i].sent <= n

SendOK(c) == SendTypes(c) /\ Starved(c) /\ Numbering(c) /\ SendLaw(c)
RecvOK(c) ==
    /\ RecvTypes(c) /\ CreditTypes(c) /\ RecvLaw(c) /\ Fresh(c)
    /\ c.next_packet_expected > 0
QueueOK(c, a, r) ==
    QueueTypes(c) /\ QueuesFit(c) /\ Stamped(c.out, a, r, c.granted, Paid(c))

End(c, a, r) == IsRecord(c) /\ SendOK(c) /\ RecvOK(c) /\ QueueOK(c, a, r)

\* What a handler of one end never does to the other end's view of it.
Keeps(c, d) ==
    /\ d.absorbed = c.absorbed
    /\ d.next_packet_expected = c.next_packet_expected
    /\ d.landed = c.landed /\ d.preposts >= c.preposts
    /\ c.initialized => d.initialized
    /\ d.initialized => c.initialized

\* Nothing asks for R3 data before the connection is initialized.
NoReply(s) == \A i \in 1 .. Len(s) : s[i].type # "reply"
Muted(c) == ~c.initialized => NoReply(c.out) /\ NoReply(c.backlog)

LEMMA InitialCreditsType ==
    /\ InitialCredits \in Nat /\ InitialCredits <= InitialPrepost
    /\ InitialPrepost - InitialCredits <= NoopExtra
BY ParamAssumption DEF InitialCredits

-----------------------------------------------------------------------------
(* Stamps.                                                                 *)

LEMMA PacketFields ==
    ASSUME NEW pkt \in Packet
    PROVE  /\ pkt.type \in PacketType /\ pkt.id \in Nat /\ pkt.last \in BOOLEAN
           /\ pkt.vbufs \in Nat /\ pkt.vbuf_credit \in Nat
           /\ pkt.remote_credit \in Nat /\ pkt.upto \in Nat /\ pkt.sent \in Nat
           /\ pkt.type \in {"start", "reply"} => pkt.vbufs \in R3Sizes
BY DEF Packet

LEMMA EmptySeq ==
    ASSUME NEW s \in Seq(Packet)
    PROVE  s = << >> <=> Len(s) = 0
OBVIOUS

LEMMA PacketsOf ==
    ASSUME NEW s \in Seq(Packet)
    PROVE  \A i \in 1 .. Len(s) :
              s[i] \in Packet /\ s[i].upto \in Nat /\ s[i].sent \in Nat
<1>1. \A i \in 1 .. Len(s) : s[i] \in Packet
  OBVIOUS
<1> QED BY <1>1, PacketFields

LEMMA LongerThanOne ==
    ASSUME NEW s \in Seq(Packet), s # << >>, Len(s) # 1
    PROVE  Len(s) > 1
<1> DEFINE n == Len(s)
<1>1. n \in Nat /\ n > 0
  OBVIOUS
<1> HIDE DEF n
<1>2. n # 1 => n > 1
  BY <1>1
<1> QED BY <1>2 DEF n

LEMMA StampedAppend ==
    ASSUME NEW s \in Seq(Packet), NEW pkt \in Packet, NEW a \in Nat, NEW r \in Nat,
           NEW g \in Nat, NEW n \in Nat, Stamped(s, a, r, g, n), Follows(pkt, g, n)
    PROVE  Stamped(Append(s, pkt), a, r, pkt.upto, pkt.sent)
<1> DEFINE t == Append(s, pkt)
<1>1. /\ t \in Seq(Packet) /\ Len(t) = Len(s) + 1 /\ t # << >>
      /\ \A i \in 1 .. Len(s) : t[i] = s[i]
      /\ t[Len(t)] = pkt
  OBVIOUS
<1>2. /\ pkt.upto \in Nat /\ pkt.sent \in Nat /\ pkt.vbuf_credit \in Nat
      /\ pkt.upto >= g /\ pkt.sent >= n
  BY PacketFields DEF Follows
<1>3. \A i \in 1 .. Len(s) : s[i].upto \in Nat /\ s[i].sent \in Nat
  BY PacketsOf
<1> HIDE DEF t
<1>4. Follows(t[1], a, r)
  <2>1. CASE s = << >> BY <2>1, <1>1 DEF Stamped
  <2>2. CASE s # << >> BY <2>2, <1>1 DEF Stamped
  <2> QED BY <2>1, <2>2
<1>5. ASSUME NEW i \in 1 .. Len(t) - 1
      PROVE  Follows(t[i + 1], t[i].upto, t[i].sent)
  <2>1. CASE i = Len(s) BY <2>1, <1>1 DEF Stamped
  <2>2. CASE i < Len(s)
    <3>1. i \in 1 .. Len(s) - 1 BY <2>2, <1>1
    <3> QED BY <3>1, <1>1 DEF Stamped
  <2> QED BY <2>1, <2>2, <1>1
<1>6. ASSUME NEW i \in 1 .. Len(t)
      PROVE  t[i].upto <= pkt.upto /\ t[i].sent <= pkt.sent
  <2>1. CASE i = Len(t) BY <2>1, <1>1, <1>2
  <2>2. CASE i \in 1 .. Len(s)
    <3>1. s[i].upto <= g /\ s[i].sent <= n /\ t[i] = s[i]
      BY <2>2, <1>1 DEF Stamped
    <3>2. s[i].upto \in Nat /\ s[i].sent \in Nat
      BY <2>2, <1>3
    <3>3. \A x, y, z \in Nat : x <= y /\ z >= y => x <= z
      OBVIOUS
    <3>4. s[i].upto <= pkt.upto /\ s[i].sent <= pkt.sent
      BY <3>1, <3>2, <3>3, <1>2
    <3> QED BY <3>1, <3>4
  <2> QED BY <2>1, <2>2, <1>1
<1> QED BY <1>1, <1>4, <1>5, <1>6 DEF Stamped, t

LEMMA StampedTail ==
    ASSUME NEW s \in Seq(Packet), s # << >>, NEW a \in Nat, NEW r \in Nat,
           NEW g \in Nat, NEW n \in Nat, Stamped(s, a, r, g, n)
    PROVE  Stamped(Tail(s), s[1].upto, s[1].sent, g, n)
<1> DEFINE t == Tail(s)
<1>1. /\ t \in Seq(Packet) /\ Len(t) = Len(s) - 1
      /\ \A i \in 1 .. Len(t) : t[i] = s[i + 1]
  OBVIOUS
<1>0. Len(s) \in Nat /\ Len(s) > 0 /\ s[1] \in Packet
  OBVIOUS
<1> HIDE DEF t
<1>a. t = << >> <=> Len(s) = 1
  BY <1>0, <1>1, EmptySeq
<1>2. CASE Len(s) = 1
  <2>1. t = << >> /\ Len(t) = 0
    BY <1>1, <1>2, <1>a
  <2>2. s[1].upto = g /\ s[1].sent = n
    BY <1>2 DEF Stamped
  <2> QED BY <2>1, <2>2 DEF Stamped, t
<1>3. CASE Len(s) # 1
  <2>0. Len(s) > 1
    BY <1>3, LongerThanOne
  <2>1. Follows(t[1], s[1].upto, s[1].sent)
    BY <1>1, <2>0 DEF Stamped
  <2>2. t[Len(t)] = s[Len(s)]
    BY <1>1, <2>0
  <2>3. ASSUME NEW i \in 1 .. Len(t) - 1
        PROVE  Follows(t[i + 1], t[i].upto, t[i].sent)
    <3>1. i + 1 \in 1 .. Len(s) - 1 /\ i \in 1 .. Len(t) /\ i + 1 \in 1 .. Len(t)
      BY <1>1
    <3> QED BY <3>1, <1>1 DEF Stamped
  <2>4. ASSUME NEW i \in 1 .. Len(t)
        PROVE  t[i].upto <= g /\ t[i].sent <= n
    BY <1>1 DEF Stamped
  <2>5. t # << >>
    BY <1>1, <1>3, EmptySeq
  <2> QED BY <2>1, <2>2, <2>3, <2>4, <2>5 DEF Stamped, t
<1> QED BY <1>2, <1>3 DEF t

LEMMA StampedConcat ==
    ASSUME NEW s \in Seq(Packet), NEW t \in Seq(Packet), NEW a \in Nat, NEW r \in Nat,
           NEW g \in Nat, NEW n \in Nat, NEW h \in Nat, NEW m \in Nat,
           Stamped(s, a, r, g, n), Stamped(t, g, n, h, m), g <= h, n <= m
    PROVE  Stamped(s \o t, a, r, h, m)
<1> DEFINE u == s \o t
<1>1. /\ u \in Seq(Packet) /\ Len(u) = Len(s) + Len(t)
      /\ \A i \in 1 .. Len(s) : u[i] = s[i]
      /\ \A i \in 1 .. Len(t) : u[Len(s) + i] = t[i]
      /\ u = << >> <=> s = << >> /\ t = << >>
  OBVIOUS
<1>2. /\ \A i \in 1 .. Len(s) : s[i].upto \in Nat /\ s[i].sent \in Nat
      /\ \A i \in 1 .. Len(t) : t[i].upto \in Nat /\ t[i].sent \in Nat
  BY PacketsOf
<1>3. Len(s) \in Nat /\ Len(t) \in Nat
  OBVIOUS
<1> HIDE DEF u
<1>4. CASE t = << >>
  <2>1. u = s BY <1>4 DEF u
  <2> QED BY <2>1, <1>4 DEF Stamped, u
<1>5. CASE t # << >>
  <2>0. Len(t) > 0 BY <1>5, <1>3
  <2>1. Follows(u[1], a, r)
    <3>1. CASE s = << >> BY <3>1, <1>1, <1>5, <2>0 DEF Stamped
    <3>2. CASE s # << >> BY <3>2, <1>1 DEF Stamped
    <3> QED BY <3>1, <3>2
  <2>2. u[Len(u)] = t[Len(t)]
    BY <1>1, <1>3, <2>0
  <2>3. ASSUME NEW i \in 1 .. Len(u) - 1
        PROVE  Follows(u[i + 1], u[i].upto, u[i].sent)
    <3>1. CASE i < Len(s)
      <4>1. i \in 1 .. Len(s) - 1 /\ i \in 1 .. Len(s) /\ i + 1 \in 1 .. Len(s)
        BY <3>1, <1>3
      <4> QED BY <4>1, <1>1 DEF Stamped
    <3>2. CASE i = Len(s)
      <4>1. s # << >> /\ u[i] = s[Len(s)] /\ u[i + 1] = t[1]
        BY <3>2, <1>1, <1>3, <2>0
      <4> QED BY <4>1, <1>5 DEF Stamped
    <3>3. CASE i > Len(s)
      <4> DEFINE k == i - Len(s)
      <4>1. k \in 1 .. Len(t) - 1 /\ k \in 1 .. Len(t) /\ k + 1 \in 1 .. Len(t)
        BY <3>3, <1>1, <1>3
      <4>2. u[Len(s) + k] = t[k] /\ u[Len(s) + (k + 1)] = t[k + 1]
        BY <4>1, <1>1
      <4>3. i = Len(s) + k /\ i + 1 = Len(s) + (k + 1)
        BY <1>1, <1>3
      <4>4. u[i] = t[k] /\ u[i + 1] = t[k + 1]
        BY <4>2, <4>3
      <4> QED BY <4>1, <4>4 DEF Stamped
    <3> QED BY <3>1, <3>2, <3>3, <1>3
  <2>4. ASSUME NEW i \in 1 .. Len(u)
        PROVE  u[i].upto <= h /\ u[i].sent <= m
    <3>1. CASE i \in 1 .. Len(s)
      <4>1. u[i] = s[i] /\ s[i].upto \in Nat /\ s[i].sent \in Nat
        BY <3>1, <1>1, <1>2
      <4>2. s[i].upto <= g /\ s[i].sent <= n
        BY <3>1 DEF Stamped
      <4> QED BY <4>1, <4>2
    <3>2. CASE i - Len(s) \in 1 .. Len(t)
      <4>1. u[i] = t[i - Len(s)] BY <3>2, <1>1, <1>3
      <4> QED BY <4>1, <3>2 DEF Stamped
    <3> QED BY <3>1, <3>2, <1>1, <1>3
  <2> QED BY <1>1, <1>3, <1>5, <2>0, <2>1, <2>2, <2>3, <2>4 DEF Stamped, u
<1> QED BY <1>4, <1>5

-----------------------------------------------------------------------------
(* The operators that send.                                                *)

LEMMA EndIsConnection ==
    ASSUME NEW c, NEW a, NEW r, End(c, a, r)
    PROVE  c \in Connection
BY ConnectionParts DEF End, SendOK, RecvOK, QueueOK

LEMMA CreditsGivenFields ==
    ASSUME NEW c \in Connection, NEW d, d = CreditsGiven(c)
    PROVE  /\ IsRecord(d) /\ SameSend(c, d) /\ SameRecv(c, d) /\ SameQueue(c, d)
           /\ d.local_credit = 0 /\ d.granted = c.granted + c.local_credit
           /\ d.remote_cc = c.remote_cc
           /\ d \in Connection
<1>1. /\ IsRecord(d) /\ SameSend(c, d) /\ SameRecv(c, d) /\ SameQueue(c, d)
      /\ d.local_credit = 0 /\ d.granted = c.granted + c.local_credit
      /\ d.remote_cc = c.remote_cc
  BY DEF CreditsGiven, Connection, IsRecord, SameSend, SameRecv, SameQueue
<1>2. /\ SendTypes(c) /\ RecvTypes(c) /\ CreditTypes(c) /\ QueueTypes(c)
  BY ConnectionParts
<1>3. /\ SendTypes(d) /\ RecvTypes(d) /\ CreditTypes(d) /\ QueueTypes(d)
  BY <1>1, <1>2 DEF SendTypes, RecvTypes, CreditTypes, QueueTypes,
     SameSend, SameRecv, SameQueue
<1> QED BY <1>1, <1>3, ConnectionParts

LEMMA ExtSendqSendFields ==
    ASSUME NEW c \in Connection, c.ext_sendq_size + c.landed <= Len(c.out),
           NEW d, d = ExtSendqSend(c)
    PROVE  /\ IsRecord(d) /\ SameSend(c, d) /\ SameRecv(c, d) /\ SameCredit(c, d)
           /\ d.out = c.out /\ d.landed = c.landed
           /\ QueueTypes(d) /\ QueuesFit(d)
           /\ d \in Connection
<1>1. /\ IsRecord(d) /\ SameSend(c, d) /\ SameRecv(c, d) /\ SameCredit(c, d)
      /\ d.out = c.out /\ d.landed = c.landed
  BY DEF ExtSendqSend, AtMost, Connection, IsRecord, SameSend, SameRecv, SameCredit
<1>2. /\ SendTypes(c) /\ RecvTypes(c) /\ CreditTypes(c) /\ QueueTypes(c)
  BY ConnectionParts
<1>3. \E n \in Nat :
         /\ n <= c.send_wqes_avail /\ n <= c.ext_sendq_size
         /\ n = c.send_wqes_avail \/ n = c.ext_sendq_size
         /\ d.send_wqes_avail = c.send_wqes_avail - n
         /\ d.ext_sendq_size = c.ext_sendq_size - n
  <2>1. d = [c EXCEPT !.send_wqes_avail = @ - AtMost(c.send_wqes_avail, c.ext_sendq_size),
                      !.ext_sendq_size = @ - AtMost(c.send_wqes_avail, c.ext_sendq_size)]
    BY DEF ExtSendqSend
  <2>2. /\ d.send_wqes_avail = c.send_wqes_avail - AtMost(c.send_wqes_avail, c.ext_sendq_size)
        /\ d.ext_sendq_size = c.ext_sendq_size - AtMost(c.send_wqes_avail, c.ext_sendq_size)
    BY <2>1 DEF Connection
  <2>3. c.send_wqes_avail \in Nat /\ c.ext_sendq_size \in Nat
    BY <1>2 DEF QueueTypes
  <2>4. CASE c.send_wqes_avail < c.ext_sendq_size
    BY <2>2, <2>3, <2>4 DEF AtMost
  <2>5. CASE ~(c.send_wqes_avail < c.ext_sendq_size)
    BY <2>2, <2>3, <2>5 DEF AtMost
  <2> QED BY <2>4, <2>5
<1>4. QueueTypes(d) /\ QueuesFit(d)
  <2>1. PICK n \in Nat :
         /\ n <= c.send_wqes_avail /\ n <= c.ext_sendq_size
         /\ n = c.send_wqes_avail \/ n = c.ext_sendq_size
         /\ d.send_wqes_avail = c.send_wqes_avail - n
         /\ d.ext_sendq_size = c.ext_sendq_size - n
    BY <1>3
  <2>2. /\ c.send_wqes_avail \in Nat /\ c.ext_sendq_size \in Nat
        /\ c.landed \in Nat /\ Len(c.out) \in Nat
    BY <1>2 DEF QueueTypes
  <2>3. /\ d.send_wqes_avail \in Nat /\ d.ext_sendq_size \in Nat
        /\ d.ext_sendq_size <= c.ext_sendq_size
        /\ d.ext_sendq_size > 0 => d.send_wqes_avail = 0
    BY <2>1, <2>2
  <2>4. d.ext_sendq_size + d.landed <= Len(d.out)
    BY <2>2, <2>3, <1>1
  <2> QED BY <2>3, <2>4, <1>1, <1>2 DEF QueueTypes, QueuesFit
<1>5. /\ SendTypes(d) /\ RecvTypes(d) /\ CreditTypes(d)
  BY <1>1, <1>2 DEF SendTypes, RecvTypes, CreditTypes, SameSend, SameRecv, SameCredit
<1> QED BY <1>1, <1>4, <1>5, ConnectionParts

LEMMA EnqueueFields ==
    ASSUME NEW c \in Connection, QueuesFit(c), NEW pkt \in Packet,
           NEW d, d = Enqueue(c, pkt)
    PROVE  /\ IsRecord(d) /\ SameSend(c, d) /\ SameRecv(c, d) /\ SameCredit(c, d)
           /\ d.out = Append(c.out, pkt) /\ d.landed = c.landed
           /\ QueueTypes(d) /\ QueuesFit(d)
<1>1. /\ IsRecord(d) /\ SameSend(c, d) /\ SameRecv(c, d) /\ SameCredit(c, d)
      /\ d.out = Append(c.out, pkt) /\ d.landed = c.landed
  BY DEF Enqueue, Connection, IsRecord, SameSend, SameRecv, SameCredit
<1>2. \/ /\ c.send_wqes_avail > 0
         /\ d.send_wqes_avail = c.send_wqes_avail - 1
         /\ d.ext_sendq_size = c.ext_sendq_size
      \/ /\ ~(c.send_wqes_avail > 0)
         /\ d.send_wqes_avail = c.send_wqes_avail
         /\ d.ext_sendq_size = c.ext_sendq_size + 1
  BY DEF Enqueue, Connection
<1>3. QueueTypes(c)
  BY ConnectionParts
<1>4. d.out \in Seq(Packet) /\ Len(d.out) = Len(c.out) + 1
  BY <1>1, <1>3 DEF QueueTypes
<1> QED BY <1>1, <1>2, <1>3, <1>4 DEF QueueTypes, QueuesFit

LEMMA NoopType == Noop \in Packet /\ Noop.type = "noop"
BY DEF Noop, NewPacket, Packet, PacketType

LEMMA WithCreditsFields ==
    ASSUME NEW c \in Connection, NEW pkt \in Packet, Paid(c) \in Nat,
           NEW q, q = WithCredits(c, pkt)
    PROVE  /\ q \in Packet /\ q.type = pkt.type /\ q.id = pkt.id
           /\ q.vbufs = pkt.vbufs /\ q.vbuf_credit = c.local_credit
           /\ q.upto = c.granted + c.local_credit
           /\ q.sent = Paid(c)
<1>1. /\ q = [type |-> q.type, id |-> q.id, last |-> q.last, vbufs |-> q.vbufs,
              vbuf_credit |-> q.vbuf_credit, remote_credit |-> q.remote_credit,
              upto |-> q.upto, sent |-> q.sent]
      /\ q.type = pkt.type /\ q.id = pkt.id /\ q.last = pkt.last
      /\ q.vbufs = pkt.vbufs
      /\ q.vbuf_credit = c.local_credit /\ q.remote_credit = c.remote_credit
      /\ q.upto = c.granted + c.local_credit
      /\ q.sent = Paid(c)
  BY DEF WithCredits, Packet, Paid
<1>2. /\ c.local_credit \in Nat /\ c.remote_credit \in Nat /\ c.granted \in Nat
  BY ConnectionParts DEF SendTypes, CreditTypes
<1>3. q \in Packet
  BY <1>1, <1>2, PacketFields DEF Packet
<1> QED BY <1>1, <1>3

\* Enqueue behind a flush, as viadev_post_send does.
LEMMA PostFields ==
    ASSUME NEW c \in Connection, QueuesFit(c), NEW pkt \in Packet,
           NEW d, d = Enqueue(ExtSendqSend(c), pkt)
    PROVE  /\ IsRecord(d) /\ SameSend(c, d) /\ SameRecv(c, d) /\ SameCredit(c, d)
           /\ d.out = Append(c.out, pkt) /\ d.landed = c.landed
           /\ QueueTypes(d) /\ QueuesFit(d)
<1> DEFINE e == ExtSendqSend(c)
<1>1. /\ SameSend(c, e) /\ SameRecv(c, e) /\ SameCredit(c, e)
      /\ e.out = c.out /\ e.landed = c.landed
      /\ e \in Connection /\ QueuesFit(e)
  BY ExtSendqSendFields DEF QueuesFit
<1> HIDE DEF e
<1>2. d = Enqueue(e, pkt)
  BY DEF e
<1>3. /\ IsRecord(d) /\ SameSend(e, d) /\ SameRecv(e, d) /\ SameCredit(e, d)
      /\ d.out = Append(e.out, pkt) /\ d.landed = e.landed
      /\ QueueTypes(d) /\ QueuesFit(d)
  BY <1>1, <1>2, EnqueueFields
<1> QED BY <1>1, <1>3 DEF SameSend, SameRecv, SameCredit

LEMMA SendNoopEnd ==
    ASSUME NEW a \in Nat, NEW r \in Nat, NEW c, End(c, a, r), c.local_credit > 0,
           NEW d, d = SendNoop(c)
    PROVE  End(d, a, r) /\ Keeps(c, d) /\ SameSend(c, d)
<1> DEFINE e == CreditsGiven(c)
           q == WithCredits(c, Noop)
<1>0. /\ c \in Connection
      /\ SendTypes(c) /\ RecvTypes(c) /\ CreditTypes(c) /\ QueueTypes(c)
  BY EndIsConnection DEF End, SendOK, RecvOK, QueueOK
<1>1. /\ e \in Connection
      /\ SameSend(c, e) /\ SameRecv(c, e) /\ SameQueue(c, e)
      /\ e.local_credit = 0 /\ e.granted = c.granted + c.local_credit
      /\ e.remote_cc = c.remote_cc
  BY <1>0, CreditsGivenFields
<1>2. Paid(c) \in Nat
  BY <1>0 DEF End, SendOK, Numbering, Paid, SendTypes
<1>3. /\ q \in Packet /\ q.type = "noop" /\ q.vbuf_credit = c.local_credit
      /\ q.upto = c.granted + c.local_credit /\ q.sent = Paid(c)
  BY <1>0, <1>2, NoopType, WithCreditsFields
<1>4. d = Enqueue(ExtSendqSend(e), q)
  BY DEF SendNoop
<1> HIDE DEF e, q
<1>5. QueuesFit(e)
  BY <1>1 DEF End, QueueOK, QueuesFit, SameQueue
<1>6. /\ IsRecord(d) /\ SameSend(e, d) /\ SameRecv(e, d) /\ SameCredit(e, d)
      /\ d.out = Append(e.out, q) /\ d.landed = e.landed
      /\ QueueTypes(d) /\ QueuesFit(d)
  BY <1>1, <1>3, <1>4, <1>5, PostFields
<1>7. SameSend(c, d) /\ SameRecv(c, d)
  BY <1>1, <1>6 DEF SameSend, SameRecv
<1>8. SendOK(d) /\ Paid(d) = Paid(c)
  BY <1>7 DEF SameSend, End, SendOK, SendTypes, Starved, Numbering, SendLaw, Paid
<1>9. d.local_credit = 0 /\ d.granted = c.granted + c.local_credit
  BY <1>1, <1>6 DEF SameCredit
<1>10. RecvOK(d)
  <2>1. RecvTypes(d) /\ CreditTypes(d) /\ d.next_packet_expected > 0
    BY <1>0, <1>1, <1>6, <1>7, <1>9
    DEF RecvTypes, CreditTypes, SameRecv, SameCredit, End, RecvOK
  <2>2. RecvLaw(d)
    <3>1. ReserveOf(d) = ReserveOf(c)
      BY <1>7 DEF ReserveOf, SameRecv
    <3>2. ReserveOf(c) \in Int /\ InitialCredits \in Int
      BY InitialCreditsType, ParamAssumption DEF ReserveOf
    <3> QED BY <1>0, <1>7, <1>9, <3>1, <3>2
        DEF RecvLaw, SameRecv, End, RecvOK, RecvTypes, CreditTypes
  <2>3. Fresh(d)
    BY <1>7, <1>9, <1>0 DEF Fresh, SameRecv, End, RecvOK, CreditTypes
  <2> QED BY <2>1, <2>2, <2>3 DEF RecvOK
<1>11. Stamped(d.out, a, r, d.granted, Paid(d))
  <2>1. Stamped(c.out, a, r, c.granted, Paid(c))
    BY DEF End, QueueOK
  <2>2. Follows(q, c.granted, Paid(c))
    BY <1>3 DEF Follows, IsCredited
  <2>3. d.out = Append(c.out, q)
    BY <1>1, <1>6 DEF SameQueue
  <2>4. c.granted \in Nat /\ c.out \in Seq(Packet)
    BY <1>0 DEF CreditTypes, QueueTypes
  <2>5. Stamped(Append(c.out, q), a, r, q.upto, q.sent)
    BY <1>2, <1>3, <2>1, <2>2, <2>4, StampedAppend
  <2> QED BY <2>3, <2>5, <1>3, <1>8, <1>9
<1>12. Keeps(c, d)
  BY <1>0, <1>1, <1>6, <1>7 DEF Keeps, SameSend, SameRecv, SameQueue, RecvTypes
<1> QED BY <1>6, <1>7, <1>8, <1>10, <1>11, <1>12 DEF End, QueueOK

LEMMA SendNoopIfNeededEnd ==
    ASSUME NEW a \in Nat, NEW r \in Nat, NEW c, End(c, a, r),
           NEW d, d = SendNoopIfNeeded(c)
    PROVE  End(d, a, r) /\ Keeps(c, d) /\ SameSend(c, d)
<1>1. CASE NoopNeeded(c)
  <2>1. c.local_credit \in Nat
    BY DEF End, RecvOK, CreditTypes
  <2>2. c.local_credit > 0
    BY <1>1, <2>1, ParamAssumption DEF NoopNeeded
  <2> QED BY <1>1, <2>2, SendNoopEnd DEF SendNoopIfNeeded
<1>2. CASE ~NoopNeeded(c)
  BY <1>2 DEF SendNoopIfNeeded, Keeps, SameSend, End, RecvOK, RecvTypes
<1> QED BY <1>1, <1>2

-----------------------------------------------------------------------------
(* The operators that post buffers.                                        *)

\* A handler that only touches the receive side keeps the send side.
LEMMA SendSideKept ==
    ASSUME NEW a, NEW r, NEW c, End(c, a, r), NEW d,
           IsRecord(d), SameSend(c, d), SameQueue(c, d), d.granted = c.granted,
           RecvOK(d)
    PROVE  End(d, a, r)
<1>1. SendOK(d) /\ Paid(d) = Paid(c)
  BY DEF End, SendOK, SameSend, SendTypes, Starved, Numbering, SendLaw, Paid
<1>2. QueueOK(d, a, r)
  BY <1>1 DEF End, QueueOK, SameQueue, QueueTypes, QueuesFit
<1> QED BY <1>1, <1>2 DEF End

\* The same for one that only touches the send side's credits and counters.
LEMMA RecvSideKept ==
    ASSUME NEW c, NEW d, RecvOK(c), SameRecv(c, d), SameCredit(c, d)
    PROVE  RecvOK(d)
<1>1. RecvTypes(d) /\ CreditTypes(d)
  BY DEF RecvOK, SameRecv, SameCredit, RecvTypes, CreditTypes
<1>2. RecvLaw(d)
  BY DEF RecvOK, SameRecv, SameCredit, RecvLaw, ReserveOf
<1>3. Fresh(d)
  BY DEF RecvOK, SameRecv, SameCredit, Fresh
<1> QED BY <1>1, <1>2, <1>3 DEF RecvOK, SameRecv

LEMMA NeededType ==
    ASSUME NEW c, RecvTypes(c)
    PROVE  /\ Needed(c) \in Int /\ RqSize \in Nat
           /\ AtMost(RqSize, Needed(c)) \in Int
           /\ Needed(c) <= RqSize
BY ParamAssumption DEF Needed, RqSize, AtMost, RecvTypes

LEMMA FillUpFields ==
    ASSUME NEW c \in Connection, NEW d, d = FillUp(c)
    PROVE  /\ IsRecord(d) /\ SameSend(c, d) /\ SameQueue(c, d)
           /\ d.granted = c.granted /\ d.remote_cc = c.remote_cc
           /\ d.initialized = c.initialized
           /\ d.next_packet_expected = c.next_packet_expected
           /\ d.noop_spent = c.noop_spent
           /\ d.rendezvous_packets_expected = c.rendezvous_packets_expected
           /\ d.preposts \in Nat /\ d.preposts >= c.preposts
           /\ d.local_credit \in Nat
           /\ d.local_credit - c.local_credit = d.preposts - c.preposts
           /\ d.preposts > c.preposts => d.preposts <= RqSize
<1> DEFINE target == AtMost(RqSize, Needed(c))
           n == target - c.preposts
<1>0. SendTypes(c) /\ RecvTypes(c) /\ CreditTypes(c) /\ QueueTypes(c) /\ IsRecord(c)
  BY ConnectionParts
<1>1. target \in Int /\ target <= RqSize /\ RqSize \in Nat
  <2>1. Needed(c) \in Int /\ RqSize \in Nat
    BY <1>0, NeededType
  <2> QED BY <2>1 DEF AtMost
<1> HIDE DEF target
<1>2. CASE c.preposts < target
  <2>1. d = [c EXCEPT !.preposts = @ + n, !.local_credit = @ + n]
    BY <1>2 DEF FillUp, Prepost, target
  <2>2. /\ IsRecord(d) /\ SameSend(c, d) /\ SameQueue(c, d)
        /\ d.granted = c.granted /\ d.remote_cc = c.remote_cc
        /\ d.initialized = c.initialized
        /\ d.next_packet_expected = c.next_packet_expected
        /\ d.noop_spent = c.noop_spent
        /\ d.rendezvous_packets_expected = c.rendezvous_packets_expected
        /\ d.preposts = c.preposts + n
        /\ d.local_credit = c.local_credit + n
    BY <2>1 DEF Connection, IsRecord, SameSend, SameQueue
  <2> QED BY <1>0, <1>1, <1>2, <2>2 DEF RecvTypes, CreditTypes
<1>3. CASE ~(c.preposts < target)
  <2>1. d = c
    BY <1>3 DEF FillUp, target
  <2> QED BY <1>0, <2>1 DEF SameSend, SameQueue, RecvTypes, CreditTypes
<1> QED BY <1>2, <1>3

LEMMA FillUpEnd ==
    ASSUME NEW a \in Nat, NEW r \in Nat, NEW c, End(c, a, r), c.initialized,
           NEW d, d = FillUp(c)
    PROVE  End(d, a, r) /\ Keeps(c, d) /\ SameSend(c, d)
<1>0. /\ c \in Connection
      /\ SendTypes(c) /\ RecvTypes(c) /\ CreditTypes(c) /\ QueueTypes(c)
  BY EndIsConnection DEF End, SendOK, RecvOK, QueueOK
<1>1. /\ IsRecord(d) /\ SameSend(c, d) /\ SameQueue(c, d)
      /\ d.granted = c.granted /\ d.remote_cc = c.remote_cc
      /\ d.initialized = c.initialized
      /\ d.next_packet_expected = c.next_packet_expected
      /\ d.noop_spent = c.noop_spent
      /\ d.rendezvous_packets_expected = c.rendezvous_packets_expected
      /\ d.preposts \in Nat /\ d.preposts >= c.preposts
      /\ d.local_credit \in Nat
      /\ d.local_credit - c.local_credit = d.preposts - c.preposts
  BY <1>0, FillUpFields
<1>2. RecvOK(d)
  <2>1. RecvTypes(d) /\ CreditTypes(d) /\ d.next_packet_expected > 0
    BY <1>0, <1>1 DEF RecvTypes, CreditTypes, End, RecvOK
  <2>2. RecvLaw(d)
    <3>1. ReserveOf(d) = ReserveOf(c)
      BY <1>1 DEF ReserveOf
    <3>2. ReserveOf(c) \in Int /\ InitialCredits \in Int
      BY InitialCreditsType, ParamAssumption DEF ReserveOf
    <3> QED BY <1>0, <1>1, <3>1, <3>2
        DEF RecvLaw, End, RecvOK, RecvTypes, CreditTypes
  <2>3. Fresh(d)
    BY <1>1 DEF Fresh, End, RecvOK
  <2> QED BY <2>1, <2>2, <2>3 DEF RecvOK
<1>3. End(d, a, r)
  BY <1>1, <1>2, SendSideKept
<1> QED BY <1>1, <1>3 DEF Keeps, SameSend, SameQueue

LEMMA KeepsTransitive ==
    ASSUME NEW c, NEW d, NEW e, Keeps(c, d), Keeps(d, e),
           RecvTypes(c), RecvTypes(d), RecvTypes(e)
    PROVE  Keeps(c, e)
BY DEF Keeps, RecvTypes

LEMMA EndParts ==
    ASSUME NEW a, NEW r, NEW c, End(c, a, r)
    PROVE  /\ IsRecord(c) /\ SendTypes(c) /\ RecvTypes(c) /\ CreditTypes(c)
           /\ QueueTypes(c) /\ QueuesFit(c)
           /\ Paid(c) \in Nat
           /\ Stamped(c.out, a, r, c.granted, Paid(c))
<1>1. Paid(c) \in Nat
  BY DEF End, SendOK, Numbering, Paid, SendTypes
<1> QED BY <1>1 DEF End, SendOK, RecvOK, QueueOK

\* Asking for more buffers: rendezvous_packets_expected grows.
LEMMA PrepostForRendezvousEnd ==
    ASSUME NEW a \in Nat, NEW r \in Nat, NEW c, End(c, a, r), c.initialized,
           NEW n \in Nat, NEW d, d = PrepostForRendezvous(c, n)
    PROVE  End(d, a, r) /\ Keeps(c, d)
<1> DEFINE e == [c EXCEPT !.rendezvous_packets_expected = @ + n]
           f == FillUp(e)
<1>0. c \in Connection /\ RecvTypes(c)
  BY EndIsConnection, EndParts
<1>1. /\ IsRecord(e) /\ SameSend(c, e) /\ SameCredit(c, e) /\ SameQueue(c, e)
      /\ e.preposts = c.preposts /\ e.initialized = c.initialized
      /\ e.next_packet_expected = c.next_packet_expected
      /\ e.noop_spent = c.noop_spent
      /\ e.rendezvous_packets_expected = c.rendezvous_packets_expected + n
  <2>1. PICK g : g = e
    OBVIOUS
  <2>2. IsRecord(g)
    BY <1>0, <2>1 DEF Connection, IsRecord
  <2>3. SameSend(c, g) /\ SameCredit(c, g) /\ SameQueue(c, g)
    BY <1>0, <2>1 DEF Connection, SameSend, SameCredit, SameQueue
  <2>4. /\ g.preposts = c.preposts /\ g.initialized = c.initialized
        /\ g.next_packet_expected = c.next_packet_expected
        /\ g.noop_spent = c.noop_spent
        /\ g.rendezvous_packets_expected = c.rendezvous_packets_expected + n
    BY <1>0, <2>1 DEF Connection
  <2> HIDE DEF e
  <2> QED BY <2>1, <2>2, <2>3, <2>4
<1>2. d = SendNoopIfNeeded(f)
  BY DEF PrepostForRendezvous
<1> HIDE DEF e
<1>3. RecvOK(e)
  <2>1. RecvTypes(e) /\ CreditTypes(e) /\ e.next_packet_expected > 0
    BY <1>0, <1>1 DEF RecvTypes, CreditTypes, SameCredit, End, RecvOK
  <2>2. RecvLaw(e)
    BY <1>1 DEF RecvLaw, ReserveOf, SameCredit, End, RecvOK
  <2>3. Fresh(e)
    BY <1>1 DEF Fresh, End, RecvOK
  <2> QED BY <2>1, <2>2, <2>3 DEF RecvOK
<1>4. End(e, a, r) /\ Keeps(c, e)
  <2>1. End(e, a, r)
    BY <1>1, <1>3, SendSideKept DEF SameCredit
  <2> QED BY <2>1, <1>0, <1>1 DEF Keeps, SameSend, SameQueue, RecvTypes
<1>5. End(f, a, r) /\ Keeps(e, f)
  BY <1>1, <1>4, FillUpEnd
<1> HIDE DEF f
<1>6. End(d, a, r) /\ Keeps(f, d)
  BY <1>2, <1>5, SendNoopIfNeededEnd
<1>7. RecvTypes(e) /\ RecvTypes(f) /\ RecvTypes(d)
  BY <1>4, <1>5, <1>6, EndParts
<1>8. Keeps(e, d)
  BY <1>5, <1>6, <1>7, KeepsTransitive
<1> QED BY <1>0, <1>4, <1>6, <1>7, <1>8, KeepsTransitive

-----------------------------------------------------------------------------
(* viadev_post_send.                                                       *)

LEMMA NewPacketType ==
    ASSUME NEW type \in PacketType, NEW id \in Nat, NEW last \in BOOLEAN,
           NEW vbufs \in Nat,
           type \in {"start", "reply"} => vbufs \in R3Sizes,
           NEW pkt, pkt = NewPacket(type, id, last, vbufs)
    PROVE  /\ pkt \in Packet /\ pkt.type = type /\ pkt.id = id
           /\ pkt.vbufs = vbufs
BY DEF NewPacket, Packet

LEMMA AppendFields ==
    ASSUME NEW s \in Seq(Packet), NEW pkt \in Packet, NEW t, t = Append(s, pkt)
    PROVE  /\ t \in Seq(Packet) /\ Len(t) = Len(s) + 1 /\ Len(s) \in Nat
           /\ \A k \in 1 .. Len(s) : t[k] = s[k]
           /\ t[Len(s) + 1] = pkt
OBVIOUS

LEMMA NumberedFields ==
    ASSUME NEW c \in Connection, NEW d, d = Numbered(c)
    PROVE  /\ IsRecord(d) /\ SameRecv(c, d) /\ SameCredit(c, d) /\ SameQueue(c, d)
           /\ d.remote_credit = c.remote_credit /\ d.absorbed = c.absorbed
           /\ d.backlog = c.backlog
           /\ d.next_packet_tosend = c.next_packet_tosend + 1
           /\ d \in Connection
<1>1. IsRecord(d)
  BY DEF Numbered, Connection, IsRecord
<1>2. SameRecv(c, d) /\ SameCredit(c, d) /\ SameQueue(c, d)
  BY DEF Numbered, Connection, SameRecv, SameCredit, SameQueue
<1>3. /\ d.remote_credit = c.remote_credit /\ d.absorbed = c.absorbed
      /\ d.backlog = c.backlog
      /\ d.next_packet_tosend = c.next_packet_tosend + 1
  BY DEF Numbered, Connection
<1>4. SendTypes(c) /\ RecvTypes(c) /\ CreditTypes(c) /\ QueueTypes(c)
  BY ConnectionParts
<1>5. SendTypes(d) /\ RecvTypes(d) /\ CreditTypes(d) /\ QueueTypes(d)
  <2>1. SendTypes(d)
    BY <1>3, <1>4 DEF SendTypes
  <2>2. RecvTypes(d)
    BY <1>2, <1>4 DEF RecvTypes, SameRecv
  <2>3. CreditTypes(d)
    BY <1>2, <1>4 DEF CreditTypes, SameCredit
  <2>4. QueueTypes(d)
    BY <1>2, <1>4 DEF QueueTypes, SameQueue
  <2> QED BY <2>1, <2>2, <2>3, <2>4
<1> QED BY <1>1, <1>2, <1>3, <1>5, ConnectionParts

\* A packet that finds no credit waits on the backlog.
LEMMA BacklogQueueEnd ==
    ASSUME NEW a \in Nat, NEW r \in Nat, NEW c, End(c, a, r), c.remote_credit = 0,
           NEW pkt \in Packet, IsCredited(pkt), pkt.id = c.next_packet_tosend,
           NEW d, d = [Numbered(c) EXCEPT !.backlog = Append(@, pkt)]
    PROVE  /\ End(d, a, r) /\ Keeps(c, d)
           /\ Muted(c) /\ pkt.type # "reply" => Muted(d)
<1> DEFINE n == Numbered(c)
<1>0. c \in Connection /\ SendTypes(c) /\ RecvTypes(c)
  BY EndIsConnection, EndParts
<1>1. /\ n \in Connection
      /\ SameRecv(c, n) /\ SameCredit(c, n) /\ SameQueue(c, n)
      /\ n.remote_credit = c.remote_credit /\ n.absorbed = c.absorbed
      /\ n.backlog = c.backlog
      /\ n.next_packet_tosend = c.next_packet_tosend + 1
  BY <1>0, NumberedFields
<1> HIDE DEF n
<1>2. d = [n EXCEPT !.backlog = Append(@, pkt)]
  BY DEF n
<1>3. IsRecord(d)
  BY <1>1, <1>2 DEF Connection, IsRecord
<1>4. SameRecv(n, d) /\ SameCredit(n, d) /\ SameQueue(n, d)
  BY <1>1, <1>2 DEF Connection, SameRecv, SameCredit, SameQueue
<1>5. /\ d.remote_credit = n.remote_credit /\ d.absorbed = n.absorbed
      /\ d.backlog = Append(n.backlog, pkt)
      /\ d.next_packet_tosend = n.next_packet_tosend
  BY <1>1, <1>2 DEF Connection
<1>6. SameRecv(c, d) /\ SameCredit(c, d) /\ SameQueue(c, d)
  BY <1>1, <1>4 DEF SameRecv, SameCredit, SameQueue
<1>7. /\ d.backlog \in Seq(Packet) /\ Len(d.backlog) = Len(c.backlog) + 1
      /\ \A k \in 1 .. Len(c.backlog) : d.backlog[k] = c.backlog[k]
      /\ d.backlog[Len(c.backlog) + 1] = pkt
      /\ Len(c.backlog) \in Nat
  <2>1. c.backlog \in Seq(Packet) /\ d.backlog = Append(c.backlog, pkt)
    BY <1>0, <1>1, <1>5 DEF SendTypes
  <2> DEFINE u == c.backlog
             v == d.backlog
  <2>2. u \in Seq(Packet) /\ v = Append(u, pkt)
    BY <2>1
  <2> HIDE DEF u, v
  <2>3. /\ v \in Seq(Packet) /\ Len(v) = Len(u) + 1 /\ Len(u) \in Nat
        /\ \A k \in 1 .. Len(u) : v[k] = u[k]
        /\ v[Len(u) + 1] = pkt
    BY <2>2, AppendFields
  <2> QED BY <2>3 DEF u, v
<1>8. SendTypes(d)
  BY <1>0, <1>1, <1>5, <1>7 DEF SendTypes
<1>9. Paid(d) = Paid(c)
  <2> DEFINE m == Len(c.backlog)
             x == c.next_packet_tosend
  <2>1. /\ m \in Nat /\ x \in Nat /\ Len(d.backlog) = m + 1
        /\ d.next_packet_tosend = x + 1
    BY <1>0, <1>1, <1>5, <1>7 DEF SendTypes
  <2>2. Paid(c) = x - 1 - m
    BY DEF Paid
  <2>3. Paid(d) = (x + 1) - 1 - (m + 1)
    BY <2>1 DEF Paid
  <2> HIDE DEF m, x
  <2>4. (x + 1) - 1 - (m + 1) = x - 1 - m
    BY <2>1
  <2> QED BY <2>2, <2>3, <2>4
<1>10. Numbering(d)
  <2>1. Len(d.backlog) < d.next_packet_tosend
    BY <1>0, <1>1, <1>5, <1>7 DEF Numbering, SendTypes, End, SendOK
  <2>2. ASSUME NEW k \in 1 .. Len(d.backlog)
        PROVE  d.backlog[k].id = Paid(d) + k /\ IsCredited(d.backlog[k])
    <3>1. CASE k \in 1 .. Len(c.backlog)
      BY <3>1, <1>7, <1>9 DEF Numbering, End, SendOK
    <3>2. CASE k = Len(c.backlog) + 1
      <4>1. Paid(c) + k = c.next_packet_tosend
        <5> DEFINE m == Len(c.backlog)
                   x == c.next_packet_tosend
        <5>1. m \in Nat /\ x \in Nat /\ Paid(c) = x - 1 - m /\ k = m + 1
          BY <3>2, <1>0, <1>7 DEF Paid, SendTypes
        <5> HIDE DEF m, x
        <5>2. Paid(c) + k = x
          BY <5>1
        <5> QED BY <5>2 DEF x
      <4> QED BY <3>2, <4>1, <1>7, <1>9
    <3> QED BY <3>1, <3>2, <1>7
  <2> QED BY <2>1, <2>2 DEF Numbering
<1>11. SendOK(d)
  <2>1. Starved(d)
    BY <1>1, <1>5 DEF Starved
  <2>2. SendLaw(d)
    BY <1>1, <1>5, <1>9 DEF SendLaw, End, SendOK
  <2> QED BY <1>8, <1>10, <2>1, <2>2 DEF SendOK
<1>12. RecvOK(d)
  BY <1>6, RecvSideKept DEF End
<1>13. QueueOK(d, a, r)
  BY <1>6, <1>9 DEF End, QueueOK, SameQueue, SameCredit, QueueTypes, QueuesFit
<1>14. Keeps(c, d)
  BY <1>0, <1>1, <1>5, <1>6 DEF Keeps, SameRecv, SameQueue, RecvTypes
<1>15. ASSUME Muted(c), pkt.type # "reply"
       PROVE  Muted(d)
  BY <1>6, <1>7, <1>15 DEF Muted, NoReply, SameRecv, SameQueue
<1> QED BY <1>3, <1>11, <1>12, <1>13, <1>14, <1>15 DEF End

\* A packet that finds a credit takes the local credit and goes out.
LEMMA TransmitEnd ==
    ASSUME NEW a \in Nat, NEW r \in Nat, NEW c, End(c, a, r), c.remote_credit # 0,
           NEW pkt \in Packet, IsCredited(pkt), pkt.id = c.next_packet_tosend,
           NEW d, d = Transmit(Numbered(c), pkt)
    PROVE  /\ End(d, a, r) /\ Keeps(c, d)
           /\ d.remote_credit = c.remote_credit - 1
           /\ Muted(c) /\ pkt.type # "reply" => Muted(d)
<1> DEFINE n == Numbered(c)
           f == CreditsGiven(n)
           g == [f EXCEPT !.remote_credit = @ - 1]
           q == WithCredits(n, pkt)
<1>0. /\ c \in Connection
      /\ SendTypes(c) /\ RecvTypes(c) /\ CreditTypes(c) /\ QueueTypes(c)
      /\ QueuesFit(c) /\ Paid(c) \in Nat
      /\ Stamped(c.out, a, r, c.granted, Paid(c))
  BY EndIsConnection, EndParts
<1>1. /\ n \in Connection
      /\ SameRecv(c, n) /\ SameCredit(c, n) /\ SameQueue(c, n)
      /\ n.remote_credit = c.remote_credit /\ n.absorbed = c.absorbed
      /\ n.backlog = c.backlog
      /\ n.next_packet_tosend = c.next_packet_tosend + 1
  BY <1>0, NumberedFields
<1>2. c.backlog = << >> /\ Len(c.backlog) = 0
  <2>1. c.backlog = << >>
    BY DEF End, SendOK, Starved
  <2> QED BY <2>1
<1>3. /\ Paid(c) = c.next_packet_tosend - 1
      /\ Paid(n) = Paid(c) + 1 /\ Paid(n) \in Nat
  BY <1>0, <1>1, <1>2 DEF Paid, SendTypes
<1>4. /\ q \in Packet /\ q.type = pkt.type /\ q.id = pkt.id
      /\ q.vbuf_credit = n.local_credit
      /\ q.upto = n.granted + n.local_credit
      /\ q.sent = Paid(n)
  BY <1>1, <1>3, WithCreditsFields
<1>5. /\ f \in Connection
      /\ SameSend(n, f) /\ SameRecv(n, f) /\ SameQueue(n, f)
      /\ f.local_credit = 0 /\ f.granted = n.granted + n.local_credit
      /\ f.remote_cc = n.remote_cc
  BY <1>1, CreditsGivenFields
<1> HIDE DEF f
<1>6. PICK h : h = g
  OBVIOUS
<1>7. /\ IsRecord(h)
      /\ SameRecv(f, h) /\ SameCredit(f, h) /\ SameQueue(f, h)
      /\ h.remote_credit = f.remote_credit - 1 /\ h.absorbed = f.absorbed
      /\ h.next_packet_tosend = f.next_packet_tosend /\ h.backlog = f.backlog
  <2>1. IsRecord(h)
    BY <1>5, <1>6 DEF Connection, IsRecord
  <2>2. SameRecv(f, h) /\ SameCredit(f, h) /\ SameQueue(f, h)
    BY <1>5, <1>6 DEF Connection, SameRecv, SameCredit, SameQueue
  <2>3. /\ h.remote_credit = f.remote_credit - 1 /\ h.absorbed = f.absorbed
        /\ h.next_packet_tosend = f.next_packet_tosend /\ h.backlog = f.backlog
    BY <1>5, <1>6 DEF Connection
  <2> QED BY <2>1, <2>2, <2>3
<1>8. d = Enqueue(ExtSendqSend(h), q)
  BY <1>6 DEF Transmit, f
<1> HIDE DEF n, q, g
<1>9. /\ h.remote_credit = c.remote_credit - 1 /\ h.absorbed = c.absorbed
      /\ h.backlog = c.backlog
      /\ h.next_packet_tosend = c.next_packet_tosend + 1
      /\ SameRecv(c, h) /\ SameQueue(c, h)
      /\ h.local_credit = 0 /\ h.granted = c.granted + c.local_credit
      /\ h.remote_cc = c.remote_cc
  BY <1>1, <1>5, <1>7 DEF SameSend, SameRecv, SameCredit, SameQueue
<1>10. h \in Connection /\ QueuesFit(h)
  <2>1. SendTypes(h)
    BY <1>0, <1>9 DEF SendTypes
  <2>2. RecvTypes(h)
    BY <1>0, <1>9 DEF RecvTypes, SameRecv
  <2>3. CreditTypes(h)
    BY <1>0, <1>9 DEF CreditTypes
  <2>4. QueueTypes(h) /\ QueuesFit(h)
    BY <1>0, <1>9 DEF QueueTypes, QueuesFit, SameQueue
  <2> QED BY <1>7, <2>1, <2>2, <2>3, <2>4, ConnectionParts
<1>11. /\ IsRecord(d) /\ SameSend(h, d) /\ SameRecv(h, d) /\ SameCredit(h, d)
       /\ d.out = Append(h.out, q) /\ d.landed = h.landed
       /\ QueueTypes(d) /\ QueuesFit(d)
  BY <1>4, <1>8, <1>10, PostFields
<1>12. /\ d.remote_credit = c.remote_credit - 1 /\ d.absorbed = c.absorbed
       /\ d.backlog = c.backlog
       /\ d.next_packet_tosend = c.next_packet_tosend + 1
       /\ SameRecv(c, d) /\ d.landed = c.landed
       /\ d.out = Append(c.out, q)
       /\ d.local_credit = 0 /\ d.granted = c.granted + c.local_credit
       /\ d.remote_cc = c.remote_cc
  BY <1>9, <1>11 DEF SameSend, SameRecv, SameCredit, SameQueue
<1>13. Paid(d) = Paid(c) + 1
  BY <1>0, <1>2, <1>12 DEF Paid, SendTypes
<1>14. SendOK(d)
  <2>1. SendTypes(d)
    BY <1>0, <1>12 DEF SendTypes
  <2>2. Starved(d)
    BY <1>2, <1>12 DEF Starved
  <2>3. Numbering(d)
    BY <1>0, <1>2, <1>12 DEF Numbering, SendTypes
  <2>4. SendLaw(d)
    <3>1. /\ c.remote_credit \in Nat /\ c.absorbed \in Nat
          /\ InitialCredits \in Nat /\ Paid(c) \in Nat
      BY <1>0, InitialCreditsType DEF SendTypes
    <3>2. c.remote_credit = InitialCredits + c.absorbed - Paid(c)
      BY DEF SendLaw, End, SendOK
    <3>3. d.remote_credit = InitialCredits + d.absorbed - Paid(d)
      BY <1>12, <1>13, <3>1, <3>2
    <3> QED BY <3>3 DEF SendLaw
  <2> QED BY <2>1, <2>2, <2>3, <2>4 DEF SendOK
<1>15. RecvOK(d)
  <2>1. RecvTypes(d) /\ CreditTypes(d) /\ d.next_packet_expected > 0
    BY <1>0, <1>12 DEF RecvTypes, CreditTypes, SameRecv, End, RecvOK
  <2>2. RecvLaw(d)
    <3>1. ReserveOf(d) = ReserveOf(c)
      BY <1>12 DEF ReserveOf, SameRecv
    <3>2. ReserveOf(c) \in Int /\ InitialCredits \in Int
      BY InitialCreditsType, ParamAssumption DEF ReserveOf
    <3>3. /\ d.preposts = c.preposts /\ d.noop_spent = c.noop_spent
          /\ d.next_packet_expected = c.next_packet_expected
      BY <1>12 DEF SameRecv
    <3>4. c.preposts + c.noop_spent =
            ReserveOf(c) + InitialCredits + c.granted + c.local_credit
              - (c.next_packet_expected - 1)
      BY <1>0 DEF RecvLaw, End, RecvOK
    <3>5. /\ c.granted \in Nat /\ c.local_credit \in Nat
          /\ c.next_packet_expected \in Nat
      BY <1>0 DEF End, RecvOK, RecvTypes, CreditTypes
    <3>6. d.local_credit = 0 /\ d.granted = c.granted + c.local_credit
      BY <1>12
    <3>7. d.preposts + d.noop_spent =
            ReserveOf(d) + InitialCredits + d.granted + d.local_credit
              - (d.next_packet_expected - 1)
      BY <3>1, <3>2, <3>3, <3>4, <3>5, <3>6
    <3> QED BY <3>7 DEF RecvLaw
  <2>3. Fresh(d)
    BY <1>0, <1>12 DEF Fresh, SameRecv, End, RecvOK, CreditTypes
  <2> QED BY <2>1, <2>2, <2>3 DEF RecvOK
<1>16. Stamped(d.out, a, r, d.granted, Paid(d))
  <2>1. n.local_credit = c.local_credit /\ n.granted = c.granted
    BY <1>1 DEF SameCredit
  <2>2. Follows(q, c.granted, Paid(c))
    BY <1>0, <1>3, <1>4, <2>1 DEF Follows, IsCredited, SendTypes
  <2>3. c.granted \in Nat /\ c.out \in Seq(Packet)
    BY <1>0 DEF CreditTypes, QueueTypes
  <2>4. Stamped(Append(c.out, q), a, r, q.upto, q.sent)
    BY <1>0, <1>4, <2>2, <2>3, StampedAppend
  <2> QED BY <1>3, <1>4, <1>12, <1>13, <2>1, <2>4
<1>17. Keeps(c, d)
  BY <1>0, <1>12 DEF Keeps, SameRecv, RecvTypes
<1>18. ASSUME Muted(c), pkt.type # "reply"
       PROVE  Muted(d)
  <2> DEFINE u == c.out
             v == d.out
  <2>1. u \in Seq(Packet) /\ v = Append(u, q)
    BY <1>0, <1>12 DEF QueueTypes
  <2> HIDE DEF u, v
  <2>2. /\ v \in Seq(Packet) /\ Len(v) = Len(u) + 1 /\ Len(u) \in Nat
        /\ \A k \in 1 .. Len(u) : v[k] = u[k]
        /\ v[Len(u) + 1] = q
    BY <1>4, <2>1, AppendFields
  <2>3. NoReply(u) => NoReply(v)
    BY <1>4, <1>18, <2>2 DEF NoReply
  <2> QED BY <1>12, <1>18, <2>3 DEF Muted, SameRecv, u, v
<1> QED BY <1>11, <1>12, <1>14, <1>15, <1>16, <1>17, <1>18 DEF End, QueueOK

\* The arguments viadev_post_send is given, and what it does to an end.
ValidPost(type, last, vbufs) ==
    /\ type \in PacketType \ {"noop"} /\ last \in BOOLEAN /\ vbufs \in Nat
    /\ type \in {"start", "reply"} => vbufs \in R3Sizes

Posted(c, d, type, a, r) ==
    /\ End(d, a, r) /\ Keeps(c, d)
    /\ c.remote_credit # 0 => d.remote_credit = c.remote_credit - 1
    /\ Muted(c) /\ type # "reply" => Muted(d)

LEMMA PostSendEnd ==
    ASSUME NEW a \in Nat, NEW r \in Nat, NEW c, End(c, a, r),
           NEW type, NEW last, NEW vbufs, ValidPost(type, last, vbufs),
           NEW d, d = PostSend(c, type, last, vbufs)
    PROVE  Posted(c, d, type, a, r)
<1> DEFINE pkt == NewPacket(type, c.next_packet_tosend, last, vbufs)
           t == Transmit(Numbered(c), pkt)
           f == FillUp(t)
           s == SendNoopIfNeeded(f)
           b == [Numbered(c) EXCEPT !.backlog = Append(@, pkt)]
<1>0. /\ c.next_packet_tosend \in Nat
      /\ type \in PacketType /\ type # "noop" /\ last \in BOOLEAN /\ vbufs \in Nat
      /\ type \in {"start", "reply"} => vbufs \in R3Sizes
  BY EndParts DEF SendTypes, ValidPost
<1>1. pkt \in Packet /\ IsCredited(pkt) /\ pkt.id = c.next_packet_tosend
      /\ pkt.type = type
  BY <1>0, NewPacketType DEF IsCredited
<1>2. /\ c.remote_credit = 0 => d = b
      /\ c.remote_credit # 0 => d = t \/ (c.initialized /\ d = s)
  <2> DEFINE cond == /\ ExtSendqSend(c).send_wqes_avail > 0
                    /\ PrepostThreshold # 0 /\ last /\ c.initialized
  <2>1. d = IF c.remote_credit = 0 THEN b ELSE IF cond THEN s ELSE t
    BY Zenon DEF PostSend
  <2>2. cond => c.initialized
    OBVIOUS
  <2> HIDE DEF cond, b, s, t
  <2>3. CASE c.remote_credit = 0 BY <2>1, <2>3
  <2>4. CASE c.remote_credit # 0 /\ cond BY <2>1, <2>2, <2>4
  <2>5. CASE c.remote_credit # 0 /\ ~cond
    BY <2>1, <2>5
  <2> QED BY <2>3, <2>4, <2>5
<1> HIDE DEF pkt
<1>3. CASE c.remote_credit = 0
  BY <1>1, <1>2, <1>3, BacklogQueueEnd DEF Posted
<1>4. CASE c.remote_credit # 0
  <2>1. /\ End(t, a, r) /\ Keeps(c, t) /\ t.remote_credit = c.remote_credit - 1
        /\ Muted(c) /\ type # "reply" => Muted(t)
    BY <1>1, <1>4, TransmitEnd
  <2> HIDE DEF t
  <2>2. CASE d = t BY <2>1, <2>2 DEF Posted
  <2>3. CASE c.initialized /\ d = s
    <3>0. t.initialized BY <2>1, <2>3 DEF Keeps
    <3>1. End(f, a, r) /\ Keeps(t, f) /\ SameSend(t, f)
      BY <2>1, <3>0, FillUpEnd
    <3> HIDE DEF f
    <3>2. End(s, a, r) /\ Keeps(f, s) /\ SameSend(f, s)
      BY <3>1, SendNoopIfNeededEnd
    <3> HIDE DEF s
    <3>3. RecvTypes(c) /\ RecvTypes(t) /\ RecvTypes(f) /\ RecvTypes(s)
      BY <2>1, <3>1, <3>2, EndParts
    <3>4. Keeps(c, f)
      BY <2>1, <3>1, <3>3, KeepsTransitive
    <3>5. Keeps(c, s)
      BY <3>2, <3>3, <3>4, KeepsTransitive
    <3> QED BY <2>1, <2>3, <3>1, <3>2, <3>5 DEF SameSend, Keeps, Muted, Posted
  <2> QED BY <1>2, <1>4, <2>2, <2>3
<1> QED BY <1>3, <1>4

\* viadev_recv_r3
LEMMA RecvR3End ==
    ASSUME NEW a \in Nat, NEW r \in Nat, NEW c, End(c, a, r), c.initialized,
           NEW n \in R3Sizes, NEW d, d = RecvR3(c, n)
    PROVE  End(d, a, r) /\ Keeps(c, d)
<1> DEFINE e == PrepostForRendezvous(c, n)
<1>1. n \in Nat
  BY LoadAssumption
<1>2. End(e, a, r) /\ Keeps(c, e)
  BY <1>1, PrepostForRendezvousEnd
<1>3. d = PostSend(e, "reply", FALSE, n)
  BY DEF RecvR3
<1> HIDE DEF e
<1>4. End(d, a, r) /\ Keeps(e, d)
  <2>1. ValidPost("reply", FALSE, n)
    BY <1>1 DEF ValidPost, PacketType
  <2>2. Posted(e, d, "reply", a, r)
    BY <1>2, <1>3, <2>1, PostSendEnd
  <2> QED BY <2>2 DEF Posted
<1>5. RecvTypes(c) /\ RecvTypes(e) /\ RecvTypes(d)
  BY <1>2, <1>4, EndParts
<1> QED BY <1>2, <1>4, <1>5, KeepsTransitive

-----------------------------------------------------------------------------
(* viadev_backlog_send.                                                    *)

\* One end between taking in credits and spending them: Starved may not hold.
Unspent(c, a, r) ==
    /\ IsRecord(c) /\ SendTypes(c) /\ Numbering(c) /\ SendLaw(c)
    /\ RecvOK(c) /\ QueueOK(c, a, r)

LEMMA AtMostIsLeast ==
    ASSUME NEW i \in Nat, NEW j \in Nat, NEW n, n = AtMost(i, j)
    PROVE  n \in Nat /\ n <= i /\ n <= j /\ (n = i \/ n = j)
BY DEF AtMost

NumberedFrom(b, m) ==
    \A k \in 1 .. Len(b) : b[k].id = m + k /\ IsCredited(b[k])

\* The packets viadev_backlog_send takes off the backlog continue the stream.
Burst(n, b, g, l, m, rc) ==
    [i \in 1 .. n |-> [b[i] EXCEPT !.vbuf_credit = IF i = 1 THEN l ELSE 0,
                                   !.remote_credit = rc - (i - 1),
                                   !.upto = g + l,
                                   !.sent = (m + 1) + i - 1]]

BurstArguments(n, b, g, l, m, rc) ==
    /\ n \in Nat /\ n > 0 /\ n <= Len(b) /\ n <= rc
    /\ b \in Seq(Packet) /\ NumberedFrom(b, m)
    /\ g \in Nat /\ l \in Nat /\ m \in Nat /\ rc \in Nat

\* p is a record with the fields of a packet.
IsPacketRecord(p) ==
    p = [type |-> p.type, id |-> p.id, last |-> p.last,
         vbufs |-> p.vbufs, vbuf_credit |-> p.vbuf_credit,
         remote_credit |-> p.remote_credit, upto |-> p.upto,
         sent |-> p.sent]

\* The i-th packet of a burst, made of the packet x of the backlog.
InBurst(p, x, i, g, l, m, rc) ==
    /\ IsPacketRecord(p)
    /\ p.type = x.type /\ p.id = x.id /\ p.last = x.last
    /\ p.vbufs = x.vbufs
    /\ p.vbuf_credit = (IF i = 1 THEN l ELSE 0)
    /\ p.remote_credit = rc - (i - 1)
    /\ p.upto = g + l /\ p.sent = m + i

IsBurst(s, n, g, l, m) ==
    s \in Seq(Packet) /\ Len(s) = n /\ Stamped(s, g, m, g + l, m + n)

LEMMA BurstStamped ==
    ASSUME NEW n, NEW b, NEW g, NEW l, NEW m, NEW rc,
           BurstArguments(n, b, g, l, m, rc),
           NEW s, s = Burst(n, b, g, l, m, rc)
    PROVE  IsBurst(s, n, g, l, m)
<1> USE DEF BurstArguments
<1>0. \A i \in 1 .. n : i \in 1 .. Len(b) /\ b[i] \in Packet
  BY PacketsOf
<1>1. ASSUME NEW i \in 1 .. n, NEW p, p = s[i]
      PROVE  InBurst(p, b[i], i, g, l, m, rc)
  <2>1. b[i] \in Packet
    BY <1>0
  <2>2. p = [b[i] EXCEPT !.vbuf_credit = IF i = 1 THEN l ELSE 0,
                         !.remote_credit = rc - (i - 1),
                         !.upto = g + l,
                         !.sent = (m + 1) + i - 1]
    BY <1>1 DEF Burst
  <2>3. PICK x : x = b[i] OBVIOUS
  <2>4. x = [type |-> x.type, id |-> x.id, last |-> x.last, vbufs |-> x.vbufs,
             vbuf_credit |-> x.vbuf_credit, remote_credit |-> x.remote_credit,
             upto |-> x.upto, sent |-> x.sent]
    BY <2>1, <2>3 DEF Packet
  <2>5. (m + 1) + i - 1 = m + i
    OBVIOUS
  <2> QED BY <2>2, <2>3, <2>4, <2>5 DEF IsPacketRecord, InBurst
<1>2. \A i \in 1 .. n : s[i] \in Packet
  <2> TAKE i \in 1 .. n
  <2>1. PICK p : p = s[i] OBVIOUS
  <2>a. InBurst(p, b[i], i, g, l, m, rc)
    BY <1>1, <2>1
  <2>2. /\ b[i].type \in PacketType /\ b[i].id \in Nat /\ b[i].last \in BOOLEAN
        /\ b[i].vbufs \in Nat
        /\ b[i].type \in {"start", "reply"} => b[i].vbufs \in R3Sizes
    BY <1>0, PacketFields
  <2>3. rc - (i - 1) \in Nat /\ g + l \in Nat /\ m + i \in Nat
    OBVIOUS
  <2>4. /\ p.type \in PacketType /\ p.id \in Nat /\ p.last \in BOOLEAN
        /\ p.vbufs \in Nat /\ p.vbuf_credit \in Nat
        /\ p.remote_credit \in Nat /\ p.upto \in Nat /\ p.sent \in Nat
        /\ p.type \in {"start", "reply"} => p.vbufs \in R3Sizes
    <3>1. /\ p.type = b[i].type /\ p.id = b[i].id /\ p.last = b[i].last
          /\ p.vbufs = b[i].vbufs
          /\ p.vbuf_credit = (IF i = 1 THEN l ELSE 0)
          /\ p.remote_credit = rc - (i - 1)
          /\ p.upto = g + l /\ p.sent = m + i
      BY <2>a DEF InBurst
    <3>2. p.vbuf_credit \in Nat
      BY <3>1
    <3> QED BY <3>1, <3>2, <2>2, <2>3
  <2>5. IsPacketRecord(p)
    BY <2>a DEF InBurst
  <2>6. p \in Packet
    BY <2>4, <2>5 DEF Packet, IsPacketRecord
  <2> QED BY <2>1, <2>6
<1>3. s \in [1 .. n -> Packet]
  BY <1>2 DEF Burst
<1>4. s \in Seq(Packet) /\ Len(s) = n
  BY <1>3
<1>5. \A i \in 1 .. n :
         /\ s[i].type = b[i].type /\ s[i].id = m + i /\ IsCredited(s[i])
         /\ s[i].vbuf_credit = (IF i = 1 THEN l ELSE 0)
         /\ s[i].upto = g + l /\ s[i].sent = m + i
  <2> TAKE i \in 1 .. n
  <2>1. PICK p : p = s[i] OBVIOUS
  <2>2. /\ p.type = b[i].type /\ p.id = b[i].id
        /\ p.vbuf_credit = (IF i = 1 THEN l ELSE 0)
        /\ p.upto = g + l /\ p.sent = m + i
    BY <1>1, <2>1 DEF InBurst
  <2>3. b[i].id = m + i /\ IsCredited(b[i])
    BY <1>0 DEF NumberedFrom
  <2>4. IsCredited(p)
    BY <2>2, <2>3 DEF IsCredited
  <2> QED BY <2>1, <2>2, <2>3, <2>4
<1>6. Follows(s[1], g, m)
  <2>1. 1 \in 1 .. n OBVIOUS
  <2> QED BY <1>5, <2>1 DEF Follows
<1>7. ASSUME NEW i \in 1 .. Len(s) - 1
      PROVE  Follows(s[i + 1], s[i].upto, s[i].sent)
  <2>1. i \in 1 .. n /\ i + 1 \in 1 .. n /\ i + 1 # 1
    BY <1>4
  <2>2. /\ IsCredited(s[i + 1]) /\ s[i + 1].id = m + (i + 1)
        /\ s[i + 1].vbuf_credit = 0
        /\ s[i + 1].upto = g + l /\ s[i + 1].sent = m + (i + 1)
        /\ s[i].upto = g + l /\ s[i].sent = m + i
    BY <1>5, <2>1
  <2> QED BY <2>1, <2>2 DEF Follows
<1>8. \A i \in 1 .. Len(s) : s[i].upto <= g + l /\ s[i].sent <= m + n
  BY <1>4, <1>5
<1>9. s[Len(s)].upto = g + l /\ s[Len(s)].sent = m + n
  <2>1. n \in 1 .. n OBVIOUS
  <2> QED BY <1>4, <1>5, <2>1
<1>10. s # << >>
  BY <1>4
<1> QED BY <1>4, <1>6, <1>7, <1>8, <1>9, <1>10 DEF Stamped, IsBurst

LEMMA SubSeqFields ==
    ASSUME NEW s \in Seq(Packet), NEW n \in Nat, n <= Len(s),
           NEW t, t = SubSeq(s, n + 1, Len(s))
    PROVE  /\ t \in Seq(Packet) /\ Len(t) = Len(s) - n /\ Len(s) \in Nat
           /\ \A k \in 1 .. Len(t) : n + k \in 1 .. Len(s) /\ t[k] = s[n + k]
OBVIOUS

\* What a burst of n packets leaves of a record, field by field.
BacklogSent(c, n, d) ==
    /\ IsRecord(d) /\ SameRecv(c, d) /\ d.landed = c.landed
    /\ d.absorbed = c.absorbed
    /\ d.next_packet_tosend = c.next_packet_tosend
    /\ d.remote_credit = c.remote_credit - n
    /\ d.backlog = SubSeq(c.backlog, n + 1, Len(c.backlog))
    /\ d.local_credit = 0 /\ d.granted = c.granted + c.local_credit
    /\ d.remote_cc = c.remote_cc
    /\ d.send_wqes_avail = c.send_wqes_avail - AtMost(n, c.send_wqes_avail)
    /\ d.ext_sendq_size =
          c.ext_sendq_size + (n - AtMost(n, c.send_wqes_avail))
    /\ d.out = c.out \o Burst(n, c.backlog, c.granted, c.local_credit,
          c.next_packet_tosend - Len(c.backlog) - 1, c.remote_credit)

LEMMA BacklogSendFields ==
    ASSUME NEW c \in Connection,
           NEW n, n = AtMost(Len(c.backlog), c.remote_credit), n # 0,
           NEW d, d = BacklogSend(c)
    PROVE  BacklogSent(c, n, d)
<1> DEFINE e == CreditsGiven(c)
           w == AtMost(n, c.send_wqes_avail)
           s == [i \in 1 .. n |->
                    [c.backlog[i] EXCEPT
                        !.vbuf_credit = IF i = 1 THEN c.local_credit ELSE 0,
                        !.remote_credit = c.remote_credit - (i - 1),
                        !.upto = c.granted + c.local_credit,
                        !.sent = (c.next_packet_tosend - Len(c.backlog)) + i - 1]]
<1>1. d = [e EXCEPT !.backlog = SubSeq(@, n + 1, Len(@)),
                    !.remote_credit = @ - n,
                    !.send_wqes_avail = @ - w,
                    !.ext_sendq_size = @ + (n - w),
                    !.out = @ \o s]
  BY Zenon DEF BacklogSend
<1>2. /\ e \in Connection /\ SameSend(c, e) /\ SameRecv(c, e) /\ SameQueue(c, e)
      /\ e.local_credit = 0 /\ e.granted = c.granted + c.local_credit
      /\ e.remote_cc = c.remote_cc
  BY CreditsGivenFields
<1> DEFINE x == c.next_packet_tosend - Len(c.backlog)
<1>3. x \in Int /\ (x - 1) + 1 = x
  BY ConnectionParts DEF SendTypes
<1>4. s = Burst(n, c.backlog, c.granted, c.local_credit, x - 1, c.remote_credit)
  BY <1>3, Zenon DEF Burst
<1> HIDE DEF e, s, w, x
<1>5. IsRecord(d)
  BY <1>1, <1>2 DEF Connection, IsRecord
<1>6. SameRecv(e, d) /\ d.landed = e.landed
  BY <1>1, <1>2 DEF Connection, SameRecv
<1>7. /\ d.absorbed = e.absorbed /\ d.next_packet_tosend = e.next_packet_tosend
      /\ d.remote_credit = e.remote_credit - n
      /\ d.backlog = SubSeq(e.backlog, n + 1, Len(e.backlog))
      /\ d.local_credit = e.local_credit /\ d.granted = e.granted
      /\ d.remote_cc = e.remote_cc
  BY <1>1, <1>2 DEF Connection
<1>8. /\ d.send_wqes_avail = e.send_wqes_avail - w
      /\ d.ext_sendq_size = e.ext_sendq_size + (n - w)
      /\ d.out = e.out \o s
  BY <1>1, <1>2 DEF Connection
<1>9. /\ SameRecv(c, d) /\ d.landed = c.landed
      /\ d.absorbed = c.absorbed /\ d.next_packet_tosend = c.next_packet_tosend
      /\ d.remote_credit = c.remote_credit - n
      /\ d.backlog = SubSeq(c.backlog, n + 1, Len(c.backlog))
      /\ d.local_credit = 0 /\ d.granted = c.granted + c.local_credit
      /\ d.remote_cc = c.remote_cc
  BY <1>2, <1>6, <1>7 DEF SameSend, SameRecv, SameQueue
<1>10. /\ d.send_wqes_avail = c.send_wqes_avail - w
       /\ d.ext_sendq_size = c.ext_sendq_size + (n - w)
       /\ d.out = c.out \o s
  BY <1>2, <1>8 DEF SameQueue
<1> QED BY <1>4, <1>5, <1>9, <1>10 DEF w, x, BacklogSent

LEMMA SpendArithmetic ==
    ASSUME NEW rc \in Nat, NEW n \in Nat, NEW ic \in Nat, NEW ab \in Nat,
           NEW p \in Nat, rc = ic + ab - p
    PROVE  rc - n = ic + ab - (p + n)
OBVIOUS

LEMMA ConcatFields ==
    ASSUME NEW s \in Seq(Packet), NEW t \in Seq(Packet)
    PROVE  s \o t \in Seq(Packet) /\ Len(s \o t) = Len(s) + Len(t)
OBVIOUS

LEMMA BacklogSendEnd ==
    ASSUME NEW a \in Nat, NEW r \in Nat, NEW c, Unspent(c, a, r),
           NEW d, d = BacklogSend(c)
    PROVE  End(d, a, r) /\ Keeps(c, d)
<1> DEFINE m == Len(c.backlog)
           n == AtMost(m, c.remote_credit)
           w == AtMost(n, c.send_wqes_avail)
           g == c.granted
           l == c.local_credit
           s == Burst(n, c.backlog, g, l, c.next_packet_tosend - m - 1,
                      c.remote_credit)
<1>0. /\ c \in Connection
      /\ SendTypes(c) /\ RecvTypes(c) /\ CreditTypes(c) /\ QueueTypes(c)
      /\ QueuesFit(c) /\ Numbering(c) /\ SendLaw(c)
      /\ RecvLaw(c) /\ Fresh(c) /\ c.next_packet_expected > 0
      /\ Stamped(c.out, a, r, c.granted, Paid(c))
  BY ConnectionParts DEF Unspent, RecvOK, QueueOK
<1>1. /\ m \in Nat /\ c.remote_credit \in Nat /\ c.send_wqes_avail \in Nat
      /\ g \in Nat /\ l \in Nat /\ c.backlog \in Seq(Packet)
      /\ c.next_packet_tosend \in Nat /\ c.ext_sendq_size \in Nat
      /\ c.landed \in Nat
  BY <1>0 DEF SendTypes, CreditTypes, QueueTypes
<1>2. /\ n \in Nat /\ n <= m /\ n <= c.remote_credit
      /\ n = m \/ n = c.remote_credit
  <2> HIDE DEF m
  <2> QED BY <1>1, AtMostIsLeast
<1>3. /\ w \in Nat /\ w <= n /\ w <= c.send_wqes_avail
      /\ w = n \/ w = c.send_wqes_avail
  <2> HIDE DEF n
  <2> QED BY <1>1, <1>2, AtMostIsLeast
<1>4. Paid(c) = c.next_packet_tosend - 1 - m /\ Paid(c) \in Nat
  BY <1>0, <1>1 DEF Paid, Numbering
<1>5. CASE n = 0
  <2>1. d = c
    BY <1>5, Zenon DEF BacklogSend
  <2>2. Starved(c)
    <3>1. c.backlog # << >> => m # 0
      BY <1>1
    <3> QED BY <1>1, <1>2, <1>5, <3>1 DEF Starved
  <2> QED BY <1>0, <2>1, <2>2
      DEF Unspent, End, SendOK, RecvOK, Keeps, RecvTypes
<1>6. CASE n # 0
  <2>1. /\ IsRecord(d) /\ SameRecv(c, d) /\ d.landed = c.landed
        /\ d.absorbed = c.absorbed
        /\ d.next_packet_tosend = c.next_packet_tosend
        /\ d.remote_credit = c.remote_credit - n
        /\ d.backlog = SubSeq(c.backlog, n + 1, m)
        /\ d.local_credit = 0 /\ d.granted = g + l
        /\ d.remote_cc = c.remote_cc
        /\ d.send_wqes_avail = c.send_wqes_avail - w
        /\ d.ext_sendq_size = c.ext_sendq_size + (n - w)
        /\ d.out = c.out \o s
    <3>1. n = AtMost(Len(c.backlog), c.remote_credit)
      OBVIOUS
    <3> HIDE DEF n
    <3>2. c \in Connection BY <1>0
    <3>3. BacklogSent(c, n, d)
      BY <3>2, <1>6, <3>1, BacklogSendFields
    <3> QED BY <3>3 DEF BacklogSent
  <2> DEFINE k == c.next_packet_tosend - m - 1
             b == d.backlog
  <2>2. k = Paid(c) /\ k \in Nat
    <3> HIDE DEF m
    <3> QED BY <1>1, <1>4
  <2>3. NumberedFrom(c.backlog, k)
    BY <1>0, <2>2 DEF Numbering, NumberedFrom
  <2>4. s = Burst(n, c.backlog, g, l, k, c.remote_credit)
    OBVIOUS
  <2>5. b = SubSeq(c.backlog, n + 1, Len(c.backlog)) /\ n <= Len(c.backlog)
    BY <1>2, <2>1
  <2>a. m = Len(c.backlog)
    OBVIOUS
  <2> HIDE DEF s, k, b, n, w, g, l, m
  <2>b. n > 0
    BY <1>2, <1>6
  <2>6. s \in Seq(Packet) /\ Len(s) = n /\ Stamped(s, g, k, g + l, k + n)
    <3>1. /\ n \in Nat /\ n <= Len(c.backlog) /\ n <= c.remote_credit
          /\ c.backlog \in Seq(Packet) /\ g \in Nat /\ l \in Nat /\ k \in Nat
          /\ c.remote_credit \in Nat
      BY <1>1, <1>2, <2>2, <2>5
    <3>2. BurstArguments(n, c.backlog, g, l, k, c.remote_credit)
      BY <3>1, <2>b, <2>3 DEF BurstArguments
    <3>3. IsBurst(s, n, g, l, k)
      BY <3>2, <2>4, BurstStamped
    <3> QED BY <3>3 DEF IsBurst
  <2>7. /\ b \in Seq(Packet) /\ Len(b) = m - n
        /\ \A i \in 1 .. Len(b) : n + i \in 1 .. m /\ b[i] = c.backlog[n + i]
    BY <1>1, <1>2, <2>5, <2>a, SubSeqFields
  <2>8. Paid(d) = Paid(c) + n
    <3>1. Paid(d) = c.next_packet_tosend - 1 - (m - n)
      BY <2>1, <2>7 DEF Paid, b
    <3> QED BY <3>1, <1>1, <1>2, <1>4
  <2>9. SendOK(d)
    <3>1. SendTypes(d)
      <4>1. c.remote_credit - n \in Nat /\ c.absorbed \in Nat
            /\ c.next_packet_tosend \in Nat
        BY <1>0, <1>1, <1>2 DEF SendTypes
      <4>2. d.backlog \in Seq(Packet)
        BY <2>7 DEF b
      <4> QED BY <4>1, <4>2, <2>1 DEF SendTypes
    <3>2. Starved(d)
      <4>1. b # << >> => m # n
        BY <1>1, <1>2, <2>7
      <4>2. m # n => d.remote_credit = 0
        BY <1>1, <1>2, <2>1
      <4> QED BY <4>1, <4>2 DEF Starved, b
    <3>3. Numbering(d)
      <4>1. Len(b) < d.next_packet_tosend
        <5>1. m < c.next_packet_tosend
          BY <1>0, <2>a DEF Numbering
        <5> QED BY <5>1, <1>1, <1>2, <2>1, <2>7
      <4>2. ASSUME NEW i \in 1 .. Len(b)
            PROVE  b[i].id = Paid(d) + i /\ IsCredited(b[i])
        <5>1. /\ n + i \in 1 .. m /\ b[i] = c.backlog[n + i]
              /\ i \in Nat
          BY <2>7
        <5>2. /\ c.backlog[n + i].id = k + (n + i)
              /\ IsCredited(c.backlog[n + i])
          BY <5>1, <2>3, <2>a DEF NumberedFrom
        <5>3. k + (n + i) = Paid(d) + i
          BY <5>1, <1>2, <1>4, <2>2, <2>8
        <5> QED BY <5>1, <5>2, <5>3
      <4> QED BY <4>1, <4>2 DEF Numbering, b
    <3>4. SendLaw(d)
      <4>1. c.remote_credit = InitialCredits + c.absorbed - Paid(c)
        BY <1>0 DEF SendLaw
      <4>2. InitialCredits \in Nat /\ c.absorbed \in Nat
        BY <1>0, InitialCreditsType DEF SendTypes
      <4>3. d.remote_credit = InitialCredits + d.absorbed - Paid(d)
        <5>1. c.remote_credit - n = InitialCredits + c.absorbed - (Paid(c) + n)
          <6>1. n \in Nat /\ c.remote_credit \in Nat /\ Paid(c) \in Nat
            BY <1>1, <1>2, <1>4
          <6> QED BY <6>1, <4>1, <4>2, SpendArithmetic
        <5> QED BY <5>1, <2>1, <2>8
      <4> QED BY <4>3 DEF SendLaw
    <3> QED BY <3>1, <3>2, <3>3, <3>4 DEF SendOK
  <2>10. RecvOK(d)
    <3>1. RecvTypes(d) /\ CreditTypes(d) /\ d.next_packet_expected > 0
      BY <1>0, <1>1, <2>1 DEF RecvTypes, CreditTypes, SameRecv
    <3>2. RecvLaw(d)
      <4>1. ReserveOf(d) = ReserveOf(c)
        BY <2>1 DEF ReserveOf, SameRecv
      <4>2. ReserveOf(c) \in Int /\ InitialCredits \in Int
        BY InitialCreditsType, ParamAssumption DEF ReserveOf
      <4>3. c.preposts + c.noop_spent =
              ReserveOf(c) + InitialCredits + g + l - (c.next_packet_expected - 1)
        BY <1>0 DEF RecvLaw, g, l
      <4>4. /\ d.preposts = c.preposts /\ d.noop_spent = c.noop_spent
            /\ d.next_packet_expected = c.next_packet_expected
            /\ c.next_packet_expected \in Nat
        BY <1>0, <2>1 DEF SameRecv, RecvTypes
      <4>5. d.preposts + d.noop_spent =
              ReserveOf(d) + InitialCredits + (g + l) + 0
                - (d.next_packet_expected - 1)
        <5> DEFINE y == ReserveOf(c)
                   z == c.next_packet_expected
        <5>1. /\ y \in Int /\ InitialCredits \in Int /\ z \in Int
              /\ g \in Int /\ l \in Int
          BY <4>2, <4>4, <1>1
        <5>2. /\ d.preposts + d.noop_spent
                    = y + InitialCredits + g + l - (z - 1)
              /\ ReserveOf(d) = y /\ d.next_packet_expected = z
          BY <4>1, <4>3, <4>4
        <5> HIDE DEF y, z
        <5>3. y + InitialCredits + g + l - (z - 1)
                = y + InitialCredits + (g + l) + 0 - (z - 1)
          BY <5>1
        <5> QED BY <5>2, <5>3
      <4> QED BY <4>5, <2>1 DEF RecvLaw
    <3>3. Fresh(d)
      BY <1>0, <1>1, <2>1 DEF Fresh, SameRecv, g, l
    <3> QED BY <3>1, <3>2, <3>3 DEF RecvOK
  <2>11. QueueOK(d, a, r)
    <3>1. c.out \in Seq(Packet) /\ Len(c.out) \in Nat
      BY <1>0 DEF QueueTypes
    <3>2. d.out \in Seq(Packet) /\ Len(d.out) = Len(c.out) + n
      BY <2>1, <2>6, <3>1, ConcatFields
    <3>3. QueueTypes(d)
      <4>1. c.send_wqes_avail - w \in Nat /\ c.ext_sendq_size + (n - w) \in Nat
        BY <1>1, <1>2, <1>3
      <4> QED BY <1>1, <2>1, <3>2, <4>1 DEF QueueTypes
    <3>4. QueuesFit(d)
      <4>1. d.ext_sendq_size + d.landed <= Len(d.out)
        <5>1. c.ext_sendq_size + c.landed <= Len(c.out)
          BY <1>0 DEF QueuesFit
        <5> DEFINE z == Len(c.out)
                   x == c.ext_sendq_size
                   y == c.landed
        <5>2. z \in Nat /\ x \in Nat /\ y \in Nat /\ x + y <= z
          BY <1>1, <3>1, <5>1
        <5> HIDE DEF x, y, z
        <5>3. x + (n - w) + y <= z + n
          BY <5>2, <1>2, <1>3
        <5> QED BY <5>3, <2>1, <3>2 DEF x, y, z
      <4>2. d.ext_sendq_size > 0 => d.send_wqes_avail = 0
        <5>1. c.ext_sendq_size > 0 => c.send_wqes_avail = 0
          BY <1>0 DEF QueuesFit
        <5>2. c.ext_sendq_size + (n - w) > 0 => c.send_wqes_avail - w = 0
          BY <5>1, <1>1, <1>2, <1>3
        <5> QED BY <5>2, <2>1
      <4> QED BY <4>1, <4>2 DEF QueuesFit
    <3>5. Stamped(c.out \o s, a, r, g + l, k + n)
      <4>1. Stamped(c.out, a, r, g, k)
        BY <1>0, <2>2 DEF g
      <4>2. g + l \in Nat /\ k + n \in Nat /\ g <= g + l /\ k <= k + n
        BY <1>1, <1>2, <2>2
      <4> QED BY <1>1, <2>2, <2>6, <3>1, <4>1, <4>2, StampedConcat
    <3> QED BY <2>1, <2>2, <2>8, <3>3, <3>4, <3>5 DEF QueueOK
  <2>12. Keeps(c, d)
    BY <1>0, <2>1 DEF Keeps, SameRecv, RecvTypes
  <2> QED BY <2>1, <2>9, <2>10, <2>11, <2>12 DEF End
<1> QED BY <1>5, <1>6

-----------------------------------------------------------------------------
(* viadev_handle_flow_control_sr.                                          *)

Count(pkt) == IF IsCredited(pkt) THEN 1 ELSE 0

\* viadev_process_recv: the sequence number is counted, a buffer is consumed.
Consumed(c, d, k) ==
    /\ IsRecord(d) /\ SameSend(c, d) /\ SameCredit(c, d) /\ SameQueue(c, d)
    /\ d.preposts = c.preposts - 1 /\ d.initialized = c.initialized
    /\ d.next_packet_expected = c.next_packet_expected + k
    /\ d.noop_spent = c.noop_spent
    /\ d.rendezvous_packets_expected = c.rendezvous_packets_expected

\* What receiving pkt has changed when the buffers are posted again.
Replenished(c, d, pkt, mpiInit) ==
    /\ SameSend(c, d) /\ SameQueue(c, d)
    /\ d.next_packet_expected = c.next_packet_expected + Count(pkt)
    /\ d.preposts >= c.preposts - 1
    /\ c.initialized => d.initialized
    /\ mpiInit \/ pkt.type = "start" => d.initialized

LEMMA ConsumedFields ==
    ASSUME NEW c \in Connection, NEW pkt,
           NEW e, e = [c EXCEPT !.next_packet_expected =
                                   IF IsCredited(pkt) THEN @ + 1 ELSE @],
           NEW d, d = [e EXCEPT !.preposts = @ - 1]
    PROVE  Consumed(c, d, Count(pkt))
<1>1. /\ IsRecord(e) /\ SameSend(c, e) /\ SameCredit(c, e) /\ SameQueue(c, e)
      /\ e.preposts = c.preposts /\ e.initialized = c.initialized
      /\ e.noop_spent = c.noop_spent
      /\ e.rendezvous_packets_expected = c.rendezvous_packets_expected
  BY DEF Connection, IsRecord, SameSend, SameCredit, SameQueue
<1>2. e.next_packet_expected = c.next_packet_expected + Count(pkt)
  <2>1. c.next_packet_expected \in Nat
    BY ConnectionParts DEF RecvTypes
  <2>2. e.next_packet_expected =
          IF IsCredited(pkt) THEN c.next_packet_expected + 1
                             ELSE c.next_packet_expected
    BY DEF Connection
  <2> QED BY <2>1, <2>2 DEF Count
<1>3. IsRecord(d)
  BY <1>1 DEF IsRecord
<1>4. SameSend(e, d) /\ SameCredit(e, d) /\ SameQueue(e, d)
  BY <1>1 DEF IsRecord, SameSend, SameCredit, SameQueue
<1>5. /\ d.preposts = e.preposts - 1 /\ d.initialized = e.initialized
      /\ d.next_packet_expected = e.next_packet_expected
      /\ d.noop_spent = e.noop_spent
      /\ d.rendezvous_packets_expected = e.rendezvous_packets_expected
  BY <1>1 DEF IsRecord
<1> QED BY <1>1, <1>2, <1>3, <1>4, <1>5
    DEF Consumed, SameSend, SameCredit, SameQueue

\* A credited packet whose buffer is not posted again.
LEMMA ConsumedEnd ==
    ASSUME NEW a \in Nat, NEW r \in Nat, NEW c, End(c, a, r), c.preposts > 0,
           NEW d, Consumed(c, d, 1)
    PROVE  End(d, a, r)
<1>0. RecvTypes(c) /\ CreditTypes(c) /\ RecvLaw(c) /\ Fresh(c)
  BY DEF End, RecvOK
<1>1. RecvTypes(d) /\ CreditTypes(d) /\ d.next_packet_expected > 0
  BY <1>0 DEF Consumed, RecvTypes, CreditTypes, SameCredit
<1>2. RecvLaw(d)
  <2>1. ReserveOf(d) = ReserveOf(c)
    BY DEF ReserveOf, Consumed
  <2>2. ReserveOf(c) \in Int /\ InitialCredits \in Int
    BY InitialCreditsType, ParamAssumption DEF ReserveOf
  <2> QED BY <1>0, <2>1, <2>2
      DEF RecvLaw, Consumed, SameCredit, RecvTypes, CreditTypes
<1>3. Fresh(d)
  BY <1>0 DEF Fresh, Consumed, SameCredit
<1>4. RecvOK(d)
  BY <1>1, <1>2, <1>3 DEF RecvOK
<1> QED BY <1>4, SendSideKept DEF Consumed, SameCredit

LEMMA ReplenishInitialized ==
    ASSUME NEW a \in Nat, NEW r \in Nat, NEW c, End(c, a, r), c.preposts > 0,
           c.initialized, NEW pkt, NEW mpiInit,
           NEW e, Consumed(c, e, Count(pkt)), NEW d, d = Repost(e, pkt)
    PROVE  End(d, a, r) /\ Replenished(c, d, pkt, mpiInit)
<1>0. /\ c \in Connection /\ RecvTypes(c) /\ CreditTypes(c)
      /\ RecvLaw(c) /\ Fresh(c) /\ c.next_packet_expected > 0
  BY EndIsConnection DEF End, RecvOK
<1>1. CASE IsCredited(pkt)
  <2>1. Consumed(c, e, 1)
    BY <1>1 DEF Count
  <2>2. End(e, a, r)
    BY <2>1, ConsumedEnd
  <2>3. d = e \/ d = FillUp(e)
    BY <1>1 DEF Repost, IsCredited
  <2>4. CASE d = e
    <3>1. Consumed(c, d, 1) /\ Count(pkt) = 1
      BY <1>1, <2>1, <2>4 DEF Count
    <3>2. d.preposts >= c.preposts - 1
      BY <1>0, <3>1 DEF Consumed, RecvTypes
    <3> QED BY <2>2, <2>4, <3>1, <3>2 DEF Consumed, Replenished
  <2>5. CASE d = FillUp(e)
    <3>1. e.initialized
      BY DEF Consumed
    <3>2. End(d, a, r) /\ Keeps(e, d) /\ SameSend(e, d)
      BY <2>2, <2>5, <3>1, FillUpEnd
    <3>3. SameQueue(e, d)
      BY <2>2, <2>5, FillUpFields, EndIsConnection
    <3>4. e.preposts \in Nat /\ d.preposts \in Nat /\ c.preposts \in Nat
      BY <1>0, <2>2, <3>2, EndParts DEF RecvTypes
    <3>5. d.preposts >= c.preposts - 1
      BY <3>2, <3>4 DEF Keeps, Consumed
    <3> QED BY <3>1, <3>2, <3>3, <3>5
        DEF Consumed, Replenished, SameSend, SameQueue, Keeps
  <2> QED BY <2>3, <2>4, <2>5
<1>2. CASE ~IsCredited(pkt)
  <2>1. Count(pkt) = 0 /\ pkt.type = "noop"
    BY <1>2 DEF Count, IsCredited
  <2>2. d = [e EXCEPT !.preposts = @ + 1]
    BY <2>1 DEF Repost
  <2>3. IsRecord(e)
    BY DEF Consumed
  <2>4. /\ IsRecord(d) /\ SameSend(e, d) /\ SameCredit(e, d) /\ SameQueue(e, d)
        /\ d.preposts = e.preposts + 1 /\ d.initialized = e.initialized
        /\ d.next_packet_expected = e.next_packet_expected
        /\ d.noop_spent = e.noop_spent
        /\ d.rendezvous_packets_expected = e.rendezvous_packets_expected
    <3>1. IsRecord(d)
      BY <2>2, <2>3 DEF IsRecord
    <3>2. SameSend(e, d) /\ SameCredit(e, d) /\ SameQueue(e, d)
      BY <2>2, <2>3 DEF IsRecord, SameSend, SameCredit, SameQueue
    <3>3. /\ d.preposts = e.preposts + 1 /\ d.initialized = e.initialized
          /\ d.next_packet_expected = e.next_packet_expected
          /\ d.noop_spent = e.noop_spent
          /\ d.rendezvous_packets_expected = e.rendezvous_packets_expected
      BY <2>2, <2>3 DEF IsRecord
    <3> QED BY <3>1, <3>2, <3>3
  <2>5. /\ SameSend(c, d) /\ SameCredit(c, d) /\ SameQueue(c, d)
    BY <2>4 DEF Consumed, SameSend, SameCredit, SameQueue
  <2>6. SameRecv(c, d)
    BY <1>0, <2>1, <2>4 DEF Consumed, SameRecv, RecvTypes
  <2>7. RecvOK(d)
    BY <2>5, <2>6, RecvSideKept DEF End
  <2>8. End(d, a, r)
    BY <2>4, <2>5, <2>7, SendSideKept DEF SameCredit
  <2> QED BY <1>0, <2>1, <2>5, <2>6, <2>8 DEF Replenished, SameRecv, RecvTypes
<1> QED BY <1>1, <1>2

\* The packet that makes the connection initialized.
LEMMA ReplenishInitializes ==
    ASSUME NEW a \in Nat, NEW r \in Nat, NEW c, End(c, a, r), c.preposts > 0,
           ~c.initialized, NEW pkt, NEW mpiInit,
           NEW e, Consumed(c, e, Count(pkt)), NEW d, d = Initialize(e, pkt)
    PROVE  End(d, a, r) /\ Replenished(c, d, pkt, mpiInit)
<1> DEFINE u == UncreditedPosts
           f == NoopSpent(e, pkt)
           k == Count(pkt)
<1>0. /\ c \in Connection /\ RecvTypes(c) /\ CreditTypes(c)
      /\ RecvLaw(c) /\ Fresh(c) /\ c.next_packet_expected > 0
      /\ SendTypes(c) /\ QueueTypes(c)
  BY EndIsConnection, EndParts DEF End, RecvOK
<1>1. /\ u \in Nat /\ InitialPrepost - InitialCredits + u = NoopExtra
      /\ InitialCredits \in Nat /\ NoopExtra \in Nat
  BY InitialCreditsType, ParamAssumption DEF UncreditedPosts
<1>2. k \in {0, 1}
  BY DEF Count
<1>3. PICK g : g = [f EXCEPT !.preposts = @ + u]
  OBVIOUS
<1>4. PICK h : h = FillUp(g)
  OBVIOUS
<1>5. d = [h EXCEPT !.initialized = TRUE]
  BY <1>3, <1>4 DEF Initialize
<1>6. /\ IsRecord(f) /\ SameSend(e, f) /\ SameCredit(e, f) /\ SameQueue(e, f)
      /\ f.preposts = e.preposts /\ f.initialized = e.initialized
      /\ f.next_packet_expected = e.next_packet_expected
      /\ f.rendezvous_packets_expected = e.rendezvous_packets_expected
      /\ f.noop_spent = IF pkt.type = "noop" THEN e.noop_spent + 1
                                             ELSE e.noop_spent
  <2>1. IsRecord(e)
    BY DEF Consumed
  <2>2. PICK ff : ff = f
    OBVIOUS
  <2>3. IsRecord(ff)
    BY <2>1, <2>2 DEF NoopSpent, IsRecord
  <2>4. SameSend(e, ff) /\ SameCredit(e, ff) /\ SameQueue(e, ff)
    BY <2>1, <2>2 DEF NoopSpent, IsRecord, SameSend, SameCredit, SameQueue
  <2>5. /\ ff.preposts = e.preposts /\ ff.initialized = e.initialized
        /\ ff.next_packet_expected = e.next_packet_expected
        /\ ff.rendezvous_packets_expected = e.rendezvous_packets_expected
        /\ ff.noop_spent = IF pkt.type = "noop" THEN e.noop_spent + 1
                                                ELSE e.noop_spent
    BY <2>1, <2>2 DEF NoopSpent, IsRecord
  <2> QED BY <2>2, <2>3, <2>4, <2>5
<1> HIDE DEF f, u, k
<1>7. f.noop_spent = c.noop_spent + 1 - k /\ f.noop_spent \in {0, 1}
  <2>1. c.noop_spent = 0 /\ e.noop_spent = 0
    BY <1>0 DEF Fresh, Consumed
  <2> QED BY <1>6, <2>1 DEF k, Count, IsCredited
<1>8. /\ IsRecord(g) /\ SameSend(f, g) /\ SameCredit(f, g) /\ SameQueue(f, g)
      /\ g.preposts = f.preposts + u /\ g.initialized = f.initialized
      /\ g.next_packet_expected = f.next_packet_expected
      /\ g.rendezvous_packets_expected = f.rendezvous_packets_expected
      /\ g.noop_spent = f.noop_spent
  <2>1. IsRecord(g)
    BY <1>3, <1>6 DEF IsRecord
  <2>2. SameSend(f, g) /\ SameCredit(f, g) /\ SameQueue(f, g)
    BY <1>3, <1>6 DEF IsRecord, SameSend, SameCredit, SameQueue
  <2>3. /\ g.preposts = f.preposts + u /\ g.initialized = f.initialized
        /\ g.next_packet_expected = f.next_packet_expected
        /\ g.rendezvous_packets_expected = f.rendezvous_packets_expected
        /\ g.noop_spent = f.noop_spent
    BY <1>3, <1>6 DEF IsRecord
  <2> QED BY <2>1, <2>2, <2>3
<1>9. /\ SameSend(c, g) /\ SameCredit(c, g) /\ SameQueue(c, g)
      /\ g.preposts = c.preposts - 1 + u /\ g.initialized = c.initialized
      /\ g.next_packet_expected = c.next_packet_expected + k
      /\ g.rendezvous_packets_expected = c.rendezvous_packets_expected
      /\ g.noop_spent = c.noop_spent + 1 - k
  BY <1>6, <1>7, <1>8 DEF Consumed, SameSend, SameCredit, SameQueue, k
<1>10. g \in Connection
  <2>1. SendTypes(g) /\ CreditTypes(g) /\ QueueTypes(g)
    BY <1>0, <1>9 DEF SendTypes, CreditTypes, QueueTypes,
       SameSend, SameCredit, SameQueue
  <2>2. RecvTypes(g)
    BY <1>0, <1>1, <1>2, <1>9 DEF RecvTypes
  <2> QED BY <1>8, <2>1, <2>2, ConnectionParts
<1>11. /\ IsRecord(h) /\ SameSend(g, h) /\ SameQueue(g, h)
       /\ h.granted = g.granted /\ h.remote_cc = g.remote_cc
       /\ h.next_packet_expected = g.next_packet_expected
       /\ h.noop_spent = g.noop_spent
       /\ h.rendezvous_packets_expected = g.rendezvous_packets_expected
       /\ h.preposts \in Nat /\ h.preposts >= g.preposts
       /\ h.local_credit \in Nat
       /\ h.local_credit - g.local_credit = h.preposts - g.preposts
  BY <1>4, <1>10, FillUpFields
<1>12. /\ IsRecord(d) /\ SameSend(h, d) /\ SameCredit(h, d) /\ SameQueue(h, d)
       /\ d.preposts = h.preposts /\ d.initialized = TRUE
       /\ d.next_packet_expected = h.next_packet_expected
       /\ d.rendezvous_packets_expected = h.rendezvous_packets_expected
       /\ d.noop_spent = h.noop_spent
  <2>1. IsRecord(d)
    BY <1>5, <1>11 DEF IsRecord
  <2>2. SameSend(h, d) /\ SameCredit(h, d) /\ SameQueue(h, d)
    BY <1>5, <1>11 DEF IsRecord, SameSend, SameCredit, SameQueue
  <2>3. /\ d.preposts = h.preposts /\ d.initialized = TRUE
        /\ d.next_packet_expected = h.next_packet_expected
        /\ d.rendezvous_packets_expected = h.rendezvous_packets_expected
        /\ d.noop_spent = h.noop_spent
    BY <1>5, <1>11 DEF IsRecord
  <2> QED BY <2>1, <2>2, <2>3
<1>13. /\ SameSend(c, d) /\ SameQueue(c, d)
       /\ d.granted = c.granted /\ d.remote_cc = c.remote_cc
       /\ d.initialized
       /\ d.next_packet_expected = c.next_packet_expected + k
       /\ d.rendezvous_packets_expected = c.rendezvous_packets_expected
       /\ d.noop_spent = c.noop_spent + 1 - k
       /\ d.preposts \in Nat /\ d.local_credit \in Nat
       /\ d.preposts >= c.preposts - 1 + u
       /\ d.local_credit - c.local_credit = d.preposts - (c.preposts - 1 + u)
  BY <1>9, <1>11, <1>12 DEF SameSend, SameCredit, SameQueue
<1>14. RecvOK(d)
  <2>1. RecvTypes(d) /\ CreditTypes(d) /\ d.next_packet_expected > 0
    BY <1>0, <1>2, <1>7, <1>13 DEF RecvTypes, CreditTypes
  <2>2. RecvLaw(d)
    <3>1. ReserveOf(d) = NoopExtra /\ ReserveOf(c) + u = NoopExtra
          /\ ReserveOf(c) \in Int
      BY <1>1, <1>13, ParamAssumption DEF ReserveOf
    <3>2. c.preposts + c.noop_spent =
            ReserveOf(c) + InitialCredits + c.granted + c.local_credit
               - (c.next_packet_expected - 1)
      BY <1>0 DEF RecvLaw
    <3>3. /\ c.preposts \in Nat /\ c.noop_spent \in Nat /\ c.granted \in Nat
          /\ c.local_credit \in Nat /\ c.next_packet_expected \in Nat
      BY <1>0 DEF RecvTypes, CreditTypes
    <3>4. d.preposts + d.noop_spent =
            ReserveOf(d) + InitialCredits + d.granted + d.local_credit
               - (d.next_packet_expected - 1)
      BY <1>1, <1>2, <1>13, <3>1, <3>2, <3>3
    <3> QED BY <3>4 DEF RecvLaw
  <2>3. Fresh(d)
    <3>1. d.noop_spent <= 1
      BY <1>0, <1>2, <1>13 DEF Fresh
    <3> QED BY <1>13, <3>1 DEF Fresh
  <2> QED BY <2>1, <2>2, <2>3 DEF RecvOK
<1>15. End(d, a, r)
  BY <1>12, <1>13, <1>14, SendSideKept
<1>16. d.preposts >= c.preposts - 1
  BY <1>0, <1>1, <1>13 DEF RecvTypes
<1> QED BY <1>13, <1>15, <1>16 DEF Replenished, k

LEMMA ReplenishEnd ==
    ASSUME NEW a \in Nat, NEW r \in Nat, NEW c, End(c, a, r), c.preposts > 0,
           NEW pkt, NEW mpiInit \in BOOLEAN,
           ~c.initialized /\ ~mpiInit => IsCredited(pkt),
           NEW e, e = [c EXCEPT !.next_packet_expected =
                                   IF IsCredited(pkt) THEN @ + 1 ELSE @],
           NEW d, d = Replenish(e, pkt, mpiInit)
    PROVE  End(d, a, r) /\ Replenished(c, d, pkt, mpiInit)
<1>0. c \in Connection /\ RecvTypes(c)
  BY EndIsConnection, EndParts
<1>1. PICK f : f = [e EXCEPT !.preposts = @ - 1]
  OBVIOUS
<1>2. Consumed(c, f, Count(pkt))
  BY <1>0, <1>1, ConsumedFields
<1>3. f.initialized = c.initialized
  BY <1>2 DEF Consumed
<1>4. d = IF f.initialized THEN Repost(f, pkt)
          ELSE IF mpiInit \/ pkt.type = "start" THEN Initialize(f, pkt)
          ELSE NoopSpent(f, pkt)
  <2> DEFINE g == [e EXCEPT !.preposts = @ - 1]
  <2>1. d = IF g.initialized THEN Repost(g, pkt)
            ELSE IF mpiInit \/ pkt.type = "start" THEN Initialize(g, pkt)
            ELSE NoopSpent(g, pkt)
    BY DEF Replenish
  <2> QED BY <1>1, <2>1, Zenon
<1>5. CASE c.initialized
  <2>1. d = Repost(f, pkt)
    BY <1>3, <1>4, <1>5
  <2> QED BY <1>2, <1>5, <2>1, ReplenishInitialized
<1>6. CASE ~c.initialized /\ (mpiInit \/ pkt.type = "start")
  <2>1. d = Initialize(f, pkt)
    BY <1>3, <1>4, <1>6
  <2> QED BY <1>2, <1>6, <2>1, ReplenishInitializes
<1>7. CASE ~c.initialized /\ ~(mpiInit \/ pkt.type = "start")
  <2>1. IsCredited(pkt)
    BY <1>7
  <2>2. d = NoopSpent(f, pkt)
    BY <1>3, <1>4, <1>7
  <2>3. IsRecord(f)
    BY <1>2 DEF Consumed
  <2>4. d = f
    BY <2>1, <2>2, <2>3 DEF NoopSpent, IsCredited, IsRecord
  <2>5. Consumed(c, d, 1) /\ Count(pkt) = 1
    BY <1>2, <2>1, <2>4 DEF Count
  <2>6. End(d, a, r)
    BY <2>5, ConsumedEnd
  <2> QED BY <1>0, <1>7, <2>5, <2>6 DEF Consumed, Replenished, RecvTypes
<1> QED BY <1>5, <1>6, <1>7

LEMMA BacklogSendIdle ==
    ASSUME NEW c, c.backlog = << >>, c.remote_credit \in Nat
    PROVE  BacklogSend(c) = c
<1>1. AtMost(Len(c.backlog), c.remote_credit) = 0
  <2>1. Len(c.backlog) = 0
    OBVIOUS
  <2> QED BY <2>1 DEF AtMost
<1> QED BY <1>1, Zenon DEF BacklogSend

\* What taking the credits of a header changes.
Absorbed(c, d, v) ==
    /\ d.absorbed = c.absorbed + v
    /\ d.next_packet_expected = c.next_packet_expected
    /\ d.landed = c.landed /\ d.preposts >= c.preposts
    /\ c.initialized => d.initialized
    /\ d.initialized => c.initialized
    /\ c.backlog = << >> => d.out = c.out /\ d.backlog = << >>

\* Credits taken in and not spent yet.
TookIn(c, e, pkt) ==
    /\ SameRecv(c, e) /\ SameQueue(c, e)
    /\ e.remote_cc = pkt.remote_credit
    /\ e.local_credit = c.local_credit /\ e.granted = c.granted
    /\ e.remote_credit = c.remote_credit + pkt.vbuf_credit
    /\ e.absorbed = c.absorbed + pkt.vbuf_credit
    /\ e.next_packet_tosend = c.next_packet_tosend /\ e.backlog = c.backlog

LEMMA TookInUnspent ==
    ASSUME NEW a \in Nat, NEW r \in Nat, NEW c, End(c, a, r), NEW pkt \in Packet,
           NEW e, e = [c EXCEPT !.remote_cc = pkt.remote_credit,
                                !.remote_credit = @ + pkt.vbuf_credit,
                                !.absorbed = @ + pkt.vbuf_credit]
    PROVE  TookIn(c, e, pkt) /\ Unspent(e, a, r)
<1> DEFINE v == pkt.vbuf_credit
<1>0. /\ c \in Connection /\ IsRecord(c)
      /\ SendTypes(c) /\ RecvTypes(c) /\ CreditTypes(c) /\ QueueTypes(c)
      /\ v \in Nat /\ pkt.remote_credit \in Nat /\ Paid(c) \in Nat
  BY EndIsConnection, EndParts, PacketFields
<1>1. e = [c EXCEPT !.remote_cc = pkt.remote_credit,
                    !.remote_credit = @ + v, !.absorbed = @ + v]
  OBVIOUS
<1> HIDE DEF v
<1>3. IsRecord(e)
  BY <1>0, <1>1 DEF IsRecord
<1>4. SameRecv(c, e) /\ SameQueue(c, e)
  BY <1>0, <1>1 DEF IsRecord, SameRecv, SameQueue
<1>5. /\ e.remote_cc = pkt.remote_credit
      /\ e.local_credit = c.local_credit /\ e.granted = c.granted
      /\ e.remote_credit = c.remote_credit + v /\ e.absorbed = c.absorbed + v
      /\ e.next_packet_tosend = c.next_packet_tosend /\ e.backlog = c.backlog
  BY <1>0, <1>1 DEF IsRecord
<1>6. SendTypes(e) /\ Numbering(e) /\ SendLaw(e) /\ Paid(e) = Paid(c)
  <2>1. SendTypes(e)
    BY <1>0, <1>5 DEF SendTypes
  <2>2. Paid(e) = Paid(c)
    BY <1>5 DEF Paid
  <2>3. Numbering(e)
    BY <1>5, <2>2 DEF Numbering, End, SendOK
  <2>4. SendLaw(e)
    <3>1. c.remote_credit = InitialCredits + c.absorbed - Paid(c)
      BY DEF End, SendOK, SendLaw
    <3>2. /\ c.remote_credit \in Nat /\ c.absorbed \in Nat
          /\ InitialCredits \in Nat
      BY <1>0, InitialCreditsType DEF SendTypes
    <3>3. e.remote_credit = InitialCredits + e.absorbed - Paid(e)
      BY <1>0, <1>5, <2>2, <3>1, <3>2
    <3> QED BY <3>3 DEF SendLaw
  <2> QED BY <2>1, <2>2, <2>3, <2>4
<1>7. RecvOK(e)
  <2>1. RecvTypes(e) /\ CreditTypes(e) /\ e.next_packet_expected > 0
    BY <1>0, <1>4, <1>5 DEF RecvTypes, CreditTypes, SameRecv, End, RecvOK
  <2>2. RecvLaw(e)
    BY <1>4, <1>5 DEF RecvLaw, ReserveOf, SameRecv, End, RecvOK
  <2>3. Fresh(e)
    BY <1>4, <1>5 DEF Fresh, SameRecv, End, RecvOK
  <2> QED BY <2>1, <2>2, <2>3 DEF RecvOK
<1>8. QueueOK(e, a, r)
  BY <1>4, <1>5, <1>6 DEF End, QueueOK, SameQueue, QueueTypes, QueuesFit
<1> QED BY <1>3, <1>4, <1>5, <1>6, <1>7, <1>8 DEF Unspent, TookIn, v

LEMMA AbsorbCreditsEnd ==
    ASSUME NEW a \in Nat, NEW r \in Nat, NEW c, End(c, a, r), NEW pkt \in Packet,
           NEW d, d = AbsorbCredits(c, pkt)
    PROVE  End(d, a, r) /\ Absorbed(c, d, pkt.vbuf_credit)
<1> DEFINE v == pkt.vbuf_credit
<1>0. /\ c \in Connection /\ IsRecord(c)
      /\ SendTypes(c) /\ RecvTypes(c) /\ CreditTypes(c) /\ QueueTypes(c)
      /\ v \in Nat /\ pkt.remote_credit \in Nat /\ Paid(c) \in Nat
  BY EndIsConnection, EndParts, PacketFields
<1>1. PICK e : e = [c EXCEPT !.remote_cc = pkt.remote_credit,
                             !.remote_credit = @ + v,
                             !.absorbed = @ + v]
  OBVIOUS
<1>2. d = IF v > 0 THEN BacklogSend(e) ELSE e
  BY <1>1 DEF AbsorbCredits
<1>3. TookIn(c, e, pkt) /\ Unspent(e, a, r)
  BY <1>1, TookInUnspent
<1> HIDE DEF v
<1>4. SameRecv(c, e) /\ SameQueue(c, e)
  BY <1>3 DEF TookIn
<1>5. /\ e.remote_cc = pkt.remote_credit
      /\ e.local_credit = c.local_credit /\ e.granted = c.granted
      /\ e.remote_credit = c.remote_credit + v /\ e.absorbed = c.absorbed + v
      /\ e.next_packet_tosend = c.next_packet_tosend /\ e.backlog = c.backlog
  BY <1>3 DEF TookIn, v
<1>6. SendTypes(e)
  BY <1>3 DEF Unspent
<1>9. Unspent(e, a, r)
  BY <1>3
<1>10. CASE v > 0
  <2>1. d = BacklogSend(e)
    BY <1>2, <1>10
  <2>2. End(d, a, r) /\ Keeps(e, d)
    BY <1>9, <2>1, BacklogSendEnd
  <2>3. c.backlog = << >> => d = e
    <3>1. e.remote_credit \in Nat
      BY <1>6 DEF SendTypes
    <3> QED BY <1>5, <2>1, <3>1, BacklogSendIdle
  <2>4. RecvTypes(d)
    BY <2>2, EndParts
  <2> QED BY <1>4, <1>5, <2>2, <2>3 DEF Absorbed, Keeps, SameRecv, SameQueue, v
<1>11. CASE ~(v > 0)
  <2>1. d = e /\ v = 0
    BY <1>0, <1>2, <1>11
  <2>2. Starved(e)
    <3>1. e.remote_credit = c.remote_credit
      BY <1>0, <1>5, <2>1 DEF SendTypes
    <3> QED BY <1>5, <3>1 DEF Starved, End, SendOK
  <2>3. End(d, a, r)
    BY <1>9, <2>1, <2>2 DEF Unspent, End, SendOK
  <2> QED BY <1>0, <1>4, <1>5, <2>1, <2>3
      DEF Absorbed, SameRecv, SameQueue, RecvTypes, v
<1> QED BY <1>10, <1>11

\* Before it is initialized an end has no NOOP to send.
LEMMA FreshSendsNoNoop ==
    ASSUME NEW c, Fresh(c), ~c.initialized
    PROVE  SendNoopIfNeeded(c) = c
<1>1. c.local_credit = 0
  BY DEF Fresh
<1>2. ~NoopNeeded(c)
  BY <1>1, ParamAssumption DEF NoopNeeded
<1> QED BY <1>2 DEF SendNoopIfNeeded

LEMMA ReplenishR3End ==
    ASSUME NEW a \in Nat, NEW r \in Nat, NEW c, End(c, a, r), NEW pkt,
           NEW d, d = ReplenishR3(c, pkt)
    PROVE  End(d, a, r) /\ Keeps(c, d) /\ (~c.initialized => d = c)
<1>0. RecvTypes(c) /\ Fresh(c)
  BY DEF End, RecvOK
<1>1. CASE pkt.type = "r3data" /\ c.rendezvous_packets_expected > 0
  <2>1. c.initialized
    BY <1>0, <1>1 DEF Fresh, RecvTypes
  <2>2. d = PrepostForRendezvous(c, 0)
    BY <1>1 DEF ReplenishR3
  <2> QED BY <2>1, <2>2, PrepostForRendezvousEnd
<1>2. CASE ~(pkt.type = "r3data" /\ c.rendezvous_packets_expected > 0)
  <2>1. d = c
    BY <1>2 DEF ReplenishR3
  <2> QED BY <1>0, <2>1 DEF Keeps, RecvTypes
<1> QED BY <1>1, <1>2

-----------------------------------------------------------------------------
(* viadev_process_recv.                                                    *)

\* What receiving pkt changes for the other end and for the MPI layer.
Received(c, d, pkt, mpiInit) ==
    /\ d.absorbed = c.absorbed + pkt.vbuf_credit
    /\ d.next_packet_expected = c.next_packet_expected + Count(pkt)
    /\ d.landed = c.landed /\ d.preposts >= c.preposts - 1
    /\ c.initialized => d.initialized
    /\ mpiInit \/ pkt.type = "start" => d.initialized
    /\ ~d.initialized /\ c.backlog = << >> => d.out = c.out /\ d.backlog = << >>

LEMMA AcceptEnd ==
    ASSUME NEW a \in Nat, NEW r \in Nat, NEW c, End(c, a, r), c.preposts > 0,
           NEW pkt \in Packet, NEW mpiInit \in BOOLEAN,
           ~c.initialized /\ ~mpiInit => IsCredited(pkt),
           NEW d, d = Accept(c, pkt, mpiInit)
    PROVE  End(d, a, r) /\ Received(c, d, pkt, mpiInit)
<1>0. RecvTypes(c)
  BY EndParts
<1>1. PICK e : e = [c EXCEPT !.next_packet_expected =
                               IF IsCredited(pkt) THEN @ + 1 ELSE @]
  OBVIOUS
<1>2. PICK f : f = Replenish(e, pkt, mpiInit)
  OBVIOUS
<1>3. PICK g : g = ReplenishR3(f, pkt)
  OBVIOUS
<1>4. d = AbsorbCredits(g, pkt)
  BY <1>1, <1>2, <1>3 DEF Accept, HandleFlowControlSR
<1>5. End(f, a, r) /\ Replenished(c, f, pkt, mpiInit)
  BY <1>1, <1>2, ReplenishEnd
<1>6. End(g, a, r) /\ Keeps(f, g) /\ (~f.initialized => g = f)
  BY <1>3, <1>5, ReplenishR3End
<1>7. End(d, a, r) /\ Absorbed(g, d, pkt.vbuf_credit)
  BY <1>4, <1>6, AbsorbCreditsEnd
<1>8. /\ c.preposts \in Nat /\ f.preposts \in Nat /\ g.preposts \in Nat
      /\ d.preposts \in Nat
  BY <1>0, <1>5, <1>6, <1>7, EndParts DEF RecvTypes
<1>9. d.preposts >= c.preposts - 1
  <2>1. f.preposts >= c.preposts - 1 /\ g.preposts >= f.preposts
        /\ d.preposts >= g.preposts
    BY <1>5, <1>6, <1>7 DEF Replenished, Keeps, Absorbed
  <2> QED BY <1>8, <2>1
<1>10. /\ d.absorbed = c.absorbed + pkt.vbuf_credit
       /\ d.next_packet_expected = c.next_packet_expected + Count(pkt)
       /\ d.landed = c.landed
       /\ c.initialized => d.initialized
       /\ mpiInit \/ pkt.type = "start" => d.initialized
  BY <1>5, <1>6, <1>7 DEF Replenished, Keeps, Absorbed, SameSend, SameQueue
<1>11. ASSUME ~d.initialized, c.backlog = << >>
       PROVE  d.out = c.out /\ d.backlog = << >>
  <2>1. ~f.initialized
    BY <1>6, <1>7, <1>11 DEF Keeps, Absorbed
  <2>2. g = f
    BY <1>6, <2>1
  <2>3. f.backlog = << >> /\ f.out = c.out
    BY <1>5, <1>11 DEF Replenished, SameSend, SameQueue
  <2> QED BY <1>7, <2>2, <2>3 DEF Absorbed
<1> QED BY <1>7, <1>9, <1>10, <1>11 DEF Received

LEMMA DispatchEnd ==
    ASSUME NEW a \in Nat, NEW r \in Nat, NEW c, End(c, a, r), NEW pkt \in Packet,
           NEW found, pkt.type = "start" => c.initialized,
           NEW d, d = Dispatch(c, pkt, found)
    PROVE  End(d, a, r) /\ Keeps(c, d)
           /\ (~c.initialized => d.out = c.out /\ d.backlog = c.backlog)
<1>0. RecvTypes(c) /\ CreditTypes(c) /\ c \in Connection
  BY EndParts, EndIsConnection
<1>1. CASE pkt.type = "start" /\ found
  <2>1. d = RecvR3(c, pkt.vbufs)
    BY <1>1 DEF Dispatch
  <2>2. pkt.vbufs \in R3Sizes
    BY <1>1, PacketFields
  <2> QED BY <1>1, <2>1, <2>2, RecvR3End
<1>2. CASE pkt.type = "r3data"
  <2>1. d = [c EXCEPT !.rendezvous_packets_expected = @ - 1]
    BY <1>2 DEF Dispatch
  <2>2. IsRecord(d)
    BY <1>0, <2>1 DEF Connection, IsRecord
  <2>3. SameSend(c, d) /\ SameCredit(c, d) /\ SameQueue(c, d)
    BY <1>0, <2>1 DEF Connection, SameSend, SameCredit, SameQueue
  <2>4. /\ d.preposts = c.preposts /\ d.initialized = c.initialized
        /\ d.next_packet_expected = c.next_packet_expected
        /\ d.noop_spent = c.noop_spent
        /\ d.rendezvous_packets_expected = c.rendezvous_packets_expected - 1
    BY <1>0, <2>1 DEF Connection
  <2>5. RecvOK(d)
    <3>1. RecvTypes(d) /\ CreditTypes(d) /\ d.next_packet_expected > 0
      BY <1>0, <2>3, <2>4 DEF RecvTypes, CreditTypes, SameCredit, End, RecvOK
    <3>2. RecvLaw(d)
      BY <2>3, <2>4 DEF RecvLaw, ReserveOf, SameCredit, End, RecvOK
    <3>3. Fresh(d)
      BY <1>0, <2>3, <2>4 DEF Fresh, SameCredit, End, RecvOK, RecvTypes
    <3> QED BY <3>1, <3>2, <3>3 DEF RecvOK
  <2>6. End(d, a, r)
    BY <2>2, <2>3, <2>5, SendSideKept DEF SameCredit
  <2> QED BY <1>0, <2>3, <2>4, <2>6 DEF Keeps, SameSend, SameQueue, RecvTypes
<1>3. CASE ~(pkt.type = "start" /\ found) /\ pkt.type # "r3data"
  <2>1. d = c
    BY <1>3 DEF Dispatch
  <2> QED BY <1>0, <2>1 DEF Keeps, RecvTypes
<1> QED BY <1>1, <1>2, <1>3

LEMMA ReceivePacketEnd ==
    ASSUME NEW a \in Nat, NEW r \in Nat, NEW c, End(c, a, r), c.preposts > 0,
           NEW pkt \in Packet, NEW found, NEW mpiInit \in BOOLEAN,
           ~c.initialized /\ ~mpiInit => IsCredited(pkt),
           NEW d, d = ReceivePacket(c, pkt, found, mpiInit)
    PROVE  End(d, a, r) /\ Received(c, d, pkt, mpiInit)
<1>0. RecvTypes(c)
  BY EndParts
<1>1. PICK e : e = Accept(c, pkt, mpiInit)
  OBVIOUS
<1>2. PICK f : f = Dispatch(e, pkt, found)
  OBVIOUS
<1>3. d = SendNoopIfNeeded(f)
  BY <1>1, <1>2 DEF ReceivePacket
<1>4. End(e, a, r) /\ Received(c, e, pkt, mpiInit)
  BY <1>1, AcceptEnd
<1>5. /\ End(f, a, r) /\ Keeps(e, f)
      /\ ~e.initialized => f.out = e.out /\ f.backlog = e.backlog
  <2>1. pkt.type = "start" => e.initialized
    BY <1>4 DEF Received
  <2> QED BY <1>2, <1>4, <2>1, DispatchEnd
<1>6. End(d, a, r) /\ Keeps(f, d)
  BY <1>3, <1>5, SendNoopIfNeededEnd
<1>7. ~f.initialized => d = f
  BY <1>3, <1>5, FreshSendsNoNoop DEF End, RecvOK
<1>8. /\ c.preposts \in Nat /\ e.preposts \in Nat /\ f.preposts \in Nat
      /\ d.preposts \in Nat
  BY <1>0, <1>4, <1>5, <1>6, EndParts DEF RecvTypes
<1>9. d.preposts >= c.preposts - 1
  <2>1. e.preposts >= c.preposts - 1 /\ f.preposts >= e.preposts
        /\ d.preposts >= f.preposts
    BY <1>4, <1>5, <1>6 DEF Received, Keeps
  <2> QED BY <1>8, <2>1
<1>10. ASSUME ~d.initialized, c.backlog = << >>
       PROVE  d.out = c.out /\ d.backlog = << >>
  <2>1. ~f.initialized /\ ~e.initialized
    BY <1>5, <1>6, <1>10 DEF Keeps
  <2> QED BY <1>4, <1>5, <1>7, <1>10, <2>1 DEF Received
<1> QED BY <1>4, <1>5, <1>6, <1>9, <1>10 DEF Received, Keeps

-----------------------------------------------------------------------------
(* The inductive invariant.                                                *)

EndOK(p) ==
    End(conn[p], conn[Peer(p)].absorbed, conn[Peer(p)].next_packet_expected - 1)

\* A packet sits in a buffer that was posted.
Landed(p) == conn[p].landed <= conn[Peer(p)].preposts

AppOK(a, c) ==
    /\ a.pc = "eager" => /\ a.left > 0 /\ a.initialized
                         /\ c.remote_credit - a.left >= CreditPreserve
    /\ \A n \in R3Sizes : a.unexpected[n] > 0 => c.initialized

\* Who has neither left MPI_Init nor seen a reason to be initialized has sent
\* nothing, so the other side, which initializes on a packet, is not either.
Quiet(p) ==
    ~conn[p].initialized /\ ~app[p].initialized =>
        /\ conn[p].out = << >> /\ conn[p].backlog = << >>
        /\ app[p].shandles = << >> /\ ~conn[Peer(p)].initialized

IInv ==
    /\ TypeOK
    /\ \A p \in Proc : /\ EndOK(p) /\ Landed(p) /\ Muted(conn[p])
                       /\ AppOK(app[p], conn[p]) /\ Quiet(p)

LEMMA PeerFacts ==
    ASSUME NEW p \in Proc
    PROVE  /\ Peer(p) \in Proc /\ Peer(p) # p /\ Peer(Peer(p)) = p
           /\ \A x \in Proc : x = p \/ x = Peer(p)
BY DEF Proc, Peer

\* A step of p on its own end, whatever it does to p's MPI layer.
LEMMA OwnStep ==
    ASSUME IInv, NEW p \in Proc, NEW d, NEW e \in App,
           End(d, conn[Peer(p)].absorbed, conn[Peer(p)].next_packet_expected - 1),
           Keeps(conn[p], d), Muted(d), AppOK(e, d),
           app[p].initialized => e.initialized,
           ~conn[p].initialized /\ ~app[p].initialized =>
              /\ d.out = conn[p].out /\ d.backlog = conn[p].backlog
              /\ e.shandles = app[p].shandles,
           SetConn(p, d), SetApp(p, e)
    PROVE  IInv'
<1> DEFINE q == Peer(p)
<1>1. q \in Proc /\ q # p /\ Peer(q) = p /\ \A x \in Proc : x = p \/ x = q
  BY PeerFacts
<1>2. d \in Connection
  BY EndIsConnection
<1>3. /\ conn \in [Proc -> Connection] /\ app \in [Proc -> App]
  BY DEF IInv, TypeOK
<1>4. /\ conn' \in [Proc -> Connection] /\ conn'[p] = d /\ conn'[q] = conn[q]
      /\ app' \in [Proc -> App] /\ app'[p] = e /\ app'[q] = app[q]
  BY <1>1, <1>2, <1>3 DEF SetConn, SetApp
<1> HIDE DEF q
<1>5. /\ d.absorbed = conn[p].absorbed
      /\ d.next_packet_expected = conn[p].next_packet_expected
      /\ d.landed = conn[p].landed /\ d.preposts >= conn[p].preposts
      /\ conn[p].initialized => d.initialized
      /\ d.initialized => conn[p].initialized
  BY DEF Keeps
<1>6. EndOK(p)' /\ EndOK(q)'
  BY <1>1, <1>4, <1>5 DEF EndOK, IInv, q
<1>7. Landed(p)' /\ Landed(q)'
  <2>1. conn[p].landed <= conn[q].preposts /\ conn[q].landed <= conn[p].preposts
    BY <1>1 DEF Landed, IInv, q
  <2>2. /\ conn[q].landed \in Nat /\ conn[p].preposts \in Nat
        /\ d.preposts \in Nat
    BY <1>1, <1>2, <1>3, ConnectionParts DEF QueueTypes, RecvTypes
  <2>3. conn[q].landed <= d.preposts
    BY <1>5, <2>1, <2>2
  <2> QED BY <1>1, <1>4, <1>5, <2>1, <2>3 DEF Landed, q
<1>8. Muted(conn[p])' /\ Muted(conn[q])'
  BY <1>1, <1>4 DEF IInv
<1>9. AppOK(app[p], conn[p])' /\ AppOK(app[q], conn[q])'
  BY <1>1, <1>4 DEF IInv
<1>10. Quiet(p)' /\ Quiet(q)'
  <2>1. Quiet(p) /\ Quiet(q)
    BY <1>1 DEF IInv
  <2>2. Quiet(p)'
    BY <1>1, <1>4, <1>5, <2>1 DEF Quiet, q
  <2>3. Quiet(q)'
    BY <1>1, <1>4, <1>5, <2>1 DEF Quiet
  <2> QED BY <2>2, <2>3
<1> QED BY <1>1, <1>4, <1>6, <1>7, <1>8, <1>9, <1>10 DEF IInv, TypeOK

\* The same when the connection does not change.
LEMMA AppStep ==
    ASSUME IInv, NEW p \in Proc, NEW e \in App, AppOK(e, conn[p]),
           app[p].initialized => e.initialized, e.shandles = app[p].shandles,
           UNCHANGED conn, SetApp(p, e)
    PROVE  IInv'
<1>1. EndOK(p) /\ Muted(conn[p]) /\ conn \in [Proc -> Connection]
  BY DEF IInv, TypeOK
<1>2. Keeps(conn[p], conn[p])
  BY <1>1, ConnectionParts DEF Keeps, RecvTypes
<1>3. SetConn(p, conn[p])
  BY <1>1 DEF SetConn
<1> QED BY <1>1, <1>2, <1>3, OwnStep DEF EndOK

LEMMA AbsorbedTypes ==
    ASSUME IInv, NEW p \in Proc
    PROVE  /\ conn[Peer(p)].absorbed \in Nat
           /\ conn[Peer(p)].next_packet_expected - 1 \in Nat
           /\ EndOK(p) /\ Landed(p) /\ Muted(conn[p]) /\ Quiet(p)
           /\ AppOK(app[p], conn[p])
           /\ conn[p] \in Connection /\ app[p] \in App
<1>1. Peer(p) \in Proc
  BY PeerFacts
<1>2. SendTypes(conn[Peer(p)]) /\ RecvOK(conn[Peer(p)])
  BY <1>1 DEF IInv, EndOK, End, SendOK
<1>3. /\ conn[Peer(p)].absorbed \in Nat
      /\ conn[Peer(p)].next_packet_expected \in Nat
      /\ conn[Peer(p)].next_packet_expected > 0
  BY <1>2 DEF SendTypes, RecvOK, RecvTypes
<1>4. conn[Peer(p)].next_packet_expected - 1 \in Nat
  BY <1>3
<1> QED BY <1>3, <1>4 DEF IInv, TypeOK

LEMMA InitialInvariant == Init => IInv
<1> SUFFICES ASSUME Init PROVE IInv
  OBVIOUS
<1> DEFINE c == InitialConnection
           a == InitialApp
<1>1. \A p \in Proc : conn[p] = c /\ app[p] = a
  BY DEF Init
<1>2. c.backlog = << >> /\ c.out = << >> /\ c.landed = 0 /\ c.ext_sendq_size = 0
      /\ c.remote_credit = InitialCredits /\ c.local_credit = 0
      /\ c.preposts = InitialPrepost /\ c.remote_cc = InitialCredits
      /\ c.send_wqes_avail = SqSize
      /\ c.initialized = (InitialPrepost = Depth + NoopExtra)
      /\ c.next_packet_tosend = 1 /\ c.next_packet_expected = 1
      /\ c.rendezvous_packets_expected = 0
      /\ c.granted = 0 /\ c.absorbed = 0 /\ c.noop_spent = 0
      /\ IsRecord(c)
  BY DEF InitialConnection, IsRecord
<1>3. /\ a \in App
      /\ a.pc = "idle" /\ a.shandles = << >> /\ a.initialized = FALSE
      /\ \A n \in R3Sizes : a.unexpected[n] = 0
  BY DEF InitialApp, App
<1> HIDE DEF c, a
<1>4. Len(c.backlog) = 0 /\ Len(c.out) = 0
  BY <1>2
<1>5. InitialCredits \in Nat /\ InitialPrepost \in Nat /\ SqSize \in Nat
  BY InitialCreditsType, ParamAssumption, LoadAssumption
<1>6. Paid(c) = 0
  <2>1. Paid(c) = 1 - 1 - 0
    BY <1>2, <1>4 DEF Paid
  <2> QED BY <2>1
<1>7. SendOK(c)
  <2>1. SendTypes(c)
    BY <1>2, <1>5 DEF SendTypes
  <2>2. Starved(c) /\ Numbering(c)
    BY <1>2, <1>4 DEF Starved, Numbering
  <2>3. SendLaw(c)
    BY <1>2, <1>5, <1>6 DEF SendLaw
  <2> QED BY <2>1, <2>2, <2>3 DEF SendOK
<1>8. RecvOK(c)
  <2>1. RecvTypes(c) /\ CreditTypes(c) /\ c.next_packet_expected > 0
    BY <1>2, <1>5 DEF RecvTypes, CreditTypes
  <2>2. RecvLaw(c)
    <3>1. ReserveOf(c) = InitialPrepost - InitialCredits
      <4>1. CASE InitialPrepost = Depth + NoopExtra
        <5>1. InitialCredits = Depth
          BY <4>1, ParamAssumption DEF InitialCredits
        <5> QED BY <1>2, <4>1, <5>1, ParamAssumption DEF ReserveOf
      <4>2. CASE InitialPrepost # Depth + NoopExtra
        BY <1>2, <4>2 DEF ReserveOf
      <4> QED BY <4>1, <4>2
    <3> QED BY <1>2, <1>5, <3>1 DEF RecvLaw
  <2>3. Fresh(c)
    BY <1>2 DEF Fresh
  <2> QED BY <2>1, <2>2, <2>3 DEF RecvOK
<1>9. QueueOK(c, 0, 0)
  BY <1>2, <1>4, <1>5, <1>6 DEF QueueOK, QueueTypes, QueuesFit, Stamped
<1>10. End(c, 0, 0)
  BY <1>2, <1>7, <1>8, <1>9 DEF End
<1>11. \A p \in Proc : EndOK(p)
  <2> TAKE p \in Proc
  <2>1. conn[p] = c /\ conn[Peer(p)] = c
    BY <1>1, PeerFacts
  <2> QED BY <1>2, <1>10, <2>1 DEF EndOK
<1>12. c \in Connection
  BY <1>10, EndIsConnection
<1>13. TypeOK
  BY <1>3, <1>12 DEF TypeOK, Init, c, a
<1>14. ASSUME NEW p \in Proc
       PROVE  /\ Landed(p) /\ Muted(conn[p]) /\ AppOK(app[p], conn[p]) /\ Quiet(p)
  <2>1. conn[p] = c /\ conn[Peer(p)] = c /\ app[p] = a
    BY <1>1, PeerFacts
  <2>2. Landed(p)
    BY <1>2, <1>5, <2>1 DEF Landed
  <2>3. Muted(c)
    BY <1>2, <1>4 DEF Muted, NoReply
  <2>4. AppOK(a, c)
    BY <1>3 DEF AppOK
  <2>5. Quiet(p)
    BY <1>2, <1>3, <2>1 DEF Quiet
  <2> QED BY <2>1, <2>2, <2>3, <2>4, <2>5
<1> QED BY <1>11, <1>13, <1>14 DEF IInv

-----------------------------------------------------------------------------
(* Every action keeps it.                                                  *)

\* An MPI layer record with some of its fields changed.
LEMMA AppFields ==
    ASSUME NEW a
    PROVE  a \in App <=>
             /\ a = [initialized |-> a.initialized, sends |-> a.sends,
                     unexpected |-> a.unexpected, shandles |-> a.shandles,
                     inflow |-> a.inflow, pc |-> a.pc, left |-> a.left]
             /\ a.initialized \in BOOLEAN /\ a.sends \in Nat
             /\ a.unexpected \in [R3Sizes -> Nat]
             /\ a.shandles \in Seq(Nat \ {0}) /\ a.inflow \in BOOLEAN
             /\ a.pc \in {"idle", "eager", "push"} /\ a.left \in Nat
BY DEF App

\* One more MPI send is under way.
LEMMA CountSend ==
    ASSUME NEW a \in App, NEW b, b = [a EXCEPT !.sends = @ + 1]
    PROVE  /\ b \in App /\ b.initialized = a.initialized /\ b.pc = a.pc
           /\ b.unexpected = a.unexpected /\ b.shandles = a.shandles
<1>1. /\ b = [initialized |-> b.initialized, sends |-> b.sends,
              unexpected |-> b.unexpected, shandles |-> b.shandles,
              inflow |-> b.inflow, pc |-> b.pc, left |-> b.left]
      /\ b.initialized = a.initialized /\ b.sends = a.sends + 1
      /\ b.unexpected = a.unexpected /\ b.shandles = a.shandles
      /\ b.inflow = a.inflow /\ b.pc = a.pc /\ b.left = a.left
  BY DEF App
<1>2. /\ a.initialized \in BOOLEAN /\ a.sends \in Nat
      /\ a.unexpected \in [R3Sizes -> Nat]
      /\ a.shandles \in Seq(Nat \ {0}) /\ a.inflow \in BOOLEAN
      /\ a.pc \in {"idle", "eager", "push"} /\ a.left \in Nat
  BY AppFields
<1>3. b.sends \in Nat
  BY <1>1, <1>2
<1> QED BY <1>1, <1>2, <1>3, AppFields

LEMMA ConcatType ==
    ASSUME NEW S, NEW s \in Seq(S), NEW t \in Seq(S)
    PROVE  s \o t \in Seq(S)
OBVIOUS

LEMMA FinishInitStep ==
    ASSUME IInv, NEW p \in Proc, FinishInit(p)
    PROVE  IInv'
<1>1. PICK e : e = [app[p] EXCEPT !.initialized = TRUE]
  OBVIOUS
<1>2. app[p] \in App /\ AppOK(app[p], conn[p])
  BY AbsorbedTypes
<1>3. /\ e \in App /\ e.initialized /\ e.shandles = app[p].shandles
      /\ e.pc = app[p].pc /\ e.left = app[p].left
      /\ e.unexpected = app[p].unexpected
  BY <1>1, <1>2 DEF App
<1>4. AppOK(e, conn[p])
  BY <1>2, <1>3 DEF AppOK
<1> QED BY <1>1, <1>3, <1>4, AppStep DEF FinishInit

LEMMA PopFlowlistStep ==
    ASSUME IInv, NEW p \in Proc, PopFlowlist(p)
    PROVE  IInv'
<1>1. PICK e : e = [app[p] EXCEPT !.pc = "idle", !.inflow = FALSE]
  OBVIOUS
<1>2. app[p] \in App /\ AppOK(app[p], conn[p])
  BY AbsorbedTypes
<1>3. /\ e \in App /\ e.initialized = app[p].initialized
      /\ e.shandles = app[p].shandles /\ e.pc = "idle"
      /\ e.unexpected = app[p].unexpected
  BY <1>1, <1>2 DEF App
<1>4. AppOK(e, conn[p])
  BY <1>2, <1>3 DEF AppOK
<1> QED BY <1>1, <1>3, <1>4, AppStep DEF PopFlowlist

\* One packet of the eager loop, the first or a later one.
LEMMA EagerPostStep ==
    ASSUME IInv, NEW p \in Proc, NEW a \in App, NEW left \in Nat, left > 0,
           app[p].initialized, a.initialized,
           a.unexpected = app[p].unexpected,
           conn[p].remote_credit - left >= CreditPreserve,
           EagerPost(p, a, left)
    PROVE  /\ IInv'
           /\ app'[p].left = left - 1
           /\ conn'[p].remote_credit - app'[p].left >= CreditPreserve
<1> DEFINE q == Peer(p)
           r == conn[q].next_packet_expected - 1
<1>0. /\ conn[q].absorbed \in Nat /\ r \in Nat
      /\ EndOK(p) /\ Muted(conn[p]) /\ AppOK(app[p], conn[p])
      /\ conn[p] \in Connection /\ app[p] \in App
  BY AbsorbedTypes
<1>1. PICK d : d = PostSend(conn[p], "eager", left = 1, 0)
  OBVIOUS
<1>2. PICK e : e = [a EXCEPT !.left = left - 1,
                             !.pc = IF left = 1 THEN "idle" ELSE "eager"]
  OBVIOUS
<1>3. SetConn(p, d) /\ SetApp(p, e)
  BY <1>1, <1>2 DEF EagerPost
<1>4. ValidPost("eager", left = 1, 0)
  BY DEF ValidPost, PacketType
<1>5. /\ End(d, conn[q].absorbed, r) /\ Keeps(conn[p], d) /\ Muted(d)
      /\ conn[p].remote_credit # 0 => d.remote_credit = conn[p].remote_credit - 1
  <2>1. Posted(conn[p], d, "eager", conn[q].absorbed, r)
    BY <1>0, <1>1, <1>4, PostSendEnd DEF EndOK
  <2> QED BY <1>0, <2>1 DEF Posted
<1>6. conn[p].remote_credit \in Nat /\ conn[p].remote_credit > 0
  <2>1. conn[p].remote_credit \in Nat
    BY <1>0, ConnectionParts DEF SendTypes
  <2> QED BY <2>1, ParamAssumption
<1>7. d.remote_credit - (left - 1) >= CreditPreserve
  BY <1>5, <1>6, ParamAssumption
<1>8. /\ e \in App /\ e.left = left - 1 /\ e.initialized = a.initialized
      /\ e.unexpected = a.unexpected
      /\ e.pc = IF left = 1 THEN "idle" ELSE "eager"
  <2>1. /\ e = [initialized |-> e.initialized, sends |-> e.sends,
                unexpected |-> e.unexpected, shandles |-> e.shandles,
                inflow |-> e.inflow, pc |-> e.pc, left |-> e.left]
        /\ e.left = left - 1 /\ e.initialized = a.initialized
        /\ e.unexpected = a.unexpected /\ e.sends = a.sends
        /\ e.shandles = a.shandles /\ e.inflow = a.inflow
        /\ e.pc = IF left = 1 THEN "idle" ELSE "eager"
    BY <1>2 DEF App
  <2>2. e.left \in Nat /\ e.pc \in {"idle", "eager", "push"}
    BY <2>1
  <2>3. /\ a.initialized \in BOOLEAN /\ a.sends \in Nat
        /\ a.unexpected \in [R3Sizes -> Nat]
        /\ a.shandles \in Seq(Nat \ {0}) /\ a.inflow \in BOOLEAN
    BY AppFields
  <2> QED BY <2>1, <2>2, <2>3, AppFields
<1>9. AppOK(e, d)
  <2>1. e.pc = "eager" => e.left > 0
    BY <1>8
  <2>2. \A n \in R3Sizes : e.unexpected[n] > 0 => d.initialized
    BY <1>0, <1>5, <1>8 DEF AppOK, Keeps
  <2> QED BY <1>7, <1>8, <2>1, <2>2 DEF AppOK
<1>10. IInv'
  BY <1>3, <1>5, <1>8, <1>9, OwnStep
<1>11. conn'[p] = d /\ app'[p] = e
  BY <1>3 DEF SetConn, SetApp, IInv, TypeOK
<1> QED BY <1>7, <1>8, <1>10, <1>11

LEMMA EagerSendStep ==
    ASSUME IInv, NEW p \in Proc, EagerSend(p)
    PROVE  IInv'
<1>1. PICK n \in EagerSizes :
         /\ EagerOk(conn[p], n)
         /\ EagerPost(p, [app[p] EXCEPT !.sends = @ + 1], n)
  BY DEF EagerSend
<1>2. n \in Nat /\ n > 0
  BY LoadAssumption
<1>3. PICK a : a = [app[p] EXCEPT !.sends = @ + 1]
  OBVIOUS
<1>4. app[p] \in App /\ app[p].initialized
  BY AbsorbedTypes DEF EagerSend, InApp
<1>5. a \in App /\ a.initialized /\ a.unexpected = app[p].unexpected
  BY <1>3, <1>4, CountSend
<1>6. conn[p].remote_credit - n >= CreditPreserve
  BY <1>1 DEF EagerOk
<1> QED BY <1>1, <1>2, <1>3, <1>4, <1>5, <1>6, EagerPostStep

LEMMA EagerContinueStep ==
    ASSUME IInv, NEW p \in Proc, EagerContinue(p)
    PROVE  /\ IInv'
           /\ conn'[p].remote_credit - app'[p].left >= CreditPreserve
<1>1. app[p] \in App /\ AppOK(app[p], conn[p])
  BY AbsorbedTypes
<1>2. /\ app[p].left \in Nat /\ app[p].left > 0 /\ app[p].initialized
      /\ conn[p].remote_credit - app[p].left >= CreditPreserve
      /\ EagerPost(p, app[p], app[p].left)
  BY <1>1, AppFields DEF AppOK, EagerContinue
<1> QED BY <1>1, <1>2, EagerPostStep

LEMMA RendezvousStartStep ==
    ASSUME IInv, NEW p \in Proc, RendezvousStart(p)
    PROVE  IInv'
<1>0. /\ conn[Peer(p)].absorbed \in Nat
      /\ conn[Peer(p)].next_packet_expected - 1 \in Nat
      /\ EndOK(p) /\ Muted(conn[p]) /\ AppOK(app[p], conn[p])
      /\ app[p] \in App
  BY AbsorbedTypes
<1>1. PICK n \in R3Sizes : SetConn(p, PostSend(conn[p], "start", FALSE, n))
  BY DEF RendezvousStart
<1>2. PICK d : d = PostSend(conn[p], "start", FALSE, n)
  OBVIOUS
<1>3. PICK e : e = [app[p] EXCEPT !.sends = @ + 1]
  OBVIOUS
<1>4. SetConn(p, d) /\ SetApp(p, e) /\ Idle(p) /\ app[p].initialized
  BY <1>1, <1>2, <1>3 DEF RendezvousStart, InApp
<1>5. /\ e \in App /\ e.initialized /\ e.unexpected = app[p].unexpected
      /\ e.pc = "idle"
  BY <1>0, <1>3, <1>4, CountSend DEF Idle
<1>6. ValidPost("start", FALSE, n)
  BY LoadAssumption DEF ValidPost, PacketType
<1>7. /\ End(d, conn[Peer(p)].absorbed, conn[Peer(p)].next_packet_expected - 1)
      /\ Keeps(conn[p], d) /\ Muted(d)
  <2>1. Posted(conn[p], d, "start", conn[Peer(p)].absorbed,
               conn[Peer(p)].next_packet_expected - 1)
    BY <1>0, <1>2, <1>6, PostSendEnd DEF EndOK
  <2> QED BY <1>0, <2>1 DEF Posted
<1>8. AppOK(e, d)
  BY <1>0, <1>5, <1>7 DEF AppOK, Keeps
<1> QED BY <1>4, <1>5, <1>7, <1>8, OwnStep

LEMMA MatchUnexpectedStep ==
    ASSUME IInv, NEW p \in Proc, MatchUnexpected(p)
    PROVE  IInv'
<1>0. /\ conn[Peer(p)].absorbed \in Nat
      /\ conn[Peer(p)].next_packet_expected - 1 \in Nat
      /\ EndOK(p) /\ Muted(conn[p]) /\ AppOK(app[p], conn[p])
      /\ app[p] \in App
  BY AbsorbedTypes
<1>1. PICK n \in R3Sizes :
         /\ app[p].unexpected[n] > 0
         /\ SetApp(p, [app[p] EXCEPT !.unexpected[n] = @ - 1])
         /\ SetConn(p, RecvR3(conn[p], n))
  BY DEF MatchUnexpected
<1>2. PICK d : d = RecvR3(conn[p], n)
  OBVIOUS
<1>3. PICK e : e = [app[p] EXCEPT !.unexpected[n] = @ - 1]
  OBVIOUS
<1>4. /\ SetConn(p, d) /\ SetApp(p, e) /\ app[p].pc = "idle"
      /\ app[p].initialized /\ conn[p].initialized
  BY <1>0, <1>1, <1>2, <1>3 DEF MatchUnexpected, InApp, Idle, AppOK
<1>5. e \in App /\ e.initialized /\ e.pc = "idle"
  <2>1. app[p].unexpected[n] \in Nat
    BY <1>0 DEF App
  <2>2. app[p].unexpected[n] - 1 \in Nat
    BY <1>1, <2>1
  <2> QED BY <1>0, <1>3, <1>4, <2>2 DEF App
<1>6. /\ End(d, conn[Peer(p)].absorbed, conn[Peer(p)].next_packet_expected - 1)
      /\ Keeps(conn[p], d)
  BY <1>0, <1>2, <1>4, RecvR3End DEF EndOK
<1>7. Muted(d) /\ AppOK(e, d)
  BY <1>4, <1>5, <1>6 DEF Muted, AppOK, Keeps
<1> QED BY <1>4, <1>5, <1>6, <1>7, OwnStep

LEMMA RendezvousPushStep ==
    ASSUME IInv, NEW p \in Proc, RendezvousPush(p)
    PROVE  IInv' /\ app'[p].pc # "eager"
<1>0. /\ conn[Peer(p)].absorbed \in Nat
      /\ conn[Peer(p)].next_packet_expected - 1 \in Nat
      /\ EndOK(p) /\ Muted(conn[p]) /\ AppOK(app[p], conn[p])
      /\ app[p] \in App /\ Quiet(p)
  BY AbsorbedTypes
<1> DEFINE n == Head(app[p].shandles)
           rest == IF n = 1 THEN Tail(app[p].shandles)
                   ELSE << n - 1 >> \o Tail(app[p].shandles)
<1>1. PICK d : d = PostSend(conn[p], "r3data", n = 1, 0)
  OBVIOUS
<1>2. PICK e : e = [app[p] EXCEPT !.pc = "push", !.shandles = rest]
  OBVIOUS
<1>3. SetConn(p, d) /\ SetApp(p, e) /\ app[p].shandles # << >>
  BY <1>1, <1>2 DEF RendezvousPush, CanPush
<1>4. rest \in Seq(Nat \ {0})
  <2>1. app[p].shandles \in Seq(Nat \ {0})
    BY <1>0 DEF App
  <2>2. n \in Nat \ {0} /\ Tail(app[p].shandles) \in Seq(Nat \ {0})
    BY <1>3, <2>1
  <2>3. n # 1 => n - 1 \in Nat \ {0}
    BY <2>2
  <2>4. n # 1 => << n - 1 >> \in Seq(Nat \ {0})
    BY <2>3
  <2> HIDE DEF n
  <2>5. n # 1 => << n - 1 >> \o Tail(app[p].shandles) \in Seq(Nat \ {0})
    BY <2>2, <2>4, ConcatType
  <2>6. CASE n = 1 BY <2>2, <2>6
  <2>7. CASE n # 1 BY <2>5, <2>7
  <2> QED BY <2>6, <2>7
<1> HIDE DEF rest
<1>5. /\ e \in App /\ e.pc = "push" /\ e.initialized = app[p].initialized
      /\ e.unexpected = app[p].unexpected
  BY <1>0, <1>2, <1>4 DEF App
<1>6. ValidPost("r3data", n = 1, 0)
  BY DEF ValidPost, PacketType
<1>7. /\ End(d, conn[Peer(p)].absorbed, conn[Peer(p)].next_packet_expected - 1)
      /\ Keeps(conn[p], d) /\ Muted(d)
  <2>1. Posted(conn[p], d, "r3data", conn[Peer(p)].absorbed,
               conn[Peer(p)].next_packet_expected - 1)
    BY <1>0, <1>1, <1>6, PostSendEnd DEF EndOK
  <2> QED BY <1>0, <2>1 DEF Posted
<1>8. AppOK(e, d)
  BY <1>0, <1>5, <1>7 DEF AppOK, Keeps
<1>9. conn[p].initialized \/ app[p].initialized
  BY <1>0, <1>3 DEF Quiet
<1>10. IInv'
  BY <1>3, <1>5, <1>7, <1>8, <1>9, OwnStep
<1> QED BY <1>3, <1>5, <1>10 DEF SetApp, IInv, TypeOK

LEMMA ProcessSendStep ==
    ASSUME IInv, NEW p \in Proc, ProcessSend(p)
    PROVE  IInv'
<1> DEFINE c == conn[p]
           a == conn[Peer(p)].absorbed
           r == conn[Peer(p)].next_packet_expected - 1
<1>0. /\ a \in Nat /\ r \in Nat /\ End(c, a, r) /\ Muted(c)
      /\ AppOK(app[p], c) /\ app[p] \in App /\ c \in Connection
  BY AbsorbedTypes DEF EndOK
<1>1. PICK e : e = [c EXCEPT !.send_wqes_avail = @ + 1]
  OBVIOUS
<1>2. PICK d : d = ExtSendqSend(e)
  OBVIOUS
<1>3. SetConn(p, d) /\ UNCHANGED app
  BY <1>1, <1>2 DEF ProcessSend
<1> HIDE DEF c, a, r
<1>4. /\ SendTypes(c) /\ RecvTypes(c) /\ CreditTypes(c) /\ QueueTypes(c)
      /\ QueuesFit(c) /\ IsRecord(c) /\ SendOK(c) /\ RecvOK(c)
      /\ Stamped(c.out, a, r, c.granted, Paid(c))
  BY <1>0, EndParts DEF End
<1>5. /\ IsRecord(e) /\ SameSend(c, e) /\ SameRecv(c, e) /\ SameCredit(c, e)
      /\ e.out = c.out /\ e.landed = c.landed
      /\ e.ext_sendq_size = c.ext_sendq_size
      /\ e.send_wqes_avail = c.send_wqes_avail + 1
  <2>1. IsRecord(e)
    BY <1>1, <1>4 DEF IsRecord
  <2>2. SameSend(c, e) /\ SameRecv(c, e) /\ SameCredit(c, e)
    BY <1>1, <1>4 DEF IsRecord, SameSend, SameRecv, SameCredit
  <2>3. /\ e.out = c.out /\ e.landed = c.landed
        /\ e.ext_sendq_size = c.ext_sendq_size
        /\ e.send_wqes_avail = c.send_wqes_avail + 1
    BY <1>1, <1>4 DEF IsRecord
  <2> QED BY <2>1, <2>2, <2>3
<1>6. e \in Connection /\ e.ext_sendq_size + e.landed <= Len(e.out)
  <2>1. SendTypes(e) /\ RecvTypes(e) /\ CreditTypes(e)
    BY <1>4, <1>5 DEF SendTypes, RecvTypes, CreditTypes,
       SameSend, SameRecv, SameCredit
  <2>2. QueueTypes(e)
    BY <1>4, <1>5 DEF QueueTypes
  <2>3. e.ext_sendq_size + e.landed <= Len(e.out)
    BY <1>4, <1>5 DEF QueuesFit
  <2> QED BY <1>5, <2>1, <2>2, <2>3, ConnectionParts
<1>7. /\ IsRecord(d) /\ SameSend(e, d) /\ SameRecv(e, d) /\ SameCredit(e, d)
      /\ d.out = e.out /\ d.landed = e.landed
      /\ QueueTypes(d) /\ QueuesFit(d)
  BY <1>2, <1>6, ExtSendqSendFields
<1>8. /\ SameSend(c, d) /\ SameRecv(c, d) /\ SameCredit(c, d)
      /\ d.out = c.out /\ d.landed = c.landed
  BY <1>5, <1>7 DEF SameSend, SameRecv, SameCredit
<1>9. End(d, a, r)
  <2>1. SendOK(d) /\ Paid(d) = Paid(c)
    BY <1>4, <1>8 DEF SendOK, SameSend, SendTypes, Starved, Numbering, SendLaw, Paid
  <2>2. RecvOK(d)
    BY <1>4, <1>8, RecvSideKept
  <2>3. QueueOK(d, a, r)
    BY <1>4, <1>7, <1>8, <2>1 DEF QueueOK, SameCredit
  <2> QED BY <1>7, <2>1, <2>2, <2>3 DEF End
<1>10. Keeps(c, d) /\ d.backlog = c.backlog
  BY <1>4, <1>8 DEF Keeps, SameSend, SameRecv, RecvTypes
<1>11. Muted(d) /\ AppOK(app[p], d)
  BY <1>0, <1>8 DEF Muted, AppOK, SameSend, SameRecv
<1>12. SetApp(p, app[p])
  BY <1>3 DEF SetApp, IInv, TypeOK
<1> QED BY <1>0, <1>3, <1>8, <1>9, <1>10, <1>11, <1>12, OwnStep DEF c, a, r

LEMMA LandStep ==
    ASSUME IInv, NEW p \in Proc, Land(p)
    PROVE  IInv'
<1> DEFINE q == Peer(p)
           c == conn[p]
           a == conn[q].absorbed
           r == conn[q].next_packet_expected - 1
<1>0. /\ a \in Nat /\ r \in Nat /\ End(c, a, r) /\ Muted(c) /\ Quiet(p)
      /\ AppOK(app[p], c) /\ app[p] \in App /\ c \in Connection
  BY AbsorbedTypes DEF EndOK
<1>1. q \in Proc /\ q # p /\ Peer(q) = p /\ \A x \in Proc : x = p \/ x = q
  BY PeerFacts
<1>2. /\ EndOK(q) /\ Landed(q) /\ Muted(conn[q]) /\ Quiet(q)
      /\ AppOK(app[q], conn[q]) /\ conn[q] \in Connection
  BY <1>1, AbsorbedTypes
<1>3. PICK d : d = [c EXCEPT !.landed = @ + 1]
  OBVIOUS
<1>4. /\ OnWire(c) > 0 /\ c.landed < conn[q].preposts
      /\ SetConn(p, d) /\ UNCHANGED app
  BY <1>3 DEF Land
<1>5. /\ conn' = [conn EXCEPT ![p] = d] /\ conn \in [Proc -> Connection]
  BY <1>4 DEF SetConn, IInv, TypeOK
<1> HIDE DEF c, a, r, q
<1>6. /\ SendTypes(c) /\ RecvTypes(c) /\ CreditTypes(c) /\ QueueTypes(c)
      /\ QueuesFit(c) /\ IsRecord(c) /\ SendOK(c) /\ RecvOK(c)
      /\ Stamped(c.out, a, r, c.granted, Paid(c))
  BY <1>0, EndParts DEF End
<1>7. /\ IsRecord(d) /\ SameSend(c, d) /\ SameRecv(c, d) /\ SameCredit(c, d)
      /\ d.out = c.out /\ d.landed = c.landed + 1
      /\ d.ext_sendq_size = c.ext_sendq_size
      /\ d.send_wqes_avail = c.send_wqes_avail
  <2>1. IsRecord(d)
    BY <1>3, <1>6 DEF IsRecord
  <2>2. SameSend(c, d) /\ SameRecv(c, d) /\ SameCredit(c, d)
    BY <1>3, <1>6 DEF IsRecord, SameSend, SameRecv, SameCredit
  <2>3. /\ d.out = c.out /\ d.landed = c.landed + 1
        /\ d.ext_sendq_size = c.ext_sendq_size
        /\ d.send_wqes_avail = c.send_wqes_avail
    BY <1>3, <1>6 DEF IsRecord
  <2> QED BY <2>1, <2>2, <2>3
<1>8. QueueTypes(d) /\ QueuesFit(d)
  <2> DEFINE n == Len(c.out)
             x == c.ext_sendq_size
             y == c.landed
  <2>1. n \in Nat /\ x \in Nat /\ y \in Nat /\ n - x - y > 0
    BY <1>4, <1>6 DEF QueueTypes, OnWire
  <2>2. d.ext_sendq_size = x /\ d.landed = y + 1 /\ Len(d.out) = n
    BY <1>7
  <2>3. d.ext_sendq_size > 0 => d.send_wqes_avail = 0
    BY <1>6, <1>7 DEF QueuesFit
  <2>4. QueueTypes(d)
    BY <1>6, <1>7, <2>1 DEF QueueTypes
  <2> HIDE DEF n, x, y
  <2>5. x + (y + 1) <= n
    BY <2>1
  <2> QED BY <2>2, <2>3, <2>4, <2>5 DEF QueuesFit
<1>9. End(d, a, r)
  <2>1. SendOK(d) /\ Paid(d) = Paid(c)
    BY <1>6, <1>7 DEF SendOK, SameSend, SendTypes, Starved, Numbering, SendLaw, Paid
  <2>2. RecvOK(d)
    BY <1>6, <1>7, RecvSideKept
  <2>3. QueueOK(d, a, r)
    BY <1>6, <1>7, <1>8, <2>1 DEF QueueOK, SameCredit
  <2> QED BY <1>7, <2>1, <2>2, <2>3 DEF End
<1>10. d \in Connection
  BY <1>9, EndIsConnection
<1>11. /\ conn' \in [Proc -> Connection] /\ conn'[p] = d /\ conn'[q] = conn[q]
       /\ app' = app
  BY <1>1, <1>4, <1>5, <1>10
<1>12. EndOK(p)' /\ EndOK(q)'
  <2>1. /\ d.absorbed = c.absorbed
        /\ d.next_packet_expected = c.next_packet_expected
    BY <1>7 DEF SameSend, SameRecv
  <2> QED BY <1>1, <1>2, <1>9, <1>11, <2>1 DEF EndOK, a, r, q, c
<1>13. Landed(p)' /\ Landed(q)'
  <2>1. c.landed \in Nat /\ conn[q].preposts \in Nat
    BY <1>2, <1>6, ConnectionParts DEF QueueTypes, RecvTypes
  <2>2. c.landed + 1 <= conn[q].preposts
    BY <1>4, <2>1
  <2>3. d.preposts = c.preposts
    BY <1>7 DEF SameRecv
  <2> QED BY <1>1, <1>2, <1>7, <1>11, <2>2, <2>3 DEF Landed, q, c
<1>14. Muted(d) /\ AppOK(app[p], d)
  BY <1>0, <1>7 DEF Muted, AppOK, SameSend, SameRecv
<1>15. Quiet(p)' /\ Quiet(q)'
  <2>1. /\ d.initialized = c.initialized /\ d.backlog = c.backlog
    BY <1>7 DEF SameSend, SameRecv
  <2>2. Quiet(p)'
    BY <1>0, <1>1, <1>7, <1>11, <2>1 DEF Quiet, q, c
  <2>3. Quiet(q)'
    BY <1>1, <1>2, <1>11, <2>1 DEF Quiet, c
  <2> QED BY <2>2, <2>3
<1>16. TypeOK'
  BY <1>11 DEF IInv, TypeOK
<1> QED BY <1>1, <1>2, <1>11, <1>12, <1>13, <1>14, <1>15, <1>16 DEF IInv

\* The sender's end when its oldest packet is polled.
Polled(c, d, pkt, a, r) ==
    /\ pkt \in Packet /\ Follows(pkt, a, r) /\ c.out # << >>
    /\ pkt.upto <= c.granted
    /\ IsRecord(d) /\ SameSend(c, d) /\ SameRecv(c, d) /\ SameCredit(c, d)
    /\ d.landed = c.landed - 1
    /\ End(d, pkt.upto, pkt.sent)
    /\ Muted(c) => Muted(d)
    /\ Muted(c) /\ ~c.initialized => pkt.type # "reply"

LEMMA PolledEnd ==
    ASSUME NEW a \in Nat, NEW r \in Nat, NEW c, End(c, a, r), c.landed > 0,
           NEW d, d = [c EXCEPT !.out = Tail(@), !.landed = @ - 1],
           NEW pkt, pkt = Head(c.out)
    PROVE  Polled(c, d, pkt, a, r)
<1>0. /\ SendTypes(c) /\ RecvTypes(c) /\ CreditTypes(c) /\ QueueTypes(c)
      /\ QueuesFit(c) /\ IsRecord(c) /\ SendOK(c) /\ RecvOK(c)
      /\ Stamped(c.out, a, r, c.granted, Paid(c)) /\ Paid(c) \in Nat
  BY EndParts DEF End
<1> DEFINE s == c.out
           t == Tail(s)
           n == Len(s)
<1>1. s \in Seq(Packet) /\ s # << >> /\ n \in Nat /\ n > 0
  <2>1. s \in Seq(Packet) /\ n \in Nat
    BY <1>0 DEF QueueTypes
  <2>2. c.landed \in Nat /\ c.ext_sendq_size \in Nat /\ c.ext_sendq_size + c.landed <= n
    BY <1>0 DEF QueueTypes, QueuesFit
  <2> HIDE DEF n
  <2>3. n > 0
    BY <2>1, <2>2
  <2> QED BY <2>1, <2>3, EmptySeq DEF n
<1>2. /\ pkt = s[1] /\ t \in Seq(Packet) /\ Len(t) = n - 1
      /\ \A i \in 1 .. Len(t) : t[i] = s[i + 1] /\ i + 1 \in 1 .. n
      /\ 1 \in 1 .. n
  BY <1>1
<1>3. pkt \in Packet
  BY <1>1, <1>2
<1>4. Follows(pkt, a, r) /\ pkt.upto <= c.granted
  BY <1>0, <1>1, <1>2 DEF Stamped
<1>5. Stamped(t, pkt.upto, pkt.sent, c.granted, Paid(c))
  BY <1>0, <1>1, <1>2, StampedTail DEF CreditTypes
<1>6. /\ IsRecord(d) /\ SameSend(c, d) /\ SameRecv(c, d) /\ SameCredit(c, d)
      /\ d.out = t /\ d.landed = c.landed - 1
      /\ d.ext_sendq_size = c.ext_sendq_size
      /\ d.send_wqes_avail = c.send_wqes_avail
  <2>1. IsRecord(d)
    BY <1>0 DEF IsRecord
  <2>2. SameSend(c, d) /\ SameRecv(c, d) /\ SameCredit(c, d)
    BY <1>0 DEF IsRecord, SameSend, SameRecv, SameCredit
  <2>3. /\ d.out = t /\ d.landed = c.landed - 1
        /\ d.ext_sendq_size = c.ext_sendq_size
        /\ d.send_wqes_avail = c.send_wqes_avail
    BY <1>0 DEF IsRecord
  <2> QED BY <2>1, <2>2, <2>3
<1> HIDE DEF t
<1>7. QueueTypes(d) /\ QueuesFit(d)
  <2> DEFINE x == c.ext_sendq_size
             y == c.landed
  <2>1. /\ x \in Nat /\ y \in Nat /\ y > 0 /\ x + y <= n
        /\ c.send_wqes_avail \in Nat
    BY <1>0 DEF QueueTypes, QueuesFit
  <2>2. d.ext_sendq_size > 0 => d.send_wqes_avail = 0
    BY <1>0, <1>6 DEF QueuesFit
  <2>3. d.ext_sendq_size = x /\ d.landed = y - 1 /\ Len(d.out) = n - 1
    BY <1>2, <1>6
  <2> HIDE DEF x, y, n
  <2>4. y - 1 \in Nat /\ x + (y - 1) <= n - 1
    BY <1>1, <2>1
  <2> QED BY <1>2, <1>6, <2>1, <2>2, <2>3, <2>4 DEF QueueTypes, QueuesFit
<1>8. End(d, pkt.upto, pkt.sent)
  <2>1. SendOK(d) /\ Paid(d) = Paid(c)
    BY <1>0, <1>6 DEF SendOK, SameSend, SendTypes, Starved, Numbering, SendLaw, Paid
  <2>2. RecvOK(d)
    BY <1>0, <1>6, RecvSideKept
  <2>3. QueueOK(d, pkt.upto, pkt.sent)
    BY <1>5, <1>6, <1>7, <2>1 DEF QueueOK, SameCredit
  <2> QED BY <1>6, <2>1, <2>2, <2>3 DEF End
<1>9. Muted(c) => Muted(d)
  BY <1>2, <1>6 DEF Muted, NoReply, SameSend, SameRecv
<1>10. Muted(c) /\ ~c.initialized => pkt.type # "reply"
  BY <1>2 DEF Muted, NoReply
<1> QED BY <1>1, <1>3, <1>4, <1>6, <1>8, <1>9, <1>10 DEF Polled

\* What a packet does to the MPI layer, as far as the invariant goes.
Delivered(a, e, pkt) ==
    /\ e \in App /\ e.initialized = a.initialized /\ e.pc = a.pc
    /\ e.left = a.left
    /\ pkt.type # "reply" => e.shandles = a.shandles
    /\ \A n \in R3Sizes : e.unexpected[n] > 0 =>
          a.unexpected[n] > 0 \/ pkt.type = "start"

LEMMA AppAfterFields ==
    ASSUME NEW a \in App, NEW c, NEW pkt \in Packet, NEW found \in BOOLEAN,
           NEW e, e = AppAfter(a, c, pkt, found)
    PROVE  Delivered(a, e, pkt)
<1> DEFINE u == IF pkt.type = "start" /\ ~found
                THEN [a.unexpected EXCEPT ![pkt.vbufs] = @ + 1] ELSE a.unexpected
           s == IF pkt.type = "reply" THEN Append(a.shandles, pkt.vbufs)
                                      ELSE a.shandles
           i == \/ a.inflow
                \/ pkt.type = "reply"
                \/ /\ pkt.vbuf_credit > 0
                   /\ c.remote_credit > 0 /\ a.shandles # << >>
<1>0. /\ a.initialized \in BOOLEAN /\ a.sends \in Nat
      /\ a.unexpected \in [R3Sizes -> Nat]
      /\ a.shandles \in Seq(Nat \ {0}) /\ a.inflow \in BOOLEAN
      /\ a.pc \in {"idle", "eager", "push"} /\ a.left \in Nat
  BY AppFields
<1>1. /\ e = [initialized |-> e.initialized, sends |-> e.sends,
              unexpected |-> e.unexpected, shandles |-> e.shandles,
              inflow |-> e.inflow, pc |-> e.pc, left |-> e.left]
      /\ e.initialized = a.initialized /\ e.sends = a.sends
      /\ e.pc = a.pc /\ e.left = a.left
  BY DEF AppAfter, App
<1>7. e.unexpected = u
  BY DEF AppAfter, App
<1>9. e.shandles = s
  BY DEF AppAfter, App
<1>10. e.inflow = i
  BY DEF AppAfter, App
<1>2. u \in [R3Sizes -> Nat]
  <2>1. CASE pkt.type = "start" /\ ~found
    <3>1. pkt.vbufs \in R3Sizes
      BY <2>1, PacketFields
    <3> QED BY <1>0, <2>1, <3>1
  <2>2. CASE ~(pkt.type = "start" /\ ~found)
    BY <1>0, <2>2
  <2> QED BY <2>1, <2>2
<1>3. s \in Seq(Nat \ {0})
  <2>1. CASE pkt.type = "reply"
    <3>1. pkt.vbufs \in Nat \ {0}
      BY <2>1, PacketFields, LoadAssumption
    <3> QED BY <1>0, <2>1, <3>1
  <2>2. CASE pkt.type # "reply"
    BY <1>0, <2>2
  <2> QED BY <2>1, <2>2
<1>4. i \in BOOLEAN
  BY <1>0
<1>5. \A n \in R3Sizes : u[n] > 0 => a.unexpected[n] > 0 \/ pkt.type = "start"
  OBVIOUS
<1>6. pkt.type # "reply" => s = a.shandles
  OBVIOUS
<1> HIDE DEF u, s, i
<1>8. e \in App
  BY <1>0, <1>1, <1>2, <1>3, <1>4, <1>7, <1>9, <1>10, AppFields
<1> QED BY <1>1, <1>5, <1>6, <1>7, <1>8, <1>9 DEF Delivered

\* What a packet that has landed finds.
LEMMA ReceiveGuard ==
    ASSUME IInv, NEW p \in Proc, conn[Peer(p)].landed > 0,
           NEW pkt, pkt = Head(conn[Peer(p)].out)
    PROVE  /\ pkt \in Packet /\ conn[Peer(p)].out # << >>
           /\ conn[p].preposts > 0
           /\ ~conn[p].initialized /\ ~app[p].initialized => IsCredited(pkt)
<1> DEFINE q == Peer(p)
           c == conn[p]
           b == conn[q]
           init == app[p].initialized
           g == c.absorbed
           m == c.next_packet_expected - 1
<1>1. q \in Proc /\ Peer(q) = p
  BY PeerFacts
<1>2. c \in Connection /\ Quiet(p)
  BY AbsorbedTypes
<1>3. /\ g \in Nat /\ m \in Nat /\ End(b, g, m) /\ Landed(q) /\ b \in Connection
  BY <1>1, AbsorbedTypes DEF EndOK
<1>4. PICK f : f = [b EXCEPT !.out = Tail(@), !.landed = @ - 1]
  OBVIOUS
<1>5. pkt = Head(b.out) /\ b.landed > 0
  OBVIOUS
<1>6. /\ pkt \in Packet /\ Follows(pkt, g, m) /\ pkt.upto <= b.granted
      /\ b.out # << >>
  <2> HIDE DEF b, g, m
  <2>1. Polled(b, f, pkt, g, m)
    BY <1>3, <1>4, <1>5, PolledEnd
  <2> QED BY <2>1 DEF Polled
<1> HIDE DEF c, b, g, m, init, q
<1>7. c.preposts > 0
  <2>1. b.landed <= c.preposts
    BY <1>1, <1>3 DEF Landed, b, c, q
  <2>2. b.landed \in Nat /\ c.preposts \in Nat
    BY <1>2, <1>3, ConnectionParts DEF QueueTypes, RecvTypes
  <2> QED BY <1>5, <2>1, <2>2
<1>8. ~c.initialized /\ ~init => IsCredited(pkt)
  <2> SUFFICES ASSUME ~c.initialized, ~init, ~IsCredited(pkt) PROVE FALSE
    OBVIOUS
  <2>1. ~b.initialized
    BY <1>2 DEF Quiet, b, c, init, q
  <2>2. b.granted = 0
    BY <1>3, <2>1 DEF End, RecvOK, Fresh
  <2>3. pkt.vbuf_credit > 0 /\ pkt.upto = g + pkt.vbuf_credit
    BY <1>6 DEF Follows
  <2>4. pkt.vbuf_credit \in Nat /\ pkt.upto \in Nat
    BY <1>6, PacketFields
  <2> QED BY <1>3, <1>6, <2>2, <2>3, <2>4
<1> QED BY <1>6, <1>7, <1>8 DEF b, c, q, init

LEMMA ProcessRecvStep ==
    ASSUME IInv, NEW p \in Proc, ProcessRecv(p)
    PROVE  IInv' /\ app'[p].pc = "idle"
<1> DEFINE q == Peer(p)
           c == conn[p]
           b == conn[q]
           init == app[p].initialized
           a == b.absorbed
           r == b.next_packet_expected - 1
           g == c.absorbed
           m == c.next_packet_expected - 1
<1>0. /\ a \in Nat /\ r \in Nat /\ End(c, a, r) /\ Muted(c) /\ Quiet(p)
      /\ Landed(p) /\ AppOK(app[p], c) /\ app[p] \in App /\ c \in Connection
  BY AbsorbedTypes DEF EndOK
<1>1. q \in Proc /\ q # p /\ Peer(q) = p /\ \A x \in Proc : x = p \/ x = q
  BY PeerFacts
<1>2. /\ g \in Nat /\ m \in Nat /\ End(b, g, m) /\ Muted(b) /\ Quiet(q)
      /\ Landed(q) /\ AppOK(app[q], b) /\ b \in Connection
  BY <1>1, AbsorbedTypes DEF EndOK
<1>3. PICK pkt : pkt = Head(b.out)
  OBVIOUS
<1>4. PICK found \in BOOLEAN :
         /\ found => pkt.type = "start" /\ init
         /\ conn' = [conn EXCEPT
               ![p] = ReceivePacket(c, pkt, found, init),
               ![q] = [b EXCEPT !.out = Tail(@), !.landed = @ - 1]]
         /\ SetApp(p, AppAfter(app[p], Accept(c, pkt, init), pkt, found))
  BY <1>3, Zenon DEF ProcessRecv
<1>5. app[p].pc = "idle" /\ b.landed > 0
  BY DEF ProcessRecv, Idle
<1>6. PICK d : d = ReceivePacket(c, pkt, found, init)
  OBVIOUS
<1>7. PICK f : f = [b EXCEPT !.out = Tail(@), !.landed = @ - 1]
  OBVIOUS
<1>8. PICK e : e = AppAfter(app[p], Accept(c, pkt, init), pkt, found)
  OBVIOUS
<1>9. /\ conn' = [conn EXCEPT ![p] = d, ![q] = f]
      /\ SetApp(p, e)
  BY <1>4, <1>6, <1>7, <1>8, Zenon
<1>10. conn \in [Proc -> Connection] /\ app \in [Proc -> App] /\ init \in BOOLEAN
  BY <1>0 DEF IInv, TypeOK, App
<1>11. /\ pkt \in Packet /\ Follows(pkt, g, m)
       /\ pkt.upto <= b.granted
       /\ IsRecord(f) /\ SameSend(b, f) /\ SameRecv(b, f) /\ SameCredit(b, f)
       /\ f.landed = b.landed - 1
       /\ End(f, pkt.upto, pkt.sent)
       /\ Muted(f)
       /\ ~b.initialized => pkt.type # "reply"
       /\ b.out # << >>
  <2>1. Polled(b, f, pkt, g, m)
    BY <1>2, <1>3, <1>5, <1>7, PolledEnd
  <2> QED BY <1>2, <2>1 DEF Polled
<1> HIDE DEF c, b, a, r, g, m, init, q
<1>12. c.preposts > 0
  BY <1>3, <1>5, ReceiveGuard DEF b, c, q
<1>13. ~c.initialized /\ ~init => IsCredited(pkt)
  BY <1>3, <1>5, ReceiveGuard DEF b, c, q, init
<1>14. End(d, a, r) /\ Received(c, d, pkt, init)
  BY <1>0, <1>6, <1>10, <1>11, <1>12, <1>13, ReceivePacketEnd
<1>15. d \in Connection /\ f \in Connection
  BY <1>11, <1>14, EndIsConnection
<1>16. /\ e \in App /\ e.initialized = init /\ e.pc = "idle"
       /\ pkt.type # "reply" => e.shandles = app[p].shandles
       /\ \A n \in R3Sizes : e.unexpected[n] > 0 =>
             app[p].unexpected[n] > 0 \/ pkt.type = "start"
    <2>1. Delivered(app[p], e, pkt)
    BY <1>0, <1>8, <1>11, AppAfterFields
  <2>2. e.initialized = init
    BY <2>1, Zenon DEF Delivered, init
  <2> QED BY <1>5, <2>1, <2>2 DEF Delivered
<1>17. /\ conn' \in [Proc -> Connection] /\ conn'[p] = d /\ conn'[q] = f
       /\ app' \in [Proc -> App] /\ app'[p] = e /\ app'[q] = app[q]
  BY <1>1, <1>9, <1>10, <1>15, <1>16 DEF SetApp
<1>18. /\ f.absorbed = a /\ f.next_packet_expected - 1 = r
       /\ f.preposts = b.preposts /\ f.initialized = b.initialized
       /\ f.remote_credit = b.remote_credit /\ f.backlog = b.backlog
  BY <1>11 DEF SameSend, SameRecv, a, r
<1>19. d.absorbed = pkt.upto /\ d.next_packet_expected - 1 = pkt.sent
  <2>1. d.absorbed = pkt.upto
    BY <1>11, <1>14 DEF Received, Follows, g
  <2>2. c.next_packet_expected \in Nat
    BY <1>0, ConnectionParts DEF RecvTypes
  <2>3. d.next_packet_expected - 1 = pkt.sent
    <3>1. CASE IsCredited(pkt)
      BY <1>11, <1>14, <2>2, <3>1 DEF Received, Follows, Count, m
    <3>2. CASE ~IsCredited(pkt)
      BY <1>11, <1>14, <2>2, <3>2 DEF Received, Follows, Count, m
    <3> QED BY <3>1, <3>2
  <2> QED BY <2>1, <2>3
<1>20. EndOK(p)' /\ EndOK(q)'
  BY <1>1, <1>11, <1>14, <1>17, <1>18, <1>19 DEF EndOK, q
<1>21. Landed(p)' /\ Landed(q)'
  <2>1. d.landed = c.landed /\ d.preposts >= c.preposts - 1
    BY <1>14 DEF Received
  <2>2. c.landed <= b.preposts /\ b.landed <= c.preposts
    BY <1>0, <1>1, <1>2 DEF Landed, b, c, q
  <2>3. /\ b.landed \in Nat /\ c.preposts \in Nat /\ d.preposts \in Nat
    BY <1>0, <1>2, <1>15, ConnectionParts DEF QueueTypes, RecvTypes
  <2>4. f.landed <= d.preposts
    BY <1>11, <2>1, <2>2, <2>3
  <2> QED BY <1>1, <1>17, <1>18, <2>1, <2>2, <2>4 DEF Landed, q
<1>22. ASSUME ~d.initialized, ~init
       PROVE  /\ d.out = << >> /\ d.backlog = << >> /\ ~b.initialized
              /\ e.shandles = << >> /\ NoReply(d.out) /\ NoReply(d.backlog)
  <2>1. ~c.initialized
    BY <1>14, <1>22 DEF Received
  <2>2. /\ c.out = << >> /\ c.backlog = << >> /\ ~b.initialized
        /\ app[p].shandles = << >>
    BY <1>0, <1>22, <2>1 DEF Quiet, b, c, init, q
  <2>3. d.out = << >> /\ d.backlog = << >>
    BY <1>14, <1>22, <2>2 DEF Received
  <2>4. NoReply(<< >>)
    BY DEF NoReply
  <2> QED BY <1>11, <1>16, <2>2, <2>3, <2>4
<1>23. Muted(d)
  <2>1. ~d.initialized => ~init
    BY <1>14 DEF Received
  <2> QED BY <1>22, <2>1 DEF Muted
<1>24. AppOK(e, d)
  BY <1>0, <1>14, <1>16 DEF AppOK, Received
<1>25. AppOK(app[q], f)
  BY <1>2, <1>18 DEF AppOK
<1>26. Quiet(p)'
  BY <1>1, <1>16, <1>17, <1>18, <1>22 DEF Quiet, q
<1>27. Quiet(q)'
  BY <1>2, <1>11, <1>17, <1>18 DEF Quiet, b
<1>28. IInv'
  BY <1>1, <1>11, <1>17, <1>20, <1>21, <1>23, <1>24, <1>25, <1>26, <1>27
     DEF IInv, TypeOK
<1> QED BY <1>16, <1>17, <1>28

-----------------------------------------------------------------------------
(* The theorems.                                                           *)

LEMMA NextKeepsInvariant == IInv /\ [Next]_vars => IInv'
<1> SUFFICES ASSUME IInv, [Next]_vars PROVE IInv'
  OBVIOUS
<1>1. ASSUME NEW p \in Proc, EagerSend(p) PROVE IInv'
  BY <1>1, EagerSendStep
<1>2. ASSUME NEW p \in Proc, RendezvousStart(p) PROVE IInv'
  BY <1>2, RendezvousStartStep
<1>3. ASSUME NEW p \in Proc, FinishInit(p) PROVE IInv'
  BY <1>3, FinishInitStep
<1>4. ASSUME NEW p \in Proc, EagerContinue(p) PROVE IInv'
  BY <1>4, EagerContinueStep
<1>5. ASSUME NEW p \in Proc, MatchUnexpected(p) PROVE IInv'
  BY <1>5, MatchUnexpectedStep
<1>6. ASSUME NEW p \in Proc, ProcessSend(p) PROVE IInv'
  BY <1>6, ProcessSendStep
<1>7. ASSUME NEW p \in Proc, ProcessRecv(p) PROVE IInv'
  BY <1>7, ProcessRecvStep
<1>8. ASSUME NEW p \in Proc, RendezvousPush(p) PROVE IInv'
  BY <1>8, RendezvousPushStep
<1>9. ASSUME NEW p \in Proc, PopFlowlist(p) PROVE IInv'
  BY <1>9, PopFlowlistStep
<1>10. ASSUME NEW p \in Proc, Land(p) PROVE IInv'
  BY <1>10, LandStep
<1>11. CASE UNCHANGED vars
  BY <1>11 DEF vars, IInv, TypeOK, EndOK, Landed, Quiet
<1> QED BY <1>1, <1>2, <1>3, <1>4, <1>5, <1>6, <1>7, <1>8, <1>9, <1>10, <1>11
    DEF Next, Start, Progress

LEMMA InvariantHolds == Spec => []IInv
<1> QED BY InitialInvariant, NextKeepsInvariant, PTL DEF Spec

\* What IInv says of the two ends p and q = Peer(p), as facts about numbers.
LEMMA EndFacts ==
    ASSUME IInv, NEW p \in Proc
    PROVE  /\ SendTypes(conn[p]) /\ RecvTypes(conn[p]) /\ CreditTypes(conn[p])
           /\ QueueTypes(conn[p]) /\ QueuesFit(conn[p])
           /\ Starved(conn[p]) /\ SendLaw(conn[p]) /\ RecvLaw(conn[p])
           /\ Fresh(conn[p]) /\ Paid(conn[p]) \in Nat
           /\ Stamped(conn[p].out, conn[Peer(p)].absorbed,
                      conn[Peer(p)].next_packet_expected - 1,
                      conn[p].granted, Paid(conn[p]))
BY AbsorbedTypes, EndParts DEF EndOK, End, SendOK, RecvOK

(***************************************************************************)
(* Type correctness.  In particular local and remote credits, the buffers   *)
(* posted and the free work requests never fall below zero.                 *)
(***************************************************************************)
THEOREM TypeCorrect == Spec => []TypeOK
<1>1. IInv => TypeOK
  BY DEF IInv
<1> QED BY <1>1, InvariantHolds, PTL

(***************************************************************************)
(* A packet is on the backlog only while there is no credit, so            *)
(* viadev_post_send may send directly whenever it has one (viapriv.c:361).  *)
(***************************************************************************)
THEOREM BacklogTheorem == Spec => []BacklogOnlyWhenStarved
<1>1. IInv => BacklogOnlyWhenStarved
  BY EndFacts DEF BacklogOnlyWhenStarved, Starved
<1> QED BY <1>1, InvariantHolds, PTL

(***************************************************************************)
(* The extended send queue is flushed whenever the HCA has a free work      *)
(* request, so viadev_post_send never overtakes it (viapriv.c:179).         *)
(***************************************************************************)
THEOREM ExtSendqTheorem == Spec => []ExtSendqOnlyWhenFull
<1>1. IInv => ExtSendqOnlyWhenFull
  BY EndFacts DEF ExtSendqOnlyWhenFull, QueuesFit
<1> QED BY <1>1, InvariantHolds, PTL

(***************************************************************************)
(* Every credited packet arrives with the sequence number that             *)
(* viadev_process_recv expects (viacheck.c:1207), whatever it waited for.   *)
(***************************************************************************)
THEOREM InOrderTheorem == Spec => []InOrder
<1>1. ASSUME IInv, NEW p \in Proc, conn[p].landed > 0,
             IsCredited(Head(conn[p].out))
      PROVE  Head(conn[p].out).id = conn[Peer(p)].next_packet_expected
  <2> DEFINE s == conn[p].out
             a == conn[Peer(p)].absorbed
             x == conn[Peer(p)].next_packet_expected
  <2>1. /\ s \in Seq(Packet)
        /\ Stamped(s, a, x - 1, conn[p].granted, Paid(conn[p]))
        /\ conn[p].landed \in Nat /\ conn[p].ext_sendq_size \in Nat
        /\ conn[p].ext_sendq_size + conn[p].landed <= Len(s)
    BY <1>1, EndFacts DEF QueueTypes, QueuesFit
  <2>2. x \in Nat
    BY <1>1, PeerFacts, EndFacts DEF RecvTypes
  <2> HIDE DEF s, a, x
  <2>3. s # << >>
    <3>1. s = << >> => Len(s) = 0
      OBVIOUS
    <3> QED BY <1>1, <2>1, <3>1
  <2>4. Head(s) = s[1]
    BY <2>1, <2>3
  <2>5. Follows(s[1], a, x - 1)
    BY <2>1, <2>3 DEF Stamped
  <2>6. s[1].id = (x - 1) + 1
    BY <1>1, <2>4, <2>5 DEF Follows, s
  <2> QED BY <2>2, <2>4, <2>6 DEF s, x
<1>2. IInv => InOrder
  BY <1>1 DEF InOrder
<1> QED BY <1>2, InvariantHolds, PTL

LEMMA InvariantConserves == IInv => CreditConservation
<1> SUFFICES ASSUME IInv, NEW p \in Proc
             PROVE  conn[Peer(p)].preposts + conn[Peer(p)].noop_spent =
                      Reserve(Peer(p)) + conn[p].remote_credit
                      + CreditedInFlight(p) + conn[Peer(p)].local_credit
                      + CreditsInFlight(Peer(p))
  BY DEF CreditConservation
<1> DEFINE q == Peer(p)
           c == conn[p]
           b == conn[q]
<1>1. q \in Proc /\ Peer(q) = p
  BY PeerFacts
<1>2. /\ SendTypes(c) /\ SendLaw(c) /\ Paid(c) \in Nat
      /\ RecvTypes(b) /\ CreditTypes(b) /\ RecvLaw(b)
  BY <1>1, EndFacts
<1>3. /\ CreditedInFlight(p) = Paid(c) - (b.next_packet_expected - 1)
      /\ CreditsInFlight(q) = b.granted - c.absorbed
      /\ Reserve(q) = ReserveOf(b)
  BY <1>1 DEF CreditedInFlight, CreditsInFlight, Reserve, ReserveOf, Paid
<1>4. ReserveOf(b) \in Int /\ InitialCredits \in Int
  BY InitialCreditsType, ParamAssumption DEF ReserveOf
<1>5. /\ c.remote_credit \in Nat /\ c.absorbed \in Nat
      /\ b.preposts \in Nat /\ b.noop_spent \in Nat /\ b.granted \in Nat
      /\ b.local_credit \in Nat /\ b.next_packet_expected \in Nat
  BY <1>2 DEF SendTypes, RecvTypes, CreditTypes
<1>6. c.remote_credit = InitialCredits + c.absorbed - Paid(c)
  BY <1>2 DEF SendLaw
<1>7. b.preposts + b.noop_spent =
        ReserveOf(b) + InitialCredits + b.granted + b.local_credit
          - (b.next_packet_expected - 1)
  BY <1>2 DEF RecvLaw
<1> HIDE DEF q, c, b
<1>8. b.preposts + b.noop_spent =
        ReserveOf(b) + c.remote_credit + (Paid(c) - (b.next_packet_expected - 1))
          + b.local_credit + (b.granted - c.absorbed)
  BY <1>2, <1>4, <1>5, <1>6, <1>7
<1> QED BY <1>3, <1>8 DEF q, c, b

(***************************************************************************)
(* The law of the credits: the buffers one side has posted are its reserve, *)
(* the credits the other side holds, the packets they paid for and the      *)
(* credits on their way (viadev_post_send, viadev_handle_flow_control_sr).  *)
(***************************************************************************)
THEOREM ConservationTheorem == Spec => []CreditConservation
BY InvariantConserves, InvariantHolds, PTL

LEMMA SumBound ==
  ASSUME NEW pre \in Nat, NEW spent \in Nat, NEW rc \in Nat, NEW lc \in Nat,
         NEW z \in Int, NEW x \in Int, NEW y \in Int,
         spent <= z, y >= 0, pre + spent = z + rc + x + lc + y
  PROVE  rc + x <= pre
OBVIOUS

(***************************************************************************)
(* A credit is a posted buffer: the packets under way and the ones that may *)
(* still be sent all find a receive posted, so the HCA never has to answer  *)
(* a credited packet with RNR NAK.                                          *)
(***************************************************************************)
THEOREM BackedTheorem == Spec => []CreditsAreBacked
<1>1. ASSUME IInv, NEW p \in Proc
      PROVE  conn[p].remote_credit + CreditedInFlight(p)
                <= conn[Peer(p)].preposts
  <2> DEFINE q == Peer(p)
             c == conn[p]
             b == conn[q]
  <2>1. q \in Proc /\ Peer(q) = p
    BY PeerFacts
  <2>2. /\ SendTypes(c) /\ Paid(c) \in Nat
        /\ RecvTypes(b) /\ CreditTypes(b) /\ Fresh(b) /\ QueueTypes(b)
        /\ Stamped(b.out, c.absorbed, c.next_packet_expected - 1, b.granted,
                   Paid(b))
    BY <1>1, <2>1, EndFacts
  <2>3. b.preposts + b.noop_spent =
          Reserve(q) + c.remote_credit + CreditedInFlight(p) + b.local_credit
            + CreditsInFlight(q)
    BY <1>1, InvariantConserves DEF CreditConservation
  <2>4. /\ CreditedInFlight(p) = Paid(c) - (b.next_packet_expected - 1)
        /\ CreditsInFlight(q) = b.granted - c.absorbed
        /\ Reserve(q) = ReserveOf(b)
    BY <2>1 DEF CreditedInFlight, CreditsInFlight, Reserve, ReserveOf, Paid
  <2>5. /\ c.remote_credit \in Nat /\ c.absorbed \in Nat
        /\ b.preposts \in Nat /\ b.noop_spent \in Nat /\ b.granted \in Nat
        /\ b.local_credit \in Nat /\ b.next_packet_expected \in Nat
        /\ b.out \in Seq(Packet)
    BY <2>2 DEF SendTypes, RecvTypes, CreditTypes, QueueTypes
  <2>6. c.absorbed <= b.granted
    <3>1. CASE b.out = << >>
      BY <2>2, <2>5, <3>1 DEF Stamped
    <3>2. CASE b.out # << >>
      <4> DEFINE s == b.out
      <4>1. 1 \in 1 .. Len(s) /\ s \in Seq(Packet)
        BY <2>5, <3>2
      <4>2. /\ Follows(s[1], c.absorbed, c.next_packet_expected - 1)
            /\ s[1].upto <= b.granted
        BY <2>2, <3>2, <4>1 DEF Stamped
      <4>3. s[1] \in Packet
        BY <4>1, PacketsOf
      <4>4. s[1].upto \in Nat /\ s[1].vbuf_credit \in Nat
        BY <4>3, PacketFields
      <4>5. s[1].upto = c.absorbed + s[1].vbuf_credit
        BY <4>2 DEF Follows
      <4> QED BY <2>5, <4>2, <4>4, <4>5
    <3> QED BY <3>1, <3>2
  <2>7. b.noop_spent <= ReserveOf(b) /\ ReserveOf(b) \in Int
    <3>1. CASE b.initialized
      BY <2>2, <2>5, <3>1, ParamAssumption DEF Fresh, ReserveOf
    <3>2. CASE ~b.initialized
      BY <2>2, <3>2, InitialCreditsType, ParamAssumption DEF Fresh, ReserveOf
    <3> QED BY <3>1, <3>2
  <2> HIDE DEF b, c, q
  <2>8. c.remote_credit + CreditedInFlight(p) <= b.preposts
    <3>1. /\ b.preposts \in Nat /\ b.noop_spent \in Nat
          /\ c.remote_credit \in Nat /\ b.local_credit \in Nat
      BY <2>5
    <3>2. CreditedInFlight(p) \in Int /\ CreditsInFlight(q) \in Int
      BY <2>2, <2>4, <2>5
    <3>3. CreditsInFlight(q) >= 0
      BY <2>4, <2>5, <2>6
    <3>4. Reserve(q) \in Int /\ b.noop_spent <= Reserve(q)
      BY <2>4, <2>7
    <3> QED BY <2>3, <3>1, <3>2, <3>3, <3>4, SumBound
  <2> QED BY <2>8 DEF b, c, q
<1>2. IInv => CreditsAreBacked
  BY <1>1 DEF CreditsAreBacked
<1> QED BY <1>2, InvariantHolds, PTL

(***************************************************************************)
(* The assertion of viadev_prepost_for_rendezvous (viarecv.c:745).          *)
(***************************************************************************)
THEOREM RendezvousTheorem == Spec => []RendezvousInitialized
<1>1. ASSUME IInv, NEW p \in Proc, ~conn[p].initialized
      PROVE  /\ ~(conn[p].rendezvous_packets_expected > 0)
             /\ ~\E n \in R3Sizes : app[p].unexpected[n] > 0
  <2>1. Fresh(conn[p]) /\ RecvTypes(conn[p]) /\ AppOK(app[p], conn[p])
    BY <1>1, EndFacts, AbsorbedTypes
  <2> QED BY <1>1, <2>1 DEF Fresh, RecvTypes, AppOK
<1>2. IInv => RendezvousInitialized
  BY <1>1 DEF RendezvousInitialized
<1> QED BY <1>2, InvariantHolds, PTL

\* Between two packets of an eager message only the loop moves the process on.
LEMMA EagerLoopRuns ==
    ASSUME IInv, NEW p \in Proc, app[p].pc = "eager", Next
    PROVE  EagerContinue(p) \/ app'[p].pc = "eager"
<1>1. app \in [Proc -> App] /\ app[p] \in App
  BY DEF IInv, TypeOK
<1>2. ASSUME NEW x \in Proc, x # p, NEW e, SetApp(x, e)
      PROVE  app'[p] = app[p]
  BY <1>1, <1>2 DEF SetApp
<1>3. ASSUME NEW x \in Proc, app[x].pc # "eager", NEW e, SetApp(x, e)
      PROVE  app'[p].pc = "eager"
  BY <1>2, <1>3
<1>4. PICK x \in Proc : Start(x) \/ Progress(x) \/ Land(x)
  BY DEF Next
<1>5. ASSUME EagerSend(x) PROVE app'[p].pc = "eager"
  <2>1. app[x].pc # "eager"
    BY <1>5 DEF EagerSend, InApp, Idle
  <2>2. \E e : SetApp(x, e)
    BY <1>5 DEF EagerSend, EagerPost
  <2> QED BY <1>3, <2>1, <2>2
<1>6. ASSUME RendezvousStart(x) PROVE app'[p].pc = "eager"
  <2>1. app[x].pc # "eager"
    BY <1>6 DEF RendezvousStart, InApp, Idle
  <2>2. \E e : SetApp(x, e)
    BY <1>6 DEF RendezvousStart
  <2> QED BY <1>3, <2>1, <2>2
<1>7. ASSUME MatchUnexpected(x) PROVE app'[p].pc = "eager"
  <2>1. app[x].pc # "eager"
    BY <1>7 DEF MatchUnexpected, InApp, Idle
  <2>2. \E e : SetApp(x, e)
    BY <1>7 DEF MatchUnexpected
  <2> QED BY <1>3, <2>1, <2>2
<1>8. ASSUME ProcessRecv(x) PROVE app'[p].pc = "eager"
  <2>1. app[x].pc # "eager"
    BY <1>8 DEF ProcessRecv, Idle
  <2>2. \E e : SetApp(x, e)
    BY <1>8 DEF ProcessRecv
  <2> QED BY <1>3, <2>1, <2>2
<1>9. ASSUME RendezvousPush(x) PROVE app'[p].pc = "eager"
  <2>1. app[x].pc # "eager"
    BY <1>9 DEF RendezvousPush
  <2>2. \E e : SetApp(x, e)
    BY <1>9 DEF RendezvousPush
  <2> QED BY <1>3, <2>1, <2>2
<1>10. ASSUME PopFlowlist(x) PROVE app'[p].pc = "eager"
  <2>1. app[x].pc # "eager"
    BY <1>10 DEF PopFlowlist
  <2>2. \E e : SetApp(x, e)
    BY <1>10 DEF PopFlowlist
  <2> QED BY <1>3, <2>1, <2>2
<1>11. ASSUME FinishInit(x) PROVE app'[p].pc = "eager"
  <2>1. app' = [app EXCEPT ![x] = [app[x] EXCEPT !.initialized = TRUE]]
    BY <1>11 DEF FinishInit, SetApp
  <2>2. CASE x = p
    <3>1. app'[p] = [app[p] EXCEPT !.initialized = TRUE]
      BY <1>1, <2>1, <2>2
    <3> QED BY <1>1, <3>1 DEF App
  <2>3. CASE x # p
    BY <1>1, <2>1, <2>3
  <2> QED BY <2>2, <2>3
<1>12. ASSUME EagerContinue(x), x # p PROVE app'[p].pc = "eager"
  <2>1. \E e : SetApp(x, e)
    BY <1>12 DEF EagerContinue, EagerPost
  <2> QED BY <1>2, <1>12, <2>1
<1>13. ASSUME ProcessSend(x) \/ Land(x) PROVE app'[p].pc = "eager"
  BY <1>13 DEF ProcessSend, Land
<1> QED BY <1>4, <1>5, <1>6, <1>7, <1>8, <1>9, <1>10, <1>11, <1>12, <1>13
    DEF Start, Progress

(***************************************************************************)
(* An eager message keeps the preserve from its first packet to its last:   *)
(* nothing takes a credit between two packets of its loop                   *)
(* (MPID_VIA_eager_send, viasend.c:581).                                    *)
(***************************************************************************)
THEOREM EagerTheorem == Spec => EagerKeepsPreserve
<1> DEFINE Kept(p) == conn'[p].remote_credit - app'[p].left >= CreditPreserve
           Step == \A p \in Proc : "eager" \in {app[p].pc, app'[p].pc} => Kept(p)
<1>1. ASSUME IInv, IInv', Next, NEW p \in Proc,
             "eager" \in {app[p].pc, app'[p].pc}
      PROVE  Kept(p)
  <2>1. CASE app'[p].pc = "eager"
    BY <1>1, <2>1 DEF IInv, AppOK
  <2>2. CASE app'[p].pc # "eager"
    <3>1. EagerContinue(p)
      BY <1>1, <2>2, EagerLoopRuns
    <3> QED BY <1>1, <3>1, EagerContinueStep
  <2> QED BY <2>1, <2>2
<1>2. IInv /\ IInv' /\ [Next]_vars => [Step]_vars
  <2> SUFFICES ASSUME IInv, IInv', [Next]_vars PROVE [Step]_vars
    OBVIOUS
  <2>1. CASE Next
    BY <1>1, <2>1
  <2>2. CASE UNCHANGED vars
    BY <2>2
  <2> QED BY <2>1, <2>2
<1> QED BY <1>2, InvariantHolds, PTL DEF Spec, EagerKeepsPreserve


-----------------------------------------------------------------------------
(* What packets carry.                                                      *)

Weight == [Packet -> Nat]

Each(w, s) == [i \in DOMAIN s |-> w[s[i]]]

LEMMA EachFields ==
    ASSUME NEW w \in Weight, NEW s \in Seq(Packet)
    PROVE  /\ Each(w, s) \in Seq(Nat) /\ Len(Each(w, s)) = Len(s)
           /\ \A i \in 1 .. Len(s) : Each(w, s)[i] = w[s[i]]
<1>1. DOMAIN s = 1 .. Len(s) /\ Len(s) \in Nat
  OBVIOUS
<1>2. \A i \in 1 .. Len(s) : w[s[i]] \in Nat
  BY DEF Weight
<1>3. Each(w, s) = [i \in 1 .. Len(s) |-> w[s[i]]]
  BY <1>1 DEF Each
<1> QED BY <1>1, <1>2, <1>3

LEMMA WeighedIs ==
    ASSUME NEW w, NEW s
    PROVE  Weighed(w, s) = SumFunction(Each(w, s))
BY DEF Weighed, Each

LEMMA WeighedType ==
    ASSUME NEW w \in Weight, NEW s \in Seq(Packet)
    PROVE  Weighed(w, s) \in Nat
BY WeighedIs, EachFields, SeqSumType

LEMMA SameNumbers ==
    ASSUME NEW l \in Seq(Nat), NEW r \in Seq(Nat), Len(l) = Len(r),
           \A i \in 1 .. Len(l) : l[i] = r[i]
    PROVE  l = r
OBVIOUS

LEMMA ConcatNumbers ==
    ASSUME NEW S, NEW s \in Seq(S), NEW t \in Seq(S)
    PROVE  /\ s \o t \in Seq(S) /\ Len(s \o t) = Len(s) + Len(t)
           /\ Len(s) \in Nat /\ Len(t) \in Nat
           /\ \A i \in 1 .. Len(s) : (s \o t)[i] = s[i]
           /\ \A i \in 1 .. Len(t) : (s \o t)[Len(s) + i] = t[i]
OBVIOUS

LEMMA WeighedAppend ==
    ASSUME NEW w \in Weight, NEW s \in Seq(Packet), NEW pkt \in Packet
    PROVE  Weighed(w, Append(s, pkt)) = Weighed(w, s) + w[pkt]
<1> DEFINE t == Append(s, pkt)
           l == Each(w, t)
           r == Append(Each(w, s), w[pkt])
<1>1. t \in Seq(Packet) /\ Len(t) = Len(s) + 1 /\ t[Len(s) + 1] = pkt
      /\ \A i \in 1 .. Len(s) : t[i] = s[i]
  OBVIOUS
<1>2. w[pkt] \in Nat
  BY DEF Weight
<1>3. /\ Each(w, s) \in Seq(Nat) /\ Len(Each(w, s)) = Len(s)
      /\ \A i \in 1 .. Len(s) : Each(w, s)[i] = w[s[i]]
  BY EachFields
<1> HIDE DEF t
<1>4. /\ l \in Seq(Nat) /\ Len(l) = Len(s) + 1
      /\ \A i \in 1 .. Len(s) + 1 : l[i] = w[t[i]]
  BY <1>1, EachFields
<1>5. /\ r \in Seq(Nat) /\ Len(r) = Len(s) + 1 /\ r[Len(s) + 1] = w[pkt]
      /\ \A i \in 1 .. Len(s) : r[i] = w[s[i]]
  BY <1>2, <1>3
<1>6. SumFunction(r) = SumFunction(Each(w, s)) + w[pkt]
  BY <1>2, <1>3, SumAppend
<1>7. l = r
  <2>1. Len(s) \in Nat
    OBVIOUS
  <2> HIDE DEF l, r
  <2>2. ASSUME NEW i \in 1 .. Len(l)
        PROVE  l[i] = r[i]
    <3>1. i \in 1 .. Len(s) + 1 /\ l[i] = w[t[i]]
      BY <1>4
    <3>2. CASE i = Len(s) + 1
      BY <3>1, <3>2, <1>1, <1>5
    <3>3. CASE i \in 1 .. Len(s)
      BY <3>1, <3>3, <1>1, <1>5
    <3> QED BY <3>1, <3>2, <3>3, <2>1
  <2> QED BY <1>4, <1>5, <2>2, SameNumbers
<1> QED BY <1>6, <1>7, WeighedIs DEF t

LEMMA WeighedTail ==
    ASSUME NEW w \in Weight, NEW s \in Seq(Packet), s # << >>
    PROVE  Weighed(w, s) = w[Head(s)] + Weighed(w, Tail(s))
<1> DEFINE t == Tail(s)
           e == Each(w, s)
           l == Each(w, t)
           r == Tail(e)
<1>1. t \in Seq(Packet) /\ Len(t) = Len(s) - 1 /\ Head(s) = s[1]
      /\ 1 \in 1 .. Len(s) /\ Len(s) \in Nat
      /\ \A i \in 1 .. Len(s) - 1 : t[i] = s[i + 1]
  OBVIOUS
<1>2. /\ e \in Seq(Nat) /\ Len(e) = Len(s)
      /\ \A i \in 1 .. Len(s) : e[i] = w[s[i]]
  BY EachFields
<1> HIDE DEF t, e
<1>3. e # << >> /\ Head(e) = w[s[1]]
  BY <1>1, <1>2
<1>4. /\ l \in Seq(Nat) /\ Len(l) = Len(s) - 1
      /\ \A i \in 1 .. Len(s) - 1 : l[i] = w[t[i]]
  BY <1>1, EachFields
<1>5. /\ r \in Seq(Nat) /\ Len(r) = Len(s) - 1
      /\ \A i \in 1 .. Len(s) - 1 : r[i] = e[i + 1]
  BY <1>2, <1>3
<1>6. SumFunction(e) = Head(e) + SumFunction(r)
  BY <1>2, <1>3, SumTail
<1>7. l = r
  <2> HIDE DEF l, r
  <2>1. ASSUME NEW i \in 1 .. Len(s) - 1 PROVE l[i] = r[i]
    <3>1. i + 1 \in 1 .. Len(s)
      BY <1>1
    <3>2. l[i] = w[t[i]] /\ t[i] = s[i + 1] /\ r[i] = e[i + 1]
      BY <1>1, <1>4, <1>5
    <3>3. e[i + 1] = w[s[i + 1]]
      BY <1>2, <3>1
    <3> QED BY <3>2, <3>3
  <2> QED BY <1>4, <1>5, <2>1, SameNumbers
<1> QED BY <1>1, <1>3, <1>6, <1>7, WeighedIs DEF t, e

LEMMA WeighedConcat ==
    ASSUME NEW w \in Weight, NEW s \in Seq(Packet), NEW t \in Seq(Packet)
    PROVE  Weighed(w, s \o t) = Weighed(w, s) + Weighed(w, t)
<1> DEFINE u == s \o t
           n == Len(s)
           m == Len(t)
           e == Each(w, s)
           f == Each(w, t)
           l == Each(w, u)
           r == e \o f
<1>1. /\ u \in Seq(Packet) /\ Len(u) = n + m /\ n \in Nat /\ m \in Nat
      /\ \A i \in 1 .. n : u[i] = s[i]
      /\ \A i \in 1 .. m : u[n + i] = t[i]
  BY ConcatNumbers
<1>2. /\ e \in Seq(Nat) /\ Len(e) = n /\ \A i \in 1 .. n : e[i] = w[s[i]]
      /\ f \in Seq(Nat) /\ Len(f) = m /\ \A i \in 1 .. m : f[i] = w[t[i]]
  BY EachFields
<1> HIDE DEF u, e, f
<1>3. /\ l \in Seq(Nat) /\ Len(l) = n + m
      /\ \A i \in 1 .. n + m : l[i] = w[u[i]]
  <2>1. u \in Seq(Packet) /\ Len(u) = n + m
    BY <1>1
  <2>2. /\ l \in Seq(Nat) /\ Len(l) = Len(u)
        /\ \A i \in 1 .. Len(u) : l[i] = w[u[i]]
    BY <2>1, EachFields
  <2> HIDE DEF l, n, m
  <2> QED BY <2>1, <2>2
<1>4. /\ r \in Seq(Nat) /\ Len(r) = n + m
      /\ \A i \in 1 .. n : r[i] = e[i]
      /\ \A i \in 1 .. m : r[n + i] = f[i]
  <2> HIDE DEF n, m
  <2>1. /\ e \o f \in Seq(Nat) /\ Len(e \o f) = Len(e) + Len(f)
        /\ \A i \in 1 .. Len(e) : (e \o f)[i] = e[i]
        /\ \A i \in 1 .. Len(f) : (e \o f)[Len(e) + i] = f[i]
    <3>1. e \in Seq(Nat) /\ f \in Seq(Nat)
      BY <1>2
    <3> QED BY <3>1
  <2>2. Len(e) = n /\ Len(f) = m
    BY <1>2
  <2> QED BY <2>1, <2>2
<1>5. SumFunction(r) = SumFunction(e) + SumFunction(f)
  BY <1>2, SumConcat
<1>6. l = r
  <2> HIDE DEF l, r, n, m
  <2>1. ASSUME NEW i \in 1 .. n + m PROVE l[i] = r[i]
    <3>0. l[i] = w[u[i]]
      BY <1>3
    <3>1. CASE i \in 1 .. n
      <4>1. u[i] = s[i] /\ r[i] = e[i] /\ e[i] = w[s[i]]
        BY <1>1, <1>2, <1>4, <3>1
      <4> QED BY <3>0, <4>1
    <3>2. CASE i \notin 1 .. n
      <4>1. PICK j \in 1 .. m : i = n + j
        <5>1. i - n \in 1 .. m /\ i = n + (i - n)
          BY <1>1, <3>2
        <5> QED BY <5>1
      <4>2. u[n + j] = t[j] /\ r[n + j] = f[j] /\ f[j] = w[t[j]]
        <5>1. u[n + j] = t[j]
          BY <1>1, Zenon
        <5>2. r[n + j] = f[j]
          BY <1>4, Zenon
        <5> QED BY <1>2, <5>1, <5>2
      <4> QED BY <3>0, <4>1, <4>2
    <3> QED BY <3>1, <3>2
  <2> QED BY <1>3, <1>4, <2>1, SameNumbers
<1> QED BY <1>5, <1>6, WeighedIs DEF u, e, f

LEMMA WeighedNone == \A w : Weighed(w, << >>) = 0
<1> TAKE w
<1>1. Each(w, << >>) = << >>
  BY DEF Each
<1> QED BY <1>1, WeighedIs, SumOfNone

\* Packets that say the same weigh the same.
SameWeights(w, s, t) ==
    Len(s) = Len(t) /\ \A i \in 1 .. Len(s) : w[s[i]] = w[t[i]]

LEMMA WeighedSame ==
    ASSUME NEW w \in Weight, NEW s \in Seq(Packet), NEW t \in Seq(Packet),
           SameWeights(w, s, t)
    PROVE  Weighed(w, s) = Weighed(w, t)
<1> DEFINE l == Each(w, s)
           r == Each(w, t)
<1>1. /\ l \in Seq(Nat) /\ Len(l) = Len(s)
      /\ \A i \in 1 .. Len(s) : l[i] = w[s[i]]
      /\ r \in Seq(Nat) /\ Len(r) = Len(t)
      /\ \A i \in 1 .. Len(t) : r[i] = w[t[i]]
  BY EachFields
<1> HIDE DEF l, r
<1>2. l = r
  BY <1>1, SameNumbers DEF SameWeights
<1> QED BY <1>2, WeighedIs DEF l, r

LEMMA WeightTypes ==
    /\ CreditIn \in Weight /\ PacketIn \in Weight
    /\ AskedIn \in Weight /\ DataIn \in Weight
    /\ \A pkt \in Packet :
          /\ CreditIn[pkt] = pkt.vbuf_credit
          /\ PacketIn[pkt] = Count(pkt)
          /\ AskedIn[pkt] = IF pkt.type = "reply" THEN pkt.vbufs ELSE 0
          /\ DataIn[pkt] = IF pkt.type = "r3data" THEN 1 ELSE 0
<1>1. \A pkt \in Packet : pkt.vbuf_credit \in Nat /\ pkt.vbufs \in Nat
  BY PacketFields
<1> QED BY <1>1 DEF Weight, CreditIn, PacketIn, AskedIn, DataIn, Count

-----------------------------------------------------------------------------
(* The history fields: the stamps of the packets are running sums.          *)

\* What the stamps of the first i packets of s say together.
Upto(s, a) == [i \in 0 .. Len(s) |-> IF i = 0 THEN a ELSE s[i].upto]
Sent(s, r) == [i \in 0 .. Len(s) |-> IF i = 0 THEN r ELSE s[i].sent]

\* The stamp before the i-th packet.
Before(s, a, r, i) ==
    IF i = 1 THEN Follows(s[1], a, r)
             ELSE Follows(s[i], s[i - 1].upto, s[i - 1].sent)

LEMMA StampBefore ==
    ASSUME NEW s \in Seq(Packet), NEW a \in Nat, NEW r \in Nat, NEW g, NEW n,
           Stamped(s, a, r, g, n), NEW i \in 1 .. Len(s)
    PROVE  Before(s, a, r, i)
<1>1. CASE i = 1
  <2>1. s # << >>
    BY <1>1
  <2> QED BY <1>1, <2>1 DEF Stamped, Before
<1>2. CASE i # 1
  <2>1. i - 1 \in 1 .. Len(s) - 1 /\ (i - 1) + 1 = i
    BY <1>2
  <2>2. Follows(s[(i - 1) + 1], s[i - 1].upto, s[i - 1].sent)
    BY <2>1 DEF Stamped
  <2> QED BY <1>2, <2>1, <2>2 DEF Before
<1> QED BY <1>1, <1>2

\* The difference that packet i makes to the two stamps.
LEMMA StampSteps ==
    ASSUME NEW s \in Seq(Packet), NEW a \in Nat, NEW r \in Nat, NEW g, NEW n,
           Stamped(s, a, r, g, n), NEW i \in 1 .. Len(s)
    PROVE  /\ s[i].upto \in Nat /\ s[i].sent \in Nat
           /\ s[i].upto = (IF i = 1 THEN a ELSE s[i - 1].upto) + CreditIn[s[i]]
           /\ s[i].sent = (IF i = 1 THEN r ELSE s[i - 1].sent) + PacketIn[s[i]]
<1>1. Before(s, a, r, i)
  BY StampBefore
<1>2. s[i] \in Packet /\ s[i].upto \in Nat /\ s[i].sent \in Nat
  BY PacketsOf
<1>3. CreditIn[s[i]] = s[i].vbuf_credit /\ PacketIn[s[i]] = Count(s[i])
  BY <1>2, WeightTypes
<1>4. CASE i = 1
  <2>1. Follows(s[i], a, r)
    BY <1>1, <1>4 DEF Before
  <2> QED BY <1>2, <1>3, <1>4, <2>1 DEF Follows, Count
<1>5. CASE i # 1
  <2> DEFINE b == s[i - 1]
  <2>1. i - 1 \in 1 .. Len(s)
    BY <1>5
  <2>2. b.upto \in Nat /\ b.sent \in Nat
    BY <2>1, PacketsOf
  <2>3. Follows(s[i], b.upto, b.sent)
    BY <1>1, <1>5 DEF Before
  <2> QED BY <1>2, <1>3, <1>5, <2>2, <2>3 DEF Follows, Count
<1> QED BY <1>4, <1>5

\* A count along the packets has grown by what they weigh.
LEMMA WeighedCount ==
    ASSUME NEW w \in Weight, NEW s \in Seq(Packet), NEW c,
           Counting(c, Each(w, s))
    PROVE  c[0] + Weighed(w, s) = c[Len(s)]
<1>1. Each(w, s) \in Seq(Nat) /\ Len(Each(w, s)) = Len(s)
  BY EachFields
<1> QED BY <1>1, CountedSum, WeighedIs

\* Credits granted and packets paid for are those of the packets under way.
LEMMA StampSums ==
    ASSUME NEW s \in Seq(Packet), NEW a \in Nat, NEW r \in Nat, NEW g, NEW n,
           Stamped(s, a, r, g, n)
    PROVE  a + Weighed(CreditIn, s) = g /\ r + Weighed(PacketIn, s) = n
<1> DEFINE m == Len(s)
           u == Upto(s, a)
           v == Sent(s, r)
           e == Each(CreditIn, s)
           f == Each(PacketIn, s)
<1>1. m \in Nat
  OBVIOUS
<1>2. /\ e \in Seq(Nat) /\ Len(e) = m /\ \A i \in 1 .. m : e[i] = CreditIn[s[i]]
      /\ f \in Seq(Nat) /\ Len(f) = m /\ \A i \in 1 .. m : f[i] = PacketIn[s[i]]
  BY EachFields, WeightTypes
<1>3. \A i \in 1 .. m :
         /\ s[i].upto \in Nat /\ s[i].sent \in Nat
         /\ s[i].upto = (IF i = 1 THEN a ELSE s[i - 1].upto) + CreditIn[s[i]]
         /\ s[i].sent = (IF i = 1 THEN r ELSE s[i - 1].sent) + PacketIn[s[i]]
  BY StampSteps
<1>4. /\ u[0] = a /\ \A i \in 1 .. m : u[i] = s[i].upto
      /\ v[0] = r /\ \A i \in 1 .. m : v[i] = s[i].sent
  BY <1>1 DEF Upto, Sent
<1>5. u \in [0 .. m -> Nat] /\ v \in [0 .. m -> Nat]
  BY <1>1, <1>3 DEF Upto, Sent
<1> HIDE DEF u, v, e, f, m
<1>6. ASSUME NEW i \in 1 .. m
      PROVE  u[i] = u[i - 1] + e[i] /\ v[i] = v[i - 1] + f[i]
  <2>1. /\ u[i] = (IF i = 1 THEN a ELSE s[i - 1].upto) + e[i]
        /\ v[i] = (IF i = 1 THEN r ELSE s[i - 1].sent) + f[i]
    <3>1. e[i] = CreditIn[s[i]] /\ f[i] = PacketIn[s[i]]
      BY <1>2
    <3>2. u[i] = s[i].upto /\ v[i] = s[i].sent
      BY <1>4
    <3>3. /\ s[i].upto = (IF i = 1 THEN a ELSE s[i - 1].upto) + CreditIn[s[i]]
          /\ s[i].sent = (IF i = 1 THEN r ELSE s[i - 1].sent) + PacketIn[s[i]]
      BY <1>3
    <3> QED BY <3>1, <3>2, <3>3, Zenon
  <2>2. CASE i = 1
    <3>1. i - 1 = 0
      BY <2>2
    <3> QED BY <1>4, <2>1, <2>2, <3>1
  <2>3. CASE i # 1
    <3>1. i - 1 \in 1 .. m
      BY <1>1, <2>3
    <3>2. u[i - 1] = s[i - 1].upto /\ v[i - 1] = s[i - 1].sent
      BY <1>4, <3>1
    <3> QED BY <2>1, <2>3, <3>2
  <2> QED BY <2>2, <2>3
<1>7. Counting(u, e) /\ Counting(v, f)
  BY <1>2, <1>5, <1>6 DEF Counting
<1>8. u[0] + Weighed(CreditIn, s) = u[m] /\ v[0] + Weighed(PacketIn, s) = v[m]
  BY <1>7, WeightTypes, WeighedCount DEF e, f, m
<1>9. u[m] = g /\ v[m] = n
  <2>1. CASE m = 0
    <3>1. s = << >>
      BY <2>1, EmptySeq DEF m
    <3> QED BY <1>4, <2>1, <3>1 DEF Stamped
  <2>2. CASE m # 0
    <3>1. m \in 1 .. m /\ s # << >>
      BY <1>1, <2>2 DEF m
    <3>2. u[m] = s[m].upto /\ v[m] = s[m].sent
      BY <1>4, <3>1
    <3> QED BY <3>1, <3>2 DEF Stamped, m
  <2> QED BY <2>1, <2>2
<1> QED BY <1>4, <1>8, <1>9

LEMMA InvariantCounts == IInv => HistoryIsExact
<1> SUFFICES ASSUME IInv, NEW p \in Proc
             PROVE  /\ CreditsInFlight(p) = Weighed(CreditIn, conn[p].out)
                    /\ CreditedInFlight(p) = Weighed(PacketIn, conn[p].out)
  BY DEF HistoryIsExact
<1> DEFINE c == conn[p]
           a == conn[Peer(p)].absorbed
           r == conn[Peer(p)].next_packet_expected - 1
           x == Weighed(CreditIn, c.out)
           y == Weighed(PacketIn, c.out)
<1>1. a \in Nat /\ r \in Nat /\ End(c, a, r)
  BY AbsorbedTypes DEF EndOK
<1>2. /\ QueueTypes(c) /\ Paid(c) \in Nat /\ CreditTypes(c)
      /\ Stamped(c.out, a, r, c.granted, Paid(c))
  <2> HIDE DEF c, a, r
  <2> QED BY <1>1, EndParts
<1>3. c.out \in Seq(Packet)
  BY <1>2 DEF QueueTypes
<1>4. a + x = c.granted /\ r + y = Paid(c)
  <2> HIDE DEF c, a, r
  <2> QED BY <1>1, <1>2, <1>3, StampSums
<1>5. x \in Nat /\ y \in Nat
  <2> HIDE DEF c
  <2> QED BY <1>3, WeighedType, WeightTypes
<1>6. c.granted \in Nat
  BY <1>2 DEF CreditTypes
<1>7. CreditsInFlight(p) = c.granted - a /\ CreditedInFlight(p) = Paid(c) - r
  BY DEF CreditsInFlight, CreditedInFlight, Paid
<1> HIDE DEF a, r, c, x, y
<1>8. c.granted - a = x /\ Paid(c) - r = y
  BY <1>1, <1>2, <1>4, <1>5, <1>6
<1> QED BY <1>7, <1>8 DEF x, y, c
-----------------------------------------------------------------------------
(* The R3 data packets asked for.                                           *)

\* From c to d the side that expects, the replies and the data packets that
\* are not polled have changed by x, y and z.
Moves(c, d, x, y, z) ==
    /\ d.rendezvous_packets_expected = c.rendezvous_packets_expected + x
    /\ Unpolled(AskedIn, d) = Unpolled(AskedIn, c) + y
    /\ Unpolled(DataIn, d) = Unpolled(DataIn, c) + z

Quantities(c) ==
    /\ c.rendezvous_packets_expected \in Int
    /\ Unpolled(AskedIn, c) \in Nat /\ Unpolled(DataIn, c) \in Nat

Queues(c) == c.out \in Seq(Packet) /\ c.backlog \in Seq(Packet)

LEMMA QuantityTypes ==
    ASSUME NEW c \in Connection
    PROVE  Quantities(c) /\ Queues(c)
<1>1. /\ c.out \in Seq(Packet) /\ c.backlog \in Seq(Packet)
      /\ c.rendezvous_packets_expected \in Int
  BY ConnectionParts DEF SendTypes, RecvTypes, QueueTypes
<1>2. /\ Weighed(AskedIn, c.out) \in Nat /\ Weighed(AskedIn, c.backlog) \in Nat
      /\ Weighed(DataIn, c.out) \in Nat /\ Weighed(DataIn, c.backlog) \in Nat
  BY <1>1, WeighedType, WeightTypes
<1> QED BY <1>1, <1>2 DEF Quantities, Queues, Unpolled

LEMMA StaysIfSame ==
    ASSUME NEW c \in Connection, NEW d,
           d.out = c.out, d.backlog = c.backlog, NEW x \in Int,
           d.rendezvous_packets_expected = c.rendezvous_packets_expected + x
    PROVE  Moves(c, d, x, 0, 0)
<1>1. Quantities(c)
  BY QuantityTypes
<1>2. Unpolled(AskedIn, d) = Unpolled(AskedIn, c)
      /\ Unpolled(DataIn, d) = Unpolled(DataIn, c)
  BY DEF Unpolled
<1> QED BY <1>1, <1>2 DEF Moves, Quantities

LEMMA MovesOn ==
    ASSUME NEW c \in Connection, NEW d, NEW e,
           NEW x \in Int, NEW y \in Int, NEW z \in Int,
           NEW u \in Int, NEW v \in Int, NEW w \in Int,
           Moves(c, d, x, y, z), Moves(d, e, u, v, w)
    PROVE  Moves(c, e, x + u, y + v, z + w)
<1>1. Quantities(c)
  BY QuantityTypes
<1> QED BY <1>1 DEF Moves, Quantities

\* A packet put at the end of the queue of packets sent, or of the backlog.
LEMMA MovesByOne ==
    ASSUME NEW c \in Connection, NEW d, NEW pkt \in Packet,
           \/ d.out = Append(c.out, pkt) /\ d.backlog = c.backlog
           \/ d.out = c.out /\ d.backlog = Append(c.backlog, pkt),
           d.rendezvous_packets_expected = c.rendezvous_packets_expected
    PROVE  Moves(c, d, 0, AskedIn[pkt], DataIn[pkt])
<1>1. Quantities(c) /\ Queues(c)
  BY QuantityTypes
<1>2. ASSUME NEW w \in Weight
      PROVE  Unpolled(w, d) = Unpolled(w, c) + w[pkt]
  <2> DEFINE f == Weighed(w, c.out)
             g == Weighed(w, c.backlog)
             h == w[pkt]
  <2>1. f \in Nat /\ g \in Nat /\ h \in Nat
    BY <1>1, WeighedType DEF Queues, Weight
  <2>2. \/ Weighed(w, d.out) = f + h /\ Weighed(w, d.backlog) = g
        \/ Weighed(w, d.out) = f /\ Weighed(w, d.backlog) = g + h
    BY <1>1, WeighedAppend DEF Queues
  <2>3. Unpolled(w, c) = f + g
    BY DEF Unpolled
  <2> HIDE DEF f, g, h
  <2>4. Unpolled(w, d) = (f + g) + h
    BY <2>1, <2>2 DEF Unpolled
  <2> QED BY <2>3, <2>4 DEF h
<1> QED BY <1>1, <1>2, WeightTypes DEF Moves, Quantities

LEMMA SendNoopIfNeededStays ==
    ASSUME NEW a \in Nat, NEW r \in Nat, NEW c, End(c, a, r),
           NEW d, d = SendNoopIfNeeded(c)
    PROVE  Moves(c, d, 0, 0, 0)
<1> DEFINE e == CreditsGiven(c)
           q == WithCredits(c, Noop)
<1>1. c \in Connection /\ Paid(c) \in Nat /\ QueuesFit(c)
      /\ c.rendezvous_packets_expected \in Int
  BY EndIsConnection, EndParts DEF RecvTypes
<1>2. CASE ~NoopNeeded(c)
  <2>1. d = c
    BY <1>2 DEF SendNoopIfNeeded
  <2> QED BY <1>1, <2>1, StaysIfSame
<1>3. CASE NoopNeeded(c)
  <2>1. d = Enqueue(ExtSendqSend(e), q)
    BY <1>3 DEF SendNoopIfNeeded, SendNoop
  <2>2. /\ e \in Connection /\ SameSend(c, e) /\ SameRecv(c, e)
        /\ SameQueue(c, e)
    BY <1>1, CreditsGivenFields
  <2>3. q \in Packet /\ q.type = "noop"
    BY <1>1, NoopType, WithCreditsFields
  <2> HIDE DEF e, q
  <2>4. QueuesFit(e)
    BY <1>1, <2>2 DEF QueuesFit, SameQueue
  <2>5. SameSend(e, d) /\ SameRecv(e, d) /\ d.out = Append(e.out, q)
    BY <2>1, <2>2, <2>3, <2>4, PostFields
  <2>6. /\ d.out = Append(c.out, q) /\ d.backlog = c.backlog
        /\ d.rendezvous_packets_expected = c.rendezvous_packets_expected
    BY <2>2, <2>5 DEF SameSend, SameRecv, SameQueue
  <2>7. AskedIn[q] = 0 /\ DataIn[q] = 0
    BY <2>3, WeightTypes
  <2>8. Moves(c, d, 0, AskedIn[q], DataIn[q])
    BY <1>1, <2>3, <2>6, MovesByOne
  <2> QED BY <2>7, <2>8
<1> QED BY <1>2, <1>3

LEMMA FillUpStays ==
    ASSUME NEW c \in Connection, NEW d, d = FillUp(c)
    PROVE  Moves(c, d, 0, 0, 0)
<1>1. /\ SameSend(c, d) /\ SameQueue(c, d)
      /\ d.rendezvous_packets_expected = c.rendezvous_packets_expected
  BY FillUpFields
<1>2. c.rendezvous_packets_expected \in Int
  BY ConnectionParts DEF RecvTypes
<1> QED BY <1>1, <1>2, StaysIfSame DEF SameSend, SameQueue

LEMMA PrepostForRendezvousMoves ==
    ASSUME NEW a \in Nat, NEW r \in Nat, NEW c, End(c, a, r), c.initialized,
           NEW n \in Nat, NEW d, d = PrepostForRendezvous(c, n)
    PROVE  Moves(c, d, n, 0, 0)
<1> DEFINE e == [c EXCEPT !.rendezvous_packets_expected = @ + n]
           f == FillUp(e)
<1>1. c \in Connection
  BY EndIsConnection
<1>2. PICK g : g = e
  OBVIOUS
<1>3. /\ IsRecord(g) /\ SameSend(c, g) /\ SameCredit(c, g) /\ SameQueue(c, g)
  BY <1>1, <1>2 DEF Connection, IsRecord, SameSend, SameCredit, SameQueue
<1>4. /\ g.preposts = c.preposts /\ g.initialized = c.initialized
      /\ g.next_packet_expected = c.next_packet_expected
      /\ g.noop_spent = c.noop_spent
      /\ g.rendezvous_packets_expected = c.rendezvous_packets_expected + n
  BY <1>1, <1>2 DEF Connection
<1>5. d = SendNoopIfNeeded(f)
  BY DEF PrepostForRendezvous
<1> HIDE DEF e
<1>6. RecvTypes(c) /\ CreditTypes(c) /\ c.next_packet_expected > 0
  BY DEF End, RecvOK
<1>7. RecvTypes(g) /\ CreditTypes(g) /\ g.next_packet_expected > 0
  BY <1>3, <1>4, <1>6 DEF RecvTypes, CreditTypes, SameCredit
<1>8. RecvLaw(g) /\ Fresh(g)
  BY <1>3, <1>4 DEF RecvLaw, ReserveOf, Fresh, SameCredit, End, RecvOK
<1>9. End(g, a, r)
  BY <1>3, <1>7, <1>8, SendSideKept DEF RecvOK, SameCredit
<1>10. PICK h : h = FillUp(g)
  OBVIOUS
<1>11. End(h, a, r)
  BY <1>4, <1>9, <1>10, FillUpEnd
<1>12. d = SendNoopIfNeeded(h)
  BY <1>2, <1>5, <1>10 DEF f
<1>13. Moves(c, g, n, 0, 0)
  BY <1>1, <1>3, <1>4, StaysIfSame DEF SameSend, SameQueue
<1>14. Moves(g, h, 0, 0, 0)
  BY <1>9, <1>10, EndIsConnection, FillUpStays
<1>15. Moves(h, d, 0, 0, 0)
  BY <1>11, <1>12, SendNoopIfNeededStays
<1>16. Moves(c, h, n, 0, 0)
  <2>1. Moves(c, h, n + 0, 0 + 0, 0 + 0)
    BY <1>1, <1>13, <1>14, MovesOn
  <2> QED BY <2>1
<1>17. Moves(c, d, n + 0, 0 + 0, 0 + 0)
  BY <1>1, <1>15, <1>16, MovesOn
<1> QED BY <1>17
LEMMA TransmitMoves ==
    ASSUME NEW a \in Nat, NEW r \in Nat, NEW c, End(c, a, r), c.remote_credit # 0,
           NEW pkt \in Packet,
           NEW d, d = Transmit(Numbered(c), pkt)
    PROVE  Moves(c, d, 0, AskedIn[pkt], DataIn[pkt])
<1> DEFINE n == Numbered(c)
           f == CreditsGiven(n)
           g == [f EXCEPT !.remote_credit = @ - 1]
           q == WithCredits(n, pkt)
<1>0. /\ c \in Connection /\ SendTypes(c) /\ QueuesFit(c) /\ Paid(c) \in Nat
      /\ c.remote_credit - 1 \in Nat
  <2>1. c \in Connection /\ SendTypes(c) /\ QueuesFit(c) /\ Paid(c) \in Nat
    BY EndIsConnection, EndParts
  <2>2. c.remote_credit \in Nat
    BY <2>1 DEF SendTypes
  <2> QED BY <2>1, <2>2
<1>1. /\ n \in Connection
      /\ SameRecv(c, n) /\ SameCredit(c, n) /\ SameQueue(c, n)
      /\ n.remote_credit = c.remote_credit /\ n.absorbed = c.absorbed
      /\ n.backlog = c.backlog
      /\ n.next_packet_tosend = c.next_packet_tosend + 1
  BY <1>0, NumberedFields
<1>2. Paid(n) \in Nat
  <2> DEFINE k == c.next_packet_tosend
             j == Len(c.backlog)
  <2>1. k \in Nat /\ j \in Nat
    BY <1>0 DEF SendTypes
  <2>2. Paid(c) = k - 1 - j /\ Paid(n) = (k + 1) - 1 - j
    BY <1>1 DEF Paid
  <2> HIDE DEF k, j
  <2>3. Paid(n) = Paid(c) + 1
    BY <2>1, <2>2
  <2> QED BY <1>0, <2>3
<1>3. q \in Packet /\ q.type = pkt.type /\ q.vbufs = pkt.vbufs
  BY <1>1, <1>2, WithCreditsFields
<1>4. /\ f \in Connection
      /\ SameSend(n, f) /\ SameRecv(n, f) /\ SameQueue(n, f)
  BY <1>1, CreditsGivenFields
<1> HIDE DEF f
<1>5. PICK h : h = g
  OBVIOUS
<1>6. /\ IsRecord(h)
      /\ SameRecv(f, h) /\ SameCredit(f, h) /\ SameQueue(f, h)
  BY <1>4, <1>5 DEF Connection, IsRecord, SameRecv, SameCredit, SameQueue
<1>7. /\ h.remote_credit = f.remote_credit - 1 /\ h.absorbed = f.absorbed
      /\ h.next_packet_tosend = f.next_packet_tosend /\ h.backlog = f.backlog
  BY <1>4, <1>5 DEF Connection
<1>8. d = Enqueue(ExtSendqSend(h), q)
  BY <1>5 DEF Transmit, f
<1> HIDE DEF n, q, g
<1>9. /\ SendTypes(f) /\ RecvTypes(f) /\ CreditTypes(f) /\ QueueTypes(f)
  BY <1>4, ConnectionParts
<1>10. h \in Connection /\ QueuesFit(h)
  <2>1. h.remote_credit \in Nat
    BY <1>0, <1>1, <1>4, <1>7 DEF SameSend
  <2>2. SendTypes(h)
    BY <1>7, <1>9, <2>1 DEF SendTypes
  <2>3. RecvTypes(h) /\ CreditTypes(h) /\ QueueTypes(h)
    BY <1>6, <1>9 DEF RecvTypes, CreditTypes, QueueTypes,
       SameRecv, SameCredit, SameQueue
  <2>4. QueuesFit(h)
    BY <1>0, <1>1, <1>4, <1>6 DEF QueuesFit, SameQueue
  <2> QED BY <1>6, <2>2, <2>3, <2>4, ConnectionParts
<1>11. SameSend(h, d) /\ SameRecv(h, d) /\ d.out = Append(h.out, q)
  BY <1>3, <1>8, <1>10, PostFields
<1>12. /\ d.out = Append(c.out, q) /\ d.backlog = c.backlog
       /\ d.rendezvous_packets_expected = c.rendezvous_packets_expected
  BY <1>1, <1>4, <1>6, <1>7, <1>11 DEF SameSend, SameRecv, SameQueue
<1>13. AskedIn[q] = AskedIn[pkt] /\ DataIn[q] = DataIn[pkt]
  BY <1>3, WeightTypes
<1>14. Moves(c, d, 0, AskedIn[q], DataIn[q])
  BY <1>0, <1>3, <1>12, MovesByOne
<1> QED BY <1>13, <1>14

\* What a packet of this type asks for and delivers.
AskedBy(type, vbufs) == IF type = "reply" THEN vbufs ELSE 0
DataBy(type) == IF type = "r3data" THEN 1 ELSE 0

LEMMA PostSendMoves ==
    ASSUME NEW a \in Nat, NEW r \in Nat, NEW c, End(c, a, r),
           NEW type, NEW last, NEW vbufs, ValidPost(type, last, vbufs),
           NEW d, d = PostSend(c, type, last, vbufs)
    PROVE  Moves(c, d, 0, AskedBy(type, vbufs), DataBy(type))
<1> DEFINE pkt == NewPacket(type, c.next_packet_tosend, last, vbufs)
           t == Transmit(Numbered(c), pkt)
           f == FillUp(t)
           s == SendNoopIfNeeded(f)
           b == [Numbered(c) EXCEPT !.backlog = Append(@, pkt)]
           x == AskedBy(type, vbufs)
           y == DataBy(type)
<1>0. /\ c.next_packet_tosend \in Nat /\ c \in Connection
      /\ type \in PacketType /\ type # "noop" /\ last \in BOOLEAN /\ vbufs \in Nat
      /\ type \in {"start", "reply"} => vbufs \in R3Sizes
  BY EndParts, EndIsConnection DEF SendTypes, ValidPost
<1>1. pkt \in Packet /\ IsCredited(pkt) /\ pkt.id = c.next_packet_tosend
      /\ pkt.type = type /\ pkt.vbufs = vbufs
  BY <1>0, NewPacketType DEF IsCredited
<1>2. /\ c.remote_credit = 0 => d = b
      /\ c.remote_credit # 0 => d = t \/ (c.initialized /\ d = s)
  <2> DEFINE cond == /\ ExtSendqSend(c).send_wqes_avail > 0
                     /\ PrepostThreshold # 0 /\ last /\ c.initialized
  <2>1. d = IF c.remote_credit = 0 THEN b ELSE IF cond THEN s ELSE t
    BY Zenon DEF PostSend
  <2>2. cond => c.initialized
    OBVIOUS
  <2> HIDE DEF cond, b, s, t
  <2>3. CASE c.remote_credit = 0 BY <2>1, <2>3
  <2>4. CASE c.remote_credit # 0 /\ cond BY <2>1, <2>2, <2>4
  <2>5. CASE c.remote_credit # 0 /\ ~cond
    BY <2>1, <2>5
  <2> QED BY <2>3, <2>4, <2>5
<1> HIDE DEF pkt
<1>3. AskedIn[pkt] = x /\ DataIn[pkt] = y /\ x \in Nat /\ y \in Nat
  BY <1>0, <1>1, WeightTypes DEF AskedBy, DataBy
<1> HIDE DEF x, y
<1>4. CASE c.remote_credit = 0
  <2>1. PICK e : e = Numbered(c)
    OBVIOUS
  <2>2. /\ e \in Connection /\ SameRecv(c, e) /\ SameQueue(c, e)
        /\ e.backlog = c.backlog
    BY <1>0, <2>1, NumberedFields
  <2>3. d = [e EXCEPT !.backlog = Append(@, pkt)]
    BY <1>2, <1>4, <2>1
  <2>4. /\ d.out = e.out /\ d.backlog = Append(e.backlog, pkt)
        /\ d.rendezvous_packets_expected = e.rendezvous_packets_expected
    BY <2>2, <2>3 DEF Connection
  <2>5. /\ d.out = c.out /\ d.backlog = Append(c.backlog, pkt)
        /\ d.rendezvous_packets_expected = c.rendezvous_packets_expected
    BY <2>2, <2>4 DEF SameRecv, SameQueue
  <2>6. Moves(c, d, 0, AskedIn[pkt], DataIn[pkt])
    BY <1>0, <1>1, <2>5, MovesByOne
  <2> QED BY <1>3, <2>6 DEF x, y
<1>5. CASE c.remote_credit # 0
  <2>1. /\ End(t, a, r) /\ Keeps(c, t)
        /\ Moves(c, t, 0, AskedIn[pkt], DataIn[pkt])
    BY <1>1, <1>5, TransmitEnd, TransmitMoves
  <2>2. Moves(c, t, 0, x, y)
    BY <1>3, <2>1
  <2> HIDE DEF t
  <2>3. CASE d = t BY <2>2, <2>3 DEF x, y
  <2>4. CASE c.initialized /\ d = s
    <3>1. t.initialized BY <2>1, <2>4 DEF Keeps
    <3>2. End(f, a, r)
      BY <2>1, <3>1, FillUpEnd
    <3>3. Moves(t, f, 0, 0, 0)
      BY <2>1, EndIsConnection, FillUpStays
    <3> HIDE DEF f
    <3>4. Moves(f, d, 0, 0, 0)
      BY <2>4, <3>2, SendNoopIfNeededStays
    <3>5. Moves(c, f, 0, x, y)
      <4>1. Moves(c, f, 0 + 0, x + 0, y + 0)
        BY <1>0, <1>3, <2>2, <3>3, MovesOn
      <4> QED BY <1>3, <4>1
    <3>6. Moves(c, d, 0 + 0, x + 0, y + 0)
      BY <1>0, <1>3, <3>4, <3>5, MovesOn
    <3> QED BY <1>3, <3>6 DEF x, y
  <2> QED BY <1>2, <1>5, <2>3, <2>4
<1> QED BY <1>4, <1>5

LEMMA RecvR3Moves ==
    ASSUME NEW a \in Nat, NEW r \in Nat, NEW c, End(c, a, r), c.initialized,
           NEW n \in R3Sizes, NEW d, d = RecvR3(c, n)
    PROVE  Moves(c, d, n, n, 0)
<1> DEFINE e == PrepostForRendezvous(c, n)
<1>1. n \in Nat
  BY LoadAssumption
<1>2. End(e, a, r) /\ Moves(c, e, n, 0, 0)
  BY <1>1, PrepostForRendezvousEnd, PrepostForRendezvousMoves
<1>3. d = PostSend(e, "reply", FALSE, n)
  BY DEF RecvR3
<1> HIDE DEF e
<1>4. ValidPost("reply", FALSE, n)
  BY <1>1 DEF ValidPost, PacketType
<1>5. Moves(e, d, 0, AskedBy("reply", n), DataBy("reply"))
  BY <1>2, <1>3, <1>4, PostSendMoves
<1>6. Moves(e, d, 0, n, 0)
  BY <1>5 DEF AskedBy, DataBy
<1>7. Moves(c, d, n + 0, 0 + n, 0 + 0)
  BY <1>1, <1>2, <1>6, EndIsConnection, MovesOn
<1> QED BY <1>1, <1>7

-----------------------------------------------------------------------------
(* A burst off the backlog moves packets and changes none.                  *)

LEMMA BurstWeighs ==
    ASSUME NEW n, NEW b, NEW g, NEW l, NEW m, NEW rc,
           BurstArguments(n, b, g, l, m, rc),
           NEW s, s = Burst(n, b, g, l, m, rc), NEW w \in {AskedIn, DataIn}
    PROVE  SameWeights(w, s, SubSeq(b, 1, n))
<1> DEFINE t == SubSeq(b, 1, n)
<1> USE DEF BurstArguments
<1>1. n \in Nat /\ Len(s) = n /\ s \in Seq(Packet)
  BY BurstStamped DEF IsBurst
<1>2. Len(t) = n /\ \A i \in 1 .. n : t[i] = b[i]
  OBVIOUS
<1>3. ASSUME NEW i \in 1 .. n
      PROVE  w[s[i]] = w[t[i]]
  <2>1. b[i] \in Packet /\ s[i] \in Packet
    BY <1>1
  <2>2. s[i] = [b[i] EXCEPT !.vbuf_credit = IF i = 1 THEN l ELSE 0,
                            !.remote_credit = rc - (i - 1),
                            !.upto = g + l,
                            !.sent = (m + 1) + i - 1]
    BY DEF Burst
  <2>3. s[i].type = b[i].type /\ s[i].vbufs = b[i].vbufs
    BY <2>1, <2>2 DEF Packet
  <2>4. t[i] = b[i]
    BY <1>2
  <2> QED BY <2>1, <2>3, <2>4, WeightTypes
<1> HIDE DEF t
<1>4. SameWeights(w, s, t)
  BY <1>1, <1>2, <1>3 DEF SameWeights
<1> QED BY <1>4 DEF t

LEMMA SplitBacklog ==
    ASSUME NEW b \in Seq(Packet), NEW n \in Nat, n <= Len(b)
    PROVE  /\ SubSeq(b, 1, n) \in Seq(Packet)
           /\ SubSeq(b, n + 1, Len(b)) \in Seq(Packet)
           /\ SubSeq(b, 1, n) \o SubSeq(b, n + 1, Len(b)) = b
<1> DEFINE s == SubSeq(b, 1, n)
           t == SubSeq(b, n + 1, Len(b))
           k == Len(b)
<1>1. /\ s \in Seq(Packet) /\ Len(s) = n /\ \A i \in 1 .. n : s[i] = b[i]
      /\ k \in Nat
  OBVIOUS
<1>2. /\ t \in Seq(Packet) /\ Len(t) = k - n
      /\ \A i \in 1 .. k - n : t[i] = b[n + i]
  OBVIOUS
<1> HIDE DEF s, t
<1>3. /\ s \o t \in Seq(Packet) /\ Len(s \o t) = Len(s) + Len(t)
      /\ \A i \in 1 .. Len(s) : (s \o t)[i] = s[i]
      /\ \A i \in 1 .. Len(t) : (s \o t)[Len(s) + i] = t[i]
  BY <1>1, <1>2, ConcatNumbers
<1> DEFINE u == s \o t
<1>4. /\ u \in Seq(Packet) /\ Len(u) = k
      /\ \A i \in 1 .. n : u[i] = b[i]
      /\ \A i \in 1 .. k - n : u[n + i] = t[i]
  BY <1>1, <1>2, <1>3
<1> HIDE DEF u, k
<1>5. ASSUME NEW i \in 1 .. k PROVE u[i] = b[i]
  <2>1. CASE i \in 1 .. n
    BY <1>4, <2>1
  <2>2. CASE i \notin 1 .. n
    <3>1. PICK j \in 1 .. k - n : i = n + j
      <4>1. i - n \in 1 .. k - n /\ i = n + (i - n)
        BY <1>1, <2>2
      <4> QED BY <4>1
    <3>2. u[n + j] = t[j]
      BY <1>4, Zenon
    <3>3. t[j] = b[n + j]
      BY <1>2, Zenon
    <3> QED BY <3>1, <3>2, <3>3
  <2> QED BY <2>1, <2>2
<1>6. u = b
  BY <1>4, <1>5 DEF k
<1> QED BY <1>1, <1>2, <1>6 DEF s, t, u

LEMMA BacklogSendStays ==
    ASSUME NEW a \in Nat, NEW r \in Nat, NEW c, Unspent(c, a, r),
           NEW d, d = BacklogSend(c)
    PROVE  Moves(c, d, 0, 0, 0)
<1> DEFINE b == c.backlog
           n == AtMost(Len(b), c.remote_credit)
           m == c.next_packet_tosend - Len(b) - 1
           s == Burst(n, b, c.granted, c.local_credit, m, c.remote_credit)
<1>0. /\ c \in Connection /\ SendTypes(c) /\ CreditTypes(c) /\ Numbering(c)
      /\ c.rendezvous_packets_expected \in Int /\ Queues(c)
  <2>1. c \in Connection
    BY ConnectionParts DEF Unspent, RecvOK, QueueOK
  <2> QED BY <2>1, ConnectionParts, QuantityTypes DEF Unspent, Quantities
<1>1. /\ Len(b) \in Nat /\ c.remote_credit \in Nat /\ b \in Seq(Packet)
      /\ c.granted \in Nat /\ c.local_credit \in Nat
      /\ c.next_packet_tosend \in Nat /\ Len(b) < c.next_packet_tosend
  BY <1>0 DEF SendTypes, CreditTypes, Numbering
<1>2. n \in Nat /\ n <= Len(b) /\ n <= c.remote_credit
  <2> DEFINE i == Len(b)
             j == c.remote_credit
  <2>1. i \in Nat /\ j \in Nat /\ n = AtMost(i, j)
    BY <1>1
  <2> HIDE DEF n, i, j
  <2>2. n \in Nat /\ n <= i /\ n <= j
    BY <2>1, AtMostIsLeast
  <2> QED BY <2>2 DEF i, j
<1>3. CASE n = 0
  <2>1. d = c
    BY <1>3, Zenon DEF BacklogSend
  <2> QED BY <1>0, <2>1, StaysIfSame
<1>4. CASE n # 0
  <2>1. BacklogSent(c, n, d)
    <3>1. n = AtMost(Len(c.backlog), c.remote_credit)
      OBVIOUS
    <3> HIDE DEF n
    <3> QED BY <1>0, <1>4, <3>1, BacklogSendFields
  <2>2. m \in Nat /\ m = Paid(c)
    BY <1>1 DEF Paid
  <2>3. NumberedFrom(b, m)
    <3> HIDE DEF m
    <3> QED BY <1>0, <2>2 DEF Numbering, NumberedFrom
  <2> HIDE DEF n, m
  <2>4. BurstArguments(n, b, c.granted, c.local_credit, m, c.remote_credit)
    BY <1>1, <1>2, <1>4, <2>2, <2>3 DEF BurstArguments
  <2> DEFINE t == SubSeq(b, 1, n)
             u == SubSeq(b, n + 1, Len(b))
  <2>5. t \in Seq(Packet) /\ u \in Seq(Packet) /\ t \o u = b
    BY <1>1, <1>2, SplitBacklog
  <2>6. s \in Seq(Packet) /\ SameWeights(AskedIn, s, t) /\ SameWeights(DataIn, s, t)
    BY <2>4, BurstStamped, BurstWeighs DEF IsBurst
  <2>7. /\ d.out = c.out \o s /\ d.backlog = u
        /\ d.rendezvous_packets_expected = c.rendezvous_packets_expected
    BY <2>1 DEF BacklogSent, SameRecv, m
  <2>8. c.out \in Seq(Packet)
    BY <1>0 DEF Queues
  <2> HIDE DEF s, t, u, b
  <2>9. ASSUME NEW w \in {AskedIn, DataIn}
        PROVE  Unpolled(w, d) = Unpolled(w, c)
    <3> DEFINE x == Weighed(w, c.out)
               y == Weighed(w, t)
               z == Weighed(w, u)
    <3>1. w \in Weight
      BY WeightTypes
    <3>2. x \in Nat /\ y \in Nat /\ z \in Nat
      BY <2>5, <2>8, <3>1, WeighedType
    <3>3. Weighed(w, s) = y
      BY <2>5, <2>6, <3>1, WeighedSame
    <3>4. Weighed(w, c.backlog) = y + z
      BY <2>5, <3>1, WeighedConcat DEF b
    <3>5. Weighed(w, d.out) = x + y /\ Weighed(w, d.backlog) = z
      BY <2>6, <2>7, <2>8, <3>1, <3>3, WeighedConcat
    <3> HIDE DEF x, y, z
    <3>6. Unpolled(w, d) = (x + y) + z
      BY <3>5 DEF Unpolled
    <3>7. Unpolled(w, c) = x + (y + z)
      BY <3>4 DEF Unpolled, x
    <3> QED BY <3>2, <3>6, <3>7
  <2>10. Quantities(c)
    BY <1>0, QuantityTypes
  <2> QED BY <2>7, <2>9, <2>10 DEF Moves, Quantities
<1> QED BY <1>3, <1>4
-----------------------------------------------------------------------------
(* Receiving a packet.                                                      *)

Kept(c, d) ==
    /\ IsRecord(d) /\ d.out = c.out /\ d.backlog = c.backlog
    /\ d.rendezvous_packets_expected = c.rendezvous_packets_expected

LEMMA FillUpKeeps ==
    ASSUME NEW c, IsRecord(c), NEW d, d = FillUp(c)
    PROVE  Kept(c, d)
<1> DEFINE target == AtMost(RqSize, Needed(c))
<1>1. d = Prepost(c, target - c.preposts) \/ d = c
  BY DEF FillUp
<1> HIDE DEF target
<1>2. CASE d = c
  BY <1>2 DEF Kept
<1>3. CASE d = Prepost(c, target - c.preposts)
  BY <1>3 DEF Kept, IsRecord, Prepost
<1> QED BY <1>1, <1>2, <1>3

LEMMA ReplenishKeeps ==
    ASSUME NEW c \in Connection, NEW pkt, NEW mpiInit,
           NEW e, e = [c EXCEPT !.next_packet_expected =
                                   IF IsCredited(pkt) THEN @ + 1 ELSE @],
           NEW d, d = Replenish(e, pkt, mpiInit)
    PROVE  Kept(c, d)
<1>1. PICK f : f = [e EXCEPT !.preposts = @ - 1]
  OBVIOUS
<1>2. Consumed(c, f, Count(pkt))
  BY <1>1, ConsumedFields
<1>3. Kept(c, f)
  BY <1>2 DEF Consumed, Kept, SameSend, SameQueue
<1>4. \/ d = Repost(f, pkt) \/ d = Initialize(f, pkt) \/ d = NoopSpent(f, pkt)
  <2> DEFINE g == [e EXCEPT !.preposts = @ - 1]
  <2>1. \/ d = Repost(g, pkt) \/ d = Initialize(g, pkt) \/ d = NoopSpent(g, pkt)
    BY DEF Replenish
  <2> QED BY <1>1, <2>1, Zenon
<1>5. IsRecord(f)
  BY <1>3 DEF Kept
<1>6. ASSUME NEW g, g = NoopSpent(f, pkt)
      PROVE  Kept(f, g)
  BY <1>5, <1>6 DEF NoopSpent, Kept, IsRecord
<1>7. CASE d = Repost(f, pkt)
  <2>1. d = [f EXCEPT !.preposts = @ + 1] \/ d = FillUp(f) \/ d = f
    BY <1>7 DEF Repost
  <2>2. CASE d = [f EXCEPT !.preposts = @ + 1]
    <3>1. Kept(f, d)
      BY <1>5, <2>2 DEF Kept, IsRecord
    <3> QED BY <1>3, <3>1 DEF Kept
  <2>3. CASE d = FillUp(f)
    <3>1. Kept(f, d)
      BY <1>5, <2>3, FillUpKeeps
    <3> QED BY <1>3, <3>1 DEF Kept
  <2> QED BY <1>3, <2>1, <2>2, <2>3
<1>8. CASE d = Initialize(f, pkt)
  <2>1. PICK g : g = NoopSpent(f, pkt)
    OBVIOUS
  <2>2. PICK h : h = [g EXCEPT !.preposts = @ + UncreditedPosts]
    OBVIOUS
  <2>3. PICK i : i = FillUp(h)
    OBVIOUS
  <2>4. d = [i EXCEPT !.initialized = TRUE]
    BY <1>8, <2>1, <2>2, <2>3 DEF Initialize
  <2>5. Kept(f, g)
    BY <1>6, <2>1
  <2>6. Kept(g, h)
    BY <2>2, <2>5 DEF Kept, IsRecord
  <2>7. Kept(h, i)
    BY <2>3, <2>6, FillUpKeeps DEF Kept
  <2>8. Kept(i, d)
    BY <2>4, <2>7 DEF Kept, IsRecord
  <2> QED BY <1>3, <2>5, <2>6, <2>7, <2>8 DEF Kept
<1>9. CASE d = NoopSpent(f, pkt)
  <2>1. Kept(f, d)
    BY <1>6, <1>9
  <2> QED BY <1>3, <2>1 DEF Kept
<1> QED BY <1>4, <1>7, <1>8, <1>9

LEMMA AcceptStays ==
    ASSUME NEW a \in Nat, NEW r \in Nat, NEW c, End(c, a, r), c.preposts > 0,
           NEW pkt \in Packet, NEW mpiInit \in BOOLEAN,
           ~c.initialized /\ ~mpiInit => IsCredited(pkt),
           NEW d, d = Accept(c, pkt, mpiInit)
    PROVE  Moves(c, d, 0, 0, 0)
<1>0. c \in Connection /\ c.rendezvous_packets_expected \in Int
  BY EndIsConnection, EndParts DEF RecvTypes
<1>1. PICK e : e = [c EXCEPT !.next_packet_expected =
                                IF IsCredited(pkt) THEN @ + 1 ELSE @]
  OBVIOUS
<1>2. PICK f : f = Replenish(e, pkt, mpiInit)
  OBVIOUS
<1>3. PICK g : g = ReplenishR3(f, pkt)
  OBVIOUS
<1>4. d = AbsorbCredits(g, pkt)
  BY <1>1, <1>2, <1>3 DEF Accept, HandleFlowControlSR
<1>5. End(f, a, r)
  BY <1>1, <1>2, ReplenishEnd
<1>6. Moves(c, f, 0, 0, 0)
  <2>1. Kept(c, f)
    BY <1>0, <1>1, <1>2, ReplenishKeeps
  <2> QED BY <1>0, <2>1, StaysIfSame DEF Kept
<1>7. End(g, a, r)
  BY <1>3, <1>5, ReplenishR3End
<1>8. Moves(f, g, 0, 0, 0)
  <2>0. f \in Connection /\ RecvTypes(f) /\ Fresh(f)
    BY <1>5, EndIsConnection DEF End, RecvOK
  <2>1. CASE pkt.type = "r3data" /\ f.rendezvous_packets_expected > 0
    <3>1. f.initialized
      BY <2>0, <2>1 DEF Fresh, RecvTypes
    <3>2. g = PrepostForRendezvous(f, 0)
      BY <1>3, <2>1 DEF ReplenishR3
    <3> QED BY <1>5, <3>1, <3>2, PrepostForRendezvousMoves
  <2>2. CASE ~(pkt.type = "r3data" /\ f.rendezvous_packets_expected > 0)
    <3>1. g = f
      BY <1>3, <2>2 DEF ReplenishR3
    <3> QED BY <2>0, <3>1, StaysIfSame DEF RecvTypes
  <2> QED BY <2>1, <2>2
<1>9. Moves(g, d, 0, 0, 0)
  <2>0. /\ g \in Connection /\ g.rendezvous_packets_expected \in Int
    BY <1>7, EndIsConnection, EndParts DEF RecvTypes
  <2> DEFINE v == pkt.vbuf_credit
  <2>1. PICK h : h = [g EXCEPT !.remote_cc = pkt.remote_credit,
                               !.remote_credit = @ + v,
                               !.absorbed = @ + v]
    OBVIOUS
  <2>2. d = BacklogSend(h) \/ d = h
    BY <1>4, <2>1 DEF AbsorbCredits
  <2>3. Unspent(h, a, r)
    BY <1>7, <2>1, TookInUnspent
  <2>4. Moves(g, h, 0, 0, 0)
    <3>1. /\ h.out = g.out /\ h.backlog = g.backlog
          /\ h.rendezvous_packets_expected = g.rendezvous_packets_expected
      BY <2>0, <2>1 DEF Connection
    <3> QED BY <2>0, <3>1, StaysIfSame
  <2>5. CASE d = h
    BY <2>4, <2>5
  <2>6. CASE d = BacklogSend(h)
    <3>1. Moves(h, d, 0, 0, 0)
      BY <2>3, <2>6, BacklogSendStays
    <3>2. Moves(g, d, 0 + 0, 0 + 0, 0 + 0)
      BY <2>0, <2>4, <3>1, MovesOn
    <3> QED BY <3>2
  <2> QED BY <2>2, <2>5, <2>6
<1>10. Moves(c, g, 0 + 0, 0 + 0, 0 + 0)
  BY <1>0, <1>6, <1>8, MovesOn
<1>11. Moves(c, g, 0, 0, 0)
  BY <1>10
<1>12. Moves(c, d, 0 + 0, 0 + 0, 0 + 0)
  BY <1>0, <1>9, <1>11, MovesOn
<1> QED BY <1>12

\* What the dispatch on the packet type makes this side expect and ask for.
Expects(pkt, found) ==
    IF pkt.type = "start" /\ found THEN pkt.vbufs
    ELSE IF pkt.type = "r3data" THEN -1 ELSE 0
Asks(pkt, found) == IF pkt.type = "start" /\ found THEN pkt.vbufs ELSE 0

LEMMA DispatchMoves ==
    ASSUME NEW a \in Nat, NEW r \in Nat, NEW c, End(c, a, r), NEW pkt \in Packet,
           NEW found, pkt.type = "start" => c.initialized,
           NEW d, d = Dispatch(c, pkt, found)
    PROVE  Moves(c, d, Expects(pkt, found), Asks(pkt, found), 0)
<1>0. c \in Connection /\ c.rendezvous_packets_expected \in Int
  BY EndIsConnection, EndParts DEF RecvTypes
<1>1. CASE pkt.type = "start" /\ found
  <2>1. d = RecvR3(c, pkt.vbufs)
    BY <1>1 DEF Dispatch
  <2>2. pkt.vbufs \in R3Sizes
    BY <1>1, PacketFields
  <2>3. Moves(c, d, pkt.vbufs, pkt.vbufs, 0)
    BY <1>1, <2>1, <2>2, RecvR3Moves
  <2> QED BY <1>1, <2>3 DEF Expects, Asks
<1>2. CASE pkt.type = "r3data"
  <2>1. d = [c EXCEPT !.rendezvous_packets_expected = @ - 1]
    BY <1>2 DEF Dispatch
  <2>2. /\ d.out = c.out /\ d.backlog = c.backlog
        /\ d.rendezvous_packets_expected = c.rendezvous_packets_expected - 1
    BY <1>0, <2>1 DEF Connection
  <2>3. d.rendezvous_packets_expected = c.rendezvous_packets_expected + (-1)
    BY <1>0, <2>2
  <2>4. Moves(c, d, -1, 0, 0)
    BY <1>0, <2>2, <2>3, StaysIfSame
  <2> QED BY <1>2, <2>4 DEF Expects, Asks
<1>3. CASE ~(pkt.type = "start" /\ found) /\ pkt.type # "r3data"
  <2>1. d = c
    BY <1>3 DEF Dispatch
  <2>2. Moves(c, d, 0, 0, 0)
    BY <1>0, <2>1, StaysIfSame
  <2> QED BY <1>3, <2>2 DEF Expects, Asks
<1> QED BY <1>1, <1>2, <1>3

LEMMA ReceivePacketMoves ==
    ASSUME NEW a \in Nat, NEW r \in Nat, NEW c, End(c, a, r), c.preposts > 0,
           NEW pkt \in Packet, NEW found, NEW mpiInit \in BOOLEAN,
           ~c.initialized /\ ~mpiInit => IsCredited(pkt),
           NEW d, d = ReceivePacket(c, pkt, found, mpiInit)
    PROVE  Moves(c, d, Expects(pkt, found), Asks(pkt, found), 0)
<1> DEFINE x == Expects(pkt, found)
           y == Asks(pkt, found)
<1>0. c \in Connection
  BY EndIsConnection
<1>1. PICK e : e = Accept(c, pkt, mpiInit)
  OBVIOUS
<1>2. PICK f : f = Dispatch(e, pkt, found)
  OBVIOUS
<1>3. d = SendNoopIfNeeded(f)
  BY <1>1, <1>2 DEF ReceivePacket
<1>4. End(e, a, r) /\ Received(c, e, pkt, mpiInit)
  BY <1>1, AcceptEnd
<1>5. Moves(c, e, 0, 0, 0)
  BY <1>1, AcceptStays
<1>6. pkt.type = "start" => e.initialized
  BY <1>4 DEF Received
<1>7. End(f, a, r) /\ Moves(e, f, x, y, 0)
  BY <1>2, <1>4, <1>6, DispatchEnd, DispatchMoves
<1>8. Moves(f, d, 0, 0, 0)
  BY <1>3, <1>7, SendNoopIfNeededStays
<1>9. x \in Int /\ y \in Int
  BY PacketFields DEF Expects, Asks
<1> HIDE DEF x, y
<1>10. Moves(c, f, 0 + x, 0 + y, 0 + 0)
  BY <1>0, <1>5, <1>7, <1>9, MovesOn
<1>11. Moves(c, f, x, y, 0)
  BY <1>9, <1>10
<1>12. Moves(c, d, x + 0, y + 0, 0 + 0)
  BY <1>0, <1>8, <1>9, <1>11, MovesOn
<1> QED BY <1>9, <1>12 DEF x, y
-----------------------------------------------------------------------------
(* RendezvousAccount is kept.                                               *)

\* q expects what p has been asked for.
Account(p) ==
    conn[Peer(p)].rendezvous_packets_expected =
        (Unpolled(AskedIn, conn[Peer(p)]) + SumFunction(app[p].shandles))
        + Unpolled(DataIn, conn[p])

LEMMA AccountOfEach ==
    RendezvousAccount <=> \A p \in Proc : Account(p)
BY DEF RendezvousAccount, Account

LEMMA TransferSum ==
    ASSUME NEW a \in App
    PROVE  a.shandles \in Seq(Nat) /\ SumFunction(a.shandles) \in Nat
<1>1. a.shandles \in Seq(Nat \ {0})
  BY AppFields
<1>2. a.shandles \in Seq(Nat)
  BY <1>1
<1> QED BY <1>2, SeqSumType

\* From a to e the transfers have lost z packets.
Ships(a, e, z) == SumFunction(a.shandles) = SumFunction(e.shandles) + z

\* A step of p: what it makes its own side expect it asks for, and what it
\* takes off its transfers it sends.
LEMMA OwnAccount ==
    ASSUME IInv, RendezvousAccount, NEW p \in Proc, NEW d, NEW e \in App,
           NEW x \in Int, NEW z \in Int, Moves(conn[p], d, x, x, z),
           Ships(app[p], e, z),
           SetConn(p, d), SetApp(p, e)
    PROVE  RendezvousAccount'
<1> DEFINE q == Peer(p)
<1>1. q \in Proc /\ q # p /\ Peer(q) = p /\ \A y \in Proc : y = p \/ y = q
  BY PeerFacts
<1>2. /\ conn \in [Proc -> Connection] /\ app \in [Proc -> App]
  BY DEF IInv, TypeOK
<1>3. /\ conn'[p] = d /\ conn'[q] = conn[q]
      /\ app'[p] = e /\ app'[q] = app[q]
  BY <1>1, <1>2 DEF SetConn, SetApp
<1>4. Account(p) /\ Account(q)
  BY <1>1, AccountOfEach
<1>5. Quantities(conn[p]) /\ Quantities(conn[q])
  BY <1>1, <1>2, QuantityTypes
<1> HIDE DEF q
<1> DEFINE s == SumFunction(app[p].shandles)
           t == SumFunction(app[q].shandles)
           u == SumFunction(e.shandles)
<1>6. s \in Nat /\ t \in Nat /\ u \in Nat
  BY <1>1, <1>2, TransferSum
<1> DEFINE i == conn[p].rendezvous_packets_expected
           j == conn[q].rendezvous_packets_expected
           f == Unpolled(AskedIn, conn[p])
           g == Unpolled(AskedIn, conn[q])
           h == Unpolled(DataIn, conn[p])
           k == Unpolled(DataIn, conn[q])
<1>7. /\ j = (g + s) + h /\ i = (f + t) + k
  BY <1>1, <1>4 DEF Account, q
<1>8. /\ i \in Int /\ j \in Int /\ f \in Nat /\ g \in Nat /\ h \in Nat /\ k \in Nat
  BY <1>5 DEF Quantities
<1>9. /\ d.rendezvous_packets_expected = i + x
      /\ Unpolled(AskedIn, d) = f + x /\ Unpolled(DataIn, d) = h + z
  BY DEF Moves
<1>10. s = u + z
  BY DEF Ships
<1> DEFINE h2 == h + z
           i2 == i + x
           f2 == f + x
<1>11. Account(p)' <=> j = (g + u) + h2
  BY <1>1, <1>3, <1>9 DEF Account, q
<1>12. Account(q)' <=> i2 = (f2 + t) + k
  BY <1>1, <1>3, <1>9 DEF Account, q
<1> HIDE DEF s, t, u, i, j, f, g, h, k
<1>13. j = (g + u) + h2
  BY <1>6, <1>7, <1>8, <1>10
<1>14. i2 = (f2 + t) + k
  BY <1>6, <1>7, <1>8
<1> HIDE DEF h2, i2, f2
<1>15. Account(p)' /\ Account(q)'
  BY <1>11, <1>12, <1>13, <1>14
<1>16. \A y \in Proc : Account(y)'
  BY <1>1, <1>15
<1> QED BY <1>16 DEF RendezvousAccount, Account
\* The same when nothing is expected, asked for or sent.
LEMMA StillAccount ==
    ASSUME IInv, RendezvousAccount, NEW p \in Proc, NEW d, NEW e \in App,
           Moves(conn[p], d, 0, 0, 0), e.shandles = app[p].shandles,
           SetConn(p, d), SetApp(p, e)
    PROVE  RendezvousAccount'
<1>1. SumFunction(e.shandles) \in Nat
  BY TransferSum
<1>2. Ships(app[p], e, 0)
  BY <1>1 DEF Ships
<1> QED BY <1>2, OwnAccount

LEMMA EagerPostAccount ==
    ASSUME IInv, RendezvousAccount, NEW p \in Proc, NEW a \in App,
           a.shandles = app[p].shandles, NEW left \in Nat, left > 0,
           EagerPost(p, a, left)
    PROVE  RendezvousAccount'
<1>1. /\ conn[Peer(p)].absorbed \in Nat
      /\ conn[Peer(p)].next_packet_expected - 1 \in Nat /\ EndOK(p)
  BY AbsorbedTypes
<1>2. PICK d : d = PostSend(conn[p], "eager", left = 1, 0)
  OBVIOUS
<1>3. PICK e : e = [a EXCEPT !.left = left - 1,
                             !.pc = IF left = 1 THEN "idle" ELSE "eager"]
  OBVIOUS
<1>4. SetConn(p, d) /\ SetApp(p, e)
  BY <1>2, <1>3 DEF EagerPost
<1>5. ValidPost("eager", left = 1, 0)
  BY DEF ValidPost, PacketType
<1>6. Moves(conn[p], d, 0, AskedBy("eager", 0), DataBy("eager"))
  BY <1>1, <1>2, <1>5, PostSendMoves DEF EndOK
<1>7. Moves(conn[p], d, 0, 0, 0)
  BY <1>6 DEF AskedBy, DataBy
<1>8. e \in App /\ e.shandles = app[p].shandles
  <2>1. /\ e = [initialized |-> e.initialized, sends |-> e.sends,
                unexpected |-> e.unexpected, shandles |-> e.shandles,
                inflow |-> e.inflow, pc |-> e.pc, left |-> e.left]
        /\ e.left = left - 1 /\ e.initialized = a.initialized
        /\ e.unexpected = a.unexpected /\ e.sends = a.sends
        /\ e.shandles = a.shandles /\ e.inflow = a.inflow
        /\ e.pc = IF left = 1 THEN "idle" ELSE "eager"
    BY <1>3 DEF App
  <2>2. e.left \in Nat /\ e.pc \in {"idle", "eager", "push"}
    BY <2>1
  <2>3. /\ a.initialized \in BOOLEAN /\ a.sends \in Nat
        /\ a.unexpected \in [R3Sizes -> Nat]
        /\ a.shandles \in Seq(Nat \ {0}) /\ a.inflow \in BOOLEAN
    BY AppFields
  <2> QED BY <2>1, <2>2, <2>3, AppFields
<1> QED BY <1>4, <1>7, <1>8, StillAccount

LEMMA EagerSendAccount ==
    ASSUME IInv, RendezvousAccount, NEW p \in Proc, EagerSend(p)
    PROVE  RendezvousAccount'
<1>1. PICK n \in EagerSizes :
         EagerPost(p, [app[p] EXCEPT !.sends = @ + 1], n)
  BY DEF EagerSend
<1>2. n \in Nat /\ n > 0
  BY LoadAssumption
<1>3. PICK a : a = [app[p] EXCEPT !.sends = @ + 1]
  OBVIOUS
<1>4. app[p] \in App
  BY AbsorbedTypes
<1>5. a \in App /\ a.shandles = app[p].shandles
  BY <1>3, <1>4, CountSend
<1> QED BY <1>1, <1>2, <1>3, <1>5, EagerPostAccount

LEMMA EagerContinueAccount ==
    ASSUME IInv, RendezvousAccount, NEW p \in Proc, EagerContinue(p)
    PROVE  RendezvousAccount'
<1>1. app[p] \in App /\ AppOK(app[p], conn[p])
  BY AbsorbedTypes
<1>2. /\ app[p].left \in Nat /\ app[p].left > 0
      /\ EagerPost(p, app[p], app[p].left)
  BY <1>1, AppFields DEF AppOK, EagerContinue
<1> QED BY <1>1, <1>2, EagerPostAccount

LEMMA RendezvousStartAccount ==
    ASSUME IInv, RendezvousAccount, NEW p \in Proc, RendezvousStart(p)
    PROVE  RendezvousAccount'
<1>0. /\ conn[Peer(p)].absorbed \in Nat
      /\ conn[Peer(p)].next_packet_expected - 1 \in Nat
      /\ EndOK(p) /\ app[p] \in App
  BY AbsorbedTypes
<1>1. PICK n \in R3Sizes : SetConn(p, PostSend(conn[p], "start", FALSE, n))
  BY DEF RendezvousStart
<1>2. PICK d : d = PostSend(conn[p], "start", FALSE, n)
  OBVIOUS
<1>3. PICK e : e = [app[p] EXCEPT !.sends = @ + 1]
  OBVIOUS
<1>4. SetConn(p, d) /\ SetApp(p, e)
  BY <1>1, <1>2, <1>3 DEF RendezvousStart
<1>5. e \in App /\ e.shandles = app[p].shandles
  BY <1>0, <1>3, CountSend
<1>6. ValidPost("start", FALSE, n)
  BY LoadAssumption DEF ValidPost, PacketType
<1>7. Moves(conn[p], d, 0, AskedBy("start", n), DataBy("start"))
  BY <1>0, <1>2, <1>6, PostSendMoves DEF EndOK
<1>8. Moves(conn[p], d, 0, 0, 0)
  BY <1>7 DEF AskedBy, DataBy
<1> QED BY <1>4, <1>5, <1>8, StillAccount

LEMMA MatchUnexpectedAccount ==
    ASSUME IInv, RendezvousAccount, NEW p \in Proc, MatchUnexpected(p)
    PROVE  RendezvousAccount'
<1>0. /\ conn[Peer(p)].absorbed \in Nat
      /\ conn[Peer(p)].next_packet_expected - 1 \in Nat
      /\ EndOK(p) /\ AppOK(app[p], conn[p]) /\ app[p] \in App
  BY AbsorbedTypes
<1>1. PICK n \in R3Sizes :
         /\ app[p].unexpected[n] > 0
         /\ SetApp(p, [app[p] EXCEPT !.unexpected[n] = @ - 1])
         /\ SetConn(p, RecvR3(conn[p], n))
  BY DEF MatchUnexpected
<1>2. PICK d : d = RecvR3(conn[p], n)
  OBVIOUS
<1>3. PICK e : e = [app[p] EXCEPT !.unexpected[n] = @ - 1]
  OBVIOUS
<1>4. SetConn(p, d) /\ SetApp(p, e) /\ conn[p].initialized
  BY <1>0, <1>1, <1>2, <1>3 DEF AppOK
<1>5. e \in App /\ e.shandles = app[p].shandles
  <2>1. app[p].unexpected[n] \in Nat
    BY <1>0 DEF App
  <2>2. app[p].unexpected[n] - 1 \in Nat
    BY <1>1, <2>1
  <2> QED BY <1>0, <1>3, <2>2 DEF App
<1>6. Moves(conn[p], d, n, n, 0)
  BY <1>0, <1>2, <1>4, RecvR3Moves DEF EndOK
<1>7. Ships(app[p], e, 0)
  BY <1>5, TransferSum DEF Ships
<1>8. n \in Int
  BY LoadAssumption
<1> QED BY <1>4, <1>5, <1>6, <1>7, <1>8, OwnAccount

LEMMA RendezvousPushAccount ==
    ASSUME IInv, RendezvousAccount, NEW p \in Proc, RendezvousPush(p)
    PROVE  RendezvousAccount'
<1>0. /\ conn[Peer(p)].absorbed \in Nat
      /\ conn[Peer(p)].next_packet_expected - 1 \in Nat
      /\ EndOK(p) /\ app[p] \in App
  BY AbsorbedTypes
<1> DEFINE s == app[p].shandles
           n == Head(s)
           t == Tail(s)
           rest == IF n = 1 THEN t ELSE << n - 1 >> \o t
<1>1. PICK d : d = PostSend(conn[p], "r3data", n = 1, 0)
  OBVIOUS
<1>2. PICK e : e = [app[p] EXCEPT !.pc = "push", !.shandles = rest]
  OBVIOUS
<1>3. SetConn(p, d) /\ SetApp(p, e) /\ s # << >>
  BY <1>1, <1>2 DEF RendezvousPush, CanPush
<1>4. /\ s \in Seq(Nat \ {0}) /\ s \in Seq(Nat)
      /\ n \in Nat \ {0} /\ t \in Seq(Nat \ {0}) /\ t \in Seq(Nat)
  <2>1. s \in Seq(Nat \ {0}) /\ s \in Seq(Nat)
    BY <1>0, AppFields, TransferSum
  <2>2. n \in Nat \ {0} /\ t \in Seq(Nat \ {0}) /\ t \in Seq(Nat)
    BY <1>3, <2>1
  <2> QED BY <2>1, <2>2
<1>5. ValidPost("r3data", n = 1, 0)
  BY DEF ValidPost, PacketType
<1>6. Moves(conn[p], d, 0, AskedBy("r3data", 0), DataBy("r3data"))
  BY <1>0, <1>1, <1>5, PostSendMoves DEF EndOK
<1>7. Moves(conn[p], d, 0, 0, 1)
  BY <1>6 DEF AskedBy, DataBy
<1>8. SumFunction(s) = n + SumFunction(t) /\ SumFunction(t) \in Nat
  <2> HIDE DEF s
  <2> QED BY <1>3, <1>4, SumTail, SeqSumType
<1> HIDE DEF n, t
<1>9. rest \in Seq(Nat \ {0}) /\ SumFunction(rest) = (n - 1) + SumFunction(t)
  <2>1. CASE n = 1
    <3>1. rest = t
      BY <2>1
    <3> QED BY <1>4, <1>8, <2>1, <3>1
  <2>2. CASE n # 1
    <3> DEFINE k == n - 1
               u == << k >>
    <3>1. k \in Nat \ {0} /\ k \in Nat
      BY <1>4, <2>2
    <3>2. rest = u \o t
      BY <2>2
    <3> HIDE DEF k
    <3>3. u \in Seq(Nat \ {0}) /\ u \in Seq(Nat)
      BY <3>1
    <3>4. SumFunction(u) = k
      <4>1. u = Append(<< >>, k) /\ << >> \in Seq(Nat)
        OBVIOUS
      <4>2. SumFunction(Append(<< >>, k)) = SumFunction(<< >>) + k
        BY <3>1, <4>1, SumAppend
      <4> QED BY <3>1, <4>1, <4>2, SumOfNone
    <3> HIDE DEF u
    <3>5. u \o t \in Seq(Nat \ {0})
      BY <1>4, <3>3, ConcatType
    <3>6. SumFunction(u \o t) = SumFunction(u) + SumFunction(t)
      BY <1>4, <3>3, SumConcat
    <3> QED BY <3>2, <3>4, <3>5, <3>6 DEF k
  <2> QED BY <2>1, <2>2
<1> HIDE DEF rest, s
<1>10. e \in App /\ e.shandles = rest
  <2>1. app[p].shandles \in Seq(Nat \ {0})
    BY <1>0, AppFields
  <2> QED BY <1>0, <1>2, <1>9 DEF App
<1>11. Ships(app[p], e, 1)
  <2>1. SumFunction(app[p].shandles) = n + SumFunction(t)
    BY <1>8 DEF s
  <2>2. SumFunction(e.shandles) = (n - 1) + SumFunction(t)
    BY <1>9, <1>10
  <2> QED BY <1>4, <1>8, <2>1, <2>2 DEF Ships
<1> QED BY <1>3, <1>7, <1>10, <1>11, OwnAccount

LEMMA ProcessSendAccount ==
    ASSUME IInv, RendezvousAccount, NEW p \in Proc, ProcessSend(p)
    PROVE  RendezvousAccount'
<1>1. conn[p] \in Connection /\ app[p] \in App
  BY AbsorbedTypes
<1>2. PICK e : e = [conn[p] EXCEPT !.send_wqes_avail = @ + 1]
  OBVIOUS
<1>3. PICK d : d = ExtSendqSend(e)
  OBVIOUS
<1>4. SetConn(p, d) /\ UNCHANGED app
  BY <1>2, <1>3 DEF ProcessSend
<1>5. Kept(conn[p], e)
  BY <1>1, <1>2 DEF Kept, Connection, IsRecord
<1>6. Kept(e, d)
  BY <1>3, <1>5 DEF Kept, IsRecord, ExtSendqSend
<1>7. Moves(conn[p], d, 0, 0, 0)
  <2>1. conn[p].rendezvous_packets_expected \in Int
    BY <1>1, ConnectionParts DEF RecvTypes
  <2> QED BY <1>1, <1>5, <1>6, <2>1, StaysIfSame DEF Kept
<1>8. SetApp(p, app[p])
  BY <1>4 DEF SetApp, IInv, TypeOK
<1> QED BY <1>1, <1>4, <1>7, <1>8, StillAccount

LEMMA LandAccount ==
    ASSUME IInv, RendezvousAccount, NEW p \in Proc, Land(p)
    PROVE  RendezvousAccount'
<1>1. conn[p] \in Connection /\ app[p] \in App
  BY AbsorbedTypes
<1>2. PICK d : d = [conn[p] EXCEPT !.landed = @ + 1]
  OBVIOUS
<1>3. SetConn(p, d) /\ UNCHANGED app
  BY <1>2 DEF Land
<1>4. Kept(conn[p], d)
  BY <1>1, <1>2 DEF Kept, Connection, IsRecord
<1>5. Moves(conn[p], d, 0, 0, 0)
  <2>1. conn[p].rendezvous_packets_expected \in Int
    BY <1>1, ConnectionParts DEF RecvTypes
  <2> QED BY <1>1, <1>4, <2>1, StaysIfSame DEF Kept
<1>6. SetApp(p, app[p])
  BY <1>3 DEF SetApp, IInv, TypeOK
<1> QED BY <1>1, <1>3, <1>5, <1>6, StillAccount

\* A step of the MPI layer that leaves the transfers alone.
LEMMA AppAccount ==
    ASSUME IInv, RendezvousAccount, NEW p \in Proc, NEW e \in App,
           e.shandles = app[p].shandles, UNCHANGED conn, SetApp(p, e)
    PROVE  RendezvousAccount'
<1>1. conn[p] \in Connection /\ conn \in [Proc -> Connection]
  BY AbsorbedTypes DEF IInv, TypeOK
<1>2. SetConn(p, conn[p])
  BY <1>1 DEF SetConn
<1>3. Moves(conn[p], conn[p], 0, 0, 0)
  <2>1. conn[p].rendezvous_packets_expected \in Int
    BY <1>1, ConnectionParts DEF RecvTypes
  <2> QED BY <1>1, <2>1, StaysIfSame
<1> QED BY <1>2, <1>3, StillAccount
LEMMA ProcessRecvAccount ==
    ASSUME IInv, RendezvousAccount, NEW p \in Proc, ProcessRecv(p)
    PROVE  RendezvousAccount'
<1> DEFINE q == Peer(p)
           c == conn[p]
           b == conn[q]
           init == app[p].initialized
           a == b.absorbed
           r == b.next_packet_expected - 1
<1>0. /\ a \in Nat /\ r \in Nat /\ End(c, a, r)
      /\ app[p] \in App /\ c \in Connection /\ init \in BOOLEAN
  <2>1. /\ a \in Nat /\ r \in Nat /\ End(c, a, r)
        /\ app[p] \in App /\ c \in Connection
    BY AbsorbedTypes DEF EndOK
  <2> QED BY <2>1, AppFields
<1>1. q \in Proc /\ q # p /\ Peer(q) = p /\ \A x \in Proc : x = p \/ x = q
  BY PeerFacts
<1>2. b \in Connection /\ app[q] \in App
  BY <1>1, AbsorbedTypes
<1>3. PICK pkt : pkt = Head(b.out)
  OBVIOUS
<1>4. PICK found \in BOOLEAN :
         /\ found => pkt.type = "start" /\ init
         /\ conn' = [conn EXCEPT
               ![p] = ReceivePacket(c, pkt, found, init),
               ![q] = [b EXCEPT !.out = Tail(@), !.landed = @ - 1]]
         /\ SetApp(p, AppAfter(app[p], Accept(c, pkt, init), pkt, found))
  BY <1>3, Zenon DEF ProcessRecv
<1>5. b.landed > 0
  BY DEF ProcessRecv
<1>6. PICK d : d = ReceivePacket(c, pkt, found, init)
  OBVIOUS
<1>7. PICK f : f = [b EXCEPT !.out = Tail(@), !.landed = @ - 1]
  OBVIOUS
<1>8. PICK e : e = AppAfter(app[p], Accept(c, pkt, init), pkt, found)
  OBVIOUS
<1>9. conn' = [conn EXCEPT ![p] = d, ![q] = f] /\ SetApp(p, e)
  BY <1>4, <1>6, <1>7, <1>8, Zenon
<1>10. /\ pkt \in Packet /\ b.out # << >> /\ c.preposts > 0
       /\ ~c.initialized /\ ~init => IsCredited(pkt)
  BY <1>3, <1>5, ReceiveGuard
<1>11. Account(p) /\ Account(q)
  BY <1>1, AccountOfEach
<1>12. conn \in [Proc -> Connection] /\ app \in [Proc -> App]
  BY DEF IInv, TypeOK
<1> HIDE DEF c, b, init, a, r, q
<1>13. Moves(c, d, Expects(pkt, found), Asks(pkt, found), 0)
  BY <1>0, <1>6, <1>10, ReceivePacketMoves
<1>14. /\ f.out = Tail(b.out) /\ f.backlog = b.backlog
       /\ f.rendezvous_packets_expected = b.rendezvous_packets_expected
  BY <1>2, <1>7 DEF Connection
<1>15. conn'[p] = d /\ conn'[q] = f /\ app'[p] = e /\ app'[q] = app[q]
  BY <1>1, <1>9, <1>12 DEF SetApp
<1>16. ASSUME NEW w \in Weight
       PROVE  Unpolled(w, b) = Unpolled(w, f) + w[pkt] /\ Unpolled(w, f) \in Nat
  <2> DEFINE t == Tail(b.out)
             x == w[pkt]
             y == Weighed(w, t)
             z == Weighed(w, b.backlog)
  <2>1. b.out \in Seq(Packet) /\ b.backlog \in Seq(Packet)
    BY <1>2, QuantityTypes DEF Queues
  <2>2. t \in Seq(Packet)
    BY <1>10, <2>1
  <2>3. x \in Nat
    BY <1>10 DEF Weight
  <2>4. y \in Nat /\ z \in Nat
    <3> HIDE DEF t
    <3> QED BY <2>1, <2>2, WeighedType
  <2>5. Weighed(w, b.out) = x + y
    BY <1>3, <1>10, <2>1, WeighedTail
  <2> HIDE DEF x, y, z
  <2>6. Unpolled(w, b) = (x + y) + z
    BY <2>5 DEF Unpolled, z
  <2>7. Unpolled(w, f) = y + z
    BY <1>14 DEF Unpolled, y, z
  <2> QED BY <2>3, <2>4, <2>6, <2>7 DEF x
<1> DEFINE s == SumFunction(app[p].shandles)
           t == SumFunction(app[q].shandles)
           u == SumFunction(e.shandles)
           v == AskedIn[pkt]
           m == DataIn[pkt]
<1>17. s \in Nat /\ t \in Nat
  BY <1>0, <1>2, TransferSum
<1>18. /\ pkt.vbufs \in Nat
       /\ v = IF pkt.type = "reply" THEN pkt.vbufs ELSE 0
       /\ m = IF pkt.type = "r3data" THEN 1 ELSE 0
  BY <1>10, PacketFields, WeightTypes
<1>19. u = s + v
  <2>1. e.shandles = IF pkt.type = "reply"
                     THEN Append(app[p].shandles, pkt.vbufs)
                     ELSE app[p].shandles
    BY <1>0, <1>8 DEF AppAfter, App
  <2>2. app[p].shandles \in Seq(Nat)
    BY <1>0, TransferSum
  <2>3. CASE pkt.type = "reply"
    <3>1. SumFunction(Append(app[p].shandles, pkt.vbufs)) = s + pkt.vbufs
      BY <1>18, <2>2, SumAppend
    <3> QED BY <1>18, <2>1, <2>3, <3>1
  <2>4. CASE pkt.type # "reply"
    BY <1>17, <1>18, <2>1, <2>4
  <2> QED BY <2>3, <2>4
<1> DEFINE i == c.rendezvous_packets_expected
           j == b.rendezvous_packets_expected
           g == Unpolled(AskedIn, c)
           h == Unpolled(DataIn, c)
           k == Unpolled(AskedIn, f)
           l == Unpolled(DataIn, f)
           x == Expects(pkt, found)
           y == Asks(pkt, found)
<1>20. /\ i \in Int /\ j \in Int /\ g \in Nat /\ h \in Nat
       /\ k \in Nat /\ l \in Nat
  BY <1>0, <1>2, <1>16, QuantityTypes, WeightTypes DEF Quantities
<1>21. Unpolled(AskedIn, b) = k + v /\ Unpolled(DataIn, b) = l + m
  BY <1>16, WeightTypes
<1>22. x \in Int /\ y \in Nat /\ x = y - m
  BY <1>18 DEF Expects, Asks
<1>23. v \in Nat /\ m \in Nat
  BY <1>18
<1>24. j = ((k + v) + s) + h
  BY <1>1, <1>11, <1>21 DEF Account, c, b, q
<1>25. i = (g + t) + (l + m)
  BY <1>1, <1>11, <1>21 DEF Account, c, b, q
<1>26. /\ d.rendezvous_packets_expected = i + x
       /\ Unpolled(AskedIn, d) = g + y /\ Unpolled(DataIn, d) = h
  <2>1. Unpolled(DataIn, d) = h + 0
    BY <1>13 DEF Moves
  <2> QED BY <1>13, <1>20, <2>1 DEF Moves
<1> DEFINE i2 == i + x
           g2 == g + y
<1>27. Account(p)' <=> j = (k + u) + h
  BY <1>1, <1>14, <1>15, <1>26 DEF Account, q
<1>28. Account(q)' <=> i2 = (g2 + t) + l
  BY <1>1, <1>15, <1>26 DEF Account, q
<1> HIDE DEF s, t, u, v, m, i, j, g, h, k, l, x, y
<1>29. j = (k + u) + h
  BY <1>17, <1>19, <1>20, <1>23, <1>24
<1>30. i2 = (g2 + t) + l
  BY <1>17, <1>20, <1>22, <1>23, <1>25
<1> HIDE DEF i2, g2
<1>31. Account(p)' /\ Account(q)'
  BY <1>27, <1>28, <1>29, <1>30
<1>32. \A z \in Proc : Account(z)'
  BY <1>1, <1>31
<1> QED BY <1>32 DEF RendezvousAccount, Account

LEMMA InitialAccount == Init => RendezvousAccount
<1> SUFFICES ASSUME Init, NEW p \in Proc PROVE Account(p)
  BY AccountOfEach
<1>1. conn[p] = InitialConnection /\ conn[Peer(p)] = InitialConnection
      /\ app[p] = InitialApp
  BY PeerFacts DEF Init
<1> DEFINE c == InitialConnection
<1>2. c.out = << >> /\ c.backlog = << >> /\ c.rendezvous_packets_expected = 0
  BY DEF InitialConnection
<1> HIDE DEF c
<1>3. Unpolled(AskedIn, c) = 0 /\ Unpolled(DataIn, c) = 0
  <2>1. \A w : Unpolled(w, c) = 0
    BY <1>2, WeighedNone DEF Unpolled
  <2> QED BY <2>1
<1>4. InitialApp.shandles = << >>
  BY DEF InitialApp
<1>5. SumFunction(app[p].shandles) = 0
  BY <1>1, <1>4, SumOfNone
<1> QED BY <1>1, <1>2, <1>3, <1>5 DEF Account, c

LEMMA NextKeepsAccount ==
    IInv /\ RendezvousAccount /\ [Next]_vars => RendezvousAccount'
<1> SUFFICES ASSUME IInv, RendezvousAccount, [Next]_vars
             PROVE  RendezvousAccount'
  OBVIOUS
<1>1. ASSUME NEW p \in Proc, EagerSend(p) PROVE RendezvousAccount'
  BY <1>1, EagerSendAccount
<1>2. ASSUME NEW p \in Proc, RendezvousStart(p) PROVE RendezvousAccount'
  BY <1>2, RendezvousStartAccount
<1>3. ASSUME NEW p \in Proc, FinishInit(p) PROVE RendezvousAccount'
  <2>1. app[p] \in App
    BY AbsorbedTypes
  <2>2. PICK e : e = [app[p] EXCEPT !.initialized = TRUE]
    OBVIOUS
  <2>3. e \in App /\ e.shandles = app[p].shandles
    BY <2>1, <2>2 DEF App
  <2> QED BY <1>3, <2>2, <2>3, AppAccount DEF FinishInit
<1>4. ASSUME NEW p \in Proc, EagerContinue(p) PROVE RendezvousAccount'
  BY <1>4, EagerContinueAccount
<1>5. ASSUME NEW p \in Proc, MatchUnexpected(p) PROVE RendezvousAccount'
  BY <1>5, MatchUnexpectedAccount
<1>6. ASSUME NEW p \in Proc, ProcessSend(p) PROVE RendezvousAccount'
  BY <1>6, ProcessSendAccount
<1>7. ASSUME NEW p \in Proc, ProcessRecv(p) PROVE RendezvousAccount'
  BY <1>7, ProcessRecvAccount
<1>8. ASSUME NEW p \in Proc, RendezvousPush(p) PROVE RendezvousAccount'
  BY <1>8, RendezvousPushAccount
<1>9. ASSUME NEW p \in Proc, PopFlowlist(p) PROVE RendezvousAccount'
  <2>1. app[p] \in App
    BY AbsorbedTypes
  <2>2. PICK e : e = [app[p] EXCEPT !.pc = "idle", !.inflow = FALSE]
    OBVIOUS
  <2>3. e \in App /\ e.shandles = app[p].shandles
    BY <2>1, <2>2 DEF App
  <2> QED BY <1>9, <2>2, <2>3, AppAccount DEF PopFlowlist
<1>10. ASSUME NEW p \in Proc, Land(p) PROVE RendezvousAccount'
  BY <1>10, LandAccount
<1>11. CASE UNCHANGED vars
  BY <1>11 DEF vars, RendezvousAccount
<1> QED BY <1>1, <1>2, <1>3, <1>4, <1>5, <1>6, <1>7, <1>8, <1>9, <1>10, <1>11
    DEF Next, Start, Progress

(***************************************************************************)
(* The accounts are exact: the credits a side has granted and the other     *)
(* has not absorbed are those in the headers under way, and the counter     *)
(* that sizes the receive queue, rendezvous_packets_expected                *)
(* (viacheck.c:1028, viapriv.c:366), is at every moment the R3 data packets *)
(* asked for and not polled, wherever they are.                             *)
(***************************************************************************)
THEOREM AccountsTheorem == Spec => []AccountsAreExact
<1>1. IInv /\ RendezvousAccount => AccountsAreExact
  BY InvariantCounts DEF AccountsAreExact
<1> QED BY <1>1, InitialAccount, NextKeepsAccount, InvariantHolds, PTL DEF Spec

-----------------------------------------------------------------------------
(* The receive queue.  Every operator posts no more buffers than it holds,  *)
(* if there were no more before.                                            *)

FitsRq(c) == c.preposts <= RqSize

(***************************************************************************)
(* The buffers kept for NOOPs, posted on top of what is left of the initial *)
(* ones, have room.  The loop at viacheck.c:1003 posts them without a look  *)
(* at viadev_rq_size, and viadev_init_parameters rules the other case out   *)
(* by none of its tests: it needs InitialPrepost <= NoopExtra and           *)
(* InitialPrepost > Depth + RendezvousExtra + 1.                            *)
(***************************************************************************)
RoomToInitialize == InitialPrepost - 1 + UncreditedPosts <= RqSize

LEMMA RoomUnless ==
    InitialPrepost > NoopExtra \/ InitialPrepost <= Depth + RendezvousExtra + 1
        <=> RoomToInitialize
BY ParamAssumption DEF RoomToInitialize, UncreditedPosts, InitialCredits, RqSize

LEMMA SendNoopIfNeededFits ==
    ASSUME NEW a \in Nat, NEW r \in Nat, NEW c, End(c, a, r),
           NEW d, d = SendNoopIfNeeded(c)
    PROVE  d.preposts = c.preposts
<1> DEFINE e == CreditsGiven(c)
           q == WithCredits(c, Noop)
<1>1. c \in Connection /\ Paid(c) \in Nat /\ QueuesFit(c)
  BY EndIsConnection, EndParts
<1>2. CASE ~NoopNeeded(c)
  BY <1>2 DEF SendNoopIfNeeded
<1>3. CASE NoopNeeded(c)
  <2>1. d = Enqueue(ExtSendqSend(e), q)
    BY <1>3 DEF SendNoopIfNeeded, SendNoop
  <2>2. e \in Connection /\ SameRecv(c, e) /\ SameQueue(c, e)
    BY <1>1, CreditsGivenFields
  <2>3. q \in Packet
    BY <1>1, NoopType, WithCreditsFields
  <2> HIDE DEF e, q
  <2>4. QueuesFit(e)
    BY <1>1, <2>2 DEF QueuesFit, SameQueue
  <2>5. SameRecv(e, d)
    BY <2>1, <2>2, <2>3, <2>4, PostFields
  <2> QED BY <2>2, <2>5 DEF SameRecv
<1> QED BY <1>2, <1>3

LEMMA FillUpFits ==
    ASSUME NEW c \in Connection, FitsRq(c), NEW d, d = FillUp(c)
    PROVE  FitsRq(d)
<1>1. /\ d.preposts \in Nat /\ d.preposts >= c.preposts
      /\ d.preposts > c.preposts => d.preposts <= RqSize
  BY FillUpFields
<1>2. c.preposts \in Nat
  BY ConnectionParts DEF RecvTypes
<1>3. CASE d.preposts > c.preposts
  BY <1>1, <1>3 DEF FitsRq
<1>4. CASE d.preposts = c.preposts
  BY <1>4 DEF FitsRq
<1> QED BY <1>1, <1>2, <1>3, <1>4

LEMMA PrepostForRendezvousFits ==
    ASSUME NEW a \in Nat, NEW r \in Nat, NEW c, End(c, a, r), c.initialized,
           FitsRq(c), NEW n \in Nat, NEW d, d = PrepostForRendezvous(c, n)
    PROVE  FitsRq(d)
<1> DEFINE e == [c EXCEPT !.rendezvous_packets_expected = @ + n]
           f == FillUp(e)
<1>1. c \in Connection
  BY EndIsConnection
<1>2. PICK g : g = e
  OBVIOUS
<1>3. /\ IsRecord(g) /\ SameSend(c, g) /\ SameCredit(c, g) /\ SameQueue(c, g)
  BY <1>1, <1>2 DEF Connection, IsRecord, SameSend, SameCredit, SameQueue
<1>4. /\ g.preposts = c.preposts /\ g.initialized = c.initialized
      /\ g.next_packet_expected = c.next_packet_expected
      /\ g.noop_spent = c.noop_spent
      /\ g.rendezvous_packets_expected = c.rendezvous_packets_expected + n
  BY <1>1, <1>2 DEF Connection
<1>5. d = SendNoopIfNeeded(f)
  BY DEF PrepostForRendezvous
<1> HIDE DEF e
<1>6. RecvTypes(c) /\ CreditTypes(c) /\ c.next_packet_expected > 0
  BY DEF End, RecvOK
<1>7. RecvTypes(g) /\ CreditTypes(g) /\ g.next_packet_expected > 0
  BY <1>3, <1>4, <1>6 DEF RecvTypes, CreditTypes, SameCredit
<1>8. RecvLaw(g) /\ Fresh(g)
  BY <1>3, <1>4 DEF RecvLaw, ReserveOf, Fresh, SameCredit, End, RecvOK
<1>9. End(g, a, r)
  BY <1>3, <1>7, <1>8, SendSideKept DEF RecvOK, SameCredit
<1>10. PICK h : h = FillUp(g)
  OBVIOUS
<1>11. End(h, a, r)
  BY <1>4, <1>9, <1>10, FillUpEnd
<1>12. d = SendNoopIfNeeded(h)
  BY <1>2, <1>5, <1>10 DEF f
<1>13. FitsRq(g)
  BY <1>4 DEF FitsRq
<1>14. FitsRq(h)
  BY <1>9, <1>10, <1>13, EndIsConnection, FillUpFits
<1>15. d.preposts = h.preposts
  BY <1>11, <1>12, SendNoopIfNeededFits
<1> QED BY <1>14, <1>15 DEF FitsRq

LEMMA PostSendFits ==
    ASSUME NEW a \in Nat, NEW r \in Nat, NEW c, End(c, a, r), FitsRq(c),
           NEW type, NEW last, NEW vbufs, ValidPost(type, last, vbufs),
           NEW d, d = PostSend(c, type, last, vbufs)
    PROVE  FitsRq(d)
<1> DEFINE n == Numbered(c)
           pkt == NewPacket(type, c.next_packet_tosend, last, vbufs)
           t == Transmit(n, pkt)
           f == FillUp(t)
           s == SendNoopIfNeeded(f)
           b == [n EXCEPT !.backlog = Append(@, pkt)]
<1>0. /\ c.next_packet_tosend \in Nat /\ c \in Connection
      /\ type \in PacketType /\ type # "noop" /\ last \in BOOLEAN /\ vbufs \in Nat
      /\ type \in {"start", "reply"} => vbufs \in R3Sizes
  BY EndParts, EndIsConnection DEF SendTypes, ValidPost
<1>1. pkt \in Packet /\ IsCredited(pkt) /\ pkt.id = c.next_packet_tosend
  BY <1>0, NewPacketType DEF IsCredited
<1>2. /\ c.remote_credit = 0 => d = b
      /\ c.remote_credit # 0 => d = t \/ (c.initialized /\ d = s)
  <2> DEFINE cond == /\ ExtSendqSend(c).send_wqes_avail > 0
                     /\ PrepostThreshold # 0 /\ last /\ c.initialized
  <2>1. d = IF c.remote_credit = 0 THEN b ELSE IF cond THEN s ELSE t
    BY Zenon DEF PostSend
  <2>2. cond => c.initialized
    OBVIOUS
  <2> HIDE DEF cond, b, s, t
  <2>3. CASE c.remote_credit = 0 BY <2>1, <2>3
  <2>4. CASE c.remote_credit # 0 /\ cond BY <2>1, <2>2, <2>4
  <2>5. CASE c.remote_credit # 0 /\ ~cond
    BY <2>1, <2>5
  <2> QED BY <2>3, <2>4, <2>5
<1> HIDE DEF pkt
<1>3. n \in Connection /\ n.preposts = c.preposts /\ SameQueue(c, n)
      /\ SameCredit(c, n) /\ n.remote_credit = c.remote_credit
  <2>1. SameRecv(c, n) /\ n \in Connection /\ SameQueue(c, n)
        /\ SameCredit(c, n) /\ n.remote_credit = c.remote_credit
    BY <1>0, NumberedFields
  <2> QED BY <2>1 DEF SameRecv
<1>4. CASE c.remote_credit = 0
  <2>1. PICK e : e = n
    OBVIOUS
  <2>2. d = [e EXCEPT !.backlog = Append(@, pkt)]
    BY <1>2, <1>4, <2>1
  <2>3. d.preposts = e.preposts
    BY <1>3, <2>1, <2>2 DEF Connection
  <2> QED BY <1>3, <2>1, <2>3 DEF FitsRq
<1>5. CASE c.remote_credit # 0
  <2>1. End(t, a, r) /\ Keeps(c, t)
    BY <1>1, <1>5, TransmitEnd
  <2>2. t.preposts = c.preposts
    <3>1. PICK e : e = n
      OBVIOUS
    <3>2. t = Enqueue(ExtSendqSend([CreditsGiven(e) EXCEPT !.remote_credit = @ - 1]),
                      WithCredits(e, pkt))
      BY <3>1 DEF Transmit
    <3>3. ASSUME NEW x, IsRecord(x), NEW y
          PROVE  Enqueue(x, y).preposts = x.preposts
      BY <3>3 DEF Enqueue, IsRecord
    <3>4. ASSUME NEW x, IsRecord(x), NEW y, y = ExtSendqSend(x)
          PROVE  IsRecord(y) /\ y.preposts = x.preposts
      BY <3>4 DEF ExtSendqSend, IsRecord
    <3>5. PICK g : g = CreditsGiven(e)
      OBVIOUS
    <3>6. PICK h : h = [g EXCEPT !.remote_credit = @ - 1]
      OBVIOUS
    <3>7. IsRecord(g) /\ g.preposts = e.preposts
      BY <1>3, <3>1, <3>5 DEF CreditsGiven, Connection, IsRecord
    <3>8. IsRecord(h) /\ h.preposts = g.preposts
      BY <3>6, <3>7 DEF IsRecord
    <3>9. t = Enqueue(ExtSendqSend(h), WithCredits(e, pkt))
      BY <3>2, <3>5, <3>6
    <3> HIDE DEF t, n
    <3> QED BY <1>3, <3>1, <3>3, <3>4, <3>7, <3>8, <3>9
  <2>3. FitsRq(t)
    BY <2>2 DEF FitsRq
  <2> HIDE DEF t
  <2>4. CASE d = t BY <2>3, <2>4
  <2>5. CASE c.initialized /\ d = s
    <3>1. t.initialized BY <2>1, <2>5 DEF Keeps
    <3>2. End(f, a, r)
      BY <2>1, <3>1, FillUpEnd
    <3>3. FitsRq(f)
      BY <2>1, <2>3, EndIsConnection, FillUpFits
    <3> HIDE DEF f
    <3>4. d.preposts = f.preposts
      BY <2>5, <3>2, SendNoopIfNeededFits
    <3> QED BY <3>3, <3>4 DEF FitsRq
  <2> QED BY <1>2, <1>5, <2>4, <2>5
<1> QED BY <1>4, <1>5

LEMMA RecvR3Fits ==
    ASSUME NEW a \in Nat, NEW r \in Nat, NEW c, End(c, a, r), c.initialized,
           FitsRq(c), NEW n \in R3Sizes, NEW d, d = RecvR3(c, n)
    PROVE  FitsRq(d)
<1> DEFINE e == PrepostForRendezvous(c, n)
<1>1. n \in Nat
  BY LoadAssumption
<1>2. End(e, a, r) /\ FitsRq(e)
  BY <1>1, PrepostForRendezvousEnd, PrepostForRendezvousFits
<1>3. d = PostSend(e, "reply", FALSE, n)
  BY DEF RecvR3
<1> HIDE DEF e
<1>4. ValidPost("reply", FALSE, n)
  BY <1>1 DEF ValidPost, PacketType
<1> QED BY <1>2, <1>3, <1>4, PostSendFits

\* A connection whose count of idle credits alone has changed.
LEMMA NoopField ==
    ASSUME NEW c \in Connection, NEW k \in Nat,
           NEW d, d = [c EXCEPT !.noop_spent = k]
    PROVE  d \in Connection /\ d.preposts = c.preposts
<1>1. d \in Connection
  BY DEF Connection
<1>2. d.preposts = c.preposts
  BY DEF Connection
<1> QED BY <1>1, <1>2

\* A buffer was consumed; before the connection is initialized there are
\* no more than the initial ones.
LEMMA ReplenishFits ==
    ASSUME RoomToInitialize,
           NEW a \in Nat, NEW r \in Nat, NEW c, End(c, a, r), FitsRq(c),
           NEW pkt, NEW mpiInit \in BOOLEAN,
           NEW e, e = [c EXCEPT !.next_packet_expected =
                                   IF IsCredited(pkt) THEN @ + 1 ELSE @],
           c.preposts > 0, NEW d, d = Replenish(e, pkt, mpiInit)
    PROVE  FitsRq(d)
<1>0. c \in Connection /\ RecvTypes(c) /\ CreditTypes(c) /\ RecvLaw(c) /\ Fresh(c)
      /\ c.next_packet_expected > 0 /\ SendTypes(c) /\ QueueTypes(c)
  BY EndIsConnection, EndParts DEF End, RecvOK
<1>1. PICK f : f = [e EXCEPT !.preposts = @ - 1]
  OBVIOUS
<1>2. Consumed(c, f, Count(pkt))
  BY <1>0, <1>1, ConsumedFields
<1>3. /\ f.initialized = c.initialized /\ f.preposts = c.preposts - 1
      /\ f.preposts \in Nat /\ IsRecord(f) /\ c.preposts \in Nat
  BY <1>0, <1>2 DEF Consumed, RecvTypes
<1>4. f \in Connection
  <2>1. SendTypes(f) /\ CreditTypes(f) /\ QueueTypes(f)
    BY <1>0, <1>2 DEF Consumed, SendTypes, CreditTypes, QueueTypes,
       SameSend, SameCredit, SameQueue
  <2>2. RecvTypes(f)
    BY <1>0, <1>2, <1>3 DEF Consumed, RecvTypes, Count
  <2> QED BY <1>3, <2>1, <2>2, ConnectionParts
<1>5. RqSize \in Nat /\ f.preposts + 1 <= RqSize
  BY <1>0, <1>3, NeededType DEF FitsRq
<1>6. d = IF f.initialized THEN Repost(f, pkt)
          ELSE IF mpiInit \/ pkt.type = "start" THEN Initialize(f, pkt)
          ELSE NoopSpent(f, pkt)
  <2> DEFINE g == [e EXCEPT !.preposts = @ - 1]
  <2>1. d = IF g.initialized THEN Repost(g, pkt)
            ELSE IF mpiInit \/ pkt.type = "start" THEN Initialize(g, pkt)
            ELSE NoopSpent(g, pkt)
    BY DEF Replenish
  <2> QED BY <1>1, <2>1, Zenon
<1>7. FitsRq(f)
  BY <1>3, <1>5 DEF FitsRq
<1>8. ASSUME NEW g, g = NoopSpent(f, pkt)
      PROVE  g \in Connection /\ g.preposts = f.preposts
  <2>a. f.noop_spent \in Nat
    BY <1>4, ConnectionParts DEF RecvTypes
  <2>1. CASE pkt.type = "noop"
    <3>1. PICK k : k = f.noop_spent + 1
      OBVIOUS
    <3>2. g = [f EXCEPT !.noop_spent = k]
      BY <1>8, <2>1, <3>1 DEF NoopSpent
    <3>3. k \in Nat
      BY <2>a, <3>1
    <3> QED BY <1>4, <3>2, <3>3, NoopField
  <2>2. CASE pkt.type # "noop"
    <3>1. PICK k : k = f.noop_spent
      OBVIOUS
    <3>2. g = [f EXCEPT !.noop_spent = k]
      BY <1>8, <2>2, <3>1 DEF NoopSpent
    <3>3. k \in Nat
      BY <2>a, <3>1
    <3> QED BY <1>4, <3>2, <3>3, NoopField
  <2> QED BY <2>1, <2>2
<1>9. CASE d = Repost(f, pkt)
  <2>1. d = [f EXCEPT !.preposts = @ + 1] \/ d = FillUp(f) \/ d = f
    BY <1>9 DEF Repost
  <2>2. CASE d = [f EXCEPT !.preposts = @ + 1]
    <3>1. d.preposts = f.preposts + 1
      BY <1>3, <2>2 DEF IsRecord
    <3> QED BY <1>5, <3>1 DEF FitsRq
  <2>3. CASE d = FillUp(f)
    BY <1>4, <1>7, <2>3, FillUpFits
  <2> QED BY <1>7, <2>1, <2>2, <2>3
<1>10. CASE ~f.initialized /\ d = Initialize(f, pkt)
  <2> DEFINE u == UncreditedPosts
  <2>1. PICK g : g = NoopSpent(f, pkt)
    OBVIOUS
  <2>2. PICK h : h = [g EXCEPT !.preposts = @ + u]
    OBVIOUS
  <2>3. PICK i : i = FillUp(h)
    OBVIOUS
  <2>4. d = [i EXCEPT !.initialized = TRUE]
    BY <1>10, <2>1, <2>2, <2>3 DEF Initialize
  <2>5. u \in Nat
    BY InitialCreditsType, ParamAssumption DEF UncreditedPosts
  <2>6. c.preposts <= InitialPrepost
    <3>1. ReserveOf(c) = InitialPrepost - InitialCredits
      BY <1>3, <1>10 DEF ReserveOf
    <3>2. c.noop_spent = 0 /\ c.local_credit = 0 /\ c.granted = 0
      BY <1>0, <1>3, <1>10 DEF Fresh
    <3>3. c.next_packet_expected \in Nat
      BY <1>0 DEF RecvTypes
    <3>4. InitialCredits \in Nat /\ InitialPrepost \in Nat
      BY InitialCreditsType, ParamAssumption
    <3> QED BY <1>0, <1>3, <3>1, <3>2, <3>3, <3>4 DEF RecvLaw
  <2> HIDE DEF u
  <2>7. g \in Connection /\ g.preposts = f.preposts
    BY <1>8, <2>1
  <2>8. h \in Connection /\ h.preposts = f.preposts + u
    <3>1. f.preposts + u \in Nat
      BY <1>3, <2>5
    <3> QED BY <2>2, <2>7, <3>1 DEF Connection
  <2>9. FitsRq(h)
    <3>1. InitialPrepost \in Nat
      BY ParamAssumption
    <3> QED BY <1>3, <1>5, <2>5, <2>6, <2>8, <3>1 DEF FitsRq, RoomToInitialize, u
  <2>10. FitsRq(i)
    BY <2>3, <2>8, <2>9, FillUpFits
  <2>11. d.preposts = i.preposts
    <3>1. IsRecord(i)
      BY <2>3, <2>8, FillUpFields
    <3> QED BY <2>4, <3>1 DEF IsRecord
  <2> QED BY <2>10, <2>11 DEF FitsRq
<1>11. CASE d = NoopSpent(f, pkt)
  BY <1>7, <1>8, <1>11 DEF FitsRq
<1> QED BY <1>6, <1>9, <1>10, <1>11

LEMMA ReplenishR3Fits ==
    ASSUME NEW a \in Nat, NEW r \in Nat, NEW c, End(c, a, r), FitsRq(c), NEW pkt,
           NEW d, d = ReplenishR3(c, pkt)
    PROVE  FitsRq(d)
<1>1. CASE pkt.type = "r3data" /\ c.rendezvous_packets_expected > 0
  <2>1. c.initialized
    BY <1>1 DEF Fresh, End, RecvOK, RecvTypes
  <2>2. d = PrepostForRendezvous(c, 0)
    BY <1>1 DEF ReplenishR3
  <2> QED BY <2>1, <2>2, PrepostForRendezvousFits
<1>2. CASE ~(pkt.type = "r3data" /\ c.rendezvous_packets_expected > 0)
  BY <1>2 DEF ReplenishR3
<1> QED BY <1>1, <1>2

LEMMA AbsorbCreditsFits ==
    ASSUME NEW a \in Nat, NEW r \in Nat, NEW c, End(c, a, r), NEW pkt \in Packet,
           NEW d, d = AbsorbCredits(c, pkt)
    PROVE  d.preposts = c.preposts
<1>1. PICK e : e = [c EXCEPT !.remote_cc = pkt.remote_credit,
                             !.remote_credit = @ + pkt.vbuf_credit,
                             !.absorbed = @ + pkt.vbuf_credit]
  OBVIOUS
<1>2. d = BacklogSend(e) \/ d = e
  BY <1>1 DEF AbsorbCredits
<1>3. e.preposts = c.preposts /\ Unspent(e, a, r)
  <2>1. TookIn(c, e, pkt) /\ Unspent(e, a, r)
    BY <1>1, TookInUnspent
  <2> QED BY <2>1 DEF TookIn, SameRecv
<1>4. CASE d = BacklogSend(e)
  <2> DEFINE n == AtMost(Len(e.backlog), e.remote_credit)
  <2>1. e \in Connection
    BY <1>3, ConnectionParts DEF Unspent, RecvOK, QueueOK
  <2>2. CASE n = 0
    <3>1. d = e
      BY <1>4, <2>2, Zenon DEF BacklogSend
    <3> QED BY <1>3, <3>1
  <2>3. CASE n # 0
    <3>1. PICK m : m = n
      OBVIOUS
    <3>2. m = AtMost(Len(e.backlog), e.remote_credit) /\ m # 0
      BY <2>3, <3>1
    <3>3. BacklogSent(e, m, d)
      BY <1>4, <2>1, <3>2, BacklogSendFields
    <3> QED BY <1>3, <3>3 DEF BacklogSent, SameRecv
  <2> QED BY <2>2, <2>3
<1> QED BY <1>2, <1>3, <1>4

LEMMA ReceivePacketFits ==
    ASSUME RoomToInitialize,
           NEW a \in Nat, NEW r \in Nat, NEW c, End(c, a, r), c.preposts > 0,
           FitsRq(c), NEW pkt \in Packet, NEW found, NEW mpiInit \in BOOLEAN,
           ~c.initialized /\ ~mpiInit => IsCredited(pkt),
           NEW d, d = ReceivePacket(c, pkt, found, mpiInit)
    PROVE  FitsRq(d)
<1>1. PICK e : e = [c EXCEPT !.next_packet_expected =
                                IF IsCredited(pkt) THEN @ + 1 ELSE @]
  OBVIOUS
<1>2. PICK f : f = Replenish(e, pkt, mpiInit)
  OBVIOUS
<1>3. PICK g : g = ReplenishR3(f, pkt)
  OBVIOUS
<1>4. PICK h : h = AbsorbCredits(g, pkt)
  OBVIOUS
<1>5. PICK i : i = Dispatch(h, pkt, found)
  OBVIOUS
<1>6. h = Accept(c, pkt, mpiInit)
  BY <1>1, <1>2, <1>3, <1>4 DEF Accept, HandleFlowControlSR
<1>7. d = SendNoopIfNeeded(i)
  BY <1>5, <1>6 DEF ReceivePacket
<1>8. End(f, a, r) /\ FitsRq(f)
  BY <1>1, <1>2, ReplenishEnd, ReplenishFits
<1>9. End(g, a, r) /\ FitsRq(g)
  BY <1>3, <1>8, ReplenishR3End, ReplenishR3Fits
<1>10. FitsRq(h)
  <2>1. h.preposts = g.preposts
    BY <1>4, <1>9, AbsorbCreditsFits
  <2> QED BY <1>9, <2>1 DEF FitsRq
<1>11. End(h, a, r) /\ Received(c, h, pkt, mpiInit)
  BY <1>6, AcceptEnd
<1>12. pkt.type = "start" => h.initialized
  BY <1>11 DEF Received
<1>13. End(i, a, r)
  BY <1>5, <1>11, <1>12, DispatchEnd
<1>14. FitsRq(i)
  <2>1. CASE pkt.type = "start" /\ found
    <3>1. i = RecvR3(h, pkt.vbufs) /\ pkt.vbufs \in R3Sizes
      BY <1>5, <2>1, PacketFields DEF Dispatch
    <3> QED BY <1>10, <1>11, <1>12, <2>1, <3>1, RecvR3Fits
  <2>2. CASE pkt.type = "r3data"
    <3>1. i = [h EXCEPT !.rendezvous_packets_expected = @ - 1]
      BY <1>5, <2>2 DEF Dispatch
    <3>2. i.preposts = h.preposts
      BY <1>11, <3>1, EndIsConnection DEF Connection
    <3> QED BY <1>10, <3>2 DEF FitsRq
  <2>3. CASE ~(pkt.type = "start" /\ found) /\ pkt.type # "r3data"
    BY <1>5, <1>10, <2>3 DEF Dispatch
  <2> QED BY <2>1, <2>2, <2>3
<1>15. d.preposts = i.preposts
  BY <1>7, <1>13, SendNoopIfNeededFits
<1> QED BY <1>14, <1>15 DEF FitsRq

-----------------------------------------------------------------------------
(* ReceiveQueueBounded is kept.                                             *)

LEMMA OwnFits ==
    ASSUME IInv, ReceiveQueueBounded, NEW p \in Proc, NEW d, FitsRq(d),
           SetConn(p, d)
    PROVE  ReceiveQueueBounded'
<1>1. conn \in [Proc -> Connection]
  BY DEF IInv, TypeOK
<1> QED BY <1>1 DEF SetConn, ReceiveQueueBounded, FitsRq

LEMMA EndFits ==
    ASSUME IInv, ReceiveQueueBounded, NEW p \in Proc
    PROVE  /\ conn[Peer(p)].absorbed \in Nat
           /\ conn[Peer(p)].next_packet_expected - 1 \in Nat
           /\ End(conn[p], conn[Peer(p)].absorbed,
                  conn[Peer(p)].next_packet_expected - 1)
           /\ FitsRq(conn[p])
BY AbsorbedTypes DEF EndOK, ReceiveQueueBounded, FitsRq

LEMMA PostFits ==
    ASSUME IInv, ReceiveQueueBounded, NEW p \in Proc,
           NEW type, NEW last, NEW vbufs, ValidPost(type, last, vbufs),
           SetConn(p, PostSend(conn[p], type, last, vbufs))
    PROVE  ReceiveQueueBounded'
<1>1. PICK d : d = PostSend(conn[p], type, last, vbufs)
  OBVIOUS
<1>2. FitsRq(d)
  BY <1>1, EndFits, PostSendFits
<1> QED BY <1>1, <1>2, OwnFits

LEMMA MatchUnexpectedFits ==
    ASSUME IInv, ReceiveQueueBounded, NEW p \in Proc, MatchUnexpected(p)
    PROVE  ReceiveQueueBounded'
<1>1. PICK n \in R3Sizes :
         app[p].unexpected[n] > 0 /\ SetConn(p, RecvR3(conn[p], n))
  BY DEF MatchUnexpected
<1>2. conn[p].initialized
  BY <1>1, AbsorbedTypes DEF AppOK
<1>3. PICK d : d = RecvR3(conn[p], n)
  OBVIOUS
<1>4. FitsRq(d)
  BY <1>2, <1>3, EndFits, RecvR3Fits
<1> QED BY <1>1, <1>3, <1>4, OwnFits

LEMMA ProcessSendFits ==
    ASSUME IInv, ReceiveQueueBounded, NEW p \in Proc, ProcessSend(p)
    PROVE  ReceiveQueueBounded'
<1>1. conn[p] \in Connection
  BY AbsorbedTypes
<1>2. PICK e : e = [conn[p] EXCEPT !.send_wqes_avail = @ + 1]
  OBVIOUS
<1>3. PICK d : d = ExtSendqSend(e)
  OBVIOUS
<1>4. SetConn(p, d)
  BY <1>2, <1>3 DEF ProcessSend
<1>5. IsRecord(e) /\ e.preposts = conn[p].preposts
  BY <1>1, <1>2 DEF Connection, IsRecord
<1>6. d.preposts = e.preposts
  BY <1>3, <1>5 DEF IsRecord, ExtSendqSend
<1>7. FitsRq(d)
  BY <1>5, <1>6, EndFits DEF FitsRq
<1> QED BY <1>4, <1>7, OwnFits

LEMMA LandFits ==
    ASSUME IInv, ReceiveQueueBounded, NEW p \in Proc, Land(p)
    PROVE  ReceiveQueueBounded'
<1>1. conn[p] \in Connection
  BY AbsorbedTypes
<1>2. PICK d : d = [conn[p] EXCEPT !.landed = @ + 1]
  OBVIOUS
<1>3. SetConn(p, d) /\ d.preposts = conn[p].preposts
  BY <1>1, <1>2 DEF Land, Connection
<1>4. FitsRq(d)
  BY <1>3, EndFits DEF FitsRq
<1> QED BY <1>3, <1>4, OwnFits

LEMMA ProcessRecvFits ==
    ASSUME RoomToInitialize, IInv, ReceiveQueueBounded,
           NEW p \in Proc, ProcessRecv(p)
    PROVE  ReceiveQueueBounded'
<1> DEFINE q == Peer(p)
           c == conn[p]
           b == conn[q]
           init == app[p].initialized
<1>1. q \in Proc /\ q # p /\ \A x \in Proc : x = p \/ x = q
  BY PeerFacts
<1>2. b \in Connection /\ app[p] \in App /\ init \in BOOLEAN
  BY <1>1, AbsorbedTypes, AppFields
<1>3. PICK pkt : pkt = Head(b.out)
  OBVIOUS
<1>4. PICK found \in BOOLEAN :
         conn' = [conn EXCEPT
               ![p] = ReceivePacket(c, pkt, found, init),
               ![q] = [b EXCEPT !.out = Tail(@), !.landed = @ - 1]]
  BY <1>3, Zenon DEF ProcessRecv
<1>5. b.landed > 0
  BY DEF ProcessRecv
<1>6. PICK d : d = ReceivePacket(c, pkt, found, init)
  OBVIOUS
<1>7. PICK f : f = [b EXCEPT !.out = Tail(@), !.landed = @ - 1]
  OBVIOUS
<1>8. conn' = [conn EXCEPT ![p] = d, ![q] = f]
  BY <1>4, <1>6, <1>7, Zenon
<1>9. /\ pkt \in Packet /\ c.preposts > 0
      /\ ~c.initialized /\ ~init => IsCredited(pkt)
  BY <1>3, <1>5, ReceiveGuard
<1>10. FitsRq(d)
  <2>1. PICK a \in Nat, r \in Nat : End(c, a, r) /\ FitsRq(c)
    BY EndFits
  <2> HIDE DEF c, init
  <2> QED BY <1>2, <1>6, <1>9, <2>1, ReceivePacketFits
<1>11. FitsRq(f)
  <2>1. FitsRq(b)
    BY <1>1, EndFits
  <2>2. f.preposts = b.preposts
    BY <1>2, <1>7 DEF Connection
  <2> QED BY <2>1, <2>2 DEF FitsRq
<1>12. conn \in [Proc -> Connection]
  BY DEF IInv, TypeOK
<1> HIDE DEF q
<1>13. conn'[p] = d /\ conn'[q] = f
  BY <1>1, <1>8, <1>12
<1> QED BY <1>1, <1>10, <1>11, <1>13 DEF ReceiveQueueBounded, FitsRq

LEMMA NextKeepsFits ==
    ASSUME RoomToInitialize, IInv, ReceiveQueueBounded, [Next]_vars
    PROVE  ReceiveQueueBounded'
<1>1. ASSUME NEW p \in Proc, NEW a, NEW left \in Nat, EagerPost(p, a, left)
      PROVE  ReceiveQueueBounded'
  <2>1. ValidPost("eager", left = 1, 0)
    BY DEF ValidPost, PacketType
  <2> QED BY <1>1, <2>1, PostFits DEF EagerPost
<1>2. ASSUME NEW p \in Proc, EagerSend(p) PROVE ReceiveQueueBounded'
  <2>1. PICK n \in EagerSizes :
           EagerPost(p, [app[p] EXCEPT !.sends = @ + 1], n)
    BY <1>2 DEF EagerSend
  <2>2. n \in Nat
    BY LoadAssumption
  <2> QED BY <1>1, <2>1, <2>2
<1>3. ASSUME NEW p \in Proc, EagerContinue(p) PROVE ReceiveQueueBounded'
  <2>1. app[p].left \in Nat
    BY AbsorbedTypes, AppFields
  <2> QED BY <1>1, <1>3, <2>1 DEF EagerContinue
<1>4. ASSUME NEW p \in Proc, RendezvousStart(p) PROVE ReceiveQueueBounded'
  <2>1. PICK n \in R3Sizes : SetConn(p, PostSend(conn[p], "start", FALSE, n))
    BY <1>4 DEF RendezvousStart
  <2>2. ValidPost("start", FALSE, n)
    BY LoadAssumption DEF ValidPost, PacketType
  <2> QED BY <2>1, <2>2, PostFits
<1>5. ASSUME NEW p \in Proc, RendezvousPush(p) PROVE ReceiveQueueBounded'
  <2>1. PICK last \in BOOLEAN : SetConn(p, PostSend(conn[p], "r3data", last, 0))
    BY <1>5 DEF RendezvousPush
  <2>2. ValidPost("r3data", last, 0)
    BY DEF ValidPost, PacketType
  <2> QED BY <2>1, <2>2, PostFits
<1>6. ASSUME NEW p \in Proc, FinishInit(p) \/ PopFlowlist(p)
      PROVE  ReceiveQueueBounded'
  BY <1>6 DEF FinishInit, PopFlowlist, ReceiveQueueBounded
<1>7. CASE UNCHANGED vars
  BY <1>7 DEF vars, ReceiveQueueBounded
<1> QED BY <1>2, <1>3, <1>4, <1>5, <1>6, <1>7, MatchUnexpectedFits,
           ProcessSendFits, ProcessRecvFits, LandFits
        DEF Next, Start, Progress

(***************************************************************************)
(* The receive queue of the QP, created with viadev_rq_size entries, never  *)
(* overflows, whichever packet initializes the connection and however many  *)
(* R3 packets are expected.                                                 *)
(***************************************************************************)
THEOREM ReceiveQueueTheorem ==
    ASSUME RoomToInitialize
    PROVE  Spec => []ReceiveQueueBounded
<1>1. Init => ReceiveQueueBounded
  <2>1. InitialPrepost <= RqSize
    BY ParamAssumption DEF RqSize
  <2> QED BY <2>1 DEF Init, InitialConnection, ReceiveQueueBounded
<1>2. IInv /\ ReceiveQueueBounded /\ [Next]_vars => ReceiveQueueBounded'
  BY NextKeepsFits
<1> QED BY <1>1, <1>2, InvariantHolds, PTL DEF Spec

=============================================================================
