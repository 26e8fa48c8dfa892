--------------------------- MODULE ConnMgmtProofs ---------------------------
(***************************************************************************)
(* The set-up of a connection is safe for every set of ranks, every number  *)
(* of sends and however many copies of its messages are under way: the two  *)
(* ends agree, nothing is sent on a queue pair that is not ready, and every *)
(* send is handed over once and in order.                                   *)
(*                                                                         *)
(* A side of a connection goes through four stages: fresh, client, server   *)
(* and open.  The argument is which stages of the two ends go together      *)
(* (Agree), what an old copy of a message still says of its sender          *)
(* (CopiesAreTrue), and that a message is on the list of pending messages   *)
(* exactly as long as its sender is in the stage that sends it              *)
(* (RetryIsDue).  From them, a request that gives p the role of the server  *)
(* comes from a client, and a reply that opens p comes from a server.       *)
(***************************************************************************)
EXTENDS ConnMgmt, TLAPS

(***************************************************************************)
(* The four stages of one side of a connection.                             *)
(***************************************************************************)
Fresh(l) ==
    /\ l.conn = "none" /\ l.cli = "idle" /\ l.srv = "idle"
    /\ l.qpn = 0 /\ l.qp = "none" /\ l.dest = 0
    /\ l.next_packet_tosend = 0 /\ l.next_packet_expected = 0

Client(l) ==
    /\ l.conn = "none" /\ l.cli = "requesting" /\ l.srv = "idle"
    /\ l.qpn = 1 /\ l.qp = "init" /\ l.dest = 0
    /\ l.next_packet_tosend = 0 /\ l.next_packet_expected = 0

Server(l) ==
    /\ l.conn = "none" /\ l.cli = "idle" /\ l.srv = "requested"
    /\ l.qpn = 1 /\ l.qp = "rtr" /\ l.dest = 1
    /\ l.next_packet_tosend = 1 /\ l.next_packet_expected = 1

Open(l) ==
    /\ l.conn = "rc" /\ l.cli = "idle" /\ l.srv = "idle"
    /\ l.qpn = 1 /\ l.qp = "rts" /\ l.dest = 1
    /\ 1 <= l.next_packet_tosend /\ 1 <= l.next_packet_expected

Staged(l) == Fresh(l) \/ Client(l) \/ Server(l) \/ Open(l)

Stages ==
    \A p \in Rank : \A q \in Rank \ {p} :
        Staged(link[<<p, q>>])

\* Which stages of the two ends go together.
Matched(l, k) ==
    /\ Fresh(l) => Fresh(k) \/ Client(k)
    /\ Client(l) => ~Open(k)
    /\ Server(l) => Client(k) \/ Open(k)
    /\ Open(l) => Server(k) \/ Open(k)

Agree ==
    \A p \in Rank : \A q \in Rank \ {p} :
        Matched(link[<<p, q>>], link[<<q, p>>])

-----------------------------------------------------------------------------
ConnTypeOK ==
    /\ link \in [Pair -> Link]
    /\ retry \in [Rank -> SUBSET Message]
    /\ timer \in [Rank -> {"awake", "waiting"}]
    /\ handler \in [Rank -> {"idle", "marking"}]
    /\ new_connection \in [Rank -> BOOLEAN]
    /\ main \in [Rank -> [at : {"app", "connect", "scan", "poll"},
                          peers : SUBSET Rank]]
    /\ net \subseteq Message \X Copies
    /\ wire \in [Pair -> Seq(Packet)]
    /\ submitted \in [Rank \X Rank -> Nat]
    /\ received \in [Rank \X Rank -> Seq(Nat)]

\* The MPI thread asks for one connection at a time, and to no one for its own.
Places ==
    \A p \in Rank :
        /\ p \notin main[p].peers
        /\ main[p].at = "connect" =>
               \A q \in main[p].peers, r \in main[p].peers : q = r

\* A message that p sends, and why it sends it.
Due(p, m) ==
    /\ Sender(m) = p /\ Target(m) # p /\ m.qpn = 1
    /\ IF m.type = "REQ" THEN link[<<p, Target(m)>>].cli = "requesting"
                         ELSE link[<<p, Target(m)>>].srv = "requested"

RetryIsDue == \A p \in Rank : \A m \in Message : m \in retry[p] <=> Due(p, m)

\* What a copy says of its sender, however old it is.
Said(m) ==
    LET p == Sender(m)
        q == Target(m)
    IN  /\ p # q /\ m.qpn = 1
        /\ IF m.type = "REQ"
           THEN ~Fresh(link[<<p, q>>]) /\ (Server(link[<<p, q>>]) => q < p)
           ELSE Server(link[<<p, q>>]) \/ Open(link[<<p, q>>])

CopiesAreTrue == \A copy \in net : Said(copy[1])

\* A queued send is never forgotten between the threads.
Seen(p, q) ==
    LET l == link[<<p, q>>]
        atThis(place) == main[p].at = place /\ q \in main[p].peers
        flagged == new_connection[p] = TRUE \/ handler[p] = "marking"
    IN  /\ l.pending_req # << >> =>
               /\ Fresh(l) => atThis("connect")
               /\ Open(l) => flagged \/ atThis("scan")
        /\ atThis("connect") /\ Open(l) => flagged

QueuesAreSeen == \A p \in Rank : \A q \in Rank \ {p} : Seen(p, q)

-----------------------------------------------------------------------------
Up(l) == Server(l) \/ Open(l)

\* s is n + 1, n + 2, ...
CountsFrom(s, n) == \A i \in 1 .. Len(s) : s[i] = n + i

\* The sends of p to q are at q, on the wire and in the queue, in this order.
InOrder(p, q) ==
    LET done == received[<<p, q>>]
        sent == wire[<<p, q>>]
        queued == link[<<p, q>>].pending_req
    IN  /\ CountsFrom(done, 0)
        /\ \A i \in 1 .. Len(sent) : sent[i].id = Len(done) + i
        /\ CountsFrom(queued, Len(done) + Len(sent))
        /\ submitted[<<p, q>>] = Len(done) + Len(sent) + Len(queued)

\* The packets of p on the wire have the numbers q expects.
InSequence(p, q) ==
    LET l == link[<<p, q>>]
        k == link[<<q, p>>]
    IN  /\ wire[<<p, q>>] # << >> => Open(l)
        /\ \A i \in 1 .. Len(wire[<<p, q>>]) :
               wire[<<p, q>>][i].seq = k.next_packet_expected + i - 1
        /\ Up(l) /\ Up(k) =>
               l.next_packet_tosend =
                   k.next_packet_expected + Len(wire[<<p, q>>])

Ordering ==
    \A p \in Rank : \A q \in Rank \ {p} : InOrder(p, q) /\ InSequence(p, q)

IInv ==
    /\ ConnTypeOK /\ Stages /\ Agree /\ Places /\ RetryIsDue /\ TimerAwake
    /\ CopiesAreTrue /\ QueuesAreSeen /\ Ordering

-----------------------------------------------------------------------------
(* Functions on pairs, and stages.                                          *)

LEMMA PairValue ==
    ASSUME NEW Val, NEW f \in [Pair -> Val],
           NEW p \in Rank, NEW q \in Rank \ {p}
    PROVE  f[<<p, q>>] \in Val
  BY DEF Pair

LEMMA OneStage ==
    ASSUME NEW l
    PROVE  /\ Fresh(l) => ~Client(l) /\ ~Server(l) /\ ~Open(l)
           /\ Client(l) => ~Server(l) /\ ~Open(l)
           /\ Server(l) => ~Open(l)
  BY DEF Fresh, Client, Server, Open

\* What tells the stages apart in the code.
LEMMA StageTests ==
    ASSUME NEW l, Staged(l)
    PROVE  /\ l.conn = "rc" <=> Open(l)
           /\ l.cli = "requesting" <=> Client(l)
           /\ l.srv = "requested" <=> Server(l)
           /\ l.cli = "idle" <=> ~Client(l)
           /\ l.srv = "idle" <=> ~Server(l)
           /\ l.qpn = 0 <=> Fresh(l)
           /\ l.qp = "rts" <=> Open(l)
  BY DEF Staged, Fresh, Client, Server, Open

\* The functions of the code on one side keep its type.
LEMMA CreateQpType ==
    ASSUME NEW l \in Link
    PROVE  CreateQp(l) \in Link
  <1>1. l.qpn + 1 \in Nat
    BY DEF Link
  <1>2. \A k \in Nat : [l EXCEPT !.qpn = k, !.qp = "init", !.dest = 0] \in Link
    BY DEF Link
  <1>3. CreateQp(l) = [l EXCEPT !.qpn = l.qpn + 1, !.qp = "init", !.dest = 0]
    BY DEF Link, CreateQp
  <1>4. QED
    BY <1>1, <1>2, <1>3

LEMMA ExpectedType ==
    ASSUME NEW l \in Link
    PROVE  [l EXCEPT !.next_packet_expected = @ + 1] \in Link
  <1>1. l.next_packet_expected + 1 \in Nat
    BY DEF Link
  <1>2. \A k \in Nat : [l EXCEPT !.next_packet_expected = k] \in Link
    BY DEF Link
  <1>3. QED
    BY <1>1, <1>2

LEMMA QueuedType ==
    ASSUME NEW l \in Link, NEW ids \in Seq(Nat)
    PROVE  [l EXCEPT !.pending_req = ids] \in Link
  BY DEF Link

LEMMA SentType ==
    ASSUME NEW l \in Link, NEW ids \in Seq(Nat)
    PROVE  Sent(l, ids) \in Link
  <1> DEFINE m == [l EXCEPT !.next_packet_tosend = @ + Len(ids)]
  <1>1. l.next_packet_tosend + Len(ids) \in Nat /\ << >> \in Seq(Nat)
    BY DEF Link
  <1>2. \A k \in Nat : [l EXCEPT !.next_packet_tosend = k] \in Link
    BY DEF Link
  <1>3. m \in Link
    BY <1>1, <1>2
  <1>4. Sent(l, ids) = [m EXCEPT !.pending_req = << >>]
    BY <1>3 DEF Link, Sent
  <1> HIDE DEF m
  <1>5. QED
    BY QueuedType, <1>1, <1>3, <1>4

LEMMA RoleTypes ==
    ASSUME NEW l \in Link
    PROVE  /\ [l EXCEPT !.cli = "requesting"] \in Link
           /\ Answering(l, 1) \in Link
           /\ Established(l) \in Link
           /\ [EnableQp(ToRts(ToRtr(l, 1)))
                 EXCEPT !.conn = "rc", !.cli = "idle"] \in Link
  <1>1. [l EXCEPT !.cli = "requesting"] \in Link
    BY DEF Link
  <1>2. Answering(l, 1) \in Link
    BY DEF Link, Answering, EnableQp, ToRtr
  <1>3. [EnableQp(ToRts(ToRtr(l, 1)))
            EXCEPT !.conn = "rc", !.cli = "idle"] \in Link
    BY DEF Link, EnableQp, ToRtr, ToRts
  <1>4. Established(l) \in Link
    BY DEF Link, Established, ToRts
  <1>5. QED
    BY <1>1, <1>2, <1>3, <1>4

LEMMA RequestStage ==
    ASSUME NEW l \in Link, Fresh(l)
    PROVE  LET k == [CreateQp(l) EXCEPT !.cli = "requesting"]
           IN  /\ k \in Link /\ Client(k) /\ CreateQp(l).qpn = 1 /\ k.qpn = 1
               /\ k.pending_req = l.pending_req
  <1>1. [CreateQp(l) EXCEPT !.cli = "requesting"] \in Link
    BY CreateQpType, RoleTypes
  <1>2. QED
    BY <1>1 DEF Link, Fresh, Client, CreateQp

LEMMA AcceptStage ==
    ASSUME NEW l \in Link, Fresh(l)
    PROVE  LET k == Answering(CreateQp(l), 1)
           IN  /\ k \in Link /\ Server(k) /\ k.qpn = 1
               /\ k.pending_req = l.pending_req
  <1>1. Answering(CreateQp(l), 1) \in Link
    BY CreateQpType, RoleTypes
  <1>2. QED
    BY <1>1 DEF Link, Fresh, Server, CreateQp, Answering, EnableQp, ToRtr

LEMMA CancelStage ==
    ASSUME NEW l \in Link, Client(l)
    PROVE  LET k == [Answering(l, 1) EXCEPT !.cli = "idle"]
           IN  /\ k \in Link /\ Server(k) /\ Answering(l, 1).qpn = 1
               /\ k.pending_req = l.pending_req
  BY DEF Link, Client, Server, Answering, EnableQp, ToRtr

LEMMA EnableStage ==
    ASSUME NEW l \in Link, Client(l)
    PROVE  LET k == [EnableQp(ToRts(ToRtr(l, 1)))
                        EXCEPT !.conn = "rc", !.cli = "idle"]
           IN  /\ k \in Link /\ Open(k)
               /\ k.next_packet_tosend = 1 /\ k.next_packet_expected = 1
               /\ k.pending_req = l.pending_req
  <1>1. [EnableQp(ToRts(ToRtr(l, 1)))
            EXCEPT !.conn = "rc", !.cli = "idle"] \in Link
    BY RoleTypes
  <1>2. QED
    BY <1>1 DEF Link, Client, Open, EnableQp, ToRtr, ToRts

LEMMA EstablishedStage ==
    ASSUME NEW l \in Link, Up(l)
    PROVE  LET k == Established(l)
           IN  /\ k \in Link /\ Open(k)
               /\ k.next_packet_tosend = l.next_packet_tosend
               /\ k.next_packet_expected = l.next_packet_expected
               /\ k.pending_req = l.pending_req
  <1>1. Established(l) \in Link
    BY RoleTypes
  <1>2. QED
    BY <1>1 DEF Link, Up, Server, Open, Established, ToRts

LEMMA SentStage ==
    ASSUME NEW l \in Link, Open(l), NEW ids \in Seq(Nat)
    PROVE  LET k == Sent(l, ids)
           IN  /\ k \in Link /\ Open(k)
               /\ k.next_packet_tosend = l.next_packet_tosend + Len(ids)
               /\ k.next_packet_expected = l.next_packet_expected
               /\ k.pending_req = << >>
  <1>1. Sent(l, ids) \in Link /\ Len(ids) \in Nat
    BY SentType
  <1>2. QED
    BY <1>1 DEF Link, Open, Sent

LEMMA QueuedStage ==
    ASSUME NEW l \in Link, NEW ids \in Seq(Nat)
    PROVE  LET k == [l EXCEPT !.pending_req = ids]
           IN  /\ k \in Link /\ k.pending_req = ids
               /\ k.next_packet_tosend = l.next_packet_tosend
               /\ k.next_packet_expected = l.next_packet_expected
               /\ k.conn = l.conn /\ k.cli = l.cli /\ k.srv = l.srv
               /\ (Fresh(k) <=> Fresh(l)) /\ (Client(k) <=> Client(l))
               /\ (Server(k) <=> Server(l)) /\ (Open(k) <=> Open(l))
  <1>1. [l EXCEPT !.pending_req = ids] \in Link
    BY QueuedType
  <1>2. QED
    BY <1>1 DEF Link, Fresh, Client, Server, Open

LEMMA ExpectedStage ==
    ASSUME NEW l \in Link, Open(l)
    PROVE  LET k == [l EXCEPT !.next_packet_expected = @ + 1]
           IN  /\ k \in Link /\ Open(k)
               /\ k.next_packet_tosend = l.next_packet_tosend
               /\ k.next_packet_expected = l.next_packet_expected + 1
               /\ k.pending_req = l.pending_req
  <1>1. [l EXCEPT !.next_packet_expected = @ + 1] \in Link
    BY ExpectedType
  <1>2. QED
    BY <1>1 DEF Link, Open

-----------------------------------------------------------------------------
(* Sequences.                                                               *)

LEMMA CountAppend ==
    ASSUME NEW s \in Seq(Nat), NEW n \in Nat, CountsFrom(s, n)
    PROVE  /\ Append(s, n + Len(s) + 1) \in Seq(Nat)
           /\ CountsFrom(Append(s, n + Len(s) + 1), n)
           /\ Len(Append(s, n + Len(s) + 1)) = Len(s) + 1
  BY DEF CountsFrom

\* The packets made of sends that count from n count so too, and are numbered
\* from next_packet_tosend.
LEMMA PacketsCount ==
    ASSUME NEW l \in Link, NEW ids \in Seq(Nat), NEW n \in Nat,
           CountsFrom(ids, n)
    PROVE  LET new == Packets(l, ids)
           IN  /\ new \in Seq(Packet) /\ Len(new) = Len(ids)
               /\ \A i \in 1 .. Len(ids) :
                      /\ new[i].id = n + i
                      /\ new[i].seq = l.next_packet_tosend + i - 1
  <1>1. l.next_packet_tosend \in Nat
    BY DEF Link
  <1>2. \A i \in 1 .. Len(ids) : ids[i] \in Nat
    OBVIOUS
  <1>3. \A i \in 1 .. Len(ids) :
            [seq |-> l.next_packet_tosend + i - 1, id |-> ids[i]] \in Packet
    BY <1>1, <1>2 DEF Packet
  <1>4. Packets(l, ids) \in [1 .. Len(ids) -> Packet]
    BY <1>3 DEF Packets
  <1>5. /\ Len(ids) \in Nat
        /\ Packets(l, ids) \in Seq(Packet)
        /\ Len(Packets(l, ids)) = Len(ids)
    BY <1>4
  <1>6. QED
    BY <1>5 DEF Packets, CountsFrom

\* Packets behind packets.
LEMMA PacketsBehind ==
    ASSUME NEW w \in Seq(Packet), NEW new \in Seq(Packet),
           NEW d \in Nat, NEW e \in Nat,
           \A i \in 1 .. Len(w) : w[i].id = d + i /\ w[i].seq = e + i - 1,
           \A i \in 1 .. Len(new) : /\ new[i].id = d + Len(w) + i
                                    /\ new[i].seq = e + Len(w) + i - 1
    PROVE  /\ w \o new \in Seq(Packet)
           /\ Len(w \o new) = Len(w) + Len(new)
           /\ \A i \in 1 .. Len(w \o new) :
                  (w \o new)[i].id = d + i /\ (w \o new)[i].seq = e + i - 1
  <1>1. /\ w \o new \in Seq(Packet) /\ Len(w \o new) = Len(w) + Len(new)
        /\ Len(w) \in Nat /\ Len(new) \in Nat
    OBVIOUS
  <1>2. ASSUME NEW i \in 1 .. Len(w) + Len(new)
        PROVE  (w \o new)[i].id = d + i /\ (w \o new)[i].seq = e + i - 1
    <2>1. CASE i <= Len(w)
      BY <1>1, <2>1
    <2>2. CASE Len(w) < i
      <3>1. i - Len(w) \in 1 .. Len(new) /\ (w \o new)[i] = new[i - Len(w)]
        BY <1>1, <2>2
      <3>2. /\ new[i - Len(w)].id = d + Len(w) + (i - Len(w))
            /\ new[i - Len(w)].seq = e + Len(w) + (i - Len(w)) - 1
        BY <3>1
      <3>3. QED
        BY <1>1, <3>1, <3>2
    <2>3. QED
      BY <1>1, <2>1, <2>2
  <1>3. QED
    BY <1>1, <1>2

\* What is left behind the first packet.
LEMMA PacketsTail ==
    ASSUME NEW w \in Seq(Packet), NEW d \in Nat, NEW e \in Nat, w # << >>,
           \A i \in 1 .. Len(w) : w[i].id = d + i /\ w[i].seq = e + i - 1
    PROVE  /\ Tail(w) \in Seq(Packet) /\ Len(Tail(w)) = Len(w) - 1
           /\ Head(w).id = d + 1 /\ Head(w).seq = e
           /\ \A i \in 1 .. Len(Tail(w)) : /\ Tail(w)[i].id = (d + 1) + i
                                           /\ Tail(w)[i].seq = (e + 1) + i - 1
  <1>1. /\ Len(w) \in Nat /\ 1 <= Len(w) /\ Head(w) = w[1]
        /\ Tail(w) \in Seq(Packet) /\ Len(Tail(w)) = Len(w) - 1
        /\ \A i \in 1 .. Len(w) - 1 : Tail(w)[i] = w[i + 1]
    OBVIOUS
  <1>2. \A i \in 1 .. Len(w) - 1 : i + 1 \in 1 .. Len(w)
    BY <1>1
  <1>3. QED
    BY <1>1, <1>2

-----------------------------------------------------------------------------
(* What a step keeps.                                                       *)

LEMMA MessageParts ==
    ASSUME NEW m \in Message
    PROVE  /\ Sender(m) \in Rank /\ Target(m) \in Rank
           /\ m.type = "REQ" \/ m.type = "REP"
           /\ m.type = "REQ" => Sender(m) = m.client /\ Target(m) = m.server
           /\ m.type = "REP" => Sender(m) = m.server /\ Target(m) = m.client
  BY DEF Message, Sender, Target

LEMMA MessageMade ==
    ASSUME NEW p \in Rank, NEW q \in Rank
    PROVE  /\ Req(p, q, 1) \in Message /\ Rep(p, q, 1) \in Message
           /\ Req(p, q, 1).type = "REQ" /\ Rep(p, q, 1).type = "REP"
           /\ Sender(Req(p, q, 1)) = p /\ Target(Req(p, q, 1)) = q
           /\ Sender(Rep(p, q, 1)) = p /\ Target(Rep(p, q, 1)) = q
           /\ Req(p, q, 1).qpn = 1 /\ Rep(p, q, 1).qpn = 1
  BY DEF Message, Req, Rep, Sender, Target

LEMMA MessageIs ==
    ASSUME NEW m \in Message, m.qpn = 1
    PROVE  /\ m.type = "REQ" => m = Req(Sender(m), Target(m), 1)
           /\ m.type = "REP" => m = Rep(Sender(m), Target(m), 1)
  BY DEF Message, Req, Rep, Sender, Target

OnlyLink(p, q) ==
    \A r \in Rank : \A s \in Rank \ {r} :
        r # p \/ s # q => link'[<<r, s>>] = link[<<r, s>>]

LEMMA StagesStep ==
    ASSUME Stages, Agree, NEW p \in Rank, NEW q \in Rank \ {p},
           OnlyLink(p, q), Staged(link'[<<p, q>>]),
           Matched(link'[<<p, q>>], link[<<q, p>>]),
           Matched(link[<<q, p>>], link'[<<p, q>>])
    PROVE  Stages' /\ Agree'
  <1>1. ASSUME NEW r \in Rank, NEW s \in Rank \ {r}
        PROVE  /\ Staged(link'[<<r, s>>])
               /\ Matched(link'[<<r, s>>], link'[<<s, r>>])
    <2>1. CASE r = p /\ s = q
      <3>1. link'[<<s, r>>] = link[<<s, r>>]
        BY <2>1 DEF OnlyLink
      <3>2. QED
        BY <2>1, <3>1
    <2>2. CASE r = q /\ s = p
      <3>1. link'[<<r, s>>] = link[<<r, s>>]
        BY <2>2 DEF OnlyLink
      <3>2. QED
        BY <2>2, <3>1 DEF Stages
    <2>3. CASE (r # p \/ s # q) /\ (r # q \/ s # p)
      <3>1. link'[<<r, s>>] = link[<<r, s>>] /\ link'[<<s, r>>] = link[<<s, r>>]
        BY <2>3 DEF OnlyLink
      <3>2. QED
        BY <3>1 DEF Stages, Agree
    <2>4. QED
      BY <2>1, <2>2, <2>3
  <1>2. QED
    BY <1>1 DEF Stages, Agree

\* One side goes on: what the old copies say stays true.
LEMMA CopiesStep ==
    ASSUME CopiesAreTrue, net \subseteq Message \X Copies,
           NEW p \in Rank, NEW q \in Rank \ {p}, OnlyLink(p, q),
           ~Fresh(link[<<p, q>>]) =>
               /\ ~Fresh(link'[<<p, q>>])
               /\ Server(link'[<<p, q>>]) => Server(link[<<p, q>>]) \/ q < p,
           Up(link[<<p, q>>]) => Up(link'[<<p, q>>]),
           \A copy \in net' : copy \in net \/ Said(copy[1])'
    PROVE  CopiesAreTrue'
  <1>1. ASSUME NEW copy \in net
        PROVE  Said(copy[1])'
    <2> DEFINE m == copy[1]
    <2>1. m \in Message /\ Said(m)
      BY DEF CopiesAreTrue
    <2>2. Sender(m) \in Rank /\ Target(m) \in Rank \ {Sender(m)}
      BY <2>1, MessageParts DEF Said
    <2>3. CASE Sender(m) = p /\ Target(m) = q
      BY <2>1, <2>3 DEF Said, Up
    <2>4. CASE Sender(m) # p \/ Target(m) # q
      <3>1. link'[<<Sender(m), Target(m)>>] = link[<<Sender(m), Target(m)>>]
        BY <2>2, <2>4 DEF OnlyLink
      <3>2. QED
        BY <2>1, <3>1 DEF Said
    <2>5. QED
      BY <2>3, <2>4
  <1>2. QED
    BY <1>1 DEF CopiesAreTrue

\* The list of one process and one side of its connections change together.
LEMMA RetryStep ==
    ASSUME RetryIsDue, retry \in [Rank -> SUBSET Message],
           NEW p \in Rank, NEW q \in Rank \ {p}, OnlyLink(p, q),
           NEW R \in SUBSET Message, retry' = [retry EXCEPT ![p] = R],
           \A m \in Message :
               IF Sender(m) = p /\ Target(m) = q THEN m \in R <=> Due(p, m)'
               ELSE m \in R <=> m \in retry[p]
    PROVE  RetryIsDue' /\ retry' \in [Rank -> SUBSET Message]
  <1>1. ASSUME NEW r \in Rank, NEW m \in Message
        PROVE  m \in retry'[r] <=> Due(r, m)'
    <2>1. Sender(m) \in Rank /\ Target(m) \in Rank
      BY MessageParts
    <2>2. CASE r = p /\ Sender(m) = p /\ Target(m) = q
      BY <2>2
    <2>3. CASE r # p \/ Sender(m) # p \/ Target(m) # q
      <3>1. m \in retry'[r] <=> m \in retry[r]
        BY <2>3
      <3>2. m \in retry[r] <=> Due(r, m)
        BY DEF RetryIsDue
      <3>3. Due(r, m)' <=> Due(r, m)
        <4>1. CASE Sender(m) = r /\ Target(m) # r
          <5>1. link'[<<r, Target(m)>>] = link[<<r, Target(m)>>]
            BY <2>1, <2>3, <4>1 DEF OnlyLink
          <5>2. QED
            BY <5>1 DEF Due
        <4>2. CASE ~(Sender(m) = r /\ Target(m) # r)
          BY <4>2 DEF Due
        <4>3. QED
          BY <4>1, <4>2
      <3>4. QED
        BY <3>1, <3>2, <3>3
    <2>4. QED
      BY <2>2, <2>3
  <1>2. QED
    BY <1>1 DEF RetryIsDue

\* Nothing that is on its way or queued moves, and the new stage of p fits
\* what q expects.
LEMMA OrderingStep ==
    ASSUME Ordering, NEW p \in Rank, NEW q \in Rank \ {p}, OnlyLink(p, q),
           UNCHANGED dataVars,
           link'[<<p, q>>].pending_req = link[<<p, q>>].pending_req,
           wire[<<p, q>>] = << >>, wire[<<q, p>>] = << >>,
           Up(link'[<<p, q>>]) /\ Up(link[<<q, p>>]) =>
               /\ link'[<<p, q>>].next_packet_tosend = 1
               /\ link[<<q, p>>].next_packet_expected = 1
               /\ link[<<q, p>>].next_packet_tosend = 1
               /\ link'[<<p, q>>].next_packet_expected = 1
    PROVE  Ordering'
  <1>1. UNCHANGED <<wire, submitted, received>>
    BY DEF dataVars
  <1>2. ASSUME NEW r \in Rank, NEW s \in Rank \ {r}
        PROVE  InOrder(r, s)'
    <2>1. link'[<<r, s>>].pending_req = link[<<r, s>>].pending_req
      BY DEF OnlyLink
    <2>2. InOrder(r, s)
      BY DEF Ordering
    <2>3. QED
      BY <1>1, <2>1, <2>2 DEF InOrder
  <1>3. ASSUME NEW r \in Rank, NEW s \in Rank \ {r}
        PROVE  InSequence(r, s)'
    <2>1. InSequence(r, s)
      BY DEF Ordering
    <2>2. CASE r = p /\ s = q
      <3>1. link'[<<s, r>>] = link[<<s, r>>]
        BY <2>2 DEF OnlyLink
      <3>2. QED
        BY <1>1, <2>2, <3>1 DEF InSequence
    <2>3. CASE r = q /\ s = p
      <3>1. link'[<<r, s>>] = link[<<r, s>>]
        BY <2>3 DEF OnlyLink
      <3>2. QED
        BY <1>1, <2>3, <3>1 DEF InSequence
    <2>4. CASE (r # p \/ s # q) /\ (r # q \/ s # p)
      <3>1. link'[<<r, s>>] = link[<<r, s>>] /\ link'[<<s, r>>] = link[<<s, r>>]
        BY <2>4 DEF OnlyLink
      <3>2. QED
        BY <1>1, <2>1, <3>1 DEF InSequence
    <2>5. QED
      BY <2>2, <2>3, <2>4
  <1>4. QED
    BY <1>2, <1>3 DEF Ordering

\* A message is sent: the timer is awake.
LEMMA SendUdStep ==
    ASSUME ConnTypeOK, TimerAwake, NEW p \in Rank, NEW m \in Message,
           NEW taken, NEW cancelled, SendUd(p, m, taken, cancelled)
    PROVE  /\ TimerAwake'
           /\ timer' \in [Rank -> {"awake", "waiting"}]
           /\ net' \subseteq Message \X Copies
           /\ \A copy \in net' : copy \in net \/ copy[1] = m
           /\ (retry[p] \cup {m}) \ cancelled \in SUBSET Message
           /\ retry' = [retry EXCEPT ![p] = (@ \cup {m}) \ cancelled]
  <1>1. PICK slot \in Copies : net' = (net \ taken) \cup {<<m, slot>>}
    BY DEF SendUd
  <1>2. net' \subseteq Message \X Copies
    BY <1>1 DEF ConnTypeOK
  <1>3. \A copy \in net' : copy \in net \/ copy[1] = m
    BY <1>1
  <1>4. /\ retry' = [retry EXCEPT ![p] = (@ \cup {m}) \ cancelled]
        /\ timer' = [timer EXCEPT ![p] = IF retry[p] = {} THEN "awake" ELSE @]
    BY DEF SendUd
  <1>5. timer' \in [Rank -> {"awake", "waiting"}] /\ TimerAwake'
    BY <1>4 DEF ConnTypeOK, TimerAwake
  <1>6. (retry[p] \cup {m}) \ cancelled \in SUBSET Message
    BY DEF ConnTypeOK
  <1>7. QED
    BY <1>2, <1>3, <1>4, <1>5, <1>6

LEMMA LinkUpdate ==
    ASSUME link \in [Pair -> Link], NEW p \in Rank, NEW q \in Rank \ {p},
           NEW l \in Link, link' = [link EXCEPT ![<<p, q>>] = l]
    PROVE  /\ link' \in [Pair -> Link] /\ link'[<<p, q>>] = l
           /\ OnlyLink(p, q)
  BY DEF Pair, OnlyLink

\* A side that is neither fresh nor open waits for the other.
LEMMA SeenStep ==
    ASSUME QueuesAreSeen, NEW p \in Rank, NEW q \in Rank \ {p},
           OnlyLink(p, q), UNCHANGED <<main, handler, new_connection>>,
           ~Fresh(link'[<<p, q>>]), ~Open(link'[<<p, q>>])
    PROVE  QueuesAreSeen'
  <1>1. ASSUME NEW r \in Rank, NEW s \in Rank \ {r}
        PROVE  Seen(r, s)'
    <2>1. CASE r = p /\ s = q
      BY <2>1 DEF Seen
    <2>2. CASE r # p \/ s # q
      BY <2>2 DEF Seen, OnlyLink, QueuesAreSeen
    <2>3. QED
      BY <2>1, <2>2
  <1>2. QED
    BY <1>1 DEF QueuesAreSeen

\* What is known of the two sides of a pair.
LEMMA PairFacts ==
    ASSUME IInv, NEW p \in Rank, NEW q \in Rank \ {p}
    PROVE  LET l == link[<<p, q>>]
               k == link[<<q, p>>]
           IN  /\ l \in Link /\ Staged(l) /\ Staged(k)
               /\ Matched(l, k) /\ Matched(k, l)
               /\ l.pending_req \in Seq(Nat)
               /\ wire[<<p, q>>] \in Seq(Packet)
               /\ wire[<<p, q>>] # << >> => Open(l)
               /\ InOrder(p, q) /\ InSequence(p, q) /\ Seen(p, q)
  <1>1. link[<<p, q>>] \in Link /\ wire[<<p, q>>] \in Seq(Packet)
    BY PairValue DEF IInv, ConnTypeOK
  <1>2. link[<<p, q>>].pending_req \in Seq(Nat)
    BY <1>1 DEF Link
  <1>3. /\ Staged(link[<<p, q>>]) /\ Staged(link[<<q, p>>])
        /\ Matched(link[<<p, q>>], link[<<q, p>>])
        /\ Matched(link[<<q, p>>], link[<<p, q>>])
    BY DEF IInv, Stages, Agree
  <1>4. InOrder(p, q) /\ InSequence(p, q) /\ Seen(p, q)
    BY DEF IInv, Ordering, QueuesAreSeen
  <1>5. QED
    BY <1>1, <1>2, <1>3, <1>4 DEF InSequence

\* A copy of a message and the pair it is about.
LEMMA CopyFacts ==
    ASSUME IInv, NEW m \in Message, NEW slot \in Copies, <<m, slot>> \in net
    PROVE  /\ Said(m) /\ m.qpn = 1
           /\ Target(m) \in Rank /\ Sender(m) \in Rank \ {Target(m)}
           /\ m.type = "REQ" => Sender(m) = m.client /\ Target(m) = m.server
           /\ m.type = "REP" => Sender(m) = m.server /\ Target(m) = m.client
  <1>1. Said(m)
    BY DEF IInv, CopiesAreTrue
  <1>2. QED
    BY <1>1, MessageParts DEF Said

-----------------------------------------------------------------------------
(* The thread that handles UD messages.                                     *)

LEMMA AcceptStep ==
    ASSUME IInv, NEW m \in Message, NEW slot \in Copies, <<m, slot>> \in net,
           Accept(Target(m), m, slot)
    PROVE  IInv'
  <1> DEFINE p == Target(m)
             q == Sender(m)
             l == link[<<p, q>>]
             k == link[<<q, p>>]
             new == Answering(CreateQp(l), 1)
  <1>1. /\ p \in Rank /\ q \in Rank \ {p} /\ p \in Rank \ {q}
        /\ m.type = "REQ" /\ q = m.client /\ m.qpn = 1
        /\ Said(m) /\ ~Fresh(k)
    BY CopyFacts DEF Accept, Said
  <1>2. l \in Link /\ Staged(l) /\ Matched(l, k)
    BY <1>1, PairFacts
  <1>3. Fresh(l)
    BY <1>1, <1>2, StageTests DEF Accept, ReqIgnored, Staged, Link
  <1>4. new \in Link /\ Server(new) /\ new.qpn = 1
        /\ new.pending_req = l.pending_req
    BY <1>2, <1>3, AcceptStage
  <1>5. Client(k)
    BY <1>1, <1>2, <1>3 DEF Matched
  <1>6. /\ link' = [link EXCEPT ![<<p, q>>] = new]
        /\ SendUd(p, Rep(p, q, 1), {<<m, slot>>}, {})
        /\ UNCHANGED <<handler, new_connection, main>> /\ UNCHANGED dataVars
    BY <1>1, <1>4 DEF Accept
  <1> HIDE DEF new
  <1>7. link' \in [Pair -> Link] /\ link'[<<p, q>>] = new /\ OnlyLink(p, q)
    <2>1. link \in [Pair -> Link]
      BY DEF IInv, ConnTypeOK
    <2>2. QED
      BY <1>1, <1>4, <1>6, <2>1, LinkUpdate
  <1>8. Stages' /\ Agree'
    <2>1. Matched(new, k) /\ Matched(k, new) /\ Staged(new)
      BY <1>4, <1>5, OneStage DEF Matched, Staged
    <2>2. QED
      BY <1>1, <1>7, <2>1, StagesStep DEF IInv
  <1> DEFINE R == (retry[p] \cup {Rep(p, q, 1)}) \ {}
  <1>9. /\ TimerAwake' /\ timer' \in [Rank -> {"awake", "waiting"}]
        /\ net' \subseteq Message \X Copies
        /\ \A copy \in net' : copy \in net \/ copy[1] = Rep(p, q, 1)
        /\ R \in SUBSET Message /\ retry' = [retry EXCEPT ![p] = R]
    BY <1>1, <1>6, MessageMade, SendUdStep DEF IInv
  <1>10. CopiesAreTrue'
    <2>1. Said(Rep(p, q, 1))'
      BY <1>1, <1>4, <1>7, MessageMade DEF Said
    <2>2. Up(l) => Up(new)
      BY <1>4 DEF Up
    <2>3. ~Fresh(l) => ~Fresh(new) /\ (Server(new) => Server(l) \/ q < p)
      BY <1>3
    <2>4. \A copy \in net' : copy \in net \/ Said(copy[1])'
      BY <1>9, <2>1
    <2>5. QED
      BY <1>1, <1>7, <2>2, <2>3, <2>4, CopiesStep DEF IInv, ConnTypeOK
  <1>11. RetryIsDue' /\ retry' \in [Rank -> SUBSET Message]
    <2>1. ASSUME NEW n \in Message, Sender(n) = p, Target(n) = q
          PROVE  n \in R <=> Due(p, n)'
      <3>1. n \notin retry[p]
        BY <1>1, <1>3, <2>1 DEF IInv, RetryIsDue, Due, Fresh
      <3>2. n = Rep(p, q, 1) <=> n.type = "REP" /\ n.qpn = 1
        BY <1>1, <2>1, MessageIs, MessageMade
      <3>3. n.type = "REQ" \/ n.type = "REP"
        BY MessageParts
      <3>4. QED
        BY <1>1, <1>4, <1>7, <2>1, <3>1, <3>2, <3>3 DEF Due, Server
    <2>2. ASSUME NEW n \in Message, ~(Sender(n) = p /\ Target(n) = q)
          PROVE  n \in R <=> n \in retry[p]
      BY <1>1, <2>2, MessageMade
    <2>3. \A n \in Message :
              IF Sender(n) = p /\ Target(n) = q THEN n \in R <=> Due(p, n)'
              ELSE n \in R <=> n \in retry[p]
      BY <2>1, <2>2
    <2>4. retry \in [Rank -> SUBSET Message] /\ RetryIsDue
      BY DEF IInv, ConnTypeOK
    <2> HIDE DEF R
    <2>5. QED
      BY <1>1, <1>7, <1>9, <2>3, <2>4, RetryStep
  <1>12. Ordering'
    <2>1. wire[<<p, q>>] = << >> /\ wire[<<q, p>>] = << >>
      BY <1>1, <1>3, <1>5, PairFacts, OneStage
    <2>2. ~Up(k)
      BY <1>5, OneStage DEF Up
    <2>3. QED
      BY <1>1, <1>4, <1>6, <1>7, <2>1, <2>2, OrderingStep DEF IInv
  <1>13. QueuesAreSeen'
    BY <1>1, <1>4, <1>6, <1>7, OneStage, SeenStep DEF IInv
  <1>14. ConnTypeOK' /\ Places'
    BY <1>6, <1>7, <1>9, <1>11 DEF IInv, ConnTypeOK, Places, dataVars
  <1>15. QED
    BY <1>8, <1>9, <1>10, <1>11, <1>12, <1>13, <1>14 DEF IInv

LEMMA CancelStep ==
    ASSUME IInv, NEW m \in Message, NEW slot \in Copies, <<m, slot>> \in net,
           AcceptAndCancel(Target(m), m, slot)
    PROVE  IInv'
  <1> DEFINE p == Target(m)
             q == Sender(m)
             l == link[<<p, q>>]
             k == link[<<q, p>>]
             new == [Answering(l, 1) EXCEPT !.cli = "idle"]
  <1>1. /\ p \in Rank /\ q \in Rank \ {p} /\ p \in Rank \ {q}
        /\ m.type = "REQ" /\ q = m.client /\ m.qpn = 1
        /\ Said(m) /\ ~Fresh(k) /\ (Server(k) => p < q)
    BY CopyFacts DEF AcceptAndCancel, Said
  <1>2. l \in Link /\ Staged(l) /\ Staged(k) /\ Matched(l, k)
    BY <1>1, PairFacts
  <1>3. Client(l) /\ ~(q > p)
    BY <1>1, <1>2, StageTests DEF AcceptAndCancel, ReqIgnored
  <1>4. new \in Link /\ Server(new) /\ Answering(l, 1).qpn = 1
        /\ new.pending_req = l.pending_req
    BY <1>2, <1>3, CancelStage
  <1>5. Client(k) /\ q < p
    <2>1. p \in Nat /\ q \in Nat /\ p # q
      BY <1>1, RankAssumption
    <2>2. q < p
      BY <1>3, <2>1
    <2>3. ~Open(k) /\ ~Server(k)
      BY <1>1, <1>2, <1>3, <2>1, <2>2 DEF Matched
    <2>4. QED
      BY <1>1, <1>2, <2>2, <2>3 DEF Staged
  <1>6. /\ link' = [link EXCEPT ![<<p, q>>] = new]
        /\ SendUd(p, Rep(p, q, 1), {<<m, slot>>}, Cancelled(p, q))
        /\ UNCHANGED <<handler, new_connection, main>> /\ UNCHANGED dataVars
    BY <1>1, <1>4 DEF AcceptAndCancel
  <1> HIDE DEF new
  <1>7. link' \in [Pair -> Link] /\ link'[<<p, q>>] = new /\ OnlyLink(p, q)
    <2>1. link \in [Pair -> Link]
      BY DEF IInv, ConnTypeOK
    <2>2. QED
      BY <1>1, <1>4, <1>6, <2>1, LinkUpdate
  <1>8. Stages' /\ Agree'
    <2>1. Matched(new, k) /\ Matched(k, new) /\ Staged(new)
      BY <1>4, <1>5, OneStage DEF Matched, Staged
    <2>2. QED
      BY <1>1, <1>7, <2>1, StagesStep DEF IInv
  <1> DEFINE R == (retry[p] \cup {Rep(p, q, 1)}) \ Cancelled(p, q)
  <1>9. /\ TimerAwake' /\ timer' \in [Rank -> {"awake", "waiting"}]
        /\ net' \subseteq Message \X Copies
        /\ \A copy \in net' : copy \in net \/ copy[1] = Rep(p, q, 1)
        /\ R \in SUBSET Message /\ retry' = [retry EXCEPT ![p] = R]
    BY <1>1, <1>6, MessageMade, SendUdStep DEF IInv
  <1>10. CopiesAreTrue'
    <2>1. Said(Rep(p, q, 1))'
      BY <1>1, <1>4, <1>7, MessageMade DEF Said
    <2>2. Up(l) => Up(new)
      BY <1>4 DEF Up
    <2>3. ~Fresh(l) => ~Fresh(new) /\ (Server(new) => Server(l) \/ q < p)
      BY <1>4, <1>5, OneStage
    <2>4. \A copy \in net' : copy \in net \/ Said(copy[1])'
      BY <1>9, <2>1
    <2>5. QED
      BY <1>1, <1>7, <2>2, <2>3, <2>4, CopiesStep DEF IInv, ConnTypeOK
  <1>11. RetryIsDue' /\ retry' \in [Rank -> SUBSET Message]
    <2>1. ASSUME NEW n \in Message
          PROVE  /\ n \in Cancelled(p, q) <=> /\ n \in retry[p]
                                             /\ n.type = "REQ" /\ n.server = q
                 /\ n \in retry[p] <=> Due(p, n)
      BY <1>1 DEF Cancelled, Entry, IInv, RetryIsDue
    <2>2. ASSUME NEW n \in Message, Sender(n) = p, Target(n) = q
          PROVE  n \in R <=> Due(p, n)'
      <3>1. n = Rep(p, q, 1) <=> n.type = "REP" /\ n.qpn = 1
        BY <1>1, <2>2, MessageIs, MessageMade
      <3>2. /\ n.type = "REQ" \/ n.type = "REP"
            /\ n.type = "REQ" => n.server = q
        BY <2>2, MessageParts
      <3>3. n.type = "REP" => n \notin retry[p]
        BY <1>1, <1>3, <2>1, <2>2 DEF Due, Client
      <3>4. QED
        BY <1>1, <1>4, <1>7, <2>1, <2>2, <3>1, <3>2, <3>3 DEF Due, Server
    <2>3. ASSUME NEW n \in Message, ~(Sender(n) = p /\ Target(n) = q)
          PROVE  n \in R <=> n \in retry[p]
      <3>1. n \notin Cancelled(p, q)
        BY <2>1, <2>3, MessageParts DEF Due
      <3>2. QED
        BY <1>1, <2>3, <3>1, MessageMade
    <2>4. \A n \in Message :
              IF Sender(n) = p /\ Target(n) = q THEN n \in R <=> Due(p, n)'
              ELSE n \in R <=> n \in retry[p]
      BY <2>2, <2>3
    <2>5. retry \in [Rank -> SUBSET Message] /\ RetryIsDue
      BY DEF IInv, ConnTypeOK
    <2> HIDE DEF R
    <2>6. QED
      BY <1>1, <1>7, <1>9, <2>4, <2>5, RetryStep
  <1>12. Ordering'
    <2>1. wire[<<p, q>>] = << >> /\ wire[<<q, p>>] = << >>
      BY <1>1, <1>3, <1>5, PairFacts, OneStage
    <2>2. ~Up(k)
      BY <1>5, OneStage DEF Up
    <2>3. QED
      BY <1>1, <1>4, <1>6, <1>7, <2>1, <2>2, OrderingStep DEF IInv
  <1>13. QueuesAreSeen'
    BY <1>1, <1>4, <1>6, <1>7, OneStage, SeenStep DEF IInv
  <1>14. ConnTypeOK' /\ Places'
    BY <1>6, <1>7, <1>9, <1>11 DEF IInv, ConnTypeOK, Places, dataVars
  <1>15. QED
    BY <1>8, <1>9, <1>10, <1>11, <1>12, <1>13, <1>14 DEF IInv

LEMMA EnableStep ==
    ASSUME IInv, NEW m \in Message, NEW slot \in Copies, <<m, slot>> \in net,
           Enable(Target(m), m, slot)
    PROVE  IInv'
  <1> DEFINE p == Target(m)
             q == Sender(m)
             l == link[<<p, q>>]
             k == link[<<q, p>>]
             new == [EnableQp(ToRts(ToRtr(l, 1)))
                        EXCEPT !.conn = "rc", !.cli = "idle"]
  <1>1. /\ p \in Rank /\ q \in Rank \ {p} /\ p \in Rank \ {q}
        /\ m.type = "REP" /\ q = m.server /\ m.qpn = 1
        /\ Server(k) \/ Open(k)
    BY CopyFacts DEF Enable, Said
  <1>2. /\ l \in Link /\ Staged(l) /\ Matched(l, k)
        /\ Seen(p, q) /\ InSequence(q, p)
    BY <1>1, PairFacts
  <1>3. Client(l)
    BY <1>1, <1>2, StageTests DEF Enable, WaitsForRep
  <1>4. /\ new \in Link /\ Open(new)
        /\ new.next_packet_tosend = 1 /\ new.next_packet_expected = 1
        /\ new.pending_req = l.pending_req
    BY <1>2, <1>3, EnableStage
  <1>5. Server(k)
    BY <1>1, <1>2, <1>3 DEF Matched
  <1> DEFINE R == retry[p] \ Entry(p, "REQ", q)
  <1>6. /\ link' = [link EXCEPT ![<<p, q>>] = new]
        /\ retry' = [retry EXCEPT ![p] = R]
        /\ handler' = [handler EXCEPT ![p] = "marking"]
        /\ net' = net \ {<<m, slot>>}
        /\ UNCHANGED <<timer, new_connection, main>> /\ UNCHANGED dataVars
    BY <1>1 DEF Enable
  <1> HIDE DEF new
  <1>7. link' \in [Pair -> Link] /\ link'[<<p, q>>] = new /\ OnlyLink(p, q)
    <2>1. link \in [Pair -> Link]
      BY DEF IInv, ConnTypeOK
    <2>2. QED
      BY <1>1, <1>4, <1>6, <2>1, LinkUpdate
  <1>8. Stages' /\ Agree'
    <2>1. Matched(new, k) /\ Matched(k, new) /\ Staged(new)
      BY <1>4, <1>5, OneStage DEF Matched, Staged
    <2>2. QED
      BY <1>1, <1>7, <2>1, StagesStep DEF IInv
  <1>9. R \in SUBSET Message /\ TimerAwake'
    BY <1>1, <1>6 DEF IInv, ConnTypeOK, TimerAwake
  <1>10. CopiesAreTrue'
    <2>1. Up(l) => Up(new)
      BY <1>4 DEF Up
    <2>2. ~Fresh(l) => ~Fresh(new) /\ (Server(new) => Server(l) \/ q < p)
      BY <1>4, OneStage
    <2>3. \A copy \in net' : copy \in net \/ Said(copy[1])'
      BY <1>6
    <2>4. QED
      BY <1>1, <1>7, <2>1, <2>2, <2>3, CopiesStep DEF IInv, ConnTypeOK
  <1>11. RetryIsDue' /\ retry' \in [Rank -> SUBSET Message]
    <2>1. ASSUME NEW n \in Message
          PROVE  /\ n \in Entry(p, "REQ", q) <=> /\ n \in retry[p]
                                                 /\ n.type = "REQ"
                                                 /\ n.server = q
                 /\ n \in retry[p] <=> Due(p, n)
      BY <1>1 DEF Entry, IInv, RetryIsDue
    <2>2. ASSUME NEW n \in Message, Sender(n) = p, Target(n) = q
          PROVE  n \in R <=> Due(p, n)'
      <3>1. /\ n.type = "REQ" \/ n.type = "REP"
            /\ n.type = "REQ" => n.server = q
        BY <2>2, MessageParts
      <3>2. n.type = "REP" => n \notin retry[p]
        BY <1>1, <1>3, <2>1, <2>2 DEF Due, Client
      <3>3. QED
        BY <1>1, <1>4, <1>7, <2>1, <2>2, <3>1, <3>2 DEF Due, Open
    <2>3. ASSUME NEW n \in Message, ~(Sender(n) = p /\ Target(n) = q)
          PROVE  n \in R <=> n \in retry[p]
      BY <2>1, <2>3, MessageParts DEF Due
    <2>4. \A n \in Message :
              IF Sender(n) = p /\ Target(n) = q THEN n \in R <=> Due(p, n)'
              ELSE n \in R <=> n \in retry[p]
      BY <2>2, <2>3
    <2>5. retry \in [Rank -> SUBSET Message] /\ RetryIsDue
      BY DEF IInv, ConnTypeOK
    <2>6. R \in SUBSET Message /\ retry' = [retry EXCEPT ![p] = R]
      BY <1>6, <1>9
    <2>7. p \in Rank /\ q \in Rank \ {p} /\ OnlyLink(p, q)
      BY <1>1, <1>7
    <2> HIDE DEF R
    <2>8. QED
      BY <2>4, <2>5, <2>6, <2>7, RetryStep
  <1>12. Ordering'
    <2>1. wire[<<p, q>>] = << >> /\ wire[<<q, p>>] = << >>
      BY <1>1, <1>3, <1>5, PairFacts, OneStage
    <2>2. k.next_packet_tosend = 1 /\ k.next_packet_expected = 1
      BY <1>5 DEF Server
    <2>3. QED
      BY <1>1, <1>4, <1>6, <1>7, <2>1, <2>2, OrderingStep DEF IInv
  <1>13. QueuesAreSeen'
    <2>1. ASSUME NEW r \in Rank, NEW s \in Rank \ {r}
          PROVE  Seen(r, s)'
      <3>1. Seen(r, s) /\ handler'[p] = "marking"
        BY <1>1, <1>6 DEF IInv, QueuesAreSeen, ConnTypeOK
      <3>2. CASE r = p /\ s = q
        BY <1>1, <1>4, <1>7, <3>1, <3>2, OneStage DEF Seen
      <3>3. CASE r # p \/ s # q
        <4>1. link'[<<r, s>>] = link[<<r, s>>]
          BY <1>7, <3>3 DEF OnlyLink
        <4>2. r # p => handler'[r] = handler[r]
          BY <1>1, <1>6 DEF IInv, ConnTypeOK
        <4>3. QED
          BY <1>6, <3>1, <4>1, <4>2 DEF Seen
      <3>4. QED
        BY <3>2, <3>3
    <2>2. QED
      BY <2>1 DEF QueuesAreSeen
  <1>14. ConnTypeOK' /\ Places'
    <2>1. net' \subseteq Message \X Copies
      BY <1>6 DEF IInv, ConnTypeOK
    <2>2. handler' \in [Rank -> {"idle", "marking"}]
      BY <1>1, <1>6 DEF IInv, ConnTypeOK
    <2>3. QED
      BY <1>6, <1>7, <1>11, <2>1, <2>2 DEF IInv, ConnTypeOK, Places, dataVars
  <1>15. QED
    BY <1>8, <1>9, <1>10, <1>11, <1>12, <1>13, <1>14 DEF IInv

\* Steps that leave both ends of every connection alone.
LEMMA LinksKept ==
    ASSUME IInv, UNCHANGED link, UNCHANGED dataVars
    PROVE  /\ Stages' /\ Agree' /\ Ordering' /\ link' \in [Pair -> Link]
           /\ (\A copy \in net' : copy \in net \/ Said(copy[1])) =>
                  CopiesAreTrue'
           /\ UNCHANGED retry =>
                  RetryIsDue' /\ retry' \in [Rank -> SUBSET Message]
           /\ UNCHANGED <<main, handler, new_connection>> => QueuesAreSeen'
  <1>1. Stages' /\ Agree' /\ link' \in [Pair -> Link]
    BY DEF IInv, Stages, Agree, ConnTypeOK
  <1>2. Ordering'
    <2>1. ASSUME NEW p \in Rank, NEW q \in Rank \ {p}
          PROVE  InOrder(p, q)' /\ InSequence(p, q)'
      <3>1. InOrder(p, q) /\ InSequence(p, q)
        BY DEF IInv, Ordering
      <3>2. InOrder(p, q)'
        BY <3>1 DEF InOrder, dataVars
      <3>3. InSequence(p, q)'
        BY <3>1 DEF InSequence, dataVars
      <3>4. QED
        BY <3>2, <3>3
    <2>2. QED
      BY <2>1 DEF Ordering
  <1>3. ASSUME \A copy \in net' : copy \in net \/ Said(copy[1])
        PROVE  CopiesAreTrue'
    BY <1>3 DEF IInv, CopiesAreTrue, Said
  <1>4. ASSUME UNCHANGED retry
        PROVE  RetryIsDue' /\ retry' \in [Rank -> SUBSET Message]
    BY <1>4 DEF IInv, RetryIsDue, Due, ConnTypeOK
  <1>5. ASSUME UNCHANGED <<main, handler, new_connection>>
        PROVE  QueuesAreSeen'
    BY <1>5 DEF IInv, QueuesAreSeen, Seen
  <1>6. QED
    BY <1>1, <1>2, <1>3, <1>4, <1>5

LEMMA IgnoreStep ==
    ASSUME IInv, NEW m \in Message, NEW slot \in Copies,
           Ignore(Target(m), m, slot)
    PROVE  IInv'
  <1>1. /\ UNCHANGED <<link, retry, timer, handler, new_connection, main>>
        /\ UNCHANGED dataVars /\ net' = net \ {<<m, slot>>}
    BY DEF Ignore
  <1>2. /\ Stages' /\ Agree' /\ Ordering' /\ CopiesAreTrue'
        /\ RetryIsDue' /\ QueuesAreSeen'
    BY <1>1, LinksKept
  <1>3. ConnTypeOK' /\ Places' /\ TimerAwake'
    BY <1>1 DEF IInv, ConnTypeOK, Places, TimerAwake, dataVars
  <1>4. QED
    BY <1>2, <1>3 DEF IInv

LEMMA MarkStep ==
    ASSUME IInv, NEW p \in Rank, MarkNewConnection(p)
    PROVE  IInv'
  <1>1. /\ UNCHANGED <<link, retry, timer, main, net>> /\ UNCHANGED dataVars
        /\ handler' = [handler EXCEPT ![p] = "idle"]
        /\ new_connection' = [new_connection EXCEPT ![p] = TRUE]
    BY DEF MarkNewConnection
  <1>2. Stages' /\ Agree' /\ Ordering' /\ CopiesAreTrue' /\ RetryIsDue'
    BY <1>1, LinksKept
  <1>3. /\ handler' \in [Rank -> {"idle", "marking"}]
        /\ new_connection' \in [Rank -> BOOLEAN]
        /\ new_connection'[p] = TRUE
        /\ \A r \in Rank \ {p} : /\ handler'[r] = handler[r]
                                 /\ new_connection'[r] = new_connection[r]
    BY <1>1 DEF IInv, ConnTypeOK
  <1>4. ConnTypeOK' /\ Places' /\ TimerAwake'
    BY <1>1, <1>3 DEF IInv, ConnTypeOK, Places, TimerAwake, dataVars
  <1>5. ASSUME NEW r \in Rank, NEW s \in Rank \ {r}
        PROVE  Seen(r, s)'
    BY <1>1, <1>3 DEF IInv, QueuesAreSeen, Seen
  <1>6. QED
    BY <1>2, <1>4, <1>5 DEF IInv, QueuesAreSeen

-----------------------------------------------------------------------------
(* The timer thread and the UD service.                                     *)

LEMMA ResendStep ==
    ASSUME IInv, NEW p \in Rank, NEW m \in retry[p], Resend(p, m)
    PROVE  IInv'
  <1>1. PICK slot \in Copies : net' = net \cup {<<m, slot>>}
    BY DEF Resend
  <1>2. /\ UNCHANGED <<link, retry, timer, handler, new_connection, main>>
        /\ UNCHANGED dataVars
    BY DEF Resend
  <1>3. m \in Message /\ Due(p, m)
    BY DEF IInv, ConnTypeOK, RetryIsDue
  <1>4. Said(m)
    <2>1. Target(m) \in Rank \ {p} /\ Sender(m) = p /\ m.qpn = 1
      BY <1>3, MessageParts DEF Due
    <2>2. Staged(link[<<p, Target(m)>>])
      BY <2>1, PairFacts
    <2>3. CASE m.type = "REQ"
      <3>1. Client(link[<<p, Target(m)>>])
        BY <1>3, <2>2, <2>3, StageTests DEF Due
      <3>2. QED
        BY <2>1, <2>3, <3>1, OneStage DEF Said
    <2>4. CASE m.type # "REQ"
      <3>1. Server(link[<<p, Target(m)>>])
        BY <1>3, <2>2, <2>4, StageTests DEF Due
      <3>2. QED
        BY <2>1, <2>4, <3>1 DEF Said
    <2>5. QED
      BY <2>3, <2>4
  <1>5. \A copy \in net' : copy \in net \/ Said(copy[1])
    BY <1>1, <1>4
  <1>6. /\ Stages' /\ Agree' /\ Ordering' /\ CopiesAreTrue'
        /\ RetryIsDue' /\ QueuesAreSeen'
    BY <1>2, <1>5, LinksKept
  <1>7. net' \subseteq Message \X Copies
    BY <1>1, <1>3 DEF IInv, ConnTypeOK
  <1>8. ConnTypeOK' /\ Places' /\ TimerAwake'
    BY <1>2, <1>7 DEF IInv, ConnTypeOK, Places, TimerAwake, dataVars
  <1>9. QED
    BY <1>6, <1>8 DEF IInv

LEMMA TimerStep ==
    ASSUME IInv, NEW p \in Rank, TimerWaits(p)
    PROVE  IInv'
  <1>1. /\ UNCHANGED <<link, retry, handler, new_connection, main, net>>
        /\ UNCHANGED dataVars /\ retry[p] = {}
        /\ timer' = [timer EXCEPT ![p] = "waiting"]
    BY DEF TimerWaits
  <1>2. /\ Stages' /\ Agree' /\ Ordering' /\ CopiesAreTrue'
        /\ RetryIsDue' /\ QueuesAreSeen'
    BY <1>1, LinksKept
  <1>3. timer' \in [Rank -> {"awake", "waiting"}] /\ TimerAwake'
    BY <1>1 DEF IInv, ConnTypeOK, TimerAwake
  <1>4. ConnTypeOK' /\ Places'
    BY <1>1, <1>3 DEF IInv, ConnTypeOK, Places, dataVars
  <1>5. QED
    BY <1>2, <1>3, <1>4 DEF IInv

LEMMA LoseStep ==
    ASSUME IInv, NEW m \in Message, NEW slot \in Copies, Lose(m, slot)
    PROVE  IInv'
  <1>1. /\ UNCHANGED <<link, retry, timer, handler, new_connection, main>>
        /\ UNCHANGED dataVars /\ net' = net \ {<<m, slot>>}
    BY DEF Lose
  <1>2. /\ Stages' /\ Agree' /\ Ordering' /\ CopiesAreTrue'
        /\ RetryIsDue' /\ QueuesAreSeen'
    BY <1>1, LinksKept
  <1>3. ConnTypeOK' /\ Places' /\ TimerAwake'
    BY <1>1 DEF IInv, ConnTypeOK, Places, TimerAwake, dataVars
  <1>4. QED
    BY <1>2, <1>3 DEF IInv

-----------------------------------------------------------------------------
(* The MPI thread.                                                          *)

LEMMA GotoStep ==
    ASSUME ConnTypeOK, Places, NEW p \in Rank,
           NEW place \in {"app", "connect", "scan", "poll"},
           NEW peers \in SUBSET (Rank \ {p}), Goto(p, place, peers),
           place = "connect" => \A q \in peers, r \in peers : q = r
    PROVE  /\ main' \in [Rank -> [at : {"app", "connect", "scan", "poll"},
                                  peers : SUBSET Rank]]
           /\ main'[p].at = place /\ main'[p].peers = peers
           /\ \A r \in Rank \ {p} : main'[r] = main[r]
           /\ Places'
  <1>1. /\ main' \in [Rank -> [at : {"app", "connect", "scan", "poll"},
                               peers : SUBSET Rank]]
        /\ main'[p].at = place /\ main'[p].peers = peers
        /\ \A r \in Rank \ {p} : main'[r] = main[r]
    BY DEF ConnTypeOK, Goto
  <1>2. Places'
    BY <1>1 DEF Places
  <1>3. QED
    BY <1>1, <1>2

\* The packets of one pair go on, and nothing else does.
LEMMA OrderingElsewhere ==
    ASSUME Ordering, NEW p \in Rank, NEW q \in Rank \ {p}, OnlyLink(p, q),
           \A r \in Rank : \A s \in Rank \ {r} :
               (r # p \/ s # q) /\ (r # q \/ s # p) =>
                   /\ wire'[<<r, s>>] = wire[<<r, s>>]
                   /\ submitted'[<<r, s>>] = submitted[<<r, s>>]
                   /\ received'[<<r, s>>] = received[<<r, s>>],
           InOrder(p, q)', InSequence(p, q)', InOrder(q, p)', InSequence(q, p)'
    PROVE  Ordering'
  <1>1. ASSUME NEW r \in Rank, NEW s \in Rank \ {r}
        PROVE  InOrder(r, s)' /\ InSequence(r, s)'
    <2>1. CASE (r = p /\ s = q) \/ (r = q /\ s = p)
      BY <2>1
    <2>2. CASE (r # p \/ s # q) /\ (r # q \/ s # p)
      <3>1. /\ link'[<<r, s>>] = link[<<r, s>>]
            /\ link'[<<s, r>>] = link[<<s, r>>]
        BY <2>2 DEF OnlyLink
      <3>2. /\ wire'[<<r, s>>] = wire[<<r, s>>]
            /\ submitted'[<<r, s>>] = submitted[<<r, s>>]
            /\ received'[<<r, s>>] = received[<<r, s>>]
        BY <2>2
      <3>3. InOrder(r, s) /\ InSequence(r, s)
        BY DEF Ordering
      <3>4. InOrder(r, s)'
        BY <3>1, <3>2, <3>3 DEF InOrder
      <3>5. InSequence(r, s)'
        BY <3>1, <3>2, <3>3 DEF InSequence
      <3>6. QED
        BY <3>4, <3>5
    <2>3. QED
      BY <2>1, <2>2
  <1>2. QED
    BY <1>1 DEF Ordering

\* A step that keeps both roles keeps what is due.
LEMMA RolesKept ==
    ASSUME RetryIsDue, retry \in [Rank -> SUBSET Message], UNCHANGED retry,
           NEW p \in Rank, NEW q \in Rank \ {p}, OnlyLink(p, q),
           link'[<<p, q>>].cli = link[<<p, q>>].cli,
           link'[<<p, q>>].srv = link[<<p, q>>].srv
    PROVE  RetryIsDue' /\ retry' \in [Rank -> SUBSET Message]
  <1>1. ASSUME NEW r \in Rank, NEW m \in Message
        PROVE  m \in retry'[r] <=> Due(r, m)'
    <2>1. Target(m) \in Rank /\ (m \in retry[r] <=> Due(r, m))
      BY MessageParts DEF RetryIsDue
    <2>2. Target(m) # r =>
              /\ link'[<<r, Target(m)>>].cli = link[<<r, Target(m)>>].cli
              /\ link'[<<r, Target(m)>>].srv = link[<<r, Target(m)>>].srv
      BY <2>1 DEF OnlyLink
    <2>3. QED
      BY <2>1, <2>2 DEF Due
  <1>2. QED
    BY <1>1 DEF RetryIsDue

\* The packets of w carry the sends after d and the numbers from e on.
Numbered(w, d, e) ==
    \A i \in 1 .. Len(w) : w[i].id = d + i /\ w[i].seq = e + i - 1

\* A wire with the packets of the sends ids put behind those of w.
Behind(w, l, ids) == w \o Packets(l, ids)

\* The sends ids, put on the wire behind what is there.
LEMMA PostFlow ==
    ASSUME NEW l \in Link, NEW w \in Seq(Packet), NEW ids \in Seq(Nat),
           NEW d \in Nat, NEW e \in Nat,
           Numbered(w, d, e),
           CountsFrom(ids, d + Len(w)), l.next_packet_tosend = e + Len(w)
    PROVE  /\ Behind(w, l, ids) \in Seq(Packet)
           /\ Len(Behind(w, l, ids)) = Len(w) + Len(ids)
           /\ Numbered(Behind(w, l, ids), d, e)
  <1> DEFINE new == Packets(l, ids)
             v == Behind(w, l, ids)
  <1>1. d + Len(w) \in Nat
    OBVIOUS
  <1>2. /\ new \in Seq(Packet) /\ Len(new) = Len(ids)
        /\ \A i \in 1 .. Len(new) : /\ new[i].id = d + Len(w) + i
                                    /\ new[i].seq = e + Len(w) + i - 1
    <2> DEFINE b == d + Len(w)
               f == e + Len(w)
    <2>1. b \in Nat /\ f \in Nat /\ l.next_packet_tosend = f /\ CountsFrom(ids, b)
      BY <1>1
    <2> HIDE DEF b, f, new
    <2>2. /\ new \in Seq(Packet) /\ Len(new) = Len(ids)
          /\ \A i \in 1 .. Len(new) : new[i].id = b + i /\ new[i].seq = f + i - 1
      BY <2>1, PacketsCount DEF new
    <2> QED
      BY <2>2 DEF b, f
  <1>3. \A i \in 1 .. Len(w) : w[i].id = d + i /\ w[i].seq = e + i - 1
    BY DEF Numbered
  <1>4. v = w \o new
    BY DEF Behind
  <1> HIDE DEF new
  <1>5. /\ new \in Seq(Packet)
        /\ \A i \in 1 .. Len(new) : /\ new[i].id = d + Len(w) + i
                                    /\ new[i].seq = e + Len(w) + i - 1
    BY <1>2
  <1>6. /\ w \o new \in Seq(Packet) /\ Len(w \o new) = Len(w) + Len(new)
        /\ \A i \in 1 .. Len(w \o new) : /\ (w \o new)[i].id = d + i
                                         /\ (w \o new)[i].seq = e + i - 1
    BY <1>3, <1>5, PacketsBehind
  <1>7. QED
    BY <1>2, <1>4, <1>6 DEF Numbered

LEMMA Counters ==
    ASSUME IInv, NEW p \in Rank, NEW q \in Rank \ {p}
    PROVE  /\ Len(received[<<p, q>>]) \in Nat /\ submitted[<<p, q>>] \in Nat
           /\ received[<<p, q>>] \in Seq(Nat)
           /\ link[<<p, q>>].next_packet_tosend \in Nat
           /\ link[<<p, q>>].next_packet_expected \in Nat
  <1>1. received[<<p, q>>] \in Seq(Nat) /\ submitted[<<p, q>>] \in Nat
    BY DEF IInv, ConnTypeOK
  <1>2. link[<<p, q>>] \in Link
    BY PairFacts
  <1>3. QED
    BY <1>1, <1>2 DEF Link

\* An open side posts.
LEMMA PostPair ==
    ASSUME IInv, NEW p \in Rank, NEW q \in Rank \ {p}, Open(link[<<p, q>>]),
           NEW ids \in Seq(Nat),
           CountsFrom(ids, Len(received[<<p, q>>]) + Len(wire[<<p, q>>])),
           OnlyLink(p, q), link'[<<p, q>>] = Sent(link[<<p, q>>], ids),
           wire'[<<p, q>>] = wire[<<p, q>>] \o Packets(link[<<p, q>>], ids),
           wire'[<<q, p>>] = wire[<<q, p>>], UNCHANGED received,
           submitted'[<<q, p>>] = submitted[<<q, p>>],
           submitted'[<<p, q>>] = Len(received[<<p, q>>])
                                      + Len(wire[<<p, q>>]) + Len(ids)
    PROVE  /\ InOrder(p, q)' /\ InSequence(p, q)'
           /\ InOrder(q, p)' /\ InSequence(q, p)'
           /\ wire'[<<p, q>>] \in Seq(Packet)
  <1> DEFINE l == link[<<p, q>>]
             k == link[<<q, p>>]
             w == wire[<<p, q>>]
             v == w \o Packets(l, ids)
             d == Len(received[<<p, q>>])
             e == k.next_packet_expected
             new == Sent(l, ids)
  <1>0. p \in Rank \ {q} /\ q \in Rank
    OBVIOUS
  <1>1. /\ l \in Link /\ w \in Seq(Packet) /\ InOrder(p, q) /\ InSequence(p, q)
        /\ Matched(l, k) /\ InOrder(q, p) /\ InSequence(q, p)
    BY <1>0, PairFacts
  <1>2. d \in Nat /\ e \in Nat /\ l.next_packet_tosend \in Nat
    BY <1>0, Counters
  <1>3. Up(l) /\ Up(k)
    BY <1>1 DEF Matched, Up
  <1>4. /\ \A i \in 1 .. Len(w) : w[i].id = d + i
        /\ \A i \in 1 .. Len(w) : w[i].seq = e + i - 1
        /\ l.next_packet_tosend = e + Len(w)
    BY <1>1, <1>3 DEF InOrder, InSequence
  <1>5. CountsFrom(ids, d + Len(w)) /\ Len(ids) \in Nat /\ Len(w) \in Nat
    <2>1. CountsFrom(ids, d + Len(w))
      OBVIOUS
    <2>2. Len(ids) \in Nat /\ Len(w) \in Nat
      BY <1>1
    <2>3. QED
      BY <2>1, <2>2
  <1>6. /\ Open(new) /\ new.pending_req = << >>
        /\ new.next_packet_tosend = l.next_packet_tosend + Len(ids)
        /\ new.next_packet_expected = l.next_packet_expected
    BY <1>1, SentStage
  <1>7. /\ link'[<<p, q>>] = new /\ link'[<<q, p>>] = k /\ wire'[<<p, q>>] = v
        /\ received'[<<p, q>>] = received[<<p, q>>]
        /\ submitted'[<<p, q>>] = d + Len(w) + Len(ids)
    BY DEF OnlyLink
  <1>8. CountsFrom(received[<<p, q>>], 0)
    BY <1>1 DEF InOrder
  <1>9. CountsFrom(<< >>, d + Len(v)) /\ Len(<< >>) = 0
    BY DEF CountsFrom
  <1>10. InOrder(q, p)'
    BY <1>1, <1>7 DEF InOrder
  <1>11. Len(received'[<<p, q>>]) = d
    BY <1>7
  <1> HIDE DEF l, w, d, e
  <1>12. /\ v \in Seq(Packet) /\ Len(v) = Len(w) + Len(ids)
         /\ \A i \in 1 .. Len(v) : v[i].id = d + i
         /\ \A i \in 1 .. Len(v) : v[i].seq = e + i - 1
    <2>1. l \in Link /\ w \in Seq(Packet) /\ d \in Nat /\ e \in Nat
      BY <1>1, <1>2
    <2>2. CountsFrom(ids, d + Len(w))
      BY <1>5
    <2>3. v = Behind(w, l, ids)
      BY DEF Behind
    <2>4. Numbered(w, d, e) /\ l.next_packet_tosend = e + Len(w)
      BY <1>4 DEF Numbered
    <2> HIDE DEF v
    <2>5. /\ v \in Seq(Packet) /\ Len(v) = Len(w) + Len(ids)
          /\ Numbered(v, d, e)
      BY <2>1, <2>2, <2>3, <2>4, PostFlow
    <2>6. QED
      BY <2>5 DEF Numbered
  <1> HIDE DEF k, v, new
  <1>13. InOrder(p, q)'
    <2>1. /\ CountsFrom(received'[<<p, q>>], 0)
          /\ \A i \in 1 .. Len(wire'[<<p, q>>]) :
                 wire'[<<p, q>>][i].id = Len(received'[<<p, q>>]) + i
      BY <1>7, <1>8, <1>11, <1>12
    <2>2. /\ CountsFrom(link'[<<p, q>>].pending_req,
                        Len(received'[<<p, q>>]) + Len(wire'[<<p, q>>]))
          /\ Len(link'[<<p, q>>].pending_req) = 0
      BY <1>6, <1>7, <1>9, <1>11
    <2>3. submitted'[<<p, q>>] =
              Len(received'[<<p, q>>]) + Len(wire'[<<p, q>>])
                  + Len(link'[<<p, q>>].pending_req)
      BY <1>2, <1>5, <1>7, <1>11, <1>12, <2>2
    <2>4. QED
      BY <2>1, <2>2, <2>3 DEF InOrder
  <1>14. InSequence(p, q)'
    <2>1. link'[<<q, p>>].next_packet_expected = e
      BY <1>7 DEF e, k
    <2>2. \A i \in 1 .. Len(wire'[<<p, q>>]) :
              wire'[<<p, q>>][i].seq =
                  link'[<<q, p>>].next_packet_expected + i - 1
      BY <1>7, <1>12, <2>1
    <2>3. link'[<<p, q>>].next_packet_tosend =
              link'[<<q, p>>].next_packet_expected + Len(wire'[<<p, q>>])
      BY <1>2, <1>4, <1>5, <1>6, <1>7, <1>12, <2>1
    <2>4. QED
      BY <1>6, <1>7, <2>2, <2>3 DEF InSequence
  <1>15. InSequence(q, p)'
    BY <1>1, <1>3, <1>6, <1>7 DEF InSequence, l, k, Up
  <1>16. QED
    BY <1>7, <1>10, <1>12, <1>13, <1>14, <1>15

LEMMA IsendStep ==
    ASSUME IInv, NEW p \in Rank, NEW q \in Rank \ {p}, Isend(p, q)
    PROVE  IInv'
  <1> DEFINE l == link[<<p, q>>]
             k == link[<<q, p>>]
             id == submitted[<<p, q>>] + 1
             d == Len(received[<<p, q>>])
             w == wire[<<p, q>>]
             ids == GoesOut(l, id)
  <1>0. p \in Rank \ {q} /\ q \in Rank
    OBVIOUS
  <1>1. /\ l \in Link /\ Staged(l) /\ Matched(l, k) /\ Matched(k, l)
        /\ l.pending_req \in Seq(Nat) /\ w \in Seq(Packet)
        /\ InOrder(p, q) /\ InSequence(p, q) /\ Seen(p, q)
        /\ InOrder(q, p) /\ InSequence(q, p)
    BY <1>0, PairFacts
  <1>2. /\ d \in Nat /\ submitted[<<p, q>>] \in Nat /\ Len(w) \in Nat
        /\ Len(l.pending_req) \in Nat
    <2>1. d \in Nat /\ submitted[<<p, q>>] \in Nat
      BY Counters
    <2>2. l.pending_req \in Seq(Nat) /\ w \in Seq(Packet)
      BY <1>1
    <2> HIDE DEF l, w
    <2>3. Len(w) \in Nat /\ Len(l.pending_req) \in Nat
      BY <2>2
    <2>4. QED
      BY <2>1, <2>3
  <1>3. /\ UNCHANGED <<retry, timer, handler, new_connection, net, received>>
        /\ submitted' = [submitted EXCEPT ![<<p, q>>] = id] /\ At(p, "app")
    BY DEF Isend
  <1>4. /\ ids \in Seq(Nat) /\ CountsFrom(ids, d + Len(w))
        /\ id = d + Len(w) + Len(ids) /\ Len(ids) = Len(l.pending_req) + 1
    <2>1. /\ CountsFrom(l.pending_req, d + Len(w))
          /\ submitted[<<p, q>>] = d + Len(w) + Len(l.pending_req)
      BY <1>1 DEF InOrder
    <2>2. d + Len(w) \in Nat
      <3>1. d \in Nat /\ Len(w) \in Nat
        BY <1>2
      <3> HIDE DEF d, w
      <3>2. QED
        BY <3>1
    <2>3. id = (d + Len(w)) + Len(l.pending_req) + 1
      BY <2>1
    <2>4. ids = Append(l.pending_req, (d + Len(w)) + Len(l.pending_req) + 1)
      BY <2>3 DEF GoesOut
    <2> HIDE DEF d, w, l, id, ids
    <2>5. /\ ids \in Seq(Nat) /\ CountsFrom(ids, d + Len(w))
          /\ Len(ids) = Len(l.pending_req) + 1
      BY <1>1, <2>1, <2>2, <2>4, CountAppend
    <2>6. id = d + Len(w) + Len(ids)
      <3>1. d \in Nat /\ Len(w) \in Nat /\ Len(l.pending_req) \in Nat
        BY <1>2
      <3>2. \A a, b, n \in Nat : (a + b) + n + 1 = a + b + (n + 1)
        OBVIOUS
      <3>3. Len(ids) = Len(l.pending_req) + 1
        BY <2>5
      <3>4. (d + Len(w)) + Len(l.pending_req) + 1
                = d + Len(w) + (Len(l.pending_req) + 1)
        BY <3>1, <3>2
      <3>5. id = d + Len(w) + (Len(l.pending_req) + 1)
        BY <2>3, <3>4
      <3>6. QED
        BY <3>3, <3>5
    <2>7. QED
      BY <2>5, <2>6
  <1>5. /\ submitted' \in [Rank \X Rank -> Nat]
        /\ submitted'[<<p, q>>] = id
        /\ \A r \in Rank : \A s \in Rank : r # p \/ s # q =>
               submitted'[<<r, s>>] = submitted[<<r, s>>]
    BY <1>2, <1>3 DEF IInv, ConnTypeOK
  <1>6. net' \subseteq Message \X Copies /\ TimerAwake'
    BY <1>3 DEF IInv, ConnTypeOK, TimerAwake
  <1>7. CASE l.conn = "rc"
    <2> DEFINE new == Sent(l, ids)
               v == w \o Packets(l, ids)
    <2>1. /\ link' = [link EXCEPT ![<<p, q>>] = new]
          /\ wire' = [wire EXCEPT ![<<p, q>>] = v]
          /\ UNCHANGED main
      BY <1>7 DEF Isend
    <2>2. Open(l)
      BY <1>1, <1>7, StageTests
    <2>3. new \in Link /\ Open(new) /\ new.pending_req = << >>
      BY <1>1, <1>4, <2>2, SentStage
    <2> HIDE DEF new, ids
    <2>4. link' \in [Pair -> Link] /\ link'[<<p, q>>] = new /\ OnlyLink(p, q)
      <3>1. link \in [Pair -> Link]
        BY DEF IInv, ConnTypeOK
      <3>2. QED
        BY <2>1, <2>3, <3>1, LinkUpdate
    <2>5. Stages' /\ Agree'
      <3>1. Matched(new, k) /\ Matched(k, new) /\ Staged(new)
        BY <1>1, <2>2, <2>3, OneStage DEF Matched, Staged
      <3>2. QED
        BY <1>0, <2>4, <3>1, StagesStep DEF IInv
    <2>6. CopiesAreTrue'
      <3>1. ~Fresh(new) /\ ~Server(new) /\ Up(new)
        BY <2>3, OneStage DEF Up
      <3>2. QED
        BY <1>3, <2>4, <3>1, CopiesStep DEF IInv, ConnTypeOK
    <2>7. RetryIsDue' /\ retry' \in [Rank -> SUBSET Message]
      BY <1>3, <2>2, <2>3, <2>4, RolesKept DEF IInv, ConnTypeOK, Open
    <2>8. /\ wire'[<<p, q>>] = v
          /\ \A r \in Rank : \A s \in Rank \ {r} : r # p \/ s # q =>
                 wire'[<<r, s>>] = wire[<<r, s>>]
      BY <2>1 DEF IInv, ConnTypeOK, Pair
    <2>9. /\ InOrder(p, q)' /\ InSequence(p, q)'
          /\ InOrder(q, p)' /\ InSequence(q, p)'
          /\ wire'[<<p, q>>] \in Seq(Packet)
      <3>1. /\ ids \in Seq(Nat) /\ CountsFrom(ids, d + Len(w))
            /\ submitted'[<<p, q>>] = d + Len(w) + Len(ids)
        BY <1>4, <1>5
      <3>2. /\ wire'[<<q, p>>] = wire[<<q, p>>]
            /\ submitted'[<<q, p>>] = submitted[<<q, p>>]
        BY <1>0, <1>5, <2>8
      <3>3. link'[<<p, q>>] = Sent(link[<<p, q>>], ids)
        BY <2>4 DEF new
      <3>4. QED
        BY <1>3, <2>2, <2>4, <2>8, <3>1, <3>2, <3>3, PostPair
    <2>10. Ordering'
      BY <1>3, <1>5, <2>4, <2>8, <2>9, OrderingElsewhere DEF IInv
    <2>11. wire' \in [Pair -> Seq(Packet)]
      <3>1. v \in Seq(Packet) /\ wire \in [Pair -> Seq(Packet)]
        BY <2>8, <2>9 DEF IInv, ConnTypeOK
      <3>2. QED
        BY <2>1, <3>1 DEF Pair
    <2>12. QueuesAreSeen'
      <3>1. ASSUME NEW r \in Rank, NEW s \in Rank \ {r}
            PROVE  Seen(r, s)'
        <4>1. Seen(r, s)
          BY DEF IInv, QueuesAreSeen
        <4>2. CASE r = p /\ s = q
          BY <1>3, <2>1, <2>3, <2>4, <4>2 DEF Seen, At
        <4>3. CASE r # p \/ s # q
          BY <1>3, <2>1, <2>4, <4>1, <4>3 DEF Seen, OnlyLink
        <4>4. QED
          BY <4>2, <4>3
      <3>2. QED
        BY <3>1 DEF QueuesAreSeen
    <2>13. ConnTypeOK'
      BY <1>3, <1>5, <1>6, <2>1, <2>4, <2>7, <2>11 DEF IInv, ConnTypeOK
    <2>14. Places'
      BY <1>3, <1>5, <1>6, <2>1, <2>4 DEF IInv, ConnTypeOK, Places
    <2>15. QED
      BY <1>6, <2>5, <2>6, <2>7, <2>10, <2>12, <2>13, <2>14 DEF IInv
  <1>8. CASE l.conn # "rc"
    <2> DEFINE new == [l EXCEPT !.pending_req = ids]
    <2>1. /\ link' = [link EXCEPT ![<<p, q>>] = new]
          /\ UNCHANGED wire
          /\ IF l.pending_req = << >> THEN Goto(p, "connect", {q})
                                      ELSE UNCHANGED main
      BY <1>8 DEF Isend, GoesOut
    <2>2. ~Open(l)
      BY <1>8 DEF Open
    <2>3. /\ new \in Link /\ new.pending_req = ids
          /\ new.next_packet_tosend = l.next_packet_tosend
          /\ new.next_packet_expected = l.next_packet_expected
          /\ new.cli = l.cli /\ new.srv = l.srv
          /\ (Fresh(new) <=> Fresh(l)) /\ (Client(new) <=> Client(l))
          /\ (Server(new) <=> Server(l)) /\ (Open(new) <=> Open(l))
      <3>1. l \in Link /\ ids \in Seq(Nat)
        BY <1>1, <1>4
      <3> HIDE DEF l, ids
      <3>2. QED
        BY <3>1, QueuedStage
    <2> HIDE DEF new, ids
    <2>4. link' \in [Pair -> Link] /\ link'[<<p, q>>] = new /\ OnlyLink(p, q)
      <3>1. link \in [Pair -> Link]
        BY DEF IInv, ConnTypeOK
      <3>2. QED
        BY <2>1, <2>3, <3>1, LinkUpdate
    <2>5. Stages' /\ Agree'
      <3>1. Matched(new, k) /\ Matched(k, new) /\ Staged(new)
        BY <1>1, <2>3 DEF Matched, Staged
      <3>2. QED
        BY <1>0, <2>4, <3>1, StagesStep DEF IInv
    <2>6. CopiesAreTrue'
      BY <1>3, <2>3, <2>4, CopiesStep DEF IInv, ConnTypeOK, Up
    <2>7. RetryIsDue' /\ retry' \in [Rank -> SUBSET Message]
      BY <1>3, <2>3, <2>4, RolesKept DEF IInv, ConnTypeOK
    <2>8. link'[<<q, p>>] = k
      BY <1>0, <2>4 DEF OnlyLink
    <2>9. InOrder(p, q)'
      BY <1>1, <1>3, <1>4, <1>5, <2>1, <2>3, <2>4 DEF InOrder
    <2>10. InSequence(p, q)' /\ InSequence(q, p)'
      BY <1>1, <2>1, <2>3, <2>4, <2>8 DEF InSequence, Up
    <2>11. InOrder(q, p)'
      BY <1>0, <1>1, <1>3, <1>5, <2>1, <2>8 DEF InOrder
    <2>12. Ordering'
      BY <1>3, <1>5, <2>1, <2>4, <2>9, <2>10, <2>11, OrderingElsewhere DEF IInv
    <2>13. /\ main' \in [Rank -> [at : {"app", "connect", "scan", "poll"},
                                  peers : SUBSET Rank]]
           /\ Places'
           /\ \A r \in Rank \ {p} : main'[r] = main[r]
           /\ IF l.pending_req = << >>
              THEN main'[p].at = "connect" /\ main'[p].peers = {q}
              ELSE main'[p] = main[p]
      <3>1. CASE l.pending_req = << >>
        <4>1. {q} \in SUBSET (Rank \ {p}) /\ \A r \in {q}, s \in {q} : r = s
          OBVIOUS
        <4>2. Goto(p, "connect", {q})
          BY <2>1, <3>1
        <4>3. QED
          BY <3>1, <4>1, <4>2, GotoStep DEF IInv
      <3>2. CASE l.pending_req # << >>
        BY <2>1, <3>2 DEF IInv, ConnTypeOK, Places
      <3>3. QED
        BY <3>1, <3>2
    <2>14. QueuesAreSeen'
      <3>1. ASSUME NEW r \in Rank, NEW s \in Rank \ {r}
            PROVE  Seen(r, s)'
        <4>1. Seen(r, s) /\ main[p].at = "app"
          BY <1>3 DEF IInv, QueuesAreSeen, At
        <4>2. CASE r = p /\ s = q
          BY <1>1, <2>2, <2>3, <2>4, <2>13, <4>1, <4>2 DEF Seen
        <4>3. CASE r = p /\ s # q
          <5>1. link'[<<r, s>>] = link[<<r, s>>]
            BY <2>4, <4>3 DEF OnlyLink
          <5>2. QED
            BY <1>3, <2>13, <4>1, <4>3, <5>1 DEF Seen
        <4>4. CASE r # p
          <5>1. link'[<<r, s>>] = link[<<r, s>>] /\ main'[r] = main[r]
            BY <2>4, <2>13, <4>4 DEF OnlyLink
          <5>2. QED
            BY <1>3, <4>1, <5>1 DEF Seen
        <4>5. QED
          BY <4>2, <4>3, <4>4
      <3>2. QED
        BY <3>1 DEF QueuesAreSeen
    <2>15. ConnTypeOK'
      BY <1>3, <1>5, <1>6, <2>1, <2>4, <2>7, <2>13 DEF IInv, ConnTypeOK
    <2>16. QED
      BY <1>6, <2>5, <2>6, <2>7, <2>12, <2>13, <2>14, <2>15 DEF IInv
  <1>9. QED
    BY <1>7, <1>8

LEMMA ConnectStep ==
    ASSUME IInv, NEW p \in Rank, ConnectReq(p)
    PROVE  IInv'
  <1>1. PICK q \in main[p].peers :
           LET l == link[<<p, q>>]
               new == [CreateQp(l) EXCEPT !.cli = "requesting"]
           IN  /\ At(p, "connect") /\ Unlocked(p)
               /\ Goto(p, "app", {})
               /\ IF \/ l.conn = "rc" \/ l.cli = "requesting" \/ l.srv # "idle"
                     \/ l.qpn # 0
                  THEN UNCHANGED <<link, retry, timer, net>>
                  ELSE /\ link' = [link EXCEPT ![<<p, q>>] = new]
                       /\ SendUd(p, Req(p, q, new.qpn), {}, {})
               /\ UNCHANGED <<handler, new_connection, dataVars>>
    BY DEF ConnectReq
  <1> DEFINE l == link[<<p, q>>]
             k == link[<<q, p>>]
             new == [CreateQp(l) EXCEPT !.cli = "requesting"]
  <1>2. q \in Rank \ {p} /\ p \in Rank \ {q} /\ main[p].at = "connect"
    BY <1>1 DEF IInv, ConnTypeOK, Places, At
  <1>3. /\ l \in Link /\ Staged(l) /\ Matched(l, k) /\ Matched(k, l)
        /\ Seen(p, q)
    BY <1>2, PairFacts
  <1>4. /\ main' \in [Rank -> [at : {"app", "connect", "scan", "poll"},
                               peers : SUBSET Rank]]
        /\ Places' /\ main'[p].at = "app" /\ main'[p].peers = {}
        /\ \A r \in Rank \ {p} : main'[r] = main[r]
    <2>1. {} \in SUBSET (Rank \ {p}) /\ Goto(p, "app", {})
      BY <1>1
    <2>2. QED
      BY <2>1, GotoStep DEF IInv
  <1>5. UNCHANGED <<handler, new_connection>> /\ UNCHANGED dataVars
    BY <1>1
  <1>6. ASSUME ~Fresh(link'[<<p, q>>]), OnlyLink(p, q),
               Open(link'[<<p, q>>]) => Open(l)
        PROVE  QueuesAreSeen'
    <2>1. ASSUME NEW r \in Rank, NEW s \in Rank \ {r}
          PROVE  Seen(r, s)'
      <3>1. Seen(r, s)
        BY DEF IInv, QueuesAreSeen
      <3>2. CASE r = p /\ s = q
        BY <1>1, <1>2, <1>3, <1>4, <1>5, <1>6, <3>2 DEF Seen
      <3>3. CASE r = p /\ s # q
        <4>1. link'[<<r, s>>] = link[<<r, s>>]
          BY <1>6, <3>3 DEF OnlyLink
        <4>2. s \notin main[p].peers
          BY <1>1, <1>2, <3>3 DEF IInv, Places
        <4>3. QED
          BY <1>2, <1>4, <1>5, <3>1, <3>3, <4>1, <4>2 DEF Seen
      <3>4. CASE r # p
        <4>1. link'[<<r, s>>] = link[<<r, s>>] /\ main'[r] = main[r]
          BY <1>4, <1>6, <3>4 DEF OnlyLink
        <4>2. QED
          BY <1>5, <3>1, <4>1 DEF Seen
      <3>5. QED
        BY <3>2, <3>3, <3>4
    <2>2. QED
      BY <2>1 DEF QueuesAreSeen
  <1>7. CASE Fresh(l)
    <2>1. new \in Link /\ Client(new) /\ new.qpn = 1
          /\ new.pending_req = l.pending_req
      BY <1>3, <1>7, RequestStage
    <2>2. /\ link' = [link EXCEPT ![<<p, q>>] = new]
          /\ SendUd(p, Req(p, q, 1), {}, {})
      BY <1>1, <1>7, <2>1 DEF Fresh
    <2> HIDE DEF new
    <2>3. link' \in [Pair -> Link] /\ link'[<<p, q>>] = new /\ OnlyLink(p, q)
      <3>1. link \in [Pair -> Link]
        BY DEF IInv, ConnTypeOK
      <3>2. QED
        BY <1>2, <2>1, <2>2, <3>1, LinkUpdate
    <2>4. Stages' /\ Agree'
      <3>1. Matched(new, k) /\ Matched(k, new) /\ Staged(new)
        BY <1>3, <1>7, <2>1, OneStage DEF Matched, Staged
      <3>2. QED
        BY <1>2, <2>3, <3>1, StagesStep DEF IInv
    <2> DEFINE R == (retry[p] \cup {Req(p, q, 1)}) \ {}
    <2>5. /\ TimerAwake' /\ timer' \in [Rank -> {"awake", "waiting"}]
          /\ net' \subseteq Message \X Copies
          /\ \A copy \in net' : copy \in net \/ copy[1] = Req(p, q, 1)
          /\ R \in SUBSET Message /\ retry' = [retry EXCEPT ![p] = R]
      BY <1>2, <2>2, MessageMade, SendUdStep DEF IInv
    <2>6. CopiesAreTrue'
      <3>1. Said(Req(p, q, 1))'
        BY <1>2, <2>1, <2>3, OneStage, MessageMade DEF Said
      <3>2. ~Up(l)
        BY <1>7, OneStage DEF Up
      <3>3. \A copy \in net' : copy \in net \/ Said(copy[1])'
        BY <2>5, <3>1
      <3>4. QED
        BY <1>2, <1>7, <2>3, <3>2, <3>3, CopiesStep DEF IInv, ConnTypeOK
    <2>7. RetryIsDue' /\ retry' \in [Rank -> SUBSET Message]
      <3>1. ASSUME NEW n \in Message, Sender(n) = p, Target(n) = q
            PROVE  n \in R <=> Due(p, n)'
        <4>1. n \notin retry[p]
          BY <1>2, <1>7, <3>1 DEF IInv, RetryIsDue, Due, Fresh
        <4>2. n = Req(p, q, 1) <=> n.type = "REQ" /\ n.qpn = 1
          BY <1>2, <3>1, MessageIs, MessageMade
        <4>3. n.type = "REQ" \/ n.type = "REP"
          BY MessageParts
        <4>4. QED
          BY <1>2, <2>1, <2>3, <3>1, <4>1, <4>2, <4>3 DEF Due, Client
      <3>2. ASSUME NEW n \in Message, ~(Sender(n) = p /\ Target(n) = q)
            PROVE  n \in R <=> n \in retry[p]
        BY <1>2, <3>2, MessageMade
      <3>3. \A n \in Message :
                IF Sender(n) = p /\ Target(n) = q THEN n \in R <=> Due(p, n)'
                ELSE n \in R <=> n \in retry[p]
        BY <3>1, <3>2
      <3>4. retry \in [Rank -> SUBSET Message] /\ RetryIsDue
        BY DEF IInv, ConnTypeOK
      <3>5. R \in SUBSET Message /\ retry' = [retry EXCEPT ![p] = R]
        BY <2>5
      <3> HIDE DEF R
      <3>6. QED
        BY <1>2, <2>3, <3>3, <3>4, <3>5, RetryStep
    <2>8. Ordering'
      <3>1. ~Open(l) /\ ~Open(k)
        BY <1>3, <1>7, OneStage DEF Matched
      <3>2. wire[<<p, q>>] = << >> /\ wire[<<q, p>>] = << >>
        BY <1>2, <3>1, PairFacts
      <3>3. ~Up(new)
        BY <2>1, OneStage DEF Up
      <3>4. QED
        BY <1>2, <1>5, <2>1, <2>3, <3>2, <3>3, OrderingStep DEF IInv
    <2>9. QueuesAreSeen'
      BY <1>6, <2>1, <2>3, OneStage
    <2>10. ConnTypeOK'
      BY <1>4, <1>5, <2>3, <2>5, <2>7 DEF IInv, ConnTypeOK, dataVars
    <2>11. QED
      BY <1>4, <2>4, <2>5, <2>6, <2>7, <2>8, <2>9, <2>10 DEF IInv
  <1>8. CASE ~Fresh(l)
    <2>1. UNCHANGED <<link, retry, timer, net>>
      BY <1>1, <1>3, <1>8, StageTests
    <2>2. Stages' /\ Agree' /\ Ordering' /\ CopiesAreTrue' /\ RetryIsDue'
      BY <1>5, <2>1, LinksKept
    <2>3. QueuesAreSeen'
      <3>1. OnlyLink(p, q) /\ link'[<<p, q>>] = l
        BY <2>1 DEF OnlyLink
      <3>2. QED
        BY <1>6, <1>8, <3>1
    <2>4. ConnTypeOK' /\ TimerAwake'
      BY <1>4, <1>5, <2>1 DEF IInv, ConnTypeOK, TimerAwake, dataVars
    <2>5. QED
      BY <1>4, <2>2, <2>3, <2>4 DEF IInv
  <1>9. QED
    BY <1>7, <1>8

LEMMA TestStep ==
    ASSUME IInv, NEW p \in Rank, TestNewConnection(p)
    PROVE  IInv'
  <1>1. /\ main[p].at = "app"
        /\ UNCHANGED <<link, retry, timer, handler, net>> /\ UNCHANGED dataVars
        /\ IF new_connection[p]
           THEN /\ new_connection' = [new_connection EXCEPT ![p] = FALSE]
                /\ Goto(p, "scan", OtherRanks(p))
           ELSE /\ Goto(p, "poll", {})
                /\ UNCHANGED new_connection
    BY DEF TestNewConnection, At
  <1>2. Stages' /\ Agree' /\ Ordering' /\ CopiesAreTrue' /\ RetryIsDue'
    BY <1>1, LinksKept
  <1> DEFINE place == IF new_connection[p] THEN "scan" ELSE "poll"
             peers == IF new_connection[p] THEN Rank \ {p} ELSE {}
  <1>3. Goto(p, place, peers)
    BY <1>1 DEF OtherRanks
  <1>4. /\ main' \in [Rank -> [at : {"app", "connect", "scan", "poll"},
                               peers : SUBSET Rank]]
        /\ Places' /\ main'[p].at = place /\ main'[p].peers = peers
        /\ \A r \in Rank \ {p} : main'[r] = main[r]
    <2>1. /\ place \in {"app", "connect", "scan", "poll"} /\ place # "connect"
          /\ peers \in SUBSET (Rank \ {p})
      OBVIOUS
    <2> HIDE DEF place, peers
    <2>2. QED
      BY <1>3, <2>1, GotoStep DEF IInv
  <1>5. /\ new_connection' \in [Rank -> BOOLEAN]
        /\ \A r \in Rank \ {p} : new_connection'[r] = new_connection[r]
    BY <1>1 DEF IInv, ConnTypeOK
  <1>6. new_connection[p] # TRUE =>
            new_connection'[p] = new_connection[p] /\ ~new_connection[p]
    BY <1>1 DEF IInv, ConnTypeOK
  <1>7. ASSUME NEW r \in Rank, NEW s \in Rank \ {r}
        PROVE  Seen(r, s)'
    <2>1. Seen(r, s)
      BY DEF IInv, QueuesAreSeen
    <2>2. CASE r = p /\ new_connection[p] = TRUE
      <3>1. main'[r].at = "scan" /\ s \in main'[r].peers
        BY <1>4, <2>2
      <3>2. QED
        BY <1>1, <2>1, <2>2, <3>1 DEF Seen
    <2>3. CASE r = p /\ new_connection[p] # TRUE
      <3>1. main'[r].at = "poll"
        BY <1>4, <1>6, <2>3
      <3>2. QED
        BY <1>1, <1>6, <2>1, <2>3, <3>1 DEF Seen
    <2>4. CASE r # p
      BY <1>1, <1>4, <1>5, <2>1, <2>4 DEF Seen
    <2>5. QED
      BY <2>2, <2>3, <2>4
  <1>8. ConnTypeOK' /\ TimerAwake'
    BY <1>1, <1>4, <1>5 DEF IInv, ConnTypeOK, TimerAwake, dataVars
  <1>9. QED
    BY <1>2, <1>4, <1>7, <1>8 DEF IInv, QueuesAreSeen

LEMMA PollNothingStep ==
    ASSUME IInv, NEW p \in Rank, PollNothing(p)
    PROVE  IInv'
  <1>1. /\ main[p].at = "poll" /\ Goto(p, "app", {})
        /\ UNCHANGED <<link, retry, timer, handler, new_connection, net>>
        /\ UNCHANGED dataVars
    BY DEF PollNothing, At, connVars
  <1>2. Stages' /\ Agree' /\ Ordering' /\ CopiesAreTrue' /\ RetryIsDue'
    BY <1>1, LinksKept
  <1>3. /\ main' \in [Rank -> [at : {"app", "connect", "scan", "poll"},
                               peers : SUBSET Rank]]
        /\ Places' /\ main'[p].at = "app"
        /\ \A r \in Rank \ {p} : main'[r] = main[r]
    <2>1. {} \in SUBSET (Rank \ {p})
      OBVIOUS
    <2>2. QED
      BY <1>1, <2>1, GotoStep DEF IInv
  <1>4. ASSUME NEW r \in Rank, NEW s \in Rank \ {r}
        PROVE  Seen(r, s)'
    BY <1>1, <1>3 DEF IInv, QueuesAreSeen, Seen
  <1>5. ConnTypeOK' /\ TimerAwake'
    BY <1>1, <1>3 DEF IInv, ConnTypeOK, TimerAwake, dataVars
  <1>6. QED
    BY <1>2, <1>3, <1>4, <1>5 DEF IInv, QueuesAreSeen

LEMMA ScanStep ==
    ASSUME IInv, NEW p \in Rank, ScanPeer(p)
    PROVE  IInv'
  <1>1. PICK q \in main[p].peers :
           LET l == link[<<p, q>>]
               rest == main[p].peers \ {q}
           IN  /\ At(p, "scan")
               /\ IF l.pending_req # << >> /\ l.conn = "rc"
                  THEN /\ wire' = [wire EXCEPT ![<<p, q>>] =
                                      @ \o Packets(l, l.pending_req)]
                       /\ link' = [link EXCEPT ![<<p, q>>] =
                                      Sent(l, l.pending_req)]
                  ELSE UNCHANGED <<wire, link>>
               /\ Goto(p, IF rest = {} THEN "poll" ELSE "scan", rest)
               /\ UNCHANGED <<retry, timer, handler, new_connection, net,
                              submitted, received>>
    BY DEF ScanPeer
  <1> DEFINE l == link[<<p, q>>]
             k == link[<<q, p>>]
             d == Len(received[<<p, q>>])
             w == wire[<<p, q>>]
             ids == l.pending_req
             rest == main[p].peers \ {q}
             place == IF rest = {} THEN "poll" ELSE "scan"
  <1>2. /\ q \in Rank \ {p} /\ p \in Rank \ {q} /\ main[p].at = "scan"
        /\ rest \in SUBSET (Rank \ {p})
    BY <1>1 DEF IInv, ConnTypeOK, Places, At
  <1>3. /\ l \in Link /\ Staged(l) /\ Matched(l, k) /\ Matched(k, l)
        /\ Seen(p, q) /\ InOrder(p, q) /\ InOrder(q, p)
        /\ ids \in Seq(Nat) /\ w \in Seq(Packet)
    BY <1>2, PairFacts
  <1>4. /\ main' \in [Rank -> [at : {"app", "connect", "scan", "poll"},
                               peers : SUBSET Rank]]
        /\ Places' /\ main'[p].at = place /\ main'[p].peers = rest
        /\ \A r \in Rank \ {p} : main'[r] = main[r]
    <2>1. Goto(p, place, rest)
      BY <1>1
    <2>2. place \in {"app", "connect", "scan", "poll"} /\ place # "connect"
      OBVIOUS
    <2> HIDE DEF place, rest
    <2>3. QED
      BY <1>2, <2>1, <2>2, GotoStep DEF IInv
  <1>5. UNCHANGED <<retry, timer, handler, new_connection, net,
                    submitted, received>>
    BY <1>1
  <1>6. ASSUME OnlyLink(p, q),
               \/ link'[<<p, q>>].pending_req = << >>
               \/ link'[<<p, q>>] = l /\ ~Open(l)
        PROVE  QueuesAreSeen'
    <2>1. ASSUME NEW r \in Rank, NEW s \in Rank \ {r}
          PROVE  Seen(r, s)'
      <3>1. Seen(r, s) /\ main'[p].at # "connect"
        BY <1>4 DEF IInv, QueuesAreSeen
      <3>2. CASE r = p /\ s = q
        BY <1>2, <1>6, <3>1, <3>2 DEF Seen
      <3>3. CASE r = p /\ s # q
        <4>1. link'[<<r, s>>] = link[<<r, s>>]
          BY <1>6, <3>3 DEF OnlyLink
        <4>2. s \in main[p].peers =>
                  s \in main'[p].peers /\ main'[p].at = "scan"
          BY <1>4, <3>3
        <4>3. QED
          BY <1>2, <1>5, <3>1, <3>3, <4>1, <4>2 DEF Seen
      <3>4. CASE r # p
        <4>1. link'[<<r, s>>] = link[<<r, s>>] /\ main'[r] = main[r]
          BY <1>4, <1>6, <3>4 DEF OnlyLink
        <4>2. QED
          BY <1>5, <3>1, <4>1 DEF Seen
      <3>5. QED
        BY <3>2, <3>3, <3>4
    <2>2. QED
      BY <2>1 DEF QueuesAreSeen
  <1>7. CASE ids # << >> /\ l.conn = "rc"
    <2> DEFINE new == Sent(l, ids)
               v == w \o Packets(l, ids)
    <2>1. /\ link' = [link EXCEPT ![<<p, q>>] = new]
          /\ wire' = [wire EXCEPT ![<<p, q>>] = v]
      BY <1>1, <1>7
    <2>2. Open(l)
      BY <1>3, <1>7, StageTests
    <2>3. new \in Link /\ Open(new) /\ new.pending_req = << >>
      BY <1>3, <2>2, SentStage
    <2>4. /\ CountsFrom(ids, d + Len(w))
          /\ submitted[<<p, q>>] = d + Len(w) + Len(ids)
      BY <1>3 DEF InOrder
    <2> HIDE DEF new, ids
    <2>5. link' \in [Pair -> Link] /\ link'[<<p, q>>] = new /\ OnlyLink(p, q)
      <3>1. link \in [Pair -> Link]
        BY DEF IInv, ConnTypeOK
      <3>2. QED
        BY <1>2, <2>1, <2>3, <3>1, LinkUpdate
    <2>6. Stages' /\ Agree'
      <3>1. Matched(new, k) /\ Matched(k, new) /\ Staged(new)
        BY <1>3, <2>2, <2>3, OneStage DEF Matched, Staged
      <3>2. QED
        BY <1>2, <2>5, <3>1, StagesStep DEF IInv
    <2>7. CopiesAreTrue'
      <3>1. ~Fresh(new) /\ ~Server(new) /\ Up(new)
        BY <2>3, OneStage DEF Up
      <3>2. QED
        BY <1>2, <1>5, <2>5, <3>1, CopiesStep DEF IInv, ConnTypeOK
    <2>8. RetryIsDue' /\ retry' \in [Rank -> SUBSET Message]
      BY <1>2, <1>5, <2>2, <2>3, <2>5, RolesKept DEF IInv, ConnTypeOK, Open
    <2>9. /\ wire'[<<p, q>>] = v
          /\ \A r \in Rank : \A s \in Rank \ {r} : r # p \/ s # q =>
                 wire'[<<r, s>>] = wire[<<r, s>>]
      BY <1>2, <2>1 DEF IInv, ConnTypeOK, Pair
    <2>10. /\ InOrder(p, q)' /\ InSequence(p, q)'
           /\ InOrder(q, p)' /\ InSequence(q, p)'
           /\ wire'[<<p, q>>] \in Seq(Packet)
      <3>1. /\ ids \in Seq(Nat) /\ CountsFrom(ids, d + Len(w))
            /\ submitted'[<<p, q>>] = d + Len(w) + Len(ids)
        BY <1>3, <1>5, <2>4
      <3>2. /\ wire'[<<q, p>>] = wire[<<q, p>>] /\ UNCHANGED received
            /\ submitted'[<<q, p>>] = submitted[<<q, p>>]
        BY <1>2, <1>5, <2>9
      <3>3. link'[<<p, q>>] = Sent(link[<<p, q>>], ids)
        BY <2>5 DEF new
      <3>4. QED
        BY <1>2, <2>2, <2>5, <2>9, <3>1, <3>2, <3>3, PostPair
    <2>11. Ordering'
      BY <1>2, <1>5, <2>5, <2>9, <2>10, OrderingElsewhere DEF IInv
    <2>12. wire' \in [Pair -> Seq(Packet)]
      <3>1. v \in Seq(Packet) /\ wire \in [Pair -> Seq(Packet)]
        BY <2>9, <2>10 DEF IInv, ConnTypeOK
      <3>2. QED
        BY <1>2, <2>1, <3>1 DEF Pair
    <2>13. QueuesAreSeen'
      BY <1>6, <2>3, <2>5
    <2>14. ConnTypeOK' /\ TimerAwake'
      BY <1>4, <1>5, <2>5, <2>8, <2>12 DEF IInv, ConnTypeOK, TimerAwake
    <2>15. QED
      BY <1>4, <2>6, <2>7, <2>8, <2>11, <2>13, <2>14 DEF IInv
  <1>8. CASE ~(ids # << >> /\ l.conn = "rc")
    <2>1. UNCHANGED link /\ UNCHANGED dataVars
      BY <1>1, <1>5, <1>8 DEF dataVars
    <2>2. Stages' /\ Agree' /\ Ordering' /\ CopiesAreTrue' /\ RetryIsDue'
      BY <1>5, <2>1, LinksKept
    <2>3. QueuesAreSeen'
      <3>1. OnlyLink(p, q) /\ link'[<<p, q>>] = l
        BY <2>1 DEF OnlyLink
      <3>2. ids = << >> \/ ~Open(l)
        BY <1>3, <1>8, StageTests
      <3>3. QED
        BY <1>6, <3>1, <3>2
    <2>4. ConnTypeOK' /\ TimerAwake'
      BY <1>4, <1>5, <2>1 DEF IInv, ConnTypeOK, TimerAwake, dataVars
    <2>5. QED
      BY <1>4, <2>2, <2>3, <2>4 DEF IInv
  <1>9. QED
    BY <1>7, <1>8

\* w carries the sends behind the d-th, numbered from e.
Carries(w, d, e) ==
    \A i \in 1 .. Len(w) : w[i].id = d + i /\ w[i].seq = e + i - 1

\* q takes the first packet of p: the other packets move up.
LEMMA TakeFirst ==
    ASSUME NEW w \in Seq(Packet), w # << >>, NEW done \in Seq(Nat),
           NEW e \in Nat, CountsFrom(done, 0), Carries(w, Len(done), e)
    PROVE  LET more == Append(done, Head(w).id)
               rest == Tail(w)
           IN  /\ more \in Seq(Nat) /\ rest \in Seq(Packet)
               /\ Head(w).id = Len(done) + 1 /\ Len(rest) = Len(w) - 1
               /\ CountsFrom(more, 0) /\ Carries(rest, Len(more), e + 1)
               /\ Len(more) + Len(rest) = Len(done) + Len(w)
  <1> DEFINE d == Len(done)
             rest == Tail(w)
             more == Append(done, Head(w).id)
  <1>1. d \in Nat /\ Len(w) \in Nat /\ 1 <= Len(w)
    OBVIOUS
  <1>2. \A i \in 1 .. Len(w) : w[i].id = d + i /\ w[i].seq = e + i - 1
    BY DEF Carries
  <1>3. /\ rest \in Seq(Packet) /\ Len(rest) = Len(w) - 1
        /\ Head(w).id = d + 1
        /\ \A i \in 1 .. Len(rest) : /\ rest[i].id = (d + 1) + i
                                     /\ rest[i].seq = (e + 1) + i - 1
    <2> HIDE DEF d
    <2>1. QED
      BY <1>1, <1>2, PacketsTail
  <1>4. Append(done, 0 + Len(done) + 1) = more
    BY <1>1, <1>3
  <1>5. more \in Seq(Nat) /\ CountsFrom(more, 0) /\ Len(more) = d + 1
    <2>1. /\ Append(done, 0 + Len(done) + 1) \in Seq(Nat)
          /\ CountsFrom(Append(done, 0 + Len(done) + 1), 0)
          /\ Len(Append(done, 0 + Len(done) + 1)) = Len(done) + 1
      BY CountAppend
    <2>2. QED
      BY <1>4, <2>1
  <1> HIDE DEF d, rest, more
  <1>6. Len(more) + Len(rest) = d + Len(w)
    BY <1>1, <1>3, <1>5
  <1>7. Carries(rest, Len(more), e + 1)
    BY <1>3, <1>5 DEF Carries
  <1>8. QED
    BY <1>3, <1>5, <1>6, <1>7 DEF d, more, rest

LEMMA PollStep ==
    ASSUME IInv, NEW p \in Rank, NEW q \in Rank \ {p}, PollPacket(p, q)
    PROVE  IInv'
  <1> DEFINE l == link[<<p, q>>]
             k == link[<<q, p>>]
             d == Len(received[<<p, q>>])
             w == wire[<<p, q>>]
             x == wire[<<q, p>>]
             done == received[<<q, p>>]
             first == l.next_packet_expected = 1
             up == IF first THEN Established(l) ELSE l
             ids == IF first THEN QueueAtFirst(up) ELSE << >>
             after == IF ids = << >> THEN up ELSE Sent(up, ids)
             new == [after EXCEPT !.next_packet_expected = @ + 1]
             v == w \o Packets(up, ids)
             R == IF first /\ l.srv = "requested"
                  THEN retry[p] \ Entry(p, "REP", q) ELSE retry[p]
  <1>0. q \in Rank /\ p \in Rank \ {q}
    OBVIOUS
  <1>1. /\ main[p].at = "poll" /\ x # << >> /\ Goto(p, "app", {})
        /\ link' = [link EXCEPT ![<<p, q>>] = new]
        /\ wire' = [wire EXCEPT ![<<q, p>>] = Tail(x), ![<<p, q>>] = v]
        /\ received' = [received EXCEPT ![<<q, p>>] =
                            Append(done, Head(x).id)]
        /\ UNCHANGED <<timer, handler, new_connection, net, submitted>>
    <2>1. <<q, p>> # <<p, q>>
      OBVIOUS
    <2>2. QED
      BY <2>1 DEF PollPacket, At
  <1>2. retry' = [retry EXCEPT ![p] = R]
    BY DEF PollPacket, IInv, ConnTypeOK
  <1>3. /\ l \in Link /\ Staged(l) /\ Matched(l, k) /\ Matched(k, l)
        /\ l.pending_req \in Seq(Nat) /\ w \in Seq(Packet)
        /\ InOrder(p, q) /\ InSequence(p, q) /\ Seen(p, q)
    BY PairFacts
  <1>4. /\ k.pending_req \in Seq(Nat) /\ x \in Seq(Packet) /\ Open(k)
        /\ InOrder(q, p) /\ InSequence(q, p)
    BY <1>0, <1>1, PairFacts
  <1>5. /\ d \in Nat /\ submitted[<<p, q>>] \in Nat
        /\ submitted[<<q, p>>] \in Nat /\ done \in Seq(Nat)
        /\ l.next_packet_tosend \in Nat /\ l.next_packet_expected \in Nat
        /\ k.next_packet_tosend \in Nat /\ k.next_packet_expected \in Nat
    BY <1>0, Counters
  <1>6. Up(l) /\ Up(k) /\ (~first => Open(l))
    BY <1>3, <1>4 DEF Matched, Up, Server
  <1>7. /\ up \in Link /\ Open(up)
        /\ up.next_packet_tosend = l.next_packet_tosend
        /\ up.next_packet_expected = l.next_packet_expected
        /\ up.pending_req = l.pending_req
    BY <1>3, <1>6, EstablishedStage
  <1>8. ids = IF first THEN l.pending_req ELSE << >>
    BY <1>7 DEF QueueAtFirst
  <1>9. ids \in Seq(Nat) /\ (ids = << >> <=> Len(ids) = 0) /\ Len(ids) \in Nat
    <2>1. ids \in Seq(Nat)
      BY <1>3, <1>8
    <2> HIDE DEF ids
    <2>2. QED
      BY <2>1
  <1>10. /\ CountsFrom(l.pending_req, d + Len(w))
         /\ submitted[<<p, q>>] = d + Len(w) + Len(l.pending_req)
         /\ CountsFrom(received[<<p, q>>], 0)
         /\ \A i \in 1 .. Len(w) : w[i].id = d + i
    BY <1>3 DEF InOrder
  <1>11. CountsFrom(ids, d + Len(w))
    <2>1. CountsFrom(<< >>, d + Len(w))
      BY DEF CountsFrom
    <2>2. QED
      BY <1>8, <1>10, <2>1
  <1> DEFINE e == k.next_packet_expected
  <1>12. /\ \A i \in 1 .. Len(w) : w[i].seq = e + i - 1
         /\ l.next_packet_tosend = e + Len(w)
    BY <1>3, <1>6 DEF InSequence
  <1>13. /\ CountsFrom(done, 0)
         /\ \A i \in 1 .. Len(x) : x[i].id = Len(done) + i
         /\ \A i \in 1 .. Len(x) : x[i].seq = l.next_packet_expected + i - 1
         /\ CountsFrom(k.pending_req, Len(done) + Len(x))
         /\ submitted[<<q, p>>] = Len(done) + Len(x) + Len(k.pending_req)
         /\ k.next_packet_tosend = l.next_packet_expected + Len(x)
    BY <1>4, <1>6 DEF InOrder, InSequence
  <1> HIDE DEF up, ids
  <1>14. /\ after \in Link /\ Open(after)
         /\ after.next_packet_tosend = l.next_packet_tosend + Len(ids)
         /\ after.next_packet_expected = l.next_packet_expected
         /\ after.pending_req = IF first THEN << >> ELSE l.pending_req
    <2>1. CASE ids = << >>
      <3>1. after = up /\ Len(ids) = 0
        BY <1>9, <2>1
      <3>2. l.next_packet_tosend + 0 = l.next_packet_tosend
        BY <1>5
      <3>3. first => l.pending_req = << >>
        BY <1>8, <2>1
      <3>4. QED
        BY <1>7, <3>1, <3>2, <3>3
    <2>2. CASE ids # << >>
      <3>1. after = Sent(up, ids) /\ first
        BY <1>8, <2>2
      <3>2. QED
        BY <1>7, <1>9, <3>1, SentStage
    <2>3. QED
      BY <2>1, <2>2
  <1> HIDE DEF after
  <1>15. /\ new \in Link /\ Open(new)
         /\ new.next_packet_tosend = l.next_packet_tosend + Len(ids)
         /\ new.next_packet_expected = l.next_packet_expected + 1
         /\ new.pending_req = IF first THEN << >> ELSE l.pending_req
    BY <1>14, ExpectedStage
  <1> HIDE DEF new, v
  <1>16. link' \in [Pair -> Link] /\ link'[<<p, q>>] = new /\ OnlyLink(p, q)
    <2>1. link \in [Pair -> Link]
      BY DEF IInv, ConnTypeOK
    <2>2. QED
      BY <1>1, <1>15, <2>1, LinkUpdate
  <1>17. link'[<<q, p>>] = k
    BY <1>0, <1>16 DEF OnlyLink
  <1>18. /\ v \in Seq(Packet) /\ Len(v) = Len(w) + Len(ids)
         /\ \A i \in 1 .. Len(v) : v[i].id = d + i
         /\ \A i \in 1 .. Len(v) : v[i].seq = e + i - 1
    <2>1. up.next_packet_tosend = e + Len(w)
      BY <1>7, <1>12
    <2>2. v = Behind(w, up, ids)
      BY DEF v, Behind
    <2>3. w \in Seq(Packet) /\ d \in Nat /\ e \in Nat
      BY <1>3, <1>5
    <2>4. up \in Link /\ ids \in Seq(Nat) /\ CountsFrom(ids, d + Len(w))
      BY <1>7, <1>9, <1>11
    <2>5. Numbered(w, d, e)
      BY <1>10, <1>12 DEF Numbered
    <2> HIDE DEF w, d, e
    <2>6. /\ v \in Seq(Packet) /\ Len(v) = Len(w) + Len(ids)
          /\ Numbered(v, d, e)
      BY <2>1, <2>2, <2>3, <2>4, <2>5, PostFlow
    <2>7. QED
      BY <2>6 DEF Numbered
  <1> DEFINE rest == Tail(x)
             more == Append(done, Head(x).id)
             f == l.next_packet_expected
  <1>19. /\ more \in Seq(Nat) /\ rest \in Seq(Packet) /\ Len(rest) = Len(x) - 1
         /\ CountsFrom(more, 0)
         /\ \A i \in 1 .. Len(rest) : rest[i].id = Len(more) + i
         /\ \A i \in 1 .. Len(rest) : rest[i].seq = (f + 1) + i - 1
         /\ CountsFrom(k.pending_req, Len(more) + Len(rest))
         /\ submitted[<<q, p>>] = Len(more) + Len(rest) + Len(k.pending_req)
    <2>1. x \in Seq(Packet) /\ x # << >> /\ done \in Seq(Nat) /\ f \in Nat
      BY <1>1, <1>4, <1>5
    <2>2. CountsFrom(done, 0) /\ Carries(x, Len(done), f)
      BY <1>13 DEF Carries
    <2>3. /\ CountsFrom(k.pending_req, Len(done) + Len(x))
          /\ submitted[<<q, p>>] = Len(done) + Len(x) + Len(k.pending_req)
      BY <1>13
    <2> HIDE DEF x, done, f, k
    <2>4. /\ more \in Seq(Nat) /\ rest \in Seq(Packet) /\ Len(rest) = Len(x) - 1
          /\ CountsFrom(more, 0) /\ Carries(rest, Len(more), f + 1)
          /\ Len(more) + Len(rest) = Len(done) + Len(x)
      BY <2>1, <2>2, TakeFirst
    <2> HIDE DEF rest, more
    <2>5. QED
      BY <2>3, <2>4 DEF Carries
  <1>20. /\ wire'[<<p, q>>] = v /\ wire'[<<q, p>>] = rest
         /\ received'[<<q, p>>] = more
         /\ received'[<<p, q>>] = received[<<p, q>>]
         /\ \A r \in Rank : \A s \in Rank \ {r} :
                (r # p \/ s # q) /\ (r # q \/ s # p) =>
                    /\ wire'[<<r, s>>] = wire[<<r, s>>]
                    /\ received'[<<r, s>>] = received[<<r, s>>]
    <2>1. wire \in [Pair -> Seq(Packet)]
      BY DEF IInv, ConnTypeOK
    <2>2. received \in [Rank \X Rank -> Seq(Nat)]
      BY DEF IInv, ConnTypeOK
    <2> HIDE DEF rest, more
    <2>3. wire' = [wire EXCEPT ![<<q, p>>] = rest, ![<<p, q>>] = v]
      BY <1>1 DEF rest
    <2>4. received' = [received EXCEPT ![<<q, p>>] = more]
      BY <1>1 DEF more
    <2>5. /\ wire'[<<p, q>>] = v /\ wire'[<<q, p>>] = rest
          /\ \A r \in Rank : \A s \in Rank \ {r} :
                 (r # p \/ s # q) /\ (r # q \/ s # p) =>
                     wire'[<<r, s>>] = wire[<<r, s>>]
      BY <1>0, <2>1, <2>3 DEF Pair
    <2>6. /\ received'[<<q, p>>] = more
          /\ received'[<<p, q>>] = received[<<p, q>>]
          /\ \A r \in Rank : \A s \in Rank \ {r} :
                 (r # p \/ s # q) /\ (r # q \/ s # p) =>
                     received'[<<r, s>>] = received[<<r, s>>]
      BY <1>0, <2>2, <2>4
    <2>7. QED
      BY <2>5, <2>6
  <1>21. /\ wire' \in [Pair -> Seq(Packet)]
         /\ received' \in [Rank \X Rank -> Seq(Nat)]
    <2>1. wire' = [wire EXCEPT ![<<q, p>>] = rest, ![<<p, q>>] = v]
      BY <1>1
    <2>2. received' = [received EXCEPT ![<<q, p>>] = more]
      BY <1>1
    <2> HIDE DEF rest, more
    <2>3. wire' \in [Pair -> Seq(Packet)]
      BY <1>18, <1>19, <2>1 DEF IInv, ConnTypeOK
    <2>4. received' \in [Rank \X Rank -> Seq(Nat)]
      BY <1>19, <2>2 DEF IInv, ConnTypeOK
    <2>5. QED
      BY <2>3, <2>4
  <1>22. InOrder(p, q)'
    <2> DEFINE queued == IF first THEN << >> ELSE l.pending_req
    <2>1. /\ CountsFrom(queued, d + Len(v))
          /\ submitted[<<p, q>>] = d + Len(v) + Len(queued)
      <3>1. CASE first
        <4>1. CountsFrom(<< >>, d + Len(v)) /\ Len(<< >>) = 0
          BY DEF CountsFrom
        <4>2. Len(v) = Len(w) + Len(l.pending_req)
          BY <1>8, <1>18, <3>1
        <4>3. submitted[<<p, q>>] = d + Len(v)
          <5>1. d \in Nat /\ Len(w) \in Nat /\ Len(l.pending_req) \in Nat
            BY <1>3, <1>5
          <5>2. \A a, b, c \in Nat : a + b + c = a + (b + c)
            OBVIOUS
          <5>3. d + Len(w) + Len(l.pending_req)
                    = d + (Len(w) + Len(l.pending_req))
            BY <5>1, <5>2
          <5>4. submitted[<<p, q>>] = d + Len(w) + Len(l.pending_req)
            BY <1>10
          <5>5. QED
            BY <4>2, <5>3, <5>4
        <4>4. QED
          BY <1>5, <3>1, <4>1, <4>3
      <3>2. CASE ~first
        <4>1. Len(w) \in Nat /\ ids = << >> /\ Len(ids) = 0
          BY <1>3, <1>8, <1>9, <3>2
        <4>2. Len(v) = Len(w)
          BY <1>18, <4>1
        <4>3. QED
          BY <1>10, <3>2, <4>2
      <3>3. QED
        BY <3>1, <3>2
    <2>2. link'[<<p, q>>].pending_req = queued
      BY <1>15, <1>16
    <2>3. submitted'[<<p, q>>] = submitted[<<p, q>>]
      BY <1>1
    <2> HIDE DEF queued
    <2>4. QED
      BY <1>10, <1>18, <1>20, <2>1, <2>2, <2>3 DEF InOrder
  <1>23. InSequence(p, q)'
    <2>1. link'[<<q, p>>].next_packet_expected = e
      BY <1>17
    <2>2. \A i \in 1 .. Len(wire'[<<p, q>>]) :
              wire'[<<p, q>>][i].seq =
                  link'[<<q, p>>].next_packet_expected + i - 1
      BY <1>18, <1>20, <2>1
    <2>3. link'[<<p, q>>].next_packet_tosend =
              link'[<<q, p>>].next_packet_expected + Len(wire'[<<p, q>>])
      <3>1. e \in Nat /\ Len(w) \in Nat /\ Len(ids) \in Nat
        BY <1>3, <1>5, <1>9
      <3>2. new.next_packet_tosend = (e + Len(w)) + Len(ids)
        BY <1>12, <1>15
      <3> HIDE DEF e, w
      <3>3. new.next_packet_tosend = e + Len(v)
        BY <1>18, <3>1, <3>2
      <3>4. QED
        BY <1>16, <1>20, <2>1, <3>3
    <2>4. QED
      BY <1>15, <1>16, <2>2, <2>3 DEF InSequence
  <1>24. InOrder(q, p)'
    <2>1. submitted'[<<q, p>>] = submitted[<<q, p>>]
      BY <1>1
    <2> HIDE DEF rest, more, k
    <2>2. QED
      BY <1>17, <1>19, <1>20, <2>1 DEF InOrder
  <1>25. InSequence(q, p)'
    <2>1. link'[<<p, q>>].next_packet_expected = f + 1
      BY <1>15, <1>16
    <2>2. \A i \in 1 .. Len(wire'[<<q, p>>]) :
              wire'[<<q, p>>][i].seq =
                  link'[<<p, q>>].next_packet_expected + i - 1
      <3> HIDE DEF rest, more
      <3>1. QED
        BY <1>19, <1>20, <2>1
    <2>3. link'[<<q, p>>].next_packet_tosend =
              link'[<<p, q>>].next_packet_expected + Len(wire'[<<q, p>>])
      <3>1. k.next_packet_tosend = f + Len(x) /\ f \in Nat /\ Len(x) \in Nat
        BY <1>4, <1>5, <1>13
      <3> HIDE DEF rest, more, x, k, f
      <3>2. k.next_packet_tosend = (f + 1) + Len(rest)
        BY <1>19, <3>1
      <3>3. QED
        BY <1>17, <1>20, <2>1, <3>2
    <2>4. QED
      BY <1>4, <1>17, <2>2, <2>3 DEF InSequence
  <1>26. Ordering'
    <2>1. \A r \in Rank : \A s \in Rank \ {r} :
              submitted'[<<r, s>>] = submitted[<<r, s>>]
      BY <1>1
    <2>2. QED
      BY <1>16, <1>20, <1>22, <1>23, <1>24, <1>25, <2>1, OrderingElsewhere
      DEF IInv
  <1>27. Stages' /\ Agree'
    <2>1. Matched(new, k) /\ Matched(k, new) /\ Staged(new)
      BY <1>4, <1>15, OneStage DEF Matched, Staged
    <2>2. QED
      BY <1>0, <1>16, <2>1, StagesStep DEF IInv
  <1>28. CopiesAreTrue'
    <2>1. ~Fresh(new) /\ ~Server(new) /\ Up(new)
      BY <1>15, OneStage DEF Up
    <2>2. QED
      BY <1>1, <1>16, <2>1, CopiesStep DEF IInv, ConnTypeOK
  <1>29. R \in SUBSET Message /\ TimerAwake'
    <2>1. R \subseteq retry[p] /\ retry[p] \in SUBSET Message
      BY DEF IInv, ConnTypeOK
    <2> HIDE DEF R
    <2>2. QED
      BY <1>1, <1>2, <2>1 DEF IInv, ConnTypeOK, TimerAwake
  <1>30. RetryIsDue' /\ retry' \in [Rank -> SUBSET Message]
    <2>1. ASSUME NEW n \in Message
          PROVE  /\ n \in Entry(p, "REP", q) <=> /\ n \in retry[p]
                                                 /\ n.type = "REP"
                                                 /\ n.client = q
                 /\ n \in retry[p] <=> Due(p, n)
      BY DEF Entry, IInv, RetryIsDue
    <2>2. ASSUME NEW n \in Message, Sender(n) = p, Target(n) = q
          PROVE  n \in R <=> Due(p, n)'
      <3>1. /\ n.type = "REQ" \/ n.type = "REP"
            /\ n.type = "REP" => n.client = q
        BY <2>2, MessageParts
      <3>2. ~Client(l)
        BY <1>6, OneStage DEF Up
      <3>3. n.type = "REQ" => n \notin retry[p]
        BY <1>3, <2>1, <2>2, <3>2, StageTests DEF Due
      <3>4. ~Due(p, n)'
        BY <1>15, <1>16, <2>2, <3>1 DEF Due, Open
      <3>5. (first /\ Server(l)) \/ Open(l)
        BY <1>6 DEF Up, Server
      <3>6. n \notin R
        BY <1>3, <2>1, <2>2, <3>1, <3>3, <3>5, StageTests DEF Due, Open, Server
      <3>7. QED
        BY <3>4, <3>6
    <2>3. ASSUME NEW n \in Message, ~(Sender(n) = p /\ Target(n) = q)
          PROVE  n \in R <=> n \in retry[p]
      BY <2>1, <2>3, MessageParts DEF Due
    <2>4. \A n \in Message :
              IF Sender(n) = p /\ Target(n) = q THEN n \in R <=> Due(p, n)'
              ELSE n \in R <=> n \in retry[p]
      BY <2>2, <2>3
    <2>5. retry \in [Rank -> SUBSET Message] /\ RetryIsDue
      BY DEF IInv, ConnTypeOK
    <2> HIDE DEF R
    <2>6. QED
      BY <1>2, <1>16, <1>29, <2>4, <2>5, RetryStep
  <1>31. /\ main' \in [Rank -> [at : {"app", "connect", "scan", "poll"},
                                peers : SUBSET Rank]]
         /\ Places' /\ main'[p].at = "app"
         /\ \A r \in Rank \ {p} : main'[r] = main[r]
    <2>1. {} \in SUBSET (Rank \ {p}) /\ Goto(p, "app", {})
      BY <1>1
    <2>2. QED
      BY <2>1, GotoStep DEF IInv
  <1>32. QueuesAreSeen'
    <2>1. ASSUME NEW r \in Rank, NEW s \in Rank \ {r}
          PROVE  Seen(r, s)'
      <3>1. Seen(r, s)
        BY DEF IInv, QueuesAreSeen
      <3>2. CASE r = p /\ s = q
        <4>1. /\ ~Fresh(new)
              /\ new.pending_req # << >> =>
                     new.pending_req = l.pending_req /\ Open(l)
          BY <1>6, <1>15, OneStage
        <4>2. QED
          BY <1>1, <1>3, <1>16, <1>31, <3>2, <4>1 DEF Seen
      <3>3. CASE r = p /\ s # q
        <4>1. link'[<<r, s>>] = link[<<r, s>>]
          BY <1>16, <3>3 DEF OnlyLink
        <4>2. QED
          BY <1>1, <1>31, <3>1, <3>3, <4>1 DEF Seen
      <3>4. CASE r # p
        <4>1. link'[<<r, s>>] = link[<<r, s>>] /\ main'[r] = main[r]
          BY <1>16, <1>31, <3>4 DEF OnlyLink
        <4>2. QED
          BY <1>1, <3>1, <4>1 DEF Seen
      <3>5. QED
        BY <3>2, <3>3, <3>4
    <2>2. QED
      BY <2>1 DEF QueuesAreSeen
  <1>33. ConnTypeOK'
    BY <1>1, <1>16, <1>21, <1>30, <1>31 DEF IInv, ConnTypeOK
  <1>34. QED
    BY <1>26, <1>27, <1>28, <1>29, <1>30, <1>31, <1>32, <1>33 DEF IInv

-----------------------------------------------------------------------------
(* The theorems.                                                            *)

LEMMA InitHolds == Init => IInv
  <1> SUFFICES ASSUME Init PROVE IInv
    OBVIOUS
  <1>1. InitialLink \in Link /\ Fresh(InitialLink)
        /\ InitialLink.pending_req = << >>
    BY DEF InitialLink, Link, Fresh
  <1>2. link = [pq \in Pair |-> InitialLink]
    BY DEF Init
  <1> HIDE DEF InitialLink
  <1>3. ASSUME NEW p \in Rank, NEW q \in Rank \ {p}
        PROVE  link[<<p, q>>] = InitialLink
    BY <1>2 DEF Pair
  <1>4. link \in [Pair -> Link]
    BY <1>1, <1>2
  <1>5. ConnTypeOK
    BY <1>4 DEF Init, ConnTypeOK
  <1>6. Stages /\ Agree
    BY <1>1, <1>3, OneStage DEF Stages, Agree, Staged, Matched
  <1>7. Places /\ TimerAwake /\ CopiesAreTrue
    BY DEF Init, Places, TimerAwake, CopiesAreTrue
  <1>8. RetryIsDue
    <2>1. ASSUME NEW p \in Rank, NEW m \in Message
          PROVE  m \in retry[p] <=> Due(p, m)
      <3>1. retry[p] = {} /\ Target(m) \in Rank
        BY MessageParts DEF Init
      <3>2. ~Due(p, m)
        BY <1>1, <1>3, <3>1 DEF Due, Fresh
      <3>3. QED
        BY <3>1, <3>2
    <2>2. QED
      BY <2>1 DEF RetryIsDue
  <1>9. QueuesAreSeen
    BY <1>1, <1>3, OneStage DEF QueuesAreSeen, Seen
  <1>10. Ordering
    <2>1. ASSUME NEW p \in Rank, NEW q \in Rank \ {p}
          PROVE  InOrder(p, q) /\ InSequence(p, q)
      <3>1. /\ wire[<<p, q>>] = << >> /\ received[<<p, q>>] = << >>
            /\ submitted[<<p, q>>] = 0
        BY DEF Init, Pair
      <3>2. link[<<p, q>>].pending_req = << >> /\ ~Up(link[<<p, q>>])
        BY <1>1, <1>3, OneStage DEF Up
      <3>3. Len(<< >>) = 0
        OBVIOUS
      <3>4. QED
        BY <3>1, <3>2, <3>3 DEF InOrder, InSequence, CountsFrom
    <2>2. QED
      BY <2>1 DEF Ordering
  <1>11. QED
    BY <1>5, <1>6, <1>7, <1>8, <1>9, <1>10 DEF IInv

LEMMA HandleStep ==
    ASSUME IInv, NEW copy \in net, HandleMsg(copy[1], copy[2])
    PROVE  IInv'
  <1> DEFINE m == copy[1]
             slot == copy[2]
  <1>1. m \in Message /\ slot \in Copies /\ <<m, slot>> \in net
    <2>1. copy \in Message \X Copies
      BY DEF IInv, ConnTypeOK
    <2>2. PICK n \in Message, s \in Copies : copy = <<n, s>>
      BY <2>1
    <2>3. m = n /\ slot = s
      BY <2>2
    <2>4. QED
      BY <2>2, <2>3
  <1>2. \/ Accept(Target(m), m, slot) \/ AcceptAndCancel(Target(m), m, slot)
        \/ Enable(Target(m), m, slot) \/ Ignore(Target(m), m, slot)
    BY DEF HandleMsg
  <1> HIDE DEF m, slot
  <1>3. QED
    BY <1>1, <1>2, AcceptStep, CancelStep, EnableStep, IgnoreStep

LEMMA StutterStep ==
    ASSUME IInv, UNCHANGED vars
    PROVE  IInv'
  <1>1. /\ UNCHANGED <<link, retry, timer, handler, new_connection, main, net>>
        /\ UNCHANGED dataVars
    BY DEF vars, dataVars
  <1>2. /\ Stages' /\ Agree' /\ Ordering' /\ CopiesAreTrue'
        /\ RetryIsDue' /\ QueuesAreSeen'
    BY <1>1, LinksKept
  <1>3. ConnTypeOK' /\ Places' /\ TimerAwake'
    BY <1>1 DEF IInv, ConnTypeOK, Places, TimerAwake, dataVars
  <1>4. QED
    BY <1>2, <1>3 DEF IInv

LEMMA NextStep == IInv /\ [Next]_vars => IInv'
  <1> SUFFICES ASSUME IInv, [Next]_vars PROVE IInv'
    OBVIOUS
  <1>1. CASE \E p \in Rank : \E q \in Rank \ {p} : Isend(p, q)
    BY <1>1, IsendStep
  <1>2. CASE \E p \in Rank : MainProgress(p)
    BY <1>2, ConnectStep, TestStep, ScanStep, PollStep, PollNothingStep
    DEF MainProgress
  <1>3. CASE \E p \in Rank : MarkNewConnection(p) \/ TimerWaits(p)
    BY <1>3, MarkStep, TimerStep
  <1>4. CASE \E p \in Rank : \E m \in retry[p] : Resend(p, m)
    BY <1>4, ResendStep
  <1>5. CASE \E copy \in net : HandleMsg(copy[1], copy[2])
    BY <1>5, HandleStep
  <1>6. CASE \E copy \in net : Lose(copy[1], copy[2])
    <2>1. PICK copy \in net : Lose(copy[1], copy[2])
      BY <1>6
    <2>2. copy[1] \in Message /\ copy[2] \in Copies
      BY DEF IInv, ConnTypeOK
    <2>3. QED
      BY <2>1, <2>2, LoseStep
  <1>7. CASE UNCHANGED vars
    BY <1>7, StutterStep
  <1>8. QED
    BY <1>1, <1>2, <1>3, <1>4, <1>5, <1>6, <1>7 DEF Next

\* Every state of the set-up has the types of the code's variables, matching
\* stages at the two ends, true copies and exact lists.
THEOREM InvariantHolds == Spec => []IInv
  <1>1. QED
    BY InitHolds, NextStep, PTL DEF Spec

LEMMA EndsMatchFollows == IInv => EndsMatch
  <1> SUFFICES ASSUME IInv PROVE EndsMatch
    OBVIOUS
  <1>1. ASSUME NEW p \in Rank, NEW q \in Rank \ {p}, link[<<p, q>>].qp = "rts"
        PROVE  /\ link[<<p, q>>].dest = link[<<q, p>>].qpn
               /\ link[<<q, p>>].dest = link[<<p, q>>].qpn
               /\ link[<<q, p>>].qp \in {"rtr", "rts"}
    <2>1. /\ Staged(link[<<p, q>>])
          /\ Matched(link[<<p, q>>], link[<<q, p>>])
      BY PairFacts
    <2>2. Open(link[<<p, q>>])
      BY <1>1, <2>1, StageTests
    <2>3. Server(link[<<q, p>>]) \/ Open(link[<<q, p>>])
      BY <2>1, <2>2 DEF Matched
    <2>4. QED
      BY <2>2, <2>3 DEF Open, Server
  <1>2. ASSUME NEW p \in Rank, NEW q \in Rank \ {p}, wire[<<q, p>>] # << >>
        PROVE  Head(wire[<<q, p>>]).seq = link[<<p, q>>].next_packet_expected
    <2>1. q \in Rank /\ p \in Rank \ {q}
      OBVIOUS
    <2>2. wire[<<q, p>>] \in Seq(Packet) /\ InSequence(q, p)
      BY <2>1, PairFacts
    <2>3. /\ Head(wire[<<q, p>>]) = wire[<<q, p>>][1]
          /\ 1 \in 1 .. Len(wire[<<q, p>>])
      BY <1>2, <2>2
    <2>4. wire[<<q, p>>][1].seq = link[<<p, q>>].next_packet_expected + 1 - 1
      BY <2>2, <2>3 DEF InSequence
    <2>5. link[<<p, q>>].next_packet_expected \in Nat
      BY Counters
    <2>6. QED
      BY <2>3, <2>4, <2>5
  <1>3. QED
    BY <1>1, <1>2 DEF EndsMatch, QueuePairsMatch, SequenceNumbersMatch

\* However requests and replies cross, are lost or repeated, the two ends of a
\* connection agree on their queue pairs and on the next packet's number.
THEOREM EndsAlwaysMatch == Spec => []EndsMatch
  <1>1. QED
    BY InvariantHolds, EndsMatchFollows, PTL

LEMMA RetryMatchesFollows == IInv => RetryMatchesState
  <1> SUFFICES ASSUME IInv, NEW p \in Rank, NEW q \in Rank \ {p}
               PROVE  /\ Entry(p, "REQ", q) =
                            IF link[<<p, q>>].cli = "requesting"
                            THEN {Req(p, q, link[<<p, q>>].qpn)} ELSE {}
                      /\ Entry(p, "REP", q) =
                            IF link[<<p, q>>].srv = "requested"
                            THEN {Rep(p, q, link[<<p, q>>].qpn)} ELSE {}
    BY DEF RetryMatchesState
  <1> DEFINE l == link[<<p, q>>]
  <1>1. Staged(l)
    BY PairFacts
  <1>2. ASSUME NEW m
        PROVE  m \in retry[p] <=> m \in Message /\ Due(p, m)
    BY DEF IInv, RetryIsDue, ConnTypeOK
  <1>3. /\ l.cli = "requesting" => l.qpn = 1
        /\ l.srv = "requested" => l.qpn = 1
    BY <1>1 DEF Staged, Fresh, Client, Server, Open
  <1>4. ASSUME NEW m
        PROVE  m \in Entry(p, "REQ", q) <=>
                   l.cli = "requesting" /\ m = Req(p, q, 1)
    <2>1. m \in Entry(p, "REQ", q) <=>
              m \in Message /\ Due(p, m) /\ m.type = "REQ" /\ m.server = q
      BY <1>2 DEF Entry
    <2>2. ASSUME m \in Message, Due(p, m), m.type = "REQ", m.server = q
          PROVE  l.cli = "requesting" /\ m = Req(p, q, 1)
      BY <2>2, MessageParts, MessageIs DEF Due
    <2>3. ASSUME l.cli = "requesting", m = Req(p, q, 1)
          PROVE  m \in Message /\ Due(p, m) /\ m.type = "REQ" /\ m.server = q
      <3>1. q \in Rank /\ m.server = q
        BY <2>3 DEF Req
      <3>2. QED
        BY <2>3, <3>1, MessageMade DEF Due
    <2>4. QED
      BY <2>1, <2>2, <2>3
  <1>5. ASSUME NEW m
        PROVE  m \in Entry(p, "REP", q) <=>
                   l.srv = "requested" /\ m = Rep(p, q, 1)
    <2>1. m \in Entry(p, "REP", q) <=>
              m \in Message /\ Due(p, m) /\ m.type = "REP" /\ m.client = q
      BY <1>2 DEF Entry
    <2>2. ASSUME m \in Message, Due(p, m), m.type = "REP", m.client = q
          PROVE  l.srv = "requested" /\ m = Rep(p, q, 1)
      BY <2>2, MessageParts, MessageIs DEF Due
    <2>3. ASSUME l.srv = "requested", m = Rep(p, q, 1)
          PROVE  m \in Message /\ Due(p, m) /\ m.type = "REP" /\ m.client = q
      <3>1. q \in Rank /\ m.client = q
        BY <2>3 DEF Rep
      <3>2. QED
        BY <2>3, <3>1, MessageMade DEF Due
    <2>4. QED
      BY <2>1, <2>2, <2>3
  <1> HIDE DEF l
  <1>6. QED
    BY <1>3, <1>4, <1>5 DEF l

\* The list of pending messages holds a request exactly while the process is
\* a client and a reply exactly while it is a server: no search of it fails.
THEOREM RetryAlwaysMatches == Spec => []RetryMatchesState
  <1>1. QED
    BY InvariantHolds, RetryMatchesFollows, PTL

\* The timer thread never waits for a signal while a message is pending.
THEOREM TimerIsAwake == Spec => []TimerAwake
  <1>1. IInv => TimerAwake
    BY DEF IInv
  <1>2. QED
    BY <1>1, InvariantHolds, PTL

LEMMA SeenFollows == IInv => QueuedSendsAreSeen
  <1> SUFFICES ASSUME IInv, NEW p \in Rank, NEW q \in Rank \ {p},
                      link[<<p, q>>].pending_req # << >>
               PROVE  \/ link[<<p, q>>].cli = "requesting"
                      \/ link[<<p, q>>].srv = "requested"
                      \/ /\ main[p].at \in {"connect", "scan"}
                         /\ q \in main[p].peers
                      \/ link[<<p, q>>].conn = "rc"
                             /\ (new_connection[p] \/ handler[p] = "marking")
    BY DEF QueuedSendsAreSeen
  <1>1. Staged(link[<<p, q>>]) /\ Seen(p, q)
    BY PairFacts
  <1>2. CASE Fresh(link[<<p, q>>])
    BY <1>1, <1>2 DEF Seen
  <1>3. CASE Open(link[<<p, q>>])
    BY <1>1, <1>3 DEF Seen, Open
  <1>4. CASE Client(link[<<p, q>>]) \/ Server(link[<<p, q>>])
    BY <1>4 DEF Client, Server
  <1>5. QED
    BY <1>1, <1>2, <1>3, <1>4 DEF Staged

\* A send that is queued while the three threads set up the connection is
\* never forgotten: a request or reply is pending, or the MPI thread is still
\* to look at the queue.
THEOREM QueuedSendsAreAlwaysSeen == Spec => []QueuedSendsAreSeen
  <1>1. QED
    BY InvariantHolds, SeenFollows, PTL

LEMMA PostStep ==
    ASSUME IInv, IInv', NEW p \in Rank, NEW q \in Rank \ {p},
           Len(wire'[<<p, q>>]) > Len(wire[<<p, q>>])
    PROVE  link'[<<p, q>>].qp = "rts"
  <1>1. wire[<<p, q>>] \in Seq(Packet) /\ wire'[<<p, q>>] \in Seq(Packet)
    BY DEF IInv, ConnTypeOK, Pair
  <1>2. wire'[<<p, q>>] # << >>
    BY <1>1
  <1>3. InSequence(p, q)'
    BY DEF IInv, Ordering
  <1>4. QED
    BY <1>2, <1>3 DEF InSequence, Open

\* No packet is posted on a queue pair that is not ready to send.
THEOREM PostsOnlyOnReadyQp == Spec => PostsOnReadyQp
  <1>1. IInv /\ IInv' /\ [Next]_vars =>
            [\A p \in Rank : \A q \in Rank \ {p} :
                 Len(wire'[<<p, q>>]) > Len(wire[<<p, q>>]) =>
                     link'[<<p, q>>].qp = "rts"]_vars
    BY PostStep
  <1>2. QED
    BY <1>1, InvariantHolds, PTL DEF Spec, PostsOnReadyQp

-----------------------------------------------------------------------------
(* The set-up implements the ordered delivery of OrderedDelivery.           *)

LEMMA InitRefines == Init => OD!ODInit
  BY DEF Init, OD!ODInit

LEMMA SubmitRefines ==
    ASSUME IInv, NEW p \in Rank, NEW q \in Rank \ {p}, Isend(p, q)
    PROVE  OD!Submit(p, q)
  <1>1. submitted \in [Rank \X Rank -> Nat]
    BY DEF IInv, ConnTypeOK
  <1>2. QED
    BY <1>1 DEF Isend, OD!Submit

LEMMA DeliverRefines ==
    ASSUME IInv, NEW p \in Rank, NEW q \in Rank \ {p}, PollPacket(p, q)
    PROVE  OD!Deliver(q, p)
  <1> DEFINE x == wire[<<q, p>>]
             done == received[<<q, p>>]
             k == link[<<q, p>>]
  <1>1. q \in Rank /\ p \in Rank \ {q}
    OBVIOUS
  <1>2. /\ x # << >> /\ UNCHANGED submitted
        /\ received' = [received EXCEPT ![<<q, p>>] = Append(@, Head(x).id)]
    BY DEF PollPacket
  <1>3. /\ x \in Seq(Packet) /\ InOrder(q, p) /\ InSequence(q, p)
        /\ k.pending_req \in Seq(Nat)
    BY <1>1, PairFacts
  <1>4. Len(done) \in Nat /\ done \in Seq(Nat)
    BY <1>1, Counters
  <1>5. Head(x).id = Len(done) + 1 /\ Len(x) \in Nat /\ 1 <= Len(x)
    <2>1. Head(x) = x[1] /\ Len(x) \in Nat /\ 1 <= Len(x)
      BY <1>2, <1>3
    <2>2. \A i \in 1 .. Len(x) : x[i].id = Len(done) + i
      BY <1>3 DEF InOrder
    <2> HIDE DEF x
    <2>3. QED
      BY <2>1, <2>2
  <1>6. Len(done) < submitted[<<q, p>>]
    <2>1. submitted[<<q, p>>] = Len(done) + Len(x) + Len(k.pending_req)
      BY <1>3 DEF InOrder
    <2>2. Len(k.pending_req) \in Nat
      BY <1>3
    <2>3. \A a, b, c \in Nat : 1 <= b => a < a + b + c
      OBVIOUS
    <2>4. Len(done) < Len(done) + Len(x) + Len(k.pending_req)
      BY <1>4, <1>5, <2>2, <2>3
    <2>5. QED
      BY <2>1, <2>4
  <1>7. received' = [received EXCEPT ![<<q, p>>] = Append(@, Len(@) + 1)]
    BY <1>2, <1>5
  <1>8. QED
    BY <1>2, <1>6, <1>7 DEF OD!Deliver

LEMMA StepRefines == IInv /\ [Next]_vars => [OD!ODNext]_(OD!odVars)
  <1> SUFFICES ASSUME IInv, [Next]_vars
               PROVE  OD!ODNext \/ UNCHANGED <<submitted, received>>
    BY DEF OD!odVars
  <1>1. CASE \E p \in Rank : \E q \in Rank \ {p} : Isend(p, q)
    BY <1>1, SubmitRefines DEF OD!ODNext
  <1>2. CASE \E p \in Rank : MainProgress(p)
    <2>1. PICK p \in Rank : MainProgress(p)
      BY <1>2
    <2>2. CASE ConnectReq(p) \/ TestNewConnection(p) \/ PollNothing(p)
      BY <2>2 DEF ConnectReq, TestNewConnection, PollNothing, dataVars
    <2>3. CASE ScanPeer(p)
      BY <2>3 DEF ScanPeer
    <2>4. CASE \E q \in Rank \ {p} : PollPacket(p, q)
      BY <2>4, DeliverRefines DEF OD!ODNext
    <2>5. QED
      BY <2>1, <2>2, <2>3, <2>4 DEF MainProgress
  <1>3. CASE \E p \in Rank : MarkNewConnection(p) \/ TimerWaits(p)
    BY <1>3 DEF MarkNewConnection, TimerWaits, dataVars
  <1>4. CASE \E p \in Rank : \E m \in retry[p] : Resend(p, m)
    BY <1>4 DEF Resend, dataVars
  <1>5. CASE \E copy \in net : HandleMsg(copy[1], copy[2])
    BY <1>5
    DEF HandleMsg, Accept, AcceptAndCancel, Enable, Ignore, dataVars
  <1>6. CASE \E copy \in net : Lose(copy[1], copy[2])
    BY <1>6 DEF Lose, dataVars
  <1>7. CASE UNCHANGED vars
    BY <1>7 DEF vars
  <1>8. QED
    BY <1>1, <1>2, <1>3, <1>4, <1>5, <1>6, <1>7 DEF Next

\* Across the set-up, whoever starts it and whatever is lost, every send is
\* handed over at most once, and the sends of a pair in the order they were
\* started: the safety part of OrderedDelivery.
THEOREM SendsArriveInOrder == Spec => OD!ODSafety
  <1>1. QED
    BY InitRefines, StepRefines, InvariantHolds, PTL DEF Spec, OD!ODSafety
=============================================================================
