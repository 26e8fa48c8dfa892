--------------------------- MODULE FastPathProofs ---------------------------
(***************************************************************************)
(* The RDMA fast path is safe for every length of the ring, every set of    *)
(* envelopes and any number and sizes of sends: no buffer is written before *)
(* its last message was given back, what is left out of a header is what    *)
(* the receiver has, the loop that waits for the ring waits for what is     *)
(* there, and the sends are handed over once and in order.                  *)
(*                                                                         *)
(* The argument has three parts for each direction.  The packets that were  *)
(* not accepted yet have the numbers from expected to tosend - 1, each at   *)
(* one place (InSequence).  The buffers of a ring, counted without end,     *)
(* are in four stretches, each with one owner (Stretches, Buffers).  And a  *)
(* function view says what the receiver will know when it has accepted all  *)
(* packets before the n-th: it starts with what the receiver knows, ends    *)
(* with what the sender takes it to know, and every packet on the way leads *)
(* from one value to the next (PacketsTell, Ends).                          *)
(***************************************************************************)
EXTENDS FastPath, SumTheorems

(***************************************************************************)
(* Types.                                                                  *)
(***************************************************************************)
Envelope == [env : Headers, credit : Nat]
Packets == [type : {"start", "cached", "address"}, id : Nat \ {0},
            header : Envelope, size : Sizes, msg : Nat]
Item == [via : {"queue", "ring"}, slot : Slot, pkt : Packets]
Write == [slot : Slot, msg : Nat]
Place == Packets \cup {None}

Connection ==
    [ send_ring : BOOLEAN, phead : Slot, ptail : Slot,
      busy : SUBSET Slot, shandle : [Slot -> Nat],
      recv_ring : BOOLEAN, p_recv : Slot, p_recv_tail : Slot,
      free : SUBSET Slot, rdma_credit : Nat,
      cached_outgoing : Envelope, cached_incoming : Envelope,
      tosend : Nat \ {0}, expected : Nat \ {0} ]

FPTypeOK ==
    /\ conn \in [Proc -> Connection]
    /\ wire \in [Proc -> Seq(Item)]
    /\ ring \in [Proc -> [Slot -> Place]]
    /\ cq \in [Proc -> Seq(Packets)]
    /\ completions \in [Proc -> Seq(Write)]
    /\ waiting \in [Proc -> Place]
    /\ unexpected \in [Proc -> SUBSET Slot]
    /\ lost \in [Proc -> Nat]
    /\ submitted \in [Proc \X Proc -> Nat]
    /\ received \in [Proc \X Proc -> Seq(Nat)]

(***************************************************************************)
(* The numbers of the packets of one direction: n is the next to send, e    *)
(* the next to accept, w the wire, and at the receiver g is the ring, k the *)
(* completion queue and x the packet held back.                             *)
(***************************************************************************)

\* m is the number of the first packet on the wire.
OnWire(m, w) == \A i \in 1 .. Len(w) : w[i].pkt.id = m + i - 1

\* What is at the receiver was sent and not accepted.
Arrived(e, m, g, k, x) ==
    /\ \A s \in Slot : g[s] # None => g[s].id \in e .. m - 1
    /\ \A i \in 1 .. Len(k) : k[i].id \in e .. m - 1
    /\ x # None => x.id \in e .. m - 1

\* It is at one place, and the queue is in order.
AtOnePlace(g, k, x) ==
    /\ \A s, t \in Slot : g[s] # None /\ g[s].id = g[t].id => s = t
    /\ \A i, j \in 1 .. Len(k) : i < j => k[i].id < k[j].id
    /\ x # None => \A i \in 1 .. Len(k) : x.id < k[i].id
    /\ \A s \in Slot : g[s] # None =>
           g[s].id # x.id /\ \A i \in 1 .. Len(k) : g[s].id # k[i].id

\* And none is missing.
NoneMissing(e, m, g, k, x) ==
    \A id \in e .. m - 1 : \/ \E s \in Slot : g[s].id = id
                           \/ \E i \in 1 .. Len(k) : k[i].id = id
                           \/ x.id = id

InSequence(n, e, w, g, k, x) ==
    LET m == n - Len(w)
    IN  /\ e <= m
        /\ OnWire(m, w) /\ Arrived(e, m, g, k, x)
        /\ AtOnePlace(g, k, x) /\ NoneMissing(e, m, g, k, x)

(***************************************************************************)
(* What the packets of one direction say.  view[id] is what the receiver    *)
(* knows when it has accepted the packets before id: how many messages were *)
(* handed over, whether it may write to the ring of the sender, the header  *)
(* that is left out, and the tail of that ring, counted without end.        *)
(***************************************************************************)
Knowledge == [count : Nat, ring : BOOLEAN, header : Envelope, tail : Nat]

Told(v, pkt, via) ==
    [count |-> IF pkt.type = "address" THEN v.count ELSE v.count + 1,
     ring |-> IF pkt.type = "address" THEN TRUE ELSE v.ring,
     header |-> IF pkt.type = "start" /\ pkt.size = "short" /\ via = "ring"
                THEN pkt.header ELSE v.header,
     tail |-> v.tail + pkt.header.credit]

\* A packet that is understood at its turn: the address of the ring comes
\* once, by the queue; a header is left out only on the ring.
Sound(v, pkt, via) ==
    /\ pkt.type = "address" => via = "queue" /\ ~v.ring
    /\ pkt.type # "address" => pkt.msg = v.count + 1
    /\ pkt.type = "cached" => via = "ring" /\ pkt.header = v.header

Tells(view, pkt, via) ==
    /\ Sound(view[pkt.id], pkt, via)
    /\ view[pkt.id + 1] = Told(view[pkt.id], pkt, via)

PacketsTell(view, w, g, k, x) ==
    /\ \A i \in 1 .. Len(w) : Tells(view, w[i].pkt, w[i].via)
    /\ \A s \in Slot : g[s] # None => Tells(view, g[s], "ring")
    /\ \A i \in 1 .. Len(k) : Tells(view, k[i], "queue")
    /\ x # None => Tells(view, x, "queue")

\* What the sender takes the receiver to know at the end, and what it knows.
Says(p) == [count |-> submitted[<<p, Peer(p)>>], ring |-> conn[p].recv_ring,
            header |-> conn[p].cached_outgoing]
Knows(q) == [count |-> Len(received[<<Peer(q), q>>]),
             ring |-> conn[q].send_ring, header |-> conn[q].cached_incoming]

End == [count : Nat, ring : BOOLEAN, header : Envelope]

SameView(v, r) == v.count = r.count /\ v.ring = r.ring /\ v.header = r.header

\* Nothing is told that the sender does not say, and limit bounds the tail.
Within(v, says, limit) ==
    /\ v.count <= says.count
    /\ v.ring => says.ring
    /\ v.tail <= limit

Ends(view, n, e, says, knows, limit) ==
    /\ SameView(view[n], says)
    /\ SameView(view[e], knows)
    /\ \A i \in e .. n : Within(view[i], says, limit)

(***************************************************************************)
(* The ring of one process, d its connection and c that of its peer, which  *)
(* writes into the ring.  Buffers are counted without end: those from       *)
(* U + 1 - N to R - 1 are polled and not given back, those from R to H - 1   *)
(* are written, those from H to T - 1 are free for the peer, and those from *)
(* T to U on the way back to it.  U itself is never used.                   *)
(***************************************************************************)
Slots(a, b) == {x % N : x \in a .. b - 1}

Stretches(c, d, H, T, R, U) ==
    /\ U < R + N /\ R <= H /\ H <= T /\ T <= U
    /\ c.send_ring => c.phead = H % N /\ c.ptail = T % N
    /\ ~c.send_ring => H = 0 /\ T = N - 1
    /\ d.recv_ring => d.p_recv = R % N /\ d.p_recv_tail = U % N
    /\ ~d.recv_ring => R = 0 /\ U = N - 1

\* What AbsorbCredits makes of the tail of the ring.
Absorbed(t, credit) == IF t + credit >= N THEN t + credit - N ELSE t + credit

\* The indices of the writes to the ring.
Writes(w) == {i \in 1 .. Len(w) : w[i].via = "ring"}

\* g is the ring, w the wire from the peer, f and u the buffers that wait for
\* their turn to be given back and those whose message waits for a receive.
Buffers(g, w, f, u, H, R, U) ==
    /\ \A s \in Slot : g[s] # None => s \in Slots(R, H)
    /\ \A i \in Writes(w) : w[i].slot \in Slots(R, H) /\ g[w[i].slot] = None
    /\ \A i, j \in Writes(w) : w[i].slot = w[j].slot => i = j
    /\ f \subseteq Slots(U + 1 - N, R)
    /\ u \subseteq Slots(U + 1 - N, R)
    /\ f \cap u = {}

\* Direction p to its peer, and the ring of p that the peer writes into.
Account(p, view, H, R, U) ==
    LET q == Peer(p)
    IN  /\ PacketsTell(view, wire[p], ring[q], cq[q], waiting[q])
        /\ Ends(view, conn[p].tosend, conn[q].expected, Says(p), Knows(q),
                U - conn[p].rdma_credit)
        /\ Stretches(conn[q], conn[p], H, view[conn[q].expected].tail, R, U)
        /\ Buffers(ring[p], wire[q], conn[p].free, unexpected[p], H, R, U)

(***************************************************************************)
(* The buffers a process sends from, c its connection, w its wire and done  *)
(* the writes that were placed and not polled: each is busy, for one write. *)
(***************************************************************************)
InUse(c, w, done) ==
    /\ \A i \in Writes(w) : /\ w[i].slot \in c.busy
                            /\ c.shandle[w[i].slot] = w[i].pkt.msg
    /\ \A i \in 1 .. Len(done) : /\ done[i].slot \in c.busy
                                 /\ c.shandle[done[i].slot] = done[i].msg
    /\ \A i, j \in Writes(w) : w[i].slot = w[j].slot => i = j
    /\ \A i, j \in 1 .. Len(done) : done[i].slot = done[j].slot => i = j
    /\ \A i \in Writes(w), j \in 1 .. Len(done) : w[i].slot # done[j].slot

(***************************************************************************)
(* The inductive invariant.                                                *)
(***************************************************************************)
InTurn(p) ==
    InSequence(conn[p].tosend, conn[Peer(p)].expected,
               wire[p], ring[Peer(p)], cq[Peer(p)], waiting[Peer(p)])

Accounted(p) ==
    \E view \in [Nat -> Knowledge] : \E H, R, U \in Nat :
        Account(p, view, H, R, U)

HandedInOrder ==
    \A pq \in Proc \X Proc :
        \A i \in 1 .. Len(received[pq]) : received[pq][i] = i

IInv ==
    /\ FPTypeOK
    /\ \A p \in Proc : /\ InTurn(p) /\ Accounted(p)
                       /\ InUse(conn[p], wire[p], completions[p])
    /\ HandedInOrder

-----------------------------------------------------------------------------
(* Counting around the ring.                                               *)

LEMMA LargestExists ==
    ASSUME NEW n \in Nat, NEW S \in SUBSET (0 .. n), S # {}
    PROVE  Max(S) \in S
  <1> DEFINE Above(k) == (k + 1) .. n
  <1> DEFINE R == StrictSubsetOrdering(0 .. n)
  <1> DEFINE F == FiniteSubsetsOf(0 .. n)
  <1> DEFINE T == {Above(k) : k \in S}
  <1>1. IsWellFoundedOn(R, F)
    BY FS_StrictSubsetOrderingWellFounded
  <1>2. T \subseteq F
    <2>1. \A k \in S : IsFiniteSet(Above(k)) /\ Above(k) \subseteq 0 .. n
      BY FS_Interval
    <2>2. QED
      BY <2>1 DEF FiniteSubsetsOf
  <1>3. T # {}
    OBVIOUS
  <1>4. \E x \in T : \A y \in T : ~(<<y, x>> \in R)
    <2> HIDE DEF R, F, T
    <2>1. QED BY <1>1, <1>2, <1>3, WFMin
  <1>5. PICK x \in T : \A y \in T : ~(<<y, x>> \in R)
    BY <1>4
  <1>6. PICK m \in S : x = Above(m)
    OBVIOUS
  <1>7. \A k \in S : m >= k
    <2> SUFFICES ASSUME NEW k \in S, k > m PROVE FALSE
      OBVIOUS
    <2>1. Above(k) \in T /\ ~(<<Above(k), x>> \in R)
      BY <1>5
    <2>2. Above(k) \subseteq Above(m) /\ Above(k) # Above(m)
      <3>1. k \in Above(m) /\ k \notin Above(k)
        OBVIOUS
      <3>2. QED
        BY <3>1
    <2>3. Above(k) \in SUBSET (0 .. n) /\ Above(m) \in SUBSET (0 .. n)
      OBVIOUS
    <2>4. QED
      BY <1>6, <2>1, <2>2, <2>3 DEF StrictSubsetOrdering
  <1>8. QED
    BY <1>7 DEF Max

LEMMA SlotOf ==
    ASSUME NEW x \in Int
    PROVE  x % N \in Slot /\ x \div N \in Int /\ x = N * (x \div N) + (x % N)
  BY RingAssumption DEF Slot

LEMMA Multiples ==
    ASSUME NEW a \in Int, NEW b \in Int, a < b
    PROVE  N * b >= N * a + N /\ N * a \in Int /\ N * b \in Int
  <1>1. PICK d \in Nat : b = a + 1 + d
    <2>1. b - a - 1 \in Nat /\ b = a + 1 + (b - a - 1)
      OBVIOUS
    <2>2. QED
      BY <2>1
  <1>2. N * b = N * a + N + N * d
    BY <1>1, RingAssumption
  <1>3. N * d \in Nat /\ N * a \in Int /\ N \in Int
    BY RingAssumption
  <1>4. QED
    BY <1>2, <1>3

LEMMA SameSlot ==
    ASSUME NEW x \in Int, NEW y \in Int, x % N = y % N, x < y
    PROVE  y >= x + N
  <1> DEFINE a == x \div N
  <1> DEFINE b == y \div N
  <1> DEFINE s == x % N
  <1>1. a \in Int /\ s \in Slot /\ x = N * a + s
    BY SlotOf
  <1>2. b \in Int /\ y = N * b + s
    BY SlotOf
  <1> HIDE DEF a, b, s
  <1>3. N * a \in Int /\ N * b \in Int /\ s \in Int
    BY <1>1, <1>2, RingAssumption DEF Slot
  <1>4. ~(b < a)
    <2>1. b < a => N * a >= N * b + N
      BY <1>1, <1>2, Multiples
    <2>2. QED
      BY <1>1, <1>2, <1>3, <2>1, RingAssumption
  <1>5. a # b
    BY <1>1, <1>2, <1>3
  <1>6. N * b >= N * a + N
    BY <1>1, <1>2, <1>4, <1>5, Multiples
  <1>7. QED
    BY <1>1, <1>2, <1>3, <1>6, RingAssumption

LEMMA OneSlot ==
    ASSUME NEW x \in Int, NEW k \in Int, NEW s \in Slot, x = N * k + s
    PROVE  x % N = s
  <1> DEFINE m == x \div N
  <1>1. m \in Int /\ x % N \in Slot /\ x = N * m + (x % N)
    BY SlotOf
  <1> HIDE DEF m
  <1>2. ~(k < m)
    <2>1. k < m => N * m >= N * k + N
      BY <1>1, Multiples
    <2>2. QED
      BY <1>1, <2>1, RingAssumption DEF Slot
  <1>3. ~(m < k)
    <2>1. m < k => N * k >= N * m + N
      BY <1>1, Multiples
    <2>2. QED
      BY <1>1, <2>1, RingAssumption DEF Slot
  <1>4. m = k
    BY <1>1, <1>2, <1>3
  <1>5. N * k \in Int
    BY RingAssumption
  <1>6. QED
    BY <1>1, <1>4, <1>5, RingAssumption DEF Slot

LEMMA AfterSlot ==
    ASSUME NEW x \in Int, NEW k \in Int
    PROVE  After(x % N, k) = (x + k) % N
  <1> DEFINE a == x \div N
  <1> DEFINE y == (x % N) + k
  <1> DEFINE b == y \div N
  <1>1. a \in Int /\ x % N \in Slot /\ x = N * a + (x % N)
    BY SlotOf
  <1>2. y \in Int
    BY <1>1, RingAssumption DEF Slot
  <1>3. b \in Int /\ y % N \in Slot /\ y = N * b + (y % N)
    BY <1>2, SlotOf
  <1> DEFINE s == y % N
  <1>4. x + k = N * (a + b) + s
    <2>1. N * (a + b) = N * a + N * b
      BY <1>1, <1>3, RingAssumption
    <2>2. N * a \in Int /\ N * b \in Int /\ N * (a + b) \in Int
      BY <1>1, <1>3, RingAssumption
    <2>3. x % N \in Int /\ s \in Int
      BY <1>1, <1>3, RingAssumption DEF Slot
    <2>4. x + k = N * a + y
      <3> HIDE DEF a
      <3>1. QED BY <1>1, <2>2, <2>3
    <2> HIDE DEF a, b, s
    <2>5. y = N * b + s
      BY <1>3 DEF s
    <2> HIDE DEF y
    <2>6. QED
      BY <2>1, <2>2, <2>3, <2>4, <2>5
  <1>5. s \in Slot /\ a + b \in Int /\ x + k \in Int
    BY <1>1, <1>3
  <1>6. (x + k) % N = s
    <2> HIDE DEF a, b, s
    <2>1. QED
      BY <1>4, <1>5, OneSlot
  <1>7. QED
    BY <1>6 DEF After

LEMMA WrapSlot ==
    ASSUME NEW x \in Int, NEW c \in 0 .. N - 1
    PROVE  (x + c) % N = IF (x % N) + c >= N THEN (x % N) + c - N ELSE (x % N) + c
  <1> DEFINE a == x \div N
  <1> DEFINE r == x % N
  <1>1. a \in Int /\ r \in Slot /\ x = N * a + r
    BY SlotOf
  <1> HIDE DEF a, r
  <1>2. CASE r + c >= N
    <2>1. N * (a + 1) = N * a + N /\ N * a \in Int
      BY <1>1, RingAssumption
    <2>2. x + c = N * (a + 1) + (r + c - N) /\ r + c - N \in Slot
      BY <1>1, <1>2, <2>1, RingAssumption DEF Slot
    <2>3. (x + c) % N = r + c - N
      BY <1>1, <2>2, OneSlot
    <2>4. QED
      BY <1>2, <2>3 DEF r
  <1>3. CASE ~(r + c >= N)
    <2>1. N * a \in Int
      BY <1>1, RingAssumption
    <2>2. x + c = N * a + (r + c) /\ r + c \in Slot
      BY <1>1, <1>3, <2>1, RingAssumption DEF Slot
    <2>3. (x + c) % N = r + c
      BY <1>1, <2>2, OneSlot
    <2>4. QED
      BY <1>3, <2>3 DEF r
  <1>4. QED
    BY <1>2, <1>3
-----------------------------------------------------------------------------
(* Sequences, packets and processes.                                       *)

LEMMA TailFacts ==
    ASSUME NEW S, NEW w \in Seq(S), w # << >>
    PROVE  /\ Tail(w) \in Seq(S) /\ Len(Tail(w)) = Len(w) - 1
           /\ \A i \in 1 .. Len(Tail(w)) : Tail(w)[i] = w[i + 1]
           /\ Head(w) = w[1] /\ Head(w) \in S /\ 1 \in 1 .. Len(w)
           /\ \A i \in 1 .. Len(Tail(w)) : i + 1 \in 1 .. Len(w)
  OBVIOUS

LEMMA AppendFacts ==
    ASSUME NEW S, NEW w \in Seq(S), NEW x \in S
    PROVE  /\ Append(w, x) \in Seq(S) /\ Len(Append(w, x)) = Len(w) + 1
           /\ \A i \in 1 .. Len(w) : Append(w, x)[i] = w[i]
           /\ Append(w, x)[Len(w) + 1] = x
  OBVIOUS

LEMMA PlaceFacts ==
    /\ None \in Place /\ None.id = 0
    /\ \A x \in Place : x # None <=> x \in Packets
    /\ \A x \in Packets : x.id \in Nat \ {0} /\ x # None /\ x \in Place
    /\ \A x \in Place : x.id \in Nat
  <1>1. None \notin Packets
    BY DEF None, Packets
  <1>2. QED
    BY <1>1 DEF Place, None, Packets

LEMMA PeerFacts ==
    ASSUME NEW p \in Proc
    PROVE  /\ Peer(p) \in Proc /\ Peer(p) # p /\ Peer(Peer(p)) = p
           /\ \A r \in Proc : r = p \/ r = Peer(p)
  BY DEF Proc, Peer

-----------------------------------------------------------------------------
(* The numbers of the packets: what posting, placing, holding back and      *)
(* accepting a packet does to them.                                        *)

LEMMA PostInSequence ==
    ASSUME NEW n \in Nat, NEW e \in Nat \ {0}, NEW w \in Seq(Item),
           NEW g \in [Slot -> Place], NEW k \in Seq(Packets), NEW x \in Place,
           NEW item \in Item, item.pkt.id = n,
           InSequence(n, e, w, g, k, x)
    PROVE  InSequence(n + 1, e, Append(w, item), g, k, x)
  <1> DEFINE v == Append(w, item)
  <1>1. /\ v \in Seq(Item) /\ Len(v) = Len(w) + 1
        /\ \A i \in 1 .. Len(w) : v[i] = w[i]
        /\ v[Len(w) + 1] = item
    BY AppendFacts
  <1> HIDE DEF v
  <1>2. Len(w) \in Nat
    OBVIOUS
  <1>3. n + 1 - Len(v) = n - Len(w)
    BY <1>1, <1>2
  <1>4. OnWire(n - Len(w), v)
    <2>1. OnWire(n - Len(w), w)
      BY DEF InSequence
    <2>2. n = (n - Len(w)) + (Len(w) + 1) - 1
      BY <1>2
    <2>3. \A i \in 1 .. Len(v) : i \in 1 .. Len(w) \/ i = Len(w) + 1
      BY <1>1, <1>2
    <2>4. QED
      BY <1>1, <2>1, <2>2, <2>3 DEF OnWire
  <1>5. QED
    BY <1>3, <1>4 DEF InSequence, v

\* Placing a packet makes the first number on the wire one more.
LEMMA WireMoves ==
    ASSUME NEW n \in Nat, NEW w \in Seq(Item), w # << >>,
           OnWire(n - Len(w), w)
    PROVE  /\ OnWire(n - Len(Tail(w)), Tail(w))
           /\ n - Len(Tail(w)) = n - Len(w) + 1
           /\ Head(w).pkt.id = n - Len(w)
           /\ Head(w).pkt \in Packets
  <1> DEFINE v == Tail(w)
  <1>1. /\ v \in Seq(Item) /\ Len(v) = Len(w) - 1
        /\ \A i \in 1 .. Len(v) : v[i] = w[i + 1] /\ i + 1 \in 1 .. Len(w)
        /\ Head(w) = w[1] /\ Head(w) \in Item /\ 1 \in 1 .. Len(w)
    BY TailFacts
  <1> HIDE DEF v
  <1>2. Len(w) \in Nat /\ Len(v) \in Nat
    BY <1>1
  <1>3. n - Len(v) = n - Len(w) + 1
    BY <1>1, <1>2
  <1>4. OnWire(n - Len(v), v)
    BY <1>1, <1>2, <1>3 DEF OnWire
  <1>5. Head(w).pkt.id = n - Len(w)
    BY <1>1, <1>2 DEF OnWire
  <1>6. QED
    BY <1>1, <1>3, <1>4, <1>5 DEF v, Item

LEMMA LandRingInSequence ==
    ASSUME NEW n \in Nat, NEW e \in Nat \ {0}, NEW w \in Seq(Item),
           NEW g \in [Slot -> Place], NEW k \in Seq(Packets), NEW x \in Place,
           InSequence(n, e, w, g, k, x), w # << >>,
           NEW slot \in Slot, g[slot] = None
    PROVE  InSequence(n, e, Tail(w), [g EXCEPT ![slot] = Head(w).pkt], k, x)
  <1> DEFINE m == n - Len(w)
  <1> DEFINE pkt == Head(w).pkt
  <1> DEFINE h == [g EXCEPT ![slot] = pkt]
  <1>1. /\ OnWire(n - Len(Tail(w)), Tail(w)) /\ n - Len(Tail(w)) = m + 1
        /\ pkt.id = m /\ pkt \in Packets
    BY WireMoves DEF InSequence
  <1>2. m \in Int /\ e <= m
    BY DEF InSequence
  <1>3. /\ Arrived(e, m, g, k, x) /\ AtOnePlace(g, k, x)
        /\ NoneMissing(e, m, g, k, x)
    BY DEF InSequence
  <1> HIDE DEF m, pkt
  <1>4. /\ h[slot] = pkt /\ \A s \in Slot : s # slot => h[s] = g[s]
        /\ \A s \in Slot : h[s] \in Place
    BY <1>1, PlaceFacts
  <1> HIDE DEF h
  <1>5. Arrived(e, m + 1, h, k, x)
    <2>1. m \in e .. (m + 1) - 1
      BY <1>2
    <2>2. \A id \in e .. m - 1 : id \in e .. (m + 1) - 1
      BY <1>2
    <2>3. QED
      BY <1>1, <1>3, <1>4, <2>1, <2>2 DEF Arrived
  <1>6. AtOnePlace(h, k, x)
    <2>1. \A s \in Slot : g[s] # None => g[s].id # m
      BY <1>2, <1>3 DEF Arrived
    <2>2. \A i \in 1 .. Len(k) : k[i].id # m
      BY <1>2, <1>3 DEF Arrived
    <2>3. x.id # m
      BY <1>1, <1>2, <1>3, PlaceFacts DEF Arrived
    <2>4. \A s \in Slot : g[s].id # m
      BY <1>1, <2>1, PlaceFacts
    <2>5. \A s, t \in Slot : h[s] # None /\ h[s].id = h[t].id => s = t
      BY <1>1, <1>3, <1>4, <2>4 DEF AtOnePlace
    <2>6. \A s \in Slot : h[s] # None =>
              h[s].id # x.id /\ \A i \in 1 .. Len(k) : h[s].id # k[i].id
      BY <1>1, <1>3, <1>4, <2>2, <2>3 DEF AtOnePlace
    <2>7. QED
      BY <1>3, <2>5, <2>6 DEF AtOnePlace
  <1>7. NoneMissing(e, m + 1, h, k, x)
    <2>1. SUFFICES ASSUME NEW id \in e .. m
                   PROVE  \/ \E s \in Slot : h[s].id = id
                          \/ \E i \in 1 .. Len(k) : k[i].id = id
                          \/ x.id = id
      <3>1. (m + 1) - 1 = m
        BY <1>2
      <3>2. QED
        BY <3>1 DEF NoneMissing
    <2>2. CASE id = m
      BY <1>1, <1>4, <2>2
    <2>3. CASE id # m
      <3>1. id \in e .. m - 1
        BY <1>2, <2>3
      <3>2. ASSUME NEW s \in Slot, g[s].id = id
            PROVE  h[s].id = id
        <4>1. s # slot
          <5>1. id # 0
            OBVIOUS
          <5>2. QED
            BY <3>2, <5>1, PlaceFacts
        <4>2. QED
          BY <1>4, <3>2, <4>1
      <3>3. QED
        BY <1>3, <3>1, <3>2 DEF NoneMissing
    <2>4. QED
      BY <2>2, <2>3
  <1>8. e <= m + 1
    BY <1>2
  <1>9. InSequence(n, e, Tail(w), h, k, x)
    BY <1>1, <1>5, <1>6, <1>7, <1>8 DEF InSequence
  <1>10. QED
    BY <1>9 DEF h, pkt

LEMMA LandQueueInSequence ==
    ASSUME NEW n \in Nat, NEW e \in Nat \ {0}, NEW w \in Seq(Item),
           NEW g \in [Slot -> Place], NEW k \in Seq(Packets), NEW x \in Place,
           InSequence(n, e, w, g, k, x), w # << >>
    PROVE  InSequence(n, e, Tail(w), g, Append(k, Head(w).pkt), x)
  <1> DEFINE m == n - Len(w)
  <1> DEFINE pkt == Head(w).pkt
  <1> DEFINE l == Append(k, pkt)
  <1>1. /\ OnWire(n - Len(Tail(w)), Tail(w)) /\ n - Len(Tail(w)) = m + 1
        /\ pkt.id = m /\ pkt \in Packets
    BY WireMoves DEF InSequence
  <1>2. m \in Int /\ e <= m
    BY DEF InSequence
  <1>3. /\ Arrived(e, m, g, k, x) /\ AtOnePlace(g, k, x)
        /\ NoneMissing(e, m, g, k, x)
    BY DEF InSequence
  <1> HIDE DEF m, pkt
  <1>4. /\ l \in Seq(Packets) /\ Len(l) = Len(k) + 1
        /\ \A i \in 1 .. Len(k) : l[i] = k[i]
        /\ l[Len(k) + 1] = pkt
    BY <1>1, AppendFacts
  <1> HIDE DEF l
  <1>5. Len(k) \in Nat
    OBVIOUS
  <1>6. /\ \A i \in 1 .. Len(l) : i \in 1 .. Len(k) \/ i = Len(k) + 1
        /\ \A i \in 1 .. Len(k) : i \in 1 .. Len(l)
        /\ Len(k) + 1 \in 1 .. Len(l)
    BY <1>4, <1>5
  <1>7. Arrived(e, m + 1, g, l, x)
    <2>1. m \in e .. (m + 1) - 1
      BY <1>2
    <2>2. \A id \in e .. m - 1 : id \in e .. (m + 1) - 1
      BY <1>2
    <2>3. QED
      BY <1>1, <1>3, <1>4, <1>6, <2>1, <2>2 DEF Arrived
  <1>8. AtOnePlace(g, l, x)
    <2>1. \A s \in Slot : g[s] # None => g[s].id < m
      BY <1>2, <1>3 DEF Arrived
    <2>2. \A i \in 1 .. Len(k) : k[i].id < m
      BY <1>2, <1>3 DEF Arrived
    <2>3. x # None => x.id < m
      BY <1>2, <1>3 DEF Arrived
    <2>4. \A i, j \in 1 .. Len(l) : i < j => l[i].id < l[j].id
      <3>1. SUFFICES ASSUME NEW i \in 1 .. Len(l), NEW j \in 1 .. Len(l), i < j
                     PROVE  l[i].id < l[j].id
        OBVIOUS
      <3>2. i \in 1 .. Len(k)
        BY <1>4, <1>5, <3>1
      <3>3. QED
        BY <1>1, <1>3, <1>4, <1>6, <2>2, <3>1, <3>2 DEF AtOnePlace
    <2>5. x # None => \A i \in 1 .. Len(l) : x.id < l[i].id
      BY <1>1, <1>3, <1>4, <1>6, <2>3 DEF AtOnePlace
    <2>6. \A s \in Slot : g[s] # None =>
              g[s].id # x.id /\ \A i \in 1 .. Len(l) : g[s].id # l[i].id
      BY <1>1, <1>2, <1>3, <1>4, <1>6, <2>1 DEF AtOnePlace
    <2>7. QED
      BY <1>3, <2>4, <2>5, <2>6 DEF AtOnePlace
  <1>9. NoneMissing(e, m + 1, g, l, x)
    <2>1. SUFFICES ASSUME NEW id \in e .. m
                   PROVE  \/ \E s \in Slot : g[s].id = id
                          \/ \E i \in 1 .. Len(l) : l[i].id = id
                          \/ x.id = id
      <3>1. (m + 1) - 1 = m
        BY <1>2
      <3>2. QED
        BY <3>1 DEF NoneMissing
    <2>2. CASE id = m
      BY <1>1, <1>4, <1>6, <2>2
    <2>3. CASE id # m
      <3>1. id \in e .. m - 1
        BY <1>2, <2>3
      <3>2. QED
        BY <1>3, <1>4, <1>6, <3>1 DEF NoneMissing
    <2>4. QED
      BY <2>2, <2>3
  <1>10. e <= m + 1
    BY <1>2
  <1>11. InSequence(n, e, Tail(w), g, l, x)
    BY <1>1, <1>7, <1>8, <1>9, <1>10 DEF InSequence
  <1>12. QED
    BY <1>11 DEF l, pkt

\* A packet is accepted from the ring.
LEMMA RingAccepted ==
    ASSUME NEW n \in Nat, NEW e \in Nat \ {0}, NEW w \in Seq(Item),
           NEW g \in [Slot -> Place], NEW k \in Seq(Packets), NEW x \in Place,
           InSequence(n, e, w, g, k, x),
           NEW slot \in Slot, g[slot].id = e
    PROVE  InSequence(n, e + 1, w, [g EXCEPT ![slot] = None], k, x)
  <1> DEFINE m == n - Len(w)
  <1> DEFINE h == [g EXCEPT ![slot] = None]
  <1>1. m \in Int /\ OnWire(m, w) /\ n \in Int
    BY DEF InSequence
  <1>2. /\ Arrived(e, m, g, k, x) /\ AtOnePlace(g, k, x)
        /\ NoneMissing(e, m, g, k, x)
    BY DEF InSequence
  <1> HIDE DEF m
  <1>3. g[slot] # None
    BY PlaceFacts
  <1>4. e + 1 <= m
    BY <1>1, <1>2, <1>3 DEF Arrived
  <1>5. h[slot] = None /\ \A s \in Slot : s # slot => h[s] = g[s]
    OBVIOUS
  <1> HIDE DEF h
  <1>6. Arrived(e + 1, m, h, k, x)
    <2>1. \A id \in e .. m - 1 : id # e => id \in e + 1 .. m - 1
      BY <1>1
    <2>2. \A s \in Slot : h[s] # None => h[s].id \in e .. m - 1 /\ h[s].id # e
      BY <1>2, <1>3, <1>5 DEF Arrived, AtOnePlace
    <2>3. \A i \in 1 .. Len(k) : k[i].id \in e .. m - 1 /\ k[i].id # e
      BY <1>2, <1>3 DEF Arrived, AtOnePlace
    <2>4. x # None => x.id \in e .. m - 1 /\ x.id # e
      BY <1>2, <1>3 DEF Arrived, AtOnePlace
    <2>5. QED
      BY <2>1, <2>2, <2>3, <2>4 DEF Arrived
  <1>7. AtOnePlace(h, k, x)
    BY <1>2, <1>5, PlaceFacts DEF AtOnePlace
  <1>8. NoneMissing(e + 1, m, h, k, x)
    <2>1. \A id \in e + 1 .. m - 1 : id \in e .. m - 1 /\ id # e
      BY <1>1
    <2>2. \A s \in Slot : g[s].id # e => h[s].id = g[s].id
      BY <1>5
    <2>3. QED
      BY <1>2, <2>1, <2>2 DEF NoneMissing
  <1>9. InSequence(n, e + 1, w, h, k, x)
    BY <1>1, <1>4, <1>6, <1>7, <1>8 DEF InSequence, m
  <1>10. QED
    BY <1>9 DEF h

\* The first packet of the queue is held back, if only to be accepted.
LEMMA HeldInSequence ==
    ASSUME NEW n \in Nat, NEW e \in Nat \ {0}, NEW w \in Seq(Item),
           NEW g \in [Slot -> Place], NEW k \in Seq(Packets), k # << >>,
           InSequence(n, e, w, g, k, None)
    PROVE  InSequence(n, e, w, g, Tail(k), Head(k))
  <1> DEFINE m == n - Len(w)
  <1> DEFINE l == Tail(k)
  <1> DEFINE y == Head(k)
  <1>1. /\ l \in Seq(Packets) /\ Len(l) = Len(k) - 1
        /\ \A i \in 1 .. Len(l) : l[i] = k[i + 1] /\ i + 1 \in 1 .. Len(k)
        /\ y = k[1] /\ y \in Packets /\ 1 \in 1 .. Len(k)
    BY TailFacts
  <1>2. e <= m /\ OnWire(m, w)
    BY DEF InSequence
  <1>3. /\ Arrived(e, m, g, k, None) /\ AtOnePlace(g, k, None)
        /\ NoneMissing(e, m, g, k, None)
    BY DEF InSequence
  <1> HIDE DEF m, l, y
  <1>4. Arrived(e, m, g, l, y)
    BY <1>1, <1>3 DEF Arrived
  <1>5. AtOnePlace(g, l, y)
    <2>1. \A i, j \in 1 .. Len(l) : i < j => l[i].id < l[j].id
      <3>1. \A i, j \in 1 .. Len(l) : i < j => i + 1 < j + 1
        OBVIOUS
      <3>2. QED
        BY <1>1, <1>3, <3>1 DEF AtOnePlace
    <2>2. \A i \in 1 .. Len(l) : y.id < l[i].id
      <3>1. \A i \in 1 .. Len(l) : 1 < i + 1
        OBVIOUS
      <3>2. QED
        BY <1>1, <1>3, <3>1 DEF AtOnePlace
    <2>3. \A s \in Slot : g[s] # None =>
              g[s].id # y.id /\ \A i \in 1 .. Len(l) : g[s].id # l[i].id
      BY <1>1, <1>3 DEF AtOnePlace
    <2>4. \A s, t \in Slot : g[s] # None /\ g[s].id = g[t].id => s = t
      BY <1>3 DEF AtOnePlace
    <2>5. QED
      BY <2>1, <2>2, <2>3, <2>4 DEF AtOnePlace
  <1>6. NoneMissing(e, m, g, l, y)
    <2>1. SUFFICES ASSUME NEW id \in e .. m - 1
                   PROVE  \/ \E s \in Slot : g[s].id = id
                          \/ \E i \in 1 .. Len(l) : l[i].id = id
                          \/ y.id = id
      BY DEF NoneMissing
    <2>2. None.id # id
      BY PlaceFacts
    <2>3. \/ \E s \in Slot : g[s].id = id
          \/ \E i \in 1 .. Len(k) : k[i].id = id
      BY <1>3, <2>2 DEF NoneMissing
    <2>4. ASSUME NEW i \in 1 .. Len(k), k[i].id = id, i # 1
          PROVE  \E j \in 1 .. Len(l) : l[j].id = id
      <3>1. i - 1 \in 1 .. Len(l) /\ (i - 1) + 1 = i
        BY <1>1, <2>4
      <3>2. QED
        BY <1>1, <2>4, <3>1
    <2>5. QED
      BY <1>1, <2>3, <2>4
  <1>7. InSequence(n, e, w, g, l, y)
    BY <1>2, <1>4, <1>5, <1>6 DEF InSequence, m
  <1>8. QED
    BY <1>7 DEF l, y

\* The packet that was held back is accepted.
LEMMA HeldAccepted ==
    ASSUME NEW n \in Nat, NEW e \in Nat \ {0}, NEW w \in Seq(Item),
           NEW g \in [Slot -> Place], NEW k \in Seq(Packets), NEW x \in Place,
           InSequence(n, e, w, g, k, x), x.id = e
    PROVE  InSequence(n, e + 1, w, g, k, None)
  <1> DEFINE m == n - Len(w)
  <1>1. m \in Int /\ OnWire(m, w)
    BY DEF InSequence
  <1>2. /\ Arrived(e, m, g, k, x) /\ AtOnePlace(g, k, x)
        /\ NoneMissing(e, m, g, k, x)
    BY DEF InSequence
  <1> HIDE DEF m
  <1>3. x # None
    BY PlaceFacts
  <1>4. e + 1 <= m
    BY <1>1, <1>2, <1>3 DEF Arrived
  <1>5. Arrived(e + 1, m, g, k, None)
    <2>1. \A id \in e .. m - 1 : id # e => id \in e + 1 .. m - 1
      BY <1>1
    <2>2. \A s \in Slot : g[s] # None => g[s].id \in e .. m - 1 /\ g[s].id # e
      BY <1>2, <1>3 DEF Arrived, AtOnePlace
    <2>3. \A i \in 1 .. Len(k) : k[i].id \in e .. m - 1 /\ k[i].id # e
      BY <1>2, <1>3 DEF Arrived, AtOnePlace
    <2>4. QED
      BY <2>1, <2>2, <2>3 DEF Arrived
  <1>6. AtOnePlace(g, k, None)
    BY <1>2, PlaceFacts DEF AtOnePlace
  <1>7. NoneMissing(e + 1, m, g, k, None)
    <2>1. \A id \in e + 1 .. m - 1 : id \in e .. m - 1 /\ id # e
      BY <1>1
    <2>2. QED
      BY <1>2, <2>1 DEF NoneMissing
  <1>8. QED
    BY <1>1, <1>4, <1>5, <1>6, <1>7 DEF InSequence, m

\* What is before a packet that is held back has come by the ring.
LEMMA HeldForTheRing ==
    ASSUME NEW n \in Nat, NEW e \in Nat \ {0}, NEW w \in Seq(Item),
           NEW g \in [Slot -> Place], NEW k \in Seq(Packets),
           NEW x \in Packets, InSequence(n, e, w, g, k, x)
    PROVE  \A id \in e .. x.id - 1 : \E s \in Slot : g[s].id = id
  <1> DEFINE m == n - Len(w)
  <1>1. m \in Int
    OBVIOUS
  <1>2. /\ Arrived(e, m, g, k, x) /\ AtOnePlace(g, k, x)
        /\ NoneMissing(e, m, g, k, x)
    BY DEF InSequence
  <1> HIDE DEF m
  <1>3. x # None /\ x.id \in e .. m - 1
    BY <1>2, PlaceFacts DEF Arrived
  <1>4. TAKE id \in e .. x.id - 1
  <1>5. id \in e .. m - 1 /\ id < x.id
    BY <1>1, <1>3
  <1>6. \A i \in 1 .. Len(k) : k[i].id # id
    <2>1. \A i \in 1 .. Len(k) : x.id < k[i].id /\ k[i].id \in e .. m - 1
      BY <1>2, <1>3 DEF AtOnePlace, Arrived
    <2>2. QED
      BY <1>1, <1>3, <1>5, <2>1
  <1>7. QED
    BY <1>2, <1>3, <1>5, <1>6 DEF NoneMissing

-----------------------------------------------------------------------------
(* What the packets say.                                                   *)

LEMMA ToldType ==
    ASSUME NEW v \in Knowledge, NEW pkt \in Packets, NEW via
    PROVE  /\ Told(v, pkt, via) \in Knowledge
           /\ Told(v, pkt, via).count \in {v.count, v.count + 1}
           /\ v.ring => Told(v, pkt, via).ring
           /\ Told(v, pkt, via).tail = v.tail + pkt.header.credit
           /\ pkt.header.credit \in Nat
  <1>1. pkt.header \in Envelope /\ pkt.header.credit \in Nat
    BY DEF Packets, Envelope
  <1>2. /\ v.count \in Nat /\ v.ring \in BOOLEAN /\ v.header \in Envelope
        /\ v.tail \in Nat
    BY DEF Knowledge
  <1>3. Told(v, pkt, via) \in Knowledge
    <2> DEFINE c == IF pkt.type = "address" THEN v.count ELSE v.count + 1
               r == IF pkt.type = "address" THEN TRUE ELSE v.ring
               h == IF pkt.type = "start" /\ pkt.size = "short" /\ via = "ring"
                    THEN pkt.header ELSE v.header
               t == v.tail + pkt.header.credit
    <2>1. c \in Nat /\ h \in Envelope /\ t \in Nat
      BY <1>1, <1>2
    <2>2. r \in BOOLEAN
      BY <1>2
    <2> HIDE DEF c, r, h, t
    <2>3. [count |-> c, ring |-> r, header |-> h, tail |-> t] \in Knowledge
      BY <2>1, <2>2 DEF Knowledge
    <2>4. QED
      BY <2>3 DEF Told, c, r, h, t
  <1>4. QED
    BY <1>1, <1>3 DEF Told

\* All packets that were not accepted have numbers below n.
LEMMA NumbersBelow ==
    ASSUME NEW n \in Nat, NEW e \in Nat \ {0}, NEW w \in Seq(Item),
           NEW g \in [Slot -> Place], NEW k \in Seq(Packets), NEW x \in Place,
           InSequence(n, e, w, g, k, x)
    PROVE  /\ \A i \in 1 .. Len(w) : w[i].pkt.id \in e .. n - 1
           /\ \A s \in Slot : g[s] # None => g[s].id \in e .. n - 1
           /\ \A i \in 1 .. Len(k) : k[i].id \in e .. n - 1
           /\ x # None => x.id \in e .. n - 1
           /\ e <= n
  <1> DEFINE m == n - Len(w)
  <1>1. m \in Int /\ Len(w) \in Nat /\ m <= n /\ m = n - Len(w)
    OBVIOUS
  <1>2. Arrived(e, m, g, k, x) /\ OnWire(m, w) /\ e <= m
    BY DEF InSequence
  <1> HIDE DEF m
  <1>3. \A id \in e .. m - 1 : id \in e .. n - 1
    BY <1>1
  <1>4. \A i \in 1 .. Len(w) : w[i].pkt.id \in e .. n - 1
    <2>1. \A i \in 1 .. Len(w) : m + i - 1 \in e .. n - 1
      BY <1>1, <1>2
    <2>2. QED
      BY <1>2, <2>1 DEF OnWire
  <1>5. QED
    BY <1>1, <1>2, <1>3, <1>4 DEF Arrived

\* What the receiver will know stays, and a packet of number n adds to it.
Extends(view, later, n, e, item) ==
    /\ later \in [Nat -> Knowledge]
    /\ \A i \in e .. n : later[i] = view[i]
    /\ later[n + 1] = Told(view[n], item.pkt, item.via)

LEMMA PostTells ==
    ASSUME NEW n \in Nat, NEW e \in Nat \ {0}, NEW w \in Seq(Item),
           NEW g \in [Slot -> Place], NEW k \in Seq(Packets), NEW x \in Place,
           InSequence(n, e, w, g, k, x),
           NEW view \in [Nat -> Knowledge], PacketsTell(view, w, g, k, x),
           NEW item \in Item, item.pkt.id = n,
           Sound(view[n], item.pkt, item.via)
    PROVE  \E later : /\ Extends(view, later, n, e, item)
                      /\ PacketsTell(later, Append(w, item), g, k, x)
  <1>0. PICK later : later = [view EXCEPT ![n + 1] =
                                  Told(view[n], item.pkt, item.via)]
    OBVIOUS
  <1> DEFINE v == Append(w, item)
  <1>1. /\ v \in Seq(Item) /\ Len(v) = Len(w) + 1
        /\ \A i \in 1 .. Len(w) : v[i] = w[i]
        /\ v[Len(w) + 1] = item
    BY AppendFacts
  <1>2. /\ later[n + 1] = Told(view[n], item.pkt, item.via)
        /\ \A i \in Nat : i <= n => later[i] = view[i]
    BY <1>0
  <1>3. later \in [Nat -> Knowledge]
    <2>1. Told(view[n], item.pkt, item.via) \in Knowledge
      BY ToldType DEF Item
    <2>2. QED
      BY <1>0, <2>1
  <1> HIDE DEF v
  <1>4. \A pkt, via : pkt.id \in e .. n - 1 /\ Tells(view, pkt, via) =>
                          Tells(later, pkt, via)
    <2>1. \A i \in e .. n - 1 : later[i] = view[i] /\ later[i + 1] = view[i + 1]
      BY <1>2
    <2>2. QED
      BY <2>1 DEF Tells
  <1>5. Tells(later, item.pkt, item.via)
    BY <1>2 DEF Tells
  <1>6. \A i \in 1 .. Len(v) : i \in 1 .. Len(w) \/ i = Len(w) + 1
    BY <1>1
  <1>7. PacketsTell(later, v, g, k, x)
    BY <1>1, <1>4, <1>5, <1>6, NumbersBelow DEF PacketsTell
  <1>8. PacketsTell(later, Append(w, item), g, k, x)
    BY <1>7 DEF v
  <1>9. \A i \in e .. n : later[i] = view[i]
    BY <1>2
  <1>10. Extends(view, later, n, e, item)
    BY <1>2, <1>3, <1>9 DEF Extends
  <1>11. QED
    BY <1>8, <1>10

LEMMA LandRingTells ==
    ASSUME NEW view, NEW w \in Seq(Item), NEW g \in [Slot -> Place],
           NEW k \in Seq(Packets), NEW x \in Place,
           PacketsTell(view, w, g, k, x), w # << >>, Head(w).via = "ring",
           NEW slot \in Slot
    PROVE  PacketsTell(view, Tail(w), [g EXCEPT ![slot] = Head(w).pkt], k, x)
  BY TailFacts DEF PacketsTell

LEMMA LandQueueTells ==
    ASSUME NEW view, NEW w \in Seq(Item), NEW g \in [Slot -> Place],
           NEW k \in Seq(Packets), NEW x \in Place,
           PacketsTell(view, w, g, k, x), w # << >>, Head(w).via = "queue"
    PROVE  PacketsTell(view, Tail(w), g, Append(k, Head(w).pkt), x)
  <1>1. Head(w).pkt \in Packets /\ Tells(view, Head(w).pkt, "queue")
    <2>1. Head(w) = w[1] /\ 1 \in 1 .. Len(w) /\ Head(w) \in Item
      BY TailFacts
    <2>2. QED
      BY <2>1 DEF PacketsTell, Item
  <1>2. \A i \in 1 .. Len(Append(k, Head(w).pkt)) :
            Tells(view, Append(k, Head(w).pkt)[i], "queue")
    BY <1>1 DEF PacketsTell
  <1>3. QED
    BY <1>2, TailFacts DEF PacketsTell

LEMMA RingAcceptedTells ==
    ASSUME NEW view, NEW w \in Seq(Item), NEW g \in [Slot -> Place],
           NEW k \in Seq(Packets), NEW x \in Place,
           PacketsTell(view, w, g, k, x), NEW slot \in Slot
    PROVE  PacketsTell(view, w, [g EXCEPT ![slot] = None], k, x)
  BY DEF PacketsTell

LEMMA HeldTells ==
    ASSUME NEW view, NEW w \in Seq(Item), NEW g \in [Slot -> Place],
           NEW k \in Seq(Packets), k # << >>,
           PacketsTell(view, w, g, k, None)
    PROVE  PacketsTell(view, w, g, Tail(k), Head(k))
  BY TailFacts DEF PacketsTell

LEMMA HeldAcceptedTells ==
    ASSUME NEW view, NEW w \in Seq(Item), NEW g \in [Slot -> Place],
           NEW k \in Seq(Packets), NEW x \in Place,
           PacketsTell(view, w, g, k, x)
    PROVE  PacketsTell(view, w, g, k, None)
  BY DEF PacketsTell

\* The sender's end moves with a packet posted.
LEMMA EndsPost ==
    ASSUME NEW n \in Nat, NEW e \in Nat \ {0}, e <= n,
           NEW view \in [Nat -> Knowledge], NEW later \in [Nat -> Knowledge],
           NEW pkt \in Packets, NEW via,
           \A i \in e .. n : later[i] = view[i],
           later[n + 1] = Told(view[n], pkt, via),
           NEW says \in End, NEW knows \in End, NEW limit \in Int,
           Ends(view, n, e, says, knows, limit),
           NEW saysNow \in End, SameView(later[n + 1], saysNow),
           NEW limitNow \in Int, limit <= limitNow,
           view[n].tail + pkt.header.credit <= limitNow
    PROVE  Ends(later, n + 1, e, saysNow, knows, limitNow)
  <1>1. view[n] \in Knowledge /\ later[n + 1] \in Knowledge
    OBVIOUS
  <1>2. /\ saysNow.count \in {says.count, says.count + 1}
        /\ says.ring => saysNow.ring
        /\ later[n + 1].tail <= limitNow
    BY <1>1, ToldType DEF Ends, SameView
  <1>3. \A i \in e .. n : Within(later[i], saysNow, limitNow)
    <2>1. TAKE i \in e .. n
    <2>2. later[i] \in Knowledge /\ Within(later[i], says, limit)
      BY DEF Ends
    <2>3. later[i].ring => saysNow.ring
      BY <1>2, <2>2 DEF Within
    <2>4. later[i].count <= saysNow.count /\ later[i].tail <= limitNow
      <3>1. later[i].count \in Nat /\ later[i].tail \in Nat
        BY <2>2 DEF Knowledge
      <3>2. says.count \in Nat
        BY DEF End
      <3>3. later[i].count <= says.count /\ later[i].tail <= limit
        BY <2>2 DEF Within
      <3>4. saysNow.count \in {says.count, says.count + 1}
        BY <1>2
      <3>5. QED
        BY <3>1, <3>2, <3>3, <3>4
    <2>5. QED
      BY <2>3, <2>4 DEF Within
  <1>4. Within(later[n + 1], saysNow, limitNow)
    BY <1>1, <1>2 DEF Within, SameView, Knowledge, End
  <1>5. \A i \in e .. n + 1 : Within(later[i], saysNow, limitNow)
    BY <1>3, <1>4
  <1>6. later[e] = view[e]
    OBVIOUS
  <1>7. QED
    BY <1>5, <1>6 DEF Ends

\* The receiver's end moves with a packet accepted.
LEMMA EndsAccept ==
    ASSUME NEW n \in Nat, NEW e \in Nat \ {0}, e + 1 <= n,
           NEW view \in [Nat -> Knowledge],
           NEW says \in End, NEW knows \in End, NEW limit \in Int,
           Ends(view, n, e, says, knows, limit),
           NEW knowsNow \in End, SameView(view[e + 1], knowsNow)
    PROVE  Ends(view, n, e + 1, says, knowsNow, limit)
  BY DEF Ends

\* More buffers on the way back.
LEMMA EndsLimit ==
    ASSUME NEW n \in Nat, NEW e \in Nat \ {0},
           NEW view \in [Nat -> Knowledge],
           NEW says \in End, NEW knows \in End, NEW limit \in Int, NEW limitNow \in Int,
           Ends(view, n, e, says, knows, limit), limit <= limitNow
    PROVE  Ends(view, n, e, says, knows, limitNow)
  <1>1. \A i \in e .. n : view[i] \in Knowledge
    OBVIOUS
  <1>2. QED
    BY <1>1 DEF Ends, Within, Knowledge

-----------------------------------------------------------------------------
(* The stretches of the ring.                                              *)

LEMMA TurnSlot ==
    ASSUME NEW x \in Int
    PROVE  (x + N) % N = x % N
  <1> DEFINE a == x \div N
  <1> DEFINE s == x % N
  <1>1. a \in Int /\ s \in Slot /\ x = N * a + s
    BY SlotOf
  <1> HIDE DEF a, s
  <1>2. N * (a + 1) = N * a + N /\ N * a \in Int
    BY <1>1, RingAssumption
  <1>3. x + N = N * (a + 1) + s /\ x + N \in Int
    BY <1>1, <1>2, RingAssumption DEF Slot
  <1>4. (x + N) % N = s
    BY <1>1, <1>3, OneSlot
  <1>5. QED
    BY <1>4 DEF s

LEMMA FewerThanN ==
    ASSUME NEW x \in Int, NEW y \in Int, x % N = y % N, x <= y, y < x + N
    PROVE  x = y
  <1>1. x < y => y >= x + N
    BY SameSlot
  <1>2. QED
    BY <1>1, RingAssumption

LEMMA SlotsType ==
    ASSUME NEW a \in Int, NEW b \in Int
    PROVE  Slots(a, b) \subseteq Slot
  BY SlotOf DEF Slots

LEMMA SlotsGrow ==
    ASSUME NEW a \in Int, NEW b \in Int, a <= b
    PROVE  Slots(a, b + 1) = Slots(a, b) \cup {b % N}
  <1>1. a .. (b + 1) - 1 = (a .. b - 1) \cup {b}
    OBVIOUS
  <1>2. QED
    BY <1>1 DEF Slots

LEMMA SlotsShrink ==
    ASSUME NEW a \in Int, NEW b \in Int, a < b
    PROVE  Slots(a, b) = Slots(a + 1, b) \cup {a % N}
  <1>1. a .. b - 1 = (a + 1 .. b - 1) \cup {a}
    OBVIOUS
  <1>2. QED
    BY <1>1 DEF Slots

\* The next slot is not in a stretch shorter than the ring.
LEMMA SlotBehind ==
    ASSUME NEW a \in Int, NEW b \in Int, b < a + N
    PROVE  b % N \notin Slots(a, b)
  <1>1. SUFFICES ASSUME NEW x \in a .. b - 1, x % N = b % N
                 PROVE  FALSE
    BY DEF Slots
  <1>2. x \in Int /\ x <= b /\ b < x + N /\ x # b
    BY RingAssumption
  <1>3. QED
    BY <1>1, <1>2, FewerThanN

\* Nor is the slot before it.
LEMMA SlotBefore ==
    ASSUME NEW a \in Int, NEW b \in Int, b <= a + N
    PROVE  a % N \notin Slots(a + 1, b)
  <1>1. SUFFICES ASSUME NEW x \in a + 1 .. b - 1, x % N = a % N
                 PROVE  FALSE
    BY DEF Slots
  <1>2. x \in Int /\ a <= x /\ x < a + N /\ x # a
    BY RingAssumption
  <1>3. QED
    BY <1>1, <1>2, FewerThanN

-----------------------------------------------------------------------------
(* What writing, placing, polling and giving back do to the buffers.        *)

LEMMA WritesAppend ==
    ASSUME NEW w \in Seq(Item), NEW item \in Item
    PROVE  /\ item.via = "ring" =>
                  Writes(Append(w, item)) = Writes(w) \cup {Len(w) + 1}
           /\ item.via # "ring" => Writes(Append(w, item)) = Writes(w)
           /\ \A i \in Writes(w) : i \in 1 .. Len(w) /\ Append(w, item)[i] = w[i]
           /\ Append(w, item)[Len(w) + 1] = item
           /\ Len(w) + 1 \notin Writes(w)
  <1> DEFINE v == Append(w, item)
  <1>1. /\ Len(v) = Len(w) + 1 /\ \A i \in 1 .. Len(w) : v[i] = w[i]
        /\ v[Len(w) + 1] = item /\ Len(w) \in Nat
    BY AppendFacts
  <1> HIDE DEF v
  <1>2. 1 .. Len(v) = (1 .. Len(w)) \cup {Len(w) + 1}
    BY <1>1
  <1>3. Len(w) + 1 \notin 1 .. Len(w)
    BY <1>1
  <1>4. QED
    BY <1>1, <1>2, <1>3 DEF Writes, v

LEMMA WritesTail ==
    ASSUME NEW w \in Seq(Item), w # << >>
    PROVE  /\ \A i \in Writes(Tail(w)) : /\ i \in Nat /\ i + 1 \in Writes(w)
                                         /\ i + 1 # 1 /\ Tail(w)[i] = w[i + 1]
           /\ Head(w).via = "ring" => 1 \in Writes(w)
           /\ Head(w) = w[1]
  <1>1. /\ \A i \in 1 .. Len(Tail(w)) : /\ Tail(w)[i] = w[i + 1]
                                        /\ i + 1 \in 1 .. Len(w)
        /\ Head(w) = w[1] /\ 1 \in 1 .. Len(w)
    BY TailFacts
  <1>2. \A i \in 1 .. Len(Tail(w)) : i \in Nat /\ i + 1 # 1
    OBVIOUS
  <1>3. QED
    BY <1>1, <1>2 DEF Writes

LEMMA WriteBuffers ==
    ASSUME NEW g \in [Slot -> Place], NEW w \in Seq(Item),
           NEW f \in SUBSET Slot, NEW u \in SUBSET Slot,
           NEW H \in Nat, NEW R \in Nat, NEW U \in Nat,
           Buffers(g, w, f, u, H, R, U), R <= H, H < R + N,
           NEW item \in Item, item.via = "ring", item.slot = H % N
    PROVE  Buffers(g, Append(w, item), f, u, H + 1, R, U)
  <1> DEFINE v == Append(w, item)
  <1>1. /\ Writes(v) = Writes(w) \cup {Len(w) + 1}
        /\ \A i \in Writes(w) : v[i] = w[i]
        /\ v[Len(w) + 1] = item
    BY WritesAppend
  <1>2. Slots(R, H + 1) = Slots(R, H) \cup {H % N} /\ H % N \notin Slots(R, H)
    BY SlotsGrow, SlotBehind
  <1>3. H % N \in Slot
    BY SlotOf
  <1>4. g[H % N] = None
    BY <1>2, <1>3 DEF Buffers
  <1> HIDE DEF v
  <1>5. \A i \in Writes(v) : v[i].slot \in Slots(R, H + 1) /\ g[v[i].slot] = None
    BY <1>1, <1>2, <1>4 DEF Buffers
  <1>6. \A i, j \in Writes(v) : v[i].slot = v[j].slot => i = j
    BY <1>1, <1>2 DEF Buffers
  <1>7. QED
    BY <1>2, <1>5, <1>6 DEF Buffers, v

LEMMA QueueBuffers ==
    ASSUME NEW g \in [Slot -> Place], NEW w \in Seq(Item), NEW f, NEW u,
           NEW H, NEW R, NEW U, Buffers(g, w, f, u, H, R, U),
           NEW item \in Item, item.via = "queue"
    PROVE  Buffers(g, Append(w, item), f, u, H, R, U)
  <1> DEFINE v == Append(w, item)
  <1>1. Writes(v) = Writes(w) /\ \A i \in Writes(w) : v[i] = w[i]
    BY WritesAppend
  <1> HIDE DEF v
  <1>2. QED
    BY <1>1 DEF Buffers, v

LEMMA LandRingBuffers ==
    ASSUME NEW g \in [Slot -> Place], NEW w \in Seq(Item), NEW f, NEW u,
           NEW H, NEW R, NEW U, Buffers(g, w, f, u, H, R, U),
           w # << >>, Head(w).via = "ring"
    PROVE  /\ g[Head(w).slot] = None
           /\ Buffers([g EXCEPT ![Head(w).slot] = Head(w).pkt],
                      Tail(w), f, u, H, R, U)
  <1> DEFINE v == Tail(w)
  <1> DEFINE h == [g EXCEPT ![Head(w).slot] = Head(w).pkt]
  <1>1. /\ \A i \in Writes(v) : /\ i \in Nat /\ i + 1 \in Writes(w)
                                /\ i + 1 # 1 /\ v[i] = w[i + 1]
        /\ 1 \in Writes(w) /\ Head(w) = w[1]
    BY WritesTail
  <1> HIDE DEF v
  <1>2. Head(w).slot \in Slots(R, H) /\ g[Head(w).slot] = None
    BY <1>1 DEF Buffers
  <1>3. Head(w) \in Item
    BY TailFacts
  <1>4. Head(w).slot \in Slot
    BY <1>3 DEF Item
  <1>5. /\ h[Head(w).slot] = Head(w).pkt
        /\ \A s \in Slot : s # Head(w).slot => h[s] = g[s]
    BY <1>4
  <1> HIDE DEF h
  <1>6. \A s \in Slot : h[s] # None => s \in Slots(R, H)
    BY <1>2, <1>5 DEF Buffers
  <1>7. \A i \in Writes(v) : v[i].slot # Head(w).slot
    BY <1>1 DEF Buffers
  <1>8. \A i \in Writes(w) : w[i].slot \in Slot
    <2>1. \A i \in Writes(w) : w[i] \in Item
      BY DEF Writes
    <2>2. QED
      BY <2>1 DEF Item
  <1>9. \A i \in Writes(v) : v[i].slot \in Slots(R, H) /\ h[v[i].slot] = None
    BY <1>1, <1>5, <1>7, <1>8 DEF Buffers
  <1>10. \A i, j \in Writes(v) : v[i].slot = v[j].slot => i = j
    <2>1. \A i, j \in Writes(v) : v[i].slot = v[j].slot => i + 1 = j + 1
      BY <1>1 DEF Buffers
    <2>2. \A i, j \in Nat : i + 1 = j + 1 => i = j
      OBVIOUS
    <2>3. QED
      BY <1>1, <2>1, <2>2
  <1>11. QED
    BY <1>2, <1>6, <1>9, <1>10 DEF Buffers, v, h

LEMMA LandQueueBuffers ==
    ASSUME NEW g \in [Slot -> Place], NEW w \in Seq(Item), NEW f, NEW u,
           NEW H, NEW R, NEW U, Buffers(g, w, f, u, H, R, U), w # << >>
    PROVE  Buffers(g, Tail(w), f, u, H, R, U)
  <1> DEFINE v == Tail(w)
  <1>1. \A i \in Writes(v) : i \in Nat /\ i + 1 \in Writes(w) /\ v[i] = w[i + 1]
    BY WritesTail
  <1> HIDE DEF v
  <1>2. \A i, j \in Writes(v) : v[i].slot = v[j].slot => i = j
    <2>1. \A i, j \in Writes(v) : v[i].slot = v[j].slot => i + 1 = j + 1
      BY <1>1 DEF Buffers
    <2>2. \A i, j \in Nat : i + 1 = j + 1 => i = j
      OBVIOUS
    <2>3. QED
      BY <1>1, <2>1, <2>2
  <1>3. Buffers(g, v, f, u, H, R, U)
    BY <1>1, <1>2 DEF Buffers
  <1>4. QED
    BY <1>3 DEF v

\* The oldest buffer written is polled.
LEMMA PollBuffers ==
    ASSUME NEW g \in [Slot -> Place], NEW w \in Seq(Item),
           NEW f \in SUBSET Slot, NEW u \in SUBSET Slot,
           NEW H \in Nat, NEW R \in Nat, NEW U \in Nat,
           R <= H, H <= U, U < R + N,
           Buffers(g, w, f, u, H, R, U), g[R % N] # None
    PROVE  /\ R < H /\ R % N \in Slot
           /\ Buffers([g EXCEPT ![R % N] = None], w, f \cup {R % N}, u,
                      H, R + 1, U)
           /\ Buffers([g EXCEPT ![R % N] = None], w, f, u \cup {R % N},
                      H, R + 1, U)
  <1> DEFINE s == R % N
  <1> DEFINE h == [g EXCEPT ![s] = None]
  <1>1. s \in Slot
    BY SlotOf
  <1>2. s \in Slots(R, H)
    BY <1>1 DEF Buffers
  <1>3. R < H
    <2>1. PICK x \in R .. H - 1 : s = x % N
      BY <1>2 DEF Slots
    <2>2. QED
      BY <2>1
  <1>4. Slots(R, H) = Slots(R + 1, H) \cup {s} /\ s \notin Slots(R + 1, H)
    <2>1. H <= R + N
      BY RingAssumption
    <2>2. QED
      BY <1>3, <2>1, SlotsShrink, SlotBefore
  <1>5. /\ Slots(U + 1 - N, R + 1) = Slots(U + 1 - N, R) \cup {s}
        /\ s \notin Slots(U + 1 - N, R)
    <2>1. U + 1 - N \in Int /\ U + 1 - N <= R /\ R < (U + 1 - N) + N
      BY RingAssumption
    <2>2. QED
      BY <2>1, SlotsGrow, SlotBehind
  <1>6. h[s] = None /\ \A t \in Slot : t # s => h[t] = g[t]
    BY <1>1
  <1> HIDE DEF h, s
  <1>7. \A t \in Slot : h[t] # None => t \in Slots(R + 1, H)
    BY <1>4, <1>6 DEF Buffers
  <1>8. \A i \in Writes(w) : w[i].slot \in Slots(R + 1, H) /\ h[w[i].slot] = None
    <2>1. TAKE i \in Writes(w)
    <2>2. w[i].slot \in Slots(R, H) /\ g[w[i].slot] = None
      BY DEF Buffers
    <2>3. w[i].slot # s
      BY <2>2 DEF s
    <2>4. w[i].slot \in Slot
      BY <2>2, SlotsType
    <2>5. QED
      BY <1>4, <1>6, <2>2, <2>3, <2>4
  <1>9. s \notin f /\ s \notin u
    BY <1>5 DEF Buffers
  <1>10. /\ Buffers(h, w, f \cup {s}, u, H, R + 1, U)
         /\ Buffers(h, w, f, u \cup {s}, H, R + 1, U)
    BY <1>5, <1>7, <1>8, <1>9 DEF Buffers
  <1>11. QED
    BY <1>1, <1>3, <1>10 DEF h, s

\* How many buffers go back: not more than were polled, and all of them free.
LEMMA ReturnedFacts ==
    ASSUME NEW c, NEW s \in Slot, NEW R \in Nat, NEW U \in Nat,
           R <= U, U < R + N, c.p_recv = R % N, c.p_recv_tail = U % N
    PROVE  /\ Returned(c, s) \in 0 .. N
           /\ U + Returned(c, s) < R + N
           /\ \A i \in 1 .. Returned(c, s) :
                  (U + i) % N \in c.free \cup {s}
  <1> DEFINE first == After(c.p_recv_tail, 1)
  <1> DEFINE freed == c.free \cup {s}
  <1> DEFINE Run(k) == \A i \in 0 .. k - 1 :
                           /\ After(first, i) \in freed
                           /\ After(first, i) # c.p_recv
  <1> DEFINE runs == {k \in 0 .. N : Run(k)}
  <1> DEFINE k == Returned(c, s)
  <1>1. k = IF s # first THEN 0 ELSE Max(runs)
    BY DEF Returned
  <1>2. 0 \in runs
    BY RingAssumption
  <1>3. Max(runs) \in runs
    <2>1. runs \in SUBSET (0 .. N) /\ runs # {}
      BY <1>2
    <2> HIDE DEF runs
    <2>2. QED
      BY <2>1, LargestExists, RingAssumption
  <1>4. k \in runs
    BY <1>1, <1>2, <1>3
  <1>5. k \in 0 .. N /\ Run(k)
    BY <1>4
  <1> HIDE DEF k, runs
  <1>6. \A i \in Int : After(first, i) = (U + 1 + i) % N
    <2>1. first = (U + 1) % N
      BY AfterSlot
    <2>2. QED
      BY <2>1, AfterSlot
  <1> HIDE DEF first
  <1>7. U + k < R + N
    <2>1. SUFFICES ASSUME U + k >= R + N PROVE FALSE
      BY <1>5, RingAssumption
    <2> DEFINE i == R + N - U - 1
    <2>2. i \in 0 .. k - 1
      BY <1>5, <2>1, RingAssumption
    <2>3. U + 1 + i = R + N
      BY RingAssumption
    <2>4. After(first, i) = R % N
      BY <1>6, <2>2, <2>3, TurnSlot
    <2>5. QED
      BY <1>5, <2>2, <2>4
  <1>8. \A i \in 1 .. k : (U + i) % N \in freed
    <2>1. TAKE i \in 1 .. k
    <2>2. i - 1 \in 0 .. k - 1 /\ U + 1 + (i - 1) = U + i
      BY <1>5
    <2>3. After(first, i - 1) = (U + i) % N
      BY <1>6, <2>2
    <2>4. QED
      BY <1>5, <2>2, <2>3
  <1>9. QED
    BY <1>5, <1>7, <1>8 DEF k

LEMMA ReturnBuffers ==
    ASSUME NEW g \in [Slot -> Place], NEW w \in Seq(Item),
           NEW f \in SUBSET Slot, NEW u \in SUBSET Slot,
           NEW H \in Nat, NEW R \in Nat, NEW U \in Nat, NEW k \in 0 .. N,
           Buffers(g, w, f, u, H, R, U),
           \A i \in 1 .. k : (U + i) % N \in f
    PROVE  Buffers(g, w, f \ {After(U % N, i) : i \in 1 .. k}, u, H, R, U + k)
  <1> DEFINE back == {After(U % N, i) : i \in 1 .. k}
  <1>1. \A i \in 1 .. k : After(U % N, i) = (U + i) % N
    BY AfterSlot
  <1>2. \A t \in Slots(U + 1 - N, R) :
            t \in back \/ t \in Slots((U + k) + 1 - N, R)
    <2>1. TAKE t \in Slots(U + 1 - N, R)
    <2>2. PICK x \in U + 1 - N .. R - 1 : t = x % N
      BY DEF Slots
    <2>3. CASE x < (U + k) + 1 - N
      <3>1. (x + N) - U \in 1 .. k /\ U + ((x + N) - U) = x + N
        BY <2>2, <2>3, RingAssumption
      <3>2. (x + N) % N = t
        <4>1. x \in Int
          BY RingAssumption
        <4>2. QED
          BY <2>2, <4>1, TurnSlot
      <3>3. After(U % N, (x + N) - U) = t
        BY <1>1, <3>1, <3>2
      <3>4. QED
        BY <3>1, <3>3
    <2>4. CASE ~(x < (U + k) + 1 - N)
      <3>1. x \in (U + k) + 1 - N .. R - 1
        BY <2>2, <2>4, RingAssumption
      <3>2. QED
        BY <2>2, <3>1 DEF Slots
    <2>5. QED
      BY <2>3, <2>4
  <1>3. back \subseteq f
    BY <1>1
  <1> HIDE DEF back
  <1>4. Buffers(g, w, f \ back, u, H, R, U + k)
    BY <1>2, <1>3 DEF Buffers
  <1>5. QED
    BY <1>4 DEF back

-----------------------------------------------------------------------------
(* What the steps do to the stretches, c the writer's connection before and *)
(* b after the step, d and a the same of the owner of the ring.             *)

\* The pointers are compared for equality only; they cannot have gone round.
LEMMA WriteStretches ==
    ASSUME NEW c, NEW d, NEW b,
           NEW H \in Nat, NEW T \in Nat, NEW R \in Nat, NEW U \in Nat,
           Stretches(c, d, H, T, R, U), FastRdmaOk(c),
           b.send_ring = c.send_ring, b.ptail = c.ptail,
           b.phead = After(c.phead, 1)
    PROVE  /\ Stretches(b, d, H + 1, T, R, U)
           /\ c.phead = H % N /\ R <= H /\ H < R + N
  <1>1. /\ U < R + N /\ R <= H /\ H <= T /\ T <= U
        /\ c.phead = H % N /\ c.ptail = T % N
    BY DEF Stretches, FastRdmaOk
  <1>2. H # T
    BY <1>1 DEF FastRdmaOk
  <1>3. H < T /\ H < R + N
    BY <1>1, <1>2, RingAssumption
  <1>4. b.phead = (H + 1) % N /\ b.ptail = T % N
    BY <1>1, AfterSlot
  <1>5. b.send_ring
    BY DEF FastRdmaOk
  <1>6. QED
    BY <1>1, <1>3, <1>4, <1>5 DEF Stretches

\* Credits are never more than one turn.
LEMMA AbsorbStretches ==
    ASSUME NEW c, NEW d, NEW credit \in Nat,
           NEW H \in Nat, NEW T \in Nat, NEW R \in Nat, NEW U \in Nat,
           Stretches(c, d, H, T, R, U), T + credit <= U
    PROVE  /\ credit \in 0 .. N - 1
           /\ c.send_ring => Absorbed(c.ptail, credit) = (T + credit) % N
           /\ ~c.send_ring => T + credit = N - 1
  <1>1. U < R + N /\ R <= H /\ H <= T /\ T <= U
    BY DEF Stretches
  <1>2. credit \in 0 .. N - 1
    BY <1>1, RingAssumption
  <1>3. c.send_ring => c.ptail = T % N
    BY DEF Stretches
  <1>4. ~c.send_ring => H = 0 /\ T = N - 1
    BY DEF Stretches
  <1>5. ~c.send_ring => T + credit = N - 1
    BY <1>1, <1>4, RingAssumption
  <1>6. (T + credit) % N = IF (T % N) + credit >= N THEN (T % N) + credit - N
                           ELSE (T % N) + credit
    BY <1>2, WrapSlot
  <1>7. QED
    BY <1>2, <1>3, <1>5, <1>6 DEF Absorbed

LEMMA AcceptStretches ==
    ASSUME NEW c, NEW d, NEW b, NEW a, NEW credit \in Nat,
           NEW H \in Nat, NEW T \in Nat, NEW R \in Nat, NEW U \in Nat,
           Stretches(c, d, H, T, R, U), T + credit <= U,
           b.send_ring = c.send_ring, b.phead = c.phead,
           b.ptail = Absorbed(c.ptail, credit)
    PROVE  Stretches(b, d, H, T + credit, R, U)
  <1>1. U < R + N /\ R <= H /\ H <= T + credit
    BY DEF Stretches
  <1>2. /\ c.send_ring => b.ptail = (T + credit) % N
        /\ ~c.send_ring => T + credit = N - 1
    BY AbsorbStretches
  <1>3. /\ b.send_ring => b.phead = H % N /\ b.ptail = (T + credit) % N
        /\ ~b.send_ring => H = 0 /\ T + credit = N - 1
    BY <1>2 DEF Stretches
  <1>4. QED
    BY <1>1, <1>2, <1>3 DEF Stretches

\* The writer learns of the ring.
LEMMA AddressStretches ==
    ASSUME NEW c, NEW d, NEW b, NEW credit \in Nat,
           NEW H \in Nat, NEW T \in Nat, NEW R \in Nat, NEW U \in Nat,
           Stretches(c, d, H, T, R, U), T + credit <= U, ~c.send_ring,
           b.send_ring, b.phead = 0, b.ptail = N - 1
    PROVE  Stretches(b, d, H, T + credit, R, U)
  <1>1. U < R + N /\ R <= H /\ H <= T + credit /\ H = 0
    BY DEF Stretches
  <1>2. T + credit = N - 1
    BY AbsorbStretches
  <1>3. 0 % N = 0 /\ (N - 1) % N = N - 1
    BY RingAssumption
  <1>4. QED
    BY <1>1, <1>2, <1>3 DEF Stretches

\* The owner allocates the ring.
LEMMA AllocStretches ==
    ASSUME NEW c, NEW d, NEW a,
           NEW H \in Nat, NEW T \in Nat, NEW R \in Nat, NEW U \in Nat,
           Stretches(c, d, H, T, R, U), ~d.recv_ring,
           a.recv_ring, a.p_recv = 0, a.p_recv_tail = N - 1
    PROVE  Stretches(c, a, H, T, R, U)
  <1>1. 0 % N = 0 /\ (N - 1) % N = N - 1
    BY RingAssumption
  <1>2. QED
    BY <1>1 DEF Stretches

\* The owner polls a buffer.
LEMMA PollStretches ==
    ASSUME NEW c, NEW d, NEW a,
           NEW H \in Nat, NEW T \in Nat, NEW R \in Nat, NEW U \in Nat,
           Stretches(c, d, H, T, R, U), d.recv_ring, R < H,
           a.recv_ring, a.p_recv = After(d.p_recv, 1),
           a.p_recv_tail = d.p_recv_tail
    PROVE  Stretches(c, a, H, T, R + 1, U)
  <1>1. a.p_recv = (R + 1) % N
    BY AfterSlot DEF Stretches
  <1>2. U < (R + 1) + N /\ R + 1 <= H
    BY RingAssumption DEF Stretches
  <1>3. QED
    BY <1>1, <1>2 DEF Stretches

\* And gives buffers back.
LEMMA ReturnStretches ==
    ASSUME NEW c, NEW d, NEW a, NEW k \in Nat,
           NEW H \in Nat, NEW T \in Nat, NEW R \in Nat, NEW U \in Nat,
           Stretches(c, d, H, T, R, U), d.recv_ring, U + k < R + N,
           a.recv_ring, a.p_recv = d.p_recv,
           a.p_recv_tail = After(d.p_recv_tail, k)
    PROVE  Stretches(c, a, H, T, R, U + k)
  <1>1. a.p_recv_tail = (U + k) % N
    BY AfterSlot DEF Stretches
  <1>2. T <= U + k
    BY DEF Stretches
  <1>3. QED
    BY <1>1, <1>2 DEF Stretches

-----------------------------------------------------------------------------
(* What the steps do to the buffers a process sends from.                   *)

LEMMA WritesItems ==
    ASSUME NEW w \in Seq(Item)
    PROVE  \A i \in Writes(w) : w[i].slot \in Slot
  <1>1. \A i \in Writes(w) : w[i] \in Item
    BY DEF Writes
  <1>2. QED
    BY <1>1 DEF Item

LEMMA SameInUse ==
    ASSUME NEW c, NEW w, NEW done, InUse(c, w, done),
           NEW b, b.busy = c.busy, b.shandle = c.shandle
    PROVE  InUse(b, w, done)
  BY DEF InUse

LEMMA WriteInUse ==
    ASSUME NEW c, NEW w \in Seq(Item), NEW done \in Seq(Write),
           InUse(c, w, done), c.shandle \in [Slot -> Nat],
           NEW item \in Item, item.via = "ring", item.slot \notin c.busy,
           NEW b, b.busy = c.busy \cup {item.slot},
           b.shandle = [c.shandle EXCEPT ![item.slot] = item.pkt.msg]
    PROVE  InUse(b, Append(w, item), done)
  <1> DEFINE v == Append(w, item)
  <1>1. /\ Writes(v) = Writes(w) \cup {Len(w) + 1}
        /\ \A i \in Writes(w) : v[i] = w[i]
        /\ v[Len(w) + 1] = item
    BY WritesAppend
  <1> HIDE DEF v
  <1>2. item.slot \in Slot
    BY DEF Item
  <1>3. /\ b.shandle[item.slot] = item.pkt.msg
        /\ \A s \in Slot : s # item.slot => b.shandle[s] = c.shandle[s]
    BY <1>2
  <1>4. \A i \in Writes(w) : w[i].slot \in c.busy /\ w[i].slot \in Slot
    BY WritesItems DEF InUse
  <1>5. \A i \in 1 .. Len(done) : done[i].slot \in c.busy /\ done[i].slot \in Slot
    <2>1. \A i \in 1 .. Len(done) : done[i] \in Write
      OBVIOUS
    <2>2. QED
      BY <2>1 DEF InUse, Write
  <1>6. \A i \in Writes(v) : /\ v[i].slot \in b.busy
                             /\ b.shandle[v[i].slot] = v[i].pkt.msg
    BY <1>1, <1>3, <1>4 DEF InUse
  <1>7. \A i \in 1 .. Len(done) : /\ done[i].slot \in b.busy
                                  /\ b.shandle[done[i].slot] = done[i].msg
    BY <1>3, <1>5 DEF InUse
  <1>8. \A i, j \in Writes(v) : v[i].slot = v[j].slot => i = j
    BY <1>1, <1>4 DEF InUse
  <1>9. \A i \in Writes(v), j \in 1 .. Len(done) : v[i].slot # done[j].slot
    BY <1>1, <1>5 DEF InUse
  <1>10. InUse(b, v, done)
    BY <1>6, <1>7, <1>8, <1>9 DEF InUse
  <1>11. QED
    BY <1>10 DEF v

LEMMA QueueInUse ==
    ASSUME NEW c, NEW w \in Seq(Item), NEW done, InUse(c, w, done),
           NEW item \in Item, item.via = "queue",
           NEW b, b.busy = c.busy, b.shandle = c.shandle
    PROVE  InUse(b, Append(w, item), done)
  <1> DEFINE v == Append(w, item)
  <1>1. Writes(v) = Writes(w) /\ \A i \in Writes(w) : v[i] = w[i]
    BY WritesAppend
  <1> HIDE DEF v
  <1>2. InUse(b, v, done)
    BY <1>1 DEF InUse
  <1>3. QED
    BY <1>2 DEF v

LEMMA LandQueueInUse ==
    ASSUME NEW c, NEW w \in Seq(Item), NEW done, InUse(c, w, done), w # << >>
    PROVE  InUse(c, Tail(w), done)
  <1> DEFINE v == Tail(w)
  <1>1. \A i \in Writes(v) : i \in Nat /\ i + 1 \in Writes(w) /\ v[i] = w[i + 1]
    BY WritesTail
  <1> HIDE DEF v
  <1>2. \A i, j \in Writes(v) : v[i].slot = v[j].slot => i = j
    <2>1. \A i, j \in Writes(v) : v[i].slot = v[j].slot => i + 1 = j + 1
      BY <1>1 DEF InUse
    <2>2. \A i, j \in Nat : i + 1 = j + 1 => i = j
      OBVIOUS
    <2>3. QED
      BY <1>1, <2>1, <2>2
  <1>3. InUse(c, v, done)
    BY <1>1, <1>2 DEF InUse
  <1>4. QED
    BY <1>3 DEF v

LEMMA LandRingInUse ==
    ASSUME NEW c, NEW w \in Seq(Item), NEW done \in Seq(Write),
           InUse(c, w, done), w # << >>, Head(w).via = "ring"
    PROVE  InUse(c, Tail(w), Append(done, [slot |-> Head(w).slot,
                                           msg |-> Head(w).pkt.msg]))
  <1> DEFINE v == Tail(w)
  <1> DEFINE new == [slot |-> Head(w).slot, msg |-> Head(w).pkt.msg]
  <1> DEFINE now == Append(done, new)
  <1>1. InUse(c, v, done)
    BY LandQueueInUse
  <1>2. /\ \A i \in Writes(v) : /\ i \in Nat /\ i + 1 \in Writes(w)
                                /\ i + 1 # 1 /\ v[i] = w[i + 1]
        /\ 1 \in Writes(w) /\ Head(w) = w[1]
    BY WritesTail
  <1>3. new \in Write
    <2>1. Head(w) \in Item
      BY TailFacts
    <2>2. QED
      BY <2>1 DEF Item, Packets, Write
  <1>4. new.slot = w[1].slot /\ new.msg = w[1].pkt.msg
    BY <1>2
  <1> HIDE DEF v, new
  <1>5. /\ Len(now) = Len(done) + 1 /\ Len(done) \in Nat
        /\ \A i \in 1 .. Len(done) : now[i] = done[i]
        /\ now[Len(done) + 1] = new
    BY <1>3, AppendFacts
  <1> HIDE DEF now
  <1>6. \A i \in 1 .. Len(now) : i \in 1 .. Len(done) \/ i = Len(done) + 1
    BY <1>5
  <1>7. /\ new.slot \in c.busy /\ c.shandle[new.slot] = new.msg
        /\ \A i \in 1 .. Len(done) : new.slot # done[i].slot
        /\ \A i \in Writes(v) : v[i].slot # new.slot
    BY <1>2, <1>4 DEF InUse
  <1>8. \A i \in 1 .. Len(now) : /\ now[i].slot \in c.busy
                                 /\ c.shandle[now[i].slot] = now[i].msg
    BY <1>1, <1>5, <1>6, <1>7 DEF InUse
  <1>9. \A i, j \in 1 .. Len(now) : now[i].slot = now[j].slot => i = j
    BY <1>1, <1>5, <1>6, <1>7 DEF InUse
  <1>10. \A i \in Writes(v), j \in 1 .. Len(now) : v[i].slot # now[j].slot
    BY <1>1, <1>5, <1>6, <1>7 DEF InUse
  <1>11. InUse(c, v, now)
    BY <1>1, <1>8, <1>9, <1>10 DEF InUse
  <1>12. QED
    BY <1>11 DEF v, now, new

LEMMA SendInUse ==
    ASSUME NEW c, NEW w \in Seq(Item), NEW done \in Seq(Write),
           InUse(c, w, done), done # << >>,
           NEW b, b.busy = c.busy \ {Head(done).slot}, b.shandle = c.shandle
    PROVE  InUse(b, w, Tail(done))
  <1> DEFINE now == Tail(done)
  <1>1. /\ \A i \in 1 .. Len(now) : now[i] = done[i + 1] /\ i + 1 \in 1 .. Len(done)
        /\ Head(done) = done[1] /\ 1 \in 1 .. Len(done)
    BY TailFacts
  <1> HIDE DEF now
  <1>2. \A i \in 1 .. Len(now) : i + 1 # 1
    OBVIOUS
  <1>3. \A i \in 1 .. Len(now) : now[i].slot # Head(done).slot
    BY <1>1, <1>2 DEF InUse
  <1>4. \A i, j \in 1 .. Len(now) : now[i].slot = now[j].slot => i = j
    <2>1. \A i, j \in 1 .. Len(now) : now[i].slot = now[j].slot => i + 1 = j + 1
      BY <1>1 DEF InUse
    <2>2. QED
      BY <2>1
  <1>5. \A i \in Writes(w) : w[i].slot # Head(done).slot
    BY <1>1 DEF InUse
  <1>6. InUse(b, w, now)
    BY <1>1, <1>3, <1>4, <1>5 DEF InUse
  <1>7. QED
    BY <1>6 DEF now

-----------------------------------------------------------------------------
(* What the operators do to a connection.  SenderPart is what a direction    *)
(* knows of its sender, which owns the ring the peer writes into;            *)
(* ReceiverPart what it knows of its receiver, which writes into the ring of *)
(* the sender.                                                             *)

SenderPart(b, c) ==
    /\ b.tosend = c.tosend /\ b.recv_ring = c.recv_ring
    /\ b.cached_outgoing = c.cached_outgoing
    /\ b.rdma_credit = c.rdma_credit
    /\ b.p_recv = c.p_recv /\ b.p_recv_tail = c.p_recv_tail
    /\ b.free = c.free

ReceiverPart(b, c) ==
    /\ b.expected = c.expected /\ b.send_ring = c.send_ring
    /\ b.cached_incoming = c.cached_incoming
    /\ b.phead = c.phead /\ b.ptail = c.ptail

BufferPart(b, c) == b.busy = c.busy /\ b.shandle = c.shandle

\* c becomes b when item is posted.
SendsItem(c, b, item) ==
    /\ b.tosend = c.tosend + 1 /\ b.rdma_credit = 0
    /\ item.pkt.id = c.tosend
    /\ b.expected = c.expected /\ b.send_ring = c.send_ring
    /\ b.cached_incoming = c.cached_incoming /\ b.ptail = c.ptail
    /\ item.via = "queue" => b.phead = c.phead /\ BufferPart(b, c)
    /\ item.via = "ring" =>
           /\ FastRdmaOk(c)
           /\ item.slot = c.phead /\ b.phead = After(c.phead, 1)
           /\ b.busy = c.busy \cup {item.slot}
           /\ b.shandle = [c.shandle EXCEPT ![item.slot] = item.pkt.msg]

\* A message is posted.
SendsMessage(c, b, item, msg) ==
    /\ SendsItem(c, b, item)
    /\ item.pkt.type \in {"start", "cached"} /\ item.pkt.msg = msg
    /\ item.pkt.header.credit = c.rdma_credit
    /\ item.pkt.type = "cached" =>
           item.via = "ring" /\ item.pkt.header = c.cached_outgoing
    /\ b.cached_outgoing =
           IF /\ item.pkt.type = "start" /\ item.pkt.size = "short"
              /\ item.via = "ring"
           THEN item.pkt.header ELSE c.cached_outgoing
    /\ b.recv_ring = c.recv_ring /\ b.free = c.free
    /\ b.p_recv = c.p_recv /\ b.p_recv_tail = c.p_recv_tail

LEMMA PacketType ==
    ASSUME NEW c \in Connection, NEW h \in Envelope, NEW size \in Sizes,
           NEW type \in {"start", "cached", "address"}, NEW msg \in Nat
    PROVE  /\ Packet(c, type, h, size, msg) \in Packets
           /\ OnQueue(Packet(c, type, h, size, msg)) \in Item
           /\ \A s \in Slot : OnRing(s, Packet(c, type, h, size, msg)) \in Item
  <1>1. c.tosend \in Nat \ {0}
    BY DEF Connection
  <1>2. Packet(c, type, h, size, msg) \in Packets
    BY <1>1 DEF Packet, Packets
  <1>3. 0 \in Slot
    BY RingAssumption DEF Slot
  <1>4. QED
    BY <1>2, <1>3 DEF OnQueue, OnRing, Item

LEMMA PostSendFacts ==
    ASSUME NEW c \in Connection, NEW env \in Headers, NEW size \in Sizes,
           NEW type \in {"start", "address"}, NEW msg \in Nat,
           NEW b, NEW item,
           b = PostSend(c, type, env, size, msg).conn,
           item = PostSend(c, type, env, size, msg).items[1]
    PROVE  /\ PostSend(c, type, env, size, msg).items = <<item>>
           /\ b \in Connection /\ item \in Item /\ SendsItem(c, b, item)
           /\ item.via = "queue" /\ item.pkt.type = type
           /\ item.pkt.msg = msg /\ item.pkt.header = Header(env, c.rdma_credit)
           /\ b.cached_outgoing = c.cached_outgoing
           /\ b.recv_ring = c.recv_ring /\ b.free = c.free
           /\ b.p_recv = c.p_recv /\ b.p_recv_tail = c.p_recv_tail
  <1> DEFINE h == Header(env, c.rdma_credit)
  <1> DEFINE pkt == Packet(c, type, h, size, msg)
  <1>1. b = [[c EXCEPT !.tosend = @ + 1] EXCEPT !.rdma_credit = 0]
    BY DEF PostSend, Posts, Numbered, CreditsTaken
  <1>2. item = OnQueue(pkt) /\ PostSend(c, type, env, size, msg).items = <<item>>
    BY DEF PostSend, Posts
  <1>3. h \in Envelope
    <2>1. c.rdma_credit \in Nat
      BY DEF Connection
    <2>2. QED
      BY <2>1 DEF Header, Envelope
  <1>4. item \in Item
    BY <1>2, <1>3, PacketType
  <1>5. b \in Connection
    <2>1. c.tosend + 1 \in Nat \ {0}
      BY DEF Connection
    <2>2. \A t \in Nat \ {0} :
              [[c EXCEPT !.tosend = t] EXCEPT !.rdma_credit = 0] \in Connection
      BY DEF Connection
    <2>3. QED
      BY <1>1, <2>1, <2>2
  <1>6. /\ item.via = "queue" /\ item.pkt = pkt
        /\ pkt.id = c.tosend /\ pkt.type = type /\ pkt.msg = msg
        /\ pkt.header = h
    BY <1>2 DEF OnQueue, Packet
  <1> HIDE DEF h, pkt
  <1>7. /\ b.tosend = c.tosend + 1 /\ b.rdma_credit = 0
        /\ b.expected = c.expected /\ b.send_ring = c.send_ring
        /\ b.cached_incoming = c.cached_incoming /\ b.ptail = c.ptail
        /\ b.phead = c.phead /\ b.busy = c.busy /\ b.shandle = c.shandle
        /\ b.cached_outgoing = c.cached_outgoing
        /\ b.recv_ring = c.recv_ring /\ b.free = c.free
        /\ b.p_recv = c.p_recv /\ b.p_recv_tail = c.p_recv_tail
    BY <1>1 DEF Connection
  <1>8. SendsItem(c, b, item)
    BY <1>6, <1>7 DEF SendsItem, BufferPart
  <1>9. QED
    BY <1>2, <1>4, <1>5, <1>6, <1>7, <1>8 DEF h

LEMMA PostRingFacts ==
    ASSUME NEW c \in Connection, NEW pkt \in Packets, pkt.id = c.tosend,
           FastRdmaOk(c), NEW b, NEW item,
           b = PostRing(c, pkt).conn, item = PostRing(c, pkt).items[1]
    PROVE  /\ PostRing(c, pkt).items = <<item>>
           /\ b \in Connection /\ item \in Item /\ SendsItem(c, b, item)
           /\ item.via = "ring" /\ item.pkt = pkt
           /\ b.cached_outgoing = c.cached_outgoing
           /\ b.recv_ring = c.recv_ring /\ b.free = c.free
           /\ b.p_recv = c.p_recv /\ b.p_recv_tail = c.p_recv_tail
  <1> DEFINE a == [[c EXCEPT !.tosend = @ + 1] EXCEPT !.rdma_credit = 0]
  <1>1. b = [a EXCEPT !.busy = @ \cup {c.phead},
                      !.shandle[c.phead] = pkt.msg,
                      !.phead = After(@, 1)]
    BY DEF PostRing, Posts, Numbered, CreditsTaken
  <1>2. item = OnRing(c.phead, pkt) /\ PostRing(c, pkt).items = <<item>>
    BY DEF PostRing, Posts
  <1>3. c.phead \in Slot /\ After(c.phead, 1) \in Slot
    <2>1. c.phead \in Slot
      BY DEF Connection
    <2>2. c.phead + 1 \in Int
      BY <2>1 DEF Slot
    <2>3. QED
      BY <2>1, <2>2, SlotOf DEF After
  <1>4. item \in Item /\ item.slot = c.phead /\ item.via = "ring" /\ item.pkt = pkt
    BY <1>2, <1>3 DEF OnRing, Item
  <1>5. /\ a \in Connection /\ a.tosend = c.tosend + 1 /\ a.rdma_credit = 0
        /\ a.expected = c.expected /\ a.send_ring = c.send_ring
        /\ a.cached_incoming = c.cached_incoming /\ a.ptail = c.ptail
        /\ a.phead = c.phead /\ a.busy = c.busy /\ a.shandle = c.shandle
        /\ a.cached_outgoing = c.cached_outgoing
        /\ a.recv_ring = c.recv_ring /\ a.free = c.free
        /\ a.p_recv = c.p_recv /\ a.p_recv_tail = c.p_recv_tail
    <2>1. c.tosend + 1 \in Nat \ {0}
      BY DEF Connection
    <2>2. QED
      BY <2>1 DEF Connection
  <1> HIDE DEF a
  <1>6. pkt.msg \in Nat
    BY DEF Packets
  <1>7. [a.shandle EXCEPT ![c.phead] = pkt.msg] \in [Slot -> Nat]
    BY <1>5, <1>6 DEF Connection
  <1>8. b \in Connection
    <2> DEFINE B == a.busy \cup {c.phead}
               S == [a.shandle EXCEPT ![c.phead] = pkt.msg]
               h == After(a.phead, 1)
    <2>1. B \in SUBSET Slot /\ S \in [Slot -> Nat] /\ h \in Slot
      BY <1>3, <1>5, <1>7 DEF Connection
    <2>2. b = [a EXCEPT !.busy = B, !.shandle = S, !.phead = h]
      BY <1>1
    <2> HIDE DEF B, S, h
    <2>3. [a EXCEPT !.busy = B, !.shandle = S, !.phead = h] \in Connection
      BY <1>5, <2>1 DEF Connection
    <2>4. QED
      BY <2>2, <2>3
  <1>9. /\ b.tosend = c.tosend + 1 /\ b.rdma_credit = 0
        /\ b.expected = c.expected /\ b.send_ring = c.send_ring
        /\ b.cached_incoming = c.cached_incoming /\ b.ptail = c.ptail
        /\ b.phead = After(c.phead, 1) /\ b.busy = c.busy \cup {c.phead}
        /\ b.shandle = [c.shandle EXCEPT ![c.phead] = pkt.msg]
        /\ b.cached_outgoing = c.cached_outgoing
        /\ b.recv_ring = c.recv_ring /\ b.free = c.free
        /\ b.p_recv = c.p_recv /\ b.p_recv_tail = c.p_recv_tail
    BY <1>1, <1>5 DEF Connection
  <1>10. SendsItem(c, b, item)
    BY <1>4, <1>9 DEF SendsItem
  <1>11. QED
    BY <1>2, <1>4, <1>8, <1>9, <1>10

LEMMA EagerPosts ==
    ASSUME NEW c \in Connection, NEW env \in Headers, NEW size \in Sizes,
           NEW msg \in Nat
    PROVE  \E b \in Connection, item \in Item :
               /\ EagerPost(c, env, size, msg).conn = b
               /\ EagerPost(c, env, size, msg).items = <<item>>
               /\ SendsMessage(c, b, item, msg)
  <1> DEFINE h == Header(env, c.rdma_credit)
  <1> DEFINE r == EagerPost(c, env, size, msg)
  <1>1. h \in Envelope /\ h.credit = c.rdma_credit
    <2>1. c.rdma_credit \in Nat
      BY DEF Connection
    <2>2. QED
      BY <2>1 DEF Header, Envelope
  <1>2. CASE ~FastRdmaOk(c) \/ size = "queue"
    <2> DEFINE s == PostSend(c, "start", env, size, msg)
    <2> DEFINE b == s.conn
    <2> DEFINE item == s.items[1]
    <2>1. r = s
      BY <1>2 DEF EagerPost
    <2>2. /\ s.items = <<item>>
          /\ b \in Connection /\ item \in Item /\ SendsItem(c, b, item)
          /\ item.via = "queue" /\ item.pkt.type = "start"
          /\ item.pkt.msg = msg /\ item.pkt.header = h
          /\ b.cached_outgoing = c.cached_outgoing
          /\ b.recv_ring = c.recv_ring /\ b.free = c.free
          /\ b.p_recv = c.p_recv /\ b.p_recv_tail = c.p_recv_tail
      BY PostSendFacts
    <2>3. r.conn = b
      BY <2>1
    <2>4. r.items = <<item>>
      BY <2>1, <2>2
    <2> HIDE DEF s, b, item, h, r
    <2>5. SendsMessage(c, b, item, msg)
      BY <1>1, <2>2 DEF SendsMessage
    <2>6. QED
      BY <2>2, <2>3, <2>4, <2>5 DEF r
  <1>3. CASE FastRdmaOk(c) /\ size = "short" /\ IsHeaderCached(c.cached_outgoing, h)
    <2> DEFINE pkt == Packet(c, "cached", h, size, msg)
    <2> DEFINE s == PostRing(c, pkt)
    <2> DEFINE b == s.conn
    <2> DEFINE item == s.items[1]
    <2>1. r = s
      BY <1>3 DEF EagerPost
    <2>2. /\ pkt \in Packets /\ pkt.id = c.tosend /\ pkt.type = "cached"
          /\ pkt.header = h /\ pkt.msg = msg
      BY <1>1, PacketType DEF Packet
    <2> HIDE DEF pkt
    <2>3. /\ s.items = <<item>>
          /\ b \in Connection /\ item \in Item /\ SendsItem(c, b, item)
          /\ item.via = "ring" /\ item.pkt = pkt
          /\ b.cached_outgoing = c.cached_outgoing
          /\ b.recv_ring = c.recv_ring /\ b.free = c.free
          /\ b.p_recv = c.p_recv /\ b.p_recv_tail = c.p_recv_tail
      BY <1>3, <2>2, PostRingFacts
    <2>4. r.conn = b
      BY <2>1
    <2>5. r.items = <<item>>
      BY <2>1, <2>3
    <2>6. c.cached_outgoing = h
      BY <1>3 DEF IsHeaderCached
    <2> HIDE DEF s, b, item, h, r
    <2>7. SendsMessage(c, b, item, msg)
      BY <1>1, <2>2, <2>3, <2>6 DEF SendsMessage
    <2>8. QED
      BY <2>3, <2>4, <2>5, <2>7 DEF r
  <1>4. CASE /\ FastRdmaOk(c) /\ size # "queue"
             /\ ~(size = "short" /\ IsHeaderCached(c.cached_outgoing, h))
    <2> DEFINE pkt == Packet(c, "start", h, size, msg)
    <2> DEFINE a == IF size = "short" THEN [c EXCEPT !.cached_outgoing = h] ELSE c
    <2> DEFINE s == PostRing(a, pkt)
    <2> DEFINE b == s.conn
    <2> DEFINE item == s.items[1]
    <2>1. r = s
      BY <1>4 DEF EagerPost
    <2>2. /\ pkt \in Packets /\ pkt.id = c.tosend /\ pkt.type = "start"
          /\ pkt.header = h /\ pkt.msg = msg /\ pkt.size = size
      BY <1>1, PacketType DEF Packet
    <2>3. /\ a \in Connection
          /\ a.cached_outgoing = IF size = "short" THEN h ELSE c.cached_outgoing
          /\ a.tosend = c.tosend /\ a.rdma_credit = c.rdma_credit
          /\ a.recv_ring = c.recv_ring /\ a.free = c.free
          /\ a.p_recv = c.p_recv /\ a.p_recv_tail = c.p_recv_tail
          /\ ReceiverPart(a, c) /\ BufferPart(a, c)
      BY <1>1 DEF Connection, ReceiverPart, BufferPart
    <2>4. FastRdmaOk(a)
      BY <1>4, <2>3 DEF FastRdmaOk, ReceiverPart, BufferPart
    <2> HIDE DEF pkt, a
    <2>5. /\ s.items = <<item>>
          /\ b \in Connection /\ item \in Item /\ SendsItem(a, b, item)
          /\ item.via = "ring" /\ item.pkt = pkt
          /\ b.cached_outgoing = a.cached_outgoing
          /\ b.recv_ring = a.recv_ring /\ b.free = a.free
          /\ b.p_recv = a.p_recv /\ b.p_recv_tail = a.p_recv_tail
      BY <2>2, <2>3, <2>4, PostRingFacts
    <2>6. r.conn = b
      BY <2>1
    <2>7. r.items = <<item>>
      BY <2>1, <2>5
    <2> HIDE DEF s, b, item, h, r
    <2>8. SendsItem(c, b, item)
      BY <1>4, <2>3, <2>5 DEF SendsItem, ReceiverPart, BufferPart
    <2>9. b.cached_outgoing =
              IF /\ item.pkt.type = "start" /\ item.pkt.size = "short"
                 /\ item.via = "ring"
              THEN item.pkt.header ELSE c.cached_outgoing
      BY <2>2, <2>3, <2>5
    <2>10. SendsMessage(c, b, item, msg)
      BY <1>1, <2>2, <2>3, <2>5, <2>8, <2>9 DEF SendsMessage
    <2>11. QED
      BY <2>5, <2>6, <2>7, <2>10 DEF r
  <1>5. QED
    BY <1>2, <1>3, <1>4

\* c becomes b when it accepts pkt.
Accepts(c, b, pkt, via) ==
    /\ b.expected = c.expected + 1
    /\ b.cached_incoming =
           IF pkt.type = "start" /\ pkt.size = "short" /\ via = "ring"
           THEN pkt.header ELSE c.cached_incoming
    /\ pkt.type = "address" =>
           b.send_ring = TRUE /\ b.phead = 0 /\ b.ptail = N - 1
    /\ pkt.type # "address" =>
           /\ b.send_ring = c.send_ring /\ b.phead = c.phead
           /\ b.ptail = Absorbed(c.ptail, pkt.header.credit)
    /\ BufferPart(b, c)

\* c becomes b when it allocates its ring and sends the address.
OpensRing(c, b, item) ==
    /\ item.via = "queue" /\ item.pkt.type = "address"
    /\ item.pkt.id = c.tosend /\ item.pkt.header.credit = 0
    /\ ~c.recv_ring
    /\ b.recv_ring = TRUE /\ b.p_recv = 0 /\ b.p_recv_tail = N - 1
    /\ b.tosend = c.tosend + 1 /\ b.rdma_credit = 0
    /\ b.free = c.free /\ b.cached_outgoing = c.cached_outgoing

LEMMA AbsorbFacts ==
    ASSUME NEW c \in Connection, NEW pkt \in Packets,
           pkt.header.credit \in 0 .. N - 1,
           pkt.type = "cached" => pkt.header = c.cached_incoming,
           NEW a,
           a = AbsorbCredits(Accepted(c, pkt), HeaderOf(c, pkt).credit)
    PROVE  /\ a \in Connection /\ a.expected = c.expected + 1
           /\ a.ptail = Absorbed(c.ptail, pkt.header.credit)
           /\ a.cached_incoming = c.cached_incoming
           /\ a.send_ring = c.send_ring /\ a.phead = c.phead
           /\ SenderPart(a, c) /\ BufferPart(a, c)
  <1> DEFINE credit == pkt.header.credit
  <1> DEFINE t == Absorbed(c.ptail, credit)
  <1> DEFINE e == c.expected + 1
  <1>1. HeaderOf(c, pkt).credit = credit
    BY DEF HeaderOf
  <1>2. c.ptail \in Slot /\ c.expected \in Nat \ {0}
    BY DEF Connection
  <1>3. t \in Slot /\ e \in Nat \ {0}
    BY <1>2, RingAssumption DEF Absorbed, Slot
  <1>4. a = [[c EXCEPT !.expected = e] EXCEPT !.ptail = t]
    <2>1. [c EXCEPT !.expected = e].ptail = c.ptail
      BY DEF Connection
    <2>2. QED
      BY <1>1, <2>1 DEF AbsorbCredits, Accepted, Absorbed, Connection
  <1> HIDE DEF t, e
  <1>5. [[c EXCEPT !.expected = e] EXCEPT !.ptail = t] \in Connection
    BY <1>3 DEF Connection
  <1>6. /\ a.expected = e /\ a.ptail = t
        /\ a.cached_incoming = c.cached_incoming
        /\ a.send_ring = c.send_ring /\ a.phead = c.phead
        /\ SenderPart(a, c) /\ BufferPart(a, c)
    BY <1>4 DEF Connection, SenderPart, BufferPart
  <1>7. QED
    BY <1>4, <1>5, <1>6 DEF t, e

LEMMA ReceiveFromRing ==
    ASSUME NEW c \in Connection, NEW pkt \in Packets,
           pkt.header.credit \in 0 .. N - 1,
           pkt.type = "cached" => pkt.header = c.cached_incoming,
           pkt.type # "address", c.recv_ring
    PROVE  \E b \in Connection :
               /\ Receive(c, pkt, "ring") = Posts(b, << >>)
               /\ Accepts(c, b, pkt, "ring") /\ SenderPart(b, c)
  <1> DEFINE a == AbsorbCredits(Accepted(c, pkt), HeaderOf(c, pkt).credit)
  <1> DEFINE b == IF pkt.type = "start" THEN KeepHeader(a, pkt, "ring") ELSE a
  <1>1. /\ a \in Connection /\ a.expected = c.expected + 1
        /\ a.ptail = Absorbed(c.ptail, pkt.header.credit)
        /\ a.cached_incoming = c.cached_incoming
        /\ a.send_ring = c.send_ring /\ a.phead = c.phead
        /\ SenderPart(a, c) /\ BufferPart(a, c)
    BY AbsorbFacts
  <1>2. pkt.type \in {"start", "cached"} /\ pkt.header \in Envelope
    BY DEF Packets
  <1>3. Receive(c, pkt, "ring") = Posts(b, << >>)
    <2>1. a.recv_ring
      BY <1>1 DEF SenderPart
    <2>2. CASE pkt.type = "start"
      <3>1. FastPathAlloc(a) = Posts(a, << >>)
        BY <2>1 DEF FastPathAlloc
      <3>2. FastPathAlloc(a).conn = a /\ FastPathAlloc(a).items = << >>
        BY <3>1 DEF Posts
      <3>3. Receive(c, pkt, "ring") =
                Posts(KeepHeader(FastPathAlloc(a).conn, pkt, "ring"),
                      FastPathAlloc(a).items)
        BY <2>2 DEF Receive
      <3>4. QED
        BY <2>2, <3>2, <3>3
    <2>3. CASE pkt.type = "cached"
      BY <2>3 DEF Receive
    <2>4. QED
      BY <1>2, <2>2, <2>3
  <1> HIDE DEF a
  <1>4. /\ b \in Connection
        /\ b.cached_incoming = IF pkt.type = "start" /\ pkt.size = "short"
                               THEN pkt.header ELSE a.cached_incoming
        /\ b.expected = a.expected /\ b.ptail = a.ptail
        /\ b.send_ring = a.send_ring /\ b.phead = a.phead
        /\ SenderPart(b, a) /\ BufferPart(b, a)
    BY <1>1, <1>2 DEF KeepHeader, Connection, SenderPart, BufferPart
  <1> HIDE DEF b
  <1>5. SenderPart(b, c) /\ BufferPart(b, c)
    BY <1>1, <1>4 DEF SenderPart, BufferPart
  <1>6. Accepts(c, b, pkt, "ring")
    BY <1>1, <1>4, <1>5 DEF Accepts
  <1>7. QED
    BY <1>3, <1>4, <1>5, <1>6

LEMMA ReceiveAddress ==
    ASSUME NEW c \in Connection, NEW pkt \in Packets,
           pkt.header.credit \in 0 .. N - 1, pkt.type = "address"
    PROVE  \E b \in Connection :
               /\ Receive(c, pkt, "queue") = Posts(b, << >>)
               /\ Accepts(c, b, pkt, "queue")
               /\ b.rdma_credit = 0
               /\ SenderPart(b, [c EXCEPT !.rdma_credit = 0])
  <1> DEFINE a == AbsorbCredits(Accepted(c, pkt), HeaderOf(c, pkt).credit)
  <1> DEFINE b == AllocSend(a)
  <1>1. /\ a \in Connection /\ a.expected = c.expected + 1
        /\ a.cached_incoming = c.cached_incoming
        /\ SenderPart(a, c) /\ BufferPart(a, c)
    BY AbsorbFacts
  <1>2. Receive(c, pkt, "queue") = Posts(b, << >>)
    BY DEF Receive
  <1> HIDE DEF a
  <1>3. 0 \in Slot /\ N - 1 \in Slot
    BY RingAssumption DEF Slot
  <1>4. b \in Connection
    BY <1>1, <1>3 DEF AllocSend, Connection
  <1>5. /\ b.expected = a.expected /\ b.cached_incoming = a.cached_incoming
        /\ b.send_ring = TRUE /\ b.phead = 0 /\ b.ptail = N - 1
        /\ b.rdma_credit = 0 /\ BufferPart(b, a)
        /\ SenderPart(b, [a EXCEPT !.rdma_credit = 0])
    BY <1>1 DEF AllocSend, Connection, SenderPart, BufferPart
  <1> HIDE DEF b
  <1>6. BufferPart(b, c) /\ SenderPart(b, [c EXCEPT !.rdma_credit = 0])
    BY <1>1, <1>5 DEF SenderPart, BufferPart, Connection
  <1>7. Accepts(c, b, pkt, "queue")
    BY <1>1, <1>5, <1>6 DEF Accepts
  <1>8. QED
    BY <1>2, <1>4, <1>5, <1>6, <1>7

LEMMA ReceiveMessage ==
    ASSUME NEW c \in Connection, NEW pkt \in Packets,
           pkt.header.credit \in 0 .. N - 1, pkt.type = "start"
    PROVE  \E b \in Connection :
               /\ Accepts(c, b, pkt, "queue")
               /\ \/ /\ Receive(c, pkt, "queue") = Posts(b, << >>)
                     /\ SenderPart(b, c)
                  \/ \E item \in Item :
                         /\ Receive(c, pkt, "queue") = Posts(b, <<item>>)
                         /\ OpensRing(c, b, item)
  <1> DEFINE a == AbsorbCredits(Accepted(c, pkt), HeaderOf(c, pkt).credit)
  <1>1. /\ a \in Connection /\ a.expected = c.expected + 1
        /\ a.ptail = Absorbed(c.ptail, pkt.header.credit)
        /\ a.cached_incoming = c.cached_incoming
        /\ a.send_ring = c.send_ring /\ a.phead = c.phead
        /\ SenderPart(a, c) /\ BufferPart(a, c)
    BY AbsorbFacts
  <1>2. \A x : KeepHeader(x, pkt, "queue") = x
    BY DEF KeepHeader
  <1>3. Receive(c, pkt, "queue") =
            Posts(FastPathAlloc(a).conn, FastPathAlloc(a).items)
    <2>1. Receive(c, pkt, "queue") =
              Posts(KeepHeader(FastPathAlloc(a).conn, pkt, "queue"),
                    FastPathAlloc(a).items)
      BY DEF Receive
    <2>2. QED
      BY <1>2, <2>1
  <1> HIDE DEF a
  <1>4. CASE c.recv_ring
    <2>1. a.recv_ring
      BY <1>1, <1>4 DEF SenderPart
    <2>2. FastPathAlloc(a).conn = a /\ FastPathAlloc(a).items = << >>
      BY <2>1 DEF FastPathAlloc, Posts
    <2>3. Accepts(c, a, pkt, "queue")
      BY <1>1 DEF Accepts
    <2>4. QED
      BY <1>1, <1>3, <2>2, <2>3
  <1>5. CASE ~c.recv_ring
    <2> DEFINE d == AllocRecv(a)
    <2> DEFINE s == PostSend(d, "address", 0, "queue", 0)
    <2> DEFINE b == s.conn
    <2> DEFINE item == s.items[1]
    <2>1. ~a.recv_ring
      BY <1>1, <1>5 DEF SenderPart
    <2>2. FastPathAlloc(a) = s
      BY <2>1 DEF FastPathAlloc
    <2>3. 0 \in Slot /\ N - 1 \in Slot
      BY RingAssumption DEF Slot
    <2>4. d \in Connection
      BY <1>1, <2>3 DEF AllocRecv, Connection
    <2>5. /\ d.recv_ring = TRUE /\ d.p_recv = 0 /\ d.p_recv_tail = N - 1
          /\ d.rdma_credit = 0 /\ d.tosend = a.tosend /\ d.free = a.free
          /\ d.cached_outgoing = a.cached_outgoing
          /\ ReceiverPart(d, a) /\ BufferPart(d, a)
      BY <1>1 DEF AllocRecv, Connection, ReceiverPart, BufferPart
    <2> HIDE DEF d
    <2>6. /\ s.items = <<item>>
          /\ b \in Connection /\ item \in Item /\ SendsItem(d, b, item)
          /\ item.via = "queue" /\ item.pkt.type = "address"
          /\ item.pkt.msg = 0 /\ item.pkt.header = Header(0, d.rdma_credit)
          /\ b.cached_outgoing = d.cached_outgoing
          /\ b.recv_ring = d.recv_ring /\ b.free = d.free
          /\ b.p_recv = d.p_recv /\ b.p_recv_tail = d.p_recv_tail
      <3>1. 0 \in Headers /\ "queue" \in Sizes /\ 0 \in Nat
        BY RingAssumption DEF Sizes
      <3>2. QED
        BY <2>4, <3>1, PostSendFacts
    <2>7. FastPathAlloc(a).conn = b
      BY <2>2
    <2>8. FastPathAlloc(a).items = <<item>>
      BY <2>2, <2>6
    <2> HIDE DEF s, b, item
    <2>9. /\ b.expected = d.expected /\ b.send_ring = d.send_ring
          /\ b.cached_incoming = d.cached_incoming
          /\ b.phead = d.phead /\ b.ptail = d.ptail
          /\ BufferPart(b, d) /\ b.tosend = d.tosend + 1 /\ b.rdma_credit = 0
          /\ item.pkt.id = d.tosend
      BY <2>6 DEF SendsItem
    <2>10. item.pkt.header.credit = 0
      BY <2>5, <2>6 DEF Header
    <2>11. Accepts(c, b, pkt, "queue")
      BY <1>1, <2>5, <2>9 DEF Accepts, ReceiverPart, BufferPart
    <2>12. OpensRing(c, b, item)
      BY <1>1, <1>5, <2>5, <2>6, <2>9, <2>10 DEF OpensRing, SenderPart
    <2>13. QED
      BY <1>3, <2>6, <2>7, <2>8, <2>11, <2>12
  <1>6. QED
    BY <1>4, <1>5

\* The receiver's end of a direction after a packet.
\* What a process of connection c knows, and what it knows after b.
Learns(c, b, pkt, knows, knowsNow) ==
    /\ knows.ring = c.send_ring /\ knows.header = c.cached_incoming
    /\ knowsNow.ring = b.send_ring /\ knowsNow.header = b.cached_incoming
    /\ knowsNow.count = IF pkt.type = "address" THEN knows.count
                        ELSE knows.count + 1

LEMMA AcceptEnd ==
    ASSUME NEW n \in Nat, NEW e \in Nat \ {0}, e + 1 <= n,
           NEW view \in [Nat -> Knowledge], NEW pkt \in Packets, NEW via,
           pkt.id = e, Tells(view, pkt, via),
           NEW H \in Nat, NEW R \in Nat, NEW U \in Nat, NEW limit \in Int,
           limit <= U,
           NEW c \in Connection, NEW b \in Connection, NEW d,
           Stretches(c, d, H, view[e].tail, R, U),
           Accepts(c, b, pkt, via),
           NEW says \in End, NEW knows \in End, NEW knowsNow \in End,
           Ends(view, n, e, says, knows, limit),
           Learns(c, b, pkt, knows, knowsNow)
    PROVE  /\ Ends(view, n, e + 1, says, knowsNow, limit)
           /\ Stretches(b, d, H, view[e + 1].tail, R, U)
  <1> DEFINE v == view[e]
  <1> DEFINE y == view[e + 1]
  <1>1. v \in Knowledge /\ y \in Knowledge
    OBVIOUS
  <1>2. y = Told(v, pkt, via) /\ Sound(v, pkt, via)
    BY DEF Tells
  <1>3. SameView(v, knows) /\ Within(y, says, limit)
    <2>1. e + 1 \in e .. n
      OBVIOUS
    <2>2. QED
      BY <2>1 DEF Ends
  <1> HIDE DEF v, y
  <1>4. SameView(y, knowsNow)
    <2>1. y.count = knowsNow.count
      BY <1>2, <1>3 DEF Told, SameView, Learns
    <2>2. y.header = knowsNow.header
      BY <1>2, <1>3 DEF Told, SameView, Accepts, Learns
    <2>3. y.ring = knowsNow.ring
      BY <1>2, <1>3 DEF Told, SameView, Accepts, Learns
    <2>4. QED
      BY <2>1, <2>2, <2>3 DEF SameView
  <1>5. Ends(view, n, e + 1, says, knowsNow, limit)
    BY <1>4, EndsAccept DEF y
  <1>6. pkt.header.credit \in Nat /\ y.tail = v.tail + pkt.header.credit
    BY <1>1, <1>2, ToldType
  <1>7. v.tail \in Nat /\ v.tail + pkt.header.credit <= U
    <2>1. v.tail \in Nat /\ y.tail \in Nat
      BY <1>1 DEF Knowledge
    <2>2. y.tail <= limit
      BY <1>3 DEF Within
    <2>3. QED
      BY <1>6, <2>1, <2>2
  <1>8. Stretches(c, d, H, v.tail, R, U)
    BY DEF v
  <1>9. Stretches(b, d, H, v.tail + pkt.header.credit, R, U)
    <2>1. CASE pkt.type = "address"
      <3>1. ~c.send_ring
        BY <1>2, <1>3, <2>1 DEF Sound, SameView, Learns
      <3>2. b.send_ring /\ b.phead = 0 /\ b.ptail = N - 1
        BY <2>1 DEF Accepts
      <3>3. QED
        BY <1>6, <1>7, <1>8, <3>1, <3>2, AddressStretches
    <2>2. CASE pkt.type # "address"
      <3>1. /\ b.send_ring = c.send_ring /\ b.phead = c.phead
            /\ b.ptail = Absorbed(c.ptail, pkt.header.credit)
        BY <2>2 DEF Accepts
      <3>2. QED
        BY <1>6, <1>7, <1>8, <3>1, AcceptStretches
    <2>3. QED
      BY <2>1, <2>2
  <1>10. QED
    BY <1>5, <1>6, <1>9 DEF y

-----------------------------------------------------------------------------
(* The state, one process at a time.                                       *)

LEMMA TypeAt ==
    ASSUME FPTypeOK, NEW p \in Proc
    PROVE  /\ conn[p] \in Connection /\ wire[p] \in Seq(Item)
           /\ ring[p] \in [Slot -> Place] /\ cq[p] \in Seq(Packets)
           /\ completions[p] \in Seq(Write) /\ waiting[p] \in Place
           /\ unexpected[p] \in SUBSET Slot /\ lost[p] \in Nat
           /\ submitted[<<p, Peer(p)>>] \in Nat
           /\ received[<<Peer(p), p>>] \in Seq(Nat)
           /\ conn[p].tosend \in Nat \ {0} /\ conn[p].expected \in Nat \ {0}
           /\ conn[p].rdma_credit \in Nat /\ conn[p].free \in SUBSET Slot
           /\ conn[p].shandle \in [Slot -> Nat]
           /\ conn[p].cached_outgoing \in Envelope
           /\ conn[p].cached_incoming \in Envelope
           /\ Says(p) \in End /\ Knows(p) \in End
  <1>1. /\ conn[p] \in Connection /\ wire[p] \in Seq(Item)
        /\ ring[p] \in [Slot -> Place] /\ cq[p] \in Seq(Packets)
        /\ completions[p] \in Seq(Write) /\ waiting[p] \in Place
        /\ unexpected[p] \in SUBSET Slot /\ lost[p] \in Nat
    BY DEF FPTypeOK
  <1>2. submitted[<<p, Peer(p)>>] \in Nat /\ received[<<Peer(p), p>>] \in Seq(Nat)
    <2>1. Peer(p) \in Proc
      BY PeerFacts
    <2>2. <<p, Peer(p)>> \in Proc \X Proc /\ <<Peer(p), p>> \in Proc \X Proc
      BY <2>1
    <2>3. QED
      BY <2>2 DEF FPTypeOK
  <1>3. /\ conn[p].tosend \in Nat \ {0} /\ conn[p].expected \in Nat \ {0}
        /\ conn[p].rdma_credit \in Nat /\ conn[p].free \in SUBSET Slot
        /\ conn[p].shandle \in [Slot -> Nat]
        /\ conn[p].cached_outgoing \in Envelope
        /\ conn[p].cached_incoming \in Envelope
    BY <1>1 DEF Connection
  <1>4. conn[p].recv_ring \in BOOLEAN /\ conn[p].send_ring \in BOOLEAN
    BY <1>1 DEF Connection
  <1>5. Says(p) \in End
    BY <1>2, <1>3, <1>4 DEF Says, End
  <1>6. Knows(p) \in End
    <2>1. Len(received[<<Peer(p), p>>]) \in Nat
      BY <1>2
    <2>2. QED
      BY <1>3, <1>4, <2>1 DEF Knows, End
  <1>7. QED
    BY <1>1, <1>2, <1>3, <1>5, <1>6

LEMMA TypeNext ==
    ASSUME FPTypeOK', NEW p \in Proc
    PROVE  /\ Says(p)' \in End /\ Knows(p)' \in End
           /\ conn'[p].rdma_credit \in Nat
  <1>1. conn'[p] \in Connection
    BY DEF FPTypeOK
  <1>2. /\ submitted'[<<p, Peer(p)>>] \in Nat
        /\ received'[<<Peer(p), p>>] \in Seq(Nat)
    <2>1. <<p, Peer(p)>> \in Proc \X Proc /\ <<Peer(p), p>> \in Proc \X Proc
      BY PeerFacts
    <2>2. QED
      BY <2>1 DEF FPTypeOK
  <1>3. /\ conn'[p].rdma_credit \in Nat
        /\ conn'[p].cached_outgoing \in Envelope
        /\ conn'[p].cached_incoming \in Envelope
    BY <1>1 DEF Connection
  <1>4. conn'[p].recv_ring \in BOOLEAN /\ conn'[p].send_ring \in BOOLEAN
    BY <1>1 DEF Connection
  <1>5. Says(p)' \in End
    BY <1>2, <1>3, <1>4 DEF Says, End
  <1>6. Knows(p)' \in End
    <2>1. Len(received'[<<Peer(p), p>>]) \in Nat
      BY <1>2
    <2>2. QED
      BY <1>3, <1>4, <2>1 DEF Knows, End
  <1>7. QED
    BY <1>3, <1>5, <1>6

LEMMA InvariantAt ==
    ASSUME IInv, NEW p \in Proc
    PROVE  /\ InTurn(p) /\ InTurn(Peer(p))
           /\ Accounted(p) /\ Accounted(Peer(p))
           /\ InUse(conn[p], wire[p], completions[p])
           /\ InUse(conn[Peer(p)], wire[Peer(p)], completions[Peer(p)])
           /\ FPTypeOK /\ HandedInOrder
  BY PeerFacts DEF IInv

LEMMA Assemble ==
    ASSUME NEW p \in Proc, FPTypeOK', HandedInOrder',
           InTurn(p)', InTurn(Peer(p))', Accounted(p)', Accounted(Peer(p))',
           InUse(conn[p], wire[p], completions[p])',
           InUse(conn[Peer(p)], wire[Peer(p)], completions[Peer(p)])'
    PROVE  IInv'
  BY PeerFacts DEF IInv

LEMMA InTurnKept ==
    ASSUME NEW p \in Proc, InTurn(p),
           conn'[p].tosend = conn[p].tosend,
           conn'[Peer(p)].expected = conn[Peer(p)].expected,
           wire'[p] = wire[p], ring'[Peer(p)] = ring[Peer(p)],
           cq'[Peer(p)] = cq[Peer(p)], waiting'[Peer(p)] = waiting[Peer(p)]
    PROVE  InTurn(p)'
  BY DEF InTurn

LEMMA StretchesKept ==
    ASSUME NEW c, NEW d, NEW H, NEW T, NEW R, NEW U,
           Stretches(c, d, H, T, R, U), NEW a, NEW b,
           a.send_ring = c.send_ring, a.phead = c.phead, a.ptail = c.ptail,
           b.recv_ring = d.recv_ring, b.p_recv = d.p_recv,
           b.p_recv_tail = d.p_recv_tail
    PROVE  Stretches(a, b, H, T, R, U)
  BY DEF Stretches

LEMMA AccountKept ==
    ASSUME NEW p \in Proc, NEW view, NEW H, NEW R, NEW U,
           Account(p, view, H, R, U),
           SenderPart(conn'[p], conn[p]),
           ReceiverPart(conn'[Peer(p)], conn[Peer(p)]),
           wire'[p] = wire[p], ring'[Peer(p)] = ring[Peer(p)],
           cq'[Peer(p)] = cq[Peer(p)], waiting'[Peer(p)] = waiting[Peer(p)],
           wire'[Peer(p)] = wire[Peer(p)], ring'[p] = ring[p],
           unexpected'[p] = unexpected[p],
           submitted'[<<p, Peer(p)>>] = submitted[<<p, Peer(p)>>],
           received'[<<p, Peer(p)>>] = received[<<p, Peer(p)>>]
    PROVE  Account(p, view, H, R, U)'
  <1> DEFINE q == Peer(p)
  <1>1. Says(p)' = Says(p)
    BY DEF Says, SenderPart
  <1>2. Knows(q)' = Knows(q)
    <2>1. Peer(q) = p
      BY PeerFacts
    <2>2. QED
      BY <2>1 DEF Knows, ReceiverPart
  <1>3. /\ conn'[p].tosend = conn[p].tosend
        /\ conn'[p].rdma_credit = conn[p].rdma_credit
        /\ conn'[p].free = conn[p].free
        /\ conn'[q].expected = conn[q].expected
    BY DEF SenderPart, ReceiverPart
  <1>4. Stretches(conn'[q], conn'[p], H, view[conn'[q].expected].tail, R, U)
    <2>1. Stretches(conn[q], conn[p], H, view[conn[q].expected].tail, R, U)
      BY DEF Account
    <2>2. QED
      BY <1>3, <2>1 DEF Stretches, SenderPart, ReceiverPart
  <1>5. QED
    BY <1>1, <1>2, <1>3, <1>4 DEF Account

-----------------------------------------------------------------------------
(* The sender's end of a direction after a packet.                         *)

\* limitNow has room for credit more buffers than limit.
Raises(limit, credit, limitNow) == limit + credit <= limitNow

\* What is known after a packet: later takes the place of view.
Posted(view, n, e, w, g, k, x, item, saysNow, knows, limitNow) ==
    \E later : /\ Extends(view, later, n, e, item)
               /\ PacketsTell(later, Append(w, item), g, k, x)
               /\ Ends(later, n + 1, e, saysNow, knows, limitNow)

LEMMA PostEnd ==
    ASSUME NEW n \in Nat, NEW e \in Nat \ {0}, NEW w \in Seq(Item),
           NEW g \in [Slot -> Place], NEW k \in Seq(Packets), NEW x \in Place,
           InSequence(n, e, w, g, k, x),
           NEW view \in [Nat -> Knowledge], PacketsTell(view, w, g, k, x),
           NEW item \in Item, item.pkt.id = n,
           NEW says \in End, NEW knows \in End, NEW saysNow \in End,
           NEW limit \in Int, NEW limitNow \in Int,
           Raises(limit, item.pkt.header.credit, limitNow),
           Ends(view, n, e, says, knows, limit),
           Sound(view[n], item.pkt, item.via),
           SameView(Told(view[n], item.pkt, item.via), saysNow)
    PROVE  Posted(view, n, e, w, g, k, x, item, saysNow, knows, limitNow)
  <1>1. PICK later : /\ Extends(view, later, n, e, item)
                     /\ PacketsTell(later, Append(w, item), g, k, x)
    BY PostTells
  <1>2. /\ later \in [Nat -> Knowledge]
        /\ \A i \in e .. n : later[i] = view[i]
        /\ later[n + 1] = Told(view[n], item.pkt, item.via)
    BY <1>1 DEF Extends
  <1>3. e <= n
    BY NumbersBelow
  <1>4. item.pkt \in Packets
    BY DEF Item
  <1>5. item.pkt.header.credit \in Nat /\ view[n].tail \in Nat
    <2>1. view[n] \in Knowledge
      OBVIOUS
    <2>2. QED
      BY <1>4, <2>1, ToldType DEF Knowledge
  <1>6. view[n].tail <= limit
    <2>1. n \in e .. n
      BY <1>3
    <2>2. QED
      BY <2>1 DEF Ends, Within
  <1>7. view[n].tail + item.pkt.header.credit <= limitNow /\ limit <= limitNow
    <2> DEFINE h == item.pkt.header.credit
               t == view[n].tail
    <2>1. /\ h \in Nat /\ t \in Nat /\ t <= limit
          /\ limit \in Int /\ limitNow \in Int
      BY <1>5, <1>6
    <2>2. limit + h <= limitNow
      BY DEF Raises
    <2> HIDE DEF h, t
    <2>3. t + h <= limitNow /\ limit <= limitNow
      BY <2>1, <2>2
    <2>4. QED
      BY <2>3 DEF h, t
  <1>8. SameView(later[n + 1], saysNow)
    BY <1>2
  <1>9. Ends(later, n + 1, e, saysNow, knows, limitNow)
    BY <1>2, <1>3, <1>4, <1>6, <1>7, <1>8, EndsPost
  <1>10. QED
    BY <1>1, <1>9 DEF Posted

-----------------------------------------------------------------------------
(* What an action leaves of the account of a direction.                    *)

\* p posts a packet; the other side does nothing.
LEMMA PostAccount ==
    ASSUME NEW p \in Proc, FPTypeOK, FPTypeOK', InTurn(p),
           NEW view \in [Nat -> Knowledge],
           NEW H \in Nat, NEW R \in Nat, NEW U \in Nat,
           Account(p, view, H, R, U),
           NEW item \in Item, item.pkt.id = conn[p].tosend,
           item.pkt.header.credit <= conn[p].rdma_credit,
           conn'[p].tosend = conn[p].tosend + 1, conn'[p].rdma_credit = 0,
           wire'[p] = Append(wire[p], item),
           conn'[Peer(p)] = conn[Peer(p)], ring'[Peer(p)] = ring[Peer(p)],
           cq'[Peer(p)] = cq[Peer(p)], waiting'[Peer(p)] = waiting[Peer(p)],
           Knows(Peer(p))' = Knows(Peer(p)),
           Sound(view[conn[p].tosend], item.pkt, item.via),
           SameView(Told(view[conn[p].tosend], item.pkt, item.via), Says(p)'),
           \A T \in Nat : Stretches(conn[Peer(p)], conn[p], H, T, R, U) =>
                          Stretches(conn[Peer(p)], conn'[p], H, T, R, U),
           Buffers(ring'[p], wire'[Peer(p)], conn'[p].free, unexpected'[p],
                   H, R, U)
    PROVE  Accounted(p)'
  <1> DEFINE q == Peer(p)
             n == conn[p].tosend
             e == conn[q].expected
  <1>1. q \in Proc
    BY PeerFacts
  <1>2. /\ n \in Nat /\ e \in Nat \ {0} /\ wire[p] \in Seq(Item)
        /\ ring[q] \in [Slot -> Place] /\ cq[q] \in Seq(Packets)
        /\ waiting[q] \in Place /\ conn[p].rdma_credit \in Nat
        /\ Says(p) \in End /\ Knows(q) \in End
    BY <1>1, TypeAt
  <1>3. Says(p)' \in End
    BY TypeNext
  <1>4. InSequence(n, e, wire[p], ring[q], cq[q], waiting[q])
    BY DEF InTurn
  <1>5. /\ PacketsTell(view, wire[p], ring[q], cq[q], waiting[q])
        /\ Ends(view, n, e, Says(p), Knows(q), U - conn[p].rdma_credit)
        /\ Stretches(conn[q], conn[p], H, view[e].tail, R, U)
    BY DEF Account
  <1>6. conn'[q].expected = e /\ conn'[p].tosend = n + 1
    OBVIOUS
  <1> HIDE DEF q, n, e
  <1>7. ASSUME NEW saysNow \in End,
               SameView(Told(view[n], item.pkt, item.via), saysNow)
        PROVE  \E later :
               /\ Extends(view, later, n, e, item)
               /\ PacketsTell(later, Append(wire[p], item), ring[q], cq[q],
                              waiting[q])
               /\ Ends(later, n + 1, e, saysNow, Knows(q), U)
    <2>1. item.pkt.id = n /\ item.pkt.header.credit <= conn[p].rdma_credit
          /\ Sound(view[n], item.pkt, item.via)
      BY DEF n
    <2>2. item.pkt.header.credit \in Nat
      BY DEF Item, Packets, Envelope
    <2>3. /\ U - conn[p].rdma_credit \in Int /\ U \in Int
          /\ Raises(U - conn[p].rdma_credit, item.pkt.header.credit, U)
      BY <1>2, <2>1, <2>2 DEF Raises
    <2>4. QED
      <3>1. Posted(view, n, e, wire[p], ring[q], cq[q], waiting[q], item,
                   saysNow, Knows(q), U)
        BY <1>2, <1>4, <1>5, <1>7, <2>1, <2>3, PostEnd
      <3>2. QED
        BY <3>1 DEF Posted
  <1>8. PICK later :
               /\ Extends(view, later, n, e, item)
               /\ PacketsTell(later, Append(wire[p], item), ring[q], cq[q],
                              waiting[q])
               /\ Ends(later, n + 1, e, Says(p)', Knows(q), U)
    BY <1>3, <1>7 DEF n
  <1>9. later \in [Nat -> Knowledge] /\ later[e] = view[e]
    <2>1. e <= n
      BY <1>2, <1>4, NumbersBelow
    <2>2. e \in e .. n
      BY <1>2, <2>1
    <2>3. QED
      BY <1>8, <2>2 DEF Extends
  <1>10. view[e].tail \in Nat
    BY <1>2 DEF Knowledge
  <1>11. U - conn'[p].rdma_credit = U
    OBVIOUS
  <1>12. Stretches(conn[q], conn'[p], H, later[e].tail, R, U)
    BY <1>5, <1>9, <1>10 DEF q
  <1>13. Account(p, later, H, R, U)'
    BY <1>6, <1>8, <1>11, <1>12 DEF Account, q
  <1>14. QED
    BY <1>9, <1>13 DEF Accounted

\* p works on its own ring, or does nothing to this direction.
LEMMA RingOwnerAccount ==
    ASSUME NEW p \in Proc, FPTypeOK, FPTypeOK',
           NEW view \in [Nat -> Knowledge],
           NEW H \in Nat, NEW R \in Nat, NEW U \in Nat,
           Account(p, view, H, R, U), NEW r \in Nat, NEW u \in Nat,
           U - conn[p].rdma_credit <= u - conn'[p].rdma_credit,
           conn'[p].tosend = conn[p].tosend, Says(p)' = Says(p),
           wire'[p] = wire[p],
           conn'[Peer(p)] = conn[Peer(p)], ring'[Peer(p)] = ring[Peer(p)],
           cq'[Peer(p)] = cq[Peer(p)], waiting'[Peer(p)] = waiting[Peer(p)],
           Knows(Peer(p))' = Knows(Peer(p)),
           \A T \in Nat : Stretches(conn[Peer(p)], conn[p], H, T, R, U) =>
                          Stretches(conn[Peer(p)], conn'[p], H, T, r, u),
           Buffers(ring'[p], wire'[Peer(p)], conn'[p].free, unexpected'[p],
                   H, r, u)
    PROVE  Account(p, view, H, r, u)'
  <1> DEFINE q == Peer(p)
             n == conn[p].tosend
             e == conn[q].expected
  <1>1. q \in Proc
    BY PeerFacts
  <1>2. /\ n \in Nat /\ e \in Nat \ {0} /\ conn[p].rdma_credit \in Nat
        /\ Says(p) \in End /\ Knows(q) \in End
    BY <1>1, TypeAt
  <1>3. conn'[p].rdma_credit \in Nat
    BY TypeNext
  <1>5. /\ PacketsTell(view, wire[p], ring[q], cq[q], waiting[q])
        /\ Ends(view, n, e, Says(p), Knows(q), U - conn[p].rdma_credit)
        /\ Stretches(conn[q], conn[p], H, view[e].tail, R, U)
    BY DEF Account
  <1>6. conn'[q].expected = e /\ conn'[p].tosend = n
    OBVIOUS
  <1> HIDE DEF q, n, e
  <1>7. U - conn[p].rdma_credit \in Int /\ u - conn'[p].rdma_credit \in Int
    BY <1>2, <1>3
  <1>8. Ends(view, n, e, Says(p), Knows(q), u - conn'[p].rdma_credit)
    BY <1>2, <1>5, <1>7, EndsLimit
  <1>9. view[e].tail \in Nat
    BY <1>2 DEF Knowledge
  <1>10. Stretches(conn[q], conn'[p], H, view[e].tail, r, u)
    BY <1>5, <1>9 DEF q
  <1>11. QED
    BY <1>5, <1>6, <1>8, <1>10 DEF Account, q

-----------------------------------------------------------------------------
(* One process changes what belongs to it.                                 *)

LEMMA Concatenation ==
    ASSUME NEW S, NEW w \in Seq(S), NEW x \in S
    PROVE  /\ w \o <<x>> = Append(w, x) /\ Append(w, x) \in Seq(S)
           /\ w \o << >> = w
  OBVIOUS

\* Types survive when p puts typed values into what is its own.
LEMMA TypeKept ==
    ASSUME FPTypeOK,
           conn' \in [Proc -> Connection], wire' \in [Proc -> Seq(Item)],
           ring' \in [Proc -> [Slot -> Place]], cq' \in [Proc -> Seq(Packets)],
           completions' \in [Proc -> Seq(Write)],
           waiting' \in [Proc -> Place],
           unexpected' \in [Proc -> SUBSET Slot], lost' \in [Proc -> Nat],
           submitted' \in [Proc \X Proc -> Nat],
           received' \in [Proc \X Proc -> Seq(Nat)]
    PROVE  FPTypeOK'
  BY DEF FPTypeOK

-----------------------------------------------------------------------------
(* A message is sent.                                                      *)

LEMMA EagerSendPosts ==
    ASSUME FPTypeOK, NEW p \in Proc, NEW env \in Headers, NEW size \in Sizes,
           EagerSend(p, env, size)
    PROVE  \E b \in Connection, item \in Item :
               /\ conn' = [conn EXCEPT ![p] = b]
               /\ wire' = [wire EXCEPT ![p] = Append(wire[p], item)]
               /\ submitted' = [submitted EXCEPT ![<<p, Peer(p)>>] =
                                    submitted[<<p, Peer(p)>>] + 1]
               /\ SendsMessage(conn[p], b, item,
                               submitted[<<p, Peer(p)>>] + 1)
  <1> DEFINE n == submitted[<<p, Peer(p)>>] + 1
  <1>1. /\ conn[p] \in Connection /\ wire[p] \in Seq(Item) /\ n \in Nat
    <2>1. submitted[<<p, Peer(p)>>] \in Nat
      BY TypeAt
    <2>2. n \in Nat
      BY <2>1
    <2>3. QED
      BY <2>2, TypeAt
  <1>2. /\ Done(p, EagerPost(conn[p], env, size, n))
        /\ submitted' = [submitted EXCEPT ![<<p, Peer(p)>>] = n]
    BY DEF EagerSend
  <1> HIDE DEF n
  <1>3. PICK b \in Connection, item \in Item :
               /\ EagerPost(conn[p], env, size, n).conn = b
               /\ EagerPost(conn[p], env, size, n).items = <<item>>
               /\ SendsMessage(conn[p], b, item, n)
    BY <1>1, EagerPosts
  <1>4. conn' = [conn EXCEPT ![p] = b]
    BY <1>2, <1>3 DEF Done
  <1>5. wire' = [wire EXCEPT ![p] = Append(wire[p], item)]
    <2>1. wire' = [wire EXCEPT ![p] = wire[p] \o <<item>>]
      BY <1>2, <1>3 DEF Done
    <2>2. wire[p] \o <<item>> = Append(wire[p], item)
      BY <1>1, Concatenation
    <2>3. QED
      BY <2>1, <2>2
  <1>6. QED
    BY <1>2, <1>3, <1>4, <1>5 DEF n

LEMMA EagerSendStep ==
    ASSUME IInv, NEW p \in Proc, NEW env \in Headers, NEW size \in Sizes,
           EagerSend(p, env, size)
    PROVE  IInv'
  <1> DEFINE q == Peer(p)
             c == conn[p]
             n == submitted[<<p, q>>] + 1
  <1>1. /\ FPTypeOK /\ HandedInOrder /\ InTurn(p) /\ InTurn(q)
        /\ Accounted(p) /\ Accounted(q)
        /\ InUse(conn[p], wire[p], completions[p])
        /\ InUse(conn[q], wire[q], completions[q])
    BY InvariantAt
  <1>2. q \in Proc /\ Peer(q) = p /\ p # q
    BY PeerFacts
  <1>3. PICK b \in Connection, item \in Item :
               /\ conn' = [conn EXCEPT ![p] = b]
               /\ wire' = [wire EXCEPT ![p] = Append(wire[p], item)]
               /\ submitted' = [submitted EXCEPT ![<<p, q>>] = n]
               /\ SendsMessage(c, b, item, n)
    BY <1>1, EagerSendPosts
  <1>4. UNCHANGED <<ring, cq, completions, waiting, unexpected, lost, received>>
    BY DEF EagerSend
  <1>5. /\ c \in Connection /\ wire[p] \in Seq(Item)
        /\ wire[q] \in Seq(Item) /\ completions[p] \in Seq(Write)
        /\ c.tosend \in Nat /\ c.rdma_credit \in Nat
        /\ c.shandle \in [Slot -> Nat] /\ conn[q].expected \in Nat \ {0}
        /\ submitted[<<p, q>>] \in Nat
    BY <1>1, <1>2, TypeAt
  <1>6. /\ conn \in [Proc -> Connection] /\ wire \in [Proc -> Seq(Item)]
        /\ submitted \in [Proc \X Proc -> Nat]
    BY <1>1 DEF FPTypeOK
  <1>7. /\ conn' \in [Proc -> Connection] /\ conn'[p] = b
        /\ conn'[q] = conn[q]
    BY <1>2, <1>3, <1>6
  <1>8. /\ wire' \in [Proc -> Seq(Item)] /\ wire'[q] = wire[q]
        /\ wire'[p] = Append(wire[p], item)
    <2>1. Append(wire[p], item) \in Seq(Item)
      BY <1>5, AppendFacts
    <2>2. QED
      BY <1>2, <1>3, <1>6, <2>1
  <1>9. n \in Nat
    BY <1>5
  <1> HIDE DEF n
  <1>10. /\ submitted' \in [Proc \X Proc -> Nat]
         /\ submitted'[<<p, q>>] = n
         /\ submitted'[<<q, p>>] = submitted[<<q, p>>]
    BY <1>2, <1>3, <1>9, <1>6
  <1>11. FPTypeOK'
    BY <1>1, <1>4, <1>7, <1>8, <1>10, TypeKept DEF FPTypeOK
  <1>12. SendsMessage(c, b, item, n)
    BY <1>3
  <1>13. /\ SendsItem(c, b, item)
         /\ b.tosend = c.tosend + 1 /\ b.rdma_credit = 0
         /\ item.pkt.id = c.tosend
         /\ b.expected = c.expected /\ b.send_ring = c.send_ring
         /\ b.cached_incoming = c.cached_incoming /\ b.ptail = c.ptail
         /\ b.recv_ring = c.recv_ring /\ b.free = c.free
         /\ b.p_recv = c.p_recv /\ b.p_recv_tail = c.p_recv_tail
    BY <1>12 DEF SendsMessage, SendsItem
  <1>14. item.via \in {"queue", "ring"} /\ item.slot \in Slot
    BY DEF Item
  <1>15. Knows(p)' = Knows(p) /\ Knows(q)' = Knows(q) /\ Says(q)' = Says(q)
    BY <1>2, <1>4, <1>7, <1>10, <1>13 DEF Knows, Says
  <1>16. Says(p)' = [count |-> n, ring |-> b.recv_ring,
                     header |-> b.cached_outgoing]
    BY <1>7, <1>10 DEF Says
  <1>17. InTurn(p)'
    <2>1. InSequence(c.tosend, conn[q].expected, wire[p], ring[q], cq[q],
                     waiting[q])
      BY <1>1 DEF InTurn
    <2>2. /\ ring[q] \in [Slot -> Place] /\ cq[q] \in Seq(Packets)
          /\ waiting[q] \in Place
      BY <1>1, <1>2, TypeAt
    <2> HIDE DEF q, c
    <2>3. InSequence(c.tosend + 1, conn[q].expected, Append(wire[p], item),
                     ring[q], cq[q], waiting[q])
      BY <1>5, <1>13, <2>1, <2>2, PostInSequence
    <2>4. QED
      BY <1>4, <1>7, <1>8, <1>13, <2>3 DEF InTurn, q, c
  <1>18. InTurn(q)'
    BY <1>1, <1>2, <1>4, <1>7, <1>8, <1>13, InTurnKept
  <1>19. Accounted(p)'
    <2>1. PICK view \in [Nat -> Knowledge], H, R, U \in Nat :
              Account(p, view, H, R, U)
      BY <1>1 DEF Accounted
    <2>2. /\ Ends(view, c.tosend, conn[q].expected, Says(p), Knows(q),
                  U - conn[p].rdma_credit)
          /\ Buffers(ring[p], wire[q], c.free, unexpected[p], H, R, U)
      BY <2>1 DEF Account
    <2> DEFINE v == view[c.tosend]
    <2>3. /\ v.count = submitted[<<p, q>>] /\ v.ring = c.recv_ring
          /\ v.header = c.cached_outgoing
      BY <2>2 DEF Ends, SameView, Says
    <2> HIDE DEF v
    <2>4. Sound(v, item.pkt, item.via)
      BY <1>12, <2>3 DEF SendsMessage, Sound, n
    <2>5. SameView(Told(v, item.pkt, item.via), Says(p)')
      <3>1. item.pkt.type # "address"
        BY <1>12 DEF SendsMessage
      <3>2. v.count + 1 = n
        BY <2>3 DEF n
      <3>3. Told(v, item.pkt, item.via).count = n
        BY <3>1, <3>2 DEF Told
      <3>4. Told(v, item.pkt, item.via).header = b.cached_outgoing
        BY <1>12, <2>3 DEF SendsMessage, Told
      <3>5. Told(v, item.pkt, item.via).ring = b.recv_ring
        BY <1>13, <2>3, <3>1 DEF Told
      <3>6. QED
        BY <1>16, <3>3, <3>4, <3>5 DEF SameView
    <2>6. \A T \in Nat : Stretches(conn[q], c, H, T, R, U) =>
                         Stretches(conn[q], b, H, T, R, U)
      BY <1>13, StretchesKept
    <2>7. Buffers(ring'[p], wire'[q], b.free, unexpected'[p], H, R, U)
      BY <1>4, <1>8, <1>13, <2>2
    <2>8. item.pkt.header.credit <= c.rdma_credit
      BY <1>5, <1>12 DEF SendsMessage
    <2>9. QED
      BY <1>1, <1>4, <1>7, <1>8, <1>11, <1>15, <1>13, <2>1, <2>4, <2>5, <2>6,
         <2>7, <2>8, PostAccount DEF v
  <1>20. Accounted(q)'
    <2>1. PICK view \in [Nat -> Knowledge], H, R, U \in Nat :
              Account(q, view, H, R, U)
      BY <1>1 DEF Accounted
    <2> DEFINE T == view[c.expected].tail
    <2>2. /\ PacketsTell(view, wire[q], ring[p], cq[p], waiting[p])
          /\ Ends(view, conn[q].tosend, c.expected, Says(q), Knows(p),
                  U - conn[q].rdma_credit)
          /\ Stretches(c, conn[q], H, T, R, U)
          /\ Buffers(ring[q], wire[p], conn[q].free, unexpected[q], H, R, U)
      BY <1>2, <2>1 DEF Account
    <2>3. /\ ring[q] \in [Slot -> Place] /\ conn[q].free \in SUBSET Slot
          /\ unexpected[q] \in SUBSET Slot
      BY <1>1, <1>2, TypeAt
    <2>4. T \in Nat
      BY <1>1, TypeAt DEF Knowledge
    <2> HIDE DEF T, q, c
    <2>5. ASSUME NEW h \in Nat, Stretches(b, conn[q], h, T, R, U),
                 Buffers(ring[q], Append(wire[p], item), conn[q].free,
                         unexpected[q], h, R, U)
          PROVE  Accounted(q)'
      <3>1. view[b.expected].tail = T
        BY <1>13 DEF T
      <3>2. Account(q, view, h, R, U)'
        BY <1>2, <1>4, <1>7, <1>8, <1>15, <1>13, <2>2, <2>5, <3>1
        DEF Account, q, c
      <3>3. QED
        BY <2>1, <2>5, <3>2 DEF Accounted
    <2>6. CASE item.via = "queue"
      <3>1. b.phead = c.phead
        BY <1>13, <2>6 DEF SendsItem
      <3>2. Stretches(b, conn[q], H, T, R, U)
        BY <1>13, <2>2, <3>1, StretchesKept
      <3>3. Buffers(ring[q], Append(wire[p], item), conn[q].free,
                    unexpected[q], H, R, U)
        BY <1>5, <2>2, <2>3, <2>6, QueueBuffers
      <3>4. QED
        BY <2>1, <2>5, <3>2, <3>3
    <2>7. CASE item.via = "ring"
      <3>1. /\ FastRdmaOk(c) /\ item.slot = c.phead
            /\ b.phead = After(c.phead, 1)
        BY <1>13, <2>7 DEF SendsItem
      <3>2. /\ Stretches(b, conn[q], H + 1, T, R, U)
            /\ c.phead = H % N /\ R <= H /\ H < R + N
        BY <1>13, <2>1, <2>2, <2>4, <3>1, WriteStretches
      <3>3. Buffers(ring[q], Append(wire[p], item), conn[q].free,
                    unexpected[q], H + 1, R, U)
        BY <1>5, <2>1, <2>2, <2>3, <2>7, <3>1, <3>2, WriteBuffers
      <3>4. H + 1 \in Nat
        BY <2>1
      <3>5. QED
        BY <2>5, <3>2, <3>3, <3>4
    <2>8. QED
      BY <1>14, <2>6, <2>7
  <1>21. InUse(conn[p], wire[p], completions[p])'
    <2>1. InUse(b, Append(wire[p], item), completions[p])
      <3>1. CASE item.via = "queue"
        BY <1>1, <1>5, <1>13, <3>1, QueueInUse DEF SendsItem, BufferPart
      <3>2. CASE item.via = "ring"
        <4>1. /\ b.busy = c.busy \cup {item.slot}
              /\ b.shandle = [c.shandle EXCEPT ![item.slot] = item.pkt.msg]
              /\ item.slot \notin c.busy
          BY <1>13, <3>2 DEF SendsItem, FastRdmaOk
        <4>2. QED
          BY <1>1, <1>5, <3>2, <4>1, WriteInUse
      <3>3. QED
        BY <1>14, <3>1, <3>2
    <2>2. QED
      BY <1>4, <1>7, <1>8, <2>1
  <1>22. InUse(conn[q], wire[q], completions[q])'
    BY <1>1, <1>4, <1>7, <1>8
  <1>23. HandedInOrder'
    BY <1>1, <1>4 DEF HandedInOrder
  <1>24. QED
    BY <1>11, <1>17, <1>18, <1>19, <1>20, <1>21, <1>22, <1>23, Assemble

-----------------------------------------------------------------------------
(* A packet is placed.                                                     *)

LEMMA LandRingStep ==
    ASSUME IInv, NEW p \in Proc, Land(p), Head(wire[p]).via = "ring"
    PROVE  IInv'
  <1> DEFINE q == Peer(p)
             item == Head(wire[p])
             write == [slot |-> item.slot, msg |-> item.pkt.msg]
             done == Append(completions[p], write)
             filled == [ring[q] EXCEPT ![item.slot] = item.pkt]
             rest == Tail(wire[p])
  <1>1. /\ FPTypeOK /\ HandedInOrder /\ InTurn(p) /\ InTurn(q)
        /\ Accounted(p) /\ Accounted(q)
        /\ InUse(conn[p], wire[p], completions[p])
        /\ InUse(conn[q], wire[q], completions[q])
    BY InvariantAt
  <1>2. q \in Proc /\ Peer(q) = p /\ p # q
    BY PeerFacts
  <1>3. /\ wire[p] # << >>
        /\ wire' = [wire EXCEPT ![p] = rest]
        /\ ring' = [ring EXCEPT ![q] = filled]
        /\ completions' = [completions EXCEPT ![p] = done]
        /\ UNCHANGED <<conn, cq, waiting, unexpected, lost, submitted, received>>
    BY DEF Land
  <1>4. /\ wire[p] \in Seq(Item) /\ ring[q] \in [Slot -> Place]
        /\ completions[p] \in Seq(Write) /\ cq[q] \in Seq(Packets)
        /\ waiting[q] \in Place /\ conn[p].tosend \in Nat
        /\ conn[q].expected \in Nat \ {0}
    BY <1>1, <1>2, TypeAt
  <1>5. item \in Item /\ rest \in Seq(Item)
    BY <1>3, <1>4, TailFacts
  <1>6. item.slot \in Slot /\ item.pkt \in Packets /\ item.pkt.msg \in Nat
    BY <1>5 DEF Item, Packets
  <1>7. filled \in [Slot -> Place]
    BY <1>4, <1>6, PlaceFacts
  <1>8. done \in Seq(Write)
    BY <1>4, <1>6 DEF Write
  <1>9. /\ wire \in [Proc -> Seq(Item)] /\ ring \in [Proc -> [Slot -> Place]]
        /\ completions \in [Proc -> Seq(Write)]
    BY <1>1 DEF FPTypeOK
  <1> HIDE DEF item, write, done, filled, rest
  <1>10. /\ wire' \in [Proc -> Seq(Item)] /\ wire'[p] = rest
         /\ wire'[q] = wire[q]
    BY <1>2, <1>3, <1>5, <1>9
  <1>11. /\ ring' \in [Proc -> [Slot -> Place]] /\ ring'[q] = filled
         /\ ring'[p] = ring[p]
    BY <1>2, <1>3, <1>7, <1>9
  <1>12. /\ completions' \in [Proc -> Seq(Write)] /\ completions'[p] = done
         /\ completions'[q] = completions[q]
    BY <1>2, <1>3, <1>8, <1>9
  <1>13. FPTypeOK'
    BY <1>1, <1>3, <1>10, <1>11, <1>12, TypeKept DEF FPTypeOK
  <1>14. /\ Says(p)' = Says(p) /\ Says(q)' = Says(q)
         /\ Knows(p)' = Knows(p) /\ Knows(q)' = Knows(q)
    BY <1>3 DEF Says, Knows
  <1>15. PICK view \in [Nat -> Knowledge], H, R, U \in Nat :
             Account(q, view, H, R, U)
    BY <1>1 DEF Accounted
  <1>16. /\ ring[q][item.slot] = None
         /\ Buffers(filled, rest, conn[q].free, unexpected[q], H, R, U)
    <2>1. Buffers(ring[q], wire[p], conn[q].free, unexpected[q], H, R, U)
      BY <1>2, <1>15 DEF Account
    <2>2. QED
      BY <1>3, <1>4, <2>1, LandRingBuffers DEF item, filled, rest
  <1>17. Accounted(q)'
    <2>1. Account(q, view, H, R, U)'
      BY <1>2, <1>3, <1>10, <1>11, <1>14, <1>15, <1>16 DEF Account
    <2>2. QED
      BY <1>15, <2>1 DEF Accounted
  <1>18. Accounted(p)'
    <2>1. PICK viewp \in [Nat -> Knowledge], Hp, Rp, Up \in Nat :
             Account(p, viewp, Hp, Rp, Up)
      BY <1>1 DEF Accounted
    <2>2. PacketsTell(viewp, rest, filled, cq[q], waiting[q])
      <3>1. PacketsTell(viewp, wire[p], ring[q], cq[q], waiting[q])
        BY <2>1 DEF Account
      <3>2. QED
        BY <1>3, <1>4, <1>6, <3>1, LandRingTells DEF item, filled, rest
    <2>3. Account(p, viewp, Hp, Rp, Up)'
      BY <1>2, <1>3, <1>10, <1>11, <1>14, <2>1, <2>2 DEF Account
    <2>4. QED
      BY <2>1, <2>3 DEF Accounted
  <1>19. InTurn(p)'
    <2>1. InSequence(conn[p].tosend, conn[q].expected, wire[p], ring[q],
                     cq[q], waiting[q])
      BY <1>1 DEF InTurn
    <2>2. InSequence(conn[p].tosend, conn[q].expected, rest, filled,
                     cq[q], waiting[q])
      BY <1>3, <1>4, <1>6, <1>16, <2>1, LandRingInSequence
      DEF item, filled, rest
    <2>3. QED
      BY <1>3, <1>10, <1>11, <2>2 DEF InTurn
  <1>20. InTurn(q)'
    BY <1>1, <1>2, <1>3, <1>10, <1>11, InTurnKept
  <1>21. InUse(conn[p], wire[p], completions[p])'
    <2>1. InUse(conn[p], rest, done)
      BY <1>1, <1>3, <1>4, LandRingInUse DEF item, rest, done, write
    <2>2. QED
      BY <1>3, <1>10, <1>12, <2>1
  <1>22. InUse(conn[q], wire[q], completions[q])'
    BY <1>1, <1>3, <1>10, <1>12
  <1>23. HandedInOrder'
    BY <1>1, <1>3 DEF HandedInOrder
  <1>24. QED
    BY <1>13, <1>17, <1>18, <1>19, <1>20, <1>21, <1>22, <1>23, Assemble

LEMMA LandQueueStep ==
    ASSUME IInv, NEW p \in Proc, Land(p), Head(wire[p]).via # "ring"
    PROVE  IInv'
  <1> DEFINE q == Peer(p)
             pkt == Head(wire[p]).pkt
             longer == Append(cq[q], pkt)
             rest == Tail(wire[p])
  <1>1. /\ FPTypeOK /\ HandedInOrder /\ InTurn(p) /\ InTurn(q)
        /\ Accounted(p) /\ Accounted(q)
        /\ InUse(conn[p], wire[p], completions[p])
        /\ InUse(conn[q], wire[q], completions[q])
    BY InvariantAt
  <1>2. q \in Proc /\ Peer(q) = p /\ p # q
    BY PeerFacts
  <1>3. /\ wire[p] # << >>
        /\ wire' = [wire EXCEPT ![p] = rest]
        /\ cq' = [cq EXCEPT ![q] = longer]
        /\ UNCHANGED <<conn, ring, completions, waiting, unexpected, lost,
                       submitted, received>>
    BY DEF Land
  <1>4. /\ wire[p] \in Seq(Item) /\ ring[q] \in [Slot -> Place]
        /\ cq[q] \in Seq(Packets)
        /\ waiting[q] \in Place /\ conn[p].tosend \in Nat
        /\ conn[q].expected \in Nat \ {0}
    BY <1>1, <1>2, TypeAt
  <1>5. Head(wire[p]) \in Item /\ rest \in Seq(Item)
    BY <1>3, <1>4, TailFacts
  <1>6. pkt \in Packets /\ Head(wire[p]).via = "queue"
    BY <1>5 DEF Item
  <1>7. longer \in Seq(Packets)
    BY <1>4, <1>6
  <1>9. wire \in [Proc -> Seq(Item)] /\ cq \in [Proc -> Seq(Packets)]
    BY <1>1 DEF FPTypeOK
  <1> HIDE DEF pkt, longer, rest
  <1>10. /\ wire' \in [Proc -> Seq(Item)] /\ wire'[p] = rest
         /\ wire'[q] = wire[q]
    BY <1>2, <1>3, <1>5, <1>9
  <1>11. /\ cq' \in [Proc -> Seq(Packets)] /\ cq'[q] = longer
         /\ cq'[p] = cq[p]
    BY <1>2, <1>3, <1>7, <1>9
  <1>13. FPTypeOK'
    BY <1>1, <1>3, <1>10, <1>11, TypeKept DEF FPTypeOK
  <1>14. /\ Says(p)' = Says(p) /\ Says(q)' = Says(q)
         /\ Knows(p)' = Knows(p) /\ Knows(q)' = Knows(q)
    BY <1>3 DEF Says, Knows
  <1>17. Accounted(q)'
    <2>1. PICK view \in [Nat -> Knowledge], H, R, U \in Nat :
              Account(q, view, H, R, U)
      BY <1>1 DEF Accounted
    <2>2. Buffers(ring[q], rest, conn[q].free, unexpected[q], H, R, U)
      <3>1. Buffers(ring[q], wire[p], conn[q].free, unexpected[q], H, R, U)
        BY <1>2, <2>1 DEF Account
      <3>2. QED
        BY <1>3, <1>4, <3>1, LandQueueBuffers DEF rest
    <2>3. Account(q, view, H, R, U)'
      BY <1>2, <1>3, <1>10, <1>11, <1>14, <2>1, <2>2 DEF Account
    <2>4. QED
      BY <2>1, <2>3 DEF Accounted
  <1>18. Accounted(p)'
    <2>1. PICK view \in [Nat -> Knowledge], H, R, U \in Nat :
             Account(p, view, H, R, U)
      BY <1>1 DEF Accounted
    <2>2. PacketsTell(view, rest, ring[q], longer, waiting[q])
      <3>1. PacketsTell(view, wire[p], ring[q], cq[q], waiting[q])
        BY <2>1 DEF Account
      <3>2. QED
        BY <1>3, <1>4, <1>6, <3>1, LandQueueTells DEF pkt, longer, rest
    <2>3. Account(p, view, H, R, U)'
      BY <1>2, <1>3, <1>10, <1>11, <1>14, <2>1, <2>2 DEF Account
    <2>4. QED
      BY <2>1, <2>3 DEF Accounted
  <1>19. InTurn(p)'
    <2>1. InSequence(conn[p].tosend, conn[q].expected, wire[p], ring[q],
                     cq[q], waiting[q])
      BY <1>1 DEF InTurn
    <2>2. InSequence(conn[p].tosend, conn[q].expected, rest, ring[q],
                     longer, waiting[q])
      BY <1>3, <1>4, <2>1, LandQueueInSequence DEF pkt, longer, rest
    <2>3. QED
      BY <1>3, <1>10, <1>11, <2>2 DEF InTurn
  <1>20. InTurn(q)'
    BY <1>1, <1>2, <1>3, <1>10, <1>11, InTurnKept
  <1>21. InUse(conn[p], wire[p], completions[p])'
    <2>1. InUse(conn[p], rest, completions[p])
      BY <1>1, <1>3, <1>4, LandQueueInUse DEF rest
    <2>2. QED
      BY <1>3, <1>10, <2>1
  <1>22. InUse(conn[q], wire[q], completions[q])'
    BY <1>1, <1>3, <1>10
  <1>23. HandedInOrder'
    BY <1>1, <1>3 DEF HandedInOrder
  <1>24. QED
    BY <1>13, <1>17, <1>18, <1>19, <1>20, <1>21, <1>22, <1>23, Assemble

-----------------------------------------------------------------------------
(* The completion of a write is polled.                                    *)

LEMMA ProcessSendStep ==
    ASSUME IInv, NEW p \in Proc, ProcessSend(p)
    PROVE  IInv'
  <1> DEFINE q == Peer(p)
             c == conn[p]
             freed == c.busy \ {Head(completions[p]).slot}
             b == [c EXCEPT !.busy = freed]
             rest == Tail(completions[p])
  <1>1. /\ FPTypeOK /\ HandedInOrder /\ InTurn(p) /\ InTurn(q)
        /\ Accounted(p) /\ Accounted(q)
        /\ InUse(conn[p], wire[p], completions[p])
        /\ InUse(conn[q], wire[q], completions[q])
    BY InvariantAt
  <1>2. q \in Proc /\ Peer(q) = p /\ p # q
    BY PeerFacts
  <1>3. /\ completions[p] # << >>
        /\ conn' = [conn EXCEPT ![p] = b]
        /\ completions' = [completions EXCEPT ![p] = rest]
        /\ UNCHANGED <<wire, ring, cq, waiting, unexpected, lost, submitted,
                       received>>
    BY DEF ProcessSend
  <1>4. /\ c \in Connection /\ wire[p] \in Seq(Item)
        /\ completions[p] \in Seq(Write)
    BY <1>1, TypeAt
  <1>5. rest \in Seq(Write)
    BY <1>3, <1>4, TailFacts
  <1>6. /\ b \in Connection /\ b.busy = freed
        /\ SenderPart(b, c) /\ ReceiverPart(b, c) /\ b.shandle = c.shandle
    <2>1. freed \in SUBSET Slot
      BY <1>4 DEF Connection
    <2> HIDE DEF freed, c
    <2>2. b \in Connection
      BY <1>4, <2>1 DEF Connection
    <2>3. QED
      BY <1>4, <2>2 DEF Connection, SenderPart, ReceiverPart
  <1>7. /\ conn \in [Proc -> Connection]
        /\ completions \in [Proc -> Seq(Write)]
    BY <1>1 DEF FPTypeOK
  <1> HIDE DEF freed, b, c, rest
  <1>8. /\ conn' \in [Proc -> Connection] /\ conn'[p] = b
        /\ conn'[q] = conn[q]
    BY <1>2, <1>3, <1>6, <1>7
  <1>9. /\ completions' \in [Proc -> Seq(Write)] /\ completions'[p] = rest
        /\ completions'[q] = completions[q]
    BY <1>2, <1>3, <1>5, <1>7
  <1>10. FPTypeOK'
    BY <1>1, <1>3, <1>8, <1>9, TypeKept DEF FPTypeOK
  <1>11. /\ SenderPart(conn'[p], conn[p]) /\ ReceiverPart(conn'[p], conn[p])
         /\ SenderPart(conn'[q], conn[q]) /\ ReceiverPart(conn'[q], conn[q])
    BY <1>6, <1>8 DEF SenderPart, ReceiverPart, c
  <1>12. InTurn(p)' /\ InTurn(q)'
    BY <1>1, <1>2, <1>3, <1>11, InTurnKept DEF SenderPart, ReceiverPart
  <1>13. Accounted(p)'
    <2>1. PICK view \in [Nat -> Knowledge], H, R, U \in Nat :
             Account(p, view, H, R, U)
      BY <1>1 DEF Accounted
    <2>2. Account(p, view, H, R, U)'
      BY <1>2, <1>3, <1>11, <2>1, AccountKept
    <2>3. QED
      BY <2>1, <2>2 DEF Accounted
  <1>14. Accounted(q)'
    <2>1. PICK view \in [Nat -> Knowledge], H, R, U \in Nat :
             Account(q, view, H, R, U)
      BY <1>1 DEF Accounted
    <2>2. Account(q, view, H, R, U)'
      BY <1>2, <1>3, <1>11, <2>1, AccountKept
    <2>3. QED
      BY <2>1, <2>2 DEF Accounted
  <1>15. InUse(conn[p], wire[p], completions[p])'
    <2>1. InUse(b, wire[p], rest)
      BY <1>1, <1>3, <1>4, <1>6, SendInUse DEF freed, rest, c
    <2>2. QED
      BY <1>3, <1>8, <1>9, <2>1
  <1>16. InUse(conn[q], wire[q], completions[q])'
    BY <1>1, <1>3, <1>8, <1>9
  <1>17. HandedInOrder'
    BY <1>1, <1>3 DEF HandedInOrder
  <1>18. QED
    BY <1>10, <1>12, <1>13, <1>14, <1>15, <1>16, <1>17, Assemble

-----------------------------------------------------------------------------
(* Buffers are given back.                                                 *)

\* b is c when buffer s was released.
Released(b, c, s) ==
    /\ b \in Connection
    /\ b.rdma_credit = c.rdma_credit + Returned(c, s)
    /\ b.p_recv_tail = After(c.p_recv_tail, Returned(c, s))
    /\ b.free = (c.free \cup {s})
          \ {After(c.p_recv_tail, i) : i \in 1 .. Returned(c, s)}
    /\ b.tosend = c.tosend /\ b.recv_ring = c.recv_ring
    /\ b.cached_outgoing = c.cached_outgoing /\ b.p_recv = c.p_recv
    /\ ReceiverPart(b, c) /\ BufferPart(b, c)

LEMMA ReleaseFacts ==
    ASSUME NEW c \in Connection, NEW s \in Slot, Returned(c, s) \in 0 .. N,
           NEW b, b = ReleaseRecv(c, s)
    PROVE  Released(b, c, s)
  <1> DEFINE k == Returned(c, s)
             credit == c.rdma_credit + k
             tail == After(c.p_recv_tail, k)
             free == (c.free \cup {s})
                     \ {After(c.p_recv_tail, i) : i \in 1 .. k}
  <1>1. b = [c EXCEPT !.rdma_credit = credit, !.p_recv_tail = tail,
                      !.free = free]
    BY DEF ReleaseRecv
  <1>2. k \in 0 .. N
    OBVIOUS
  <1> HIDE DEF k
  <1>3. c.rdma_credit \in Nat /\ c.p_recv_tail \in Slot /\ c.free \in SUBSET Slot
    BY DEF Connection
  <1>4. credit \in Nat
    BY <1>3, <1>2
  <1>5. tail \in Slot
    <2>1. c.p_recv_tail + k \in Int
      BY <1>3, <1>2 DEF Slot
    <2>2. QED
      BY <2>1, SlotOf DEF After
  <1>6. free \in SUBSET Slot
    BY <1>3
  <1> HIDE DEF credit, tail, free
  <1>7. b \in Connection
    BY <1>1, <1>4, <1>5, <1>6 DEF Connection
  <1>8. /\ b.rdma_credit = credit /\ b.p_recv_tail = tail /\ b.free = free
    BY <1>1 DEF Connection
  <1>9. /\ b.tosend = c.tosend /\ b.recv_ring = c.recv_ring
        /\ b.cached_outgoing = c.cached_outgoing /\ b.p_recv = c.p_recv
        /\ ReceiverPart(b, c) /\ BufferPart(b, c)
    BY <1>1 DEF Connection, ReceiverPart, BufferPart
  <1>10. QED
    BY <1>7, <1>8, <1>9 DEF credit, tail, free, k, Released

\* The ring of a process when buffer s was released: c is the connection
\* before, b after, a that of the peer.
Keeps(a, b, c, s, g, w, u, H, R, U) ==
    \E k \in 0 .. N :
        /\ k = Returned(c, s) /\ U + k \in Nat
        /\ U - c.rdma_credit <= (U + k) - b.rdma_credit
        /\ \A t \in Nat : Stretches(a, c, H, t, R, U) =>
                          Stretches(a, b, H, t, R, U + k)
        /\ Buffers(g, w, b.free, u, H, R, U + k)

LEMMA ReleaseKeeps ==
    ASSUME NEW a, NEW c \in Connection, NEW s \in Slot, NEW b,
           b = ReleaseRecv(c, s), c.recv_ring,
           NEW g \in [Slot -> Place], NEW w \in Seq(Item),
           NEW u \in SUBSET Slot,
           NEW H \in Nat, NEW T \in Nat, NEW R \in Nat, NEW U \in Nat,
           Stretches(a, c, H, T, R, U),
           Buffers(g, w, c.free \cup {s}, u, H, R, U)
    PROVE  Keeps(a, b, c, s, g, w, u, H, R, U)
  <1> DEFINE k == Returned(c, s)
  <1>1. /\ R <= U /\ U < R + N /\ c.p_recv = R % N /\ c.p_recv_tail = U % N
    BY DEF Stretches
  <1>2. /\ k \in 0 .. N /\ U + k < R + N
        /\ \A i \in 1 .. k : (U + i) % N \in c.free \cup {s}
    BY <1>1, ReturnedFacts
  <1>3. /\ b.rdma_credit = c.rdma_credit + k
        /\ b.p_recv_tail = After(c.p_recv_tail, k)
        /\ b.free = (c.free \cup {s})
                    \ {After(c.p_recv_tail, i) : i \in 1 .. k}
        /\ b.recv_ring = c.recv_ring /\ b.p_recv = c.p_recv
    <2>1. Released(b, c, s)
      BY <1>2, ReleaseFacts
    <2>2. QED
      BY <2>1 DEF Released
  <1>4. c.rdma_credit \in Nat /\ c.free \cup {s} \in SUBSET Slot
    BY DEF Connection
  <1> HIDE DEF k
  <1>5. k \in Nat /\ U + k \in Nat
    BY <1>2
  <1>6. U - c.rdma_credit <= (U + k) - b.rdma_credit
    BY <1>3, <1>4, <1>5
  <1>7. Buffers(g, w, b.free, u, H, R, U + k)
    <2>1. Buffers(g, w, (c.free \cup {s}) \ {After(U % N, i) : i \in 1 .. k},
                  u, H, R, U + k)
      BY <1>2, <1>4, ReturnBuffers
    <2>2. QED
      BY <1>1, <1>3, <2>1
  <1>8. ASSUME NEW t \in Nat, Stretches(a, c, H, t, R, U)
        PROVE  Stretches(a, b, H, t, R, U + k)
    BY <1>2, <1>3, <1>5, <1>8, ReturnStretches
  <1>9. QED
    BY <1>2, <1>5, <1>6, <1>7, <1>8 DEF k, Keeps

-----------------------------------------------------------------------------
(* A message that waited in the ring finds its receive.                    *)

LEMMA MatchUnexpectedStep ==
    ASSUME IInv, NEW p \in Proc, NEW s \in Slot, MatchUnexpected(p, s)
    PROVE  IInv'
  <1> DEFINE q == Peer(p)
             c == conn[p]
             b == ReleaseRecv(c, s)
             fewer == unexpected[p] \ {s}
  <1>1. /\ FPTypeOK /\ HandedInOrder /\ InTurn(p) /\ InTurn(q)
        /\ Accounted(p) /\ Accounted(q)
        /\ InUse(conn[p], wire[p], completions[p])
        /\ InUse(conn[q], wire[q], completions[q])
    BY InvariantAt
  <1>2. q \in Proc /\ Peer(q) = p /\ p # q
    BY PeerFacts
  <1>3. /\ s \in unexpected[p]
        /\ conn' = [conn EXCEPT ![p] = b]
        /\ unexpected' = [unexpected EXCEPT ![p] = fewer]
        /\ UNCHANGED <<wire, ring, cq, completions, waiting, lost, submitted,
                       received>>
    BY DEF MatchUnexpected
  <1>4. /\ c \in Connection /\ wire[q] \in Seq(Item)
        /\ ring[p] \in [Slot -> Place] /\ unexpected[p] \in SUBSET Slot
        /\ conn[q].expected \in Nat
    BY <1>1, <1>2, TypeAt
  <1>5. PICK view \in [Nat -> Knowledge], H, R, U \in Nat :
             Account(p, view, H, R, U)
    BY <1>1 DEF Accounted
  <1> DEFINE T == view[conn[q].expected].tail
  <1>6. T \in Nat
    BY <1>4 DEF Knowledge
  <1>7. /\ Stretches(conn[q], c, H, T, R, U)
        /\ Buffers(ring[p], wire[q], c.free, unexpected[p], H, R, U)
    BY <1>5 DEF Account
  <1>8. c.recv_ring
    <2>1. SUFFICES ASSUME ~c.recv_ring PROVE FALSE
      OBVIOUS
    <2>2. R = 0 /\ U = N - 1
      BY <1>7, <2>1 DEF Stretches
    <2>3. s \in Slots(U + 1 - N, R)
      BY <1>3, <1>7 DEF Buffers
    <2>4. U + 1 - N = 0
      BY <2>2, RingAssumption
    <2>5. QED
      BY <2>2, <2>3, <2>4 DEF Slots
  <1> HIDE DEF c, T
  <1>9. Buffers(ring[p], wire[q], c.free \cup {s}, fewer, H, R, U)
    BY <1>3, <1>7 DEF Buffers
  <1>10. PICK k \in 0 .. N :
               /\ k = Returned(c, s) /\ U + k \in Nat
               /\ U - c.rdma_credit <= (U + k) - b.rdma_credit
               /\ \A t \in Nat : Stretches(conn[q], c, H, t, R, U) =>
                                 Stretches(conn[q], b, H, t, R, U + k)
               /\ Buffers(ring[p], wire[q], b.free, fewer, H, R, U + k)
    <2>1. fewer \in SUBSET Slot
      BY <1>4
    <2> HIDE DEF fewer
    <2>2. Keeps(conn[q], b, c, s, ring[p], wire[q], fewer, H, R, U)
      BY <1>4, <1>5, <1>6, <1>7, <1>8, <1>9, <2>1, ReleaseKeeps
    <2>3. QED
      BY <2>2 DEF Keeps
  <1>11. /\ b \in Connection
         /\ b.tosend = c.tosend /\ b.recv_ring = c.recv_ring
         /\ b.cached_outgoing = c.cached_outgoing
         /\ ReceiverPart(b, c) /\ BufferPart(b, c)
    <2>1. Released(b, c, s)
      BY <1>4, <1>10, ReleaseFacts
    <2>2. QED
      BY <2>1 DEF Released
  <1>12. conn \in [Proc -> Connection] /\ unexpected \in [Proc -> SUBSET Slot]
    BY <1>1 DEF FPTypeOK
  <1> HIDE DEF b
  <1>13. /\ conn' \in [Proc -> Connection] /\ conn'[p] = b
         /\ conn'[q] = conn[q]
    BY <1>2, <1>3, <1>11, <1>12
  <1>14. /\ unexpected' \in [Proc -> SUBSET Slot] /\ unexpected'[p] = fewer
         /\ unexpected'[q] = unexpected[q]
    BY <1>2, <1>3, <1>4, <1>12
  <1>15. FPTypeOK'
    BY <1>1, <1>3, <1>13, <1>14, TypeKept DEF FPTypeOK
  <1>16. /\ Says(p)' = Says(p) /\ Knows(q)' = Knows(q)
         /\ Says(q)' = Says(q) /\ Knows(p)' = Knows(p)
    BY <1>2, <1>3, <1>11, <1>13 DEF Says, Knows, ReceiverPart, c
  <1>17. InTurn(p)' /\ InTurn(q)'
    BY <1>1, <1>2, <1>3, <1>11, <1>13, InTurnKept DEF ReceiverPart, c
  <1>18. Accounted(p)'
    <2>1. Account(p, view, H, R, U + k)'
      <3>1. /\ conn'[p] = b /\ conn[p] = c
            /\ U - conn[p].rdma_credit <= (U + k) - conn'[p].rdma_credit
            /\ conn'[p].tosend = conn[p].tosend
        BY <1>10, <1>11, <1>13 DEF c
      <3>2. Buffers(ring'[p], wire'[q], conn'[p].free, unexpected'[p], H, R,
                    U + k)
        BY <1>3, <1>10, <1>13, <1>14
      <3>3. \A t \in Nat : Stretches(conn[q], conn[p], H, t, R, U) =>
                           Stretches(conn[q], conn'[p], H, t, R, U + k)
        BY <1>10, <3>1
      <3>4. QED
        BY <1>1, <1>3, <1>5, <1>10, <1>13, <1>15, <1>16, <3>1, <3>2, <3>3,
           RingOwnerAccount
    <2>2. QED
      BY <1>5, <1>10, <2>1 DEF Accounted
  <1>19. Accounted(q)'
    <2>1. PICK viewq \in [Nat -> Knowledge], Hq, Rq, Uq \in Nat :
             Account(q, viewq, Hq, Rq, Uq)
      BY <1>1 DEF Accounted
    <2>2. /\ PacketsTell(viewq, wire[q], ring[p], cq[p], waiting[p])
          /\ Ends(viewq, conn[q].tosend, c.expected, Says(q), Knows(p),
                  Uq - conn[q].rdma_credit)
          /\ Stretches(c, conn[q], Hq, viewq[c.expected].tail, Rq, Uq)
          /\ Buffers(ring[q], wire[p], conn[q].free, unexpected[q], Hq, Rq, Uq)
      BY <1>2, <2>1 DEF Account, c
    <2>3. /\ b.expected = c.expected
          /\ Stretches(b, conn[q], Hq, viewq[c.expected].tail, Rq, Uq)
      BY <1>11, <2>2, StretchesKept DEF ReceiverPart
    <2>4. Account(q, viewq, Hq, Rq, Uq)'
      BY <1>2, <1>3, <1>13, <1>14, <1>16, <2>2, <2>3 DEF Account
    <2>5. QED
      BY <2>1, <2>4 DEF Accounted
  <1>20. InUse(conn[p], wire[p], completions[p])'
    BY <1>1, <1>3, <1>11, <1>13, SameInUse DEF BufferPart, c
  <1>21. InUse(conn[q], wire[q], completions[q])'
    BY <1>1, <1>3, <1>13
  <1>22. HandedInOrder'
    BY <1>1, <1>3 DEF HandedInOrder
  <1>23. QED
    BY <1>15, <1>17, <1>18, <1>19, <1>20, <1>21, <1>22, Assemble

-----------------------------------------------------------------------------
(* A packet is accepted.                                                   *)

\* What is known of the packet p accepts; q is the sender.
Turn(p, pkt, via) ==
    /\ pkt.header.credit \in 0 .. N - 1
    /\ pkt.type = "cached" =>
           via = "ring" /\ pkt.header = conn[p].cached_incoming
    /\ pkt.type = "address" => via = "queue" /\ ~conn[p].send_ring
    /\ pkt.type # "address" =>
           /\ pkt.msg = Len(received[<<Peer(p), p>>]) + 1
           /\ Len(received[<<Peer(p), p>>]) < submitted[<<Peer(p), p>>]
    /\ conn[p].expected + 1 <= conn[Peer(p)].tosend

LEMMA TurnFacts ==
    ASSUME NEW p \in Proc, FPTypeOK,
           NEW view \in [Nat -> Knowledge],
           NEW H \in Nat, NEW R \in Nat, NEW U \in Nat,
           Account(Peer(p), view, H, R, U),
           NEW pkt \in Packets, NEW via,
           pkt.id = conn[p].expected, pkt.id <= conn[Peer(p)].tosend - 1,
           Tells(view, pkt, via)
    PROVE  Turn(p, pkt, via)
  <1> DEFINE q == Peer(p)
             c == conn[p]
             e == c.expected
             v == view[e]
  <1>1. q \in Proc /\ Peer(q) = p
    BY PeerFacts
  <1>2. /\ c \in Connection /\ e \in Nat \ {0} /\ conn[q].tosend \in Nat
        /\ conn[q].rdma_credit \in Nat
        /\ submitted[<<q, p>>] \in Nat
    BY <1>1, TypeAt
  <1>3. v \in Knowledge /\ view[e + 1] \in Knowledge
    BY <1>2
  <1>4. /\ Ends(view, conn[q].tosend, e, Says(q), Knows(p),
                U - conn[q].rdma_credit)
        /\ Stretches(c, conn[q], H, v.tail, R, U)
    BY <1>1 DEF Account
  <1>5. SameView(v, Knows(p))
    BY <1>4 DEF Ends
  <1>6. /\ v.count = Len(received[<<q, p>>])
        /\ v.ring = c.send_ring /\ v.header = c.cached_incoming
    BY <1>5 DEF SameView, Knows
  <1>7. Sound(v, pkt, via) /\ view[e + 1] = Told(v, pkt, via)
    BY DEF Tells
  <1>8. e + 1 \in e .. conn[q].tosend /\ e + 1 <= conn[q].tosend
    BY <1>2
  <1>9. Within(view[e + 1], Says(q), U - conn[q].rdma_credit)
    BY <1>4, <1>8 DEF Ends
  <1> HIDE DEF v, e, c, q
  <1>10. /\ view[e + 1].tail = v.tail + pkt.header.credit
         /\ pkt.header.credit \in Nat
    BY <1>3, <1>7, ToldType
  <1>11. pkt.header.credit \in 0 .. N - 1
    <2>1. v.tail \in Nat
      BY <1>3 DEF Knowledge
    <2>2. v.tail + pkt.header.credit <= U - conn[q].rdma_credit
      BY <1>9, <1>10 DEF Within
    <2>3. v.tail + pkt.header.credit <= U
      BY <1>2, <1>10, <2>1, <2>2
    <2>4. QED
      BY <1>4, <1>10, <2>1, <2>3, AbsorbStretches
  <1>12. pkt.type = "cached" => via = "ring" /\ pkt.header = c.cached_incoming
    BY <1>6, <1>7 DEF Sound
  <1>13. pkt.type = "address" => via = "queue" /\ ~c.send_ring
    BY <1>6, <1>7 DEF Sound
  <1>14. ASSUME pkt.type # "address"
         PROVE  /\ pkt.msg = Len(received[<<q, p>>]) + 1
                /\ Len(received[<<q, p>>]) < submitted[<<q, p>>]
    <2>1. pkt.msg = v.count + 1
      BY <1>7, <1>14 DEF Sound
    <2>2. view[e + 1].count = v.count + 1
      BY <1>7, <1>14 DEF Told
    <2>3. view[e + 1].count <= submitted[<<q, p>>]
      BY <1>1, <1>9 DEF Within, Says
    <2>4. v.count \in Nat
      BY <1>3 DEF Knowledge
    <2>5. v.count < submitted[<<q, p>>]
      BY <1>2, <2>2, <2>3, <2>4
    <2>6. QED
      BY <1>6, <2>1, <2>5
  <1>15. QED
    BY <1>8, <1>11, <1>12, <1>13, <1>14 DEF Turn, c, q, e

\* The direction of which p accepts a packet.
LEMMA AcceptAccount ==
    ASSUME NEW p \in Proc, FPTypeOK, FPTypeOK',
           NEW view \in [Nat -> Knowledge],
           NEW H \in Nat, NEW R \in Nat, NEW U \in Nat,
           Account(Peer(p), view, H, R, U),
           NEW pkt \in Packets, NEW via, pkt.id = conn[p].expected,
           Tells(view, pkt, via), Turn(p, pkt, via),
           Accepts(conn[p], conn'[p], pkt, via),
           conn'[Peer(p)] = conn[Peer(p)], wire'[Peer(p)] = wire[Peer(p)],
           PacketsTell(view, wire[Peer(p)], ring'[p], cq'[p], waiting'[p]),
           Says(Peer(p))' = Says(Peer(p)),
           Knows(p)'.count = IF pkt.type = "address" THEN Knows(p).count
                             ELSE Knows(p).count + 1,
           Buffers(ring'[Peer(p)], wire'[p], conn'[Peer(p)].free,
                   unexpected'[Peer(p)], H, R, U)
    PROVE  Accounted(Peer(p))'
  <1> DEFINE q == Peer(p)
             c == conn[p]
             b == conn'[p]
             e == c.expected
             n == conn[q].tosend
             limit == U - conn[q].rdma_credit
  <1>1. q \in Proc /\ Peer(q) = p
    BY PeerFacts
  <1>2. /\ c \in Connection /\ e \in Nat \ {0} /\ n \in Nat
        /\ conn[q].rdma_credit \in Nat
        /\ Says(q) \in End /\ Knows(p) \in End
    BY <1>1, TypeAt
  <1>3. b \in Connection
    BY DEF FPTypeOK
  <1>4. Knows(p)' \in End
    BY TypeNext
  <1>5. limit \in Int /\ limit <= U
    BY <1>2
  <1>6. /\ Ends(view, n, e, Says(q), Knows(p), limit)
        /\ Stretches(c, conn[q], H, view[e].tail, R, U)
    BY <1>1 DEF Account
  <1>7. /\ Knows(p).ring = c.send_ring /\ Knows(p).header = c.cached_incoming
        /\ Knows(p)'.ring = b.send_ring
        /\ Knows(p)'.header = b.cached_incoming
    BY DEF Knows
  <1>8. e + 1 <= n
    BY DEF Turn
  <1>9. b.expected = e + 1
    BY DEF Accepts
  <1> HIDE DEF q, c, b, e, n, limit
  <1>10. ASSUME NEW knowsNow \in End, knowsNow = Knows(p)'
         PROVE  /\ Ends(view, n, e + 1, Says(q), knowsNow, limit)
                /\ Stretches(b, conn[q], H, view[e + 1].tail, R, U)
    <2>1. Learns(c, b, pkt, Knows(p), knowsNow)
      BY <1>7, <1>10 DEF Learns
    <2>2. pkt.id = e /\ Accepts(c, b, pkt, via)
      BY DEF c, b, e
    <2>3. QED
      BY <1>2, <1>3, <1>5, <1>6, <1>7, <1>8, <1>10, <2>1, <2>2, AcceptEnd
  <1>11. /\ Ends(view, n, e + 1, Says(q), Knows(p)', limit)
         /\ Stretches(b, conn[q], H, view[e + 1].tail, R, U)
    BY <1>4, <1>10
  <1>12. Account(q, view, H, R, U)'
    BY <1>1, <1>9, <1>11 DEF Account, q, b, n, limit
  <1>13. QED
    BY <1>12 DEF Accounted, q

LEMMA HandedFacts ==
    ASSUME NEW p \in Proc, FPTypeOK, HandedInOrder, NEW pkt \in Packets,
           HandedOver(p, pkt), Dropped(p, pkt), NEW via, Turn(p, pkt, via)
    PROVE  /\ received' \in [Proc \X Proc -> Seq(Nat)]
           /\ lost' \in [Proc -> Nat]
           /\ HandedInOrder'
           /\ received'[<<p, Peer(p)>>] = received[<<p, Peer(p)>>]
           /\ Len(received'[<<Peer(p), p>>]) =
                  IF pkt.type = "address" THEN Len(received[<<Peer(p), p>>])
                  ELSE Len(received[<<Peer(p), p>>]) + 1
  <1> DEFINE q == Peer(p)
             old == received[<<q, p>>]
             longer == Append(old, pkt.msg)
  <1>1. q \in Proc /\ p # q /\ <<q, p>> \in Proc \X Proc
    BY PeerFacts
  <1>2. /\ received \in [Proc \X Proc -> Seq(Nat)] /\ old \in Seq(Nat)
        /\ lost \in [Proc -> Nat]
    BY <1>1 DEF FPTypeOK
  <1>3. pkt.msg \in Nat
    BY DEF Packets
  <1>4. lost' \in [Proc -> Nat]
    <2>1. conn[p].rdma_credit \in Nat /\ lost[p] \in Nat
      BY TypeAt
    <2>2. lost[p] + conn[p].rdma_credit \in Nat
      BY <2>1
    <2>3. QED
      BY <1>2, <2>2 DEF Dropped
  <1>5. CASE pkt.type = "address"
    BY <1>2, <1>4, <1>5 DEF HandedOver, HandedInOrder
  <1>6. CASE pkt.type # "address"
    <2>1. received' = [received EXCEPT ![<<q, p>>] = longer]
      BY <1>6 DEF HandedOver
    <2>2. /\ longer \in Seq(Nat) /\ Len(longer) = Len(old) + 1
          /\ \A i \in 1 .. Len(old) : longer[i] = old[i]
          /\ longer[Len(old) + 1] = pkt.msg
      BY <1>2, <1>3, AppendFacts
    <2>3. pkt.msg = Len(old) + 1
      BY <1>6 DEF Turn
    <2>4. \A i \in 1 .. Len(old) : old[i] = i
      BY <1>1 DEF HandedInOrder
    <2> HIDE DEF longer, old, q
    <2>5. /\ received' \in [Proc \X Proc -> Seq(Nat)]
          /\ received'[<<q, p>>] = longer
          /\ \A pq \in Proc \X Proc : pq # <<q, p>> =>
                 received'[pq] = received[pq]
      BY <1>1, <1>2, <2>1, <2>2
    <2>6. \A i \in 1 .. Len(longer) : longer[i] = i
      <3>1. Len(old) \in Nat
        BY <1>2
      <3>2. \A i \in 1 .. Len(longer) : i \in 1 .. Len(old) \/ i = Len(old) + 1
        BY <2>2, <3>1
      <3>3. QED
        BY <2>2, <2>3, <2>4, <3>2
    <2>7. HandedInOrder'
      BY <2>5, <2>6 DEF HandedInOrder
    <2>8. received'[<<p, q>>] = received[<<p, q>>]
      BY <1>1, <2>5
    <2>9. QED
      BY <1>4, <1>6, <2>2, <2>5, <2>7, <2>8 DEF q, old
  <1>7. QED
    BY <1>5, <1>6

-----------------------------------------------------------------------------
(* A packet is taken from the ring.                                        *)

LEMMA PollRingTakes ==
    ASSUME FPTypeOK, NEW p \in Proc, PollRing(p), NEW pkt \in Packets,
           pkt = ring[p][conn[p].p_recv], Turn(p, pkt, "ring")
    PROVE  \E a \in Connection :
               /\ Accepts(conn[p], a, pkt, "ring")
               /\ a.tosend = conn[p].tosend /\ a.recv_ring
               /\ a.cached_outgoing = conn[p].cached_outgoing
               /\ a.rdma_credit = conn[p].rdma_credit
               /\ a.p_recv = After(conn[p].p_recv, 1)
               /\ a.p_recv_tail = conn[p].p_recv_tail
               /\ a.free = conn[p].free
               /\ wire' = wire
               /\ \/ /\ conn' = [conn EXCEPT ![p] =
                                     ReleaseRecv(a, conn[p].p_recv)]
                     /\ unexpected' = unexpected
                  \/ /\ conn' = [conn EXCEPT ![p] = a]
                     /\ unexpected' = [unexpected EXCEPT ![p] =
                            unexpected[p] \cup {conn[p].p_recv}]
  <1> DEFINE c == conn[p]
             s == c.p_recv
             next == After(s, 1)
             c1 == [c EXCEPT !.p_recv = next]
             r == Receive(c1, pkt, "ring")
  <1>1. c \in Connection /\ wire \in [Proc -> Seq(Item)] /\ s \in Slot
    BY TypeAt DEF FPTypeOK, Connection
  <1>2. next \in Slot
    <2>1. s + 1 \in Int
      BY <1>1 DEF Slot
    <2>2. QED
      BY <2>1, SlotOf DEF After
  <1>3. /\ c.recv_ring
        /\ \/ /\ Done(p, [r EXCEPT !.conn = ReleaseRecv(@, s)])
              /\ UNCHANGED unexpected
           \/ /\ Done(p, r)
              /\ unexpected' = [unexpected EXCEPT ![p] = @ \cup {s}]
    BY DEF PollRing
  <1> HIDE DEF next, c, s
  <1>4. /\ c1 \in Connection
        /\ c1.p_recv = next /\ c1.p_recv_tail = c.p_recv_tail
        /\ c1.free = c.free /\ c1.tosend = c.tosend
        /\ c1.recv_ring = c.recv_ring /\ c1.rdma_credit = c.rdma_credit
        /\ c1.cached_outgoing = c.cached_outgoing
        /\ ReceiverPart(c1, c) /\ BufferPart(c1, c)
    BY <1>1, <1>2 DEF Connection, ReceiverPart, BufferPart
  <1> HIDE DEF c1
  <1>5. /\ pkt.header.credit \in 0 .. N - 1
        /\ pkt.type = "cached" => pkt.header = c1.cached_incoming
        /\ pkt.type # "address"
    BY <1>4 DEF Turn, ReceiverPart, c
  <1>6. PICK a \in Connection :
               /\ r = Posts(a, << >>)
               /\ Accepts(c1, a, pkt, "ring") /\ SenderPart(a, c1)
    BY <1>3, <1>4, <1>5, ReceiveFromRing
  <1> HIDE DEF r
  <1>7. Accepts(c, a, pkt, "ring")
    BY <1>4, <1>6 DEF Accepts, ReceiverPart, BufferPart
  <1>8. /\ a.tosend = c.tosend /\ a.recv_ring
        /\ a.cached_outgoing = c.cached_outgoing
        /\ a.rdma_credit = c.rdma_credit /\ a.p_recv = next
        /\ a.p_recv_tail = c.p_recv_tail /\ a.free = c.free
    BY <1>3, <1>4, <1>6 DEF SenderPart
  <1>9. /\ r.conn = a /\ r.items = << >>
        /\ [r EXCEPT !.conn = ReleaseRecv(@, s)] = Posts(ReleaseRecv(a, s), << >>)
    BY <1>6 DEF Posts
  <1>10. [wire EXCEPT ![p] = wire[p] \o << >>] = wire
    <2>1. wire[p] \in Seq(Item)
      BY <1>1
    <2>2. wire[p] \o << >> = wire[p]
      BY <2>1, Concatenation
    <2>3. QED
      BY <1>1, <2>2
  <1>11. ASSUME NEW b, Done(p, Posts(b, << >>))
         PROVE  conn' = [conn EXCEPT ![p] = b] /\ wire' = wire
    BY <1>10, <1>11 DEF Done, Posts
  <1>12. wire' = wire
    BY <1>3, <1>6, <1>9, <1>11
  <1>13. \/ /\ conn' = [conn EXCEPT ![p] = ReleaseRecv(a, s)]
            /\ unexpected' = unexpected
         \/ /\ conn' = [conn EXCEPT ![p] = a]
            /\ unexpected' = [unexpected EXCEPT ![p] = unexpected[p] \cup {s}]
    BY <1>3, <1>6, <1>9, <1>11
  <1>14. QED
    BY <1>7, <1>8, <1>12, <1>13 DEF c, s, next

LEMMA PollRingStep ==
    ASSUME IInv, NEW p \in Proc, PollRing(p)
    PROVE  IInv'
  <1> DEFINE q == Peer(p)
             c == conn[p]
             s == c.p_recv
             pkt == ring[p][s]
             emptied == [ring[p] EXCEPT ![s] = None]
  <1>1. /\ FPTypeOK /\ HandedInOrder /\ InTurn(p) /\ InTurn(q)
        /\ Accounted(p) /\ Accounted(q)
        /\ InUse(conn[p], wire[p], completions[p])
        /\ InUse(conn[q], wire[q], completions[q])
    BY InvariantAt
  <1>2. q \in Proc /\ Peer(q) = p /\ p # q
    BY PeerFacts
  <1>3. /\ c \in Connection /\ s \in Slot /\ wire[q] \in Seq(Item)
        /\ ring[p] \in [Slot -> Place] /\ cq[p] \in Seq(Packets)
        /\ waiting[p] \in Place /\ conn[q].tosend \in Nat
        /\ c.expected \in Nat \ {0}
        /\ unexpected[p] \in SUBSET Slot /\ c.free \in SUBSET Slot
    BY <1>1, <1>2, TypeAt DEF Connection
  <1>4. /\ c.recv_ring /\ pkt # None /\ pkt.id = c.expected
        /\ ring' = [ring EXCEPT ![p] = emptied]
        /\ HandedOver(p, pkt) /\ Dropped(p, pkt)
        /\ UNCHANGED <<cq, completions, waiting, submitted>>
    BY DEF PollRing, IsNext
  <1>5. pkt \in Packets
    BY <1>3, <1>4, PlaceFacts
  <1>6. emptied \in [Slot -> Place]
    BY <1>3, PlaceFacts
  <1>7. InSequence(conn[q].tosend, c.expected, wire[q], ring[p], cq[p],
                   waiting[p])
    BY <1>1, <1>2 DEF InTurn
  <1>8. pkt.id <= conn[q].tosend - 1
    <2>1. \A i \in Slot : ring[p][i] # None =>
              ring[p][i].id \in c.expected .. conn[q].tosend - 1
      BY <1>3, <1>7, NumbersBelow
    <2>2. pkt.id \in c.expected .. conn[q].tosend - 1
      BY <1>3, <1>4, <2>1
    <2>3. QED
      BY <1>3, <2>2
  <1>9. PICK view \in [Nat -> Knowledge], H, R, U \in Nat :
            Account(q, view, H, R, U)
    BY <1>1 DEF Accounted
  <1>10. PacketsTell(view, wire[q], ring[p], cq[p], waiting[p])
    BY <1>2, <1>9 DEF Account
  <1>11. Tells(view, pkt, "ring")
    BY <1>3, <1>4, <1>10 DEF PacketsTell
  <1> HIDE DEF pkt
  <1>12. Turn(p, pkt, "ring")
    BY <1>1, <1>4, <1>5, <1>8, <1>9, <1>11, TurnFacts
  <1>13. PICK a \in Connection :
               /\ Accepts(c, a, pkt, "ring")
               /\ a.tosend = c.tosend /\ a.recv_ring
               /\ a.cached_outgoing = c.cached_outgoing
               /\ a.rdma_credit = c.rdma_credit
               /\ a.p_recv = After(s, 1) /\ a.p_recv_tail = c.p_recv_tail
               /\ a.free = c.free /\ wire' = wire
               /\ \/ /\ conn' = [conn EXCEPT ![p] = ReleaseRecv(a, s)]
                     /\ unexpected' = unexpected
                  \/ /\ conn' = [conn EXCEPT ![p] = a]
                     /\ unexpected' = [unexpected EXCEPT ![p] =
                                           unexpected[p] \cup {s}]
    BY <1>1, <1>5, <1>12, PollRingTakes DEF pkt
  <1>14. PICK mine \in [Nat -> Knowledge], h, r, u \in Nat :
             Account(p, mine, h, r, u)
    BY <1>1 DEF Accounted
  <1> DEFINE T == mine[conn[q].expected].tail
  <1>15. T \in Nat
    BY <1>1, <1>2, TypeAt DEF Knowledge
  <1>16. /\ Stretches(conn[q], c, h, T, r, u)
         /\ Buffers(ring[p], wire[q], c.free, unexpected[p], h, r, u)
    BY <1>14 DEF Account
  <1>17. /\ r <= h /\ h <= u /\ u < r + N /\ s = r % N
    BY <1>4, <1>14, <1>15, <1>16 DEF Stretches
  <1>18. /\ r < h
         /\ Buffers(emptied, wire[q], c.free \cup {s}, unexpected[p],
                    h, r + 1, u)
         /\ Buffers(emptied, wire[q], c.free, unexpected[p] \cup {s},
                    h, r + 1, u)
    BY <1>3, <1>4, <1>14, <1>16, <1>17, PollBuffers DEF pkt
  <1>19. /\ \A t \in Nat : Stretches(conn[q], c, h, t, r, u) =>
                           Stretches(conn[q], a, h, t, r + 1, u)
         /\ Stretches(conn[q], a, h, T, r + 1, u)
    BY <1>4, <1>13, <1>14, <1>15, <1>16, <1>18, PollStretches
  <1>20. r + 1 \in Nat
    BY <1>14
  <1> HIDE DEF T, emptied
  <1>21. PICK b \in Connection, u2 \in Nat, more \in SUBSET Slot :
             /\ conn' = [conn EXCEPT ![p] = b]
             /\ unexpected' = [unexpected EXCEPT ![p] = more]
             /\ u - c.rdma_credit <= u2 - b.rdma_credit
             /\ \A t \in Nat : Stretches(conn[q], c, h, t, r, u) =>
                               Stretches(conn[q], b, h, t, r + 1, u2)
             /\ Buffers(emptied, wire[q], b.free, more, h, r + 1, u2)
             /\ b.tosend = a.tosend /\ b.recv_ring = a.recv_ring
             /\ b.cached_outgoing = a.cached_outgoing
             /\ ReceiverPart(b, a) /\ BufferPart(b, a)
    <2>1. CASE /\ conn' = [conn EXCEPT ![p] = ReleaseRecv(a, s)]
               /\ unexpected' = unexpected
      <3> DEFINE b == ReleaseRecv(a, s)
      <3>1. PICK k \in 0 .. N :
               /\ k = Returned(a, s) /\ u + k \in Nat
               /\ u - a.rdma_credit <= (u + k) - b.rdma_credit
               /\ \A t \in Nat : Stretches(conn[q], a, h, t, r + 1, u) =>
                                 Stretches(conn[q], b, h, t, r + 1, u + k)
               /\ Buffers(emptied, wire[q], b.free, unexpected[p],
                          h, r + 1, u + k)
        <4>1. PICK r1 \in Nat : r1 = r + 1
          BY <1>20
        <4>2. Buffers(emptied, wire[q], a.free \cup {s}, unexpected[p],
                      h, r1, u)
          BY <1>13, <1>18, <4>1
        <4>3. Stretches(conn[q], a, h, T, r1, u)
          BY <1>19, <4>1
        <4> HIDE DEF b
        <4>4. b = ReleaseRecv(a, s)
          BY DEF b
        <4>5. /\ a.recv_ring /\ s \in Slot /\ wire[q] \in Seq(Item)
              /\ unexpected[p] \in SUBSET Slot
          BY <1>3, <1>13
        <4>6. \E k \in 0 .. N :
               /\ k = Returned(a, s) /\ u + k \in Nat
               /\ u - a.rdma_credit <= (u + k) - b.rdma_credit
               /\ \A t \in Nat : Stretches(conn[q], a, h, t, r1, u) =>
                                 Stretches(conn[q], b, h, t, r1, u + k)
               /\ Buffers(emptied, wire[q], b.free, unexpected[p],
                          h, r1, u + k)
          <5>1. Keeps(conn[q], b, a, s, emptied, wire[q], unexpected[p],
                      h, r1, u)
            BY <1>6, <1>14, <1>15, <4>1, <4>2, <4>3, <4>4, <4>5, ReleaseKeeps
          <5>2. QED
            BY <5>1 DEF Keeps
        <4>7. QED
          BY <4>1, <4>6
      <3>2. /\ b \in Connection
            /\ b.tosend = a.tosend /\ b.recv_ring = a.recv_ring
            /\ b.cached_outgoing = a.cached_outgoing
            /\ ReceiverPart(b, a) /\ BufferPart(b, a)
        <4> HIDE DEF b
        <4>1. b = ReleaseRecv(a, s)
          BY DEF b
        <4>2. Released(b, a, s)
          BY <1>3, <3>1, <4>1, ReleaseFacts
        <4>3. QED
          BY <4>2 DEF Released
      <3>3. unexpected' = [unexpected EXCEPT ![p] = unexpected[p]]
        BY <1>1, <2>1 DEF FPTypeOK
      <3>4. u - c.rdma_credit <= (u + k) - b.rdma_credit
        BY <1>13, <3>1
      <3> HIDE DEF b
      <3>5. \A t \in Nat : Stretches(conn[q], c, h, t, r, u) =>
                           Stretches(conn[q], b, h, t, r + 1, u + k)
        BY <1>19, <3>1
      <3>6. conn' = [conn EXCEPT ![p] = b]
        BY <2>1 DEF b
      <3>7. QED
        BY <1>3, <3>1, <3>2, <3>3, <3>4, <3>5, <3>6
    <2>2. CASE /\ conn' = [conn EXCEPT ![p] = a]
               /\ unexpected' = [unexpected EXCEPT ![p] =
                                     unexpected[p] \cup {s}]
      <3>1. ReceiverPart(a, a) /\ BufferPart(a, a)
        BY DEF ReceiverPart, BufferPart
      <3>2. unexpected[p] \cup {s} \in SUBSET Slot
        BY <1>3
      <3>3. u - c.rdma_credit <= u - a.rdma_credit
        <4>1. c.rdma_credit \in Nat /\ a.rdma_credit = c.rdma_credit
          BY <1>1, <1>13, TypeAt
        <4>2. QED
          BY <1>14, <4>1
      <3>4. Buffers(emptied, wire[q], a.free, unexpected[p] \cup {s}, h, r + 1, u)
        BY <1>13, <1>18
      <3>5. QED
        BY <1>14, <1>19, <2>2, <3>1, <3>2, <3>3, <3>4
    <2>3. QED
      BY <1>13, <2>1, <2>2
  <1>22. Accepts(c, b, pkt, "ring")
    BY <1>13, <1>21 DEF Accepts, ReceiverPart, BufferPart
  <1>23. /\ conn \in [Proc -> Connection] /\ wire \in [Proc -> Seq(Item)]
         /\ ring \in [Proc -> [Slot -> Place]]
         /\ unexpected \in [Proc -> SUBSET Slot]
    BY <1>1 DEF FPTypeOK
  <1>24. /\ conn' \in [Proc -> Connection] /\ conn'[p] = b
         /\ conn'[q] = conn[q]
    BY <1>2, <1>21, <1>23
  <1>25. /\ unexpected' \in [Proc -> SUBSET Slot] /\ unexpected'[p] = more
         /\ unexpected'[q] = unexpected[q]
    BY <1>2, <1>21, <1>23
  <1>26. /\ ring' \in [Proc -> [Slot -> Place]] /\ ring'[p] = emptied
         /\ ring'[q] = ring[q]
    BY <1>2, <1>4, <1>6, <1>23
  <1>27. /\ received' \in [Proc \X Proc -> Seq(Nat)]
         /\ lost' \in [Proc -> Nat] /\ HandedInOrder'
         /\ received'[<<p, q>>] = received[<<p, q>>]
         /\ Len(received'[<<q, p>>]) =
                IF pkt.type = "address" THEN Len(received[<<q, p>>])
                ELSE Len(received[<<q, p>>]) + 1
    BY <1>1, <1>4, <1>5, <1>12, HandedFacts
  <1>28. FPTypeOK'
    BY <1>1, <1>4, <1>13, <1>23, <1>24, <1>25, <1>26, <1>27, TypeKept
    DEF FPTypeOK
  <1>29. /\ Says(p)' = Says(p) /\ Says(q)' = Says(q)
         /\ Knows(q)' = Knows(q)
    <2>1. b.recv_ring = c.recv_ring /\ b.cached_outgoing = c.cached_outgoing
      BY <1>4, <1>13, <1>21
    <2>2. QED
      BY <1>2, <1>4, <1>24, <1>27, <2>1 DEF Says, Knows, c
  <1>30. Knows(p)'.count = IF pkt.type = "address" THEN Knows(p).count
                           ELSE Knows(p).count + 1
    BY <1>27 DEF Knows
  <1>31. b.tosend = c.tosend /\ b.expected = c.expected + 1
    BY <1>13, <1>21, <1>22 DEF Accepts
  <1>32. InTurn(p)'
    BY <1>1, <1>2, <1>4, <1>13, <1>24, <1>26, <1>31, InTurnKept
  <1>33. InTurn(q)'
    <2>1. InSequence(conn[q].tosend, c.expected + 1, wire[q], emptied, cq[p],
                     waiting[p])
      <3>1. ring[p][s].id = c.expected
        BY <1>4 DEF pkt
      <3>2. QED
        BY <1>3, <1>7, <3>1, RingAccepted DEF emptied
    <2>2. QED
      BY <1>2, <1>4, <1>13, <1>24, <1>26, <1>31, <2>1 DEF InTurn
  <1>34. Accounted(p)'
    <2>1. \A t \in Nat : Stretches(conn[q], conn[p], h, t, r, u) =>
                         Stretches(conn[q], conn'[p], h, t, r + 1, u2)
      BY <1>21, <1>24 DEF c
    <2>2. Buffers(ring'[p], wire'[q], conn'[p].free, unexpected'[p], h, r + 1,
                  u2)
      BY <1>13, <1>21, <1>24, <1>25, <1>26
    <2>3. /\ u - conn[p].rdma_credit <= u2 - conn'[p].rdma_credit
          /\ conn'[p].tosend = conn[p].tosend
      BY <1>21, <1>24, <1>31 DEF c
    <2>4. Account(p, mine, h, r + 1, u2)'
      BY <1>1, <1>4, <1>13, <1>14, <1>20, <1>21, <1>24, <1>26, <1>28, <1>29,
         <2>1, <2>2, <2>3, RingOwnerAccount
    <2>5. QED
      BY <1>14, <1>20, <1>21, <2>4 DEF Accounted
  <1>35. Accounted(q)'
    <2>1. PacketsTell(view, wire[q], emptied, cq[p], waiting[p])
      BY <1>3, <1>10, RingAcceptedTells DEF emptied
    <2>2. PacketsTell(view, wire'[q], ring'[p], cq'[p], waiting'[p])
      BY <1>4, <1>13, <1>26, <2>1
    <2>3. Buffers(ring'[q], wire'[p], conn'[q].free, unexpected'[q], H, R, U)
      BY <1>2, <1>9, <1>13, <1>24, <1>25, <1>26 DEF Account
    <2>4. Accepts(conn[p], conn'[p], pkt, "ring")
      BY <1>22, <1>24 DEF c
    <2>5. pkt.id = conn[p].expected
      BY <1>4 DEF c
    <2>6. QED
      BY <1>1, <1>5, <1>9, <1>11, <1>12, <1>13, <1>24, <1>28, <1>29, <1>30,
         <2>2, <2>3, <2>4, <2>5, AcceptAccount
  <1>36. InUse(conn[p], wire[p], completions[p])'
    <2>1. BufferPart(b, c)
      BY <1>22 DEF Accepts
    <2>2. QED
      BY <1>1, <1>4, <1>13, <1>24, <2>1, SameInUse DEF BufferPart, c
  <1>37. InUse(conn[q], wire[q], completions[q])'
    BY <1>1, <1>4, <1>13, <1>24
  <1>38. QED
    BY <1>27, <1>28, <1>32, <1>33, <1>34, <1>35, <1>36, <1>37, Assemble

-----------------------------------------------------------------------------
(* A packet is taken from the queue.                                       *)

\* c becomes b when it accepts a packet and posts nothing.
AcceptsQuietly(c, b) ==
    /\ b.tosend = c.tosend /\ b.recv_ring = c.recv_ring
    /\ b.cached_outgoing = c.cached_outgoing
    /\ b.rdma_credit <= c.rdma_credit
    /\ b.p_recv = c.p_recv /\ b.p_recv_tail = c.p_recv_tail
    /\ b.free = c.free

\* The credits a process still has when it has accepted pkt.
Kept(c, pkt) == IF pkt.type = "address" THEN 0 ELSE c.rdma_credit

LEMMA TakeFromQueueTakes ==
    ASSUME FPTypeOK, NEW p \in Proc, NEW pkt \in Packets,
           TakeFromQueue(p, pkt), Turn(p, pkt, "queue")
    PROVE  \E b \in Connection :
               /\ conn' = [conn EXCEPT ![p] = b]
               /\ Accepts(conn[p], b, pkt, "queue")
               /\ \/ /\ wire' = wire /\ AcceptsQuietly(conn[p], b)
                     /\ b.rdma_credit = Kept(conn[p], pkt)
                  \/ \E item \in Item :
                         /\ OpensRing(conn[p], b, item)
                         /\ wire' = [wire EXCEPT ![p] = Append(wire[p], item)]
                         /\ pkt.type = "start"
  <1> DEFINE c == conn[p]
             r == Receive(c, pkt, "queue")
  <1>1. /\ c \in Connection /\ wire \in [Proc -> Seq(Item)]
        /\ wire[p] \in Seq(Item) /\ c.rdma_credit \in Nat
    BY TypeAt DEF FPTypeOK
  <1>2. Done(p, r)
    BY DEF TakeFromQueue
  <1>3. pkt.header.credit \in 0 .. N - 1 /\ pkt.type \in {"start", "address"}
    BY DEF Turn, Packets
  <1> HIDE DEF c
  <1>4. ASSUME NEW b, r = Posts(b, << >>)
        PROVE  conn' = [conn EXCEPT ![p] = b] /\ wire' = wire
    <2>1. wire[p] \o << >> = wire[p]
      BY <1>1, Concatenation
    <2>2. [wire EXCEPT ![p] = wire[p]] = wire
      BY <1>1
    <2>3. r.conn = b /\ r.items = << >>
      BY <1>4 DEF Posts
    <2>4. QED
      BY <1>2, <2>1, <2>2, <2>3 DEF Done
  <1>5. ASSUME NEW b, NEW item \in Item, r = Posts(b, <<item>>)
        PROVE  /\ conn' = [conn EXCEPT ![p] = b]
               /\ wire' = [wire EXCEPT ![p] = Append(wire[p], item)]
    <2>1. wire[p] \o <<item>> = Append(wire[p], item)
      BY <1>1, Concatenation
    <2>2. r.conn = b /\ r.items = <<item>>
      BY <1>5 DEF Posts
    <2>3. QED
      BY <1>2, <2>1, <2>2 DEF Done
  <1> HIDE DEF r
  <1>6. CASE pkt.type = "address"
    <2>1. PICK b \in Connection :
               /\ r = Posts(b, << >>)
               /\ Accepts(c, b, pkt, "queue")
               /\ b.rdma_credit = 0
               /\ SenderPart(b, [c EXCEPT !.rdma_credit = 0])
      BY <1>1, <1>3, <1>6, ReceiveAddress DEF r
    <2>2. AcceptsQuietly(c, b)
      BY <1>1, <2>1 DEF SenderPart, AcceptsQuietly, Connection
    <2>3. b.rdma_credit = Kept(c, pkt)
      BY <1>6, <2>1 DEF Kept
    <2>4. QED
      BY <1>4, <2>1, <2>2, <2>3 DEF c
  <1>7. CASE pkt.type = "start"
    <2>1. PICK b \in Connection :
               /\ Accepts(c, b, pkt, "queue")
               /\ \/ /\ r = Posts(b, << >>)
                     /\ SenderPart(b, c)
                  \/ \E item \in Item :
                         /\ r = Posts(b, <<item>>)
                         /\ OpensRing(c, b, item)
      BY <1>1, <1>3, <1>7, ReceiveMessage DEF r
    <2>2. CASE r = Posts(b, << >>) /\ SenderPart(b, c)
      <3>1. AcceptsQuietly(c, b)
        BY <1>1, <2>2 DEF SenderPart, AcceptsQuietly
      <3>2. b.rdma_credit = Kept(c, pkt)
        BY <1>7, <2>2 DEF SenderPart, Kept
      <3>3. QED
        BY <1>4, <2>1, <2>2, <3>1, <3>2 DEF c
    <2>3. CASE \E item \in Item : r = Posts(b, <<item>>) /\ OpensRing(c, b, item)
      <3>1. PICK item \in Item : r = Posts(b, <<item>>) /\ OpensRing(c, b, item)
        BY <2>3
      <3>2. QED
        BY <1>5, <1>7, <2>1, <3>1 DEF c
    <2>4. QED
      BY <2>1, <2>2, <2>3
  <1>8. QED
    BY <1>3, <1>6, <1>7

\* The direction p sends on when p has accepted a packet of the queue.
LEMMA QuietAccount ==
    ASSUME NEW p \in Proc, FPTypeOK, FPTypeOK', Accounted(p),
           AcceptsQuietly(conn[p], conn'[p]),
           wire' = wire, ring' = ring, unexpected' = unexpected,
           submitted' = submitted,
           conn'[Peer(p)] = conn[Peer(p)], cq'[Peer(p)] = cq[Peer(p)],
           waiting'[Peer(p)] = waiting[Peer(p)],
           received'[<<p, Peer(p)>>] = received[<<p, Peer(p)>>]
    PROVE  Accounted(p)'
  <1> DEFINE q == Peer(p)
  <1>1. PICK view \in [Nat -> Knowledge], H, R, U \in Nat :
             Account(p, view, H, R, U)
    BY DEF Accounted
  <1>2. /\ conn'[p].tosend = conn[p].tosend
        /\ conn'[p].recv_ring = conn[p].recv_ring
        /\ conn'[p].cached_outgoing = conn[p].cached_outgoing
        /\ conn'[p].rdma_credit <= conn[p].rdma_credit
        /\ conn'[p].p_recv = conn[p].p_recv
        /\ conn'[p].p_recv_tail = conn[p].p_recv_tail
        /\ conn'[p].free = conn[p].free
    BY DEF AcceptsQuietly
  <1>3. Says(p)' = Says(p)
    BY <1>2 DEF Says
  <1>4. Knows(q)' = Knows(q)
    <2>1. Peer(q) = p
      BY PeerFacts
    <2>2. QED
      BY <2>1 DEF Knows
  <1>5. U - conn[p].rdma_credit <= U - conn'[p].rdma_credit
    <2>1. conn[p].rdma_credit \in Nat /\ conn'[p].rdma_credit \in Nat
      BY TypeAt, TypeNext
    <2>2. QED
      BY <1>1, <1>2, <2>1
  <1>6. \A t \in Nat : Stretches(conn[q], conn[p], H, t, R, U) =>
                       Stretches(conn[q], conn'[p], H, t, R, U)
    BY <1>2, StretchesKept
  <1>7. Buffers(ring'[p], wire'[q], conn'[p].free, unexpected'[p], H, R, U)
    BY <1>1, <1>2 DEF Account
  <1>8. Account(p, view, H, R, U)'
    BY <1>1, <1>2, <1>3, <1>4, <1>5, <1>6, <1>7, RingOwnerAccount
  <1>9. QED
    BY <1>1, <1>8 DEF Accounted

\* The same when it has opened its ring.
LEMMA OpensAccount ==
    ASSUME NEW p \in Proc, FPTypeOK, FPTypeOK', Accounted(p), InTurn(p),
           NEW item \in Item, OpensRing(conn[p], conn'[p], item),
           wire'[p] = Append(wire[p], item), wire'[Peer(p)] = wire[Peer(p)],
           ring' = ring, unexpected' = unexpected, submitted' = submitted,
           conn'[Peer(p)] = conn[Peer(p)], cq'[Peer(p)] = cq[Peer(p)],
           waiting'[Peer(p)] = waiting[Peer(p)],
           received'[<<p, Peer(p)>>] = received[<<p, Peer(p)>>]
    PROVE  Accounted(p)'
  <1> DEFINE q == Peer(p)
             c == conn[p]
             b == conn'[p]
  <1>1. PICK view \in [Nat -> Knowledge], H, R, U \in Nat :
             Account(p, view, H, R, U)
    BY DEF Accounted
  <1> DEFINE v == view[c.tosend]
  <1>2. /\ item.via = "queue" /\ item.pkt.type = "address"
        /\ item.pkt.id = c.tosend /\ item.pkt.header.credit = 0
        /\ ~c.recv_ring
        /\ b.recv_ring = TRUE /\ b.p_recv = 0 /\ b.p_recv_tail = N - 1
        /\ b.tosend = c.tosend + 1 /\ b.rdma_credit = 0
        /\ b.free = c.free /\ b.cached_outgoing = c.cached_outgoing
    BY DEF OpensRing
  <1>3. Ends(view, c.tosend, conn[q].expected, Says(p), Knows(q),
             U - c.rdma_credit)
    BY <1>1 DEF Account
  <1>4. /\ v.count = submitted[<<p, q>>] /\ v.ring = c.recv_ring
        /\ v.header = c.cached_outgoing
    BY <1>3 DEF Ends, SameView, Says
  <1>5. Knows(q)' = Knows(q)
    <2>1. Peer(q) = p
      BY PeerFacts
    <2>2. QED
      BY <2>1 DEF Knows
  <1>6. Says(p)' = [count |-> submitted[<<p, q>>], ring |-> b.recv_ring,
                    header |-> b.cached_outgoing]
    BY DEF Says
  <1> HIDE DEF v
  <1>7. Sound(v, item.pkt, item.via)
    BY <1>2, <1>4 DEF Sound
  <1>8. SameView(Told(v, item.pkt, item.via), Says(p)')
    <2>1. Told(v, item.pkt, item.via).count = Says(p)'.count
      BY <1>2, <1>4, <1>6 DEF Told
    <2>2. Told(v, item.pkt, item.via).header = Says(p)'.header
      BY <1>2, <1>4, <1>6 DEF Told
    <2>3. Told(v, item.pkt, item.via).ring = Says(p)'.ring
      <3>1. Told(v, item.pkt, item.via).ring = TRUE
        BY <1>2 DEF Told
      <3>2. Says(p)'.ring = b.recv_ring
        BY <1>6
      <3>3. b.recv_ring = TRUE
        BY <1>2
      <3>4. QED
        BY <3>1, <3>2, <3>3
    <2>4. QED
      BY <2>1, <2>2, <2>3 DEF SameView
  <1>9. \A t \in Nat : Stretches(conn[q], c, H, t, R, U) =>
                       Stretches(conn[q], b, H, t, R, U)
    BY <1>1, <1>2, AllocStretches
  <1>10. Buffers(ring'[p], wire'[q], b.free, unexpected'[p], H, R, U)
    BY <1>1, <1>2 DEF Account
  <1>11. item.pkt.header.credit <= c.rdma_credit
    <2>1. c.rdma_credit \in Nat
      BY TypeAt
    <2>2. QED
      BY <1>2, <2>1
  <1>12. QED
    BY <1>1, <1>2, <1>5, <1>7, <1>8, <1>9, <1>10, <1>11, PostAccount DEF v

\* p accepts pkt of the queue; k and x are what is then left of it.
LEMMA TakeFromQueueStep ==
    ASSUME IInv, NEW p \in Proc, NEW pkt \in Packets, TakeFromQueue(p, pkt),
           pkt.id = conn[p].expected,
           NEW k \in Seq(Packets), NEW x \in Place,
           cq' = [cq EXCEPT ![p] = k], waiting' = [waiting EXCEPT ![p] = x],
           \A view : PacketsTell(view, wire[Peer(p)], ring[p], cq[p], waiting[p])
                     => /\ Tells(view, pkt, "queue")
                        /\ PacketsTell(view, wire[Peer(p)], ring[p], k, x),
           pkt.id <= conn[Peer(p)].tosend - 1,
           InSequence(conn[Peer(p)].tosend, conn[p].expected + 1,
                      wire[Peer(p)], ring[p], k, x)
    PROVE  IInv'
  <1> DEFINE q == Peer(p)
             c == conn[p]
  <1>1. /\ FPTypeOK /\ HandedInOrder /\ InTurn(p) /\ InTurn(q)
        /\ Accounted(p) /\ Accounted(q)
        /\ InUse(conn[p], wire[p], completions[p])
        /\ InUse(conn[q], wire[q], completions[q])
    BY InvariantAt
  <1>2. q \in Proc /\ Peer(q) = p /\ p # q
    BY PeerFacts
  <1>3. /\ HandedOver(p, pkt) /\ Dropped(p, pkt)
        /\ UNCHANGED <<ring, completions, unexpected, submitted>>
    BY DEF TakeFromQueue
  <1>4. PICK view \in [Nat -> Knowledge], H, R, U \in Nat :
            Account(q, view, H, R, U)
    BY <1>1 DEF Accounted
  <1>5. /\ PacketsTell(view, wire[q], ring[p], cq[p], waiting[p])
        /\ Buffers(ring[q], wire[p], conn[q].free, unexpected[q], H, R, U)
    BY <1>2, <1>4 DEF Account
  <1>6. Tells(view, pkt, "queue") /\ PacketsTell(view, wire[q], ring[p], k, x)
    BY <1>5
  <1>7. Turn(p, pkt, "queue")
    BY <1>1, <1>4, <1>6, TurnFacts
  <1>8. PICK b \in Connection :
               /\ conn' = [conn EXCEPT ![p] = b]
               /\ Accepts(c, b, pkt, "queue")
               /\ \/ wire' = wire /\ AcceptsQuietly(c, b)
                  \/ \E item \in Item :
                         /\ OpensRing(c, b, item)
                         /\ wire' = [wire EXCEPT ![p] = Append(wire[p], item)]
    BY <1>1, <1>7, TakeFromQueueTakes
  <1>9. /\ conn \in [Proc -> Connection] /\ wire \in [Proc -> Seq(Item)]
        /\ cq \in [Proc -> Seq(Packets)] /\ waiting \in [Proc -> Place]
        /\ wire[p] \in Seq(Item)
    BY <1>1 DEF FPTypeOK
  <1>10. /\ conn' \in [Proc -> Connection] /\ conn'[p] = b
         /\ conn'[q] = conn[q]
    BY <1>2, <1>8, <1>9
  <1>11. /\ cq' \in [Proc -> Seq(Packets)] /\ cq'[p] = k /\ cq'[q] = cq[q]
         /\ waiting' \in [Proc -> Place] /\ waiting'[p] = x
         /\ waiting'[q] = waiting[q]
    BY <1>2, <1>9
  <1>12. /\ received' \in [Proc \X Proc -> Seq(Nat)]
         /\ lost' \in [Proc -> Nat] /\ HandedInOrder'
         /\ received'[<<p, q>>] = received[<<p, q>>]
         /\ Len(received'[<<q, p>>]) =
                IF pkt.type = "address" THEN Len(received[<<q, p>>])
                ELSE Len(received[<<q, p>>]) + 1
    BY <1>1, <1>3, <1>7, HandedFacts
  <1>13. Knows(p)'.count = IF pkt.type = "address" THEN Knows(p).count
                           ELSE Knows(p).count + 1
    BY <1>12 DEF Knows
  <1>14. Says(q)' = Says(q)
    BY <1>3, <1>10 DEF Says
  <1>15. b.expected = c.expected + 1 /\ BufferPart(b, c)
    BY <1>8 DEF Accepts
  <1>16. InUse(conn[q], wire[q], completions[q])' /\ wire'[q] = wire[q]
         /\ wire' \in [Proc -> Seq(Item)]
    <2>1. wire' = wire \/ \E item \in Item :
                              wire' = [wire EXCEPT ![p] = Append(wire[p], item)]
      BY <1>8
    <2>2. \A item \in Item : Append(wire[p], item) \in Seq(Item)
      BY <1>9
    <2>3. wire'[q] = wire[q] /\ wire' \in [Proc -> Seq(Item)]
      BY <1>2, <1>9, <2>1, <2>2
    <2>4. QED
      BY <1>1, <1>3, <1>10, <2>3
  <1>17. FPTypeOK'
    BY <1>1, <1>3, <1>10, <1>11, <1>12, <1>16, TypeKept DEF FPTypeOK
  <1>18. InTurn(q)'
    BY <1>2, <1>3, <1>10, <1>11, <1>15, <1>16 DEF InTurn
  <1>19. ASSUME Buffers(ring[q], wire'[p], conn[q].free, unexpected[q], H, R, U)
         PROVE  Accounted(q)'
    <2>1. PacketsTell(view, wire'[q], ring'[p], cq'[p], waiting'[p])
      BY <1>3, <1>6, <1>11, <1>16
    <2>2. Buffers(ring'[q], wire'[p], conn'[q].free, unexpected'[q], H, R, U)
      BY <1>3, <1>10, <1>19
    <2>3. Accepts(conn[p], conn'[p], pkt, "queue")
      BY <1>8, <1>10
    <2>4. QED
      BY <1>1, <1>4, <1>6, <1>7, <1>10, <1>13, <1>14, <1>16, <1>17, <2>1, <2>2,
         <2>3, AcceptAccount
  <1>20. CASE wire' = wire /\ AcceptsQuietly(c, b)
    <2>1. Accounted(p)'
      BY <1>1, <1>3, <1>10, <1>11, <1>12, <1>17, <1>20, QuietAccount
    <2>2. Accounted(q)'
      BY <1>5, <1>19, <1>20
    <2>3. InTurn(p)'
      BY <1>1, <1>2, <1>3, <1>10, <1>11, <1>20, InTurnKept DEF AcceptsQuietly
    <2>4. InUse(conn[p], wire[p], completions[p])'
      BY <1>1, <1>3, <1>10, <1>15, <1>20, SameInUse DEF BufferPart
    <2>5. QED
      BY <1>12, <1>16, <1>17, <1>18, <2>1, <2>2, <2>3, <2>4, Assemble
  <1>21. CASE \E item \in Item :
                  /\ OpensRing(c, b, item)
                  /\ wire' = [wire EXCEPT ![p] = Append(wire[p], item)]
    <2>1. PICK item \in Item :
                  /\ OpensRing(c, b, item)
                  /\ wire' = [wire EXCEPT ![p] = Append(wire[p], item)]
      BY <1>21
    <2>2. wire'[p] = Append(wire[p], item)
      BY <1>9, <2>1
    <2>3. /\ item.via = "queue" /\ item.pkt.id = c.tosend
          /\ b.tosend = c.tosend + 1
      BY <2>1 DEF OpensRing
    <2>4. Accounted(p)'
      BY <1>1, <1>3, <1>10, <1>11, <1>12, <1>16, <1>17, <2>1, <2>2, OpensAccount
    <2>5. Accounted(q)'
      <3>1. ring[q] \in [Slot -> Place]
        BY <1>1, <1>2, TypeAt
      <3>2. Buffers(ring[q], wire'[p], conn[q].free, unexpected[q], H, R, U)
        BY <1>5, <1>9, <2>2, <2>3, <3>1, QueueBuffers
      <3>3. QED
        BY <1>19, <3>2
    <2>6. InTurn(p)'
      <3>1. /\ ring[q] \in [Slot -> Place] /\ cq[q] \in Seq(Packets)
            /\ waiting[q] \in Place /\ conn[q].expected \in Nat \ {0}
            /\ c.tosend \in Nat
        BY <1>1, <1>2, TypeAt
      <3>2. InSequence(c.tosend, conn[q].expected, wire[p], ring[q], cq[q],
                       waiting[q])
        BY <1>1 DEF InTurn
      <3>3. InSequence(c.tosend + 1, conn[q].expected, Append(wire[p], item),
                       ring[q], cq[q], waiting[q])
        BY <1>9, <2>3, <3>1, <3>2, PostInSequence
      <3>4. QED
        BY <1>3, <1>10, <1>11, <2>2, <2>3, <3>3 DEF InTurn
    <2>7. InUse(conn[p], wire[p], completions[p])'
      <3>1. InUse(b, Append(wire[p], item), completions[p])
        BY <1>1, <1>9, <1>15, <2>3, QueueInUse DEF BufferPart
      <3>2. QED
        BY <1>3, <1>10, <2>2, <3>1
    <2>8. QED
      BY <1>12, <1>16, <1>17, <1>18, <2>4, <2>5, <2>6, <2>7, Assemble
  <1>22. QED
    BY <1>8, <1>20, <1>21

LEMMA WaitIsOverStep ==
    ASSUME IInv, NEW p \in Proc, WaitIsOver(p)
    PROVE  IInv'
  <1> DEFINE q == Peer(p)
             x == waiting[p]
             e == conn[p].expected
  <1>1. FPTypeOK /\ InTurn(q) /\ q \in Proc /\ Peer(q) = p
    BY InvariantAt, PeerFacts
  <1>2. /\ x # None /\ x.id = e /\ TakeFromQueue(p, x)
        /\ waiting' = [waiting EXCEPT ![p] = None] /\ cq' = cq
    BY DEF WaitIsOver
  <1>3. /\ wire[q] \in Seq(Item) /\ ring[p] \in [Slot -> Place]
        /\ cq[p] \in Seq(Packets) /\ x \in Place
        /\ conn[q].tosend \in Nat /\ e \in Nat \ {0}
    BY <1>1, TypeAt
  <1>4. x \in Packets /\ None \in Place
    BY <1>2, <1>3, PlaceFacts
  <1>5. InSequence(conn[q].tosend, e, wire[q], ring[p], cq[p], x)
    BY <1>1 DEF InTurn
  <1>6. cq' = [cq EXCEPT ![p] = cq[p]]
    BY <1>1, <1>2 DEF FPTypeOK
  <1> HIDE DEF x
  <1>7. x.id <= conn[q].tosend - 1
    <2>1. x.id \in e .. conn[q].tosend - 1
      BY <1>2, <1>3, <1>5, NumbersBelow
    <2>2. QED
      BY <1>3, <2>1
  <1>8. InSequence(conn[q].tosend, e + 1, wire[q], ring[p], cq[p], None)
    BY <1>2, <1>3, <1>5, HeldAccepted
  <1>9. ASSUME NEW view, PacketsTell(view, wire[q], ring[p], cq[p], x)
        PROVE  /\ Tells(view, x, "queue")
               /\ PacketsTell(view, wire[q], ring[p], cq[p], None)
    <2>1. Tells(view, x, "queue")
      BY <1>2, <1>9 DEF PacketsTell
    <2>2. QED
      BY <1>3, <1>9, <2>1, HeldAcceptedTells
  <1>10. QED
    BY <1>2, <1>3, <1>4, <1>6, <1>7, <1>8, <1>9, TakeFromQueueStep DEF x

LEMMA ProcessRecvStep ==
    ASSUME IInv, NEW p \in Proc, ProcessRecv(p)
    PROVE  IInv'
  <1> DEFINE q == Peer(p)
             x == Head(cq[p])
             k == Tail(cq[p])
             e == conn[p].expected
             n == conn[q].tosend
  <1>1. /\ FPTypeOK /\ HandedInOrder /\ InTurn(p) /\ InTurn(q)
        /\ Accounted(p) /\ Accounted(q)
        /\ InUse(conn[p], wire[p], completions[p])
        /\ InUse(conn[q], wire[q], completions[q])
    BY InvariantAt
  <1>2. q \in Proc /\ Peer(q) = p /\ p # q
    BY PeerFacts
  <1>3. /\ waiting[p] = None /\ cq[p] # << >>
        /\ cq' = [cq EXCEPT ![p] = k]
    BY DEF ProcessRecv
  <1>4. /\ wire[q] \in Seq(Item) /\ ring[p] \in [Slot -> Place]
        /\ cq[p] \in Seq(Packets) /\ n \in Nat /\ e \in Nat \ {0}
    BY <1>1, <1>2, TypeAt
  <1>5. x \in Packets /\ k \in Seq(Packets)
    BY <1>3, <1>4, TailFacts
  <1>6. x \in Place /\ None \in Place
    BY <1>5, PlaceFacts
  <1>7. InSequence(n, e, wire[q], ring[p], k, x)
    <2>1. InSequence(n, e, wire[q], ring[p], cq[p], None)
      BY <1>1, <1>2, <1>3 DEF InTurn
    <2> HIDE DEF q, e, n
    <2>2. QED
      BY <1>3, <1>4, <2>1, HeldInSequence
  <1>8. ASSUME NEW view, PacketsTell(view, wire[q], ring[p], cq[p], None)
        PROVE  PacketsTell(view, wire[q], ring[p], k, x)
    BY <1>3, <1>4, <1>8, HeldTells
  <1> HIDE DEF x, k
  <1>9. CASE /\ x.id = e /\ TakeFromQueue(p, x) /\ UNCHANGED waiting
    <2>1. x.id <= n - 1
      <3>1. x.id \in e .. n - 1
        <4>1. x # None
          BY <1>5, PlaceFacts
        <4>2. QED
          BY <1>4, <1>5, <1>6, <1>7, <4>1, NumbersBelow
      <3>2. QED
        BY <1>4, <3>1
    <2>2. InSequence(n, e + 1, wire[q], ring[p], k, None)
      BY <1>4, <1>5, <1>6, <1>7, <1>9, HeldAccepted
    <2>3. ASSUME NEW view,
                 PacketsTell(view, wire[q], ring[p], cq[p], waiting[p])
          PROVE  /\ Tells(view, x, "queue")
                 /\ PacketsTell(view, wire[q], ring[p], k, None)
      <3>1. PacketsTell(view, wire[q], ring[p], k, x)
        BY <1>3, <1>8, <2>3
      <3>2. x # None
        BY <1>5, PlaceFacts
      <3>3. Tells(view, x, "queue")
        BY <3>1, <3>2 DEF PacketsTell
      <3>4. QED
        BY <1>4, <1>5, <1>6, <3>1, <3>3, HeldAcceptedTells
    <2>4. waiting' = [waiting EXCEPT ![p] = None]
      BY <1>1, <1>3, <1>9 DEF FPTypeOK
    <2>5. QED
      BY <1>3, <1>5, <1>6, <1>9, <2>1, <2>2, <2>3, <2>4, TakeFromQueueStep
  <1>10. CASE /\ waiting' = [waiting EXCEPT ![p] = x]
              /\ UNCHANGED <<conn, wire, ring, completions, unexpected, lost,
                             submitted, received>>
    <2>1. /\ cq \in [Proc -> Seq(Packets)] /\ waiting \in [Proc -> Place]
      BY <1>1 DEF FPTypeOK
    <2>2. /\ cq' \in [Proc -> Seq(Packets)] /\ cq'[p] = k /\ cq'[q] = cq[q]
          /\ waiting' \in [Proc -> Place] /\ waiting'[p] = x
          /\ waiting'[q] = waiting[q]
      BY <1>2, <1>3, <1>5, <1>6, <1>10, <2>1
    <2>3. FPTypeOK'
      BY <1>1, <1>10, <2>2, TypeKept DEF FPTypeOK
    <2>4. /\ Says(p)' = Says(p) /\ Says(q)' = Says(q)
          /\ Knows(p)' = Knows(p) /\ Knows(q)' = Knows(q)
      BY <1>10 DEF Says, Knows
    <2>5. Accounted(p)'
      <3>1. PICK view \in [Nat -> Knowledge], H, R, U \in Nat :
                Account(p, view, H, R, U)
        BY <1>1 DEF Accounted
      <3>2. Account(p, view, H, R, U)'
        BY <1>10, <2>2, <2>4, <3>1 DEF Account
      <3>3. QED
        BY <3>1, <3>2 DEF Accounted
    <2>6. Accounted(q)'
      <3>1. PICK view \in [Nat -> Knowledge], H, R, U \in Nat :
                Account(q, view, H, R, U)
        BY <1>1 DEF Accounted
      <3>2. PacketsTell(view, wire[q], ring[p], k, x)
        BY <1>2, <1>3, <1>8, <3>1 DEF Account
      <3>3. Account(q, view, H, R, U)'
        BY <1>2, <1>10, <2>2, <2>4, <3>1, <3>2 DEF Account
      <3>4. QED
        BY <3>1, <3>3 DEF Accounted
    <2>7. InTurn(p)'
      BY <1>1, <1>10, <2>2 DEF InTurn
    <2>8. InTurn(q)'
      BY <1>2, <1>7, <1>10, <2>2 DEF InTurn
    <2>9. /\ InUse(conn[p], wire[p], completions[p])'
          /\ InUse(conn[q], wire[q], completions[q])'
      BY <1>1, <1>10
    <2>10. HandedInOrder'
      BY <1>1, <1>10 DEF HandedInOrder
    <2>11. QED
      BY <2>3, <2>5, <2>6, <2>7, <2>8, <2>9, <2>10, Assemble
  <1>11. QED
    BY <1>9, <1>10 DEF ProcessRecv, x

-----------------------------------------------------------------------------
(* The invariant.                                                          *)

LEMMA InitInvariant == Init => IInv
  <1> SUFFICES ASSUME Init PROVE IInv
    OBVIOUS
  <1> DEFINE start == [count |-> 0, ring |-> FALSE, header |-> Header(0, 0),
                       tail |-> N - 1]
             view == [i \in Nat |-> start]
  <1>1. 0 \in Headers /\ N \in Nat /\ N > 1
    BY RingAssumption
  <1>2. Header(0, 0) \in Envelope
    BY <1>1 DEF Header, Envelope
  <1>3. start \in Knowledge
    BY <1>1, <1>2 DEF Knowledge
  <1>4. /\ InitialConnection.tosend = 1 /\ InitialConnection.expected = 1
        /\ InitialConnection.recv_ring = FALSE
        /\ InitialConnection.send_ring = FALSE
        /\ InitialConnection.cached_outgoing = Header(0, 0)
        /\ InitialConnection.cached_incoming = Header(0, 0)
        /\ InitialConnection.rdma_credit = 0 /\ InitialConnection.free = {}
    BY DEF InitialConnection
  <1>5. InitialConnection \in Connection
    <2>1. 0 \in Slot
      BY <1>1 DEF Slot
    <2>2. [s \in Slot |-> 0] \in [Slot -> Nat]
      OBVIOUS
    <2>3. QED
      BY <1>2, <2>1, <2>2 DEF InitialConnection, Connection
  <1>6. FPTypeOK
    BY <1>5, PlaceFacts DEF Init, FPTypeOK
  <1>7. HandedInOrder
    BY DEF Init, HandedInOrder
  <1>8. ASSUME NEW p \in Proc
        PROVE  /\ InTurn(p) /\ Accounted(p)
               /\ InUse(conn[p], wire[p], completions[p])
    <2> DEFINE q == Peer(p)
    <2>1. q \in Proc /\ Peer(q) = p
      BY PeerFacts
    <2>2. /\ conn[p] = InitialConnection /\ conn[q] = InitialConnection
          /\ wire[p] = << >> /\ wire[q] = << >>
          /\ ring[p] = [s \in Slot |-> None] /\ ring[q] = [s \in Slot |-> None]
          /\ cq[q] = << >> /\ waiting[q] = None /\ completions[p] = << >>
          /\ unexpected[p] = {}
      BY <2>1 DEF Init
    <2>3. submitted[<<p, q>>] = 0 /\ received[<<p, q>>] = << >>
      <3>1. <<p, q>> \in Proc \X Proc
        BY <2>1
      <3>2. QED
        BY <3>1 DEF Init
    <2> HIDE DEF q
    <2>4. InTurn(p)
      <3>1. InSequence(1, 1, << >>, [s \in Slot |-> None], << >>, None)
        BY DEF InSequence, OnWire, Arrived, AtOnePlace, NoneMissing
      <3>2. QED
        BY <1>4, <2>2, <3>1 DEF InTurn, q
    <2>5. InUse(conn[p], wire[p], completions[p])
      BY <2>2 DEF InUse, Writes
    <2> HIDE DEF view, start
    <2>6. PacketsTell(view, wire[p], ring[q], cq[q], waiting[q])
      BY <2>2 DEF PacketsTell
    <2>7. /\ view[1] = start /\ start.count = 0 /\ start.ring = FALSE
          /\ start.header = Header(0, 0) /\ start.tail = N - 1
      BY DEF view, start
    <2>8. Says(p) = [count |-> 0, ring |-> FALSE, header |-> Header(0, 0)]
      BY <1>4, <2>2, <2>3 DEF Says, q
    <2>9. Knows(q) = [count |-> 0, ring |-> FALSE, header |-> Header(0, 0)]
      BY <1>4, <2>1, <2>2, <2>3 DEF Knows
    <2>10. Ends(view, 1, 1, Says(p), Knows(q), (N - 1) - 0)
      <3>1. SameView(view[1], Says(p)) /\ SameView(view[1], Knows(q))
        <4>1. /\ view[1].count = Says(p).count
              /\ view[1].header = Says(p).header
              /\ view[1].count = Knows(q).count
              /\ view[1].header = Knows(q).header
          BY <2>7, <2>8, <2>9
        <4>2. view[1].ring = FALSE
          BY <2>7
        <4>3. Says(p).ring = FALSE /\ Knows(q).ring = FALSE
          BY <2>8, <2>9
        <4>4. QED
          BY <4>1, <4>2, <4>3 DEF SameView
      <3>2. Within(view[1], Says(p), (N - 1) - 0)
        BY <1>1, <2>7, <2>8 DEF Within
      <3>3. QED
        BY <3>1, <3>2 DEF Ends
    <2>11. Stretches(InitialConnection, InitialConnection, 0, N - 1, 0, N - 1)
      BY <1>1, <1>4 DEF Stretches
    <2>12. Buffers(ring[p], wire[q], {}, {}, 0, 0, N - 1)
      BY <2>2 DEF Buffers, Writes
    <2>13. Account(p, view, 0, 0, N - 1)
      BY <1>4, <2>2, <2>6, <2>7, <2>10, <2>11, <2>12 DEF Account, q
    <2>14. view \in [Nat -> Knowledge]
      BY <1>3 DEF view
    <2>15. N - 1 \in Nat
      BY <1>1
    <2>16. Accounted(p)
      BY <2>13, <2>14, <2>15 DEF Accounted
    <2>17. QED
      BY <2>4, <2>5, <2>16
  <1>9. QED
    BY <1>6, <1>7, <1>8 DEF IInv

LEMMA StepInvariant == IInv /\ [Next]_vars => IInv'
  <1> SUFFICES ASSUME IInv, [Next]_vars PROVE IInv'
    OBVIOUS
  <1>1. ASSUME NEW p \in Proc, NEW env \in Headers, NEW size \in Sizes,
               EagerSend(p, env, size)
        PROVE  IInv'
    BY <1>1, EagerSendStep
  <1>2. ASSUME NEW p \in Proc, Land(p) PROVE IInv'
    BY <1>2, LandRingStep, LandQueueStep
  <1>3. ASSUME NEW p \in Proc, ProcessSend(p) PROVE IInv'
    BY <1>3, ProcessSendStep
  <1>4. ASSUME NEW p \in Proc, PollRing(p) PROVE IInv'
    BY <1>4, PollRingStep
  <1>5. ASSUME NEW p \in Proc, ProcessRecv(p) PROVE IInv'
    BY <1>5, ProcessRecvStep
  <1>6. ASSUME NEW p \in Proc, WaitIsOver(p) PROVE IInv'
    BY <1>6, WaitIsOverStep
  <1>7. ASSUME NEW p \in Proc, NEW s \in Slot, MatchUnexpected(p, s)
        PROVE  IInv'
    BY <1>7, MatchUnexpectedStep
  <1>8. CASE UNCHANGED vars
    <2>1. UNCHANGED <<conn, wire, ring, cq, completions, waiting, unexpected,
                      lost, submitted, received>>
      BY <1>8 DEF vars
    <2>2. FPTypeOK' /\ HandedInOrder'
      BY <2>1 DEF IInv, FPTypeOK, HandedInOrder
    <2>3. ASSUME NEW p \in Proc
          PROVE  /\ InTurn(p)' /\ Accounted(p)'
                 /\ InUse(conn[p], wire[p], completions[p])'
      <3>1. /\ InTurn(p) /\ Accounted(p)
            /\ InUse(conn[p], wire[p], completions[p])
        BY DEF IInv
      <3>2. PICK view \in [Nat -> Knowledge], H, R, U \in Nat :
                Account(p, view, H, R, U)
        BY <3>1 DEF Accounted
      <3>3. Account(p, view, H, R, U)'
        BY <2>1, <3>2 DEF Account, Says, Knows
      <3>4. Accounted(p)'
        BY <3>2, <3>3 DEF Accounted
      <3>5. QED
        BY <2>1, <3>1, <3>4 DEF InTurn
    <2>4. QED
      BY <2>2, <2>3 DEF IInv
  <1>9. QED
    BY <1>1, <1>2, <1>3, <1>4, <1>5, <1>6, <1>7, <1>8 DEF Next

\* Every reachable state satisfies the invariant.
THEOREM InvariantHolds == Spec => []IInv
  <1>1. QED
    BY InitInvariant, StepInvariant, PTL DEF Spec

-----------------------------------------------------------------------------
(* No buffer of a ring is written before it was given back.                *)

LEMMA SlotAhead ==
    ASSUME NEW s \in Slot, NEW V \in Int
    PROVE  /\ (s - (V % N) - 1) % N \in Slot
           /\ (V + 1 - N + ((s - (V % N) - 1) % N)) % N = s
  <1> DEFINE m == V % N
             k == V \div N
             a == s - m - 1
             d == a % N
             l == a \div N
  <1>1. m \in Slot /\ k \in Int /\ V = N * k + m
    BY SlotOf
  <1>2. N \in Nat /\ s \in Int /\ m \in Int
    BY <1>1, RingAssumption DEF Slot
  <1> HIDE DEF m, k
  <1>3. a \in Int
    BY <1>2
  <1>4. d \in Slot /\ l \in Int /\ a = N * l + d
    <2> HIDE DEF a
    <2>1. QED
      BY <1>3, SlotOf
  <1> HIDE DEF d, l
  <1>5. s - m - 1 = N * l + d
    BY <1>4
  <1>6. d \in Int
    BY <1>4, <1>2 DEF Slot
  <1> DEFINE x == V + 1 - N + d
  <1>7. x = N * (k - 1 - l) + s
    <2>1. N * (k - 1 - l) = N * k - N - N * l
      BY <1>1, <1>2, <1>4
    <2>2. N * k \in Int /\ N * l \in Int
      BY <1>1, <1>2, <1>4
    <2>3. QED
      BY <1>1, <1>2, <1>5, <1>6, <2>1, <2>2
  <1>8. x \in Int /\ k - 1 - l \in Int
    BY <1>1, <1>2, <1>4, <1>6
  <1>9. x % N = s
    <2> HIDE DEF x
    <2>1. QED
      BY <1>7, <1>8, OneSlot
  <1>10. QED
    BY <1>4, <1>9 DEF d, a, m

\* The buffers that are polled and not given back, counted as in Stretches.
LEMMA TakenSlots ==
    ASSUME NEW s \in Slot, NEW R \in Nat, NEW U \in Nat, R <= U, U < R + N
    PROVE  (s - (U % N) - 1) % N < ((R % N) - (U % N) - 1) % N
               <=> s \in Slots(U + 1 - N, R)
  <1> DEFINE d == (s - (U % N) - 1) % N
             e == ((R % N) - (U % N) - 1) % N
             x == U + 1 - N + d
             y == U + 1 - N + e
  <1>1. N \in Nat
    BY RingAssumption
  <1>2. d \in Slot /\ x % N = s
    BY SlotAhead
  <1>3. e \in Slot /\ y % N = R % N
    <2>1. R % N \in Slot
      BY SlotOf
    <2>2. QED
      BY <2>1, SlotAhead
  <1> HIDE DEF d, e
  <1>4. /\ d \in Nat /\ e \in Nat /\ d <= N - 1 /\ e <= N - 1
    BY <1>1, <1>2, <1>3 DEF Slot
  <1>5. /\ x \in Int /\ y \in Int /\ U + 1 - N <= x /\ x <= U
        /\ U + 1 - N <= y /\ y <= U /\ U + 1 - N <= R /\ R \in Int
        /\ (d < e <=> x < y)
    BY <1>1, <1>4
  <1> HIDE DEF x, y
  <1>6. ASSUME NEW a \in Int, NEW b \in Int,
               U + 1 - N <= a, a <= U, U + 1 - N <= b, b <= U, a % N = b % N
        PROVE  a = b
    <2>1. CASE a <= b
      <3>1. b < a + N
        BY <1>1, <1>6
      <3>2. QED
        BY <1>6, <2>1, <3>1, FewerThanN
    <2>2. CASE b <= a
      <3>1. a < b + N
        BY <1>1, <1>6
      <3>2. QED
        BY <1>6, <2>2, <3>1, FewerThanN
    <2>3. QED
      BY <2>1, <2>2
  <1>7. y = R
    BY <1>3, <1>5, <1>6
  <1>8. ASSUME d < e PROVE s \in Slots(U + 1 - N, R)
    <2>1. x \in U + 1 - N .. R - 1
      BY <1>5, <1>7, <1>8
    <2>2. QED
      BY <1>2, <2>1 DEF Slots
  <1>9. ASSUME s \in Slots(U + 1 - N, R) PROVE d < e
    <2>1. PICK z \in U + 1 - N .. R - 1 : s = z % N
      BY <1>9 DEF Slots
    <2>2. z \in Int /\ U + 1 - N <= z /\ z <= U /\ z < R
      BY <1>1, <2>1
    <2>3. z = x
      BY <1>2, <1>5, <1>6, <2>1, <2>2
    <2>4. QED
      BY <1>5, <1>7, <2>2, <2>3
  <1>10. QED
    BY <1>8, <1>9 DEF d, e

LEMMA SlotsApart ==
    ASSUME NEW R \in Nat, NEW H \in Nat, NEW U \in Nat, R <= H, H <= U
    PROVE  Slots(U + 1 - N, R) \cap Slots(R, H) = {}
  <1>1. N \in Nat
    BY RingAssumption
  <1>2. SUFFICES ASSUME NEW x \in U + 1 - N .. R - 1, NEW y \in R .. H - 1,
                        x % N = y % N
                 PROVE  FALSE
    BY DEF Slots
  <1>3. x \in Int /\ y \in Int /\ x < y /\ y < x + N
    BY <1>1
  <1>4. y >= x + N
    BY <1>2, <1>3, SameSlot
  <1>5. QED
    BY <1>1, <1>3, <1>4

LEMMA TakenIs ==
    ASSUME NEW q \in Proc, NEW c,
           NEW H \in Nat, NEW T \in Nat, NEW R \in Nat, NEW U \in Nat,
           Stretches(c, conn[q], H, T, R, U)
    PROVE  \A s \in Slot : s \in Taken(q) <=> s \in Slots(U + 1 - N, R)
  <1> DEFINE d == conn[q]
  <1> TAKE s \in Slot
  <1>1. R <= U /\ U < R + N
    BY DEF Stretches
  <1>2. CASE d.recv_ring
    <2>1. d.p_recv = R % N /\ d.p_recv_tail = U % N
      BY <1>2 DEF Stretches
    <2>2. (s - d.p_recv_tail - 1) % N < (d.p_recv - d.p_recv_tail - 1) % N
             <=> s \in Slots(U + 1 - N, R)
      BY <1>1, <2>1, TakenSlots
    <2>3. QED
      BY <1>2, <2>2 DEF Taken
  <1>3. CASE ~d.recv_ring
    <2>1. R = 0 /\ U = N - 1
      BY <1>3 DEF Stretches
    <2>2. U + 1 - N = 0
      BY <2>1, RingAssumption
    <2>3. Slots(U + 1 - N, R) = {}
      BY <2>1, <2>2 DEF Slots
    <2>4. QED
      BY <1>3, <2>3 DEF Taken
  <1>4. QED
    BY <1>2, <1>3

LEMMA ApartFromInvariant == IInv => NoOverwrite
  <1> SUFFICES ASSUME IInv, NEW p \in Proc, NEW i \in ItemsOnRing(p)
               PROVE  LET q == Peer(p)
                      IN /\ wire[p][i].slot \notin Landed(q) \cup Taken(q)
                         /\ unexpected[q] \subseteq Taken(q)
                         /\ \A j \in ItemsOnRing(p) \ {i} :
                                wire[p][i].slot # wire[p][j].slot
    BY DEF NoOverwrite
  <1> DEFINE q == Peer(p)
             w == wire[p]
             d == conn[q]
  <1>1. FPTypeOK /\ Accounted(q) /\ q \in Proc /\ Peer(q) = p
    BY InvariantAt, PeerFacts
  <1>2. PICK view \in [Nat -> Knowledge], H, R, U \in Nat :
            Account(q, view, H, R, U)
    BY <1>1 DEF Accounted
  <1> DEFINE T == view[conn[p].expected].tail
  <1>3. /\ Stretches(conn[p], d, H, T, R, U)
        /\ Buffers(ring[q], w, d.free, unexpected[q], H, R, U)
    BY <1>1, <1>2 DEF Account
  <1>4. T \in Nat
    BY <1>1, TypeAt DEF Knowledge
  <1>5. R <= H /\ H <= U /\ U < R + N
    BY <1>2, <1>3, <1>4 DEF Stretches
  <1>6. w \in Seq(Item) /\ unexpected[q] \in SUBSET Slot
    BY <1>1, TypeAt
  <1>7. ItemsOnRing(p) = Writes(w)
    BY <1>6 DEF ItemsOnRing, Writes
  <1>8. w[i].slot \in Slot
    BY <1>6, <1>7, WritesItems
  <1>9. \A s \in Slot : s \in Taken(q) <=> s \in Slots(U + 1 - N, R)
    <2>1. /\ q \in Proc /\ H \in Nat /\ R \in Nat /\ U \in Nat /\ T \in Nat
          /\ Stretches(conn[p], conn[q], H, T, R, U)
      BY <1>1, <1>2, <1>3, <1>4
    <2> HIDE DEF q, w, d, T
    <2> QED
      BY <2>1, TakenIs
  <1> HIDE DEF T, d
  <1>10. w[i].slot \in Slots(R, H) /\ ring[q][w[i].slot] = None
    BY <1>3, <1>7 DEF Buffers
  <1>11. w[i].slot \notin Slots(U + 1 - N, R)
    BY <1>2, <1>5, <1>10, SlotsApart
  <1>12. w[i].slot \notin Landed(q) \cup Taken(q)
    BY <1>8, <1>9, <1>10, <1>11 DEF Landed
  <1>13. unexpected[q] \subseteq Taken(q)
    BY <1>3, <1>6, <1>9 DEF Buffers
  <1>14. \A j \in ItemsOnRing(p) \ {i} : w[i].slot # w[j].slot
    BY <1>3, <1>7 DEF Buffers
  <1>15. QED
    BY <1>12, <1>13, <1>14

\* There is one copy of a buffer at the receiver and nothing says that it is in
\* use but the order of the ring: what is on its way finds its buffer empty,
\* not read and not waiting for a receive (viapriv.c:515).
THEOREM NothingIsOverwritten == Spec => []NoOverwrite
  <1>1. QED
    BY InvariantHolds, ApartFromInvariant, PTL

-----------------------------------------------------------------------------
(* The sends that complete.                                                *)

LEMMA CompleteFromInvariant == IInv => SendsComplete
  <1> SUFFICES ASSUME IInv, NEW p \in Proc
               PROVE  /\ \A i \in ItemsOnRing(p) :
                             conn[p].shandle[wire[p][i].slot] =
                                 wire[p][i].pkt.msg
                      /\ \A i \in DOMAIN completions[p] :
                             conn[p].shandle[completions[p][i].slot] =
                                 completions[p][i].msg
    BY DEF SendsComplete
  <1>1. FPTypeOK /\ InUse(conn[p], wire[p], completions[p])
    BY InvariantAt
  <1>2. wire[p] \in Seq(Item) /\ completions[p] \in Seq(Write)
    BY <1>1, TypeAt
  <1>3. /\ ItemsOnRing(p) = Writes(wire[p])
        /\ DOMAIN completions[p] = 1 .. Len(completions[p])
    BY <1>2 DEF ItemsOnRing, Writes
  <1>4. QED
    BY <1>1, <1>3 DEF InUse

\* viadev_process_send finds in the buffer the send whose write has completed.
THEOREM TheRightSendCompletes == Spec => []SendsComplete
  <1>1. QED
    BY InvariantHolds, CompleteFromInvariant, PTL

-----------------------------------------------------------------------------
(* The loop that waits for the ring.                                       *)

LEMMA WaitFromInvariant == IInv => WaitIsShort
  <1> SUFFICES ASSUME IInv, NEW p \in Proc, waiting[p] # None
               PROVE  \A id \in conn[p].expected .. waiting[p].id - 1 :
                          \E s \in Slot : ring[p][s].id = id
    BY DEF WaitIsShort
  <1> DEFINE q == Peer(p)
  <1>1. FPTypeOK /\ InTurn(q) /\ q \in Proc /\ Peer(q) = p
    BY InvariantAt, PeerFacts
  <1>2. /\ wire[q] \in Seq(Item) /\ ring[p] \in [Slot -> Place]
        /\ cq[p] \in Seq(Packets) /\ waiting[p] \in Place
        /\ conn[q].tosend \in Nat /\ conn[p].expected \in Nat \ {0}
    BY <1>1, TypeAt
  <1>3. waiting[p] \in Packets
    BY <1>2, PlaceFacts
  <1>4. InSequence(conn[q].tosend, conn[p].expected, wire[q], ring[p], cq[p],
                   waiting[p])
    BY <1>1 DEF InTurn
  <1>5. QED
    BY <1>2, <1>3, <1>4, HeldForTheRing

\* viadev_process_recv, which leaves the completion queue alone as long as it
\* waits for the ring, waits for packets that are in the ring.
THEOREM WaitsForWhatIsThere == Spec => []WaitIsShort
  <1>1. QED
    BY InvariantHolds, WaitFromInvariant, PTL

-----------------------------------------------------------------------------
(* The header that was left out.                                           *)

\* A packet whose turn it is, wherever it is found.
LEMMA TurnOf ==
    ASSUME IInv, NEW p \in Proc, NEW pkt \in Packets, NEW via,
           pkt.id = conn[p].expected,
           \/ via = "ring" /\ \E s \in Slot : ring[p][s] = pkt
           \/ via = "queue" /\ \E i \in 1 .. Len(cq[p]) : cq[p][i] = pkt
           \/ via = "queue" /\ waiting[p] = pkt
    PROVE  Turn(p, pkt, via)
  <1> DEFINE q == Peer(p)
             n == conn[q].tosend
             e == conn[p].expected
  <1>1. FPTypeOK /\ InTurn(q) /\ Accounted(q) /\ q \in Proc /\ Peer(q) = p
    BY InvariantAt, PeerFacts
  <1>2. /\ wire[q] \in Seq(Item) /\ ring[p] \in [Slot -> Place]
        /\ cq[p] \in Seq(Packets) /\ waiting[p] \in Place
        /\ n \in Nat /\ e \in Nat \ {0} /\ pkt # None
    BY <1>1, TypeAt, PlaceFacts
  <1>3. InSequence(n, e, wire[q], ring[p], cq[p], waiting[p])
    BY <1>1 DEF InTurn
  <1>4. PICK view \in [Nat -> Knowledge], H, R, U \in Nat :
            Account(q, view, H, R, U)
    BY <1>1 DEF Accounted
  <1>5. PacketsTell(view, wire[q], ring[p], cq[p], waiting[p])
    BY <1>1, <1>4 DEF Account
  <1>6. Tells(view, pkt, via)
    BY <1>2, <1>5 DEF PacketsTell
  <1>7. pkt.id \in e .. n - 1
    <2>1. /\ \A s \in Slot : ring[p][s] # None => ring[p][s].id \in e .. n - 1
          /\ \A i \in 1 .. Len(cq[p]) : cq[p][i].id \in e .. n - 1
          /\ waiting[p] # None => waiting[p].id \in e .. n - 1
      BY <1>2, <1>3, NumbersBelow
    <2> HIDE DEF q, e, n
    <2>2. QED
      BY <1>2, <2>1
  <1>8. pkt.id <= n - 1
    BY <1>2, <1>7
  <1>9. QED
    BY <1>1, <1>4, <1>6, <1>8, TurnFacts

LEMMA HeaderFromInvariant == IInv => HeaderDecoded
  <1> SUFFICES ASSUME IInv, NEW p \in Proc,
                      IsNext(conn[p], ring[p][conn[p].p_recv])
               PROVE  HeaderOf(conn[p], ring[p][conn[p].p_recv])
                          = ring[p][conn[p].p_recv].header
    BY DEF HeaderDecoded
  <1> DEFINE s == conn[p].p_recv
             pkt == ring[p][s]
  <1>1. FPTypeOK
    BY InvariantAt
  <1>2. s \in Slot /\ ring[p] \in [Slot -> Place]
    BY <1>1, TypeAt DEF Connection
  <1>3. pkt # None /\ pkt.id = conn[p].expected
    BY DEF IsNext
  <1>4. pkt \in Packets
    BY <1>2, <1>3, PlaceFacts
  <1>5. Turn(p, pkt, "ring")
    BY <1>2, <1>3, <1>4, TurnOf
  <1>6. QED
    BY <1>5 DEF Turn, HeaderOf

\* A header that was left out because it is like the last one is the one the
\* receiver has, with its credits, however packets went by ring and by queue.
THEOREM HeadersAreUnderstood == Spec => []HeaderDecoded
  <1>1. QED
    BY InvariantHolds, HeaderFromInvariant, PTL

-----------------------------------------------------------------------------
(* The fast path implements the ordered delivery of OrderedDelivery.        *)

LEMMA InitRefines == Init => OD!ODInit
  BY DEF Init, OD!ODInit

LEMMA SubmitRefines ==
    ASSUME IInv, NEW p \in Proc, NEW env \in Headers, NEW size \in Sizes,
           EagerSend(p, env, size)
    PROVE  OD!Submit(p, Peer(p))
  <1> DEFINE n == submitted[<<p, Peer(p)>>]
             bound == MaxSends[<<p, Peer(p)>>]
  <1>1. n \in Nat
    BY InvariantAt, TypeAt
  <1>2. bound \in Nat
    <2>1. <<p, Peer(p)>> \in {0, 1} \X {0, 1}
      BY PeerFacts DEF Proc
    <2>2. QED
      BY <2>1, RingAssumption
  <1>3. /\ n + 1 <= bound
        /\ submitted' = [submitted EXCEPT ![<<p, Peer(p)>>] = n + 1]
        /\ UNCHANGED received
    BY DEF EagerSend
  <1> HIDE DEF n, bound
  <1>4. n < bound
    BY <1>1, <1>2, <1>3
  <1>5. QED
    BY <1>3, <1>4 DEF OD!Submit, n, bound

\* Accepting a message is a delivery, accepting an address is none.
LEMMA AcceptRefines ==
    ASSUME IInv, NEW p \in Proc, NEW pkt \in Packets, NEW via,
           Turn(p, pkt, via), HandedOver(p, pkt), UNCHANGED submitted
    PROVE  OD!Deliver(Peer(p), p) \/ UNCHANGED <<submitted, received>>
  <1> DEFINE done == received[<<Peer(p), p>>]
  <1>1. CASE pkt.type = "address"
    BY <1>1 DEF HandedOver
  <1>2. CASE pkt.type # "address"
    <2>1. /\ pkt.msg = Len(done) + 1
          /\ Len(done) < submitted[<<Peer(p), p>>]
      BY <1>2 DEF Turn
    <2>2. received' = [received EXCEPT ![<<Peer(p), p>>] = Append(@, pkt.msg)]
      BY <1>2 DEF HandedOver
    <2>3. received' = [received EXCEPT ![<<Peer(p), p>>] =
                           Append(@, Len(@) + 1)]
      BY <2>1, <2>2
    <2>4. OD!Deliver(Peer(p), p)
      BY <2>1, <2>3 DEF OD!Deliver
    <2>5. QED
      BY <2>4
  <1>3. QED
    BY <1>1, <1>2

LEMMA PollRingRefines ==
    ASSUME IInv, NEW p \in Proc, PollRing(p)
    PROVE  OD!Deliver(Peer(p), p) \/ UNCHANGED <<submitted, received>>
  <1> DEFINE pkt == ring[p][conn[p].p_recv]
  <1>1. /\ pkt # None /\ pkt.id = conn[p].expected
        /\ HandedOver(p, pkt) /\ UNCHANGED submitted
    BY DEF PollRing, IsNext
  <1>2. conn[p].p_recv \in Slot /\ ring[p] \in [Slot -> Place]
    BY InvariantAt, TypeAt DEF Connection
  <1>3. pkt \in Packets
    BY <1>1, <1>2, PlaceFacts
  <1>4. Turn(p, pkt, "ring")
    BY <1>1, <1>2, <1>3, TurnOf
  <1> HIDE DEF pkt
  <1>5. QED
    BY <1>1, <1>3, <1>4, AcceptRefines

LEMMA ProcessRecvRefines ==
    ASSUME IInv, NEW p \in Proc, ProcessRecv(p)
    PROVE  OD!Deliver(Peer(p), p) \/ UNCHANGED <<submitted, received>>
  <1> DEFINE pkt == Head(cq[p])
  <1>1. cq[p] # << >> /\ cq[p] \in Seq(Packets)
    BY InvariantAt, TypeAt DEF ProcessRecv
  <1>2. pkt = cq[p][1] /\ pkt \in Packets /\ 1 \in 1 .. Len(cq[p])
    BY <1>1, TailFacts
  <1>3. CASE pkt.id = conn[p].expected /\ TakeFromQueue(p, pkt)
    <2>1. Turn(p, pkt, "queue")
      <3>1. \E i \in 1 .. Len(cq[p]) : cq[p][i] = pkt
        BY <1>2
      <3> HIDE DEF pkt
      <3>2. QED
        BY <1>2, <1>3, <3>1, TurnOf
    <2>2. HandedOver(p, pkt) /\ UNCHANGED submitted
      BY <1>3 DEF TakeFromQueue
    <2> HIDE DEF pkt
    <2>3. QED
      BY <1>2, <2>1, <2>2, AcceptRefines
  <1>4. CASE UNCHANGED <<submitted, received>>
    BY <1>4
  <1>5. QED
    BY <1>3, <1>4 DEF ProcessRecv

LEMMA WaitIsOverRefines ==
    ASSUME IInv, NEW p \in Proc, WaitIsOver(p)
    PROVE  OD!Deliver(Peer(p), p) \/ UNCHANGED <<submitted, received>>
  <1> DEFINE pkt == waiting[p]
  <1>1. /\ pkt # None /\ pkt.id = conn[p].expected /\ TakeFromQueue(p, pkt)
    BY DEF WaitIsOver
  <1>2. pkt \in Packets
    BY <1>1, InvariantAt, TypeAt, PlaceFacts
  <1>3. Turn(p, pkt, "queue")
    BY <1>1, <1>2, TurnOf
  <1>4. HandedOver(p, pkt) /\ UNCHANGED submitted
    BY <1>1 DEF TakeFromQueue
  <1> HIDE DEF pkt
  <1>5. QED
    BY <1>2, <1>3, <1>4, AcceptRefines

LEMMA StepRefines == IInv /\ [Next]_vars => [OD!ODNext]_(OD!odVars)
  <1> SUFFICES ASSUME IInv, [Next]_vars
               PROVE  OD!ODNext \/ UNCHANGED <<submitted, received>>
    BY DEF OD!odVars
  <1>1. \A p \in Proc : Peer(p) \in Proc
    BY PeerFacts
  <1>2. ASSUME NEW p \in Proc, NEW env \in Headers, NEW size \in Sizes,
               EagerSend(p, env, size)
        PROVE  OD!ODNext
    BY <1>1, <1>2, SubmitRefines DEF OD!ODNext
  <1>3. ASSUME NEW p \in Proc, Land(p) \/ ProcessSend(p)
        PROVE  UNCHANGED <<submitted, received>>
    BY <1>3 DEF Land, ProcessSend
  <1>4. ASSUME NEW p \in Proc, PollRing(p) \/ ProcessRecv(p) \/ WaitIsOver(p)
        PROVE  OD!ODNext \/ UNCHANGED <<submitted, received>>
    <2>1. OD!Deliver(Peer(p), p) \/ UNCHANGED <<submitted, received>>
      BY <1>4, PollRingRefines, ProcessRecvRefines, WaitIsOverRefines
    <2>2. QED
      BY <1>1, <2>1 DEF OD!ODNext
  <1>5. ASSUME NEW p \in Proc, NEW s \in Slot, MatchUnexpected(p, s)
        PROVE  UNCHANGED <<submitted, received>>
    BY <1>5 DEF MatchUnexpected
  <1>6. CASE UNCHANGED vars
    BY <1>6 DEF vars
  <1>7. QED
    BY <1>2, <1>3, <1>4, <1>5, <1>6 DEF Next

\* Whichever of ring and queue a message goes by, every send is handed over at
\* most once, and the sends of a pair in the order they were started: the
\* safety part of OrderedDelivery.
THEOREM RingAndQueueInOrder == Spec => OD!ODSafety
  <1>1. QED
    BY InitRefines, StepRefines, InvariantHolds, PTL DEF Spec, OD!ODSafety

(***************************************************************************)
(* No buffer of a ring is lost or used twice, for every length of the ring: *)
(* those the writer may use, those written, landed and taken, and the       *)
(* credits that bring them back, wherever these are, make N - 1, but for    *)
(* the credits that the set-up of the other ring drops.                     *)
(*                                                                         *)
(* The buffers are counted by the pointers of the two ends, which the       *)
(* invariant above places on one line, and the credits as a sum over the    *)
(* packets, with the theorems of SumTheorems.                               *)
(***************************************************************************)

-----------------------------------------------------------------------------
(* The account.                                                            *)

\* Buffers that the writer may use: all of them as long as it has no address.
FreeAt(c) == IF c.send_ring THEN (c.ptail - c.phead) % N ELSE N - 1

\* Buffers that the owner has polled and not given back.
HeldAt(d) ==
    IF d.recv_ring THEN (d.p_recv - d.p_recv_tail - 1) % N ELSE 0

Full(g) == {s \in Slot : g[s] # None}

\* c writes into the ring g of d, w is its wire.
Stock(c, w, g, d) ==
    FreeAt(c) + Cardinality(Writes(w)) + Cardinality(Full(g)) + HeldAt(d)

\* The credits of the owner that are at v, h, k and x, the places a packet of
\* it can be at.
UnderWay(v, h, k, x) ==
    CreditsOn(v) + CreditsIn(h) + CreditsIn(k) + CreditOf(x)

\* Direction p to its peer, which owns the ring.
StockOf(p) == Stock(conn[p], wire[p], ring[Peer(p)], conn[Peer(p)])
WayOf(p) == UnderWay(wire[Peer(p)], ring[p], cq[p], waiting[p])

Balance(p) ==
    LET q == Peer(p)
    IN  StockOf(p) + conn[q].rdma_credit + WayOf(p) + lost[q] = N - 1

Balanced == \A p \in Proc : Balance(p)

-----------------------------------------------------------------------------
(* The pointers as numbers on one line.                                    *)

LEMMA Distance ==
    ASSUME NEW x \in Int, NEW y \in Int, x <= y, y < x + N
    PROVE  ((y % N) - (x % N)) % N = y - x
  <1> DEFINE a == x \div N
             b == y \div N
             r == x % N
             s == y % N
             d == y - x
  <1>1. a \in Int /\ r \in Slot /\ x = N * a + r
    BY SlotOf
  <1>2. b \in Int /\ s \in Slot /\ y = N * b + s
    BY SlotOf
  <1> HIDE DEF a, b, r, s
  <1>3. N * (b - a) = N * b - N * a /\ N * a \in Int /\ N * b \in Int
    BY <1>1, <1>2, RingAssumption
  <1>4. /\ s - r = N * (a - b) + d /\ a - b \in Int /\ s - r \in Int
        /\ d \in Slot
    <2>1. N * (a - b) = N * a - N * b
      BY <1>1, <1>2, RingAssumption
    <2> QED
      BY <1>1, <1>2, <1>3, <2>1, RingAssumption DEF Slot
  <1> HIDE DEF d
  <1>5. (s - r) % N = d
    BY <1>4, OneSlot
  <1> QED
    BY <1>5 DEF s, r, d

LEMMA DistanceBehind ==
    ASSUME NEW x \in Int, NEW y \in Int, y <= x, x < y + N
    PROVE  ((y % N) - (x % N) - 1) % N = y - x - 1 + N
  <1> DEFINE a == x \div N
             b == y \div N
             r == x % N
             s == y % N
             d == y - x - 1 + N
             e == s - r - 1
  <1>1. a \in Int /\ r \in Slot /\ x = N * a + r
    BY SlotOf
  <1>2. b \in Int /\ s \in Slot /\ y = N * b + s
    BY SlotOf
  <1> HIDE DEF a, b, r, s
  <1>3. /\ N * (a - b - 1) = N * a - N * b - N
        /\ N * a \in Int /\ N * b \in Int
    BY <1>1, <1>2, RingAssumption
  <1>4. e = N * (a - b - 1) + d /\ a - b - 1 \in Int /\ e \in Int /\ d \in Slot
    BY <1>1, <1>2, <1>3, RingAssumption DEF Slot
  <1> HIDE DEF d, e
  <1>5. e % N = d
    BY <1>4, OneSlot
  <1> QED
    BY <1>5 DEF s, r, d, e

\* The stretch of the writer and that of the owner.
Measured(c, d, H, T, R, U) == FreeAt(c) = T - H /\ HeldAt(d) = R - U - 1 + N

LEMMA FreeAndHeld ==
    ASSUME NEW c, NEW d,
           NEW H \in Nat, NEW T \in Nat, NEW R \in Nat, NEW U \in Nat,
           Stretches(c, d, H, T, R, U)
    PROVE  Measured(c, d, H, T, R, U)
  <1>1. U < R + N /\ R <= H /\ H <= T /\ T <= U /\ N \in Nat
    BY RingAssumption DEF Stretches
  <1>2. FreeAt(c) = T - H
    <2>1. CASE c.send_ring
      <3>1. c.phead = H % N /\ c.ptail = T % N
        BY <2>1 DEF Stretches
      <3>2. H \in Int /\ T \in Int /\ T < H + N
        BY <1>1
      <3>3. ((T % N) - (H % N)) % N = T - H
        BY <1>1, <3>2, Distance
      <3> QED
        BY <2>1, <3>1, <3>3 DEF FreeAt
    <2>2. CASE ~c.send_ring
      <3>1. H = 0 /\ T = N - 1
        BY <2>2 DEF Stretches
      <3> QED
        BY <1>1, <2>2, <3>1 DEF FreeAt
    <2> QED
      BY <2>1, <2>2
  <1>3. HeldAt(d) = R - U - 1 + N
    <2>1. CASE d.recv_ring
      <3>1. d.p_recv = R % N /\ d.p_recv_tail = U % N
        BY <2>1 DEF Stretches
      <3>2. R \in Int /\ U \in Int /\ R <= U
        BY <1>1
      <3>3. ((R % N) - (U % N) - 1) % N = R - U - 1 + N
        BY <1>1, <3>2, DistanceBehind
      <3> QED
        BY <2>1, <3>1, <3>3 DEF HeldAt
    <2>2. CASE ~d.recv_ring
      <3>1. R = 0 /\ U = N - 1
        BY <2>2 DEF Stretches
      <3> QED
        BY <1>1, <2>2, <3>1 DEF HeldAt
    <2> QED
      BY <2>1, <2>2
  <1> QED
    BY <1>2, <1>3 DEF Measured

LEMMA CountOnce ==
    ASSUME NEW S, NEW T, IsFiniteSet(T), NEW b, NamesOnce(b, T, S)
    PROVE  IsFiniteSet(S) /\ Cardinality(S) = Cardinality(T)
  <1>1. b \in Bijection(T, S)
    BY DEF NamesOnce, Bijection, Injection, Surjection, IsInjective
  <1>2. ExistsBijection(T, S)
    BY <1>1 DEF ExistsBijection
  <1> QED
    BY <1>2, FS_Bijection

\* A stretch has as many slots as it is long.
LEMMA SlotsCount ==
    ASSUME NEW a \in Int, NEW b \in Int, a <= b, b <= a + N
    PROVE  Cardinality(Slots(a, b)) = b - a
  <1> DEFINE T == a .. b - 1
             S == Slots(a, b)
             f == [x \in T |-> x % N]
  <1>1. IsFiniteSet(T) /\ Cardinality(T) = b - a
    <2>1. b - 1 \in Int
      OBVIOUS
    <2>2. /\ IsFiniteSet(T)
          /\ Cardinality(T) = IF a > b - 1 THEN 0 ELSE (b - 1) - a + 1
      BY <2>1, FS_Interval
    <2>3. (IF a > b - 1 THEN 0 ELSE (b - 1) - a + 1) = b - a
      OBVIOUS
    <2> QED
      BY <2>2, <2>3
  <1>2. NamesOnce(f, T, S)
    <2>1. f \in [T -> S] /\ \A x \in S : \E y \in T : f[y] = x
      BY DEF Slots
    <2>2. ASSUME NEW y \in T, NEW z \in T, f[y] = f[z] PROVE y = z
      <3>1. y \in Int /\ z \in Int /\ y < z + N /\ z < y + N /\ y % N = z % N
        BY <2>2, RingAssumption
      <3>2. y <= z => y = z
        BY <3>1, FewerThanN
      <3>3. z <= y => y = z
        BY <3>1, FewerThanN
      <3> QED
        BY <3>1, <3>2, <3>3
    <2> HIDE DEF S, T, f
    <2> QED
      BY <2>1, <2>2 DEF NamesOnce
  <1> HIDE DEF S, T, f
  <1>3. Cardinality(S) = Cardinality(T)
    BY <1>1, <1>2, CountOnce
  <1> QED
    BY <1>1, <1>3 DEF S

-----------------------------------------------------------------------------
(* The credits in a queue.                                                 *)

LEMMA CreditTypes ==
    ASSUME NEW x \in Place
    PROVE  /\ CreditOf(x) \in Nat
           /\ x # None => CreditOf(x) = x.header.credit
           /\ CreditOf(None) = 0
  BY PlaceFacts DEF CreditOf, Packets, Envelope

\* The credits of each packet.
OnEach(w) == [i \in DOMAIN w |-> CreditOf(w[i].pkt)]
InEach(k) == [i \in DOMAIN k |-> CreditOf(k[i])]

LEMMA ItemCredit ==
    ASSUME NEW item \in Item
    PROVE  CreditOf(item.pkt) \in Nat
  <1>1. item.pkt \in Place
    BY DEF Item, Place
  <1> QED
    BY <1>1, CreditTypes

LEMMA WireCredits ==
    ASSUME NEW w \in Seq(Item)
    PROVE  /\ OnEach(w) \in Seq(Nat) /\ CreditsOn(w) \in Nat
           /\ CreditsOn(w) = SumFunction(OnEach(w))
  <1>1. OnEach(w) \in Seq(Nat)
    <2>1. \A i \in 1 .. Len(w) : CreditOf(w[i].pkt) \in Nat
      BY ItemCredit
    <2> QED
      BY <2>1 DEF OnEach
  <1>2. CreditsOn(w) = SumFunction(OnEach(w))
    BY DEF CreditsOn, OnEach
  <1> QED
    BY <1>1, <1>2, SeqSumType

LEMMA QueueCredits ==
    ASSUME NEW k \in Seq(Packets)
    PROVE  /\ InEach(k) \in Seq(Nat) /\ CreditsIn(k) \in Nat
           /\ CreditsIn(k) = SumFunction(InEach(k))
  <1>1. InEach(k) \in Seq(Nat)
    <2>1. \A i \in 1 .. Len(k) : k[i] \in Place
      BY DEF Place
    <2>2. \A i \in 1 .. Len(k) : CreditOf(k[i]) \in Nat
      BY <2>1, CreditTypes
    <2> QED
      BY <2>2 DEF InEach
  <1>2. CreditsIn(k) = SumFunction(InEach(k))
    BY DEF CreditsIn, InEach
  <1> QED
    BY <1>1, <1>2, SeqSumType

\* Two sequences with the same elements.
LEMMA SameSequence ==
    ASSUME NEW S, NEW s \in Seq(S), NEW t \in Seq(S), Len(s) = Len(t),
           \A i \in 1 .. Len(s) : s[i] = t[i]
    PROVE  s = t
  OBVIOUS

LEMMA WireCreditsAppend ==
    ASSUME NEW w \in Seq(Item), NEW item \in Item
    PROVE  CreditsOn(Append(w, item)) = CreditsOn(w) + CreditOf(item.pkt)
  <1> DEFINE v == Append(w, item)
             f == OnEach(w)
             n == CreditOf(item.pkt)
  <1>1. v \in Seq(Item) /\ n \in Nat /\ f \in Seq(Nat)
    BY WireCredits, ItemCredit
  <1>2. OnEach(v) = Append(f, n)
    <2>1. Len(v) = Len(w) + 1 /\ v[Len(w) + 1] = item /\ DOMAIN v = 1 .. Len(w) + 1
          /\ Len(w) \in Nat /\ DOMAIN w = 1 .. Len(w)
      OBVIOUS
    <2>2. \A i \in 1 .. Len(w) : v[i] = w[i]
      OBVIOUS
    <2>3. Len(f) = Len(w) /\ \A i \in 1 .. Len(w) : f[i] = CreditOf(w[i].pkt)
      BY DEF OnEach
    <2>4. OnEach(v) = [i \in 1 .. Len(w) + 1 |-> CreditOf(v[i].pkt)]
      BY <2>1 DEF OnEach
    <2> HIDE DEF f, n, v
    <2>5. /\ Append(f, n) \in Seq(Nat) /\ Len(Append(f, n)) = Len(w) + 1
          /\ \A i \in 1 .. Len(w) : Append(f, n)[i] = f[i]
          /\ Append(f, n)[Len(w) + 1] = n
      BY <1>1, <2>3, AppendFacts
    <2>6. OnEach(v) \in Seq(Nat) /\ Len(OnEach(v)) = Len(w) + 1
      BY <1>1, <2>1, <2>4, WireCredits
    <2>7. \A i \in 1 .. Len(w) + 1 : OnEach(v)[i] = Append(f, n)[i]
      <3> SUFFICES ASSUME NEW i \in 1 .. Len(w) + 1
                   PROVE  OnEach(v)[i] = Append(f, n)[i]
        OBVIOUS
      <3>1. OnEach(v)[i] = CreditOf(v[i].pkt)
        BY <2>4
      <3>2. CASE i \in 1 .. Len(w)
        BY <2>2, <2>3, <2>5, <3>1, <3>2
      <3>3. CASE i = Len(w) + 1
        BY <2>1, <2>5, <3>1, <3>3 DEF n
      <3>4. i \in 1 .. Len(w) \/ i = Len(w) + 1
        BY <2>1
      <3> QED
        BY <3>2, <3>3, <3>4
    <2> DEFINE l == OnEach(v)
               r == Append(f, n)
    <2> HIDE DEF l, r
    <2>8. l \in Seq(Nat) /\ r \in Seq(Nat) /\ Len(l) = Len(r)
          /\ \A i \in 1 .. Len(l) : l[i] = r[i]
      BY <2>5, <2>6, <2>7 DEF l, r
    <2>9. l = r
      BY <2>8, SameSequence
    <2> QED
      BY <2>9 DEF l, r
  <1> HIDE DEF f, n, v
  <1>3. SumFunction(Append(f, n)) = SumFunction(f) + n
    BY <1>1, SumAppend
  <1>4. CreditsOn(v) = SumFunction(OnEach(v)) /\ CreditsOn(w) = SumFunction(f)
    BY <1>1, WireCredits DEF f
  <1> QED
    BY <1>2, <1>3, <1>4 DEF v, n

LEMMA QueueCreditsAppend ==
    ASSUME NEW k \in Seq(Packets), NEW pkt \in Packets
    PROVE  CreditsIn(Append(k, pkt)) = CreditsIn(k) + CreditOf(pkt)
  <1> DEFINE v == Append(k, pkt)
             f == InEach(k)
             n == CreditOf(pkt)
  <1>1. v \in Seq(Packets) /\ n \in Nat /\ f \in Seq(Nat)
    BY QueueCredits, CreditTypes DEF Place
  <1>2. InEach(v) = Append(f, n)
    <2>1. Len(v) = Len(k) + 1 /\ v[Len(k) + 1] = pkt /\ DOMAIN v = 1 .. Len(k) + 1
          /\ Len(k) \in Nat /\ DOMAIN k = 1 .. Len(k)
      OBVIOUS
    <2>2. \A i \in 1 .. Len(k) : v[i] = k[i]
      OBVIOUS
    <2>3. Len(f) = Len(k) /\ \A i \in 1 .. Len(k) : f[i] = CreditOf(k[i])
      BY DEF InEach
    <2>4. InEach(v) = [i \in 1 .. Len(k) + 1 |-> CreditOf(v[i])]
      BY <2>1 DEF InEach
    <2> HIDE DEF f, n, v
    <2>5. /\ Append(f, n) \in Seq(Nat) /\ Len(Append(f, n)) = Len(k) + 1
          /\ \A i \in 1 .. Len(k) : Append(f, n)[i] = f[i]
          /\ Append(f, n)[Len(k) + 1] = n
      BY <1>1, <2>3, AppendFacts
    <2>6. InEach(v) \in Seq(Nat) /\ Len(InEach(v)) = Len(k) + 1
      BY <1>1, <2>1, <2>4, QueueCredits
    <2>7. \A i \in 1 .. Len(k) + 1 : InEach(v)[i] = Append(f, n)[i]
      <3> SUFFICES ASSUME NEW i \in 1 .. Len(k) + 1
                   PROVE  InEach(v)[i] = Append(f, n)[i]
        OBVIOUS
      <3>1. InEach(v)[i] = CreditOf(v[i])
        BY <2>4
      <3>2. CASE i \in 1 .. Len(k)
        BY <2>2, <2>3, <2>5, <3>1, <3>2
      <3>3. CASE i = Len(k) + 1
        BY <2>1, <2>5, <3>1, <3>3 DEF n
      <3>4. i \in 1 .. Len(k) \/ i = Len(k) + 1
        BY <2>1
      <3> QED
        BY <3>2, <3>3, <3>4
    <2> DEFINE l == InEach(v)
               r == Append(f, n)
    <2> HIDE DEF l, r
    <2>8. l \in Seq(Nat) /\ r \in Seq(Nat) /\ Len(l) = Len(r)
          /\ \A i \in 1 .. Len(l) : l[i] = r[i]
      BY <2>5, <2>6, <2>7 DEF l, r
    <2>9. l = r
      BY <2>8, SameSequence
    <2> QED
      BY <2>9 DEF l, r
  <1> HIDE DEF f, n, v
  <1>3. SumFunction(Append(f, n)) = SumFunction(f) + n
    BY <1>1, SumAppend
  <1>4. CreditsIn(v) = SumFunction(InEach(v)) /\ CreditsIn(k) = SumFunction(f)
    BY <1>1, QueueCredits DEF f
  <1> QED
    BY <1>2, <1>3, <1>4 DEF v, n

LEMMA WireCreditsTail ==
    ASSUME NEW w \in Seq(Item), w # << >>
    PROVE  CreditsOn(w) = CreditOf(Head(w).pkt) + CreditsOn(Tail(w))
  <1> DEFINE v == Tail(w)
             f == OnEach(w)
  <1>1. v \in Seq(Item) /\ f \in Seq(Nat)
    BY WireCredits
  <1>2. f # << >> /\ Head(f) = CreditOf(Head(w).pkt) /\ OnEach(v) = Tail(f)
    <2>1. /\ Len(v) = Len(w) - 1 /\ Head(w) = w[1] /\ Len(w) \in Nat
          /\ 1 \in 1 .. Len(w) /\ DOMAIN v = 1 .. Len(w) - 1
          /\ DOMAIN w = 1 .. Len(w)
      OBVIOUS
    <2>2. \A i \in 1 .. Len(w) - 1 : v[i] = w[i + 1]
      OBVIOUS
    <2>3. Len(f) = Len(w) /\ \A i \in 1 .. Len(w) : f[i] = CreditOf(w[i].pkt)
      BY DEF OnEach
    <2>4. OnEach(v) = [i \in 1 .. Len(w) - 1 |-> CreditOf(v[i].pkt)]
      BY <2>1 DEF OnEach
    <2> HIDE DEF f, v
    <2>5. f # << >>
      BY <1>1, <2>1, <2>3
    <2>6. /\ Tail(f) \in Seq(Nat) /\ Len(Tail(f)) = Len(w) - 1
          /\ \A i \in 1 .. Len(w) - 1 : Tail(f)[i] = f[i + 1]
          /\ Head(f) = f[1]
      BY <1>1, <2>3, <2>5, TailFacts
    <2>7. OnEach(v) \in Seq(Nat) /\ Len(OnEach(v)) = Len(w) - 1
      BY <1>1, <2>1, <2>4, WireCredits
    <2>8. \A i \in 1 .. Len(w) - 1 : OnEach(v)[i] = Tail(f)[i]
      <3> SUFFICES ASSUME NEW i \in 1 .. Len(w) - 1
                   PROVE  OnEach(v)[i] = Tail(f)[i]
        OBVIOUS
      <3>1. i + 1 \in 1 .. Len(w)
        BY <2>1
      <3>2. OnEach(v)[i] = CreditOf(v[i].pkt) /\ v[i] = w[i + 1]
        BY <2>2, <2>4
      <3>3. f[i + 1] = CreditOf(w[i + 1].pkt) /\ Tail(f)[i] = f[i + 1]
        BY <2>3, <2>6, <3>1
      <3> QED
        BY <3>2, <3>3
    <2> DEFINE l == OnEach(v)
               r == Tail(f)
    <2> HIDE DEF l, r
    <2>9. l \in Seq(Nat) /\ r \in Seq(Nat) /\ Len(l) = Len(r)
          /\ \A i \in 1 .. Len(l) : l[i] = r[i]
      BY <2>6, <2>7, <2>8 DEF l, r
    <2>10. l = r
      BY <2>9, SameSequence
    <2> QED
      BY <2>1, <2>3, <2>5, <2>6, <2>10 DEF l, r
  <1> HIDE DEF f, v
  <1>3. SumFunction(f) = Head(f) + SumFunction(Tail(f))
    BY <1>1, <1>2, SumTail
  <1>4. CreditsOn(v) = SumFunction(OnEach(v)) /\ CreditsOn(w) = SumFunction(f)
    BY <1>1, WireCredits DEF f
  <1> QED
    BY <1>2, <1>3, <1>4 DEF v

LEMMA QueueCreditsTail ==
    ASSUME NEW k \in Seq(Packets), k # << >>
    PROVE  CreditsIn(k) = CreditOf(Head(k)) + CreditsIn(Tail(k))
  <1> DEFINE v == Tail(k)
             f == InEach(k)
  <1>1. v \in Seq(Packets) /\ f \in Seq(Nat)
    BY QueueCredits
  <1>2. f # << >> /\ Head(f) = CreditOf(Head(k)) /\ InEach(v) = Tail(f)
    <2>1. /\ Len(v) = Len(k) - 1 /\ Head(k) = k[1] /\ Len(k) \in Nat
          /\ 1 \in 1 .. Len(k) /\ DOMAIN v = 1 .. Len(k) - 1
          /\ DOMAIN k = 1 .. Len(k)
      OBVIOUS
    <2>2. \A i \in 1 .. Len(k) - 1 : v[i] = k[i + 1]
      OBVIOUS
    <2>3. Len(f) = Len(k) /\ \A i \in 1 .. Len(k) : f[i] = CreditOf(k[i])
      BY DEF InEach
    <2>4. InEach(v) = [i \in 1 .. Len(k) - 1 |-> CreditOf(v[i])]
      BY <2>1 DEF InEach
    <2> HIDE DEF f, v
    <2>5. f # << >>
      BY <1>1, <2>1, <2>3
    <2>6. /\ Tail(f) \in Seq(Nat) /\ Len(Tail(f)) = Len(k) - 1
          /\ \A i \in 1 .. Len(k) - 1 : Tail(f)[i] = f[i + 1]
          /\ Head(f) = f[1]
      BY <1>1, <2>3, <2>5, TailFacts
    <2>7. InEach(v) \in Seq(Nat) /\ Len(InEach(v)) = Len(k) - 1
      BY <1>1, <2>1, <2>4, QueueCredits
    <2>8. \A i \in 1 .. Len(k) - 1 : InEach(v)[i] = Tail(f)[i]
      <3> SUFFICES ASSUME NEW i \in 1 .. Len(k) - 1
                   PROVE  InEach(v)[i] = Tail(f)[i]
        OBVIOUS
      <3>1. i + 1 \in 1 .. Len(k)
        BY <2>1
      <3>2. InEach(v)[i] = CreditOf(v[i]) /\ v[i] = k[i + 1]
        BY <2>2, <2>4
      <3>3. f[i + 1] = CreditOf(k[i + 1]) /\ Tail(f)[i] = f[i + 1]
        BY <2>3, <2>6, <3>1
      <3> QED
        BY <3>2, <3>3
    <2> DEFINE l == InEach(v)
               r == Tail(f)
    <2> HIDE DEF l, r
    <2>9. l \in Seq(Nat) /\ r \in Seq(Nat) /\ Len(l) = Len(r)
          /\ \A i \in 1 .. Len(l) : l[i] = r[i]
      BY <2>6, <2>7, <2>8 DEF l, r
    <2>10. l = r
      BY <2>9, SameSequence
    <2> QED
      BY <2>1, <2>3, <2>5, <2>6, <2>10 DEF l, r
  <1> HIDE DEF f, v
  <1>3. SumFunction(f) = Head(f) + SumFunction(Tail(f))
    BY <1>1, <1>2, SumTail
  <1>4. CreditsIn(v) = SumFunction(InEach(v)) /\ CreditsIn(k) = SumFunction(f)
    BY <1>1, QueueCredits DEF f
  <1> QED
    BY <1>2, <1>3, <1>4 DEF v

LEMMA RingCreditsType ==
    ASSUME NEW g \in [Slot -> Place]
    PROVE  /\ InEach(g) \in [Slot -> Nat] /\ IsFiniteSet(Slot)
           /\ CreditsIn(g) = SumFunction(InEach(g)) /\ CreditsIn(g) \in Nat
  <1>1. InEach(g) \in [Slot -> Nat]
    BY CreditTypes DEF InEach
  <1>2. IsFiniteSet(Slot)
    BY RingAssumption, FS_Interval DEF Slot
  <1>3. CreditsIn(g) = SumFunction(InEach(g))
    BY DEF CreditsIn, InEach
  <1> DEFINE f == InEach(g)
  <1> HIDE DEF f
  <1>4. SumFunction(f) \in Nat
    BY <1>1, <1>2, SumType DEF f
  <1> QED
    BY <1>1, <1>2, <1>3, <1>4 DEF f

LEMMA RingCreditsUpdate ==
    ASSUME NEW g \in [Slot -> Place], NEW s \in Slot, NEW x \in Place
    PROVE  CreditsIn([g EXCEPT ![s] = x]) + CreditOf(g[s])
               = CreditsIn(g) + CreditOf(x)
  <1> DEFINE h == [g EXCEPT ![s] = x]
             f == InEach(g)
             n == CreditOf(x)
  <1>1. h \in [Slot -> Place] /\ n \in Nat /\ f \in [Slot -> Nat]
        /\ IsFiniteSet(Slot) /\ f[s] = CreditOf(g[s])
    BY CreditTypes, RingCreditsType DEF InEach
  <1>2. InEach(h) = Updated(f, s, n)
    BY DEF InEach, Updated
  <1> HIDE DEF h, f, n
  <1>3. SumFunction(Updated(f, s, n)) + f[s] = SumFunction(f) + n
    BY <1>1, SumUpdate
  <1>4. CreditsIn(h) = SumFunction(InEach(h)) /\ CreditsIn(g) = SumFunction(f)
    BY <1>1, RingCreditsType DEF f
  <1> QED
    BY <1>1, <1>2, <1>3, <1>4 DEF h, n

-----------------------------------------------------------------------------
(* The writes on the wire and the buffers with a packet, counted.          *)

LEMMA WritesFinite ==
    ASSUME NEW w \in Seq(Item)
    PROVE  IsFiniteSet(Writes(w)) /\ Cardinality(Writes(w)) \in Nat
  <1>1. Len(w) \in Nat /\ Writes(w) \subseteq 1 .. Len(w)
    BY DEF Writes
  <1>2. IsFiniteSet(1 .. Len(w))
    BY <1>1, FS_Interval
  <1>3. IsFiniteSet(Writes(w))
    BY <1>1, <1>2, FS_Subset
  <1> QED
    BY <1>3, FS_CardinalityType

LEMMA WritesCountAppend ==
    ASSUME NEW w \in Seq(Item), NEW item \in Item
    PROVE  Cardinality(Writes(Append(w, item))) =
               Cardinality(Writes(w)) + (IF item.via = "ring" THEN 1 ELSE 0)
  <1>1. CASE item.via = "ring"
    <2>1. /\ Writes(Append(w, item)) = Writes(w) \cup {Len(w) + 1}
          /\ Len(w) + 1 \notin Writes(w)
      BY <1>1, WritesAppend
    <2> DEFINE S == Writes(w)
               x == Len(w) + 1
    <2>2. IsFiniteSet(S) /\ x \notin S
      BY <2>1, WritesFinite
    <2> HIDE DEF S, x
    <2>3. Cardinality(S \cup {x}) = Cardinality(S) + 1
      BY <2>2, FS_AddElement
    <2> QED
      BY <1>1, <2>1, <2>3 DEF S, x
  <1>2. CASE item.via # "ring"
    <2>1. Writes(Append(w, item)) = Writes(w)
      BY <1>2, WritesAppend
    <2>2. Cardinality(Writes(w)) \in Nat
      BY WritesFinite
    <2> QED
      BY <1>2, <2>1, <2>2
  <1> QED
    BY <1>1, <1>2

LEMMA WritesCountTail ==
    ASSUME NEW w \in Seq(Item), w # << >>
    PROVE  Cardinality(Writes(w)) =
               Cardinality(Writes(Tail(w)))
               + (IF Head(w).via = "ring" THEN 1 ELSE 0)
  <1> DEFINE v == Tail(w)
             T == Writes(v)
             W == Writes(w)
             S == W \ {1}
             b == [i \in T |-> i + 1]
  <1>1. v \in Seq(Item) /\ IsFiniteSet(T) /\ IsFiniteSet(W)
    <2>1. v \in Seq(Item)
      BY TailFacts
    <2> HIDE DEF v
    <2> QED
      BY <2>1, WritesFinite
  <1>2. NamesOnce(b, T, S)
    <2>1. \A i \in T : i \in Nat /\ i + 1 \in S
      BY WritesTail
    <2>2. \A x \in S : x - 1 \in T
      <3> SUFFICES ASSUME NEW x \in S PROVE x - 1 \in T
        OBVIOUS
      <3>1. x \in 1 .. Len(w) /\ x # 1 /\ w[x].via = "ring" /\ Len(w) \in Nat
        BY DEF Writes
      <3>2. x - 1 \in 1 .. Len(v) /\ (x - 1) + 1 = x
        BY <3>1, TailFacts
      <3>3. v[x - 1] = w[(x - 1) + 1]
        BY <3>2, TailFacts
      <3> QED
        BY <3>1, <3>2, <3>3 DEF Writes
    <2>3. b \in [T -> S] /\ \A y, z \in T : b[y] = b[z] => y = z
      BY <2>1
    <2>4. \A x \in S : x \in Nat /\ b[x - 1] = x
      <3>1. \A x \in S : x \in Nat
        BY DEF Writes
      <3> QED
        BY <2>2, <3>1
    <2> QED
      BY <2>2, <2>3, <2>4 DEF NamesOnce
  <1> HIDE DEF b, T, W
  <1>3. Cardinality(S) = Cardinality(T)
    <2> HIDE DEF S
    <2> QED
      BY <1>1, <1>2, CountOnce
  <1>4. /\ Cardinality(T) \in Nat /\ Cardinality(W) \in Nat
        /\ Cardinality(S) =
               IF 1 \in W THEN Cardinality(W) - 1 ELSE Cardinality(W)
    BY <1>1, FS_CardinalityType, FS_RemoveElement
  <1>5. 1 \in W <=> Head(w).via = "ring"
    BY WritesTail, TailFacts DEF W, Writes
  <1> QED
    BY <1>3, <1>4, <1>5 DEF T, W

LEMMA FullFinite ==
    ASSUME NEW g \in [Slot -> Place]
    PROVE  IsFiniteSet(Full(g)) /\ Cardinality(Full(g)) \in Nat
  <1>1. Full(g) \subseteq Slot
    BY DEF Full
  <1>2. IsFiniteSet(Slot)
    BY RingCreditsType
  <1>3. IsFiniteSet(Full(g))
    BY <1>1, <1>2, FS_Subset
  <1> QED
    BY <1>3, FS_CardinalityType

LEMMA FullPut ==
    ASSUME NEW g \in [Slot -> Place], NEW s \in Slot, g[s] = None,
           NEW pkt \in Packets
    PROVE  Cardinality(Full([g EXCEPT ![s] = pkt])) = Cardinality(Full(g)) + 1
  <1>1. pkt # None
    BY PlaceFacts
  <1>2. Full([g EXCEPT ![s] = pkt]) = Full(g) \cup {s} /\ s \notin Full(g)
    BY <1>1 DEF Full
  <1> DEFINE S == Full(g)
  <1>3. IsFiniteSet(S) /\ s \notin S
    BY <1>2, FullFinite
  <1> HIDE DEF S
  <1>4. Cardinality(S \cup {s}) = Cardinality(S) + 1
    BY <1>3, FS_AddElement
  <1> QED
    BY <1>2, <1>4 DEF S

LEMMA FullTake ==
    ASSUME NEW g \in [Slot -> Place], NEW s \in Slot, g[s] # None
    PROVE  Cardinality(Full(g)) = Cardinality(Full([g EXCEPT ![s] = None])) + 1
  <1>1. Full([g EXCEPT ![s] = None]) = Full(g) \ {s} /\ s \in Full(g)
    BY DEF Full
  <1> DEFINE S == Full(g)
  <1>2. IsFiniteSet(S) /\ s \in S /\ Cardinality(S) \in Nat
    BY <1>1, FullFinite
  <1> HIDE DEF S
  <1>3. Cardinality(S \ {s}) = Cardinality(S) - 1
    BY <1>2, FS_RemoveElement
  <1>4. Cardinality(S) = Cardinality(S \ {s}) + 1
    BY <1>2, <1>3
  <1> QED
    BY <1>1, <1>4 DEF S

-----------------------------------------------------------------------------
(* What each event does to the two halves of the account.                  *)

LEMMA PointersType ==
    ASSUME NEW c \in Connection
    PROVE  FreeAt(c) \in Nat /\ HeldAt(c) \in Nat
  <1>1. /\ c.ptail - c.phead \in Int
        /\ c.p_recv - c.p_recv_tail - 1 \in Int
        /\ N - 1 \in Nat
    BY RingAssumption DEF Connection, Slot
  <1>2. \A x \in Int : x % N \in Nat
    BY SlotOf DEF Slot
  <1> QED
    BY <1>1, <1>2 DEF FreeAt, HeldAt

LEMMA StockType ==
    ASSUME NEW c \in Connection, NEW w \in Seq(Item),
           NEW g \in [Slot -> Place], NEW d \in Connection
    PROVE  /\ Stock(c, w, g, d) \in Nat
           /\ FreeAt(c) \in Nat /\ HeldAt(d) \in Nat
           /\ Cardinality(Writes(w)) \in Nat /\ Cardinality(Full(g)) \in Nat
  BY PointersType, WritesFinite, FullFinite DEF Stock

LEMMA UnderWayType ==
    ASSUME NEW v \in Seq(Item), NEW h \in [Slot -> Place],
           NEW k \in Seq(Packets), NEW x \in Place
    PROVE  /\ UnderWay(v, h, k, x) \in Nat
           /\ CreditsOn(v) \in Nat /\ CreditsIn(h) \in Nat
           /\ CreditsIn(k) \in Nat /\ CreditOf(x) \in Nat
  BY WireCredits, RingCreditsType, QueueCredits, CreditTypes DEF UnderWay

\* A buffer the writer uses for item.
UsedBy(item) == IF item.via = "ring" THEN 1 ELSE 0

LEMMA StockPosts ==
    ASSUME NEW c \in Connection, NEW b \in Connection, NEW w \in Seq(Item),
           NEW g \in [Slot -> Place], NEW d \in Connection, NEW item \in Item,
           FreeAt(c) = FreeAt(b) + UsedBy(item)
    PROVE  Stock(b, Append(w, item), g, d) = Stock(c, w, g, d)
  <1> DEFINE n == Cardinality(Writes(w))
             v == Append(w, item)
             f == Cardinality(Full(g))
  <1>1. Cardinality(Writes(v)) = n + UsedBy(item)
    BY WritesCountAppend DEF UsedBy
  <1>2. /\ n \in Nat /\ UsedBy(item) \in Nat /\ FreeAt(b) \in Nat
        /\ HeldAt(d) \in Nat /\ f \in Nat
    BY StockType DEF UsedBy
  <1>3. /\ Stock(b, v, g, d) = FreeAt(b) + Cardinality(Writes(v)) + f + HeldAt(d)
        /\ Stock(c, w, g, d) = FreeAt(c) + n + f + HeldAt(d)
    BY DEF Stock
  <1> HIDE DEF n, v, f
  <1>4. Stock(b, v, g, d) = Stock(c, w, g, d)
    BY <1>1, <1>2, <1>3
  <1> QED
    BY <1>4 DEF v

LEMMA PostsUnderWay ==
    ASSUME NEW v \in Seq(Item), NEW h \in [Slot -> Place],
           NEW k \in Seq(Packets), NEW x \in Place, NEW item \in Item
    PROVE  UnderWay(Append(v, item), h, k, x)
               = UnderWay(v, h, k, x) + CreditOf(item.pkt)
  <1>1. CreditsOn(Append(v, item)) = CreditsOn(v) + CreditOf(item.pkt)
    BY WireCreditsAppend
  <1>2. CreditOf(item.pkt) \in Nat
    BY ItemCredit
  <1> QED
    BY <1>1, <1>2, UnderWayType DEF UnderWay

LEMMA HeadItem ==
    ASSUME NEW w \in Seq(Item), w # << >>
    PROVE  /\ Tail(w) \in Seq(Item) /\ Head(w) \in Item
           /\ Head(w).pkt \in Packets /\ Head(w).pkt \in Place
           /\ Head(w).slot \in Slot /\ Head(w).via \in {"queue", "ring"}
  <1>1. Tail(w) \in Seq(Item) /\ Head(w) \in Item
    BY TailFacts
  <1> QED
    BY <1>1 DEF Item, Place

LEMMA StockLandsRing ==
    ASSUME NEW c \in Connection, NEW w \in Seq(Item), w # << >>,
           NEW g \in [Slot -> Place], NEW d \in Connection,
           Head(w).via = "ring", NEW s \in Slot, g[s] = None
    PROVE  Stock(c, Tail(w), [g EXCEPT ![s] = Head(w).pkt], d)
               = Stock(c, w, g, d)
  <1> DEFINE pkt == Head(w).pkt
             v == Tail(w)
             h == [g EXCEPT ![s] = pkt]
  <1>1. pkt \in Packets /\ v \in Seq(Item)
    BY HeadItem
  <1>2. h \in [Slot -> Place]
    BY <1>1 DEF Place
  <1>3. Cardinality(Writes(w)) = Cardinality(Writes(v)) + 1
    BY WritesCountTail
  <1>4. Cardinality(Full(h)) = Cardinality(Full(g)) + 1
    <2> HIDE DEF pkt
    <2> QED
      BY <1>1, FullPut
  <1> HIDE DEF v, h
  <1>5. /\ FreeAt(c) \in Nat /\ HeldAt(d) \in Nat
        /\ Cardinality(Writes(v)) \in Nat /\ Cardinality(Full(g)) \in Nat
    BY <1>1, StockType
  <1>6. Stock(c, v, h, d) = Stock(c, w, g, d)
    BY <1>3, <1>4, <1>5 DEF Stock
  <1> QED
    BY <1>6 DEF v, h

LEMMA StockLandsQueue ==
    ASSUME NEW c \in Connection, NEW w \in Seq(Item), w # << >>,
           NEW g \in [Slot -> Place], NEW d \in Connection,
           Head(w).via # "ring"
    PROVE  Stock(c, Tail(w), g, d) = Stock(c, w, g, d)
  <1>1. Cardinality(Writes(w)) = Cardinality(Writes(Tail(w))) + 0
    BY WritesCountTail
  <1>2. Cardinality(Writes(Tail(w))) \in Nat
    BY TailFacts, WritesFinite
  <1> QED
    BY <1>1, <1>2 DEF Stock

LEMMA LandsRingUnderWay ==
    ASSUME NEW v \in Seq(Item), v # << >>, NEW h \in [Slot -> Place],
           NEW k \in Seq(Packets), NEW x \in Place,
           NEW s \in Slot, h[s] = None
    PROVE  UnderWay(Tail(v), [h EXCEPT ![s] = Head(v).pkt], k, x)
               = UnderWay(v, h, k, x)
  <1> DEFINE pkt == Head(v).pkt
             t == Tail(v)
             g == [h EXCEPT ![s] = pkt]
  <1>1. pkt \in Place /\ t \in Seq(Item)
    BY HeadItem
  <1>2. g \in [Slot -> Place]
    BY <1>1
  <1>3. CreditsOn(v) = CreditOf(pkt) + CreditsOn(t)
    BY WireCreditsTail
  <1>4. CreditsIn(g) + CreditOf(h[s]) = CreditsIn(h) + CreditOf(pkt)
    <2> HIDE DEF pkt
    <2> QED
      BY <1>1, RingCreditsUpdate
  <1>5. CreditOf(h[s]) = 0 /\ CreditOf(pkt) \in Nat
    BY <1>1, CreditTypes
  <1> HIDE DEF t, g, pkt
  <1>6. CreditsOn(t) \in Nat /\ CreditsIn(h) \in Nat /\ CreditsIn(g) \in Nat
    BY <1>1, <1>2, WireCredits, RingCreditsType
  <1>7. CreditsOn(t) + CreditsIn(g) = CreditsOn(v) + CreditsIn(h)
    BY <1>3, <1>4, <1>5, <1>6
  <1>8. UnderWay(t, g, k, x) = UnderWay(v, h, k, x)
    BY <1>7 DEF UnderWay
  <1> QED
    BY <1>8 DEF t, g, pkt

LEMMA LandsQueueUnderWay ==
    ASSUME NEW v \in Seq(Item), v # << >>, NEW h \in [Slot -> Place],
           NEW k \in Seq(Packets), NEW x \in Place
    PROVE  UnderWay(Tail(v), h, Append(k, Head(v).pkt), x)
               = UnderWay(v, h, k, x)
  <1> DEFINE pkt == Head(v).pkt
             t == Tail(v)
             a == Append(k, pkt)
  <1>1. pkt \in Packets /\ pkt \in Place /\ t \in Seq(Item)
    BY HeadItem
  <1>2. CreditsOn(v) = CreditOf(pkt) + CreditsOn(t)
    BY WireCreditsTail
  <1>3. CreditsIn(a) = CreditsIn(k) + CreditOf(pkt)
    <2> HIDE DEF pkt
    <2> QED
      BY <1>1, QueueCreditsAppend
  <1>4. CreditOf(pkt) \in Nat
    BY <1>1, CreditTypes
  <1> HIDE DEF t, a, pkt
  <1>5. /\ CreditsOn(t) \in Nat /\ CreditsIn(h) \in Nat
        /\ CreditsIn(k) \in Nat /\ CreditOf(x) \in Nat
    BY <1>1, UnderWayType
  <1>6. UnderWay(t, h, a, x) = UnderWay(v, h, k, x)
    BY <1>2, <1>3, <1>4, <1>5 DEF UnderWay
  <1> QED
    BY <1>6 DEF t, a, pkt

LEMMA StockPolled ==
    ASSUME NEW c \in Connection, NEW w \in Seq(Item),
           NEW g \in [Slot -> Place], NEW d \in Connection,
           NEW a \in Connection, NEW s \in Slot, g[s] # None,
           NEW n \in Nat, HeldAt(a) + n = HeldAt(d) + 1
    PROVE  Stock(c, w, [g EXCEPT ![s] = None], a) + n = Stock(c, w, g, d)
  <1> DEFINE h == [g EXCEPT ![s] = None]
  <1>1. h \in [Slot -> Place]
    BY PlaceFacts
  <1>2. Cardinality(Full(g)) = Cardinality(Full(h)) + 1
    BY FullTake
  <1> HIDE DEF h
  <1>3. /\ FreeAt(c) \in Nat /\ HeldAt(d) \in Nat /\ HeldAt(a) \in Nat
        /\ Cardinality(Writes(w)) \in Nat /\ Cardinality(Full(h)) \in Nat
    BY <1>1, StockType
  <1>4. Stock(c, w, h, a) + n = Stock(c, w, g, d)
    <2> DEFINE b == FreeAt(c) + Cardinality(Writes(w))
               k == Cardinality(Full(h))
               l == Cardinality(Full(g))
    <2>1. b \in Nat /\ k \in Nat /\ l = k + 1
      BY <1>2, <1>3
    <2>2. Stock(c, w, h, a) = b + k + HeldAt(a) /\ Stock(c, w, g, d) = b + l + HeldAt(d)
      BY DEF Stock
    <2> HIDE DEF b, k, l
    <2> QED
      BY <1>3, <2>1, <2>2
  <1> QED
    BY <1>4 DEF h

LEMMA PolledUnderWay ==
    ASSUME NEW v \in Seq(Item), NEW h \in [Slot -> Place],
           NEW k \in Seq(Packets), NEW x \in Place, NEW s \in Slot
    PROVE  UnderWay(v, [h EXCEPT ![s] = None], k, x) + CreditOf(h[s])
               = UnderWay(v, h, k, x)
  <1> DEFINE g == [h EXCEPT ![s] = None]
             y == h[s]
  <1>1. g \in [Slot -> Place] /\ None \in Place /\ y \in Place
    BY PlaceFacts
  <1>2. CreditsIn(g) + CreditOf(y) = CreditsIn(h) + CreditOf(None)
    BY <1>1, RingCreditsUpdate
  <1> HIDE DEF g, y
  <1>3. CreditOf(None) = 0 /\ CreditOf(y) \in Nat
    BY <1>1, CreditTypes
  <1>4. /\ CreditsOn(v) \in Nat /\ CreditsIn(h) \in Nat
        /\ CreditsIn(g) \in Nat
        /\ CreditsIn(k) \in Nat /\ CreditOf(x) \in Nat
    BY <1>1, UnderWayType
  <1>5. CreditsIn(g) + CreditOf(y) = CreditsIn(h)
    BY <1>2, <1>3, <1>4
  <1>6. UnderWay(v, g, k, x) + CreditOf(y) = UnderWay(v, h, k, x)
    BY <1>3, <1>4, <1>5 DEF UnderWay
  <1> QED
    BY <1>6 DEF g, y

LEMMA TakenUnderWay ==
    ASSUME NEW v \in Seq(Item), NEW h \in [Slot -> Place],
           NEW k \in Seq(Packets), k # << >>, NEW x \in Place
    PROVE  UnderWay(v, h, Tail(k), x) + CreditOf(Head(k))
               = UnderWay(v, h, k, x)
  <1> DEFINE t == Tail(k)
             y == Head(k)
  <1>1. t \in Seq(Packets) /\ y \in Place
    BY TailFacts DEF Place
  <1>2. CreditsIn(k) = CreditOf(y) + CreditsIn(t)
    BY QueueCreditsTail
  <1> HIDE DEF t, y
  <1>3. /\ CreditsOn(v) \in Nat /\ CreditsIn(h) \in Nat
        /\ CreditsIn(t) \in Nat /\ CreditOf(x) \in Nat
        /\ CreditOf(y) \in Nat
    BY <1>1, UnderWayType, CreditTypes
  <1>4. UnderWay(v, h, t, x) + CreditOf(y) = UnderWay(v, h, k, x)
    BY <1>2, <1>3 DEF UnderWay
  <1> QED
    BY <1>4 DEF t, y

LEMMA WaitsUnderWay ==
    ASSUME NEW v \in Seq(Item), NEW h \in [Slot -> Place],
           NEW k \in Seq(Packets), NEW x \in Place
    PROVE  UnderWay(v, h, k, None) + CreditOf(x) = UnderWay(v, h, k, x)
  <1>1. CreditOf(None) = 0
    BY CreditTypes
  <1> QED
    BY <1>1, UnderWayType DEF UnderWay

-----------------------------------------------------------------------------
(* The actions.                                                            *)

LEMMA BalanceType ==
    ASSUME FPTypeOK, NEW p \in Proc
    PROVE  /\ StockOf(p) \in Nat /\ WayOf(p) \in Nat
           /\ conn[Peer(p)].rdma_credit \in Nat /\ lost[Peer(p)] \in Nat
  <1>1. Peer(p) \in Proc
    BY PeerFacts
  <1>2. /\ conn[p] \in Connection /\ conn[Peer(p)] \in Connection
        /\ wire[p] \in Seq(Item) /\ wire[Peer(p)] \in Seq(Item)
        /\ ring[p] \in [Slot -> Place] /\ ring[Peer(p)] \in [Slot -> Place]
        /\ cq[p] \in Seq(Packets) /\ waiting[p] \in Place
        /\ conn[Peer(p)].rdma_credit \in Nat /\ lost[Peer(p)] \in Nat
    BY <1>1, TypeAt
  <1> QED
    BY <1>2, StockType, UnderWayType DEF StockOf, WayOf

LEMMA BalanceTypeNext ==
    ASSUME FPTypeOK', NEW p \in Proc
    PROVE  /\ StockOf(p)' \in Nat /\ WayOf(p)' \in Nat
           /\ conn'[Peer(p)].rdma_credit \in Nat /\ lost'[Peer(p)] \in Nat
  <1>1. Peer(p) \in Proc
    BY PeerFacts
  <1>2. /\ conn'[p] \in Connection /\ conn'[Peer(p)] \in Connection
        /\ wire'[p] \in Seq(Item) /\ wire'[Peer(p)] \in Seq(Item)
        /\ ring'[p] \in [Slot -> Place] /\ ring'[Peer(p)] \in [Slot -> Place]
        /\ cq'[p] \in Seq(Packets) /\ waiting'[p] \in Place
        /\ lost'[Peer(p)] \in Nat
    BY <1>1 DEF FPTypeOK
  <1>3. conn'[Peer(p)].rdma_credit \in Nat
    BY <1>2 DEF Connection
  <1> QED
    BY <1>2, <1>3, StockType, UnderWayType DEF StockOf, WayOf

LEMMA BothWays ==
    ASSUME NEW p \in Proc, Balance(p)', Balance(Peer(p))'
    PROVE  Balanced'
  BY PeerFacts DEF Balanced

\* There is one line on which the pointers of both ends of a ring are.
LEMMA OneLine ==
    ASSUME IInv, NEW p \in Proc
    PROVE  \E H, T, R, U \in Nat :
               /\ Stretches(conn[p], conn[Peer(p)], H, T, R, U)
               /\ Buffers(ring[Peer(p)], wire[p], conn[Peer(p)].free,
                          unexpected[Peer(p)], H, R, U)
  <1> DEFINE q == Peer(p)
  <1>1. /\ FPTypeOK /\ Accounted(q) /\ q \in Proc /\ Peer(q) = p
        /\ conn[p].expected \in Nat
    BY InvariantAt, PeerFacts, TypeAt
  <1>2. PICK view \in [Nat -> Knowledge], H, R, U \in Nat :
            Account(q, view, H, R, U)
    BY <1>1 DEF Accounted
  <1> DEFINE T == view[conn[p].expected].tail
  <1>3. T \in Nat
    BY <1>1, <1>2 DEF Knowledge
  <1>4. /\ Stretches(conn[p], conn[q], H, T, R, U)
        /\ Buffers(ring[q], wire[p], conn[q].free, unexpected[q], H, R, U)
    BY <1>1, <1>2 DEF Account
  <1> HIDE DEF T
  <1> QED
    BY <1>2, <1>3, <1>4

SameFree(b, c) ==
    b.send_ring = c.send_ring /\ b.phead = c.phead /\ b.ptail = c.ptail

SameHeld(b, c) ==
    /\ b.recv_ring = c.recv_ring /\ b.p_recv = c.p_recv
    /\ b.p_recv_tail = c.p_recv_tail

LEMMA SamePointers ==
    ASSUME NEW c, NEW b
    PROVE  /\ SameFree(b, c) => FreeAt(b) = FreeAt(c)
           /\ SameHeld(b, c) => HeldAt(b) = HeldAt(c)
  BY DEF SameFree, SameHeld, FreeAt, HeldAt

\* What p posts: a buffer goes from the stock to the wire, and the credits go
\* with the packet.
LEMMA PostsBalanced ==
    ASSUME FPTypeOK, FPTypeOK', Balanced, NEW p \in Proc, NEW b \in Connection,
           NEW item \in Item, conn' = [conn EXCEPT ![p] = b],
           wire' = [wire EXCEPT ![p] = Append(wire[p], item)],
           UNCHANGED <<ring, cq, waiting, lost>>,
           FreeAt(conn[p]) = FreeAt(b) + UsedBy(item),
           HeldAt(b) = HeldAt(conn[p]),
           b.rdma_credit + CreditOf(item.pkt) = conn[p].rdma_credit
    PROVE  Balanced'
  <1> DEFINE q == Peer(p)
             c == conn[p]
  <1>1. q \in Proc /\ Peer(q) = p /\ q # p
    BY PeerFacts
  <1>2. /\ c \in Connection /\ wire[p] \in Seq(Item) /\ conn[q] \in Connection
        /\ wire[q] \in Seq(Item)
        /\ ring[p] \in [Slot -> Place] /\ ring[q] \in [Slot -> Place]
        /\ cq[q] \in Seq(Packets) /\ waiting[q] \in Place
    BY <1>1, TypeAt
  <1>3. /\ conn'[p] = b /\ conn'[q] = conn[q]
        /\ wire'[p] = Append(wire[p], item) /\ wire'[q] = wire[q]
    BY <1>1 DEF FPTypeOK
  <1>4. Balance(p)'
    <2>1. StockOf(p)' = StockOf(p)
      <3>1. Stock(b, Append(wire[p], item), ring[q], conn[q])
                = Stock(c, wire[p], ring[q], conn[q])
        BY <1>2, StockPosts
      <3>2. StockOf(p)' = Stock(b, Append(wire[p], item), ring[q], conn[q])
        BY <1>3 DEF StockOf
      <3> QED
        BY <3>1, <3>2 DEF StockOf
    <2>2. WayOf(p)' = WayOf(p)
      BY <1>3 DEF WayOf
    <2>3. Balance(p)
      BY DEF Balanced
    <2> QED
      BY <1>3, <2>1, <2>2, <2>3 DEF Balance
  <1>5. Balance(q)'
    <2>1. StockOf(q)' = StockOf(q)
      BY <1>1, <1>3 DEF StockOf, Stock
    <2>2. WayOf(q)' = WayOf(q) + CreditOf(item.pkt)
      BY <1>1, <1>2, <1>3, PostsUnderWay DEF WayOf
    <2>3. Balance(q)
      BY <1>1 DEF Balanced
    <2>4. /\ StockOf(q) \in Nat /\ WayOf(q) \in Nat /\ lost[p] \in Nat
          /\ conn[p].rdma_credit \in Nat
      BY <1>1, BalanceType
    <2>5. CreditOf(item.pkt) \in Nat /\ b.rdma_credit \in Nat
      BY ItemCredit DEF Connection
    <2>6. StockOf(q) + conn[p].rdma_credit + WayOf(q) + lost[p] = N - 1
      BY <1>1, <2>3 DEF Balance
    <2>7. StockOf(q)' + b.rdma_credit + WayOf(q)' + lost[p] = N - 1
      BY <2>1, <2>2, <2>4, <2>5, <2>6
    <2> QED
      BY <1>1, <1>3, <2>7 DEF Balance
  <1> QED
    BY <1>4, <1>5, BothWays

LEMMA EagerSendBalanced ==
    ASSUME IInv, FPTypeOK', Balanced, NEW p \in Proc, NEW env \in Headers,
           NEW size \in Sizes, EagerSend(p, env, size)
    PROVE  Balanced'
  <1> DEFINE c == conn[p]
             d == conn[Peer(p)]
  <1>1. FPTypeOK /\ c \in Connection
    BY InvariantAt, TypeAt
  <1>2. PICK b \in Connection, item \in Item :
               /\ conn' = [conn EXCEPT ![p] = b]
               /\ wire' = [wire EXCEPT ![p] = Append(wire[p], item)]
               /\ SendsMessage(c, b, item, submitted[<<p, Peer(p)>>] + 1)
    BY <1>1, EagerSendPosts
  <1>3. UNCHANGED <<ring, cq, waiting, lost>>
    BY DEF EagerSend
  <1>4. /\ b.rdma_credit = 0 /\ item.pkt.header.credit = c.rdma_credit
        /\ b.send_ring = c.send_ring /\ b.ptail = c.ptail
        /\ item.via = "queue" => b.phead = c.phead
        /\ item.via = "ring" => FastRdmaOk(c) /\ b.phead = After(c.phead, 1)
        /\ SameHeld(b, c)
    BY <1>2 DEF SendsMessage, SendsItem, SameHeld
  <1>5. b.rdma_credit + CreditOf(item.pkt) = c.rdma_credit
    <2>1. item.pkt \in Packets
      BY DEF Item
    <2>2. CreditOf(item.pkt) = item.pkt.header.credit
      BY <2>1, PlaceFacts, CreditTypes
    <2>3. c.rdma_credit \in Nat
      BY <1>1 DEF Connection
    <2> QED
      BY <1>4, <2>2, <2>3
  <1>6. FreeAt(c) = FreeAt(b) + UsedBy(item)
    <2>1. CASE item.via = "ring"
      <3>1. PICK H \in Nat, T \in Nat, R \in Nat, U \in Nat :
                Stretches(c, d, H, T, R, U)
        BY OneLine
      <3> HIDE DEF c, d
      <3>2. Stretches(b, d, H + 1, T, R, U)
        BY <1>4, <2>1, <3>1, WriteStretches
      <3>3. FreeAt(c) = T - H
        <4>1. Measured(c, d, H, T, R, U)
          BY <3>1, FreeAndHeld
        <4> QED
          BY <4>1 DEF Measured
      <3>4. FreeAt(b) = T - (H + 1)
        <4> DEFINE h == H + 1
        <4>1. h \in Nat /\ Stretches(b, d, h, T, R, U)
          BY <3>1, <3>2
        <4> HIDE DEF h
        <4>2. FreeAt(b) = T - h
          <5>1. Measured(b, d, h, T, R, U)
            BY <3>1, <4>1, FreeAndHeld
          <5> QED
            BY <5>1 DEF Measured
        <4> QED
          BY <4>2 DEF h
      <3> QED
        BY <2>1, <3>1, <3>3, <3>4 DEF UsedBy
    <2>2. CASE item.via # "ring"
      <3>1. item.via = "queue"
        BY <2>2 DEF Item
      <3>2. FreeAt(b) = FreeAt(c)
        BY <1>4, <3>1, SamePointers DEF SameFree
      <3>3. FreeAt(c) \in Nat
        BY <1>1, PointersType
      <3> QED
        BY <2>2, <3>2, <3>3 DEF UsedBy
    <2> QED
      BY <2>1, <2>2
  <1>7. HeldAt(b) = HeldAt(c)
    BY <1>4, SamePointers
  <1> QED
    BY <1>1, <1>2, <1>3, <1>5, <1>6, <1>7, PostsBalanced

LEMMA LandBalanced ==
    ASSUME IInv, FPTypeOK', Balanced, NEW p \in Proc, Land(p)
    PROVE  Balanced'
  <1> DEFINE q == Peer(p)
             w == wire[p]
             s == Head(w).slot
             pkt == Head(w).pkt
  <1>1. FPTypeOK /\ q \in Proc /\ Peer(q) = p /\ q # p /\ Balance(p) /\ Balance(q)
    BY InvariantAt, PeerFacts DEF Balanced
  <1>2. /\ conn[p] \in Connection /\ w \in Seq(Item) /\ conn[q] \in Connection
        /\ wire[q] \in Seq(Item)
        /\ ring[p] \in [Slot -> Place] /\ ring[q] \in [Slot -> Place]
        /\ cq[q] \in Seq(Packets) /\ waiting[q] \in Place
    BY <1>1, TypeAt
  <1>3. w # << >> /\ UNCHANGED <<conn, waiting, lost>>
    BY DEF Land
  <1>4. wire'[p] = Tail(w) /\ wire'[q] = wire[q]
    BY <1>1 DEF FPTypeOK, Land
  <1>5. CASE Head(w).via = "ring"
    <2>1. ring[q][s] = None
      <3>1. PICK H \in Nat, T \in Nat, R \in Nat, U \in Nat :
                Buffers(ring[q], w, conn[q].free, unexpected[q], H, R, U)
        BY OneLine
      <3> QED
        BY <1>2, <1>3, <1>5, <3>1, LandRingBuffers
    <2>2. /\ ring'[q] = [ring[q] EXCEPT ![s] = pkt] /\ ring'[p] = ring[p]
          /\ cq' = cq
      BY <1>1, <1>5 DEF FPTypeOK, Land
    <2>3. s \in Slot
      BY <1>2, <1>3, HeadItem
    <2> HIDE DEF s
    <2>4. StockOf(p)' = StockOf(p) /\ WayOf(p)' = WayOf(p)
      <3>1. Stock(conn[p], Tail(w), [ring[q] EXCEPT ![s] = pkt], conn[q])
                = Stock(conn[p], w, ring[q], conn[q])
        BY <1>2, <1>3, <1>5, <2>1, <2>3, StockLandsRing
      <3>2. StockOf(p)' = Stock(conn[p], Tail(w), [ring[q] EXCEPT ![s] = pkt],
                                conn[q])
        BY <1>3, <1>4, <2>2 DEF StockOf
      <3> QED
        BY <1>3, <1>4, <2>2, <3>1, <3>2 DEF StockOf, WayOf
    <2>5. StockOf(q)' = StockOf(q) /\ WayOf(q)' = WayOf(q)
      <3>1. UnderWay(Tail(w), [ring[q] EXCEPT ![s] = pkt], cq[q], waiting[q])
                = UnderWay(w, ring[q], cq[q], waiting[q])
        BY <1>2, <1>3, <2>1, <2>3, LandsRingUnderWay
      <3>2. WayOf(q)' = UnderWay(Tail(w), [ring[q] EXCEPT ![s] = pkt], cq[q],
                                 waiting[q])
        BY <1>1, <1>3, <1>4, <2>2 DEF WayOf
      <3> QED
        BY <1>1, <1>3, <1>4, <2>2, <3>1, <3>2 DEF StockOf, WayOf
    <2>6. Balance(p)' /\ Balance(q)'
      BY <1>1, <1>3, <2>4, <2>5 DEF Balance
    <2> QED
      BY <2>6, BothWays
  <1>6. CASE Head(w).via # "ring"
    <2>1. ring' = ring /\ cq'[q] = Append(cq[q], pkt) /\ cq'[p] = cq[p]
      BY <1>1, <1>6 DEF FPTypeOK, Land
    <2>2. StockOf(p)' = StockOf(p) /\ WayOf(p)' = WayOf(p)
      <3>1. Stock(conn[p], Tail(w), ring[q], conn[q])
                = Stock(conn[p], w, ring[q], conn[q])
        BY <1>2, <1>3, <1>6, StockLandsQueue
      <3>2. StockOf(p)' = Stock(conn[p], Tail(w), ring[q], conn[q])
        BY <1>3, <1>4, <2>1 DEF StockOf
      <3> QED
        BY <1>3, <1>4, <2>1, <3>1, <3>2 DEF StockOf, WayOf
    <2>3. StockOf(q)' = StockOf(q) /\ WayOf(q)' = WayOf(q)
      <3>1. UnderWay(Tail(w), ring[q], Append(cq[q], pkt), waiting[q])
                = UnderWay(w, ring[q], cq[q], waiting[q])
        BY <1>2, <1>3, LandsQueueUnderWay
      <3>2. WayOf(q)' = UnderWay(Tail(w), ring[q], Append(cq[q], pkt),
                                 waiting[q])
        BY <1>1, <1>3, <1>4, <2>1 DEF WayOf
      <3> QED
        BY <1>1, <1>3, <1>4, <2>1, <3>1, <3>2 DEF StockOf, WayOf
    <2>4. Balance(p)' /\ Balance(q)'
      BY <1>1, <1>3, <2>2, <2>3 DEF Balance
    <2> QED
      BY <2>4, BothWays
  <1> QED
    BY <1>5, <1>6

LEMMA ProcessSendBalanced ==
    ASSUME IInv, FPTypeOK', Balanced, NEW p \in Proc, ProcessSend(p)
    PROVE  Balanced'
  <1> DEFINE q == Peer(p)
             b == conn'[p]
             c == conn[p]
  <1>1. FPTypeOK /\ q \in Proc /\ Peer(q) = p /\ q # p /\ Balance(p) /\ Balance(q)
    BY InvariantAt, PeerFacts DEF Balanced
  <1>2. /\ conn'[q] = conn[q]
        /\ SameFree(b, c) /\ SameHeld(b, c) /\ b.rdma_credit = c.rdma_credit
        /\ UNCHANGED <<wire, ring, cq, waiting, lost>>
    <2>1. c \in Connection /\ conn \in [Proc -> Connection]
      BY <1>1 DEF FPTypeOK
    <2>2. b = [c EXCEPT !.busy = @ \ {Head(completions[p]).slot}]
          /\ conn'[q] = conn[q] /\ UNCHANGED <<wire, ring, cq, waiting, lost>>
      BY <1>1, <2>1 DEF ProcessSend
    <2> QED
      BY <2>1, <2>2 DEF SameFree, SameHeld, Connection
  <1> HIDE DEF b
  <1>3. FreeAt(b) = FreeAt(c) /\ HeldAt(b) = HeldAt(c)
    BY <1>2, SamePointers
  <1>4. StockOf(p)' = StockOf(p) /\ StockOf(q)' = StockOf(q)
    BY <1>1, <1>2, <1>3 DEF StockOf, Stock, b
  <1>5. WayOf(p)' = WayOf(p) /\ WayOf(q)' = WayOf(q)
    BY <1>2 DEF WayOf
  <1>6. Balance(p)' /\ Balance(q)'
    BY <1>1, <1>2, <1>4, <1>5 DEF Balance, b
  <1> QED
    BY <1>6, BothWays

\* The packet whose turn it is, in the ring or in the queue of p.
AtTurn(p, pkt, via) ==
    /\ pkt.id = conn[p].expected
    /\ \/ via = "ring" /\ \E s \in Slot : ring[p][s] = pkt
       \/ via = "queue" /\ \E i \in 1 .. Len(cq[p]) : cq[p][i] = pkt
       \/ via = "queue" /\ waiting[p] = pkt

\* Its credits are buffers that the receiver may use from now on.
LEMMA AcceptFrees ==
    ASSUME IInv, NEW p \in Proc, NEW pkt \in Packets, NEW via,
           AtTurn(p, pkt, via), NEW b \in Connection,
           Accepts(conn[p], b, pkt, via)
    PROVE  FreeAt(b) = FreeAt(conn[p]) + CreditOf(pkt)
  <1> DEFINE q == Peer(p)
             c == conn[p]
             d == conn[q]
             e == c.expected
             n == d.tosend
             credit == pkt.header.credit
  <1>1. FPTypeOK /\ Accounted(q) /\ q \in Proc /\ Peer(q) = p
    BY InvariantAt, PeerFacts
  <1>2. /\ c \in Connection /\ d \in Connection
        /\ ring[p] \in [Slot -> Place]
        /\ cq[p] \in Seq(Packets) /\ waiting[p] \in Place
        /\ n \in Nat /\ e \in Nat \ {0} /\ pkt # None
        /\ d.rdma_credit \in Nat
    BY <1>1, TypeAt, PlaceFacts
  <1>3. PICK view \in [Nat -> Knowledge], H \in Nat, R \in Nat, U \in Nat :
            Account(q, view, H, R, U)
    BY <1>1 DEF Accounted
  <1>4. PacketsTell(view, wire[q], ring[p], cq[p], waiting[p])
    BY <1>1, <1>3 DEF Account
  <1>5. Tells(view, pkt, via)
    BY <1>2, <1>4 DEF PacketsTell, AtTurn
  <1>6. Turn(p, pkt, via)
    BY TurnOf DEF AtTurn
  <1>7. /\ Ends(view, n, e, Says(q), Knows(p), U - d.rdma_credit)
        /\ Stretches(c, d, H, view[e].tail, R, U)
    BY <1>1, <1>3 DEF Account
  <1>8. credit \in Nat /\ CreditOf(pkt) = credit
    BY <1>2, PlaceFacts, CreditTypes DEF Packets, Envelope
  <1>9. /\ e + 1 <= n /\ (pkt.type = "address" => ~c.send_ring)
    BY <1>6 DEF Turn
  <1> DEFINE T == view[e].tail
  <1>10. T \in Nat /\ view[e] \in Knowledge
    BY <1>2 DEF Knowledge
  <1>11. view[e + 1].tail = T + credit
    <2>1. view[e + 1] = Told(view[e], pkt, via)
      BY <1>5 DEF Tells, AtTurn
    <2> QED
      BY <1>10, <2>1, ToldType
  <1>12. T + credit <= U
    <2>1. e + 1 \in e .. n
      BY <1>2, <1>9
    <2>2. view[e + 1].tail <= U - d.rdma_credit
      BY <1>7, <2>1 DEF Ends, Within
    <2> HIDE DEF T, credit
    <2> QED
      BY <1>2, <1>3, <1>8, <1>10, <1>11, <2>2
  <1> HIDE DEF c, d, T, credit
  <1>13. Stretches(c, d, H, T, R, U)
    BY <1>7 DEF T
  <1>14. Stretches(b, d, H, T + credit, R, U)
    <2>1. CASE pkt.type = "address"
      <3>1. b.send_ring /\ b.phead = 0 /\ b.ptail = N - 1 /\ ~c.send_ring
        BY <1>9, <2>1 DEF Accepts, c
      <3> QED
        BY <1>3, <1>8, <1>10, <1>12, <1>13, <3>1, AddressStretches
    <2>2. CASE pkt.type # "address"
      <3>1. /\ b.send_ring = c.send_ring /\ b.phead = c.phead
            /\ b.ptail = Absorbed(c.ptail, credit)
        BY <2>2 DEF Accepts, c, credit
      <3> QED
        BY <1>3, <1>8, <1>10, <1>12, <1>13, <3>1, AcceptStretches
    <2> QED
      BY <2>1, <2>2
  <1> DEFINE t == T + credit
  <1>15. t \in Nat /\ Stretches(b, d, H, t, R, U)
    BY <1>8, <1>10, <1>14
  <1> HIDE DEF t
  <1>16. Measured(b, d, H, t, R, U) /\ Measured(c, d, H, T, R, U)
    BY <1>3, <1>10, <1>13, <1>15, FreeAndHeld
  <1>17. FreeAt(b) = t - H /\ FreeAt(c) = T - H
    BY <1>16 DEF Measured
  <1>18. FreeAt(b) = FreeAt(c) + credit
    BY <1>3, <1>8, <1>10, <1>17 DEF t
  <1> QED
    BY <1>8, <1>18 DEF c

\* p, whose connection becomes b, accepts pkt, which is taken from where it is.
LEMMA AcceptBalanced ==
    ASSUME IInv, FPTypeOK', NEW p \in Proc, Balance(p),
           NEW pkt \in Packets, NEW via, AtTurn(p, pkt, via),
           NEW b \in Connection, Accepts(conn[p], b, pkt, via),
           FreeAt(conn'[p]) = FreeAt(b),
           conn'[Peer(p)] = conn[Peer(p)], wire'[Peer(p)] = wire[Peer(p)],
           Cardinality(Writes(wire'[p])) = Cardinality(Writes(wire[p])),
           ring'[Peer(p)] = ring[Peer(p)], lost'[Peer(p)] = lost[Peer(p)],
           WayOf(p)' + CreditOf(pkt) = WayOf(p)
    PROVE  Balance(p)'
  <1> DEFINE q == Peer(p)
             n == Cardinality(Writes(wire[p]))
             f == Cardinality(Full(ring[q]))
             credit == CreditOf(pkt)
  <1>1. FPTypeOK /\ q \in Proc
    BY InvariantAt, PeerFacts
  <1>2. FreeAt(conn'[p]) = FreeAt(conn[p]) + credit
    BY AcceptFrees
  <1>3. /\ FreeAt(conn[p]) \in Nat /\ HeldAt(conn[q]) \in Nat
        /\ n \in Nat /\ f \in Nat
    BY <1>1, TypeAt, StockType
  <1>4. credit \in Nat
    BY PlaceFacts, CreditTypes
  <1>5. /\ StockOf(p) = FreeAt(conn[p]) + n + f + HeldAt(conn[q])
        /\ StockOf(p)' = FreeAt(conn'[p]) + n + f + HeldAt(conn[q])
    BY DEF StockOf, Stock
  <1> HIDE DEF q, n, f, credit
  <1>6. StockOf(p)' = StockOf(p) + credit
    BY <1>2, <1>3, <1>4, <1>5
  <1>7. /\ WayOf(p)' \in Nat /\ StockOf(p) \in Nat
        /\ conn[q].rdma_credit \in Nat /\ lost[q] \in Nat
    BY <1>1, BalanceType, BalanceTypeNext DEF q
  <1>8. StockOf(p) + conn[q].rdma_credit + WayOf(p) + lost[q] = N - 1
    BY DEF Balance, q
  <1>9. WayOf(p)' + credit = WayOf(p)
    BY DEF credit
  <1>10. StockOf(p)' + conn[q].rdma_credit + WayOf(p)' + lost[q] = N - 1
    BY <1>4, <1>6, <1>7, <1>8, <1>9
  <1> QED
    BY <1>10 DEF Balance, q

\* The owner of the ring gives buffers back: they become credits.
GivesBack(c, b, k) ==
    /\ b.rdma_credit = c.rdma_credit + k /\ HeldAt(b) + k = HeldAt(c)
    /\ SameFree(b, c) /\ b \in Connection

LEMMA ReleaseGivesBack ==
    ASSUME NEW a, NEW c \in Connection, NEW s \in Slot, c.recv_ring,
           NEW H \in Nat, NEW T \in Nat, NEW R \in Nat, NEW U \in Nat,
           Stretches(a, c, H, T, R, U)
    PROVE  \E k \in Nat : GivesBack(c, ReleaseRecv(c, s), k)
  <1> DEFINE b == ReleaseRecv(c, s)
             k == Returned(c, s)
  <1>1. /\ c.p_recv = R % N /\ c.p_recv_tail = U % N
        /\ R <= U /\ U < R + N
    BY DEF Stretches
  <1>2. k \in 0 .. N /\ U + k < R + N
    BY <1>1, ReturnedFacts
  <1>3. /\ b \in Connection /\ b.rdma_credit = c.rdma_credit + k
        /\ b.p_recv_tail = After(c.p_recv_tail, k)
        /\ b.recv_ring = c.recv_ring /\ b.p_recv = c.p_recv
        /\ ReceiverPart(b, c)
    <2> HIDE DEF b
    <2>1. b = ReleaseRecv(c, s)
      BY DEF b
    <2>2. Released(b, c, s)
      BY <1>2, <2>1, ReleaseFacts
    <2> QED
      BY <2>2 DEF Released
  <1> HIDE DEF b, k
  <1>4. k \in Nat /\ N \in Nat
    BY <1>2, RingAssumption
  <1>5. b.recv_ring /\ Stretches(a, b, H, T, R, U + k)
    BY <1>2, <1>3, <1>4, ReturnStretches
  <1> DEFINE u == U + k
  <1>6. u \in Nat /\ Stretches(a, b, H, T, R, u)
    BY <1>4, <1>5
  <1> HIDE DEF u
  <1>7. Measured(a, c, H, T, R, U) /\ Measured(a, b, H, T, R, u)
    BY <1>6, FreeAndHeld
  <1>8. HeldAt(b) + k = HeldAt(c)
    <2>1. HeldAt(c) = R - U - 1 + N /\ HeldAt(b) = R - u - 1 + N
      BY <1>7 DEF Measured
    <2> QED
      BY <1>4, <2>1 DEF u
  <1>9. GivesBack(c, b, k)
    BY <1>3, <1>8 DEF GivesBack, SameFree, ReceiverPart
  <1> QED
    BY <1>4, <1>9 DEF b

LEMMA OwnerBalanced ==
    ASSUME FPTypeOK, FPTypeOK', NEW p \in Proc, Balance(Peer(p)),
           StockOf(Peer(p))' + conn'[p].rdma_credit + lost'[p]
               = StockOf(Peer(p)) + conn[p].rdma_credit + lost[p],
           WayOf(Peer(p))' = WayOf(Peer(p))
    PROVE  Balance(Peer(p))'
  <1> DEFINE q == Peer(p)
  <1>1. q \in Proc /\ Peer(q) = p
    BY PeerFacts
  <1>2. /\ StockOf(q) \in Nat /\ StockOf(q)' \in Nat /\ WayOf(q) \in Nat
        /\ conn[p].rdma_credit \in Nat /\ conn'[p].rdma_credit \in Nat
        /\ lost[p] \in Nat /\ lost'[p] \in Nat
    BY <1>1, BalanceType, BalanceTypeNext
  <1>3. StockOf(q) + conn[p].rdma_credit + WayOf(q) + lost[p] = N - 1
    BY <1>1 DEF Balance
  <1> HIDE DEF q
  <1>4. /\ StockOf(q)' + conn'[p].rdma_credit + lost'[p]
               = StockOf(q) + conn[p].rdma_credit + lost[p]
        /\ WayOf(q)' = WayOf(q)
    BY DEF q
  <1>5. StockOf(q)' + conn'[p].rdma_credit + WayOf(q)' + lost'[p] = N - 1
    BY <1>2, <1>3, <1>4
  <1>6. Balance(q)'
    BY <1>1, <1>5 DEF Balance
  <1> QED
    BY <1>6 DEF q

LEMMA MatchBalanced ==
    ASSUME IInv, FPTypeOK', Balanced, NEW p \in Proc, NEW s \in Slot,
           MatchUnexpected(p, s)
    PROVE  Balanced'
  <1> DEFINE q == Peer(p)
             c == conn[p]
             b == ReleaseRecv(c, s)
  <1>1. FPTypeOK /\ q \in Proc /\ Peer(q) = p /\ q # p /\ Balance(p) /\ Balance(q)
    BY InvariantAt, PeerFacts DEF Balanced
  <1>2. /\ c \in Connection /\ conn \in [Proc -> Connection]
        /\ c.rdma_credit \in Nat
    BY <1>1, TypeAt DEF FPTypeOK
  <1>3. /\ conn'[p] = b /\ conn'[q] = conn[q]
        /\ UNCHANGED <<wire, ring, cq, waiting, lost>>
    BY <1>1, <1>2 DEF MatchUnexpected
  <1>4. \E H, T, R, U \in Nat :
            /\ Stretches(conn[q], c, H, T, R, U)
            /\ Buffers(ring[p], wire[q], c.free, unexpected[p], H, R, U)
    BY <1>1, OneLine
  <1>5. PICK H \in Nat, T \in Nat, R \in Nat, U \in Nat :
            /\ Stretches(conn[q], c, H, T, R, U)
            /\ Buffers(ring[p], wire[q], c.free, unexpected[p], H, R, U)
    BY <1>4
  <1>6. c.recv_ring
    <2> SUFFICES ASSUME ~c.recv_ring PROVE FALSE
      OBVIOUS
    <2>1. R = 0 /\ U = N - 1
      BY <1>5 DEF Stretches
    <2>2. s \in Slots(U + 1 - N, R)
      BY <1>5 DEF Buffers, MatchUnexpected
    <2>3. PICK x \in (U + 1 - N) .. (R - 1) : TRUE
      BY <2>2 DEF Slots
    <2> QED
      BY <2>1, <2>3, RingAssumption
  <1>7. PICK k \in Nat : GivesBack(c, b, k)
    BY <1>2, <1>5, <1>6, ReleaseGivesBack
  <1> HIDE DEF b
  <1>8. /\ b.rdma_credit = c.rdma_credit + k /\ HeldAt(b) + k = HeldAt(c)
        /\ FreeAt(b) = FreeAt(c) /\ HeldAt(b) \in Nat
    BY <1>7, SamePointers, PointersType DEF GivesBack
  <1>9. Balance(p)'
    <2>1. StockOf(p)' = StockOf(p) /\ WayOf(p)' = WayOf(p)
      BY <1>3, <1>8 DEF StockOf, Stock, WayOf
    <2> QED
      BY <1>1, <1>3, <2>1 DEF Balance
  <1>10. Balance(q)'
    <2> DEFINE o == FreeAt(conn[q]) + Cardinality(Writes(wire[q]))
                    + Cardinality(Full(ring[p]))
    <2>1. StockOf(q) = o + HeldAt(c) /\ StockOf(q)' = o + HeldAt(b)
      BY <1>1, <1>3 DEF StockOf, Stock
    <2>2. o \in Nat /\ lost[p] \in Nat
      <3>1. /\ FreeAt(conn[q]) \in Nat
            /\ Cardinality(Writes(wire[q])) \in Nat
            /\ Cardinality(Full(ring[p])) \in Nat /\ lost[p] \in Nat
        BY <1>1, TypeAt, StockType
      <3> QED
        BY <3>1
    <2> HIDE DEF o
    <2>3. StockOf(q)' + b.rdma_credit + lost[p]
              = StockOf(q) + c.rdma_credit + lost[p]
      BY <1>2, <1>8, <2>1, <2>2
    <2>4. WayOf(q)' = WayOf(q)
      BY <1>1, <1>3 DEF WayOf
    <2> QED
      BY <1>1, <1>3, <2>3, <2>4, OwnerBalanced
  <1> QED
    BY <1>9, <1>10, BothWays

LEMMA PollRingBalanced ==
    ASSUME IInv, FPTypeOK', Balanced, NEW p \in Proc, PollRing(p)
    PROVE  Balanced'
  <1> DEFINE q == Peer(p)
             c == conn[p]
             s == c.p_recv
             pkt == ring[p][s]
             emptied == [ring[p] EXCEPT ![s] = None]
  <1>1. FPTypeOK /\ q \in Proc /\ Peer(q) = p /\ q # p /\ Balance(p) /\ Balance(q)
    BY InvariantAt, PeerFacts DEF Balanced
  <1>2. /\ c \in Connection /\ conn \in [Proc -> Connection]
        /\ s \in Slot /\ conn[q] \in Connection
        /\ c.rdma_credit \in Nat /\ wire[p] \in Seq(Item) /\ wire[q] \in Seq(Item)
        /\ ring[p] \in [Slot -> Place] /\ ring[q] \in [Slot -> Place]
        /\ cq[p] \in Seq(Packets) /\ waiting[p] \in Place
        /\ c.free \in SUBSET Slot /\ unexpected[p] \in SUBSET Slot
    BY <1>1, TypeAt DEF FPTypeOK, Connection
  <1>3. /\ c.recv_ring /\ pkt # None /\ pkt.id = c.expected
        /\ ring' = [ring EXCEPT ![p] = emptied]
        /\ Dropped(p, pkt) /\ UNCHANGED <<cq, waiting>>
    BY DEF PollRing, IsNext
  <1>4. pkt \in Packets
    BY <1>2, <1>3, PlaceFacts
  <1>5. AtTurn(p, pkt, "ring")
    BY <1>2, <1>3 DEF AtTurn
  <1> HIDE DEF pkt
  <1>6. Turn(p, pkt, "ring")
    BY <1>4, <1>5, TurnOf DEF AtTurn
  <1>7. PICK a \in Connection :
               /\ Accepts(c, a, pkt, "ring") /\ a.recv_ring
               /\ a.rdma_credit = c.rdma_credit
               /\ a.p_recv = After(s, 1) /\ a.p_recv_tail = c.p_recv_tail
               /\ wire' = wire
               /\ \/ conn' = [conn EXCEPT ![p] = ReleaseRecv(a, s)]
                  \/ conn' = [conn EXCEPT ![p] = a]
    BY <1>1, <1>4, <1>6, PollRingTakes DEF pkt
  <1>8. /\ ring'[p] = emptied /\ ring'[q] = ring[q] /\ conn'[q] = conn[q]
        /\ lost' = lost
    <2>1. lost' = lost
      BY <1>3, <1>6 DEF Dropped, Turn
    <2>2. ring \in [Proc -> [Slot -> Place]]
      BY <1>1 DEF FPTypeOK
    <2> HIDE DEF emptied
    <2> QED
      BY <1>1, <1>2, <1>3, <1>7, <2>1, <2>2
  <1>9. \E H, T, R, U \in Nat :
            /\ Stretches(conn[q], c, H, T, R, U)
            /\ Buffers(ring[p], wire[q], c.free, unexpected[p], H, R, U)
    BY <1>1, OneLine
  <1>10. PICK H \in Nat, T \in Nat, R \in Nat, U \in Nat :
            /\ Stretches(conn[q], c, H, T, R, U)
            /\ Buffers(ring[p], wire[q], c.free, unexpected[p], H, R, U)
    BY <1>9
  <1>11. R <= H /\ H <= U /\ U < R + N /\ s = R % N
    BY <1>3, <1>10 DEF Stretches
  <1>12. R < H
    BY <1>2, <1>3, <1>10, <1>11, PollBuffers DEF pkt
  <1>13. Stretches(conn[q], a, H, T, R + 1, U)
    BY <1>3, <1>7, <1>10, <1>12, PollStretches
  <1> DEFINE r == R + 1
  <1>14. r \in Nat /\ Stretches(conn[q], a, H, T, r, U)
    BY <1>10, <1>13
  <1> HIDE DEF r, c
  <1>15. HeldAt(a) = HeldAt(c) + 1
    <2>1. Measured(conn[q], c, H, T, R, U) /\ Measured(conn[q], a, H, T, r, U)
      BY <1>10, <1>14, FreeAndHeld
    <2>2. HeldAt(c) = R - U - 1 + N /\ HeldAt(a) = r - U - 1 + N
      BY <2>1 DEF Measured
    <2> QED
      BY <1>10, <2>2, RingAssumption DEF r
  <1> DEFINE b == conn'[p]
  <1>16. \E k \in Nat : GivesBack(a, b, k)
    <2>1. CASE conn' = [conn EXCEPT ![p] = ReleaseRecv(a, s)]
      <3>1. b = ReleaseRecv(a, s)
        BY <1>2, <2>1
      <3>2. \E k \in Nat : GivesBack(a, ReleaseRecv(a, s), k)
        BY <1>2, <1>7, <1>10, <1>14, ReleaseGivesBack
      <3> QED
        BY <3>1, <3>2
    <2>2. CASE conn' = [conn EXCEPT ![p] = a]
      <3>1. b = a
        BY <1>2, <2>2
      <3>2. a.rdma_credit \in Nat /\ HeldAt(a) \in Nat
        BY PointersType DEF Connection
      <3>3. GivesBack(a, a, 0)
        BY <3>2 DEF GivesBack, SameFree
      <3> QED
        BY <3>1, <3>3
    <2> QED
      BY <1>7, <2>1, <2>2
  <1>17. PICK k \in Nat : GivesBack(a, b, k)
    BY <1>16
  <1> HIDE DEF b
  <1>18. /\ b.rdma_credit = c.rdma_credit + k /\ HeldAt(b) + k = HeldAt(c) + 1
         /\ FreeAt(b) = FreeAt(a) /\ b \in Connection
    BY <1>7, <1>15, <1>17, SamePointers DEF GivesBack
  <1>19. Balance(p)'
    <2>1. WayOf(p)' + CreditOf(pkt) = WayOf(p)
      <3>1. WayOf(p)' = UnderWay(wire[q], emptied, cq[p], waiting[p])
        BY <1>3, <1>7, <1>8 DEF WayOf
      <3>2. UnderWay(wire[q], emptied, cq[p], waiting[p]) + CreditOf(pkt)
                = UnderWay(wire[q], ring[p], cq[p], waiting[p])
        BY <1>2, PolledUnderWay DEF pkt
      <3> QED
        BY <3>1, <3>2 DEF WayOf
    <2>2. FreeAt(conn'[p]) = FreeAt(a)
      BY <1>18 DEF b
    <2>3. Accepts(conn[p], a, pkt, "ring")
      BY <1>7 DEF c
    <2> QED
      BY <1>1, <1>4, <1>5, <1>7, <1>8, <2>1, <2>2, <2>3, AcceptBalanced
  <1>20. Balance(q)'
    <2>1. StockOf(q)' = Stock(conn[q], wire[q], emptied, b)
      BY <1>1, <1>7, <1>8 DEF StockOf, b
    <2>2. Stock(conn[q], wire[q], emptied, b) + k
              = Stock(conn[q], wire[q], ring[p], c)
      <3>1. ring[p][s] # None /\ s \in Slot
        BY <1>2, <1>3 DEF pkt
      <3>2. HeldAt(b) + k = HeldAt(c) + 1 /\ b \in Connection /\ k \in Nat
        BY <1>18
      <3>3. Stock(conn[q], wire[q], [ring[p] EXCEPT ![s] = None], b) + k
                = Stock(conn[q], wire[q], ring[p], c)
        BY <1>2, <3>1, <3>2, StockPolled
      <3> QED
        BY <3>3
    <2>3. StockOf(q)' + k = StockOf(q)
      BY <1>1, <2>1, <2>2 DEF StockOf, c
    <2>4. StockOf(q)' \in Nat /\ lost[p] \in Nat
      BY <1>1, BalanceTypeNext, BalanceType
    <2>5. StockOf(q)' + b.rdma_credit + lost[p]
              = StockOf(q) + c.rdma_credit + lost[p]
      BY <1>2, <1>18, <2>3, <2>4
    <2>6. WayOf(q)' = WayOf(q)
      BY <1>1, <1>3, <1>7, <1>8 DEF WayOf
    <2> QED
      BY <1>1, <1>8, <2>5, <2>6, OwnerBalanced DEF b, c
  <1> QED
    BY <1>19, <1>20, BothWays

\* A process whose ring the peer does not know has no credits for it.
LEMMA NoRingNoCredits ==
    ASSUME IInv, NEW p \in Proc, ~conn[p].recv_ring
    PROVE  conn[p].rdma_credit = 0
  <1> DEFINE q == Peer(p)
             c == conn[p]
             n == c.tosend
             e == conn[q].expected
  <1>1. FPTypeOK /\ Accounted(p) /\ InTurn(p) /\ q \in Proc
    BY InvariantAt, PeerFacts
  <1>2. /\ n \in Nat /\ e \in Nat \ {0} /\ c.rdma_credit \in Nat
        /\ wire[p] \in Seq(Item)
    BY <1>1, TypeAt
  <1>3. PICK view \in [Nat -> Knowledge], H \in Nat, R \in Nat, U \in Nat :
            Account(p, view, H, R, U)
    BY <1>1 DEF Accounted
  <1>4. /\ Ends(view, n, e, Says(p), Knows(q), U - c.rdma_credit)
        /\ Stretches(conn[q], c, H, view[e].tail, R, U)
    BY <1>3 DEF Account
  <1>5. e \in e .. n
    <2>1. e <= n - Len(wire[p]) /\ Len(wire[p]) \in Nat
      BY <1>1, <1>2 DEF InTurn, InSequence
    <2> HIDE DEF e, n
    <2> QED
      BY <1>2, <2>1
  <1>6. ~conn[q].send_ring
    <2>1. SameView(view[e], Knows(q)) /\ Within(view[e], Says(p), U - c.rdma_credit)
      BY <1>4, <1>5 DEF Ends
    <2> QED
      BY <2>1 DEF SameView, Within, Says, Knows
  <1>7. view[e].tail <= U - c.rdma_credit
    BY <1>4, <1>5 DEF Ends, Within
  <1>8. view[e].tail = N - 1 /\ U = N - 1
    BY <1>4, <1>6 DEF Stretches
  <1> HIDE DEF c, e
  <1>9. c.rdma_credit <= 0
    BY <1>2, <1>7, <1>8, RingAssumption
  <1>10. c.rdma_credit = 0
    BY <1>2, <1>9
  <1> QED
    BY <1>10 DEF c

LEMMA OpensHeld ==
    ASSUME NEW c, NEW b, NEW item, OpensRing(c, b, item)
    PROVE  HeldAt(b) = 0 /\ HeldAt(c) = 0
  <1>1. HeldAt(c) = 0
    BY DEF OpensRing, HeldAt
  <1> DEFINE x == 0 - (N - 1) - 1
  <1>2. HeldAt(b) = x % N
    BY DEF OpensRing, HeldAt
  <1>3. x \in Int /\ x = N * (-1) + 0 /\ 0 \in Slot /\ -1 \in Int
    BY RingAssumption DEF Slot
  <1> HIDE DEF x
  <1>4. x % N = 0
    BY <1>3, OneSlot
  <1> QED
    BY <1>1, <1>2, <1>4

LEMMA TakeFromQueueBalanced ==
    ASSUME IInv, FPTypeOK', Balanced, NEW p \in Proc, NEW pkt \in Packets,
           TakeFromQueue(p, pkt), AtTurn(p, pkt, "queue"),
           cq'[Peer(p)] = cq[Peer(p)], waiting'[Peer(p)] = waiting[Peer(p)],
           UnderWay(wire[Peer(p)], ring[p], cq'[p], waiting'[p])
               + CreditOf(pkt) = WayOf(p)
    PROVE  Balanced'
  <1> DEFINE q == Peer(p)
             c == conn[p]
  <1>1. FPTypeOK /\ q \in Proc /\ Peer(q) = p /\ q # p /\ Balance(p) /\ Balance(q)
    BY InvariantAt, PeerFacts DEF Balanced
  <1>2. /\ c \in Connection /\ conn \in [Proc -> Connection]
        /\ wire[p] \in Seq(Item) /\ wire \in [Proc -> Seq(Item)]
        /\ ring[q] \in [Slot -> Place] /\ cq[q] \in Seq(Packets)
        /\ waiting[q] \in Place /\ lost \in [Proc -> Nat]
        /\ c.rdma_credit \in Nat /\ lost[p] \in Nat
    BY <1>1, TypeAt DEF FPTypeOK
  <1>3. ring' = ring /\ Dropped(p, pkt)
    BY DEF TakeFromQueue
  <1>4. Turn(p, pkt, "queue")
    BY TurnOf DEF AtTurn
  <1>5. PICK b \in Connection :
             /\ conn' = [conn EXCEPT ![p] = b]
             /\ Accepts(c, b, pkt, "queue")
             /\ \/ /\ wire' = wire /\ AcceptsQuietly(c, b)
                   /\ b.rdma_credit = Kept(c, pkt)
                \/ \E item \in Item :
                       /\ OpensRing(c, b, item)
                       /\ wire' = [wire EXCEPT ![p] = Append(wire[p], item)]
                       /\ pkt.type = "start"
    BY <1>1, <1>4, TakeFromQueueTakes
  <1>6. /\ conn'[p] = b /\ conn'[q] = conn[q] /\ lost'[q] = lost[q]
        /\ lost'[p] = IF pkt.type = "address" THEN lost[p] + c.rdma_credit
                      ELSE lost[p]
    BY <1>1, <1>2, <1>3, <1>5 DEF Dropped
  <1> HIDE DEF c
  <1>7. /\ wire'[q] = wire[q]
        /\ Cardinality(Writes(wire'[p])) = Cardinality(Writes(wire[p]))
        /\ HeldAt(b) = HeldAt(c)
        /\ b.rdma_credit + lost'[p] = c.rdma_credit + lost[p]
        /\ WayOf(q)' = WayOf(q)
    <2>1. CASE /\ wire' = wire /\ AcceptsQuietly(c, b)
               /\ b.rdma_credit = Kept(c, pkt)
      <3>1. HeldAt(b) = HeldAt(c)
        BY <2>1 DEF AcceptsQuietly, HeldAt
      <3>2. b.rdma_credit + lost'[p] = c.rdma_credit + lost[p]
        BY <1>2, <1>6, <2>1 DEF Kept
      <3>3. WayOf(q)' = WayOf(q)
        BY <1>1, <1>3, <2>1 DEF WayOf
      <3> QED
        BY <2>1, <3>1, <3>2, <3>3
    <2>2. CASE \E item \in Item :
                   /\ OpensRing(c, b, item)
                   /\ wire' = [wire EXCEPT ![p] = Append(wire[p], item)]
                   /\ pkt.type = "start"
      <3>1. PICK item \in Item :
                   /\ OpensRing(c, b, item)
                   /\ wire' = [wire EXCEPT ![p] = Append(wire[p], item)]
                   /\ pkt.type = "start"
        BY <2>2
      <3>2. wire'[p] = Append(wire[p], item) /\ wire'[q] = wire[q]
        BY <1>1, <1>2, <3>1
      <3>3. Cardinality(Writes(wire'[p])) = Cardinality(Writes(wire[p]))
        <4>1. item.via # "ring"
          BY <3>1 DEF OpensRing
        <4>2. Writes(Append(wire[p], item)) = Writes(wire[p])
          BY <1>2, <4>1, WritesAppend
        <4> QED
          BY <3>2, <4>2
      <3>4. HeldAt(b) = HeldAt(c)
        BY <3>1, OpensHeld
      <3>5. b.rdma_credit + lost'[p] = c.rdma_credit + lost[p]
        <4>1. c.rdma_credit = 0 /\ b.rdma_credit = 0
          BY <3>1, NoRingNoCredits DEF OpensRing, c
        <4>2. lost'[p] = lost[p]
          BY <1>6, <3>1
        <4> QED
          BY <4>1, <4>2
      <3>6. WayOf(q)' = WayOf(q)
        <4>1. CreditOf(item.pkt) = 0
          <5>1. item.pkt \in Packets
            BY DEF Item
          <5>2. CreditOf(item.pkt) = item.pkt.header.credit
            BY <5>1, PlaceFacts, CreditTypes
          <5> QED
            BY <3>1, <5>2 DEF OpensRing
        <4>2. UnderWay(Append(wire[p], item), ring[q], cq[q], waiting[q])
                  = UnderWay(wire[p], ring[q], cq[q], waiting[q])
                    + CreditOf(item.pkt)
          BY <1>2, PostsUnderWay
        <4>3. WayOf(q)' = UnderWay(Append(wire[p], item), ring[q], cq[q],
                                   waiting[q])
          BY <1>1, <1>3, <3>2 DEF WayOf
        <4>4. WayOf(q) = UnderWay(wire[p], ring[q], cq[q], waiting[q])
          BY <1>1 DEF WayOf
        <4>5. WayOf(q) \in Nat
          BY <1>1, BalanceType
        <4> QED
          BY <4>1, <4>2, <4>3, <4>4, <4>5
      <3> QED
        BY <3>2, <3>3, <3>4, <3>5, <3>6
    <2> QED
      BY <1>5, <2>1, <2>2 DEF c
  <1>8. Balance(p)'
    <2>1. WayOf(p)' + CreditOf(pkt) = WayOf(p)
      BY <1>3, <1>7 DEF WayOf
    <2>2. Accepts(conn[p], b, pkt, "queue") /\ FreeAt(conn'[p]) = FreeAt(b)
      BY <1>5, <1>6 DEF c
    <2> QED
      BY <1>1, <1>3, <1>6, <1>7, <2>1, <2>2, AcceptBalanced
  <1>9. Balance(q)'
    <2>1. StockOf(q)' = StockOf(q)
      BY <1>1, <1>3, <1>6, <1>7 DEF StockOf, Stock, c
    <2>2. StockOf(q) \in Nat /\ conn'[p].rdma_credit \in Nat /\ lost'[p] \in Nat
      BY <1>1, BalanceType, BalanceTypeNext
    <2>3. StockOf(q)' + conn'[p].rdma_credit + lost'[p]
               = StockOf(q) + conn[p].rdma_credit + lost[p]
      <3>1. conn'[p].rdma_credit + lost'[p] = c.rdma_credit + lost[p]
        BY <1>6, <1>7
      <3> DEFINE m == StockOf(q)
                 a == conn'[p].rdma_credit
                 o == lost'[p]
      <3>2. m \in Nat /\ a \in Nat /\ o \in Nat
        BY <2>2
      <3> HIDE DEF m, a, o
      <3>3. m + a + o = m + c.rdma_credit + lost[p]
        <4>1. a + o = c.rdma_credit + lost[p]
          BY <3>1 DEF a, o
        <4>2. c.rdma_credit \in Nat /\ lost[p] \in Nat
          BY <1>2
        <4> DEFINE u == c.rdma_credit
                   v == lost[p]
        <4>3. u \in Nat /\ v \in Nat /\ a + o = u + v
          BY <4>1, <4>2
        <4> HIDE DEF u, v
        <4>4. m + a + o = m + u + v
          BY <3>2, <4>3
        <4> QED
          BY <4>4 DEF u, v
      <3> QED
        BY <2>1, <3>3 DEF m, a, o, c
    <2> QED
      BY <1>1, <1>7, <2>3, OwnerBalanced
  <1> QED
    BY <1>8, <1>9, BothWays

LEMMA WaitIsOverBalanced ==
    ASSUME IInv, FPTypeOK', Balanced, NEW p \in Proc, WaitIsOver(p)
    PROVE  Balanced'
  <1> DEFINE q == Peer(p)
             x == waiting[p]
  <1>1. FPTypeOK /\ q \in Proc /\ q # p
    BY InvariantAt, PeerFacts
  <1>2. /\ wire[q] \in Seq(Item) /\ ring[p] \in [Slot -> Place]
        /\ cq[p] \in Seq(Packets) /\ x \in Place
    BY <1>1, TypeAt
  <1>3. /\ x # None /\ x.id = conn[p].expected /\ TakeFromQueue(p, x)
        /\ cq' = cq /\ waiting'[p] = None /\ waiting'[q] = waiting[q]
    BY <1>1 DEF WaitIsOver, FPTypeOK
  <1>4. x \in Packets /\ AtTurn(p, x, "queue")
    BY <1>2, <1>3, PlaceFacts DEF AtTurn
  <1>5. UnderWay(wire[q], ring[p], cq'[p], waiting'[p]) + CreditOf(x) = WayOf(p)
    <2>1. UnderWay(wire[q], ring[p], cq[p], None) + CreditOf(x)
              = UnderWay(wire[q], ring[p], cq[p], x)
      BY <1>2, WaitsUnderWay
    <2> QED
      BY <1>3, <2>1 DEF WayOf
  <1> HIDE DEF x
  <1> QED
    BY <1>3, <1>4, <1>5, TakeFromQueueBalanced

LEMMA ProcessRecvBalanced ==
    ASSUME IInv, FPTypeOK', Balanced, NEW p \in Proc, ProcessRecv(p)
    PROVE  Balanced'
  <1> DEFINE q == Peer(p)
             x == Head(cq[p])
             k == Tail(cq[p])
  <1>1. FPTypeOK /\ q \in Proc /\ Peer(q) = p /\ q # p /\ Balance(p) /\ Balance(q)
    BY InvariantAt, PeerFacts DEF Balanced
  <1>2. /\ wire[q] \in Seq(Item) /\ ring[p] \in [Slot -> Place]
        /\ cq[p] \in Seq(Packets)
    BY <1>1, TypeAt
  <1>3. /\ waiting[p] = None /\ cq[p] # << >>
        /\ cq'[p] = k /\ cq'[q] = cq[q]
    BY <1>1 DEF ProcessRecv, FPTypeOK
  <1>4. x \in Packets /\ k \in Seq(Packets) /\ x = cq[p][1] /\ 1 \in 1 .. Len(cq[p])
    BY <1>2, <1>3, TailFacts
  <1>5. x \in Place /\ None \in Place
    BY <1>4, PlaceFacts
  <1>6. UnderWay(wire[q], ring[p], k, None) + CreditOf(x) = WayOf(p)
    BY <1>2, <1>3, <1>5, TakenUnderWay DEF WayOf
  <1>7. CASE x.id = conn[p].expected /\ TakeFromQueue(p, x) /\ UNCHANGED waiting
    <2>1. AtTurn(p, x, "queue")
      BY <1>4, <1>7 DEF AtTurn
    <2>2. /\ waiting'[q] = waiting[q]
          /\ UnderWay(wire[q], ring[p], cq'[p], waiting'[p]) + CreditOf(x)
                 = WayOf(p)
      BY <1>3, <1>6, <1>7
    <2> HIDE DEF x
    <2> QED
      BY <1>3, <1>4, <1>7, <2>1, <2>2, TakeFromQueueBalanced
  <1>8. CASE /\ waiting' = [waiting EXCEPT ![p] = x]
             /\ UNCHANGED <<conn, wire, ring, completions, unexpected, lost,
                            submitted, received>>
    <2>1. waiting'[p] = x /\ waiting'[q] = waiting[q]
      BY <1>1, <1>8 DEF FPTypeOK
    <2>2. WayOf(p)' = WayOf(p)
      <3> HIDE DEF x, k
      <3>1. UnderWay(wire[q], ring[p], k, None) + CreditOf(x)
                = UnderWay(wire[q], ring[p], k, x)
        BY <1>2, <1>4, <1>5, WaitsUnderWay
      <3> QED
        BY <1>3, <1>6, <1>8, <2>1, <3>1 DEF WayOf
    <2>3. WayOf(q)' = WayOf(q)
      BY <1>3, <1>8, <2>1 DEF WayOf
    <2>4. StockOf(p)' = StockOf(p) /\ StockOf(q)' = StockOf(q)
      BY <1>8 DEF StockOf
    <2>5. Balance(p)' /\ Balance(q)'
      BY <1>1, <1>8, <2>2, <2>3, <2>4 DEF Balance
    <2> QED
      BY <2>5, BothWays
  <1> QED
    BY <1>7, <1>8 DEF ProcessRecv

-----------------------------------------------------------------------------
(* The account at the start and for ever.                                  *)

LEMMA InitBalanced == Init => Balanced
  <1> SUFFICES ASSUME Init, NEW p \in Proc PROVE Balance(p)
    BY DEF Balanced
  <1> DEFINE q == Peer(p)
             g == [s \in Slot |-> None]
  <1>1. q \in Proc
    BY PeerFacts
  <1>2. /\ conn[p] = InitialConnection /\ conn[q] = InitialConnection
        /\ wire[p] = << >> /\ wire[q] = << >> /\ cq[p] = << >>
        /\ ring[p] = g /\ ring[q] = g /\ waiting[p] = None /\ lost[q] = 0
    BY <1>1 DEF Init
  <1>3. StockOf(p) = N - 1
    <2>1. FreeAt(conn[p]) = N - 1 /\ HeldAt(conn[q]) = 0
      BY <1>2 DEF InitialConnection, FreeAt, HeldAt
    <2>2. Writes(wire[p]) = {} /\ Full(ring[q]) = {}
      BY <1>2 DEF Writes, Full
    <2>3. Cardinality({}) = 0
      BY FS_EmptySet
    <2> QED
      BY <2>1, <2>2, <2>3, RingAssumption DEF StockOf, Stock
  <1>4. WayOf(p) = 0
    <2>1. CreditsOn(<< >>) = 0 /\ CreditsIn(<< >>) = 0
      <3>1. OnEach(<< >>) = << >> /\ InEach(<< >>) = << >>
        BY DEF OnEach, InEach
      <3> QED
        BY <3>1, SumOfNone DEF CreditsOn, CreditsIn, OnEach, InEach
    <2>2. CreditsIn(g) = 0
      <3>1. CreditOf(None) = 0
        BY CreditTypes, PlaceFacts
      <3>2. g \in [Slot -> Place]
        BY PlaceFacts
      <3>3. \A s \in Slot : InEach(g)[s] = 0
        BY <3>1 DEF InEach
      <3> DEFINE f == InEach(g)
      <3> HIDE DEF f
      <3>4. f \in [Slot -> Nat] /\ IsFiniteSet(Slot) /\ CreditsIn(g) = SumFunction(f)
        BY <3>2, RingCreditsType DEF f
      <3>5. \A s \in Slot : f[s] = 0
        BY <3>3 DEF f
      <3>6. SumFunction(f) = 0
        BY <3>4, <3>5, SumOfZeros
      <3> QED
        BY <3>4, <3>6
    <2>3. CreditOf(None) = 0
      BY CreditTypes, PlaceFacts
    <2> HIDE DEF g
    <2> QED
      BY <1>2, <2>1, <2>2, <2>3 DEF WayOf, UnderWay
  <1>5. conn[q].rdma_credit = 0
    BY <1>2 DEF InitialConnection
  <1> QED
    BY <1>2, <1>3, <1>4, <1>5, RingAssumption DEF Balance

LEMMA StepBalanced == IInv /\ FPTypeOK' /\ Balanced /\ [Next]_vars => Balanced'
  <1> SUFFICES ASSUME IInv, FPTypeOK', Balanced, [Next]_vars PROVE Balanced'
    OBVIOUS
  <1>1. ASSUME NEW p \in Proc, NEW env \in Headers, NEW size \in Sizes,
               EagerSend(p, env, size)
        PROVE  Balanced'
    BY <1>1, EagerSendBalanced
  <1>2. ASSUME NEW p \in Proc, Land(p) PROVE Balanced'
    BY <1>2, LandBalanced
  <1>3. ASSUME NEW p \in Proc, ProcessSend(p) PROVE Balanced'
    BY <1>3, ProcessSendBalanced
  <1>4. ASSUME NEW p \in Proc, PollRing(p) PROVE Balanced'
    BY <1>4, PollRingBalanced
  <1>5. ASSUME NEW p \in Proc, ProcessRecv(p) PROVE Balanced'
    BY <1>5, ProcessRecvBalanced
  <1>6. ASSUME NEW p \in Proc, WaitIsOver(p) PROVE Balanced'
    BY <1>6, WaitIsOverBalanced
  <1>7. ASSUME NEW p \in Proc, NEW s \in Slot, MatchUnexpected(p, s)
        PROVE  Balanced'
    BY <1>7, MatchBalanced
  <1>8. CASE UNCHANGED vars
    BY <1>8 DEF vars, Balanced, Balance, StockOf, WayOf
  <1> QED
    BY <1>1, <1>2, <1>3, <1>4, <1>5, <1>6, <1>7, <1>8 DEF Next

\* The sum holds in every state, before and after the addresses of the rings
\* are known and with any number of credits dropped.
THEOREM BalanceHolds == Spec => [](IInv /\ Balanced)
  <1>1. Init => IInv /\ Balanced
    BY InitInvariant, InitBalanced
  <1>2. IInv /\ Balanced /\ [Next]_vars => (IInv /\ Balanced)'
    <2> SUFFICES ASSUME IInv, Balanced, [Next]_vars PROVE IInv' /\ Balanced'
      OBVIOUS
    <2>1. IInv'
      BY StepInvariant
    <2>2. FPTypeOK'
      BY <2>1 DEF IInv
    <2> QED
      BY <2>1, <2>2, StepBalanced
  <1> QED
    BY <1>1, <1>2, PTL DEF Spec

LEMMA AccountFromBalance == IInv /\ Balanced => RingAccount
  <1> SUFFICES ASSUME IInv, Balanced, NEW p \in Proc, conn[p].send_ring
               PROVE  LET q == Peer(p)
                      IN  N - 1 = ((conn[p].ptail - conn[p].phead) % N)
                              + Cardinality(ItemsOnRing(p))
                              + Cardinality(Landed(q))
                              + Cardinality(Taken(q)) + conn[q].rdma_credit
                              + CreditsUnderWay(q) + lost[q]
    BY DEF RingAccount
  <1> DEFINE q == Peer(p)
  <1>1. FPTypeOK /\ q \in Proc /\ Peer(q) = p /\ Balance(p)
    BY InvariantAt, PeerFacts DEF Balanced
  <1>2. /\ conn[p] \in Connection /\ conn[q] \in Connection
        /\ wire[p] \in Seq(Item) /\ ring[q] \in [Slot -> Place]
    BY <1>1, TypeAt
  <1>3. FreeAt(conn[p]) = (conn[p].ptail - conn[p].phead) % N
    BY DEF FreeAt
  <1>4. ItemsOnRing(p) = Writes(wire[p]) /\ Landed(q) = Full(ring[q])
    BY <1>2 DEF ItemsOnRing, Writes, Landed, Full
  <1>5. Cardinality(Taken(q)) = HeldAt(conn[q])
    <2>1. PICK H \in Nat, T \in Nat, R \in Nat, U \in Nat :
              Stretches(conn[p], conn[q], H, T, R, U)
      BY OneLine
    <2> DEFINE a == U + 1 - N
    <2>2. a \in Int /\ a <= R /\ R <= a + N
      <3>1. R <= U /\ U < R + N
        BY <2>1 DEF Stretches
      <3> QED
        BY <2>1, <3>1, RingAssumption
    <2>3. Taken(q) = Slots(a, R)
      <3>1. \A s \in Slot : s \in Taken(q) <=> s \in Slots(a, R)
        BY <1>1, <2>1, TakenIs
      <3>2. Taken(q) \subseteq Slot
        BY DEF Taken
      <3>3. Slots(a, R) \subseteq Slot
        BY <2>1, <2>2, SlotsType
      <3> QED
        BY <3>1, <3>2, <3>3
    <2> HIDE DEF a
    <2>4. Cardinality(Slots(a, R)) = R - a
      BY <2>1, <2>2, SlotsCount
    <2>5. HeldAt(conn[q]) = R - U - 1 + N
      <3> DEFINE c == conn[p]
                 d == conn[q]
      <3>1. Stretches(c, d, H, T, R, U)
        BY <2>1
      <3> HIDE DEF c, d
      <3>2. Measured(c, d, H, T, R, U)
        BY <2>1, <3>1, FreeAndHeld
      <3>3. HeldAt(d) = R - U - 1 + N
        BY <3>2 DEF Measured
      <3> QED
        BY <3>3 DEF d
    <2>6. R - a = R - U - 1 + N
      BY <2>1, RingAssumption DEF a
    <2> QED
      BY <2>3, <2>4, <2>5, <2>6
  <1>6. CreditsUnderWay(q) = WayOf(p)
    BY <1>1 DEF CreditsUnderWay, WayOf, UnderWay
  <1>7. /\ WayOf(p) \in Nat /\ conn[q].rdma_credit \in Nat /\ lost[q] \in Nat
        /\ FreeAt(conn[p]) \in Nat /\ HeldAt(conn[q]) \in Nat
        /\ Cardinality(Writes(wire[p])) \in Nat
        /\ Cardinality(Full(ring[q])) \in Nat
    BY <1>1, <1>2, BalanceType, StockType
  <1>8. StockOf(p) = FreeAt(conn[p]) + Cardinality(ItemsOnRing(p))
                     + Cardinality(Landed(q)) + Cardinality(Taken(q))
    BY <1>4, <1>5 DEF StockOf, Stock
  <1>9. StockOf(p) + conn[q].rdma_credit + WayOf(p) + lost[q] = N - 1
    BY <1>1 DEF Balance
  <1>10. N - 1 = FreeAt(conn[p]) + Cardinality(ItemsOnRing(p))
                 + Cardinality(Landed(q)) + Cardinality(Taken(q))
                 + conn[q].rdma_credit + CreditsUnderWay(q) + lost[q]
    BY <1>6, <1>8, <1>9
  <1> QED
    BY <1>3, <1>10

\* Every buffer of the ring but one is where it can be found: with the sender,
\* on the wire, landed, taken, or on its way back as a credit in the header of
\* a packet; the only credits that are gone are those vbuf_fast_rdma_alloc
\* clears with the ring of the other direction (vbuf.c:530).
THEOREM NoBufferIsLost == Spec => []RingAccount
  BY BalanceHolds, AccountFromBalance, PTL
=============================================================================
