---------------------------- MODULE RecoveryProofs ----------------------------
(***************************************************************************)
(* What the two ends of a connection know of its reconnect agrees, for any  *)
(* scripts of the application, any packet numbers and any number of faults, *)
(* as long as no fault hits a reconnect under way.  With scripts of eager   *)
(* messages none is forgotten, repeated or out of order either.             *)
(*                                                                         *)
(* Most steps only move packets, lists and messages: they are Quiet, and    *)
(* keep the fields the reconnect is made of, the calls (nfr_req, nfr_rep)   *)
(* on their way and the rule that an error completion is of the queue pair  *)
(* in use.  The first part shows this for every operator a step is built    *)
(* from, folds over lists included.  The other steps walk the two ends      *)
(* through the stages Calm, Asking or Crossing, Serving, Waiting,           *)
(* Requesting and Replying, back to Calm: the invariant IInv says that they *)
(* are always at one of these together.                                     *)
(*                                                                         *)
(* The second part follows the messages of one direction through those      *)
(* stages.  Joint says of a sender and its receiver that the list of vbufs  *)
(* kept for retransmission, the packets under way and what the receiver has *)
(* taken are parts of one sequence of message numbers, and that the         *)
(* acknowledgements add up; it is kept by every step of either end, by a    *)
(* fault and by the retransmission, and MInv is IInv with Joint of both     *)
(* directions.  The last lemmas map the steps to those of OrderedDelivery.  *)
(***************************************************************************)
EXTENDS Recovery, SumTheorems
-----------------------------------------------------------------------------
(* Sequences of elements of any kind.                                       *)

IsSeq(s) == s \in Seq(Range(s))

LEMMA RangeSeq ==
    ASSUME NEW S, NEW s \in Seq(S)
    PROVE  IsSeq(s)
  <1> DEFINE R == Range(s)
             n == Len(s)
  <1>1. n \in Nat /\ DOMAIN s = 1 .. n /\ s = [i \in 1 .. n |-> s[i]]
    OBVIOUS
  <1>2. \A i \in 1 .. n : s[i] \in R
    BY <1>1 DEF Range
  <1> HIDE DEF R, n
  <1>3. s \in [1 .. n -> R]
    BY <1>1, <1>2
  <1>4. s \in Seq(R)
    BY <1>1, <1>3
  <1> QED
    BY <1>4 DEF R, IsSeq

LEMMA SeqFacts ==
    ASSUME NEW s, IsSeq(s)
    PROVE  /\ Len(s) \in Nat /\ DOMAIN s = 1 .. Len(s)
           /\ s # << >> => Len(s) # 0 /\ 1 \in DOMAIN s /\ Head(s) = s[1]
  BY DEF IsSeq

LEMMA NoElements == IsSeq(<< >>) /\ DOMAIN << >> = {}
  <1> DEFINE e == << >>
             S == {}
  <1>1. e \in Seq(S) /\ DOMAIN e = {}
    OBVIOUS
  <1> HIDE DEF e, S
  <1>2. IsSeq(e) /\ DOMAIN e = {}
    BY <1>1, RangeSeq
  <1> QED
    BY <1>2 DEF e

LEMMA AppendSeq ==
    ASSUME NEW s, NEW x, IsSeq(s)
    PROVE  /\ IsSeq(Append(s, x))
           /\ DOMAIN Append(s, x) = DOMAIN s \cup {Len(s) + 1}
           /\ Len(s) + 1 \notin DOMAIN s
           /\ \A i \in DOMAIN s : Append(s, x)[i] = s[i]
           /\ Append(s, x)[Len(s) + 1] = x
  <1> DEFINE S == Range(s) \cup {x}
  <1>1. s \in Seq(S) /\ x \in S
    BY DEF IsSeq
  <1>2. Append(s, x) \in Seq(S) /\ Len(s) \in Nat /\ DOMAIN s = 1 .. Len(s)
        /\ DOMAIN Append(s, x) = 1 .. (Len(s) + 1)
    BY <1>1
  <1>3. /\ \A i \in DOMAIN s : Append(s, x)[i] = s[i]
        /\ Append(s, x)[Len(s) + 1] = x
    BY <1>1
  <1>4. IsSeq(Append(s, x))
    <2> DEFINE t == Append(s, x)
    <2>1. t \in Seq(S)
      BY <1>2
    <2> HIDE DEF t, S
    <2>2. IsSeq(t)
      BY <2>1, RangeSeq
    <2> QED
      BY <2>2 DEF t
  <1> QED
    BY <1>2, <1>3, <1>4

LEMMA TailSeq ==
    ASSUME NEW s, IsSeq(s), s # << >>
    PROVE  /\ IsSeq(Tail(s))
           /\ \A i \in DOMAIN Tail(s) :
                 i \in Nat /\ i + 1 \in DOMAIN s /\ i + 1 # 1 /\ Tail(s)[i] = s[i + 1]
           /\ 1 \in DOMAIN s /\ Head(s) = s[1]
  <1>1. s \in Seq(Range(s))
    BY DEF IsSeq
  <1>2. /\ Tail(s) \in Seq(Range(s))
        /\ \A i \in DOMAIN Tail(s) :
              i \in Nat /\ i + 1 \in DOMAIN s /\ i + 1 # 1 /\ Tail(s)[i] = s[i + 1]
    BY <1>1
  <1>3. IsSeq(Tail(s))
    <2> DEFINE t == Tail(s)
               S == Range(s)
    <2>1. t \in Seq(S)
      BY <1>2
    <2> HIDE DEF t, S
    <2>2. IsSeq(t)
      BY <2>1, RangeSeq
    <2> QED
      BY <2>2 DEF t
  <1> QED
    BY <1>1, <1>2, <1>3

-----------------------------------------------------------------------------
(* Folds over a sequence.                                                   *)

LEMMA UpTo ==
    ASSUME NEW n \in Nat, NEW T, 0 \in T, \A k \in 1 .. n : k - 1 \in T => k \in T
    PROVE  n \in T
  <1> DEFINE Bad == {k \in 0 .. n : k \notin T}
  <1> SUFFICES ASSUME Bad # {} PROVE FALSE
    OBVIOUS
  <1>1. Bad \subseteq Nat /\ Bad # {}
    OBVIOUS
  <1>2. PICK k \in Bad : \A m \in Bad : k <= m
    <2> HIDE DEF Bad
    <2> QED
      BY <1>1, SmallestNumber
  <1>3. k \in 1 .. n /\ k - 1 \in 0 .. n /\ ~(k <= k - 1)
    OBVIOUS
  <1>4. k - 1 \in T
    BY <1>2, <1>3
  <1> QED
    BY <1>3, <1>4

LEMMA Initials ==
    ASSUME NEW n \in Nat, NEW k \in 1 .. n
    PROVE  /\ 1 .. k \in SUBSET (1 .. n) /\ 1 .. k # {} /\ (1 .. k) \ {k} = 1 .. (k - 1)
           /\ k - 1 \in 0 .. n /\ k \in 0 .. n
  <1>1. k \in Nat /\ k >= 1 /\ k <= n /\ k - 1 \in Nat /\ k - 1 <= n
    OBVIOUS
  <1>2. k \in 1 .. k
    BY <1>1
  <1>3. (1 .. k) \ {k} = 1 .. (k - 1)
    BY <1>1
  <1>4. 1 .. k \in SUBSET (1 .. n)
    BY <1>1
  <1> QED
    BY <1>1, <1>2, <1>3, <1>4

LEMMA MaxOfInitial ==
    ASSUME NEW n \in Nat, NEW A \in SUBSET (1 .. n), n \in A
    PROVE  Max(A) = n
  <1>1. n \in A /\ \A y \in A : y \in Nat /\ n >= y
    OBVIOUS
  <1>2. Max(A) \in A /\ \A y \in A : Max(A) >= y
    BY <1>1 DEF Max
  <1> DEFINE m == Max(A)
  <1> HIDE DEF m
  <1>3. m \in Nat /\ m >= n /\ n >= m
    BY <1>1, <1>2 DEF m
  <1>4. m = n
    BY <1>3
  <1> QED
    BY <1>4 DEF m

\* v has the intermediate results of the turns of Without.
LEMMA WithoutRun ==
    ASSUME NEW s, IsSeq(s), NEW X
    PROVE  \E v : /\ v[0] = << >> /\ v[Len(s)] = Without(s, X)
                  /\ \A k \in 1 .. Len(s) : v[k] = IF s[k] \in X THEN v[k - 1] ELSE Append(v[k - 1], s[k])
  <1> DEFINE B == << >>
             Op(a, x) == IF x \in X THEN a ELSE Append(a, x)
             Turn(g, A) == IF A = {} THEN B ELSE Op(g[A \ {Max(A)}], s[Max(A)])
             IsRun(g, n) == g = [A \in SUBSET (1 .. n) |-> Turn(g, A)]
             Bad == {n \in Nat : ~ \E g : IsRun(g, n)}
  <1>1. Bad = {}
    <2> SUFFICES ASSUME Bad # {} PROVE FALSE
      OBVIOUS
    <2>1. PICK n \in Bad : \A m \in Bad : n <= m
      <3>1. Bad \subseteq Nat /\ Bad # {}
        OBVIOUS
      <3> HIDE DEF Bad
      <3> QED
        BY <3>1, SmallestNumber
    <2>2. n \in Nat /\ ~ \E g : IsRun(g, n)
      OBVIOUS
    <2>3. CASE n = 0
      <3> DEFINE g == [A \in SUBSET (1 .. n) |-> B]
      <3>1. \A A \in SUBSET (1 .. n) : A = {}
        BY <2>3
      <3>2. IsRun(g, n)
        BY <3>1
      <3> QED
        BY <2>2, <3>2
    <2>4. CASE n # 0
      <3> DEFINE m == n - 1
      <3>1. m \in Nat /\ m < n /\ n = m + 1
        BY <2>2, <2>4
      <3> HIDE DEF m, B, Op, IsRun
      <3>2. m \notin Bad
        <4> HIDE DEF Bad
        <4> QED
          BY <2>1, <2>2, <3>1
      <3>3. \E g : IsRun(g, m)
        BY <3>1, <3>2
      <3>4. PICK g : IsRun(g, m)
        BY <3>3
      <3> HIDE DEF Bad
      <3> USE DEF IsRun
      <3> DEFINE h == [A \in SUBSET (1 .. n) |->
                         IF n \in A THEN Op(g[A \ {n}], s[n]) ELSE g[A]]
      <3>5. ASSUME NEW A \in SUBSET (1 .. n)
            PROVE  h[A] = Turn(h, A)
        <4>1. CASE n \in A
          <5>1. Max(A) = n /\ A # {} /\ A \ {n} \in SUBSET (1 .. n) /\ n \notin A \ {n}
            BY <2>2, <4>1, MaxOfInitial
          <5>2. h[A \ {n}] = g[A \ {n}] /\ h[A] = Op(g[A \ {n}], s[n])
            BY <4>1, <5>1
          <5> QED
            BY <5>1, <5>2
        <4>2. CASE n \notin A
          <5>1. A \in SUBSET (1 .. m) /\ h[A] = g[A]
            BY <3>1, <4>2
          <5>2. h[A \ {Max(A)}] = g[A \ {Max(A)}]
            BY <4>2
          <5>3. g[A] = Turn(g, A)
            BY <3>4, <5>1
          <5> QED
            BY <5>1, <5>2, <5>3
        <4> QED
          BY <4>1, <4>2
      <3>6. IsRun(h, n)
        <4> HIDE DEF Turn
        <4> QED
          BY <3>5
      <3> QED
        BY <2>2, <3>6
    <2> QED
      BY <2>3, <2>4
  <1> DEFINE N == Len(s)
  <1>2. N \in Nat /\ DOMAIN s = 1 .. N
    BY SeqFacts
  <1>3. \E g : IsRun(g, N)
    BY <1>1, <1>2
  <1>4. PICK g : IsRun(g, N) /\ Without(s, X) = g[1 .. N]
    BY <1>2, <1>3 DEF Without, FoldLeft, MapThenFoldSet
  <1> HIDE DEF N, B, Op, Bad
  <1> DEFINE v == [k \in 0 .. N |-> g[1 .. k]]
  <1>5. v[0] = B
    BY <1>2, <1>4
  <1>6. ASSUME NEW k \in 1 .. N PROVE v[k] = Op(v[k - 1], s[k])
    <2>1. 1 .. k \in SUBSET (1 .. N) /\ 1 .. k # {} /\ (1 .. k) \ {k} = 1 .. (k - 1)
          /\ k - 1 \in 0 .. N /\ k \in 0 .. N
      BY <1>2, Initials
    <2>2. Max(1 .. k) = k
      BY <1>2, MaxOfInitial
    <2>3. g[1 .. k] = Turn(g, 1 .. k)
      BY <1>4, <2>1
    <2> QED
      BY <2>1, <2>2, <2>3
  <1>7. v[N] = Without(s, X)
    <2>1. N \in 0 .. N
      BY <1>2
    <2>2. v[N] = g[1 .. N]
      BY <2>1
    <2> HIDE DEF v
    <2> QED
      BY <1>4, <2>2
  <1> HIDE DEF v
  <1> QED
    BY <1>5, <1>6, <1>7 DEF N, B, Op

\* t is a sequence of elements of s.
From(t, s) == IsSeq(t) /\ \A i \in DOMAIN t : \E j \in DOMAIN s : t[i] = s[j]

LEMMA WithoutIs ==
    ASSUME NEW s, IsSeq(s), NEW X
    PROVE  /\ From(Without(s, X), s)
           /\ \A i \in DOMAIN Without(s, X) : Without(s, X)[i] \notin X
  <1> DEFINE N == Len(s)
             Good(t) == From(t, s) /\ \A i \in DOMAIN t : t[i] \notin X
  <1>1. PICK v : /\ v[0] = << >> /\ v[N] = Without(s, X)
                 /\ \A k \in 1 .. N :
                        v[k] = IF s[k] \in X THEN v[k - 1] ELSE Append(v[k - 1], s[k])
    BY WithoutRun
  <1>2. N \in Nat /\ DOMAIN s = 1 .. N
    BY SeqFacts
  <1>3. Good(v[0])
    BY <1>1, NoElements DEF From
  <1>4. ASSUME NEW k \in 1 .. N, Good(v[k - 1]) PROVE Good(v[k])
    <2> DEFINE a == v[k - 1]
               x == s[k]
    <2>1. k \in DOMAIN s
      BY <1>2
    <2>2. CASE x \in X
      BY <1>1, <1>4, <2>2
    <2>3. CASE x \notin X
      <3>1. v[k] = Append(a, x) /\ IsSeq(a)
        BY <1>1, <1>4, <2>3 DEF From
      <3> HIDE DEF a, x
      <3>2. /\ IsSeq(Append(a, x)) /\ DOMAIN Append(a, x) = DOMAIN a \cup {Len(a) + 1}
            /\ \A i \in DOMAIN a : Append(a, x)[i] = a[i]
            /\ Append(a, x)[Len(a) + 1] = x
        BY <3>1, AppendSeq
      <3>3. Good(Append(a, x))
        BY <1>4, <2>1, <2>3, <3>2 DEF From, a, x
      <3> QED
        BY <3>1, <3>3
    <2> QED
      BY <2>2, <2>3
  <1> DEFINE T == {k \in 0 .. N : Good(v[k])}
  <1> HIDE DEF N, Good
  <1>5. 0 \in T /\ \A k \in 1 .. N : k - 1 \in T => k \in T
    BY <1>2, <1>3, <1>4
  <1>6. N \in T
    <2> HIDE DEF T
    <2> QED
      BY <1>2, <1>5, UpTo
  <1> QED
    BY <1>1, <1>6 DEF Good

\* One turn of the fold of Released.
ReleaseTurn(acc, v) ==
    IF acc.left > 0 /\ v.type # "start" THEN [acc EXCEPT !.left = @ - 1]
    ELSE [acc EXCEPT !.kept = Append(@, v)]

\* The same of the fold that takes acknowledged packets off the list.
LEMMA ReleasedRun ==
    ASSUME NEW s, IsSeq(s), NEW n0
    PROVE  \E v : /\ v[0] = [kept |-> << >>, left |-> n0] /\ v[Len(s)] = Released(s, n0)
                  /\ \A k \in 1 .. Len(s) : v[k] = ReleaseTurn(v[k - 1], s[k])
  <1> DEFINE B == [kept |-> << >>, left |-> n0]
             Op(a, x) == ReleaseTurn(a, x)
             Turn(g, A) == IF A = {} THEN B ELSE Op(g[A \ {Max(A)}], s[Max(A)])
             IsRun(g, n) == g = [A \in SUBSET (1 .. n) |-> Turn(g, A)]
             Bad == {n \in Nat : ~ \E g : IsRun(g, n)}
  <1>1. Bad = {}
    <2> SUFFICES ASSUME Bad # {} PROVE FALSE
      OBVIOUS
    <2>1. PICK n \in Bad : \A m \in Bad : n <= m
      <3>1. Bad \subseteq Nat /\ Bad # {}
        OBVIOUS
      <3> HIDE DEF Bad
      <3> QED
        BY <3>1, SmallestNumber
    <2>2. n \in Nat /\ ~ \E g : IsRun(g, n)
      OBVIOUS
    <2>3. CASE n = 0
      <3> DEFINE g == [A \in SUBSET (1 .. n) |-> B]
      <3>1. \A A \in SUBSET (1 .. n) : A = {}
        BY <2>3
      <3>2. IsRun(g, n)
        BY <3>1
      <3> QED
        BY <2>2, <3>2
    <2>4. CASE n # 0
      <3> DEFINE m == n - 1
      <3>1. m \in Nat /\ m < n /\ n = m + 1
        BY <2>2, <2>4
      <3> HIDE DEF m, B, Op, IsRun
      <3>2. m \notin Bad
        <4> HIDE DEF Bad
        <4> QED
          BY <2>1, <2>2, <3>1
      <3>3. \E g : IsRun(g, m)
        BY <3>1, <3>2
      <3>4. PICK g : IsRun(g, m)
        BY <3>3
      <3> HIDE DEF Bad
      <3> USE DEF IsRun
      <3> DEFINE h == [A \in SUBSET (1 .. n) |->
                         IF n \in A THEN Op(g[A \ {n}], s[n]) ELSE g[A]]
      <3>5. ASSUME NEW A \in SUBSET (1 .. n)
            PROVE  h[A] = Turn(h, A)
        <4>1. CASE n \in A
          <5>1. Max(A) = n /\ A # {} /\ A \ {n} \in SUBSET (1 .. n) /\ n \notin A \ {n}
            BY <2>2, <4>1, MaxOfInitial
          <5>2. h[A \ {n}] = g[A \ {n}] /\ h[A] = Op(g[A \ {n}], s[n])
            BY <4>1, <5>1
          <5> QED
            BY <5>1, <5>2
        <4>2. CASE n \notin A
          <5>1. A \in SUBSET (1 .. m) /\ h[A] = g[A]
            BY <3>1, <4>2
          <5>2. h[A \ {Max(A)}] = g[A \ {Max(A)}]
            BY <4>2
          <5>3. g[A] = Turn(g, A)
            BY <3>4, <5>1
          <5> QED
            BY <5>1, <5>2, <5>3
        <4> QED
          BY <4>1, <4>2
      <3>6. IsRun(h, n)
        <4> HIDE DEF Turn
        <4> QED
          BY <3>5
      <3> QED
        BY <2>2, <3>6
    <2> QED
      BY <2>3, <2>4
  <1> DEFINE N == Len(s)
  <1>2. N \in Nat /\ DOMAIN s = 1 .. N
    BY SeqFacts
  <1>3. \E g : IsRun(g, N)
    BY <1>1, <1>2
  <1>4. PICK g : IsRun(g, N) /\ Released(s, n0) = g[1 .. N]
    BY <1>2, <1>3, ZenonT(60) DEF Released, ReleaseTurn, FoldLeft, MapThenFoldSet
  <1> HIDE DEF N, B, Op, Bad
  <1> DEFINE v == [k \in 0 .. N |-> g[1 .. k]]
  <1>5. v[0] = B
    BY <1>2, <1>4
  <1>6. ASSUME NEW k \in 1 .. N PROVE v[k] = Op(v[k - 1], s[k])
    <2>1. 1 .. k \in SUBSET (1 .. N) /\ 1 .. k # {} /\ (1 .. k) \ {k} = 1 .. (k - 1)
          /\ k - 1 \in 0 .. N /\ k \in 0 .. N
      BY <1>2, Initials
    <2>2. Max(1 .. k) = k
      BY <1>2, MaxOfInitial
    <2>3. g[1 .. k] = Turn(g, 1 .. k)
      BY <1>4, <2>1
    <2> QED
      BY <2>1, <2>2, <2>3
  <1>7. v[N] = Released(s, n0)
    <2>1. N \in 0 .. N
      BY <1>2
    <2>2. v[N] = g[1 .. N]
      BY <2>1
    <2> HIDE DEF v
    <2> QED
      BY <1>4, <2>2
  <1> HIDE DEF v
  <1> QED
    BY <1>5, <1>6, <1>7 DEF N, B, Op

LEMMA ReleasedIs ==
    ASSUME NEW s, IsSeq(s), NEW n
    PROVE  From(Released(s, n).kept, s)
  <1> DEFINE N == Len(s)
             Good(a) == DOMAIN a = {"kept", "left"} /\ From(a.kept, s)
  <1>1. PICK v : /\ v[0] = [kept |-> << >>, left |-> n] /\ v[N] = Released(s, n)
                 /\ \A k \in 1 .. N :
                      v[k] = ReleaseTurn(v[k - 1], s[k])
    BY ReleasedRun
  <1>2. N \in Nat /\ DOMAIN s = 1 .. N
    BY SeqFacts
  <1>3. Good(v[0])
    BY <1>1, NoElements DEF From
  <1>4. ASSUME NEW k \in 1 .. N, Good(v[k - 1]) PROVE Good(v[k])
    <2> DEFINE a == v[k - 1]
               x == s[k]
               q == a.kept
    <2>1. k \in DOMAIN s
      BY <1>2
    <2>2. v[k] = [a EXCEPT !.left = @ - 1] \/ v[k] = [a EXCEPT !.kept = Append(q, x)]
      BY <1>1 DEF ReleaseTurn
    <2>3. CASE v[k] = [a EXCEPT !.left = @ - 1]
      BY <1>4, <2>3
    <2>4. CASE v[k] = [a EXCEPT !.kept = Append(q, x)]
      <3>1. DOMAIN v[k] = {"kept", "left"} /\ v[k].kept = Append(q, x) /\ From(q, s)
        BY <1>4, <2>4
      <3> HIDE DEF q, x
      <3>2. /\ IsSeq(Append(q, x)) /\ DOMAIN Append(q, x) = DOMAIN q \cup {Len(q) + 1}
            /\ \A i \in DOMAIN q : Append(q, x)[i] = q[i]
            /\ Append(q, x)[Len(q) + 1] = x
        BY <3>1, AppendSeq DEF From
      <3>3. From(Append(q, x), s)
        BY <2>1, <3>1, <3>2 DEF From, x
      <3> QED
        BY <3>1, <3>3
    <2> QED
      BY <2>2, <2>3, <2>4
  <1> DEFINE T == {k \in 0 .. N : Good(v[k])}
  <1> HIDE DEF N, Good
  <1>5. 0 \in T /\ \A k \in 1 .. N : k - 1 \in T => k \in T
    BY <1>2, <1>3, <1>4
  <1>6. N \in T
    <2> HIDE DEF T
    <2> QED
      BY <1>2, <1>5, UpTo
  <1> QED
    BY <1>1, <1>6 DEF Good

\* The same of the loop of send_lost_data.
LEMMA LostPacketsRun ==
    ASSUME NEW s, IsSeq(s), NEW r, NEW last
    PROVE  \E v : /\ v[0] = [r |-> r, kept |-> << >>, finSent |-> FALSE, id |-> last,
                               firstIsBigger |-> s # << >> /\ Head(s).id > last] /\ v[Len(s)] = LostPackets(r, s, last)
                  /\ \A k \in 1 .. Len(s) : v[k] = LostPacket(v[k - 1], s[k], last)
  <1> DEFINE B == [r |-> r, kept |-> << >>, finSent |-> FALSE, id |-> last,
                               firstIsBigger |-> s # << >> /\ Head(s).id > last]
             Op(a, x) == LostPacket(a, x, last)
             Turn(g, A) == IF A = {} THEN B ELSE Op(g[A \ {Max(A)}], s[Max(A)])
             IsRun(g, n) == g = [A \in SUBSET (1 .. n) |-> Turn(g, A)]
             Bad == {n \in Nat : ~ \E g : IsRun(g, n)}
  <1>1. Bad = {}
    <2> SUFFICES ASSUME Bad # {} PROVE FALSE
      OBVIOUS
    <2>1. PICK n \in Bad : \A m \in Bad : n <= m
      <3>1. Bad \subseteq Nat /\ Bad # {}
        OBVIOUS
      <3> HIDE DEF Bad
      <3> QED
        BY <3>1, SmallestNumber
    <2>2. n \in Nat /\ ~ \E g : IsRun(g, n)
      OBVIOUS
    <2>3. CASE n = 0
      <3> DEFINE g == [A \in SUBSET (1 .. n) |-> B]
      <3>1. \A A \in SUBSET (1 .. n) : A = {}
        BY <2>3
      <3>2. IsRun(g, n)
        BY <3>1
      <3> QED
        BY <2>2, <3>2
    <2>4. CASE n # 0
      <3> DEFINE m == n - 1
      <3>1. m \in Nat /\ m < n /\ n = m + 1
        BY <2>2, <2>4
      <3> HIDE DEF m, B, Op, IsRun
      <3>2. m \notin Bad
        <4> HIDE DEF Bad
        <4> QED
          BY <2>1, <2>2, <3>1
      <3>3. \E g : IsRun(g, m)
        BY <3>1, <3>2
      <3>4. PICK g : IsRun(g, m)
        BY <3>3
      <3> HIDE DEF Bad
      <3> USE DEF IsRun
      <3> DEFINE h == [A \in SUBSET (1 .. n) |->
                         IF n \in A THEN Op(g[A \ {n}], s[n]) ELSE g[A]]
      <3>5. ASSUME NEW A \in SUBSET (1 .. n)
            PROVE  h[A] = Turn(h, A)
        <4>1. CASE n \in A
          <5>1. Max(A) = n /\ A # {} /\ A \ {n} \in SUBSET (1 .. n) /\ n \notin A \ {n}
            BY <2>2, <4>1, MaxOfInitial
          <5>2. h[A \ {n}] = g[A \ {n}] /\ h[A] = Op(g[A \ {n}], s[n])
            BY <4>1, <5>1
          <5> QED
            BY <5>1, <5>2
        <4>2. CASE n \notin A
          <5>1. A \in SUBSET (1 .. m) /\ h[A] = g[A]
            BY <3>1, <4>2
          <5>2. h[A \ {Max(A)}] = g[A \ {Max(A)}]
            BY <4>2
          <5>3. g[A] = Turn(g, A)
            BY <3>4, <5>1
          <5> QED
            BY <5>1, <5>2, <5>3
        <4> QED
          BY <4>1, <4>2
      <3>6. IsRun(h, n)
        <4> HIDE DEF Turn
        <4> QED
          BY <3>5
      <3> QED
        BY <2>2, <3>6
    <2> QED
      BY <2>3, <2>4
  <1> DEFINE N == Len(s)
  <1>2. N \in Nat /\ DOMAIN s = 1 .. N
    BY SeqFacts
  <1>3. \E g : IsRun(g, N)
    BY <1>1, <1>2
  <1>4. PICK g : IsRun(g, N) /\ LostPackets(r, s, last) = g[1 .. N]
    BY <1>2, <1>3 DEF LostPackets, FoldLeft, MapThenFoldSet
  <1> HIDE DEF N, B, Op, Bad
  <1> DEFINE v == [k \in 0 .. N |-> g[1 .. k]]
  <1>5. v[0] = B
    BY <1>2, <1>4
  <1>6. ASSUME NEW k \in 1 .. N PROVE v[k] = Op(v[k - 1], s[k])
    <2>1. 1 .. k \in SUBSET (1 .. N) /\ 1 .. k # {} /\ (1 .. k) \ {k} = 1 .. (k - 1)
          /\ k - 1 \in 0 .. N /\ k \in 0 .. N
      BY <1>2, Initials
    <2>2. Max(1 .. k) = k
      BY <1>2, MaxOfInitial
    <2>3. g[1 .. k] = Turn(g, 1 .. k)
      BY <1>4, <2>1
    <2> QED
      BY <2>1, <2>2, <2>3
  <1>7. v[N] = LostPackets(r, s, last)
    BY <1>2, <1>4, SMTT(30)
  <1> HIDE DEF v
  <1> QED
    BY <1>5, <1>6, <1>7 DEF N, B, Op

\* The same of the loop that starts the queued sends.
LEMMA ProcessQueueRun ==
    ASSUME NEW r, IsSeq(r.queued)
    PROVE  \E v : /\ v[0] = [r EXCEPT !.queued = << >>] /\ v[Len(r.queued)] = ProcessQueue(r)
                  /\ \A k \in 1 .. Len(r.queued) : v[k] = Start(v[k - 1], r.queued[k].kind, r.queued[k].msg)
  <1> DEFINE B == [r EXCEPT !.queued = << >>]
             Op(a, x) == Start(a, x.kind, x.msg)
             Turn(g, A) == IF A = {} THEN B ELSE Op(g[A \ {Max(A)}], r.queued[Max(A)])
             IsRun(g, n) == g = [A \in SUBSET (1 .. n) |-> Turn(g, A)]
             Bad == {n \in Nat : ~ \E g : IsRun(g, n)}
  <1>1. Bad = {}
    <2> SUFFICES ASSUME Bad # {} PROVE FALSE
      OBVIOUS
    <2>1. PICK n \in Bad : \A m \in Bad : n <= m
      <3>1. Bad \subseteq Nat /\ Bad # {}
        OBVIOUS
      <3> HIDE DEF Bad
      <3> QED
        BY <3>1, SmallestNumber
    <2>2. n \in Nat /\ ~ \E g : IsRun(g, n)
      OBVIOUS
    <2>3. CASE n = 0
      <3> DEFINE g == [A \in SUBSET (1 .. n) |-> B]
      <3>1. \A A \in SUBSET (1 .. n) : A = {}
        BY <2>3
      <3>2. IsRun(g, n)
        BY <3>1
      <3> QED
        BY <2>2, <3>2
    <2>4. CASE n # 0
      <3> DEFINE m == n - 1
      <3>1. m \in Nat /\ m < n /\ n = m + 1
        BY <2>2, <2>4
      <3> HIDE DEF m, B, Op, IsRun
      <3>2. m \notin Bad
        <4> HIDE DEF Bad
        <4> QED
          BY <2>1, <2>2, <3>1
      <3>3. \E g : IsRun(g, m)
        BY <3>1, <3>2
      <3>4. PICK g : IsRun(g, m)
        BY <3>3
      <3> HIDE DEF Bad
      <3> USE DEF IsRun
      <3> DEFINE h == [A \in SUBSET (1 .. n) |->
                         IF n \in A THEN Op(g[A \ {n}], r.queued[n]) ELSE g[A]]
      <3>5. ASSUME NEW A \in SUBSET (1 .. n)
            PROVE  h[A] = Turn(h, A)
        <4>1. CASE n \in A
          <5>1. Max(A) = n /\ A # {} /\ A \ {n} \in SUBSET (1 .. n) /\ n \notin A \ {n}
            BY <2>2, <4>1, MaxOfInitial
          <5>2. h[A \ {n}] = g[A \ {n}] /\ h[A] = Op(g[A \ {n}], r.queued[n])
            BY <4>1, <5>1
          <5> QED
            BY <5>1, <5>2
        <4>2. CASE n \notin A
          <5>1. A \in SUBSET (1 .. m) /\ h[A] = g[A]
            BY <3>1, <4>2
          <5>2. h[A \ {Max(A)}] = g[A \ {Max(A)}]
            BY <4>2
          <5>3. g[A] = Turn(g, A)
            BY <3>4, <5>1
          <5> QED
            BY <5>1, <5>2, <5>3
        <4> QED
          BY <4>1, <4>2
      <3>6. IsRun(h, n)
        <4> HIDE DEF Turn
        <4> QED
          BY <3>5
      <3> QED
        BY <2>2, <3>6
    <2> QED
      BY <2>3, <2>4
  <1> DEFINE N == Len(r.queued)
  <1>2. N \in Nat /\ DOMAIN r.queued = 1 .. N
    BY SeqFacts
  <1>3. \E g : IsRun(g, N)
    BY <1>1, <1>2
  <1>4. PICK g : IsRun(g, N) /\ ProcessQueue(r) = g[1 .. N]
    BY <1>2, <1>3 DEF ProcessQueue, FoldLeft, MapThenFoldSet
  <1> HIDE DEF N, B, Op, Bad
  <1> DEFINE v == [k \in 0 .. N |-> g[1 .. k]]
  <1>5. v[0] = B
    BY <1>2, <1>4
  <1>6. ASSUME NEW k \in 1 .. N PROVE v[k] = Op(v[k - 1], r.queued[k])
    <2>1. 1 .. k \in SUBSET (1 .. N) /\ 1 .. k # {} /\ (1 .. k) \ {k} = 1 .. (k - 1)
          /\ k - 1 \in 0 .. N /\ k \in 0 .. N
      BY <1>2, Initials
    <2>2. Max(1 .. k) = k
      BY <1>2, MaxOfInitial
    <2>3. g[1 .. k] = Turn(g, 1 .. k)
      BY <1>4, <2>1
    <2> QED
      BY <2>1, <2>2, <2>3
  <1>7. v[N] = ProcessQueue(r)
    BY <1>2, <1>4
  <1> HIDE DEF v
  <1> QED
    BY <1>5, <1>6, <1>7 DEF N, B, Op

-----------------------------------------------------------------------------
(* The records of the two processes.                                        *)

RankFields == {"vi", "status", "tosend", "expected", "pending", "waiting",
    "recov", "rndv", "state", "cli", "srv", "cid", "fresh", "req", "phase",
    "bad", "replies", "halt", "todo", "issued", "queued", "sendDone", "got",
    "unexp", "read", "recvDone", "wire", "sent", "cq"}

\* A packet on the list of unacknowledged packets.
Listed(v) ==
    DOMAIN v = {"type", "id", "ack", "msg"} /\ v.type \in {"eager", "start", "retry"}

\* A sequence of such packets.
List(s) == IsSeq(s) /\ \A i \in DOMAIN s : Listed(s[i])

\* A completion queue.
Completions(q) ==
    IsSeq(q) /\ \A i \in DOMAIN q : q[i].what \in {"error", "send", "recv"}

Whole(r) ==
    /\ DOMAIN r = RankFields
    /\ IsSeq(r.wire) /\ Completions(r.cq) /\ IsSeq(r.queued) /\ List(r.waiting)

\* The packets of the reconnect that change the stage of a process.
Call == {"nfr_req", "nfr_rep"}
Calls(s, c) == {i \in DOMAIN s : s[i].type = c}
Heard(q, c) == {i \in DOMAIN q : q[i].what = "recv" /\ q[i].pkt.type = c}

\* Errors are those of the queue pair in use, which the network has failed.
ErrorsIn(r, b) ==
    \A i \in DOMAIN r.cq :
        r.cq[i].what = "error" => r.cq[i].qp = r.vi /\ r.vi \in b
ErrorsHere(r) == ErrorsIn(r, broken)

SameStage(r, t) ==
    /\ t.vi = r.vi /\ t.status = r.status /\ t.state = r.state /\ t.cli = r.cli
    /\ t.srv = r.srv /\ t.cid = r.cid /\ t.fresh = r.fresh /\ t.req = r.req
    /\ t.phase = r.phase /\ t.bad = r.bad /\ t.replies = r.replies

SameCalls(r, t) ==
    \A c \in Call : Calls(t.wire, c) = Calls(r.wire, c) /\ Heard(t.cq, c) = Heard(r.cq, c)

\* A step that leaves the reconnect alone, whatever it does to the packets, the
\* lists and the messages of the application.
Quiet(r, t) ==
    /\ Whole(t) /\ SameStage(r, t) /\ SameCalls(r, t)
    /\ t.halt \in {r.halt, "assert"}
    /\ ErrorsHere(r) => ErrorsHere(t)

LEMMA QuietSelf ==
    ASSUME NEW r, Whole(r)
    PROVE  Quiet(r, r)
  BY DEF Quiet, SameStage, SameCalls

LEMMA QuietTwice ==
    ASSUME NEW r, NEW s, NEW t, Quiet(r, s), Quiet(s, t)
    PROVE  Quiet(r, t)
  <1>1. Whole(t) /\ SameStage(r, t)
    BY DEF Quiet, SameStage
  <1>2. SameCalls(r, t)
    BY DEF Quiet, SameCalls
  <1> QED
    BY <1>1, <1>2 DEF Quiet

\* What a step on the data of a process leaves alone.
SameQueues(r, t) ==
    t.wire = r.wire /\ t.cq = r.cq /\ t.halt \in {r.halt, "assert"}

LEMMA QuietData ==
    ASSUME NEW r, Whole(r), NEW t, DOMAIN t = RankFields,
           SameStage(r, t), SameQueues(r, t), IsSeq(t.queued), List(t.waiting)
    PROVE  Quiet(r, t)
  BY DEF Quiet, SameQueues, SameCalls, Whole, ErrorsHere, ErrorsIn, SameStage

LEMMA CallsAppend ==
    ASSUME NEW s, IsSeq(s), NEW x, NEW c, x.type # c
    PROVE  Calls(Append(s, x), c) = Calls(s, c)
  BY AppendSeq DEF Calls

LEMMA CompletionsAppend ==
    ASSUME NEW q, Completions(q), NEW x, x.what \in {"error", "send", "recv"}
    PROVE  Completions(Append(q, x))
  BY AppendSeq DEF Completions

LEMMA HeardAppend ==
    ASSUME NEW s, IsSeq(s), NEW x, NEW c, x.what # "recv" \/ x.pkt.type # c
    PROVE  Heard(Append(s, x), c) = Heard(s, c)
  BY AppendSeq DEF Heard

-----------------------------------------------------------------------------
(* Posting a send.                                                          *)

LEMMA IbvPostSendQuiet ==
    ASSUME NEW r, Whole(r), NEW pkt, pkt.type \notin Call
    PROVE  Quiet(r, IbvPostSend(r, pkt))
  <1> DEFINE f == Failure(r)
             w == Append(r.wire, pkt)
             q == Append(r.cq, f)
  <1>1. f.what = "error" /\ f.qp = r.vi
    BY DEF Failure, Completion
  <1>2. IsSeq(w) /\ \A c \in Call : Calls(w, c) = Calls(r.wire, c)
    BY AppendSeq, CallsAppend DEF Whole
  <1>3. Completions(q) /\ \A c \in Call : Heard(q, c) = Heard(r.cq, c)
    <2> HIDE DEF f
    <2> QED
      BY <1>1, CompletionsAppend, HeardAppend DEF Whole, Completions
  <1>4. r.vi \in broken /\ ErrorsHere(r) => \A i \in DOMAIN q :
            q[i].what = "error" => q[i].qp = r.vi
    <2> HIDE DEF f
    <2> QED
      BY <1>1, AppendSeq DEF Whole, Completions, ErrorsHere, ErrorsIn
  <1>5. CASE r.vi \notin broken
    <2> DEFINE t == [r EXCEPT !.wire = w]
    <2>1. IbvPostSend(r, pkt) = t
      BY <1>5 DEF IbvPostSend
    <2> HIDE DEF w, q
    <2>2. /\ DOMAIN t = RankFields /\ SameStage(r, t) /\ t.wire = w /\ t.cq = r.cq
          /\ t.halt = r.halt /\ t.queued = r.queued /\ t.waiting = r.waiting
      BY DEF RankFields, SameStage, Whole
    <2> HIDE DEF t
    <2>3. Quiet(r, t)
      BY <1>2, <2>2 DEF Quiet, Whole, SameCalls, ErrorsHere, ErrorsIn, SameStage
    <2> QED
      BY <2>1, <2>3
  <1>6. CASE r.vi \in broken
    <2> DEFINE t == [r EXCEPT !.cq = q]
    <2>1. IbvPostSend(r, pkt) = t \/ IbvPostSend(r, pkt) = r
      BY <1>6 DEF IbvPostSend
    <2> HIDE DEF w, q
    <2>2. /\ DOMAIN t = RankFields /\ SameStage(r, t) /\ t.wire = r.wire /\ t.cq = q
          /\ t.halt = r.halt /\ t.queued = r.queued /\ t.waiting = r.waiting
      BY DEF RankFields, SameStage, Whole
    <2> HIDE DEF t
    <2>3. Quiet(r, t)
      BY <1>3, <1>4, <1>6, <2>2 DEF Quiet, Whole, SameCalls, ErrorsHere, ErrorsIn, SameStage
    <2> QED
      BY <2>1, <2>3, QuietSelf
  <1> QED
    BY <1>5, <1>6

LEMMA PacketIs ==
    ASSUME NEW type, NEW id, NEW ack, NEW msg
    PROVE  /\ Packet(type, id, ack, msg).type = type
           /\ DOMAIN Packet(type, id, ack, msg) = {"type", "id", "ack", "msg"}
  BY DEF Packet

LEMMA ListAppend ==
    ASSUME NEW s, List(s), NEW v, Listed(v)
    PROVE  List(Append(s, v))
  BY AppendSeq DEF List

LEMMA PostSendQuiet ==
    ASSUME NEW r, Whole(r), NEW type, type \notin Call, NEW msg
    PROVE  Quiet(r, PostSend(r, type, msg))
  <1> DEFINE pkt == Packet(type, r.tosend, r.pending, msg)
             kept == Packet(type, r.tosend, 0, msg)
             l == IF type \in Kept THEN Append(r.waiting, kept) ELSE r.waiting
             n == NextId(r.tosend)
             s == [r EXCEPT !.tosend = n, !.pending = 0, !.waiting = l]
  <1>1. PostSend(r, type, msg) = IbvPostSend(s, pkt)
    BY DEF PostSend
  <1>2. pkt.type = type
    BY PacketIs
  <1>3. List(l)
    <2>1. type \in Kept => Listed(kept)
      BY PacketIs DEF Listed, Kept
    <2> HIDE DEF kept
    <2> QED
      BY <2>1, ListAppend DEF Whole
  <1> HIDE DEF l, n, pkt
  <1>4. /\ DOMAIN s = RankFields /\ SameStage(r, s) /\ SameQueues(r, s)
        /\ s.queued = r.queued /\ s.waiting = l
    BY DEF RankFields, SameStage, SameQueues, Whole
  <1> HIDE DEF s
  <1>5. Quiet(r, s)
    BY <1>3, <1>4, QuietData DEF Whole
  <1>6. Quiet(s, IbvPostSend(s, pkt))
    BY <1>2, <1>5, IbvPostSendQuiet DEF Quiet
  <1> QED
    BY <1>1, <1>5, <1>6, QuietTwice

LEMMA SendAckQuiet ==
    ASSUME NEW r, Whole(r)
    PROVE  Quiet(r, SendAckIfNeeded(r))
  <1> DEFINE s == [r EXCEPT !.pending = 0]
             pkt == Packet("noop", 0, r.pending, 0)
  <1>1. SendAckIfNeeded(r) = r \/ SendAckIfNeeded(r) = IbvPostSend(s, pkt)
    BY DEF SendAckIfNeeded
  <1>2. pkt.type \notin Call
    BY PacketIs DEF Call
  <1>3. /\ DOMAIN s = RankFields /\ SameStage(r, s) /\ SameQueues(r, s)
        /\ s.queued = r.queued /\ s.waiting = r.waiting
    BY DEF RankFields, SameStage, SameQueues, Whole
  <1> HIDE DEF s, pkt
  <1>4. Quiet(r, s)
    BY <1>3, QuietData DEF Whole
  <1>5. Quiet(s, IbvPostSend(s, pkt))
    BY <1>2, <1>4, IbvPostSendQuiet DEF Quiet
  <1> QED
    BY <1>1, <1>4, <1>5, QuietSelf, QuietTwice

LEMMA SendFinQuiet ==
    ASSUME NEW r, Whole(r)
    PROVE  Quiet(r, SendReconnect(r, "nfr_fin"))
  <1> DEFINE pkt == Packet("nfr_fin", 0, 0, 0)
  <1>1. SendReconnect(r, "nfr_fin") = IbvPostSend(r, pkt)
    BY DEF SendReconnect
  <1>2. pkt.type \notin Call
    BY PacketIs DEF Call
  <1> HIDE DEF pkt
  <1> QED
    BY <1>1, <1>2, IbvPostSendQuiet

LEMMA RePostQuiet ==
    ASSUME NEW r, Whole(r), NEW v, Listed(v)
    PROVE  Quiet(r, RePost(r, v))
  <1> DEFINE s == [r EXCEPT !.pending = 0]
             pkt == [v EXCEPT !.ack = r.pending]
  <1>1. RePost(r, v) = IbvPostSend(s, pkt)
    BY DEF RePost
  <1>2. pkt.type \notin Call
    BY DEF Call, Listed
  <1>3. /\ DOMAIN s = RankFields /\ SameStage(r, s) /\ SameQueues(r, s)
        /\ s.queued = r.queued /\ s.waiting = r.waiting
    BY DEF RankFields, SameStage, SameQueues, Whole
  <1> HIDE DEF s, pkt
  <1>4. Quiet(r, s)
    BY <1>3, QuietData DEF Whole
  <1>5. Quiet(s, IbvPostSend(s, pkt))
    BY <1>2, <1>4, IbvPostSendQuiet DEF Quiet
  <1> QED
    BY <1>1, <1>4, <1>5, QuietTwice

LEMMA AbortQuiet ==
    ASSUME NEW r, Whole(r)
    PROVE  Quiet(r, Abort(r))
  <1> DEFINE s == Abort(r)
  <1>1. /\ DOMAIN s = RankFields /\ SameStage(r, s) /\ SameQueues(r, s)
        /\ s.queued = r.queued /\ s.waiting = r.waiting
    BY DEF RankFields, SameStage, SameQueues, Whole, Abort
  <1> HIDE DEF s
  <1>2. Quiet(r, s)
    BY <1>1, QuietData DEF Whole
  <1> QED
    BY <1>2 DEF s

-----------------------------------------------------------------------------
(* Acknowledgements and rendezvous.                                         *)

LEMMA ListFrom ==
    ASSUME NEW s, List(s), NEW t, From(t, s)
    PROVE  List(t)
  BY DEF List, From

LEMMA ReleaseQuiet ==
    ASSUME NEW r, Whole(r), NEW n
    PROVE  Quiet(r, Release(r, n))
  <1> DEFINE l == Released(r.waiting, n).kept
             s == [r EXCEPT !.waiting = l]
  <1>1. Release(r, n) \in {r, Abort(r), s}
    BY DEF Release
  <1>2. List(l)
    <2>1. From(l, r.waiting)
      BY ReleasedIs DEF Whole, List
    <2> HIDE DEF l
    <2> QED
      BY <2>1, ListFrom DEF Whole
  <1> HIDE DEF l
  <1>3. /\ DOMAIN s = RankFields /\ SameStage(r, s) /\ SameQueues(r, s)
        /\ s.queued = r.queued /\ s.waiting = l
    BY DEF RankFields, SameStage, SameQueues, Whole
  <1> HIDE DEF s
  <1>4. Quiet(r, s)
    BY <1>2, <1>3, QuietData DEF Whole
  <1> QED
    BY <1>1, <1>4, QuietSelf, AbortQuiet

LEMMA FinishSendQuiet ==
    ASSUME NEW r, Whole(r), NEW m
    PROVE  Quiet(r, FinishSend(r, m))
  <1> DEFINE X == {v \in Range(r.waiting) : v.msg = m}
             l == Without(r.waiting, X)
             d == r.sendDone \cup {m}
             s == [r EXCEPT !.waiting = l, !.sendDone = d]
  <1>1. FinishSend(r, m) \in {Abort(r), s}
    BY DEF FinishSend
  <1>2. List(l)
    <2> HIDE DEF X
    <2>1. From(l, r.waiting)
      BY WithoutIs DEF Whole, List
    <2> HIDE DEF l
    <2> QED
      BY <2>1, ListFrom DEF Whole
  <1> HIDE DEF l, d
  <1>3. /\ DOMAIN s = RankFields /\ SameStage(r, s) /\ SameQueues(r, s)
        /\ s.queued = r.queued /\ s.waiting = l
    BY DEF RankFields, SameStage, SameQueues, Whole
  <1> HIDE DEF s
  <1>4. Quiet(r, s)
    BY <1>2, <1>3, QuietData DEF Whole
  <1> QED
    BY <1>1, <1>4, AbortQuiet

LEMMA HandlesQuiet ==
    ASSUME NEW r, Whole(r), NEW h, NEW d
    PROVE  /\ Quiet(r, [r EXCEPT !.rndv = h])
           /\ Quiet(r, [r EXCEPT !.rndv = h, !.recvDone = d])
           /\ Quiet(r, [r EXCEPT !.rndv = h, !.recvDone = d, !.recov = FALSE])
  <1> DEFINE s == [r EXCEPT !.rndv = h]
             t == [r EXCEPT !.rndv = h, !.recvDone = d]
             u == [r EXCEPT !.rndv = h, !.recvDone = d, !.recov = FALSE]
  <1>1. /\ DOMAIN s = RankFields /\ SameStage(r, s) /\ SameQueues(r, s)
        /\ s.queued = r.queued /\ s.waiting = r.waiting
    BY DEF RankFields, SameStage, SameQueues, Whole
  <1>2. /\ DOMAIN t = RankFields /\ SameStage(r, t) /\ SameQueues(r, t)
        /\ t.queued = r.queued /\ t.waiting = r.waiting
    BY DEF RankFields, SameStage, SameQueues, Whole
  <1>3. /\ DOMAIN u = RankFields /\ SameStage(r, u) /\ SameQueues(r, u)
        /\ u.queued = r.queued /\ u.waiting = r.waiting
    BY DEF RankFields, SameStage, SameQueues, Whole
  <1> HIDE DEF s, t, u
  <1>4. Quiet(r, s) /\ Quiet(r, t) /\ Quiet(r, u)
    BY <1>1, <1>2, <1>3, QuietData DEF Whole
  <1> QED
    BY <1>4 DEF s, t, u

LEMMA RecvRgetQuiet ==
    ASSUME NEW r, Whole(r), NEW m
    PROVE  Quiet(r, RecvRget(r, m))
  <1> DEFINE pkt == Packet("read", 0, 0, m)
  <1>1. RecvRget(r, m) = IbvPostSend(r, pkt)
    BY DEF RecvRget
  <1>2. pkt.type \notin Call
    BY PacketIs DEF Call
  <1> HIDE DEF pkt
  <1> QED
    BY <1>1, <1>2, IbvPostSendQuiet

LEMMA StartRgetQuiet ==
    ASSUME NEW r, Whole(r), NEW m, NEW id
    PROVE  Quiet(r, StartRget(r, m, id))
  <1> DEFINE h == Append(r.rndv, Handle(m, id))
             s == [r EXCEPT !.rndv = h]
  <1>1. StartRget(r, m, id) = RecvRget(s, m)
    BY SMTT(30) DEF StartRget
  <1> HIDE DEF h
  <1>2. Quiet(r, s)
    BY HandlesQuiet
  <1> HIDE DEF s
  <1>3. Quiet(s, RecvRget(s, m))
    BY <1>2, RecvRgetQuiet DEF Quiet
  <1> QED
    BY <1>1, <1>2, <1>3, QuietTwice

LEMMA RgetFinishQuiet ==
    ASSUME NEW r, Whole(r), NEW m
    PROVE  Quiet(r, RgetFinish(r, m))
  <1> DEFINE h == [i \in DOMAIN r.rndv |->
                     IF r.rndv[i].msg = m THEN [r.rndv[i] EXCEPT !.fin = TRUE]
                     ELSE r.rndv[i]]
             s == [r EXCEPT !.rndv = h]
  <1>1. RgetFinish(r, m) = PostSend(s, "finish", m)
    BY SMTT(30) DEF RgetFinish, SetHandle
  <1> HIDE DEF h
  <1>2. Quiet(r, s)
    BY HandlesQuiet
  <1> HIDE DEF s
  <1>3. Quiet(s, PostSend(s, "finish", m))
    BY <1>2, PostSendQuiet DEF Quiet, Call
  <1> QED
    BY <1>1, <1>2, <1>3, QuietTwice

LEMMA ProcessRetransmitQuiet ==
    ASSUME NEW r, Whole(r), NEW pkt
    PROVE  Quiet(r, ProcessRetransmit(r, pkt))
  <1> DEFINE m == pkt.msg
             h == [i \in DOMAIN r.rndv |->
                     IF r.rndv[i].msg = m THEN [r.rndv[i] EXCEPT !.retransmitted = TRUE]
                     ELSE r.rndv[i]]
             s == [r EXCEPT !.rndv = h]
  <1>1. ProcessRetransmit(r, pkt) \in {r, RecvRget(s, m), RgetFinish(s, m)}
    BY SMTT(30) DEF ProcessRetransmit, SetHandle
  <1> HIDE DEF h, m
  <1>2. Quiet(r, s)
    BY HandlesQuiet
  <1> HIDE DEF s
  <1>3. Quiet(s, RecvRget(s, m)) /\ Quiet(s, RgetFinish(s, m))
    BY <1>2, RecvRgetQuiet, RgetFinishQuiet DEF Quiet
  <1> QED
    BY <1>1, <1>2, <1>3, QuietSelf, QuietTwice

LEMMA IncomingFinQuiet ==
    ASSUME NEW r, Whole(r)
    PROVE  Quiet(r, IncomingFin(r))
  <1> DEFINE over == {i \in DOMAIN r.rndv : EndedAtPeer(r.rndv[i])}
             h == Without(r.rndv, {x \in Range(r.rndv) : EndedAtPeer(x)})
             d == r.recvDone \cup {r.rndv[i].msg : i \in over}
             s == [r EXCEPT !.rndv = h, !.recvDone = d, !.recov = FALSE]
  <1>1. IncomingFin(r) \in {Abort(r), s}
    BY SMTT(30) DEF IncomingFin
  <1> HIDE DEF h, d
  <1>2. Quiet(r, s)
    BY HandlesQuiet
  <1> HIDE DEF s
  <1> QED
    BY <1>1, <1>2, AbortQuiet

LEMMA ProcessSendQuiet ==
    ASSUME NEW r, Whole(r), NEW pkt
    PROVE  Quiet(r, ProcessSend(r, pkt))
  <1> DEFINE m == pkt.msg
             x == r.read \cup {m}
             s == [r EXCEPT !.read = x]
             h == Without(r.rndv, {y \in Range(r.rndv) : y.msg = m})
             d == r.recvDone \cup {m}
             t == [r EXCEPT !.rndv = h, !.recvDone = d]
  <1>1. ProcessSend(r, pkt) \in {r, Abort(r), RgetFinish(s, m), t}
    BY DEF ProcessSend, DropHandle
  <1> HIDE DEF h, d, x
  <1>2. /\ DOMAIN s = RankFields /\ SameStage(r, s) /\ SameQueues(r, s)
        /\ s.queued = r.queued /\ s.waiting = r.waiting
    BY SMTT(30) DEF RankFields, SameStage, SameQueues, Whole
  <1>3. Quiet(r, t)
    BY HandlesQuiet
  <1> HIDE DEF s, t, m
  <1>4. Quiet(r, s)
    BY <1>2, QuietData DEF Whole
  <1>5. Quiet(s, RgetFinish(s, m))
    BY <1>4, RgetFinishQuiet DEF Quiet
  <1> QED
    BY <1>1, <1>3, <1>4, <1>5, QuietSelf, QuietTwice, AbortQuiet

-----------------------------------------------------------------------------
(* Retransmission.                                                          *)

AccFields == {"r", "kept", "finSent", "id", "firstIsBigger"}

\* The loop of send_lost_data has done nothing to the reconnect so far.
LostSoFar(r, a) == DOMAIN a = AccFields /\ Quiet(r, a.r) /\ List(a.kept)

LEMMA LostPacketQuiet ==
    ASSUME NEW r, NEW a, LostSoFar(r, a), NEW v, Listed(v), NEW last
    PROVE  LostSoFar(r, LostPacket(a, v, last))
  <1> DEFINE bigger == a.firstIsBigger /\ v.id > last
             retry  == [v EXCEPT !.type = "retry"]
             k == Append(a.kept, retry)
             l == Append(a.kept, v)
             fin    == IF a.finSent THEN a.r ELSE SendReconnect(a.r, "nfr_fin")
             seen   == [a EXCEPT !.firstIsBigger = bigger, !.id = v.id]
             p == RePost(a.r, retry)
             q == IF v.id < a.r.tosend THEN RePost(fin, v) ELSE Abort(a.r)
             s == [seen EXCEPT !.r = p, !.kept = k]
             t == [seen EXCEPT !.r = q, !.kept = l, !.finSent = TRUE]
  <1>1. seen.r = a.r /\ seen.kept = a.kept /\ DOMAIN seen = AccFields
    BY DEF LostSoFar, AccFields
  <1>2. LostPacket(a, v, last) \in {seen, s, t}
    BY <1>1 DEF LostPacket
  <1>3. Whole(a.r) /\ Quiet(r, a.r) /\ List(a.kept)
    BY DEF LostSoFar, Quiet
  <1>4. Listed(retry)
    BY DEF Listed
  <1> HIDE DEF retry, seen
  <1>5. List(k) /\ List(l)
    BY <1>3, <1>4, ListAppend
  <1>6. Quiet(r, p)
    BY <1>3, <1>4, RePostQuiet, QuietTwice
  <1>7. Quiet(r, q)
    <2>1. Quiet(a.r, fin)
      BY <1>3, QuietSelf, SendFinQuiet
    <2> HIDE DEF fin
    <2>2. Quiet(fin, RePost(fin, v)) /\ Quiet(a.r, Abort(a.r))
      BY <1>3, <2>1, RePostQuiet, AbortQuiet DEF Quiet
    <2> QED
      BY <1>3, <2>1, <2>2, QuietTwice
  <1> HIDE DEF k, l, p, q
  <1>8. /\ DOMAIN s = AccFields /\ s.r = p /\ s.kept = k
        /\ DOMAIN t = AccFields /\ t.r = q /\ t.kept = l
    BY <1>1 DEF AccFields
  <1> HIDE DEF s, t
  <1> QED
    BY <1>1, <1>2, <1>3, <1>5, <1>6, <1>7, <1>8 DEF LostSoFar

LEMMA LostPacketsQuiet ==
    ASSUME NEW r, Whole(r), NEW w, List(w), NEW last
    PROVE  LostSoFar(r, LostPackets(r, w, last))
  <1> DEFINE N == Len(w)
             b == w # << >> /\ Head(w).id > last
             base == [r |-> r, kept |-> << >>, finSent |-> FALSE, id |-> last,
                      firstIsBigger |-> b]
  <1>1. PICK v : /\ v[0] = base /\ v[N] = LostPackets(r, w, last)
                 /\ \A k \in 1 .. N : v[k] = LostPacket(v[k - 1], w[k], last)
    BY LostPacketsRun DEF List
  <1>2. N \in Nat /\ DOMAIN w = 1 .. N
    BY SeqFacts DEF List
  <1>3. LostSoFar(r, v[0])
    <2>1. List(<< >>)
      BY NoElements DEF List
    <2> HIDE DEF b
    <2> QED
      BY <1>1, <2>1, QuietSelf DEF LostSoFar, AccFields
  <1>4. ASSUME NEW k \in 1 .. N, LostSoFar(r, v[k - 1]) PROVE LostSoFar(r, v[k])
    BY <1>1, <1>2, <1>4, LostPacketQuiet DEF List
  <1> DEFINE T == {k \in 0 .. N : LostSoFar(r, v[k])}
  <1> HIDE DEF N
  <1>5. 0 \in T /\ \A k \in 1 .. N : k - 1 \in T => k \in T
    BY <1>2, <1>3, <1>4
  <1>6. N \in T
    <2> HIDE DEF T
    <2> QED
      BY <1>2, <1>5, UpTo
  <1> QED
    BY <1>1, <1>6

LEMMA SendLostDataQuiet ==
    ASSUME NEW r, Whole(r), NEW last
    PROVE  Quiet(r, SendLostData(r, last))
  <1> DEFINE a == LostPackets(r, r.waiting, last)
             n == IF a.finSent /\ last # r.tosend THEN NextId(a.id) ELSE last
             o == a.r
             l == a.kept
             s == [o EXCEPT !.waiting = l, !.tosend = n]
  <1>1. SendLostData(r, last) \in {s, SendReconnect(s, "nfr_fin")}
    BY DEF SendLostData
  <1>2. Quiet(r, o) /\ List(l)
    BY LostPacketsQuiet DEF Whole, LostSoFar
  <1> HIDE DEF n, o, l
  <1>3. /\ DOMAIN s = RankFields /\ SameStage(o, s) /\ SameQueues(o, s)
        /\ s.queued = o.queued /\ s.waiting = l
    BY <1>2 DEF RankFields, SameStage, SameQueues, Quiet, Whole
  <1> HIDE DEF s
  <1>4. Quiet(o, s)
    BY <1>2, <1>3, QuietData DEF Quiet, Whole
  <1>5. Quiet(s, SendReconnect(s, "nfr_fin"))
    BY <1>4, SendFinQuiet DEF Quiet
  <1> QED
    BY <1>1, <1>2, <1>4, <1>5, QuietTwice

-----------------------------------------------------------------------------
(* The application and the packets that are no calls.                       *)

LEMMA StartQuiet ==
    ASSUME NEW r, Whole(r), NEW kind, NEW m
    PROVE  Quiet(r, Start(r, kind, m))
  <1> DEFINE type == IF kind = "eager" THEN "eager" ELSE "start"
  <1>1. Start(r, kind, m) = PostSend(r, type, m)
    BY DEF Start
  <1>2. type \notin Call
    BY DEF Call
  <1> HIDE DEF type
  <1> QED
    BY <1>1, <1>2, PostSendQuiet

LEMMA ProcessQueueQuiet ==
    ASSUME NEW r, Whole(r)
    PROVE  Quiet(r, ProcessQueue(r))
  <1> DEFINE q == r.queued
             N == Len(q)
             e == << >>
             base == [r EXCEPT !.queued = e]
  <1>1. PICK v : /\ v[0] = base /\ v[N] = ProcessQueue(r)
                 /\ \A k \in 1 .. N : v[k] = Start(v[k - 1], q[k].kind, q[k].msg)
    BY ProcessQueueRun DEF Whole
  <1>2. N \in Nat
    BY SeqFacts DEF Whole
  <1>3. Quiet(r, v[0])
    <2>1. IsSeq(e)
      BY NoElements
    <2> HIDE DEF e
    <2>2. /\ DOMAIN base = RankFields /\ SameStage(r, base) /\ SameQueues(r, base)
          /\ base.queued = e /\ base.waiting = r.waiting
      BY DEF RankFields, SameStage, SameQueues, Whole
    <2> HIDE DEF base
    <2>3. Quiet(r, base)
      BY <2>1, <2>2, QuietData DEF Whole
    <2> QED
      BY <1>1, <2>3
  <1>4. ASSUME NEW k \in 1 .. N, Quiet(r, v[k - 1]) PROVE Quiet(r, v[k])
    <2> DEFINE a == v[k - 1]
               x == q[k].kind
               m == q[k].msg
    <2>1. v[k] = Start(a, x, m)
      BY <1>1
    <2> HIDE DEF x, m, q
    <2>2. Quiet(a, Start(a, x, m))
      BY <1>4, StartQuiet DEF Quiet
    <2> HIDE DEF a
    <2> QED
      BY <1>4, <2>1, <2>2, QuietTwice DEF a
  <1> DEFINE T == {k \in 0 .. N : Quiet(r, v[k])}
  <1> HIDE DEF N
  <1>5. 0 \in T /\ \A k \in 1 .. N : k - 1 \in T => k \in T
    BY <1>2, <1>3, <1>4
  <1>6. N \in T
    <2> HIDE DEF T
    <2> QED
      BY <1>2, <1>5, UpTo
  <1> QED
    BY <1>1, <1>6

LEMMA CountedQuiet ==
    ASSUME NEW r, Whole(r)
    PROVE  Quiet(r, Counted(r))
  <1> DEFINE n == NextId(r.expected)
             s == [r EXCEPT !.recov = FALSE, !.expected = n]
  <1>1. Counted(r) = s
    BY DEF Counted
  <1> HIDE DEF n
  <1>2. /\ DOMAIN s = RankFields /\ SameStage(r, s) /\ SameQueues(r, s)
        /\ s.queued = r.queued /\ s.waiting = r.waiting
    BY DEF RankFields, SameStage, SameQueues, Whole
  <1> HIDE DEF s
  <1> QED
    BY <1>1, <1>2, QuietData DEF Whole

LEMMA DispatchQuiet ==
    ASSUME NEW r, Whole(r), NEW pkt, NEW expect \in BOOLEAN
    PROVE  Quiet(r, Dispatch(r, pkt, expect))
  <1> DEFINE next == Counted(r)
             m == pkt.msg
             n == next.pending + 1
             g == Append(next.got, m)
             u == Append(next.unexp, pkt)
             s == [next EXCEPT !.pending = n, !.got = g]
             t == [next EXCEPT !.got = g]
             o == [next EXCEPT !.got = g, !.unexp = u]
  <1>1. Dispatch(r, pkt, expect)
            \in {s, StartRget(t, m, pkt.id), o, FinishSend(next, m), Abort(r)}
    BY DEF Dispatch
  <1>2. Quiet(r, next)
    BY CountedQuiet
  <1> HIDE DEF next, m, n, g, u
  <1>3. /\ DOMAIN s = RankFields /\ SameStage(next, s) /\ SameQueues(next, s)
        /\ s.queued = next.queued /\ s.waiting = next.waiting
    BY <1>2 DEF RankFields, SameStage, SameQueues, Quiet, Whole
  <1>4. /\ DOMAIN t = RankFields /\ SameStage(next, t) /\ SameQueues(next, t)
        /\ t.queued = next.queued /\ t.waiting = next.waiting
    BY <1>2 DEF RankFields, SameStage, SameQueues, Quiet, Whole
  <1>5. /\ DOMAIN o = RankFields /\ SameStage(next, o) /\ SameQueues(next, o)
        /\ o.queued = next.queued /\ o.waiting = next.waiting
    BY <1>2 DEF RankFields, SameStage, SameQueues, Quiet, Whole
  <1> HIDE DEF s, t, o
  <1>6. Quiet(next, s) /\ Quiet(next, t) /\ Quiet(next, o)
    BY <1>2, <1>3, <1>4, <1>5, QuietData DEF Quiet, Whole
  <1>7. Quiet(t, StartRget(t, m, pkt.id)) /\ Quiet(next, FinishSend(next, m))
    BY <1>2, <1>6, StartRgetQuiet, FinishSendQuiet DEF Quiet
  <1>8. Quiet(r, t)
    BY <1>2, <1>6, QuietTwice
  <1> QED
    BY <1>1, <1>2, <1>6, <1>7, <1>8, QuietTwice, AbortQuiet

LEMMA ProcessRecvQuiet ==
    ASSUME NEW r, Whole(r), NEW pkt, pkt.type \notin Call, NEW expect \in BOOLEAN
    PROVE  Quiet(r, ProcessRecv(r, pkt, expect))
  <1> DEFINE Acked(s) == IF s.halt # "no" THEN s
                         ELSE SendAckIfNeeded(Release(s, pkt.ack))
             d == Dispatch(r, pkt, expect)
  <1>1. ASSUME NEW s, Whole(s) PROVE Quiet(s, Acked(s))
    <2> DEFINE o == Release(s, pkt.ack)
    <2>1. Quiet(s, o)
      BY <1>1, ReleaseQuiet
    <2> HIDE DEF o
    <2>2. Quiet(o, SendAckIfNeeded(o))
      BY <2>1, SendAckQuiet DEF Quiet
    <2>3. Quiet(s, SendAckIfNeeded(o))
      BY <2>1, <2>2, QuietTwice
    <2> QED
      BY <1>1, <2>3, QuietSelf DEF o
  <1>2. ProcessRecv(r, pkt, expect)
            \in {IncomingFin(r), Acked(r), Acked(d), ProcessRetransmit(r, pkt), Abort(r)}
    BY DEF ProcessRecv, Call
  <1>3. Quiet(r, d)
    BY DispatchQuiet
  <1> HIDE DEF Acked, d
  <1>4. Quiet(r, Acked(d))
    BY <1>1, <1>3, QuietTwice DEF Quiet
  <1> QED
    BY <1>1, <1>2, <1>4, IncomingFinQuiet, ProcessRetransmitQuiet, AbortQuiet

-----------------------------------------------------------------------------
(* The stages of the two ends of a reconnect.                               *)

\* Nothing is wrong, as far as this end knows.
Up(r) ==
    /\ r.state = "pt2pt" /\ r.status = "up" /\ r.cli = "idle" /\ r.srv = "idle"
    /\ r.cid = r.vi /\ ~r.fresh

\* It has seen the fault and asks for a new connection.
Client(r) ==
    /\ r.state = "none" /\ r.status = "down" /\ r.cli = "requesting" /\ r.srv = "idle"
    /\ r.cid = r.vi + 1 /\ ~r.fresh /\ r.phase = "pool"

\* It serves the request of the other side, and may have seen the fault.
Server(r) ==
    /\ r.state = "none" /\ r.status \in {"up", "down"} /\ r.cli = "idle"
    /\ r.srv = "requested" /\ r.cid = r.vi + 1 /\ ~r.fresh

\* The client has its new queue pair.
OnNewQp(r) ==
    /\ r.state = "none" /\ r.cli = "idle" /\ r.srv = "idle" /\ r.cid = r.vi /\ ~r.req

\* The main thread has not seen it, has seen it, or has sent nfr_req over it.
Fresh(r) == OnNewQp(r) /\ r.status = "rec" /\ r.fresh /\ r.phase = "pool"
Seen(r)  == OnNewQp(r) /\ r.status = "rec_d" /\ ~r.fresh /\ r.phase = "pool"
Asked(r) == OnNewQp(r) /\ r.status = "up" /\ ~r.fresh /\ r.phase = "wait" /\ r.replies = 1

\* No call is on its way from r to p, or one call c at most.
NoneOf(r, p, c) == Calls(r.wire, c) = {} /\ Heard(p.cq, c) = {}
NoCall(r, p) == \A c \in Call : NoneOf(r, p, c)
OneOf(r, p, c) ==
    \/ Heard(p.cq, c) = {} /\ \E i : Calls(r.wire, c) \subseteq {i}
    \/ Calls(r.wire, c) = {} /\ \E i : Heard(p.cq, c) \subseteq {i}
OneCall(r, p, c) == OneOf(r, p, c) /\ \A d \in Call \ {c} : NoneOf(r, p, d)

\* What end e, with the record r, and the other, with p, have come to.
Calm(r, p) ==
    Up(r) /\ Up(p) /\ r.cid = p.cid /\ ~r.req /\ ~p.req /\ NoCall(r, p) /\ NoCall(p, r)
Asking(r, p) ==
    Client(r) /\ Up(p) /\ r.vi = p.vi /\ ~p.req /\ NoCall(r, p) /\ NoCall(p, r)
Crossing(r, p) ==
    Client(r) /\ Client(p) /\ r.cid = p.cid /\ NoCall(r, p) /\ NoCall(p, r)
Serving(e, r, p) ==
    /\ Client(r) /\ Server(p) /\ r.cid = p.cid /\ NoCall(r, p) /\ NoCall(p, r)
    /\ p.req => e < Peer(e)
Waiting(r, p) ==
    /\ Fresh(r) \/ Seen(r)
    /\ Server(p) /\ r.cid = p.cid /\ ~p.req /\ NoCall(r, p) /\ NoCall(p, r)
Requesting(r, p) ==
    /\ Asked(r) /\ Server(p) /\ r.cid = p.cid /\ ~p.req
    /\ OneCall(r, p, "nfr_req") /\ NoCall(p, r)
Replying(r, p) ==
    /\ Asked(r) /\ Up(p) /\ r.cid = p.cid /\ ~p.req
    /\ NoCall(r, p) /\ OneCall(p, r, "nfr_rep")

Pair(e, r, p) ==
    \/ Calm(r, p) \/ Asking(r, p) \/ Crossing(r, p) \/ Serving(e, r, p)
    \/ Waiting(r, p) \/ Requesting(r, p) \/ Replying(r, p)
Linked(e, r, p) == Pair(e, r, p) \/ Pair(Peer(e), p, r)

\* What holds at either end, where b are the broken queue pairs.
Counts(r) ==
    /\ r.bad = (IF r.status \in {"down", "rec"} THEN 1 ELSE 0)
    /\ r.phase # "pool" => r.bad = 0
EndOk(r, b) ==
    /\ r.vi \in Nat /\ r.halt # "lock" /\ ErrorsIn(r, b) /\ Counts(r)
    /\ Fresh(r) \/ Seen(r) \/ Asked(r) => r.vi \notin b
    /\ \A g \in b : g \in Nat /\ g <= r.vi

Sound(k, b) ==
    /\ k = [e \in End |-> k[e]]
    /\ \A e \in End : Whole(k[e]) /\ EndOk(k[e], b)
    /\ \A e \in End : Linked(e, k[e], k[Peer(e)])

IInv == Sound(rank, broken)

LEMMA Peers == \A e \in End : Peer(e) \in End /\ Peer(e) # e /\ Peer(Peer(e)) = e
               /\ \A f \in End : f = e \/ f = Peer(e)
  BY DEF End, Peer

LEMMA LinkedBack ==
    ASSUME NEW e \in End, NEW r, NEW p, Linked(e, r, p)
    PROVE  Linked(Peer(e), p, r)
  BY Peers DEF Linked

LEMMA SoundAgain ==
    ASSUME NEW e \in End, NEW k, k = [d \in End |-> k[d]], NEW b,
           NEW t, k[e] = t, Whole(t), EndOk(t, b),
           NEW q, k[Peer(e)] = q, Whole(q), EndOk(q, b), Linked(e, t, q)
    PROVE  Sound(k, b)
  <1>1. ASSUME NEW d \in End PROVE Whole(k[d]) /\ EndOk(k[d], b)
    BY Peers
  <1>2. ASSUME NEW d \in End PROVE Linked(d, k[d], k[Peer(d)])
    <2>1. CASE d = e
      BY <2>1
    <2>2. CASE d = Peer(e)
      BY <2>2, LinkedBack, Peers
    <2> QED
      BY <2>1, <2>2, Peers
  <1> QED
    BY <1>1, <1>2 DEF Sound

\* A stage is a matter of the fields that quiet steps do not touch.
LEMMA StagesSame ==
    ASSUME NEW r, NEW t, SameStage(r, t)
    PROVE  /\ Up(r) => Up(t)
           /\ Client(r) => Client(t)
           /\ Server(r) => Server(t)
           /\ Fresh(r) <=> Fresh(t)
           /\ Seen(r) <=> Seen(t)
           /\ Asked(r) <=> Asked(t)
           /\ Counts(r) => Counts(t)
  BY DEF SameStage, Up, Client, Server, OnNewQp, Fresh, Seen, Asked, Counts

LEMMA CallsSame ==
    ASSUME NEW r, NEW t, SameCalls(r, t), NEW p
    PROVE  /\ NoCall(r, p) => NoCall(t, p)
           /\ NoCall(p, r) => NoCall(p, t)
           /\ \A c \in Call : OneCall(r, p, c) => OneCall(t, p, c)
           /\ \A c \in Call : OneCall(p, r, c) => OneCall(p, t, c)
  BY DEF SameCalls, NoCall, OneCall, NoneOf, OneOf

LEMMA QuietLinked ==
    ASSUME NEW e \in End, NEW r, NEW p, Linked(e, r, p), NEW t, Quiet(r, t)
    PROVE  Linked(e, t, p)
  <1>1. SameStage(r, t) /\ SameCalls(r, t)
    BY DEF Quiet
  <1>2. "nfr_req" \in Call /\ "nfr_rep" \in Call
    BY DEF Call
  <1>3. /\ t.cid = r.cid /\ t.vi = r.vi /\ t.req = r.req
    BY <1>1 DEF SameStage
  <1>4. Pair(e, r, p) => Pair(e, t, p)
    BY <1>1, <1>2, <1>3, StagesSame, CallsSame DEF Pair, Calm, Asking, Crossing, Serving, Waiting,
       Requesting, Replying
  <1>5. Pair(Peer(e), p, r) => Pair(Peer(e), p, t)
    BY <1>1, <1>2, <1>3, StagesSame, CallsSame DEF Pair, Calm, Asking, Crossing, Serving, Waiting,
       Requesting, Replying
  <1> QED
    BY <1>4, <1>5 DEF Linked

LEMMA QuietEnd ==
    ASSUME NEW r, EndOk(r, broken), NEW t, Quiet(r, t)
    PROVE  EndOk(t, broken)
  <1>1. SameStage(r, t)
    BY DEF Quiet
  <1>2. t.vi = r.vi /\ t.halt # "lock" /\ ErrorsIn(t, broken)
    BY <1>1 DEF Quiet, EndOk, SameStage, ErrorsHere
  <1> QED
    BY <1>1, <1>2, StagesSame DEF EndOk

\* A quiet step of end e keeps the invariant.
LEMMA QuietStep ==
    ASSUME IInv, NEW e \in End, NEW t, Quiet(rank[e], t),
           rank' = [rank EXCEPT ![e] = t], broken' = broken
    PROVE  IInv'
  <1> DEFINE r == rank[e]
             p == rank[Peer(e)]
  <1>1. /\ EndOk(r, broken) /\ EndOk(p, broken) /\ Whole(p) /\ Linked(e, r, p)
        /\ rank = [d \in End |-> rank[d]]
    BY Peers DEF IInv, Sound
  <1>2. EndOk(t, broken) /\ Linked(e, t, p) /\ Whole(t)
    BY <1>1, QuietEnd, QuietLinked DEF Quiet
  <1>3. rank' = [d \in End |-> rank'[d]] /\ rank'[e] = t /\ rank'[Peer(e)] = p
    BY <1>1, Peers
  <1>4. Sound(rank', broken)
    BY <1>1, <1>2, <1>3, SoundAgain
  <1> QED
    BY <1>4 DEF IInv

-----------------------------------------------------------------------------
(* The steps that leave the reconnect alone.                                *)

LEMMA SendStep ==
    ASSUME IInv, NEW e \in End, Send(e)
    PROVE  IInv'
  <1> DEFINE r == rank[e]
             m == r.issued + 1
             kind == Head(r.todo)
             n == Tail(r.todo)
             begun == [r EXCEPT !.todo = n, !.issued = m]
             l == Append(r.queued, [kind |-> kind, msg |-> m])
             s == [begun EXCEPT !.queued = l]
             o == ProcessQueue(begun)
             t == IF r.state = "pt2pt" THEN Start(o, kind, m) ELSE s
  <1>1. rank' = [rank EXCEPT ![e] = t] /\ broken' = broken /\ Whole(r)
    BY DEF Send, net, IInv, Sound
  <1> HIDE DEF r, m, kind, n
  <1>2. /\ DOMAIN begun = RankFields /\ SameStage(r, begun) /\ SameQueues(r, begun)
        /\ begun.queued = r.queued /\ begun.waiting = r.waiting
    BY <1>1 DEF RankFields, SameStage, SameQueues, Whole
  <1> HIDE DEF begun
  <1>3. Quiet(r, begun)
    BY <1>1, <1>2, QuietData DEF Whole
  <1>4. Quiet(begun, o)
    BY <1>3, ProcessQueueQuiet DEF Quiet
  <1> HIDE DEF o
  <1>5. Quiet(r, o) /\ Quiet(o, Start(o, kind, m))
    BY <1>3, <1>4, QuietTwice, StartQuiet DEF Quiet
  <1>6. Quiet(r, Start(o, kind, m))
    BY <1>5, QuietTwice
  <1>7. IsSeq(l)
    BY <1>1, AppendSeq DEF Whole
  <1> HIDE DEF l
  <1>8. /\ DOMAIN s = RankFields /\ SameStage(r, s) /\ SameQueues(r, s)
        /\ s.queued = l /\ s.waiting = r.waiting
    BY <1>2 DEF RankFields, SameStage, SameQueues
  <1> HIDE DEF s
  <1>9. Quiet(r, s)
    BY <1>1, <1>7, <1>8, QuietData DEF Whole
  <1>10. Quiet(r, t)
    BY <1>6, <1>9
  <1> HIDE DEF t
  <1> QED
    BY <1>1, <1>10, QuietStep DEF r

LEMMA MatchStep ==
    ASSUME IInv, NEW e \in End, Match(e)
    PROVE  IInv'
  <1> DEFINE r == rank[e]
             u == Head(r.unexp)
             x == Tail(r.unexp)
             s == [r EXCEPT !.unexp = x]
             t == StartRget(s, u.msg, u.id)
  <1>1. rank' = [rank EXCEPT ![e] = t] /\ broken' = broken /\ Whole(r)
    BY DEF Match, net, IInv, Sound
  <1> HIDE DEF r, u, x
  <1>2. /\ DOMAIN s = RankFields /\ SameStage(r, s) /\ SameQueues(r, s)
        /\ s.queued = r.queued /\ s.waiting = r.waiting
    BY <1>1 DEF RankFields, SameStage, SameQueues, Whole
  <1> HIDE DEF s
  <1>3. Quiet(r, s)
    BY <1>1, <1>2, QuietData DEF Whole
  <1>4. Quiet(s, t)
    BY <1>3, StartRgetQuiet DEF Quiet
  <1>5. Quiet(r, t)
    BY <1>3, <1>4, QuietTwice
  <1> HIDE DEF t
  <1> QED
    BY <1>1, <1>5, QuietStep DEF r

LEMMA AcknowledgeStep ==
    ASSUME IInv, NEW e \in End, Acknowledge(e)
    PROVE  IInv'
  <1> DEFINE r == rank[e]
             pkt == Head(r.sent)
             x == Tail(r.sent)
             f == Completion("send", pkt, r)
             q == IF pkt.type \in {"read", "finish"} THEN Append(r.cq, f) ELSE r.cq
             t == [r EXCEPT !.sent = x, !.cq = q]
  <1>1. rank' = [rank EXCEPT ![e] = t] /\ broken' = broken /\ Whole(r)
    BY DEF Acknowledge, net, IInv, Sound
  <1>2. f.what = "send"
    BY DEF Completion
  <1> HIDE DEF r, x, f, pkt
  <1>3. Completions(q) /\ \A c \in Call : Heard(q, c) = Heard(r.cq, c)
    BY <1>1, <1>2, CompletionsAppend, HeardAppend DEF Whole, Completions
  <1>4. ErrorsHere(r) => \A i \in DOMAIN q :
            q[i].what = "error" => q[i].qp = r.vi /\ r.vi \in broken
    BY <1>1, <1>2, AppendSeq DEF Whole, Completions, ErrorsHere, ErrorsIn
  <1> HIDE DEF q
  <1>5. /\ DOMAIN t = RankFields /\ SameStage(r, t) /\ t.wire = r.wire /\ t.cq = q
        /\ t.halt = r.halt /\ t.queued = r.queued /\ t.waiting = r.waiting
    BY <1>1 DEF RankFields, SameStage, Whole
  <1> HIDE DEF t
  <1>6. Quiet(r, t)
    BY <1>1, <1>3, <1>4, <1>5
       DEF Quiet, Whole, SameCalls, ErrorsHere, ErrorsIn, SameStage
  <1> QED
    BY <1>1, <1>6, QuietStep DEF r

-----------------------------------------------------------------------------
(* The steps of the main thread that change the stage.                      *)

\* What is known of an end and the other before a step.
LEMMA TwoEnds ==
    ASSUME IInv, NEW e \in End
    PROVE  /\ rank = [d \in End |-> rank[d]] /\ Peer(e) \in End /\ Peer(e) # e
           /\ Whole(rank[e]) /\ EndOk(rank[e], broken)
           /\ Whole(rank[Peer(e)]) /\ EndOk(rank[Peer(e)], broken)
           /\ Linked(e, rank[e], rank[Peer(e)])
  BY Peers DEF IInv, Sound

\* A step of end e alone that leaves both ends sound.
LEMMA OneStep ==
    ASSUME IInv, NEW e \in End, NEW t, rank' = [rank EXCEPT ![e] = t],
           broken' = broken, Whole(t), EndOk(t, broken), Linked(e, t, rank[Peer(e)])
    PROVE  IInv'
  <1> DEFINE p == rank[Peer(e)]
  <1>1. Whole(p) /\ EndOk(p, broken)
    BY TwoEnds
  <1>2. rank' = [d \in End |-> rank'[d]] /\ rank'[e] = t /\ rank'[Peer(e)] = p
    BY TwoEnds
  <1>3. Sound(rank', broken)
    BY <1>1, <1>2, SoundAgain
  <1> QED
    BY <1>3 DEF IInv

LEMMA EndWaitStep ==
    ASSUME IInv, NEW e \in End, EndWait(e)
    PROVE  IInv'
  <1> DEFINE r == rank[e]
             p == rank[Peer(e)]
             t == [r EXCEPT !.phase = "run"]
  <1>1. rank' = [rank EXCEPT ![e] = t] /\ broken' = broken /\ r.phase = "wait" /\ r.replies <= 0
    BY DEF EndWait, net
  <1>2. Whole(r) /\ EndOk(r, broken) /\ Linked(e, r, p)
    BY TwoEnds
  <1> HIDE DEF r, p
  <1>3. /\ DOMAIN t = RankFields /\ t.wire = r.wire /\ t.cq = r.cq /\ t.halt = r.halt
        /\ t.queued = r.queued /\ t.waiting = r.waiting /\ t.vi = r.vi
        /\ t.status = r.status /\ t.state = r.state /\ t.cli = r.cli /\ t.srv = r.srv
        /\ t.cid = r.cid /\ t.fresh = r.fresh /\ t.req = r.req /\ t.bad = r.bad
        /\ t.phase = "run"
    BY <1>2 DEF RankFields, Whole
  <1> HIDE DEF t
  <1>4. Whole(t) /\ SameCalls(r, t)
    BY <1>2, <1>3 DEF Whole, SameCalls
  <1>5. ~Client(r) /\ ~Fresh(r) /\ ~Seen(r) /\ ~Asked(r)
    BY <1>1 DEF Client, Fresh, Seen, Asked
  <1>6. (Up(r) => Up(t)) /\ (Server(r) => Server(t)) /\ ~Fresh(t) /\ ~Seen(t) /\ ~Asked(t)
    BY <1>3 DEF Up, Server, Fresh, Seen, Asked
  <1>7. EndOk(t, broken)
    BY <1>1, <1>2, <1>3, <1>6 DEF EndOk, ErrorsIn, Counts
  <1>8. Linked(e, t, p)
    BY <1>2, <1>3, <1>4, <1>5, <1>6, CallsSame DEF Linked, Pair, Calm, Asking, Crossing,
       Serving, Waiting, Requesting, Replying, Call
  <1> QED
    BY <1>1, <1>4, <1>7, <1>8, OneStep DEF r, p

LEMMA EndPoolStep ==
    ASSUME IInv, NEW e \in End, EndPool(e)
    PROVE  IInv'
  <1> DEFINE r == rank[e]
             p == rank[Peer(e)]
             w == [r EXCEPT !.phase = "wait", !.replies = 0]
             s == [w EXCEPT !.state = "none", !.status = "up", !.replies = 1]
             pkt == Packet("nfr_req", 0, s.expected, 0)
             t == IF r.status = "rec_d" THEN SendReconnect(s, "nfr_req") ELSE w
  <1>1. rank' = [rank EXCEPT ![e] = t] /\ broken' = broken /\ r.bad = 0
    BY DEF EndPool, net
  <1>2. Whole(r) /\ EndOk(r, broken) /\ Linked(e, r, p)
    BY TwoEnds
  <1> HIDE DEF r, p
  <1>3. /\ DOMAIN w = RankFields /\ w.wire = r.wire /\ w.cq = r.cq /\ w.halt = r.halt
        /\ w.queued = r.queued /\ w.waiting = r.waiting /\ w.vi = r.vi
        /\ w.status = r.status /\ w.state = r.state /\ w.cli = r.cli /\ w.srv = r.srv
        /\ w.cid = r.cid /\ w.fresh = r.fresh /\ w.req = r.req /\ w.bad = r.bad
        /\ w.phase = "wait" /\ w.replies = 0
    BY <1>2 DEF RankFields, Whole
  <1> HIDE DEF w
  <1>4. CASE r.status = "rec_d"
    <2> DEFINE l == Append(r.wire, pkt)
               u == [s EXCEPT !.wire = l]
    <2>1. /\ DOMAIN s = RankFields /\ s.wire = r.wire /\ s.cq = r.cq /\ s.halt = r.halt
          /\ s.queued = r.queued /\ s.waiting = r.waiting /\ s.vi = r.vi
          /\ s.cli = r.cli /\ s.srv = r.srv /\ s.cid = r.cid /\ s.fresh = r.fresh
          /\ s.req = r.req /\ s.bad = r.bad /\ s.phase = "wait" /\ s.replies = 1
          /\ s.status = "up" /\ s.state = "none"
      BY <1>3 DEF RankFields
    <2>2. pkt.type = "nfr_req"
      BY PacketIs
    <2>3. t = IbvPostSend(s, pkt)
      BY <1>4 DEF SendReconnect
    <2> HIDE DEF s, pkt
    <2>4. ~Up(r) /\ ~Client(r) /\ ~Server(r) /\ ~Fresh(r) /\ ~Asked(r)
      BY <1>4 DEF Up, Client, Server, Fresh, Asked
    <2>5. Waiting(r, p) /\ Seen(r)
      BY <1>2, <2>4 DEF Linked, Pair, Calm, Asking, Crossing, Serving, Waiting,
         Requesting, Replying
    <2>6. r.vi \notin broken
      BY <1>2, <2>5 DEF EndOk
    <2>7. t = u
      BY <2>1, <2>3, <2>6 DEF IbvPostSend
    <2>8. /\ IsSeq(l) /\ Calls(l, "nfr_req") \subseteq {Len(r.wire) + 1}
          /\ Calls(l, "nfr_rep") = {}
      <3>1. Calls(r.wire, "nfr_req") = {} /\ Calls(r.wire, "nfr_rep") = {}
        BY <2>5 DEF Waiting, NoCall, NoneOf, Call
      <3> QED
        BY <1>2, <2>2, <3>1, AppendSeq DEF Calls, Whole
    <2> HIDE DEF l, t
    <2>9. /\ DOMAIN u = RankFields /\ u.wire = l /\ u.cq = r.cq /\ u.halt = r.halt
          /\ u.queued = r.queued /\ u.waiting = r.waiting /\ u.vi = r.vi
          /\ u.cli = r.cli /\ u.srv = r.srv /\ u.cid = r.cid /\ u.fresh = r.fresh
          /\ u.req = r.req /\ u.bad = r.bad /\ u.phase = "wait" /\ u.replies = 1
          /\ u.status = "up" /\ u.state = "none"
      BY <2>1 DEF RankFields
    <2> HIDE DEF u
    <2>10. Whole(u)
      BY <1>2, <2>8, <2>9 DEF Whole
    <2>11. Asked(u)
      BY <2>5, <2>9 DEF Seen, Asked, OnNewQp
    <2>12. EndOk(u, broken)
      BY <1>1, <1>2, <2>6, <2>9 DEF EndOk, ErrorsIn, Counts
    <2>13. Requesting(u, p)
      <3>1. NoCall(p, u)
        BY <2>5, <2>9 DEF Waiting, NoCall, NoneOf
      <3>2. OneCall(u, p, "nfr_req")
        BY <2>5, <2>8, <2>9 DEF Waiting, NoCall, OneCall, OneOf, NoneOf, Call
      <3> QED
        BY <2>5, <2>9, <2>11, <3>1, <3>2 DEF Waiting, Requesting
    <2> QED
      BY <1>1, <2>7, <2>10, <2>12, <2>13, OneStep DEF r, p, Linked, Pair
  <1>5. CASE r.status # "rec_d"
    <2>1. t = w
      BY <1>5
    <2> HIDE DEF t
    <2>2. Whole(w) /\ SameCalls(r, w)
      BY <1>2, <1>3 DEF Whole, SameCalls
    <2>3. r.status # "down" /\ r.status # "rec"
      BY <1>1, <1>2 DEF EndOk, Counts
    <2>4. (Up(r) => Up(w)) /\ (Server(r) => Server(w)) /\ ~Client(r) /\ ~Fresh(r) /\ ~Seen(r)
      BY <1>3, <1>5, <2>3 DEF Up, Server, Client, Fresh, Seen
    <2>5. (Asked(r) => r.replies = 1 /\ r.phase = "wait") /\ r.phase = "pool"
      BY DEF Asked, EndPool, r
    <2>6. ~Asked(r) /\ ~Asked(w) /\ ~Fresh(w) /\ ~Seen(w)
      BY <1>3, <2>5 DEF Asked, Fresh, Seen
    <2>7. EndOk(w, broken)
      BY <1>1, <1>2, <1>3, <2>6 DEF EndOk, ErrorsIn, Counts
    <2>8. Linked(e, w, p)
      BY <1>2, <1>3, <2>2, <2>4, <2>6, CallsSame DEF Linked, Pair, Calm, Asking, Crossing,
         Serving, Waiting, Requesting, Replying, Call
    <2> QED
      BY <1>1, <2>1, <2>2, <2>7, <2>8, OneStep DEF r, p
  <1> QED
    BY <1>4, <1>5

\* odu_test_new_connection shows the main thread the new queue pair.
LEMMA Tested ==
    ASSUME NEW e \in End, NEW r, NEW p, Whole(r), EndOk(r, broken), Linked(e, r, p)
    PROVE  LET t == TestNewConnection(r)
           IN  Whole(t) /\ EndOk(t, broken) /\ Linked(e, t, p) /\ t.cq = r.cq
  <1> DEFINE t == TestNewConnection(r)
             s == [r EXCEPT !.fresh = FALSE]
             b == s.bad - 1
             u == [s EXCEPT !.bad = b, !.status = "rec_d"]
  <1>1. CASE ~r.fresh
    BY <1>1 DEF TestNewConnection
  <1>2. CASE r.fresh
    <2>1. ~Up(r) /\ ~Client(r) /\ ~Server(r) /\ ~Seen(r) /\ ~Asked(r)
      BY <1>2 DEF Up, Client, Server, Seen, Asked
    <2>2. Waiting(r, p) /\ Fresh(r)
      BY <2>1 DEF Linked, Pair, Calm, Asking, Crossing, Serving, Waiting,
         Requesting, Replying
    <2>3. r.status = "rec" /\ r.bad = 1
      BY <2>2 DEF Fresh, EndOk, Counts
    <2>4. t = u
      BY <1>2, <2>3 DEF TestNewConnection
    <2>5. /\ DOMAIN s = RankFields /\ s.bad = 1 /\ s.fresh = FALSE
          /\ \A f \in RankFields \ {"fresh"} : s[f] = r[f]
      BY <2>3 DEF Whole, RankFields
    <2> HIDE DEF s, t
    <2>6. b = 0
      BY <2>5
    <2> HIDE DEF b
    <2>7. /\ DOMAIN u = RankFields /\ u.bad = 0 /\ u.fresh = FALSE /\ u.status = "rec_d"
          /\ u.wire = r.wire /\ u.cq = r.cq /\ u.halt = r.halt
          /\ u.queued = r.queued /\ u.waiting = r.waiting /\ u.vi = r.vi
          /\ u.state = r.state /\ u.cli = r.cli /\ u.srv = r.srv
          /\ u.cid = r.cid /\ u.req = r.req /\ u.phase = r.phase
      BY <2>5, <2>6 DEF RankFields
    <2> HIDE DEF u
    <2>8. Whole(u)
      BY <2>7 DEF Whole
    <2>9. Seen(u)
      BY <2>2, <2>7 DEF Fresh, Seen, OnNewQp
    <2>10. EndOk(u, broken)
      BY <2>2, <2>7 DEF EndOk, ErrorsIn, Counts
    <2>11. Waiting(u, p)
      BY <2>2, <2>7, <2>9 DEF Waiting, NoCall, NoneOf
    <2> QED
      BY <2>4, <2>7, <2>8, <2>10, <2>11 DEF t, Linked, Pair
  <1> QED
    BY <1>1, <1>2

LEMMA HeardTail ==
    ASSUME NEW q, IsSeq(q), q # << >>, NEW c
    PROVE  /\ Heard(q, c) = {} => Heard(Tail(q), c) = {}
           /\ (\E i : Heard(q, c) \subseteq {i}) =>
                 /\ \E i : Heard(Tail(q), c) \subseteq {i}
                 /\ Head(q).what = "recv" /\ Head(q).pkt.type = c => Heard(Tail(q), c) = {}
           /\ Head(q).what = "recv" /\ Head(q).pkt.type = c => Heard(q, c) # {}
  <1>1. /\ \A k \in Heard(Tail(q), c) : k \in Nat /\ k + 1 \in Heard(q, c) /\ k + 1 # 1
        /\ 1 \in DOMAIN q /\ Head(q) = q[1]
    BY TailSeq DEF Heard
  <1>2. ASSUME NEW i, Heard(q, c) \subseteq {i}
        PROVE  \E j : Heard(Tail(q), c) \subseteq {j}
    <2>1. CASE Heard(Tail(q), c) = {}
      BY <2>1
    <2>2. CASE Heard(Tail(q), c) # {}
      <3>1. PICK j \in Heard(Tail(q), c) : TRUE
        BY <2>2
      <3>2. \A k \in Heard(Tail(q), c) : k = j
        BY <1>1, <1>2
      <3> QED
        BY <3>2
    <2> QED
      BY <2>1, <2>2
  <1>3. Head(q).what = "recv" /\ Head(q).pkt.type = c => 1 \in Heard(q, c)
    BY <1>1 DEF Heard
  <1> QED
    BY <1>1, <1>2, <1>3

\* The main thread takes the next completion off its queue.
LEMMA Taken ==
    ASSUME NEW e \in End, NEW r, NEW p, Whole(r), EndOk(r, broken), Linked(e, r, p),
           r.cq # << >>, NEW t, t = [r EXCEPT !.cq = Tail(@)], NEW x, x = Head(r.cq)
    PROVE  /\ Whole(t) /\ EndOk(t, broken) /\ Linked(e, t, p)
           /\ x.what \in {"error", "send", "recv"}
           /\ x.what = "error" => r.vi \in broken /\ t.vi = r.vi
           /\ x.what = "recv" /\ x.pkt.type = "nfr_req" =>
                 Requesting(p, t) /\ NoCall(p, t)
           /\ x.what = "recv" /\ x.pkt.type = "nfr_rep" =>
                 Replying(t, p) /\ NoCall(p, t)
  <1> DEFINE q == Tail(r.cq)
  <1>1. /\ DOMAIN t = RankFields /\ SameStage(r, t) /\ t.wire = r.wire /\ t.cq = q
        /\ t.halt = r.halt /\ t.queued = r.queued /\ t.waiting = r.waiting
    BY DEF RankFields, SameStage, Whole
  <1>2. /\ Completions(q) /\ 1 \in DOMAIN r.cq /\ x = r.cq[1]
        /\ \A i \in DOMAIN q : i + 1 \in DOMAIN r.cq /\ q[i] = r.cq[i + 1]
    BY TailSeq DEF Whole, Completions
  <1>3. Whole(t) /\ x.what \in {"error", "send", "recv"}
    BY <1>1, <1>2 DEF Whole, Completions
  <1>4. ErrorsIn(t, broken) /\ (x.what = "error" => r.vi \in broken)
    BY <1>1, <1>2 DEF EndOk, ErrorsIn, SameStage
  <1>5. t.vi = r.vi /\ t.cid = r.cid /\ t.req = r.req
    BY <1>1 DEF SameStage
  <1>6. EndOk(t, broken)
    BY <1>1, <1>4, <1>5, StagesSame DEF EndOk
  <1>7. /\ NoCall(r, p) => NoCall(t, p)
        /\ NoCall(p, r) => NoCall(p, t)
        /\ \A c \in Call : OneCall(r, p, c) => OneCall(t, p, c)
        /\ \A c \in Call : OneCall(p, r, c) => OneCall(p, t, c)
    BY <1>1, HeardTail DEF Whole, Completions, NoCall, OneCall, NoneOf, OneOf
  <1>8. "nfr_req" \in Call /\ "nfr_rep" \in Call
    BY DEF Call
  <1>9. /\ Pair(e, r, p) => Pair(e, t, p)
        /\ Pair(Peer(e), p, r) => Pair(Peer(e), p, t)
    BY <1>1, <1>5, <1>7, <1>8, StagesSame DEF Pair, Calm, Asking, Crossing, Serving, Waiting,
       Requesting, Replying
  <1>10. ASSUME NEW c \in Call, x.what = "recv", x.pkt.type = c
         PROVE  ~NoCall(p, r)
    BY <1>10, HeardTail DEF Whole, Completions, NoCall, NoneOf
  <1>11. ASSUME NEW c \in Call, NEW d \in Call, x.what = "recv", x.pkt.type = c,
                OneCall(p, r, d)
         PROVE  c = d /\ NoCall(p, t)
    <2>1. Heard(r.cq, c) # {}
      BY <1>11, HeardTail DEF Whole, Completions
    <2>2. c = d
      BY <1>11, <2>1 DEF OneCall, NoneOf
    <2>3. Calls(p.wire, c) = {} /\ \E i : Heard(r.cq, c) \subseteq {i}
      BY <1>11, <2>1, <2>2 DEF OneCall, OneOf
    <2>4. Heard(q, c) = {}
      BY <1>11, <2>3, HeardTail DEF Whole, Completions
    <2>5. \A a \in Call \ {c} : NoneOf(p, t, a)
      BY <1>1, <1>11, <2>2, HeardTail DEF Whole, Completions, OneCall, NoneOf
    <2> QED
      BY <1>1, <2>2, <2>3, <2>4, <2>5 DEF NoCall, NoneOf
  <1> HIDE DEF q
  <1>12. ASSUME x.what = "recv", x.pkt.type \in Call
         PROVE  \/ Requesting(p, r) /\ x.pkt.type = "nfr_req" /\ NoCall(p, t)
                \/ Replying(r, p) /\ x.pkt.type = "nfr_rep" /\ NoCall(p, t)
    <2>1. ~NoCall(p, r)
      BY <1>10, <1>12
    <2>2. Requesting(p, r) \/ Replying(r, p)
      BY <2>1 DEF Linked, Pair, Calm, Asking, Crossing, Serving, Waiting,
         Requesting, Replying
    <2>3. CASE Requesting(p, r)
      BY <1>8, <1>11, <1>12, <2>3 DEF Requesting
    <2>4. CASE Replying(r, p)
      BY <1>8, <1>11, <1>12, <2>4 DEF Replying
    <2> QED
      BY <2>2, <2>3, <2>4
  <1>13. /\ Requesting(p, r) => Requesting(p, t)
         /\ Replying(r, p) => Replying(t, p)
    BY <1>1, <1>5, <1>7, <1>8, StagesSame DEF Requesting, Replying
  <1> QED
    BY <1>3, <1>4, <1>5, <1>6, <1>8, <1>9, <1>12, <1>13 DEF Linked

\* process_bad_completion begins a reconnect, or finds one that has begun.
LEMMA QpErrorStage ==
    ASSUME NEW e \in End, NEW r, NEW p, Whole(r), EndOk(r, broken), EndOk(p, broken),
           Linked(e, r, p), r.vi \in broken
    PROVE  LET t == QpError(r)
           IN  Whole(t) /\ EndOk(t, broken) /\ Linked(e, t, p)
  <1> DEFINE t == QpError(r)
  <1>1. ~Fresh(r) /\ ~Seen(r) /\ ~Asked(r)
    BY DEF EndOk
  <1>2. Up(r) \/ Client(r) \/ Server(r)
    BY <1>1 DEF Linked, Pair, Calm, Asking, Crossing, Serving, Waiting, Requesting, Replying
  <1>3. r.vi \in Nat
    BY DEF EndOk
  <1>4. CASE Up(r)
    <2> DEFINE d == [r EXCEPT !.status = "down", !.bad = @ + 1]
               n == [d EXCEPT !.state = "none"]
               q == [n EXCEPT !.cli = "requesting", !.cid = @ + 1, !.req = TRUE]
               u == [q EXCEPT !.phase = "pool"]
    <2>1. /\ DOMAIN d = RankFields /\ d.status = "down" /\ d.bad = r.bad + 1
          /\ \A f \in RankFields \ {"status", "bad"} : d[f] = r[f]
      BY DEF Whole, RankFields
    <2>2. d.state = "pt2pt" /\ d.vi = d.cid /\ d.cli = "idle" /\ d.srv = "idle" /\ r.status = "up"
      BY <1>4, <2>1 DEF Up, RankFields
    <2>3. t = u
      BY <2>2 DEF QpError, ReconnectReq
    <2> HIDE DEF d, t
    <2>4. /\ DOMAIN n = RankFields /\ n.state = "none"
          /\ \A f \in RankFields \ {"state"} : n[f] = d[f]
      BY <2>1 DEF RankFields
    <2> HIDE DEF n
    <2>5. /\ DOMAIN q = RankFields /\ q.cli = "requesting" /\ q.cid = n.cid + 1 /\ q.req = TRUE
          /\ \A f \in RankFields \ {"cli", "cid", "req"} : q[f] = n[f]
      BY <2>4 DEF RankFields
    <2> HIDE DEF q
    <2>6. /\ DOMAIN u = RankFields /\ u.wire = r.wire /\ u.cq = r.cq /\ u.halt = r.halt
          /\ u.queued = r.queued /\ u.waiting = r.waiting /\ u.vi = r.vi
          /\ u.status = "down" /\ u.state = "none" /\ u.cli = "requesting"
          /\ u.srv = r.srv /\ u.cid = r.cid + 1 /\ u.fresh = r.fresh /\ u.req = TRUE
          /\ u.bad = r.bad + 1 /\ u.phase = "pool"
      BY <2>1, <2>4, <2>5 DEF RankFields
    <2> HIDE DEF u
    <2>7. Whole(u)
      BY <2>6 DEF Whole
    <2>8. Client(u)
      BY <1>4, <2>6 DEF Client, Up
    <2>9. r.bad = 0
      BY <1>4 DEF EndOk, Counts, Up
    <2>10. EndOk(u, broken)
      BY <2>6, <2>8, <2>9 DEF EndOk, ErrorsIn, Counts, Client, Fresh, Seen, Asked
    <2>11. SameCalls(r, u)
      BY <2>6 DEF SameCalls
    <2>12. ~Client(r) /\ ~Server(r)
      BY <1>4 DEF Up, Client, Server
    <2>13. Calm(r, p) \/ Calm(p, r) \/ Asking(p, r) \/ Replying(p, r)
      BY <1>1, <2>12 DEF Linked, Pair, Asking, Crossing, Serving, Waiting,
         Requesting, Replying
    <2>14. ASSUME Calm(r, p) \/ Calm(p, r)
           PROVE  Linked(e, u, p)
      <3>1. Asking(u, p)
        BY <2>6, <2>8, <2>11, <2>14, CallsSame DEF Calm, Asking, Up
      <3> QED
        BY <3>1 DEF Linked, Pair
    <2>15. ASSUME Asking(p, r)
           PROVE  Linked(e, u, p)
      <3>1. Crossing(u, p)
        BY <2>6, <2>8, <2>11, <2>15, CallsSame DEF Asking, Crossing, Up, Client
      <3> QED
        BY <3>1 DEF Linked, Pair
    <2>16. ~Replying(p, r)
      BY DEF Replying, Up, Asked, OnNewQp, EndOk
    <2> QED
      BY <2>3, <2>7, <2>10, <2>13, <2>14, <2>15, <2>16 DEF t
  <1>5. CASE Server(r)
    <2> DEFINE d == [r EXCEPT !.status = "down", !.bad = @ + 1]
               n == [d EXCEPT !.state = "none"]
               q == IF r.status = "up" THEN n ELSE r
               u == [q EXCEPT !.phase = "pool"]
    <2>1. /\ DOMAIN d = RankFields /\ d.status = "down" /\ d.bad = r.bad + 1
          /\ \A f \in RankFields \ {"status", "bad"} : d[f] = r[f]
      BY DEF Whole, RankFields
    <2>2. d.state = "none" /\ d.srv = "requested"
      BY <1>5, <2>1 DEF Server, RankFields
    <2>3. t = u
      BY <2>2 DEF QpError, ReconnectReq
    <2> HIDE DEF d, t
    <2>4. /\ DOMAIN n = RankFields /\ n.state = "none"
          /\ \A f \in RankFields \ {"state"} : n[f] = d[f]
      BY <2>1 DEF RankFields
    <2> HIDE DEF n
    <2>5. r.status \in {"up", "down"} /\ r.state = "none" /\ r.bad = IF r.status = "up" THEN 0 ELSE 1
      BY <1>5 DEF Server, EndOk, Counts
    <2>6. /\ DOMAIN q = RankFields /\ q.status = "down" /\ q.bad = 1 /\ q.state = "none"
          /\ \A f \in RankFields \ {"status", "bad", "state"} : q[f] = r[f]
      BY <2>1, <2>4, <2>5 DEF RankFields, Whole
    <2> HIDE DEF q
    <2>7. /\ DOMAIN u = RankFields /\ u.wire = r.wire /\ u.cq = r.cq /\ u.halt = r.halt
          /\ u.queued = r.queued /\ u.waiting = r.waiting /\ u.vi = r.vi
          /\ u.status = "down" /\ u.state = "none" /\ u.cli = r.cli
          /\ u.srv = r.srv /\ u.cid = r.cid /\ u.fresh = r.fresh /\ u.req = r.req
          /\ u.bad = 1 /\ u.phase = "pool"
      BY <2>6 DEF RankFields
    <2> HIDE DEF u
    <2>8. Whole(u)
      BY <2>7 DEF Whole
    <2>9. Server(u)
      BY <1>5, <2>7 DEF Server
    <2>10. EndOk(u, broken)
      BY <2>7 DEF EndOk, ErrorsIn, Counts, Fresh, Seen, Asked
    <2>11. SameCalls(r, u)
      BY <2>7 DEF SameCalls
    <2>12. ~Client(r) /\ ~Up(r)
      BY <1>5 DEF Up, Client, Server
    <2>13. Serving(Peer(e), p, r) \/ Waiting(p, r) \/ Requesting(p, r)
      BY <1>1, <2>12 DEF Linked, Pair, Calm, Asking, Crossing, Serving, Waiting, Replying, Requesting
    <2>14. Serving(Peer(e), p, u) \/ Waiting(p, u) \/ Requesting(p, u)
      BY <2>7, <2>9, <2>11, <2>13, CallsSame DEF Serving, Waiting, Requesting, Call
    <2> QED
      BY <2>3, <2>8, <2>10, <2>14 DEF t, Linked, Pair
  <1>6. CASE Client(r)
    <2> DEFINE u == [r EXCEPT !.phase = "pool"]
    <2>1. t = u
      BY <1>6 DEF QpError, Client
    <2>2. /\ DOMAIN u = RankFields /\ SameStage(r, u) /\ u.wire = r.wire /\ u.cq = r.cq
          /\ u.halt = r.halt /\ u.queued = r.queued /\ u.waiting = r.waiting
      BY <1>6 DEF RankFields, Whole, SameStage, Client
    <2> HIDE DEF u, t
    <2>3. Quiet(r, u)
      BY <2>2, QuietData DEF Whole, SameQueues
    <2>4. Whole(u) /\ EndOk(u, broken) /\ Linked(e, u, p)
      BY <2>3, QuietEnd, QuietLinked DEF Quiet
    <2> QED
      BY <2>1, <2>4 DEF t
  <1> QED
    BY <1>2, <1>4, <1>5, <1>6

\* odu_re_enable_qp: the queues of the old queue pair go with it.
LEMMA ReEnabled ==
    ASSUME NEW r, Whole(r), ErrorsHere(r), NEW t, t = ReEnable(r)
    PROVE  /\ Whole(t) /\ t.wire = << >> /\ t.vi = r.cid
           /\ t.status = (IF r.status = "down" THEN "rec" ELSE r.status)
           /\ \A i \in DOMAIN t.cq : t.cq[i].what # "error"
           /\ \A c \in Call : Heard(r.cq, c) = {} => Heard(t.cq, c) = {}
           /\ t.halt = r.halt /\ t.state = r.state /\ t.cli = r.cli /\ t.srv = r.srv
           /\ t.cid = r.cid /\ t.fresh = r.fresh /\ t.req = r.req /\ t.phase = r.phase
           /\ t.bad = r.bad /\ t.replies = r.replies
  <1> DEFINE X == {x \in Range(r.cq) : x.qp = r.vi}
             q == Without(r.cq, X)
             n == << >>
             s == [r EXCEPT !.wire = n, !.sent = n, !.cq = q]
             st == IF s.status = "down" THEN "rec" ELSE s.status
             u == [s EXCEPT !.pending = 0, !.vi = s.cid, !.status = st]
  <1>1. s = IbvDestroyQp(r)
    BY DEF IbvDestroyQp
  <1>2. /\ From(q, r.cq) /\ \A i \in DOMAIN q : q[i] \notin X
    <2> HIDE DEF X
    <2> QED
      BY WithoutIs DEF Whole, Completions
  <1>3. \A i \in DOMAIN q : q[i] \in Range(r.cq)
    BY <1>2 DEF From, Range
  <1>4. \A i \in DOMAIN q : q[i].qp # r.vi
    BY <1>2, <1>3
  <1> HIDE DEF X, q
  <1>5. Completions(q) /\ \A i \in DOMAIN q : q[i].what # "error"
    BY <1>2, <1>4 DEF From, Whole, Completions, ErrorsHere, ErrorsIn
  <1>6. \A c \in Call : Heard(r.cq, c) = {} => Heard(q, c) = {}
    BY <1>2 DEF From, Heard
  <1>7. IsSeq(n)
    BY NoElements
  <1> HIDE DEF n
  <1>8. /\ DOMAIN s = RankFields /\ s.wire = n /\ s.sent = n /\ s.cq = q
        /\ \A f \in RankFields \ {"wire", "sent", "cq"} : s[f] = r[f]
    BY DEF RankFields, Whole
  <1>9. t = u
    BY <1>1, <1>8 DEF ReEnable, RankFields
  <1>10. s.cid = r.cid /\ s.status = r.status
    BY <1>8 DEF RankFields
  <1> HIDE DEF s
  <1>11. /\ DOMAIN u = RankFields /\ u.wire = n /\ u.cq = q /\ u.vi = s.cid /\ u.status = st
         /\ u.halt = r.halt /\ u.state = r.state /\ u.cli = r.cli /\ u.srv = r.srv
         /\ u.cid = r.cid /\ u.fresh = r.fresh /\ u.req = r.req /\ u.phase = r.phase
         /\ u.bad = r.bad /\ u.replies = r.replies
         /\ u.queued = r.queued /\ u.waiting = r.waiting
    BY <1>8 DEF RankFields
  <1> HIDE DEF u
  <1>12. Whole(u)
    BY <1>5, <1>7, <1>11 DEF Whole
  <1> QED
    BY <1>5, <1>6, <1>9, <1>10, <1>11, <1>12 DEF n

\* The lost packets and the queue of an end that the last call has reached.
LEMMA QuietBoth ==
    ASSUME NEW e \in End, NEW r, EndOk(r, broken), NEW p, Linked(e, r, p), NEW t, Quiet(r, t)
    PROVE  Whole(t) /\ EndOk(t, broken) /\ Linked(e, t, p)
  BY QuietEnd, QuietLinked DEF Quiet

\* nfr_incoming_nfr_req: the server replaces its queue pair and answers over it.
LEMMA IncomingReqStage ==
    ASSUME NEW e \in End, NEW r, NEW p, Whole(r), EndOk(r, broken), EndOk(p, broken),
           Requesting(p, r), NoCall(p, r), NEW ack
    PROVE  LET t == IncomingReq(r, ack)
           IN  Whole(t) /\ EndOk(t, broken) /\ Linked(e, t, p)
  <1> DEFINE est == [r EXCEPT !.srv = "idle", !.state = "pt2pt"]
             en  == ReEnable(est)
             b   == en.bad - 1
             dn  == [en EXCEPT !.bad = b, !.status = "up"]
             up  == IF en.status = "rec" THEN dn ELSE en
             on  == [up EXCEPT !.recov = TRUE]
             pkt == Packet("nfr_rep", 0, on.expected, 0)
             l   == Append(on.wire, pkt)
             rep == [on EXCEPT !.wire = l]
             t   == IncomingReq(r, ack)
  <1>1. /\ Server(r) /\ Asked(p) /\ p.cid = r.cid /\ ~r.req /\ NoCall(r, p)
        /\ p.vi = r.cid /\ p.vi \notin broken
    BY DEF Requesting, EndOk, Asked, OnNewQp
  <1>2. Establish(r) = est
    BY <1>1 DEF Establish, Server
  <1>3. /\ DOMAIN est = RankFields /\ est.srv = "idle" /\ est.state = "pt2pt"
        /\ \A f \in RankFields \ {"srv", "state"} : est[f] = r[f]
    BY DEF Whole, RankFields
  <1> HIDE DEF est
  <1>4. Whole(est) /\ ErrorsHere(est)
    BY <1>3 DEF Whole, RankFields, EndOk, ErrorsIn, ErrorsHere
  <1>5. /\ Whole(en) /\ en.wire = << >> /\ en.vi = r.cid
        /\ en.status = (IF r.status = "down" THEN "rec" ELSE r.status)
        /\ \A i \in DOMAIN en.cq : en.cq[i].what # "error"
        /\ \A c \in Call : Heard(r.cq, c) = {} => Heard(en.cq, c) = {}
        /\ en.halt = r.halt /\ en.state = "pt2pt" /\ en.cli = "idle" /\ en.srv = "idle"
        /\ en.cid = r.cid /\ en.fresh = FALSE /\ en.req = r.req /\ en.phase = r.phase
        /\ en.bad = r.bad /\ en.replies = r.replies
    BY <1>1, <1>3, <1>4, ReEnabled DEF Server, RankFields
  <1>6. r.status \in {"up", "down"} /\ r.bad = (IF r.status = "down" THEN 1 ELSE 0)
    BY <1>1 DEF Server, EndOk, Counts
  <1>7. Restored(en) = up /\ Renewed(r) = en
    BY <1>2 DEF Restored, Renewed
  <1> HIDE DEF en
  <1>8. r.status = "down" => b = 0
    BY <1>5, <1>6
  <1> HIDE DEF b
  <1>9. /\ DOMAIN dn = RankFields /\ dn.bad = b /\ dn.status = "up"
        /\ \A f \in RankFields \ {"bad", "status"} : dn[f] = en[f]
    BY <1>5 DEF Whole, RankFields
  <1> HIDE DEF dn
  <1>10. /\ DOMAIN up = RankFields /\ up.bad = 0 /\ up.status = "up"
         /\ \A f \in RankFields \ {"bad", "status"} : up[f] = en[f]
    BY <1>5, <1>6, <1>8, <1>9 DEF Whole, RankFields
  <1> HIDE DEF up
  <1>11. /\ DOMAIN on = RankFields /\ on.bad = 0 /\ on.status = "up"
         /\ \A f \in RankFields \ {"bad", "status", "recov"} : on[f] = en[f]
    BY <1>10 DEF RankFields
  <1>12. IncomingReq(r, ack) = ProcessQueue(SendLostData(SendReconnect(on, "nfr_rep"), ack))
    BY <1>7 DEF IncomingReq
  <1> HIDE DEF on
  <1>13. on.vi = r.cid /\ on.wire = << >>
    BY <1>5, <1>11 DEF RankFields
  <1>14. SendReconnect(on, "nfr_rep") = IbvPostSend(on, pkt)
    BY DEF SendReconnect
  <1>15. pkt.type = "nfr_rep"
    BY PacketIs
  <1> HIDE DEF pkt
  <1>16. SendReconnect(on, "nfr_rep") = rep
    BY <1>1, <1>13, <1>14 DEF IbvPostSend
  <1>17. /\ IsSeq(l) /\ Calls(l, "nfr_req") = {}
         /\ Calls(l, "nfr_rep") \subseteq {Len(on.wire) + 1}
    <2> DEFINE w == on.wire
    <2>1. IsSeq(w) /\ DOMAIN w = {} /\ l = Append(w, pkt)
      BY <1>13, NoElements
    <2> HIDE DEF w, l
    <2> QED
      BY <1>15, <2>1, AppendSeq DEF Calls, w
  <1> HIDE DEF l, t
  <1>18. /\ DOMAIN rep = RankFields /\ rep.wire = l /\ rep.cq = en.cq /\ rep.halt = r.halt
         /\ rep.queued = en.queued /\ rep.waiting = en.waiting /\ rep.vi = r.cid
         /\ rep.status = "up" /\ rep.state = "pt2pt" /\ rep.cli = "idle" /\ rep.srv = "idle"
         /\ rep.cid = r.cid /\ rep.fresh = FALSE /\ rep.req = r.req /\ rep.phase = r.phase
         /\ rep.bad = 0 /\ rep.replies = r.replies
    BY <1>5, <1>11 DEF RankFields
  <1> HIDE DEF rep
  <1>19. Whole(rep)
    BY <1>5, <1>17, <1>18 DEF Whole
  <1>20. Up(rep)
    BY <1>18 DEF Up
  <1>21. EndOk(rep, broken)
    <2>1. r.cid \in Nat /\ \A g \in broken : g \in Nat /\ g <= r.cid
      BY <1>1 DEF EndOk
    <2> QED
      BY <1>5, <1>18, <1>20, <2>1 DEF EndOk, ErrorsIn, Counts, Up, Fresh, Seen, Asked, OnNewQp
  <1>22. Replying(p, rep)
    <2>1. NoCall(p, rep)
      BY <1>5, <1>18 DEF NoCall, NoneOf
    <2>2. OneCall(rep, p, "nfr_rep")
      BY <1>1, <1>17, <1>18 DEF NoCall, NoneOf, OneCall, OneOf, Call
    <2> QED
      BY <1>1, <1>18, <1>20, <2>1, <2>2 DEF Replying
  <1>23. Linked(e, rep, p)
    BY <1>22 DEF Linked, Pair
  <1>24. Quiet(rep, SendLostData(rep, ack))
    BY <1>19, SendLostDataQuiet
  <1>25. Quiet(SendLostData(rep, ack), ProcessQueue(SendLostData(rep, ack)))
    BY <1>24, ProcessQueueQuiet DEF Quiet
  <1>26. Quiet(rep, t)
    BY <1>12, <1>16, <1>24, <1>25, QuietTwice DEF t
  <1> QED
    BY <1>21, <1>23, <1>26, QuietBoth DEF t

\* nfr_incoming_nfr_rep: the client is connected again.
LEMMA IncomingRepStage ==
    ASSUME NEW e \in End, NEW r, NEW p, Whole(r), EndOk(r, broken), EndOk(p, broken),
           Replying(r, p), NoCall(p, r), NEW ack
    PROVE  LET t == IncomingRep(r, ack)
           IN  Whole(t) /\ EndOk(t, broken) /\ Linked(e, t, p)
  <1> DEFINE on == [r EXCEPT !.recov = TRUE]
             o  == SendLostData(on, ack)
             n  == o.replies - 1
             u  == [o EXCEPT !.state = "pt2pt", !.replies = n]
             t  == IncomingRep(r, ack)
  <1>1. t = u
    BY DEF IncomingRep, Replied
  <1>2. /\ DOMAIN on = RankFields /\ SameStage(r, on) /\ SameQueues(r, on)
        /\ on.queued = r.queued /\ on.waiting = r.waiting
    BY DEF RankFields, SameStage, SameQueues, Whole
  <1> HIDE DEF on, t
  <1>3. Quiet(r, on)
    BY <1>2, QuietData DEF Whole
  <1>4. Quiet(r, o)
    BY <1>3, SendLostDataQuiet, QuietTwice DEF Quiet
  <1> HIDE DEF o, n
  <1>5. Whole(o) /\ EndOk(o, broken) /\ SameStage(r, o) /\ SameCalls(r, o)
    BY <1>4, QuietEnd DEF Quiet
  <1>6. Asked(o)
    BY <1>5, StagesSame DEF Replying
  <1>7. /\ DOMAIN u = RankFields /\ u.wire = o.wire /\ u.cq = o.cq /\ u.halt = o.halt
        /\ u.queued = o.queued /\ u.waiting = o.waiting /\ u.vi = o.vi
        /\ u.status = o.status /\ u.state = "pt2pt" /\ u.cli = o.cli /\ u.srv = o.srv
        /\ u.cid = o.cid /\ u.fresh = o.fresh /\ u.req = o.req /\ u.phase = o.phase
        /\ u.bad = o.bad
    BY <1>5 DEF RankFields, Whole
  <1> HIDE DEF u
  <1>8. Whole(u)
    BY <1>5, <1>7 DEF Whole
  <1>9. Up(u) /\ ~u.req
    BY <1>6, <1>7 DEF Asked, OnNewQp, Up
  <1>10. EndOk(u, broken)
    BY <1>5, <1>6, <1>7, <1>9 DEF EndOk, ErrorsIn, Counts, Asked, Up, Fresh, Seen, OnNewQp
  <1>11. NoCall(u, p) /\ NoCall(p, u)
    BY <1>5, <1>7 DEF Replying, NoCall, NoneOf, SameCalls
  <1>12. u.cid = p.cid
    BY <1>5, <1>7 DEF SameStage, Replying
  <1>13. Calm(u, p)
    BY <1>9, <1>11, <1>12 DEF Calm, Replying
  <1> QED
    BY <1>1, <1>8, <1>10, <1>13 DEF t, Linked, Pair

\* One turn of the main thread's poll.
LEMMA PollStep ==
    ASSUME IInv, NEW e \in End, NEW expect \in BOOLEAN, Poll(e, expect)
    PROVE  IInv'
  <1> DEFINE p == rank[Peer(e)]
             r == TestNewConnection(rank[e])
             x == Head(r.cq)
             q == Tail(r.cq)
             s == [r EXCEPT !.cq = q]
             t == IF r.cq = << >> THEN r
                  ELSE CASE x.what = "error" -> QpError(s)
                         [] x.what = "send"  -> ProcessSend(s, x.pkt)
                         [] x.what = "recv"  -> ProcessRecv(s, x.pkt, expect)
  <1>1. rank' = [rank EXCEPT ![e] = t] /\ broken' = broken
    BY DEF Poll, net
  <1>2. Whole(rank[e]) /\ EndOk(rank[e], broken) /\ EndOk(p, broken) /\ Linked(e, rank[e], p)
    BY TwoEnds
  <1>3. Whole(r) /\ EndOk(r, broken) /\ Linked(e, r, p)
    BY <1>2, Tested
  <1> HIDE DEF r, p
  <1>4. ASSUME r.cq # << >>
        PROVE  Whole(t) /\ EndOk(t, broken) /\ Linked(e, t, p)
    <2>1. s = [r EXCEPT !.cq = Tail(@)]
      OBVIOUS
    <2> HIDE DEF s, x
    <2>2. /\ Whole(s) /\ EndOk(s, broken) /\ Linked(e, s, p)
          /\ x.what \in {"error", "send", "recv"}
          /\ x.what = "error" => r.vi \in broken /\ s.vi = r.vi
          /\ x.what = "recv" /\ x.pkt.type = "nfr_req" =>
                Requesting(p, s) /\ NoCall(p, s)
          /\ x.what = "recv" /\ x.pkt.type = "nfr_rep" =>
                Replying(s, p) /\ NoCall(p, s)
      BY <1>3, <1>4, <2>1, Taken DEF x
    <2>3. CASE x.what = "error"
      <3>1. t = QpError(s)
        BY <1>4, <2>3
      <3> QED
        BY <1>2, <2>2, <2>3, <3>1, QpErrorStage
    <2>4. CASE x.what = "send"
      <3>1. t = ProcessSend(s, x.pkt)
        BY <1>4, <2>4
      <3> HIDE DEF t
      <3>2. Quiet(s, t)
        BY <2>2, <3>1, ProcessSendQuiet
      <3> QED
        BY <2>2, <3>2, QuietBoth
    <2>5. CASE x.what = "recv"
      <3>1. t = ProcessRecv(s, x.pkt, expect)
        BY <1>4, <2>5
      <3> HIDE DEF t
      <3>2. CASE x.pkt.type = "nfr_req"
        <4>1. t = IncomingReq(s, x.pkt.ack)
          BY <3>1, <3>2 DEF ProcessRecv, Unsequenced
        <4> QED
          BY <1>2, <2>2, <2>5, <3>2, <4>1, IncomingReqStage
      <3>3. CASE x.pkt.type = "nfr_rep"
        <4>1. t = IncomingRep(s, x.pkt.ack)
          BY <3>1, <3>3 DEF ProcessRecv, Unsequenced
        <4> QED
          BY <1>2, <2>2, <2>5, <3>3, <4>1, IncomingRepStage
      <3>4. CASE x.pkt.type \notin Call
        <4>1. Quiet(s, t)
          BY <2>2, <3>1, <3>4, ProcessRecvQuiet
        <4> QED
          BY <2>2, <4>1, QuietBoth
      <3> QED
        BY <3>2, <3>3, <3>4 DEF Call
    <2> QED
      BY <2>2, <2>3, <2>4, <2>5
  <1>5. r.cq = << >> => t = r
    OBVIOUS
  <1> HIDE DEF t
  <1>6. Whole(t) /\ EndOk(t, broken) /\ Linked(e, t, p)
    BY <1>3, <1>4, <1>5
  <1> QED
    BY <1>1, <1>6, OneStep DEF p

-----------------------------------------------------------------------------
(* The messages of the connection manager.                                  *)

\* A step of both ends that leaves them sound.
LEMMA BothStep ==
    ASSUME IInv, NEW e \in End, NEW t, NEW u,
           rank' = [rank EXCEPT ![e] = t, ![Peer(e)] = u], broken' = broken,
           Whole(t), EndOk(t, broken), Whole(u), EndOk(u, broken), Linked(e, t, u)
    PROVE  IInv'
  <1>1. rank' = [d \in End |-> rank'[d]] /\ rank'[e] = t /\ rank'[Peer(e)] = u
    BY TwoEnds
  <1>2. Sound(rank', broken)
    BY <1>1, SoundAgain
  <1> QED
    BY <1>2 DEF IInv

\* cm_nfr_accept_rec: the process becomes the server of the reconnect.
LEMMA Accepted ==
    ASSUME NEW r, Whole(r), EndOk(r, broken), Up(r) \/ Client(r),
           NEW cid, cid = r.vi + 1, NEW t, t = Accept(r, cid)
    PROVE  /\ Whole(t) /\ EndOk(t, broken) /\ Server(t) /\ SameCalls(r, t)
           /\ t.cid = cid /\ t.req = r.req
  <1>1. /\ DOMAIN t = RankFields /\ t.wire = r.wire /\ t.cq = r.cq /\ t.halt = r.halt
        /\ t.queued = r.queued /\ t.waiting = r.waiting /\ t.vi = r.vi
        /\ t.status = r.status /\ t.state = "none" /\ t.cli = "idle"
        /\ t.srv = "requested" /\ t.cid = cid /\ t.fresh = r.fresh /\ t.req = r.req
        /\ t.bad = r.bad /\ t.phase = r.phase
    BY DEF Accept, Whole, RankFields
  <1>2. Whole(t) /\ SameCalls(r, t)
    BY <1>1 DEF Whole, SameCalls
  <1>3. Server(t)
    BY <1>1 DEF Server, Up, Client
  <1>4. EndOk(t, broken)
    BY <1>1, <1>3 DEF EndOk, ErrorsIn, Counts, Server, Fresh, Seen, Asked, OnNewQp
  <1> QED
    BY <1>1, <1>2, <1>3, <1>4

\* The request has been taken off its way, and may be sent again.
LEMMA Resent ==
    ASSUME NEW p, Whole(p), EndOk(p, broken), Client(p) \/ Server(p),
           NEW u, u = [p EXCEPT !.req = (p.cli = "requesting")]
    PROVE  /\ Whole(u) /\ EndOk(u, broken) /\ SameCalls(p, u)
           /\ Client(p) => Client(u)
           /\ Server(p) => Server(u) /\ ~u.req
           /\ u.cid = p.cid
  <1>1. /\ DOMAIN u = RankFields /\ u.req = (p.cli = "requesting")
        /\ \A f \in RankFields \ {"req"} : u[f] = p[f]
    BY DEF Whole, RankFields
  <1>2. /\ u.vi = p.vi /\ u.status = p.status /\ u.state = p.state /\ u.cli = p.cli
        /\ u.srv = p.srv /\ u.cid = p.cid /\ u.fresh = p.fresh /\ u.phase = p.phase
        /\ u.bad = p.bad /\ u.replies = p.replies /\ u.halt = p.halt
        /\ u.wire = p.wire /\ u.cq = p.cq /\ u.queued = p.queued /\ u.waiting = p.waiting
    BY <1>1 DEF RankFields
  <1>3. Whole(u) /\ SameCalls(p, u)
    BY <1>1, <1>2 DEF Whole, SameCalls
  <1>4. (Client(p) => Client(u)) /\ (Server(p) => Server(u) /\ ~u.req)
    BY <1>1, <1>2 DEF Client, Server
  <1>5. ~Fresh(u) /\ ~Seen(u) /\ ~Asked(u)
    BY <1>4 DEF Client, Server, Fresh, Seen, Asked, OnNewQp
  <1> QED
    BY <1>2, <1>3, <1>4, <1>5 DEF EndOk, ErrorsIn, Counts

\* Who serves the request of p, and what is left of it.
LEMMA RequestLinked ==
    ASSUME NEW e \in End, NEW r, NEW p, Whole(r), EndOk(r, broken),
           Whole(p), EndOk(p, broken), Linked(e, r, p), p.req,
           NEW t, t = Requested(r, e, Peer(e), p.cid),
           NEW u, u = [p EXCEPT !.req = (p.cli = "requesting")]
    PROVE  /\ Whole(t) /\ EndOk(t, broken) /\ Linked(e, t, u)
           /\ Whole(u) /\ EndOk(u, broken)
  <1>1. r.vi \in Nat /\ p.vi \in Nat
    BY DEF EndOk
  <1>2. e \in Nat /\ Peer(e) \in Nat /\ Peer(Peer(e)) = e
    BY DEF End, Peer
  <1>3. \/ Asking(p, r) \/ Crossing(r, p) \/ Crossing(p, r)
        \/ Serving(e, r, p) \/ Serving(Peer(e), p, r)
    BY DEF Linked, Pair, Calm, Asking, Crossing, Serving, Waiting, Requesting,
       Replying, Fresh, Seen, Asked, OnNewQp
  <1>4. /\ Whole(u) /\ EndOk(u, broken) /\ SameCalls(p, u)
        /\ Client(p) => Client(u)
        /\ Server(p) => Server(u) /\ ~u.req
        /\ u.cid = p.cid
    <2>1. Client(p) \/ Server(p)
      BY <1>3 DEF Asking, Crossing, Serving
    <2> QED
      BY <2>1, Resent, Zenon
  <1>5. ASSUME Asking(p, r)
        PROVE  Whole(t) /\ EndOk(t, broken) /\ Linked(e, t, u)
    <2>1. Up(r) /\ p.cid = r.vi + 1 /\ r.cid = r.vi /\ ~r.req /\ Client(p)
      BY <1>5 DEF Asking, Up, Client
    <2>2. t = Accept(r, p.cid)
      BY <1>1, <2>1 DEF Requested, Up
    <2>3. /\ Whole(t) /\ EndOk(t, broken) /\ Server(t) /\ SameCalls(r, t)
          /\ t.cid = p.cid /\ t.req = r.req
      BY <2>1, <2>2, Accepted
    <2>4. NoCall(u, t) /\ NoCall(t, u)
      BY <1>4, <1>5, <2>3, CallsSame DEF Asking
    <2>5. Serving(Peer(e), u, t)
      BY <1>4, <2>1, <2>3, <2>4 DEF Serving
    <2> QED
      BY <2>3, <2>5 DEF Linked, Pair
  <1>6. ASSUME Crossing(r, p) \/ Crossing(p, r)
        PROVE  Whole(t) /\ EndOk(t, broken) /\ Linked(e, t, u)
    <2>1. /\ Client(r) /\ Client(p) /\ p.cid = r.cid /\ r.cid = r.vi + 1
          /\ NoCall(r, p) /\ NoCall(p, r)
      BY <1>6 DEF Crossing, Client
    <2>2. t = IF Peer(e) < e THEN Accept(r, p.cid) ELSE r
      BY <2>1 DEF Requested, YieldsTo, Client
    <2>3. CASE Peer(e) < e
      <3>1. /\ Whole(t) /\ EndOk(t, broken) /\ Server(t) /\ SameCalls(r, t)
            /\ t.cid = p.cid /\ t.req = r.req
        BY <2>1, <2>2, <2>3, Accepted
      <3>2. NoCall(u, t) /\ NoCall(t, u)
        BY <1>4, <2>1, <3>1, CallsSame
      <3>3. Serving(Peer(e), u, t)
        BY <1>4, <1>2, <2>1, <2>3, <3>1, <3>2 DEF Serving
      <3> QED
        BY <3>1, <3>3 DEF Linked, Pair
    <2>4. CASE ~(Peer(e) < e)
      <3>1. t = r
        BY <2>2, <2>4
      <3>2. NoCall(u, t) /\ NoCall(t, u)
        BY <1>4, <2>1, <3>1, CallsSame
      <3>3. Crossing(t, u)
        BY <1>4, <2>1, <3>1, <3>2 DEF Crossing
      <3> QED
        BY <3>1, <3>3 DEF Linked, Pair
    <2> QED
      BY <2>3, <2>4
  <1>7. ASSUME Serving(e, r, p)
        PROVE  Whole(t) /\ EndOk(t, broken) /\ Linked(e, t, u)
    <2>1. Client(r) /\ Server(p) /\ p.cid = r.cid /\ e < Peer(e) /\ NoCall(r, p) /\ NoCall(p, r)
      BY <1>7 DEF Serving
    <2>2. t = r
      BY <1>2, <2>1 DEF Requested, YieldsTo, Client
    <2>3. NoCall(u, t) /\ NoCall(t, u)
      BY <1>4, <2>1, <2>2, CallsSame
    <2>4. Serving(e, t, u)
      BY <1>4, <2>1, <2>2, <2>3 DEF Serving
    <2> QED
      BY <2>2, <2>4 DEF Linked, Pair
  <1>8. ASSUME Serving(Peer(e), p, r)
        PROVE  Whole(t) /\ EndOk(t, broken) /\ Linked(e, t, u)
    <2>1. Client(p) /\ Server(r) /\ p.cid = r.cid /\ NoCall(r, p) /\ NoCall(p, r)
      BY <1>8 DEF Serving
    <2>2. r.cid >= p.cid
      BY <1>1, <2>1 DEF Server
    <2>3. t = r
      BY <2>1, <2>2 DEF Requested, Server
    <2>4. NoCall(u, t) /\ NoCall(t, u)
      BY <1>4, <2>1, <2>3, CallsSame
    <2>5. Serving(Peer(e), u, t)
      BY <1>4, <1>8, <2>1, <2>3, <2>4 DEF Serving
    <2> QED
      BY <2>3, <2>5 DEF Linked, Pair
  <1> QED
    BY <1>3, <1>4, <1>5, <1>6, <1>7, <1>8

LEMMA CmRequestStep ==
    ASSUME IInv, NEW e \in End, CmRequest(e)
    PROVE  IInv'
  <1> DEFINE r == rank[e]
             p == rank[Peer(e)]
             t == Requested(r, e, Peer(e), p.cid)
             u == [p EXCEPT !.req = (p.cli = "requesting")]
  <1>1. p.req /\ broken' = broken
    BY DEF CmRequest, net
  <1>2. rank' = [rank EXCEPT ![e] = t, ![Peer(e)] = u]
    BY TwoEnds DEF CmRequest
  <1>3. /\ Whole(r) /\ EndOk(r, broken) /\ Whole(p) /\ EndOk(p, broken) /\ Linked(e, r, p)
    BY TwoEnds
  <1>4. /\ Whole(t) /\ EndOk(t, broken) /\ Linked(e, t, u)
        /\ Whole(u) /\ EndOk(u, broken)
    <2> HIDE DEF r, p
    <2> QED
      BY <1>1, <1>3, RequestLinked
  <1> HIDE DEF t, u
  <1> QED
    BY <1>1, <1>2, <1>4, BothStep

\* cm_enable: the client has its new queue pair.
LEMMA CmReplyStep ==
    ASSUME IInv, NEW e \in End, CmReply(e)
    PROVE  IInv'
  <1> DEFINE r == rank[e]
             p == rank[Peer(e)]
             s == ReEnable(r)
             t == [s EXCEPT !.cli = "idle", !.req = FALSE, !.fresh = TRUE]
  <1>1. /\ rank' = [rank EXCEPT ![e] = t] /\ broken' = broken /\ ~p.req
        /\ p.srv = "requested" /\ r.cli = "requesting"
    BY DEF CmReply, net
  <1>2. Whole(r) /\ EndOk(r, broken) /\ Linked(e, r, p)
    BY TwoEnds
  <1> HIDE DEF r, p
  <1>3. Serving(e, r, p)
    BY <1>1, <1>2 DEF Linked, Pair, Calm, Asking, Crossing, Serving, Waiting, Requesting,
       Replying, Fresh, Seen, Asked, OnNewQp, Up, Client, Server
  <1>4. /\ Client(r) /\ r.vi \in Nat /\ r.cid = r.vi + 1 /\ r.bad = 1
        /\ ErrorsHere(r) /\ \A g \in broken : g \in Nat /\ g <= r.vi
    BY <1>2, <1>3 DEF Serving, Client, EndOk, Counts, ErrorsHere
  <1>5. /\ Whole(s) /\ s.wire = << >> /\ s.vi = r.cid /\ s.status = "rec"
        /\ \A i \in DOMAIN s.cq : s.cq[i].what # "error"
        /\ \A c \in Call : Heard(r.cq, c) = {} => Heard(s.cq, c) = {}
        /\ s.halt = r.halt /\ s.state = "none" /\ s.srv = "idle"
        /\ s.cid = r.cid /\ s.phase = "pool" /\ s.bad = 1
    <2>1. /\ Whole(s) /\ s.wire = << >> /\ s.vi = r.cid
          /\ s.status = (IF r.status = "down" THEN "rec" ELSE r.status)
          /\ \A i \in DOMAIN s.cq : s.cq[i].what # "error"
          /\ \A c \in Call : Heard(r.cq, c) = {} => Heard(s.cq, c) = {}
          /\ s.halt = r.halt /\ s.state = r.state /\ s.srv = r.srv
          /\ s.cid = r.cid /\ s.phase = r.phase /\ s.bad = r.bad
      <3> HIDE DEF s
      <3>1. s = ReEnable(r)
        BY DEF s
      <3>2. Whole(r) /\ ErrorsHere(r)
        BY <1>2, <1>4
      <3> QED
        BY <3>1, <3>2, ReEnabled
    <2>2. /\ r.status = "down" /\ r.state = "none" /\ r.srv = "idle"
          /\ r.phase = "pool" /\ r.bad = 1
      BY <1>4 DEF Client
    <2> HIDE DEF s
    <2> QED
      BY <2>1, <2>2
  <1> HIDE DEF s
  <1>6. /\ DOMAIN t = RankFields /\ t.wire = << >> /\ t.cq = s.cq /\ t.halt = r.halt
        /\ t.queued = s.queued /\ t.waiting = s.waiting /\ t.vi = r.cid
        /\ t.status = "rec" /\ t.state = "none" /\ t.cli = "idle" /\ t.srv = "idle"
        /\ t.cid = r.cid /\ t.fresh = TRUE /\ t.req = FALSE /\ t.bad = 1 /\ t.phase = "pool"
    BY <1>5 DEF Whole, RankFields
  <1> HIDE DEF t
  <1>7. Whole(t)
    BY <1>5, <1>6 DEF Whole
  <1>8. Fresh(t)
    BY <1>6 DEF Fresh, OnNewQp
  <1>9. r.cid \in Nat /\ r.cid \notin broken /\ \A g \in broken : g \in Nat /\ g <= r.cid
    BY <1>4
  <1>10. EndOk(t, broken)
    BY <1>2, <1>5, <1>6, <1>9 DEF EndOk, ErrorsIn, Counts
  <1>11. NoCall(t, p) /\ NoCall(p, t)
    <2>1. \A c \in Call : Calls(t.wire, c) = {}
      BY <1>6, NoElements DEF Calls
    <2> QED
      BY <1>3, <1>5, <1>6, <2>1 DEF Serving, NoCall, NoneOf
  <1>12. Waiting(t, p)
    BY <1>1, <1>3, <1>6, <1>8, <1>11 DEF Serving, Waiting
  <1> QED
    BY <1>1, <1>7, <1>10, <1>12, OneStep DEF p, Linked, Pair

-----------------------------------------------------------------------------
(* The fabric.                                                              *)

\* A step that leaves the stages of both ends alone, and the calls between them.
LEMMA BothLinked ==
    ASSUME NEW e \in End, NEW r, NEW p, Linked(e, r, p),
           NEW t, SameStage(r, t), NEW u, SameStage(p, u),
           NoCall(r, p) => NoCall(t, u), NoCall(p, r) => NoCall(u, t),
           \A c \in Call : OneCall(r, p, c) => OneCall(t, u, c),
           \A c \in Call : OneCall(p, r, c) => OneCall(u, t, c)
    PROVE  Linked(e, t, u)
  <1>1. "nfr_req" \in Call /\ "nfr_rep" \in Call
    BY DEF Call
  <1>2. /\ t.cid = r.cid /\ t.vi = r.vi /\ t.req = r.req
        /\ u.cid = p.cid /\ u.vi = p.vi /\ u.req = p.req
    BY DEF SameStage
  <1>3. Pair(e, r, p) => Pair(e, t, u)
    BY <1>1, <1>2, StagesSame DEF Pair, Calm, Asking, Crossing, Serving, Waiting,
       Requesting, Replying
  <1>4. Pair(Peer(e), p, r) => Pair(Peer(e), u, t)
    BY <1>1, <1>2, StagesSame DEF Pair, Calm, Asking, Crossing, Serving, Waiting,
       Requesting, Replying
  <1> QED
    BY <1>3, <1>4 DEF Linked

\* A packet that leaves the wire: at most one of two calls was it.
LEMMA CallsTail ==
    ASSUME NEW s, IsSeq(s), s # << >>, NEW c
    PROVE  /\ Calls(s, c) = {} => Calls(Tail(s), c) = {} /\ Head(s).type # c
           /\ (\E i : Calls(s, c) \subseteq {i}) =>
                 /\ \E i : Calls(Tail(s), c) \subseteq {i}
                 /\ Head(s).type = c => Calls(Tail(s), c) = {}
  <1>1. /\ \A k \in Calls(Tail(s), c) : k \in Nat /\ k + 1 \in Calls(s, c) /\ k + 1 # 1
        /\ 1 \in DOMAIN s /\ Head(s) = s[1]
    BY TailSeq DEF Calls
  <1>2. ASSUME NEW i, Calls(s, c) \subseteq {i}
        PROVE  \E j : Calls(Tail(s), c) \subseteq {j}
    <2>1. CASE Calls(Tail(s), c) = {}
      BY <2>1
    <2>2. CASE Calls(Tail(s), c) # {}
      <3>1. PICK j \in Calls(Tail(s), c) : TRUE
        BY <2>2
      <3>2. \A k \in Calls(Tail(s), c) : k = j
        BY <1>1, <1>2
      <3> QED
        BY <3>2
    <2> QED
      BY <2>1, <2>2
  <1>3. Head(s).type = c => 1 \in Calls(s, c)
    BY <1>1 DEF Calls
  <1> QED
    BY <1>1, <1>2, <1>3

\* A call is on the wire before a packet lands or in the other end's
\* completion queue after it, and never in both.
LEMMA LandedCalls ==
    ASSUME NEW r, NEW p, IsSeq(r.wire), IsSeq(p.cq), r.wire # << >>,
           NEW t, NEW u, t.wire = Tail(r.wire),
           NEW x, x.what = "recv", x.pkt = Head(r.wire),
           u.cq = Append(p.cq, x) \/ u.cq = p.cq, NEW c
    PROVE  /\ NoneOf(r, p, c) => NoneOf(t, u, c)
           /\ OneOf(r, p, c) => OneOf(t, u, c)
  <1>1. x.pkt.type # c => Heard(u.cq, c) = Heard(p.cq, c)
    <2> DEFINE q == p.cq
    <2>1. x.pkt.type # c => Heard(Append(q, x), c) = Heard(q, c)
      <3> HIDE DEF q
      <3>1. IsSeq(q)
        BY DEF q
      <3> QED
        BY <3>1, HeardAppend
    <2> QED
      BY <2>1
  <1>2. Heard(p.cq, c) = {} => Heard(u.cq, c) \subseteq {Len(p.cq) + 1}
    BY AppendSeq DEF Heard
  <1>3. NoneOf(r, p, c) => NoneOf(t, u, c)
    BY <1>1, CallsTail DEF NoneOf
  <1>4. ASSUME Heard(p.cq, c) = {}, NEW i, Calls(r.wire, c) \subseteq {i}
        PROVE  OneOf(t, u, c)
    <2>1. CASE x.pkt.type = c
      <3>1. Calls(t.wire, c) = {}
        BY <1>4, <2>1, CallsTail
      <3> QED
        BY <1>2, <1>4, <3>1 DEF OneOf
    <2>2. CASE x.pkt.type # c
      <3>1. \E j : Calls(t.wire, c) \subseteq {j}
        BY <1>4, CallsTail
      <3> QED
        BY <1>1, <1>4, <2>2, <3>1 DEF OneOf
    <2> QED
      BY <2>1, <2>2
  <1>5. ASSUME Calls(r.wire, c) = {}, NEW i, Heard(p.cq, c) \subseteq {i}
        PROVE  OneOf(t, u, c)
    <2>1. Calls(t.wire, c) = {} /\ x.pkt.type # c
      BY <1>5, CallsTail
    <2> QED
      BY <1>1, <1>5, <2>1 DEF OneOf
  <1> QED
    BY <1>3, <1>4, <1>5 DEF OneOf

LEMMA LandStep ==
    ASSUME IInv, NEW e \in End, Land(e)
    PROVE  IInv'
  <1> DEFINE r == rank[e]
             p == rank[Peer(e)]
             pkt == Head(r.wire)
             w == Tail(r.wire)
             n == Append(r.sent, pkt)
             x == [what |-> "recv", qp |-> r.vi, pkt |-> pkt]
             q == Append(p.cq, x)
             t == [r EXCEPT !.wire = w, !.sent = n]
             v == [p EXCEPT !.cq = q]
             u == IF pkt.type = "read" THEN p ELSE v
  <1>1. r.wire # << >> /\ broken' = broken
    BY DEF Land, net
  <1>2. rank' = [rank EXCEPT ![e] = t, ![Peer(e)] = u]
    BY DEF Land
  <1>3. /\ Whole(r) /\ EndOk(r, broken) /\ Whole(p) /\ EndOk(p, broken) /\ Linked(e, r, p)
    BY TwoEnds
  <1>4. x.what = "recv" /\ x.pkt = pkt
    OBVIOUS
  <1> HIDE DEF r, p, n, x
  <1>5. IsSeq(w)
    BY <1>1, <1>3, TailSeq DEF Whole
  <1>6. Completions(q) /\ \A i \in DOMAIN q : q[i].what = "error" =>
            i \in DOMAIN p.cq /\ q[i] = p.cq[i]
    <2>1. Completions(p.cq) /\ IsSeq(p.cq)
      BY <1>3 DEF Whole, Completions
    <2>2. x.what \in {"error", "send", "recv"}
      BY <1>4
    <2>3. Completions(q)
      BY <2>1, <2>2, CompletionsAppend
    <2>4. /\ DOMAIN q = DOMAIN p.cq \cup {Len(p.cq) + 1}
          /\ \A i \in DOMAIN p.cq : q[i] = p.cq[i]
          /\ q[Len(p.cq) + 1] = x
      BY <2>1, AppendSeq, Zenon
    <2> HIDE DEF q
    <2> QED
      BY <1>4, <2>3, <2>4
  <1>7. q = Append(p.cq, x) /\ w = Tail(r.wire) /\ pkt = Head(r.wire)
    OBVIOUS
  <1> HIDE DEF w, q, pkt
  <1>8. /\ DOMAIN t = RankFields /\ SameStage(r, t) /\ t.wire = w /\ t.cq = r.cq
        /\ t.halt = r.halt /\ t.queued = r.queued /\ t.waiting = r.waiting
    BY <1>3 DEF RankFields, SameStage, Whole
  <1>9. /\ DOMAIN v = RankFields /\ SameStage(p, v) /\ v.wire = p.wire /\ v.cq = q
        /\ v.halt = p.halt /\ v.queued = p.queued /\ v.waiting = p.waiting
    BY <1>3 DEF RankFields, SameStage, Whole
  <1>10. /\ DOMAIN u = RankFields /\ SameStage(p, u) /\ u.wire = p.wire
         /\ u.cq = q \/ u.cq = p.cq
         /\ u.halt = p.halt /\ u.queued = p.queued /\ u.waiting = p.waiting
    BY <1>3, <1>9 DEF SameStage, Whole
  <1> HIDE DEF t, v, u
  <1>11. Whole(t) /\ Whole(u)
    BY <1>3, <1>5, <1>6, <1>8, <1>10 DEF Whole
  <1>12. t.vi = r.vi /\ u.vi = p.vi
    BY <1>8, <1>10 DEF SameStage
  <1>13. ErrorsIn(t, broken) /\ ErrorsIn(u, broken)
    BY <1>3, <1>6, <1>8, <1>10, <1>12 DEF EndOk, ErrorsIn
  <1>14. EndOk(t, broken) /\ EndOk(u, broken)
    BY <1>3, <1>8, <1>10, <1>12, <1>13, StagesSame DEF EndOk
  <1>15. /\ IsSeq(r.wire) /\ IsSeq(p.cq)
         /\ u.cq = Append(p.cq, x) \/ u.cq = p.cq
    BY <1>3, <1>7, <1>10 DEF Whole, Completions
  <1>16. \A c : (NoneOf(r, p, c) => NoneOf(t, u, c)) /\ (OneOf(r, p, c) => OneOf(t, u, c))
    BY <1>1, <1>4, <1>7, <1>8, <1>15, LandedCalls
  <1>17. \A c : (NoneOf(p, r, c) => NoneOf(u, t, c)) /\ (OneOf(p, r, c) => OneOf(u, t, c))
    BY <1>8, <1>10 DEF NoneOf, OneOf
  <1>18. /\ NoCall(r, p) => NoCall(t, u)
         /\ NoCall(p, r) => NoCall(u, t)
         /\ \A c \in Call : OneCall(r, p, c) => OneCall(t, u, c)
         /\ \A c \in Call : OneCall(p, r, c) => OneCall(u, t, c)
    BY <1>16, <1>17 DEF NoCall, OneCall
  <1>19. Linked(e, t, u)
    BY <1>3, <1>8, <1>10, <1>18, BothLinked
  <1> QED
    BY <1>1, <1>2, <1>11, <1>14, <1>19, BothStep DEF p

\* An end before and after the network has failed the queue pair g.
Failed(r, g, t) ==
    \/ t = r
    \/ r.vi = g /\ \E f : /\ f.what = "error" /\ f.qp = g
                          /\ t = [r EXCEPT !.wire = << >>, !.sent = << >>, !.cq = Append(@, f)]

\* The end t is as far as r was, and has nothing to tell of the fault of g.
StillUp(r, g, t) ==
    /\ Whole(t) /\ EndOk(t, broken \cup {g}) /\ Up(t)
    /\ t.cid = r.cid /\ t.req = r.req
    /\ \A c : /\ Calls(r.wire, c) = {} => Calls(t.wire, c) = {}
              /\ Heard(t.cq, c) = Heard(r.cq, c)

\* A fault of a connection that is calm is nothing that either end knows of.
LEMMA FailedEnd ==
    ASSUME NEW r, Whole(r), EndOk(r, broken), Up(r), NEW g, g = r.vi,
           \A i \in DOMAIN r.cq : r.cq[i].what # "error",
           NEW t, Failed(r, g, t)
    PROVE  StillUp(r, g, t)
  <1>1. /\ ~Fresh(r) /\ ~Seen(r) /\ ~Asked(r) /\ g \in Nat
        /\ \A a \in broken : a \in Nat /\ a <= r.vi
    BY DEF EndOk, Up, Fresh, Seen, Asked, OnNewQp
  <1>2. CASE t = r
    BY <1>1, <1>2 DEF EndOk, ErrorsIn, StillUp
  <1>3. ASSUME NEW f, f.what = "error", f.qp = g,
               t = [r EXCEPT !.wire = << >>, !.sent = << >>, !.cq = Append(@, f)]
        PROVE  StillUp(r, g, t)
    <2> DEFINE n == << >>
               q == Append(r.cq, f)
    <2>1. t = [r EXCEPT !.wire = n, !.sent = n, !.cq = q]
      BY <1>3
    <2>2. IsSeq(n) /\ \A c : Calls(n, c) = {}
      BY NoElements DEF Calls
    <2>3. Completions(q) /\ \A c : Heard(q, c) = Heard(r.cq, c)
      BY <1>3, CompletionsAppend, HeardAppend DEF Whole, Completions
    <2>4. \A i \in DOMAIN q : q[i].what = "error" => q[i].qp = g
      BY <1>3, AppendSeq DEF Whole, Completions
    <2> HIDE DEF n, q
    <2>5. /\ DOMAIN t = RankFields /\ SameStage(r, t) /\ t.wire = n /\ t.cq = q
          /\ t.halt = r.halt /\ t.queued = r.queued /\ t.waiting = r.waiting
      BY <2>1 DEF RankFields, SameStage, Whole
    <2>6. Whole(t)
      BY <2>2, <2>3, <2>5 DEF Whole
    <2>7. t.vi = r.vi /\ t.cid = r.cid /\ t.req = r.req
      BY <2>5 DEF SameStage
    <2>8. Up(t) /\ Counts(t) /\ ~Fresh(t) /\ ~Seen(t) /\ ~Asked(t)
      BY <1>1, <2>5, StagesSame DEF EndOk
    <2>9. EndOk(t, broken \cup {g})
      BY <1>1, <2>4, <2>5, <2>7, <2>8 DEF EndOk, ErrorsIn
    <2> QED
      BY <2>2, <2>3, <2>5, <2>6, <2>7, <2>8, <2>9 DEF StillUp
  <1> QED
    BY <1>2, <1>3 DEF Failed

LEMMA FaultStep ==
    ASSUME IInv, ~FaultInHandshake, NEW e \in End, Fault(rank[e].vi)
    PROVE  IInv'
  <1> DEFINE r == rank[e]
             p == rank[Peer(e)]
             g == r.vi
             t == rank'[e]
             u == rank'[Peer(e)]
  <1>1. Recovered(e) /\ Recovered(Peer(e)) /\ broken' = broken \cup {g}
    BY Peers DEF Fault
  <1>2. ASSUME NEW d \in End
        PROVE  Failed(rank[d], g, rank'[d])
    <2>1. Failure(rank[d]).what = "error" /\ Failure(rank[d]).qp = rank[d].vi
      BY DEF Failure, Completion
    <2>2. rank'[d] = IF rank[d].vi = g /\ rank[d].wire \o rank[d].sent # << >>
                     THEN [rank[d] EXCEPT !.wire = << >>, !.sent = << >>,
                                          !.cq = Append(@, Failure(rank[d]))]
                     ELSE rank[d]
      BY DEF Fault
    <2> QED
      BY <2>1, <2>2 DEF Failed
  <1>3. rank' = [d \in End |-> rank'[d]]
    BY DEF Fault
  <1>4. /\ Whole(r) /\ EndOk(r, broken) /\ Whole(p) /\ EndOk(p, broken) /\ Linked(e, r, p)
        /\ Peer(e) \in End
    BY TwoEnds
  <1>5. /\ r.state = "pt2pt" /\ p.state = "pt2pt" /\ r.vi = p.vi
        /\ \A i \in DOMAIN r.cq : r.cq[i].what # "error"
        /\ \A i \in DOMAIN p.cq : p.cq[i].what # "error"
    BY <1>1 DEF Recovered
  <1>6. Failed(r, g, t) /\ Failed(p, g, u)
    BY <1>2, <1>4
  <1> HIDE DEF r, p, t, u
  <1>7. Calm(r, p) \/ Calm(p, r)
    BY <1>4, <1>5 DEF Linked, Pair, Asking, Crossing, Serving, Waiting, Requesting,
       Replying, Fresh, Seen, Asked, OnNewQp, Client, Server
  <1>8. Calm(r, p)
    BY <1>7 DEF Calm
  <1>9. /\ Whole(t) /\ EndOk(t, broken \cup {g}) /\ Up(t)
        /\ t.cid = r.cid /\ t.req = r.req
        /\ \A c : /\ Calls(r.wire, c) = {} => Calls(t.wire, c) = {}
                  /\ Heard(t.cq, c) = Heard(r.cq, c)
    <2>1. Up(r)
      BY <1>8 DEF Calm
    <2>2. g = r.vi
      BY DEF r
    <2>3. /\ Whole(r) /\ EndOk(r, broken) /\ Failed(r, g, t)
          /\ \A i \in DOMAIN r.cq : r.cq[i].what # "error"
      BY <1>4, <1>5, <1>6
    <2> HIDE DEF g
    <2> QED
      <3>1. StillUp(r, g, t)
        BY <2>1, <2>2, <2>3, FailedEnd
      <3> QED
        BY <3>1 DEF StillUp
  <1>10. /\ Whole(u) /\ EndOk(u, broken \cup {g}) /\ Up(u)
         /\ u.cid = p.cid /\ u.req = p.req
         /\ \A c : /\ Calls(p.wire, c) = {} => Calls(u.wire, c) = {}
                   /\ Heard(u.cq, c) = Heard(p.cq, c)
    <2>1. Up(p)
      BY <1>8 DEF Calm
    <2>2. g = p.vi
      BY <1>5
    <2>3. /\ Whole(p) /\ EndOk(p, broken) /\ Failed(p, g, u)
          /\ \A i \in DOMAIN p.cq : p.cq[i].what # "error"
      BY <1>4, <1>5, <1>6
    <2> HIDE DEF g
    <2> QED
      <3>1. StillUp(p, g, u)
        BY <2>1, <2>2, <2>3, FailedEnd
      <3> QED
        BY <3>1 DEF StillUp
  <1>11. Calm(t, u)
    BY <1>8, <1>9, <1>10 DEF Calm, NoCall, NoneOf
  <1>12. Sound(rank', broken')
    BY <1>1, <1>3, <1>9, <1>10, <1>11, SoundAgain DEF t, u, Linked, Pair
  <1> QED
    BY <1>12 DEF IInv

-----------------------------------------------------------------------------
(* The theorem.                                                             *)

LEMMA InitStep == Init => IInv
  <1> SUFFICES ASSUME Init PROVE IInv
    OBVIOUS
  <1>1. PICK s \in Scripts : rank = [e \in End |-> Connected(s[e])]
    BY DEF Init
  <1>2. broken = {}
    BY DEF Init
  <1>3. ASSUME NEW e \in End
        PROVE  /\ Whole(rank[e]) /\ EndOk(rank[e], broken) /\ Up(rank[e])
               /\ rank[e].cid = 0 /\ ~rank[e].req
               /\ \A c : Calls(rank[e].wire, c) = {} /\ Heard(rank[e].cq, c) = {}
    <2> DEFINE r == rank[e]
               n == << >>
    <2>1. r = Connected(s[e])
      BY <1>1
    <2>2. /\ DOMAIN r = RankFields /\ r.wire = n /\ r.cq = n /\ r.queued = n /\ r.waiting = n
          /\ r.vi = 0 /\ r.status = "up" /\ r.state = "pt2pt" /\ r.cli = "idle"
          /\ r.srv = "idle" /\ r.cid = 0 /\ r.fresh = FALSE /\ r.req = FALSE
          /\ r.phase = "run" /\ r.bad = 0 /\ r.halt = "no"
      BY <2>1 DEF Connected, RankFields
    <2>3. IsSeq(n) /\ DOMAIN n = {}
      BY NoElements
    <2> HIDE DEF r, n
    <2>4. Whole(r)
      BY <2>2, <2>3 DEF Whole, Completions, List
    <2>5. Up(r) /\ ~Fresh(r) /\ ~Seen(r) /\ ~Asked(r)
      BY <2>2 DEF Up, Fresh, Seen, Asked, OnNewQp
    <2>6. EndOk(r, broken)
      BY <1>2, <2>2, <2>3, <2>5 DEF EndOk, ErrorsIn, Counts
    <2>7. \A c : Calls(r.wire, c) = {} /\ Heard(r.cq, c) = {}
      BY <2>2, <2>3 DEF Calls, Heard
    <2> QED
      BY <2>2, <2>4, <2>5, <2>6, <2>7 DEF r
  <1>4. ASSUME NEW e \in End
        PROVE  Linked(e, rank[e], rank[Peer(e)])
    <2>1. Calm(rank[e], rank[Peer(e)])
      BY <1>3, Peers DEF Calm, NoCall, NoneOf
    <2> QED
      BY <2>1 DEF Linked, Pair
  <1>5. rank = [e \in End |-> rank[e]]
    BY <1>1
  <1> QED
    BY <1>3, <1>4, <1>5 DEF IInv, Sound

LEMMA NextStep ==
    ASSUME ~FaultInHandshake, IInv, [Next]_vars
    PROVE  IInv'
  <1>1. CASE UNCHANGED vars
    BY <1>1 DEF vars, IInv
  <1>2. ASSUME NEW e \in End, Thread(e)
        PROVE  IInv'
    BY <1>2, SendStep, MatchStep, EndPoolStep, EndWaitStep, PollStep DEF Thread
  <1>3. ASSUME NEW e \in End, CmRequest(e) \/ CmReply(e) \/ Land(e) \/ Acknowledge(e)
        PROVE  IInv'
    BY <1>3, CmRequestStep, CmReplyStep, LandStep, AcknowledgeStep
  <1>4. ASSUME NEW e \in End, Fault(rank[e].vi)
        PROVE  IInv'
    BY <1>4, FaultStep
  <1> QED
    BY <1>1, <1>2, <1>3, <1>4 DEF Next

LEMMA IInvAgrees == IInv => HandshakeAgrees /\ LockReleased
  <1> SUFFICES ASSUME IInv PROVE HandshakeAgrees /\ LockReleased
    OBVIOUS
  <1>1. OneServer
    <2> SUFFICES ASSUME \A e \in End : rank[e].srv = "requested" PROVE FALSE
      BY DEF OneServer
    <2>1. 1 \in End /\ Peer(1) \in End
      BY DEF End, Peer
    <2>2. Linked(1, rank[1], rank[Peer(1)])
      BY <2>1, TwoEnds
    <2>3. rank[1].srv = "requested" /\ rank[Peer(1)].srv = "requested"
      BY <2>1
    <2> QED
      BY <2>2, <2>3 DEF Linked, Pair, Calm, Asking, Crossing, Serving, Waiting,
         Requesting, Replying, Up, Client, Fresh, Seen, Asked, OnNewQp
  <1>2. BadConnectionsCounted
    BY TwoEnds DEF BadConnectionsCounted, EndOk, Counts
  <1>3. ConnectedOnNewest
    <2> SUFFICES ASSUME NEW e \in End, rank[e].state = "pt2pt" PROVE rank[e].vi = rank[e].cid
      BY DEF ConnectedOnNewest
    <2>1. Linked(e, rank[e], rank[Peer(e)])
      BY TwoEnds
    <2> QED
      BY <2>1 DEF Linked, Pair, Calm, Asking, Crossing, Serving, Waiting,
         Requesting, Replying, Up, Client, Server, Fresh, Seen, Asked, OnNewQp
  <1>4. LockReleased
    BY TwoEnds DEF LockReleased, EndOk
  <1> QED
    BY <1>1, <1>2, <1>3, <1>4 DEF HandshakeAgrees

\* While no fault hits a reconnect under way, the two ends of a connection, the
\* two threads of each and the count of broken connections agree on the
\* reconnect, whatever the application sends, however the packet numbers are
\* chosen and however often the network fails: never do both ends serve
\* (cm.c:953), a process never runs on a connection it counts as broken
\* (cm_user.c:236, nfr.c:1010), and it is never connected on a queue pair that
\* is not its newest.
THEOREM HandshakeTheorem ==
    ASSUME ~FaultInHandshake
    PROVE  Spec => []HandshakeAgrees
  <1>1. IInv /\ [Next]_vars => IInv'
    BY NextStep
  <1> QED
    BY <1>1, InitStep, IInvAgrees, PTL DEF Spec

\* Under the same condition MPICM_Reconnect_req gives its lock back on every
\* way out (cm.c:1546): a run shows that a fault in a reconnect makes it keep it.
THEOREM LockTheorem ==
    ASSUME ~FaultInHandshake
    PROVE  Spec => []LockReleased
  <1>1. IInv /\ [Next]_vars => IInv'
    BY NextStep
  <1> QED
    BY <1>1, InitStep, IInvAgrees, PTL DEF Spec
-----------------------------------------------------------------------------
(* Packets under way.  From here on the messages are eager.                 *)

\* An empty completion takes part in nothing.
Nothing == Packet("noop", 0, 0, 0)
\* The packets that a completion queue holds, one per completion
PktIn(x) == IF x.what = "recv" THEN x.pkt ELSE Nothing
Pkts(q) == [i \in DOMAIN q |-> PktIn(q[i])]

LEMMA MapSeq ==
    ASSUME NEW s, IsSeq(s), NEW t, t = [i \in DOMAIN s |-> t[i]]
    PROVE  IsSeq(t) /\ Len(t) = Len(s) /\ DOMAIN t = DOMAIN s
  <1> DEFINE n == Len(s)
             S == {t[i] : i \in 1 .. n}
  <1>1. n \in Nat /\ DOMAIN s = 1 .. n
    BY SeqFacts
  <1> HIDE DEF n
  <1>2. t = [i \in 1 .. n |-> t[i]] /\ \A i \in 1 .. n : t[i] \in S
    BY <1>1
  <1> HIDE DEF S
  <1>3. t \in [1 .. n -> S]
    BY <1>2
  <1>4. t \in Seq(S) /\ Len(t) = n
    BY <1>1, <1>3
  <1> QED
    BY <1>1, <1>2, <1>4, RangeSeq DEF n

LEMMA SameSeq ==
    ASSUME NEW s, NEW t, IsSeq(s), IsSeq(t), DOMAIN s = DOMAIN t,
           \A i \in DOMAIN s : s[i] = t[i]
    PROVE  s = t
  <1> DEFINE S == Range(s)
             T == Range(t)
  <1>1. s \in Seq(S) /\ t \in Seq(T)
    BY DEF IsSeq
  <1> HIDE DEF S, T
  <1>2. s = [i \in DOMAIN s |-> s[i]] /\ t = [i \in DOMAIN t |-> t[i]]
    BY <1>1
  <1> QED
    BY <1>2

LEMMA PktsSeq ==
    ASSUME NEW q, IsSeq(q)
    PROVE  IsSeq(Pkts(q)) /\ Len(Pkts(q)) = Len(q) /\ DOMAIN Pkts(q) = DOMAIN q
           /\ \A i \in DOMAIN q : Pkts(q)[i] = PktIn(q[i])
  <1> DEFINE t == Pkts(q)
  <1>1. t = [i \in DOMAIN q |-> t[i]] /\ \A i \in DOMAIN q : t[i] = PktIn(q[i])
    BY DEF Pkts
  <1> HIDE DEF t
  <1>2. IsSeq(t) /\ Len(t) = Len(q) /\ DOMAIN t = DOMAIN q
    BY <1>1, MapSeq
  <1> QED
    BY <1>1, <1>2 DEF t

LEMMA PktsAppend ==
    ASSUME NEW q, IsSeq(q), NEW x
    PROVE  Pkts(Append(q, x)) = Append(Pkts(q), PktIn(x))
  <1> DEFINE a == Append(q, x)
             t == Pkts(q)
             y == PktIn(x)
             b == Append(t, y)
             u == Pkts(a)
  <1>1. /\ IsSeq(a) /\ DOMAIN a = DOMAIN q \cup {Len(q) + 1} /\ Len(q) + 1 \notin DOMAIN q
        /\ \A i \in DOMAIN q : a[i] = q[i]
        /\ a[Len(q) + 1] = x
    BY AppendSeq
  <1>2. IsSeq(t) /\ Len(t) = Len(q) /\ DOMAIN t = DOMAIN q /\ \A i \in DOMAIN q : t[i] = PktIn(q[i])
    BY PktsSeq
  <1> HIDE DEF t, a
  <1>3. /\ IsSeq(b) /\ DOMAIN b = DOMAIN q \cup {Len(q) + 1}
        /\ \A i \in DOMAIN q : b[i] = t[i]
        /\ b[Len(q) + 1] = y
    <2> HIDE DEF y
    <2> QED
      BY <1>2, AppendSeq
  <1>4. IsSeq(u) /\ DOMAIN u = DOMAIN a /\ \A i \in DOMAIN a : u[i] = PktIn(a[i])
    BY <1>1, PktsSeq
  <1> HIDE DEF u, b
  <1>5. \A i \in DOMAIN u : u[i] = b[i]
    BY <1>1, <1>2, <1>3, <1>4
  <1>6. u = b
    BY <1>1, <1>3, <1>4, <1>5, SameSeq
  <1> QED
    BY <1>6 DEF u, b, a, t

LEMMA TailIs ==
    ASSUME NEW s, IsSeq(s), s # << >>
    PROVE  /\ Len(s) \in Nat \ {0} /\ Len(Tail(s)) = Len(s) - 1
           /\ DOMAIN Tail(s) = 1 .. (Len(s) - 1) /\ DOMAIN s = 1 .. Len(s)
           /\ \A i \in 1 .. (Len(s) - 1) : Tail(s)[i] = s[i + 1]
  <1> DEFINE S == Range(s)
  <1>1. s \in Seq(S)
    BY DEF IsSeq
  <1> HIDE DEF S
  <1> QED
    BY <1>1

LEMMA PktsTail ==
    ASSUME NEW q, IsSeq(q), q # << >>
    PROVE  /\ Pkts(Tail(q)) = Tail(Pkts(q)) /\ Head(Pkts(q)) = PktIn(Head(q))
           /\ Pkts(q) # << >>
  <1> DEFINE a == Tail(q)
             t == Pkts(q)
             b == Tail(t)
             u == Pkts(a)
             n == Len(q)
  <1>1. /\ n \in Nat \ {0} /\ DOMAIN a = 1 .. (n - 1) /\ DOMAIN q = 1 .. n
        /\ \A i \in 1 .. (n - 1) : a[i] = q[i + 1]
    BY TailIs
  <1>2. IsSeq(t) /\ Len(t) = n /\ DOMAIN t = DOMAIN q /\ \A i \in DOMAIN q : t[i] = PktIn(q[i])
    BY PktsSeq
  <1>3. IsSeq(a) /\ Head(q) = q[1]
    BY TailSeq
  <1> HIDE DEF t, a, n
  <1>4. t # << >>
    BY <1>1, <1>2, NoElements
  <1>5. /\ DOMAIN b = 1 .. (n - 1) /\ \A i \in 1 .. (n - 1) : b[i] = t[i + 1]
        /\ IsSeq(b) /\ Head(t) = t[1]
    BY <1>2, <1>4, TailIs, TailSeq
  <1>6. IsSeq(u) /\ DOMAIN u = DOMAIN a /\ \A i \in DOMAIN a : u[i] = PktIn(a[i])
    BY <1>3, PktsSeq
  <1> HIDE DEF u, b
  <1>7. \A i \in DOMAIN u : u[i] = b[i]
    <2> SUFFICES ASSUME NEW i \in 1 .. (n - 1) PROVE u[i] = b[i]
      BY <1>1, <1>6
    <2>1. i + 1 \in 1 .. n
      BY <1>1
    <2> QED
      BY <1>1, <1>2, <1>5, <1>6, <2>1, ZenonT(60)
  <1>8. u = b
    BY <1>1, <1>5, <1>6, <1>7, SameSeq
  <1>9. 1 \in 1 .. n
    BY <1>1
  <1> QED
    BY <1>1, <1>2, <1>3, <1>4, <1>5, <1>8, <1>9 DEF u, b, a, t

LEMMA PktsNone == Pkts(<< >>) = << >>
  <1> DEFINE e == << >>
             u == Pkts(e)
  <1>1. IsSeq(e) /\ DOMAIN e = {}
    BY NoElements
  <1> HIDE DEF e
  <1>2. IsSeq(u) /\ DOMAIN u = DOMAIN e
    BY <1>1, PktsSeq
  <1> HIDE DEF u
  <1>3. u = e
    BY <1>1, <1>2, SameSeq
  <1> QED
    BY <1>3 DEF u, e

\* Message s follows n if the packet is eager, and is s itself otherwise: n
\* messages are behind it, s with it.
NextMsg(pkt, n, s) ==
    IF pkt.type = "eager" THEN s = n + 1 /\ pkt.msg = s /\ pkt.id = FirstId + n ELSE s = n

\* The eager packets of w are the messages n + 1 to s, in order, with their ids.
Carries(w, n, s) ==
    \E f \in [0 .. Len(w) -> Nat] :
        /\ f[0] = n /\ f[Len(w)] = s
        /\ \A i \in 1 .. Len(w) : NextMsg(w[i], f[i - 1], f[i])

LEMMA CarriesNone ==
    ASSUME NEW n \in Nat
    PROVE  Carries(<< >>, n, n) /\ \A s : Carries(<< >>, n, s) => s = n
  <1> DEFINE e == << >>
             f == [i \in 0 .. 0 |-> n]
  <1>1. Len(e) = 0
    OBVIOUS
  <1> HIDE DEF e
  <1>2. f \in [0 .. 0 -> Nat] /\ f[0] = n /\ 1 .. 0 = {}
    OBVIOUS
  <1> HIDE DEF f
  <1>3. Carries(e, n, n)
    BY <1>1, <1>2 DEF Carries
  <1>4. \A s : Carries(e, n, s) => s = n
    BY <1>1 DEF Carries
  <1> QED
    BY <1>3, <1>4 DEF e

LEMMA CarriesAppend ==
    ASSUME NEW w, IsSeq(w), NEW n, NEW k, Carries(w, n, k), NEW x, NEW s \in Nat, NextMsg(x, k, s)
    PROVE  Carries(Append(w, x), n, s)
  <1> DEFINE N == Len(w)
             v == Append(w, x)
  <1>1. /\ IsSeq(v) /\ DOMAIN v = DOMAIN w \cup {N + 1} /\ N + 1 \notin DOMAIN w
        /\ \A i \in DOMAIN w : v[i] = w[i]
        /\ v[N + 1] = x
    BY AppendSeq
  <1>2. N \in Nat /\ DOMAIN w = 1 .. N /\ Len(v) = N + 1
    <2> DEFINE S == Range(w) \cup {x}
    <2>1. w \in Seq(S) /\ x \in S
      BY DEF IsSeq
    <2> HIDE DEF S
    <2> QED
      BY <2>1
  <1>3. PICK f \in [0 .. N -> Nat] :
            /\ f[0] = n /\ f[N] = k
            /\ \A i \in 1 .. N : NextMsg(w[i], f[i - 1], f[i])
    BY DEF Carries
  <1> HIDE DEF N, v
  <1> DEFINE g == [i \in 0 .. (N + 1) |-> IF i = N + 1 THEN s ELSE f[i]]
  <1>4. g \in [0 .. (N + 1) -> Nat] /\ g[0] = n /\ g[N + 1] = s /\ \A i \in 0 .. N : g[i] = f[i]
    BY <1>2, <1>3
  <1> HIDE DEF g
  <1>5. ASSUME NEW i \in 1 .. (N + 1) PROVE NextMsg(v[i], g[i - 1], g[i])
    <2>1. CASE i = N + 1
      <3>1. i - 1 = N /\ N \in 0 .. N
        BY <1>2, <2>1
      <3> QED
        BY <1>1, <1>3, <1>4, <2>1, <3>1
    <2>2. CASE i # N + 1
      <3>1. i \in 1 .. N /\ i \in 0 .. N /\ i - 1 \in 0 .. N
        BY <1>2, <2>2
      <3> QED
        BY <1>1, <1>2, <1>3, <1>4, <3>1
    <2> QED
      BY <2>1, <2>2
  <1>6. Carries(v, n, s)
    BY <1>2, <1>4, <1>5 DEF Carries
  <1> QED
    BY <1>6 DEF v

LEMMA CarriesTail ==
    ASSUME NEW w, IsSeq(w), w # << >>, NEW n, NEW s, Carries(w, n, s)
    PROVE  \E k \in Nat : NextMsg(Head(w), n, k) /\ Carries(Tail(w), k, s)
  <1> DEFINE N == Len(w)
             v == Tail(w)
             h == Head(w)
  <1>1. N \in Nat \ {0} /\ Len(v) = N - 1 /\ \A i \in 1 .. (N - 1) : v[i] = w[i + 1]
    BY TailIs
  <1>2. h = w[1]
    BY TailSeq
  <1>3. PICK f \in [0 .. N -> Nat] :
            /\ f[0] = n /\ f[N] = s
            /\ \A i \in 1 .. N : NextMsg(w[i], f[i - 1], f[i])
    BY DEF Carries
  <1> HIDE DEF N, v, h
  <1> DEFINE g == [i \in 0 .. (N - 1) |-> f[i + 1]]
             k == f[1]
  <1>4. 1 \in 1 .. N /\ 1 \in 0 .. N /\ k \in Nat /\ 1 - 1 = 0
    BY <1>1, <1>3
  <1>5. g \in [0 .. (N - 1) -> Nat] /\ g[0] = k /\ g[N - 1] = s
    <2>1. \A i \in 0 .. (N - 1) : i + 1 \in 0 .. N
      BY <1>1
    <2>2. 0 \in 0 .. (N - 1) /\ N - 1 \in 0 .. (N - 1) /\ (N - 1) + 1 = N /\ 0 + 1 = 1
      BY <1>1
    <2> QED
      BY <1>3, <2>1, <2>2
  <1>6. NextMsg(h, n, k)
    BY <1>2, <1>3, <1>4
  <1>7. ASSUME NEW i \in 1 .. (N - 1) PROVE NextMsg(v[i], g[i - 1], g[i])
    <2> DEFINE j == i + 1
    <2>1. j \in 1 .. N /\ j - 1 = i /\ i \in 0 .. (N - 1) /\ i - 1 \in 0 .. (N - 1) /\ (i - 1) + 1 = i
      BY <1>1
    <2>2. g[i - 1] = f[i] /\ g[i] = f[j] /\ v[i] = w[j]
      BY <1>1, <2>1
    <2>3. NextMsg(w[j], f[j - 1], f[j])
      <3> HIDE DEF j, g, k
      <3> QED
        BY <1>3, <2>1
    <2> HIDE DEF g, j, k
    <2> QED
      BY <2>1, <2>2, <2>3
  <1> HIDE DEF g, k
  <1>8. Carries(v, k, s)
    BY <1>1, <1>5, <1>7 DEF Carries
  <1> QED
    BY <1>4, <1>6, <1>8 DEF v, h

LEMMA CarriesUp ==
    ASSUME NEW w, IsSeq(w), NEW n, NEW s, Carries(w, n, s)
    PROVE  n \in Nat /\ s \in Nat /\ n <= s
  <1> DEFINE N == Len(w)
  <1>1. PICK f \in [0 .. N -> Nat] :
            /\ f[0] = n /\ f[N] = s
            /\ \A i \in 1 .. N : NextMsg(w[i], f[i - 1], f[i])
    BY DEF Carries
  <1>2. N \in Nat
    BY SeqFacts
  <1> HIDE DEF N
  <1> DEFINE T == {k \in 0 .. N : n <= f[k]}
  <1>3. 0 \in T
    BY <1>1, <1>2
  <1>4. ASSUME NEW k \in 1 .. N, k - 1 \in T PROVE k \in T
    <2>1. k - 1 \in 0 .. N /\ k \in 0 .. N
      BY <1>2
    <2>2. f[k] = f[k - 1] + 1 \/ f[k] = f[k - 1]
      BY <1>1 DEF NextMsg
    <2>3. f[k - 1] \in Nat /\ f[k] \in Nat /\ n \in Nat /\ n <= f[k - 1]
      BY <1>1, <1>2, <1>4, <2>1
    <2>4. n <= f[k]
      BY <2>2, <2>3
    <2> QED
      BY <2>1, <2>4
  <1>5. N \in T
    <2> HIDE DEF T
    <2> QED
      BY <1>2, <1>3, <1>4, UpTo
  <1> QED
    BY <1>1, <1>2, <1>5

LEMMA CarriesOther ==
    ASSUME NEW w, IsSeq(w), NEW n \in Nat, \A i \in DOMAIN w : w[i].type # "eager"
    PROVE  Carries(w, n, n)
  <1> DEFINE N == Len(w)
             f == [i \in 0 .. N |-> n]
  <1>1. N \in Nat /\ DOMAIN w = 1 .. N
    BY SeqFacts
  <1>2. f \in [0 .. N -> Nat] /\ f[0] = n /\ f[N] = n
    BY <1>1
  <1>3. ASSUME NEW i \in 1 .. N PROVE NextMsg(w[i], f[i - 1], f[i])
    <2>1. i - 1 \in 0 .. N /\ i \in 0 .. N
      BY <1>1
    <2> QED
      BY <1>1, <2>1 DEF NextMsg
  <1> HIDE DEF f
  <1> QED
    BY <1>2, <1>3 DEF Carries

\* The acknowledgement that a packet carries, and those of a sequence: the
\* packets of the reconnect have an id in that field.
AckOf(pkt) == IF pkt.type \in {"eager", "noop"} THEN pkt.ack ELSE 0
Acks(w) == SumFunction([i \in DOMAIN w |-> AckOf(w[i])])

\* A packet of a connection that carries only eager messages
PktOk(pkt) ==
    /\ pkt.type \in {"eager", "noop", "nfr_req", "nfr_rep", "nfr_fin"} /\ pkt.ack \in Nat
\* A sequence of such packets
Pile(w) == IsSeq(w) /\ \A i \in DOMAIN w : PktOk(w[i])

AcksIn(w) == [i \in DOMAIN w |-> AckOf(w[i])]

LEMMA AcksSeq ==
    ASSUME NEW w, Pile(w)
    PROVE  AcksIn(w) \in Seq(Nat) /\ DOMAIN AcksIn(w) = DOMAIN w /\ Len(AcksIn(w)) = Len(w)
           /\ \A i \in DOMAIN w : AcksIn(w)[i] = AckOf(w[i])
  <1> DEFINE t == AcksIn(w)
             n == Len(w)
  <1>1. n \in Nat /\ DOMAIN w = 1 .. n
    BY SeqFacts DEF Pile
  <1>2. t = [i \in DOMAIN w |-> t[i]] /\ \A i \in DOMAIN w : t[i] = AckOf(w[i])
    BY DEF AcksIn
  <1>3. \A i \in DOMAIN w : AckOf(w[i]) \in Nat
    BY DEF Pile, PktOk, AckOf
  <1> HIDE DEF t, n
  <1>4. t \in [1 .. n -> Nat]
    BY <1>1, <1>2, <1>3
  <1>5. t \in Seq(Nat) /\ Len(t) = n
    BY <1>1, <1>4
  <1> QED
    BY <1>1, <1>2, <1>5 DEF t, n

LEMMA AcksType ==
    ASSUME NEW w, Pile(w)
    PROVE  Acks(w) \in Nat
  <1>1. Acks(w) = SumFunction(AcksIn(w))
    BY DEF Acks, AcksIn
  <1> QED
    BY <1>1, AcksSeq, SeqSumType

LEMMA AcksNone == Acks(<< >>) = 0
  <1> DEFINE e == << >>
             t == AcksIn(e)
  <1>1. IsSeq(e) /\ DOMAIN e = {}
    BY NoElements
  <1>2. Acks(e) = SumFunction(t)
    BY DEF Acks, AcksIn
  <1> HIDE DEF e
  <1>3. DOMAIN t = {} /\ t = [x \in {} |-> t[x]]
    BY <1>1 DEF AcksIn
  <1> HIDE DEF t
  <1>4. SumFunction(t) = 0
    BY <1>3, SumEmpty
  <1> QED
    BY <1>2, <1>4 DEF e

LEMMA PileAppend ==
    ASSUME NEW w, Pile(w), NEW x, PktOk(x)
    PROVE  Pile(Append(w, x)) /\ Acks(Append(w, x)) = Acks(w) + AckOf(x)
  <1> DEFINE v == Append(w, x)
             n == AckOf(x)
             a == AcksIn(w)
             t == AcksIn(v)
             u == Append(a, n)
  <1>1. /\ IsSeq(v) /\ DOMAIN v = DOMAIN w \cup {Len(w) + 1} /\ Len(w) + 1 \notin DOMAIN w
        /\ \A i \in DOMAIN w : v[i] = w[i]
        /\ v[Len(w) + 1] = x
    BY AppendSeq DEF Pile
  <1>2. Acks(v) = SumFunction(t) /\ Acks(w) = SumFunction(a)
    BY DEF Acks, AcksIn
  <1> HIDE DEF v
  <1>3. Pile(v)
    BY <1>1 DEF Pile
  <1>4. n \in Nat
    BY DEF AckOf, PktOk
  <1>5. a \in Seq(Nat) /\ DOMAIN a = DOMAIN w /\ Len(a) = Len(w)
        /\ \A i \in DOMAIN w : a[i] = AckOf(w[i])
    BY AcksSeq
  <1>6. t \in Seq(Nat) /\ DOMAIN t = DOMAIN v /\ \A i \in DOMAIN v : t[i] = AckOf(v[i])
    BY <1>3, AcksSeq
  <1>7. t[Len(w) + 1] = n /\ \A i \in DOMAIN w : t[i] = AckOf(w[i])
    BY <1>1, <1>6
  <1> HIDE DEF a, t, n
  <1>8. IsSeq(t) /\ IsSeq(a)
    BY <1>5, <1>6, RangeSeq
  <1>9. /\ IsSeq(u) /\ DOMAIN u = DOMAIN w \cup {Len(w) + 1}
        /\ \A i \in DOMAIN w : u[i] = a[i]
        /\ u[Len(w) + 1] = n
    BY <1>5, <1>8, AppendSeq
  <1> HIDE DEF u
  <1>10. \A i \in DOMAIN t : t[i] = u[i]
    BY <1>1, <1>5, <1>6, <1>7, <1>9
  <1>11. t = u
    BY <1>1, <1>6, <1>8, <1>9, <1>10, SameSeq
  <1>12. SumFunction(u) = SumFunction(a) + n
    BY <1>4, <1>5, SumAppend DEF u
  <1> QED
    BY <1>2, <1>3, <1>11, <1>12 DEF v, n

LEMMA PileTail ==
    ASSUME NEW w, Pile(w), w # << >>
    PROVE  /\ Pile(Tail(w)) /\ Acks(w) = AckOf(Head(w)) + Acks(Tail(w))
           /\ PktOk(Head(w)) /\ Acks(Tail(w)) \in Nat /\ AckOf(Head(w)) \in Nat
  <1> DEFINE v == Tail(w)
             h == Head(w)
             n == Len(w)
             a == AcksIn(w)
             t == AcksIn(v)
             u == Tail(a)
  <1>1. /\ n \in Nat \ {0} /\ DOMAIN v = 1 .. (n - 1) /\ DOMAIN w = 1 .. n
        /\ \A i \in 1 .. (n - 1) : v[i] = w[i + 1]
    BY TailIs DEF Pile
  <1>2. IsSeq(v) /\ h = w[1]
    BY TailSeq DEF Pile
  <1>3. Acks(v) = SumFunction(t) /\ Acks(w) = SumFunction(a)
    BY DEF Acks, AcksIn
  <1>4. a \in Seq(Nat) /\ DOMAIN a = DOMAIN w /\ Len(a) = n
        /\ \A i \in DOMAIN w : a[i] = AckOf(w[i])
    BY AcksSeq
  <1> HIDE DEF v, h, n, a
  <1>5. Pile(v) /\ PktOk(h)
    <2>1. \A i \in 1 .. (n - 1) : i + 1 \in 1 .. n
      BY <1>1
    <2>2. 1 \in 1 .. n
      BY <1>1
    <2> QED
      BY <1>1, <1>2, <2>1, <2>2 DEF Pile
  <1>6. t \in Seq(Nat) /\ DOMAIN t = DOMAIN v /\ \A i \in DOMAIN v : t[i] = AckOf(v[i])
    BY <1>5, AcksSeq
  <1> HIDE DEF t
  <1>7. a # << >>
    BY <1>1, <1>4, NoElements
  <1>8. IsSeq(a) /\ IsSeq(t)
    BY <1>4, <1>6, RangeSeq
  <1>9. /\ DOMAIN u = 1 .. (n - 1) /\ \A i \in 1 .. (n - 1) : u[i] = a[i + 1]
        /\ IsSeq(u) /\ Head(a) = a[1]
    BY <1>4, <1>7, <1>8, TailIs, TailSeq
  <1>10. SumFunction(a) = Head(a) + SumFunction(u)
    BY <1>4, <1>7, SumTail
  <1> HIDE DEF u
  <1>11. \A i \in DOMAIN t : t[i] = u[i]
    <2> SUFFICES ASSUME NEW i \in 1 .. (n - 1) PROVE t[i] = u[i]
      BY <1>1, <1>6
    <2>1. i + 1 \in 1 .. n
      BY <1>1
    <2>2. u[i] = a[i + 1] /\ a[i + 1] = AckOf(w[i + 1])
      BY <1>1, <1>4, <1>9, <2>1
    <2>3. t[i] = AckOf(v[i]) /\ v[i] = w[i + 1]
      BY <1>1, <1>6
    <2> QED
      BY <2>2, <2>3
  <1>12. t = u
    BY <1>1, <1>6, <1>8, <1>9, <1>11, SameSeq
  <1>13. Head(a) = AckOf(h)
    <2>1. 1 \in 1 .. n
      BY <1>1
    <2> QED
      BY <1>1, <1>2, <1>4, <1>9, <2>1
  <1>14. Acks(v) \in Nat /\ AckOf(h) \in Nat
    BY <1>5, AcksType DEF AckOf, PktOk
  <1> QED
    BY <1>3, <1>5, <1>10, <1>12, <1>13, <1>14 DEF v, h

-----------------------------------------------------------------------------
(* The messages of the two directions.  r is the record of a process and p  *)
(* that of its peer; s is the number of messages that r has started, a the  *)
(* acknowledgements of them that r has taken in and not used yet.           *)

Started(r) == r.issued - Len(r.queued)

\* The list w holds the newest of s messages.
Waits(w, s) ==
    /\ List(w) /\ Len(w) <= s
    /\ \A i \in DOMAIN w :
          w[i].type = "eager" /\ w[i].msg = (s - Len(w)) + i /\ w[i].id = FirstId + w[i].msg - 1

\* The packets that call for a retransmission name the id x.
CallsTell(w, x) == \A i \in DOMAIN w : w[i].type \in Call => w[i].ack = x

NoRendezvous(r) == r.rndv = << >> /\ r.unexp = << >>
InOrder(r) ==
    /\ r.got \in Seq(Nat) /\ \A i \in DOMAIN r.got : r.got[i] = i
    /\ r.expected = FirstId + Len(r.got)
Numbered(r, s) ==
    /\ s \in Nat /\ FirstId + s < IdSpace /\ r.tosend = FirstId + s /\ Waits(r.waiting, s)
Pipes(r) ==
    /\ Pile(r.wire) /\ Pile(r.sent) /\ Pile(Pkts(r.cq))
    /\ \A i \in DOMAIN r.cq : r.cq[i].what \in {"recv", "error"}
Data(r, s) ==
    /\ Whole(r) /\ r.halt = "no" /\ r.pending \in Nat
    /\ NoRendezvous(r) /\ InOrder(r) /\ Numbered(r, s) /\ Pipes(r)
    /\ CallsTell(r.wire, r.expected)

\* Nothing is on a broken queue pair; a completion of the new one tells the
\* server of a reconnect that its client has called.
Place(r, b) ==
    /\ r.vi \in b => r.wire = << >>
    /\ Client(r) \/ Server(r) => r.vi \in b
    /\ \A i \in DOMAIN r.cq :
          \/ r.cq[i].qp = r.vi
          \/ Server(r) /\ r.cq[i].what = "recv" /\ r.cq[i].pkt.type = "nfr_req"

\* The messages under way are those behind the received ones, up to k.
Stream(r, p, k) ==
    \E j \in Nat : Carries(Pkts(p.cq), Len(p.got), j) /\ Carries(r.wire, j, k)
\* The acknowledgements that r owes p, or that are under way.
Due(r, p) == r.pending + Acks(r.wire) + Acks(Pkts(p.cq))
\* The messages that r has put behind it.
Gone(r, s) == s - Len(r.waiting)
\* What r sends arrives.
Sending(r, b) == r.state = "pt2pt" /\ r.vi \notin b
\* A client between its new queue pair and the reply of the server
Mute(r, p) == Fresh(r) \/ Seen(r) \/ (Asked(r) /\ Server(p))

\* What is not received is on the list, and nothing is received before its time.
Reached(r, p, s) == Gone(r, s) <= Len(p.got) /\ Len(p.got) <= s
Streams(r, p, s, b) == \E k \in 0 .. s : Stream(r, p, k) /\ (Sending(r, b) => k = s)
Owes(r, p, s, a, b) ==
    /\ a + Due(p, r) <= Len(p.got) - Gone(r, s)
    /\ Sending(r, b) => a + Due(p, r) = Len(p.got) - Gone(r, s) /\ p.vi = r.vi
Stalls(r, p, a) ==
    /\ CallsTell(Pkts(p.cq), r.expected)
    /\ Fresh(r) \/ Seen(r) => r.wire = << >>
    /\ Mute(r, p) => /\ r.cq = << >> /\ r.pending = 0
                     /\ \A i \in DOMAIN r.wire : r.wire[i].type = "nfr_req"
    /\ Asked(r) /\ Up(p) => a + Due(p, r) = 0 /\ Stream(r, p, Len(p.got))
Flow(r, p, s, a, b) ==
    Reached(r, p, s) /\ Streams(r, p, s, b) /\ Owes(r, p, s, a, b) /\ Stalls(r, p, a)

\* Both ends of the connection, while r takes a step
Joint(r, p, s, k, a, b) ==
    /\ Data(r, s) /\ Place(r, b) /\ Data(p, k) /\ Place(p, b)
    /\ Flow(r, p, s, a, b) /\ Flow(p, r, k, 0, b)

\* The application: what is queued are the newest messages.
App(r) ==
    /\ r.issued \in Nat /\ Len(r.queued) <= r.issued
    /\ \A i \in DOMAIN r.queued :
          r.queued[i].kind = "eager" /\ r.queued[i].msg = Started(r) + i
    /\ r.todo \in Seq({"eager"}) /\ FirstId + r.issued + Len(r.todo) < IdSpace

-----------------------------------------------------------------------------
(* Posting a packet.                                                        *)

SameSends(r, t) == t.todo = r.todo /\ t.issued = r.issued /\ t.queued = r.queued
SameApp(r, t) == SameSends(r, t) /\ t.got = r.got
\* t has started the next message, or handed one over, or neither.
Took(r, t) ==
    t.todo = r.todo /\ t.issued = r.issued /\ t.got \in {r.got, Append(r.got, Len(r.got) + 1)}
Moves(r, t) ==
    \/ Took(r, t)
    \/ /\ r.todo # << >> /\ t.todo = Tail(r.todo) /\ t.issued = r.issued + 1 /\ t.got = r.got
Rests(r, t) == t.todo = r.todo /\ t.issued = r.issued /\ t.got = r.got
Moved ==
    \E e \in End : Moves(rank[e], rank'[e]) /\ Rests(rank[Peer(e)], rank'[Peer(e)])
SameGot(r, t) ==
    t.got = r.got /\ t.expected = r.expected /\ t.rndv = r.rndv /\ t.unexp = r.unexp
SameList(r, t) == t.tosend = r.tosend /\ t.waiting = r.waiting
SameRest(r, t) ==
    Whole(t) /\ SameStage(r, t) /\ SameGot(r, t) /\ t.sent = r.sent /\ t.halt = r.halt

\* t has posted pkt, or found its queue pair broken.
Posts(r, t, pkt) ==
    /\ SameRest(r, t)
    /\ IF r.vi \notin broken THEN t.wire = Append(r.wire, pkt) /\ t.cq = r.cq
       ELSE t.wire = r.wire /\ t.cq \in {r.cq, Append(r.cq, Failure(r))}

LEMMA FailureIs ==
    ASSUME NEW r
    PROVE  /\ Failure(r).what = "error" /\ Failure(r).qp = r.vi /\ Failure(r).pkt = Nothing
           /\ PktIn(Failure(r)) = Nothing
  BY DEF Failure, Completion, PktIn, Nothing

LEMMA NothingIs ==
    PktOk(Nothing) /\ AckOf(Nothing) = 0 /\ \A n : NextMsg(Nothing, n, n)
    /\ Nothing.type = "noop"
  BY DEF Nothing, Packet, PktOk, AckOf, NextMsg

LEMMA IbvPosts ==
    ASSUME NEW r, Whole(r), NEW pkt
    PROVE  /\ Posts(r, IbvPostSend(r, pkt), pkt) /\ SameList(r, IbvPostSend(r, pkt))
           /\ SameApp(r, IbvPostSend(r, pkt)) /\ IbvPostSend(r, pkt).pending = r.pending
  <1> DEFINE f == Failure(r)
             w == Append(r.wire, pkt)
             q == Append(r.cq, f)
             t == IbvPostSend(r, pkt)
             Good(u) == SameRest(r, u) /\ SameList(r, u) /\ SameApp(r, u) /\ u.pending = r.pending
  <1>1. IsSeq(w)
    BY AppendSeq DEF Whole
  <1>2. Completions(q)
    <2>1. f.what = "error"
      BY FailureIs
    <2> HIDE DEF f
    <2> QED
      BY <2>1, CompletionsAppend DEF Whole
  <1>3. CASE r.vi \notin broken
    <2> DEFINE u == [r EXCEPT !.wire = w]
    <2>1. t = u
      BY <1>3 DEF IbvPostSend
    <2> HIDE DEF w, t
    <2>2. DOMAIN u = RankFields /\ SameStage(r, u) /\ SameGot(r, u) /\ SameList(r, u)
          /\ SameApp(r, u) /\ u.pending = r.pending /\ u.sent = r.sent /\ u.halt = r.halt
          /\ u.wire = w /\ u.cq = r.cq
      BY DEF RankFields, SameStage, SameGot, SameList, SameApp, SameSends, Whole
    <2> HIDE DEF u
    <2>3. Good(u)
      BY <1>1, <2>2 DEF Whole, SameRest, SameApp, SameSends, SameList
    <2> QED
      BY <1>3, <2>1, <2>2, <2>3 DEF Posts, w, t
  <1>4. CASE r.vi \in broken
    <2> DEFINE u == [r EXCEPT !.cq = q]
    <2>1. t = u \/ t = r
      BY <1>4 DEF IbvPostSend
    <2> HIDE DEF q, t
    <2>2. DOMAIN u = RankFields /\ SameStage(r, u) /\ SameGot(r, u) /\ SameList(r, u)
          /\ SameApp(r, u) /\ u.pending = r.pending /\ u.sent = r.sent /\ u.halt = r.halt
          /\ u.wire = r.wire /\ u.cq = q
      BY DEF RankFields, SameStage, SameGot, SameList, SameApp, SameSends, Whole
    <2> HIDE DEF u
    <2>3. Good(u)
      BY <1>2, <2>2 DEF Whole, SameRest, SameApp, SameSends, SameList
    <2>4. Good(r)
      BY DEF SameRest, SameStage, SameGot, SameList, SameApp, SameSends
    <2> QED
      BY <1>4, <2>1, <2>2, <2>3, <2>4 DEF Posts, q, t, f
  <1> QED
    BY <1>3, <1>4

LEMMA StartPosts ==
    ASSUME NEW r, Whole(r), NEW m
    PROVE  LET t == Start(r, "eager", m) IN
           /\ Posts(r, t, Packet("eager", r.tosend, r.pending, m)) /\ SameApp(r, t)
           /\ t.tosend = NextId(r.tosend) /\ t.pending = 0
           /\ t.waiting = Append(r.waiting, Packet("eager", r.tosend, 0, m))
  <1> DEFINE pkt == Packet("eager", r.tosend, r.pending, m)
             kept == Packet("eager", r.tosend, 0, m)
             l == Append(r.waiting, kept)
             n == NextId(r.tosend)
             s == [r EXCEPT !.tosend = n, !.pending = 0, !.waiting = l]
             t == Start(r, "eager", m)
             z == 0
  <1>1. t = IbvPostSend(s, pkt)
    BY DEF Start, PostSend, Kept
  <1>2. Listed(kept)
    BY PacketIs DEF Listed
  <1> HIDE DEF pkt, kept, n, t
  <1>3. List(l)
    BY <1>2, ListAppend DEF Whole
  <1> HIDE DEF l
  <1>4. DOMAIN s = RankFields /\ SameStage(r, s) /\ SameGot(r, s)
        /\ SameApp(r, s) /\ s.sent = r.sent /\ s.halt = r.halt
        /\ s.wire = r.wire /\ s.cq = r.cq /\ s.pending = z /\ s.tosend = n /\ s.waiting = l
    BY DEF RankFields, SameStage, SameGot, SameApp, SameSends, Whole
  <1> HIDE DEF s
  <1>5. Whole(s)
    BY <1>3, <1>4 DEF Whole, SameApp, SameSends
  <1>6. Posts(s, t, pkt) /\ SameList(s, t) /\ SameApp(s, t) /\ t.pending = z
    BY <1>1, <1>4, <1>5, IbvPosts
  <1>7. Failure(s) = Failure(r) /\ s.vi = r.vi
    BY <1>4 DEF Failure, Completion, SameStage
  <1>8. Posts(r, t, pkt) /\ SameApp(r, t)
    BY <1>4, <1>6, <1>7 DEF Posts, SameRest, SameStage, SameGot, SameApp, SameSends
  <1>9. t.tosend = n /\ t.waiting = l
    BY <1>4, <1>6 DEF SameList
  <1> QED
    BY <1>6, <1>8, <1>9 DEF pkt, kept, n, l, t

LEMMA RePostPosts ==
    ASSUME NEW r, Whole(r), NEW v
    PROVE  LET t == RePost(r, v) IN
           /\ Posts(r, t, [v EXCEPT !.ack = r.pending])
           /\ SameList(r, t) /\ SameApp(r, t) /\ t.pending = 0
  <1> DEFINE s == [r EXCEPT !.pending = 0]
             pkt == [v EXCEPT !.ack = r.pending]
             t == RePost(r, v)
  <1>1. t = IbvPostSend(s, pkt)
    BY DEF RePost
  <1> HIDE DEF pkt, t
  <1>2. DOMAIN s = RankFields /\ SameStage(r, s) /\ SameGot(r, s) /\ SameList(r, s)
        /\ SameApp(r, s) /\ s.sent = r.sent /\ s.halt = r.halt
        /\ s.wire = r.wire /\ s.cq = r.cq /\ s.pending = 0
    BY DEF RankFields, SameStage, SameGot, SameApp, SameSends, SameList, Whole
  <1> HIDE DEF s
  <1>3. Whole(s)
    BY <1>2 DEF Whole, SameApp, SameSends, SameList
  <1>4. Posts(s, t, pkt) /\ SameList(s, t) /\ SameApp(s, t) /\ t.pending = 0
    BY <1>1, <1>2, <1>3, IbvPosts
  <1>5. Failure(s) = Failure(r) /\ s.vi = r.vi
    BY <1>2 DEF Failure, Completion, SameStage
  <1>6. Posts(r, t, pkt) /\ SameApp(r, t) /\ SameList(r, t)
    BY <1>2, <1>4, <1>5 DEF Posts, SameRest, SameStage, SameGot, SameApp, SameSends, SameList
  <1> QED
    BY <1>4, <1>6 DEF pkt, t

LEMMA AckPosts ==
    ASSUME NEW r, Whole(r)
    PROVE  LET t == SendAckIfNeeded(r) IN
           \/ t = r
           \/ /\ Posts(r, t, Packet("noop", 0, r.pending, 0))
              /\ SameList(r, t) /\ SameApp(r, t) /\ t.pending = 0
  <1> DEFINE v == Packet("noop", 0, 0, 0)
             s == [r EXCEPT !.pending = 0]
             t == SendAckIfNeeded(r)
  <1>1. t = r \/ t = IbvPostSend(s, Packet("noop", 0, r.pending, 0))
    BY DEF SendAckIfNeeded
  <1>2. [v EXCEPT !.ack = r.pending] = Packet("noop", 0, r.pending, 0)
    BY DEF Packet
  <1>3. t = r \/ t = RePost(r, v)
    BY <1>1, <1>2 DEF RePost
  <1> QED
    BY <1>2, <1>3, RePostPosts

\* What a receiver reads in the queue u is what it reads in q.
SameMail(q, u) ==
    /\ Pile(Pkts(u)) /\ Acks(Pkts(u)) = Acks(Pkts(q))
    /\ \A n : \A j : Carries(Pkts(q), n, j) => Carries(Pkts(u), n, j)
    /\ \A x : CallsTell(Pkts(q), x) => CallsTell(Pkts(u), x)

LEMMA CallsTellAppend ==
    ASSUME NEW w, IsSeq(w), NEW x, CallsTell(w, x), NEW pkt, pkt.type \in Call => pkt.ack = x
    PROVE  CallsTell(Append(w, pkt), x)
  BY AppendSeq DEF CallsTell

LEMMA FailureMail ==
    ASSUME NEW q, IsSeq(q), Pile(Pkts(q)), NEW r
    PROVE  SameMail(q, Append(q, Failure(r)))
  <1> DEFINE f == Failure(r)
             u == Append(q, f)
             w == Pkts(q)
  <1>1. Pkts(u) = Append(w, Nothing)
    <2>1. PktIn(f) = Nothing
      BY FailureIs
    <2> HIDE DEF f
    <2> QED
      BY <2>1, PktsAppend
  <1> HIDE DEF u, w
  <1>2. PktOk(Nothing) /\ AckOf(Nothing) = 0 /\ \A n : NextMsg(Nothing, n, n)
        /\ Nothing.type \notin Call
    BY NothingIs DEF Call
  <1>3. Pile(w) /\ IsSeq(w) /\ Acks(w) \in Nat
    BY AcksType DEF w, Pile
  <1>4. Pile(Pkts(u)) /\ Acks(Pkts(u)) = Acks(w)
    <2>1. Pile(Append(w, Nothing)) /\ Acks(Append(w, Nothing)) = Acks(w) + AckOf(Nothing)
      BY <1>2, <1>3, PileAppend
    <2> QED
      BY <1>1, <1>2, <1>3, <2>1
  <1>5. ASSUME NEW n, NEW j, Carries(w, n, j) PROVE Carries(Pkts(u), n, j)
    <2>1. j \in Nat
      BY <1>3, <1>5, CarriesUp
    <2> QED
      BY <1>1, <1>2, <1>3, <1>5, <2>1, CarriesAppend
  <1>6. \A x : CallsTell(w, x) => CallsTell(Pkts(u), x)
    BY <1>1, <1>2, <1>3, CallsTellAppend
  <1> QED
    BY <1>4, <1>5, <1>6 DEF SameMail, w, u

LEMMA PostsPipes ==
    ASSUME NEW r, NEW t, NEW pkt, Whole(r), Pipes(r), Posts(r, t, pkt), PktOk(pkt)
    PROVE  /\ Pipes(t) /\ SameMail(r.cq, t.cq)
           /\ Acks(t.wire) = (IF r.vi \notin broken THEN Acks(r.wire) + AckOf(pkt) ELSE Acks(r.wire))
           /\ \A i \in DOMAIN t.cq :
                 t.cq[i].qp = r.vi \/ (i \in DOMAIN r.cq /\ t.cq[i] = r.cq[i])
  <1> DEFINE f == Failure(r)
             u == Append(r.cq, f)
  <1>1. SameMail(r.cq, u) /\ SameMail(r.cq, r.cq)
    BY FailureMail DEF Whole, Completions, Pipes, SameMail
  <1>2. f.what = "error" /\ f.qp = r.vi
    BY FailureIs
  <1>3. /\ DOMAIN u = DOMAIN r.cq \cup {Len(r.cq) + 1} /\ \A i \in DOMAIN r.cq : u[i] = r.cq[i]
        /\ u[Len(r.cq) + 1] = f
    <2> HIDE DEF f
    <2> QED
      BY AppendSeq DEF Whole, Completions
  <1> HIDE DEF u, f
  <1>4. t.cq = r.cq \/ t.cq = u
    BY DEF Posts, u, f
  <1>5. SameMail(r.cq, t.cq) /\ Pile(Pkts(t.cq))
    BY <1>1, <1>4 DEF SameMail
  <1>6. \A i \in DOMAIN t.cq :
            /\ t.cq[i].what \in {"recv", "error"}
            /\ t.cq[i].qp = r.vi \/ (i \in DOMAIN r.cq /\ t.cq[i] = r.cq[i])
    <2>1. CASE t.cq = r.cq
      BY <2>1 DEF Pipes
    <2>2. CASE t.cq = u
      BY <1>2, <1>3, <2>2 DEF Pipes
    <2> QED
      BY <1>4, <2>1, <2>2
  <1>7. Pile(t.wire) /\ Acks(t.wire)
            = (IF r.vi \notin broken THEN Acks(r.wire) + AckOf(pkt) ELSE Acks(r.wire))
    <2>1. CASE r.vi \notin broken
      BY <2>1, PileAppend DEF Pipes, Posts
    <2>2. CASE r.vi \in broken
      BY <2>2 DEF Pipes, Posts
    <2> QED
      BY <2>1, <2>2
  <1> QED
    BY <1>5, <1>6, <1>7 DEF Pipes, Posts, SameRest

LEMMA PostsData ==
    ASSUME NEW r, NEW s, Data(r, s), NEW t, NEW pkt, Posts(r, t, pkt), PktOk(pkt),
           pkt.type \in Call => pkt.ack = r.expected,
           NEW z, Numbered(t, z), t.pending \in Nat
    PROVE  Data(t, z)
  <1>1. Pipes(t)
    BY PostsPipes DEF Data
  <1>2. SameRest(r, t)
    BY DEF Posts
  <1>3. CallsTell(t.wire, r.expected)
    <2>1. CASE r.vi \notin broken
      BY <2>1, CallsTellAppend DEF Posts, Data, Pipes, Pile
    <2>2. CASE r.vi \in broken
      BY <2>2 DEF Posts, Data
    <2> QED
      BY <2>1, <2>2
  <1>4. Whole(t) /\ t.halt = "no" /\ NoRendezvous(t) /\ InOrder(t) /\ t.expected = r.expected
    BY <1>2 DEF SameRest, SameGot, Data, NoRendezvous, InOrder
  <1> QED
    BY <1>1, <1>3, <1>4 DEF Data

LEMMA PostsPlace ==
    ASSUME NEW r, NEW s, Data(r, s), Place(r, broken), NEW t, NEW pkt, Posts(r, t, pkt), PktOk(pkt)
    PROVE  Place(t, broken)
  <1>1. SameStage(r, t)
    BY DEF Posts, SameRest
  <1>2. Client(t) => Client(r)
    BY <1>1 DEF SameStage, Client
  <1>3. Server(t) <=> Server(r)
    BY <1>1 DEF SameStage, Server
  <1>4. t.vi = r.vi
    BY <1>1 DEF SameStage
  <1>5. \A i \in DOMAIN t.cq :
            t.cq[i].qp = r.vi \/ (i \in DOMAIN r.cq /\ t.cq[i] = r.cq[i])
    BY PostsPipes DEF Data
  <1>6. r.vi \in broken => t.wire = r.wire
    BY DEF Posts
  <1> QED
    BY <1>2, <1>3, <1>4, <1>5, <1>6 DEF Place

LEMMA DueType ==
    ASSUME NEW r, NEW s, Data(r, s), NEW p, NEW k, Data(p, k)
    PROVE  /\ r.pending \in Nat /\ Acks(r.wire) \in Nat /\ Acks(Pkts(p.cq)) \in Nat
           /\ Due(r, p) \in Nat
           /\ Due(r, p) = 0 => r.pending = 0 /\ Acks(r.wire) = 0 /\ Acks(Pkts(p.cq)) = 0
           /\ Len(r.got) \in Nat /\ Len(r.waiting) \in Nat /\ s \in Nat /\ Gone(r, s) \in Nat
           /\ Gone(r, s) <= s
  <1>1. r.pending \in Nat /\ Acks(r.wire) \in Nat /\ Acks(Pkts(p.cq)) \in Nat
    BY AcksType DEF Data, Pipes
  <1>2. Len(r.got) \in Nat
    BY DEF Data, InOrder
  <1>3. Len(r.waiting) \in Nat /\ s \in Nat /\ Len(r.waiting) <= s
    <2>1. IsSeq(r.waiting)
      BY DEF Data, Whole, List
    <2> QED
      BY <2>1, SeqFacts DEF Data, Numbered, Waits
  <1> QED
    BY <1>1, <1>2, <1>3 DEF Due, Gone

\* The messages towards the process that posts
LEMMA PostsFlowIn ==
    ASSUME NEW r, NEW s, Data(r, s), NEW p, NEW k, Data(p, k), NEW c, c \in Nat,
           Flow(p, r, k, c, broken), NEW t, NEW pkt, Posts(r, t, pkt), PktOk(pkt),
           t.pending \in Nat, t.pending + AckOf(pkt) = r.pending
    PROVE  Flow(p, t, k, c, broken)
  <1>1. SameStage(r, t) /\ t.got = r.got /\ t.vi = r.vi
    BY DEF Posts, SameRest, SameGot, SameStage
  <1>2. /\ SameMail(r.cq, t.cq)
        /\ Acks(t.wire) = (IF r.vi \notin broken THEN Acks(r.wire) + AckOf(pkt) ELSE Acks(r.wire))
    BY PostsPipes DEF Data
  <1>3. \A j : Stream(p, r, j) => Stream(p, t, j)
    BY <1>1, <1>2 DEF Stream, SameMail
  <1>4. AckOf(pkt) \in Nat
    BY DEF AckOf, PktOk
  <1>5. Due(r, p) \in Nat /\ Due(t, p) \in Nat /\ Due(t, p) <= Due(r, p)
        /\ (r.vi \notin broken => Due(t, p) = Due(r, p))
    <2>1. /\ r.pending \in Nat /\ Acks(r.wire) \in Nat /\ Acks(Pkts(p.cq)) \in Nat
      BY DueType
    <2> QED
      BY <1>2, <1>4, <2>1 DEF Due
  <1>6. Reached(p, t, k)
    BY <1>1 DEF Reached, Flow
  <1>7. Streams(p, t, k, broken)
    BY <1>3 DEF Streams, Flow
  <1>8. Owes(p, t, k, c, broken)
    <2>1. Len(r.got) \in Nat /\ Gone(p, k) \in Nat
      BY DueType
    <2>2. /\ c + Due(r, p) <= Len(r.got) - Gone(p, k)
          /\ Sending(p, broken) =>
                c + Due(r, p) = Len(r.got) - Gone(p, k) /\ r.vi = p.vi /\ p.vi \notin broken
      BY DEF Flow, Owes, Sending
    <2> QED
      BY <1>1, <1>5, <2>1, <2>2 DEF Owes
  <1>9. Stalls(p, t, c)
    <2>1. CallsTell(Pkts(t.cq), p.expected)
      BY <1>2 DEF SameMail, Flow, Stalls
    <2>2. Mute(p, t) => Mute(p, r)
      BY <1>1 DEF Mute, Server, SameStage
    <2>3. Up(t) => Up(r)
      BY <1>1 DEF Up, SameStage
    <2>4. c + Due(r, p) = 0 => c + Due(t, p) = 0
      BY <1>5
    <2> QED
      BY <1>1, <1>3, <2>1, <2>2, <2>3, <2>4 DEF Flow, Stalls
  <1> QED
    BY <1>6, <1>7, <1>8, <1>9 DEF Flow

\* The messages of the process that posts; with an eager packet it starts one.
LEMMA PostsFlowOut ==
    ASSUME NEW r, NEW s, Data(r, s), NEW p, NEW k, Data(p, k), NEW a, a \in Nat,
           Flow(r, p, s, a, broken), NEW t, NEW pkt, Posts(r, t, pkt), PktOk(pkt),
           NEW z \in Nat, NextMsg(pkt, s, z), Gone(t, z) = Gone(r, s),
           pkt.type = "eager" => r.state = "pt2pt",
           t.pending \in Nat, t.pending + AckOf(pkt) = r.pending,
           Mute(r, p) => Asked(r) /\ r.vi \notin broken /\ pkt.type = "nfr_req"
    PROVE  Flow(t, p, z, a, broken)
  <1>1. SameStage(r, t) /\ t.vi = r.vi /\ t.expected = r.expected /\ t.state = r.state
    BY DEF Posts, SameRest, SameGot, SameStage
  <1>2. /\ SameMail(r.cq, t.cq)
    BY PostsPipes DEF Data
  <1>3. Due(p, t) = Due(p, r)
    BY <1>2 DEF Due, SameMail
  <1>4. s \in Nat /\ s <= z
    BY DueType, SMTT(30) DEF NextMsg
  <1>5. Reached(t, p, z)
    <2>1. Len(p.got) \in Nat
      BY DueType
    <2> QED
      BY <1>4, <2>1 DEF Reached, Flow
  <1>6. ASSUME NEW j, NEW l \in Nat, Stream(r, p, j), NextMsg(pkt, j, l), r.vi \notin broken
        PROVE  Stream(t, p, l)
    <2>1. PICK i \in Nat : Carries(Pkts(p.cq), Len(p.got), i) /\ Carries(r.wire, i, j)
      BY <1>6 DEF Stream
    <2>2. IsSeq(r.wire) /\ t.wire = Append(r.wire, pkt)
      BY <1>6 DEF Data, Pipes, Pile, Posts
    <2>3. Carries(t.wire, i, l)
      BY <1>6, <2>1, <2>2, CarriesAppend
    <2> QED
      BY <2>1, <2>3 DEF Stream
  <1>7. ASSUME NEW j, Stream(r, p, j), r.vi \in broken
        PROVE  Stream(t, p, j)
    BY <1>7 DEF Stream, Posts
  <1>8. Streams(t, p, z, broken)
    <2>1. PICK j \in 0 .. s : Stream(r, p, j) /\ (Sending(r, broken) => j = s)
      BY DEF Flow, Streams
    <2>2. Sending(t, broken) <=> Sending(r, broken)
      BY <1>1 DEF Sending
    <2>3. CASE r.vi \in broken
      <3>1. ~Sending(r, broken) /\ j \in 0 .. z
        BY <1>4, <2>3 DEF Sending
      <3> QED
        BY <1>7, <2>1, <2>2, <2>3, <3>1 DEF Streams
    <2>4. CASE r.vi \notin broken /\ pkt.type = "eager"
      <3>1. j = s /\ z \in 0 .. z
        BY <1>4, <2>1, <2>4 DEF Sending
      <3>2. Stream(t, p, z)
        BY <1>6, <2>1, <2>4, <3>1
      <3> QED
        BY <3>1, <3>2 DEF Streams
    <2>5. CASE r.vi \notin broken /\ pkt.type # "eager"
      <3>1. z = s /\ NextMsg(pkt, j, j) /\ j \in Nat
        BY <1>4, <2>5 DEF NextMsg
      <3>2. Stream(t, p, j)
        BY <1>6, <2>1, <2>5, <3>1
      <3> QED
        BY <2>1, <2>2, <3>1, <3>2 DEF Streams
    <2> QED
      BY <2>3, <2>4, <2>5
  <1>9. Owes(t, p, z, a, broken)
    BY <1>1, <1>3 DEF Owes, Flow, Sending
  <1>10. Stalls(t, p, a)
    <2>1. (Fresh(t) <=> Fresh(r)) /\ (Seen(t) <=> Seen(r)) /\ (Asked(t) <=> Asked(r))
      BY <1>1, StagesSame
    <2>2. Mute(t, p) <=> Mute(r, p)
      BY <2>1 DEF Mute
    <2>3. ~(Fresh(t) \/ Seen(t))
      BY <2>1 DEF Mute, Asked, Fresh, Seen
    <2>4. Mute(t, p) => t.cq = << >> /\ t.pending = 0
                        /\ \A i \in DOMAIN t.wire : t.wire[i].type = "nfr_req"
      <3> SUFFICES ASSUME Mute(r, p)
                   PROVE  t.cq = << >> /\ t.pending = 0
                          /\ \A i \in DOMAIN t.wire : t.wire[i].type = "nfr_req"
        BY <2>2
      <3>1. r.cq = << >> /\ r.pending = 0 /\ \A i \in DOMAIN r.wire : r.wire[i].type = "nfr_req"
        BY DEF Flow, Stalls
      <3>2. t.wire = Append(r.wire, pkt) /\ t.cq = r.cq /\ IsSeq(r.wire)
        BY DEF Posts, Data, Pipes, Pile
      <3>3. \A i \in DOMAIN t.wire : t.wire[i].type = "nfr_req"
        BY <3>1, <3>2, AppendSeq
      <3>4. t.pending = 0
        BY <3>1 DEF AckOf
      <3> QED
        BY <3>1, <3>2, <3>3, <3>4
    <2>5. Asked(t) /\ Up(p) => a + Due(p, t) = 0 /\ Stream(t, p, Len(p.got))
      <3> SUFFICES ASSUME Asked(r), Up(p) PROVE a + Due(p, t) = 0 /\ Stream(t, p, Len(p.got))
        BY <2>1
      <3>1. a + Due(p, r) = 0 /\ Stream(r, p, Len(p.got))
        BY DEF Flow, Stalls
      <3>2. pkt.type # "eager" /\ Len(p.got) \in Nat
        BY DueType DEF Asked, OnNewQp
      <3>3. NextMsg(pkt, Len(p.got), Len(p.got))
        BY <3>2 DEF NextMsg
      <3> QED
        BY <1>3, <1>6, <1>7, <3>1, <3>2, <3>3
    <2> QED
      BY <1>1, <2>3, <2>4, <2>5 DEF Stalls, Flow
  <1> QED
    BY <1>5, <1>8, <1>9, <1>10 DEF Flow

LEMMA PostsJoint ==
    ASSUME NEW r, NEW p, NEW s, NEW k, NEW a \in Nat, Joint(r, p, s, k, a, broken),
           NEW t, NEW pkt, Posts(r, t, pkt), PktOk(pkt),
           pkt.type \in Call => pkt.ack = r.expected,
           NEW z, Numbered(t, z), NextMsg(pkt, s, z), Gone(t, z) = Gone(r, s),
           pkt.type = "eager" => r.state = "pt2pt",
           t.pending \in Nat, t.pending + AckOf(pkt) = r.pending,
           Mute(r, p) => Asked(r) /\ r.vi \notin broken /\ pkt.type = "nfr_req"
    PROVE  Joint(t, p, z, k, a, broken)
  <1>1. Data(t, z)
    BY PostsData DEF Joint
  <1>2. Place(t, broken)
    BY PostsPlace DEF Joint
  <1>3. Flow(p, t, k, 0, broken)
    BY PostsFlowIn DEF Joint
  <1>4. Flow(t, p, z, a, broken)
    BY PostsFlowOut DEF Joint, Numbered
  <1> QED
    BY <1>1, <1>2, <1>3, <1>4 DEF Joint

\* A step on r that leaves its packets, lists and messages alone
SameData(r, t) ==
    /\ Whole(t) /\ t.vi = r.vi /\ SameGot(r, t) /\ SameList(r, t) /\ t.pending = r.pending
    /\ t.wire = r.wire /\ t.sent = r.sent /\ t.cq = r.cq /\ t.halt = r.halt

\* Nothing that a stage promises is promised anew.
NoPromise(r, t, p, b) ==
    /\ Sending(t, b) => Sending(r, b)
    /\ Client(t) \/ Server(t) => t.vi \in b
    /\ Server(r) => Server(t)
    /\ Fresh(t) \/ Seen(t) => Fresh(r) \/ Seen(r)
    /\ Mute(t, p) => Mute(r, p)
    /\ Asked(t) /\ Up(p) => Asked(r)
    /\ Mute(p, t) => Mute(p, r)
    /\ Asked(p) /\ Up(t) => Up(r)

LEMMA SameDataFacts ==
    ASSUME NEW r, NEW s, Data(r, s), NEW t, SameData(r, t)
    PROVE  /\ Data(t, s)
           /\ \A p : Due(t, p) = Due(r, p) /\ Due(p, t) = Due(p, r)
           /\ \A p : \A j : (Stream(t, p, j) <=> Stream(r, p, j)) /\ (Stream(p, t, j) <=> Stream(p, r, j))
           /\ Gone(t, s) = Gone(r, s)
  <1>1. Data(t, s)
    BY DEF Data, SameData, SameGot, SameList, NoRendezvous, InOrder, Numbered, Pipes
  <1>2. \A p : Due(t, p) = Due(r, p) /\ Due(p, t) = Due(p, r)
    BY DEF Due, SameData
  <1>3. \A p : \A j : (Stream(t, p, j) <=> Stream(r, p, j)) /\ (Stream(p, t, j) <=> Stream(p, r, j))
    BY DEF Stream, SameData, SameGot
  <1>4. Gone(t, s) = Gone(r, s)
    BY DEF Gone, SameData, SameList
  <1> QED
    BY <1>1, <1>2, <1>3, <1>4

LEMMA JointStage ==
    ASSUME NEW r, NEW p, NEW s, NEW k, NEW a, NEW b, Joint(r, p, s, k, a, b),
           NEW t, SameData(r, t), NoPromise(r, t, p, b)
    PROVE  Joint(t, p, s, k, a, b)
  <1>1. /\ Data(t, s)
        /\ Due(t, p) = Due(r, p) /\ Due(p, t) = Due(p, r)
        /\ \A j : (Stream(t, p, j) <=> Stream(r, p, j)) /\ (Stream(p, t, j) <=> Stream(p, r, j))
        /\ Gone(t, s) = Gone(r, s)
    BY SameDataFacts DEF Joint
  <1>2. /\ t.vi = r.vi /\ t.wire = r.wire /\ t.cq = r.cq /\ t.pending = r.pending
        /\ t.got = r.got /\ t.expected = r.expected
    BY DEF SameData, SameGot
  <1>3. Place(t, b)
    BY <1>2 DEF Place, NoPromise, Joint
  <1>4. Flow(t, p, s, a, b)
    <2>1. Reached(t, p, s)
      BY <1>1 DEF Reached, Flow, Joint
    <2>2. Streams(t, p, s, b)
      BY <1>1 DEF Streams, Flow, Joint, NoPromise
    <2>3. Owes(t, p, s, a, b)
      BY <1>1, <1>2 DEF Owes, Flow, Joint, NoPromise
    <2>4. Stalls(t, p, a)
      BY <1>1, <1>2 DEF Stalls, Flow, Joint, NoPromise
    <2> QED
      BY <2>1, <2>2, <2>3, <2>4 DEF Flow
  <1>5. Flow(p, t, k, 0, b)
    <2>1. Reached(p, t, k)
      BY <1>2 DEF Reached, Flow, Joint
    <2>2. Streams(p, t, k, b)
      BY <1>1 DEF Streams, Flow, Joint
    <2>3. Owes(p, t, k, 0, b)
      BY <1>1, <1>2 DEF Owes, Flow, Joint
    <2>4. Stalls(p, t, 0)
      BY <1>1, <1>2 DEF Stalls, Flow, Joint, NoPromise
    <2> QED
      BY <2>1, <2>2, <2>3, <2>4 DEF Flow
  <1> QED
    BY <1>1, <1>3, <1>4, <1>5 DEF Joint

LEMMA JointSame ==
    ASSUME NEW r, NEW p, NEW s, NEW k, NEW a, NEW b, Joint(r, p, s, k, a, b),
           NEW t, SameData(r, t), SameStage(r, t)
    PROVE  Joint(t, p, s, k, a, b)
  <1>1. /\ Up(t) <=> Up(r)
        /\ Client(t) <=> Client(r)
        /\ Server(t) <=> Server(r)
        /\ Fresh(t) <=> Fresh(r)
        /\ Seen(t) <=> Seen(r)
        /\ Asked(t) <=> Asked(r)
    BY DEF SameStage, Up, Client, Server, OnNewQp, Fresh, Seen, Asked
  <1>2. t.vi = r.vi /\ t.state = r.state
    BY DEF SameStage
  <1>3. NoPromise(r, t, p, b)
    BY <1>1, <1>2 DEF NoPromise, Mute, Sending, Joint, Place
  <1> QED
    BY <1>3, JointStage

-----------------------------------------------------------------------------
(* Starting messages.                                                       *)

LEMMA WaitsAppend ==
    ASSUME NEW w, NEW s \in Nat, Waits(w, s), NEW z, z = s + 1, NEW v, Listed(v),
           v.type = "eager", v.msg = z, v.id = FirstId + s
    PROVE  Waits(Append(w, v), z) /\ Len(Append(w, v)) = Len(w) + 1
  <1> DEFINE u == Append(w, v)
             n == Len(w)
  <1>1. IsSeq(w) /\ n \in Nat /\ n <= s /\ DOMAIN w = 1 .. n
    BY SeqFacts DEF Waits, List
  <1>2. /\ DOMAIN u = DOMAIN w \cup {n + 1} /\ \A i \in DOMAIN w : u[i] = w[i]
        /\ u[n + 1] = v
    BY <1>1, AppendSeq
  <1>3. List(u)
    BY ListAppend DEF Waits
  <1>4. Len(u) = n + 1
    <2> DEFINE S == Range(w) \cup {v}
    <2>1. w \in Seq(S) /\ v \in S
      BY <1>1 DEF IsSeq
    <2> HIDE DEF S
    <2> QED
      BY <2>1
  <1> HIDE DEF u
  <1>5. ASSUME NEW i \in DOMAIN u
        PROVE  u[i].type = "eager" /\ u[i].msg = (z - Len(u)) + i /\ u[i].id = FirstId + u[i].msg - 1
    <2>1. z - Len(u) = s - n
      BY <1>1, <1>4
    <2>2. CASE i \in DOMAIN w
      BY <1>2, <2>1, <2>2 DEF Waits, n
    <2>3. CASE i = n + 1
      <3>1. (s - n) + i = z
        BY <1>1, <2>3
      <3>2. FirstId + z - 1 = FirstId + s
        BY RecoveryAssumption
      <3> QED
        BY <1>2, <2>1, <2>3, <3>1, <3>2
    <2> QED
      BY <1>2, <2>2, <2>3
  <1>6. Waits(u, z)
    BY <1>1, <1>3, <1>4, <1>5 DEF Waits
  <1> QED
    BY <1>4, <1>6 DEF u, n

LEMMA NextIdIs ==
    ASSUME NEW n \in Nat, FirstId + (n + 1) < IdSpace
    PROVE  NextId(FirstId + n) = FirstId + (n + 1)
  <1>1. FirstId \in Nat /\ IdSpace \in Nat
    BY RecoveryAssumption
  <1>2. FirstId + n + 1 \in 0 .. (IdSpace - 1)
    BY <1>1
  <1>3. (FirstId + n + 1) % IdSpace = FirstId + n + 1
    BY <1>1, <1>2
  <1> QED
    BY <1>1, <1>3 DEF NextId

LEMMA StartJoint ==
    ASSUME NEW r, NEW p, NEW s, NEW k, NEW a \in Nat, Joint(r, p, s, k, a, broken),
           r.state = "pt2pt", NEW m, m = s + 1, FirstId + m < IdSpace
    PROVE  /\ Joint(Start(r, "eager", m), p, m, k, a, broken)
           /\ SameApp(r, Start(r, "eager", m))
  <1> DEFINE t == Start(r, "eager", m)
             pkt == Packet("eager", r.tosend, r.pending, m)
             kept == Packet("eager", r.tosend, 0, m)
  <1>1. /\ Posts(r, t, pkt) /\ SameApp(r, t)
        /\ t.tosend = NextId(r.tosend) /\ t.pending = 0
        /\ t.waiting = Append(r.waiting, kept)
    BY StartPosts DEF Joint, Data
  <1>2. /\ s \in Nat /\ r.tosend = FirstId + s /\ Waits(r.waiting, s) /\ r.pending \in Nat
    BY DEF Joint, Data, Numbered
  <1>3. /\ Listed(kept) /\ kept.type = "eager" /\ kept.msg = m /\ kept.id = FirstId + s
    BY <1>2 DEF Packet, Listed
  <1>4. PktOk(pkt) /\ pkt.type = "eager" /\ AckOf(pkt) = r.pending /\ NextMsg(pkt, s, m)
    BY <1>2 DEF Packet, PktOk, AckOf, NextMsg
  <1> HIDE DEF t, pkt, kept
  <1>5. Waits(t.waiting, m) /\ Len(t.waiting) = Len(r.waiting) + 1
    BY <1>1, <1>2, <1>3, WaitsAppend
  <1>6. t.tosend = FirstId + m
    BY <1>1, <1>2, NextIdIs
  <1>7. Numbered(t, m)
    BY <1>2, <1>5, <1>6 DEF Numbered
  <1>8. Gone(t, m) = Gone(r, s)
    <2>1. Len(r.waiting) \in Nat
      BY DueType DEF Joint
    <2> QED
      BY <1>2, <1>5, <2>1 DEF Gone
  <1>9. ~Mute(r, p)
    BY DEF Mute, Fresh, Seen, Asked, OnNewQp
  <1>10. pkt.type \notin Call /\ t.pending + AckOf(pkt) = r.pending /\ t.pending \in Nat
    BY <1>1, <1>2, <1>4 DEF Call
  <1>11. Joint(t, p, m, k, a, broken)
    BY <1>1, <1>4, <1>7, <1>8, <1>9, <1>10, PostsJoint
  <1> QED
    BY <1>1, <1>11 DEF t

\* What is queued when s messages are started.
QueueFits(q, s) ==
    /\ IsSeq(q) /\ FirstId + s + Len(q) < IdSpace
    /\ \A i \in DOMAIN q : q[i].kind = "eager" /\ q[i].msg = s + i

LEMMA ProcessQueueJoint ==
    ASSUME NEW r, NEW p, NEW s, NEW k, NEW a \in Nat, Joint(r, p, s, k, a, broken),
           r.state = "pt2pt", QueueFits(r.queued, s)
    PROVE  LET t == ProcessQueue(r) IN
           /\ Joint(t, p, s + Len(r.queued), k, a, broken) /\ SameStage(r, t)
           /\ Rests(r, t) /\ t.queued = << >>
  <1> DEFINE q == r.queued
             N == Len(q)
             e == << >>
             base == [r EXCEPT !.queued = e]
             t == ProcessQueue(r)
  <1>1. PICK v : /\ v[0] = base /\ v[N] = t
                 /\ \A j \in 1 .. N : v[j] = Start(v[j - 1], q[j].kind, q[j].msg)
    BY ProcessQueueRun DEF QueueFits
  <1>2. N \in Nat /\ s \in Nat /\ FirstId \in Nat /\ FirstId + s + N < IdSpace /\ IdSpace \in Nat
        /\ DOMAIN q = 1 .. N
    <2>1. IsSeq(q) /\ FirstId + s + N < IdSpace
      BY DEF QueueFits
    <2>2. s \in Nat
      BY DEF Joint, Data, Numbered
    <2>3. FirstId \in Nat /\ IdSpace \in Nat
      BY RecoveryAssumption
    <2> QED
      BY <2>1, <2>2, <2>3, SeqFacts
  <1>3. \A j \in 1 .. N : q[j].kind = "eager" /\ q[j].msg = s + j
    BY <1>2 DEF QueueFits
  <1> DEFINE Good(j) == /\ Joint(v[j], p, s + j, k, a, broken) /\ SameStage(r, v[j])
                        /\ Rests(r, v[j]) /\ v[j].queued = e
  <1>4. IsSeq(e)
    BY NoElements
  <1> HIDE DEF q, N, e, t
  <1>5. Good(0)
    <2>1. DOMAIN r = RankFields /\ Whole(r)
      BY DEF Joint, Data, Whole
    <2>2. /\ DOMAIN base = RankFields /\ SameStage(r, base) /\ SameGot(r, base) /\ SameList(r, base)
          /\ base.pending = r.pending /\ base.vi = r.vi
          /\ base.wire = r.wire /\ base.sent = r.sent /\ base.cq = r.cq /\ base.halt = r.halt
          /\ base.todo = r.todo /\ base.issued = r.issued /\ base.queued = e
      BY <2>1 DEF RankFields, SameStage, SameGot, SameList
    <2> HIDE DEF base
    <2>3. SameData(r, base)
      BY <1>4, <2>1, <2>2 DEF SameData, Whole, SameList
    <2>4. Joint(base, p, s, k, a, broken)
      BY <2>2, <2>3, JointSame
    <2>5. s + 0 = s
      BY <1>2
    <2> QED
      BY <1>1, <2>2, <2>4, <2>5 DEF Rests, SameGot
  <1> HIDE DEF base
  <1>6. ASSUME NEW j \in 1 .. N, Good(j - 1) PROVE Good(j)
    <2> DEFINE c == v[j - 1]
               m == s + j
               i == s + (j - 1)
    <2>1. m = i + 1 /\ FirstId + m < IdSpace /\ m \in Nat
      BY <1>2
    <2>2. v[j] = Start(c, "eager", m)
      BY <1>1, <1>3
    <2>3. Joint(c, p, i, k, a, broken) /\ SameStage(r, c) /\ c.state = "pt2pt"
          /\ Rests(r, c) /\ c.queued = e
      BY <1>6 DEF SameStage
    <2> HIDE DEF c, i, m
    <2>4. Joint(Start(c, "eager", m), p, m, k, a, broken) /\ SameApp(c, Start(c, "eager", m))
      BY <2>1, <2>3, StartJoint
    <2>5. SameStage(c, v[j])
      <3>1. Whole(c)
        BY <2>3 DEF Joint, Data
      <3> QED
        BY <2>2, <3>1, StartQuiet DEF Quiet
    <2>6. SameStage(r, v[j])
      BY <2>3, <2>5 DEF SameStage
    <2> QED
      BY <2>2, <2>3, <2>4, <2>6 DEF SameApp, SameSends, Rests, m
  <1> DEFINE T == {j \in 0 .. N : Good(j)}
  <1> HIDE DEF Good
  <1>7. 0 \in T /\ \A j \in 1 .. N : j - 1 \in T => j \in T
    BY <1>2, <1>5, <1>6
  <1>8. N \in T
    <2> HIDE DEF T
    <2> QED
      BY <1>2, <1>7, UpTo
  <1>9. Good(N)
    BY <1>8
  <1> QED
    BY <1>1, <1>9 DEF Good, N, q, e, t

-----------------------------------------------------------------------------
(* The invariant of the messages, and the steps of the application.         *)

\* What holds of the messages in both directions, besides IInv
Messages(u, b) ==
    \A e \in End :
        App(u[e]) /\ Joint(u[e], u[Peer(e)], Started(u[e]), Started(u[Peer(e)]), 0, b)

MInv == IInv /\ Messages(rank, broken)

LEMMA JointBack ==
    ASSUME NEW r, NEW p, NEW s, NEW k, NEW b, Joint(r, p, s, k, 0, b)
    PROVE  Joint(p, r, k, s, 0, b)
  BY DEF Joint

LEMMA MessagesAgain ==
    ASSUME NEW e \in End, NEW u, NEW b, NEW t, u[e] = t, NEW q, u[Peer(e)] = q,
           App(t), App(q), Joint(t, q, Started(t), Started(q), 0, b)
    PROVE  Messages(u, b)
  <1>1. Joint(q, t, Started(q), Started(t), 0, b)
    BY JointBack
  <1> SUFFICES ASSUME NEW d \in End
               PROVE  App(u[d]) /\ Joint(u[d], u[Peer(d)], Started(u[d]), Started(u[Peer(d)]), 0, b)
    BY DEF Messages
  <1>2. CASE d = e
    BY <1>2
  <1>3. CASE d = Peer(e)
    BY <1>1, <1>3, Peers
  <1> QED
    BY <1>2, <1>3, Peers

LEMMA MessagesStep ==
    ASSUME MInv, NEW e \in End, NEW t, rank' = [rank EXCEPT ![e] = t], broken' = broken,
           App(t), Joint(t, rank[Peer(e)], Started(t), Started(rank[Peer(e)]), 0, broken),
           Moves(rank[e], t)
    PROVE  Messages(rank', broken') /\ Moved
  <1> DEFINE p == rank[Peer(e)]
  <1>1. rank'[e] = t /\ rank'[Peer(e)] = p
    BY TwoEnds DEF MInv
  <1>2. App(p)
    BY Peers DEF MInv, Messages
  <1>3. Messages(rank', broken)
    BY <1>1, <1>2, MessagesAgain
  <1>4. Moved
    BY <1>1 DEF Moved, Rests
  <1> QED
    BY <1>3, <1>4

\* What is known of end e and its peer before a step.
LEMMA BothEnds ==
    ASSUME MInv, NEW e \in End
    PROVE  LET r == rank[e]  p == rank[Peer(e)] IN
           /\ App(r) /\ App(p) /\ Joint(r, p, Started(r), Started(p), 0, broken)
           /\ Whole(r) /\ DOMAIN r = RankFields /\ r.halt = "no"
           /\ EndOk(r, broken) /\ EndOk(p, broken) /\ Linked(e, r, p)
  <1>1. App(rank[e]) /\ App(rank[Peer(e)])
        /\ Joint(rank[e], rank[Peer(e)], Started(rank[e]), Started(rank[Peer(e)]), 0, broken)
    BY Peers DEF MInv, Messages
  <1>2. IInv
    BY DEF MInv
  <1> QED
    BY <1>1, <1>2, TwoEnds DEF Joint, Data, Whole

LEMMA AppFits ==
    ASSUME NEW r, App(r), Whole(r)
    PROVE  /\ QueueFits(r.queued, Started(r)) /\ Started(r) \in Nat /\ Len(r.queued) \in Nat
           /\ Started(r) + Len(r.queued) = r.issued
  <1>1. IsSeq(r.queued) /\ Len(r.queued) \in Nat
    BY SeqFacts DEF Whole
  <1>2. Len(r.todo) \in Nat /\ FirstId \in Nat /\ IdSpace \in Nat /\ r.issued \in Nat
    BY RecoveryAssumption DEF App
  <1>3. Started(r) \in Nat /\ Started(r) + Len(r.queued) = r.issued
    BY <1>1, <1>2 DEF Started, App
  <1>4. FirstId + Started(r) + Len(r.queued) < IdSpace
    BY <1>1, <1>2, <1>3, SMTT(30) DEF App
  <1> QED
    BY <1>1, <1>3, <1>4 DEF App, QueueFits

LEMMA AppendLength ==
    ASSUME NEW s, IsSeq(s), NEW x
    PROVE  Len(Append(s, x)) = Len(s) + 1
  <1> DEFINE S == Range(s) \cup {x}
  <1>1. s \in Seq(S) /\ x \in S
    BY DEF IsSeq
  <1> HIDE DEF S
  <1> QED
    BY <1>1

LEMMA SendMessages ==
    ASSUME MInv, NEW e \in End, Send(e)
    PROVE  Messages(rank', broken') /\ Moved
  <1> DEFINE r == rank[e]
             p == rank[Peer(e)]
             s == Started(r)
             k == Started(p)
             m == r.issued + 1
             kind == Head(r.todo)
             l == Tail(r.todo)
             begun == [r EXCEPT !.todo = l, !.issued = m]
             c == [kind |-> kind, msg |-> m]
             h == Append(r.queued, c)
             w == [begun EXCEPT !.queued = h]
             o == ProcessQueue(begun)
             t == IF r.state = "pt2pt" THEN Start(o, kind, m) ELSE w
  <1>1. rank' = [rank EXCEPT ![e] = t] /\ broken' = broken /\ r.todo # << >>
    BY DEF Send, net
  <1>2. App(r) /\ Joint(r, p, s, k, 0, broken) /\ Whole(r) /\ DOMAIN r = RankFields
    BY BothEnds
  <1>3. /\ QueueFits(r.queued, s) /\ s \in Nat /\ Len(r.queued) \in Nat
        /\ s + Len(r.queued) = r.issued /\ r.issued \in Nat
    BY <1>2, AppFits DEF App
  <1>4. /\ kind = "eager" /\ l \in Seq({"eager"}) /\ Len(r.todo) = Len(l) + 1 /\ Len(l) \in Nat
    <2>1. r.todo \in Seq({"eager"})
      BY <1>2 DEF App
    <2>2. kind \in {"eager"}
      BY <1>1, <2>1
    <2> QED
      BY <1>1, <2>1, <2>2
  <1> HIDE DEF r, s, p, k, kind, l
  <1>5. FirstId + m + Len(l) < IdSpace /\ FirstId \in Nat /\ m \in Nat /\ IdSpace \in Nat
    <2>1. FirstId + r.issued + Len(r.todo) < IdSpace
      BY <1>2 DEF App
    <2>2. FirstId \in Nat /\ IdSpace \in Nat
      BY RecoveryAssumption
    <2> DEFINE n == r.issued
               d == Len(l)
               f == Len(r.todo)
    <2>3. n \in Nat /\ d \in Nat /\ f = d + 1 /\ FirstId + n + f < IdSpace /\ m = n + 1
      BY <1>3, <1>4, <2>1
    <2> HIDE DEF n, d, f, m
    <2>4. FirstId + m + d < IdSpace /\ m \in Nat
      BY <2>2, <2>3
    <2> QED
      BY <2>2, <2>4 DEF d
  <1>6. /\ DOMAIN begun = RankFields /\ SameStage(r, begun) /\ SameGot(r, begun)
        /\ SameList(r, begun) /\ begun.pending = r.pending /\ begun.vi = r.vi
        /\ begun.wire = r.wire /\ begun.sent = r.sent /\ begun.cq = r.cq /\ begun.halt = r.halt
        /\ begun.todo = l /\ begun.issued = m /\ begun.queued = r.queued
    BY <1>2 DEF RankFields, SameStage, SameGot, SameList
  <1>7. CASE r.state = "pt2pt"
    <2> HIDE DEF begun, s, m
    <2>1. SameData(r, begun)
      BY <1>2, <1>6 DEF SameData, Whole, SameList
    <2>2. Joint(begun, p, s, k, 0, broken)
      BY <1>2, <1>6, <2>1, JointSame
    <2>3. begun.state = "pt2pt"
      BY <1>6, <1>7 DEF SameStage
    <2>4. Joint(o, p, s + Len(r.queued), k, 0, broken) /\ SameStage(begun, o)
          /\ o.todo = l /\ o.issued = m /\ o.queued = << >> /\ o.got = r.got
      BY <1>3, <1>6, <2>2, <2>3, ProcessQueueJoint DEF Rests, SameGot
    <2> HIDE DEF o
    <2>5. o.state = "pt2pt" /\ m = (s + Len(r.queued)) + 1 /\ FirstId + m < IdSpace
      <3>1. o.state = "pt2pt"
        BY <2>3, <2>4 DEF SameStage
      <3>2. m = (s + Len(r.queued)) + 1
        BY <1>3 DEF m
      <3>3. FirstId + m < IdSpace
        BY <1>5
      <3> QED
        BY <3>1, <3>2, <3>3
    <2>6. Joint(Start(o, "eager", m), p, m, k, 0, broken) /\ SameApp(o, Start(o, "eager", m))
      BY <2>4, <2>5, StartJoint
    <2>7. t = Start(o, "eager", m)
      BY <1>4, <1>7
    <2> HIDE DEF t
    <2>8. t.todo = l /\ t.issued = m /\ t.queued = << >> /\ t.got = r.got
      BY <2>4, <2>6, <2>7 DEF SameApp, SameSends
    <2>9. App(t) /\ Started(t) = m
      <3>1. Len(t.queued) = 0 /\ DOMAIN t.queued = {}
        BY <2>8
      <3> QED
        BY <1>4, <1>5, <2>8, <3>1 DEF App, Started
    <2>10. Joint(t, p, Started(t), k, 0, broken)
      BY <2>6, <2>7, <2>9
    <2>11. Moves(r, t)
      BY <1>1, <2>8 DEF Moves, l, m
    <2> QED
      BY <1>1, <2>9, <2>10, <2>11, MessagesStep DEF p, k, r
  <1>8. CASE r.state # "pt2pt"
    <2>1. t = w
      BY <1>8
    <2>2. /\ IsSeq(h) /\ DOMAIN h = DOMAIN r.queued \cup {Len(r.queued) + 1}
          /\ \A i \in DOMAIN r.queued : h[i] = r.queued[i]
          /\ h[Len(r.queued) + 1] = c
      <3> HIDE DEF c
      <3> QED
        BY <1>2, AppendSeq DEF Whole
    <2>3. Len(h) = Len(r.queued) + 1
      <3> HIDE DEF c
      <3> QED
        BY <1>2, AppendLength DEF Whole
    <2>4. c.kind = "eager" /\ c.msg = m
      BY <1>4
    <2> HIDE DEF h, begun, t, s, m, c
    <2>5. /\ DOMAIN w = RankFields /\ SameStage(r, w) /\ SameGot(r, w)
          /\ SameList(r, w) /\ w.pending = r.pending /\ w.vi = r.vi
          /\ w.wire = r.wire /\ w.sent = r.sent /\ w.cq = r.cq /\ w.halt = r.halt
          /\ w.todo = l /\ w.issued = m /\ w.queued = h
      BY <1>6 DEF RankFields, SameStage, SameGot, SameList
    <2> HIDE DEF w
    <2>6. SameData(r, w)
      BY <1>2, <2>2, <2>5 DEF SameData, Whole, SameList
    <2>7. Joint(w, p, s, k, 0, broken)
      BY <1>2, <2>5, <2>6, JointSame
    <2>8. Started(w) = s
      BY <1>3, <2>3, <2>5, SMTT(30) DEF Started, m, s
    <2>9. App(w)
      <3>1. ASSUME NEW i \in DOMAIN h PROVE h[i].kind = "eager" /\ h[i].msg = s + i
        <4>1. CASE i \in DOMAIN r.queued
          BY <1>2, <2>2, <4>1 DEF App, s
        <4>2. CASE i = Len(r.queued) + 1
          <5>1. m = s + i
            BY <1>3, <4>2 DEF m
          <5> QED
            BY <2>2, <2>4, <4>2, <5>1
        <4> QED
          BY <2>2, <4>1, <4>2
      <3>2. Len(h) <= m
        BY <1>3, <2>3 DEF m
      <3> QED
        BY <1>4, <1>5, <2>5, <2>8, <3>1, <3>2 DEF App
    <2>10. Moves(r, w)
      BY <1>1, <2>5 DEF Moves, SameGot, l, m
    <2> QED
      BY <1>1, <2>1, <2>7, <2>8, <2>9, <2>10, MessagesStep DEF p, k, r
  <1> QED
    BY <1>7, <1>8

LEMMA MatchMessages ==
    ASSUME MInv, NEW e \in End, Match(e)
    PROVE  FALSE
  <1>1. rank[e].unexp = << >>
    BY BothEnds DEF Joint, Data, NoRendezvous
  <1> QED
    BY <1>1 DEF Match

LEMMA AcknowledgeMessages ==
    ASSUME MInv, NEW e \in End, Acknowledge(e)
    PROVE  Messages(rank', broken') /\ Moved
  <1> DEFINE r == rank[e]
             p == rank[Peer(e)]
             pkt == Head(r.sent)
             x == Tail(r.sent)
             f == Completion("send", pkt, r)
             q == IF pkt.type \in {"read", "finish"} THEN Append(r.cq, f) ELSE r.cq
             t == [r EXCEPT !.sent = x, !.cq = q]
             s == Started(r)
             k == Started(p)
  <1>1. rank' = [rank EXCEPT ![e] = t] /\ broken' = broken /\ r.sent # << >>
    BY DEF Acknowledge, net
  <1>2. App(r) /\ Joint(r, p, s, k, 0, broken) /\ DOMAIN r = RankFields /\ Whole(r)
    BY BothEnds
  <1>3. Pile(x) /\ PktOk(pkt)
    BY <1>1, <1>2, PileTail DEF Joint, Data, Pipes
  <1>4. q = r.cq
    BY <1>3 DEF PktOk
  <1> HIDE DEF q, x, r, p
  <1>5. /\ DOMAIN t = RankFields /\ SameStage(r, t) /\ SameGot(r, t)
        /\ SameList(r, t) /\ t.pending = r.pending /\ t.vi = r.vi
        /\ t.wire = r.wire /\ t.sent = x /\ t.cq = r.cq /\ t.halt = r.halt
        /\ SameApp(r, t)
    BY <1>2, <1>4 DEF RankFields, SameStage, SameGot, SameList, SameApp, SameSends
  <1> HIDE DEF t
  <1>6. Started(t) = s /\ App(t)
    BY <1>2, <1>5 DEF SameApp, SameSends, App, Started
  <1>7. Joint(t, p, s, k, 0, broken)
    <2>1. Whole(t)
      BY <1>2, <1>5 DEF Whole, SameApp, SameSends, SameList
    <2>2. Data(t, s)
      BY <1>2, <1>3, <1>5, <2>1
         DEF Joint, Data, SameGot, SameList, NoRendezvous, InOrder, Numbered, Pipes
    <2>3. /\ Up(t) <=> Up(r)
          /\ Client(t) <=> Client(r)
          /\ Server(t) <=> Server(r)
          /\ Fresh(t) <=> Fresh(r)
          /\ Seen(t) <=> Seen(r)
          /\ Asked(t) <=> Asked(r)
          /\ t.state = r.state
      BY <1>5 DEF SameStage, Up, Client, Server, OnNewQp, Fresh, Seen, Asked
    <2>4. /\ Due(t, p) = Due(r, p) /\ Due(p, t) = Due(p, r)
          /\ \A j : (Stream(t, p, j) <=> Stream(r, p, j)) /\ (Stream(p, t, j) <=> Stream(p, r, j))
          /\ Gone(t, s) = Gone(r, s) /\ t.got = r.got /\ t.expected = r.expected
      BY <1>5 DEF Due, Stream, Gone, SameGot, SameList
    <2>5. Place(t, broken)
      BY <1>2, <1>5, <2>3 DEF Joint, Place
    <2>6. Flow(t, p, s, 0, broken)
      <3>1. Reached(t, p, s) /\ Streams(t, p, s, broken) /\ Owes(t, p, s, 0, broken)
        BY <1>2, <1>5, <2>3, <2>4 DEF Joint, Flow, Reached, Streams, Owes, Sending
      <3>2. Stalls(t, p, 0)
        BY <1>2, <1>5, <2>3, <2>4 DEF Joint, Flow, Stalls, Mute
      <3> QED
        BY <3>1, <3>2 DEF Flow
    <2>7. Flow(p, t, k, 0, broken)
      <3>1. Reached(p, t, k) /\ Streams(p, t, k, broken) /\ Owes(p, t, k, 0, broken)
        BY <1>2, <1>5, <2>3, <2>4 DEF Joint, Flow, Reached, Streams, Owes, Sending
      <3>2. Stalls(p, t, 0)
        BY <1>2, <1>5, <2>3, <2>4 DEF Joint, Flow, Stalls, Mute
      <3> QED
        BY <3>1, <3>2 DEF Flow
    <2> QED
      BY <1>2, <2>2, <2>5, <2>6, <2>7 DEF Joint
  <1>8. Joint(t, p, Started(t), k, 0, broken)
    BY <1>6, <1>7
  <1>9. Moves(r, t)
    BY <1>5 DEF SameApp, SameSends, Moves, Took
  <1> QED
    BY <1>1, <1>6, <1>8, <1>9, MessagesStep DEF r, p

-----------------------------------------------------------------------------
(* The main thread takes a completion off its queue.                        *)

Takes(r, t) ==
    /\ Whole(t) /\ SameStage(r, t) /\ SameGot(r, t) /\ SameList(r, t) /\ SameApp(r, t)
    /\ t.pending = r.pending /\ t.wire = r.wire /\ t.sent = r.sent /\ t.halt = r.halt
    /\ t.vi = r.vi /\ t.state = r.state /\ t.cq = Tail(r.cq)
    /\ \A i \in DOMAIN t.cq : \E j \in DOMAIN r.cq : t.cq[i] = r.cq[j]
    /\ \E j \in DOMAIN r.cq : Head(r.cq) = r.cq[j]

LEMMA TakeIs ==
    ASSUME NEW r, Whole(r), r.cq # << >>, NEW t, t = [r EXCEPT !.cq = Tail(@)]
    PROVE  Takes(r, t)
  <1> DEFINE q == Tail(r.cq)
  <1>1. t = [r EXCEPT !.cq = q]
    OBVIOUS
  <1>2. /\ IsSeq(q) /\ \A i \in DOMAIN q : \E j \in DOMAIN r.cq : q[i] = r.cq[j]
        /\ \E j \in DOMAIN r.cq : Head(r.cq) = r.cq[j]
    BY TailSeq DEF Whole, Completions
  <1>3. Completions(q)
    BY <1>2 DEF Whole, Completions
  <1> HIDE DEF q
  <1>4. /\ DOMAIN t = RankFields /\ SameStage(r, t) /\ SameGot(r, t) /\ SameList(r, t)
        /\ SameApp(r, t) /\ t.pending = r.pending /\ t.wire = r.wire /\ t.sent = r.sent
        /\ t.halt = r.halt /\ t.vi = r.vi /\ t.state = r.state /\ t.cq = q
    BY <1>1 DEF Whole, RankFields, SameStage, SameGot, SameList, SameApp, SameSends
  <1>5. Whole(t)
    BY <1>3, <1>4 DEF Whole, SameApp, SameSends, SameList
  <1> QED
    BY <1>2, <1>4, <1>5 DEF q, Takes

\* What is taken, and what is left in the queue.
\* pkt has left the completion queue of r, which t has without it.
Parted(r, t, pkt) ==
    /\ Pipes(t) /\ PktOk(pkt) /\ AckOf(pkt) \in Nat /\ Acks(Pkts(t.cq)) \in Nat
    /\ Acks(Pkts(r.cq)) = AckOf(pkt) + Acks(Pkts(t.cq))
    /\ \A n : \A j : Carries(Pkts(r.cq), n, j) =>
          \E k \in Nat : NextMsg(pkt, n, k) /\ Carries(Pkts(t.cq), k, j)
    /\ \A x : CallsTell(Pkts(r.cq), x) =>
          CallsTell(Pkts(t.cq), x) /\ (pkt.type \in Call => pkt.ack = x)

LEMMA TakeSplits ==
    ASSUME NEW r, NEW s, Data(r, s), r.cq # << >>, NEW t, t = [r EXCEPT !.cq = Tail(@)],
           NEW pkt, pkt = PktIn(Head(r.cq))
    PROVE  Parted(r, t, pkt)
  <1> DEFINE q == Tail(r.cq)
             w == Pkts(r.cq)
             v == Pkts(q)
  <1>1. /\ t.cq = q /\ t.wire = r.wire /\ t.sent = r.sent
        /\ \A i \in DOMAIN t.cq : \E j \in DOMAIN r.cq : t.cq[i] = r.cq[j]
    <2>1. Takes(r, t)
      BY TakeIs DEF Data
    <2> QED
      BY <2>1 DEF Takes
  <1>2. v = Tail(w) /\ pkt = Head(w) /\ w # << >>
    BY PktsTail DEF Data, Whole, Completions
  <1>3. Pile(w) /\ IsSeq(w)
    BY DEF Data, Pipes, Pile
  <1> HIDE DEF w, v, q
  <1>4. /\ Pile(v) /\ Acks(w) = AckOf(pkt) + Acks(v)
        /\ PktOk(pkt) /\ Acks(v) \in Nat /\ AckOf(pkt) \in Nat
    BY <1>2, <1>3, PileTail
  <1>5. ASSUME NEW n, NEW j, Carries(w, n, j)
        PROVE  \E k \in Nat : NextMsg(pkt, n, k) /\ Carries(v, k, j)
    BY <1>2, <1>3, <1>5, CarriesTail
  <1>6. ASSUME NEW x, CallsTell(w, x)
        PROVE  CallsTell(v, x) /\ (pkt.type \in Call => pkt.ack = x)
    BY <1>2, <1>3, <1>6, TailSeq DEF CallsTell
  <1>7. Pipes(t)
    BY <1>1, <1>4 DEF Data, Pipes, v
  <1>8. t.cq = q
    BY <1>1
  <1> QED
    BY <1>4, <1>5, <1>6, <1>7, <1>8 DEF w, v, Parted

LEMMA TakePipes ==
    ASSUME NEW r, NEW s, Data(r, s), r.cq # << >>, NEW t, t = [r EXCEPT !.cq = Tail(@)],
           NEW pkt, pkt = PktIn(Head(r.cq))
    PROVE  /\ Pipes(t) /\ PktOk(pkt) /\ AckOf(pkt) \in Nat /\ Acks(Pkts(t.cq)) \in Nat
           /\ Acks(Pkts(r.cq)) = AckOf(pkt) + Acks(Pkts(t.cq))
           /\ \A n : \A j : Carries(Pkts(r.cq), n, j) =>
                 \E k \in Nat : NextMsg(pkt, n, k) /\ Carries(Pkts(t.cq), k, j)
           /\ \A x : CallsTell(Pkts(r.cq), x) =>
                 CallsTell(Pkts(t.cq), x) /\ (pkt.type \in Call => pkt.ack = x)
  <1>1. Parted(r, t, pkt)
    BY TakeSplits
  <1> QED
    BY <1>1 DEF Parted

LEMMA PlaceSame ==
    ASSUME NEW r, NEW t, NEW b, Place(r, b), r.vi = t.vi, r.wire = t.wire, r.cq = t.cq,
           Client(t) <=> Client(r), Server(t) <=> Server(r)
    PROVE  Place(t, b)
  BY DEF Place

LEMMA TakePlace ==
    ASSUME NEW r, NEW b, Whole(r), Place(r, b), r.cq # << >>, NEW t, t = [r EXCEPT !.cq = Tail(@)]
    PROVE  Place(t, b)
  <1>1. /\ SameStage(r, t) /\ t.wire = r.wire /\ t.vi = r.vi
        /\ \A i \in DOMAIN t.cq : \E j \in DOMAIN r.cq : t.cq[i] = r.cq[j]
    <2>1. Takes(r, t)
      BY TakeIs
    <2> QED
      BY <2>1 DEF Takes
  <1>2. (Client(t) <=> Client(r)) /\ (Server(t) <=> Server(r))
    BY <1>1 DEF SameStage, Client, Server
  <1>3. \A i \in DOMAIN r.cq :
          \/ r.cq[i].qp = r.vi
          \/ Server(r) /\ r.cq[i].what = "recv" /\ r.cq[i].pkt.type = "nfr_req"
    BY DEF Place
  <1>4. \A i \in DOMAIN t.cq :
          \/ t.cq[i].qp = t.vi
          \/ Server(t) /\ t.cq[i].what = "recv" /\ t.cq[i].pkt.type = "nfr_req"
    BY <1>1, <1>2, <1>3
  <1>5. (t.vi \in b => t.wire = << >>) /\ (Client(t) \/ Server(t) => t.vi \in b)
    BY <1>1, <1>2 DEF Place
  <1> QED
    BY <1>4, <1>5 DEF Place

LEMMA TakeAcks ==
    ASSUME NEW r, NEW s, Data(r, s), r.cq # << >>, NEW t, t = [r EXCEPT !.cq = Tail(@)],
           NEW pkt, pkt = PktIn(Head(r.cq))
    PROVE  /\ AckOf(pkt) \in Nat /\ Acks(Pkts(t.cq)) \in Nat
           /\ Acks(Pkts(r.cq)) = AckOf(pkt) + Acks(Pkts(t.cq))
  <1>1. Parted(r, t, pkt)
    BY TakeSplits
  <1> QED
    BY <1>1 DEF Parted

\* The other direction learns of the acknowledgement that is taken.
LEMMA TakeFlowOut ==
    ASSUME NEW r, NEW p, NEW s, NEW k, NEW b, Joint(r, p, s, k, 0, b), r.cq # << >>,
           NEW t, t = [r EXCEPT !.cq = Tail(@)], NEW pkt, pkt = PktIn(Head(r.cq))
    PROVE  Flow(t, p, s, AckOf(pkt), b)
  <1> DEFINE a == AckOf(pkt)
  <1>1. /\ SameStage(r, t) /\ SameGot(r, t) /\ SameList(r, t)
        /\ t.pending = r.pending /\ t.wire = r.wire /\ t.vi = r.vi /\ t.state = r.state
        /\ t.got = r.got /\ t.expected = r.expected
    <2>1. Takes(r, t)
      BY TakeIs DEF Joint, Data
    <2> QED
      BY <2>1 DEF Takes, SameGot
  <1>2. /\ a \in Nat /\ Acks(Pkts(t.cq)) \in Nat
        /\ Acks(Pkts(r.cq)) = a + Acks(Pkts(t.cq))
    <2>1. Data(r, s)
      BY DEF Joint
    <2> QED
      BY <2>1, TakeAcks
  <1>3. p.pending \in Nat /\ Acks(p.wire) \in Nat
    BY DueType DEF Joint
  <1> HIDE DEF a
  <1>4. a + Due(p, t) = 0 + Due(p, r)
    BY <1>2, <1>3 DEF Due
  <1>5. /\ Reached(r, p, s) /\ Streams(r, p, s, b) /\ Owes(r, p, s, 0, b) /\ Stalls(r, p, 0)
    BY DEF Joint, Flow
  <1>6. Gone(t, s) = Gone(r, s)
    BY <1>1 DEF SameList, Gone
  <1>7. \A j : Stream(t, p, j) <=> Stream(r, p, j)
    BY <1>1 DEF Stream
  <1>8. /\ (Fresh(t) <=> Fresh(r)) /\ (Seen(t) <=> Seen(r)) /\ (Asked(t) <=> Asked(r))
    BY <1>1, StagesSame
  <1>9. ~Mute(r, p)
    BY <1>5 DEF Stalls
  <1>10. ~Mute(t, p) /\ ~Fresh(t) /\ ~Seen(t)
    BY <1>8, <1>9 DEF Mute
  <1>11. Reached(t, p, s) /\ Streams(t, p, s, b)
    BY <1>1, <1>5, <1>6, <1>7 DEF Reached, Streams, Sending
  <1>12. Owes(t, p, s, a, b)
    BY <1>1, <1>4, <1>5, <1>6 DEF Owes, Sending
  <1>13. Stalls(t, p, a)
    BY <1>1, <1>4, <1>5, <1>7, <1>8, <1>10 DEF Stalls
  <1> QED
    BY <1>11, <1>12, <1>13 DEF Flow, a

\* A packet that is no message
LEMMA TakeJoint ==
    ASSUME NEW r, NEW p, NEW s, NEW k, NEW b, Joint(r, p, s, k, 0, b), r.cq # << >>,
           NEW t, t = [r EXCEPT !.cq = Tail(@)], NEW pkt, pkt = PktIn(Head(r.cq)),
           pkt.type # "eager"
    PROVE  Joint(t, p, s, k, AckOf(pkt), b)
  <1>1. /\ Whole(t) /\ SameStage(r, t) /\ SameGot(r, t) /\ SameList(r, t) /\ SameApp(r, t)
        /\ t.pending = r.pending /\ t.wire = r.wire /\ t.vi = r.vi /\ t.state = r.state
        /\ t.halt = r.halt /\ t.got = r.got /\ t.expected = r.expected
    <2>1. Takes(r, t)
      BY TakeIs DEF Joint, Data
    <2> QED
      BY <2>1 DEF Takes, SameGot
  <1>2. /\ Pipes(t)
        /\ \A n : \A j : Carries(Pkts(r.cq), n, j) =>
              \E l \in Nat : NextMsg(pkt, n, l) /\ Carries(Pkts(t.cq), l, j)
        /\ \A x : CallsTell(Pkts(r.cq), x) => CallsTell(Pkts(t.cq), x)
    BY TakePipes, ZenonT(60) DEF Joint
  <1>3. Flow(t, p, s, AckOf(pkt), b)
    BY TakeFlowOut
  <1>4. Place(t, b)
    BY TakePlace DEF Joint, Data
  <1>5. Data(t, s)
    BY <1>1, <1>2 DEF Joint, Data, SameGot, SameList, NoRendezvous, InOrder, Numbered
  <1>6. Flow(p, t, k, 0, b)
    <2>1. /\ Reached(p, r, k) /\ Streams(p, r, k, b) /\ Owes(p, r, k, 0, b) /\ Stalls(p, r, 0)
      BY DEF Joint, Flow
    <2>2. ASSUME NEW n, NEW j, Carries(Pkts(r.cq), n, j) PROVE Carries(Pkts(t.cq), n, j)
      <3>1. PICK l \in Nat : NextMsg(pkt, n, l) /\ Carries(Pkts(t.cq), l, j)
        BY <1>2, <2>2
      <3>2. l = n
        BY <3>1 DEF NextMsg
      <3> QED
        BY <3>1, <3>2
    <2>3. \A j : Stream(p, r, j) => Stream(p, t, j)
      BY <1>1, <2>2 DEF Stream
    <2>4. Due(t, p) = Due(r, p)
      BY <1>1 DEF Due
    <2>5. (Server(t) <=> Server(r)) /\ (Up(t) <=> Up(r))
      BY <1>1 DEF SameStage, Server, Up
    <2>6. Reached(p, t, k) /\ Streams(p, t, k, b) /\ Owes(p, t, k, 0, b)
      BY <1>1, <2>1, <2>3, <2>4 DEF Reached, Streams, Owes
    <2>7. Stalls(p, t, 0)
      BY <1>1, <1>2, <2>1, <2>3, <2>4, <2>5 DEF Stalls, Mute
    <2> QED
      BY <2>6, <2>7 DEF Flow
  <1> QED
    BY <1>3, <1>4, <1>5, <1>6 DEF Joint

\* Calls are under way only while they are answered or their sender waits.
LEMMA NoCallOut ==
    ASSUME NEW e \in End, NEW r, NEW p, Linked(e, r, p),
           ~(Asked(p) /\ Up(r)), ~(Asked(r) /\ Server(p))
    PROVE  NoCall(r, p)
  BY DEF Linked, Pair, Calm, Asking, Crossing, Serving, Waiting, Requesting, Replying

LEMMA NoCallTells ==
    ASSUME NEW r, NEW p, NoCall(r, p), IsSeq(p.cq)
    PROVE  \A x : CallsTell(r.wire, x) /\ CallsTell(Pkts(p.cq), x)
  <1>1. \A i \in DOMAIN r.wire : r.wire[i].type \notin Call
    BY DEF NoCall, NoneOf, Calls
  <1>2. \A i \in DOMAIN Pkts(p.cq) : Pkts(p.cq)[i].type \notin Call
    <2> SUFFICES ASSUME NEW i \in DOMAIN p.cq PROVE PktIn(p.cq[i]).type \notin Call
      BY PktsSeq
    <2>1. p.cq[i].what = "recv" => p.cq[i].pkt.type \notin Call
      BY DEF NoCall, NoneOf, Heard
    <2> QED
      BY <2>1, NothingIs DEF PktIn, Call
  <1> QED
    BY <1>1, <1>2 DEF CallsTell

\* The message n + 1 has been taken in.
TakesIn(t, u) ==
    /\ Whole(u) /\ SameStage(t, u) /\ SameList(t, u) /\ SameSends(t, u)
    /\ u.rndv = t.rndv /\ u.unexp = t.unexp
    /\ u.wire = t.wire /\ u.sent = t.sent /\ u.cq = t.cq /\ u.halt = t.halt
    /\ u.got = Append(t.got, Len(t.got) + 1) /\ u.expected = NextId(t.expected)
    /\ u.pending = t.pending + 1

LEMMA DispatchTakes ==
    ASSUME NEW t, Whole(t), NEW pkt, pkt.type = "eager", pkt.msg = Len(t.got) + 1,
           NEW expect
    PROVE  TakesIn(t, Dispatch(t, pkt, expect))
  <1> DEFINE next == Counted(t)
             i == NextId(t.expected)
             m == pkt.msg
             g == Append(t.got, m)
             n == t.pending + 1
             v == [next EXCEPT !.pending = @ + 1, !.got = Append(@, m)]
             u == [t EXCEPT !.recov = FALSE, !.expected = i, !.pending = n, !.got = g]
  <1>1. Dispatch(t, pkt, expect) = v
    BY DEF Dispatch
  <1>2. next = [t EXCEPT !.recov = FALSE, !.expected = i]
    BY DEF Counted
  <1> HIDE DEF i, m
  <1>3. DOMAIN t = RankFields
    BY DEF Whole
  <1>4. next.pending = t.pending /\ next.got = t.got
    BY <1>2, <1>3 DEF RankFields
  <1>5. v = [next EXCEPT !.pending = n, !.got = g]
    BY <1>4
  <1>6. v = u
    BY <1>2, <1>5
  <1> HIDE DEF g, n, next, v
  <1>7. /\ DOMAIN u = RankFields /\ SameStage(t, u) /\ SameList(t, u) /\ SameSends(t, u)
        /\ u.rndv = t.rndv /\ u.unexp = t.unexp
        /\ u.wire = t.wire /\ u.sent = t.sent /\ u.cq = t.cq /\ u.halt = t.halt
        /\ u.got = g /\ u.expected = i /\ u.pending = n
    BY <1>3 DEF RankFields, SameStage, SameList, SameSends
  <1> HIDE DEF u
  <1>8. Whole(u)
    BY <1>7 DEF Whole, SameList, SameSends
  <1> QED
    BY <1>1, <1>6, <1>7, <1>8 DEF TakesIn, g, i, n, m

\* A message at the head of the queue is the next one.
LEMMA EagerIsNext ==
    ASSUME NEW r, NEW p, NEW s, NEW k, NEW b, Joint(r, p, s, k, 0, b), r.cq # << >>,
           NEW t, t = [r EXCEPT !.cq = Tail(@)], NEW pkt, pkt = PktIn(Head(r.cq)),
           pkt.type = "eager", NEW n, n = Len(r.got)
    PROVE  /\ pkt.msg = n + 1 /\ pkt.id = r.expected /\ n + 1 <= k /\ ~(Asked(p) /\ Up(r))
           /\ \A i : Carries(Pkts(r.cq), n, i) => Carries(Pkts(t.cq), n + 1, i)
  <1>1. /\ PktOk(pkt) /\ Pipes(t)
        /\ \A i : Carries(Pkts(r.cq), n, i) =>
              \E l \in Nat : NextMsg(pkt, n, l) /\ Carries(Pkts(t.cq), l, i)
    BY TakePipes DEF Joint
  <1>2. ASSUME NEW i, Carries(Pkts(r.cq), n, i)
        PROVE  /\ pkt.msg = n + 1 /\ pkt.id = FirstId + n /\ Carries(Pkts(t.cq), n + 1, i)
               /\ i \in Nat /\ n + 1 <= i
    <2>1. PICK l \in Nat : NextMsg(pkt, n, l) /\ Carries(Pkts(t.cq), l, i)
      BY <1>1, <1>2
    <2>2. l = n + 1 /\ pkt.msg = n + 1 /\ pkt.id = FirstId + n
      BY <2>1 DEF NextMsg
    <2>3. IsSeq(Pkts(t.cq))
      BY <1>1 DEF Pipes, Pile
    <2>4. i \in Nat /\ l <= i
      BY <2>1, <2>3, CarriesUp
    <2> QED
      BY <2>1, <2>2, <2>4
  <1>3. IsSeq(p.wire) /\ n \in Nat /\ k \in Nat /\ r.expected = FirstId + n
    BY DueType DEF Joint, Data, Pipes, Pile, InOrder
  <1>4. ASSUME NEW j, Stream(p, r, j)
        PROVE  j \in Nat /\ n + 1 <= j /\ pkt.msg = n + 1 /\ pkt.id = FirstId + n
    <2>1. PICK i \in Nat : Carries(Pkts(r.cq), n, i) /\ Carries(p.wire, i, j)
      BY <1>4 DEF Stream
    <2>2. j \in Nat /\ i <= j
      BY <1>3, <2>1, CarriesUp
    <2>3. i \in Nat /\ n + 1 <= i /\ pkt.msg = n + 1 /\ pkt.id = FirstId + n
      BY <1>2, <2>1
    <2> QED
      BY <1>3, <2>2, <2>3
  <1>5. /\ Streams(p, r, k, b) /\ Stalls(p, r, 0)
    BY DEF Joint, Flow
  <1>6. PICK j \in 0 .. k : Stream(p, r, j)
    BY <1>5 DEF Streams
  <1>7. n + 1 <= k /\ pkt.msg = n + 1 /\ pkt.id = FirstId + n
    BY <1>3, <1>4, <1>6
  <1>8. ~(Asked(p) /\ Up(r))
    <2> SUFFICES ASSUME Asked(p), Up(r) PROVE FALSE
      OBVIOUS
    <2>1. Stream(p, r, n)
      BY <1>5 DEF Stalls
    <2> QED
      BY <1>3, <1>4, <2>1
  <1> QED
    BY <1>2, <1>3, <1>7, <1>8

LEMMA GotAppend ==
    ASSUME NEW r, InOrder(r), NEW n, n = Len(r.got), NEW u, u.got = Append(r.got, n + 1),
           u.expected = NextId(r.expected), FirstId + (n + 1) < IdSpace
    PROVE  InOrder(u) /\ Len(u.got) = n + 1 /\ u.expected = FirstId + (n + 1)
  <1> DEFINE g == Append(r.got, n + 1)
  <1>1. r.got \in Seq(Nat) /\ n \in Nat
    BY DEF InOrder
  <1>2. IsSeq(r.got)
    BY <1>1, RangeSeq
  <1>3. /\ DOMAIN g = DOMAIN r.got \cup {n + 1} /\ \A i \in DOMAIN r.got : g[i] = r.got[i]
        /\ g[n + 1] = n + 1
    BY <1>2, AppendSeq
  <1>4. g \in Seq(Nat) /\ Len(g) = n + 1
    BY <1>1
  <1>5. u.expected = FirstId + (n + 1)
    BY <1>1, NextIdIs DEF InOrder
  <1> HIDE DEF g
  <1>6. u.got = g
    BY DEF g
  <1> QED
    BY <1>3, <1>4, <1>5, <1>6 DEF InOrder

LEMMA EagerJoint ==
    ASSUME NEW e \in End, NEW r, NEW p, NEW s, NEW k, NEW b, Joint(r, p, s, k, 0, b),
           Linked(e, r, p), r.cq # << >>,
           NEW t, t = [r EXCEPT !.cq = Tail(@)], NEW pkt, pkt = PktIn(Head(r.cq)),
           pkt.type = "eager", NEW u, TakesIn(t, u)
    PROVE  Joint(u, p, s, k, AckOf(pkt), b) /\ ~Mute(u, p)
  <1> DEFINE n == Len(r.got)
             a == AckOf(pkt)
  <1>1. Takes(r, t)
    BY TakeIs DEF Joint, Data
  <1>2. /\ Whole(u) /\ SameStage(r, u) /\ SameList(r, u)
        /\ u.rndv = r.rndv /\ u.unexp = r.unexp
        /\ u.wire = r.wire /\ u.sent = r.sent /\ u.halt = r.halt /\ u.cq = t.cq
        /\ u.got = Append(r.got, n + 1) /\ u.expected = NextId(r.expected)
        /\ u.pending = r.pending + 1 /\ u.vi = r.vi /\ u.state = r.state
    BY <1>1 DEF Takes, TakesIn, SameStage, SameList, SameGot
  <1>3. /\ n + 1 <= k /\ ~(Asked(p) /\ Up(r))
        /\ \A i : Carries(Pkts(r.cq), n, i) => Carries(Pkts(t.cq), n + 1, i)
    BY EagerIsNext
  <1>4. n \in Nat /\ k \in Nat /\ FirstId + k < IdSpace /\ FirstId \in Nat /\ IdSpace \in Nat
        /\ InOrder(r) /\ r.pending \in Nat /\ Gone(p, k) \in Nat
    BY DueType, RecoveryAssumption, SMTT(30) DEF Joint, Data, Numbered
  <1>5. FirstId + (n + 1) < IdSpace
    BY <1>3, <1>4
  <1>6. InOrder(u) /\ Len(u.got) = n + 1
    <2>1. u.got = Append(r.got, n + 1) /\ u.expected = NextId(r.expected) /\ n = Len(r.got)
      BY <1>2
    <2>2. InOrder(r) /\ FirstId + (n + 1) < IdSpace
      BY <1>4, <1>5
    <2> HIDE DEF n
    <2> QED
      BY <2>1, <2>2, GotAppend
  <1>7. Flow(t, p, s, a, b)
    BY TakeFlowOut
  <1>8. /\ (Up(u) <=> Up(r)) /\ (Client(u) <=> Client(r)) /\ (Server(u) <=> Server(r))
        /\ (Fresh(u) <=> Fresh(r)) /\ (Seen(u) <=> Seen(r)) /\ (Asked(u) <=> Asked(r))
    BY <1>2 DEF SameStage, Up, Client, Server, OnNewQp, Fresh, Seen, Asked
  <1>9. ~Mute(r, p)
    BY DEF Joint, Flow, Stalls
  <1>10. NoCall(r, p)
    BY <1>3, <1>9, NoCallOut DEF Mute
  <1>11. \A x : CallsTell(r.wire, x) /\ CallsTell(Pkts(p.cq), x)
    BY <1>10, NoCallTells DEF Joint, Data, Whole, Completions
  <1>12. ~Mute(u, p)
    BY <1>8, <1>9 DEF Mute
  <1>13. Pipes(u)
    <2>1. Pipes(t) /\ t.wire = r.wire /\ t.sent = r.sent
      BY <1>1, TakePipes DEF Joint, Takes
    <2> QED
      BY <1>2, <2>1 DEF Pipes
  <1>14. Data(u, s)
    <2>1. Data(r, s)
      BY DEF Joint
    <2>2. NoRendezvous(u) /\ Numbered(u, s)
      BY <1>2, <2>1 DEF Data, SameList, NoRendezvous, Numbered
    <2>3. Whole(u) /\ u.halt = "no" /\ u.pending \in Nat
      <3>1. Whole(u) /\ u.halt = r.halt /\ u.pending = r.pending + 1
        BY <1>2
      <3>2. r.halt = "no" /\ r.pending \in Nat
        BY <2>1 DEF Data
      <3> QED
        BY <3>1, <3>2
    <2> QED
      BY <1>2, <1>6, <1>11, <1>13, <2>2, <2>3 DEF Data
  <1>15. Place(u, b)
    <2>1. Place(t, b) /\ SameStage(r, t)
      BY <1>1, TakePlace DEF Joint, Data, Takes
    <2>2. (Client(t) <=> Client(r)) /\ (Server(t) <=> Server(r))
      BY <2>1 DEF SameStage, Client, Server
    <2>3. t.vi = u.vi /\ t.wire = u.wire /\ t.cq = u.cq
      BY <1>1, <1>2 DEF Takes
    <2>4. (Client(u) <=> Client(t)) /\ (Server(u) <=> Server(t))
      BY <1>8, <2>2
    <2> QED
      BY <2>1, <2>3, <2>4, PlaceSame
  <1>16. Flow(u, p, s, a, b)
    <2>1. Due(p, u) = Due(p, t)
      BY <1>2 DEF Due
    <2>2. Gone(u, s) = Gone(t, s) /\ u.vi = t.vi /\ u.state = t.state /\ u.wire = t.wire
      BY <1>1, <1>2 DEF Gone, SameList, Takes
    <2>3. \A j : Stream(u, p, j) <=> Stream(t, p, j)
      BY <2>2 DEF Stream
    <2>4. Reached(u, p, s) /\ Streams(u, p, s, b) /\ Owes(u, p, s, a, b)
      BY <1>7, <2>1, <2>2, <2>3 DEF Flow, Reached, Streams, Owes, Sending
    <2>5. SameStage(r, t)
      BY <1>1 DEF Takes
    <2>6. Asked(t) <=> Asked(u)
      BY <1>8, <2>5, StagesSame
    <2>7. CallsTell(Pkts(p.cq), u.expected)
      BY <1>11
    <2>8. ~Fresh(u) /\ ~Seen(u)
      BY <1>12 DEF Mute
    <2>9. Stalls(u, p, a)
      BY <1>7, <1>12, <2>1, <2>3, <2>6, <2>7, <2>8 DEF Flow, Stalls
    <2> QED
      BY <2>4, <2>9 DEF Flow
  <1>17. Flow(p, u, k, 0, b)
    <2>1. /\ Reached(p, r, k) /\ Streams(p, r, k, b) /\ Owes(p, r, k, 0, b) /\ Stalls(p, r, 0)
      BY DEF Joint, Flow
    <2>2. ASSUME NEW j, Stream(p, r, j) PROVE Stream(p, u, j)
      <3>1. PICK i \in Nat : Carries(Pkts(r.cq), n, i) /\ Carries(p.wire, i, j)
        BY <2>2 DEF Stream
      <3>2. Carries(Pkts(u.cq), Len(u.got), i)
        BY <1>2, <1>3, <1>6, <3>1
      <3> QED
        BY <3>1, <3>2 DEF Stream
    <2>3. Due(u, p) = Due(r, p) + 1 /\ Due(r, p) \in Nat
      <3>1. Acks(r.wire) \in Nat /\ Acks(Pkts(p.cq)) \in Nat /\ Due(r, p) \in Nat
        BY DueType DEF Joint
      <3> QED
        BY <1>2, <1>4, <3>1 DEF Due
    <2>4. Reached(p, u, k)
      BY <1>3, <1>4, <1>6, <2>1 DEF Reached
    <2>5. Streams(p, u, k, b)
      BY <2>1, <2>2 DEF Streams
    <2>6. Owes(p, u, k, 0, b)
      <3> DEFINE d == Due(r, p)
                 m == Gone(p, k)
      <3>1. /\ 0 + d <= n - m
            /\ Sending(p, b) => 0 + d = n - m /\ r.vi = p.vi
        BY <2>1 DEF Owes
      <3>2. d \in Nat /\ m \in Nat /\ Due(u, p) = d + 1
        BY <1>4, <2>3
      <3> HIDE DEF d, m, n
      <3>3. 0 + Due(u, p) <= (n + 1) - m /\ (Sending(p, b) => 0 + Due(u, p) = (n + 1) - m)
        BY <1>4, <3>1, <3>2
      <3> QED
        BY <1>2, <1>6, <3>1, <3>3 DEF Owes, m
    <2>7. \A x : CallsTell(Pkts(r.cq), x) => CallsTell(Pkts(t.cq), x)
      BY TakePipes, ZenonT(60) DEF Joint
    <2>8. Stalls(p, u, 0)
      BY <1>2, <1>3, <1>8, <2>1, <2>7 DEF Stalls, Mute
    <2> QED
      BY <2>4, <2>5, <2>6, <2>8 DEF Flow
  <1> QED
    BY <1>12, <1>14, <1>15, <1>16, <1>17 DEF Joint

-----------------------------------------------------------------------------
(* Acknowledgements take messages off the list.                             *)

\* u holds the c messages behind the m-th.
Section(u, m, c) ==
    /\ List(u) /\ Len(u) = c
    /\ \A i \in DOMAIN u : u[i].type = "eager" /\ u[i].msg = m + i /\ u[i].id = FirstId + u[i].msg - 1

LEMMA SectionNone ==
    ASSUME NEW m
    PROVE  Section(<< >>, m, 0)
  <1> DEFINE e == << >>
  <1>1. List(e) /\ Len(e) = 0 /\ DOMAIN e = {}
    BY NoElements DEF List
  <1> HIDE DEF e
  <1>2. Section(e, m, 0)
    BY <1>1 DEF Section
  <1> QED
    BY <1>2 DEF e

LEMMA SectionAppend ==
    ASSUME NEW u, NEW m \in Nat, NEW c \in Nat, Section(u, m, c), NEW v, Listed(v),
           v.type = "eager", v.msg = m + (c + 1), v.id = FirstId + v.msg - 1
    PROVE  Section(Append(u, v), m, c + 1)
  <1> DEFINE w == Append(u, v)
  <1>1. List(u) /\ IsSeq(u) /\ Len(u) = c
    BY DEF Section, List
  <1>2. /\ DOMAIN w = DOMAIN u \cup {c + 1} /\ \A i \in DOMAIN u : w[i] = u[i]
        /\ w[c + 1] = v
    BY <1>1, AppendSeq
  <1>3. List(w) /\ Len(w) = c + 1
    BY <1>1, ListAppend, AppendLength
  <1> HIDE DEF w
  <1>4. Section(w, m, c + 1)
    BY <1>2, <1>3 DEF Section
  <1> QED
    BY <1>4 DEF w

LEMMA WaitsSection ==
    ASSUME NEW w, NEW s \in Nat, NEW n \in Nat, n <= s
    PROVE  /\ Section(w, s - n, n) => Waits(w, s)
           /\ Waits(w, s) /\ Len(w) = n => Section(w, s - n, n)
  BY DEF Waits, Section

LEMMA ReleasedAll ==
    ASSUME NEW w, NEW s \in Nat, Waits(w, s), NEW a \in Nat, a <= Len(w)
    PROVE  /\ Waits(Released(w, a).kept, s) /\ Len(Released(w, a).kept) = Len(w) - a
           /\ Released(w, a).left = 0
  <1> DEFINE N == Len(w)
             e == << >>
             m == (s - N) + a
             Good(j, x) ==
                /\ DOMAIN x = {"kept", "left"}
                /\ IF j <= a THEN x.left = a - j /\ x.kept = e
                   ELSE x.left = 0 /\ Section(x.kept, m, j - a)
  <1>1. IsSeq(w) /\ N \in Nat /\ DOMAIN w = 1 .. N /\ N <= s /\ a <= N
    BY SeqFacts DEF Waits, List
  <1>2. PICK v : /\ v[0] = [kept |-> e, left |-> a] /\ v[N] = Released(w, a)
                 /\ \A j \in 1 .. N : v[j] = ReleaseTurn(v[j - 1], w[j])
    BY <1>1, ReleasedRun
  <1>3. \A j \in 1 .. N : /\ Listed(w[j]) /\ w[j].type = "eager" /\ w[j].msg = (s - N) + j
                          /\ w[j].id = FirstId + w[j].msg - 1
    BY <1>1 DEF Waits, List
  <1>4. Section(e, m, 0)
    BY SectionNone
  <1> HIDE DEF N, e
  <1>5. Good(0, v[0])
    BY <1>1, <1>2
  <1>6. ASSUME NEW j \in 1 .. N, Good(j - 1, v[j - 1]) PROVE Good(j, v[j])
    <2> DEFINE x == v[j - 1]
               y == w[j]
               k == Append(x.kept, y)
    <2>1. v[j] = ReleaseTurn(x, y) /\ y.type = "eager" /\ j \in Nat
      BY <1>1, <1>2, <1>3
    <2>2. CASE j <= a
      <3>1. x.left = a - (j - 1) /\ x.kept = e /\ DOMAIN x = {"kept", "left"}
        BY <1>1, <1>6, <2>1, <2>2
      <3>2. x.left > 0
        BY <1>1, <2>1, <2>2, <3>1
      <3>3. v[j] = [x EXCEPT !.left = x.left - 1]
        BY <2>1, <3>2 DEF ReleaseTurn
      <3>4. x.left - 1 = a - j
        BY <1>1, <2>1, <3>1
      <3> HIDE DEF x
      <3> QED
        BY <2>2, <3>1, <3>3, <3>4
    <2>3. CASE ~(j <= a)
      <3> DEFINE c == (j - 1) - a
      <3>1. c \in Nat /\ c + 1 = j - a /\ m \in Nat /\ y.msg = m + (c + 1)
        BY <1>1, <1>3, <2>3
      <3>2. x.left = 0 /\ Section(x.kept, m, c) /\ DOMAIN x = {"kept", "left"}
        <4>1. CASE j - 1 <= a
          <5>1. j - 1 = a /\ c = 0
            BY <1>1, <2>1, <2>3, <4>1
          <5> HIDE DEF c, m
          <5> QED
            BY <1>1, <1>4, <1>6, <4>1, <5>1
        <4>2. CASE ~(j - 1 <= a)
          BY <1>6, <4>2
        <4> QED
          BY <4>1, <4>2
      <3> HIDE DEF c, m
      <3>3. Section(k, m, c + 1)
        <4>1. Listed(y) /\ y.type = "eager" /\ y.id = FirstId + y.msg - 1
          BY <1>3
        <4> HIDE DEF y
        <4> QED
          BY <3>1, <3>2, <4>1, SectionAppend
      <3>4. v[j] = [x EXCEPT !.kept = k]
        BY <2>1, <3>2 DEF ReleaseTurn
      <3> HIDE DEF x, k
      <3> QED
        BY <2>3, <3>1, <3>2, <3>3, <3>4
    <2> QED
      BY <2>2, <2>3
  <1> DEFINE T == {j \in 0 .. N : Good(j, v[j])}
  <1>7. 0 \in T /\ \A j \in 1 .. N : j - 1 \in T => j \in T
    <2> HIDE DEF Good
    <2> QED
      BY <1>1, <1>5, <1>6
  <1>8. N \in T
    <2> HIDE DEF T
    <2> QED
      BY <1>1, <1>7, UpTo
  <1> DEFINE z == v[N]
  <1>9. Good(N, z)
    BY <1>8
  <1> HIDE DEF z
  <1>10. z.left = 0 /\ Section(z.kept, m, N - a)
    <2>1. CASE N <= a
      <3>1. N = a /\ N - a = 0 /\ a - N = 0
        BY <1>1, <2>1
      <3> HIDE DEF m
      <3> QED
        BY <1>4, <1>9, <2>1, <3>1
    <2>2. CASE ~(N <= a)
      BY <1>9, <2>2
    <2> QED
      BY <2>1, <2>2
  <1> DEFINE c == N - a
  <1>11. c \in Nat /\ c <= s /\ m = s - c
    BY <1>1
  <1> HIDE DEF m, c
  <1>12. Waits(z.kept, s) /\ Len(z.kept) = c
    BY <1>10, <1>11, WaitsSection, SMTT(30) DEF Section, c
  <1> QED
    BY <1>2, <1>10, <1>12 DEF z, c, N

LEMMA ReleaseJoint ==
    ASSUME NEW r, NEW p, NEW s, NEW k, NEW a \in Nat, NEW b, Joint(r, p, s, k, a, b)
    PROVE  LET t == Release(r, a) IN
           Joint(t, p, s, k, 0, b) /\ SameStage(r, t) /\ SameApp(r, t)
  <1> DEFINE w == r.waiting
             rel == Released(w, a)
             l == rel.kept
             t == Release(r, a)
             u == [r EXCEPT !.waiting = l]
  <1>1. CASE a = 0
    <2>1. t = r
      BY <1>1 DEF Release
    <2> HIDE DEF t
    <2> QED
      BY <1>1, <2>1 DEF SameStage, SameApp, SameSends, t
  <1>2. CASE a # 0
    <2>1. /\ Len(p.got) \in Nat /\ Len(w) \in Nat /\ s \in Nat /\ Due(p, r) \in Nat
          /\ Gone(r, s) = s - Len(w)
      BY DueType DEF Joint, Gone
    <2>2. /\ Reached(r, p, s) /\ Streams(r, p, s, b) /\ Owes(r, p, s, a, b) /\ Stalls(r, p, a)
      BY DEF Joint, Flow
    <2>3. a <= Len(w)
      <3> DEFINE n == Len(p.got)
                 d == Due(p, r)
                 g == Gone(r, s)
                 c == Len(w)
      <3>1. n <= s /\ a + d <= n - g
        BY <2>2 DEF Reached, Owes
      <3>2. n \in Nat /\ c \in Nat /\ s \in Nat /\ d \in Nat /\ g = s - c
        BY <2>1
      <3> HIDE DEF n, d, g, c
      <3>3. a <= c
        BY <3>1, <3>2
      <3> QED
        BY <3>3 DEF c
    <2>4. Waits(w, s) /\ Whole(r) /\ DOMAIN r = RankFields
      BY DEF Joint, Data, Numbered, Whole
    <2>5. Waits(l, s) /\ Len(l) = Len(w) - a /\ rel.left = 0
      <3> HIDE DEF w
      <3> QED
        BY <2>1, <2>3, <2>4, ReleasedAll
    <2>6. t = u
      BY <1>2, <2>5 DEF Release
    <2> HIDE DEF rel, l, t
    <2>7. /\ DOMAIN u = RankFields /\ SameStage(r, u) /\ SameGot(r, u) /\ SameApp(r, u)
          /\ u.waiting = l /\ u.tosend = r.tosend /\ u.pending = r.pending /\ u.wire = r.wire
          /\ u.sent = r.sent /\ u.cq = r.cq /\ u.halt = r.halt /\ u.vi = r.vi
          /\ u.state = r.state /\ u.expected = r.expected /\ u.got = r.got
      BY <2>4 DEF RankFields, SameStage, SameGot, SameApp, SameSends
    <2> HIDE DEF u
    <2>8. Whole(u)
      BY <2>4, <2>5, <2>7 DEF Whole, SameApp, SameSends, Waits
    <2>9. Data(u, s)
      BY <2>5, <2>7, <2>8 DEF Joint, Data, SameGot, NoRendezvous, InOrder, Numbered, Pipes
    <2>10. /\ (Up(u) <=> Up(r)) /\ (Client(u) <=> Client(r)) /\ (Server(u) <=> Server(r))
           /\ (Fresh(u) <=> Fresh(r)) /\ (Seen(u) <=> Seen(r)) /\ (Asked(u) <=> Asked(r))
      BY <2>7 DEF SameStage, Up, Client, Server, OnNewQp, Fresh, Seen, Asked
    <2>11. Place(u, b)
      BY <2>7, <2>10 DEF Joint, Place
    <2>12. /\ Due(u, p) = Due(r, p) /\ Due(p, u) = Due(p, r)
           /\ \A j : (Stream(u, p, j) <=> Stream(r, p, j)) /\ (Stream(p, u, j) <=> Stream(p, r, j))
      BY <2>7 DEF Due, Stream
    <2>13. Gone(u, s) = Gone(r, s) + a
      BY <2>1, <2>5, <2>7 DEF Gone
    <2>14. Flow(u, p, s, 0, b)
      <3> DEFINE g == Gone(r, s)
                 h == Gone(u, s)
                 d == Due(p, r)
                 n == Len(p.got)
      <3>1. /\ n \in Nat /\ d \in Nat /\ s \in Nat /\ g \in Int /\ h = g + a
            /\ a + d <= n - g /\ n <= s
            /\ Sending(r, b) => a + d = n - g
        <4>1. a + d <= n - g /\ n <= s /\ (Sending(r, b) => a + d = n - g)
          BY <2>2 DEF Reached, Owes
        <4>2. n \in Nat /\ d \in Nat /\ s \in Nat /\ g \in Int /\ h = g + a
          BY <2>1, <2>13
        <4> HIDE DEF g, h, d, n
        <4> QED
          BY <4>1, <4>2
      <3>2. Due(p, u) = d
        BY <2>12
      <3> HIDE DEF g, h, d, n
      <3>3. h <= n /\ n <= s /\ 0 + d <= n - h /\ (Sending(r, b) => 0 + d = n - h)
        BY <3>1
      <3>4. Reached(u, p, s)
        BY <3>3 DEF Reached, h, n
      <3>5. Streams(u, p, s, b)
        BY <2>2, <2>7, <2>12 DEF Streams, Sending
      <3>6. Owes(u, p, s, 0, b)
        BY <2>2, <2>7, <3>2, <3>3 DEF Owes, Sending, h, n
      <3>7. a + d = 0 => 0 + d = 0
        BY <3>1
      <3>8. Stalls(u, p, 0)
        BY <2>2, <2>7, <2>10, <2>12, <3>2, <3>7 DEF Stalls, Mute, d
      <3> QED
        BY <3>4, <3>5, <3>6, <3>8 DEF Flow
    <2>15. Flow(p, u, k, 0, b)
      <3>1. Flow(p, r, k, 0, b)
        BY DEF Joint
      <3>2. Reached(p, u, k) /\ Streams(p, u, k, b) /\ Owes(p, u, k, 0, b)
        BY <2>7, <2>12, <3>1 DEF Flow, Reached, Streams, Owes
      <3>3. Stalls(p, u, 0)
        BY <2>7, <2>10, <2>12, <3>1 DEF Flow, Stalls, Mute
      <3> QED
        BY <3>2, <3>3 DEF Flow
    <2>16. Joint(u, p, s, k, 0, b)
      BY <2>9, <2>11, <2>14, <2>15 DEF Joint
    <2> QED
      BY <2>6, <2>7, <2>16 DEF t
  <1> QED
    BY <1>1, <1>2

-----------------------------------------------------------------------------
(* The turns of the poll that carry no message.                             *)

LEMMA TestedJoint ==
    ASSUME NEW e \in End, NEW r, NEW p, NEW s, NEW k, Joint(r, p, s, k, 0, broken),
           EndOk(r, broken), Linked(e, r, p)
    PROVE  LET t == TestNewConnection(r) IN
           /\ Joint(t, p, s, k, 0, broken) /\ SameApp(r, t)
           /\ t.cq = r.cq /\ (r.cq # << >> => t = r)
  <1> DEFINE t == TestNewConnection(r)
             v == [r EXCEPT !.fresh = FALSE]
             c == v.bad - 1
             u == [v EXCEPT !.bad = c, !.status = "rec_d"]
  <1>1. CASE ~r.fresh
    <2>1. t = r
      BY <1>1 DEF TestNewConnection
    <2> HIDE DEF t
    <2> QED
      BY <2>1 DEF SameApp, SameSends, t
  <1>2. CASE r.fresh
    <2>1. ~Up(r) /\ ~Client(r) /\ ~Server(r) /\ ~Seen(r) /\ ~Asked(r)
      BY <1>2 DEF Up, Client, Server, Seen, Asked
    <2>2. Waiting(r, p) /\ Fresh(r)
      BY <2>1 DEF Linked, Pair, Calm, Asking, Crossing, Serving, Waiting, Requesting, Replying
    <2>3. r.status = "rec" /\ Whole(r) /\ DOMAIN r = RankFields
      BY <2>2 DEF Fresh, Joint, Data, Whole
    <2>4. t = u
      BY <1>2, <2>3 DEF TestNewConnection, RankFields
    <2> HIDE DEF c, t
    <2>5. /\ DOMAIN u = RankFields /\ u.fresh = FALSE /\ u.status = "rec_d"
          /\ SameGot(r, u) /\ SameList(r, u) /\ SameApp(r, u) /\ u.pending = r.pending
          /\ u.wire = r.wire /\ u.sent = r.sent /\ u.cq = r.cq /\ u.halt = r.halt
          /\ u.vi = r.vi /\ u.state = r.state /\ u.srv = r.srv
      BY <2>3 DEF RankFields, SameGot, SameList, SameApp, SameSends
    <2> HIDE DEF u
    <2>6. SameData(r, u)
      BY <2>3, <2>5 DEF SameData, Whole, SameList, SameApp, SameSends
    <2>7. r.state = "none" /\ r.srv = "idle"
      BY <2>2 DEF Fresh, OnNewQp
    <2>8. NoPromise(r, u, p, broken)
      BY <2>1, <2>2, <2>5, <2>7 DEF NoPromise, Sending, Client, Server, Mute, Asked, Up
    <2>9. Joint(u, p, s, k, 0, broken)
      BY <2>6, <2>8, JointStage
    <2>10. r.cq = << >>
      BY <2>2 DEF Joint, Flow, Stalls, Mute
    <2> QED
      BY <2>4, <2>5, <2>9, <2>10 DEF t
  <1> QED
    BY <1>1, <1>2

LEMMA QpErrorJoint ==
    ASSUME NEW e \in End, NEW r, NEW p, NEW s, NEW k, Joint(r, p, s, k, 0, broken),
           EndOk(r, broken), EndOk(p, broken), Linked(e, r, p), r.vi \in broken
    PROVE  Joint(QpError(r), p, s, k, 0, broken) /\ SameApp(r, QpError(r))
  <1> DEFINE u == QpError(r)
             c == r.bad + 1
             d == [r EXCEPT !.status = "down", !.bad = c]
             m == d.cid + 1
             w == [d EXCEPT !.state = "none", !.cli = "requesting", !.cid = m, !.req = TRUE]
             v == IF r.status = "up" THEN ReconnectReq(d) ELSE r
             Free == {"status", "bad", "state", "cli", "cid", "req", "halt"}
             Alike(x) == DOMAIN x = RankFields /\ \A f \in RankFields \ Free : x[f] = r[f]
  <1>1. Whole(r) /\ DOMAIN r = RankFields /\ r.halt = "no"
    BY DEF Joint, Data, Whole
  <1>2. Whole(u) /\ EndOk(u, broken)
    BY <1>1, QpErrorStage
  <1>3. u = [v EXCEPT !.phase = "pool"]
    BY DEF QpError
  <1> HIDE DEF u, c
  <1>4. Alike(d) /\ d.status = "down" /\ d.state = r.state /\ d.halt = r.halt /\ d.cid = r.cid
        /\ d.cli = r.cli
    BY <1>1 DEF RankFields
  <1>5. Alike(v) /\ v.halt \in {"no", "lock"} /\ v.status # "up"
    <2>1. CASE r.status # "up"
      BY <1>1, <2>1
    <2>2. CASE r.status = "up"
      <3> DEFINE n == [d EXCEPT !.state = "none"]
                 l == [d EXCEPT !.halt = "lock"]
      <3>1. v \in {l, n, w}
        BY <2>2 DEF ReconnectReq
      <3> HIDE DEF d, m, v
      <3>2. /\ Alike(n) /\ n.halt = "no" /\ n.status = "down"
            /\ Alike(l) /\ l.halt = "lock" /\ l.status = "down"
            /\ Alike(w) /\ w.halt = "no" /\ w.status = "down"
        BY <1>1, <1>4 DEF RankFields
      <3> QED
        BY <3>1, <3>2
    <2> QED
      BY <2>1, <2>2
  <1>6. Server(r) => v.state = "none" /\ v.status = "down" /\ v.cli = "idle" /\ v.cid = r.cid
    <2> SUFFICES ASSUME Server(r)
                 PROVE  v.state = "none" /\ v.status = "down" /\ v.cli = "idle" /\ v.cid = r.cid
      OBVIOUS
    <2>1. r.state = "none" /\ r.srv = "requested" /\ r.cli = "idle" /\ r.status \in {"up", "down"}
      BY DEF Server
    <2>2. CASE r.status = "up"
      <3>1. d.srv = "requested" /\ d.state = "none"
        BY <1>4, <2>1 DEF RankFields
      <3>2. v = [d EXCEPT !.state = "none"]
        BY <2>2, <3>1 DEF ReconnectReq
      <3> HIDE DEF v, d
      <3> QED
        BY <1>4, <2>1, <3>2 DEF RankFields
    <2>3. CASE r.status # "up"
      BY <2>1, <2>3
    <2> QED
      BY <2>2, <2>3
  <1> HIDE DEF v
  <1>7. /\ DOMAIN u = RankFields /\ u.halt = v.halt /\ u.status = v.status /\ u.phase = "pool"
        /\ SameGot(r, u) /\ SameList(r, u) /\ SameApp(r, u) /\ u.pending = r.pending
        /\ u.wire = r.wire /\ u.sent = r.sent /\ u.cq = r.cq
        /\ u.vi = r.vi /\ u.srv = r.srv /\ u.fresh = r.fresh
        /\ u.state = v.state /\ u.cli = v.cli /\ u.cid = v.cid
    BY <1>3, <1>5 DEF RankFields, SameGot, SameList, SameApp, SameSends
  <1>8. SameData(r, u)
    BY <1>1, <1>2, <1>5, <1>7 DEF SameData, EndOk
  <1>9. ~Fresh(u) /\ ~Seen(u) /\ ~Asked(u) /\ ~Up(u)
    BY <1>2, <1>5, <1>7 DEF EndOk, Up
  <1>10. Server(r) => Server(u)
    BY <1>6, <1>7 DEF Server
  <1>11. Server(u) => Server(r)
    <2>1. Server(u) => r.srv = "requested"
      BY <1>7 DEF Server
    <2>2. r.srv = "requested" => Server(r)
      BY DEF Linked, Pair, Calm, Asking, Crossing, Serving, Waiting, Requesting, Replying,
         Up, Client, Fresh, Seen, Asked, OnNewQp
    <2> QED
      BY <2>1, <2>2
  <1>12. NoPromise(r, u, p, broken)
    BY <1>7, <1>9, <1>10, <1>11 DEF NoPromise, Sending, Mute
  <1>13. Joint(u, p, s, k, 0, broken)
    BY <1>8, <1>12, JointStage
  <1> QED
    BY <1>7, <1>13 DEF u

\* An acknowledgement that is due goes out.
LEMMA SendAckJoint ==
    ASSUME NEW r, NEW p, NEW s, NEW k, Joint(r, p, s, k, 0, broken), ~Mute(r, p)
    PROVE  Joint(SendAckIfNeeded(r), p, s, k, 0, broken) /\ SameApp(r, SendAckIfNeeded(r))
  <1> DEFINE t == SendAckIfNeeded(r)
             pkt == Packet("noop", 0, r.pending, 0)
  <1>1. /\ Whole(r) /\ r.pending \in Nat /\ Numbered(r, s)
    BY DEF Joint, Data
  <1>2. \/ t = r
        \/ Posts(r, t, pkt) /\ SameList(r, t) /\ SameApp(r, t) /\ t.pending = 0
    BY <1>1, AckPosts
  <1>3. /\ PktOk(pkt) /\ AckOf(pkt) = r.pending /\ NextMsg(pkt, s, s) /\ pkt.type = "noop"
    BY <1>1 DEF Packet, PktOk, AckOf, NextMsg
  <1> HIDE DEF t, pkt
  <1>4. CASE t = r
    BY <1>4 DEF SameApp, SameSends, t
  <1>5. CASE t # r
    <2>1. Posts(r, t, pkt) /\ SameList(r, t) /\ SameApp(r, t) /\ t.pending = 0
      BY <1>2, <1>5
    <2>2. Numbered(t, s) /\ Gone(t, s) = Gone(r, s)
      BY <1>1, <2>1 DEF SameList, Numbered, Gone
    <2>3. pkt.type \notin Call /\ pkt.type # "eager"
      BY <1>3 DEF Call
    <2>4. t.pending \in Nat /\ t.pending + AckOf(pkt) = r.pending
      BY <1>1, <1>3, <2>1
    <2>5. Joint(t, p, s, k, 0, broken)
      BY <1>3, <2>1, <2>2, <2>3, <2>4, PostsJoint
    <2> QED
      BY <2>1, <2>5 DEF t
  <1> QED
    BY <1>4, <1>5

LEMMA AckedJoint ==
    ASSUME NEW r, NEW p, NEW s, NEW k, NEW a \in Nat, Joint(r, p, s, k, a, broken), ~Mute(r, p)
    PROVE  LET t == SendAckIfNeeded(Release(r, a)) IN
           Joint(t, p, s, k, 0, broken) /\ SameApp(r, t)
  <1> DEFINE u == Release(r, a)
  <1>1. Joint(u, p, s, k, 0, broken) /\ SameStage(r, u) /\ SameApp(r, u)
    BY ReleaseJoint
  <1> HIDE DEF u
  <1>2. ~Mute(u, p)
    <2>1. (Fresh(u) <=> Fresh(r)) /\ (Seen(u) <=> Seen(r)) /\ (Asked(u) <=> Asked(r))
      BY <1>1, StagesSame
    <2> QED
      BY <2>1 DEF Mute
  <1>3. Joint(SendAckIfNeeded(u), p, s, k, 0, broken) /\ SameApp(u, SendAckIfNeeded(u))
    BY <1>1, <1>2, SendAckJoint
  <1> QED
    BY <1>1, <1>3 DEF SameApp, SameSends, u

LEMMA IncomingFinJoint ==
    ASSUME NEW r, NEW p, NEW s, NEW k, Joint(r, p, s, k, 0, broken)
    PROVE  Joint(IncomingFin(r), p, s, k, 0, broken) /\ SameApp(r, IncomingFin(r))
  <1> DEFINE n == << >>
             over == {i \in DOMAIN r.rndv : EndedAtPeer(r.rndv[i])}
             h == Without(r.rndv, {x \in Range(r.rndv) : EndedAtPeer(x)})
             c == r.recvDone \cup {r.rndv[i].msg : i \in over}
             u == [r EXCEPT !.rndv = h, !.recvDone = c, !.recov = FALSE]
             t == IncomingFin(r)
  <1>1. r.rndv = n /\ Whole(r) /\ DOMAIN r = RankFields
    BY DEF Joint, Data, NoRendezvous, Whole
  <1>2. IsSeq(n) /\ DOMAIN n = {} /\ Len(n) = 0
    BY NoElements
  <1>3. \A X : Without(n, X) = n
    <2> TAKE X
    <2>1. PICK v : v[0] = << >> /\ v[Len(n)] = Without(n, X)
      <3> HIDE DEF n
      <3> QED
        BY <1>2, WithoutRun
    <2> QED
      BY <1>2, <2>1
  <1> HIDE DEF n
  <1>4. over = {}
    BY <1>1, <1>2
  <1>5. h = n
    BY <1>1, <1>3
  <1>6. t = u
    BY <1>1, <1>4 DEF IncomingFin, RankFields
  <1> HIDE DEF h, c, over, t
  <1>7. /\ DOMAIN u = RankFields /\ SameStage(r, u) /\ u.rndv = h /\ SameList(r, u)
        /\ SameApp(r, u) /\ u.pending = r.pending /\ u.got = r.got /\ u.expected = r.expected
        /\ u.unexp = r.unexp /\ u.vi = r.vi
        /\ u.wire = r.wire /\ u.sent = r.sent /\ u.cq = r.cq /\ u.halt = r.halt
    BY <1>1 DEF RankFields, SameStage, SameList, SameApp, SameSends
  <1> HIDE DEF u
  <1>8. SameData(r, u)
    BY <1>1, <1>5, <1>7 DEF SameData, Whole, SameList, SameApp, SameSends, SameGot
  <1>9. Joint(u, p, s, k, 0, broken)
    BY <1>7, <1>8, JointSame
  <1> QED
    BY <1>6, <1>7, <1>9 DEF t

\* A packet that is not a call of the reconnect
LEMMA ProcessRecvJoint ==
    ASSUME NEW e \in End, NEW r, NEW p, NEW s, NEW k, Joint(r, p, s, k, 0, broken),
           Linked(e, r, p), r.cq # << >>,
           NEW t, t = [r EXCEPT !.cq = Tail(@)], NEW pkt, pkt = PktIn(Head(r.cq)),
           pkt.type \notin Call, NEW expect
    PROVE  LET u == ProcessRecv(t, pkt, expect) IN
           Joint(u, p, s, k, 0, broken) /\ SameSends(r, u) /\ Took(r, u)
  <1> DEFINE u == ProcessRecv(t, pkt, expect)
             a == AckOf(pkt)
  <1>1. Takes(r, t) /\ Whole(t)
    <2>1. Takes(r, t)
      BY TakeIs DEF Joint, Data
    <2> QED
      BY <2>1 DEF Takes
  <1>2. PktOk(pkt) /\ a \in Nat
    BY TakePipes DEF Joint
  <1>3. ~Mute(r, p) /\ t.halt = "no" /\ SameApp(r, t) /\ SameStage(r, t)
        /\ t.got = r.got /\ t.expected = r.expected
    BY <1>1 DEF Joint, Flow, Stalls, Takes, Data, SameGot
  <1>4. ~Mute(t, p)
    <2>1. (Fresh(t) <=> Fresh(r)) /\ (Seen(t) <=> Seen(r)) /\ (Asked(t) <=> Asked(r))
      BY <1>3, StagesSame
    <2> QED
      BY <1>3, <2>1 DEF Mute
  <1>5. pkt.type \in {"eager", "noop", "nfr_fin"}
    BY <1>2 DEF PktOk, Call
  <1>6. CASE pkt.type = "noop"
    <2>1. u = SendAckIfNeeded(Release(t, a)) /\ pkt.type # "eager"
      BY <1>3, <1>6 DEF ProcessRecv, AckOf, Unsequenced
    <2>2. Joint(t, p, s, k, a, broken)
      BY <1>6, TakeJoint
    <2> HIDE DEF u, a
    <2>3. Joint(u, p, s, k, 0, broken) /\ SameApp(t, u)
      BY <1>2, <1>4, <2>1, <2>2, AckedJoint
    <2> QED
      BY <1>3, <2>3 DEF SameApp, SameSends, Took, u
  <1>7. CASE pkt.type = "nfr_fin"
    <2>1. u = IncomingFin(t) /\ a = 0
      BY <1>7 DEF ProcessRecv, AckOf, Unsequenced
    <2>2. Joint(t, p, s, k, a, broken)
      BY <1>7, TakeJoint
    <2> HIDE DEF u, a
    <2>3. Joint(u, p, s, k, 0, broken) /\ SameApp(t, u)
      BY <2>1, <2>2, IncomingFinJoint
    <2> QED
      BY <1>3, <2>3 DEF SameApp, SameSends, Took, u
  <1>8. CASE pkt.type = "eager"
    <2> DEFINE c == Dispatch(t, pkt, expect)
    <2>1. pkt.msg = Len(t.got) + 1 /\ pkt.id = t.expected
      <3>1. pkt.msg = Len(r.got) + 1 /\ pkt.id = r.expected
        <4> HIDE DEF u, a, c
        <4> QED
          BY <1>8, EagerIsNext
      <3> QED
        BY <1>3, <3>1
    <2>2. TakesIn(t, c)
      BY <1>1, <1>8, <2>1, DispatchTakes
    <2>3. c.halt = "no" /\ SameSends(t, c) /\ c.got = Append(t.got, Len(t.got) + 1)
      BY <1>3, <2>2 DEF TakesIn
    <2>4. u = SendAckIfNeeded(Release(c, a))
      BY <1>8, <2>1, <2>3 DEF ProcessRecv, AckOf, Unsequenced
    <2>5. Joint(c, p, s, k, a, broken) /\ ~Mute(c, p)
      <3> HIDE DEF c
      <3> QED
        BY <1>8, <2>2, EagerJoint
    <2> HIDE DEF u, a, c
    <2>6. Joint(u, p, s, k, 0, broken) /\ SameApp(c, u)
      BY <1>2, <2>4, <2>5, AckedJoint
    <2> QED
      BY <1>3, <2>3, <2>6 DEF SameApp, SameSends, Took, u
  <1> QED
    BY <1>5, <1>6, <1>7, <1>8

-----------------------------------------------------------------------------
(* Retransmission: all messages but the first n are sent again.             *)

\* x is r with more packets under way: the messages up to m, and nfr_fin.
Resends(r, x, p, s, m) ==
    /\ SameRest(r, x) /\ SameList(r, x) /\ SameApp(r, x) /\ x.cq = r.cq /\ Data(x, s)
    /\ Stream(x, p, m) /\ Due(x, p) = Due(r, p)

LEMMA PostsMore ==
    ASSUME NEW r, r.vi \notin broken, NEW p, NEW k, Data(p, k), NEW x, NEW s, NEW m,
           Resends(r, x, p, s, m), NEW y, NEW pkt, Posts(x, y, pkt), SameList(x, y),
           SameApp(x, y), PktOk(pkt), pkt.type \notin Call, NEW z \in Nat, NextMsg(pkt, m, z),
           y.pending \in Nat, y.pending + AckOf(pkt) = x.pending
    PROVE  Resends(r, y, p, s, z)
  <1>1. SameRest(r, x) /\ SameList(r, x) /\ SameApp(r, x) /\ x.cq = r.cq /\ Data(x, s)
        /\ Stream(x, p, m) /\ Due(x, p) = Due(r, p)
    BY DEF Resends
  <1>2. x.vi \notin broken
    BY <1>1 DEF SameRest, SameStage
  <1>3. y.wire = Append(x.wire, pkt) /\ y.cq = x.cq /\ SameRest(x, y)
    BY <1>2 DEF Posts
  <1>4. SameRest(r, y) /\ SameList(r, y) /\ SameApp(r, y)
    BY <1>1, <1>3 DEF SameRest, SameStage, SameGot, SameList, SameApp, SameSends
  <1>5. Numbered(y, s)
    BY <1>1 DEF Data, Numbered, SameList
  <1>6. Data(y, s)
    BY <1>1, <1>5, PostsData
  <1>7. Stream(y, p, z)
    <2>1. PICK j \in Nat : Carries(Pkts(p.cq), Len(p.got), j) /\ Carries(x.wire, j, m)
      BY <1>1 DEF Stream
    <2>2. IsSeq(x.wire)
      BY <1>1 DEF Data, Pipes, Pile
    <2>3. Carries(y.wire, j, z)
      BY <1>3, <2>1, <2>2, CarriesAppend
    <2> QED
      BY <2>1, <2>3 DEF Stream
  <1>8. Due(y, p) = Due(x, p)
    <2>1. Acks(y.wire) = Acks(x.wire) + AckOf(pkt)
      BY <1>1, <1>3, PileAppend DEF Data, Pipes
    <2>2. x.pending \in Nat /\ Acks(x.wire) \in Nat /\ Acks(Pkts(p.cq)) \in Nat
      BY <1>1, DueType
    <2>3. AckOf(pkt) \in Nat
      BY DEF AckOf, PktOk
    <2> QED
      BY <2>1, <2>2, <2>3 DEF Due
  <1> QED
    BY <1>1, <1>3, <1>4, <1>6, <1>7, <1>8 DEF Resends

LEMMA FinMore ==
    ASSUME NEW r, r.vi \notin broken, NEW p, NEW k, Data(p, k), NEW x, NEW s, NEW m \in Nat,
           Resends(r, x, p, s, m)
    PROVE  Resends(r, SendReconnect(x, "nfr_fin"), p, s, m)
  <1> DEFINE y == SendReconnect(x, "nfr_fin")
             pkt == Packet("nfr_fin", 0, 0, 0)
  <1>1. y = IbvPostSend(x, pkt)
    BY DEF SendReconnect
  <1>2. /\ PktOk(pkt) /\ AckOf(pkt) = 0 /\ NextMsg(pkt, m, m) /\ pkt.type \notin Call
    BY DEF Packet, PktOk, AckOf, NextMsg, Call
  <1>3. Whole(x) /\ x.pending \in Nat
    BY DEF Resends, Data
  <1> HIDE DEF y, pkt
  <1>4. Posts(x, y, pkt) /\ SameList(x, y) /\ SameApp(x, y) /\ y.pending = x.pending
    BY <1>1, <1>3, IbvPosts
  <1>5. y.pending \in Nat /\ y.pending + AckOf(pkt) = x.pending
    BY <1>2, <1>3, <1>4
  <1>6. Resends(r, y, p, s, m)
    BY <1>2, <1>4, <1>5, PostsMore
  <1> QED
    BY <1>6 DEF y

LEMMA MessageMore ==
    ASSUME NEW r, r.vi \notin broken, NEW p, NEW k, Data(p, k), NEW x, NEW s, NEW m \in Nat,
           Resends(r, x, p, s, m), NEW z, z = m + 1,
           NEW v, Listed(v), v.type = "eager", v.msg = z, v.id = FirstId + m
    PROVE  Resends(r, RePost(x, v), p, s, z)
  <1> DEFINE y == RePost(x, v)
             pkt == [v EXCEPT !.ack = x.pending]
  <1>1. Whole(x) /\ x.pending \in Nat
    BY DEF Resends, Data
  <1>2. /\ pkt.type = "eager" /\ pkt.msg = z /\ pkt.id = FirstId + m /\ pkt.ack = x.pending
    BY DEF Listed
  <1> HIDE DEF pkt
  <1>3. PktOk(pkt) /\ AckOf(pkt) = x.pending /\ NextMsg(pkt, m, z) /\ pkt.type \notin Call
    BY <1>1, <1>2 DEF PktOk, AckOf, NextMsg, Call
  <1>4. Posts(x, y, pkt) /\ SameList(x, y) /\ SameApp(x, y) /\ y.pending = 0
    BY <1>1, RePostPosts DEF pkt
  <1> HIDE DEF y
  <1>5. y.pending \in Nat /\ y.pending + AckOf(pkt) = x.pending /\ z \in Nat
    BY <1>1, <1>3, <1>4
  <1>6. Resends(r, y, p, s, z)
    BY <1>3, <1>4, <1>5, PostsMore
  <1> QED
    BY <1>6 DEF y

\* The list and the next number after the retransmission
Relists(x, t, s, l) == t = [x EXCEPT !.waiting = l, !.tosend = FirstId + s]
HasList(x, t, s, l) ==
    /\ Data(t, s) /\ SameStage(x, t) /\ SameGot(x, t) /\ SameApp(x, t)
    /\ t.cq = x.cq /\ t.wire = x.wire /\ t.pending = x.pending /\ t.waiting = l
    /\ t.sent = x.sent /\ t.halt = x.halt /\ Whole(t)

LEMMA Relisted ==
    ASSUME NEW x, NEW s, Data(x, s), NEW l, Waits(l, s), NEW t, Relists(x, t, s, l)
    PROVE  HasList(x, t, s, l)
  <1> DEFINE n == FirstId + s
  <1>1. DOMAIN x = RankFields /\ Whole(x) /\ t = [x EXCEPT !.waiting = l, !.tosend = n]
    BY DEF Data, Whole, Relists
  <1> HIDE DEF n
  <1>2. /\ DOMAIN t = RankFields /\ SameStage(x, t) /\ SameGot(x, t) /\ SameApp(x, t)
        /\ t.cq = x.cq /\ t.wire = x.wire /\ t.pending = x.pending /\ t.sent = x.sent
        /\ t.halt = x.halt /\ t.waiting = l /\ t.tosend = n
        /\ t.got = x.got /\ t.expected = x.expected
    BY <1>1 DEF RankFields, SameStage, SameGot, SameApp, SameSends
  <1>3. Whole(t)
    BY <1>1, <1>2 DEF Whole, SameApp, SameSends, Waits
  <1>4. Data(t, s)
    BY <1>2, <1>3 DEF Data, SameGot, NoRendezvous, InOrder, Numbered, Pipes, n
  <1> QED
    BY <1>2, <1>3, <1>4 DEF HasList

\* One turn of the loop on the message g + i, when the peer has the first n.
LEMMA LostArrived ==
    ASSUME NEW acc, DOMAIN acc = AccFields, ~acc.firstIsBigger, NEW v, v.type = "eager",
           NEW last, v.id < last
    PROVE  LET y == LostPacket(acc, v, last) IN
           /\ DOMAIN y = AccFields /\ ~y.firstIsBigger /\ y.r = acc.r /\ y.kept = acc.kept
           /\ y.finSent = acc.finSent
  <1> DEFINE i == v.id
             b == FALSE
             u == [acc EXCEPT !.firstIsBigger = b, !.id = i]
  <1>1. LostPacket(acc, v, last) = u
    BY DEF LostPacket, Arrived
  <1> HIDE DEF i
  <1>2. /\ DOMAIN u = AccFields /\ ~u.firstIsBigger /\ u.r = acc.r /\ u.kept = acc.kept
        /\ u.finSent = acc.finSent
    BY DEF AccFields
  <1> QED
    BY <1>1, <1>2

LEMMA LostMissing ==
    ASSUME NEW acc, DOMAIN acc = AccFields, ~acc.firstIsBigger, NEW v,
           NEW last, ~(v.id < last), v.id < acc.r.tosend
    PROVE  LET y == LostPacket(acc, v, last) IN
           /\ DOMAIN y = AccFields /\ ~y.firstIsBigger /\ y.kept = Append(acc.kept, v)
           /\ y.r = RePost(IF acc.finSent THEN acc.r ELSE SendReconnect(acc.r, "nfr_fin"), v)
           /\ y.finSent /\ y.id = v.id
  <1> DEFINE i == v.id
             b == FALSE
             l == Append(acc.kept, v)
             fin == IF acc.finSent THEN acc.r ELSE SendReconnect(acc.r, "nfr_fin")
             x == RePost(fin, v)
             c == TRUE
             h == [acc EXCEPT !.firstIsBigger = b, !.id = i]
             u == [h EXCEPT !.r = x, !.kept = l, !.finSent = c]
  <1>1. h.kept = acc.kept
    BY DEF AccFields
  <1>2. LostPacket(acc, v, last) = u
    BY <1>1 DEF LostPacket, Arrived
  <1> HIDE DEF i, l, x
  <1>3. /\ DOMAIN u = AccFields /\ ~u.firstIsBigger /\ u.kept = l /\ u.r = x
        /\ u.finSent /\ u.id = i
    BY DEF AccFields
  <1> QED
    BY <1>2, <1>3 DEF i, l, x

\* After i turns; the first d messages of the list have arrived.
LostTurn(r, p, s, n, d, i, x) ==
    /\ DOMAIN x = AccFields /\ ~x.firstIsBigger
    /\ IF i <= d THEN x.r = r /\ x.kept = << >> /\ ~x.finSent
       ELSE /\ x.finSent /\ Section(x.kept, n, i - d)
            /\ x.id = FirstId + (n + (i - d) - 1) /\ Resends(r, x.r, p, s, n + (i - d))

LEMMA LostNext ==
    ASSUME NEW r, r.vi \notin broken, NEW p, NEW k, Data(p, k), NEW s, Data(r, s),
           NEW n \in Nat, Stream(r, p, n), NEW last, last = FirstId + n,
           NEW d \in Nat, NEW i \in Nat, NEW x, LostTurn(r, p, s, n, d, i, x),
           NEW v, Listed(v), v.type = "eager", NEW m \in Nat, v.msg = m + 1, m < s,
           v.id = FirstId + m, m + d = n + i
    PROVE  LostTurn(r, p, s, n, d, i + 1, LostPacket(x, v, last))
  <1> DEFINE y == LostPacket(x, v, last)
             e == << >>
  <1>1. DOMAIN x = AccFields /\ ~x.firstIsBigger /\ FirstId \in Nat /\ s \in Nat
    BY RecoveryAssumption DEF LostTurn, Data, Numbered
  <1>2. CASE i + 1 <= d
    <2>1. i <= d /\ v.id < last
      BY <1>1, <1>2
    <2>2. x.r = r /\ x.kept = e /\ ~x.finSent
      BY <2>1 DEF LostTurn
    <2> HIDE DEF y, e
    <2>3. DOMAIN y = AccFields /\ ~y.firstIsBigger /\ y.r = x.r /\ y.kept = x.kept
          /\ y.finSent = x.finSent
      BY <1>1, <2>1, LostArrived DEF y
    <2> QED
      BY <1>2, <2>2, <2>3 DEF LostTurn, y, e
  <1>3. CASE ~(i + 1 <= d)
    <2> DEFINE c == i - d
               b == m + 1
               fin == IF x.finSent THEN x.r ELSE SendReconnect(x.r, "nfr_fin")
               l == Append(x.kept, v)
    <2>1. c \in Nat /\ m = n + c /\ ~(v.id < last) /\ (i + 1) - d = c + 1 /\ b = n + (c + 1)
          /\ b - 1 = m /\ FirstId + b - 1 = FirstId + m /\ FirstId + m < FirstId + s
      BY <1>1, <1>3
    <2>2. Resends(r, fin, p, s, m) /\ Section(x.kept, n, c) /\ Resends(r, x.r, p, s, m)
      <3>1. CASE i <= d
        <4>1. i = d /\ c = 0 /\ m = n
          BY <1>3, <2>1, <3>1
        <4>2. x.r = r /\ x.kept = e /\ ~x.finSent
          BY <3>1 DEF LostTurn
        <4>3. Resends(r, r, p, s, m)
          BY <4>1 DEF Resends, SameRest, SameStage, SameGot, SameList, SameApp, SameSends, Data
        <4>4. Section(e, n, 0)
          BY SectionNone
        <4> HIDE DEF e, c, b
        <4>5. fin = SendReconnect(r, "nfr_fin")
          BY <4>2
        <4>6. Resends(r, fin, p, s, m)
          BY <4>3, <4>5, FinMore
        <4> QED
          BY <4>1, <4>2, <4>3, <4>4, <4>6
      <3>2. CASE ~(i <= d)
        BY <2>1, <3>2 DEF LostTurn
      <3> QED
        BY <3>1, <3>2
    <2>3. v.id < x.r.tosend
      <3>1. x.r.tosend = FirstId + s
        BY <2>2 DEF Resends, Data, Numbered
      <3> QED
        BY <2>1, <3>1
    <2> HIDE DEF c, b
    <2>4. /\ DOMAIN y = AccFields /\ ~y.firstIsBigger /\ y.kept = l
          /\ y.r = RePost(fin, v) /\ y.finSent /\ y.id = v.id
      <3>1. DOMAIN x = AccFields /\ ~x.firstIsBigger /\ ~(v.id < last) /\ v.id < x.r.tosend
        BY <1>1, <2>1, <2>3
      <3> HIDE DEF LostTurn
      <3> QED
        BY <3>1, LostMissing
    <2> HIDE DEF y, fin
    <2>5. Resends(r, RePost(fin, v), p, s, b)
      BY <2>2, MessageMore DEF b
    <2>6. Section(l, n, c + 1)
      <3>1. v.msg = n + (c + 1) /\ v.id = FirstId + v.msg - 1
        BY <2>1 DEF b
      <3> QED
        BY <2>1, <2>2, <3>1, SectionAppend
    <2> HIDE DEF l
    <2>7. ~(i + 1 <= d) /\ (i + 1) - d = c + 1 /\ n + (c + 1) = b /\ n + (c + 1) - 1 = m
      BY <1>3, <2>1
    <2> QED
      BY <2>4, <2>5, <2>6, <2>7 DEF LostTurn, y
  <1> QED
    BY <1>2, <1>3

\* The turn on the j-th of the N packets listed, behind g others, d of which arrived
Turns(N, s, g, d, n) ==
    /\ ~(FirstId + g > FirstId + n)
    /\ \A j \in 1 .. N :
          /\ j - 1 \in Nat /\ j = (j - 1) + 1 /\ g + (j - 1) \in Nat
          /\ g + (j - 1) < s /\ (g + (j - 1)) + d = n + (j - 1)
          /\ g + j = (g + (j - 1)) + 1
          /\ FirstId + ((g + (j - 1)) + 1) - 1 = FirstId + (g + (j - 1))

LEMMA TurnsAre ==
    ASSUME NEW N \in Nat, NEW s \in Nat, N <= s, NEW g, g = s - N, NEW d \in Nat,
           NEW n \in Nat, n = g + d
    PROVE  Turns(N, s, g, d, n)
  <1>1. FirstId \in Nat /\ g \in Nat
    BY RecoveryAssumption
  <1> QED
    BY <1>1 DEF Turns

LEMMA LostRun ==
    ASSUME NEW r, r.vi \notin broken, NEW p, NEW k, Data(p, k), NEW s, Data(r, s),
           NEW n \in Nat, Stream(r, p, n), NEW last, last = FirstId + n,
           NEW d \in Nat, NEW N, N = Len(r.waiting), n = Gone(r, s) + d
    PROVE  LostTurn(r, p, s, n, d, N, LostPackets(r, r.waiting, last))
  <1> DEFINE w == r.waiting
             g == Gone(r, s)
             Good(i, x) == LostTurn(r, p, s, n, d, i, x)
  <1>1. PICK v : /\ v[0] = [r |-> r, kept |-> << >>, finSent |-> FALSE, id |-> last,
                               firstIsBigger |-> w # << >> /\ Head(w).id > last]
                 /\ v[N] = LostPackets(r, w, last)
                 /\ \A j \in 1 .. N : v[j] = LostPacket(v[j - 1], w[j], last)
    <2>1. IsSeq(w)
      BY DEF Data, Whole, List
    <2> HIDE DEF w
    <2> QED
      BY <2>1, LostPacketsRun DEF w
  <1>2. /\ N \in Nat /\ DOMAIN w = 1 .. N /\ g = s - N /\ s \in Nat /\ g \in Nat /\ N <= s
        /\ FirstId \in Nat /\ IsSeq(w) /\ n = g + d
    <2>1. IsSeq(w) /\ N <= s /\ s \in Nat /\ N = Len(w)
      BY DEF Data, Whole, List, Numbered, Waits
    <2>2. N \in Nat /\ DOMAIN w = 1 .. N
      BY <2>1, SeqFacts
    <2> QED
      BY <2>1, <2>2, RecoveryAssumption DEF Gone
  <1>3. \A j \in 1 .. N : /\ Listed(w[j]) /\ w[j].type = "eager" /\ w[j].msg = g + j
                          /\ w[j].id = FirstId + w[j].msg - 1
    BY <1>2 DEF Data, Numbered, Waits, List
  <1> HIDE DEF w, g
  <1>10. Turns(N, s, g, d, n)
    BY <1>2, TurnsAre
  <1>4. Good(0, v[0])
    <2>1. w # << >> => Head(w).id = FirstId + g
      <3>1. w # << >> => 1 \in 1 .. N /\ Head(w) = w[1]
        BY <1>2, SeqFacts
      <3>2. 1 \in 1 .. N => w[1].id = FirstId + g
        <4> DEFINE y == w[1]
        <4>1. 1 \in 1 .. N => y.msg = g + 1 /\ y.id = FirstId + y.msg - 1
          BY <1>3
        <4>2. FirstId + (g + 1) - 1 = FirstId + g
          BY <1>2
        <4> HIDE DEF y
        <4>3. 1 \in 1 .. N => y.id = FirstId + g
          BY <4>1, <4>2
        <4> QED
          BY <4>3 DEF y
      <3> QED
        BY <3>1, <3>2
    <2>2. ~(w # << >> /\ Head(w).id > last)
      <3>1. ~(FirstId + g > last)
        BY <1>10 DEF Turns
      <3> QED
        BY <2>1, <3>1
    <2>3. 0 <= d
      OBVIOUS
    <2> DEFINE b == w # << >> /\ Head(w).id > last
               z == [r |-> r, kept |-> << >>, finSent |-> FALSE, id |-> last, firstIsBigger |-> b]
    <2>4. v[0] = z /\ ~b
      BY <1>1, <2>2
    <2> HIDE DEF b
    <2>5. DOMAIN z = AccFields /\ ~z.firstIsBigger /\ z.r = r /\ z.kept = << >> /\ ~z.finSent
      BY <2>4 DEF AccFields
    <2> HIDE DEF z
    <2> QED
      BY <2>3, <2>4, <2>5 DEF LostTurn
  <1>5. ASSUME NEW j \in 1 .. N, Good(j - 1, v[j - 1]) PROVE Good(j, v[j])
    <2> DEFINE i == j - 1
               m == g + i
               x == v[i]
               y == w[j]
    <2>1. i \in Nat /\ m \in Nat /\ m < s /\ m + d = n + i /\ j = i + 1 /\ g + j = m + 1
          /\ FirstId + (m + 1) - 1 = FirstId + m
      BY <1>10 DEF Turns
    <2>2. Listed(y) /\ y.type = "eager" /\ y.msg = m + 1 /\ y.id = FirstId + m
      BY <1>3, <2>1, SMTT(30)
    <2>3. v[j] = LostPacket(x, y, last) /\ LostTurn(r, p, s, n, d, i, x)
      BY <1>1, <1>5
    <2> HIDE DEF i, m, x, y
    <2>4. LostTurn(r, p, s, n, d, i + 1, LostPacket(x, y, last))
      BY <2>1, <2>2, <2>3, LostNext
    <2> QED
      BY <2>1, <2>3, <2>4
  <1> DEFINE T == {j \in 0 .. N : Good(j, v[j])}
  <1>6. 0 \in T /\ \A j \in 1 .. N : j - 1 \in T => j \in T
    <2> HIDE DEF Good
    <2> QED
      BY <1>2, <1>4, <1>5
  <1>7. N \in T
    <2> HIDE DEF T
    <2> QED
      BY <1>2, <1>6, UpTo
  <1> QED
    BY <1>1, <1>7 DEF w

\* t has sent all messages but those that p has.
Retransmits(r, t, p, s, n) ==
    /\ Data(t, s) /\ SameStage(r, t) /\ SameApp(r, t) /\ SameGot(r, t) /\ t.cq = r.cq
    /\ Stream(t, p, s) /\ Gone(t, s) = n /\ Due(t, p) = Due(r, p)

LEMMA LostData ==
    ASSUME NEW r, r.vi \notin broken, NEW p, NEW k, Data(p, k), NEW s, Data(r, s),
           NEW n \in Nat, Stream(r, p, n), NEW last, last = FirstId + n,
           Gone(r, s) <= n, n <= s
    PROVE  Retransmits(r, SendLostData(r, last), p, s, n)
  <1> DEFINE N == Len(r.waiting)
             d == n - Gone(r, s)
             acc == LostPackets(r, r.waiting, last)
             t == SendLostData(r, last)
             e == << >>
             next == IF acc.finSent /\ last # r.tosend THEN NextId(acc.id) ELSE last
             x == acc.r
             l == acc.kept
             done == [x EXCEPT !.waiting = l, !.tosend = next]
             o == FirstId + s
  <1>1. /\ N \in Nat /\ d \in Nat /\ Gone(r, s) = s - N /\ n = Gone(r, s) + d /\ s \in Nat
        /\ FirstId \in Nat /\ r.tosend = o /\ N - d = s - n /\ o < IdSpace /\ IdSpace \in Nat
    <2>1. N \in Nat /\ Gone(r, s) \in Nat /\ s \in Nat
      BY DueType
    <2>2. FirstId \in Nat /\ r.tosend = o /\ o < IdSpace /\ IdSpace \in Nat
      BY RecoveryAssumption DEF Data, Numbered
    <2>3. Gone(r, s) = s - N
      BY DEF Gone
    <2> HIDE DEF N, o
    <2> QED
      BY <2>1, <2>2, <2>3
  <1>2. LostTurn(r, p, s, n, d, N, acc)
    <2> HIDE DEF d, N, acc
    <2> QED
      BY <1>1, LostRun DEF N, acc
  <1>3. t = IF acc.finSent THEN done ELSE SendReconnect(done, "nfr_fin")
    BY DEF SendLostData
  <1> HIDE DEF N, d, acc, t
  <1>4. CASE N <= d
    <2>1. x = r /\ l = e /\ ~acc.finSent
      BY <1>2, <1>4 DEF LostTurn
    <2>2. next = last /\ n = s /\ last = o
      BY <1>1, <1>4, <2>1
    <2> HIDE DEF next, x, l, done
    <2>3. Waits(e, s) /\ Len(e) = 0
      <3>1. Section(e, s - 0, 0)
        BY SectionNone
      <3>2. Len(e) = 0
        OBVIOUS
      <3> HIDE DEF e
      <3> QED
        BY <1>1, <3>1, <3>2, WaitsSection
    <2> HIDE DEF e
    <2>4. /\ Data(done, s) /\ SameStage(r, done) /\ SameGot(r, done) /\ SameApp(r, done)
          /\ done.cq = r.cq /\ done.wire = r.wire /\ done.pending = r.pending /\ done.waiting = e
          /\ done.sent = r.sent /\ done.halt = r.halt /\ Whole(done)
      <3>1. Relists(r, done, s, e)
        BY <2>1, <2>2 DEF done, Relists
      <3>2. HasList(r, done, s, e)
        BY <2>3, <3>1, Relisted
      <3> QED
        BY <3>2 DEF HasList
    <2>5. Resends(done, done, p, s, n)
      <3>1. Stream(done, p, n)
        BY <2>4 DEF Stream
      <3> QED
        BY <2>4, <3>1 DEF Resends, SameRest, SameStage, SameGot, SameList, SameApp, SameSends
    <2>6. done.vi \notin broken
      BY <2>4 DEF SameStage
    <2>7. Resends(done, t, p, s, n)
      BY <1>3, <2>1, <2>5, <2>6, FinMore
    <2>8. Due(done, p) = Due(r, p)
      BY <2>4 DEF Due
    <2>9. Gone(t, s) = n
      BY <1>1, <2>2, <2>3, <2>4, <2>7 DEF Resends, SameList, Gone
    <2> QED
      BY <2>2, <2>4, <2>7, <2>8, <2>9
         DEF Resends, Retransmits, SameRest, SameStage, SameGot, SameApp, SameSends, t
  <1>5. CASE ~(N <= d)
    <2> DEFINE c == s - n
    <2>1. acc.finSent /\ Section(l, n, N - d) /\ acc.id = FirstId + (n + (N - d) - 1)
          /\ Resends(r, x, p, s, n + (N - d))
      BY <1>2, <1>5 DEF LostTurn
    <2>2. n + (N - d) = s /\ N - d = c /\ c \in Nat /\ s - c = n /\ s - 1 \in Nat
          /\ last # r.tosend /\ c <= s /\ FirstId + ((s - 1) + 1) < IdSpace /\ (s - 1) + 1 = s
      BY <1>1, <1>5
    <2>3. next = o
      <3>1. acc.id = FirstId + (s - 1)
        BY <2>1, <2>2
      <3>2. NextId(FirstId + (s - 1)) = FirstId + ((s - 1) + 1)
        BY <2>2, NextIdIs
      <3> QED
        BY <2>1, <2>2, <3>1, <3>2
    <2>4. Section(l, s - c, c) /\ Resends(r, x, p, s, s)
      BY <2>1, <2>2
    <2> HIDE DEF next, x, l, done, c
    <2>5. Waits(l, s) /\ Len(l) = c
      BY <1>1, <2>2, <2>4, WaitsSection DEF Section
    <2>6. Data(x, s)
      BY <2>4 DEF Resends
    <2>7. /\ Data(done, s) /\ SameStage(x, done) /\ SameGot(x, done) /\ SameApp(x, done)
          /\ done.cq = x.cq /\ done.wire = x.wire /\ done.pending = x.pending /\ done.waiting = l
      <3>1. Relists(x, done, s, l)
        BY <2>3 DEF done, Relists
      <3>2. HasList(x, done, s, l)
        BY <2>5, <2>6, <3>1, Relisted
      <3> QED
        BY <3>2 DEF HasList
    <2>8. t = done
      BY <1>3, <2>1
    <2>9. Stream(t, p, s) /\ Due(t, p) = Due(r, p)
      BY <2>4, <2>7, <2>8 DEF Resends, Stream, Due
    <2>10. Gone(t, s) = n
      BY <2>2, <2>5, <2>7, <2>8 DEF Gone
    <2> QED
      BY <2>4, <2>7, <2>8, <2>9, <2>10
         DEF Resends, Retransmits, SameRest, SameStage, SameGot, SameApp, SameSends, t
  <1> QED
    BY <1>4, <1>5

-----------------------------------------------------------------------------
(* The reconnect's own packets.                                             *)

LEMMA EmptySeq ==
    ASSUME NEW s, IsSeq(s), DOMAIN s = {}
    PROVE  s = << >>
  <1> DEFINE e == << >>
  <1>1. IsSeq(e) /\ DOMAIN e = {}
    BY NoElements
  <1> HIDE DEF e
  <1>2. s = e
    BY <1>1, SameSeq
  <1> QED
    BY <1>2 DEF e

\* odu_re_enable_qp leaves nothing of the old queue pair.
LEMMA ReEnabledData ==
    ASSUME NEW r, Whole(r), \A i \in DOMAIN r.cq : r.cq[i].qp = r.vi
    PROVE  LET t == ReEnable(r) IN
           /\ DOMAIN t = RankFields /\ t.wire = << >> /\ t.sent = << >> /\ t.cq = << >>
           /\ t.pending = 0 /\ t.vi = r.cid
           /\ \A f \in RankFields \ {"wire", "sent", "cq", "pending", "vi", "status"} : t[f] = r[f]
  <1> DEFINE X == {x \in Range(r.cq) : x.qp = r.vi}
             q == Without(r.cq, X)
             n == << >>
             s == [r EXCEPT !.wire = n, !.sent = n, !.cq = q]
             st == IF s.status = "down" THEN "rec" ELSE s.status
             c == s.cid
             z == 0
             u == [s EXCEPT !.pending = z, !.vi = c, !.status = st]
  <1>1. s = IbvDestroyQp(r)
    BY DEF IbvDestroyQp
  <1>2. /\ From(q, r.cq) /\ \A i \in DOMAIN q : q[i] \notin X
    <2> HIDE DEF X
    <2> QED
      BY WithoutIs DEF Whole, Completions
  <1>3. \A i \in DOMAIN q : q[i] \in X
    BY <1>2 DEF From, Range
  <1> HIDE DEF X, q
  <1>4. q = n
    <2>1. IsSeq(q) /\ DOMAIN q = {}
      BY <1>2, <1>3 DEF From
    <2> QED
      BY <2>1, EmptySeq
  <1> HIDE DEF n
  <1>5. /\ DOMAIN s = RankFields /\ s.wire = n /\ s.sent = n /\ s.cq = q
        /\ \A f \in RankFields \ {"wire", "sent", "cq"} : s[f] = r[f]
    BY DEF RankFields, Whole
  <1>6. ReEnable(r) = u
    BY <1>1, <1>5 DEF ReEnable, RankFields
  <1>7. c = r.cid
    BY <1>5 DEF RankFields
  <1> HIDE DEF s, st, c, z
  <1>8. /\ DOMAIN u = RankFields /\ u.wire = n /\ u.cq = q /\ u.sent = n /\ u.vi = c
        /\ u.pending = z
        /\ \A f \in RankFields \ {"wire", "sent", "cq", "pending", "vi", "status"} : u[f] = r[f]
    BY <1>5 DEF RankFields
  <1> QED
    BY <1>4, <1>6, <1>7, <1>8 DEF n, z

\* After the retransmission both directions are whole again.
LEMMA ResentJoint ==
    ASSUME NEW r, NEW p, NEW s, NEW k, Data(r, s), Data(p, k), Place(p, broken),
           r.vi \notin broken, p.vi = r.vi, \A i \in DOMAIN r.cq : r.cq[i].qp = r.vi,
           Flow(p, r, k, 0, broken), Asked(p) => Up(r), Due(p, r) = 0,
           NEW n, n = Len(p.got), Stream(r, p, n), Gone(r, s) <= n, n <= s,
           CallsTell(Pkts(p.cq), r.expected),
           NEW last, last = FirstId + n,
           NEW u, SameData(SendLostData(r, last), u), Up(u)
    PROVE  Joint(u, p, s, k, 0, broken)
  <1> DEFINE t == SendLostData(r, last)
  <1>1. n \in Nat /\ s \in Nat /\ Gone(p, k) \in Nat
    BY DueType
  <1>2. Retransmits(r, t, p, s, n)
    <2> HIDE DEF t
    <2> QED
      BY <1>1, LostData DEF t
  <1> HIDE DEF t
  <1>3. SameData(t, u)
    BY DEF t
  <1>4. /\ Data(t, s) /\ SameStage(r, t) /\ SameGot(r, t) /\ t.cq = r.cq
        /\ Stream(t, p, s) /\ Gone(t, s) = n /\ Due(t, p) = Due(r, p)
    BY <1>2 DEF Retransmits
  <1>5. /\ Data(u, s)
        /\ Due(u, p) = Due(t, p) /\ Due(p, u) = Due(p, t)
        /\ Stream(u, p, s) /\ \A j : Stream(p, u, j) <=> Stream(p, t, j)
        /\ Gone(u, s) = Gone(t, s)
    BY <1>3, <1>4, SameDataFacts
  <1>6. /\ u.cq = r.cq /\ u.vi = r.vi /\ u.got = r.got /\ u.expected = r.expected
    BY <1>3, <1>4 DEF SameData, SameGot, SameStage
  <1>7. Due(p, u) = Due(p, r) /\ \A j : Stream(p, u, j) <=> Stream(p, r, j)
    BY <1>6 DEF Due, Stream
  <1>8. ~Client(u) /\ ~Server(u) /\ ~Fresh(u) /\ ~Seen(u) /\ ~Asked(u)
    BY DEF Up, Client, Server, Fresh, Seen, Asked, OnNewQp
  <1>9. Place(u, broken)
    BY <1>6, <1>8 DEF Place
  <1>10. Flow(u, p, s, 0, broken)
    <2>1. Reached(u, p, s)
      BY <1>1, <1>4, <1>5 DEF Reached
    <2>2. Streams(u, p, s, broken)
      <3>1. s \in 0 .. s
        BY <1>1
      <3> QED
        BY <1>5, <3>1 DEF Streams
    <2>3. Owes(u, p, s, 0, broken)
      <3>1. n - Gone(u, s) = 0
        BY <1>1, <1>4, <1>5
      <3> QED
        BY <1>6, <1>7, <3>1 DEF Owes
    <2>4. Stalls(u, p, 0)
      BY <1>6, <1>8 DEF Stalls, Mute
    <2> QED
      BY <2>1, <2>2, <2>3, <2>4 DEF Flow
  <1>11. Flow(p, u, k, 0, broken)
    <2>1. /\ Reached(p, r, k) /\ Streams(p, r, k, broken) /\ Owes(p, r, k, 0, broken)
          /\ Stalls(p, r, 0)
      BY DEF Flow
    <2>2. Reached(p, u, k) /\ Streams(p, u, k, broken)
      BY <1>6, <1>7, <2>1 DEF Reached, Streams
    <2>3. Owes(p, u, k, 0, broken)
      BY <1>4, <1>5, <1>6, <2>1 DEF Owes
    <2>4. Stalls(p, u, 0)
      BY <1>4, <1>5, <1>6, <1>7, <1>8, <2>1 DEF Stalls, Mute
    <2> QED
      BY <2>2, <2>3, <2>4 DEF Flow
  <1> QED
    BY <1>5, <1>9, <1>10, <1>11 DEF Joint

\* nfr_incoming_nfr_rep
LEMMA IncomingRepJoint ==
    ASSUME NEW r, NEW p, NEW s, NEW k, Joint(r, p, s, k, 0, broken), r.cq # << >>,
           NEW t, t = [r EXCEPT !.cq = Tail(@)], NEW pkt, pkt = PktIn(Head(r.cq)),
           pkt.type = "nfr_rep", EndOk(t, broken), Replying(t, p)
    PROVE  LET u == IncomingRep(t, pkt.ack) IN
           Joint(u, p, s, k, 0, broken) /\ SameApp(r, u)
  <1> DEFINE on == [t EXCEPT !.recov = TRUE]
             last == pkt.ack
             n == Len(p.got)
             o == SendLostData(on, last)
             c == o.replies - 1
             w == [o EXCEPT !.state = "pt2pt", !.replies = c]
             u == IncomingRep(t, last)
  <1>1. u = w
    BY DEF IncomingRep, Replied
  <1>2. Joint(t, p, s, k, 0, broken)
    <2>1. AckOf(pkt) = 0 /\ pkt.type # "eager"
      BY DEF AckOf
    <2>2. Joint(t, p, s, k, AckOf(pkt), broken)
      BY <2>1, TakeJoint
    <2> QED
      BY <2>1, <2>2
  <1>3. SameApp(r, t) /\ Whole(t) /\ DOMAIN t = RankFields
    BY <1>2, TakeIs DEF Takes, Joint, Data, Whole
  <1>4. last = FirstId + n
    <2>1. CallsTell(Pkts(r.cq), p.expected)
      BY DEF Joint, Flow, Stalls
    <2>2. last = p.expected
      <3>1. pkt.type \in Call
        BY DEF Call
      <3>2. Data(r, s)
        BY DEF Joint
      <3> QED
        BY <2>1, <3>1, <3>2, TakePipes
    <2> QED
      BY <2>2 DEF Joint, Data, InOrder
  <1> HIDE DEF last, u
  <1>5. /\ SameStage(t, on) /\ SameGot(t, on) /\ SameList(t, on) /\ SameApp(t, on)
        /\ on.pending = t.pending /\ on.vi = t.vi /\ DOMAIN on = RankFields
        /\ on.wire = t.wire /\ on.sent = t.sent /\ on.cq = t.cq /\ on.halt = t.halt
    BY <1>3 DEF RankFields, SameStage, SameGot, SameList, SameApp, SameSends
  <1> HIDE DEF on
  <1>6. SameData(t, on)
    BY <1>3, <1>5 DEF SameData, Whole, SameList, SameApp, SameSends
  <1>7. Joint(on, p, s, k, 0, broken)
    BY <1>2, <1>5, <1>6, JointSame
  <1>8. Asked(on) /\ Up(p) /\ on.vi = p.vi /\ on.vi \notin broken
    <2>1. Asked(t) /\ Up(p) /\ t.cid = p.cid
      BY DEF Replying
    <2>2. t.vi = p.vi
      BY <2>1 DEF Asked, OnNewQp, Up
    <2>3. t.vi \notin broken
      BY <2>1 DEF EndOk
    <2> QED
      BY <1>5, <2>1, <2>2, <2>3, StagesSame
  <1>9. ~Server(on) /\ ~Asked(p) /\ ~Client(on)
    BY <1>8 DEF Asked, OnNewQp, Server, Up, Client
  <1>10. /\ Data(on, s) /\ Data(p, k) /\ Place(p, broken) /\ Flow(p, on, k, 0, broken)
         /\ \A i \in DOMAIN on.cq : on.cq[i].qp = on.vi
    BY <1>7, <1>9 DEF Joint, Place
  <1>11. /\ Due(p, on) = 0 /\ Stream(on, p, n) /\ Gone(on, s) <= n /\ n <= s
         /\ CallsTell(Pkts(p.cq), on.expected)
    <2>1. Reached(on, p, s) /\ Stalls(on, p, 0)
      BY <1>7 DEF Joint, Flow
    <2>2. Due(p, on) \in Nat
      BY <1>10, DueType
    <2> QED
      BY <1>8, <2>1, <2>2 DEF Reached, Stalls
  <1>12. n \in Nat
    BY <1>10, DueType
  <1>13. Retransmits(on, o, p, s, n)
    <2> HIDE DEF o, n
    <2> QED
      BY <1>4, <1>8, <1>10, <1>11, <1>12, LostData DEF o
  <1>14. Data(o, s) /\ SameStage(on, o) /\ SameApp(on, o) /\ Whole(o) /\ DOMAIN o = RankFields
    BY <1>13 DEF Retransmits, Data, Whole
  <1>15. Asked(o)
    BY <1>8, <1>14, StagesSame
  <1> HIDE DEF o, c
  <1>16. /\ DOMAIN w = RankFields /\ SameGot(o, w) /\ SameList(o, w) /\ SameApp(o, w)
         /\ w.pending = o.pending /\ w.vi = o.vi
         /\ w.wire = o.wire /\ w.sent = o.sent /\ w.cq = o.cq /\ w.halt = o.halt
         /\ w.state = "pt2pt" /\ w.status = o.status /\ w.cli = o.cli /\ w.srv = o.srv
         /\ w.cid = o.cid /\ w.fresh = o.fresh
    BY <1>14 DEF RankFields, SameGot, SameList, SameApp, SameSends
  <1> HIDE DEF w
  <1>17. SameData(o, w)
    BY <1>14, <1>16 DEF SameData, Whole, SameList, SameApp, SameSends
  <1>18. Up(w)
    BY <1>15, <1>16 DEF Asked, OnNewQp, Up
  <1>19. Joint(w, p, s, k, 0, broken)
    <2>1. SameData(SendLostData(on, last), w) /\ n = Len(p.got)
      BY <1>17 DEF o
    <2> HIDE DEF n
    <2> QED
      BY <1>4, <1>8, <1>9, <1>10, <1>11, <1>18, <2>1, ResentJoint
  <1>20. SameApp(r, w)
    BY <1>3, <1>5, <1>14, <1>16 DEF SameApp, SameSends
  <1> QED
    BY <1>1, <1>19, <1>20 DEF u, last

\* nfr_incoming_nfr_req
LEMMA IncomingReqJoint ==
    ASSUME NEW r, NEW p, NEW s, NEW k, Joint(r, p, s, k, 0, broken), r.cq # << >>,
           NEW t, t = [r EXCEPT !.cq = Tail(@)], NEW pkt, pkt = PktIn(Head(r.cq)),
           pkt.type = "nfr_req", EndOk(t, broken), EndOk(p, broken),
           Requesting(p, t), NoCall(p, t), QueueFits(r.queued, s)
    PROVE  LET u == IncomingReq(t, pkt.ack) IN
           /\ Joint(u, p, s + Len(r.queued), k, 0, broken)
           /\ Rests(r, u) /\ u.queued = << >>
  <1> DEFINE last == pkt.ack
             n == Len(p.got)
             est == [t EXCEPT !.srv = "idle", !.state = "pt2pt"]
             en  == ReEnable(est)
             b   == en.bad - 1
             dn  == [en EXCEPT !.bad = b, !.status = "up"]
             up  == IF en.status = "rec" THEN dn ELSE en
             on  == [up EXCEPT !.recov = TRUE]
             v   == Packet("nfr_rep", 0, on.expected, 0)
             rep == SendReconnect(on, "nfr_rep")
             o   == SendLostData(rep, last)
             u   == IncomingReq(t, last)
             e   == << >>
             z   == 0
  <1>1. /\ Server(t) /\ Asked(p) /\ p.cid = t.cid /\ NoCall(t, p)
        /\ p.vi = t.cid /\ p.vi \notin broken /\ ~t.fresh
    BY DEF Requesting, EndOk, Asked, OnNewQp, Server
  <1>2. Joint(t, p, s, k, 0, broken)
    <2>1. AckOf(pkt) = 0 /\ pkt.type # "eager"
      BY DEF AckOf
    <2>2. Joint(t, p, s, k, AckOf(pkt), broken)
      BY <2>1, TakeJoint
    <2> QED
      BY <2>1, <2>2
  <1>3. SameApp(r, t) /\ Whole(t) /\ DOMAIN t = RankFields /\ t.halt = "no"
    BY <1>2, TakeIs DEF Takes, Joint, Data, Whole
  <1>4. last = FirstId + n
    <2>1. CallsTell(Pkts(r.cq), p.expected)
      BY DEF Joint, Flow, Stalls
    <2>2. last = p.expected
      <3>1. pkt.type \in Call
        BY DEF Call
      <3>2. Data(r, s)
        BY DEF Joint
      <3> QED
        BY <2>1, <3>1, <3>2, TakePipes
    <2> QED
      BY <2>2 DEF Joint, Data, InOrder
  <1> HIDE DEF last
  \* Nothing is under way any more.
  <1>5. p.wire = e /\ p.cq = e /\ p.pending = z
    <2>1. Mute(p, t)
      BY <1>1 DEF Mute
    <2>2. /\ p.cq = << >> /\ p.pending = 0
          /\ \A i \in DOMAIN p.wire : p.wire[i].type = "nfr_req"
      BY <1>2, <2>1 DEF Joint, Flow, Stalls
    <2>3. Calls(p.wire, "nfr_req") = {}
      BY DEF NoCall, NoneOf, Call
    <2>4. DOMAIN p.wire = {}
      BY <2>2, <2>3 DEF Calls
    <2>5. IsSeq(p.wire)
      BY <1>2 DEF Joint, Data, Pipes, Pile
    <2>6. IsSeq(e) /\ DOMAIN e = {}
      BY NoElements
    <2> DEFINE w == p.wire
    <2> HIDE DEF e, w
    <2>7. w = e
      BY <2>4, <2>5, <2>6, SameSeq DEF w
    <2> QED
      BY <2>2, <2>7 DEF e, w
  <1>6. \A i \in DOMAIN t.cq : t.cq[i].qp = t.vi
    <2>1. Heard(t.cq, "nfr_req") = {}
      BY DEF NoCall, NoneOf, Call
    <2> QED
      BY <1>2, <2>1 DEF Joint, Place, Heard
  <1>7. Establish(t) = est
    BY <1>1 DEF Establish, Server
  <1>8. /\ DOMAIN est = RankFields /\ est.srv = "idle" /\ est.state = "pt2pt"
        /\ \A f \in RankFields \ {"srv", "state"} : est[f] = t[f]
    BY <1>3 DEF RankFields
  <1> HIDE DEF est
  <1>9. Whole(est) /\ \A i \in DOMAIN est.cq : est.cq[i].qp = est.vi
    <2>1. est.wire = t.wire /\ est.cq = t.cq /\ est.vi = t.vi
      BY <1>8 DEF RankFields
    <2>2. est.queued = t.queued /\ est.waiting = t.waiting
      BY <1>8 DEF RankFields
    <2>3. \A i \in DOMAIN est.cq : est.cq[i].qp = est.vi
      BY <1>6, <2>1
    <2>4. Whole(est)
      BY <1>3, <1>8, <2>1, <2>2 DEF Whole
    <2> QED
      BY <2>3, <2>4
  <1>10. /\ DOMAIN en = RankFields /\ en.wire = e /\ en.sent = e /\ en.cq = e
         /\ en.pending = z /\ en.vi = est.cid
         /\ \A f \in RankFields \ {"wire", "sent", "cq", "pending", "vi", "status"} : en[f] = est[f]
    <2> HIDE DEF est
    <2> QED
      BY <1>9, ReEnabledData
  <1>11. Restored(en) = up /\ Renewed(t) = en
    BY <1>7 DEF Restored, Renewed
  <1>11a. en.status \in {"up", "rec"}
    <2>1. /\ Whole(en)
          /\ en.status = (IF est.status = "down" THEN "rec" ELSE est.status)
      <3>1. ErrorsHere(est)
        <4>1. est.cq = t.cq /\ est.vi = t.vi
          BY <1>8 DEF RankFields
        <4>2. ErrorsIn(t, broken)
          BY DEF EndOk
        <4> QED
          BY <4>1, <4>2 DEF ErrorsIn, ErrorsHere
      <3> QED
        BY <1>9, <3>1, ReEnabled
    <2>2. est.status \in {"up", "down"}
      BY <1>1, <1>8 DEF Server, RankFields
    <2> QED
      BY <2>1, <2>2
  <1> HIDE DEF en, b
  <1>12. /\ DOMAIN up = RankFields /\ up.status = "up"
         /\ \A f \in RankFields \ {"bad", "status"} : up[f] = en[f]
    BY <1>10, <1>11a DEF RankFields
  <1> HIDE DEF up
  <1>13. /\ DOMAIN on = RankFields /\ on.status = "up"
         /\ \A f \in RankFields \ {"bad", "status", "recov"} : on[f] = en[f]
    BY <1>12 DEF RankFields
  <1>14. u = ProcessQueue(SendLostData(rep, last))
    BY <1>11 DEF IncomingReq
  <1> HIDE DEF on, u
  <1>15. /\ on.wire = e /\ on.sent = e /\ on.cq = e /\ on.pending = z /\ on.vi = p.vi
         /\ on.cid = p.vi /\ on.halt = "no" /\ on.state = "pt2pt" /\ on.cli = "idle"
         /\ on.srv = "idle" /\ on.status = "up" /\ ~on.fresh
         /\ SameGot(t, on) /\ SameList(t, on) /\ SameApp(t, on)
    <2>1. /\ on.wire = e /\ on.sent = e /\ on.cq = e /\ on.pending = z /\ on.vi = est.cid
          /\ on.cid = est.cid /\ on.halt = est.halt /\ on.state = est.state /\ on.cli = est.cli
          /\ on.srv = est.srv /\ on.status = "up" /\ on.fresh = est.fresh
          /\ SameGot(est, on) /\ SameList(est, on) /\ SameApp(est, on)
      BY <1>10, <1>13 DEF RankFields, SameGot, SameList, SameApp, SameSends
    <2>2. /\ est.cid = t.cid /\ est.halt = t.halt /\ est.cli = t.cli /\ est.fresh = t.fresh
          /\ SameGot(t, est) /\ SameList(t, est) /\ SameApp(t, est)
      BY <1>8 DEF RankFields, SameGot, SameList, SameApp, SameSends
    <2>3. t.cli = "idle"
      BY <1>1 DEF Server
    <2> QED
      BY <1>1, <1>3, <1>8, <2>1, <2>2, <2>3 DEF SameGot, SameList, SameApp, SameSends
  <1>16. IsSeq(e) /\ DOMAIN e = {} /\ Acks(e) = 0 /\ Pkts(e) = e
    BY NoElements, AcksNone, PktsNone
  <1>17. \A m \in Nat : Carries(e, m, m)
    BY CarriesNone
  <1> HIDE DEF e
  <1>18. Whole(on)
    <2>1. Completions(e)
      BY <1>16 DEF Completions
    <2> QED
      BY <1>3, <1>13, <1>15, <1>16, <2>1 DEF Whole, SameList, SameApp, SameSends
  <1>19. on.expected = t.expected /\ on.got = t.got /\ on.tosend = t.tosend
         /\ on.waiting = t.waiting
    BY <1>15 DEF SameGot, SameList
  <1>20. Data(on, s)
    <2>1. Pile(e)
      BY <1>16 DEF Pile
    <2>2. Pipes(on)
      BY <1>15, <1>16, <2>1 DEF Pipes
    <2>3. NoRendezvous(on) /\ InOrder(on) /\ Numbered(on, s)
      BY <1>2, <1>15, <1>19 DEF Joint, Data, NoRendezvous, InOrder, Numbered, SameGot
    <2>4. CallsTell(on.wire, on.expected)
      BY <1>15, <1>16 DEF CallsTell
    <2>5. on.pending \in Nat
      BY <1>15
    <2> QED
      BY <1>15, <1>18, <2>2, <2>3, <2>4, <2>5 DEF Data
  <1>21. /\ PktOk(v) /\ AckOf(v) = 0 /\ v.type = "nfr_rep" /\ v.ack = on.expected
         /\ \A m : NextMsg(v, m, m)
    <2>1. on.expected \in Nat
      <3>1. Len(on.got) \in Nat /\ FirstId \in Nat
        BY <1>20, DueType, RecoveryAssumption
      <3> QED
        BY <1>20, <3>1 DEF Data, InOrder
    <2> QED
      BY <2>1 DEF Packet, PktOk, AckOf, NextMsg
  <1>22. /\ Posts(on, rep, v) /\ SameList(on, rep) /\ SameApp(on, rep)
         /\ rep.pending = on.pending
    <2>1. rep = IbvPostSend(on, v)
      BY DEF SendReconnect
    <2> HIDE DEF rep, v
    <2> QED
      BY <1>18, <2>1, IbvPosts
  <1> HIDE DEF rep, v
  <1>23. /\ rep.wire = Append(e, v) /\ rep.cq = e /\ SameStage(on, rep) /\ SameGot(on, rep)
         /\ rep.halt = "no" /\ rep.pending = z
    BY <1>1, <1>15, <1>22 DEF Posts, SameRest
  <1>24. Numbered(rep, s) /\ Gone(rep, s) = Gone(t, s)
    BY <1>19, <1>20, <1>22 DEF Data, Numbered, SameList, Gone
  <1>25. Data(rep, s)
    <2>1. rep.pending \in Nat
      BY <1>23
    <2> QED
      BY <1>20, <1>21, <1>22, <1>24, <2>1, PostsData
  <1>26. Up(rep) /\ rep.vi = p.vi /\ rep.vi \notin broken /\ rep.state = "pt2pt"
    BY <1>1, <1>15, <1>23 DEF SameStage, Up
  <1>27. n \in Nat /\ Len(rep.got) \in Nat /\ Len(rep.got) = Len(t.got) /\ Gone(p, k) \in Nat
    <2>1. rep.got = t.got
      BY <1>15, <1>23 DEF SameGot
    <2>2. Data(p, k)
      BY <1>2 DEF Joint
    <2> QED
      BY <1>25, <2>1, <2>2, DueType
  <1>28. Due(p, rep) = 0 /\ Due(rep, p) = 0
    <2>1. Acks(rep.wire) = 0
      <3>1. Pile(e)
        BY <1>16 DEF Pile
      <3>2. Acks(Append(e, v)) = Acks(e) + AckOf(v)
        BY <1>21, <3>1, PileAppend
      <3> QED
        BY <1>16, <1>21, <1>23, <3>2
    <2> QED
      BY <1>5, <1>16, <1>23, <2>1 DEF Due
  <1>29. Stream(rep, p, n)
    <2>1. Carries(e, n, n)
      BY <1>17, <1>27
    <2>2. Carries(Append(e, v), n, n)
      BY <1>16, <1>21, <1>27, <2>1, CarriesAppend
    <2> QED
      BY <1>5, <1>16, <1>23, <1>27, <2>1, <2>2 DEF Stream
  <1>30. Gone(rep, s) <= n /\ n <= s
    BY <1>2, <1>24 DEF Joint, Flow, Reached
  <1>31. CallsTell(Pkts(p.cq), rep.expected)
    BY <1>5, <1>16 DEF CallsTell
  <1>32. Flow(p, rep, k, 0, broken)
    <2> DEFINE m == Len(rep.got)
    <2>1. Reached(p, rep, k)
      BY <1>2, <1>27 DEF Joint, Flow, Reached
    <2>2. Stream(p, rep, m)
      BY <1>5, <1>16, <1>17, <1>23, <1>27 DEF Stream
    <2>3. m \in 0 .. k /\ k \in Nat
      <3>1. k \in Nat
        BY <1>2 DEF Joint, Data, Numbered
      <3> QED
        BY <1>27, <2>1, <3>1 DEF Reached
    <2>4. ~Sending(p, broken) /\ ~Fresh(p) /\ ~Seen(p)
      BY <1>1 DEF Asked, OnNewQp, Sending, Fresh, Seen
    <2>5. Streams(p, rep, k, broken)
      BY <2>2, <2>3, <2>4 DEF Streams
    <2>6. Owes(p, rep, k, 0, broken)
      <3>1. 0 + 0 <= m - Gone(p, k)
        BY <1>27, <2>1 DEF Reached
      <3> QED
        BY <1>28, <2>4, <3>1 DEF Owes
    <2>7. ~Server(rep)
      BY <1>26 DEF Up, Server
    <2>8. CallsTell(Pkts(rep.cq), p.expected)
      BY <1>16, <1>23 DEF CallsTell
    <2>9. Stalls(p, rep, 0)
      BY <1>28, <2>2, <2>4, <2>7, <2>8 DEF Stalls, Mute
    <2> QED
      BY <2>1, <2>5, <2>6, <2>9 DEF Flow
  <1>33. \A i \in DOMAIN rep.cq : rep.cq[i].qp = rep.vi
    BY <1>16, <1>23
  <1>34. Data(p, k) /\ Place(p, broken)
    BY <1>2 DEF Joint
  <1>35. Retransmits(rep, o, p, s, n)
    <2> HIDE DEF o, n
    <2> QED
      BY <1>4, <1>25, <1>26, <1>27, <1>29, <1>30, <1>34, LostData DEF o
  <1>36. Data(o, s) /\ SameStage(rep, o) /\ SameApp(rep, o) /\ Whole(o)
    BY <1>35 DEF Retransmits, Data
  <1>37. Up(o) /\ o.state = "pt2pt"
    BY <1>26, <1>36, StagesSame DEF SameStage
  <1>38. SameData(o, o)
    BY <1>36 DEF SameData, SameGot, SameList
  <1>39. Joint(o, p, s, k, 0, broken)
    <2>1. SameData(SendLostData(rep, last), o) /\ n = Len(p.got)
      BY <1>38 DEF o
    <2> HIDE DEF n, o
    <2> QED
      BY <1>4, <1>25, <1>26, <1>28, <1>29, <1>30, <1>31, <1>32, <1>33, <1>34, <1>37, <2>1,
         ResentJoint
  <1>40. SameApp(r, o)
    BY <1>3, <1>15, <1>22, <1>36 DEF SameApp, SameSends
  <1>41. o.queued = r.queued /\ o.todo = r.todo /\ o.issued = r.issued
    BY <1>40 DEF SameApp, SameSends
  <1>42. u = ProcessQueue(o)
    BY <1>14 DEF o
  <1> HIDE DEF o
  <1>43. /\ Joint(u, p, s + Len(r.queued), k, 0, broken)
         /\ Rests(r, u) /\ u.queued = << >>
    <2>1. QueueFits(o.queued, s) /\ 0 \in Nat
      BY <1>41
    <2> HIDE DEF u
    <2>2. Joint(u, p, s + Len(r.queued), k, 0, broken) /\ Rests(o, u) /\ u.queued = << >>
      BY <1>37, <1>39, <1>41, <1>42, <2>1, ProcessQueueJoint
    <2> QED
      BY <1>40, <2>2 DEF Rests, SameApp, SameSends
  <1> QED
    BY <1>43 DEF u, last

-----------------------------------------------------------------------------
(* A turn of the poll.                                                      *)

LEMMA AppSame ==
    ASSUME NEW r, App(r), NEW t, SameApp(r, t)
    PROVE  App(t) /\ Started(t) = Started(r) /\ Moves(r, t) /\ Rests(r, t)
  BY DEF SameApp, SameSends, App, Started, Moves, Took, Rests

LEMMA AppTook ==
    ASSUME NEW r, App(r), NEW t, SameSends(r, t)
    PROVE  App(t) /\ Started(t) = Started(r)
  BY DEF SameSends, App, Started

LEMMA AppFlushed ==
    ASSUME NEW r, App(r), Whole(r), NEW t, t.todo = r.todo, t.issued = r.issued, t.queued = << >>
    PROVE  App(t) /\ Started(t) = Started(r) + Len(r.queued)
  <1>1. Len(t.queued) = 0 /\ DOMAIN t.queued = {}
    OBVIOUS
  <1>2. r.issued \in Nat /\ Started(r) + Len(r.queued) = r.issued
    BY AppFits DEF App
  <1>3. Started(t) = r.issued
    BY <1>1, <1>2 DEF Started
  <1> QED
    BY <1>1, <1>2, <1>3 DEF App

\* The process with the record t acts on the completion x.
Polls(t, x, expect, u) ==
    u = CASE x.what = "error" -> QpError(t)
          [] x.what = "send"  -> ProcessSend(t, x.pkt)
          [] x.what = "recv"  -> ProcessRecv(t, x.pkt, expect)

LEMMA PolledJoint ==
    ASSUME NEW e \in End, NEW expect, NEW r, NEW p, NEW k,
           App(r), Joint(r, p, Started(r), k, 0, broken),
           EndOk(r, broken), EndOk(p, broken), Linked(e, r, p), r.cq # << >>,
           NEW t, t = [r EXCEPT !.cq = Tail(@)], NEW x, x = Head(r.cq),
           NEW u, Polls(t, x, expect, u)
    PROVE  App(u) /\ Joint(u, p, Started(u), k, 0, broken) /\ Took(r, u)
  <1> DEFINE pkt == PktIn(x)
             s == Started(r)
  <1>1. Whole(r)
    BY DEF Joint, Data
  <1>2. /\ Whole(t) /\ EndOk(t, broken) /\ Linked(e, t, p)
        /\ x.what = "error" => r.vi \in broken /\ t.vi = r.vi
        /\ x.what = "recv" /\ x.pkt.type = "nfr_req" => Requesting(p, t) /\ NoCall(p, t)
        /\ x.what = "recv" /\ x.pkt.type = "nfr_rep" => Replying(t, p) /\ NoCall(p, t)
    BY <1>1, Taken
  <1>3. Takes(r, t)
    BY <1>1, TakeIs
  <1>4. x.what \in {"recv", "error"}
    BY <1>3 DEF Takes, Joint, Data, Pipes
  <1>5. QueueFits(r.queued, s)
    BY <1>1, AppFits
  <1>6. SameApp(r, t)
    BY <1>3 DEF Takes
  <1> HIDE DEF s
  <1>7. CASE x.what = "error"
    <2>1. pkt = Nothing /\ AckOf(pkt) = 0 /\ pkt.type # "eager"
      BY <1>7, NothingIs DEF PktIn
    <2>2. u = QpError(t)
      BY <1>7 DEF Polls
    <2> HIDE DEF pkt
    <2>3. Joint(t, p, s, k, AckOf(pkt), broken)
      BY <2>1, TakeJoint DEF pkt, s
    <2>4. Joint(t, p, s, k, 0, broken) /\ t.vi \in broken
      BY <1>2, <1>7, <2>1, <2>3
    <2>5. Joint(u, p, s, k, 0, broken) /\ SameApp(t, u)
      BY <1>2, <2>2, <2>4, QpErrorJoint
    <2>6. SameApp(r, u)
      BY <1>6, <2>5 DEF SameApp, SameSends
    <2>7. Took(r, u)
      BY <2>6 DEF Took, SameApp, SameSends
    <2> QED
      BY <2>5, <2>6, <2>7, AppSame DEF s
  <1>8. CASE x.what = "recv"
    <2>1. pkt = x.pkt
      BY <1>8 DEF PktIn
    <2>2. u = ProcessRecv(t, pkt, expect)
      BY <1>8, <2>1 DEF Polls
    <2>3. pkt = PktIn(Head(r.cq))
      OBVIOUS
    <2> HIDE DEF pkt
    <2>4. Joint(r, p, s, k, 0, broken)
      BY DEF s
    <2>5. CASE pkt.type = "nfr_req"
      <3>1. u = IncomingReq(t, pkt.ack)
        BY <2>2, <2>5 DEF ProcessRecv, Unsequenced
      <3>2. Requesting(p, t) /\ NoCall(p, t)
        BY <1>2, <1>8, <2>1, <2>5
      <3>3. /\ Joint(u, p, s + Len(r.queued), k, 0, broken)
            /\ Rests(r, u) /\ u.queued = << >>
        BY <1>2, <1>5, <2>3, <2>4, <2>5, <3>1, <3>2, IncomingReqJoint
      <3>4. App(u) /\ Started(u) = s + Len(r.queued)
        BY <1>1, <3>3, AppFlushed DEF s, Rests
      <3>5. Took(r, u)
        BY <3>3 DEF Took, Rests
      <3> QED
        BY <3>3, <3>4, <3>5
    <2>6. CASE pkt.type = "nfr_rep"
      <3>1. u = IncomingRep(t, pkt.ack)
        BY <2>2, <2>6 DEF ProcessRecv, Unsequenced
      <3>2. Replying(t, p)
        BY <1>2, <1>8, <2>1, <2>6
      <3>3. Joint(u, p, s, k, 0, broken) /\ SameApp(r, u)
        BY <1>2, <2>3, <2>4, <2>6, <3>1, <3>2, IncomingRepJoint
      <3>4. Took(r, u)
        BY <3>3 DEF Took, SameApp, SameSends
      <3> QED
        BY <3>3, <3>4, AppSame DEF s
    <2>7. CASE pkt.type \notin Call
      <3>1. Joint(u, p, s, k, 0, broken) /\ SameSends(r, u) /\ Took(r, u)
        BY <2>2, <2>3, <2>4, <2>7, ProcessRecvJoint
      <3> QED
        BY <3>1, AppTook DEF s
    <2> QED
      BY <2>5, <2>6, <2>7 DEF Call
  <1> QED
    BY <1>4, <1>7, <1>8

LEMMA PollMessages ==
    ASSUME MInv, NEW e \in End, NEW expect \in BOOLEAN, Poll(e, expect)
    PROVE  Messages(rank', broken') /\ Moved
  <1> DEFINE p == rank[Peer(e)]
             r == TestNewConnection(rank[e])
             x == Head(r.cq)
             t == [r EXCEPT !.cq = Tail(@)]
             w == CASE x.what = "error" -> QpError(t)
                    [] x.what = "send"  -> ProcessSend(t, x.pkt)
                    [] x.what = "recv"  -> ProcessRecv(t, x.pkt, expect)
             u == IF r.cq = << >> THEN r ELSE w
             k == Started(p)
  <1>1. rank' = [rank EXCEPT ![e] = u] /\ broken' = broken
    BY DEF Poll, net
  <1>2. /\ App(rank[e]) /\ Joint(rank[e], p, Started(rank[e]), k, 0, broken)
        /\ Whole(rank[e]) /\ EndOk(rank[e], broken) /\ EndOk(p, broken)
        /\ Linked(e, rank[e], p)
    BY BothEnds
  <1>3. EndOk(r, broken) /\ Linked(e, r, p)
    BY <1>2, Tested
  <1>4. Joint(r, p, Started(rank[e]), k, 0, broken) /\ SameApp(rank[e], r)
    BY <1>2, TestedJoint
  <1> HIDE DEF r, p, k
  <1>5. App(r) /\ Joint(r, p, Started(r), k, 0, broken)
    <2>1. App(r) /\ Started(r) = Started(rank[e])
      BY <1>2, <1>4, AppSame
    <2> QED
      BY <1>4, <2>1
  <1> HIDE DEF x, t, w
  <1>6. Polls(t, x, expect, w)
    BY DEF Polls, w
  <1>7. r.cq # << >> => App(w) /\ Joint(w, p, Started(w), k, 0, broken) /\ Took(r, w)
    BY <1>2, <1>3, <1>5, <1>6, PolledJoint DEF x, t
  <1>8. App(u) /\ Joint(u, p, Started(u), k, 0, broken)
    BY <1>5, <1>7
  <1>9. u = r \/ Took(r, u)
    BY <1>7
  <1> HIDE DEF u
  <1>10. Moves(rank[e], u)
    BY <1>4, <1>9 DEF Moves, Took, SameApp, SameSends
  <1> QED
    BY <1>1, <1>8, <1>10, MessagesStep DEF p, k

-----------------------------------------------------------------------------
(* The steps of the reconnect besides the poll.                             *)

\* A step of both ends
LEMMA MessagesBoth ==
    ASSUME MInv, NEW e \in End, NEW t, NEW u,
           rank' = [rank EXCEPT ![e] = t, ![Peer(e)] = u], NEW b, broken' = b,
           App(t), App(u), Joint(t, u, Started(t), Started(u), 0, b),
           \/ Moves(rank[e], t) /\ Rests(rank[Peer(e)], u)
           \/ Rests(rank[e], t) /\ Moves(rank[Peer(e)], u)
    PROVE  Messages(rank', broken') /\ Moved
  <1>1. IInv
    BY DEF MInv
  <1>2. rank'[e] = t /\ rank'[Peer(e)] = u
    BY <1>1, TwoEnds
  <1>3. Messages(rank', b)
    BY <1>2, MessagesAgain
  <1>4. Moved
    BY <1>2, Peers DEF Moved
  <1> QED
    BY <1>3, <1>4

LEMMA EndWaitMessages ==
    ASSUME MInv, NEW e \in End, EndWait(e)
    PROVE  Messages(rank', broken') /\ Moved
  <1> DEFINE r == rank[e]
             p == rank[Peer(e)]
             t == [r EXCEPT !.phase = "run"]
             s == Started(r)
             k == Started(p)
  <1>1. rank' = [rank EXCEPT ![e] = t] /\ broken' = broken
    BY DEF EndWait, net
  <1>2. App(r) /\ Joint(r, p, s, k, 0, broken) /\ DOMAIN r = RankFields /\ Whole(r)
    BY BothEnds
  <1> HIDE DEF r, p, k
  <1>3. /\ DOMAIN t = RankFields /\ SameGot(r, t) /\ SameList(r, t) /\ SameApp(r, t)
        /\ t.pending = r.pending /\ t.vi = r.vi
        /\ t.wire = r.wire /\ t.sent = r.sent /\ t.cq = r.cq /\ t.halt = r.halt
        /\ t.phase = "run" /\ t.status = r.status /\ t.state = r.state /\ t.cli = r.cli
        /\ t.srv = r.srv /\ t.cid = r.cid /\ t.fresh = r.fresh
    BY <1>2 DEF RankFields, SameGot, SameList, SameApp, SameSends
  <1> HIDE DEF t
  <1>4. SameData(r, t)
    BY <1>2, <1>3 DEF SameData, Whole, SameList, SameApp, SameSends
  <1>5. ~Client(t) /\ ~Fresh(t) /\ ~Seen(t) /\ ~Asked(t)
    BY <1>3 DEF Client, Fresh, Seen, Asked
  <1>6. (Server(t) <=> Server(r)) /\ (Up(t) <=> Up(r))
    BY <1>3 DEF Server, Up
  <1>7. NoPromise(r, t, p, broken)
    BY <1>2, <1>3, <1>5, <1>6 DEF NoPromise, Sending, Mute, Joint, Place
  <1>8. Joint(t, p, s, k, 0, broken)
    BY <1>2, <1>4, <1>7, JointStage
  <1>9. App(t) /\ Started(t) = s /\ Moves(r, t)
    BY <1>2, <1>3, AppSame
  <1> QED
    BY <1>1, <1>8, <1>9, MessagesStep DEF p, k, r

LEMMA EndPoolMessages ==
    ASSUME MInv, NEW e \in End, EndPool(e)
    PROVE  Messages(rank', broken') /\ Moved
  <1> DEFINE r == rank[e]
             p == rank[Peer(e)]
             w == [r EXCEPT !.phase = "wait", !.replies = 0]
             o == [w EXCEPT !.state = "none", !.status = "up", !.replies = 1]
             pkt == Packet("nfr_req", 0, o.expected, 0)
             t == IF r.status = "rec_d" THEN SendReconnect(o, "nfr_req") ELSE w
             s == Started(r)
             k == Started(p)
  <1>1. rank' = [rank EXCEPT ![e] = t] /\ broken' = broken
    BY DEF EndPool, net
  <1>2. /\ App(r) /\ Joint(r, p, s, k, 0, broken) /\ DOMAIN r = RankFields /\ Whole(r)
        /\ EndOk(r, broken) /\ Linked(e, r, p)
    BY BothEnds
  <1> HIDE DEF r, p, s, k
  <1>3. /\ DOMAIN w = RankFields /\ SameGot(r, w) /\ SameList(r, w) /\ SameApp(r, w)
        /\ w.pending = r.pending /\ w.vi = r.vi
        /\ w.wire = r.wire /\ w.sent = r.sent /\ w.cq = r.cq /\ w.halt = r.halt
        /\ w.phase = "wait" /\ w.replies = 0 /\ w.status = r.status /\ w.state = r.state
        /\ w.cli = r.cli /\ w.srv = r.srv /\ w.cid = r.cid /\ w.fresh = r.fresh
        /\ w.req = r.req
    BY <1>2 DEF RankFields, SameGot, SameList, SameApp, SameSends
  <1> HIDE DEF w
  <1>4. CASE r.status = "rec_d"
    <2>1. ~Up(r) /\ ~Client(r) /\ ~Server(r) /\ ~Fresh(r) /\ ~Asked(r)
      BY <1>4 DEF Up, Client, Server, Fresh, Asked
    <2>2. Waiting(r, p) /\ Seen(r)
      BY <1>2, <2>1 DEF Linked, Pair, Calm, Asking, Crossing, Serving, Waiting,
         Requesting, Replying
    <2>3. /\ DOMAIN o = RankFields /\ SameGot(r, o) /\ SameList(r, o) /\ SameApp(r, o)
          /\ o.pending = r.pending /\ o.vi = r.vi
          /\ o.wire = r.wire /\ o.sent = r.sent /\ o.cq = r.cq /\ o.halt = r.halt
          /\ o.phase = "wait" /\ o.replies = 1 /\ o.status = "up" /\ o.state = "none"
          /\ o.cli = r.cli /\ o.srv = r.srv /\ o.cid = r.cid /\ o.fresh = r.fresh
          /\ o.req = r.req
      BY <1>3 DEF RankFields, SameGot, SameList, SameApp, SameSends
    <2>4. t = IbvPostSend(o, pkt)
      BY <1>4 DEF SendReconnect
    <2> HIDE DEF o, t
    <2>5. SameData(r, o) /\ Whole(o)
      BY <1>2, <2>3 DEF SameData, Whole, SameList, SameApp, SameSends
    <2>6. Asked(o) /\ o.vi \notin broken
      BY <1>2, <2>2, <2>3 DEF Seen, Asked, OnNewQp, EndOk
    <2>7. /\ ~Sending(o, broken) /\ ~Client(o) /\ ~Server(o) /\ ~Fresh(o) /\ ~Seen(o) /\ ~Up(o)
          /\ Mute(r, p)
      BY <2>2, <2>6 DEF Sending, Client, Server, Fresh, Seen, Up, Asked, OnNewQp, Mute
    <2>8. ~Up(p) /\ ~Asked(p)
      BY <2>2 DEF Waiting, Server, Up, Asked, OnNewQp
    <2>9. NoPromise(r, o, p, broken)
      BY <2>1, <2>7, <2>8 DEF NoPromise, Mute
    <2>10. Joint(o, p, s, k, 0, broken)
      BY <1>2, <2>5, <2>9, JointStage
    <2>11. /\ Posts(o, t, pkt) /\ SameList(o, t) /\ SameApp(o, t) /\ t.pending = o.pending
      BY <2>4, <2>5, IbvPosts
    <2>12. Data(o, s)
      BY <2>10 DEF Joint
    <2>13. /\ PktOk(pkt) /\ AckOf(pkt) = 0 /\ pkt.type = "nfr_req" /\ pkt.ack = o.expected
           /\ NextMsg(pkt, s, s)
      <3>1. o.expected \in Nat
        <4>1. Len(o.got) \in Nat /\ FirstId \in Nat
          BY <2>12, DueType, RecoveryAssumption
        <4> QED
          BY <2>12, <4>1 DEF Data, InOrder
      <3> QED
        BY <3>1 DEF Packet, PktOk, AckOf, NextMsg
    <2> HIDE DEF pkt
    <2>14. Numbered(t, s) /\ Gone(t, s) = Gone(o, s)
      BY <2>11, <2>12 DEF Data, Numbered, SameList, Gone
    <2>15. o.pending \in Nat
      BY <2>12 DEF Data
    <2>16. t.pending \in Nat /\ t.pending + AckOf(pkt) = o.pending
      BY <2>11, <2>13, <2>15
    <2>17. Joint(t, p, s, k, 0, broken)
      BY <2>6, <2>10, <2>11, <2>13, <2>14, <2>16, PostsJoint
    <2>18. SameApp(r, t)
      BY <2>3, <2>11 DEF SameApp, SameSends
    <2>19. App(t) /\ Started(t) = s /\ Moves(r, t)
      BY <1>2, <2>18, AppSame DEF s
    <2> QED
      BY <1>1, <2>17, <2>19, MessagesStep DEF p, k, r
  <1>5. CASE r.status # "rec_d"
    <2>1. t = w
      BY <1>5
    <2> HIDE DEF t
    <2>2. SameData(r, w)
      BY <1>2, <1>3 DEF SameData, Whole, SameList, SameApp, SameSends
    <2>3. ~Client(w) /\ ~Fresh(w) /\ ~Seen(w) /\ ~Asked(w)
      BY <1>3 DEF Client, Fresh, Seen, Asked
    <2>4. (Server(w) <=> Server(r)) /\ (Up(w) <=> Up(r))
      BY <1>3 DEF Server, Up
    <2>5. NoPromise(r, w, p, broken)
      BY <1>2, <1>3, <2>3, <2>4 DEF NoPromise, Sending, Mute, Joint, Place
    <2>6. Joint(w, p, s, k, 0, broken)
      BY <1>2, <2>2, <2>5, JointStage
    <2>7. App(w) /\ Started(w) = s /\ Moves(r, w)
      BY <1>2, <1>3, AppSame DEF s
    <2> QED
      BY <1>1, <2>1, <2>6, <2>7, MessagesStep DEF p, k, r
  <1> QED
    BY <1>4, <1>5

\* The process that is asked takes the request, or leaves it.
LEMMA RequestTakes ==
    ASSUME NEW e \in End, NEW r, NEW p, EndOk(r, broken), EndOk(p, broken), Linked(e, r, p),
           Place(r, broken), Place(p, broken), p.req
    PROVE  /\ Client(p) \/ Server(p)
           /\ \/ Requested(r, e, Peer(e), p.cid) = r
              \/ /\ Requested(r, e, Peer(e), p.cid) = Accept(r, p.cid) /\ p.cid = r.vi + 1
                 /\ Up(r) \/ Client(r)
                 /\ r.vi \in broken
  <1> DEFINE t == Requested(r, e, Peer(e), p.cid)
  <1>1. r.vi \in Nat /\ p.vi \in Nat /\ e \in Nat /\ Peer(e) \in Nat
    BY DEF EndOk, End, Peer
  <1>2. \/ Asking(p, r) \/ Crossing(r, p) \/ Crossing(p, r)
        \/ Serving(e, r, p) \/ Serving(Peer(e), p, r)
    BY DEF Linked, Pair, Calm, Asking, Crossing, Serving, Waiting, Requesting,
       Replying, Fresh, Seen, Asked, OnNewQp
  <1>3. Client(p) \/ Server(p)
    BY <1>2 DEF Asking, Crossing, Serving
  <1>4. CASE Asking(p, r)
    <2>1. Up(r) /\ p.cid = r.vi + 1 /\ r.cid = r.vi /\ Client(p) /\ p.vi = r.vi
      BY <1>4 DEF Asking, Up, Client
    <2>2. t = Accept(r, p.cid)
      BY <1>1, <2>1 DEF Requested, Up
    <2>3. r.vi \in broken
      BY <2>1 DEF Place
    <2> QED
      BY <1>3, <2>1, <2>2, <2>3
  <1>5. CASE Crossing(r, p) \/ Crossing(p, r)
    <2>1. Client(r) /\ p.cid = r.cid /\ r.cid = r.vi + 1
      BY <1>5 DEF Crossing, Client
    <2>2. t = IF Peer(e) < e THEN Accept(r, p.cid) ELSE r
      BY <2>1 DEF Requested, YieldsTo, Client
    <2>3. r.vi \in broken
      BY <2>1 DEF Place
    <2> QED
      BY <1>3, <2>1, <2>2, <2>3
  <1>6. CASE Serving(e, r, p)
    <2>1. Client(r) /\ Server(p) /\ p.cid = r.cid /\ e < Peer(e)
      BY <1>6 DEF Serving
    <2>2. t = r
      BY <1>1, <2>1 DEF Requested, YieldsTo, Client
    <2> QED
      BY <1>3, <2>2
  <1>7. CASE Serving(Peer(e), p, r)
    <2>1. Server(r) /\ p.cid = r.cid /\ r.cid = r.vi + 1
      BY <1>7 DEF Serving, Server
    <2>2. r.cid >= p.cid
      BY <1>1, <2>1
    <2>3. t = r
      BY <2>1, <2>2 DEF Requested, Server
    <2> QED
      BY <1>3, <2>3
  <1> QED
    BY <1>2, <1>4, <1>5, <1>6, <1>7

LEMMA AcceptJoint ==
    ASSUME NEW r, NEW p, NEW s, NEW k, Joint(r, p, s, k, 0, broken),
           Up(r) \/ Client(r), r.vi \in broken, Client(p) \/ Server(p),
           NEW c, c = r.vi + 1, NEW t, t = Accept(r, c)
    PROVE  Joint(t, p, s, k, 0, broken) /\ SameApp(r, t)
  <1>1. Whole(r) /\ DOMAIN r = RankFields
    BY DEF Joint, Data, Whole
  <1>2. /\ DOMAIN t = RankFields /\ SameGot(r, t) /\ SameList(r, t) /\ SameApp(r, t)
        /\ t.pending = r.pending /\ t.vi = r.vi
        /\ t.wire = r.wire /\ t.sent = r.sent /\ t.cq = r.cq /\ t.halt = r.halt
        /\ t.state = "none" /\ t.srv = "requested"
    BY <1>1 DEF Accept, RankFields, SameGot, SameList, SameApp, SameSends
  <1>3. SameData(r, t)
    BY <1>1, <1>2 DEF SameData, Whole, SameList, SameApp, SameSends
  <1>4. ~Sending(t, broken) /\ ~Fresh(t) /\ ~Seen(t) /\ ~Asked(t) /\ ~Up(t) /\ ~Server(r)
    BY <1>2 DEF Sending, Fresh, Seen, Asked, OnNewQp, Up, Server, Client
  <1>5. ~Asked(p)
    BY DEF Asked, OnNewQp, Client, Server
  <1>6. NoPromise(r, t, p, broken)
    BY <1>2, <1>4, <1>5 DEF NoPromise, Mute
  <1>7. Joint(t, p, s, k, 0, broken)
    BY <1>3, <1>6, JointStage
  <1> QED
    BY <1>2, <1>7

LEMMA ResendJoint ==
    ASSUME NEW r, NEW p, NEW s, NEW k, Joint(r, p, s, k, 0, broken),
           Client(r) \/ Server(r), NEW t, t = [r EXCEPT !.req = (r.cli = "requesting")]
    PROVE  Joint(t, p, s, k, 0, broken) /\ SameApp(r, t)
  <1> DEFINE c == (r.cli = "requesting")
  <1>1. Whole(r) /\ DOMAIN r = RankFields
    BY DEF Joint, Data, Whole
  <1>2. t = [r EXCEPT !.req = c]
    OBVIOUS
  <1> HIDE DEF c
  <1>3. /\ DOMAIN t = RankFields /\ SameGot(r, t) /\ SameList(r, t) /\ SameApp(r, t)
        /\ t.pending = r.pending /\ t.vi = r.vi
        /\ t.wire = r.wire /\ t.sent = r.sent /\ t.cq = r.cq /\ t.halt = r.halt
        /\ t.phase = r.phase /\ t.status = r.status /\ t.state = r.state /\ t.cli = r.cli
        /\ t.srv = r.srv /\ t.cid = r.cid /\ t.fresh = r.fresh
    BY <1>1, <1>2 DEF RankFields, SameGot, SameList, SameApp, SameSends
  <1>4. SameData(r, t)
    BY <1>1, <1>3 DEF SameData, Whole, SameList, SameApp, SameSends
  <1>5. (Client(t) <=> Client(r)) /\ (Server(t) <=> Server(r)) /\ (Up(t) <=> Up(r))
    BY <1>3 DEF Client, Server, Up
  <1>6. ~Fresh(t) /\ ~Seen(t) /\ ~Asked(t)
    BY <1>5 DEF Fresh, Seen, Asked, OnNewQp, Client, Server
  <1>7. NoPromise(r, t, p, broken)
    BY <1>3, <1>5, <1>6 DEF NoPromise, Mute, Sending, Joint, Place
  <1>8. Joint(t, p, s, k, 0, broken)
    BY <1>4, <1>7, JointStage
  <1> QED
    BY <1>3, <1>8

LEMMA CmRequestMessages ==
    ASSUME MInv, NEW e \in End, CmRequest(e)
    PROVE  Messages(rank', broken') /\ Moved
  <1> DEFINE r == rank[e]
             p == rank[Peer(e)]
             c == p.cid
             t == Requested(r, e, Peer(e), c)
             u == [p EXCEPT !.req = (p.cli = "requesting")]
             s == Started(r)
             k == Started(p)
  <1>1. p.req /\ broken' = broken
    BY DEF CmRequest, net
  <1>2. rank' = [rank EXCEPT ![e] = t, ![Peer(e)] = u]
    <2>1. IInv
      BY DEF MInv
    <2> QED
      BY <2>1, TwoEnds DEF CmRequest
  <1>3. /\ App(r) /\ App(p) /\ Joint(r, p, s, k, 0, broken)
        /\ EndOk(r, broken) /\ EndOk(p, broken) /\ Linked(e, r, p)
    BY BothEnds
  <1> HIDE DEF r, p, s, k
  <1>4. /\ Client(p) \/ Server(p)
        /\ \/ t = r
           \/ t = Accept(r, c) /\ c = r.vi + 1 /\ (Up(r) \/ Client(r)) /\ r.vi \in broken
    BY <1>1, <1>3, RequestTakes DEF Joint
  <1> HIDE DEF t, c
  <1>5. Joint(t, p, s, k, 0, broken) /\ SameApp(r, t)
    <2>1. CASE t = r
      BY <1>3, <2>1 DEF SameApp, SameSends
    <2>2. CASE t # r
      BY <1>3, <1>4, <2>2, AcceptJoint
    <2> QED
      BY <2>1, <2>2
  <1>6. Joint(p, t, k, s, 0, broken)
    BY <1>5, JointBack
  <1>7. Joint(u, t, k, s, 0, broken) /\ SameApp(p, u)
    BY <1>4, <1>6, ResendJoint
  <1> HIDE DEF u
  <1>8. Joint(t, u, s, k, 0, broken)
    BY <1>7, JointBack
  <1>9. App(t) /\ App(u) /\ Started(t) = s /\ Started(u) = k
    BY <1>3, <1>5, <1>7, AppSame DEF s, k
  <1>10. Moves(r, t) /\ Rests(p, u)
    BY <1>3, <1>5, <1>7, AppSame
  <1> QED
    BY <1>1, <1>2, <1>8, <1>9, <1>10, MessagesBoth DEF r, p

\* cm_enable leaves nothing of the queue pair that failed.
LEMMA ReplyJoint ==
    ASSUME NEW r, NEW p, NEW s, NEW k, Joint(r, p, s, k, 0, broken), Client(r), Server(p),
           p.vi = r.vi,
           NEW t, t = [ReEnable(r) EXCEPT !.cli = "idle", !.req = FALSE, !.fresh = TRUE]
    PROVE  Joint(t, p, s, k, 0, broken) /\ SameApp(r, t)
  <1> DEFINE e == << >>
             z == 0
             c == TRUE
             f == FALSE
             o == ReEnable(r)
             n == Len(p.got)
             m == Len(r.got)
  <1>1. /\ Whole(r) /\ DOMAIN r = RankFields /\ Data(r, s) /\ Data(p, k) /\ Place(r, broken)
        /\ Place(p, broken) /\ Flow(r, p, s, 0, broken) /\ Flow(p, r, k, 0, broken)
    BY DEF Joint, Data, Whole
  <1>2. /\ r.vi \in broken /\ r.wire = e /\ p.wire = e /\ ~Server(r)
    BY <1>1 DEF Place, Client, Server
  <1>3. \A i \in DOMAIN r.cq : r.cq[i].qp = r.vi
    BY <1>1, <1>2 DEF Place
  <1>4. /\ DOMAIN o = RankFields /\ o.wire = e /\ o.sent = e /\ o.cq = e
        /\ o.pending = z /\ o.vi = r.cid
        /\ \A x \in RankFields \ {"wire", "sent", "cq", "pending", "vi", "status"} : o[x] = r[x]
    BY <1>1, <1>3, ReEnabledData
  <1>5. t = [o EXCEPT !.cli = "idle", !.req = f, !.fresh = c]
    OBVIOUS
  <1> HIDE DEF o, c, f
  <1>6. /\ DOMAIN t = RankFields /\ t.wire = e /\ t.sent = e /\ t.cq = e /\ t.pending = z
        /\ t.vi = r.cid /\ t.cli = "idle" /\ t.fresh = c /\ t.halt = r.halt
        /\ t.state = r.state /\ t.srv = r.srv
        /\ SameGot(r, t) /\ SameList(r, t) /\ SameApp(r, t)
    <2>1. /\ DOMAIN t = RankFields /\ t.cli = "idle" /\ t.fresh = c
          /\ \A x \in RankFields \ {"cli", "req", "fresh"} : t[x] = o[x]
      <3>1. DOMAIN o = RankFields
        BY <1>4
      <3>2. DOMAIN t = RankFields
        BY <1>5, <3>1
      <3>0. {"cli", "req", "fresh"} \subseteq RankFields
        BY DEF RankFields
      <3>3. t.cli = "idle" /\ t.fresh = c
        BY <1>5, <3>0, <3>1
      <3>4. \A x \in RankFields \ {"cli", "req", "fresh"} : t[x] = o[x]
        BY <1>5, <3>1
      <3> QED
        BY <3>2, <3>3, <3>4
    <2>2. /\ t.wire = o.wire /\ t.sent = o.sent /\ t.cq = o.cq /\ t.pending = o.pending
          /\ t.vi = o.vi /\ t.halt = o.halt /\ t.state = o.state /\ t.srv = o.srv
          /\ SameGot(o, t) /\ SameList(o, t) /\ SameApp(o, t)
      <3>1. /\ t.wire = o.wire /\ t.sent = o.sent /\ t.cq = o.cq /\ t.pending = o.pending
            /\ t.vi = o.vi /\ t.halt = o.halt /\ t.state = o.state /\ t.srv = o.srv
        <4>1. {"wire", "sent", "cq", "pending", "vi", "halt", "state", "srv"}
              \subseteq RankFields \ {"cli", "req", "fresh"}
          BY DEF RankFields
        <4> QED
          BY <2>1, <4>1
      <3>2. SameGot(o, t)
        BY <2>1 DEF RankFields, SameGot
      <3>3. SameList(o, t) /\ SameApp(o, t)
        BY <2>1, ZenonT(60) DEF RankFields, SameList, SameApp, SameSends
      <3> QED
        BY <3>1, <3>2, <3>3
    <2>3. /\ o.halt = r.halt /\ o.state = r.state /\ o.srv = r.srv
          /\ SameGot(r, o) /\ SameList(r, o) /\ SameApp(r, o)
      BY <1>4 DEF RankFields, SameGot, SameList, SameApp, SameSends
    <2> QED
      BY <1>4, <2>1, <2>2, <2>3 DEF SameGot, SameList, SameApp, SameSends
  <1>7. t.state = "none" /\ t.srv = "idle" /\ t.fresh
    BY <1>6 DEF Client, c
  <1>8. ~Sending(t, broken) /\ ~Client(t) /\ ~Server(t) /\ ~Asked(t) /\ ~Up(t)
    BY <1>7 DEF Sending, Client, Server, Asked, Up
  <1>9. ~Sending(p, broken) /\ ~Fresh(p) /\ ~Seen(p) /\ ~Asked(p) /\ ~Up(p)
    BY DEF Sending, Server, Fresh, Seen, Asked, OnNewQp, Up
  <1>10. IsSeq(e) /\ DOMAIN e = {} /\ Acks(e) = 0 /\ Pkts(e) = e
    BY NoElements, AcksNone, PktsNone
  <1>11. \A j \in Nat : Carries(e, j, j)
    BY CarriesNone
  <1> HIDE DEF e
  <1>12. Whole(t)
    <2>1. Completions(e)
      BY <1>10 DEF Completions
    <2> QED
      BY <1>1, <1>6, <1>10, <2>1 DEF Whole, SameList, SameApp, SameSends
  <1>13. t.expected = r.expected /\ t.got = r.got /\ t.tosend = r.tosend
         /\ t.waiting = r.waiting
    BY <1>6 DEF SameGot, SameList
  <1>14. Data(t, s)
    <2>1. Pile(e)
      BY <1>10 DEF Pile
    <2>2. Pipes(t)
      BY <1>6, <1>10, <2>1 DEF Pipes
    <2>3. NoRendezvous(t) /\ InOrder(t) /\ Numbered(t, s) /\ t.halt = "no"
      BY <1>1, <1>6, <1>13 DEF Data, NoRendezvous, InOrder, Numbered, SameGot
    <2>4. CallsTell(t.wire, t.expected)
      BY <1>6, <1>10 DEF CallsTell
    <2>5. t.pending \in Nat
      BY <1>6
    <2> QED
      BY <1>12, <2>2, <2>3, <2>4, <2>5 DEF Data
  <1>15. Place(t, broken)
    BY <1>6, <1>8, <1>10 DEF Place
  <1>16. /\ Due(p, t) \in Nat /\ Due(p, r) \in Nat /\ Due(p, t) <= Due(p, r)
         /\ Due(t, p) \in Nat /\ Due(r, p) \in Nat /\ Due(t, p) <= Due(r, p)
    <2>1. /\ r.pending \in Nat /\ Acks(r.wire) \in Nat /\ Acks(Pkts(p.cq)) \in Nat
      BY <1>1, DueType
    <2>2. /\ p.pending \in Nat /\ Acks(p.wire) \in Nat /\ Acks(Pkts(r.cq)) \in Nat
      BY <1>1, DueType
    <2> DEFINE a == Acks(Pkts(p.cq))
               b == Acks(Pkts(r.cq))
               g == p.pending + Acks(p.wire)
               h == r.pending + Acks(r.wire)
    <2>3. a \in Nat /\ b \in Nat /\ g \in Nat /\ h \in Nat
      BY <2>1, <2>2
    <2>4. Due(p, t) = g + 0 /\ Due(p, r) = g + b
      BY <1>6, <1>10 DEF Due
    <2>5. Due(t, p) = (0 + 0) + a /\ Due(r, p) = h + a
      BY <1>6, <1>10 DEF Due
    <2> HIDE DEF a, b, g, h
    <2> QED
      BY <2>3, <2>4, <2>5
  <1>17. n \in Nat /\ m \in Nat /\ Gone(r, s) \in Nat /\ Gone(p, k) \in Nat /\ k \in Nat
         /\ Gone(t, s) = Gone(r, s) /\ Len(t.got) = m
    <2>1. m \in Nat /\ Gone(r, s) \in Nat
      BY <1>1, DueType
    <2>2. n \in Nat /\ Gone(p, k) \in Nat /\ k \in Nat
      BY <1>1, DueType
    <2> QED
      BY <1>13, <2>1, <2>2 DEF Gone
  <1>18. Flow(t, p, s, 0, broken)
    <2>1. Reached(t, p, s)
      BY <1>1, <1>17 DEF Flow, Reached
    <2>2. Streams(t, p, s, broken)
      <3>1. \A j : Stream(r, p, j) => Stream(t, p, j)
        BY <1>2, <1>6 DEF Stream
      <3> QED
        BY <1>1, <1>8, <3>1 DEF Flow, Streams
    <2>3. Owes(t, p, s, 0, broken)
      <3>1. 0 + Due(p, r) <= Len(p.got) - Gone(r, s)
        BY <1>1 DEF Flow, Owes
      <3>2. 0 + Due(p, t) <= n - Gone(t, s)
        <4> HIDE DEF n
        <4> QED
          BY <1>16, <1>17, <3>1 DEF n
      <3> QED
        BY <1>8, <3>2 DEF Owes
    <2>4. Stalls(t, p, 0)
      <3>1. CallsTell(Pkts(p.cq), t.expected)
        BY <1>1, <1>13 DEF Flow, Stalls
      <3> QED
        BY <1>6, <1>8, <1>10, <3>1 DEF Stalls, e
    <2> QED
      BY <2>1, <2>2, <2>3, <2>4 DEF Flow
  <1>19. Flow(p, t, k, 0, broken)
    <2>1. Reached(p, t, k) /\ m <= k
      BY <1>1, <1>13, <1>17 DEF Flow, Reached
    <2>2. Streams(p, t, k, broken)
      <3>1. m \in 0 .. k
        BY <1>17, <2>1
      <3>2. Stream(p, t, m)
        <4>1. Carries(e, m, m)
          BY <1>11, <1>17
        <4> QED
          BY <1>2, <1>6, <1>10, <1>17, <4>1 DEF Stream
      <3> QED
        BY <1>9, <3>1, <3>2 DEF Streams
    <2>3. Owes(p, t, k, 0, broken)
      <3>1. 0 + Due(r, p) <= m - Gone(p, k)
        BY <1>1 DEF Flow, Owes
      <3>2. 0 + Due(t, p) <= Len(t.got) - Gone(p, k)
        <4> HIDE DEF m
        <4> QED
          BY <1>16, <1>17, <3>1
      <3> QED
        BY <1>9, <3>2 DEF Owes
    <2>4. Stalls(p, t, 0)
      <3>1. CallsTell(Pkts(t.cq), p.expected)
        BY <1>6, <1>10 DEF CallsTell
      <3> QED
        BY <1>9, <3>1 DEF Stalls, Mute
    <2> QED
      BY <2>1, <2>2, <2>3, <2>4 DEF Flow
  <1>20. Joint(t, p, s, k, 0, broken)
    BY <1>1, <1>14, <1>15, <1>18, <1>19 DEF Joint
  <1> QED
    BY <1>6, <1>20

LEMMA CmReplyMessages ==
    ASSUME MInv, NEW e \in End, CmReply(e)
    PROVE  Messages(rank', broken') /\ Moved
  <1> DEFINE r == rank[e]
             p == rank[Peer(e)]
             t == [ReEnable(r) EXCEPT !.cli = "idle", !.req = FALSE, !.fresh = TRUE]
             s == Started(r)
             k == Started(p)
  <1>1. /\ rank' = [rank EXCEPT ![e] = t] /\ broken' = broken
        /\ p.srv = "requested" /\ r.cli = "requesting"
    BY DEF CmReply, net
  <1>2. /\ App(r) /\ Joint(r, p, s, k, 0, broken) /\ EndOk(r, broken) /\ EndOk(p, broken)
        /\ Linked(e, r, p)
    BY BothEnds
  <1> HIDE DEF r, p, k
  <1>3. Serving(e, r, p)
    BY <1>1, <1>2 DEF Linked, Pair, Calm, Asking, Crossing, Serving, Waiting, Requesting,
       Replying, Fresh, Seen, Asked, OnNewQp, Up, Client, Server
  <1>4. Client(r) /\ Server(p) /\ p.vi = r.vi
    <2>1. Client(r) /\ Server(p) /\ r.cid = p.cid /\ r.cid = r.vi + 1 /\ p.cid = p.vi + 1
      BY <1>3 DEF Serving, Client, Server
    <2>2. r.vi \in Nat /\ p.vi \in Nat
      BY <1>2 DEF EndOk
    <2>3. r.vi + 1 = p.vi + 1
      BY <2>1
    <2> DEFINE x == r.vi
               y == p.vi
    <2>4. x = y
      <3>1. x + 1 = y + 1 /\ x \in Nat /\ y \in Nat
        BY <2>2, <2>3
      <3> HIDE DEF x, y
      <3> QED
        BY <3>1
    <2> QED
      BY <2>1, <2>4
  <1>5. Joint(t, p, s, k, 0, broken) /\ SameApp(r, t)
    <2>1. t = [ReEnable(r) EXCEPT !.cli = "idle", !.req = FALSE, !.fresh = TRUE]
      OBVIOUS
    <2> HIDE DEF s, t
    <2> QED
      BY <1>2, <1>4, <2>1, ReplyJoint
  <1> HIDE DEF t
  <1>6. App(t) /\ Started(t) = s /\ Moves(r, t)
    BY <1>2, <1>5, AppSame
  <1> QED
    BY <1>1, <1>5, <1>6, MessagesStep DEF p, k, r

-----------------------------------------------------------------------------
(* A packet lands.                                                          *)

\* The sender and the receiver of the packet, before and after
Sheds(r, t) ==
    /\ Whole(t) /\ SameStage(r, t) /\ SameGot(r, t) /\ SameList(r, t) /\ SameApp(r, t)
    /\ t.pending = r.pending /\ t.halt = r.halt /\ t.vi = r.vi
    /\ t.wire = Tail(r.wire) /\ t.sent = Append(r.sent, Head(r.wire)) /\ t.cq = r.cq
Hears(p, u, x) ==
    /\ Whole(u) /\ SameStage(p, u) /\ SameGot(p, u) /\ SameList(p, u) /\ SameApp(p, u)
    /\ u.pending = p.pending /\ u.halt = p.halt /\ u.vi = p.vi
    /\ u.wire = p.wire /\ u.sent = p.sent /\ u.cq = Append(p.cq, x)

LEMMA ShedsIs ==
    ASSUME NEW r, Whole(r), r.wire # << >>,
           NEW t, t = [r EXCEPT !.wire = Tail(@), !.sent = Append(@, Head(r.wire))]
    PROVE  Sheds(r, t)
  <1> DEFINE w == Tail(r.wire)
             n == Append(r.sent, Head(r.wire))
  <1>1. t = [r EXCEPT !.wire = w, !.sent = n] /\ DOMAIN r = RankFields
    BY DEF Whole
  <1>2. IsSeq(w)
    BY TailSeq DEF Whole
  <1> HIDE DEF w, n
  <1>3. /\ DOMAIN t = RankFields /\ SameStage(r, t) /\ SameGot(r, t) /\ SameList(r, t)
        /\ SameApp(r, t) /\ t.pending = r.pending /\ t.halt = r.halt /\ t.vi = r.vi
        /\ t.wire = w /\ t.sent = n /\ t.cq = r.cq
    <2>1. /\ DOMAIN t = RankFields /\ t.pending = r.pending /\ t.halt = r.halt
          /\ t.vi = r.vi /\ t.wire = w /\ t.sent = n /\ t.cq = r.cq
      BY <1>1, ZenonT(60) DEF RankFields
    <2>2. SameStage(r, t)
      BY <1>1 DEF RankFields, SameStage
    <2>3. SameGot(r, t) /\ SameList(r, t) /\ SameApp(r, t)
      BY <1>1 DEF RankFields, SameGot, SameList, SameApp, SameSends
    <2> QED
      BY <2>1, <2>2, <2>3
  <1>4. Whole(t)
    BY <1>2, <1>3 DEF Whole, SameApp, SameSends, SameList
  <1> QED
    BY <1>3, <1>4 DEF Sheds, w, n

LEMMA HearsIs ==
    ASSUME NEW p, Whole(p), NEW x, x.what = "recv", NEW u, u = [p EXCEPT !.cq = Append(@, x)]
    PROVE  Hears(p, u, x)
  <1> DEFINE q == Append(p.cq, x)
  <1>1. u = [p EXCEPT !.cq = q] /\ DOMAIN p = RankFields
    BY DEF Whole
  <1>2. Completions(q)
    BY CompletionsAppend DEF Whole
  <1> HIDE DEF q
  <1>3. /\ DOMAIN u = RankFields /\ SameStage(p, u) /\ SameGot(p, u) /\ SameList(p, u)
        /\ SameApp(p, u) /\ u.pending = p.pending /\ u.halt = p.halt /\ u.vi = p.vi
        /\ u.wire = p.wire /\ u.sent = p.sent /\ u.cq = q
    BY <1>1 DEF RankFields, SameStage, SameGot, SameList, SameApp, SameSends
  <1>4. Whole(u)
    BY <1>2, <1>3 DEF Whole, SameApp, SameSends, SameList
  <1> QED
    BY <1>3, <1>4 DEF Hears, q

\* A packet lands at a process that is not about to reconnect as a client; on
\* a queue pair that the process does not use yet, it is a call.
LEMMA LandsWhere ==
    ASSUME NEW e \in End, NEW r, NEW p, NEW s, NEW k, Joint(r, p, s, k, 0, broken),
           EndOk(r, broken), EndOk(p, broken), Linked(e, r, p),
           r.wire # << >>, r.vi \in {p.vi, p.cid}
    PROVE  /\ r.vi \notin broken /\ ~Mute(p, r) /\ ~Fresh(r) /\ ~Seen(r)
           /\ r.vi = p.vi \/ (Server(p) /\ \A i \in DOMAIN r.wire : r.wire[i].type = "nfr_req")
  <1>1. /\ Place(r, broken) /\ Place(p, broken) /\ Stalls(r, p, 0)
    BY DEF Joint, Flow
  <1>2. r.vi \notin broken /\ ~Client(r) /\ ~Server(r)
    BY <1>1 DEF Place
  <1>3. ~Fresh(r) /\ ~Seen(r)
    BY <1>1 DEF Stalls
  <1>4. r.vi \in Nat /\ p.vi \in Nat
    BY DEF EndOk
  <1>5. \/ Calm(r, p) \/ Calm(p, r) \/ Asking(p, r) \/ Requesting(r, p)
        \/ Replying(r, p) \/ Replying(p, r)
    BY <1>2, <1>3 DEF Linked, Pair, Asking, Crossing, Serving, Waiting, Requesting
  <1>6. ~Mute(p, r)
    <2>1. ~Fresh(p) /\ ~Seen(p)
      BY <1>5 DEF Calm, Asking, Requesting, Replying, Fresh, Seen, Asked, OnNewQp, Up, Client,
         Server
    <2> QED
      BY <1>2, <2>1 DEF Mute
  <1>7. \/ Up(p) \/ Client(p) \/ Asked(p)
        \/ Asked(r) /\ Server(p)
    BY <1>5 DEF Calm, Asking, Requesting, Replying
  <1>8. CASE Up(p) \/ Asked(p)
    <2>1. p.cid = p.vi
      BY <1>8 DEF Up, Asked, OnNewQp
    <2> QED
      BY <1>2, <1>3, <1>6, <2>1
  <1>9. CASE Client(p)
    <2>1. Asking(p, r)
      BY <1>5, <1>9 DEF Calm, Requesting, Replying, Up, Server, Asked, OnNewQp, Client
    <2>2. r.vi = p.vi
      BY <2>1 DEF Asking
    <2> QED
      BY <1>2, <1>3, <1>6, <2>2
  <1>10. CASE Asked(r) /\ Server(p)
    <2>1. Mute(r, p)
      BY <1>10 DEF Mute
    <2>2. \A i \in DOMAIN r.wire : r.wire[i].type = "nfr_req"
      BY <1>1, <2>1 DEF Stalls
    <2> QED
      BY <1>2, <1>3, <1>6, <1>10, <2>2
  <1> QED
    BY <1>7, <1>8, <1>9, <1>10

LEMMA LandedJoint ==
    ASSUME NEW e \in End, NEW r, NEW p, NEW s, NEW k, Joint(r, p, s, k, 0, broken),
           EndOk(r, broken), EndOk(p, broken), Linked(e, r, p),
           r.wire # << >>, r.vi \in {p.vi, p.cid},
           NEW x, x.what = "recv", x.qp = r.vi, x.pkt = Head(r.wire),
           NEW t, Sheds(r, t), NEW u, Hears(p, u, x)
    PROVE  Joint(t, u, s, k, 0, broken)
  <1> DEFINE pkt == Head(r.wire)
             w == Tail(r.wire)
             v == Pkts(p.cq)
             q == Append(v, pkt)
  <1>1. /\ r.vi \notin broken /\ ~Mute(p, r) /\ ~Fresh(r) /\ ~Seen(r)
        /\ r.vi = p.vi \/ (Server(p) /\ \A i \in DOMAIN r.wire : r.wire[i].type = "nfr_req")
    BY LandsWhere
  <1>2. /\ Data(r, s) /\ Data(p, k) /\ Place(r, broken) /\ Place(p, broken)
        /\ Flow(r, p, s, 0, broken) /\ Flow(p, r, k, 0, broken)
    BY DEF Joint
  <1>3. /\ t.pending = r.pending /\ t.halt = r.halt /\ t.vi = r.vi /\ t.wire = w
        /\ t.sent = Append(r.sent, pkt) /\ t.cq = r.cq /\ Whole(t) /\ SameStage(r, t)
        /\ t.got = r.got /\ t.expected = r.expected /\ t.state = r.state /\ SameGot(r, t)
        /\ SameList(r, t) /\ t.waiting = r.waiting
    BY DEF Sheds, SameGot, SameList, SameStage
  <1>4. /\ u.pending = p.pending /\ u.halt = p.halt /\ u.vi = p.vi /\ u.wire = p.wire
        /\ u.sent = p.sent /\ u.cq = Append(p.cq, x) /\ Whole(u) /\ SameStage(p, u)
        /\ u.got = p.got /\ u.expected = p.expected /\ u.state = p.state /\ SameGot(p, u)
        /\ SameList(p, u) /\ u.waiting = p.waiting
    BY DEF Hears, SameGot, SameList, SameStage
  <1>5. /\ Pile(w) /\ Acks(r.wire) = AckOf(pkt) + Acks(w) /\ PktOk(pkt)
        /\ Acks(w) \in Nat /\ AckOf(pkt) \in Nat /\ IsSeq(r.wire)
    BY <1>2, PileTail DEF Data, Pipes, Pile
  <1>6. /\ Pkts(u.cq) = q
        /\ Pile(v) /\ IsSeq(v) /\ Pile(q) /\ Acks(q) = Acks(v) + AckOf(pkt) /\ Acks(v) \in Nat
    <2>1. PktIn(x) = pkt
      BY DEF PktIn
    <2>2. IsSeq(p.cq) /\ Pile(v)
      BY <1>2 DEF Data, Whole, Completions, Pipes
    <2>3. Pkts(u.cq) = q
      <3>1. Pkts(Append(p.cq, x)) = Append(v, PktIn(x))
        BY <2>2, PktsAppend
      <3> QED
        BY <1>4, <2>1, <3>1
    <2>4. Pile(q) /\ Acks(q) = Acks(v) + AckOf(pkt)
      BY <1>5, <2>2, PileAppend
    <2> QED
      BY <2>2, <2>3, <2>4, AcksType DEF Pile
  <1>7. \A i \in DOMAIN w : \E j \in DOMAIN r.wire : w[i] = r.wire[j]
    BY <1>5, TailSeq
  <1>8. \E j \in DOMAIN r.wire : pkt = r.wire[j]
    BY <1>5, TailSeq
  <1> HIDE DEF q, v, w, pkt
  <1>9. Data(t, s)
    <2>1. Pipes(t)
      BY <1>2, <1>3, <1>5, PileAppend DEF Data, Pipes
    <2>2. CallsTell(t.wire, t.expected)
      BY <1>2, <1>3, <1>7 DEF Data, CallsTell
    <2> QED
      BY <1>2, <1>3, <2>1, <2>2 DEF Data, SameGot, SameList, NoRendezvous, InOrder, Numbered
  <1>10. /\ DOMAIN u.cq = DOMAIN p.cq \cup {Len(p.cq) + 1}
         /\ \A i \in DOMAIN p.cq : u.cq[i] = p.cq[i]
         /\ u.cq[Len(p.cq) + 1] = x
    <2>1. IsSeq(p.cq)
      BY <1>2 DEF Data, Whole, Completions
    <2> QED
      BY <1>4, <2>1, AppendSeq
  <1>11. Data(u, k)
    <2>1. Pipes(u)
      BY <1>2, <1>4, <1>6, <1>10 DEF Data, Pipes
    <2> QED
      BY <1>2, <1>4, <2>1 DEF Data, SameGot, SameList, NoRendezvous, InOrder, Numbered
  <1>12. /\ (Client(t) <=> Client(r)) /\ (Server(t) <=> Server(r)) /\ (Up(t) <=> Up(r))
         /\ (Fresh(t) <=> Fresh(r)) /\ (Seen(t) <=> Seen(r)) /\ (Asked(t) <=> Asked(r))
    BY <1>3 DEF SameStage, Client, Server, Up, Fresh, Seen, Asked, OnNewQp
  <1>13. /\ (Client(u) <=> Client(p)) /\ (Server(u) <=> Server(p)) /\ (Up(u) <=> Up(p))
         /\ (Fresh(u) <=> Fresh(p)) /\ (Seen(u) <=> Seen(p)) /\ (Asked(u) <=> Asked(p))
    BY <1>4 DEF SameStage, Client, Server, Up, Fresh, Seen, Asked, OnNewQp
  <1>14. Place(t, broken)
    BY <1>1, <1>2, <1>3, <1>12 DEF Place
  <1>15. Place(u, broken)
    <2>1. ASSUME NEW i \in DOMAIN u.cq
          PROVE  \/ u.cq[i].qp = u.vi
                 \/ Server(u) /\ u.cq[i].what = "recv" /\ u.cq[i].pkt.type = "nfr_req"
      <3>1. CASE i \in DOMAIN p.cq
        BY <1>2, <1>4, <1>10, <1>13, <3>1 DEF Place
      <3>2. CASE i = Len(p.cq) + 1
        BY <1>1, <1>4, <1>8, <1>10, <1>13, <3>2 DEF pkt
      <3> QED
        BY <1>10, <3>1, <3>2
    <2>2. /\ u.vi \in broken => u.wire = << >>
          /\ Client(u) \/ Server(u) => u.vi \in broken
      BY <1>2, <1>4, <1>13 DEF Place
    <2> QED
      BY <2>1, <2>2 DEF Place
  <1>16. Due(t, u) = Due(r, p) /\ Due(u, t) = Due(p, r)
    <2> DEFINE a == Acks(w)
               b == Acks(v)
               c == AckOf(pkt)
               n == r.pending
    <2>1. a \in Nat /\ b \in Nat /\ c \in Nat /\ n \in Nat
      BY <1>2, <1>5, <1>6 DEF Data
    <2>2. Due(t, u) = n + a + (b + c) /\ Due(r, p) = n + (c + a) + b
      BY <1>3, <1>5, <1>6 DEF Due, v
    <2>3. Due(u, t) = Due(p, r)
      BY <1>3, <1>4 DEF Due
    <2> HIDE DEF a, b, c, n
    <2> QED
      BY <2>1, <2>2, <2>3
  <1>17. ASSUME NEW j, Stream(r, p, j) PROVE Stream(t, u, j)
    <2>1. PICK i \in Nat : Carries(v, Len(p.got), i) /\ Carries(r.wire, i, j)
      BY <1>17 DEF Stream, v
    <2>2. PICK l \in Nat : NextMsg(pkt, i, l) /\ Carries(w, l, j)
      BY <1>5, <2>1, CarriesTail DEF pkt, w
    <2>3. Carries(q, Len(p.got), l)
      BY <1>6, <2>1, <2>2, CarriesAppend DEF q
    <2> QED
      BY <1>3, <1>4, <1>6, <2>2, <2>3 DEF Stream
  <1>18. \A j : Stream(p, r, j) => Stream(u, t, j)
    BY <1>3, <1>4 DEF Stream
  <1>19. Flow(t, u, s, 0, broken)
    <2>1. Reached(t, u, s) /\ Streams(t, u, s, broken) /\ Owes(t, u, s, 0, broken)
      BY <1>2, <1>3, <1>4, <1>16, <1>17 DEF Flow, Reached, Streams, Owes, Sending, Gone
    <2>2. CallsTell(Pkts(u.cq), t.expected)
      <3>1. CallsTell(v, r.expected)
        BY <1>2 DEF Flow, Stalls, v
      <3>2. pkt.type \in Call => pkt.ack = r.expected
        BY <1>2, <1>8 DEF Data, CallsTell
      <3>3. CallsTell(q, r.expected)
        BY <1>6, <3>1, <3>2, CallsTellAppend DEF q
      <3> QED
        BY <1>3, <1>6, <3>3
    <2>3. Mute(t, u) => Mute(r, p)
      BY <1>12, <1>13 DEF Mute
    <2>4. Stalls(t, u, 0)
      <3>1. Mute(t, u) => /\ t.cq = << >> /\ t.pending = 0
                          /\ \A i \in DOMAIN t.wire : t.wire[i].type = "nfr_req"
        BY <1>2, <1>3, <1>7, <2>3 DEF Flow, Stalls
      <3>2. Asked(t) /\ Up(u) => 0 + Due(u, t) = 0 /\ Stream(t, u, Len(u.got))
        BY <1>2, <1>4, <1>12, <1>13, <1>16, <1>17 DEF Flow, Stalls
      <3> QED
        BY <1>1, <1>12, <2>2, <3>1, <3>2 DEF Stalls
    <2> QED
      BY <2>1, <2>4 DEF Flow
  <1>20. Flow(u, t, k, 0, broken)
    <2>1. Reached(u, t, k) /\ Streams(u, t, k, broken) /\ Owes(u, t, k, 0, broken)
      BY <1>2, <1>3, <1>4, <1>16, <1>18 DEF Flow, Reached, Streams, Owes, Sending, Gone
    <2>2. CallsTell(Pkts(t.cq), u.expected)
      BY <1>2, <1>3, <1>4 DEF Flow, Stalls
    <2>3. ~Mute(u, t)
      BY <1>1, <1>12, <1>13 DEF Mute
    <2>4. Asked(u) /\ Up(t) => 0 + Due(t, u) = 0 /\ Stream(u, t, Len(t.got))
      BY <1>2, <1>3, <1>12, <1>13, <1>16, <1>18 DEF Flow, Stalls
    <2>5. Stalls(u, t, 0)
      BY <2>2, <2>3, <2>4 DEF Stalls, Mute
    <2> QED
      BY <2>1, <2>5 DEF Flow
  <1> QED
    BY <1>9, <1>11, <1>14, <1>15, <1>19, <1>20 DEF Joint

LEMMA LandMessages ==
    ASSUME MInv, NEW e \in End, Land(e)
    PROVE  Messages(rank', broken') /\ Moved
  <1> DEFINE r == rank[e]
             p == rank[Peer(e)]
             pkt == Head(r.wire)
             x == [what |-> "recv", qp |-> r.vi, pkt |-> pkt]
             t == [r EXCEPT !.wire = Tail(@), !.sent = Append(@, pkt)]
             v == [p EXCEPT !.cq = Append(@, x)]
             u == IF pkt.type = "read" THEN p ELSE v
             s == Started(r)
             k == Started(p)
  <1>1. r.wire # << >> /\ broken' = broken /\ r.vi \in {p.vi, p.cid}
    BY DEF Land, net
  <1>2. rank' = [rank EXCEPT ![e] = t, ![Peer(e)] = u]
    BY DEF Land
  <1>3. /\ App(r) /\ App(p) /\ Joint(r, p, s, k, 0, broken) /\ Whole(r)
        /\ EndOk(r, broken) /\ EndOk(p, broken) /\ Linked(e, r, p)
    BY BothEnds
  <1>4. x.what = "recv" /\ x.qp = r.vi /\ x.pkt = Head(r.wire)
    OBVIOUS
  <1> HIDE DEF r, p, s, k, x
  <1>5. u = v
    <2>1. PktOk(pkt)
      BY <1>1, <1>3, PileTail DEF Joint, Data, Pipes
    <2> QED
      BY <2>1 DEF PktOk
  <1>6. Sheds(r, t)
    BY <1>1, <1>3, ShedsIs
  <1>7. Hears(p, v, x)
    BY <1>3, <1>4, HearsIs DEF Joint, Data
  <1> HIDE DEF t, v, u, pkt
  <1>8. Joint(t, u, s, k, 0, broken)
    BY <1>1, <1>3, <1>4, <1>5, <1>6, <1>7, LandedJoint
  <1>9. App(t) /\ App(u) /\ Started(t) = s /\ Started(u) = k
    BY <1>3, <1>5, <1>6, <1>7, AppSame DEF Sheds, Hears, s, k
  <1>10. Moves(r, t) /\ Rests(p, u)
    BY <1>3, <1>5, <1>6, <1>7, AppSame DEF Sheds, Hears
  <1> QED
    BY <1>1, <1>2, <1>8, <1>9, <1>10, MessagesBoth DEF p, r

-----------------------------------------------------------------------------
(* A fault.                                                                 *)

\* t has lost what it had posted, and may have an error completion.
Lost(r, t) ==
    /\ Whole(t) /\ SameStage(r, t) /\ SameGot(r, t) /\ SameList(r, t) /\ SameApp(r, t)
    /\ t.pending = r.pending /\ t.halt = r.halt /\ t.wire = << >> /\ Pile(t.sent)
    /\ t.cq \in {r.cq, Append(r.cq, Failure(r))}

LEMMA PileNone == Pile(<< >>)
  <1> DEFINE e == << >>
  <1>1. IsSeq(e) /\ DOMAIN e = {}
    BY NoElements
  <1> HIDE DEF e
  <1>2. Pile(e)
    BY <1>1 DEF Pile
  <1> QED
    BY <1>2 DEF e

LEMMA NothingJoined ==
    ASSUME NEW w, IsSeq(w), NEW x, IsSeq(x), w \o x = << >>
    PROVE  w = << >>
  <1> DEFINE S == Range(w) \cup Range(x)
  <1>1. w \in Seq(S) /\ x \in Seq(S)
    BY DEF IsSeq
  <1> HIDE DEF S
  <1>2. Len(w \o x) = Len(w) + Len(x) /\ Len(w) \in Nat /\ Len(x) \in Nat
    BY <1>1
  <1>3. Len(w) = 0
    BY <1>2
  <1> QED
    BY <1>1, <1>3

LEMMA FailedLost ==
    ASSUME NEW r, NEW s, Data(r, s), NEW t,
           t = (IF r.wire \o r.sent # << >>
                THEN [r EXCEPT !.wire = << >>, !.sent = << >>, !.cq = Append(@, Failure(r))]
                ELSE r)
    PROVE  Lost(r, t)
  <1> DEFINE n == << >>
             f == Failure(r)
             q == Append(r.cq, f)
             v == [r EXCEPT !.wire = n, !.sent = n, !.cq = q]
  <1>1. /\ Whole(r) /\ DOMAIN r = RankFields /\ IsSeq(r.wire) /\ IsSeq(r.sent)
        /\ Pile(r.sent)
    BY DEF Data, Whole, Pipes, Pile
  <1>2. CASE r.wire \o r.sent = << >>
    <2>1. r.wire = << >> /\ t = r
      BY <1>1, <1>2, NothingJoined
    <2> QED
      BY <1>1, <2>1 DEF Lost, SameStage, SameGot, SameList, SameApp, SameSends
  <1>3. CASE r.wire \o r.sent # << >>
    <2>1. t = v
      BY <1>3
    <2>2. Completions(q)
      <3>1. f.what = "error"
        BY FailureIs
      <3> QED
        BY <1>1, <3>1, CompletionsAppend DEF Whole
    <2>3. IsSeq(n) /\ Pile(n)
      <3>1. IsSeq(n)
        BY NoElements
      <3>2. Pile(n)
        BY PileNone
      <3> QED
        BY <3>1, <3>2
    <2> HIDE DEF q, n
    <2>4. /\ DOMAIN v = RankFields /\ SameStage(r, v) /\ SameGot(r, v) /\ SameList(r, v)
          /\ SameApp(r, v) /\ v.pending = r.pending /\ v.halt = r.halt
          /\ v.wire = n /\ v.sent = n /\ v.cq = q
      BY <1>1 DEF RankFields, SameStage, SameGot, SameList, SameApp, SameSends
    <2> HIDE DEF v
    <2>5. Whole(v)
      BY <1>1, <2>2, <2>3, <2>4 DEF Whole, SameApp, SameSends, SameList
    <2> QED
      BY <2>1, <2>3, <2>4, <2>5 DEF Lost, n, q, f
  <1> QED
    BY <1>2, <1>3

LEMMA LostIs ==
    ASSUME NEW r, NEW s, Data(r, s), Place(r, broken), Up(r), NEW t, Lost(r, t), NEW b
    PROVE  /\ Data(t, s) /\ Place(t, b) /\ Up(t) /\ SameMail(r.cq, t.cq)
           /\ Due(t, t) = t.pending + Acks(Pkts(t.cq))
  <1> DEFINE f == Failure(r)
             q == Append(r.cq, f)
             n == << >>
  <1>1. IsSeq(r.cq) /\ Pile(Pkts(r.cq)) /\ \A i \in DOMAIN r.cq : r.cq[i].what \in {"recv", "error"}
    BY DEF Data, Pipes, Whole, Completions
  <1>2. SameMail(r.cq, q) /\ SameMail(r.cq, r.cq)
    BY <1>1, FailureMail DEF SameMail
  <1>3. f.what = "error" /\ f.qp = r.vi
    BY FailureIs
  <1>4. \A i \in DOMAIN r.cq : r.cq[i].qp = r.vi
    BY DEF Place, Server, Up
  <1> HIDE DEF f
  <1>5. \A i \in DOMAIN q : q[i].what \in {"recv", "error"} /\ q[i].qp = r.vi
    BY <1>1, <1>3, <1>4, AppendSeq
  <1> HIDE DEF q
  <1>6. t.cq = r.cq \/ t.cq = q
    BY DEF Lost, q, f
  <1>7. /\ SameMail(r.cq, t.cq)
        /\ \A i \in DOMAIN t.cq : t.cq[i].what \in {"recv", "error"} /\ t.cq[i].qp = r.vi
    BY <1>1, <1>2, <1>4, <1>5, <1>6
  <1>8. Pile(n) /\ DOMAIN n = {} /\ Acks(n) = 0
    <2>1. DOMAIN n = {}
      BY NoElements
    <2>2. Pile(n)
      BY PileNone
    <2>3. Acks(n) = 0
      BY AcksNone
    <2> QED
      BY <2>1, <2>2, <2>3
  <1>9. t.wire = n
    BY DEF Lost
  <1> HIDE DEF n
  <1>10. Pipes(t) /\ CallsTell(t.wire, t.expected)
    BY <1>7, <1>8, <1>9 DEF Lost, Pipes, SameMail, CallsTell
  <1>11. Data(t, s)
    BY <1>10 DEF Lost, SameGot, SameList, Data, NoRendezvous, InOrder, Numbered
  <1>12. Up(t) /\ t.vi = r.vi
    BY DEF Lost, SameStage, Up
  <1>13. Place(t, b)
    BY <1>7, <1>9, <1>12 DEF Place, Up, Client, Server, n
  <1>14. t.pending \in Nat /\ Acks(Pkts(t.cq)) \in Nat
    BY <1>7, <1>11, AcksType DEF SameMail, Data
  <1>15. Due(t, t) = t.pending + Acks(Pkts(t.cq))
    BY <1>8, <1>9, <1>14 DEF Due
  <1> QED
    BY <1>7, <1>11, <1>12, <1>13, <1>15

LEMMA LostFlow ==
    ASSUME NEW r, NEW p, NEW s, NEW k, Joint(r, p, s, k, 0, broken), Up(r), Up(p),
           NEW t, Lost(r, t), NEW u, Lost(p, u), NEW b, r.vi \in b
    PROVE  Flow(t, u, s, 0, b)
  <1>1. /\ Data(r, s) /\ Data(p, k) /\ Place(r, broken) /\ Place(p, broken)
        /\ Flow(r, p, s, 0, broken)
    BY DEF Joint
  <1>2. Data(t, s) /\ Up(t) /\ SameMail(r.cq, t.cq)
    BY <1>1, LostIs
  <1>3. Data(u, k) /\ Up(u) /\ SameMail(p.cq, u.cq)
    BY <1>1, LostIs
  <1>4. /\ t.wire = << >> /\ t.waiting = r.waiting /\ t.expected = r.expected /\ t.vi = r.vi
    BY DEF Lost, SameList, SameGot, SameStage
  <1>5. u.wire = << >> /\ u.got = p.got /\ u.pending = p.pending
    BY DEF Lost, SameGot
  <1>6. Gone(t, s) = Gone(r, s)
    BY <1>4 DEF Gone
  <1>7. Reached(t, u, s)
    BY <1>1, <1>5, <1>6 DEF Flow, Reached
  <1>8. Streams(t, u, s, b)
    <2>1. PICK l \in 0 .. s : Stream(r, p, l)
      BY <1>1 DEF Flow, Streams
    <2>2. PICK j \in Nat : Carries(Pkts(p.cq), Len(p.got), j) /\ Carries(r.wire, j, l)
      BY <2>1 DEF Stream
    <2>3. j <= l
      BY <1>1, <2>2, CarriesUp DEF Data, Whole
    <2>4. s \in Nat
      BY <1>1 DEF Data, Numbered
    <2>5. j \in 0 .. s
      BY <2>1, <2>3, <2>4
    <2>6. Carries(Pkts(u.cq), Len(u.got), j)
      BY <1>3, <1>5, <2>2 DEF SameMail
    <2>7. Carries(t.wire, j, j)
      BY <1>4, CarriesNone
    <2>8. Stream(t, u, j)
      BY <2>6, <2>7 DEF Stream
    <2> QED
      BY <1>4, <2>5, <2>8 DEF Streams, Sending
  <1>9. Due(u, t) <= Due(p, r)
    <2> DEFINE n == p.pending
               x == Acks(p.wire)
               y == Acks(Pkts(r.cq))
    <2>1. n \in Nat /\ x \in Nat /\ y \in Nat
      BY <1>1, AcksType DEF Data, Pipes
    <2>2. Acks(u.wire) = 0
      BY <1>5, AcksNone
    <2>3. Acks(Pkts(t.cq)) = y
      BY <1>2 DEF SameMail
    <2>4. Due(u, t) = n + 0 + y
      BY <1>5, <2>2, <2>3 DEF Due
    <2>5. Due(p, r) = n + x + y
      BY DEF Due
    <2> HIDE DEF n, x, y
    <2> QED
      BY <2>1, <2>4, <2>5
  <1>10. Owes(t, u, s, 0, b)
    <2> DEFINE d == Due(u, t)
               c == Due(p, r)
               l == Len(p.got)
               h == Gone(r, s)
    <2>1. d \in Nat
      BY <1>2, <1>3, DueType
    <2>2. c \in Nat
      BY <1>1, DueType
    <2>3. 0 + c <= l - h
      BY <1>1 DEF Flow, Owes
    <2>4. d <= c
      BY <1>9
    <2>5. l \in Nat /\ h \in Int
      <3>1. l \in Nat
        BY <1>1 DEF Data, InOrder
      <3>2. s \in Nat /\ IsSeq(r.waiting)
        BY <1>1 DEF Data, Numbered, Whole, List
      <3>3. Len(r.waiting) \in Nat
        BY <3>2, SeqFacts
      <3> DEFINE w == Len(r.waiting)
      <3> HIDE DEF w
      <3>4. w \in Nat /\ h = s - w
        BY <3>3 DEF w, Gone
      <3> QED
        BY <3>1, <3>2, <3>4
    <2> HIDE DEF d, c, l, h
    <2>6. 0 + d <= l - h
      BY <2>1, <2>2, <2>3, <2>4, <2>5
    <2>7. ~Sending(t, b)
      BY <1>4 DEF Sending
    <2>8. l = Len(u.got) /\ h = Gone(t, s)
      BY <1>5, <1>6 DEF l, h
    <2> QED
      BY <2>6, <2>7, <2>8 DEF Owes, d
  <1>11. Stalls(t, u, 0)
    <2>1. CallsTell(Pkts(u.cq), t.expected)
      BY <1>1, <1>3, <1>4 DEF Flow, Stalls, SameMail
    <2>2. ~Fresh(t) /\ ~Seen(t) /\ ~Asked(t) /\ ~Mute(t, u)
      BY <1>2 DEF Up, Fresh, Seen, Asked, OnNewQp, Mute
    <2> QED
      BY <2>1, <2>2 DEF Stalls
  <1> QED
    BY <1>7, <1>8, <1>10, <1>11 DEF Flow

LEMMA FaultMessages ==
    ASSUME MInv, ~FaultInHandshake, NEW e \in End, Fault(rank[e].vi)
    PROVE  Messages(rank', broken') /\ Moved
  <1> DEFINE r == rank[e]
             p == rank[Peer(e)]
             s == Started(r)
             k == Started(p)
             g == r.vi
             b == broken \cup {g}
             t == rank'[e]
             u == rank'[Peer(e)]
  <1>1. Recovered(e) /\ Recovered(Peer(e)) /\ broken' = b /\ Peer(e) \in End
    BY Peers DEF Fault
  <1>2. /\ r.state = "pt2pt" /\ p.state = "pt2pt" /\ r.vi = p.vi
    BY <1>1 DEF Recovered
  <1>3. \A d \in End : rank'[d] =
            IF rank[d].vi = g /\ rank[d].wire \o rank[d].sent # << >>
            THEN [rank[d] EXCEPT !.wire = << >>, !.sent = << >>, !.cq = Append(@, Failure(rank[d]))]
            ELSE rank[d]
    BY DEF Fault
  <1>4. /\ App(r) /\ App(p) /\ Joint(r, p, s, k, 0, broken) /\ Linked(e, r, p)
    BY BothEnds
  <1>5. t = IF r.wire \o r.sent # << >>
            THEN [r EXCEPT !.wire = << >>, !.sent = << >>, !.cq = Append(@, Failure(r))]
            ELSE r
    BY <1>3
  <1>6. u = IF p.wire \o p.sent # << >>
            THEN [p EXCEPT !.wire = << >>, !.sent = << >>, !.cq = Append(@, Failure(p))]
            ELSE p
    BY <1>1, <1>2, <1>3
  <1>7. g \in b /\ r.vi = g /\ p.vi = g
    BY <1>2
  <1> HIDE DEF r, p, t, u, s, k, b, g
  <1>8. Calm(r, p) \/ Calm(p, r)
    BY <1>2, <1>4 DEF Linked, Pair, Asking, Crossing, Serving, Waiting, Requesting,
       Replying, Fresh, Seen, Asked, OnNewQp, Client, Server
  <1>9. Up(r) /\ Up(p)
    BY <1>8 DEF Calm
  <1>10. Data(r, s) /\ Data(p, k) /\ Place(r, broken) /\ Place(p, broken)
    BY <1>4 DEF Joint
  <1>11. Lost(r, t)
    BY <1>5, <1>10, FailedLost
  <1>12. Lost(p, u)
    BY <1>6, <1>10, FailedLost
  <1>13. Flow(t, u, s, 0, b)
    BY <1>4, <1>7, <1>9, <1>11, <1>12, LostFlow
  <1>14. Flow(u, t, k, 0, b)
    <2>1. Joint(p, r, k, s, 0, broken)
      BY <1>4, JointBack
    <2> QED
      BY <1>7, <1>9, <1>11, <1>12, <2>1, LostFlow
  <1>15. Data(t, s) /\ Place(t, b)
    BY <1>9, <1>10, <1>11, LostIs
  <1>16. Data(u, k) /\ Place(u, b)
    BY <1>9, <1>10, <1>12, LostIs
  <1>17. Joint(t, u, s, k, 0, b)
    BY <1>13, <1>14, <1>15, <1>16 DEF Joint
  <1>18. App(t) /\ Started(t) = s
    BY <1>4, <1>11, AppSame DEF Lost, s
  <1>19. App(u) /\ Started(u) = k
    BY <1>4, <1>12, AppSame DEF Lost, k
  <1>20. Joint(t, u, Started(t), Started(u), 0, b)
    BY <1>17, <1>18, <1>19
  <1>21. Messages(rank', b)
    BY <1>18, <1>19, <1>20, MessagesAgain DEF t, u
  <1>22. Moves(r, t) /\ Rests(p, u)
    BY <1>4, <1>11, <1>12, AppSame DEF Lost
  <1>23. Moved
    BY <1>22 DEF Moved, r, p, t, u
  <1> QED
    BY <1>1, <1>21, <1>23

-----------------------------------------------------------------------------
(* The theorem about messages.                                              *)

\* The applications send eager messages, as many as there are packet ids.
EagerTraffic ==
    \A s \in Scripts : \A e \in End :
        s[e] \in Seq({"eager"}) /\ FirstId + Len(s[e]) < IdSpace

LEMMA NewEnd ==
    ASSUME NEW todo \in Seq({"eager"}), FirstId + Len(todo) < IdSpace,
           NEW r, r = Connected(todo), Whole(r)
    PROVE  /\ App(r) /\ Started(r) = 0 /\ Data(r, 0) /\ Place(r, {}) /\ Up(r)
           /\ r.wire = << >> /\ r.cq = << >> /\ r.got = << >> /\ r.waiting = << >>
           /\ r.pending = 0 /\ r.vi = 0 /\ r.expected = FirstId
  <1> DEFINE n == << >>
             L == Len(todo)
  <1>1. /\ r.vi = 0 /\ r.status = "up" /\ r.tosend = FirstId /\ r.expected = FirstId
        /\ r.pending = 0 /\ r.waiting = n /\ r.rndv = n /\ r.state = "pt2pt"
        /\ r.cli = "idle" /\ r.srv = "idle" /\ r.cid = 0 /\ ~r.fresh /\ r.halt = "no"
        /\ r.todo = todo /\ r.issued = 0 /\ r.queued = n /\ r.got = n /\ r.unexp = n
        /\ r.wire = n /\ r.sent = n /\ r.cq = n
    BY DEF Connected
  <1>2. IsSeq(n)
    BY NoElements
  <1>3. DOMAIN n = {} /\ Len(n) = 0 /\ n \in Seq(Nat)
    OBVIOUS
  <1>4. Pile(n)
    BY PileNone
  <1>5. Pile(Pkts(n))
    <2>1. Pkts(n) = n
      BY PktsNone
    <2> HIDE DEF n
    <2> QED
      BY <1>4, <2>1
  <1>6. L \in Nat /\ FirstId + L < IdSpace /\ FirstId \in Nat /\ IdSpace \in Nat
    BY RecoveryAssumption
  <1>7. FirstId + 0 + L < IdSpace /\ FirstId + 0 < IdSpace /\ FirstId + 0 = FirstId
    <2> HIDE DEF L
    <2> QED
      BY <1>6
  <1> HIDE DEF n
  <1>8. Started(r) = 0
    BY <1>1, <1>3 DEF Started
  <1>9. App(r)
    BY <1>1, <1>3, <1>7 DEF App, L
  <1>10. Waits(n, 0)
    BY <1>2, <1>3 DEF Waits, List
  <1>11. Numbered(r, 0)
    BY <1>1, <1>7, <1>10 DEF Numbered
  <1>12. InOrder(r)
    BY <1>1, <1>3, <1>7 DEF InOrder
  <1>13. Pipes(r)
    BY <1>1, <1>3, <1>4, <1>5 DEF Pipes
  <1>14. Data(r, 0)
    BY <1>1, <1>3, <1>11, <1>12, <1>13 DEF Data, NoRendezvous, CallsTell, n
  <1>15. Up(r) /\ ~Client(r) /\ ~Server(r)
    BY <1>1 DEF Up, Client, Server
  <1>16. Place(r, {})
    BY <1>1, <1>3, <1>15 DEF Place
  <1> QED
    BY <1>1, <1>8, <1>9, <1>14, <1>15, <1>16 DEF n

LEMMA NewFlow ==
    ASSUME NEW r, NEW p, Up(r), Up(p), r.expected = FirstId,
           r.wire = << >>, r.waiting = << >>, r.pending = 0, r.cq = << >>, r.vi = 0,
           p.wire = << >>, p.cq = << >>, p.got = << >>, p.pending = 0, p.vi = 0
    PROVE  Flow(r, p, 0, 0, {})
  <1> DEFINE n == << >>
  <1>1. DOMAIN n = {} /\ Len(n) = 0
    OBVIOUS
  <1>2. Pkts(n) = n
    BY PktsNone
  <1>3. Acks(n) = 0
    BY AcksNone
  <1>4. Carries(n, 0, 0)
    BY CarriesNone
  <1>5. /\ r.wire = n /\ r.waiting = n /\ r.cq = n /\ p.wire = n /\ p.cq = n /\ p.got = n
    OBVIOUS
  <1> HIDE DEF n
  <1>6. Due(p, r) = 0
    BY <1>2, <1>3, <1>5 DEF Due
  <1>7. Stream(r, p, 0)
    BY <1>1, <1>2, <1>4, <1>5 DEF Stream
  <1>8. Gone(r, 0) = 0
    <2> DEFINE l == Len(r.waiting)
    <2>1. l = 0
      BY <1>1, <1>5
    <2>2. Gone(r, 0) = 0 - l
      BY DEF Gone
    <2> HIDE DEF l
    <2> QED
      BY <2>1, <2>2
  <1>9. Reached(r, p, 0)
    BY <1>1, <1>5, <1>8 DEF Reached
  <1>10. Streams(r, p, 0, {})
    BY <1>7 DEF Streams
  <1>11. Owes(r, p, 0, 0, {})
    BY <1>1, <1>5, <1>6, <1>8 DEF Owes
  <1>12. Stalls(r, p, 0)
    <2>1. CallsTell(Pkts(p.cq), r.expected)
      BY <1>1, <1>2, <1>5 DEF CallsTell
    <2>2. ~Fresh(r) /\ ~Seen(r) /\ ~Asked(r) /\ ~Mute(r, p)
      BY DEF Up, Fresh, Seen, Asked, OnNewQp, Mute
    <2> QED
      BY <2>1, <2>2 DEF Stalls
  <1> QED
    BY <1>9, <1>10, <1>11, <1>12 DEF Flow

LEMMA InitMessages ==
    ASSUME EagerTraffic, Init
    PROVE  MInv
  <1>1. PICK s \in Scripts : rank = [e \in End |-> Connected(s[e])]
    BY DEF Init
  <1>2. broken = {}
    BY DEF Init
  <1>3. IInv
    BY InitStep
  <1>4. ASSUME NEW e \in End
        PROVE  App(rank[e]) /\ Joint(rank[e], rank[Peer(e)], Started(rank[e]),
                                     Started(rank[Peer(e)]), 0, {})
    <2> DEFINE r == rank[e]
               p == rank[Peer(e)]
    <2>1. /\ r = Connected(s[e]) /\ s[e] \in Seq({"eager"}) /\ FirstId + Len(s[e]) < IdSpace
      BY <1>1 DEF EagerTraffic
    <2>2. /\ p = Connected(s[Peer(e)]) /\ s[Peer(e)] \in Seq({"eager"})
          /\ FirstId + Len(s[Peer(e)]) < IdSpace
      BY <1>1, Peers DEF EagerTraffic
    <2>3. Whole(r) /\ Whole(p)
      BY <1>3, TwoEnds
    <2> HIDE DEF r, p
    <2>4. /\ App(r) /\ Started(r) = 0 /\ Data(r, 0) /\ Place(r, {}) /\ Up(r)
          /\ r.wire = << >> /\ r.cq = << >> /\ r.got = << >> /\ r.waiting = << >>
          /\ r.pending = 0 /\ r.vi = 0 /\ r.expected = FirstId
      BY <2>1, <2>3, NewEnd
    <2>5. /\ App(p) /\ Started(p) = 0 /\ Data(p, 0) /\ Place(p, {}) /\ Up(p)
          /\ p.wire = << >> /\ p.cq = << >> /\ p.got = << >> /\ p.waiting = << >>
          /\ p.pending = 0 /\ p.vi = 0 /\ p.expected = FirstId
      BY <2>2, <2>3, NewEnd
    <2>6. Flow(r, p, 0, 0, {})
      BY <2>4, <2>5, NewFlow
    <2>7. Flow(p, r, 0, 0, {})
      BY <2>4, <2>5, NewFlow
    <2>8. Joint(r, p, 0, 0, 0, {})
      BY <2>4, <2>5, <2>6, <2>7 DEF Joint
    <2> QED
      BY <2>4, <2>5, <2>8 DEF r, p
  <1>5. Messages(rank, broken)
    BY <1>2, <1>4 DEF Messages
  <1> QED
    BY <1>3, <1>5 DEF MInv

LEMMA NextMessages ==
    ASSUME ~FaultInHandshake, MInv, [Next]_vars
    PROVE  MInv' /\ (Moved \/ UNCHANGED vars)
  <1>1. IInv
    BY DEF MInv
  <1>2. IInv'
    BY <1>1, NextStep
  <1>3. CASE UNCHANGED vars
    <2>1. Messages(rank, broken)
      BY DEF MInv
    <2>2. rank' = rank /\ broken' = broken
      BY <1>3 DEF vars
    <2>3. Messages(rank', broken')
      BY <2>1, <2>2
    <2> QED
      BY <1>2, <1>3, <2>3 DEF MInv
  <1>4. ASSUME NEW e \in End, Thread(e)
        PROVE  Messages(rank', broken') /\ Moved
    <2>1. CASE Send(e)
      BY <2>1, SendMessages
    <2>2. CASE Match(e)
      BY <2>2, MatchMessages
    <2>3. CASE EndPool(e)
      BY <2>3, EndPoolMessages
    <2>4. CASE EndWait(e)
      BY <2>4, EndWaitMessages
    <2>5. ASSUME NEW expect \in BOOLEAN, Poll(e, expect)
          PROVE  Messages(rank', broken') /\ Moved
      BY <2>5, PollMessages
    <2> QED
      BY <1>4, <2>1, <2>2, <2>3, <2>4, <2>5 DEF Thread
  <1>5. ASSUME NEW e \in End, CmRequest(e) \/ CmReply(e) \/ Land(e) \/ Acknowledge(e)
        PROVE  Messages(rank', broken') /\ Moved
    BY <1>5, CmRequestMessages, CmReplyMessages, LandMessages, AcknowledgeMessages
  <1>6. ASSUME NEW e \in End, Fault(rank[e].vi)
        PROVE  Messages(rank', broken') /\ Moved
    BY <1>6, FaultMessages
  <1>7. CASE Next
    <2>1. Messages(rank', broken') /\ Moved
      BY <1>4, <1>5, <1>6, <1>7 DEF Next
    <2> QED
      BY <1>2, <2>1 DEF MInv
  <1> QED
    BY <1>3, <1>7

\* The messages of r that have not arrived are on its list or in its queue.
LEMMA MessageKept ==
    ASSUME NEW r, NEW p, NEW k, App(r), Whole(r), Joint(r, p, Started(r), k, 0, broken),
           NEW m \in 1 .. r.issued, ~ m <= Len(p.got)
    PROVE  \/ \E i \in DOMAIN r.queued : r.queued[i].msg = m
           \/ \E i \in DOMAIN r.waiting : r.waiting[i].msg = m
  <1> DEFINE s == Started(r)
             w == r.waiting
             n == Len(w)
             h == s - n
             l == Len(r.queued)
             j == m - s
             i == m - h
  <1>1. s \in Nat /\ Waits(w, s) /\ Reached(r, p, s) /\ p.got \in Seq(Nat)
    BY DEF Joint, Data, Numbered, Flow, InOrder
  <1>2. n \in Nat /\ DOMAIN w = 1 .. n /\ n <= s
    BY <1>1, SeqFacts DEF Waits, List
  <1>3. l \in Nat /\ DOMAIN r.queued = 1 .. l /\ r.issued = s + l /\ r.issued \in Nat
    <2>1. l \in Nat /\ s + l = r.issued
      BY AppFits
    <2>2. DOMAIN r.queued = 1 .. l
      BY SeqFacts DEF Whole
    <2> QED
      BY <2>1, <2>2 DEF App
  <1>4. h <= Len(p.got) /\ Len(p.got) \in Nat
    BY <1>1 DEF Reached, Gone
  <1>5. m \in Nat /\ m <= r.issued /\ h < m
    <2> DEFINE g == Len(p.got)
    <2>1. h \in Int /\ g \in Nat /\ h <= g /\ ~ m <= g /\ m \in 1 .. r.issued
      BY <1>1, <1>2, <1>4
    <2> HIDE DEF h, g
    <2> QED
      BY <1>3, <2>1
  <1>6. CASE m <= s
    <2>1. i \in 1 .. n /\ h + i = m
      <3> HIDE DEF n, s
      <3> QED
        BY <1>1, <1>2, <1>5, <1>6
    <2>2. w[i].msg = h + i
      BY <1>1, <1>2, <2>1 DEF Waits
    <2> HIDE DEF i, h, n, s
    <2> QED
      BY <1>2, <2>1, <2>2
  <1>7. CASE ~ m <= s
    <2>1. j \in 1 .. l /\ s + j = m
      <3> HIDE DEF l, s
      <3> QED
        BY <1>1, <1>3, <1>5, <1>7
    <2>2. r.queued[j].msg = s + j
      BY <1>3, <2>1 DEF App
    <2> HIDE DEF j, s, l
    <2> QED
      BY <1>3, <2>1, <2>2
  <1> QED
    BY <1>6, <1>7

LEMMA MInvForgets == MInv => NothingForgotten /\ NothingAborts
  <1> SUFFICES ASSUME MInv PROVE NothingForgotten /\ NothingAborts
    OBVIOUS
  <1>1. NothingAborts
    BY BothEnds DEF NothingAborts
  <1>2. ASSUME NEW e \in End, NEW m \in 1 .. rank[e].issued,
               ~ m <= Len(rank[Peer(e)].got)
        PROVE  \/ \E i \in DOMAIN rank[e].queued : rank[e].queued[i].msg = m
               \/ \E i \in DOMAIN rank[e].waiting : rank[e].waiting[i].msg = m
    <2> DEFINE r == rank[e]
               p == rank[Peer(e)]
    <2>1. App(r) /\ Joint(r, p, Started(r), Started(p), 0, broken) /\ Whole(r)
      BY BothEnds
    <2>2. m \in 1 .. r.issued /\ ~ m <= Len(p.got)
      BY <1>2
    <2> HIDE DEF r, p
    <2>3. \/ \E i \in DOMAIN r.queued : r.queued[i].msg = m
          \/ \E i \in DOMAIN r.waiting : r.waiting[i].msg = m
      BY <2>1, <2>2, MessageKept
    <2> QED
      BY <2>3 DEF r
  <1>3. NothingForgotten
    BY <1>2 DEF NothingForgotten
  <1> QED
    BY <1>1, <1>3

\* Of a list of the n newest of s messages, those up to l have arrived.
LEMMA ArrivedCount ==
    ASSUME NEW w, NEW s \in Nat, Waits(w, s), NEW l \in Nat, s - Len(w) <= l, l <= s
    PROVE  Cardinality({i \in DOMAIN w : w[i].type = "eager" /\ w[i].msg <= l}) = l - (s - Len(w))
  <1> DEFINE n == Len(w)
             h == s - n
             c == l - h
             A == {i \in DOMAIN w : w[i].type = "eager" /\ w[i].msg <= l}
  <1>1. n \in Nat /\ DOMAIN w = 1 .. n /\ n <= s
    BY SeqFacts DEF Waits, List
  <1>2. \A i \in 1 .. n : w[i].type = "eager" /\ w[i].msg = h + i
    BY <1>1 DEF Waits
  <1>3. c \in Nat /\ h \in Nat /\ c <= n /\ l = h + c
    <2> HIDE DEF n
    <2> QED
      BY <1>1
  <1> HIDE DEF n
  <1>4. ASSUME NEW i \in 1 .. n
        PROVE  (w[i].type = "eager" /\ w[i].msg <= l) <=> i \in 1 .. c
    <2> DEFINE m == w[i].msg
    <2>1. w[i].type = "eager" /\ m = h + i
      BY <1>2
    <2> HIDE DEF m, h, c
    <2>2. m <= l <=> i \in 1 .. c
      BY <1>1, <1>3, <2>1
    <2> QED
      BY <2>1, <2>2 DEF m
  <1>5. 1 .. c \subseteq 1 .. n
    <2> HIDE DEF c
    <2> QED
      BY <1>1, <1>3
  <1> HIDE DEF c, h
  <1>6. A = 1 .. c
    BY <1>1, <1>4, <1>5
  <1>7. Cardinality(1 .. c) = c
    <2>1. 1 \in Int /\ c \in Int
      BY <1>3
    <2> QED
      BY <1>3, <2>1, FS_Interval
  <1> QED
    BY <1>6, <1>7 DEF c, h, n

\* The packets of a connection at rest carry acknowledgements only.
LEMMA AcksAtRest ==
    ASSUME NEW w, Pile(w), \A i \in DOMAIN w : w[i].type \notin Unsequenced \ {"noop"}
    PROVE  \A i \in DOMAIN w : AckOf(w[i]) = w[i].ack
  BY DEF Pile, PktOk, AckOf, Unsequenced

LEMMA OwedIsDue ==
    ASSUME NEW e \in End, NEW r, r = rank[e], NEW p, p = rank[Peer(e)],
           NEW s, Data(r, s), NEW k, Data(p, k), Recovered(e), Recovered(Peer(e))
    PROVE  Owed(e) = Due(r, p)
  <1>1. /\ \A i \in DOMAIN r.wire : r.wire[i].type \notin Unsequenced \ {"noop"}
        /\ \A i \in DOMAIN p.cq : p.cq[i].what # "error"
        /\ \A i \in DOMAIN p.cq : p.cq[i].pkt.type \notin Unsequenced \ {"noop"}
    BY DEF Recovered
  <1>2. Pile(r.wire) /\ Pile(Pkts(p.cq)) /\ IsSeq(p.cq)
        /\ \A i \in DOMAIN p.cq : p.cq[i].what \in {"recv", "error"}
    BY DEF Data, Pipes, Whole, Completions
  <1> DEFINE f == [i \in DOMAIN r.wire |-> r.wire[i].ack]
             g == [i \in DOMAIN p.cq |-> IF p.cq[i].what = "recv" THEN p.cq[i].pkt.ack ELSE 0]
             v == Pkts(p.cq)
  <1>3. f = AcksIn(r.wire)
    BY <1>1, <1>2, AcksAtRest DEF AcksIn
  <1>4. DOMAIN v = DOMAIN p.cq /\ \A i \in DOMAIN p.cq : v[i] = PktIn(p.cq[i])
    BY <1>2, PktsSeq
  <1>5. \A i \in DOMAIN p.cq : p.cq[i].what = "recv" /\ v[i] = p.cq[i].pkt
    BY <1>1, <1>2, <1>4 DEF PktIn
  <1>6. \A i \in DOMAIN v : AckOf(v[i]) = v[i].ack
    <2>1. \A i \in DOMAIN v : v[i].type \notin Unsequenced \ {"noop"}
      BY <1>1, <1>4, <1>5
    <2> HIDE DEF v
    <2> QED
      BY <1>2, <2>1, AcksAtRest DEF v
  <1> HIDE DEF v
  <1>7. \A i \in DOMAIN p.cq : g[i] = AckOf(v[i])
    BY <1>4, <1>5, <1>6
  <1>8. g = AcksIn(v)
    BY <1>4, <1>7 DEF AcksIn
  <1>9. Owed(e) = r.pending + SumFunction(f) + SumFunction(g)
    BY DEF Owed
  <1>10. Due(r, p) = r.pending + SumFunction(AcksIn(r.wire)) + SumFunction(AcksIn(v))
    BY DEF Due, Acks, AcksIn, v
  <1> HIDE DEF f, g
  <1> QED
    BY <1>3, <1>8, <1>9, <1>10

LEMMA MInvAcks == MInv => AcksAreExact
  <1> SUFFICES ASSUME MInv, \A e \in End : Recovered(e) /\ rank[e].vi \notin broken, NEW e \in End
               PROVE  Cardinality({i \in DOMAIN rank[e].waiting :
                        /\ rank[e].waiting[i].type = "eager"
                        /\ rank[e].waiting[i].msg <= Len(rank[Peer(e)].got)}) = Owed(Peer(e))
    BY DEF AcksAreExact
  <1> DEFINE r == rank[e]
             p == rank[Peer(e)]
             s == Started(r)
             k == Started(p)
             w == r.waiting
             l == Len(p.got)
             h == s - Len(w)
             d == Due(p, r)
  <1>1. Joint(r, p, s, k, 0, broken)
    BY BothEnds
  <1>2. Peer(e) \in End /\ Peer(Peer(e)) = e
    BY Peers
  <1>3. Recovered(e) /\ Recovered(Peer(e)) /\ Sending(r, broken)
    BY <1>2 DEF Recovered, Sending
  <1>4. p = rank[Peer(e)] /\ r = rank[Peer(Peer(e))]
    BY <1>2
  <1> HIDE DEF r, p, s, k
  <1>5. Data(r, s) /\ Data(p, k) /\ Flow(r, p, s, 0, broken)
    BY <1>1 DEF Joint
  <1>6. Owed(Peer(e)) = d
    BY <1>2, <1>3, <1>4, <1>5, OwedIsDue
  <1>7. 0 + d = l - h
    BY <1>3, <1>5 DEF Flow, Owes, Gone
  <1>8. d \in Nat
    BY <1>5, DueType
  <1>9. s \in Nat /\ Waits(w, s) /\ l \in Nat /\ h <= l /\ l <= s
    <2>1. s \in Nat /\ Waits(w, s)
      BY <1>5 DEF Data, Numbered
    <2>2. l \in Nat
      BY <1>5 DEF Data, InOrder
    <2>3. h <= l /\ l <= s
      BY <1>5 DEF Flow, Reached, Gone
    <2> QED
      BY <2>1, <2>2, <2>3
  <1>10. Cardinality({i \in DOMAIN w : w[i].type = "eager" /\ w[i].msg <= l}) = l - h
    BY <1>9, ArrivedCount
  <1>11. d = l - h
    <2> DEFINE c == l - h
    <2>1. 0 + d = c
      BY <1>7
    <2> HIDE DEF c, d
    <2>2. d = c
      BY <1>8, <2>1
    <2> QED
      BY <2>2 DEF c
  <1> HIDE DEF d, h, l, w
  <1>12. Cardinality({i \in DOMAIN w : w[i].type = "eager" /\ w[i].msg <= l}) = Owed(Peer(e))
    BY <1>6, <1>10, <1>11
  <1> QED
    BY <1>12 DEF w, l, r, p

\* While no fault hits a reconnect under way, no assertion of the recovery code
\* fails and no eager packet is ever out of sequence, however often the network
\* fails (cm.c:888, 909, 941, 980, viacheck.c:1181).  Rendezvous traffic that
\* crosses a recovery, and packet numbers that wrap in one, are left out: there
\* the property is false.
THEOREM NothingAbortsTheorem ==
    ASSUME ~FaultInHandshake, EagerTraffic
    PROVE  Spec => []NothingAborts
  <1>1. MInv /\ [Next]_vars => MInv'
    BY NextMessages
  <1>2. Init => MInv
    BY InitMessages
  <1> QED
    BY <1>1, <1>2, MInvForgets, PTL DEF Spec

\* Under the same conditions a message that has not arrived is in the queue of
\* its sender or on its list: neither a fault nor an acknowledgement nor a
\* retransmission loses the only copy (nfr.h:387).
THEOREM NothingForgottenTheorem ==
    ASSUME ~FaultInHandshake, EagerTraffic
    PROVE  Spec => []NothingForgotten
  <1>1. MInv /\ [Next]_vars => MInv'
    BY NextMessages
  <1>2. Init => MInv
    BY InitMessages
  <1> QED
    BY <1>1, <1>2, MInvForgets, PTL DEF Spec

\* Under the same conditions the acknowledgements a receiver owes, with those
\* under way, are those its sender waits for whenever the connection works:
\* the reset of the counter on both sides of a recovery keeps them equal
\* (cm_user.c:231, nfr.c:330).
THEOREM AcksAreExactTheorem ==
    ASSUME ~FaultInHandshake, EagerTraffic
    PROVE  Spec => []AcksAreExact
  <1>1. MInv /\ [Next]_vars => MInv'
    BY NextMessages
  <1>2. Init => MInv
    BY InitMessages
  <1> QED
    BY <1>1, <1>2, MInvAcks, PTL DEF Spec

-----------------------------------------------------------------------------
(* The messages arrive in order: the steps are those of OrderedDelivery.    *)

LengthsIn == {Len(s[e]) : s \in Scripts, e \in End}

LEMMA LongestScript ==
    ASSUME EagerTraffic, NEW n \in LengthsIn
    PROVE  n <= Max(LengthsIn) /\ n \in Nat /\ Max(LengthsIn) \in Nat
  <1> DEFINE L == LengthsIn
             T == {k \in 0 .. IdSpace : \E y \in L : y >= k}
  <1>1. \A y \in L : y \in Nat /\ y < IdSpace
    <2> SUFFICES ASSUME NEW y \in L PROVE y \in Nat /\ y < IdSpace
      OBVIOUS
    <2>1. PICK s \in Scripts : \E e \in End : y = Len(s[e])
      BY DEF LengthsIn
    <2>2. PICK e \in End : y = Len(s[e])
      BY <2>1
    <2>3. s[e] \in Seq({"eager"}) /\ FirstId + Len(s[e]) < IdSpace
      BY DEF EagerTraffic
    <2>4. FirstId \in Nat /\ IdSpace \in Nat
      BY RecoveryAssumption
    <2>5. y \in Nat /\ FirstId + y < IdSpace
      BY <2>2, <2>3
    <2> QED
      BY <2>4, <2>5
  <1>2. IdSpace \in Nat /\ n \in L
    BY RecoveryAssumption
  <1> HIDE DEF L
  <1>3. \E x \in L : \A y \in L : x >= y
    <2> SUFFICES ASSUME \A x \in L : \E y \in L : ~ x >= y PROVE FALSE
      OBVIOUS
    <2>1. 0 \in T
      BY <1>1, <1>2
    <2>2. ASSUME NEW k \in 1 .. IdSpace, k - 1 \in T PROVE k \in T
      <3>1. PICK x \in L : x >= k - 1
        BY <2>2
      <3>2. PICK y \in L : ~ x >= y
        OBVIOUS
      <3>3. x \in Nat /\ y \in Nat
        BY <1>1
      <3>4. y >= k /\ k \in 0 .. IdSpace
        BY <1>2, <3>1, <3>2, <3>3
      <3> QED
        BY <3>4
    <2>3. IdSpace \in T
      <3> HIDE DEF T
      <3> QED
        BY <1>2, <2>1, <2>2, UpTo
    <2>4. PICK y \in L : y >= IdSpace
      BY <2>3
    <2> QED
      BY <1>1, <1>2, <2>4
  <1>4. Max(L) \in L /\ \A y \in L : Max(L) >= y
    BY <1>3 DEF Max
  <1>5. Max(L) \in Nat /\ n \in Nat /\ Max(L) >= n
    BY <1>1, <1>2, <1>4
  <1> DEFINE m == Max(L)
  <1> HIDE DEF m
  <1>6. n <= m /\ n \in Nat /\ m \in Nat
    BY <1>5 DEF m
  <1> QED
    BY <1>6 DEF m, L

\* The applications run one of the scripts.
Scripted(u) ==
    \E s \in Scripts : \A e \in End : u[e].issued + Len(u[e].todo) = Len(s[e])

LEMMA InitScripted ==
    ASSUME EagerTraffic, Init
    PROVE  Scripted(rank)
  <1>1. PICK s \in Scripts : rank = [e \in End |-> Connected(s[e])]
    BY DEF Init
  <1>2. ASSUME NEW e \in End
        PROVE  rank[e].issued + Len(rank[e].todo) = Len(s[e])
    <2> DEFINE n == Len(s[e])
    <2>1. rank[e].issued = 0 /\ rank[e].todo = s[e]
      BY <1>1 DEF Connected
    <2>2. n \in Nat
      BY DEF EagerTraffic
    <2> HIDE DEF n
    <2>3. 0 + n = n
      BY <2>2
    <2> QED
      BY <2>1, <2>3 DEF n
  <1> QED
    BY <1>2 DEF Scripted

\* A process takes a message from its script and starts it, or does neither.
LEMMA MovesScript ==
    ASSUME NEW r, App(r), NEW t, Moves(r, t) \/ Rests(r, t)
    PROVE  t.issued + Len(t.todo) = r.issued + Len(r.todo)
  <1>1. CASE t.todo = r.todo /\ t.issued = r.issued
    BY <1>1
  <1>2. CASE r.todo # << >> /\ t.todo = Tail(r.todo) /\ t.issued = r.issued + 1
    <2>1. r.todo \in Seq({"eager"}) /\ r.issued \in Nat
      BY DEF App
    <2> DEFINE n == r.issued
               d == Len(r.todo)
               b == Len(t.todo)
    <2>2. d \in Nat /\ b = d - 1 /\ n \in Nat /\ t.issued = n + 1
      BY <1>2, <2>1
    <2> HIDE DEF n, d, b
    <2>3. (n + 1) + b = n + d
      BY <2>2
    <2> QED
      BY <2>2, <2>3 DEF n, d, b
  <1> QED
    BY <1>1, <1>2 DEF Moves, Took, Rests

LEMMA NextScripted ==
    ASSUME MInv, Scripted(rank), Moved \/ UNCHANGED vars
    PROVE  Scripted(rank')
  <1>1. CASE UNCHANGED vars
    <2>1. rank' = rank
      BY <1>1 DEF vars
    <2> QED
      BY <2>1
  <1>2. CASE Moved
    <2>1. PICK e \in End : Moves(rank[e], rank'[e]) /\ Rests(rank[Peer(e)], rank'[Peer(e)])
      BY <1>2 DEF Moved
    <2>2. PICK s \in Scripts : \A d \in End : rank[d].issued + Len(rank[d].todo) = Len(s[d])
      BY DEF Scripted
    <2>3. ASSUME NEW d \in End
          PROVE  rank'[d].issued + Len(rank'[d].todo) = Len(s[d])
      <3>1. Moves(rank[d], rank'[d]) \/ Rests(rank[d], rank'[d])
        BY <2>1, Peers
      <3>2. App(rank[d])
        BY BothEnds
      <3>3. rank'[d].issued + Len(rank'[d].todo) = rank[d].issued + Len(rank[d].todo)
        BY <3>1, <3>2, MovesScript
      <3> QED
        BY <2>2, <3>3
    <2> QED
      BY <2>3 DEF Scripted
  <1> QED
    BY <1>1, <1>2

\* What the application sees of the processes of u
SubmittedOf(u) == [pq \in End \X End |-> IF pq[1] # pq[2] THEN u[pq[1]].issued ELSE 0]
ReceivedOf(u) == [pq \in End \X End |-> IF pq[1] # pq[2] THEN u[pq[2]].got ELSE << >>]

LEMMA Pairs ==
    ASSUME NEW e \in End
    PROVE  /\ <<e, Peer(e)>> \in End \X End /\ <<Peer(e), e>> \in End \X End
           /\ \A x \in End : \A y \in End : x # y => \/ x = e /\ y = Peer(e)
                                                     \/ x = Peer(e) /\ y = e
           /\ e # Peer(e)
  BY Peers

LEMMA RestsSeen ==
    ASSUME NEW u, NEW v, \A e \in End : u[e].issued = v[e].issued /\ u[e].got = v[e].got
    PROVE  SubmittedOf(u) = SubmittedOf(v) /\ ReceivedOf(u) = ReceivedOf(v)
  BY DEF SubmittedOf, ReceivedOf

LEMMA SubmitSeen ==
    ASSUME NEW u, NEW v, NEW e \in End,
           v[e].issued = u[e].issued + 1, v[e].got = u[e].got,
           v[Peer(e)].issued = u[Peer(e)].issued, v[Peer(e)].got = u[Peer(e)].got
    PROVE  LET pq == <<e, Peer(e)>> IN
           /\ SubmittedOf(v) = [SubmittedOf(u) EXCEPT ![pq] = @ + 1]
           /\ ReceivedOf(v) = ReceivedOf(u) /\ SubmittedOf(u)[pq] = u[e].issued
  <1> DEFINE pq == <<e, Peer(e)>>
             a == SubmittedOf(u)
             b == SubmittedOf(v)
             n == a[pq] + 1
  <1>1. pq \in End \X End /\ pq[1] = e /\ pq[2] = Peer(e) /\ e # Peer(e)
    BY Pairs
  <1>2. a[pq] = u[e].issued /\ b[pq] = v[e].issued
    BY <1>1 DEF SubmittedOf
  <1>3. ASSUME NEW x \in End, NEW y \in End, <<x, y>> # pq
        PROVE  b[<<x, y>>] = a[<<x, y>>] /\ ReceivedOf(v)[<<x, y>>] = ReceivedOf(u)[<<x, y>>]
    <2>1. x = y \/ (x = Peer(e) /\ y = e)
      BY <1>3, Pairs
    <2>2. CASE x = y
      BY <2>2 DEF SubmittedOf, ReceivedOf
    <2>3. CASE x = Peer(e) /\ y = e
      BY <2>3 DEF SubmittedOf, ReceivedOf
    <2> QED
      BY <2>1, <2>2, <2>3
  <1>4. DOMAIN a = End \X End /\ DOMAIN b = End \X End /\ b = [x \in End \X End |-> b[x]]
        /\ a = [x \in End \X End |-> a[x]]
    BY DEF SubmittedOf
  <1>5. ReceivedOf(v) = ReceivedOf(u)
    <2>1. ReceivedOf(v)[pq] = ReceivedOf(u)[pq]
      BY <1>1 DEF ReceivedOf
    <2>2. \A x \in End \X End : ReceivedOf(v)[x] = ReceivedOf(u)[x]
      BY <1>3, <2>1
    <2>3. /\ ReceivedOf(v) = [x \in End \X End |-> ReceivedOf(v)[x]]
          /\ ReceivedOf(u) = [x \in End \X End |-> ReceivedOf(u)[x]]
      BY DEF ReceivedOf
    <2> QED
      BY <2>2, <2>3
  <1>6. \A x \in End \X End : b[x] = IF x = pq THEN n ELSE a[x]
    BY <1>2, <1>3
  <1> HIDE DEF a, b, pq, n
  <1>7. b = [a EXCEPT ![pq] = n]
    BY <1>1, <1>4, <1>6
  <1> QED
    BY <1>2, <1>5, <1>7 DEF a, b, pq, n

\* Process e of u takes its next message and is then that of v.
TakesNext(u, v, e) ==
    /\ v[e].issued = u[e].issued /\ v[e].got = Append(u[e].got, Len(u[e].got) + 1)
    /\ v[Peer(e)].issued = u[Peer(e)].issued /\ v[Peer(e)].got = u[Peer(e)].got

\* The application sees that message arrive.
NextSeen(u, v, e) ==
    LET pq == <<Peer(e), e>> IN
    /\ ReceivedOf(v) = [ReceivedOf(u) EXCEPT ![pq] = Append(@, Len(@) + 1)]
    /\ SubmittedOf(v) = SubmittedOf(u)
    /\ ReceivedOf(u)[pq] = u[e].got /\ SubmittedOf(u)[pq] = u[Peer(e)].issued

LEMMA DeliverSeen ==
    ASSUME NEW u, NEW v, NEW e \in End, TakesNext(u, v, e)
    PROVE  NextSeen(u, v, e)
  <1> DEFINE pq == <<Peer(e), e>>
             a == ReceivedOf(u)
             b == ReceivedOf(v)
             n == Append(a[pq], Len(a[pq]) + 1)
  <1>0. /\ v[e].issued = u[e].issued /\ v[e].got = Append(u[e].got, Len(u[e].got) + 1)
        /\ v[Peer(e)].issued = u[Peer(e)].issued /\ v[Peer(e)].got = u[Peer(e)].got
    BY DEF TakesNext
  <1>1. pq \in End \X End /\ pq[1] = Peer(e) /\ pq[2] = e /\ e # Peer(e)
    BY Pairs
  <1>2. a[pq] = u[e].got /\ b[pq] = v[e].got /\ SubmittedOf(u)[pq] = u[Peer(e)].issued
    BY <1>0, <1>1 DEF ReceivedOf, SubmittedOf
  <1>3. ASSUME NEW x \in End, NEW y \in End, <<x, y>> # pq
        PROVE  b[<<x, y>>] = a[<<x, y>>] /\ SubmittedOf(v)[<<x, y>>] = SubmittedOf(u)[<<x, y>>]
    <2>1. x = y \/ (x = e /\ y = Peer(e))
      BY <1>3, Pairs
    <2>2. CASE x = y
      BY <1>0, <2>2 DEF SubmittedOf, ReceivedOf
    <2>3. CASE x = e /\ y = Peer(e)
      BY <1>0, <2>3 DEF SubmittedOf, ReceivedOf
    <2> QED
      BY <2>1, <2>2, <2>3
  <1>4. DOMAIN a = End \X End /\ DOMAIN b = End \X End /\ b = [x \in End \X End |-> b[x]]
        /\ a = [x \in End \X End |-> a[x]]
    BY DEF ReceivedOf
  <1>5. SubmittedOf(v) = SubmittedOf(u)
    <2>1. SubmittedOf(v)[pq] = SubmittedOf(u)[pq]
      BY <1>0, <1>1 DEF SubmittedOf
    <2>2. \A x \in End \X End : SubmittedOf(v)[x] = SubmittedOf(u)[x]
      BY <1>3, <2>1
    <2>3. /\ SubmittedOf(v) = [x \in End \X End |-> SubmittedOf(v)[x]]
          /\ SubmittedOf(u) = [x \in End \X End |-> SubmittedOf(u)[x]]
      BY DEF SubmittedOf
    <2> QED
      BY <2>2, <2>3
  <1>6. b[pq] = n
    BY <1>0, <1>2
  <1>7. \A x \in End \X End : x # pq => b[x] = a[x]
    BY <1>3
  <1> HIDE DEF a, b, pq, n
  <1>8. b = [a EXCEPT ![pq] = n]
    BY <1>1, <1>4, <1>6, <1>7
  <1> QED
    BY <1>2, <1>5, <1>8 DEF a, b, pq, n, NextSeen

LEMMA ViewsAre ==
    /\ submitted = SubmittedOf(rank) /\ received = ReceivedOf(rank)
    /\ submitted' = SubmittedOf(rank') /\ received' = ReceivedOf(rank')
  BY DEF submitted, received, SubmittedOf, ReceivedOf

LEMMA InitRefines ==
    ASSUME Init
    PROVE  OD!ODInit
  <1>1. PICK s \in Scripts : rank = [e \in End |-> Connected(s[e])]
    BY DEF Init
  <1>2. \A e \in End : rank[e].issued = 0 /\ rank[e].got = << >>
    BY <1>1 DEF Connected
  <1>3. \A pq \in End \X End : pq[1] \in End /\ pq[2] \in End
    OBVIOUS
  <1>4. submitted = [pq \in End \X End |-> 0]
    BY <1>2, <1>3 DEF submitted
  <1>5. received = [pq \in End \X End |-> << >>]
    BY <1>2, <1>3 DEF received
  <1> QED
    BY <1>4, <1>5 DEF OD!ODInit

LEMMA StepRefines ==
    ASSUME EagerTraffic, MInv, MInv', Scripted(rank), Moved
    PROVE  OD!ODNext \/ UNCHANGED OD!odVars
  <1>1. PICK e \in End : Moves(rank[e], rank'[e]) /\ Rests(rank[Peer(e)], rank'[Peer(e)])
    BY DEF Moved
  <1> DEFINE r == rank[e]
             t == rank'[e]
             p == rank[Peer(e)]
             u == rank'[Peer(e)]
  <1>2. Peer(e) \in End /\ Peer(Peer(e)) = e
    BY Peers
  <1>3. u.issued = p.issued /\ u.got = p.got
    BY <1>1 DEF Rests
  <1>4. CASE t.issued = r.issued /\ t.got = r.got
    <2>1. \A d \in End : rank'[d].issued = rank[d].issued /\ rank'[d].got = rank[d].got
      BY <1>3, <1>4, Peers
    <2>2. SubmittedOf(rank') = SubmittedOf(rank) /\ ReceivedOf(rank') = ReceivedOf(rank)
      BY <2>1, RestsSeen
    <2>3. submitted' = submitted /\ received' = received
      BY <2>2, ViewsAre
    <2> QED
      BY <2>3 DEF OD!odVars
  <1>5. CASE t.issued = r.issued /\ t.got = Append(r.got, Len(r.got) + 1)
    <2> DEFINE n == Len(r.got)
               c == Len(t.got)
    <2>1. LET pq == <<Peer(e), e>> IN
          /\ received' = [received EXCEPT ![pq] = Append(@, Len(@) + 1)]
          /\ submitted' = submitted
          /\ received[pq] = r.got /\ submitted[pq] = p.issued
      <3>1. LET pq == <<Peer(e), e>> IN
            /\ ReceivedOf(rank') = [ReceivedOf(rank) EXCEPT ![pq] = Append(@, Len(@) + 1)]
            /\ SubmittedOf(rank') = SubmittedOf(rank)
            /\ ReceivedOf(rank)[pq] = rank[e].got
            /\ SubmittedOf(rank)[pq] = rank[Peer(e)].issued
        <4>1. rank'[e].got = Append(rank[e].got, Len(rank[e].got) + 1)
          BY <1>5
        <4>2. /\ rank'[e].issued = rank[e].issued
              /\ rank'[Peer(e)].issued = rank[Peer(e)].issued
              /\ rank'[Peer(e)].got = rank[Peer(e)].got
          BY <1>3, <1>5
        <4>3. TakesNext(rank, rank', e)
          BY <4>1, <4>2 DEF TakesNext
        <4>4. NextSeen(rank, rank', e)
          BY <4>3, DeliverSeen
        <4> QED
          BY <4>4 DEF NextSeen
      <3> QED
        BY <3>1, ViewsAre
    <2>2. r.got \in Seq(Nat)
      BY BothEnds DEF Joint, Data, InOrder
    <2>3. c <= Started(u) /\ App(u) /\ Whole(u)
      <3>1. Messages(rank', broken')
        BY DEF MInv
      <3>2. Joint(u, t, Started(u), Started(t), 0, broken') /\ App(u)
        BY <1>2, <3>1 DEF Messages
      <3> QED
        BY <3>2 DEF Joint, Data, Flow, Reached
    <2>4. Started(u) \in Nat /\ Len(u.queued) \in Nat /\ Started(u) + Len(u.queued) = u.issued
      <3> HIDE DEF u
      <3> QED
        BY <2>3, AppFits
    <2>5. c = n + 1 /\ n \in Nat
      BY <1>5, <2>2
    <2>6. n < p.issued
      <3> DEFINE a == Started(u)
                 b == Len(u.queued)
                 i == u.issued
      <3>1. c <= a /\ c = n + 1 /\ n \in Nat /\ a \in Nat /\ b \in Nat /\ a + b = i
        BY <2>3, <2>4, <2>5
      <3> HIDE DEF a, b, c, n, i
      <3>2. n < i
        BY <3>1
      <3> QED
        BY <1>3, <3>2 DEF i
    <2>7. OD!Deliver(Peer(e), e)
      BY <2>1, <2>6 DEF OD!Deliver
    <2> QED
      BY <1>2, <2>7 DEF OD!ODNext
  <1>6. CASE r.todo # << >> /\ t.issued = r.issued + 1 /\ t.got = r.got
    <2>1. LET pq == <<e, Peer(e)>> IN
          /\ submitted' = [submitted EXCEPT ![pq] = @ + 1]
          /\ received' = received /\ submitted[pq] = r.issued
      <3>1. LET pq == <<e, Peer(e)>> IN
            /\ SubmittedOf(rank') = [SubmittedOf(rank) EXCEPT ![pq] = @ + 1]
            /\ ReceivedOf(rank') = ReceivedOf(rank)
            /\ SubmittedOf(rank)[pq] = rank[e].issued
        BY <1>3, <1>6, SubmitSeen
      <3> QED
        BY <3>1, ViewsAre
    <2>2. PICK s \in Scripts : \A d \in End : rank[d].issued + Len(rank[d].todo) = Len(s[d])
      BY DEF Scripted
    <2>3. Len(s[e]) \in LengthsIn
      BY DEF LengthsIn
    <2> DEFINE l == Len(s[e])
               m == Max(LengthsIn)
               i == r.issued
               d == Len(r.todo)
    <2>4. l <= m /\ l \in Nat /\ m \in Nat
      <3> HIDE DEF l
      <3> QED
        BY <2>3, LongestScript DEF l
    <2>5. r.todo \in Seq({"eager"}) /\ i \in Nat
      BY BothEnds DEF App
    <2>6. d \in Nat \ {0}
      BY <1>6, <2>5
    <2>7. i + d = l
      BY <2>2
    <2>8. i < m
      <3> HIDE DEF l, m, i, d
      <3> QED
        BY <2>4, <2>5, <2>6, <2>7
    <2>9. Sends[<<e, Peer(e)>>] = m
      <3> DEFINE pq == <<e, Peer(e)>>
      <3>1. pq \in End \X End
        BY Pairs
      <3>2. Sends = [x \in End \X End |-> m]
        BY DEF Sends, LengthsIn
      <3> HIDE DEF pq, m
      <3>3. Sends[pq] = m
        BY <3>1, <3>2
      <3> QED
        BY <3>3 DEF pq
    <2>10. OD!Submit(e, Peer(e))
      BY <2>1, <2>8, <2>9 DEF OD!Submit
    <2> QED
      BY <1>2, <2>10 DEF OD!ODNext
  <1> QED
    BY <1>1, <1>4, <1>5, <1>6 DEF Moves, Took

\* Under the same conditions the messages of each direction are handed over
\* once and in the order they were started, whatever fails in between: the
\* numbers that tell a lost packet from one that has arrived (nfr.c:330) are
\* enough to repeat exactly the lost ones.
THEOREM EagerArrivesInOrder ==
    ASSUME ~FaultInHandshake, EagerTraffic
    PROVE  Spec => ArrivesInOrder
  <1> DEFINE Inv == MInv /\ Scripted(rank)
  <1>1. Init => Inv /\ OD!ODInit
    BY InitMessages, InitScripted, InitRefines
  <1>2. Inv /\ [Next]_vars => Inv' /\ [OD!ODNext]_(OD!odVars)
    <2> SUFFICES ASSUME MInv, Scripted(rank), [Next]_vars
                 PROVE  Inv' /\ (OD!ODNext \/ UNCHANGED OD!odVars)
      OBVIOUS
    <2>1. MInv' /\ (Moved \/ UNCHANGED vars)
      BY NextMessages
    <2>2. Scripted(rank')
      BY <2>1, NextScripted
    <2>3. CASE Moved
      BY <2>1, <2>2, <2>3, StepRefines
    <2>4. CASE UNCHANGED vars
      <3>1. rank' = rank
        BY <2>4 DEF vars
      <3>2. submitted' = submitted /\ received' = received
        BY <3>1, ViewsAre
      <3>3. UNCHANGED OD!odVars
        BY <3>2 DEF OD!odVars
      <3> QED
        BY <2>1, <2>2, <3>3
    <2> QED
      BY <2>1, <2>3, <2>4
  <1> HIDE DEF Inv
  <1> QED
    BY <1>1, <1>2, PTL DEF Spec, ArrivesInOrder, OD!ODSafety
=============================================================================
