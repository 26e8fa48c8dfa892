--------------------------- MODULE RegCacheProofs ---------------------------
(***************************************************************************)
(* The registration cache finds what is registered, keeps its entries       *)
(* together and leaves those in use alone, for every number of pages,       *)
(* entries and operations, every limit, and whatever is refused, evicted,   *)
(* flushed or taken back.                                                   *)
(*                                                                         *)
(* What is right about the areas is said without their history (Chart):     *)
(* they are apart, every page of a registration is in one, and each lists   *)
(* exactly the registrations that cover it, the furthest first, while all   *)
(* others keep off it.  Cutting an area, putting one in, taking one out,    *)
(* joining two and changing a list each keep that, and dreg_insert and      *)
(* dreg_remove are loops of such steps; during one, the entry that comes or *)
(* goes is left out of account (the guest e of Chart), and what the loop    *)
(* has done for it so far is said apart (Inserting, Removing).              *)
(*                                                                         *)
(* Around them, Sorted says which list each entry is on, with one entry     *)
(* that may be on its way, and Serves counts the operations that use it.    *)
(*                                                                         *)
(* The loops are functions of the number of turns, so that what a turn      *)
(* keeps, all turns keep (LoopLeadsTo, LoopKeeps).                          *)
(***************************************************************************)
EXTENDS RegCache, SumTheorems

-----------------------------------------------------------------------------
(* Sequences.                                                              *)

LEMMA ConcatIs ==
    ASSUME NEW S, NEW a \in Seq(S), NEW b \in Seq(S), NEW m, Len(a) = m
    PROVE  /\ a \o b \in Seq(S) /\ Len(a \o b) = m + Len(b) /\ m \in Nat
           /\ \A i \in 1 .. m + Len(b) : (a \o b)[i] = IF i <= m THEN a[i] ELSE b[i - m]
  OBVIOUS

\* u is s without its element k, or with x in front of it.
Shorter(u, S, s, k) ==
    /\ u \in Seq(S) /\ Len(u) = Len(s) - 1
    /\ \A i \in 1 .. Len(s) - 1 : u[i] = IF i < k THEN s[i] ELSE s[i + 1]
Longer(u, S, s, k, x) ==
    /\ u \in Seq(S) /\ Len(u) = Len(s) + 1
    /\ \A i \in 1 .. Len(s) + 1 :
           u[i] = IF i < k THEN s[i] ELSE IF i = k THEN x ELSE s[i - 1]

LEMMA RemoveAtIs ==
    ASSUME NEW S, NEW s \in Seq(S), NEW k \in 1 .. Len(s)
    PROVE  Shorter(RemoveAt(s, k), S, s, k)
  <1> DEFINE a == SubSeq(s, 1, k - 1)
             b == SubSeq(s, k + 1, Len(s))
  <1>1. a \in Seq(S) /\ Len(a) = k - 1 /\ \A i \in 1 .. k - 1 : a[i] = s[i]
    OBVIOUS
  <1>2. b \in Seq(S) /\ Len(b) = Len(s) - k /\ \A i \in 1 .. Len(s) - k : b[i] = s[k + i]
    OBVIOUS
  <1>3. RemoveAt(s, k) = a \o b
    BY DEF RemoveAt
  <1> HIDE DEF a, b
  <1>4. /\ a \o b \in Seq(S) /\ Len(a \o b) = Len(s) - 1
        /\ \A i \in 1 .. Len(s) - 1 : (a \o b)[i] = IF i < k THEN a[i] ELSE b[i - (k - 1)]
    <2> DEFINE m == k - 1
    <2>1. a \in Seq(S) /\ b \in Seq(S) /\ Len(a) = m
      BY <1>1, <1>2
    <2> HIDE DEF m
    <2>2. /\ a \o b \in Seq(S) /\ Len(a \o b) = m + Len(b) /\ m \in Nat
          /\ \A i \in 1 .. m + Len(b) : (a \o b)[i] = IF i <= m THEN a[i] ELSE b[i - m]
      BY <2>1, ConcatIs
    <2>3. m + Len(b) = Len(s) - 1 /\ \A i \in 1 .. Len(s) - 1 : i < k <=> i <= m
      BY <1>2 DEF m
    <2> QED
      BY <2>2, <2>3 DEF m
  <1>5. ASSUME NEW i \in 1 .. Len(s) - 1
        PROVE  (a \o b)[i] = IF i < k THEN s[i] ELSE s[i + 1]
    <2>1. CASE i < k
      BY <1>1, <1>4, <2>1
    <2>2. CASE ~(i < k)
      <3>1. i - (k - 1) \in 1 .. Len(s) - k /\ k + (i - (k - 1)) = i + 1
        BY <2>2
      <3>2. (a \o b)[i] = b[i - (k - 1)]
        BY <1>4, <2>2
      <3> QED
        BY <1>2, <2>2, <3>1, <3>2
    <2> QED
      BY <2>1, <2>2
  <1> QED
    BY <1>3, <1>4, <1>5 DEF Shorter

LEMMA InsertAtIs ==
    ASSUME NEW S, NEW s \in Seq(S), NEW k \in 1 .. Len(s) + 1, NEW x \in S
    PROVE  Longer(InsertAt(s, k, x), S, s, k, x)
  <1> DEFINE a == SubSeq(s, 1, k - 1)
             m == <<x>>
             b == SubSeq(s, k, Len(s))
  <1>1. a \in Seq(S) /\ Len(a) = k - 1 /\ \A i \in 1 .. k - 1 : a[i] = s[i]
    OBVIOUS
  <1>2. /\ b \in Seq(S) /\ Len(b) = Len(s) - k + 1
        /\ \A i \in 1 .. Len(s) - k + 1 : b[i] = s[k - 1 + i]
    OBVIOUS
  <1>3. m \in Seq(S) /\ Len(m) = 1 /\ m[1] = x
    OBVIOUS
  <1>4. InsertAt(s, k, x) = (a \o m) \o b
    BY DEF InsertAt
  <1> HIDE DEF a, m, b
  <1> DEFINE c == a \o m
  <1>5. /\ c \in Seq(S) /\ Len(c) = k
        /\ \A i \in 1 .. k : c[i] = IF i < k THEN a[i] ELSE m[1]
    <2> DEFINE n == k - 1
    <2>1. Len(a) = n /\ a \in Seq(S) /\ m \in Seq(S) /\ n + Len(m) = k
          /\ \A i \in 1 .. k : (i < k <=> i <= n) /\ (~(i < k) => i - n = 1)
      BY <1>1, <1>3
    <2> HIDE DEF n
    <2>2. /\ a \o m \in Seq(S) /\ Len(a \o m) = n + Len(m)
          /\ \A i \in 1 .. n + Len(m) : (a \o m)[i] = IF i <= n THEN a[i] ELSE m[i - n]
      BY <2>1, ConcatIs
    <2> QED
      BY <2>1, <2>2
  <1>6. \A i \in 1 .. k : c[i] = IF i < k THEN s[i] ELSE x
    BY <1>1, <1>3, <1>5
  <1> HIDE DEF c
  <1>7. /\ c \o b \in Seq(S) /\ Len(c \o b) = Len(s) + 1
        /\ \A i \in 1 .. Len(s) + 1 : (c \o b)[i] = IF i <= k THEN c[i] ELSE b[i - k]
    <2>1. k + Len(b) = Len(s) + 1
      BY <1>2
    <2> QED
      BY <1>2, <1>5, <2>1, ConcatIs
  <1>8. ASSUME NEW i \in 1 .. Len(s) + 1
        PROVE  (c \o b)[i] = IF i < k THEN s[i] ELSE IF i = k THEN x ELSE s[i - 1]
    <2>1. CASE i <= k
      BY <1>6, <1>7, <2>1
    <2>2. CASE ~(i <= k)
      <3>1. i - k \in 1 .. Len(s) - k + 1 /\ k - 1 + (i - k) = i - 1
        BY <2>2
      <3>2. (c \o b)[i] = b[i - k]
        BY <1>7, <2>2
      <3> QED
        BY <1>2, <2>2, <3>1, <3>2
    <2> QED
      BY <2>1, <2>2
  <1> QED
    BY <1>4, <1>7, <1>8 DEF c, Longer

\* What a list without an element is: the others, in the same order.
LEMMA WithoutIs ==
    ASSUME NEW S, NEW s \in Seq(S), NEW e, Contains(s, e),
           \A i, j \in 1 .. Len(s) : i < j => s[i] # s[j]
    PROVE  \E k \in 1 .. Len(s) : s[k] = e /\ Without(s, e) = RemoveAt(s, k)
  <1>1. \E k \in 1 .. Len(s) : s[k] = e
    BY DEF Contains
  <1> DEFINE k == CHOOSE i \in 1 .. Len(s) : s[i] = e
  <1>2. k \in 1 .. Len(s) /\ s[k] = e
    BY <1>1
  <1>3. Without(s, e) = RemoveAt(s, k)
    BY DEF Without
  <1> QED
    BY <1>2, <1>3

-----------------------------------------------------------------------------
(* Loops.                                                                  *)

LEMMA UpTo ==
    ASSUME NEW n \in Nat, NEW T, 0 \in T, \A i \in 1 .. n : i - 1 \in T => i \in T
    PROVE  n \in T
  <1> DEFINE Bad == {i \in 0 .. n : i \notin T}
  <1>1. Bad \subseteq Nat
    OBVIOUS
  <1>2. Bad = {}
    <2> SUFFICES ASSUME Bad # {} PROVE FALSE
      OBVIOUS
    <2>1. PICK i \in Bad : \A m \in Bad : i <= m
      <3> HIDE DEF Bad
      <3> QED
        BY <1>1, SmallestNumber
    <2>2. i \in 1 .. n /\ i - 1 \in 0 .. n /\ i - 1 < i
      OBVIOUS
    <2>3. i - 1 \notin Bad
      BY <2>1, <2>2
    <2> QED
      BY <2>2, <2>3
  <1> QED
    BY <1>2

\* The states of a loop, one after the other.
LEMMA LoopIs ==
    ASSUME NEW Turn, NEW x, NEW n \in Nat
    PROVE  \E s : /\ s[0] = x /\ s[n] = Loop(Turn, x, n)
                  /\ \A i \in 1 .. n : s[i] = Turn[s[i - 1]]
  <1> DEFINE Is(s, m) == s = [i \in 0 .. m |-> IF i = 0 THEN x ELSE Turn[s[i - 1]]]
             T == {m \in Nat : \E s : Is(s, m)}
  <1>1. 0 \in T
    <2> DEFINE s == [i \in 0 .. 0 |-> x]
    <2>1. Is(s, 0)
      OBVIOUS
    <2> QED
      BY <2>1
  <1>2. ASSUME NEW m \in 1 .. n, m - 1 \in T
        PROVE  m \in T
    <2>1. PICK s : Is(s, m - 1)
      BY <1>2
    <2> DEFINE u == [i \in 0 .. m |-> IF i = m THEN Turn[s[m - 1]] ELSE s[i]]
    <2>2. ASSUME NEW i \in 0 .. m
          PROVE  u[i] = IF i = 0 THEN x ELSE Turn[u[i - 1]]
      <3>1. CASE i = 0
        <4>1. i \in 0 .. m - 1 /\ i # m
          BY <3>1
        <4> QED
          BY <2>1, <3>1, <4>1
      <3>2. CASE i # 0 /\ i # m
        <4>1. i \in 0 .. m - 1 /\ i - 1 \in 0 .. m /\ i - 1 # m
          BY <3>2
        <4>2. u[i] = s[i] /\ u[i - 1] = s[i - 1]
          BY <3>2, <4>1
        <4>3. s[i] = Turn[s[i - 1]]
          BY <2>1, <3>2, <4>1
        <4> QED
          BY <3>2, <4>2, <4>3
      <3>3. CASE i = m
        <4>1. m - 1 \in 0 .. m /\ m - 1 # m /\ m # 0
          OBVIOUS
        <4>2. u[m - 1] = s[m - 1] /\ u[m] = Turn[s[m - 1]]
          BY <4>1
        <4> QED
          BY <3>3, <4>1, <4>2
      <3> QED
        BY <3>1, <3>2, <3>3
    <2>3. Is(u, m)
      BY <2>2
    <2>4. m \in Nat
      OBVIOUS
    <2> HIDE DEF u, Is
    <2> QED
      BY <2>3, <2>4
  <1>3. n \in T
    <2> HIDE DEF T
    <2> QED
      BY <1>1, <1>2, UpTo
  <1>4. \E s : Is(s, n)
    BY <1>3
  <1> DEFINE after == CHOOSE s : Is(s, n)
  <1>5. Is(after, n)
    BY <1>4
  <1>6. Loop(Turn, x, n) = after[n]
    BY DEF Loop
  <1> HIDE DEF after
  <1>7. after[0] = x /\ \A i \in 1 .. n : after[i] = Turn[after[i - 1]]
    BY <1>5
  <1> QED
    BY <1>6, <1>7

\* I has the states that are possible after each number of turns.
LEMMA LoopLeadsTo ==
    ASSUME NEW Turn, NEW x, NEW n \in Nat, NEW I, x \in I[0],
           \A i \in 1 .. n : \A y \in I[i - 1] : Turn[y] \in I[i]
    PROVE  Loop(Turn, x, n) \in I[n]
  <1>1. PICK s : /\ s[0] = x /\ s[n] = Loop(Turn, x, n)
                 /\ \A i \in 1 .. n : s[i] = Turn[s[i - 1]]
    BY LoopIs
  <1> DEFINE T == {i \in 0 .. n : s[i] \in I[i]}
  <1>2. 0 \in T
    BY <1>1
  <1>3. ASSUME NEW i \in 1 .. n, i - 1 \in T PROVE i \in T
    <2>1. s[i - 1] \in I[i - 1] /\ s[i] = Turn[s[i - 1]]
      BY <1>1, <1>3
    <2> QED
      BY <2>1
  <1>4. n \in T
    <2> HIDE DEF T
    <2> QED
      BY <1>2, <1>3, UpTo
  <1> QED
    BY <1>1, <1>4

LEMMA LoopKeeps ==
    ASSUME NEW Turn, NEW x, NEW n \in Nat, NEW I, x \in I,
           \A y \in I : Turn[y] \in I
    PROVE  Loop(Turn, x, n) \in I
  <1> DEFINE J == [i \in 0 .. n |-> I]
  <1>1. x \in J[0] /\ J[n] = I
    OBVIOUS
  <1>2. \A i \in 1 .. n : \A y \in J[i - 1] : Turn[y] \in J[i]
    OBVIOUS
  <1> HIDE DEF J
  <1>3. Loop(Turn, x, n) \in J[n]
    BY <1>1, <1>2, LoopLeadsTo
  <1> QED
    BY <1>1, <1>3

-----------------------------------------------------------------------------
(* The table of areas.  d has the entries, D those that are in the table,   *)
(* and e is an entry that is being put into it or taken out of it, or None.  *)

\* x covers the area a, or has no page of it.
Over(d, x, a) == d[x].first <= a.start /\ a.end <= d[x].last
Off(d, x, a) == a.end < d[x].first \/ d[x].last < a.start
Within(a, p) == a.start <= p /\ p <= a.end

\* The furthest first, none twice.
Ordered(d, list) ==
    \A i, j \in 1 .. Len(list) :
        i < j => list[i] # list[j] /\ d[list[i]].last >= d[list[j]].last

\* The area lists those that cover it, whatever it says of e.
Lists(d, D, e, a) == \A x \in Entry \ {e} : Contains(a.list, x) <=> x \in D /\ Over(d, x, a)
Fits(d, D, e, a) ==
    /\ a.start <= a.end /\ a.list # << >> /\ Ordered(d, a.list)
    /\ Lists(d, D, e, a)
    /\ \A x \in D : Over(d, x, a) \/ Off(d, x, a)

Apart(v) == \A i, j \in 1 .. Len(v) : i < j => v[i].end < v[j].start
Holds(d, D, v) ==
    \A x \in D : \A p \in d[x].first .. d[x].last : \E i \in 1 .. Len(v) : Within(v[i], p)

Chart(d, D, e, v) ==
    /\ v \in Seq(Area) /\ Apart(v) /\ Holds(d, D, v)
    /\ \A i \in 1 .. Len(v) : Fits(d, D, e, v[i])

Entries(d, D, e) ==
    /\ d \in [Entry -> Registration] /\ D \subseteq Entry \ {e}
    /\ \A x \in D : d[x].first <= d[x].last

LEMMA Numbers ==
    /\ Pages \in Nat /\ Pages # 0 /\ Page \subseteq Nat /\ Entry \subseteq Nat
    /\ \A a \in Area : a.start \in Nat /\ a.end \in Nat /\ a.start < Pages /\ a.end < Pages
                       /\ a.start \in Page /\ a.end \in Page /\ a.list \in Seq(Entry)
    /\ \A d \in [Entry -> Registration] : \A x \in Entry :
           d[x].first \in Nat /\ d[x].last \in Nat /\ d[x].first \in Page /\ d[x].last \in Page
  <1>1. Pages \in Nat /\ Pages # 0 /\ Page \subseteq Nat /\ Entry \subseteq Nat
        /\ \A p \in Page : p \in Nat /\ p < Pages
    BY CacheAssumption DEF Page, Entry
  <1>2. ASSUME NEW a \in Area
        PROVE  a.start \in Page /\ a.end \in Page /\ a.list \in Seq(Entry)
    BY DEF Area
  <1>3. ASSUME NEW d \in [Entry -> Registration], NEW x \in Entry
        PROVE  d[x].first \in Page /\ d[x].last \in Page
    <2>1. d[x] \in Registration
      OBVIOUS
    <2> QED
      BY <2>1 DEF Registration
  <1> QED
    BY <1>1, <1>2, <1>3

\* A part of an area that lists the same fits as well.
LEMMA PartFits ==
    ASSUME NEW d, NEW D, NEW e, Entries(d, D, e), NEW a \in Area, NEW b \in Area,
           Fits(d, D, e, a), b.list = a.list, a.start <= b.start, b.end <= a.end,
           b.start <= b.end
    PROVE  Fits(d, D, e, b)
  <1>1. /\ a.start \in Nat /\ a.end \in Nat /\ b.start \in Nat /\ b.end \in Nat
        /\ \A x \in D : d[x].first \in Nat /\ d[x].last \in Nat /\ d[x].first <= d[x].last
    BY Numbers DEF Entries
  <1>2. \A x \in D : /\ Over(d, x, a) <=> Over(d, x, b)
                     /\ Over(d, x, b) \/ Off(d, x, b)
    <2>1. ASSUME NEW x \in D
          PROVE  /\ Over(d, x, a) <=> Over(d, x, b)
                 /\ Over(d, x, b) \/ Off(d, x, b)
      <3>1. Over(d, x, a) \/ Off(d, x, a)
        BY DEF Fits
      <3>2. d[x].first \in Nat /\ d[x].last \in Nat /\ d[x].first <= d[x].last
        BY <1>1
      <3> QED
        BY <1>1, <3>1, <3>2 DEF Over, Off
    <2> QED
      BY <2>1
  <1>3. Lists(d, D, e, b)
    BY <1>2 DEF Fits, Lists
  <1> QED
    BY <1>2, <1>3 DEF Fits

\* What the operations make of the table v.
IsCut(u, v, k, b) ==
    /\ u \in Seq(Area) /\ Len(u) = Len(v) + 1
    /\ \A i \in 1 .. Len(v) : i < k => u[i] = v[i]
    /\ \A i \in 1 .. Len(v) : i > k => u[i + 1] = v[i]
    /\ u[k].start = v[k].start /\ u[k].end = b - 1 /\ u[k].list = v[k].list
    /\ u[k + 1].start = b /\ u[k + 1].end = v[k].end /\ u[k + 1].list = v[k].list

IsPut(u, v, k, a) ==
    /\ u \in Seq(Area) /\ Len(u) = Len(v) + 1 /\ u[k] = a
    /\ \A i \in 1 .. Len(v) : i < k => u[i] = v[i]
    /\ \A i \in 1 .. Len(v) : i >= k => u[i + 1] = v[i]

IsTaken(u, v, k) ==
    /\ u \in Seq(Area) /\ Len(u) = Len(v) - 1
    /\ \A i \in 1 .. Len(v) : i < k => u[i] = v[i]
    /\ \A i \in 1 .. Len(v) : i > k => u[i - 1] = v[i]

IsJoin(u, v, k) ==
    /\ u \in Seq(Area) /\ Len(u) = Len(v) - 1
    /\ \A i \in 1 .. Len(v) : i < k => u[i] = v[i]
    /\ \A i \in 1 .. Len(v) : i > k + 1 => u[i - 1] = v[i]
    /\ u[k].start = v[k].start /\ u[k].end = v[k + 1].end /\ u[k].list = v[k].list

IsListed(u, v, k, list) ==
    /\ u \in Seq(Area) /\ Len(u) = Len(v)
    /\ \A i \in 1 .. Len(v) : i # k => u[i] = v[i]
    /\ u[k].start = v[k].start /\ u[k].end = v[k].end /\ u[k].list = list

LEMMA PutIs ==
    ASSUME NEW v \in Seq(Area), NEW k \in 1 .. Len(v) + 1, NEW a \in Area
    PROVE  IsPut(InsertAt(v, k, a), v, k, a)
  <1> DEFINE u == InsertAt(v, k, a)
  <1>1. /\ u \in Seq(Area) /\ Len(u) = Len(v) + 1
        /\ \A i \in 1 .. Len(v) + 1 : u[i] = IF i < k THEN v[i] ELSE IF i = k THEN a ELSE v[i - 1]
    <2>1. Longer(u, Area, v, k, a)
      BY InsertAtIs
    <2> QED
      BY <2>1 DEF Longer
  <1> HIDE DEF u
  <1>2. ASSUME NEW i \in 1 .. Len(v)
        PROVE  (i < k => u[i] = v[i]) /\ (i >= k => u[i + 1] = v[i])
    <2>1. i \in 1 .. Len(v) + 1 /\ i + 1 \in 1 .. Len(v) + 1 /\ i + 1 - 1 = i
      OBVIOUS
    <2> QED
      BY <1>1, <2>1
  <1>3. u[k] = a
    BY <1>1
  <1> QED
    BY <1>1, <1>2, <1>3 DEF IsPut, u

LEMMA TakenIs ==
    ASSUME NEW v \in Seq(Area), NEW k \in 1 .. Len(v)
    PROVE  IsTaken(RemoveAt(v, k), v, k)
  <1> DEFINE u == RemoveAt(v, k)
  <1>1. /\ u \in Seq(Area) /\ Len(u) = Len(v) - 1
        /\ \A i \in 1 .. Len(v) - 1 : u[i] = IF i < k THEN v[i] ELSE v[i + 1]
    <2>1. Shorter(u, Area, v, k)
      BY RemoveAtIs
    <2> QED
      BY <2>1 DEF Shorter
  <1> HIDE DEF u
  <1>2. ASSUME NEW i \in 1 .. Len(v)
        PROVE  (i < k => u[i] = v[i]) /\ (i > k => u[i - 1] = v[i])
    <2>1. CASE i < k
      <3>1. i \in 1 .. Len(v) - 1
        BY <2>1
      <3> QED
        BY <1>1, <2>1, <3>1
    <2>2. CASE i > k
      <3>1. i - 1 \in 1 .. Len(v) - 1 /\ ~(i - 1 < k) /\ i - 1 + 1 = i
        BY <2>2
      <3> QED
        BY <1>1, <2>2, <3>1
    <2> QED
      BY <2>1, <2>2
  <1> QED
    BY <1>1, <1>2 DEF IsTaken, u

LEMMA ListedIs ==
    ASSUME NEW v \in Seq(Area), NEW k \in 1 .. Len(v), NEW list \in Seq(Entry)
    PROVE  IsListed(Listed(v, k, list), v, k, list)
  <1> DEFINE a == [v[k] EXCEPT !.list = list]
             u == [v EXCEPT ![k] = a]
  <1>1. v[k] \in Area
    OBVIOUS
  <1>2. a \in Area /\ a.start = v[k].start /\ a.end = v[k].end /\ a.list = list
    BY <1>1 DEF Area
  <1>3. Listed(v, k, list) = u
    BY DEF Listed
  <1> HIDE DEF a
  <1>4. u \in Seq(Area) /\ Len(u) = Len(v) /\ u[k] = a /\ \A i \in 1 .. Len(v) : i # k => u[i] = v[i]
    BY <1>2
  <1> HIDE DEF u
  <1> QED
    BY <1>2, <1>3, <1>4 DEF IsListed

LEMMA JoinIs ==
    ASSUME NEW v \in Seq(Area), NEW k \in 1 .. Len(v) - 1
    PROVE  IsJoin(Join(v, k), v, k)
  <1> DEFINE a == [v[k] EXCEPT !.end = v[k + 1].end]
             w == [v EXCEPT ![k] = a]
             u == RemoveAt(w, k + 1)
  <1>1. v[k] \in Area /\ v[k + 1] \in Area
    OBVIOUS
  <1>2. a \in Area /\ a.start = v[k].start /\ a.end = v[k + 1].end /\ a.list = v[k].list
    BY <1>1 DEF Area
  <1>3. Join(v, k) = u
    BY DEF Join
  <1> HIDE DEF a
  <1>4. w \in Seq(Area) /\ Len(w) = Len(v) /\ w[k] = a /\ \A i \in 1 .. Len(v) : i # k => w[i] = v[i]
    BY <1>2
  <1> HIDE DEF w
  <1>5. k + 1 \in 1 .. Len(w)
    BY <1>4
  <1>6. IsTaken(u, w, k + 1)
    BY <1>4, <1>5, TakenIs
  <1> HIDE DEF u
  <1>7. u \in Seq(Area) /\ Len(u) = Len(v) - 1
    BY <1>4, <1>6 DEF IsTaken
  <1>8. u[k] = a
    BY <1>4, <1>6 DEF IsTaken
  <1>9. \A i \in 1 .. Len(v) : (i < k => u[i] = v[i]) /\ (i > k + 1 => u[i - 1] = v[i])
    BY <1>4, <1>6 DEF IsTaken
  <1> QED
    BY <1>2, <1>3, <1>7, <1>8, <1>9 DEF IsJoin

LEMMA CutIs ==
    ASSUME NEW v \in Seq(Area), NEW k \in 1 .. Len(v), NEW b \in Nat,
           v[k].start < b, b <= v[k].end
    PROVE  IsCut(Cut(v, k, b), v, k, b)
  <1> DEFINE a == [v[k] EXCEPT !.end = b - 1]
             c == [v[k] EXCEPT !.start = b]
             w == [v EXCEPT ![k] = a]
             u == InsertAt(w, k + 1, c)
  <1>1. v[k] \in Area /\ v[k].start \in Nat /\ v[k].end \in Nat /\ v[k].end < Pages /\ Pages \in Nat
    BY Numbers
  <1>2. b - 1 \in Page /\ b \in Page
    BY <1>1 DEF Page
  <1>3. a \in Area /\ a.start = v[k].start /\ a.end = b - 1 /\ a.list = v[k].list
    BY <1>1, <1>2 DEF Area
  <1>4. c \in Area /\ c.start = b /\ c.end = v[k].end /\ c.list = v[k].list
    BY <1>1, <1>2 DEF Area
  <1>5. Cut(v, k, b) = u
    BY DEF Cut
  <1> HIDE DEF a, c
  <1>6. w \in Seq(Area) /\ Len(w) = Len(v) /\ w[k] = a /\ \A i \in 1 .. Len(v) : i # k => w[i] = v[i]
    BY <1>3
  <1> HIDE DEF w
  <1>7. k + 1 \in 1 .. Len(w) + 1
    BY <1>6
  <1>8. IsPut(u, w, k + 1, c)
    BY <1>4, <1>6, <1>7, PutIs
  <1> HIDE DEF u
  <1>9. u \in Seq(Area) /\ Len(u) = Len(v) + 1 /\ u[k + 1] = c
    BY <1>6, <1>8 DEF IsPut
  <1>10. u[k] = a
    BY <1>6, <1>8 DEF IsPut
  <1>11. \A i \in 1 .. Len(v) : (i < k => u[i] = v[i]) /\ (i > k => u[i + 1] = v[i])
    BY <1>6, <1>8 DEF IsPut
  <1> QED
    BY <1>3, <1>4, <1>5, <1>9, <1>10, <1>11 DEF IsCut

-----------------------------------------------------------------------------
(* Lists of entries.                                                        *)

Single(s) == \A i, j \in 1 .. Len(s) : i < j => s[i] # s[j]

\* u is s without e, in the same order.
Purged(u, S, s, e) ==
    /\ u \in Seq(S)
    /\ \A i, j \in 1 .. Len(u) :
           i < j => \E m, n \in 1 .. Len(s) : m < n /\ u[i] = s[m] /\ u[j] = s[n]
    /\ \A x : Contains(u, x) <=> Contains(s, x) /\ x # e

LEMMA PurgedIs ==
    ASSUME NEW S, NEW s \in Seq(S), NEW e, Single(s)
    PROVE  Purged(Without(s, e), S, s, e)
  <1>1. CASE ~Contains(s, e)
    <2>1. Without(s, e) = s
      BY <1>1 DEF Without
    <2> QED
      BY <1>1, <2>1 DEF Purged
  <1>2. CASE Contains(s, e)
    <2>1. PICK k \in 1 .. Len(s) : s[k] = e /\ Without(s, e) = RemoveAt(s, k)
      BY <1>2, WithoutIs DEF Single
    <2> DEFINE u == RemoveAt(s, k)
    <2>2. /\ u \in Seq(S) /\ Len(u) = Len(s) - 1
          /\ \A i \in 1 .. Len(s) - 1 : u[i] = IF i < k THEN s[i] ELSE s[i + 1]
      BY RemoveAtIs DEF Shorter
    <2> HIDE DEF u
    <2> DEFINE at(i) == IF i < k THEN i ELSE i + 1
    <2>3. ASSUME NEW i \in 1 .. Len(u)
          PROVE  at(i) \in 1 .. Len(s) /\ at(i) # k /\ u[i] = s[at(i)]
      <3>1. Len(s) \in Nat /\ i \in 1 .. Len(s) - 1
        BY <2>2
      <3>2. u[i] = s[at(i)]
        BY <2>2, <3>1
      <3> QED
        BY <3>1, <3>2
    <2>4. ASSUME NEW i \in 1 .. Len(u), NEW j \in 1 .. Len(u), i < j
          PROVE  \E m, n \in 1 .. Len(s) : m < n /\ u[i] = s[m] /\ u[j] = s[n]
      <3>1. at(i) < at(j)
        BY <2>2, <2>4
      <3> HIDE DEF at
      <3> QED
        BY <2>3, <3>1
    <2>5. ASSUME NEW x, Contains(u, x)
          PROVE  Contains(s, x) /\ x # e
      <3>1. PICK i \in 1 .. Len(u) : u[i] = x
        BY <2>5 DEF Contains
      <3> DEFINE m == at(i)
      <3>2. m \in 1 .. Len(s) /\ m # k /\ s[m] = x
        BY <2>3, <3>1
      <3> HIDE DEF m
      <3>3. m < k \/ k < m
        BY <3>2
      <3>4. s[m] # s[k]
        BY <3>2, <3>3 DEF Single
      <3> QED
        BY <2>1, <3>2, <3>4 DEF Contains
    <2>6. ASSUME NEW x, Contains(s, x), x # e
          PROVE  Contains(u, x)
      <3>1. PICK m \in 1 .. Len(s) : s[m] = x
        BY <2>6 DEF Contains
      <3>2. m # k
        BY <2>1, <2>6, <3>1
      <3>3. CASE m < k
        <4>1. m \in 1 .. Len(u) /\ u[m] = s[m]
          BY <2>2, <3>3
        <4> QED
          BY <3>1, <4>1 DEF Contains
      <3>4. CASE m > k
        <4>1. m - 1 \in 1 .. Len(s) - 1 /\ ~(m - 1 < k) /\ m - 1 + 1 = m
          BY <3>4
        <4>2. m - 1 \in 1 .. Len(u) /\ u[m - 1] = s[m]
          BY <2>2, <4>1
        <4> QED
          BY <3>1, <4>2 DEF Contains
      <3> QED
        BY <3>2, <3>3, <3>4
    <2>7. \A x : Contains(u, x) <=> Contains(s, x) /\ x # e
      BY <2>5, <2>6
    <2> QED
      BY <2>1, <2>2, <2>4, <2>7 DEF Purged, u
  <1> QED
    BY <1>1, <1>2

LEMMA PurgedSingle ==
    ASSUME NEW u, NEW S, NEW s, NEW e, Purged(u, S, s, e), Single(s)
    PROVE  Single(u)
  BY DEF Purged, Single

LEMMA PurgedOrdered ==
    ASSUME NEW d, NEW list \in Seq(Entry), NEW e, Ordered(d, list)
    PROVE  /\ Without(list, e) \in Seq(Entry) /\ Ordered(d, Without(list, e))
           /\ \A x : Contains(Without(list, e), x) <=> Contains(list, x) /\ x # e
  <1> DEFINE u == Without(list, e)
  <1>1. Single(list)
    BY DEF Ordered, Single
  <1>2. Purged(u, Entry, list, e)
    BY <1>1, PurgedIs
  <1> HIDE DEF u
  <1>3. Ordered(d, u)
    <2> SUFFICES ASSUME NEW i \in 1 .. Len(u), NEW j \in 1 .. Len(u), i < j
                 PROVE  u[i] # u[j] /\ d[u[i]].last >= d[u[j]].last
      BY DEF Ordered
    <2>1. PICK m, n \in 1 .. Len(list) : m < n /\ u[i] = list[m] /\ u[j] = list[n]
      BY <1>2 DEF Purged
    <2> QED
      BY <2>1 DEF Ordered
  <1> QED
    BY <1>2, <1>3 DEF Purged, u

\* The place in a list that is sorted downwards
LEMMA FirstSuch ==
    ASSUME NEW n \in Nat, NEW T
    PROVE  \E k \in 1 .. n + 1 : /\ \A i \in 1 .. k - 1 : i \notin T
                                 /\ k <= n => k \in T
  <1>1. CASE \A i \in 1 .. n : i \notin T
    <2>1. n + 1 \in 1 .. n + 1 /\ n + 1 - 1 = n /\ ~(n + 1 <= n)
      OBVIOUS
    <2> QED
      BY <1>1, <2>1
  <1>2. CASE \E i \in 1 .. n : i \in T
    <2> DEFINE U == {i \in 1 .. n : i \in T}
    <2>1. U \subseteq Nat /\ U # {}
      BY <1>2
    <2>2. PICK k \in U : \A m \in U : k <= m
      <3> HIDE DEF U
      <3> QED
        BY <2>1, SmallestNumber
    <2>3. k \in 1 .. n + 1 /\ k \in T
      OBVIOUS
    <2>4. \A i \in 1 .. k - 1 : i \in 1 .. n /\ i < k
      OBVIOUS
    <2>5. \A i \in 1 .. k - 1 : i \notin T
      BY <2>2, <2>4
    <2> QED
      BY <2>3, <2>5
  <1> QED
    BY <1>1, <1>2

LEMMA AddedIs ==
    ASSUME NEW d \in [Entry -> Registration], NEW list \in Seq(Entry), NEW e \in Entry,
           Ordered(d, list), ~Contains(list, e)
    PROVE  /\ AddEntry(d, list, e) \in Seq(Entry) /\ Ordered(d, AddEntry(d, list, e))
           /\ \A x : Contains(AddEntry(d, list, e), x) <=> Contains(list, x) \/ x = e
  <1> DEFINE n == Len(list)
             T == {i \in 1 .. n : d[list[i]].last <= d[e].last}
             Place(k) == /\ \A i \in 1 .. k - 1 : d[list[i]].last > d[e].last
                         /\ k <= n => d[list[k]].last <= d[e].last
  <1>1. /\ n \in Nat /\ d[e].last \in Nat
        /\ \A i \in 1 .. n : list[i] \in Entry /\ d[list[i]].last \in Nat
    <2>1. n \in Nat /\ \A i \in 1 .. n : list[i] \in Entry
      OBVIOUS
    <2>2. \A x \in Entry : d[x].last \in Nat
      BY Numbers
    <2> HIDE DEF n
    <2> QED
      BY <2>1, <2>2
  <1>2. \E k \in 1 .. n + 1 : Place(k)
    <2>1. PICK k \in 1 .. n + 1 : /\ \A i \in 1 .. k - 1 : i \notin T
                                  /\ k <= n => k \in T
      <3> HIDE DEF T, n
      <3> QED
        BY <1>1, FirstSuch
    <2>2. ASSUME NEW i \in 1 .. k - 1
          PROVE  d[list[i]].last > d[e].last
      <3>1. i \in 1 .. n /\ i \notin T
        BY <1>1, <2>1
      <3> QED
        BY <1>1, <3>1
    <2> QED
      BY <2>1, <2>2
  <1> DEFINE k == CHOOSE k \in 1 .. n + 1 : Place(k)
             u == InsertAt(list, k, e)
  <1>3. k \in 1 .. n + 1 /\ Place(k)
    BY <1>2
  <1>4. AddEntry(d, list, e) = u
    BY DEF AddEntry
  <1> HIDE DEF k
  <1>5. Longer(u, Entry, list, k, e)
    BY <1>3, InsertAtIs
  <1> HIDE DEF u
  <1>6. /\ u \in Seq(Entry) /\ Len(u) = n + 1
        /\ \A i \in 1 .. n + 1 : u[i] = IF i < k THEN list[i] ELSE IF i = k THEN e ELSE list[i - 1]
    BY <1>5 DEF Longer
  <1>7. \A i \in 1 .. n : list[i] # e
    BY DEF Contains
  <1>8. \A i \in 1 .. n : /\ i < k => d[list[i]].last > d[e].last
                          /\ i >= k => d[list[i]].last <= d[e].last
    <2>1. ASSUME NEW i \in 1 .. n, i >= k
          PROVE  d[list[i]].last <= d[e].last
      <3>1. k \in 1 .. n /\ d[list[k]].last <= d[e].last
        BY <1>1, <1>3, <2>1
      <3>2. i = k \/ k < i
        BY <1>1, <1>3, <2>1
      <3>3. d[list[i]].last <= d[list[k]].last
        BY <1>1, <3>1, <3>2 DEF Ordered
      <3> QED
        BY <1>1, <3>1, <3>3
    <2>2. \A i \in 1 .. n : i < k => i \in 1 .. k - 1
      BY <1>1, <1>3
    <2> QED
      BY <1>3, <2>1, <2>2
  <1> DEFINE old(i) == IF i < k THEN i ELSE i - 1
  <1>9. \A i \in 1 .. n + 1 : i # k => old(i) \in 1 .. n /\ u[i] = list[old(i)] /\ (i < k <=> old(i) < k)
    BY <1>1, <1>3, <1>6
  <1>10. u[k] = e
    BY <1>1, <1>3, <1>6
  <1>11. Ordered(d, u)
    <2> SUFFICES ASSUME NEW i \in 1 .. n + 1, NEW j \in 1 .. n + 1, i < j
                 PROVE  u[i] # u[j] /\ d[u[i]].last >= d[u[j]].last
      BY <1>6 DEF Ordered
    <2>1. CASE i = k
      <3>1. j # k /\ ~(j < k)
        BY <1>3, <2>1
      <3> DEFINE m == old(j)
      <3>2. m \in 1 .. n /\ u[j] = list[m] /\ ~(m < k)
        BY <1>9, <3>1
      <3> HIDE DEF m
      <3>3. m >= k
        BY <1>1, <1>3, <3>2
      <3> QED
        BY <1>1, <1>7, <1>8, <1>10, <2>1, <3>2, <3>3
    <2>2. CASE j = k
      <3>1. i # k /\ i < k
        BY <1>3, <2>2
      <3> DEFINE m == old(i)
      <3>2. m \in 1 .. n /\ u[i] = list[m] /\ m < k
        BY <1>9, <3>1
      <3> HIDE DEF m
      <3> QED
        BY <1>1, <1>7, <1>8, <1>10, <2>2, <3>2
    <2>3. CASE i # k /\ j # k
      <3>1. old(i) < old(j)
        BY <1>1, <1>3, <2>3
      <3>2. /\ old(i) \in 1 .. n /\ u[i] = list[old(i)]
            /\ old(j) \in 1 .. n /\ u[j] = list[old(j)]
        BY <1>9, <2>3
      <3> HIDE DEF old
      <3> QED
        BY <3>1, <3>2 DEF Ordered
    <2> QED
      BY <2>1, <2>2, <2>3
  <1>12. ASSUME NEW x
         PROVE  Contains(u, x) <=> Contains(list, x) \/ x = e
    <2>1. ASSUME Contains(u, x), x # e
          PROVE  Contains(list, x)
      <3>1. PICK i \in 1 .. n + 1 : u[i] = x
        BY <1>6, <2>1 DEF Contains
      <3>2. i # k
        BY <1>10, <2>1, <3>1
      <3>3. old(i) \in 1 .. n /\ list[old(i)] = x
        BY <1>9, <3>1, <3>2
      <3> HIDE DEF old
      <3> QED
        BY <3>3 DEF Contains
    <2>2. ASSUME Contains(list, x)
          PROVE  Contains(u, x)
      <3>1. PICK m \in 1 .. n : list[m] = x
        BY <2>2 DEF Contains
      <3>2. CASE m < k
        <4>1. m \in 1 .. n + 1 /\ u[m] = x
          BY <1>1, <1>6, <3>1, <3>2
        <4> QED
          BY <1>6, <4>1 DEF Contains
      <3>3. CASE ~(m < k)
        <4>1. m + 1 \in 1 .. n + 1 /\ ~(m + 1 < k) /\ m + 1 # k /\ m + 1 - 1 = m
          BY <1>1, <1>3, <3>3
        <4>2. u[m + 1] = x
          BY <1>6, <3>1, <4>1
        <4> QED
          BY <1>6, <4>1, <4>2 DEF Contains
      <3> QED
        BY <3>2, <3>3
    <2>3. Contains(u, e)
      BY <1>3, <1>6, <1>10 DEF Contains
    <2> QED
      BY <2>1, <2>2, <2>3
  <1> QED
    BY <1>4, <1>6, <1>11, <1>12

-----------------------------------------------------------------------------
(* What keeps the table right.                                             *)

LEMMA ChartIs ==
    ASSUME NEW d, NEW D, NEW e, NEW v, Chart(d, D, e, v)
    PROVE  /\ v \in Seq(Area) /\ Len(v) \in Nat
           /\ \A i \in 1 .. Len(v) :
                  /\ v[i] \in Area /\ v[i].start \in Nat /\ v[i].end \in Nat
                  /\ v[i].start <= v[i].end /\ v[i].end < Pages
                  /\ v[i].list \in Seq(Entry) /\ v[i].list # << >> /\ Ordered(d, v[i].list)
                  /\ Fits(d, D, e, v[i])
           /\ \A i, j \in 1 .. Len(v) : i < j => v[i].end < v[j].start
  <1>1. v \in Seq(Area) /\ Len(v) \in Nat /\ \A i \in 1 .. Len(v) : v[i] \in Area
    BY DEF Chart
  <1>2. \A i, j \in 1 .. Len(v) : i < j => v[i].end < v[j].start
    BY DEF Chart, Apart
  <1>3. ASSUME NEW i \in 1 .. Len(v)
        PROVE  /\ v[i] \in Area /\ v[i].start \in Nat /\ v[i].end \in Nat
               /\ v[i].start <= v[i].end /\ v[i].end < Pages
               /\ v[i].list \in Seq(Entry) /\ v[i].list # << >> /\ Ordered(d, v[i].list)
               /\ Fits(d, D, e, v[i])
    <2>1. v[i] \in Area
      BY <1>1
    <2> DEFINE a == v[i]
    <2>2. Fits(d, D, e, a)
      BY DEF Chart
    <2> HIDE DEF a
    <2>3. a.start <= a.end /\ a.list # << >> /\ Ordered(d, a.list)
      BY <2>2 DEF Fits
    <2>4. a \in Area
      BY <2>1 DEF a
    <2>5. a.start \in Nat /\ a.end \in Nat /\ a.end < Pages /\ a.list \in Seq(Entry)
      BY <2>4, Numbers
    <2> QED
      BY <2>2, <2>3, <2>4, <2>5 DEF a
  <1> QED
    BY <1>1, <1>2, <1>3

LEMMA ChartCut ==
    ASSUME NEW d, NEW D, NEW e, Entries(d, D, e), NEW v, Chart(d, D, e, v),
           NEW k \in 1 .. Len(v), NEW b \in Nat, v[k].start < b, b <= v[k].end,
           NEW u, IsCut(u, v, k, b)
    PROVE  Chart(d, D, e, u)
  <1> DEFINE n == Len(v)
  <1>1. /\ v \in Seq(Area) /\ n \in Nat
        /\ \A i \in 1 .. n : /\ v[i] \in Area /\ v[i].start \in Nat /\ v[i].end \in Nat
                             /\ v[i].start <= v[i].end /\ Fits(d, D, e, v[i])
        /\ \A i, j \in 1 .. n : i < j => v[i].end < v[j].start
    BY ChartIs
  <1> HIDE DEF n
  <1>2. /\ u \in Seq(Area) /\ Len(u) = n + 1
        /\ \A i \in 1 .. n : (i < k => u[i] = v[i]) /\ (i > k => u[i + 1] = v[i])
        /\ u[k].start = v[k].start /\ u[k].end = b - 1 /\ u[k].list = v[k].list
        /\ u[k + 1].start = b /\ u[k + 1].end = v[k].end /\ u[k + 1].list = v[k].list
    BY DEF IsCut, n
  <1>3. k \in 1 .. n
    BY DEF n
  <1>4. k \in 1 .. Len(u) /\ k + 1 \in 1 .. Len(u) /\ u[k] \in Area /\ u[k + 1] \in Area
    BY <1>1, <1>2, <1>3
  <1> DEFINE old(i) == IF i <= k THEN i ELSE i - 1
  <1>5. ASSUME NEW i \in 1 .. n + 1
        PROVE  /\ old(i) \in 1 .. n
               /\ i # k /\ i # k + 1 => u[i] = v[old(i)]
               /\ v[old(i)].start <= u[i].start /\ u[i].end <= v[old(i)].end
    <2>1. CASE i < k
      BY <1>1, <1>2, <1>3, <2>1
    <2>2. CASE i = k
      BY <1>1, <1>2, <1>3, <2>2
    <2>3. CASE i = k + 1
      BY <1>1, <1>2, <1>3, <2>3
    <2>4. CASE i > k + 1
      <3>1. i - 1 \in 1 .. n /\ i - 1 > k /\ i - 1 + 1 = i
        BY <1>1, <1>3, <2>4
      <3>2. u[i] = v[i - 1]
        BY <1>2, <3>1
      <3> QED
        BY <1>1, <1>3, <2>4, <3>1, <3>2
    <2> QED
      BY <1>1, <1>3, <2>1, <2>2, <2>3, <2>4
  <1>6. ASSUME NEW i \in 1 .. n + 1, NEW j \in 1 .. n + 1, i < j
        PROVE  u[i].end < u[j].start
    <2>1. CASE i = k /\ j = k + 1
      BY <1>2, <2>1
    <2>2. CASE ~(i = k /\ j = k + 1)
      <3>1. old(i) < old(j)
        BY <1>1, <1>3, <1>6, <2>2
      <3>2. u[i] \in Area /\ u[j] \in Area
        BY <1>2
      <3>3. u[i].end \in Nat /\ u[j].start \in Nat
        BY <3>2, Numbers
      <3>4. /\ old(i) \in 1 .. n /\ u[i].end <= v[old(i)].end
            /\ old(j) \in 1 .. n /\ v[old(j)].start <= u[j].start
        BY <1>5
      <3> DEFINE x == v[old(i)].end
                 y == v[old(j)].start
      <3> HIDE DEF old
      <3>5. x < y /\ x \in Nat /\ y \in Nat
        BY <1>1, <3>1, <3>4
      <3>6. u[i].end <= x /\ y <= u[j].start
        BY <3>4
      <3> HIDE DEF x, y
      <3> QED
        BY <3>3, <3>5, <3>6
    <2> QED
      BY <2>1, <2>2
  <1>7. ASSUME NEW i \in 1 .. n + 1
        PROVE  Fits(d, D, e, u[i])
    <2>1. CASE i # k /\ i # k + 1
      BY <1>1, <1>5, <2>1
    <2>2. Fits(d, D, e, v[k]) /\ v[k] \in Area /\ v[k].start \in Nat /\ v[k].end \in Nat
      BY <1>1, <1>3
    <2>3. CASE i = k
      <3> DEFINE a == u[k]
      <3>1. a \in Area /\ a.list = v[k].list /\ v[k].start <= a.start /\ a.end <= v[k].end
            /\ a.start <= a.end
        BY <1>2, <1>4, <2>2
      <3> HIDE DEF a
      <3>2. Fits(d, D, e, a)
        BY <2>2, <3>1, PartFits
      <3> QED
        BY <2>3, <3>2 DEF a
    <2>4. CASE i = k + 1
      <3> DEFINE a == u[k + 1]
      <3>1. a \in Area /\ a.list = v[k].list /\ v[k].start <= a.start /\ a.end <= v[k].end
            /\ a.start <= a.end
        BY <1>2, <1>4, <2>2
      <3> HIDE DEF a
      <3>2. Fits(d, D, e, a)
        BY <2>2, <3>1, PartFits
      <3> QED
        BY <2>4, <3>2 DEF a
    <2> QED
      BY <2>1, <2>3, <2>4
  <1>8. ASSUME NEW p \in Nat, NEW i \in 1 .. n, Within(v[i], p)
        PROVE  \E j \in 1 .. n + 1 : Within(u[j], p)
    <2>1. CASE i < k
      <3>1. i \in 1 .. n + 1 /\ u[i] = v[i]
        BY <1>1, <1>2, <2>1
      <3> QED
        BY <1>8, <3>1
    <2>2. CASE i > k
      <3>1. i + 1 \in 1 .. n + 1 /\ u[i + 1] = v[i]
        BY <1>1, <1>2, <2>2
      <3> QED
        BY <1>8, <3>1
    <2>3. CASE i = k
      <3>1. v[k].start <= p /\ p <= v[k].end
        BY <1>8, <2>3 DEF Within
      <3>2. CASE p < b
        <4>1. Within(u[k], p)
          BY <1>2, <3>1, <3>2 DEF Within
        <4> QED
          BY <1>2, <1>4, <4>1
      <3>3. CASE ~(p < b)
        <4>1. Within(u[k + 1], p)
          BY <1>2, <3>1, <3>3 DEF Within
        <4> QED
          BY <1>2, <1>4, <4>1
      <3> QED
        BY <3>2, <3>3
    <2> QED
      BY <1>1, <1>3, <2>1, <2>2, <2>3
  <1>9. Holds(d, D, u)
    <2> SUFFICES ASSUME NEW x \in D, NEW p \in d[x].first .. d[x].last
                 PROVE  \E j \in 1 .. Len(u) : Within(u[j], p)
      BY DEF Holds
    <2>1. PICK i \in 1 .. n : Within(v[i], p)
      BY DEF Chart, Holds, n
    <2>2. d[x].first \in Nat /\ d[x].last \in Nat
      BY Numbers DEF Entries
    <2>3. p \in Nat
      BY <2>2
    <2> QED
      BY <1>2, <1>8, <2>1, <2>3
  <1>10. Apart(u)
    BY <1>2, <1>6 DEF Apart
  <1> HIDE DEF old
  <1> QED
    BY <1>2, <1>7, <1>9, <1>10 DEF Chart

\* A new area in a gap, for e alone
LEMMA ChartPut ==
    ASSUME NEW d, NEW D, NEW e \in Entry, Entries(d, D, e), NEW v, Chart(d, D, e, v),
           NEW k \in 1 .. Len(v) + 1, NEW a \in Area, a.start <= a.end, a.list = <<e>>,
           \A i \in 1 .. Len(v) : i < k => v[i].end < a.start,
           \A i \in 1 .. Len(v) : i >= k => a.end < v[i].start,
           NEW u, IsPut(u, v, k, a)
    PROVE  Chart(d, D, e, u)
  <1> DEFINE n == Len(v)
  <1>1. /\ v \in Seq(Area) /\ n \in Nat
        /\ \A i \in 1 .. n : /\ v[i] \in Area /\ v[i].start \in Nat /\ v[i].end \in Nat
                             /\ v[i].start <= v[i].end /\ Fits(d, D, e, v[i])
        /\ \A i, j \in 1 .. n : i < j => v[i].end < v[j].start
    BY ChartIs
  <1> HIDE DEF n
  <1>2. /\ u \in Seq(Area) /\ Len(u) = n + 1 /\ u[k] = a
        /\ \A i \in 1 .. n : (i < k => u[i] = v[i]) /\ (i >= k => u[i + 1] = v[i])
    BY DEF IsPut, n
  <1>3. k \in 1 .. n + 1 /\ a.start \in Nat /\ a.end \in Nat
    BY Numbers DEF n
  <1>4. \A i \in 1 .. n : (i < k => v[i].end < a.start) /\ (i >= k => a.end < v[i].start)
    BY DEF n
  <1> DEFINE old(i) == IF i <= k THEN i ELSE i - 1
  <1>5. ASSUME NEW i \in 1 .. n + 1, i # k
        PROVE  old(i) \in 1 .. n /\ u[i] = v[old(i)] /\ (i < k <=> old(i) < k)
    <2>1. CASE i < k
      BY <1>1, <1>2, <1>3, <2>1
    <2>2. CASE i > k
      <3>1. i - 1 \in 1 .. n /\ i - 1 >= k /\ i - 1 + 1 = i
        BY <1>1, <1>3, <2>2
      <3>2. u[i] = v[i - 1]
        BY <1>2, <3>1
      <3> QED
        BY <1>1, <1>3, <2>2, <3>1, <3>2
    <2> QED
      BY <1>1, <1>3, <1>5, <2>1, <2>2
  <1>6. ASSUME NEW i \in 1 .. n + 1, NEW j \in 1 .. n + 1, i < j
        PROVE  u[i].end < u[j].start
    <2> DEFINE x == old(i)
               y == old(j)
    <2>1. CASE i = k
      <3>1. j # k /\ ~(j < k)
        BY <1>3, <1>6, <2>1
      <3>2. y \in 1 .. n /\ u[j] = v[y] /\ ~(y < k)
        BY <1>5, <3>1
      <3> HIDE DEF y
      <3>3. y >= k
        BY <1>1, <1>3, <3>2
      <3> QED
        BY <1>2, <1>4, <2>1, <3>2, <3>3
    <2>2. CASE j = k
      <3>1. i # k /\ i < k
        BY <1>3, <1>6, <2>2
      <3>2. x \in 1 .. n /\ u[i] = v[x] /\ x < k
        BY <1>5, <3>1
      <3> HIDE DEF x
      <3> QED
        BY <1>2, <1>4, <2>2, <3>2
    <2>3. CASE i # k /\ j # k
      <3>1. x < y
        BY <1>1, <1>3, <1>6, <2>3
      <3>2. x \in 1 .. n /\ u[i] = v[x] /\ y \in 1 .. n /\ u[j] = v[y]
        BY <1>5, <2>3
      <3> HIDE DEF x, y
      <3> QED
        BY <1>1, <3>1, <3>2
    <2> QED
      BY <2>1, <2>2, <2>3
  <1>7. ASSUME NEW x \in D
        PROVE  Off(d, x, a)
    <2>1. d[x].first \in Nat /\ d[x].last \in Nat /\ d[x].first <= d[x].last
      BY Numbers DEF Entries
    <2> SUFFICES ASSUME ~Off(d, x, a) PROVE FALSE
      OBVIOUS
    <2> DEFINE p == IF a.start <= d[x].first THEN d[x].first ELSE a.start
    <2>2. p \in Nat /\ p \in d[x].first .. d[x].last /\ a.start <= p /\ p <= a.end
      BY <1>3, <2>1 DEF Off
    <2> HIDE DEF p
    <2>3. PICK i \in 1 .. n : Within(v[i], p)
      BY <2>2 DEF Chart, Holds, n
    <2>4. v[i].start \in Nat /\ v[i].end \in Nat /\ v[i].start <= p /\ p <= v[i].end
      BY <1>1, <2>3 DEF Within
    <2>5. CASE i < k
      BY <1>3, <1>4, <2>2, <2>4, <2>5
    <2>6. CASE i >= k
      BY <1>3, <1>4, <2>2, <2>4, <2>6
    <2> QED
      BY <1>3, <2>5, <2>6
  <1>8. Fits(d, D, e, a)
    <2>1. a.list # << >> /\ Ordered(d, a.list)
      BY DEF Ordered
    <2>2. ASSUME NEW x \in Entry \ {e}
          PROVE  Contains(a.list, x) <=> x \in D /\ Over(d, x, a)
      <3>1. ~Contains(a.list, x)
        BY DEF Contains
      <3>2. x \in D => ~Over(d, x, a)
        <4> SUFFICES ASSUME x \in D, Over(d, x, a) PROVE FALSE
          OBVIOUS
        <4>1. d[x].first \in Nat /\ d[x].last \in Nat /\ Off(d, x, a)
          BY <1>7, Numbers DEF Entries
        <4> QED
          BY <1>3, <4>1 DEF Over, Off
      <3> QED
        BY <3>1, <3>2
    <2>3. Lists(d, D, e, a)
      BY <2>2 DEF Lists
    <2> QED
      BY <1>7, <2>1, <2>3 DEF Fits
  <1>9. \A i \in 1 .. n + 1 : Fits(d, D, e, u[i])
    <2>1. ASSUME NEW i \in 1 .. n + 1
          PROVE  Fits(d, D, e, u[i])
      <3>1. CASE i = k
        BY <1>2, <1>8, <3>1
      <3>2. CASE i # k
        <4>1. old(i) \in 1 .. n /\ u[i] = v[old(i)]
          BY <1>5, <3>2
        <4> HIDE DEF old
        <4> QED
          BY <1>1, <4>1
      <3> QED
        BY <3>1, <3>2
    <2> QED
      BY <2>1
  <1>10. Holds(d, D, u)
    <2> SUFFICES ASSUME NEW x \in D, NEW p \in d[x].first .. d[x].last
                 PROVE  \E j \in 1 .. Len(u) : Within(u[j], p)
      BY DEF Holds
    <2>1. PICK i \in 1 .. n : Within(v[i], p)
      BY DEF Chart, Holds, n
    <2>2. CASE i < k
      <3>1. i \in 1 .. n + 1 /\ u[i] = v[i]
        BY <1>1, <1>2, <2>2
      <3> QED
        BY <1>2, <2>1, <3>1
    <2>3. CASE i >= k
      <3>1. i + 1 \in 1 .. n + 1 /\ u[i + 1] = v[i]
        BY <1>1, <1>2, <2>3
      <3> QED
        BY <1>2, <2>1, <3>1
    <2> QED
      BY <1>3, <2>2, <2>3
  <1>11. Apart(u)
    BY <1>2, <1>6 DEF Apart
  <1> HIDE DEF old
  <1> QED
    BY <1>2, <1>9, <1>10, <1>11 DEF Chart

\* An area whose list, but for e, stays
LEMMA ChartListed ==
    ASSUME NEW d, NEW D, NEW e, Entries(d, D, e), NEW v, Chart(d, D, e, v),
           NEW k \in 1 .. Len(v), NEW list \in Seq(Entry), list # << >>, Ordered(d, list),
           \A x \in Entry \ {e} : Contains(list, x) <=> Contains(v[k].list, x),
           NEW u, IsListed(u, v, k, list)
    PROVE  Chart(d, D, e, u)
  <1> DEFINE n == Len(v)
  <1>1. /\ v \in Seq(Area) /\ n \in Nat
        /\ \A i \in 1 .. n : Fits(d, D, e, v[i])
        /\ \A i, j \in 1 .. n : i < j => v[i].end < v[j].start
    BY ChartIs
  <1>2. /\ u \in Seq(Area) /\ Len(u) = n
        /\ \A i \in 1 .. n : i # k => u[i] = v[i]
        /\ u[k].start = v[k].start /\ u[k].end = v[k].end /\ u[k].list = list
    BY DEF IsListed
  <1>3. \A i \in 1 .. n : u[i].start = v[i].start /\ u[i].end = v[i].end
    BY <1>2
  <1> DEFINE a == u[k]
             b == v[k]
  <1>4. Fits(d, D, e, b)
    BY <1>1
  <1>5. a.start = b.start /\ a.end = b.end /\ a.list = list
    BY <1>2
  <1>6. \A x \in Entry \ {e} : Contains(list, x) <=> Contains(b.list, x)
    OBVIOUS
  <1> HIDE DEF a, b
  <1>7. \A x : (Over(d, x, a) <=> Over(d, x, b)) /\ (Off(d, x, a) <=> Off(d, x, b))
    BY <1>5 DEF Over, Off
  <1>8. Fits(d, D, e, a)
    BY <1>4, <1>5, <1>6, <1>7 DEF Fits, Lists
  <1>9. \A i \in 1 .. n : Fits(d, D, e, u[i])
    BY <1>1, <1>2, <1>8 DEF a
  <1>10. Apart(u)
    BY <1>1, <1>2, <1>3 DEF Apart
  <1>11. \A i \in 1 .. n : \A p : Within(u[i], p) <=> Within(v[i], p)
    BY <1>3 DEF Within
  <1>12. Holds(d, D, u)
    <2>1. Holds(d, D, v)
      BY DEF Chart
    <2> QED
      BY <1>2, <1>11, <2>1 DEF Holds
  <1> QED
    BY <1>2, <1>9, <1>10, <1>12 DEF Chart

\* An area that is only there for e goes.
LEMMA ChartTaken ==
    ASSUME NEW d, NEW D, NEW e, Entries(d, D, e), NEW v, Chart(d, D, e, v),
           NEW k \in 1 .. Len(v), \A x \in Entry \ {e} : ~Contains(v[k].list, x),
           NEW u, IsTaken(u, v, k)
    PROVE  Chart(d, D, e, u)
  <1> DEFINE n == Len(v)
  <1>1. /\ v \in Seq(Area) /\ n \in Nat
        /\ \A i \in 1 .. n : v[i].start \in Nat /\ v[i].end \in Nat /\ Fits(d, D, e, v[i])
        /\ \A i, j \in 1 .. n : i < j => v[i].end < v[j].start
    BY ChartIs
  <1>2. k \in 1 .. n /\ Fits(d, D, e, v[k]) /\ \A x \in Entry \ {e} : ~Contains(v[k].list, x)
    BY <1>1
  <1> HIDE DEF n
  <1>3. /\ u \in Seq(Area) /\ Len(u) = n - 1
        /\ \A i \in 1 .. n : (i < k => u[i] = v[i]) /\ (i > k => u[i - 1] = v[i])
    BY DEF IsTaken, n
  <1> DEFINE old(i) == IF i < k THEN i ELSE i + 1
  <1>4. ASSUME NEW i \in 1 .. n - 1
        PROVE  old(i) \in 1 .. n /\ u[i] = v[old(i)]
    <2>1. CASE i < k
      BY <1>1, <1>3, <2>1
    <2>2. CASE ~(i < k)
      <3>1. i + 1 \in 1 .. n /\ i + 1 > k /\ i + 1 - 1 = i
        BY <1>1, <1>2, <2>2
      <3>2. u[i] = v[i + 1]
        BY <1>3, <3>1
      <3> QED
        BY <2>2, <3>1, <3>2
    <2> QED
      BY <2>1, <2>2
  <1>5. ASSUME NEW i \in 1 .. n - 1, NEW j \in 1 .. n - 1, i < j
        PROVE  u[i].end < u[j].start
    <2> DEFINE x == old(i)
               y == old(j)
    <2>1. x < y
      BY <1>1, <1>2, <1>5
    <2>2. x \in 1 .. n /\ u[i] = v[x] /\ y \in 1 .. n /\ u[j] = v[y]
      BY <1>4
    <2> HIDE DEF x, y
    <2> QED
      BY <1>1, <2>1, <2>2
  <1>6. \A i \in 1 .. n - 1 : Fits(d, D, e, u[i])
    <2>1. ASSUME NEW i \in 1 .. n - 1
          PROVE  Fits(d, D, e, u[i])
      <3>1. old(i) \in 1 .. n /\ u[i] = v[old(i)]
        BY <1>4
      <3> HIDE DEF old
      <3> QED
        BY <1>1, <3>1
    <2> QED
      BY <2>1
  <1>7. ASSUME NEW x \in D, NEW p \in d[x].first .. d[x].last
        PROVE  ~Within(v[k], p)
    <2> SUFFICES ASSUME Within(v[k], p) PROVE FALSE
      OBVIOUS
    <2>1. d[x].first \in Nat /\ d[x].last \in Nat /\ x \in Entry \ {e}
      BY Numbers DEF Entries
    <2>2. ~Over(d, x, v[k])
      BY <1>2, <2>1 DEF Fits, Lists
    <2>3. Off(d, x, v[k])
      BY <1>2, <2>2 DEF Fits
    <2>4. v[k].start \in Nat /\ v[k].end \in Nat
      BY <1>1, <1>2
    <2> QED
      BY <2>1, <2>3, <2>4 DEF Off, Within
  <1>8. Holds(d, D, u)
    <2> SUFFICES ASSUME NEW x \in D, NEW p \in d[x].first .. d[x].last
                 PROVE  \E j \in 1 .. Len(u) : Within(u[j], p)
      BY DEF Holds
    <2>1. PICK i \in 1 .. n : Within(v[i], p)
      BY DEF Chart, Holds, n
    <2>2. i # k
      BY <1>7, <2>1
    <2>3. CASE i < k
      <3>1. i \in 1 .. n - 1 /\ u[i] = v[i]
        BY <1>1, <1>2, <1>3, <2>3
      <3> QED
        BY <1>3, <2>1, <3>1
    <2>4. CASE i > k
      <3>1. i - 1 \in 1 .. n - 1 /\ u[i - 1] = v[i]
        BY <1>1, <1>2, <1>3, <2>4
      <3> QED
        BY <1>3, <2>1, <3>1
    <2> QED
      BY <1>2, <2>2, <2>3, <2>4
  <1>9. Apart(u)
    BY <1>3, <1>5 DEF Apart
  <1> HIDE DEF old
  <1> QED
    BY <1>3, <1>6, <1>8, <1>9 DEF Chart

\* Two areas that touch and list the same become one.
LEMMA ChartJoin ==
    ASSUME NEW d, NEW D, NEW e, Entries(d, D, e), NEW v, Chart(d, D, e, v), NEW k, Joins(v, k),
           NEW u, IsJoin(u, v, k)
    PROVE  Chart(d, D, e, u)
  <1> DEFINE n == Len(v)
  <1>1. /\ v \in Seq(Area) /\ n \in Nat
        /\ \A i \in 1 .. n : /\ v[i] \in Area /\ v[i].start \in Nat /\ v[i].end \in Nat
                             /\ v[i].start <= v[i].end /\ Fits(d, D, e, v[i])
        /\ \A i, j \in 1 .. n : i < j => v[i].end < v[j].start
    BY ChartIs
  <1>2. /\ k \in 1 .. n - 1 /\ v[k].end + 1 = v[k + 1].start
        /\ v[k].list = v[k + 1].list
    BY DEF Joins
  <1> HIDE DEF n
  <1>3. /\ u \in Seq(Area) /\ Len(u) = n - 1
        /\ \A i \in 1 .. n : (i < k => u[i] = v[i]) /\ (i > k + 1 => u[i - 1] = v[i])
        /\ u[k].start = v[k].start /\ u[k].end = v[k + 1].end /\ u[k].list = v[k].list
    BY DEF IsJoin, n
  <1>4. k \in 1 .. n /\ k + 1 \in 1 .. n /\ k \in Nat
    BY <1>1, <1>2
  <1> DEFINE old(i) == IF i <= k THEN i ELSE i + 1
             end(i) == IF i < k THEN i ELSE i + 1
  <1>5. ASSUME NEW i \in 1 .. n - 1
        PROVE  /\ old(i) \in 1 .. n /\ u[i].start = v[old(i)].start
               /\ end(i) \in 1 .. n /\ u[i].end = v[end(i)].end
               /\ i # k => u[i] = v[old(i)]
    <2>1. CASE i < k
      BY <1>1, <1>2, <1>3, <2>1
    <2>2. CASE i = k
      BY <1>1, <1>2, <1>3, <2>2
    <2>3. CASE i > k
      <3>1. i + 1 \in 1 .. n /\ i + 1 > k + 1 /\ i + 1 - 1 = i
        BY <1>1, <1>2, <2>3
      <3>2. u[i] = v[i + 1]
        BY <1>3, <3>1
      <3> QED
        BY <1>4, <2>3, <3>1, <3>2
    <2> QED
      BY <1>4, <2>1, <2>2, <2>3
  <1>6. ASSUME NEW i \in 1 .. n - 1, NEW j \in 1 .. n - 1, i < j
        PROVE  u[i].end < u[j].start
    <2> DEFINE x == end(i)
               y == old(j)
    <2>1. x < y
      BY <1>1, <1>2, <1>6
    <2>2. x \in 1 .. n /\ u[i].end = v[x].end /\ y \in 1 .. n /\ u[j].start = v[y].start
      BY <1>5
    <2> HIDE DEF x, y
    <2> QED
      BY <1>1, <2>1, <2>2
  <1>7. Fits(d, D, e, u[k])
    <2> DEFINE a == v[k]
               b == v[k + 1]
               c == u[k]
    <2>1. /\ Fits(d, D, e, a) /\ Fits(d, D, e, b)
          /\ a.start \in Nat /\ a.end \in Nat /\ b.start \in Nat /\ b.end \in Nat
          /\ a.start <= a.end /\ b.start <= b.end
      BY <1>1, <1>4
    <2>2. c.start = a.start /\ c.end = b.end /\ c.list = a.list /\ a.list = b.list
          /\ a.end + 1 = b.start
      BY <1>2, <1>3
    <2> HIDE DEF a, b, c
    <2>3. ASSUME NEW x \in D
          PROVE  /\ Over(d, x, a) <=> Over(d, x, c)
                 /\ Over(d, x, c) \/ Off(d, x, c)
      <3>1. /\ d[x].first \in Nat /\ d[x].last \in Nat /\ d[x].first <= d[x].last
            /\ x \in Entry \ {e}
        BY Numbers DEF Entries
      <3>2. Over(d, x, a) <=> Over(d, x, b)
        <4>1. Contains(a.list, x) <=> Over(d, x, a)
          BY <2>1, <3>1 DEF Fits, Lists
        <4>2. Contains(b.list, x) <=> Over(d, x, b)
          BY <2>1, <3>1 DEF Fits, Lists
        <4> QED
          BY <2>2, <4>1, <4>2
      <3>3. (Over(d, x, a) \/ Off(d, x, a)) /\ (Over(d, x, b) \/ Off(d, x, b))
        BY <2>1 DEF Fits
      <3> QED
        BY <2>1, <2>2, <3>1, <3>2, <3>3 DEF Over, Off
    <2>4. Lists(d, D, e, c)
      BY <2>1, <2>2, <2>3 DEF Fits, Lists
    <2>5. c.start <= c.end
      BY <2>1, <2>2
    <2>6. Fits(d, D, e, c)
      BY <2>1, <2>2, <2>3, <2>4, <2>5 DEF Fits
    <2> QED
      BY <2>6 DEF c
  <1>8. \A i \in 1 .. n - 1 : Fits(d, D, e, u[i])
    <2>1. ASSUME NEW i \in 1 .. n - 1
          PROVE  Fits(d, D, e, u[i])
      <3>1. CASE i = k
        BY <1>7, <3>1
      <3>2. CASE i # k
        <4>1. old(i) \in 1 .. n /\ u[i] = v[old(i)]
          BY <1>5, <3>2
        <4> HIDE DEF old
        <4> QED
          BY <1>1, <4>1
      <3> QED
        BY <3>1, <3>2
    <2> QED
      BY <2>1
  <1>9. Holds(d, D, u)
    <2> SUFFICES ASSUME NEW x \in D, NEW p \in d[x].first .. d[x].last
                 PROVE  \E j \in 1 .. Len(u) : Within(u[j], p)
      BY DEF Holds
    <2>1. PICK i \in 1 .. n : Within(v[i], p)
      BY DEF Chart, Holds, n
    <2>2. CASE i < k
      <3>1. i \in 1 .. n - 1 /\ u[i] = v[i]
        BY <1>2, <1>3, <2>2
      <3> QED
        BY <1>3, <2>1, <3>1
    <2>3. CASE i > k + 1
      <3>1. i - 1 \in 1 .. n - 1 /\ u[i - 1] = v[i]
        BY <1>1, <1>2, <1>3, <2>3
      <3> QED
        BY <1>3, <2>1, <3>1
    <2>4. CASE i = k \/ i = k + 1
      <3>1. /\ v[k].start \in Nat /\ v[k].end \in Nat /\ v[k].start <= v[k].end
            /\ v[k + 1].start \in Nat /\ v[k + 1].end \in Nat /\ v[k + 1].start <= v[k + 1].end
        BY <1>1, <1>4
      <3>2. d[x].first \in Nat /\ d[x].last \in Nat
        BY Numbers DEF Entries
      <3>3. p \in Nat
        BY <3>2
      <3>4. v[k].start <= p /\ p <= v[k + 1].end
        <4>1. CASE i = k
          BY <1>2, <2>1, <3>1, <3>3, <4>1 DEF Within
        <4>2. CASE i = k + 1
          BY <1>2, <2>1, <3>1, <3>3, <4>2 DEF Within
        <4> QED
          BY <2>4, <4>1, <4>2
      <3>5. Within(u[k], p)
        BY <1>3, <3>4 DEF Within
      <3> QED
        BY <1>2, <1>3, <3>5
    <2> QED
      BY <1>1, <1>2, <2>2, <2>3, <2>4
  <1>10. Apart(u)
    BY <1>3, <1>6 DEF Apart
  <1> HIDE DEF old, end
  <1> QED
    BY <1>3, <1>8, <1>9, <1>10 DEF Chart

-----------------------------------------------------------------------------
(* Taking an entry out of the table.                                        *)

LEMMA CountedIs ==
    ASSUME NEW c \in Pinned, NEW n \in Int
    PROVE  Counted(c, n) \in Pinned
  <1>1. Word \in Nat /\ Word > 0
    BY CacheAssumption
  <1> DEFINE m == c + n
  <1>2. m \in Int
    BY <1>1 DEF Pinned
  <1> HIDE DEF m
  <1>3. m % Word \in 0 .. Word - 1
    BY <1>1, <1>2
  <1> QED
    BY <1>3 DEF Counted, Pinned, m

LEMMA RemovalIs ==
    ASSUME NEW v \in Seq(Area), NEW c \in Pinned, NEW k \in Nat,
           NEW w, w = [vmas |-> v, pinned |-> c, k |-> k]
    PROVE  w \in Removal /\ w.vmas = v /\ w.pinned = c /\ w.k = k
  BY DEF Removal

LEMMA RemovalHas ==
    ASSUME NEW w \in Removal
    PROVE  w.vmas \in Seq(Area) /\ w.pinned \in Pinned /\ w.k \in Nat
           /\ w = [vmas |-> w.vmas, pinned |-> w.pinned, k |-> w.k]
  BY DEF Removal

\* e is on no list up to the one of area k, and on none behind its last page.
Clear(d, e, v, k) ==
    /\ \A i \in 1 .. Len(v) : i <= k => ~Contains(v[i].list, e)
    /\ \A i \in 1 .. Len(v) : Contains(v[i].list, e) => v[i].start <= d[e].last

\* The states of the merges around an area that reaches page s.
Merging(d, D, e, s) ==
    {w \in Removal : /\ w.k \in 1 .. Len(w.vmas) /\ Chart(d, D, e, w.vmas)
                     /\ Clear(d, e, w.vmas, w.k) /\ s <= w.vmas[w.k].end}

\* The states of the removal after i turns.
Removing(d, D, e, i) ==
    {w \in Removal : /\ w.k >= 1 /\ Chart(d, D, e, w.vmas) /\ Clear(d, e, w.vmas, w.k - 1)
                     /\ w.k <= Len(w.vmas) =>
                            w.vmas[w.k].start >= i \/ w.vmas[w.k].start > d[e].last}

LEMMA JoinedKeeps ==
    ASSUME NEW d, NEW D, NEW e, Entries(d, D, e), NEW s \in Nat,
           NEW w \in Merging(d, D, e, s), NEW j, j = w.k - 1 \/ j = w.k, Joins(w.vmas, j)
    PROVE  Joined(w, j) \in Merging(d, D, e, s)
  <1> DEFINE v == w.vmas
             k == w.k
             u == Join(v, j)
             c == Counted(w.pinned, -Size(v[j + 1]))
             x == Joined(w, j)
  <1>1. /\ w \in Removal /\ k \in 1 .. Len(v) /\ Chart(d, D, e, v) /\ Clear(d, e, v, k)
        /\ s <= v[k].end
    BY DEF Merging
  <1>2. v \in Seq(Area) /\ w.pinned \in Pinned /\ k \in Nat
    BY <1>1, RemovalHas
  <1> HIDE DEF v, k
  <1>3. j \in 1 .. Len(v) - 1 /\ Joins(v, j)
    BY DEF Joins, v
  <1>4. IsJoin(u, v, j)
    BY <1>2, <1>3, JoinIs
  <1>5. Chart(d, D, e, u)
    BY <1>1, <1>3, <1>4, ChartJoin
  <1>6. Len(v) \in Nat /\ j \in 1 .. Len(v) /\ j + 1 \in 1 .. Len(v) /\ k \in 1 .. Len(v)
        /\ (j = k - 1 \/ j = k)
    BY <1>1, <1>2, <1>3 DEF k
  <1>7. \A i \in 1 .. Len(v) : v[i].start \in Nat /\ v[i].end \in Nat /\ v[i].start <= v[i].end
    BY <1>1, ChartIs
  <1>8. c \in Pinned
    <2> DEFINE n == -Size(v[j + 1])
    <2>1. n \in Int
      BY <1>6, <1>7 DEF Size
    <2> HIDE DEF n
    <2> QED
      BY <1>2, <2>1, CountedIs DEF n
  <1>9. x = [vmas |-> u, pinned |-> c, k |-> j]
    BY DEF Joined, v
  <1>10. u \in Seq(Area) /\ Len(u) = Len(v) - 1
         /\ (\A i \in 1 .. Len(v) : (i < j => u[i] = v[i]) /\ (i > j + 1 => u[i - 1] = v[i]))
         /\ u[j].end = v[j + 1].end /\ u[j].list = v[j].list
    BY <1>4 DEF IsJoin
  <1> HIDE DEF u, c, x
  <1>11. x \in Removal /\ x.vmas = u /\ x.k = j
    BY <1>6, <1>8, <1>9, <1>10, RemovalIs
  <1>12. \A i \in 1 .. Len(u) : i <= j => ~Contains(u[i].list, e)
    <2>1. ASSUME NEW i \in 1 .. Len(u), i <= j
          PROVE  ~Contains(u[i].list, e)
      <3>1. i \in 1 .. Len(v) /\ i <= k /\ u[i].list = v[i].list
        <4>1. CASE i = j
          BY <1>6, <1>10, <4>1
        <4>2. CASE i < j
          BY <1>6, <1>10, <4>2
        <4> QED
          BY <1>6, <2>1, <4>1, <4>2
      <3> QED
        BY <1>1, <3>1 DEF Clear
    <2> QED
      BY <2>1
  <1>13. \A i \in 1 .. Len(u) : Contains(u[i].list, e) => u[i].start <= d[e].last
    <2>1. ASSUME NEW i \in 1 .. Len(u), Contains(u[i].list, e)
          PROVE  u[i].start <= d[e].last
      <3>1. i > j
        BY <1>6, <1>12, <2>1
      <3>2. i + 1 \in 1 .. Len(v) /\ i + 1 > j + 1 /\ i + 1 - 1 = i
        BY <1>6, <1>10, <3>1
      <3>3. u[i] = v[i + 1]
        BY <1>10, <3>2
      <3> QED
        BY <1>1, <2>1, <3>2, <3>3 DEF Clear
    <2> QED
      BY <2>1
  <1>14. s <= u[j].end
    <2>1. CASE j = k
      <3>1. v[k].end < v[j + 1].start
        BY <1>1, <1>6, <2>1, ChartIs
      <3> QED
        BY <1>1, <1>6, <1>7, <1>10, <3>1
    <2>2. CASE j = k - 1
      <3>1. j + 1 = k
        BY <1>6, <2>2
      <3> QED
        BY <1>1, <1>10, <3>1
    <2> QED
      BY <1>6, <2>1, <2>2
  <1>15. j \in 1 .. Len(u)
    BY <1>3, <1>10
  <1> QED
    BY <1>5, <1>11, <1>12, <1>13, <1>14, <1>15 DEF Merging, Clear, x

LEMMA MergesKeep ==
    ASSUME NEW d, NEW D, NEW e, Entries(d, D, e), NEW s \in Nat,
           NEW w \in Merging(d, D, e, s)
    PROVE  Loop(Merge, w, Pages) \in Merging(d, D, e, s)
  <1> DEFINE I == Merging(d, D, e, s)
  <1>1. ASSUME NEW y \in I PROVE Merge[y] \in I
    <2>1. y \in Removal /\ y.k \in Nat
      BY RemovalHas DEF Merging
    <2>2. Merge[y] = IF Joins(y.vmas, y.k - 1) THEN Joined(y, y.k - 1)
                     ELSE IF Joins(y.vmas, y.k) THEN Joined(y, y.k) ELSE y
      BY <2>1 DEF Merge
    <2>3. CASE Joins(y.vmas, y.k - 1)
      BY <2>2, <2>3, JoinedKeeps
    <2>4. CASE ~Joins(y.vmas, y.k - 1) /\ Joins(y.vmas, y.k)
      BY <2>2, <2>4, JoinedKeeps
    <2> QED
      BY <2>2, <2>3, <2>4
  <1> HIDE DEF I
  <1>2. Pages \in Nat /\ w \in I
    BY Numbers DEF I
  <1>3. Loop(Merge, w, Pages) \in I
    BY <1>1, <1>2, LoopKeeps
  <1> QED
    BY <1>3 DEF I

LEMMA TurnOfRemoval ==
    ASSUME NEW d, NEW D, NEW e \in Entry, Entries(d, D, e), NEW i \in Nat,
           NEW w \in Removing(d, D, e, i)
    PROVE  Remover(d, e)[w] \in Removing(d, D, e, i + 1)
  <1> DEFINE v == w.vmas
             k == w.k
             a == v[k]
             list == Without(a.list, e)
             done == k > Len(v) \/ a.start > d[e].last
             x == [w EXCEPT !.vmas = Listed(@, k, list)]
             kept == Loop(Merge, x, Pages)
             y == [vmas |-> RemoveAt(v, k), pinned |-> Counted(w.pinned, -Size(a)), k |-> k]
             z == [kept EXCEPT !.k = @ + 1]
  <1>1. /\ w \in Removal /\ k >= 1 /\ Chart(d, D, e, v) /\ Clear(d, e, v, k - 1)
        /\ k <= Len(v) => a.start >= i \/ a.start > d[e].last
    BY DEF Removing
  <1>2. v \in Seq(Area) /\ w.pinned \in Pinned /\ k \in Nat
        /\ w = [vmas |-> v, pinned |-> w.pinned, k |-> k]
    BY <1>1, RemovalHas
  <1>3. Remover(d, e)[w] = IF done THEN w ELSE IF list = << >> THEN y ELSE z
    BY <1>1 DEF Remover
  <1>4. d[e].last \in Nat
    BY Numbers DEF Entries
  <1>5. CASE done
    <2>1. k <= Len(v) => a.start >= i + 1 \/ a.start > d[e].last
      BY <1>2, <1>5
    <2>2. w \in Removing(d, D, e, i + 1)
      BY <1>1, <2>1 DEF Removing
    <2> QED
      BY <1>3, <1>5, <2>2
  <1>6. CASE ~done
    <2>1. k \in 1 .. Len(v) /\ ~(a.start > d[e].last)
      BY <1>1, <1>2, <1>6
    <2>2. /\ a.list \in Seq(Entry) /\ Ordered(d, a.list) /\ Len(v) \in Nat
          /\ a.start \in Nat /\ a.end \in Nat /\ a.start <= a.end
          /\ \A j, m \in 1 .. Len(v) : j < m => v[j].end < v[m].start
      BY <1>1, <2>1, ChartIs
    <2>3. a.start >= i
      BY <1>1, <2>1
    <2>4. /\ list \in Seq(Entry) /\ Ordered(d, list)
          /\ \A b : Contains(list, b) <=> Contains(a.list, b) /\ b # e
      BY <2>2, PurgedOrdered
    <2>5. CASE list = << >>
      <3> DEFINE u == RemoveAt(v, k)
                 c == Counted(w.pinned, -Size(a))
      <3>1. IsTaken(u, v, k)
        BY <1>2, <2>1, TakenIs
      <3>2. \A b \in Entry \ {e} : ~Contains(v[k].list, b)
        <4>1. \A b : ~Contains(list, b)
          BY <2>5 DEF Contains
        <4> QED
          BY <2>4, <4>1
      <3> HIDE DEF u
      <3>3. Chart(d, D, e, u)
        <4> HIDE DEF v, k
        <4> QED
          BY <1>1, <2>1, <3>1, <3>2, ChartTaken
      <3>4. c \in Pinned
        <4> DEFINE n == -Size(a)
        <4>1. n \in Int
          BY <2>2 DEF Size
        <4> HIDE DEF n
        <4>2. Counted(w.pinned, n) \in Pinned
          BY <1>2, <4>1, CountedIs
        <4> QED
          BY <4>2 DEF n
      <3>5. y = [vmas |-> u, pinned |-> c, k |-> k]
        BY DEF u
      <3> HIDE DEF c, y, v, k, a
      <3>6. /\ u \in Seq(Area) /\ Len(u) = Len(v) - 1
            /\ \A j \in 1 .. Len(v) : (j < k => u[j] = v[j]) /\ (j > k => u[j - 1] = v[j])
        BY <3>1 DEF IsTaken
      <3>7. y \in Removal /\ y.vmas = u /\ y.k = k
        BY <1>2, <3>4, <3>5, <3>6, RemovalIs
      <3>8. \A j \in 1 .. Len(u) : IF j < k THEN j \in 1 .. Len(v) /\ u[j] = v[j]
                                   ELSE j + 1 \in 1 .. Len(v) /\ u[j] = v[j + 1]
        <4>1. ASSUME NEW j \in 1 .. Len(u)
              PROVE  IF j < k THEN j \in 1 .. Len(v) /\ u[j] = v[j]
                     ELSE j + 1 \in 1 .. Len(v) /\ u[j] = v[j + 1]
          <5>1. CASE j < k
            BY <1>2, <2>2, <3>6, <5>1
          <5>2. CASE ~(j < k)
            <6>1. j + 1 \in 1 .. Len(v) /\ j + 1 > k /\ j + 1 - 1 = j
              BY <1>2, <2>2, <3>6, <5>2
            <6> QED
              BY <3>6, <5>2, <6>1
          <5> QED
            BY <5>1, <5>2
        <4> QED
          BY <4>1
      <3>9. Clear(d, e, u, k - 1)
        <4>1. ASSUME NEW j \in 1 .. Len(u), j <= k - 1
              PROVE  ~Contains(u[j].list, e)
          <5>1. j \in 1 .. Len(v) /\ u[j] = v[j]
            BY <1>2, <3>8, <4>1
          <5> QED
            BY <1>1, <4>1, <5>1 DEF Clear
        <4>2. ASSUME NEW j \in 1 .. Len(u), Contains(u[j].list, e)
              PROVE  u[j].start <= d[e].last
          <5>1. \E m \in 1 .. Len(v) : u[j] = v[m]
            BY <3>8
          <5> QED
            BY <1>1, <4>2, <5>1 DEF Clear
        <4> QED
          BY <4>1, <4>2 DEF Clear
      <3>10. k <= Len(u) => u[k].start >= i + 1
        <4> SUFFICES ASSUME k <= Len(u) PROVE u[k].start >= i + 1
          OBVIOUS
        <4>1. k \in 1 .. Len(u)
          BY <2>1, <3>6
        <4>2. k + 1 \in 1 .. Len(v) /\ u[k] = v[k + 1] /\ k < k + 1
          BY <1>2, <3>8, <4>1
        <4>3. v[k].end < v[k + 1].start
          BY <2>1, <2>2, <4>2
        <4>4. v[k + 1].start \in Nat
          BY <1>1, <4>2, ChartIs
        <4> QED
          BY <2>2, <2>3, <4>2, <4>3, <4>4 DEF a
      <3>11. y \in Removing(d, D, e, i + 1)
        BY <1>1, <3>3, <3>7, <3>9, <3>10 DEF Removing
      <3> QED
        BY <1>3, <1>6, <2>5, <3>11
    <2>6. CASE list # << >>
      <3> DEFINE u == Listed(v, k, list)
                 s == a.start
      <3>1. IsListed(u, v, k, list)
        BY <1>2, <2>1, <2>4, ListedIs
      <3>2. x = [vmas |-> u, pinned |-> w.pinned, k |-> k]
        BY <1>2
      <3>3. \A b \in Entry \ {e} : Contains(list, b) <=> Contains(v[k].list, b)
        BY <2>4
      <3>4. ~Contains(list, e)
        BY <2>4
      <3> HIDE DEF u, x, list, z
      <3>5. Chart(d, D, e, u)
        <4> HIDE DEF v, k
        <4> QED
          BY <1>1, <2>1, <2>4, <2>6, <3>1, <3>3, ChartListed
      <3> HIDE DEF v, k
      <3>6. /\ u \in Seq(Area) /\ Len(u) = Len(v)
            /\ \A j \in 1 .. Len(v) : j # k => u[j] = v[j]
            /\ u[k].start = a.start /\ u[k].end = a.end /\ u[k].list = list
        BY <3>1 DEF IsListed
      <3> HIDE DEF a
      <3>7. x \in Removal /\ x.vmas = u /\ x.k = k
        BY <1>2, <3>2, <3>6, RemovalIs
      <3>8. Clear(d, e, u, k)
        <4>1. ASSUME NEW j \in 1 .. Len(u), j <= k
              PROVE  ~Contains(u[j].list, e)
          <5>1. CASE j = k
            BY <3>4, <3>6, <5>1
          <5>2. CASE j # k
            <6>1. j \in 1 .. Len(v) /\ u[j] = v[j] /\ j <= k - 1
              BY <1>2, <3>6, <4>1, <5>2
            <6> QED
              BY <1>1, <6>1 DEF Clear
          <5> QED
            BY <5>1, <5>2
        <4>2. ASSUME NEW j \in 1 .. Len(u), Contains(u[j].list, e)
              PROVE  u[j].start <= d[e].last
          <5>1. j # k
            BY <3>4, <3>6, <4>2
          <5>2. j \in 1 .. Len(v) /\ u[j] = v[j]
            BY <3>6, <5>1
          <5> QED
            BY <1>1, <4>2, <5>2 DEF Clear
        <4> QED
          BY <4>1, <4>2 DEF Clear
      <3>9. x \in Merging(d, D, e, s)
        BY <2>1, <2>2, <3>5, <3>6, <3>7, <3>8 DEF Merging
      <3>10. kept \in Merging(d, D, e, s)
        <4>1. s \in Nat
          BY <2>2
        <4> HIDE DEF s
        <4> QED
          BY <3>9, <4>1, MergesKeep
      <3> DEFINE g == kept.vmas
                 m == kept.k
      <3> HIDE DEF kept
      <3>11. /\ kept \in Removal /\ m \in 1 .. Len(g) /\ Chart(d, D, e, g)
             /\ Clear(d, e, g, m) /\ s <= g[m].end
        BY <3>10 DEF Merging
      <3>12. /\ g \in Seq(Area) /\ kept.pinned \in Pinned /\ m \in Nat
             /\ kept = [vmas |-> g, pinned |-> kept.pinned, k |-> m]
        BY <3>11, RemovalHas
      <3>13. z = [vmas |-> g, pinned |-> kept.pinned, k |-> m + 1]
        BY <3>12 DEF z
      <3> HIDE DEF g, m, s
      <3>14. z \in Removal /\ z.vmas = g /\ z.k = m + 1
        BY <3>12, <3>13, RemovalIs
      <3>15. m + 1 - 1 = m /\ m + 1 >= 1
        BY <3>12
      <3>16. m + 1 <= Len(g) => g[m + 1].start >= i + 1
        <4> SUFFICES ASSUME m + 1 <= Len(g) PROVE g[m + 1].start >= i + 1
          OBVIOUS
        <4>1. m + 1 \in 1 .. Len(g) /\ m < m + 1
          BY <3>11, <3>12
        <4>2. g[m].end < g[m + 1].start /\ g[m].end \in Nat /\ g[m + 1].start \in Nat
          BY <3>11, <4>1, ChartIs
        <4> QED
          BY <2>2, <2>3, <3>11, <4>2 DEF s
      <3>17. z \in Removing(d, D, e, i + 1)
        BY <3>11, <3>14, <3>15, <3>16 DEF Removing
      <3> QED
        BY <1>3, <1>6, <2>6, <3>17
    <2> QED
      BY <2>5, <2>6
  <1> QED
    BY <1>5, <1>6

LEMMA VmaAtIs ==
    ASSUME NEW v \in Seq(Area), NEW b
    PROVE  \/ VmaAt(v, b) = None /\ \A i \in 1 .. Len(v) : ~Within(v[i], b)
           \/ VmaAt(v, b) \in 1 .. Len(v) /\ Within(v[VmaAt(v, b)], b)
  <1> DEFINE at == {k \in 1 .. Len(v) : v[k].start <= b /\ b <= v[k].end}
  <1>1. VmaAt(v, b) = IF at = {} THEN None ELSE CHOOSE k \in at : TRUE
    BY DEF VmaAt
  <1>2. at = {} => \A i \in 1 .. Len(v) : ~Within(v[i], b)
    BY DEF Within
  <1>3. \A k \in at : k \in 1 .. Len(v) /\ Within(v[k], b)
    BY DEF Within
  <1> HIDE DEF at
  <1>4. CASE at = {}
    BY <1>1, <1>2, <1>4
  <1>5. CASE at # {}
    <2>1. VmaAt(v, b) \in at
      BY <1>1, <1>5
    <2> QED
      BY <1>3, <2>1
  <1> QED
    BY <1>4, <1>5

LEMMA TableHas ==
    ASSUME NEW t \in Tables
    PROVE  /\ t.dreg \in [Entry -> Registration] /\ t.vmas \in Seq(Area) /\ t.pinned \in Pinned
           /\ t.free \in Seq(Entry) /\ t.unused \in Seq(Entry)
  BY DEF Tables

\* u is the table t with the areas v.
WithAreas(u, t, v) ==
    /\ u \in Tables /\ u.vmas = v
    /\ u.dreg = t.dreg /\ u.free = t.free /\ u.unused = t.unused

LEMMA TableCharted ==
    ASSUME NEW t \in Tables, NEW v \in Seq(Area), NEW c \in Pinned
    PROVE  WithAreas([t EXCEPT !.vmas = v, !.pinned = c], t, v)
  BY DEF Tables, WithAreas

\* Where e is listed, it covers the area, and its first page is in the table.
Guest(d, e, v) ==
    \A i \in 1 .. Len(v) :
        Contains(v[i].list, e) =>
            Over(d, e, v[i]) /\ \E j \in 1 .. Len(v) : Within(v[j], d[e].first)

\* u is the table t with other areas, which are right for D.
Redrawn(u, t, D) ==
    /\ u \in Tables /\ u.dreg = t.dreg /\ u.free = t.free /\ u.unused = t.unused
    /\ Chart(u.dreg, D, None, u.vmas)

LEMMA ChartAlone ==
    ASSUME NEW d, NEW D, NEW e \in Entry, Entries(d, D, e), NEW v, Chart(d, D, e, v),
           \A i \in 1 .. Len(v) : ~Contains(v[i].list, e)
    PROVE  Chart(d, D, None, v)
  <1>1. ASSUME NEW i \in 1 .. Len(v)
        PROVE  Fits(d, D, None, v[i])
    <2>1. Fits(d, D, e, v[i])
      BY DEF Chart
    <2>2. e \notin D /\ ~Contains(v[i].list, e)
      BY DEF Entries
    <2> DEFINE a == v[i]
    <2> HIDE DEF a
    <2>3. Lists(d, D, e, a) /\ ~Contains(a.list, e)
      BY <2>1, <2>2 DEF Fits, a
    <2>4. Lists(d, D, None, a)
      BY <2>2, <2>3 DEF Lists
    <2> QED
      BY <2>1, <2>4 DEF Fits, a
  <1> QED
    BY <1>1 DEF Chart

LEMMA DregRemoveIs ==
    ASSUME NEW t \in Tables, NEW D, NEW e \in Entry, Entries(t.dreg, D, e),
           Chart(t.dreg, D, e, t.vmas), Guest(t.dreg, e, t.vmas)
    PROVE  Redrawn(DregRemove(t, e), t, D)
  <1> DEFINE d == t.dreg
             v == t.vmas
             k == VmaAt(v, d[e].first)
             x == [vmas |-> v, pinned |-> t.pinned, k |-> k]
             w == Loop(Remover(d, e), x, Pages)
             u == [t EXCEPT !.vmas = w.vmas, !.pinned = w.pinned]
  <1>1. DregRemove(t, e) = IF k = None THEN t ELSE u
    BY DEF DregRemove
  <1>2. d \in [Entry -> Registration] /\ v \in Seq(Area) /\ t.pinned \in Pinned
    BY TableHas
  <1>3. d[e].first \in Nat /\ d[e].last \in Nat
    BY <1>2, Numbers
  <1>4. \/ k = None /\ \A i \in 1 .. Len(v) : ~Within(v[i], d[e].first)
        \/ k \in 1 .. Len(v) /\ Within(v[k], d[e].first)
    BY <1>2, VmaAtIs
  <1>5. Entries(d, D, e) /\ Chart(d, D, e, v) /\ Guest(d, e, v)
    OBVIOUS
  <1>6. CASE k = None
    <2>1. None \notin 1 .. Len(v)
      BY DEF None
    <2>2. \A i \in 1 .. Len(v) : ~Contains(v[i].list, e)
      BY <1>4, <1>5, <1>6, <2>1 DEF Guest
    <2>3. Chart(d, D, None, v)
      <3> HIDE DEF d, v
      <3> QED
        BY <1>5, <2>2, ChartAlone
    <2> QED
      BY <1>1, <1>6, <2>3 DEF Redrawn
  <1>7. CASE k # None
    <2> DEFINE I == [i \in 0 .. Pages |-> Removing(d, D, e, i)]
    <2>1. k \in 1 .. Len(v) /\ Within(v[k], d[e].first)
      BY <1>4, <1>7
    <2> HIDE DEF k, d, v
    <2>2. x \in Removal /\ x.vmas = v /\ x.k = k
      BY <1>2, <2>1, RemovalIs
    <2>3. /\ Len(v) \in Nat
          /\ \A i \in 1 .. Len(v) : v[i].start \in Nat /\ v[i].end \in Nat /\ v[i].start <= v[i].end
          /\ \A i, j \in 1 .. Len(v) : i < j => v[i].end < v[j].start
      BY <1>5, ChartIs
    <2>4. Clear(d, e, v, k - 1)
      <3>1. ASSUME NEW i \in 1 .. Len(v), i <= k - 1
            PROVE  ~Contains(v[i].list, e)
        <4>1. v[i].end < v[k].start
          BY <2>1, <2>3, <3>1
        <4>2. v[i].end < d[e].first
          BY <1>3, <2>1, <2>3, <4>1 DEF Within
        <4>3. ~Over(d, e, v[i])
          BY <1>3, <2>3, <4>2 DEF Over
        <4> QED
          BY <1>5, <4>3 DEF Guest
      <3>2. ASSUME NEW i \in 1 .. Len(v), Contains(v[i].list, e)
            PROVE  v[i].start <= d[e].last
        <4>1. Over(d, e, v[i])
          BY <1>5, <3>2 DEF Guest
        <4> QED
          BY <1>3, <2>3, <4>1 DEF Over
      <3> QED
        BY <3>1, <3>2 DEF Clear
    <2>5. k >= 1 /\ v[k].start >= 0
      BY <2>1, <2>3
    <2> HIDE DEF x
    <2>6. x \in Removing(d, D, e, 0)
      BY <1>5, <2>2, <2>4, <2>5 DEF Removing
    <2>7. Pages \in Nat
      BY Numbers
    <2>8. \A i \in 1 .. Pages : \A y \in I[i - 1] : Remover(d, e)[y] \in I[i]
      <3>1. ASSUME NEW i \in 1 .. Pages, NEW y \in I[i - 1]
            PROVE  Remover(d, e)[y] \in I[i]
        <4> DEFINE m == i - 1
        <4>1. m \in Nat /\ m \in 0 .. Pages /\ i \in 0 .. Pages /\ m + 1 = i
          BY <2>7
        <4> HIDE DEF m
        <4>2. y \in Removing(d, D, e, m)
          BY <4>1 DEF m
        <4>3. Remover(d, e)[y] \in Removing(d, D, e, m + 1)
          BY <1>5, <4>1, <4>2, TurnOfRemoval
        <4> QED
          BY <4>1, <4>3
      <3> QED
        BY <3>1
    <2>9. x \in I[0] /\ I[Pages] = Removing(d, D, e, Pages)
      BY <2>6, <2>7
    <2> HIDE DEF I
    <2>10. w \in Removing(d, D, e, Pages)
      BY <2>7, <2>8, <2>9, LoopLeadsTo
    <2> DEFINE g == w.vmas
               m == w.k
    <2> HIDE DEF w
    <2>11. /\ w \in Removal /\ m >= 1 /\ Chart(d, D, e, g) /\ Clear(d, e, g, m - 1)
           /\ m <= Len(g) => g[m].start >= Pages \/ g[m].start > d[e].last
      BY <2>10 DEF Removing
    <2>12. g \in Seq(Area) /\ w.pinned \in Pinned /\ m \in Nat
      BY <2>11, RemovalHas
    <2>13. \A i \in 1 .. Len(g) : ~Contains(g[i].list, e)
      <3>1. ASSUME NEW i \in 1 .. Len(g), Contains(g[i].list, e)
            PROVE  FALSE
        <4>1. i >= m /\ g[i].start <= d[e].last
          BY <2>11, <2>12, <3>1 DEF Clear
        <4>2. m \in 1 .. Len(g)
          BY <2>11, <2>12, <4>1
        <4>3. /\ g[m].start \in Nat /\ g[m].end \in Nat /\ g[m].end < Pages
              /\ g[m].start <= g[m].end /\ g[i].start \in Nat
              /\ (m < i => g[m].end < g[i].start)
          BY <2>11, <4>2, ChartIs
        <4>4. g[m].start > d[e].last
          BY <2>7, <2>11, <4>2, <4>3
        <4>5. m = i \/ m < i
          BY <2>12, <4>1
        <4> QED
          BY <1>3, <4>1, <4>3, <4>4, <4>5
      <3> QED
        BY <3>1
    <2> DEFINE c == w.pinned
    <2> HIDE DEF g, m, c
    <2>14. Chart(d, D, None, g)
      BY <1>5, <2>11, <2>13, ChartAlone
    <2>15. g \in Seq(Area) /\ c \in Pinned
      BY <2>12 DEF c
    <2>16. WithAreas([t EXCEPT !.vmas = g, !.pinned = c], t, g)
      BY <2>15, TableCharted
    <2>17. WithAreas(u, t, g)
      BY <2>16 DEF g, c
    <2> HIDE DEF u
    <2>18. Redrawn(u, t, D)
      BY <2>14, <2>17 DEF Redrawn, WithAreas, d
    <2> QED
      BY <1>1, <1>7, <2>18
  <1> QED
    BY <1>6, <1>7

-----------------------------------------------------------------------------
(* Putting an entry into the table.                                         *)

LEMMA InsertionHas ==
    ASSUME NEW w \in Insertion
    PROVE  /\ w.vmas \in Seq(Area) /\ w.pinned \in Pinned /\ w.k \in Nat /\ w.begin \in Nat
           /\ w.ok \in BOOLEAN
  BY DEF Insertion

LEMMA MovedIs ==
    ASSUME NEW w \in Insertion, NEW u \in Seq(Area), NEW n \in Int, NEW b \in Nat
    PROVE  LET x == Moved(w, u, n, b)
           IN  x \in Insertion /\ x.vmas = u /\ x.k = w.k + 1 /\ x.begin = b /\ x.ok
  <1>1. w.pinned \in Pinned /\ w.k + 1 \in Nat
    BY InsertionHas
  <1> DEFINE c == Counted(w.pinned, n)
             m == w.k + 1
  <1>2. c \in Pinned
    BY <1>1, CountedIs
  <1> HIDE DEF c
  <1>3. Moved(w, u, n, b) = [vmas |-> u, pinned |-> c, k |-> m, begin |-> b, ok |-> TRUE]
    BY DEF Moved, c
  <1> HIDE DEF m
  <1>4. m \in Nat
    BY <1>1 DEF m
  <1> QED
    BY <1>2, <1>3, <1>4 DEF Insertion, m

\* The areas before area k are as they are to be with e, up to page begin;
\* those from k on are as they were.
Listing(d, e, a) ==
    /\ Contains(a.list, e) <=> Over(d, e, a)
    /\ Over(d, e, a) \/ Off(d, e, a)
Halfway(d, e, v, k, begin) ==
    \A i \in 1 .. Len(v) :
        IF i < k THEN v[i].end < begin /\ Listing(d, e, v[i])
        ELSE begin <= v[i].end /\ ~Contains(v[i].list, e)

\* All pages of e before page begin are in the table.
Reached(d, e, v, begin) ==
    \A p \in d[e].first .. begin - 1 : \E i \in 1 .. Len(v) : Within(v[i], p)

\* From area k on all is behind page begin.
Ahead(v, k, begin) == \A i \in 1 .. Len(v) : i >= k => begin <= v[i].start

\* The states of the insertion after i turns.
Inserting(d, D, e, i) ==
    {w \in Insertion :
        /\ w.k \in 1 .. Len(w.vmas) + 1 /\ Chart(d, D, e, w.vmas)
        /\ d[e].first <= w.begin /\ w.begin <= d[e].last + 1
        /\ Halfway(d, e, w.vmas, w.k, w.begin) /\ Reached(d, e, w.vmas, w.begin)
        /\ w.ok => Ahead(w.vmas, w.k, w.begin) \/ (i = 0 /\ w.begin = d[e].first)
        /\ w.ok => w.begin > d[e].last \/ w.begin + 1 >= d[e].first + i}

\* What is known of a turn that has work to do
Working(d, D, e, i, w) ==
    /\ d[e].first \in Nat /\ d[e].last \in Nat /\ d[e].first <= d[e].last
    /\ d[e].last \in Page
    /\ w \in Insertion /\ w.vmas \in Seq(Area) /\ Len(w.vmas) \in Nat
    /\ w.begin \in Nat /\ w.begin <= d[e].last
    /\ w.k \in 1 .. Len(w.vmas) + 1 /\ w.k \in Nat /\ Chart(d, D, e, w.vmas)
    /\ d[e].first <= w.begin
    /\ Halfway(d, e, w.vmas, w.k, w.begin) /\ Reached(d, e, w.vmas, w.begin)
    /\ Ahead(w.vmas, w.k, w.begin) \/ (i = 0 /\ w.begin = d[e].first)
    /\ w.begin + 1 >= d[e].first + i

LEMMA WorkingIs ==
    ASSUME NEW d, NEW D, NEW e \in Entry, Entries(d, D, e), d[e].first <= d[e].last,
           NEW i \in Nat, NEW w \in Inserting(d, D, e, i), w.ok, ~(w.begin > d[e].last)
    PROVE  Working(d, D, e, i, w)
  <1>1. /\ d[e].first \in Nat /\ d[e].last \in Nat /\ d[e].last \in Page
    BY Numbers DEF Entries
  <1>2. w \in Insertion
    BY DEF Inserting
  <1>3. w.vmas \in Seq(Area) /\ Len(w.vmas) \in Nat /\ w.begin \in Nat /\ w.k \in Nat
    BY <1>2, InsertionHas
  <1>4. w.begin <= d[e].last
    BY <1>1, <1>3
  <1> QED
    BY <1>1, <1>2, <1>3, <1>4 DEF Inserting, Working

\* A state is one of the insertion when its areas are.
LEMMA MovedInserts ==
    ASSUME NEW d, NEW D, NEW e \in Entry, NEW i \in Nat, NEW w, Working(d, D, e, i, w),
           NEW u, Chart(d, D, e, u), w.k \in 1 .. Len(u), NEW n \in Int, NEW b \in Nat,
           w.begin <= b, b <= d[e].last + 1, b > w.begin \/ i = 0,
           Halfway(d, e, u, w.k + 1, b), Reached(d, e, u, b), Ahead(u, w.k + 1, b)
    PROVE  Moved(w, u, n, b) \in Inserting(d, D, e, i + 1)
  <1> DEFINE x == Moved(w, u, n, b)
  <1>1. /\ w \in Insertion /\ w.k \in Nat /\ w.begin \in Nat /\ d[e].first \in Nat
        /\ d[e].first <= w.begin /\ w.begin + 1 >= d[e].first + i
    BY DEF Working
  <1>2. u \in Seq(Area) /\ Len(u) \in Nat
    BY ChartIs
  <1>3. x \in Insertion /\ x.vmas = u /\ x.k = w.k + 1 /\ x.begin = b /\ x.ok
    BY <1>1, <1>2, MovedIs
  <1> HIDE DEF x
  <1>4. x.k \in 1 .. Len(u) + 1
    BY <1>1, <1>2, <1>3
  <1>5. d[e].first <= b /\ b + 1 >= d[e].first + (i + 1)
    BY <1>1
  <1> QED
    BY <1>3, <1>4, <1>5 DEF Inserting, x

LEMMA GapTurn ==
    ASSUME NEW d, NEW D, NEW e \in Entry, Entries(d, D, e), NEW i \in Nat, NEW w,
           Working(d, D, e, i, w), NEW last \in Nat, w.begin <= last, last <= d[e].last,
           \A j \in 1 .. Len(w.vmas) : j >= w.k => last < w.vmas[j].start,
           NEW n \in Int
    PROVE  Moved(w, InsertAt(w.vmas, w.k, [start |-> w.begin, end |-> last, list |-> <<e>>]), n, last + 1)
               \in Inserting(d, D, e, i + 1)
  <1> DEFINE v == w.vmas
             k == w.k
             begin == w.begin
             a == [start |-> begin, end |-> last, list |-> <<e>>]
             u == InsertAt(v, k, a)
             b == last + 1
  <1>1. /\ d[e].first \in Nat /\ d[e].last \in Nat /\ d[e].last \in Page /\ d[e].first <= begin
        /\ v \in Seq(Area) /\ Len(v) \in Nat /\ begin \in Nat /\ k \in 1 .. Len(v) + 1 /\ k \in Nat
        /\ Chart(d, D, e, v) /\ Halfway(d, e, v, k, begin) /\ Reached(d, e, v, begin)
    BY DEF Working
  <1>2. /\ begin <= last /\ last <= d[e].last /\ b \in Nat
        /\ \A j \in 1 .. Len(v) : j >= k => last < v[j].start
    OBVIOUS
  <1>3. a \in Area /\ a.start = begin /\ a.end = last /\ a.list = <<e>>
    <2>1. begin \in Page /\ last \in Page
      BY <1>1, <1>2, Numbers DEF Page
    <2> QED
      BY <2>1 DEF Area
  <1> HIDE DEF v, k, begin, a
  <1>4. IsPut(u, v, k, a)
    BY <1>1, <1>3, PutIs
  <1>5. \A j \in 1 .. Len(v) : /\ v[j].start \in Nat /\ v[j].end \in Nat /\ v[j].start <= v[j].end
                               /\ j < k => v[j].end < begin
    BY <1>1, ChartIs DEF Halfway
  <1>6. Chart(d, D, e, u)
    <2> HIDE DEF u
    <2>1. a.start <= a.end /\ a.list = <<e>>
      BY <1>2, <1>3
    <2>2. \A j \in 1 .. Len(v) : j < k => v[j].end < a.start
      BY <1>3, <1>5
    <2>3. \A j \in 1 .. Len(v) : j >= k => a.end < v[j].start
      BY <1>2, <1>3
    <2> QED
      BY <1>1, <1>3, <1>4, <2>1, <2>2, <2>3, ChartPut
  <1> HIDE DEF u
  <1>7. /\ u \in Seq(Area) /\ Len(u) = Len(v) + 1 /\ u[k] = a
        /\ \A j \in 1 .. Len(v) : (j < k => u[j] = v[j]) /\ (j >= k => u[j + 1] = v[j])
    BY <1>4 DEF IsPut
  <1>8. ASSUME NEW j \in 1 .. Len(u), j > k
        PROVE  j - 1 \in 1 .. Len(v) /\ j - 1 >= k /\ u[j] = v[j - 1]
    <2>1. j - 1 \in 1 .. Len(v) /\ j - 1 >= k /\ j - 1 + 1 = j
      BY <1>1, <1>7, <1>8
    <2> QED
      BY <1>7, <2>1
  <1>9. Halfway(d, e, u, k + 1, b)
    <2> SUFFICES ASSUME NEW j \in 1 .. Len(u)
                 PROVE  IF j < k + 1 THEN u[j].end < b /\ Listing(d, e, u[j])
                        ELSE b <= u[j].end /\ ~Contains(u[j].list, e)
      BY DEF Halfway
    <2>1. CASE j < k
      <3>1. j \in 1 .. Len(v) /\ u[j] = v[j]
        BY <1>1, <1>7, <2>1
      <3>2. v[j].end < begin /\ Listing(d, e, v[j])
        BY <1>1, <2>1, <3>1 DEF Halfway
      <3> QED
        BY <1>1, <1>2, <1>5, <2>1, <3>1, <3>2
    <2>2. CASE j = k
      <3>1. Contains(a.list, e)
        BY <1>3 DEF Contains
      <3>2. Over(d, e, a)
        BY <1>1, <1>2, <1>3 DEF Over
      <3>3. a.end < b /\ Listing(d, e, a)
        BY <1>2, <1>3, <3>1, <3>2 DEF Listing
      <3> QED
        BY <1>1, <1>7, <2>2, <3>3
    <2>3. CASE j > k
      <3> DEFINE m == j - 1
      <3>1. m \in 1 .. Len(v) /\ m >= k /\ u[j] = v[m]
        BY <1>8, <2>3
      <3> HIDE DEF m
      <3>2. ~Contains(v[m].list, e)
        BY <1>1, <3>1 DEF Halfway
      <3>3. last < v[m].start /\ v[m].start <= v[m].end /\ v[m].start \in Nat /\ v[m].end \in Nat
        BY <1>2, <1>5, <3>1
      <3>4. b <= v[m].end
        BY <3>3
      <3> QED
        BY <1>1, <2>3, <3>1, <3>2, <3>4
    <2> QED
      BY <1>1, <2>1, <2>2, <2>3
  <1>10. Reached(d, e, u, b)
    <2> SUFFICES ASSUME NEW p \in d[e].first .. b - 1
                 PROVE  \E j \in 1 .. Len(u) : Within(u[j], p)
      BY DEF Reached
    <2>1. CASE p < begin
      <3>1. p \in d[e].first .. begin - 1
        BY <1>1, <2>1
      <3>2. PICK m \in 1 .. Len(v) : Within(v[m], p)
        BY <1>1, <3>1 DEF Reached
      <3>3. CASE m < k
        <4>1. m \in 1 .. Len(u) /\ u[m] = v[m]
          BY <1>1, <1>7, <3>3
        <4> QED
          BY <3>2, <4>1
      <3>4. CASE m >= k
        <4>1. m + 1 \in 1 .. Len(u) /\ u[m + 1] = v[m]
          BY <1>1, <1>7, <3>4
        <4> QED
          BY <3>2, <4>1
      <3> QED
        BY <1>1, <3>3, <3>4
    <2>2. CASE ~(p < begin)
      <3>1. Within(a, p)
        BY <1>1, <1>2, <1>3, <2>2 DEF Within
      <3> QED
        BY <1>1, <1>7, <3>1
    <2> QED
      BY <2>1, <2>2
  <1>11. Ahead(u, k + 1, b)
    <2>1. ASSUME NEW j \in 1 .. Len(u), j >= k + 1
          PROVE  b <= u[j].start
      <3> DEFINE m == j - 1
      <3>1. m \in 1 .. Len(v) /\ m >= k /\ u[j] = v[m]
        BY <1>1, <1>8, <2>1
      <3> HIDE DEF m
      <3>2. last < v[m].start /\ v[m].start \in Nat
        BY <1>2, <1>5, <3>1
      <3> QED
        BY <3>1, <3>2
    <2> QED
      BY <2>1 DEF Ahead
  <1>12. k \in 1 .. Len(u) /\ begin <= b /\ b <= d[e].last + 1 /\ b > begin
    BY <1>1, <1>2, <1>7
  <1> HIDE DEF b
  <1>13. Moved(w, u, n, b) \in Inserting(d, D, e, i + 1)
    BY <1>2, <1>6, <1>9, <1>10, <1>11, <1>12, MovedInserts DEF k, begin
  <1> QED
    BY <1>13 DEF u, v, k, a, begin, b

LEMMA CutTurn ==
    ASSUME NEW d, NEW D, NEW e \in Entry, Entries(d, D, e), NEW i \in Nat, NEW w,
           Working(d, D, e, i, w), w.k <= Len(w.vmas), w.vmas[w.k].start < w.begin,
           NEW n \in Int
    PROVE  Moved(w, Cut(w.vmas, w.k, w.begin), n, w.begin) \in Inserting(d, D, e, i + 1)
  <1> DEFINE v == w.vmas
             k == w.k
             begin == w.begin
             u == Cut(v, k, begin)
  <1>1. /\ d[e].first \in Nat /\ d[e].last \in Nat
        /\ v \in Seq(Area) /\ Len(v) \in Nat /\ begin \in Nat /\ k \in Nat /\ begin <= d[e].last
        /\ Chart(d, D, e, v) /\ Halfway(d, e, v, k, begin) /\ Reached(d, e, v, begin)
    BY DEF Working
  <1>2. k \in 1 .. Len(v) /\ v[k].start < begin
    BY DEF Working
  <1> HIDE DEF v, k, begin
  <1>3. i = 0 /\ begin = d[e].first
    <2>1. Ahead(v, k, begin) \/ (i = 0 /\ begin = d[e].first)
      BY DEF Working, v, k, begin
    <2>2. v[k].start \in Nat
      BY <1>1, <1>2, ChartIs
    <2>3. ~Ahead(v, k, begin)
      BY <1>1, <1>2, <2>2 DEF Ahead
    <2> QED
      BY <2>1, <2>3
  <1>4. \A j \in 1 .. Len(v) :
            /\ v[j].start \in Nat /\ v[j].end \in Nat /\ v[j].start <= v[j].end
            /\ j < k => v[j].end < begin /\ Listing(d, e, v[j])
            /\ j >= k => begin <= v[j].end /\ ~Contains(v[j].list, e)
    <2>1. \A j \in 1 .. Len(v) : v[j].start \in Nat /\ v[j].end \in Nat /\ v[j].start <= v[j].end
      BY <1>1, ChartIs
    <2>2. ASSUME NEW j \in 1 .. Len(v)
          PROVE  /\ j < k => v[j].end < begin /\ Listing(d, e, v[j])
                 /\ j >= k => begin <= v[j].end /\ ~Contains(v[j].list, e)
      <3>1. j >= k => ~(j < k)
        BY <1>1
      <3> QED
        BY <1>1, <3>1 DEF Halfway
    <2> QED
      BY <2>1, <2>2
  <1>5. begin <= v[k].end
    BY <1>1, <1>2, <1>4
  <1>6. IsCut(u, v, k, begin)
    BY <1>1, <1>2, <1>5, CutIs
  <1> HIDE DEF u
  <1>7. Chart(d, D, e, u)
    BY <1>1, <1>2, <1>5, <1>6, ChartCut
  <1>8. /\ u \in Seq(Area) /\ Len(u) = Len(v) + 1
        /\ \A j \in 1 .. Len(v) : (j < k => u[j] = v[j]) /\ (j > k => u[j + 1] = v[j])
        /\ u[k].start = v[k].start /\ u[k].end = begin - 1 /\ u[k].list = v[k].list
        /\ u[k + 1].start = begin /\ u[k + 1].end = v[k].end /\ u[k + 1].list = v[k].list
    BY <1>6 DEF IsCut
  <1>9. ASSUME NEW j \in 1 .. Len(u), j > k + 1
        PROVE  j - 1 \in 1 .. Len(v) /\ j - 1 > k /\ u[j] = v[j - 1]
    <2>1. j - 1 \in 1 .. Len(v) /\ j - 1 > k /\ j - 1 + 1 = j
      BY <1>1, <1>2, <1>8, <1>9
    <2> QED
      BY <1>8, <2>1
  <1>10. Halfway(d, e, u, k + 1, begin)
    <2> SUFFICES ASSUME NEW j \in 1 .. Len(u)
                 PROVE  IF j < k + 1 THEN u[j].end < begin /\ Listing(d, e, u[j])
                        ELSE begin <= u[j].end /\ ~Contains(u[j].list, e)
      BY DEF Halfway
    <2>1. CASE j < k
      <3>1. j \in 1 .. Len(v) /\ u[j] = v[j]
        BY <1>1, <1>2, <1>8, <2>1
      <3> QED
        BY <1>1, <1>4, <2>1, <3>1
    <2>2. CASE j = k
      <3>1. ~Contains(u[k].list, e)
        BY <1>1, <1>2, <1>4, <1>8
      <3>2. v[k].start \in Nat
        BY <1>2, <1>4
      <3>3. ~Over(d, e, u[k]) /\ Off(d, e, u[k]) /\ u[k].end < begin
        BY <1>1, <1>2, <1>3, <1>8, <3>2 DEF Over, Off
      <3>4. Listing(d, e, u[k])
        BY <3>1, <3>3 DEF Listing
      <3> QED
        BY <1>1, <2>2, <3>3, <3>4
    <2>3. CASE j = k + 1
      BY <1>1, <1>2, <1>4, <1>5, <1>8, <2>3
    <2>4. CASE j > k + 1
      <3> DEFINE m == j - 1
      <3>1. m \in 1 .. Len(v) /\ m > k /\ u[j] = v[m]
        BY <1>9, <2>4
      <3> HIDE DEF m
      <3>2. begin <= v[m].end /\ ~Contains(v[m].list, e)
        BY <1>1, <1>4, <3>1
      <3> QED
        BY <1>1, <2>4, <3>1, <3>2
    <2> QED
      BY <1>1, <2>1, <2>2, <2>3, <2>4
  <1>11. Reached(d, e, u, begin)
    BY <1>1, <1>3 DEF Reached
  <1>12. Ahead(u, k + 1, begin)
    <2>1. ASSUME NEW j \in 1 .. Len(u), j >= k + 1
          PROVE  begin <= u[j].start
      <3>1. CASE j = k + 1
        BY <1>1, <1>8, <3>1
      <3>2. CASE j > k + 1
        <4> DEFINE m == j - 1
        <4>1. m \in 1 .. Len(v) /\ m > k /\ u[j] = v[m]
          BY <1>9, <3>2
        <4> HIDE DEF m
        <4>2. v[k].end < v[m].start /\ v[m].start \in Nat /\ v[k].end \in Nat
          BY <1>1, <1>2, <4>1, ChartIs
        <4> QED
          BY <1>1, <1>5, <4>1, <4>2
      <3> QED
        BY <1>1, <2>1, <3>1, <3>2
    <2> QED
      BY <2>1 DEF Ahead
  <1>13. k \in 1 .. Len(u) /\ begin <= begin /\ begin <= d[e].last + 1
    BY <1>1, <1>2, <1>8
  <1>14. Moved(w, u, n, begin) \in Inserting(d, D, e, i + 1)
    BY <1>1, <1>3, <1>7, <1>10, <1>11, <1>12, <1>13, MovedInserts DEF k, begin
  <1> QED
    BY <1>14 DEF u, v, k, begin

\* The area k starts at page begin and has no page behind the last one of e.
Trimmed(d, D, e, c, k, begin) ==
    /\ Chart(d, D, e, c) /\ Halfway(d, e, c, k, begin) /\ Reached(d, e, c, begin)
    /\ k \in 1 .. Len(c) /\ c[k].start = begin /\ c[k].end <= d[e].last

LEMMA TrimmedIs ==
    ASSUME NEW d, NEW D, NEW e \in Entry, Entries(d, D, e), NEW i \in Nat, NEW w,
           Working(d, D, e, i, w), w.k <= Len(w.vmas), w.vmas[w.k].start = w.begin
    PROVE  Trimmed(d, D, e, IF w.vmas[w.k].end > d[e].last
                            THEN Cut(w.vmas, w.k, d[e].last + 1) ELSE w.vmas, w.k, w.begin)
  <1> DEFINE v == w.vmas
             k == w.k
             begin == w.begin
             b == d[e].last + 1
             u == Cut(v, k, b)
  <1>1. /\ d[e].first \in Nat /\ d[e].last \in Nat /\ b \in Nat
        /\ v \in Seq(Area) /\ Len(v) \in Nat /\ begin \in Nat /\ k \in Nat /\ begin <= d[e].last
        /\ Chart(d, D, e, v) /\ Halfway(d, e, v, k, begin) /\ Reached(d, e, v, begin)
    BY DEF Working
  <1>2. k \in 1 .. Len(v) /\ v[k].start = begin
    BY DEF Working
  <1>3. b = d[e].last + 1
    OBVIOUS
  <1> HIDE DEF v, k, begin, b
  <1>4. \A j \in 1 .. Len(v) : v[j].start \in Nat /\ v[j].end \in Nat /\ v[j].start <= v[j].end
    BY <1>1, ChartIs
  <1>5. CASE ~(v[k].end > d[e].last)
    <2>1. v[k].end <= d[e].last
      BY <1>1, <1>2, <1>4, <1>5
    <2>2. Trimmed(d, D, e, v, k, begin)
      BY <1>1, <1>2, <2>1 DEF Trimmed
    <2> QED
      BY <1>5, <2>2 DEF v, k, begin
  <1>6. CASE v[k].end > d[e].last
    <2>1. v[k].start < b /\ b <= v[k].end
      BY <1>1, <1>2, <1>3, <1>4, <1>6
    <2>2. IsCut(u, v, k, b)
      BY <1>1, <1>2, <2>1, CutIs
    <2> HIDE DEF u
    <2>3. Chart(d, D, e, u)
      BY <1>1, <1>2, <2>1, <2>2, ChartCut
    <2>4. /\ u \in Seq(Area) /\ Len(u) = Len(v) + 1
          /\ \A j \in 1 .. Len(v) : (j < k => u[j] = v[j]) /\ (j > k => u[j + 1] = v[j])
          /\ u[k].start = v[k].start /\ u[k].end = b - 1 /\ u[k].list = v[k].list
          /\ u[k + 1].start = b /\ u[k + 1].end = v[k].end /\ u[k + 1].list = v[k].list
      BY <2>2 DEF IsCut
    <2>5. k \in 1 .. Len(u) /\ u[k].start = begin /\ u[k].end <= d[e].last
      BY <1>1, <1>2, <1>3, <2>4
    <2>6. begin <= v[k].end /\ ~Contains(v[k].list, e)
      <3>1. ~(k < k)
        BY <1>1
      <3> QED
        BY <1>1, <1>2, <3>1 DEF Halfway
    <2>7. Halfway(d, e, u, k, begin)
      <3> SUFFICES ASSUME NEW j \in 1 .. Len(u)
                   PROVE  IF j < k THEN u[j].end < begin /\ Listing(d, e, u[j])
                          ELSE begin <= u[j].end /\ ~Contains(u[j].list, e)
        BY DEF Halfway
      <3>1. CASE j < k
        <4>1. j \in 1 .. Len(v) /\ u[j] = v[j]
          BY <1>1, <1>2, <2>4, <3>1
        <4> QED
          BY <1>1, <3>1, <4>1 DEF Halfway
      <3>2. CASE j = k
        BY <1>1, <1>3, <2>4, <2>6, <3>2
      <3>3. CASE j = k + 1
        BY <1>1, <2>4, <2>6, <3>3
      <3>4. CASE j > k + 1
        <4> DEFINE m == j - 1
        <4>1. m \in 1 .. Len(v) /\ m > k /\ m + 1 = j
          BY <1>1, <1>2, <2>4, <3>4
        <4>2. u[j] = v[m]
          BY <2>4, <4>1
        <4> HIDE DEF m
        <4>3. ~(m < k) /\ ~(j < k)
          BY <1>1, <4>1
        <4> QED
          BY <1>1, <4>1, <4>2, <4>3 DEF Halfway
      <3> QED
        BY <1>1, <3>1, <3>2, <3>3, <3>4
    <2>8. Reached(d, e, u, begin)
      <3> SUFFICES ASSUME NEW p \in d[e].first .. begin - 1
                   PROVE  \E j \in 1 .. Len(u) : Within(u[j], p)
        BY DEF Reached
      <3>1. PICK m \in 1 .. Len(v) : Within(v[m], p)
        BY <1>1 DEF Reached
      <3>2. CASE m < k
        <4>1. m \in 1 .. Len(u) /\ u[m] = v[m]
          BY <1>1, <2>4, <3>2
        <4> QED
          BY <3>1, <4>1
      <3>3. CASE m = k
        <4>1. p < v[k].start
          BY <1>1, <1>2
        <4> QED
          BY <1>1, <1>2, <3>1, <3>3, <4>1 DEF Within
      <3>4. CASE m > k
        <4>1. m + 1 \in 1 .. Len(u) /\ u[m + 1] = v[m]
          BY <1>1, <2>4, <3>4
        <4> QED
          BY <3>1, <4>1
      <3> QED
        BY <1>1, <3>2, <3>3, <3>4
    <2>9. Trimmed(d, D, e, u, k, begin)
      BY <2>3, <2>5, <2>7, <2>8 DEF Trimmed
    <2> QED
      BY <1>6, <2>9 DEF u, v, k, begin, b
  <1> QED
    BY <1>5, <1>6

LEMMA AddTurn ==
    ASSUME NEW d, NEW D, NEW e \in Entry, Entries(d, D, e), NEW i \in Nat, NEW w,
           Working(d, D, e, i, w), NEW c, Trimmed(d, D, e, c, w.k, w.begin), NEW n \in Int
    PROVE  Moved(w, Listed(c, w.k, AddEntry(d, c[w.k].list, e)), n, c[w.k].end + 1)
               \in Inserting(d, D, e, i + 1)
  <1> DEFINE k == w.k
             begin == w.begin
             a == c[k]
             list == AddEntry(d, a.list, e)
             u == Listed(c, k, list)
             b == a.end + 1
  <1>1. /\ d \in [Entry -> Registration] /\ d[e].first \in Nat /\ d[e].last \in Nat
        /\ begin \in Nat /\ k \in Nat /\ d[e].first <= begin
    BY DEF Working, Entries
  <1>2. /\ Chart(d, D, e, c) /\ Halfway(d, e, c, k, begin) /\ Reached(d, e, c, begin)
        /\ k \in 1 .. Len(c) /\ a.start = begin /\ a.end <= d[e].last
    BY DEF Trimmed
  <1> HIDE DEF k, begin
  <1>3. /\ c \in Seq(Area) /\ Len(c) \in Nat
        /\ \A j \in 1 .. Len(c) : c[j].start \in Nat /\ c[j].end \in Nat /\ c[j].start <= c[j].end
        /\ \A j, m \in 1 .. Len(c) : j < m => c[j].end < c[m].start
        /\ a.list \in Seq(Entry) /\ Ordered(d, a.list)
    BY <1>2, ChartIs
  <1>4. a.start \in Nat /\ a.end \in Nat /\ a.start <= a.end
    BY <1>2, <1>3
  <1>5. ~Contains(a.list, e)
    <2>1. ~(k < k)
      BY <1>1
    <2> QED
      BY <1>2, <2>1 DEF Halfway
  <1>6. /\ list \in Seq(Entry) /\ Ordered(d, list)
        /\ \A x : Contains(list, x) <=> Contains(a.list, x) \/ x = e
    BY <1>1, <1>3, <1>5, AddedIs
  <1> HIDE DEF list
  <1>7. list # << >> /\ Contains(list, e)
    <2>1. Contains(list, e)
      BY <1>6
    <2> QED
      BY <2>1 DEF Contains
  <1>8. IsListed(u, c, k, list)
    BY <1>2, <1>3, <1>6, ListedIs
  <1> HIDE DEF u
  <1>9. Chart(d, D, e, u)
    <2>1. \A x \in Entry \ {e} : Contains(list, x) <=> Contains(c[k].list, x)
      BY <1>6
    <2> HIDE DEF a
    <2> QED
      BY <1>2, <1>6, <1>7, <1>8, <2>1, ChartListed
  <1>10. /\ u \in Seq(Area) /\ Len(u) = Len(c)
         /\ \A j \in 1 .. Len(c) : j # k => u[j] = c[j]
         /\ u[k].start = a.start /\ u[k].end = a.end /\ u[k].list = list
    BY <1>8 DEF IsListed
  <1>11. \A j \in 1 .. Len(c) : u[j].start = c[j].start /\ u[j].end = c[j].end
    BY <1>10
  <1>12. Halfway(d, e, u, k + 1, b)
    <2> SUFFICES ASSUME NEW j \in 1 .. Len(u)
                 PROVE  IF j < k + 1 THEN u[j].end < b /\ Listing(d, e, u[j])
                        ELSE b <= u[j].end /\ ~Contains(u[j].list, e)
      BY DEF Halfway
    <2>1. CASE j < k
      <3>1. j \in 1 .. Len(c) /\ u[j] = c[j]
        BY <1>1, <1>10, <2>1
      <3>2. c[j].end < begin /\ Listing(d, e, c[j])
        BY <1>2, <2>1, <3>1 DEF Halfway
      <3>3. c[j].end < b
        BY <1>1, <1>2, <1>3, <1>4, <3>1, <3>2
      <3> QED
        BY <1>1, <2>1, <3>1, <3>2, <3>3
    <2>2. CASE j = k
      <3>1. Over(d, e, u[k])
        BY <1>1, <1>2, <1>10 DEF Over
      <3>2. Listing(d, e, u[k])
        BY <1>7, <1>10, <3>1 DEF Listing
      <3> QED
        BY <1>1, <1>4, <1>10, <2>2, <3>2
    <2>3. CASE j > k
      <3>1. j \in 1 .. Len(c) /\ u[j] = c[j] /\ ~(j < k)
        BY <1>1, <1>10, <2>3
      <3>2. ~Contains(c[j].list, e)
        BY <1>2, <3>1 DEF Halfway
      <3>3. a.end < c[j].start
        BY <1>2, <1>3, <2>3, <3>1
      <3>4. b <= c[j].end
        BY <1>3, <1>4, <3>1, <3>3
      <3> QED
        BY <1>1, <2>3, <3>1, <3>2, <3>4
    <2> QED
      BY <1>1, <2>1, <2>2, <2>3
  <1>13. Reached(d, e, u, b)
    <2> SUFFICES ASSUME NEW p \in d[e].first .. b - 1
                 PROVE  \E j \in 1 .. Len(u) : Within(u[j], p)
      BY DEF Reached
    <2>1. CASE p < begin
      <3>1. p \in d[e].first .. begin - 1
        BY <1>1, <2>1
      <3>2. PICK m \in 1 .. Len(c) : Within(c[m], p)
        BY <1>2, <3>1 DEF Reached
      <3> QED
        BY <1>10, <1>11, <3>2 DEF Within
    <2>2. CASE ~(p < begin)
      <3>1. Within(u[k], p)
        BY <1>1, <1>2, <1>4, <1>10, <2>2 DEF Within
      <3> QED
        BY <1>2, <1>10, <3>1
    <2> QED
      BY <2>1, <2>2
  <1>14. Ahead(u, k + 1, b)
    <2>1. ASSUME NEW j \in 1 .. Len(u), j >= k + 1
          PROVE  b <= u[j].start
      <3>1. j \in 1 .. Len(c) /\ k < j /\ u[j].start = c[j].start /\ c[j].start \in Nat
        BY <1>1, <1>3, <1>10, <1>11, <2>1
      <3>2. a.end < c[j].start
        BY <1>2, <1>3, <3>1
      <3> QED
        BY <1>4, <3>1, <3>2
    <2> QED
      BY <2>1 DEF Ahead
  <1>15. k \in 1 .. Len(u) /\ begin <= b /\ b <= d[e].last + 1 /\ b > begin /\ b \in Nat
    BY <1>1, <1>2, <1>4, <1>10
  <1> HIDE DEF b, a
  <1>16. Moved(w, u, n, b) \in Inserting(d, D, e, i + 1)
    BY <1>9, <1>12, <1>13, <1>14, <1>15, MovedInserts DEF k, begin
  <1> QED
    BY <1>16 DEF u, list, k, a, b

LEMMA RefusedTurn ==
    ASSUME NEW d, NEW D, NEW e, NEW i \in Nat, NEW w \in Inserting(d, D, e, i)
    PROVE  [w EXCEPT !.ok = FALSE] \in Inserting(d, D, e, i + 1)
  <1> DEFINE x == [w EXCEPT !.ok = FALSE]
  <1>1. w \in Insertion
    BY DEF Inserting
  <1>2. /\ x \in Insertion /\ x.vmas = w.vmas /\ x.k = w.k /\ x.begin = w.begin /\ ~x.ok
    BY <1>1 DEF Insertion
  <1> HIDE DEF x
  <1>3. x \in Inserting(d, D, e, i + 1)
    BY <1>2 DEF Inserting
  <1> QED
    BY <1>3 DEF x

LEMMA TurnOfInsertion ==
    ASSUME NEW d, NEW D, NEW e \in Entry, Entries(d, D, e), d[e].first <= d[e].last,
           NEW i \in Nat, NEW w \in Inserting(d, D, e, i)
    PROVE  Inserter(d, e)[w] \in Inserting(d, D, e, i + 1)
  <1> DEFINE v == w.vmas[w.k]
             end == d[e].last
             gap == w.k > Len(w.vmas) \/ v.start > w.begin
             last == IF w.k > Len(w.vmas) \/ v.start > end THEN end ELSE v.start - 1
             new == IF gap THEN last - w.begin + 1
                    ELSE IF v.start < w.begin THEN v.end - w.begin + 1
                    ELSE IF v.end > end THEN v.end - end
                    ELSE 0
             cut == IF v.end > end THEN Cut(w.vmas, w.k, end + 1) ELSE w.vmas
             done == ~w.ok \/ w.begin > end
             full == new # 0 /\ NoRoom(w.pinned, new)
             refused == [w EXCEPT !.ok = FALSE]
             put == Moved(w, InsertAt(w.vmas, w.k, [start |-> w.begin, end |-> last, list |-> <<e>>]),
                          new, last + 1)
             split == Moved(w, Cut(w.vmas, w.k, w.begin), new, w.begin)
             added == Moved(w, Listed(cut, w.k, AddEntry(d, v.list, e)), new, cut[w.k].end + 1)
  <1>1. w \in Insertion
    BY DEF Inserting
  <1>2. Inserter(d, e)[w] = IF done THEN w ELSE IF full THEN refused ELSE IF gap THEN put
                            ELSE IF v.start < w.begin THEN split ELSE added
    BY <1>1 DEF Inserter
  <1>3. d[e].first \in Nat /\ d[e].last \in Nat /\ w.begin \in Nat
    BY <1>1, InsertionHas, Numbers DEF Entries
  <1>4. CASE done
    <2>1. w.ok => w.begin > d[e].last
      BY <1>4
    <2>2. w.ok => Ahead(w.vmas, w.k, w.begin)
      BY <1>3, <2>1 DEF Inserting
    <2>3. w \in Inserting(d, D, e, i + 1)
      BY <1>1, <2>1, <2>2 DEF Inserting
    <2> QED
      BY <1>2, <1>4, <2>3
  <1>5. CASE ~done /\ full
    <2>1. refused \in Inserting(d, D, e, i + 1)
      BY RefusedTurn
    <2> QED
      BY <1>2, <1>5, <2>1
  <1>6. CASE ~done /\ ~full
    <2>1. Working(d, D, e, i, w)
      BY <1>6, WorkingIs
    <2>2. /\ Chart(d, D, e, w.vmas) /\ w.k \in 1 .. Len(w.vmas) + 1 /\ Len(w.vmas) \in Nat
          /\ w.k \in Nat /\ w.begin <= end
      BY <2>1 DEF Working
    <2>3. ASSUME w.k <= Len(w.vmas)
          PROVE  w.k \in 1 .. Len(w.vmas) /\ v.start \in Nat /\ v.end \in Nat /\ v.start <= v.end
      <3>1. w.k \in 1 .. Len(w.vmas)
        BY <2>2, <2>3
      <3> QED
        BY <2>2, <3>1, ChartIs
    <2>4. CASE gap
      <3>1. last \in Nat /\ w.begin <= last /\ last <= end
        <4>1. CASE w.k > Len(w.vmas)
          BY <1>3, <2>2, <4>1
        <4>2. CASE ~(w.k > Len(w.vmas))
          <5>1. v.start \in Nat /\ v.start > w.begin
            BY <2>2, <2>3, <2>4, <4>2
          <5>2. last = IF v.start > end THEN end ELSE v.start - 1
            BY <4>2
          <5>3. end \in Nat
            BY <1>3
          <5> HIDE DEF last, v, end
          <5>4. CASE v.start > end
            BY <1>3, <2>2, <5>2, <5>3, <5>4
          <5>5. CASE ~(v.start > end)
            BY <1>3, <2>2, <5>1, <5>2, <5>3, <5>5
          <5> QED
            BY <5>4, <5>5
        <4> QED
          BY <4>1, <4>2
      <3>2. \A j \in 1 .. Len(w.vmas) : j >= w.k => last < w.vmas[j].start
        <4>1. ASSUME NEW j \in 1 .. Len(w.vmas), j >= w.k
              PROVE  last < w.vmas[j].start
          <5>1. w.k <= Len(w.vmas)
            BY <2>2, <4>1
          <5>2. w.k \in 1 .. Len(w.vmas) /\ v.start \in Nat /\ v.end \in Nat /\ v.start <= v.end
            BY <2>3, <5>1
          <5>3. last < v.start
            BY <1>3, <2>2, <5>1, <5>2
          <5>4. w.vmas[j].start \in Nat /\ (w.k < j => v.end < w.vmas[j].start)
            BY <2>2, <5>2, ChartIs
          <5>5. j = w.k \/ w.k < j
            BY <2>2, <4>1
          <5> HIDE DEF last
          <5> QED
            BY <3>1, <5>2, <5>3, <5>4, <5>5
        <4> QED
          BY <4>1
      <3>3. new \in Int
        <4>1. new = last - w.begin + 1
          BY <2>4
        <4> HIDE DEF last, new
        <4> QED
          BY <1>3, <3>1, <4>1
      <3> HIDE DEF last, new
      <3>4. put \in Inserting(d, D, e, i + 1)
        BY <2>1, <3>1, <3>2, <3>3, GapTurn
      <3> QED
        BY <1>2, <1>6, <2>4, <3>4
    <2>5. CASE ~gap /\ v.start < w.begin
      <3>1. w.k <= Len(w.vmas)
        BY <2>2, <2>5
      <3>2. new = v.end - w.begin + 1
        BY <2>5
      <3>3. new \in Int
        BY <1>3, <2>3, <3>1, <3>2
      <3> HIDE DEF new
      <3>4. split \in Inserting(d, D, e, i + 1)
        BY <2>1, <2>5, <3>1, <3>3, CutTurn
      <3> HIDE DEF split
      <3> QED
        BY <1>2, <1>6, <2>5, <3>4
    <2>6. CASE ~gap /\ ~(v.start < w.begin)
      <3>1. w.k <= Len(w.vmas)
        BY <2>2, <2>6
      <3>2. v.start = w.begin
        BY <1>3, <2>3, <2>6, <3>1
      <3>3. new \in Int
        <4>1. new = IF v.end > end THEN v.end - end ELSE 0
          BY <2>6
        <4> QED
          BY <1>3, <2>3, <3>1, <4>1
      <3> HIDE DEF new
      <3>4. Trimmed(d, D, e, cut, w.k, w.begin)
        BY <2>1, <3>1, <3>2, TrimmedIs
      <3>5. cut[w.k].list = v.list
        <4>1. CASE ~(v.end > end)
          BY <4>1
        <4>2. CASE v.end > end
          <5> DEFINE b == end + 1
          <5>1. b \in Nat /\ v.start < b /\ b <= v.end
            BY <1>3, <2>2, <2>3, <3>1, <3>2, <4>2
          <5> HIDE DEF b
          <5>2. w.vmas \in Seq(Area)
            BY <2>1 DEF Working
          <5>3. IsCut(Cut(w.vmas, w.k, b), w.vmas, w.k, b)
            BY <2>3, <3>1, <5>1, <5>2, CutIs
          <5> QED
            BY <4>2, <5>3 DEF IsCut, b
        <4> QED
          BY <4>1, <4>2
      <3> HIDE DEF cut
      <3>6. Moved(w, Listed(cut, w.k, AddEntry(d, cut[w.k].list, e)), new, cut[w.k].end + 1)
                \in Inserting(d, D, e, i + 1)
        BY <2>1, <3>3, <3>4, AddTurn
      <3>7. added \in Inserting(d, D, e, i + 1)
        BY <3>5, <3>6
      <3> HIDE DEF added
      <3> QED
        BY <1>2, <1>6, <2>6, <3>7
    <2> QED
      BY <2>4, <2>5, <2>6
  <1> QED
    BY <1>4, <1>5, <1>6

LEMMA ClosestIs ==
    ASSUME NEW d, NEW D, NEW e, NEW v, Chart(d, D, e, v), NEW b \in Nat
    PROVE  /\ Closest(v, b) \in 1 .. Len(v) + 1
           /\ \A i \in 1 .. Len(v) : IF i < Closest(v, b) THEN v[i].end < b ELSE b <= v[i].end
  <1> DEFINE n == Len(v)
             T == {i \in 1 .. n : v[i].end >= b}
             Place(k) == /\ \A i \in 1 .. k - 1 : v[i].end < b
                         /\ \A i \in k .. n : v[i].end >= b
  <1>1. /\ n \in Nat
        /\ \A i \in 1 .. n : v[i].start \in Nat /\ v[i].end \in Nat /\ v[i].start <= v[i].end
        /\ \A i, j \in 1 .. n : i < j => v[i].end < v[j].start
    BY ChartIs
  <1>2. \E k \in 1 .. n + 1 : Place(k)
    <2>1. PICK k \in 1 .. n + 1 : /\ \A i \in 1 .. k - 1 : i \notin T
                                  /\ k <= n => k \in T
      <3> HIDE DEF T, n
      <3> QED
        BY <1>1, FirstSuch
    <2>2. \A i \in 1 .. k - 1 : v[i].end < b
      <3>1. ASSUME NEW i \in 1 .. k - 1
            PROVE  v[i].end < b
        <4>1. i \in 1 .. n /\ i \notin T
          BY <1>1, <2>1
        <4> QED
          BY <1>1, <4>1
      <3> QED
        BY <3>1
    <2>3. \A i \in k .. n : v[i].end >= b
      <3>1. ASSUME NEW i \in k .. n
            PROVE  v[i].end >= b
        <4>1. k \in 1 .. n /\ i \in 1 .. n /\ (i = k \/ k < i)
          BY <1>1
        <4>2. v[k].end >= b
          BY <1>1, <2>1, <4>1
        <4> QED
          BY <1>1, <4>1, <4>2
      <3> QED
        BY <3>1
    <2> QED
      BY <2>2, <2>3
  <1> DEFINE k == CHOOSE k \in 1 .. n + 1 : Place(k)
  <1>3. k \in 1 .. n + 1 /\ Place(k)
    BY <1>2
  <1>4. Closest(v, b) = k
    BY DEF Closest
  <1> HIDE DEF k
  <1>5. ASSUME NEW i \in 1 .. n
        PROVE  IF i < k THEN v[i].end < b ELSE b <= v[i].end
    <2>1. CASE i < k
      BY <1>1, <1>3, <2>1
    <2>2. CASE ~(i < k)
      <3>1. i \in k .. n
        BY <1>1, <1>3, <2>2
      <3> QED
        BY <1>1, <1>3, <2>2, <3>1
    <2> QED
      BY <2>1, <2>2
  <1> QED
    BY <1>3, <1>4, <1>5

\* An entry that is not in the table is a guest of it.
LEMMA ChartOther ==
    ASSUME NEW d, NEW D, NEW e \in Entry, Entries(d, D, e), NEW v, Chart(d, D, None, v)
    PROVE  Chart(d, D, e, v) /\ \A i \in 1 .. Len(v) : ~Contains(v[i].list, e)
  <1>1. e \notin D /\ e \in Entry \ {None} /\ Entry \ {None} = Entry
    BY DEF Entries, Entry, None
  <1>2. ASSUME NEW i \in 1 .. Len(v)
        PROVE  Fits(d, D, e, v[i]) /\ ~Contains(v[i].list, e)
    <2>1. Fits(d, D, None, v[i])
      BY DEF Chart
    <2> DEFINE a == v[i]
    <2> HIDE DEF a
    <2>2. Lists(d, D, None, a)
      BY <2>1 DEF Fits, a
    <2>3. ~Contains(a.list, e)
      BY <1>1, <2>2 DEF Lists
    <2>4. Lists(d, D, e, a)
      BY <1>1, <2>2 DEF Lists
    <2> QED
      BY <2>1, <2>3, <2>4 DEF Fits, a
  <1> QED
    BY <1>2 DEF Chart

\* The insertion begins as it goes on.
LEMMA InsertBegins ==
    ASSUME NEW d, NEW D, NEW e \in Entry, Entries(d, D, e), d[e].first <= d[e].last,
           NEW v, Chart(d, D, None, v), NEW c \in Pinned,
           NEW w, w = [vmas |-> v, pinned |-> c, k |-> Closest(v, d[e].first),
                       begin |-> d[e].first, ok |-> TRUE]
    PROVE  w \in Inserting(d, D, e, 0)
  <1> DEFINE k == Closest(v, d[e].first)
             first == d[e].first
  <1>1. first \in Nat /\ d[e].last \in Nat /\ first <= d[e].last
    BY Numbers DEF Entries
  <1>2. Chart(d, D, e, v) /\ \A i \in 1 .. Len(v) : ~Contains(v[i].list, e)
    BY ChartOther
  <1>3. /\ v \in Seq(Area) /\ Len(v) \in Nat
        /\ \A i \in 1 .. Len(v) : v[i].start \in Nat /\ v[i].end \in Nat /\ v[i].start <= v[i].end
    BY <1>2, ChartIs
  <1>4. /\ k \in 1 .. Len(v) + 1
        /\ \A i \in 1 .. Len(v) : IF i < k THEN v[i].end < first ELSE first <= v[i].end
    BY <1>1, <1>2, ClosestIs
  <1>5. w = [vmas |-> v, pinned |-> c, k |-> k, begin |-> first, ok |-> TRUE]
    OBVIOUS
  <1> HIDE DEF k
  <1>6. /\ w \in Insertion /\ w.vmas = v /\ w.k = k /\ w.begin = first /\ w.ok
    <2> HIDE DEF first
    <2> QED
      BY <1>1, <1>3, <1>4, <1>5 DEF Insertion
  <1>7. Halfway(d, e, v, k, first)
    <2> SUFFICES ASSUME NEW i \in 1 .. Len(v)
                 PROVE  IF i < k THEN v[i].end < first /\ Listing(d, e, v[i])
                        ELSE first <= v[i].end /\ ~Contains(v[i].list, e)
      BY DEF Halfway
    <2>1. CASE i < k
      <3>1. v[i].end < first
        BY <1>4, <2>1
      <3>2. ~Over(d, e, v[i]) /\ Off(d, e, v[i])
        BY <1>1, <1>3, <3>1 DEF Over, Off
      <3> QED
        BY <1>2, <2>1, <3>1, <3>2 DEF Listing
    <2>2. CASE ~(i < k)
      BY <1>2, <1>4, <2>2
    <2> QED
      BY <2>1, <2>2
  <1>8. Reached(d, e, v, first)
    BY <1>1 DEF Reached
  <1> QED
    BY <1>1, <1>2, <1>4, <1>6, <1>7, <1>8 DEF Inserting

\* The insertion that went through has put the entry into the table.
LEMMA InsertEnds ==
    ASSUME NEW d, NEW D, NEW e \in Entry, Entries(d, D, e), d[e].first <= d[e].last,
           NEW w \in Inserting(d, D, e, Pages + 1), w.ok
    PROVE  Chart(d, D \cup {e}, None, w.vmas)
  <1> DEFINE v == w.vmas
             k == w.k
             last == d[e].last
             E == D \cup {e}
  <1>1. /\ d[e].first \in Nat /\ last \in Nat /\ last \in Page /\ Pages \in Nat
        /\ \A p \in Page : p < Pages
    BY Numbers DEF Entries, Page
  <1>2. w \in Insertion
    BY DEF Inserting
  <1>3. v \in Seq(Area) /\ w.begin \in Nat /\ k \in Nat
    BY <1>2, InsertionHas
  <1>4. w.begin = last + 1
    <2> DEFINE b == w.begin
               f == d[e].first
    <2>1. b <= last + 1 /\ (b > last \/ b + 1 >= f + (Pages + 1))
      BY DEF Inserting
    <2>2. b \in Nat /\ f \in Nat /\ last \in Nat /\ last < Pages
      BY <1>1, <1>3
    <2> HIDE DEF b, f, last
    <2>3. b = last + 1
      BY <1>1, <2>1, <2>2
    <2> QED
      BY <2>3 DEF b
  <1>5. /\ Chart(d, D, e, v) /\ Halfway(d, e, v, k, last + 1) /\ Reached(d, e, v, last + 1)
        /\ Ahead(v, k, last + 1)
    BY <1>1, <1>4 DEF Inserting
  <1> HIDE DEF v, k, last
  <1>6. /\ \A i \in 1 .. Len(v) : /\ v[i].start \in Nat /\ v[i].end \in Nat
                                  /\ v[i].start <= v[i].end /\ Fits(d, D, e, v[i])
    BY <1>5, ChartIs
  <1>7. ASSUME NEW i \in 1 .. Len(v)
        PROVE  Listing(d, e, v[i])
    <2>1. CASE i < k
      BY <1>5, <2>1 DEF Halfway
    <2>2. CASE ~(i < k)
      <3>1. ~Contains(v[i].list, e)
        BY <1>5, <2>2 DEF Halfway
      <3>2. last + 1 <= v[i].start
        BY <1>3, <1>5, <2>2 DEF Ahead
      <3>3. ~Over(d, e, v[i]) /\ Off(d, e, v[i])
        BY <1>1, <1>6, <3>2 DEF Over, Off, last
      <3> QED
        BY <3>1, <3>3 DEF Listing
    <2> QED
      BY <2>1, <2>2
  <1>8. ASSUME NEW i \in 1 .. Len(v)
        PROVE  Fits(d, E, None, v[i])
    <2> DEFINE a == v[i]
    <2>1. Fits(d, D, e, a) /\ Listing(d, e, a)
      BY <1>6, <1>7
    <2> HIDE DEF a
    <2>2. Lists(d, E, None, a)
      <3> SUFFICES ASSUME NEW x \in Entry
                   PROVE  Contains(a.list, x) <=> x \in E /\ Over(d, x, a)
        BY DEF Lists
      <3>1. CASE x = e
        BY <2>1, <3>1 DEF Listing
      <3>2. CASE x # e
        <4>1. Contains(a.list, x) <=> x \in D /\ Over(d, x, a)
          BY <2>1, <3>2 DEF Fits, Lists
        <4> QED
          BY <3>2, <4>1
      <3> QED
        BY <3>1, <3>2
    <2>3. \A x \in E : Over(d, x, a) \/ Off(d, x, a)
      BY <2>1 DEF Fits, Listing
    <2> HIDE DEF E
    <2>4. Fits(d, E, None, a)
      BY <2>1, <2>2, <2>3 DEF Fits
    <2> QED
      BY <2>4 DEF a
  <1>9. Holds(d, E, v)
    <2> SUFFICES ASSUME NEW x \in E, NEW p \in d[x].first .. d[x].last
                 PROVE  \E i \in 1 .. Len(v) : Within(v[i], p)
      BY DEF Holds
    <2>1. CASE x \in D
      BY <1>5, <2>1 DEF Chart, Holds
    <2>2. CASE x = e
      <3>1. p \in d[e].first .. (last + 1) - 1
        BY <1>1, <2>2 DEF last
      <3> QED
        BY <1>5, <3>1 DEF Reached
    <2> QED
      BY <2>1, <2>2
  <1> HIDE DEF E
  <1>10. Chart(d, E, None, v)
    BY <1>5, <1>8, <1>9 DEF Chart
  <1> QED
    BY <1>10 DEF E, v

\* One that was refused can be taken back.
LEMMA InsertStops ==
    ASSUME NEW d, NEW D, NEW e \in Entry, Entries(d, D, e), NEW i, NEW w \in Inserting(d, D, e, i)
    PROVE  Chart(d, D, e, w.vmas) /\ Guest(d, e, w.vmas)
  <1> DEFINE v == w.vmas
             k == w.k
             begin == w.begin
  <1>1. d[e].first \in Nat /\ d[e].last \in Nat
    BY Numbers DEF Entries
  <1>2. w \in Insertion
    BY DEF Inserting
  <1>3. begin \in Nat
    BY <1>2, InsertionHas
  <1>4. Chart(d, D, e, v) /\ Halfway(d, e, v, k, begin) /\ Reached(d, e, v, begin)
    BY DEF Inserting
  <1> HIDE DEF v, k, begin
  <1>5. \A j \in 1 .. Len(v) : v[j].start \in Nat /\ v[j].end \in Nat /\ v[j].start <= v[j].end
    BY <1>4, ChartIs
  <1>6. ASSUME NEW j \in 1 .. Len(v), Contains(v[j].list, e)
        PROVE  Over(d, e, v[j]) /\ \E m \in 1 .. Len(v) : Within(v[m], d[e].first)
    <2>1. v[j].end < begin /\ Over(d, e, v[j])
      BY <1>4, <1>6 DEF Halfway, Listing
    <2>2. d[e].first \in d[e].first .. begin - 1
      BY <1>1, <1>3, <1>5, <2>1 DEF Over
    <2> QED
      BY <1>4, <2>1, <2>2 DEF Reached
  <1> QED
    BY <1>4, <1>6 DEF Guest, v

\* dreg_insert puts the entry into the table, or leaves the table right without it.
LEMMA InsertIs ==
    ASSUME NEW t \in Tables, NEW D, NEW e \in Entry, Entries(t.dreg, D, e),
           t.dreg[e].first <= t.dreg[e].last, Chart(t.dreg, D, None, t.vmas)
    PROVE  Redrawn(Insert(t, e).t, t, IF Insert(t, e).ok THEN D \cup {e} ELSE D)
  <1> DEFINE d == t.dreg
             v == t.vmas
             x == [vmas |-> v, pinned |-> t.pinned, k |-> Closest(v, d[e].first),
                   begin |-> d[e].first, ok |-> TRUE]
             w == Loop(Inserter(d, e), x, Pages + 1)
             u == [t EXCEPT !.vmas = w.vmas, !.pinned = w.pinned]
  <1>1. Insert(t, e) = [ok |-> w.ok, t |-> IF w.ok THEN u ELSE DregRemove(u, e)]
    BY DEF Insert
  <1>2. d \in [Entry -> Registration] /\ v \in Seq(Area) /\ t.pinned \in Pinned
    BY TableHas
  <1>3. Entries(d, D, e) /\ Chart(d, D, None, v) /\ d[e].first <= d[e].last
    OBVIOUS
  <1> HIDE DEF d, v
  <1> DEFINE I == [i \in 0 .. Pages + 1 |-> Inserting(d, D, e, i)]
             n == Pages + 1
  <1>4. x \in Inserting(d, D, e, 0)
    BY <1>2, <1>3, InsertBegins
  <1> HIDE DEF x
  <1>5. n \in Nat /\ 0 \in 0 .. n /\ n \in 0 .. n
    BY Numbers
  <1>6. x \in I[0] /\ I[n] = Inserting(d, D, e, n)
    BY <1>4, <1>5
  <1>7. ASSUME NEW i \in 1 .. n, NEW y \in I[i - 1]
        PROVE  Inserter(d, e)[y] \in I[i]
    <2> DEFINE m == i - 1
    <2>1. m \in Nat /\ m \in 0 .. n /\ i \in 0 .. n /\ m + 1 = i
      BY <1>5
    <2> HIDE DEF m
    <2>2. y \in Inserting(d, D, e, m)
      BY <2>1 DEF m
    <2>3. Inserter(d, e)[y] \in Inserting(d, D, e, m + 1)
      BY <1>3, <2>1, <2>2, TurnOfInsertion
    <2> QED
      BY <2>1, <2>3
  <1> HIDE DEF I
  <1> HIDE DEF n
  <1>8. Loop(Inserter(d, e), x, n) \in I[n]
    BY <1>5, <1>6, <1>7, LoopLeadsTo
  <1>9. w \in Inserting(d, D, e, Pages + 1)
    BY <1>6, <1>8 DEF n
  <1> HIDE DEF w
  <1> DEFINE g == w.vmas
             c == w.pinned
  <1>10. w \in Insertion
    BY <1>9 DEF Inserting
  <1>11. g \in Seq(Area) /\ c \in Pinned
    BY <1>10, InsertionHas
  <1>12. Chart(d, D, e, g) /\ Guest(d, e, g)
    BY <1>3, <1>9, InsertStops
  <1>13. w.ok => Chart(d, D \cup {e}, None, g)
    BY <1>3, <1>9, InsertEnds
  <1> HIDE DEF g, c
  <1>14. WithAreas([t EXCEPT !.vmas = g, !.pinned = c], t, g)
    BY <1>11, TableCharted
  <1>15. WithAreas(u, t, g)
    BY <1>14 DEF g, c
  <1> HIDE DEF u
  <1>16. /\ u \in Tables /\ u.vmas = g /\ u.dreg = d /\ u.free = t.free /\ u.unused = t.unused
    BY <1>15 DEF WithAreas, d
  <1>17. CASE w.ok
    <2>1. Insert(t, e).ok /\ Insert(t, e).t = u
      BY <1>1, <1>17
    <2>2. Redrawn(u, t, D \cup {e})
      BY <1>13, <1>16, <1>17 DEF Redrawn, d
    <2> QED
      BY <2>1, <2>2
  <1>18. CASE ~w.ok
    <2>1. ~Insert(t, e).ok /\ Insert(t, e).t = DregRemove(u, e)
      BY <1>1, <1>18
    <2>2. Entries(u.dreg, D, e) /\ Chart(u.dreg, D, e, u.vmas) /\ Guest(u.dreg, e, u.vmas)
      BY <1>3, <1>12, <1>16
    <2>3. Redrawn(DregRemove(u, e), u, D)
      BY <1>16, <2>2, DregRemoveIs
    <2>4. Redrawn(DregRemove(u, e), t, D)
      BY <1>16, <2>3 DEF Redrawn, d
    <2> QED
      BY <2>1, <2>4
  <1> QED
    BY <1>17, <1>18

-----------------------------------------------------------------------------
(* The lists of entries.                                                    *)

LEMMA ConsIs ==
    ASSUME NEW S, NEW s \in Seq(S), NEW e \in S, Single(s), ~Contains(s, e)
    PROVE  /\ <<e>> \o s \in Seq(S) /\ Single(<<e>> \o s)
           /\ \A x : Contains(<<e>> \o s, x) <=> Contains(s, x) \/ x = e
  <1> DEFINE a == <<e>>
             u == a \o s
             n == 1
  <1>1. a \in Seq(S) /\ Len(a) = n /\ a[1] = e
    OBVIOUS
  <1> HIDE DEF a, n
  <1>2. /\ u \in Seq(S) /\ Len(u) = n + Len(s)
        /\ \A i \in 1 .. n + Len(s) : u[i] = IF i <= n THEN a[i] ELSE s[i - n]
    BY <1>1, ConcatIs
  <1> HIDE DEF u
  <1>3. /\ Len(u) = Len(s) + 1 /\ Len(s) \in Nat /\ u[1] = e
        /\ \A i \in 2 .. Len(s) + 1 : u[i] = s[i - 1]
    <2>1. Len(u) = Len(s) + 1 /\ Len(s) \in Nat
      BY <1>2 DEF n
    <2>2. u[1] = a[1]
      BY <1>2, <2>1 DEF n
    <2>3. \A i \in 2 .. Len(s) + 1 : u[i] = s[i - 1]
      BY <1>2, <2>1 DEF n
    <2> QED
      BY <1>1, <2>1, <2>2, <2>3
  <1>4. ASSUME NEW x
        PROVE  Contains(u, x) <=> Contains(s, x) \/ x = e
    <2>1. ASSUME Contains(u, x), x # e
          PROVE  Contains(s, x)
      <3>1. PICK i \in 1 .. Len(u) : u[i] = x
        BY <2>1 DEF Contains
      <3>2. i \in 2 .. Len(s) + 1 /\ i - 1 \in 1 .. Len(s)
        BY <1>3, <2>1, <3>1
      <3> QED
        BY <1>3, <3>1, <3>2 DEF Contains
    <2>2. ASSUME Contains(s, x)
          PROVE  Contains(u, x)
      <3>1. PICK i \in 1 .. Len(s) : s[i] = x
        BY <2>2 DEF Contains
      <3> DEFINE m == i + 1
      <3>2. m \in 2 .. Len(s) + 1 /\ m - 1 = i /\ m \in 1 .. Len(u)
        BY <1>3
      <3> HIDE DEF m
      <3>3. u[m] = x
        BY <1>3, <3>1, <3>2
      <3> QED
        BY <3>2, <3>3 DEF Contains
    <2>3. Contains(u, e)
      <3>1. 1 \in 1 .. Len(u)
        BY <1>3
      <3> QED
        BY <1>3, <3>1 DEF Contains
    <2> QED
      BY <2>1, <2>2, <2>3
  <1>5. Single(u)
    <2> SUFFICES ASSUME NEW i \in 1 .. Len(u), NEW j \in 1 .. Len(u), i < j
                 PROVE  u[i] # u[j]
      BY DEF Single
    <2>1. j \in 2 .. Len(s) + 1 /\ j - 1 \in 1 .. Len(s) /\ u[j] = s[j - 1]
      BY <1>3
    <2>2. CASE i = 1
      BY <1>3, <2>1, <2>2 DEF Contains
    <2>3. CASE i # 1
      <3>1. i \in 2 .. Len(s) + 1 /\ i - 1 \in 1 .. Len(s) /\ u[i] = s[i - 1] /\ i - 1 < j - 1
        BY <1>3, <2>3
      <3> QED
        BY <2>1, <3>1 DEF Single
    <2> QED
      BY <2>2, <2>3
  <1> QED
    BY <1>2, <1>4, <1>5 DEF u, a

LEMMA TailIs ==
    ASSUME NEW S, NEW s \in Seq(S), s # << >>, Single(s)
    PROVE  /\ Tail(s) \in Seq(S) /\ Single(Tail(s)) /\ Head(s) \in S /\ Contains(s, Head(s))
           /\ \A x : Contains(Tail(s), x) <=> Contains(s, x) /\ x # Head(s)
  <1> DEFINE u == Tail(s)
             e == Head(s)
  <1>1. /\ u \in Seq(S) /\ Len(s) \in Nat /\ Len(s) > 0 /\ Len(u) = Len(s) - 1
        /\ \A i \in 1 .. Len(s) - 1 : u[i] = s[i + 1]
        /\ e \in S /\ e = s[1]
    OBVIOUS
  <1> HIDE DEF u, e
  <1>2. Contains(s, e)
    <2>1. 1 \in 1 .. Len(s)
      BY <1>1
    <2> QED
      BY <1>1, <2>1 DEF Contains
  <1>3. \A i \in 1 .. Len(u) : i + 1 \in 1 .. Len(s) /\ u[i] = s[i + 1] /\ 1 < i + 1
    BY <1>1
  <1>4. \A i \in 1 .. Len(u) : u[i] # e
    <2>1. 1 \in 1 .. Len(s)
      BY <1>1
    <2> QED
      BY <1>1, <1>3, <2>1 DEF Single
  <1>5. ASSUME NEW x
        PROVE  Contains(u, x) <=> Contains(s, x) /\ x # e
    <2>1. Contains(u, x) => Contains(s, x) /\ x # e
      BY <1>3, <1>4 DEF Contains
    <2>2. ASSUME Contains(s, x), x # e
          PROVE  Contains(u, x)
      <3>1. PICK i \in 1 .. Len(s) : s[i] = x
        BY <2>2 DEF Contains
      <3>2. i # 1
        BY <1>1, <2>2, <3>1
      <3> DEFINE m == i - 1
      <3>3. m \in 1 .. Len(u) /\ m + 1 = i
        BY <1>1, <3>2
      <3> HIDE DEF m
      <3>4. u[m] = x
        BY <1>3, <3>1, <3>3
      <3> QED
        BY <3>3, <3>4 DEF Contains
    <2> QED
      BY <2>1, <2>2
  <1>6. Single(u)
    <2> SUFFICES ASSUME NEW i \in 1 .. Len(u), NEW j \in 1 .. Len(u), i < j
                 PROVE  u[i] # u[j]
      BY DEF Single
    <2>1. i + 1 \in 1 .. Len(s) /\ j + 1 \in 1 .. Len(s) /\ i + 1 < j + 1
      BY <1>3
    <2> QED
      BY <1>3, <2>1 DEF Single
  <1> QED
    BY <1>1, <1>2, <1>5, <1>6 DEF u, e

LEMMA LastIs ==
    ASSUME NEW S, NEW s \in Seq(S), s # << >>
    PROVE  Last(s) \in S /\ Contains(s, Last(s))
  <1>1. Len(s) \in 1 .. Len(s) /\ s[Len(s)] \in S
    OBVIOUS
  <1> QED
    BY <1>1 DEF Last, Contains

-----------------------------------------------------------------------------
(* The table, its entries and the lists of them.                            *)

\* The table depends on the first and the last pages of its entries alone.
LEMMA ChartSame ==
    ASSUME NEW d, NEW D \in SUBSET Entry, NEW v, Chart(d, D, None, v), NEW c,
           \A x \in D : c[x].first = d[x].first /\ c[x].last = d[x].last
    PROVE  Chart(c, D, None, v)
  <1>1. ASSUME NEW i \in 1 .. Len(v)
        PROVE  Fits(c, D, None, v[i])
    <2> DEFINE a == v[i]
    <2>1. Fits(d, D, None, a) /\ a.list \in Seq(Entry)
      BY ChartIs
    <2> HIDE DEF a
    <2>2. \A x \in D : (Over(c, x, a) <=> Over(d, x, a)) /\ (Off(c, x, a) <=> Off(d, x, a))
      BY DEF Over, Off
    <2>3. Lists(c, D, None, a)
      BY <2>1, <2>2 DEF Fits, Lists
    <2>4. \A j \in 1 .. Len(a.list) : a.list[j] \in D
      <3> SUFFICES ASSUME NEW j \in 1 .. Len(a.list) PROVE a.list[j] \in D
        OBVIOUS
      <3>1. a.list[j] \in Entry /\ Contains(a.list, a.list[j])
        BY <2>1 DEF Contains
      <3>2. a.list[j] # None
        BY <3>1 DEF Entry, None
      <3> QED
        BY <2>1, <3>1, <3>2 DEF Fits, Lists
    <2>5. Ordered(c, a.list)
      BY <2>1, <2>4 DEF Fits, Ordered
    <2>6. Fits(c, D, None, a)
      BY <2>1, <2>2, <2>3, <2>5 DEF Fits
    <2> QED
      BY <2>6 DEF a
  <1>2. Holds(c, D, v)
    BY DEF Chart, Holds
  <1> QED
    BY <1>1, <1>2 DEF Chart

\* An entry of the table is a guest of the table of the others.
LEMMA ChartGuest ==
    ASSUME NEW d, NEW D \in SUBSET Entry, d \in [Entry -> Registration],
           \A x \in D : d[x].first <= d[x].last,
           NEW v, Chart(d, D, None, v), NEW e \in D
    PROVE  Entries(d, D \ {e}, e) /\ Chart(d, D \ {e}, e, v) /\ Guest(d, e, v)
  <1> DEFINE E == D \ {e}
  <1>1. e \in Entry /\ e # None
    BY DEF Entry, None
  <1>2. ASSUME NEW i \in 1 .. Len(v)
        PROVE  Fits(d, E, e, v[i]) /\ (Contains(v[i].list, e) => Over(d, e, v[i]))
    <2> DEFINE a == v[i]
    <2>1. Fits(d, D, None, a)
      BY DEF Chart
    <2> HIDE DEF a
    <2>2. Lists(d, D, None, a)
      BY <2>1 DEF Fits
    <2>3. Contains(a.list, e) => Over(d, e, a)
      BY <1>1, <2>2 DEF Lists
    <2>4. Lists(d, E, e, a)
      <3> SUFFICES ASSUME NEW x \in Entry \ {e}
                   PROVE  Contains(a.list, x) <=> x \in E /\ Over(d, x, a)
        BY DEF Lists
      <3>1. x # None /\ (x \in E <=> x \in D)
        BY DEF Entry, None
      <3> QED
        BY <2>2, <3>1 DEF Lists
    <2> QED
      BY <2>1, <2>3, <2>4 DEF Fits, a
  <1>3. Guest(d, e, v)
    <2>1. d[e].first \in d[e].first .. d[e].last
      BY <1>1, Numbers
    <2> QED
      BY <1>2, <2>1 DEF Guest, Chart, Holds
  <1>4. Chart(d, E, e, v)
    BY <1>2 DEF Chart, Holds
  <1> QED
    BY <1>3, <1>4 DEF Entries

\* No request is of the size of the limit, for which its entry would be lost.
Room == CacheLimit = 0 \/ CacheLimit > Pages

\* The entries and their lists, where D are the registrations; the entry e is
\* on its way from one list to another, or None is.
Sorted(d, D, fs, us, e) ==
    /\ \A x \in D : d[x].first <= d[x].last
    /\ Single(fs) /\ Single(us)
    /\ ~Contains(fs, e) /\ ~Contains(us, e)
    /\ e \in Entry => d[e].refcount = 0
    /\ \A x \in Entry \ {e} :
        /\ d[x].is_valid <=> x \in D
        /\ Contains(fs, x) => x \notin D
        /\ Contains(us, x) <=> x \in D /\ d[x].refcount = 0
        /\ d[x].refcount # 0 => x \in D
        /\ Room => x \in D \/ Contains(fs, x)

Sound(t, D, e) ==
    /\ t \in Tables /\ D \in SUBSET Entry /\ Chart(t.dreg, D, None, t.vmas)
    /\ Sorted(t.dreg, D, t.free, t.unused, e)

\* u is the table t with other entries and lists.
WithLists(u, t, d, fs, us) ==
    /\ u \in Tables /\ u.dreg = d /\ u.free = fs /\ u.unused = us
    /\ u.vmas = t.vmas /\ u.pinned = t.pinned

LEMMA SoundHas ==
    ASSUME NEW t, NEW D, NEW e, Sound(t, D, e)
    PROVE  /\ t \in Tables /\ t.dreg \in [Entry -> Registration] /\ t.vmas \in Seq(Area)
           /\ t.free \in Seq(Entry) /\ t.unused \in Seq(Entry)
           /\ D \in SUBSET Entry /\ Chart(t.dreg, D, None, t.vmas)
           /\ Sorted(t.dreg, D, t.free, t.unused, e)
           /\ Single(t.free) /\ Single(t.unused) /\ ~Contains(t.free, e)
           /\ ~Contains(t.unused, e)
  BY TableHas DEF Sound, Sorted

LEMMA NoneOnNone ==
    /\ None \notin Entry
    /\ \A s \in Seq(Entry) : ~Contains(s, None)
  <1>1. None \notin Entry
    BY DEF None, Entry
  <1>2. ASSUME NEW s \in Seq(Entry), NEW i \in 1 .. Len(s)
        PROVE  s[i] # None
    <2>1. s[i] \in Entry
      OBVIOUS
    <2> QED
      BY <1>1, <2>1
  <1> QED
    BY <1>1, <1>2 DEF Contains

LEMMA BlankIs ==
    Blank \in Registration /\ ~Blank.is_valid /\ Blank.refcount = 0
  <1>1. 0 \in Page
    BY Numbers DEF Page
  <1> QED
    BY <1>1 DEF Blank, Registration

\* The entries of the table changed in what says nothing of the pages.
LEMMA SoundWith ==
    ASSUME NEW t, NEW D, NEW e, Sound(t, D, e), NEW u, NEW d, NEW fs, NEW us,
           WithLists(u, t, d, fs, us), NEW g, Sorted(d, D, fs, us, g),
           \A x \in D : d[x].first = t.dreg[x].first /\ d[x].last = t.dreg[x].last
    PROVE  Sound(u, D, g)
  <1>1. D \in SUBSET Entry /\ Chart(t.dreg, D, None, t.vmas)
    BY DEF Sound
  <1>2. Chart(d, D, None, t.vmas)
    BY <1>1, ChartSame
  <1> QED
    BY <1>1, <1>2 DEF Sound, WithLists

\* DREG_ADD_TO_FREE_LIST takes up an entry that is no registration any more.
LEMMA ReleaseIs ==
    ASSUME NEW t, NEW D, NEW e \in Entry, Sound(t, D, e), e \notin D
    PROVE  Sound(Release(t, e), D, None) /\ Release(t, e).dreg = [t.dreg EXCEPT ![e] = Blank]
  <1> DEFINE u == Release(t, e)
             fs == <<e>> \o t.free
             us == t.unused
             d == [t.dreg EXCEPT ![e] = Blank]
  <1>1. /\ t \in Tables /\ t.dreg \in [Entry -> Registration] /\ D \in SUBSET Entry
        /\ t.free \in Seq(Entry) /\ t.unused \in Seq(Entry) /\ Single(t.free)
        /\ ~Contains(t.free, e) /\ Sorted(t.dreg, D, t.free, t.unused, e)
    BY SoundHas
  <1>2. /\ fs \in Seq(Entry) /\ Single(fs)
        /\ \A x : Contains(fs, x) <=> Contains(t.free, x) \/ x = e
    BY <1>1, ConsIs
  <1>3. /\ d \in [Entry -> Registration] /\ \A x \in Entry \ {e} : d[x] = t.dreg[x]
        /\ d[e] = Blank
    BY <1>1, BlankIs
  <1>4. u = [t EXCEPT !.free = fs, !.dreg = d]
    BY <1>1 DEF Release, Tables
  <1> HIDE DEF u, fs, d
  <1>5. WithLists(u, t, d, fs, us)
    BY <1>1, <1>2, <1>3, <1>4 DEF WithLists, Tables
  <1>6. None \notin Entry /\ ~Contains(t.free, None) /\ ~Contains(t.unused, None)
    BY <1>1, NoneOnNone
  <1>7. ~d[e].is_valid /\ d[e].refcount = 0 /\ Contains(fs, e)
    BY <1>2, <1>3, BlankIs
  <1>8. Sorted(d, D, fs, us, None)
    <2>1. \A x \in D : d[x].first <= d[x].last
      BY <1>1, <1>3 DEF Sorted
    <2>2. ASSUME NEW x \in Entry
          PROVE  /\ d[x].is_valid <=> x \in D
                 /\ Contains(fs, x) => x \notin D
                 /\ Contains(us, x) <=> x \in D /\ d[x].refcount = 0
                 /\ d[x].refcount # 0 => x \in D
                 /\ Room => x \in D \/ Contains(fs, x)
      <3>1. CASE x = e
        BY <1>1, <1>7, <3>1 DEF Sorted
      <3>2. CASE x # e
        <4>1. d[x] = t.dreg[x] /\ (Contains(fs, x) <=> Contains(t.free, x))
          BY <1>2, <1>3, <3>2
        <4> QED
          BY <1>1, <3>2, <4>1 DEF Sorted
      <3> QED
        BY <3>1, <3>2
    <2> QED
      BY <1>1, <1>2, <1>6, <2>1, <2>2 DEF Sorted
  <1>9. \A x \in D : d[x].first = t.dreg[x].first /\ d[x].last = t.dreg[x].last
    BY <1>1, <1>3
  <1>10. Sound(u, D, None)
    BY <1>5, <1>8, <1>9, SoundWith
  <1>11. u.dreg = d
    BY <1>5 DEF WithLists
  <1> QED
    BY <1>10, <1>11 DEF u, d

\* Other areas, the same entries
LEMMA SoundRedrawn ==
    ASSUME NEW t, NEW D, NEW e \in Entry, Sound(t, D, e), NEW u, NEW E \in SUBSET Entry,
           Redrawn(u, t, E), \A x \in Entry \ {e} : x \in E <=> x \in D,
           e \in E => t.dreg[e].first <= t.dreg[e].last
    PROVE  Sound(u, E, e) /\ u.dreg = t.dreg
  <1>1. /\ u \in Tables /\ u.dreg = t.dreg /\ u.free = t.free /\ u.unused = t.unused
        /\ Chart(u.dreg, E, None, u.vmas)
    BY DEF Redrawn
  <1>2. Sorted(t.dreg, D, t.free, t.unused, e)
    BY DEF Sound
  <1>3. Sorted(t.dreg, E, t.free, t.unused, e)
    <2>1. \A x \in E : t.dreg[x].first <= t.dreg[x].last
      BY <1>2 DEF Sorted
    <2> QED
      BY <1>2, <2>1 DEF Sorted
  <1> QED
    BY <1>1, <1>3 DEF Sound

\* dreg_remove takes the registration out of the table.
LEMMA RemovedIs ==
    ASSUME NEW t, NEW D, NEW e \in D, Sound(t, D, e)
    PROVE  Sound(DregRemove(t, e), D \ {e}, e) /\ DregRemove(t, e).dreg = t.dreg
  <1> DEFINE u == DregRemove(t, e)
             E == D \ {e}
  <1>1. /\ t \in Tables /\ t.dreg \in [Entry -> Registration] /\ D \in SUBSET Entry
        /\ Chart(t.dreg, D, None, t.vmas) /\ \A x \in D : t.dreg[x].first <= t.dreg[x].last
    BY SoundHas DEF Sorted
  <1>2. e \in Entry
    BY <1>1
  <1>3. Entries(t.dreg, E, e) /\ Chart(t.dreg, E, e, t.vmas) /\ Guest(t.dreg, e, t.vmas)
    BY <1>1, ChartGuest
  <1>4. E \in SUBSET Entry /\ e \notin E /\ \A x \in Entry \ {e} : x \in E <=> x \in D
    BY <1>1
  <1> HIDE DEF E
  <1>5. Redrawn(u, t, E)
    BY <1>1, <1>2, <1>3, DregRemoveIs
  <1> HIDE DEF u
  <1>6. Sound(u, E, e) /\ u.dreg = t.dreg
    BY <1>2, <1>4, <1>5, SoundRedrawn
  <1> QED
    BY <1>6 DEF u, E

LEMMA InsertedIs ==
    ASSUME NEW t, NEW D, NEW e \in Entry, Sound(t, D, e), e \notin D,
           t.dreg[e].first <= t.dreg[e].last
    PROVE  /\ Sound(Insert(t, e).t, IF Insert(t, e).ok THEN D \cup {e} ELSE D, e)
           /\ Insert(t, e).t.dreg = t.dreg
  <1> DEFINE u == Insert(t, e).t
             E == IF Insert(t, e).ok THEN D \cup {e} ELSE D
  <1>1. /\ t \in Tables /\ t.dreg \in [Entry -> Registration] /\ D \in SUBSET Entry
        /\ Chart(t.dreg, D, None, t.vmas) /\ \A x \in D : t.dreg[x].first <= t.dreg[x].last
    BY SoundHas DEF Sorted
  <1>2. Entries(t.dreg, D, e)
    BY <1>1 DEF Entries
  <1>3. Redrawn(u, t, E)
    BY <1>1, <1>2, InsertIs
  <1>4. E \in SUBSET Entry /\ \A x \in Entry \ {e} : x \in E <=> x \in D
    BY <1>1
  <1> HIDE DEF u, E
  <1>5. Sound(u, E, e) /\ u.dreg = t.dreg
    BY <1>3, <1>4, SoundRedrawn
  <1> QED
    BY <1>5 DEF u, E

\* The same uses of the entries, and those in use untouched
Kept(c, d) ==
    \A x \in Entry : c[x].refcount = d[x].refcount /\ (d[x].refcount # 0 => c[x] = d[x])

\* dreg_remove and DREG_ADD_TO_FREE_LIST, of an entry that is not in use
LEMMA DropIs ==
    ASSUME NEW t, NEW D, NEW e \in D, Sound(t, D, None), t.dreg[e].refcount = 0
    PROVE  Sound(Drop(t, e), D \ {e}, None) /\ Kept(Drop(t, e).dreg, t.dreg)
  <1> DEFINE us == Without(t.unused, e)
             u == [t EXCEPT !.unused = us]
             w == DregRemove(u, e)
  <1>1. /\ t \in Tables /\ t.dreg \in [Entry -> Registration] /\ D \in SUBSET Entry
        /\ t.free \in Seq(Entry) /\ t.unused \in Seq(Entry) /\ Single(t.unused)
        /\ Sorted(t.dreg, D, t.free, t.unused, None)
    BY SoundHas
  <1>2. e \in Entry
    BY <1>1
  <1>3. Purged(us, Entry, t.unused, e)
    BY <1>1, PurgedIs
  <1>4. Single(us) /\ us \in Seq(Entry)
        /\ \A x : Contains(us, x) <=> Contains(t.unused, x) /\ x # e
    <2> HIDE DEF us
    <2>1. Single(us)
      BY <1>1, <1>3, PurgedSingle
    <2> QED
      BY <1>3, <2>1 DEF Purged
  <1> HIDE DEF us
  <1>5. WithLists(u, t, t.dreg, t.free, us)
    BY <1>1, <1>4 DEF WithLists, Tables
  <1>6. Sorted(t.dreg, D, t.free, us, e)
    <2>1. ~Contains(t.free, e) /\ ~Contains(us, e)
      BY <1>1, <1>2, <1>4, NoneOnNone DEF Sorted
    <2>2. \A x \in Entry \ {e} : /\ Contains(us, x) <=> Contains(t.unused, x)
                                 /\ x \in Entry \ {None}
      BY <1>4, NoneOnNone
    <2> QED
      BY <1>1, <1>4, <2>1, <2>2 DEF Sorted
  <1> HIDE DEF u
  <1>7. Sound(u, D, e) /\ u.dreg = t.dreg
    BY <1>5, <1>6, SoundWith DEF WithLists
  <1>8. Sound(w, D \ {e}, e) /\ w.dreg = u.dreg
    BY <1>7, RemovedIs
  <1> HIDE DEF w
  <1>9. Sound(Release(w, e), D \ {e}, None) /\ Release(w, e).dreg = [w.dreg EXCEPT ![e] = Blank]
    <2> DEFINE E == D \ {e}
    <2>1. e \notin E
      OBVIOUS
    <2> HIDE DEF E
    <2>2. Sound(w, E, e)
      BY <1>8 DEF E
    <2>3. Sound(Release(w, e), E, None) /\ Release(w, e).dreg = [w.dreg EXCEPT ![e] = Blank]
      BY <1>2, <2>1, <2>2, ReleaseIs
    <2> QED
      BY <2>3 DEF E
  <1>10. Drop(t, e) = Release(w, e)
    BY DEF Drop, w, u, us
  <1>11. Kept([w.dreg EXCEPT ![e] = Blank], t.dreg)
    BY <1>1, <1>7, <1>8, BlankIs DEF Kept
  <1> QED
    BY <1>9, <1>10, <1>11

\* One use more of a registration, which may be new
LEMMA IncrIs ==
    ASSUME NEW t, NEW D, NEW e \in D, NEW g, Sound(t, D, g),
           g = None \/ (g = e /\ t.dreg[e].is_valid)
    PROVE  /\ Sound(IncrRefcount(t, e), D, None)
           /\ IncrRefcount(t, e).dreg
                = [t.dreg EXCEPT ![e] = [t.dreg[e] EXCEPT !.refcount = @ + 1]]
  <1> DEFINE us == IF t.dreg[e].refcount = 0 THEN Without(t.unused, e) ELSE t.unused
             r == [t.dreg[e] EXCEPT !.refcount = @ + 1]
             d == [t.dreg EXCEPT ![e] = r]
             u == IncrRefcount(t, e)
  <1>1. /\ t \in Tables /\ t.dreg \in [Entry -> Registration] /\ D \in SUBSET Entry
        /\ t.free \in Seq(Entry) /\ t.unused \in Seq(Entry) /\ Single(t.unused)
        /\ Sorted(t.dreg, D, t.free, t.unused, g)
    BY SoundHas
  <1>2. e \in Entry /\ t.dreg[e] \in Registration
    BY <1>1
  <1>3. /\ r \in Registration /\ r.refcount # 0 /\ r.is_valid = t.dreg[e].is_valid
        /\ r.first = t.dreg[e].first /\ r.last = t.dreg[e].last
    BY <1>2 DEF Registration
  <1>4. u = [t EXCEPT !.dreg = d, !.unused = us]
    BY <1>1, <1>2 DEF IncrRefcount, Tables
  <1>5. Single(us) /\ us \in Seq(Entry)
        /\ \A x \in Entry : Contains(us, x) <=> Contains(t.unused, x) /\ x # e
    <2>1. CASE t.dreg[e].refcount = 0
      <3> DEFINE s == Without(t.unused, e)
      <3>1. us = s /\ Purged(s, Entry, t.unused, e)
        BY <1>1, <2>1, PurgedIs
      <3> HIDE DEF s, us
      <3>2. Single(s)
        BY <1>1, <3>1, PurgedSingle
      <3> QED
        BY <3>1, <3>2 DEF Purged
    <2>2. CASE t.dreg[e].refcount # 0
      <3>1. g # e
        BY <1>1, <1>2, <2>2 DEF Sorted
      <3>2. ~Contains(t.unused, e)
        BY <1>1, <1>2, <2>2, <3>1 DEF Sorted
      <3> QED
        BY <1>1, <2>2, <3>2
    <2> QED
      BY <2>1, <2>2
  <1> HIDE DEF us, r, u
  <1>6. /\ d \in [Entry -> Registration] /\ d[e] = r /\ \A x \in Entry \ {e} : d[x] = t.dreg[x]
    BY <1>1, <1>2, <1>3
  <1> HIDE DEF d
  <1>7. WithLists(u, t, d, t.free, us)
    BY <1>1, <1>4, <1>5, <1>6 DEF WithLists, Tables
  <1>8. \A x \in D : d[x].first = t.dreg[x].first /\ d[x].last = t.dreg[x].last
    BY <1>1, <1>3, <1>6
  <1>9. Sorted(d, D, t.free, us, None)
    <2>1. \A x \in D : d[x].first <= d[x].last
      BY <1>1, <1>8 DEF Sorted
    <2>2. ~Contains(t.free, None) /\ ~Contains(us, None) /\ None \notin Entry
      BY <1>1, <1>5, NoneOnNone
    <2>3. ~Contains(t.free, e) /\ t.dreg[e].is_valid
      BY <1>1, <1>2, NoneOnNone DEF Sorted
    <2>4. ASSUME NEW x \in Entry
          PROVE  /\ d[x].is_valid <=> x \in D
                 /\ Contains(t.free, x) => x \notin D
                 /\ Contains(us, x) <=> x \in D /\ d[x].refcount = 0
                 /\ d[x].refcount # 0 => x \in D
                 /\ Room => x \in D \/ Contains(t.free, x)
      <3>1. CASE x = e
        BY <1>3, <1>5, <1>6, <2>3, <3>1
      <3>2. CASE x # e
        <4>1. d[x] = t.dreg[x] /\ x # g /\ (Contains(us, x) <=> Contains(t.unused, x))
          BY <1>5, <1>6, <2>2, <3>2
        <4> QED
          BY <1>1, <3>2, <4>1 DEF Sorted
      <3> QED
        BY <3>1, <3>2
    <2> QED
      BY <1>1, <1>5, <2>1, <2>2, <2>4 DEF Sorted
  <1>10. Sound(u, D, None) /\ u.dreg = d
    BY <1>7, <1>8, <1>9, SoundWith DEF WithLists
  <1> QED
    BY <1>10 DEF u, d, r

\* One use less
LEMMA DecrIs ==
    ASSUME NEW t, NEW D, NEW e \in D, Sound(t, D, None), t.dreg[e].refcount # 0
    PROVE  /\ Sound(DecrRefcount(t, e), D, None)
           /\ DecrRefcount(t, e).dreg
                = [t.dreg EXCEPT ![e] = [t.dreg[e] EXCEPT !.refcount = @ - 1]]
  <1> DEFINE us == IF t.dreg[e].refcount = 1 THEN <<e>> \o t.unused ELSE t.unused
             r == [t.dreg[e] EXCEPT !.refcount = @ - 1]
             d == [t.dreg EXCEPT ![e] = r]
             u == DecrRefcount(t, e)
  <1>1. /\ t \in Tables /\ t.dreg \in [Entry -> Registration] /\ D \in SUBSET Entry
        /\ t.free \in Seq(Entry) /\ t.unused \in Seq(Entry) /\ Single(t.unused)
        /\ Sorted(t.dreg, D, t.free, t.unused, None)
    BY SoundHas
  <1>2. e \in Entry /\ t.dreg[e] \in Registration /\ None \notin Entry
    BY <1>1, NoneOnNone
  <1>3. /\ r \in Registration /\ r.is_valid = t.dreg[e].is_valid
        /\ (r.refcount = 0 <=> t.dreg[e].refcount = 1)
        /\ r.first = t.dreg[e].first /\ r.last = t.dreg[e].last
    BY <1>2 DEF Registration
  <1>4. u = [t EXCEPT !.dreg = d, !.unused = us]
    BY <1>1, <1>2 DEF DecrRefcount, Tables
  <1>5. ~Contains(t.unused, e) /\ ~Contains(t.free, e) /\ t.dreg[e].is_valid
    BY <1>1, <1>2 DEF Sorted
  <1>6. /\ Single(us) /\ us \in Seq(Entry)
        /\ \A x \in Entry : Contains(us, x) <=> IF x = e THEN t.dreg[e].refcount = 1
                                                    ELSE Contains(t.unused, x)
    <2>1. CASE t.dreg[e].refcount = 1
      <3> DEFINE s == <<e>> \o t.unused
      <3>1. us = s
        BY <2>1
      <3>2. /\ s \in Seq(Entry) /\ Single(s)
            /\ \A x : Contains(s, x) <=> Contains(t.unused, x) \/ x = e
        BY <1>1, <1>2, <1>5, ConsIs
      <3> HIDE DEF s, us
      <3> QED
        BY <2>1, <3>1, <3>2
    <2>2. CASE t.dreg[e].refcount # 1
      BY <1>1, <1>5, <2>2
    <2> QED
      BY <2>1, <2>2
  <1> HIDE DEF us, r, u
  <1>7. /\ d \in [Entry -> Registration] /\ d[e] = r /\ \A x \in Entry \ {e} : d[x] = t.dreg[x]
    BY <1>1, <1>2, <1>3
  <1> HIDE DEF d
  <1>8. WithLists(u, t, d, t.free, us)
    BY <1>1, <1>4, <1>6, <1>7 DEF WithLists, Tables
  <1>9. \A x \in D : d[x].first = t.dreg[x].first /\ d[x].last = t.dreg[x].last
    BY <1>1, <1>3, <1>7
  <1>10. Sorted(d, D, t.free, us, None)
    <2>1. \A x \in D : d[x].first <= d[x].last
      BY <1>1, <1>9 DEF Sorted
    <2>2. ~Contains(t.free, None) /\ ~Contains(us, None)
      BY <1>1, <1>6, NoneOnNone
    <2>3. ASSUME NEW x \in Entry
          PROVE  /\ d[x].is_valid <=> x \in D
                 /\ Contains(t.free, x) => x \notin D
                 /\ Contains(us, x) <=> x \in D /\ d[x].refcount = 0
                 /\ d[x].refcount # 0 => x \in D
                 /\ Room => x \in D \/ Contains(t.free, x)
      <3>1. CASE x = e
        BY <1>3, <1>5, <1>6, <1>7, <3>1
      <3>2. CASE x # e
        <4>1. d[x] = t.dreg[x] /\ x # None /\ (Contains(us, x) <=> Contains(t.unused, x))
          BY <1>2, <1>6, <1>7, <3>2
        <4> QED
          BY <1>1, <3>2, <4>1 DEF Sorted
      <3> QED
        BY <3>1, <3>2
    <2> QED
      BY <1>1, <1>2, <1>6, <2>1, <2>2, <2>3 DEF Sorted
  <1>11. Sound(u, D, None) /\ u.dreg = d
    BY <1>8, <1>9, <1>10, SoundWith DEF WithLists
  <1> QED
    BY <1>11 DEF u, d, r

\* The entry that an attempt came to, None when it came to nothing
Obtained(n, t, D, begin, end, acl) ==
    IF n.e = None THEN Sound(n.t, D, None) /\ Kept(n.t.dreg, t.dreg)
    ELSE /\ n.e \in Entry /\ n.e \notin D /\ Sound(n.t, D \cup {n.e}, n.e)
         /\ n.t.dreg[n.e].is_valid /\ n.t.dreg[n.e].acl = acl
         /\ n.t.dreg[n.e].first = begin /\ n.t.dreg[n.e].last = end
         /\ t.dreg[n.e].refcount = 0
         /\ \A x \in Entry \ {n.e} : n.t.dreg[x] = t.dreg[x]

\* What is known of the first entry of the free list
LEMMA FirstFree ==
    ASSUME NEW t, NEW D, Sound(t, D, None), t.free # << >>, NEW e, e = Head(t.free)
    PROVE  /\ e \in Entry /\ e \notin D /\ t.dreg[e].refcount = 0
           /\ Tail(t.free) \in Seq(Entry) /\ Single(Tail(t.free))
           /\ ~Contains(t.unused, e)
           /\ \A x : Contains(Tail(t.free), x) <=> Contains(t.free, x) /\ x # e
  <1>1. /\ t.free \in Seq(Entry) /\ Single(t.free) /\ Sorted(t.dreg, D, t.free, t.unused, None)
    BY SoundHas
  <1>2. /\ e \in Entry /\ Contains(t.free, e)
        /\ Tail(t.free) \in Seq(Entry) /\ Single(Tail(t.free))
        /\ \A x : Contains(Tail(t.free), x) <=> Contains(t.free, x) /\ x # e
    BY <1>1, TailIs
  <1>3. e # None
    BY <1>2, NoneOnNone
  <1>4. e \notin D
    BY <1>1, <1>2, <1>3 DEF Sorted
  <1>5. t.dreg[e].refcount = 0 /\ ~Contains(t.unused, e)
    BY <1>1, <1>2, <1>3, <1>4 DEF Sorted
  <1> QED
    BY <1>2, <1>4, <1>5

\* It is taken for a request of the size of the limit, and lost.
LEMMA LostIs ==
    ASSUME NEW t, NEW D, Sound(t, D, None), t.free # << >>, ~Room
    PROVE  Sound([t EXCEPT !.free = Tail(@)], D, None)
  <1> DEFINE fs == Tail(t.free)
             e == Head(t.free)
             u == [t EXCEPT !.free = Tail(@)]
  <1>1. /\ t \in Tables /\ t.free \in Seq(Entry)
        /\ Sorted(t.dreg, D, t.free, t.unused, None)
    BY SoundHas
  <1>2. /\ fs \in Seq(Entry) /\ Single(fs)
        /\ \A x : Contains(fs, x) <=> Contains(t.free, x) /\ x # e
    BY FirstFree
  <1> HIDE DEF fs, e
  <1>3. u = [t EXCEPT !.free = fs]
    BY DEF fs
  <1> HIDE DEF u
  <1>4. WithLists(u, t, t.dreg, fs, t.unused)
    BY <1>1, <1>2, <1>3 DEF WithLists, Tables
  <1>5. Sorted(t.dreg, D, fs, t.unused, None)
    BY <1>1, <1>2 DEF Sorted
  <1>6. Sound(u, D, None)
    BY <1>4, <1>5, SoundWith
  <1> QED
    BY <1>6 DEF u

\* It is taken and filled in for a request.
LEMMA FilledIs ==
    ASSUME NEW t, NEW D, Sound(t, D, None), t.free # << >>, NEW e, e = Head(t.free),
           NEW d \in [Entry -> Registration], d[e].refcount = 0,
           \A x \in Entry \ {e} : d[x] = t.dreg[x],
           NEW u, WithLists(u, t, d, Tail(t.free), t.unused)
    PROVE  Sound(u, D, e)
  <1> DEFINE fs == Tail(t.free)
  <1>1. /\ t \in Tables /\ t.free \in Seq(Entry) /\ t.dreg \in [Entry -> Registration]
        /\ D \in SUBSET Entry /\ Sorted(t.dreg, D, t.free, t.unused, None)
    BY SoundHas
  <1>2. /\ e \in Entry /\ e \notin D /\ fs \in Seq(Entry) /\ Single(fs)
        /\ ~Contains(t.unused, e)
        /\ \A x : Contains(fs, x) <=> Contains(t.free, x) /\ x # e
    BY FirstFree
  <1> HIDE DEF fs
  <1>3. \A x \in D : d[x] = t.dreg[x] /\ x \in Entry \ {e}
    BY <1>1, <1>2
  <1>4. Sorted(d, D, fs, t.unused, e)
    <2>1. \A x \in D : d[x].first <= d[x].last
      BY <1>1, <1>3 DEF Sorted
    <2>2. \A x \in Entry \ {e} : /\ d[x] = t.dreg[x] /\ x \in Entry \ {None}
                                 /\ (Contains(fs, x) <=> Contains(t.free, x))
      BY <1>2, NoneOnNone
    <2> QED
      BY <1>1, <1>2, <2>1, <2>2 DEF Sorted
  <1>5. WithLists(u, t, d, fs, t.unused)
    BY DEF fs
  <1>6. \A x \in D : d[x].first = t.dreg[x].first /\ d[x].last = t.dreg[x].last
    BY <1>3
  <1> QED
    BY <1>4, <1>5, <1>6, SoundWith

\* What ibv_reg_mr gave for the entry e is put down in it.
LEMMA ValidIs ==
    ASSUME NEW t, NEW E, NEW e \in E, Sound(t, E, e), NEW d \in [Entry -> Registration],
           \A x \in Entry \ {e} : d[x] = t.dreg[x],
           d[e].is_valid, d[e].refcount = t.dreg[e].refcount,
           d[e].first = t.dreg[e].first, d[e].last = t.dreg[e].last,
           NEW u, WithLists(u, t, d, t.free, t.unused)
    PROVE  Sound(u, E, e)
  <1>1. /\ t.dreg \in [Entry -> Registration] /\ E \in SUBSET Entry
        /\ Sorted(t.dreg, E, t.free, t.unused, e)
    BY SoundHas
  <1>2. \A x \in E : d[x].first = t.dreg[x].first /\ d[x].last = t.dreg[x].last
    BY <1>1
  <1>3. Sorted(d, E, t.free, t.unused, e)
    <2>1. \A x \in E : d[x].first <= d[x].last
      BY <1>1, <1>2 DEF Sorted
    <2> QED
      BY <1>1, <2>1 DEF Sorted
  <1> QED
    BY <1>2, <1>3, SoundWith

LEMMA NewEntryIs ==
    ASSUME NEW t, NEW D, Sound(t, D, None), NEW begin \in Page, NEW end \in Page, begin <= end,
           NEW acl \in {Read, Write}, NEW registers
    PROVE  Obtained(NewEntry(t, begin, end, acl, registers), t, D, begin, end, acl)
  <1> DEFINE e == Head(t.free)
             q == [first |-> begin, last |-> end, acl |-> acl,
                   refcount |-> 0, is_valid |-> FALSE, mr |-> {}]
             u == [t EXCEPT !.free = Tail(@), !.dreg[e] = q]
             r == Insert(u, e)
             n == NewEntry(t, begin, end, acl, registers)
             large == CacheLimit # 0 /\ end - begin + 1 >= CacheLimit
             lost == [t EXCEPT !.free = Tail(@)]
             w == DregRemove(r.t, e)
             mr == begin .. end
             z == [r.t EXCEPT !.dreg[e].is_valid = TRUE, !.dreg[e].mr = mr]
  <1>1. n = IF t.free = << >> THEN [e |-> None, t |-> t]
            ELSE IF large THEN [e |-> None, t |-> lost]
            ELSE IF ~r.ok THEN [e |-> None, t |-> Release(r.t, e)]
            ELSE IF ~registers THEN [e |-> None, t |-> Release(w, e)]
            ELSE [e |-> e, t |-> z]
    BY DEF NewEntry
  <1>2. t \in Tables /\ t.dreg \in [Entry -> Registration] /\ D \in SUBSET Entry
    BY SoundHas
  <1> HIDE DEF n
  <1>3. CASE t.free = << >>
    <2>1. n.e = None /\ n.t = t
      BY <1>1, <1>3
    <2> QED
      BY <2>1 DEF Obtained, Kept, n
  <1>4. CASE t.free # << >> /\ large
    <2>1. n.e = None /\ n.t = lost
      BY <1>1, <1>4
    <2>2. ~Room
      <3>1. begin \in Nat /\ end \in Nat /\ end < Pages /\ Pages \in Nat
        BY Numbers DEF Page
      <3> QED
        BY <1>4, <3>1, CacheAssumption DEF Room
    <2>3. Sound(lost, D, None)
      BY <1>4, <2>2, LostIs
    <2>4. lost.dreg = t.dreg
      BY <1>2 DEF Tables
    <2> QED
      BY <2>1, <2>3, <2>4 DEF Obtained, Kept, n
  <1>5. CASE t.free # << >> /\ ~large
    <2>1. n = IF ~r.ok THEN [e |-> None, t |-> Release(r.t, e)]
              ELSE IF ~registers THEN [e |-> None, t |-> Release(w, e)]
              ELSE [e |-> e, t |-> z]
      BY <1>1, <1>5
    <2>2. q \in Registration /\ q.refcount = 0 /\ q.first = begin /\ q.last = end /\ q.acl = acl
      BY DEF Registration
    <2>3. e \in Entry /\ e \notin D /\ t.dreg[e].refcount = 0 /\ e # None
      BY <1>5, FirstFree, NoneOnNone
    <2>4. e = Head(t.free)
      OBVIOUS
    <2> DEFINE d == [t.dreg EXCEPT ![e] = q]
    <2> HIDE DEF q, e
    <2>5. WithLists(u, t, d, Tail(t.free), t.unused)
      <3>1. /\ d \in [Entry -> Registration] /\ Tail(t.free) \in Seq(Entry)
        BY <1>2, <1>5, <2>2, <2>3, <2>4, FirstFree
      <3>2. u = [t EXCEPT !.free = Tail(t.free), !.dreg = d]
        BY <1>2, <2>3 DEF Tables
      <3> HIDE DEF u, d
      <3> QED
        BY <1>2, <3>1, <3>2 DEF WithLists, Tables
    <2> HIDE DEF u
    <2>6. Sound(u, D, e) /\ u.dreg = [t.dreg EXCEPT ![e] = q]
      <3>1. u.dreg = d
        BY <2>5 DEF WithLists
      <3>2. /\ d \in [Entry -> Registration] /\ d[e].refcount = 0
            /\ \A x \in Entry \ {e} : d[x] = t.dreg[x]
        BY <1>2, <2>2, <2>3
      <3>3. d = [t.dreg EXCEPT ![e] = q]
        OBVIOUS
      <3> HIDE DEF d
      <3>4. Sound(u, D, e)
        BY <1>5, <2>4, <2>5, <3>2, FilledIs
      <3> QED
        BY <3>1, <3>3, <3>4
    <2>7. u.dreg[e] = q /\ \A x \in Entry \ {e} : u.dreg[x] = t.dreg[x]
      BY <1>2, <2>3, <2>6
    <2> DEFINE E == D \cup {e}
    <2>8. Sound(r.t, IF r.ok THEN E ELSE D, e) /\ r.t.dreg = u.dreg
      BY <2>2, <2>3, <2>6, <2>7, InsertedIs
    <2> HIDE DEF r
    <2>9. Kept([r.t.dreg EXCEPT ![e] = Blank], t.dreg)
      <3>1. r.t.dreg \in [Entry -> Registration]
        BY <2>8, SoundHas
      <3> QED
        BY <2>3, <2>7, <2>8, <3>1, BlankIs DEF Kept
    <2>10. CASE ~r.ok
      <3>1. Sound(r.t, D, e)
        BY <2>8, <2>10
      <3>2. Sound(Release(r.t, e), D, None) /\ Release(r.t, e).dreg = [r.t.dreg EXCEPT ![e] = Blank]
        BY <2>3, <3>1, ReleaseIs
      <3>3. n.e = None /\ n.t = Release(r.t, e)
        BY <2>1, <2>10
      <3> QED
        BY <2>9, <3>2, <3>3 DEF Obtained, n
    <2>11. CASE r.ok /\ ~registers
      <3>1. Sound(r.t, E, e) /\ e \in E /\ E \ {e} = D
        BY <2>3, <2>8, <2>11
      <3> HIDE DEF E
      <3>2. Sound(w, D, e) /\ w.dreg = r.t.dreg
        BY <3>1, RemovedIs
      <3> HIDE DEF w
      <3>3. Sound(Release(w, e), D, None) /\ Release(w, e).dreg = [w.dreg EXCEPT ![e] = Blank]
        BY <2>3, <3>2, ReleaseIs
      <3>4. n.e = None /\ n.t = Release(w, e)
        BY <2>1, <2>11
      <3> QED
        BY <2>9, <3>2, <3>3, <3>4 DEF Obtained, n
    <2>12. CASE r.ok /\ registers
      <3>1. Sound(r.t, E, e) /\ e \in E
        BY <2>8, <2>12
      <3> HIDE DEF E
      <3>2. mr \in SUBSET Page
        BY Numbers DEF Page
      <3> HIDE DEF mr
      <3> DEFINE s == r.t
                 f == [s.dreg[e] EXCEPT !.is_valid = TRUE, !.mr = mr]
                 g == [s.dreg EXCEPT ![e] = f]
      <3>3. Sound(s, E, e) /\ s.dreg[e] = q /\ \A x \in Entry \ {e} : s.dreg[x] = t.dreg[x]
        BY <2>7, <2>8, <3>1
      <3> HIDE DEF s
      <3>4. s \in Tables /\ s.dreg \in [Entry -> Registration] /\ s.dreg[e] \in Registration
            /\ s.free \in Seq(Entry) /\ s.unused \in Seq(Entry)
        BY <2>3, <3>3, SoundHas
      <3>5. /\ f \in Registration /\ f.refcount = s.dreg[e].refcount /\ f.is_valid
            /\ f.first = s.dreg[e].first /\ f.last = s.dreg[e].last /\ f.acl = s.dreg[e].acl
        BY <3>2, <3>4 DEF Registration
      <3>6. z = [s EXCEPT !.dreg = g]
        BY <2>3, <3>4 DEF Tables, s
      <3> HIDE DEF z, f
      <3>7. g \in [Entry -> Registration] /\ g[e] = f /\ \A x \in Entry \ {e} : g[x] = s.dreg[x]
        BY <2>3, <3>4, <3>5
      <3> HIDE DEF g
      <3>8. WithLists(z, s, g, s.free, s.unused)
        BY <3>4, <3>6, <3>7 DEF WithLists, Tables
      <3>9. Sound(z, E, e)
        BY <3>1, <3>3, <3>5, <3>7, <3>8, ValidIs
      <3>10. n.e = e /\ n.t = z
        BY <2>1, <2>12
      <3>11. /\ z.dreg[e].is_valid /\ z.dreg[e].acl = acl /\ z.dreg[e].first = begin
             /\ z.dreg[e].last = end /\ \A x \in Entry \ {e} : z.dreg[x] = t.dreg[x]
        BY <2>2, <3>3, <3>5, <3>7, <3>8 DEF WithLists
      <3> QED
        BY <2>3, <3>9, <3>10, <3>11 DEF Obtained, n, E
    <2> QED
      BY <2>10, <2>11, <2>12
  <1> QED
    BY <1>3, <1>4, <1>5

-----------------------------------------------------------------------------
(* Finding and registering.                                                 *)

\* What dreg_lookup returns for the pages from b to f
Looked(e, d, D, b, f) ==
    IF e = None THEN \A x \in D : ~(d[x].first <= b /\ f <= d[x].last)
    ELSE e \in D /\ d[e].first <= b /\ f <= d[e].last

LEMMA LookupIs ==
    ASSUME NEW t, NEW D, NEW g, Sound(t, D, g), NEW b \in Nat, NEW f \in Nat, b <= f
    PROVE  Looked(Lookup(t, b, f), t.dreg, D, b, f)
  <1> DEFINE d == t.dreg
             v == t.vmas
             k == VmaAt(v, b)
             e == Head(v[k].list)
  <1>1. /\ d \in [Entry -> Registration] /\ v \in Seq(Area) /\ D \in SUBSET Entry
        /\ Chart(d, D, None, v)
    BY SoundHas
  <1>2. Lookup(t, b, f) = IF k = None THEN None ELSE IF d[e].last >= f THEN e ELSE None
    BY DEF Lookup
  <1> HIDE DEF d, v
  <1>3. \/ k = None /\ \A i \in 1 .. Len(v) : ~Within(v[i], b)
        \/ k \in 1 .. Len(v) /\ Within(v[k], b)
    BY <1>1, VmaAtIs
  <1>4. \A x \in D : d[x].first \in Nat /\ d[x].last \in Nat
    BY <1>1, Numbers
  <1> HIDE DEF k
  <1>5. CASE k = None
    <2>1. k \notin 1 .. Len(v)
      BY <1>5 DEF None
    <2>2. ASSUME NEW x \in D, d[x].first <= b, f <= d[x].last
          PROVE  FALSE
      <3>1. b \in d[x].first .. d[x].last
        BY <1>4, <2>2
      <3>2. \E i \in 1 .. Len(v) : Within(v[i], b)
        BY <1>1, <3>1 DEF Chart, Holds
      <3> QED
        BY <1>3, <2>1, <3>2
    <2> QED
      BY <1>2, <1>5, <2>2 DEF Looked, d
  <1>6. CASE k # None
    <2> DEFINE a == v[k]
    <2>1. k \in 1 .. Len(v) /\ Within(a, b)
      BY <1>3, <1>6
    <2>2. /\ a.start \in Nat /\ a.end \in Nat /\ a.list \in Seq(Entry) /\ a.list # << >>
          /\ Ordered(d, a.list) /\ Fits(d, D, None, a)
      BY <1>1, <2>1, ChartIs
    <2> HIDE DEF a
    <2>3. e = Head(a.list)
      BY DEF a
    <2> HIDE DEF e
    <2>4. e = a.list[1] /\ 1 \in 1 .. Len(a.list) /\ e \in Entry
      BY <2>2, <2>3
    <2>5. \A x \in Entry : Contains(a.list, x) <=> x \in D /\ Over(d, x, a)
      BY <2>2, NoneOnNone DEF Fits, Lists
    <2>6. e \in D /\ Over(d, e, a)
      BY <2>4, <2>5 DEF Contains
    <2>7. d[e].first <= b /\ e # None
      BY <1>4, <2>1, <2>2, <2>4, <2>6, NoneOnNone DEF Over, Within
    <2>8. CASE d[e].last >= f
      BY <1>2, <1>4, <1>6, <2>6, <2>7, <2>8 DEF Looked, d
    <2>9. CASE ~(d[e].last >= f)
      <3>1. ASSUME NEW x \in D, d[x].first <= b, f <= d[x].last
            PROVE  FALSE
        <4>1. ~Off(d, x, a)
          BY <1>4, <2>1, <2>2, <3>1 DEF Off, Within
        <4>2. Over(d, x, a)
          BY <2>2, <4>1 DEF Fits
        <4>3. PICK i \in 1 .. Len(a.list) : a.list[i] = x
          BY <1>1, <2>5, <4>2 DEF Contains
        <4>4. i = 1 \/ 1 < i
          OBVIOUS
        <4>5. d[e].last >= d[x].last
          BY <1>4, <2>2, <2>4, <2>6, <4>3, <4>4 DEF Ordered
        <4> QED
          BY <1>4, <2>6, <2>9, <3>1, <4>5
      <3>2. Lookup(t, b, f) = None
        BY <1>2, <1>6, <2>9
      <3> QED
        BY <3>1, <3>2 DEF Looked, d
    <2> QED
      BY <2>8, <2>9
  <1> QED
    BY <1>5, <1>6

\* The use of e that the table u has more than the table t
Used(u, t, e, begin, end, acl) ==
    /\ u.dreg[e].first <= begin /\ end <= u.dreg[e].last /\ u.dreg[e].acl <= acl
    /\ u.dreg[e].refcount = t.dreg[e].refcount + 1
    /\ t.dreg[e].refcount # 0 =>
           u.dreg[e].first = t.dreg[e].first /\ u.dreg[e].last = t.dreg[e].last
           /\ u.dreg[e].acl = t.dreg[e].acl
    /\ \A x \in Entry \ {e} :
           u.dreg[x].refcount = t.dreg[x].refcount
           /\ (t.dreg[x].refcount # 0 => u.dreg[x] = t.dreg[x])

\* What comes of a registration that begins with the table t
Outcome(a, t, begin, end, acl) ==
    \E E \in SUBSET Entry :
        /\ Sound(a.t, E, None)
        /\ IF a.e = None THEN Kept(a.t.dreg, t.dreg)
           ELSE a.e \in E /\ Used(a.t, t, a.e, begin, end, acl)

Attempting(t, begin, end, acl) ==
    {a \in Attempt : (a.again => a.e = None) /\ Outcome(a, t, begin, end, acl)}

LEMMA KeptKept ==
    ASSUME NEW b, NEW c, NEW d, Kept(b, c), Kept(c, d)
    PROVE  Kept(b, d)
  BY DEF Kept

\* A new entry, used for the first time
LEMMA NewUsed ==
    ASSUME NEW t, NEW u, NEW E \in SUBSET Entry, Sound(u, E, None), Kept(u.dreg, t.dreg),
           NEW begin \in Page, NEW end \in Page, NEW acl \in {Read, Write}, NEW n,
           Obtained(n, u, E, begin, end, acl), n.e # None
    PROVE  /\ Sound(IncrRefcount(n.t, n.e), E \cup {n.e}, None)
           /\ Used(IncrRefcount(n.t, n.e), t, n.e, begin, end, acl)
  <1> DEFINE e == n.e
             s == n.t
             F == E \cup {e}
             r == [s.dreg[e] EXCEPT !.refcount = @ + 1]
             w == IncrRefcount(s, e)
  <1>1. /\ e \in Entry /\ Sound(s, F, e) /\ s.dreg[e].is_valid /\ s.dreg[e].acl = acl
        /\ s.dreg[e].first = begin /\ s.dreg[e].last = end /\ u.dreg[e].refcount = 0
        /\ \A x \in Entry \ {e} : s.dreg[x] = u.dreg[x]
    BY DEF Obtained
  <1>2. e \in F
    OBVIOUS
  <1> HIDE DEF F, e, s
  <1>3. Sound(w, F, None) /\ w.dreg = [s.dreg EXCEPT ![e] = r]
    BY <1>1, <1>2, IncrIs
  <1> HIDE DEF w
  <1>4. /\ s.dreg \in [Entry -> Registration] /\ s.dreg[e].refcount = 0
        /\ s.dreg[e] \in Registration
    BY <1>1, SoundHas DEF Sorted
  <1>5. r.refcount = 1 /\ r.first = begin /\ r.last = end /\ r.acl = acl
    BY <1>1, <1>4 DEF Registration
  <1> HIDE DEF r
  <1>6. w.dreg[e] = r /\ \A x \in Entry \ {e} : w.dreg[x] = s.dreg[x]
    BY <1>1, <1>3, <1>4
  <1>7. t.dreg[e].refcount = 0
    BY <1>1 DEF Kept
  <1>8. ASSUME NEW x \in Entry \ {e}
        PROVE  w.dreg[x].refcount = t.dreg[x].refcount
               /\ (t.dreg[x].refcount # 0 => w.dreg[x] = t.dreg[x])
    BY <1>1, <1>6 DEF Kept
  <1>9. Used(w, t, e, begin, end, acl)
    <2>1. begin \in Nat /\ end \in Nat /\ acl \in Nat
      BY Numbers DEF Read, Write
    <2> QED
      BY <1>5, <1>6, <1>7, <1>8, <2>1 DEF Used
  <1> QED
    BY <1>3, <1>9 DEF w, F, e, s

LEMMA EvictIs ==
    ASSUME NEW t, NEW D, Sound(t, D, None), t.unused # << >>
    PROVE  \E e \in D : Sound(Evict(t), D \ {e}, None) /\ Kept(Evict(t).dreg, t.dreg)
  <1> DEFINE e == Last(t.unused)
  <1>1. t.unused \in Seq(Entry) /\ Sorted(t.dreg, D, t.free, t.unused, None)
    BY SoundHas
  <1>2. e \in Entry /\ Contains(t.unused, e)
    BY <1>1, LastIs
  <1>3. Evict(t) = Drop(t, e)
    BY DEF Evict
  <1> HIDE DEF e
  <1>4. e \in D /\ t.dreg[e].refcount = 0
    BY <1>1, <1>2, NoneOnNone DEF Sorted
  <1>5. Sound(Drop(t, e), D \ {e}, None) /\ Kept(Drop(t, e).dreg, t.dreg)
    BY <1>4, DropIs
  <1> QED
    BY <1>3, <1>4, <1>5

LEMMA AttemptTurn ==
    ASSUME NEW t, NEW begin \in Page, NEW end \in Page, begin <= end, NEW acl \in {Read, Write},
           NEW a \in Attempting(t, begin, end, acl)
    PROVE  Attempts(begin, end, acl)[a] \in Attempting(t, begin, end, acl)
  <1> DEFINE n == NewEntry(a.t, begin, end, acl, a.refusals = 0)
             used == IncrRefcount(n.t, n.e)
             left == Evict(n.t)
             x == [a EXCEPT !.e = n.e, !.t = used, !.again = FALSE]
             y == [a EXCEPT !.t = n.t, !.again = FALSE]
             z == [a EXCEPT !.t = left, !.refusals = 0]
  <1>1. a \in Attempt /\ (a.again => a.e = None) /\ Outcome(a, t, begin, end, acl)
    BY DEF Attempting
  <1>2. Attempts(begin, end, acl)[a] =
            IF ~a.again THEN a ELSE IF n.e # None THEN x ELSE IF n.t.unused = << >> THEN y ELSE z
    BY <1>1 DEF Attempts
  <1>3. CASE ~a.again
    BY <1>2, <1>3
  <1>4. CASE a.again
    <2>1. PICK E \in SUBSET Entry : Sound(a.t, E, None) /\ Kept(a.t.dreg, t.dreg)
      BY <1>1, <1>4 DEF Outcome
    <2>2. a.e = None
      BY <1>1, <1>4
    <2>3. Obtained(n, a.t, E, begin, end, acl)
      BY <2>1, NewEntryIs
    <2> HIDE DEF n
    <2>4. CASE n.e # None
      <3> DEFINE F == E \cup {n.e}
      <3>1. n.e \in Entry
        BY <2>3, <2>4 DEF Obtained
      <3>2. Sound(used, F, None) /\ Used(used, t, n.e, begin, end, acl)
        BY <2>1, <2>3, <2>4, NewUsed
      <3>3. F \in SUBSET Entry /\ n.e \in F
        BY <3>1
      <3> HIDE DEF used, F
      <3>4. used \in Tables
        BY <3>2, SoundHas
      <3>5. x \in Attempt /\ x.e = n.e /\ x.t = used /\ ~x.again
        BY <1>1, <3>1, <3>4 DEF Attempt
      <3> HIDE DEF x
      <3>6. Outcome(x, t, begin, end, acl)
        BY <2>4, <3>2, <3>3, <3>5 DEF Outcome
      <3>7. x \in Attempting(t, begin, end, acl)
        BY <3>5, <3>6 DEF Attempting
      <3> QED
        BY <1>2, <1>4, <2>4, <3>7
    <2>5. CASE n.e = None
      <3>1. Sound(n.t, E, None) /\ Kept(n.t.dreg, a.t.dreg)
        BY <2>3, <2>5 DEF Obtained
      <3>2. Kept(n.t.dreg, t.dreg)
        BY <2>1, <3>1, KeptKept
      <3>3. n.t \in Tables
        BY <3>1, SoundHas
      <3>4. CASE n.t.unused = << >>
        <4>1. y \in Attempt /\ y.e = None /\ y.t = n.t
          BY <1>1, <2>2, <3>3 DEF Attempt
        <4> HIDE DEF y
        <4>2. Outcome(y, t, begin, end, acl)
          BY <3>1, <3>2, <4>1 DEF Outcome
        <4>3. y \in Attempting(t, begin, end, acl)
          BY <4>1, <4>2 DEF Attempting
        <4> QED
          BY <1>2, <1>4, <2>5, <3>4, <4>3
      <3>5. CASE n.t.unused # << >>
        <4>1. PICK e \in E : Sound(left, E \ {e}, None) /\ Kept(left.dreg, n.t.dreg)
          BY <3>1, <3>5, EvictIs
        <4> HIDE DEF left
        <4>2. Kept(left.dreg, t.dreg)
          BY <3>2, <4>1, KeptKept
        <4>3. left \in Tables
          BY <4>1, SoundHas
        <4>4. z \in Attempt /\ z.e = None /\ z.t = left
          <5> DEFINE b == [a EXCEPT !.t = left]
          <5>1. b \in Attempt /\ b.e = None /\ b.t = left
            BY <1>1, <2>2, <4>3 DEF Attempt
          <5>2. z = [b EXCEPT !.refusals = 0]
            OBVIOUS
          <5> HIDE DEF b, z
          <5> QED
            BY <5>1, <5>2 DEF Attempt
        <4> HIDE DEF z
        <4>5. Outcome(z, t, begin, end, acl)
          <5> DEFINE F == E \ {e}
          <5>1. F \in SUBSET Entry /\ Sound(left, F, None)
            BY <4>1
          <5> HIDE DEF F
          <5> QED
            BY <4>2, <4>4, <5>1 DEF Outcome
        <4>6. z \in Attempting(t, begin, end, acl)
          BY <4>4, <4>5 DEF Attempting
        <4> QED
          BY <1>2, <1>4, <2>5, <3>5, <4>6
      <3> QED
        BY <3>4, <3>5
    <2> QED
      BY <2>4, <2>5
  <1> QED
    BY <1>3, <1>4

\* dreg_register finds or makes a registration for the pages, one use more of
\* which is counted, or leaves the uses as they are.
LEMMA RegisteredIs ==
    ASSUME NEW t, NEW D, Sound(t, D, None), NEW begin \in Page, NEW end \in Page, begin <= end,
           NEW acl \in {Read, Write}, NEW refusals \in 0 .. 1
    PROVE  Outcome(Registered(t, begin, end, acl, refusals), t, begin, end, acl)
  <1> DEFINE e == Find(t, begin, end, acl)
             f == Lookup(t, begin, end)
             u == IncrRefcount(t, e)
             found == [e |-> e, t |-> u]
             a == [e |-> None, t |-> t, refusals |-> refusals, again |-> TRUE]
             b == Loop(Attempts(begin, end, acl), a, NdregEntries + 1)
  <1>1. Registered(t, begin, end, acl, refusals) = IF e # None THEN found ELSE b
    BY DEF Registered
  <1>2. /\ t \in Tables /\ t.dreg \in [Entry -> Registration] /\ D \in SUBSET Entry
    BY SoundHas
  <1>3. begin \in Nat /\ end \in Nat /\ acl \in Nat
    BY Numbers DEF Read, Write
  <1>4. Looked(f, t.dreg, D, begin, end)
    BY <1>3, LookupIs
  <1>5. e = IF f # None /\ t.dreg[f].acl <= acl THEN f ELSE None
    BY DEF Find
  <1> HIDE DEF e, f
  <1>6. CASE e # None
    <2>1. e \in D /\ t.dreg[e].first <= begin /\ end <= t.dreg[e].last /\ t.dreg[e].acl <= acl
      BY <1>4, <1>5, <1>6 DEF Looked
    <2> DEFINE r == [t.dreg[e] EXCEPT !.refcount = @ + 1]
    <2>2. Sound(u, D, None) /\ u.dreg = [t.dreg EXCEPT ![e] = r]
      BY <2>1, IncrIs
    <2> HIDE DEF u
    <2>3. t.dreg[e] \in Registration /\ e \in Entry
      BY <1>2, <2>1
    <2>4. /\ r.refcount = t.dreg[e].refcount + 1 /\ r.first = t.dreg[e].first
          /\ r.last = t.dreg[e].last /\ r.acl = t.dreg[e].acl
      BY <2>3 DEF Registration
    <2> HIDE DEF r
    <2>5. u.dreg[e] = r /\ \A x \in Entry \ {e} : u.dreg[x] = t.dreg[x]
      BY <1>2, <2>2, <2>3
    <2>6. Used(u, t, e, begin, end, acl)
      BY <2>1, <2>4, <2>5 DEF Used
    <2>7. found.e = e /\ found.t = u
      OBVIOUS
    <2> HIDE DEF found
    <2>8. Outcome(found, t, begin, end, acl)
      BY <1>2, <1>6, <2>1, <2>2, <2>6, <2>7 DEF Outcome
    <2> QED
      BY <1>1, <1>6, <2>8
  <1>7. CASE e = None
    <2> DEFINE I == Attempting(t, begin, end, acl)
               n == NdregEntries + 1
    <2>1. a \in Attempt /\ a.e = None /\ a.t = t
      BY <1>2 DEF Attempt
    <2> HIDE DEF a
    <2>2. Kept(t.dreg, t.dreg)
      BY DEF Kept
    <2>3. Outcome(a, t, begin, end, acl)
      BY <1>2, <2>1, <2>2 DEF Outcome
    <2>4. a \in I
      BY <2>1, <2>3 DEF Attempting
    <2>5. \A y \in I : Attempts(begin, end, acl)[y] \in I
      BY AttemptTurn
    <2>6. n \in Nat
      BY CacheAssumption
    <2> HIDE DEF I, n
    <2>7. Loop(Attempts(begin, end, acl), a, n) \in I
      BY <2>4, <2>5, <2>6, LoopKeeps
    <2>8. Outcome(b, t, begin, end, acl)
      BY <2>7 DEF I, n, Attempting
    <2> QED
      BY <1>1, <1>7, <2>8
  <1> QED
    BY <1>6, <1>7

-----------------------------------------------------------------------------
(* The flush.                                                               *)

Queues == \A i \in 1 .. Len(queued) : queued[i][1] \in Page /\ queued[i][2] \in Page

\* The states of a flush that begins with the table t
Flushing(t) ==
    {f \in Flush : \E E \in SUBSET Entry : Sound(f.t, E, None) /\ Kept(f.t.dreg, t.dreg)}

LEMMA FlushTurn ==
    ASSUME Queues, queued \in Seq(Page \X Page), NEW t, NEW f \in Flushing(t)
    PROVE  Flusher[f] \in Flushing(t)
  <1> DEFINE e == Lookup(f.t, f.page, f.page)
             next == IF f.region = Len(queued) THEN 0 ELSE queued[f.region + 1][1]
             x == [f EXCEPT !.region = @ + 1, !.page = next]
             y == [f EXCEPT !.page = @ + 1]
             z == [f EXCEPT !.spins = TRUE]
             u == Drop(f.t, e)
             w == [f EXCEPT !.t = u]
  <1>1. PICK E \in SUBSET Entry : Sound(f.t, E, None) /\ Kept(f.t.dreg, t.dreg)
    BY DEF Flushing
  <1>2. f \in Flush /\ f.region \in Nat /\ f.page \in Nat
    BY DEF Flushing, Flush
  <1>3. Flusher[f] = IF f.spins \/ f.region > Len(queued) THEN f
                     ELSE IF f.page > queued[f.region][2] THEN x
                     ELSE IF e = None THEN y
                     ELSE IF InUse(f.t, e) THEN z
                     ELSE w
    BY <1>2 DEF Flusher
  <1>4. CASE f.spins \/ f.region > Len(queued)
    BY <1>3, <1>4
  <1>5. CASE ~(f.spins \/ f.region > Len(queued)) /\ f.page > queued[f.region][2]
    <2>1. next \in Nat
      <3>1. CASE f.region = Len(queued)
        BY <3>1
      <3>2. CASE f.region # Len(queued)
        <4>1. f.region + 1 \in 1 .. Len(queued)
          BY <1>2, <1>5, <3>2
        <4> QED
          BY <3>2, <4>1, Numbers DEF Queues
      <3> QED
        BY <3>1, <3>2
    <2> HIDE DEF next
    <2>2. x \in Flush /\ x.t = f.t
      <3> DEFINE b == [f EXCEPT !.region = @ + 1]
      <3>1. b \in Flush /\ b.t = f.t
        BY <1>2 DEF Flush
      <3>2. x = [b EXCEPT !.page = next]
        OBVIOUS
      <3> HIDE DEF b, x
      <3> QED
        BY <2>1, <3>1, <3>2 DEF Flush
    <2> HIDE DEF x
    <2>3. x \in Flushing(t)
      BY <1>1, <2>2 DEF Flushing
    <2> QED
      BY <1>3, <1>5, <2>3
  <1> DEFINE here == ~(f.spins \/ f.region > Len(queued)) /\ ~(f.page > queued[f.region][2])
  <1>6. CASE here /\ e = None
    <2>1. y \in Flush /\ y.t = f.t
      BY <1>2 DEF Flush
    <2>2. y \in Flushing(t)
      BY <1>1, <2>1 DEF Flushing
    <2> QED
      BY <1>3, <1>6, <2>2
  <1>7. CASE here /\ e # None /\ InUse(f.t, e)
    <2>1. z \in Flush /\ z.t = f.t
      BY <1>2 DEF Flush
    <2>2. z \in Flushing(t)
      BY <1>1, <2>1 DEF Flushing
    <2> QED
      BY <1>3, <1>7, <2>2
  <1>8. CASE here /\ e # None /\ ~InUse(f.t, e)
    <2>1. Looked(e, f.t.dreg, E, f.page, f.page)
      BY <1>1, <1>2, LookupIs
    <2> HIDE DEF e
    <2>2. e \in E /\ f.t.dreg[e].refcount = 0
      BY <1>8, <2>1 DEF Looked, InUse
    <2> DEFINE F == E \ {e}
    <2>3. Sound(u, F, None) /\ Kept(u.dreg, f.t.dreg)
      BY <1>1, <2>2, DropIs
    <2>4. F \in SUBSET Entry
      OBVIOUS
    <2> HIDE DEF u, F
    <2>5. u \in Tables /\ Kept(u.dreg, t.dreg)
      BY <1>1, <2>3, SoundHas, KeptKept
    <2>6. w \in Flush /\ w.t = u
      BY <1>2, <2>5 DEF Flush
    <2> HIDE DEF w
    <2>7. w \in Flushing(t)
      BY <2>3, <2>4, <2>5, <2>6 DEF Flushing
    <2> QED
      BY <1>3, <1>8, <2>7
  <1> QED
    BY <1>4, <1>5, <1>6, <1>7, <1>8

\* The flush leaves the registrations in use alone and the table right.
LEMMA FlushedIs ==
    ASSUME queued \in Seq(Page \X Page), queued # << >>, NEW t, NEW D, Sound(t, D, None)
    PROVE  Flushed(t) \in Flushing(t)
  <1> DEFINE f == [t |-> t, region |-> 1, page |-> queued[1][1], spins |-> FALSE]
             n == NdregEntries + MaxQueued * (Pages + 1)
  <1>1. Queues
    BY DEF Queues
  <1>2. queued[1][1] \in Nat
    <2>1. 1 \in 1 .. Len(queued)
      OBVIOUS
    <2> QED
      BY <1>1, <2>1, Numbers DEF Queues
  <1>3. t \in Tables /\ D \in SUBSET Entry /\ Kept(t.dreg, t.dreg)
    BY SoundHas DEF Kept
  <1>4. f \in Flush /\ f.t = t
    BY <1>2, <1>3 DEF Flush
  <1>5. Flushed(t) = Loop(Flusher, f, n)
    BY DEF Flushed
  <1> HIDE DEF f
  <1>6. f \in Flushing(t)
    BY <1>3, <1>4 DEF Flushing
  <1>7. n \in Nat
    BY CacheAssumption
  <1>8. \A y \in Flushing(t) : Flusher[y] \in Flushing(t)
    BY <1>1, FlushTurn
  <1> HIDE DEF n
  <1> DEFINE I == Flushing(t)
  <1>9. f \in I /\ \A y \in I : Flusher[y] \in I
    BY <1>6, <1>8
  <1> HIDE DEF I
  <1>10. Loop(Flusher, f, n) \in I
    BY <1>7, <1>9, LoopKeeps
  <1> QED
    BY <1>5, <1>10 DEF I

-----------------------------------------------------------------------------
(* The operations and the entries that they use.                            *)

Use == [first : Page, last : Page, acl : {Read, Write}, entry : Entry \cup {None}]
Uses(f, e) == {o \in Op : f[o].entry = e}

\* The operation covers no more than its entry d.
Pins(d, u) == d.first <= u.first /\ u.last <= d.last /\ d.acl <= u.acl

\* The operations f use the entries d: as often as counted, and within them.
Serves(d, f) ==
    /\ f \in [Op -> Use]
    /\ \A e \in Entry : d[e].refcount = Cardinality(Uses(f, e))
    /\ \A o \in Op : f[o] # Idle => f[o].entry \in Entry /\ Pins(d[f[o].entry], f[o])

LEMMA UsesAre ==
    ASSUME NEW f, NEW e
    PROVE  IsFiniteSet(Uses(f, e)) /\ Uses(f, e) \in SUBSET Op
           /\ Cardinality(Uses(f, e)) \in Nat
  <1>1. Uses(f, e) \in SUBSET Op
    BY DEF Uses
  <1>2. IsFiniteSet(Op)
    BY CacheAssumption
  <1> HIDE DEF Uses
  <1>3. IsFiniteSet(Uses(f, e))
    BY <1>1, <1>2, FS_Subset
  <1> QED
    BY <1>1, <1>3, FS_CardinalityType

\* The entry of an operation is counted.
LEMMA InUseIs ==
    ASSUME NEW d, NEW f, Serves(d, f), NEW o \in Op, f[o] # Idle
    PROVE  f[o].entry \in Entry /\ d[f[o].entry].refcount # 0
  <1> DEFINE e == f[o].entry
             U == Uses(f, e)
  <1>1. e \in Entry /\ d[e].refcount = Cardinality(U)
    BY DEF Serves
  <1>2. o \in U
    BY DEF Uses
  <1>3. IsFiniteSet(U) /\ U # {}
    BY <1>2, UsesAre
  <1> HIDE DEF U
  <1>4. Cardinality(U) # 0
    BY <1>3, FS_EmptySet
  <1> QED
    BY <1>1, <1>4

LEMMA ServesKept ==
    ASSUME NEW c, NEW d, NEW f, Serves(d, f), Kept(c, d)
    PROVE  Serves(c, f)
  <1>1. ASSUME NEW o \in Op, f[o] # Idle
        PROVE  f[o].entry \in Entry /\ Pins(c[f[o].entry], f[o])
    <2>1. f[o].entry \in Entry /\ d[f[o].entry].refcount # 0
      BY <1>1, InUseIs
    <2>2. c[f[o].entry] = d[f[o].entry]
      BY <2>1 DEF Kept
    <2> QED
      BY <1>1, <2>1, <2>2 DEF Serves
  <1> QED
    BY <1>1 DEF Serves, Kept

\* An operation begins.
LEMMA ServesUsed ==
    ASSUME NEW t, NEW u, NEW f, Serves(t.dreg, f), NEW e \in Entry, NEW begin \in Page,
           NEW end \in Page, NEW acl \in {Read, Write}, Used(u, t, e, begin, end, acl),
           NEW o \in Op, f[o] = Idle, NEW r,
           r = [first |-> begin, last |-> end, acl |-> acl, entry |-> e]
    PROVE  Serves(u.dreg, [f EXCEPT ![o] = r])
  <1> DEFINE g == [f EXCEPT ![o] = r]
  <1>1. r \in Use /\ r.first = begin /\ r.last = end /\ r.acl = acl /\ r.entry = e
    BY DEF Use
  <1>2. f \in [Op -> Use]
    BY DEF Serves
  <1>3. g \in [Op -> Use] /\ g[o] = r /\ \A x \in Op \ {o} : g[x] = f[x]
    BY <1>1, <1>2
  <1> HIDE DEF g
  <1>4. f[o].entry = None /\ e # None
    BY NoneOnNone DEF Idle
  <1>5. Uses(g, e) = Uses(f, e) \cup {o} /\ o \notin Uses(f, e)
    BY <1>1, <1>3, <1>4 DEF Uses
  <1>6. \A x \in Entry \ {e} : Uses(g, x) = Uses(f, x)
    BY <1>1, <1>3, <1>4, NoneOnNone DEF Uses
  <1>7. Cardinality(Uses(g, e)) = Cardinality(Uses(f, e)) + 1
    <2>1. IsFiniteSet(Uses(f, e))
      BY UsesAre
    <2> QED
      BY <1>5, <2>1, FS_AddElement
  <1>8. ASSUME NEW x \in Entry
        PROVE  u.dreg[x].refcount = Cardinality(Uses(g, x))
    <2>1. CASE x = e
      BY <1>7, <2>1 DEF Used, Serves
    <2>2. CASE x # e
      BY <1>6, <2>2 DEF Used, Serves
    <2> QED
      BY <2>1, <2>2
  <1>9. ASSUME NEW x \in Op, g[x] # Idle
        PROVE  g[x].entry \in Entry /\ Pins(u.dreg[g[x].entry], g[x])
    <2>1. CASE x = o
      BY <1>1, <1>3, <2>1 DEF Used, Pins
    <2>2. CASE x # o
      <3> DEFINE y == f[x].entry
      <3>1. g[x] = f[x] /\ f[x] # Idle
        BY <1>3, <1>9, <2>2
      <3>2. y \in Entry /\ t.dreg[y].refcount # 0 /\ Pins(t.dreg[y], f[x])
        BY <3>1, InUseIs DEF Serves
      <3> HIDE DEF y
      <3>3. /\ u.dreg[y].first = t.dreg[y].first /\ u.dreg[y].last = t.dreg[y].last
            /\ u.dreg[y].acl = t.dreg[y].acl
        BY <3>2 DEF Used
      <3> QED
        BY <3>1, <3>2, <3>3 DEF Pins, y
    <2> QED
      BY <2>1, <2>2
  <1> QED
    BY <1>3, <1>8, <1>9 DEF Serves, g

\* An operation ends.
LEMMA ServesDone ==
    ASSUME NEW d \in [Entry -> Registration], NEW f, Serves(d, f), NEW o \in Op, f[o] # Idle,
           NEW e, e = f[o].entry, NEW r \in Registration, r.refcount = d[e].refcount - 1,
           r.first = d[e].first, r.last = d[e].last, r.acl = d[e].acl
    PROVE  Serves([d EXCEPT ![e] = r], [f EXCEPT ![o] = Idle])
  <1> DEFINE g == [f EXCEPT ![o] = Idle]
             c == [d EXCEPT ![e] = r]
  <1>1. Idle \in Use /\ Idle.entry = None
    BY BlankIs, Numbers DEF Idle, Use, Page, Blank, Registration
  <1>2. f \in [Op -> Use] /\ e \in Entry /\ e # None
    BY NoneOnNone DEF Serves
  <1>3. g \in [Op -> Use] /\ g[o] = Idle /\ \A x \in Op \ {o} : g[x] = f[x]
    BY <1>1, <1>2
  <1>4. c[e] = r /\ \A x \in Entry \ {e} : c[x] = d[x]
    BY <1>2
  <1> HIDE DEF g, c
  <1>5. Uses(g, e) = Uses(f, e) \ {o} /\ o \in Uses(f, e)
    BY <1>1, <1>2, <1>3 DEF Uses
  <1>6. \A x \in Entry \ {e} : Uses(g, x) = Uses(f, x)
    BY <1>1, <1>2, <1>3, NoneOnNone DEF Uses
  <1>7. Cardinality(Uses(g, e)) = Cardinality(Uses(f, e)) - 1
    <2>1. IsFiniteSet(Uses(f, e))
      BY UsesAre
    <2> QED
      BY <1>5, <2>1, FS_RemoveElement
  <1>8. ASSUME NEW x \in Entry
        PROVE  c[x].refcount = Cardinality(Uses(g, x))
    <2>1. CASE x = e
      BY <1>2, <1>4, <1>7, <2>1 DEF Serves
    <2>2. CASE x # e
      BY <1>4, <1>6, <2>2 DEF Serves
    <2> QED
      BY <2>1, <2>2
  <1>9. ASSUME NEW x \in Op, g[x] # Idle
        PROVE  g[x].entry \in Entry /\ Pins(c[g[x].entry], g[x])
    <2>1. x # o /\ g[x] = f[x]
      BY <1>3, <1>9
    <2>2. f[x].entry \in Entry /\ Pins(d[f[x].entry], f[x])
      BY <1>9, <2>1 DEF Serves
    <2>3. /\ c[f[x].entry].first = d[f[x].entry].first /\ c[f[x].entry].last = d[f[x].entry].last
          /\ c[f[x].entry].acl = d[f[x].entry].acl
      BY <1>4, <2>2
    <2> QED
      BY <2>1, <2>2, <2>3 DEF Pins
  <1> QED
    BY <1>3, <1>8, <1>9 DEF Serves, g, c

-----------------------------------------------------------------------------
(* The inductive invariant.                                                 *)

TableOK == \E D \in SUBSET Entry : Sound(Table, D, None)

IInv ==
    /\ TableOK /\ Serves(dreg, op)
    /\ queued \in Seq(Page \X Page) /\ mapped \in SUBSET Page /\ spins \in BOOLEAN

LEMMA SetTableIs ==
    ASSUME NEW D, NEW e, NEW t, Sound(t, D, e), SetTable(t)
    PROVE  Table' = t /\ dreg' = t.dreg
  <1>1. t \in Tables
    BY DEF Sound
  <1>2. t = [dreg |-> t.dreg, vmas |-> t.vmas, free |-> t.free, unused |-> t.unused,
             pinned |-> t.pinned]
    BY <1>1 DEF Tables
  <1> QED
    BY <1>2 DEF SetTable, Table

LEMMA InitIInv == Init => IInv
  <1> SUFFICES ASSUME Init PROVE IInv
    OBVIOUS
  <1> DEFINE t == Table
  <1>1. /\ NdregEntries \in Nat /\ Word \in Nat /\ Word > 0 /\ IsFiniteSet(Op)
    BY CacheAssumption
  <1>2. /\ t.dreg = [e \in Entry |-> Blank] /\ t.vmas = << >> /\ t.free = [e \in Entry |-> e]
        /\ t.unused = << >> /\ t.pinned = 0
    BY DEF Init, Table
  <1>3. /\ t.free \in Seq(Entry) /\ Len(t.free) = NdregEntries
        /\ \A i \in 1 .. NdregEntries : t.free[i] = i
    <2> DEFINE s == [e \in 1 .. NdregEntries |-> e]
    <2>1. s \in Seq(1 .. NdregEntries) /\ Len(s) = NdregEntries
          /\ \A i \in 1 .. NdregEntries : s[i] = i
      BY <1>1
    <2> QED
      BY <1>2, <2>1 DEF Entry
  <1>4. t \in Tables
    <2>1. t.dreg \in [Entry -> Registration] /\ t.vmas \in Seq(Area) /\ t.unused \in Seq(Entry)
      BY <1>2, BlankIs
    <2>2. t.pinned \in Pinned
      BY <1>1, <1>2 DEF Pinned
    <2> QED
      BY <1>3, <2>1, <2>2 DEF Table, Tables
  <1> HIDE DEF t
  <1>5. Chart(t.dreg, {}, None, t.vmas)
    BY <1>2 DEF Chart, Apart, Holds
  <1>6. Sorted(t.dreg, {}, t.free, t.unused, None)
    <2>1. Single(t.free) /\ Single(t.unused)
      BY <1>2, <1>3 DEF Single
    <2>2. \A x : ~Contains(t.unused, x)
      BY <1>2 DEF Contains
    <2>3. ~Contains(t.free, None) /\ None \notin Entry
      BY <1>3, NoneOnNone
    <2>4. ASSUME NEW x \in Entry
          PROVE  t.dreg[x] = Blank /\ Contains(t.free, x)
      <3>1. x \in 1 .. Len(t.free) /\ t.free[x] = x
        BY <1>3 DEF Entry
      <3> QED
        BY <1>2, <3>1 DEF Contains
    <2> QED
      BY <2>1, <2>2, <2>3, <2>4, BlankIs DEF Sorted
  <1>7. Sound(t, {}, None)
    BY <1>4, <1>5, <1>6 DEF Sound
  <1>8. TableOK
    BY <1>7 DEF TableOK, t
  <1>9. Serves(dreg, op)
    <2>1. /\ dreg = [e \in Entry |-> Blank] /\ op = [o \in Op |-> Idle]
      BY DEF Init
    <2>2. Idle \in Use /\ Idle.entry = None
      BY BlankIs, Numbers DEF Idle, Use, Page, Blank, Registration
    <2>3. ASSUME NEW e \in Entry
          PROVE  Uses(op, e) = {}
      BY <2>1, <2>2, NoneOnNone DEF Uses
    <2>4. Cardinality({}) = 0
      BY FS_EmptySet
    <2> QED
      BY <2>1, <2>2, <2>3, <2>4, BlankIs DEF Serves
  <1>10. queued \in Seq(Page \X Page) /\ mapped \in SUBSET Page /\ spins \in BOOLEAN
    <2>1. queued = << >> /\ mapped = Page /\ spins = FALSE
      BY DEF Init
    <2>2. << >> \in Seq(Page \X Page)
      OBVIOUS
    <2> QED
      BY <2>1, <2>2
  <1> QED
    BY <1>8, <1>9, <1>10 DEF IInv

LEMMA RegisterIInv ==
    ASSUME IInv, NEW o \in Op, Register(o)
    PROVE  IInv'
  <1> DEFINE Does(begin, end, acl, refusals) ==
                 LET r == Registered(Table, begin, end, acl, refusals)
                 IN  /\ begin .. end \subseteq mapped /\ SetTable(r.t)
                     /\ op' = IF r.e = None THEN op
                              ELSE [op EXCEPT ![o] = [first |-> begin, last |-> end,
                                                      acl |-> acl, entry |-> r.e]]
  <1>0. PICK begin \in Page, acl \in {Read, Write}, refusals \in 0 .. 1 :
            \E end \in begin .. Pages - 1 : Does(begin, end, acl, refusals)
    BY DEF Register
  <1>1. PICK end \in begin .. Pages - 1 : Does(begin, end, acl, refusals)
    BY <1>0
  <1> DEFINE t == Table
             r == Registered(t, begin, end, acl, refusals)
             use == [first |-> begin, last |-> end, acl |-> acl, entry |-> r.e]
  <1>2. SetTable(r.t) /\ op' = IF r.e = None THEN op ELSE [op EXCEPT ![o] = use]
    BY <1>1
  <1>3. PICK D \in SUBSET Entry : Sound(t, D, None)
    BY DEF IInv, TableOK
  <1>4. begin \in Page /\ end \in Page /\ begin <= end
    BY Numbers DEF Page
  <1>5. t.dreg = dreg
    BY DEF Table
  <1> HIDE DEF t
  <1>6. Outcome(r, t, begin, end, acl)
    BY <1>3, <1>4, RegisteredIs
  <1> HIDE DEF r
  <1>7. PICK E \in SUBSET Entry :
            /\ Sound(r.t, E, None)
            /\ IF r.e = None THEN Kept(r.t.dreg, t.dreg)
               ELSE r.e \in E /\ Used(r.t, t, r.e, begin, end, acl)
    BY <1>6 DEF Outcome
  <1>8. Table' = r.t /\ dreg' = r.t.dreg
    BY <1>2, <1>7, SetTableIs
  <1>9. TableOK'
    BY <1>7, <1>8 DEF TableOK
  <1>10. op[o] = Idle /\ Serves(t.dreg, op)
    BY <1>5 DEF Register, IInv
  <1>11. Serves(r.t.dreg, op')
    <2>1. CASE r.e = None
      BY <1>2, <1>7, <1>10, <2>1, ServesKept
    <2>2. CASE r.e # None
      <3> DEFINE e == r.e
      <3>1. e \in Entry /\ Used(r.t, t, e, begin, end, acl)
        BY <1>7, <2>2
      <3>2. use = [first |-> begin, last |-> end, acl |-> acl, entry |-> e]
        OBVIOUS
      <3>3. op' = [op EXCEPT ![o] = use]
        BY <1>2, <2>2
      <3> HIDE DEF use, e
      <3>4. Serves(r.t.dreg, [op EXCEPT ![o] = use])
        BY <1>4, <1>10, <3>1, <3>2, ServesUsed
      <3> QED
        BY <3>3, <3>4
    <2> QED
      BY <2>1, <2>2
  <1>12. Serves(dreg', op')
    BY <1>8, <1>11
  <1> QED
    BY <1>9, <1>12 DEF IInv, Register

LEMMA CompleteIInv ==
    ASSUME IInv, NEW o \in Op, Complete(o)
    PROVE  IInv'
  <1> DEFINE t == Table
             e == op[o].entry
             u == DecrRefcount(t, e)
             r == [t.dreg[e] EXCEPT !.refcount = @ - 1]
  <1>1. /\ op[o] # Idle /\ SetTable(u) /\ op' = [op EXCEPT ![o] = Idle]
        /\ UNCHANGED <<queued, mapped, spins>>
    BY DEF Complete
  <1>2. PICK D \in SUBSET Entry : Sound(t, D, None)
    BY DEF IInv, TableOK
  <1>3. Serves(t.dreg, op)
    BY DEF IInv, Table
  <1> HIDE DEF t
  <1>4. e \in Entry /\ t.dreg[e].refcount # 0
    BY <1>1, <1>3, InUseIs
  <1>5. t.dreg \in [Entry -> Registration] /\ Sorted(t.dreg, D, t.free, t.unused, None)
    BY <1>2, SoundHas
  <1>6. e \in D
    BY <1>4, <1>5, NoneOnNone DEF Sorted
  <1>7. op[o].entry = e
    OBVIOUS
  <1> HIDE DEF e
  <1>8. Sound(u, D, None) /\ u.dreg = [t.dreg EXCEPT ![e] = r]
    BY <1>2, <1>4, <1>6, DecrIs
  <1> HIDE DEF u
  <1>9. Table' = u /\ dreg' = u.dreg
    BY <1>1, <1>8, SetTableIs
  <1>10. TableOK'
    BY <1>8, <1>9 DEF TableOK
  <1>11. /\ r \in Registration /\ r.refcount = t.dreg[e].refcount - 1
         /\ r.first = t.dreg[e].first /\ r.last = t.dreg[e].last /\ r.acl = t.dreg[e].acl
    <2>1. t.dreg[e] \in Registration
      BY <1>4, <1>5
    <2> QED
      BY <1>4, <2>1 DEF Registration
  <1> HIDE DEF r
  <1>12. Serves([t.dreg EXCEPT ![e] = r], [op EXCEPT ![o] = Idle])
    BY <1>1, <1>3, <1>5, <1>7, <1>11, ServesDone
  <1>13. Serves(dreg', op')
    BY <1>1, <1>8, <1>9, <1>12
  <1> QED
    BY <1>1, <1>10, <1>13 DEF IInv

LEMMA MunmapIInv ==
    ASSUME IInv, Munmap
    PROVE  IInv'
  <1>0. PICK begin \in Page :
            \E end \in begin .. Pages - 1 :
                /\ queued' = Append(queued, <<begin, end>>)
                /\ mapped' = mapped \ (begin .. end)
                /\ dreg' = [e \in Entry |-> [dreg[e] EXCEPT !.mr = @ \ (begin .. end)]]
    BY DEF Munmap
  <1>1. PICK end \in begin .. Pages - 1 :
            /\ queued' = Append(queued, <<begin, end>>)
            /\ mapped' = mapped \ (begin .. end)
            /\ dreg' = [e \in Entry |-> [dreg[e] EXCEPT !.mr = @ \ (begin .. end)]]
    BY <1>0
  <1>2. UNCHANGED <<vmas, free, unused, pinned, op, spins>>
    BY DEF Munmap
  <1> DEFINE t == Table
             u == Table'
             d == dreg'
             part == begin .. end
  <1>3. PICK D \in SUBSET Entry : Sound(t, D, None)
    BY DEF IInv, TableOK
  <1>4. /\ t.dreg = dreg /\ t.free = free /\ t.unused = unused /\ t.vmas = vmas
        /\ t.pinned = pinned
    BY DEF Table
  <1>5. u = [dreg |-> d, vmas |-> vmas, free |-> free, unused |-> unused, pinned |-> pinned]
    BY <1>2 DEF Table
  <1> HIDE DEF t, u
  <1>6. t \in Tables /\ dreg \in [Entry -> Registration]
        /\ Sorted(t.dreg, D, t.free, t.unused, None)
    BY <1>3, <1>4, SoundHas
  <1>7. ASSUME NEW x \in Entry
        PROVE  /\ d[x] \in Registration /\ d[x].refcount = dreg[x].refcount
               /\ d[x].first = dreg[x].first /\ d[x].last = dreg[x].last
               /\ d[x].acl = dreg[x].acl /\ d[x].is_valid = dreg[x].is_valid
    <2>1. d[x] = [dreg[x] EXCEPT !.mr = @ \ part] /\ dreg[x] \in Registration
      BY <1>1, <1>6
    <2> HIDE DEF part, d
    <2> QED
      BY <2>1 DEF Registration
  <1>8. d \in [Entry -> Registration]
    <2>1. d = [x \in Entry |-> d[x]]
      BY <1>1
    <2> HIDE DEF d
    <2> QED
      BY <1>7, <2>1
  <1> HIDE DEF d
  <1>9. WithLists(u, t, d, t.free, t.unused)
    <2>1. /\ t.vmas \in Seq(Area) /\ t.free \in Seq(Entry) /\ t.unused \in Seq(Entry)
          /\ t.pinned \in Pinned
      BY <1>6, TableHas
    <2>2. u \in Tables
      BY <1>4, <1>5, <1>8, <2>1 DEF Tables
    <2> QED
      BY <1>4, <1>5, <2>2 DEF WithLists
  <1>10. \A x \in D : d[x].first = t.dreg[x].first /\ d[x].last = t.dreg[x].last
    BY <1>4, <1>7
  <1>11. Sorted(d, D, t.free, t.unused, None)
    <2>1. \A x \in D : d[x].first <= d[x].last
      BY <1>6, <1>10 DEF Sorted
    <2> QED
      BY <1>4, <1>6, <1>7, <2>1, NoneOnNone DEF Sorted
  <1>12. Sound(u, D, None)
    BY <1>3, <1>9, <1>10, <1>11, SoundWith
  <1>13. TableOK'
    BY <1>12 DEF TableOK, u
  <1>14. Serves(d, op)
    BY <1>7 DEF IInv, Serves, Pins
  <1>15. Serves(dreg, op)'
    BY <1>2, <1>14 DEF d
  <1>16. queued' \in Seq(Page \X Page)
    <2>1. <<begin, end>> \in Page \X Page
      BY Numbers DEF Page
    <2> QED
      BY <1>1, <2>1 DEF IInv
  <1>17. mapped' \in SUBSET Page /\ spins' \in BOOLEAN
    BY <1>1, <1>2 DEF IInv
  <1> QED
    BY <1>13, <1>15, <1>16, <1>17 DEF IInv

LEMMA MallocIInv ==
    ASSUME IInv, Malloc
    PROVE  IInv'
  <1> DEFINE t == Table
             f == Flushed(t)
  <1>1. /\ queued # << >> /\ SetTable(f.t) /\ spins' = f.spins
        /\ queued' = (IF f.spins THEN queued ELSE << >>) /\ UNCHANGED <<mapped, op>>
    BY DEF Malloc
  <1>2. PICK D \in SUBSET Entry : Sound(t, D, None)
    BY DEF IInv, TableOK
  <1>3. Serves(t.dreg, op)
    BY DEF IInv, Table
  <1>4. queued \in Seq(Page \X Page)
    BY DEF IInv
  <1> HIDE DEF t
  <1>5. f \in Flushing(t)
    BY <1>1, <1>2, <1>4, FlushedIs
  <1> HIDE DEF f
  <1>6. f.spins \in BOOLEAN
    BY <1>5 DEF Flushing, Flush
  <1>7. PICK E \in SUBSET Entry : Sound(f.t, E, None) /\ Kept(f.t.dreg, t.dreg)
    BY <1>5 DEF Flushing
  <1>8. Table' = f.t /\ dreg' = f.t.dreg
    BY <1>1, <1>7, SetTableIs
  <1>9. TableOK'
    BY <1>7, <1>8 DEF TableOK
  <1>10. Serves(f.t.dreg, op)
    BY <1>3, <1>7, ServesKept
  <1>11. Serves(dreg', op')
    BY <1>1, <1>8, <1>10
  <1>12. queued' \in Seq(Page \X Page) /\ mapped' \in SUBSET Page /\ spins' \in BOOLEAN
    BY <1>1, <1>4, <1>6 DEF IInv
  <1> QED
    BY <1>9, <1>11, <1>12 DEF IInv

LEMMA StepIInv == IInv /\ [Next]_vars => IInv'
  <1> SUFFICES ASSUME IInv, [Next]_vars PROVE IInv'
    OBVIOUS
  <1>1. CASE \E o \in Op : Register(o) \/ Complete(o)
    BY <1>1, RegisterIInv, CompleteIInv
  <1>2. CASE Munmap
    BY <1>2, MunmapIInv
  <1>3. CASE Mmap
    <2>1. UNCHANGED <<tableVars, queued, op, spins>>
      BY <1>3 DEF Mmap
    <2>2. UNCHANGED <<dreg, vmas, free, unused, pinned, queued, op, spins>>
      BY <2>1 DEF tableVars
    <2>3. Table' = Table
      BY <2>2 DEF Table
    <2>4. mapped' \in SUBSET Page
      <3>1. PICK begin \in Page : \E end \in begin .. Pages - 1 : mapped' = mapped \cup (begin .. end)
        BY <1>3 DEF Mmap
      <3>2. PICK end \in begin .. Pages - 1 : mapped' = mapped \cup (begin .. end)
        BY <3>1
      <3>3. begin .. end \subseteq Page
        BY Numbers DEF Page
      <3> QED
        BY <3>2, <3>3 DEF IInv
    <2>5. TableOK'
      BY <2>3 DEF IInv, TableOK
    <2> QED
      BY <2>2, <2>4, <2>5 DEF IInv
  <1>4. CASE Malloc
    BY <1>4, MallocIInv
  <1>5. CASE UNCHANGED vars
    <2>1. UNCHANGED <<dreg, vmas, free, unused, pinned, queued, mapped, op, spins>>
      BY <1>5 DEF vars, tableVars
    <2>2. Table' = Table
      BY <2>1 DEF Table
    <2>3. TableOK'
      BY <2>2 DEF IInv, TableOK
    <2> QED
      BY <2>1, <2>3 DEF IInv
  <1> QED
    BY <1>1, <1>2, <1>3, <1>4, <1>5 DEF Next

\* What the proofs below rest on: the table, the lists of entries and the
\* operations agree with each other in every state.
THEOREM IInvIsInvariant == Spec => []IInv
  <1> QED
    BY InitIInv, StepIInv, PTL DEF Spec

\* What the invariant says in the words of the properties
LEMMA IInvLookupExact == IInv => LookupExact
  <1> SUFFICES ASSUME IInv, NEW begin \in Page, NEW end \in begin .. Pages - 1
               PROVE  LET e == Lookup(Table, begin, end)
                      IN  IF e = None THEN \A d \in Entry : dreg[d].is_valid => ~Covers(d, begin, end)
                          ELSE dreg[e].is_valid /\ Covers(e, begin, end)
    BY DEF LookupExact
  <1> DEFINE t == Table
             e == Lookup(t, begin, end)
  <1>1. PICK D \in SUBSET Entry : Sound(t, D, None)
    BY DEF IInv, TableOK
  <1>2. t.dreg = dreg
    BY DEF Table
  <1> HIDE DEF t
  <1>3. begin \in Nat /\ end \in Nat /\ begin <= end
    BY Numbers
  <1>4. Looked(e, t.dreg, D, begin, end)
    BY <1>1, <1>3, LookupIs
  <1>5. \A x \in Entry : dreg[x].is_valid <=> x \in D
    BY <1>1, <1>2, NoneOnNone DEF Sound, Sorted
  <1> HIDE DEF e
  <1>6. IF e = None THEN \A d \in Entry : dreg[d].is_valid => ~Covers(d, begin, end)
        ELSE dreg[e].is_valid /\ Covers(e, begin, end)
    BY <1>2, <1>4, <1>5 DEF Looked, Covers
  <1> QED
    BY <1>6 DEF e, t

LEMMA IInvOperationsArePinned == IInv => OperationsArePinned
  <1> SUFFICES ASSUME IInv, NEW o \in Op, op[o] # Idle
               PROVE  LET e == op[o].entry
                      IN  /\ dreg[e].is_valid /\ Covers(e, op[o].first, op[o].last)
                          /\ dreg[e].acl <= op[o].acl
    BY DEF OperationsArePinned
  <1> DEFINE e == op[o].entry
  <1>1. PICK D \in SUBSET Entry : Sound(Table, D, None)
    BY DEF IInv, TableOK
  <1>2. Sorted(dreg, D, free, unused, None)
    BY <1>1 DEF Sound, Table
  <1>3. Serves(dreg, op)
    BY DEF IInv
  <1>4. e \in Entry /\ dreg[e].refcount # 0 /\ Pins(dreg[e], op[o])
    BY <1>3, InUseIs DEF Serves
  <1>5. dreg[e].is_valid
    BY <1>2, <1>4, NoneOnNone DEF Sorted
  <1> QED
    BY <1>4, <1>5 DEF Pins, Covers

-----------------------------------------------------------------------------
(* Theorems.                                                                *)

\* For every range of pages dreg_lookup returns a registration that covers it,
\* and returns none only when none does, however dreg_insert, dreg_remove and
\* the merges have cut and joined the areas before.
THEOREM LookupIsExact == Spec => []LookupExact
  <1> QED
    BY IInvIsInvariant, IInvLookupExact, PTL

\* The entry of an operation in progress stays registered, for all pages of
\* the buffer and for what is done with them, whatever dreg_evict,
\* flush_dereg_mrs_external and the registrations of others do meanwhile.
THEOREM OperationsStayPinned == Spec => []OperationsArePinned
  <1> QED
    BY IInvIsInvariant, IInvOperationsArePinned, PTL

\* refcount counts the operations that use an entry, no entry is twice on a
\* list or on one where it does not belong.  For every limit; what this leaves
\* open is an entry that is on no list at all.
EntriesCounted ==
    /\ \A e \in Entry :
        /\ dreg[e].refcount = Cardinality(Users(e))
        /\ Contains(free, e) => ~dreg[e].is_valid
        /\ Contains(unused, e) <=> dreg[e].is_valid /\ Users(e) = {}
    /\ IsInjective(free) /\ IsInjective(unused)

LEMMA IInvEntriesCounted == IInv => EntriesCounted
  <1> SUFFICES ASSUME IInv PROVE EntriesCounted
    OBVIOUS
  <1>1. PICK D \in SUBSET Entry : Sound(Table, D, None)
    BY DEF IInv, TableOK
  <1>2. Sorted(dreg, D, free, unused, None) /\ free \in Seq(Entry) /\ unused \in Seq(Entry)
    BY <1>1, SoundHas DEF Table
  <1>3. Serves(dreg, op)
    BY DEF IInv
  <1>4. ASSUME NEW e \in Entry
        PROVE  /\ dreg[e].refcount = Cardinality(Users(e))
               /\ Contains(free, e) => ~dreg[e].is_valid
               /\ Contains(unused, e) <=> dreg[e].is_valid /\ Users(e) = {}
    <2>1. Users(e) = Uses(op, e)
      BY DEF Users, Uses
    <2>2. dreg[e].refcount = Cardinality(Users(e))
      BY <1>3, <2>1 DEF Serves
    <2>3. IsFiniteSet(Users(e))
      BY <2>1, UsesAre
    <2>4. dreg[e].refcount = 0 <=> Users(e) = {}
      BY <2>2, <2>3, FS_EmptySet
    <2>5. e \in Entry \ {None}
      BY NoneOnNone
    <2> QED
      BY <1>2, <2>2, <2>4, <2>5 DEF Sorted
  <1>5. ASSUME NEW s \in Seq(Entry), Single(s)
        PROVE  IsInjective(s)
    <2>1. ASSUME NEW i \in DOMAIN s, NEW j \in DOMAIN s, s[i] = s[j]
          PROVE  i = j
      <3>1. i \in 1 .. Len(s) /\ j \in 1 .. Len(s)
        OBVIOUS
      <3>2. ~(i < j) /\ ~(j < i)
        BY <1>5, <2>1, <3>1 DEF Single
      <3> QED
        BY <3>1, <3>2
    <2> QED
      BY <2>1 DEF IsInjective
  <1>6. IsInjective(free) /\ IsInjective(unused)
    BY <1>2, <1>5 DEF Sorted
  <1> QED
    BY <1>4, <1>6 DEF EntriesCounted

THEOREM EntriesAreCounted == Spec => []EntriesCounted
  <1> QED
    BY IInvIsInvariant, IInvEntriesCounted, PTL

LEMMA IInvEntriesAccounted == IInv /\ Room => EntriesAccounted
  <1> SUFFICES ASSUME IInv, Room PROVE EntriesAccounted
    OBVIOUS
  <1>1. PICK D \in SUBSET Entry : Sound(Table, D, None)
    BY DEF IInv, TableOK
  <1>2. Sorted(dreg, D, free, unused, None)
    BY <1>1 DEF Sound, Table
  <1>3. \A e \in Entry : ~Contains(free, e) => dreg[e].is_valid
    BY <1>2, NoneOnNone DEF Sorted
  <1>4. EntriesCounted
    BY IInvEntriesCounted
  <1> QED
    BY <1>3, <1>4 DEF EntriesCounted, EntriesAccounted

\* No entry is lost either: every one is on the free list, or registered and
\* on the list of those not in use, or registered and counted for each
\* operation that uses it.  This needs a cache without a limit, which is the
\* default, or one that no request reaches: dreg_new_entry takes the entry off
\* the free list before it looks at the size, and then returns without it.
THEOREM EntriesAreAccounted == Room => (Spec => []EntriesAccounted)
  <1> SUFFICES ASSUME Room PROVE Spec => []EntriesAccounted
    OBVIOUS
  <1>1. IInv => EntriesAccounted
    BY IInvEntriesAccounted
  <1> QED
    BY IInvIsInvariant, <1>1, PTL
=============================================================================
