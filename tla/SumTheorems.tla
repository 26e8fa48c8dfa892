---------------------------- MODULE SumTheorems -----------------------------
(***************************************************************************)
(* What the sum of a function over a finite set is.  The community modules  *)
(* define SumFunction by a fold that takes the elements one by one, in an   *)
(* order nobody knows.  Here it is shown that any element may be taken      *)
(* first, and what follows for sequences: the accounts of credits and bytes *)
(* of the other modules are sums over the packets that carry them.          *)
(*                                                                         *)
(* Each induction is the choice of a smallest counterexample, which the     *)
(* well-founded order of the finite subsets provides.                       *)
(***************************************************************************)
EXTENDS Integers, Sequences, Functions, FiniteSetTheorems,
        WellFoundedInduction, TLAPS

LEMMA SmallestSubset ==
    ASSUME NEW S, IsFiniteSet(S), NEW T, T \subseteq SUBSET S, T # {}
    PROVE  \E A \in T : \A B \in T : B \subseteq A => B = A
  <1> DEFINE R == StrictSubsetOrdering(S)
             F == FiniteSubsetsOf(S)
  <1>1. IsWellFoundedOn(R, F)
    BY FS_StrictSubsetOrderingWellFounded
  <1>2. T \subseteq F
    BY FS_Subset DEF FiniteSubsetsOf
  <1>3. \E A \in T : \A B \in T : ~(<<B, A>> \in R)
    <2> HIDE DEF R, F
    <2> QED
      BY <1>1, <1>2, WFMin
  <1>4. PICK A \in T : \A B \in T : ~(<<B, A>> \in R)
    BY <1>3
  <1>5. \A B \in T : B \subseteq A => B = A
    BY <1>4 DEF StrictSubsetOrdering
  <1> QED
    BY <1>5

LEMMA SmallestNumber ==
    ASSUME NEW T, T \subseteq Nat, T # {}
    PROVE  \E n \in T : \A m \in T : n <= m
  <1>1. PICK t \in T : TRUE
    OBVIOUS
  <1> DEFINE Below == {1 .. k : k \in {j \in T : j <= t}}
  <1>2. IsFiniteSet(1 .. t)
    BY FS_Interval
  <1>3. Below \subseteq SUBSET (1 .. t) /\ Below # {}
    BY <1>1
  <1>4. PICK A \in Below : \A B \in Below : B \subseteq A => B = A
    <2> DEFINE S == 1 .. t
    <2>1. IsFiniteSet(S) /\ Below \subseteq SUBSET S /\ Below # {}
      BY <1>2, <1>3
    <2> HIDE DEF Below, S
    <2> QED
      BY <2>1, SmallestSubset
  <1>5. PICK n \in T : n <= t /\ A = 1 .. n
    OBVIOUS
  <1>6. \A m \in T : n <= m
    <2> SUFFICES ASSUME NEW m \in T, m < n PROVE FALSE
      OBVIOUS
    <2>1. 1 .. m \in Below /\ 1 .. m \subseteq 1 .. n
      BY <1>5
    <2>2. n \in 1 .. n /\ n \notin 1 .. m
      OBVIOUS
    <2> QED
      BY <1>4, <1>5, <2>1, <2>2
  <1> QED
    BY <1>6

-----------------------------------------------------------------------------
(* The fold is well defined.                                                *)

Chosen(A) == CHOOSE x \in A : TRUE

\* One turn of the fold, where g has the sums of the smaller sets.
FoldTurn(f, g, A) == IF A = {} THEN 0 ELSE f[Chosen(A)] + g[A \ {Chosen(A)}]

\* g has the sums of f over the subsets of S.
SubsetSums(f, g, S) ==
    /\ g \in [SUBSET S -> Nat]
    /\ \A A \in SUBSET S : g[A] = FoldTurn(f, g, A)

LEMMA FirstIn ==
    ASSUME NEW A, A # {}
    PROVE  Chosen(A) \in A
  BY DEF Chosen

SameOn(g, k, S) == \A x \in S : g[x] = k[x]

LEMMA SumsAgree ==
    ASSUME NEW S, NEW T, IsFiniteSet(S), NEW f, NEW h, NEW g, NEW k,
           SubsetSums(f, g, S), SubsetSums(h, k, T),
           SameOn(f, h, S \cap T)
    PROVE  SameOn(g, k, SUBSET (S \cap T))
  <1> DEFINE Bad == {A \in SUBSET (S \cap T) : g[A] # k[A]}
  <1> SUFFICES ASSUME Bad # {} PROVE FALSE
    BY DEF SameOn
  <1>1. PICK A \in Bad : \A B \in Bad : B \subseteq A => B = A
    <2>1. Bad \subseteq SUBSET S
      OBVIOUS
    <2> HIDE DEF Bad
    <2> QED
      BY <2>1, SmallestSubset
  <1>2. A # {}
    BY DEF SubsetSums, FoldTurn
  <1> DEFINE x == Chosen(A)
             B == A \ {x}
  <1>3. x \in A /\ g[A] = f[x] + g[B] /\ k[A] = h[x] + k[B]
    <2>1. A \in SUBSET S /\ A \in SUBSET T
      OBVIOUS
    <2> HIDE DEF Bad
    <2>2. x \in A
      BY <1>2, FirstIn
    <2>3. g[A] = FoldTurn(f, g, A) /\ k[A] = FoldTurn(h, k, A)
      BY <2>1 DEF SubsetSums
    <2> QED
      BY <1>2, <2>2, <2>3 DEF FoldTurn
  <1>4. B \notin Bad
    BY <1>1, <1>3
  <1> QED
    BY <1>3, <1>4 DEF SameOn

LEMMA SumsExist ==
    ASSUME NEW S, IsFiniteSet(S), NEW f \in [S -> Nat]
    PROVE  \E g : SubsetSums(f, g, S)
  <1> DEFINE Bad == {A \in SUBSET S : ~ \E g : SubsetSums(f, g, A)}
  <1> SUFFICES ASSUME Bad # {} PROVE FALSE
    <2>1. S \notin Bad
      OBVIOUS
    <2> QED
      BY <2>1
  <1>1. PICK A \in Bad : \A B \in Bad : B \subseteq A => B = A
    <2>1. Bad \subseteq SUBSET S
      OBVIOUS
    <2> HIDE DEF Bad
    <2> QED
      BY <2>1, SmallestSubset
  <1> DEFINE Of(B) == CHOOSE g : SubsetSums(f, g, B)
             g == [B \in SUBSET A |->
                      IF B = {} THEN 0
                      ELSE f[Chosen(B)] + Of(B \ {Chosen(B)})[B \ {Chosen(B)}]]
  <1>2. \A B \in SUBSET A : B # A => SubsetSums(f, Of(B), B)
    <2> TAKE B \in SUBSET A
    <2> HAVE B # A
    <2>1. B \notin Bad /\ B \in SUBSET S
      BY <1>1
    <2>2. \E h : SubsetSums(f, h, B)
      BY <2>1
    <2> QED
      BY <2>2
  <1> HIDE DEF Of
  <1>3. \A B \in SUBSET A : B # {} =>
           LET C == B \ {Chosen(B)}
           IN  /\ Chosen(B) \in S /\ f[Chosen(B)] \in Nat
               /\ SubsetSums(f, Of(C), C) /\ Of(C)[C] \in Nat
    <2> TAKE B \in SUBSET A
    <2> HAVE B # {}
    <2> DEFINE C == B \ {Chosen(B)}
    <2>1. Chosen(B) \in B
      BY FirstIn
    <2>2. SubsetSums(f, Of(C), C)
      BY <1>2, <2>1
    <2>3. Of(C)[C] \in Nat
      BY <2>2 DEF SubsetSums
    <2> QED
      BY <2>1, <2>2, <2>3
  <1>4. g \in [SUBSET A -> Nat]
    BY <1>3
  <1>5. \A B \in SUBSET A : g[B] = FoldTurn(f, g, B)
    <2> TAKE B \in SUBSET A
    <2>1. CASE B = {}
      BY <2>1 DEF FoldTurn
    <2>2. CASE B # {}
      <3> DEFINE C == B \ {Chosen(B)}
      <3>1. Chosen(B) \in B /\ C \in SUBSET A /\ C \in SUBSET S
        BY <2>2, FirstIn
      <3>2. g[B] = f[Chosen(B)] + Of(C)[C]
        BY <2>2
      <3>3. SubsetSums(f, Of(C), C)
        BY <2>2, <1>3
      <3>4. g[C] = Of(C)[C]
        <4>1. CASE C = {}
          <5>1. Of(C)[C] = FoldTurn(f, Of(C), C)
            BY <3>3 DEF SubsetSums
          <5> QED
            BY <4>1, <5>1, <3>1 DEF FoldTurn
        <4>2. CASE C # {}
          <5> DEFINE D == C \ {Chosen(C)}
          <5>1. Chosen(C) \in C /\ Of(C)[C] = f[Chosen(C)] + Of(C)[D]
            <6> DEFINE h == Of(C)
            <6>1. SubsetSums(f, h, C) /\ C \in SUBSET C /\ C # {}
              BY <3>3, <4>2
            <6> HIDE DEF C, h
            <6>2. Chosen(C) \in C /\ h[C] = f[Chosen(C)] + h[C \ {Chosen(C)}]
              BY <6>1, FirstIn DEF SubsetSums, FoldTurn
            <6> QED
              BY <6>2 DEF h
          <5>2. g[C] = f[Chosen(C)] + Of(D)[D]
            BY <4>2, <3>1
          <5>3. SubsetSums(f, Of(D), D)
            BY <1>3, <4>2, <3>1
          <5>4. Of(C)[D] = Of(D)[D]
            <6>1. IsFiniteSet(C)
              BY <3>1, FS_Subset
            <6>2. D \in SUBSET (C \cap D)
              OBVIOUS
            <6> DEFINE h == Of(C)
                       k == Of(D)
            <6>3. SubsetSums(f, h, C) /\ SubsetSums(f, k, D) /\ SameOn(f, f, C \cap D)
              BY <3>3, <5>3 DEF SameOn
            <6> HIDE DEF C, D, h, k
            <6>4. SameOn(h, k, SUBSET (C \cap D))
              BY <6>1, <6>3, SumsAgree
            <6> QED
              BY <6>2, <6>4 DEF SameOn, h, k
          <5> QED
            BY <5>1, <5>2, <5>4
        <4> QED
          BY <4>1, <4>2
      <3> QED
        BY <2>2, <3>1, <3>2, <3>4 DEF FoldTurn
    <2> QED
      BY <2>1, <2>2
  <1>6. SubsetSums(f, g, A)
    <2> HIDE DEF g
    <2> QED
      BY <1>4, <1>5 DEF SubsetSums
  <1> QED
    BY <1>6

LEMMA SumIs ==
    ASSUME NEW S, IsFiniteSet(S), NEW f \in [S -> Nat]
    PROVE  \E g : SubsetSums(f, g, S) /\ SumFunction(f) = g[S]
  <1> DEFINE Is(g) == g = [A \in SUBSET S |->
                 IF A = {} THEN 0 ELSE f[Chosen(A)] + g[A \ {Chosen(A)}]]
  <1>1. SumFunction(f) = (CHOOSE g : Is(g))[S]
    BY DEF SumFunction, SumFunctionOnSet, FoldFunctionOnSet, MapThenFoldSet, Chosen
  <1>2. PICK g : SubsetSums(f, g, S)
    BY SumsExist
  <1>3. Is(g)
    <2>1. DOMAIN g = SUBSET S /\ \A A \in SUBSET S : g[A] = FoldTurn(f, g, A)
      BY <1>2 DEF SubsetSums
    <2> QED
      BY <1>2, <2>1 DEF SubsetSums, FoldTurn
  <1> DEFINE h == CHOOSE k : Is(k)
  <1>4. Is(h)
    <2> HIDE DEF Is
    <2> QED
      BY <1>3
  <1> HIDE DEF h
  <1>5. \A A \in SUBSET S : h[A] = FoldTurn(f, h, A)
    BY <1>4 DEF FoldTurn
  <1>6. \A A \in SUBSET S : h[A] = g[A]
    <2> DEFINE Bad == {A \in SUBSET S : h[A] # g[A]}
    <2> SUFFICES ASSUME Bad # {} PROVE FALSE
      OBVIOUS
    <2>1. PICK A \in Bad : \A B \in Bad : B \subseteq A => B = A
      <3>1. Bad \subseteq SUBSET S
        OBVIOUS
      <3> HIDE DEF Bad
      <3> QED
        BY <3>1, SmallestSubset
    <2>2. g[A] = FoldTurn(f, g, A) /\ h[A] = FoldTurn(f, h, A)
      BY <1>2, <1>5 DEF SubsetSums
    <2>3. A # {}
      BY <2>2 DEF FoldTurn
    <2>4. Chosen(A) \in A
      BY <2>3, FirstIn
    <2>5. A \ {Chosen(A)} \notin Bad
      BY <2>1, <2>4
    <2> QED
      BY <2>2, <2>3, <2>4, <2>5 DEF FoldTurn
  <1>7. SumFunction(f) = g[S]
    BY <1>1, <1>6 DEF h
  <1> QED
    BY <1>2, <1>7

-----------------------------------------------------------------------------
(* Sums over sets.                                                          *)

\* The part of a function on some arguments.
Part(f, A) == [x \in A |-> f[x]]

\* The same fold gives the sums of all the parts of f.
LEMMA SumsOfParts ==
    ASSUME NEW S, IsFiniteSet(S), NEW f \in [S -> Nat], NEW g, SubsetSums(f, g, S),
           NEW A \in SUBSET S
    PROVE  SumFunction(Part(f, A)) = g[A]
  <1> DEFINE h == Part(f, A)
  <1>1. h \in [A -> Nat] /\ SameOn(f, h, S \cap A)
    BY DEF Part, SameOn
  <1>2. IsFiniteSet(A)
    BY FS_Subset
  <1> HIDE DEF h
  <1>3. PICK k : SubsetSums(h, k, A) /\ SumFunction(h) = k[A]
    BY <1>1, <1>2, SumIs
  <1>4. SameOn(g, k, SUBSET (S \cap A))
    BY <1>1, <1>3, SumsAgree
  <1>5. A \in SUBSET (S \cap A)
    OBVIOUS
  <1> QED
    BY <1>3, <1>4, <1>5 DEF h, SameOn

\* A sum of natural numbers over a finite set is a natural number.
THEOREM SumType ==
    ASSUME NEW S, IsFiniteSet(S), NEW f \in [S -> Nat]
    PROVE  SumFunction(f) \in Nat
  <1>1. PICK g : SubsetSums(f, g, S) /\ SumFunction(f) = g[S]
    BY SumIs
  <1> QED
    BY <1>1 DEF SubsetSums

\* The sum over no argument is zero.
THEOREM SumEmpty ==
    ASSUME NEW f, DOMAIN f = {}, f = [x \in {} |-> f[x]]
    PROVE  SumFunction(f) = 0
  <1>1. f \in [{} -> Nat] /\ IsFiniteSet({})
    BY FS_EmptySet
  <1>2. PICK g : SubsetSums(f, g, {}) /\ SumFunction(f) = g[{}]
    BY <1>1, SumIs
  <1> QED
    BY <1>2 DEF SubsetSums, FoldTurn

AnyOrder(f, g, S) ==
    \A A \in SUBSET S : \A x \in A : g[A] = f[x] + g[A \ {x}]

\* Any argument may be taken first.
LEMMA AnyFirst ==
    ASSUME NEW S, IsFiniteSet(S), NEW f \in [S -> Nat], NEW g, SubsetSums(f, g, S)
    PROVE  AnyOrder(f, g, S)
  <1> DEFINE Bad == {A \in SUBSET S : \E x \in A : g[A] # f[x] + g[A \ {x}]}
  <1> SUFFICES ASSUME Bad # {} PROVE FALSE
    BY DEF AnyOrder
  <1>1. PICK A \in Bad : \A B \in Bad : B \subseteq A => B = A
    <2>1. Bad \subseteq SUBSET S
      OBVIOUS
    <2> HIDE DEF Bad
    <2> QED
      BY <2>1, SmallestSubset
  <1>2. PICK x \in A : g[A] # f[x] + g[A \ {x}]
    OBVIOUS
  <1> DEFINE p == Chosen(A)
             B == A \ {p}
             C == A \ {x}
             D == (A \ {p}) \ {x}
  <1>3. p \in A /\ g[A] = f[p] + g[B]
    <2>1. A \in SUBSET S /\ A # {}
      BY <1>2
    <2>2. p \in A
      BY <2>1, FirstIn
    <2>3. g[A] = FoldTurn(f, g, A)
      BY <2>1 DEF SubsetSums
    <2> QED
      BY <2>1, <2>2, <2>3 DEF FoldTurn
  <1>4. p # x
    BY <1>2, <1>3
  <1>5. B \notin Bad /\ C \notin Bad
    BY <1>1, <1>2, <1>3
  <1>6. D = B \ {x} /\ D = C \ {p}
    OBVIOUS
  <1>7. x \in B /\ p \in C
    BY <1>2, <1>3, <1>4
  <1>8. A \in SUBSET S /\ B \in SUBSET S /\ C \in SUBSET S /\ D \in SUBSET S
    BY <1>6
  <1> HIDE DEF p, B, C, D
  <1>9. g[B] = f[x] + g[D]
    BY <1>5, <1>6, <1>7, <1>8
  <1>10. g[C] = f[p] + g[D]
    BY <1>5, <1>6, <1>7, <1>8
  <1>11. f[x] \in Nat /\ f[p] \in Nat /\ g[D] \in Nat
    BY <1>3, <1>8 DEF SubsetSums
  <1>12. g[A] = f[x] + g[C]
    BY <1>3, <1>9, <1>10, <1>11
  <1> QED
    BY <1>2, <1>12 DEF C

\* Any summand may be taken out of a sum, and the rest is a sum over the
\* other arguments: the order of the fold does not matter.
THEOREM SumSplit ==
    ASSUME NEW S, IsFiniteSet(S), NEW f \in [S -> Nat], NEW x \in S
    PROVE  SumFunction(f) = f[x] + SumFunction(Part(f, S \ {x}))
  <1>1. PICK g : SubsetSums(f, g, S) /\ SumFunction(f) = g[S]
    BY SumIs
  <1>2. g[S] = f[x] + g[S \ {x}]
    <2>1. AnyOrder(f, g, S)
      BY <1>1, AnyFirst
    <2> QED
      BY <2>1 DEF AnyOrder
  <1>3. S \ {x} \in SUBSET S
    OBVIOUS
  <1>4. SumFunction(Part(f, S \ {x})) = g[S \ {x}]
    BY <1>1, <1>3, SumsOfParts
  <1> QED
    BY <1>1, <1>2, <1>4

Updated(f, x, n) == [f EXCEPT ![x] = n]

\* When one summand changes, the sum changes by as much.
THEOREM SumUpdate ==
    ASSUME NEW S, IsFiniteSet(S), NEW f \in [S -> Nat], NEW x \in S, NEW n \in Nat
    PROVE  SumFunction(Updated(f, x, n)) + f[x] = SumFunction(f) + n
  <1> DEFINE h == [f EXCEPT ![x] = n]
             rest == SumFunction(Part(f, S \ {x}))
  <1>1. h \in [S -> Nat] /\ h[x] = n
    OBVIOUS
  <1>2. Part(h, S \ {x}) = Part(f, S \ {x})
    BY DEF Part
  <1>3. rest \in Nat
    <2>1. IsFiniteSet(S \ {x}) /\ Part(f, S \ {x}) \in [S \ {x} -> Nat]
      BY FS_RemoveElement DEF Part
    <2> QED
      BY <2>1, SumType
  <1>4. SumFunction(f) = f[x] + rest
    BY SumSplit
  <1> HIDE DEF h
  <1>5. SumFunction(h) = n + rest
    BY <1>1, <1>2, SumSplit
  <1> HIDE DEF rest
  <1>6. f[x] \in Nat
    OBVIOUS
  <1>7. SumFunction(h) + f[x] = SumFunction(f) + n
    BY <1>3, <1>4, <1>5, <1>6
  <1> QED
    BY <1>7 DEF h, Updated

\* A sum of nothing but zeros is zero.
THEOREM SumOfZeros ==
    ASSUME NEW S, IsFiniteSet(S), NEW f \in [S -> Nat], \A x \in S : f[x] = 0
    PROVE  SumFunction(f) = 0
  <1>1. PICK g : SubsetSums(f, g, S) /\ SumFunction(f) = g[S]
    BY SumIs
  <1> DEFINE Bad == {A \in SUBSET S : g[A] # 0}
  <1> SUFFICES ASSUME Bad # {} PROVE FALSE
    BY <1>1
  <1>2. PICK A \in Bad : \A B \in Bad : B \subseteq A => B = A
    <2>1. Bad \subseteq SUBSET S
      OBVIOUS
    <2> HIDE DEF Bad
    <2> QED
      BY <2>1, SmallestSubset
  <1>3. g[A] = FoldTurn(f, g, A)
    BY <1>1 DEF SubsetSums
  <1>4. A # {}
    BY <1>3 DEF FoldTurn
  <1>5. Chosen(A) \in A
    BY <1>4, FirstIn
  <1> DEFINE B == A \ {Chosen(A)}
  <1>6. g[B] = 0
    BY <1>2, <1>5
  <1>7. g[A] = f[Chosen(A)] + g[B]
    BY <1>3, <1>4 DEF FoldTurn
  <1> QED
    BY <1>5, <1>6, <1>7

\* The sum over two sets without a common element is the sum of the two sums.
THEOREM SumUnion ==
    ASSUME NEW S, NEW T, IsFiniteSet(S), IsFiniteSet(T), S \cap T = {},
           NEW f \in [S \cup T -> Nat]
    PROVE  SumFunction(f) = SumFunction(Part(f, S)) + SumFunction(Part(f, T))
  <1>1. IsFiniteSet(S \cup T)
    BY FS_Union
  <1>2. PICK g : SubsetSums(f, g, S \cup T) /\ SumFunction(f) = g[S \cup T]
    BY <1>1, SumIs
  <1>3. SumFunction(Part(f, S)) = g[S] /\ SumFunction(Part(f, T)) = g[T]
    BY <1>1, <1>2, SumsOfParts
  <1> DEFINE Bad == {A \in SUBSET T : g[S \cup A] # g[S] + g[A]}
  <1>4. Bad = {}
    <2> SUFFICES ASSUME Bad # {} PROVE FALSE
      OBVIOUS
    <2>1. PICK A \in Bad : \A B \in Bad : B \subseteq A => B = A
      <3>1. Bad \subseteq SUBSET T
        OBVIOUS
      <3> HIDE DEF Bad
      <3> QED
        BY <3>1, SmallestSubset
    <2>2. g[{}] = 0
      BY <1>2 DEF SubsetSums, FoldTurn
    <2>3. g \in [SUBSET (S \cup T) -> Nat]
      BY <1>2 DEF SubsetSums
    <2>4. A # {}
      <3> SUFFICES ASSUME A = {} PROVE FALSE
        OBVIOUS
      <3>1. S \cup A = S /\ g[S] \in Nat
        BY <2>3
      <3> QED
        BY <2>2, <3>1
    <2>5. PICK x \in A : TRUE
      BY <2>4
    <2> DEFINE B == A \ {x}
    <2>6. B \in SUBSET T /\ B \notin Bad
      BY <2>1
    <2>7. (S \cup A) \ {x} = S \cup B
      OBVIOUS
    <2>8. g[S \cup A] = f[x] + g[S \cup B] /\ g[A] = f[x] + g[B]
      <3>1. S \cup A \in SUBSET (S \cup T) /\ A \in SUBSET (S \cup T) /\ x \in S \cup A
        OBVIOUS
      <3> HIDE DEF Bad, B
      <3>2. AnyOrder(f, g, S \cup T)
        <4> DEFINE U == S \cup T
        <4>1. IsFiniteSet(U) /\ f \in [U -> Nat] /\ SubsetSums(f, g, U)
          BY <1>1, <1>2
        <4> HIDE DEF U
        <4>2. AnyOrder(f, g, U)
          BY <4>1, AnyFirst
        <4> QED
          BY <4>2 DEF U
      <3> QED
        BY <2>7, <3>1, <3>2 DEF B, AnyOrder
    <2>9. g[S \cup B] = g[S] + g[B]
      BY <2>6
    <2>10. f[x] \in Nat /\ g[S] \in Nat /\ g[B] \in Nat
      BY <2>3
    <2> QED
      BY <2>8, <2>9, <2>10
  <1>5. T \notin Bad
    BY <1>4
  <1> QED
    BY <1>2, <1>3, <1>5

\* b gives every element of S one name in T.
NamesOnce(b, T, S) ==
    /\ b \in [T -> S]
    /\ \A y, z \in T : b[y] = b[z] => y = z
    /\ \A x \in S : \E y \in T : b[y] = x

Renamed(f, b, T) == [y \in T |-> f[b[y]]]

\* The order and the names of the arguments do not matter: a sum stays the
\* same when its arguments are renamed one to one.
THEOREM SumRename ==
    ASSUME NEW S, NEW T, IsFiniteSet(S), IsFiniteSet(T),
           NEW f \in [S -> Nat], NEW b, NamesOnce(b, T, S)
    PROVE  SumFunction(Renamed(f, b, T)) = SumFunction(f)
  <1> USE DEF NamesOnce
  <1> DEFINE h == Renamed(f, b, T)
             Image(A) == {b[y] : y \in A}
  <1>1. h \in [T -> Nat] /\ \A y \in T : h[y] = f[b[y]]
    BY DEF Renamed
  <1> HIDE DEF h
  <1>2. PICK g : SubsetSums(f, g, S) /\ SumFunction(f) = g[S]
    BY SumIs
  <1>3. PICK k : SubsetSums(h, k, T) /\ SumFunction(h) = k[T]
    BY <1>1, SumIs
  <1> DEFINE Bad == {A \in SUBSET T : k[A] # g[Image(A)]}
  <1>4. Bad = {}
    <2> SUFFICES ASSUME Bad # {} PROVE FALSE
      OBVIOUS
    <2>1. PICK A \in Bad : \A B \in Bad : B \subseteq A => B = A
      <3>1. Bad \subseteq SUBSET T
        OBVIOUS
      <3> HIDE DEF Bad
      <3> QED
        BY <3>1, SmallestSubset
    <2>2. A # {}
      <3> SUFFICES ASSUME A = {} PROVE FALSE
        OBVIOUS
      <3>1. Image(A) = {}
        OBVIOUS
      <3> QED
        BY <1>2, <1>3, <3>1 DEF SubsetSums, FoldTurn
    <2>3. PICK y \in A : TRUE
      BY <2>2
    <2> DEFINE B == A \ {y}
    <2>4. B \in SUBSET T /\ B \notin Bad
      BY <2>1
    <2>5. Image(B) = Image(A) \ {b[y]}
      OBVIOUS
    <2>6. k[A] = h[y] + k[B]
      <3>1. AnyOrder(h, k, T)
        BY <1>1, <1>3, AnyFirst
      <3> QED
        BY <3>1 DEF AnyOrder
    <2>7. g[Image(A)] = f[b[y]] + g[Image(B)]
      <3>1. AnyOrder(f, g, S)
        BY <1>2, AnyFirst
      <3>2. Image(A) \in SUBSET S /\ b[y] \in Image(A)
        OBVIOUS
      <3> QED
        BY <2>5, <3>1, <3>2 DEF AnyOrder
    <2>8. k[B] = g[Image(B)] /\ h[y] = f[b[y]]
      BY <2>4, <1>1
    <2> QED
      BY <2>6, <2>7, <2>8
  <1>5. T \notin Bad /\ Image(T) = S
    BY <1>4
  <1> QED
    BY <1>2, <1>3, <1>5 DEF h

-----------------------------------------------------------------------------
(* Sums over sequences.                                                     *)

LEMMA SeqIsFunction ==
    ASSUME NEW s \in Seq(Nat)
    PROVE  /\ Len(s) \in Nat /\ s \in [1 .. Len(s) -> Nat]
           /\ IsFiniteSet(1 .. Len(s))
  BY FS_Interval

\* The sum of a sequence of natural numbers is a natural number.
THEOREM SeqSumType ==
    ASSUME NEW s \in Seq(Nat)
    PROVE  SumFunction(s) \in Nat
  BY SeqIsFunction, SumType

\* An empty sequence sums to zero.
THEOREM SumOfNone == SumFunction(<< >>) = 0
  <1>1. DOMAIN << >> = {} /\ << >> = [x \in {} |-> << >>[x]]
    OBVIOUS
  <1> QED
    BY <1>1, SumEmpty

\* A packet put at the end of a queue adds what it carries.
THEOREM SumAppend ==
    ASSUME NEW s \in Seq(Nat), NEW n \in Nat
    PROVE  SumFunction(Append(s, n)) = SumFunction(s) + n
  <1> DEFINE t == Append(s, n)
             k == Len(s) + 1
  <1>1. t \in Seq(Nat) /\ Len(t) = k /\ t[k] = n /\ k \in Nat
    OBVIOUS
  <1>2. t \in [1 .. k -> Nat] /\ IsFiniteSet(1 .. k) /\ k \in 1 .. k
    <2> HIDE DEF t
    <2>1. t \in [1 .. Len(t) -> Nat] /\ IsFiniteSet(1 .. Len(t)) /\ Len(t) \in Nat
      BY <1>1, SeqIsFunction
    <2> HIDE DEF k
    <2>2. 1 <= k
      BY DEF k
    <2> QED
      BY <1>1, <2>1, <2>2
  <1>3. Part(t, (1 .. k) \ {k}) = s
    <2>1. (1 .. k) \ {k} = 1 .. Len(s)
      OBVIOUS
    <2>2. \A i \in 1 .. Len(s) : t[i] = s[i]
      OBVIOUS
    <2>3. Part(t, 1 .. Len(s)) = [i \in 1 .. Len(s) |-> s[i]]
      BY <2>2 DEF Part
    <2>4. s = [i \in 1 .. Len(s) |-> s[i]]
      OBVIOUS
    <2> QED
      BY <2>1, <2>3, <2>4
  <1> HIDE DEF t, k
  <1>4. SumFunction(t) = t[k] + SumFunction(Part(t, (1 .. k) \ {k}))
    BY <1>2, SumSplit
  <1>5. SumFunction(s) \in Nat
    BY SeqSumType
  <1> QED
    BY <1>1, <1>3, <1>4, <1>5 DEF t

\* A packet taken from the front of a queue takes away what it carries.
THEOREM SumTail ==
    ASSUME NEW s \in Seq(Nat), s # << >>
    PROVE  SumFunction(s) = Head(s) + SumFunction(Tail(s))
  <1> DEFINE n == Len(s)
             r == Part(s, 2 .. n)
             b == [i \in 1 .. n - 1 |-> i + 1]
  <1>1. n \in Nat /\ 1 \in 1 .. n /\ Head(s) = s[1]
    OBVIOUS
  <1>2. s \in [1 .. n -> Nat] /\ IsFiniteSet(1 .. n)
    BY SeqIsFunction
  <1>3. (1 .. n) \ {1} = 2 .. n
    BY <1>1
  <1> HIDE DEF n
  <1>4. SumFunction(s) = s[1] + SumFunction(r)
    BY <1>1, <1>2, <1>3, SumSplit
  <1>5. r \in [2 .. n -> Nat]
    BY <1>1, <1>2 DEF Part
  <1>6. IsFiniteSet(2 .. n) /\ IsFiniteSet(1 .. n - 1)
    BY <1>1, FS_Interval
  <1>7. NamesOnce(b, 1 .. n - 1, 2 .. n)
    <2>1. \A x \in 2 .. n : x - 1 \in 1 .. n - 1 /\ b[x - 1] = x
      BY <1>1
    <2>2. b \in [1 .. n - 1 -> 2 .. n]
      BY <1>1
    <2>3. \A y, z \in 1 .. n - 1 : b[y] = b[z] => y = z
      BY <1>1
    <2> QED
      BY <2>1, <2>2, <2>3 DEF NamesOnce
  <1>8. Tail(s) = Renamed(r, b, 1 .. n - 1)
    <2>1. \A i \in 1 .. n - 1 : r[b[i]] = s[i + 1]
      BY <1>1 DEF Part
    <2>2. Tail(s) = [i \in 1 .. n - 1 |-> s[i + 1]]
      <3> DEFINE t == Tail(s)
      <3>1. t \in Seq(Nat) /\ Len(t) = n - 1 /\ \A i \in 1 .. n - 1 : t[i] = s[i + 1]
        BY DEF n
      <3> HIDE DEF t
      <3>2. t = [i \in 1 .. Len(t) |-> t[i]]
        BY <3>1
      <3> QED
        BY <3>1, <3>2 DEF t
    <2> HIDE DEF r, b
    <2> QED
      BY <2>1, <2>2 DEF Renamed
  <1> DEFINE T == 1 .. n - 1
             S == 2 .. n
  <1> HIDE DEF r, b
  <1>9. SumFunction(Renamed(r, b, T)) = SumFunction(r)
    <2>1. r \in [S -> Nat] /\ IsFiniteSet(S) /\ IsFiniteSet(T) /\ NamesOnce(b, T, S)
      BY <1>5, <1>6, <1>7
    <2> HIDE DEF S, T
    <2> QED
      BY <2>1, SumRename
  <1> QED
    BY <1>1, <1>4, <1>8, <1>9

\* Several packets put at the end of a queue add what they carry.
THEOREM SumConcat ==
    ASSUME NEW s \in Seq(Nat), NEW t \in Seq(Nat)
    PROVE  SumFunction(s \o t) = SumFunction(s) + SumFunction(t)
  <1> DEFINE n == Len(s)
             m == Len(t)
             u == s \o t
             r == Part(u, n + 1 .. n + m)
             b == [i \in 1 .. m |-> n + i]
  <1>1. n \in Nat /\ m \in Nat /\ u \in [1 .. n + m -> Nat]
    <2>1. n \in Nat /\ m \in Nat /\ u \in Seq(Nat) /\ Len(u) = n + m
      OBVIOUS
    <2> HIDE DEF n, m, u
    <2>2. u \in [1 .. Len(u) -> Nat]
      BY <2>1, SeqIsFunction
    <2> QED
      BY <2>1, <2>2
  <1>2. 1 .. n + m = (1 .. n) \cup (n + 1 .. n + m)
        /\ (1 .. n) \cap (n + 1 .. n + m) = {}
    BY <1>1
  <1>3. IsFiniteSet(1 .. n) /\ IsFiniteSet(n + 1 .. n + m) /\ IsFiniteSet(1 .. m)
    BY <1>1, FS_Interval
  <1>4. Part(u, 1 .. n) = s
    <2>1. Part(u, 1 .. n) = [i \in 1 .. n |-> s[i]]
      BY DEF Part
    <2>2. s = [i \in 1 .. n |-> s[i]]
      OBVIOUS
    <2> QED
      BY <2>1, <2>2
  <1>5. t = Renamed(r, b, 1 .. m)
    <2>1. \A i \in 1 .. m : n + i \in n + 1 .. n + m /\ u[n + i] = t[i]
      OBVIOUS
    <2>2. \A i \in 1 .. m : r[b[i]] = t[i]
      BY <2>1 DEF Part
    <2>3. t = [i \in 1 .. m |-> t[i]]
      OBVIOUS
    <2> HIDE DEF r, b, m
    <2> QED
      BY <2>2, <2>3 DEF Renamed
  <1> HIDE DEF n, m, u
  <1>6. SumFunction(u) = SumFunction(Part(u, 1 .. n)) + SumFunction(r)
    BY <1>1, <1>2, <1>3, SumUnion
  <1>7. r \in [n + 1 .. n + m -> Nat]
    BY <1>1, <1>2 DEF Part
  <1>8. NamesOnce(b, 1 .. m, n + 1 .. n + m)
    <2>1. \A x \in n + 1 .. n + m : x - n \in 1 .. m /\ b[x - n] = x
      BY <1>1
    <2>2. b \in [1 .. m -> n + 1 .. n + m]
      BY <1>1
    <2>3. \A y, z \in 1 .. m : b[y] = b[z] => y = z
      BY <1>1
    <2> QED
      BY <2>1, <2>2, <2>3 DEF NamesOnce
  <1> DEFINE T == 1 .. m
             S == n + 1 .. n + m
  <1> HIDE DEF r, b
  <1>9. SumFunction(Renamed(r, b, T)) = SumFunction(r)
    <2>1. r \in [S -> Nat] /\ IsFiniteSet(S) /\ IsFiniteSet(T) /\ NamesOnce(b, T, S)
      BY <1>3, <1>7, <1>8
    <2> HIDE DEF S, T
    <2> QED
      BY <2>1, SumRename
  <1> QED
    BY <1>4, <1>5, <1>6, <1>9 DEF u

\* c[i] is c[0] and the sum of the first i.
Counting(c, s) ==
    /\ c \in [0 .. Len(s) -> Nat]
    /\ \A i \in 1 .. Len(s) : c[i] = c[i - 1] + s[i]

\* The sum of a sequence is what a count that goes along with it has grown by.
THEOREM CountedSum ==
    ASSUME NEW s \in Seq(Nat), NEW c, Counting(c, s)
    PROVE  c[0] + SumFunction(s) = c[Len(s)]
  <1> DEFINE n == Len(s)
             Start(k) == [i \in 1 .. k |-> s[i]]
             Bad == {k \in 0 .. n : c[0] + SumFunction(Start(k)) # c[k]}
  <1>1. n \in Nat /\ Start(n) = s
    OBVIOUS
  <1>2. \A k \in 0 .. n : Start(k) \in Seq(Nat)
    OBVIOUS
  <1> SUFFICES ASSUME Bad # {} PROVE FALSE
    <2>1. n \in 0 .. n
      BY <1>1
    <2> QED
      BY <1>1, <2>1
  <1>3. PICK k \in Bad : \A m \in Bad : k <= m
    <2>1. Bad \subseteq Nat
      BY <1>1
    <2> HIDE DEF Bad
    <2> QED
      BY <2>1, SmallestNumber
  <1>4. k \in 1 .. n
    <2>1. Start(0) = << >>
      OBVIOUS
    <2>2. SumFunction(Start(0)) = 0
      BY <2>1, SumOfNone
    <2>3. c[0] \in Nat
      BY <1>1 DEF Counting
    <2>4. k # 0
      BY <2>2, <2>3
    <2> QED
      BY <1>1, <2>4
  <1>5. c[0] + SumFunction(Start(k - 1)) = c[k - 1]
    <2>1. k - 1 \in 0 .. n
      BY <1>1, <1>4
    <2>2. k - 1 \notin Bad
      <3>1. k \in Nat /\ ~ (k <= k - 1)
        BY <1>4
      <3> HIDE DEF Bad
      <3> QED
        BY <1>3, <3>1
    <2> HIDE DEF Start
    <2> QED
      BY <2>1, <2>2
  <1>6. Start(k) = Append(Start(k - 1), s[k])
    BY <1>1, <1>4
  <1> DEFINE t == Start(k - 1)
             e == s[k]
  <1>7. t \in Seq(Nat) /\ e \in Nat
    <2>1. k - 1 \in 0 .. n
      BY <1>1, <1>4
    <2> HIDE DEF Start
    <2>2. t \in Seq(Nat)
      BY <1>2, <2>1
    <2> QED
      BY <1>1, <1>4, <2>2
  <1>8. SumFunction(Append(t, e)) = SumFunction(t) + e /\ SumFunction(t) \in Nat
    <2> HIDE DEF t, e
    <2> QED
      BY <1>7, SumAppend, SeqSumType
  <1>9. c[k] = c[k - 1] + e
    BY <1>4 DEF Counting
  <1>10. c[0] \in Nat
    BY <1>1 DEF Counting
  <1> DEFINE x == c[0]
             y == SumFunction(t)
  <1>11. x + y = c[k - 1] /\ c[k] = c[k - 1] + e /\ x + SumFunction(Start(k)) # c[k]
         /\ SumFunction(Start(k)) = y + e
    BY <1>5, <1>6, <1>8, <1>9
  <1>12. x \in Nat /\ y \in Nat /\ e \in Nat
    BY <1>7, <1>8, <1>10
  <1> HIDE DEF x, y, e, Bad, Start
  <1> QED
    BY <1>11, <1>12

\* c[i] is the sum of the first i.
Running(c, s) == Counting(c, s) /\ c[0] = 0

\* The last of the running sums of a sequence is its sum.
THEOREM RunningSum ==
    ASSUME NEW s \in Seq(Nat), NEW c, Running(c, s)
    PROVE  SumFunction(s) = c[Len(s)]
  <1>1. c[0] + SumFunction(s) = c[Len(s)] /\ c[0] = 0
    BY CountedSum DEF Running
  <1>2. SumFunction(s) \in Nat
    BY SeqSumType
  <1> QED
    BY <1>1, <1>2
=============================================================================
