--------------------------- MODULE RdmaSlotProofs ---------------------------
(***************************************************************************)
(* A message in a buffer of the fast path is taken only when it is there to *)
(* its last word: for buffers of every size, messages of every length that  *)
(* SizesFit allows, whatever the data, and data that look like flags.       *)
(*                                                                         *)
(* The reason is that the sender's copy stands for the receiver's: the two  *)
(* are equal wherever a tail may come, so the tail differs from what the    *)
(* receiver has in its place.                                               *)
(***************************************************************************)
EXTENDS RdmaSlot, TLAPS

\* What the HCA has placed is copied, and so is what lies behind the message,
\* except for the rank of a short header.
IsCopied(w) ==
    \/ w <= write.len /\ w < write.placed - 1
    \/ w > write.len /\ w # RankWord

Copied == \A w \in Word : IsCopied(w) => rbuf[w] = sbuf[w]

\* Where the write ends the receiver does not have the flag yet.
TailFresh ==
    /\ sbuf[write.len] = write.flag
    /\ Unplaced => rbuf[write.len] # write.flag

\* Between post and poll the head, once placed, is the flag of the message.
HeadIsFlag ==
    ~credit /\ reader = "polling" =>
        /\ write.len \in Sizes
        /\ write.flag \in {write.len, write.len + AltTag}
        /\ head = IF write.placed = 0 THEN 0 ELSE write.flag

\* Outside of that nothing is under way.
Quiet ==
    /\ credit \/ reader = "holding" => ~Unplaced /\ head = 0
    /\ reader = "holding" => ~credit

IInv == TypeOK /\ Copied /\ TailFresh /\ HeadIsFlag /\ Quiet

-----------------------------------------------------------------------------
LEMMA MaskKeepsLength ==
    ASSUME NEW len \in Nat, NEW T \in Nat \ {0}, len < T
    PROVE  len % T = len
  BY SMT

LEMMA MaskTakesTagOff ==
    ASSUME NEW len \in Nat, NEW T \in Nat \ {0}, len < T
    PROVE  (len + T) % T = len
  BY SMT

LEMMA NextId ==
    ASSUME NEW id \in Nat
    PROVE  (id + 1) % Ids \in 0 .. Ids - 1
  BY SlotAssumption, SMT

\* SizeOf finds the tail of the message that the head announces.
LEMMA SizeOfFlag ==
    ASSUME SizesFit, NEW len \in Sizes, NEW flag \in {len, len + AltTag}
    PROVE  SizeOf(flag) = len
  <1>1. len \in Nat /\ len < AltTag /\ AltTag \in Nat \ {0}
    BY SlotAssumption DEF SizesFit, Word
  <1>2. len % AltTag = len
    BY <1>1, MaskKeepsLength
  <1>3. (len + AltTag) % AltTag = len
    BY <1>1, MaskTakesTagOff
  <1> QED BY <1>2, <1>3 DEF SizeOf

\* Header and data leave the words behind them as they were.
LEMMA FilledWords ==
    ASSUME NEW buf \in [Word -> Nat], NEW len \in Sizes,
           NEW data \in [1 .. len - 1 -> Values]
    PROVE  /\ tosend \in Nat => Filled(buf, len, data) \in [Word -> Nat]
           /\ \A w \in Word : w >= len /\ w # RankWord =>
                  Filled(buf, len, data)[w] = buf[w]
  <1>1. \A w \in Word : w # 0 /\ w < len => w \in 1 .. len - 1
    BY SlotAssumption DEF Word
  <1>2. \A w \in Word : w # 0 /\ w < len => data[w] \in Nat
    BY <1>1, SlotAssumption
  <1>3. \A w \in Word : w >= len <=> ~(w < len)
    BY SlotAssumption DEF Word
  <1>4. \A w \in Word : w >= len => w # 0
    BY SlotAssumption DEF Word
  <1> QED BY <1>2, <1>3, <1>4, SlotAssumption DEF Filled

\* Once the HCA is done, the copies are equal, except for a left-over rank.
LEMMA PlacedIsCopied ==
    ASSUME TypeOK, Copied, ~Unplaced
    PROVE  \A w \in Word :
               w <= write.len \/ w # RankWord => rbuf[w] = sbuf[w]
  <1>1. write.len \in Word /\ write.placed \in Nat
    BY DEF TypeOK
  <1>2. write.len \in Nat /\ ~(write.placed < write.len + 2)
    BY <1>1, SlotAssumption DEF Word, Unplaced, Steps
  <1> SUFFICES ASSUME NEW w \in Word, w <= write.len \/ w # RankWord
               PROVE  IsCopied(w)
    BY DEF Copied
  <1>3. w \in Nat
    BY SlotAssumption DEF Word
  <1> QED BY <1>1, <1>2, <1>3 DEF IsCopied

-----------------------------------------------------------------------------
LEMMA InitIInv == Init => IInv
  BY SlotAssumption
     DEF Init, IInv, TypeOK, Copied, IsCopied, TailFresh, HeadIsFlag, Quiet,
         Unplaced, Steps, Word

LEMMA PostStep ==
    ASSUME SizesFit, IInv, NEW len \in Sizes,
           NEW data \in [1 .. len - 1 -> Values], Post(len, data)
    PROVE  IInv'
  <1> DEFINE buf == Filled(sbuf, len, data)
  <1> DEFINE flag == Flag(buf, len)
  <1>1. /\ len \in Word /\ len \in Nat /\ len # 0 /\ len # RankWord
        /\ AltTag \in Nat \ {0}
    BY SlotAssumption DEF SizesFit, Word
  <1>2. /\ buf \in [Word -> Nat]
        /\ \A w \in Word : w >= len /\ w # RankWord => buf[w] = sbuf[w]
    BY FilledWords DEF IInv, TypeOK
  <1>3. tosend' = (tosend + 1) % Ids /\ expected' = expected
    BY DEF Post
  <1>4. tosend' \in 0 .. Ids - 1
    BY <1>3, NextId DEF IInv, TypeOK
  <1>5. /\ credit
        /\ sbuf' = [buf EXCEPT ![len] = flag]
        /\ padding' = "busy" /\ credit' = FALSE
        /\ write' = [len |-> len, flag |-> flag, placed |-> 0]
        /\ rbuf' = rbuf /\ head' = head /\ reader' = reader
    BY DEF Post
  <1> HIDE DEF buf
  <1>6. /\ flag \in {len, len + AltTag}
        /\ flag # buf[len]
        /\ flag \in Nat
    BY <1>1, <1>2 DEF Flag
  <1> HIDE DEF flag
  <1>7. /\ ~Unplaced /\ head = 0 /\ reader = "polling"
    BY <1>5 DEF IInv, Quiet, TypeOK
  <1>8. \A w \in Word : w # RankWord => rbuf[w] = sbuf[w]
    BY <1>7, PlacedIsCopied DEF IInv
  <1>9. TypeOK'
    <2>1. sbuf' \in [Word -> Nat]
      BY <1>1, <1>2, <1>5, <1>6
    <2>2. /\ write' \in [len : Word, flag : Nat, placed : Nat]
          /\ write'.placed <= write'.len + 2
      BY <1>1, <1>5, <1>6
    <2> QED BY <2>1, <2>2, <1>5, <1>3, <1>4 DEF IInv, TypeOK, Steps
  <1>10. Copied'
    <2> SUFFICES ASSUME NEW w \in Word,
                        \/ w <= write'.len /\ w < write'.placed - 1
                        \/ w > write'.len /\ w # RankWord
                 PROVE  rbuf'[w] = sbuf'[w]
      BY DEF Copied, IsCopied
    <2>1. w > len /\ w # RankWord
      BY <1>1, <1>5 DEF Word
    <2>2. sbuf'[w] = sbuf[w]
      BY <2>1, <1>1, <1>2, <1>5 DEF Word
    <2> QED BY <2>1, <2>2, <1>5, <1>8
  <1>11. TailFresh'
    BY <1>1, <1>2, <1>5, <1>6, <1>8 DEF TailFresh
  <1>12. HeadIsFlag'
    BY <1>5, <1>6, <1>7 DEF HeadIsFlag
  <1>13. Quiet'
    BY <1>5, <1>7 DEF Quiet
  <1> QED BY <1>9, <1>10, <1>11, <1>12, <1>13 DEF IInv

LEMMA PlaceStep ==
    ASSUME IInv, Place
    PROVE  IInv'
  <1>1. /\ write.len \in Nat /\ write.len \in Word /\ write.placed \in Nat
        /\ write.flag \in Nat
        /\ write.placed < write.len + 2
    BY DEF IInv, TypeOK, Place, Unplaced, Steps, Word
  <1>2. /\ write'.len = write.len /\ write'.flag = write.flag
        /\ write'.placed = write.placed + 1
        /\ write' \in [len : Word, flag : Nat, placed : Nat]
        /\ sbuf' = sbuf /\ padding' = padding /\ credit' = credit
        /\ reader' = reader /\ tosend' = tosend /\ expected' = expected
    BY <1>1 DEF IInv, TypeOK, Place
  <1>3. ~credit /\ reader = "polling"
    BY DEF IInv, TypeOK, Quiet, Place
  <1>4. CASE write.placed = 0
    <2>1. head' = write.flag /\ rbuf' = rbuf
      BY <1>4 DEF Place
    <2>2. TypeOK'
      BY <1>1, <1>2, <2>1 DEF IInv, TypeOK, Steps
    <2>3. Copied'
      BY <1>1, <1>2, <1>4, <2>1 DEF IInv, Copied, IsCopied, Word
    <2>4. TailFresh'
      BY <1>1, <1>2, <1>4, <2>1 DEF IInv, TailFresh, Unplaced, Steps
    <2>5. HeadIsFlag'
      BY <1>1, <1>2, <1>3, <1>4, <2>1 DEF IInv, HeadIsFlag
    <2>6. Quiet'
      BY <1>2, <1>3 DEF Quiet
    <2> QED BY <2>2, <2>3, <2>4, <2>5, <2>6 DEF IInv
  <1>5. CASE write.placed # 0
    <2> DEFINE w0 == write.placed - 1
    <2>1. /\ w0 \in Word /\ w0 \in Nat /\ w0 <= write.len
      BY <1>1, <1>5, SlotAssumption DEF Word
    <2>2. /\ rbuf' = [rbuf EXCEPT ![w0] = sbuf[w0]] /\ head' = head
      BY <1>5 DEF Place
    <2>3. /\ rbuf'[w0] = sbuf[w0]
          /\ \A w \in Word : w # w0 => rbuf'[w] = rbuf[w]
          /\ rbuf' \in [Word -> Nat]
      BY <2>1, <2>2 DEF IInv, TypeOK
    <2>4. TypeOK'
      BY <1>1, <1>2, <2>2, <2>3 DEF IInv, TypeOK, Steps
    <2>5. Copied'
      <3> SUFFICES ASSUME NEW w \in Word,
                          \/ w <= write.len /\ w < write.placed
                          \/ w > write.len /\ w # RankWord
                   PROVE  rbuf'[w] = sbuf[w]
        BY <1>1, <1>2 DEF Copied, IsCopied
      <3>1. CASE w = w0
        BY <3>1, <2>3
      <3>2. CASE w # w0
        <4>1. \/ w <= write.len /\ w < write.placed - 1
              \/ w > write.len /\ w # RankWord
          BY <1>1, <2>1, <3>2 DEF Word
        <4>2. rbuf[w] = sbuf[w]
          BY <4>1 DEF IInv, Copied, IsCopied
        <4> QED BY <3>2, <4>2, <2>3
      <3> QED BY <3>1, <3>2
    <2>6. TailFresh'
      <3>1. write.placed + 1 < write.len + 2 => write.len # w0
        BY <1>1
      <3> QED BY <1>1, <1>2, <2>3, <3>1
              DEF IInv, TailFresh, Unplaced, Steps, Place
    <2>7. HeadIsFlag'
      BY <1>1, <1>2, <1>3, <1>5, <2>2 DEF IInv, HeadIsFlag
    <2>8. Quiet'
      BY <1>2, <1>3 DEF Quiet
    <2> QED BY <2>4, <2>5, <2>6, <2>7, <2>8 DEF IInv
  <1> QED BY <1>4, <1>5

\* A message the receiver finds has been placed: head and tail are the same
\* only after the tail has come.
LEMMA PollFindsAll ==
    ASSUME SizesFit, IInv, Poll
    PROVE  ~credit /\ ~Unplaced
  <1>1. reader = "polling" /\ head # 0 /\ rbuf[SizeOf(head)] = head
    BY DEF Poll
  <1>2. ~credit
    BY <1>1 DEF IInv, Quiet
  <1>3. /\ write.len \in Sizes
        /\ write.flag \in {write.len, write.len + AltTag}
        /\ head = write.flag
    BY <1>1, <1>2 DEF IInv, HeadIsFlag
  <1>4. SizeOf(head) = write.len
    BY <1>3, SizeOfFlag
  <1> QED BY <1>1, <1>2, <1>3, <1>4 DEF IInv, TailFresh

LEMMA PollStep ==
    ASSUME SizesFit, IInv, Poll
    PROVE  IInv'
  <1>1. ~credit /\ ~Unplaced
    BY PollFindsAll
  <1>2. /\ head' = 0 /\ reader' = "holding"
        /\ UNCHANGED <<tosend, sbuf, padding, credit, write, rbuf>>
        /\ expected' = (expected + 1) % Ids
    BY DEF Poll
  <1>3. expected' \in 0 .. Ids - 1
    BY <1>2, NextId DEF IInv, TypeOK
  <1>4. Unplaced' = Unplaced
    BY <1>2 DEF Unplaced, Steps
  <1>5. TypeOK'
    BY <1>2, <1>3 DEF IInv, TypeOK, Steps
  <1> QED BY <1>1, <1>2, <1>4, <1>5
          DEF IInv, Copied, IsCopied, TailFresh, HeadIsFlag, Quiet

LEMMA OtherSteps ==
    ASSUME IInv, ProcessSend \/ Release \/ UNCHANGED vars
    PROVE  IInv'
  <1>1. CASE ProcessSend
    BY <1>1 DEF IInv, TypeOK, Copied, IsCopied, TailFresh, HeadIsFlag, Quiet,
                Unplaced, Steps, ProcessSend
  <1>2. CASE Release
    BY <1>2 DEF IInv, TypeOK, Copied, IsCopied, TailFresh, HeadIsFlag, Quiet,
                Unplaced, Steps, Release
  <1>3. CASE UNCHANGED vars
    BY <1>3 DEF IInv, TypeOK, Copied, IsCopied, TailFresh, HeadIsFlag, Quiet,
                Unplaced, Steps, vars
  <1> QED BY <1>1, <1>2, <1>3

LEMMA InvariantIsTakenWhole == IInv => TakenWhole
  <1> SUFFICES ASSUME IInv, reader = "holding"
               PROVE  /\ ~credit /\ ~Unplaced
                      /\ \A w \in 0 .. write.len : rbuf[w] = sbuf[w]
    BY DEF TakenWhole
  <1>1. ~credit /\ ~Unplaced
    BY DEF IInv, Quiet
  <1>2. \A w \in Word : w <= write.len => rbuf[w] = sbuf[w]
    BY <1>1, PlacedIsCopied DEF IInv
  <1>3. write.len \in Word
    BY DEF IInv, TypeOK
  <1>4. \A w \in 0 .. write.len : w \in Word /\ w <= write.len
    BY <1>3, SlotAssumption DEF Word
  <1> QED BY <1>1, <1>2, <1>4

\* With lengths that fit, a message of the fast path is taken only when the
\* tail has come, complete and once (viacheck.c:226).
THEOREM TakenWholeTheorem ==
    ASSUME SizesFit
    PROVE  Spec => []TakenWhole
  <1>1. Init => IInv
    BY InitIInv
  <1>2. IInv /\ [Next]_vars => IInv'
    <2> SUFFICES ASSUME IInv, [Next]_vars
                 PROVE  IInv'
      OBVIOUS
    <2>1. CASE \E len \in Sizes :
                   \E data \in [1 .. len - 1 -> Values] : Post(len, data)
      BY <2>1, PostStep
    <2>2. CASE Place
      BY <2>2, PlaceStep
    <2>3. CASE Poll
      BY <2>3, PollStep
    <2>4. CASE ProcessSend \/ Release \/ UNCHANGED vars
      BY <2>4, OtherSteps
    <2> QED BY <2>1, <2>2, <2>3, <2>4 DEF Next
  <1>3. IInv => TakenWhole
    BY InvariantIsTakenWhole
  <1> QED BY <1>1, <1>2, <1>3, PTL DEF Spec
=============================================================================
