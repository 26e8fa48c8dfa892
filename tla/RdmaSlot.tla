------------------------------ MODULE RdmaSlot ------------------------------
(***************************************************************************)
(* One buffer of the RDMA eager fast path: how a receiver that only looks   *)
(* at memory knows that a message is there, all of it                       *)
(* (post_fast_rdma_with_completion in viapriv.c, poll_rdma_buffer in        *)
(* viacheck.c, PACKET_SET_HEADER_OPT in nfr.h).                             *)
(*                                                                         *)
(* The sender writes a message of `len' words into its copy of the buffer,  *)
(* a flag after the last word (the tail) and the same flag before the first *)
(* one (the head), and the HCA writes all that to the receiver's copy, in   *)
(* the order of the addresses.  The flag is the length, or the length with  *)
(* a tag when the word at the tail's place is the length already.  The      *)
(* sender looks at its own copy for that: it stands for the receiver's.     *)
(*                                                                         *)
(* Word 0 of a message is its type and sequence number.  The packets between *)
(* two that use this buffer are left out, so its numbers are consecutive.   *)
(***************************************************************************)
EXTENDS Integers

CONSTANTS
    Words,     \* number of words of a buffer
    Sizes,     \* lengths of messages, header included
    Values,    \* what a word of a message may be
    Ids,       \* number of sequence numbers
    AltTag,    \* FAST_RDMA_ALT_TAG
    RankWord,  \* the place of src_rank in a packet header
    Me         \* the sender's rank

Word == 0 .. Words - 1

ASSUME SlotAssumption ==
    /\ Words \in Nat \ {0} /\ AltTag \in Nat \ {0} /\ Me \in Nat
    /\ Ids \in Nat \ {0}
    /\ RankWord \in Word
    /\ Sizes \subseteq Word \ {0} /\ Values \subseteq Nat

VARIABLES
    tosend,   \* next_packet_tosend
    expected, \* next_packet_expected
    sbuf,     \* the words of the sender's copy
    padding,  \* BUSY from the post to the local completion
    credit,   \* the sender may use the buffer
    write,    \* the RDMA write: length, flag, and how far the HCA has come
    rbuf,     \* the words of the receiver's copy
    head,     \* the receiver's head flag
    reader    \* the receiver polls the buffer, or holds the message in it

vars == <<tosend, expected, sbuf, padding, credit, write, rbuf, head, reader>>

\* The HCA places the head, len words and the tail.
Steps(len) == len + 2

Init ==
    /\ tosend = 0 /\ expected = 0
    /\ sbuf = [w \in Word |-> 0] /\ rbuf = [w \in Word |-> 0]
    /\ padding = "free" /\ credit = TRUE
    /\ write = [len |-> 0, flag |-> 0, placed |-> Steps(0)]
    /\ head = 0 /\ reader = "polling"

\* Fault: there is one flag for a length.
Flag_NoTag(buf, len) == len

Flag(buf, len) == IF buf[len] = len THEN len + AltTag ELSE len

\* Header and data go into the buffer.  PACKET_SET_HEADER_OPT writes the rank
\* into its place in a full header, also when the header is a short one and
\* the data that follow it do not reach that far.
Filled(buf, len, data) ==
    [w \in Word |-> IF w = 0 THEN tosend
                    ELSE IF w < len THEN data[w]
                    ELSE IF w = RankWord THEN Me ELSE buf[w]]

\* post_fast_rdma_with_completion, with what its callers put into the buffer.
Post(len, data) ==
    LET buf == Filled(sbuf, len, data)
        flag == Flag(buf, len)
    IN  /\ credit /\ padding = "free"
        /\ sbuf' = [buf EXCEPT ![len] = flag]
        /\ padding' = "busy" /\ credit' = FALSE
        /\ write' = [len |-> len, flag |-> flag, placed |-> 0]
        /\ tosend' = (tosend + 1) % Ids
        /\ UNCHANGED <<expected, rbuf, head, reader>>

Unplaced == write.placed < Steps(write.len)

\* The HCA places the next word.
Place ==
    /\ Unplaced
    /\ IF write.placed = 0
       THEN head' = write.flag /\ UNCHANGED rbuf
       ELSE /\ rbuf' = [rbuf EXCEPT ![write.placed - 1] = sbuf[write.placed - 1]]
            /\ UNCHANGED head
    /\ write' = [write EXCEPT !.placed = @ + 1]
    /\ UNCHANGED <<tosend, expected, sbuf, padding, credit, reader>>

\* viadev_process_send: the write has completed.
ProcessSend ==
    /\ padding = "busy" /\ ~Unplaced
    /\ padding' = "free"
    /\ UNCHANGED <<tosend, expected, sbuf, credit, write, rbuf, head, reader>>

\* Fault: the tag is not taken off.
SizeOf_Unmasked(flag) == flag

\* *head & FAST_RDMA_SIZE_MASK
SizeOf(flag) == flag % AltTag

\* poll_rdma_buffer finds a message: head and tail are the same, and the
\* number is the next one.
Poll ==
    /\ reader = "polling" /\ head # 0
    /\ rbuf[SizeOf(head)] = head /\ rbuf[0] = expected
    /\ expected' = (expected + 1) % Ids
    /\ head' = 0 /\ reader' = "holding"
    /\ UNCHANGED <<tosend, sbuf, padding, credit, write, rbuf>>

\* release_recv_rdma; a packet to the sender carries the credit.
Release ==
    /\ reader = "holding"
    /\ reader' = "polling" /\ credit' = TRUE
    /\ UNCHANGED <<tosend, expected, sbuf, padding, write, rbuf, head>>

Next ==
    \/ \E len \in Sizes : \E data \in [1 .. len - 1 -> Values] : Post(len, data)
    \/ Place \/ ProcessSend \/ Poll \/ Release

Spec == Init /\ [][Next]_vars

\* The HCA goes on, and both processes keep polling and receiving.
Fairness ==
    WF_vars(Place) /\ WF_vars(ProcessSend) /\ WF_vars(Poll) /\ WF_vars(Release)

FairSpec == Spec /\ Fairness

-----------------------------------------------------------------------------
\* No message is so long that its length runs into the tag, and none ends just
\* where a short header leaves the rank behind.
SizesFit == \A len \in Sizes : len < AltTag /\ len # RankWord

\* The words, the flags and the progress of the write keep their ranges.
TypeOK ==
    /\ tosend \in 0 .. Ids - 1 /\ expected \in 0 .. Ids - 1
    /\ sbuf \in [Word -> Nat] /\ rbuf \in [Word -> Nat]
    /\ padding \in {"free", "busy"} /\ credit \in BOOLEAN
    /\ write \in [len : Word, flag : Nat, placed : Nat]
    /\ write.placed <= Steps(write.len)
    /\ head \in Nat /\ reader \in {"polling", "holding"}

\* viacheck.c:226, "If tail has not come go ahead and poll other connections":
\* a message that is taken is there to its last word, whatever older messages
\* left in the buffer, and it is taken once.
TakenWhole ==
    reader = "holding" =>
        /\ ~credit /\ ~Unplaced
        /\ \A w \in 0 .. write.len : rbuf[w] = sbuf[w]

\* No message is overlooked: the buffer comes back to the sender again and
\* again.
ComesBack == []<>(credit /\ padding = "free")
=============================================================================
