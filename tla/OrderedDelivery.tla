-------------------------- MODULE OrderedDelivery --------------------------
(***************************************************************************)
(* What a device owes the MPI layer above it: every send to a process is    *)
(* handed to that process once, and the sends from one process to another   *)
(* arrive in the order they were started (the non-overtaking rule of MPI).  *)
(* The sends of a pair of processes are numbered from 1.                    *)
(***************************************************************************)
EXTENDS Naturals, Sequences

CONSTANTS
    Node,     \* the processes
    MaxSends  \* bound: MaxSends[p, q] sends from p to q

VARIABLES
    submitted,  \* sends started, per ordered pair
    received    \* sends handed over at the other side, oldest first

odVars == <<submitted, received>>

ODInit ==
    /\ submitted = [pq \in Node \X Node |-> 0]
    /\ received = [pq \in Node \X Node |-> << >>]

Submit(p, q) ==
    /\ submitted[<<p, q>>] < MaxSends[<<p, q>>]
    /\ submitted' = [submitted EXCEPT ![<<p, q>>] = @ + 1]
    /\ UNCHANGED received

Deliver(p, q) ==
    /\ Len(received[<<p, q>>]) < submitted[<<p, q>>]
    /\ received' = [received EXCEPT ![<<p, q>>] = Append(@, Len(@) + 1)]
    /\ UNCHANGED submitted

ODNext == \E p, q \in Node : Submit(p, q) \/ Deliver(p, q)

ODSafety == ODInit /\ [][ODNext]_odVars
ODFairness == \A p \in Node : \A q \in Node \ {p} : WF_odVars(Deliver(p, q))
ODSpec == ODSafety /\ ODFairness
=============================================================================
