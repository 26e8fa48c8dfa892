--------------------------- MODULE MCFlowControl ---------------------------
(* Model values for FlowControl.                                            *)
EXTENDS FlowControl

\* Sends each process starts: process 0 is the busier one.
TwoAndOne == [p \in Proc |-> IF p = 0 THEN 2 ELSE 1]
OneEach == [p \in Proc |-> 1]

=============================================================================
