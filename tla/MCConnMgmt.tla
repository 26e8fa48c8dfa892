----------------------------- MODULE MCConnMgmt -----------------------------
(***************************************************************************)
(* Values of ConnMgmt's constants for TLC.                                  *)
(***************************************************************************)
EXTENDS ConnMgmt

TwoRanks == {0, 1}

\* Both sides of one connection start sends.
BothSend == [pq \in TwoRanks \X TwoRanks |-> IF pq[1] # pq[2] THEN 2 ELSE 0]
=============================================================================
