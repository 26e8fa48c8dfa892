----------------------------- MODULE MCRecovery -----------------------------
(***************************************************************************)
(* Values of Recovery's constants for TLC.                                  *)
(***************************************************************************)
EXTENDS Recovery

\* Eager traffic both ways; rendezvous one way, which its finishes cross.
BothEager == <<<<"eager", "eager">>, <<"eager">>>>
TwoRendezvous == <<<<"rget", "rget">>, << >>>>
Traffic == {
    BothEager, TwoRendezvous,
    << << >>, <<"rget", "eager">>>> }
TrafficFaults == [s \in Scripts |-> IF s = BothEager THEN 2 ELSE 1]

\* Rendezvous one way and eager messages the other way.
Crossing == { <<<<"rget">>, <<"eager", "eager">>>> }
OneEager == { <<<<"eager">>, << >>>> }
OneFault == [s \in Scripts |-> 1]
TwoFaults == [s \in Scripts |-> 2]
=============================================================================
