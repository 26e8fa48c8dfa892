----------------------------- MODULE MCFastPath -----------------------------
(* Values of FastPath's constants for TLC.                                   *)
EXTENDS FastPath

Sends(n0, n1) ==
    [pq \in Proc \X Proc |->
        CASE pq = <<0, 1>> -> n0 [] pq = <<1, 0>> -> n1 [] OTHER -> 0]

\* Process 0 goes once around a ring of three; process 1 sends what it takes
\* to repeat a header that carries credits.
FiveAndThree == Sends(5, 3)

\* The first send of either side uses the queue whatever its size, as there is
\* no ring yet.  Between two short ones comes one that is not.
OneOfEach ==
    [pn \in Proc \X (1 .. 5) |->
        CASE pn[2] = 1 -> {"queue"}
          [] pn = <<0, 3>> -> {"ring"}
          [] OTHER -> {"short"}]
=============================================================================
