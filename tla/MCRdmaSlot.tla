----------------------------- MODULE MCRdmaSlot -----------------------------
(* Values of RdmaSlot's constants for TLC: every flag may occur as data.     *)
EXTENDS RdmaSlot

Flags == {0} \cup Sizes \cup {len + AltTag : len \in Sizes}
=============================================================================
