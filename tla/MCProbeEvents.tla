--------------------------- MODULE MCProbeEvents ---------------------------
(* ProbeEvents for TLC: the producers are model values. *)
EXTENDS ProbeEvents
CONSTANTS p1, p2
TwoProducers == {p1, p2}
=============================================================================
