------------------------------ MODULE MCPcapNG ------------------------------
(* PcapNG for TLC: the faults that each configuration admits.  The liveness  *)
(* runs leave out "close": nobody closes the probe while PcapNG runs.        *)
EXTENDS PcapNG

AnyFault     == AllFaults
FaultsOnly   == AllFaults \ {"close"}
CancelOnly   == {"cancel"}
CaptureFails == {"cancel", "capture"}
=============================================================================
