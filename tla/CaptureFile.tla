---------------------------- MODULE CaptureFile ----------------------------
(***************************************************************************)
(* What a pcapng capture promises of its file (src/internal/capture): the  *)
(* packets and the secrets are each written in the order they were         *)
(* received, none twice and none skipped, nothing is written once the      *)
(* capture has returned, and until it is being stopped everything received *)
(* is eventually written.                                                  *)
(***************************************************************************)
EXTENDS Naturals, Sequences, FiniteSets

CONSTANTS MaxPackets, MaxSecrets   \* bounds on what is received

VARIABLES
  packets,   \* packets received
  secrets,   \* secrets received
  file,      \* the blocks written
  stopping,  \* the capture is being stopped
  closed     \* no block will be written any more

vars == <<packets, secrets, file, stopping, closed>>

Block(kind, id) == [kind |-> kind, id |-> id, bytes |-> id]
Written(kind)   == Cardinality({i \in DOMAIN file : file[i].kind = kind})

Init == packets = 0 /\ secrets = 0 /\ file = <<>> /\ stopping = FALSE /\ closed = FALSE

ReceivePacket == /\ packets < MaxPackets
                 /\ packets' = packets + 1
                 /\ UNCHANGED <<secrets, file, stopping, closed>>

ReceiveSecret == /\ secrets < MaxSecrets
                 /\ secrets' = secrets + 1
                 /\ UNCHANGED <<packets, file, stopping, closed>>

Write(kind, received) ==
  /\ ~closed /\ Written(kind) < received
  /\ file' = Append(file, Block(kind, Written(kind) + 1))
  /\ UNCHANGED <<packets, secrets, stopping, closed>>

WritePacket == Write("pkt", packets)
WriteSecret == Write("key", secrets)

Stop  == stopping' = TRUE /\ UNCHANGED <<packets, secrets, file, closed>>
Close == closed' = TRUE /\ UNCHANGED <<packets, secrets, file, stopping>>

Next == ReceivePacket \/ ReceiveSecret \/ WritePacket \/ WriteSecret \/ Stop \/ Close

Fairness == /\ WF_vars(~stopping /\ WritePacket)
            /\ WF_vars(~stopping /\ WriteSecret)

Spec == Init /\ [][Next]_vars /\ Fairness
=============================================================================
