---------------------------- MODULE PcapNGTimed ----------------------------
(***************************************************************************)
(* PcapNG with the timing its delay is for (src/internal/capture):         *)
(* a TLS secret is hooked before the packets it decrypts are received, but *)
(* its event takes up to Latency ticks to reach p.Events, and packets are  *)
(* held for Delay ticks so that the secret is written first.  Time passes  *)
(* only while every goroutine waits: the goroutines are fast against a     *)
(* tick.                                                                   *)
(***************************************************************************)
EXTENDS PcapNG

CONSTANT Latency   \* most ticks a hook hit takes to reach p.Events

ASSUME LatencyAssumption == Latency \in Nat /\ Latency < Delay

VARIABLES
  hooked,   \* hook hits so far
  age,      \* age[s]: ticks since secret s was hooked, while it is on its way
  needs,    \* needs[p]: secrets hooked when packet p was received
  forced    \* packets released before their deadline

histVars == <<hooked, age, needs, forced>>
timedVars == <<vars, histVars>>

Secrets == 1 .. MaxSecrets

TimedInit ==
  /\ Init
  /\ hooked = 0 /\ age = [s \in Secrets |-> 0]
  /\ needs = [p \in Packets |-> 0] /\ forced = {}

OnTheirWay == {s \in Secrets : taken < s /\ s <= hooked}

(* The probe: SSL_log_secret is called, and later its event is received.    *)
HookHit ==
  /\ hooked < MaxSecrets /\ kpc # "done"
  /\ hooked' = hooked + 1
  /\ UNCHANGED <<vars, age, needs, forced>>

EventArrives == KeylogRecv /\ taken < hooked /\ UNCHANGED histVars

PacketArrives ==
  /\ ReadPacket
  /\ needs' = [needs EXCEPT ![seen'] = hooked]
  /\ UNCHANGED <<hooked, age, forced>>

(* sendDue: an entry is popped because it is due, or to make room. *)
PopTimed ==
  /\ Pop
  /\ forced' = IF due > 0 THEN forced ELSE forced \cup {entries[head].id}
  /\ UNCHANGED <<hooked, age, needs>>

(* Every goroutine waits: nothing is left to receive, copy, flush or write. *)
Quiet ==
  /\ kpc \in {"read", "done"} /\ cancelStop \in {"waiting", "done"}
  /\ rpc = "done" \/ (rpc = "read" /\ ~stopClosed)
  /\ dpc = "done" \/ (dpc = "select" /\ pktCh = <<>> /\ ~pktClosed
                        /\ ~(armed /\ entries[head].left = 0))
  /\ wpc \in {"select", "returned"}

(* The clock reads the same for everything that waits for it. *)
TickTimed ==
  /\ Quiet
  /\ \A s \in OnTheirWay : kpc = "done" \/ age[s] < Latency
  /\ age' = [s \in Secrets |-> IF s \in OnTheirWay /\ kpc # "done" THEN age[s] + 1 ELSE age[s]]
  /\ Tick \/ (age' # age /\ UNCHANGED vars)
  /\ UNCHANGED <<hooked, needs, forced>>

Others ==
  /\ \/ Cancel \/ CancelStop \/ ProbeEnds \/ KeylogEnds \/ KeylogShutdown
     \/ KeylogCheckErr \/ KeylogStopClose \/ Reader \/ TakePacket \/ PacketsClosed
     \/ TimerFires \/ SelectShutdown \/ OfferShutdown \/ FlushEnds \/ Writer \/ Terminated
  /\ UNCHANGED histVars

TimedNext == \/ HookHit \/ EventArrives \/ PacketArrives \/ PopTimed \/ TickTimed
             \/ Others

TimedSpec == TimedInit /\ [][TimedNext]_timedVars

-----------------------------------------------------------------------------
TimedTypeOK ==
  /\ TypeOK
  /\ hooked \in taken .. MaxSecrets /\ age \in [Secrets -> 0 .. Latency]
  /\ needs \in [Packets -> 0 .. MaxSecrets] /\ forced \subseteq Packets

(* A packet whose deadline was kept follows in the file every secret whose   *)
(* hook was hit before the packet was received (why opt.Delay exists).       *)
SecretsFirst ==
  \A i \in DOMAIN file : (file[i].kind = "pkt" /\ file[i].id \notin forced) =>
    \A s \in 1 .. needs[file[i].id] : \E j \in 1 .. i - 1 : file[j] = KeyBlock(s)

(* No packet stays in the ring past its deadline: the timer is set for the   *)
(* oldest one whenever the delay goroutine waits.                            *)
NoneOverdue ==
  (dpc = "select" /\ Quiet) => \A i \in Buffered : entries[i].left > 0
=============================================================================
