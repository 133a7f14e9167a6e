------------------------- MODULE PcapNGTimedProofs -------------------------
(***************************************************************************)
(* The delay of PcapNG, for every buffer size, delay and latency: no       *)
(* packet is kept past its deadline, and one whose deadline was kept       *)
(* follows the secrets that were hooked before it was received.            *)
(***************************************************************************)
EXTENDS PcapNGTimed, PcapNGProofs

LEMMA Clock == Latency \in Nat /\ Delay \in Nat /\ Latency < Delay /\ MaxSecrets \in Nat
BY LatencyAssumption, CapacityAssumption, BoundAssumption

-----------------------------------------------------------------------------
(* The delay ring and the time.  These hold of PcapNG with its time as it   *)
(* is in PcapNG.tla, also if it passes while a goroutine runs.              *)

(* The entries are in the order of their deadlines, the timer is set while  *)
(* the delay goroutine waits, and due counts entries that are due.          *)
ArmInv   == dpc = "select" /\ count > 0 => armed
OrderInv == \A i, j \in 0 .. count - 1 : i <= j => RingAt(i).left <= RingAt(j).left
DueInv   == dpc \in {"flush", "offer"} =>
              \A i \in 0 .. count - 1 : i < due => RingAt(i).left = 0
ClockInv == ArmInv /\ OrderInv /\ DueInv

(* In an ordered ring, the entries that are due are the first ones. *)
LEMMA DueIsPrefix ==
  ASSUME NEW es, NEW h, NEW c \in Nat,
         \A i \in 0 .. c - 1 : es[(h + i) % Buffer].left \in Nat,
         \A i, j \in 0 .. c - 1 : i <= j =>
           es[(h + i) % Buffer].left <= es[(h + j) % Buffer].left
  PROVE  \A i \in 0 .. c - 1 : i < DueNow(es, h, c) => es[(h + i) % Buffer].left = 0
<1> DEFINE At0(i) == es[(h + i) % Buffer].left
           D == {i \in 0 .. c - 1 : At0(i) = 0}
<1>1. \A i, j \in 0 .. c - 1 : i <= j => At0(i) <= At0(j)
  OBVIOUS
<1>2. \A i \in 0 .. c - 1 : At0(i) \in Nat
  OBVIOUS
<1>3. DueNow(es, h, c) = Cardinality(D)
  BY DEF DueNow
<1> HIDE DEF At0
<1>4. SUFFICES ASSUME NEW i \in 0 .. c - 1, At0(i) # 0 PROVE Cardinality(D) <= i
  <2>1. Cardinality(D) \in Nat
    <3>1. IsFiniteSet(0 .. c - 1) /\ D \subseteq 0 .. c - 1
      BY FS_Interval
    <3> QED BY <3>1, FS_Subset, FS_CardinalityType
  <2> QED BY <1>3, <2>1 DEF At0
<1>5. D \subseteq 0 .. i - 1
  <2> SUFFICES ASSUME NEW j \in 0 .. c - 1, At0(j) = 0 PROVE j < i
    OBVIOUS
  <2> QED BY <1>1, <1>2, <1>4
<1>6. IsFiniteSet(0 .. i - 1) /\ Cardinality(0 .. i - 1) = i
  BY FS_Interval
<1> QED BY <1>5, <1>6, FS_Subset

(* Time takes a tick off what has not been due. *)
LEMMA TickLeft ==
  ASSUME DelayTypeOK, Tick
  PROVE  \A i \in 0 .. count - 1 :
           RingAt(i)'.left = IF RingAt(i).left > 0 THEN RingAt(i).left - 1 ELSE RingAt(i).left
<1>1. /\ head \in Index /\ head' = head /\ count \in 0 .. Buffer
      /\ entries \in [Index -> [id : Bytes, slot : Buffers, left : 0 .. Delay]]
  BY DEF DelayTypeOK, Tick
<1>2. \A i \in 0 .. count - 1 : At(i)' = At(i) /\ At(i) \in Index /\ At(i) \in Buffered
  <2>1. \A i \in 0 .. count - 1 : At(i) \in Index /\ At(i)' = At(i)
    BY <1>1, AtIsIndex DEF At
  <2> QED BY <2>1 DEF Buffered
<1>3. \A j \in Index : j \in Buffered => entries'[j].left =
        IF entries[j].left > 0 THEN entries[j].left - 1 ELSE entries[j].left
  BY DEF Tick, Aged
<1> QED BY <1>2, <1>3 DEF RingAt

(* What is left to an entry is a number of ticks. *)
LEMMA LeftType ==
  ASSUME DelayTypeOK
  PROVE  \A i \in Nat : RingAt(i).left \in 0 .. Delay
<1>1. \A i \in Nat : At(i) \in Index
  BY AtIsIndex DEF DelayTypeOK
<1> QED BY <1>1 DEF RingAt, DelayTypeOK

(* The head of sendDue counts a prefix of the ring. *)
LEMMA SendDueCounts ==
  ASSUME NEW all, SendDue(all), DelayTypeOK', OrderInv'
  PROVE  DueInv'
<1>1. PICK es, h, c : es = entries' /\ h = head' /\ c = count'
  OBVIOUS
<1>2. c \in Nat /\ due' = DueNow(es, h, c)
  BY <1>1, CapacityAssumption DEF SendDue, DelayTypeOK
<1>3. \A i : RingAt(i)' = es[(h + i) % Buffer]
  BY <1>1 DEF RingAt, At
<1>4. \A i \in Nat : RingAt(i)'.left \in Nat
  <2>1. (DelayTypeOK => \A i \in Nat : RingAt(i).left \in 0 .. Delay)'
    BY LeftType, PTL
  <2> QED BY <2>1, Clock
<1>5. \A i \in 0 .. c - 1 : es[(h + i) % Buffer].left \in Nat
  BY <1>2, <1>3, <1>4
<1>6. \A i, j \in 0 .. c - 1 : i <= j => es[(h + i) % Buffer].left <= es[(h + j) % Buffer].left
  BY <1>1, <1>3 DEF OrderInv
<1>7. \A i \in 0 .. c - 1 : i < DueNow(es, h, c) => es[(h + i) % Buffer].left = 0
  BY <1>2, <1>5, <1>6, DueIsPrefix, Zenon
<1> QED BY <1>1, <1>2, <1>3, <1>7 DEF DueInv

LEMMA ClockStep == TypeOK /\ TypeOK' /\ RingInv /\ ClockInv /\ [Next]_vars => ClockInv'
<1> SUFFICES ASSUME TypeOK, TypeOK', RingInv, ClockInv, [Next]_vars PROVE ClockInv'
  OBVIOUS
<1> USE DEF ClockInv
<1>1. /\ DelayTypeOK /\ DelayTypeOK' /\ count \in Nat
      /\ \A i \in Nat : RingAt(i).left \in 0 .. Delay
  BY LeftType DEF TypeOK, RingInv
<1>2. ASSUME UNCHANGED <<entries, head, count>>
      PROVE  OrderInv' /\ \A i : RingAt(i)' = RingAt(i)
  BY <1>2 DEF OrderInv, RingAt, At
<1>3. ASSUME UNCHANGED <<entries, head, count, due, armed>>,
             dpc' = dpc \/ (dpc = "offer" /\ dpc' = "flush")
      PROVE  ClockInv'
  BY <1>2, <1>3 DEF ArmInv, DueInv
<1>4. CASE TakePacket
  <2>1. Insert /\ count < Buffer /\ SendDue(FALSE) /\ count' = count + 1
    <3>1. ~(count > Buffer \div 2)
      BY <1>4 DEF TakePacket, RingInv, NeverOverflows, Overfull
    <3>2. count < Buffer /\ count # Buffer
      BY <1>1, <3>1, HalfIsLess, CapacityAssumption
    <3>3. Insert /\ SendDue(FALSE)
      BY <1>4, <3>2 DEF TakePacket
    <3> QED BY <3>2, <3>3 DEF Insert
  <2>2. PICK c \in Nat : c = count
    BY <1>1
  <2>3. /\ \A i \in 0 .. c - 1 : RingAt(i)' = RingAt(i) /\ RingAt(i).left \in 0 .. Delay
        /\ RingAt(c)'.left = Delay
    <3>1. /\ \A i \in 0 .. c - 1 : RingAt(i)' = RingAt(i)
          /\ entries'[(head' + c) % Buffer] = Entry(Delay)
      BY <1>1, <2>1, <2>2, InsertRing
    <3>2. RingAt(c)' = Entry(Delay)
      BY <3>1 DEF RingAt, At
    <3>3. Entry(Delay).left = Delay
      BY DEF Entry
    <3> QED BY <1>1, <2>2, <3>1, <3>2, <3>3
  <2>4. OrderInv'
    <3>1. SUFFICES ASSUME NEW i \in 0 .. c, NEW j \in 0 .. c, i <= j
                   PROVE  RingAt(i)'.left <= RingAt(j)'.left
      BY <2>1, <2>2 DEF OrderInv
    <3>2. (i \in 0 .. c - 1 \/ i = c) /\ (j \in 0 .. c - 1 \/ j = c) /\ (i = c => j = c)
      BY <2>2, <3>1
    <3>3. CASE i \in 0 .. c - 1 /\ j \in 0 .. c - 1
      BY <2>2, <2>3, <3>1, <3>3 DEF OrderInv
    <3>4. CASE i \in 0 .. c - 1 /\ j = c
      BY <2>3, <3>4, Clock
    <3>5. CASE i = c /\ j = c
      BY <2>3, <3>5, Clock
    <3> QED BY <3>2, <3>3, <3>4, <3>5
  <2>5. DueInv'
    BY <1>1, <2>1, <2>4, SendDueCounts
  <2> QED BY <2>1, <2>4, <2>5 DEF ArmInv, SendDue
<1>5. CASE PacketsClosed \/ TimerFires
  <2>1. UNCHANGED <<entries, head, count>> /\ dpc' = "flush" /\ \E all : SendDue(all)
    BY <1>5 DEF PacketsClosed, TimerFires, SendDue
  <2> QED BY <1>1, <1>2, <2>1, SendDueCounts DEF ArmInv
<1>6. CASE SelectShutdown \/ OfferShutdown
  BY <1>6 DEF SelectShutdown, OfferShutdown, Discard, ArmInv, OrderInv, DueInv
<1>7. CASE Pop
  <2>1. /\ \A i \in 0 .. count - 2 : RingAt(i)' = RingAt(i + 1)
        /\ count' = count - 1 /\ dpc = "flush" /\ dpc' = "offer"
        /\ due \in Nat /\ due' = IF due > 0 THEN due - 1 ELSE 0
    BY <1>1, <1>7, PopRing, CapacityAssumption DEF Pop, DelayTypeOK
  <2>2. OrderInv'
    BY <1>1, <2>1 DEF OrderInv
  <2>3. DueInv'
    BY <1>1, <2>1 DEF DueInv
  <2> QED BY <2>1, <2>2, <2>3 DEF ArmInv
<1>8. CASE FlushEnds
  <2>1. /\ UNCHANGED <<entries, head, count>> /\ dpc' \in {"done", "select"}
        /\ dpc' = "select" => (armed' = (count > 0))
    BY <1>8 DEF FlushEnds
  <2> QED BY <1>2, <2>1 DEF ArmInv, DueInv
<1>9. CASE Tick
  <2>1. UNCHANGED <<count, due, armed, dpc>>
    BY <1>9 DEF Tick
  <2>2. \A i \in 0 .. count - 1 : RingAt(i)'.left =
          IF RingAt(i).left > 0 THEN RingAt(i).left - 1 ELSE RingAt(i).left
    BY <1>1, <1>9, TickLeft
  <2>3. OrderInv'
    BY <1>1, <2>1, <2>2, Clock DEF OrderInv
  <2>4. DueInv'
    BY <1>1, <2>1, <2>2 DEF DueInv
  <2> QED BY <2>1, <2>3, <2>4 DEF ArmInv
<1>10. CASE Outside \/ ReadPacket \/ Reader
  BY <1>3, <1>10, OutsideFrame, ReaderFrame DEF delayVars
<1>11. CASE Writer
  <2>1. UNCHANGED <<entries, head, count, due, armed>> /\ (~TakeReady => UNCHANGED dpc)
    BY <1>11, WriterFrame
  <2> QED BY <1>3, <2>1 DEF TakeReady
<1> QED BY <1>4, <1>5, <1>6, <1>7, <1>8, <1>9, <1>10, <1>11 DEF Next, Outside, Delayer

LEMMA ClockInit == Init => ClockInv
BY DEF Init, ClockInv, ArmInv, OrderInv, DueInv

-----------------------------------------------------------------------------
(* Stopping.  What has begun a shutdown goes on to close the handle, and    *)
(* the keylog goroutine ends for a reason.                                  *)

ClosingInv ==
  /\ shutdown => stopClosed \/ cancelStop = "closing" \/ kpc = "closing" \/ wpc = "stop"
  /\ wpc = "returned" => stopClosed
  /\ ctxDone <=> cancelStop # "waiting"
  /\ cancelStop = "done" => stopClosed \/ wpc = "stop"
EndInv ==
  /\ kpc = "end" => ctxDone \/ probeState # "open"
  /\ kpc = "closing" => shutdown
  /\ kpc = "done" => shutdown \/ ctxDone \/ probeState = "closed"
  /\ probeState = "closed" => "close" \in Faults

LEMMA ClosingStep == ClosingInv /\ [Next]_vars => ClosingInv'
<1> SUFFICES ASSUME ClosingInv, [Next]_vars PROVE ClosingInv'
  OBVIOUS
<1> USE DEF ClosingInv
<1>1. CASE Cancel \/ CancelStop \/ ProbeEnds \/ Tick \/ Terminated \/ UNCHANGED vars
  BY <1>1 DEF Cancel, CancelStop, CancelStopBegin, CancelStopClose, CloseHandle, ProbeEnds, Tick,
    Terminated, vars, stopVars, writeVars
<1>2. CASE Keylog
  BY <1>2 DEF Keylog, KeylogRecv, KeylogEnds, KeylogShutdown, KeylogCheckErr, KeylogStopClose,
    CloseHandle, KeylogUnchanged, writeVars
<1>3. CASE ReadPacket \/ Reader \/ Delayer
  BY <1>3, ReaderFrame, DelayFrame DEF stopVars, writeVars
<1>4. CASE Writer
  <2>1. UNCHANGED <<ctxDone, cancelStop>>
    BY <1>4, WriterFrame
  <2>2. CASE Return \/ ReturnClose
    BY <2>1, <2>2 DEF Return, ReturnClose, CloseHandle
  <2>3. CASE ~Return /\ ~ReturnClose
    <3>1. /\ UNCHANGED <<shutdown, stopClosed>> /\ (kpc = "closing" => kpc' = "closing")
          /\ wpc \notin {"stop", "returned"} /\ wpc' \notin {"stop", "returned"}
      BY <1>4, <2>3 DEF Writer, TakeSecret, TakeReady, SourceClosed, WriteSecret, WritePacket,
        Written, FlushBatch, FinalFlush, Flush, AwaitCapture, Running
    <3> QED BY <2>1, <3>1
  <2> QED BY <2>2, <2>3
<1> QED BY <1>1, <1>2, <1>3, <1>4 DEF Next

LEMMA EndStep == TypeOK /\ EndInv /\ [Next]_vars => EndInv'
<1> SUFFICES ASSUME StopTypeOK, EndInv, [Next]_vars PROVE EndInv'
  BY DEF TypeOK
<1> USE DEF EndInv
<1>1. CASE Cancel \/ CancelStop \/ ProbeEnds \/ Tick \/ Terminated \/ UNCHANGED vars
  BY <1>1 DEF Cancel, CancelStop, CancelStopBegin, CancelStopClose, ProbeEnds, Tick,
    Terminated, vars, stopVars, probeVars
<1>2. CASE Keylog
  BY <1>2 DEF Keylog, KeylogRecv, KeylogEnds, KeylogShutdown, KeylogCheckErr, KeylogStopClose,
    KeylogUnchanged, StopTypeOK
<1>3. CASE ReadPacket \/ Reader \/ Delayer
  BY <1>3, ReaderFrame, DelayFrame DEF stopVars, probeVars
<1>4. CASE Writer
  <2>1. UNCHANGED <<ctxDone, probeState>> /\ (shutdown => shutdown')
    BY <1>4, WriterFrame DEF probeVars
  <2>2. kpc' = kpc \/ kpc' = "read"
    BY <1>4 DEF Writer, TakeSecret, TakeReady, SourceClosed, WriteSecret, WritePacket,
      FlushBatch, FinalFlush, AwaitCapture, Return, ReturnClose
  <2> QED BY <2>1, <2>2
<1> QED BY <1>1, <1>2, <1>3, <1>4 DEF Next

(* While the goroutines wait for packets and secrets, the keylog goroutine  *)
(* has handed over what it has received, unless the probe was closed.       *)
LEMMA QuietReads ==
  ASSUME ClosingInv, EndInv, ExitInv, Quiet, dpc = "select"
  PROVE  wpc = "select" /\ (kpc = "read" \/ probeState = "closed")
<1>1. rpc # "done" /\ ~stopClosed
  BY DEF Quiet, ExitInv
<1>2. /\ wpc = "select" /\ ~shutdown /\ ~ctxDone
  BY <1>1 DEF Quiet, ClosingInv
<1> QED BY <1>2 DEF Quiet, EndInv

(* What the runs of PcapNG can say when time passes as in PcapNGTimed.      *)
PlainInv == Inv /\ ClockInv /\ ClosingInv /\ EndInv

LEMMA PlainInit == Init => PlainInv
<1>1. Init => ClosingInv /\ EndInv
  BY DEF Init, ClosingInv, EndInv
<1> QED BY <1>1, InvInit, ClockInit DEF PlainInv

LEMMA PlainStep == PlainInv /\ [Next]_vars => PlainInv'
<1> SUFFICES ASSUME PlainInv, [Next]_vars PROVE PlainInv'
  OBVIOUS
<1>1. Inv' /\ ClosingInv' /\ EndInv'
  BY InvStep, ClosingStep, EndStep DEF PlainInv, Inv
<1>2. ClockInv'
  BY <1>1, ClockStep DEF PlainInv, Inv
<1> QED BY <1>1, <1>2 DEF PlainInv

LEMMA TimedStep == [TimedNext]_timedVars => [Next]_vars
<1> SUFFICES ASSUME [TimedNext]_timedVars PROVE [Next]_vars
  OBVIOUS
<1>1. CASE HookHit \/ UNCHANGED timedVars
  BY <1>1 DEF HookHit, timedVars
<1>2. CASE EventArrives
  BY <1>2 DEF EventArrives, Next, Keylog
<1>3. CASE PacketArrives \/ PopTimed
  BY <1>3 DEF PacketArrives, PopTimed, Next, Delayer
<1>4. CASE TickTimed
  BY <1>4 DEF TickTimed, Next
<1>5. CASE Others
  BY <1>5 DEF Others, Next, Keylog, Delayer
<1> QED BY <1>1, <1>2, <1>3, <1>4, <1>5 DEF TimedNext

(* Every behaviour with the timing is one of PcapNG. *)
THEOREM TimedIsPcapNG == TimedSpec => Spec
BY TimedStep, PTL DEF TimedSpec, TimedInit, Spec

LEMMA PlainAlways == TimedSpec => []PlainInv
<1>1. TimedInit => PlainInv
  BY PlainInit DEF TimedInit
<1> QED BY <1>1, PlainStep, TimedStep, PTL DEF TimedSpec

(* Whenever the goroutines wait, no packet is left in the ring that is past  *)
(* its deadline: scheduleTimer sets the timer for the oldest entry, and the  *)
(* entries are in the order of their deadlines.                              *)
THEOREM NoneIsOverdue == TimedSpec => []NoneOverdue
<1>1. PlainInv => NoneOverdue
  <2> SUFFICES ASSUME PlainInv, dpc = "select", Quiet, NEW k \in Buffered
               PROVE  entries[k].left > 0
    BY DEF NoneOverdue
  <2>1. DelayTypeOK /\ count \in Nat /\ head \in Index /\ \A i \in Nat : RingAt(i).left \in 0 .. Delay
    BY LeftType, CapacityAssumption DEF PlainInv, Inv, TypeOK, DelayTypeOK
  <2>2. PICK i \in 0 .. count - 1 : k = At(i)
    BY DEF Buffered
  <2>3. count > 0 /\ armed /\ i \in Nat /\ 0 \in 0 .. count - 1 /\ 0 <= i
    BY <2>1, <2>2 DEF PlainInv, ClockInv, ArmInv
  <2>4. At(0) = head
    BY <2>1, CapacityAssumption, Z3 DEF At, Index
  <2>5. RingAt(0).left # 0 /\ RingAt(0).left <= RingAt(i).left
    BY <2>2, <2>3, <2>4 DEF Quiet, RingAt, PlainInv, ClockInv, OrderInv
  <2>6. RingAt(0).left \in 0 .. Delay /\ RingAt(i).left \in 0 .. Delay
    BY <2>1, <2>3
  <2> QED BY <2>2, <2>5, <2>6, Clock DEF RingAt
<1> QED BY <1>1, PlainAlways, PTL

-----------------------------------------------------------------------------
(* The types of the timing. *)

(* The packets on their way have been received. *)
LEMMA Received ==
  ASSUME Inv
  PROVE  /\ \A i \in 0 .. count - 1 : RingAt(i).id \in 1 .. seen
         /\ dpc = "offer" => dpkt.id \in 1 .. seen
         /\ wpc = "packet" => wmsg.id \in 1 .. seen
         /\ \A i \in DOMAIN file : file[i].kind = "pkt" => file[i].id \in 1 .. seen
<1>1. TypeOK
  BY DEF Inv
<1>2. PICK n \in Nat : Chain(n)
  BY DEF Inv, ChainInv
<1>3. /\ seen \in Nat /\ count \in Nat /\ Len(pktCh) \in Nat /\ PacketCount \in Nat
      /\ InHand("packet") \in Nat /\ n <= seen
      /\ PacketCount + InHand("packet") <= Passed(n)
      /\ \A i \in 0 .. count - 1 : RingAt(i).id = n - Len(pktCh) - count + 1 + i
      /\ dpc = "offer" => dpkt.id = Passed(n) + 1
      /\ wpc = "packet" => wmsg.id = PacketCount + 1 /\ InHand("packet") = 1
  BY <1>1, <1>2, Numbers DEF Chain, Sent, Queued, Forwarded, InHand
<1>4. PICK in \in Nat : in = (IF dpc = "offer" THEN 1 ELSE 0)
  OBVIOUS
<1>5. Passed(n) = n - Len(pktCh) - count - in /\ (dpc = "offer" => in = 1)
  BY <1>4 DEF Passed
<1>6. \A i \in DOMAIN file : file[i].kind = "pkt" => file[i].id \in 1 .. PacketCount
  BY DEF Inv, FileInv, IdsIn
<1> QED BY SMTT(30), <1>3, <1>5, <1>6

LEMMA TimedTypeStep ==
  Inv /\ TypeOK' /\ TimedTypeOK /\ [TimedNext]_timedVars => TimedTypeOK'
<1> SUFFICES ASSUME Inv, TypeOK', TimedTypeOK, [TimedNext]_timedVars PROVE TimedTypeOK'
  OBVIOUS
<1>1. /\ TypeOK /\ TypeOK' /\ taken \in Nat /\ hooked \in Nat /\ taken <= hooked
      /\ hooked <= MaxSecrets /\ age \in [Secrets -> 0 .. Latency]
      /\ needs \in [Packets -> 0 .. MaxSecrets] /\ forced \subseteq Packets
      /\ seen \in Nat /\ seen <= MaxPackets
  BY Clock, BoundAssumption DEF TimedTypeOK, TypeOK, StopTypeOK, ReadTypeOK
<1>2. ASSUME UNCHANGED histVars, taken' = taken PROVE TimedTypeOK'
  BY <1>1, <1>2 DEF histVars, TimedTypeOK
<1>3. CASE HookHit
  <2>1. /\ hooked' = hooked + 1 /\ hooked < MaxSecrets /\ UNCHANGED <<taken, age, needs, forced>>
    BY <1>3 DEF HookHit, vars, probeVars
  <2> QED BY <1>1, <2>1, Clock DEF TimedTypeOK
<1>4. CASE EventArrives
  <2>1. taken' = taken + 1 /\ taken < hooked /\ UNCHANGED histVars
    BY <1>4 DEF EventArrives, KeylogRecv
  <2> QED BY <1>1, <2>1, Clock DEF TimedTypeOK, histVars
<1>5. CASE PacketArrives
  <2>1. /\ UNCHANGED <<taken, hooked, age, forced>>
        /\ needs' = [needs EXCEPT ![seen'] = hooked]
    BY <1>5, ReaderFrame DEF PacketArrives, probeVars
  <2>2. PICK p : p = seen'
    OBVIOUS
  <2>3. hooked \in 0 .. MaxSecrets
    BY <1>1, Clock
  <2>4. needs' = [needs EXCEPT ![p] = hooked]
    BY <2>1, <2>2
  <2>5. needs' \in [Packets -> 0 .. MaxSecrets]
    BY <1>1, <2>3, <2>4
  <2> QED BY <1>1, <2>1, <2>5 DEF TimedTypeOK
<1>6. CASE PopTimed
  <2>1. /\ UNCHANGED <<taken, hooked, age, needs>>
        /\ forced' \subseteq forced \cup {entries[head].id}
    BY <1>6, DelayFrame DEF PopTimed, Delayer, probeVars
  <2>2. DelayTypeOK /\ Pop /\ count \in Nat \ {0} /\ dpkt'.id = entries[head].id
        /\ dpkt'.id = RingAt(0).id
    BY <1>1, <1>6, PopRing DEF PopTimed, TypeOK, Pop
  <2>3. entries[head].id \in 1 .. seen
    BY <2>2, Received
  <2>4. entries[head].id \in Packets
    BY <1>1, <2>3, BoundAssumption DEF Packets
  <2> QED BY <1>1, <2>1, <2>4 DEF TimedTypeOK
<1>7. CASE TickTimed
  <2>1. /\ UNCHANGED <<taken, hooked, needs, forced>>
        /\ \A s \in OnTheirWay : kpc = "done" \/ age[s] < Latency
        /\ age' = [s \in Secrets |-> IF s \in OnTheirWay /\ kpc # "done" THEN age[s] + 1 ELSE age[s]]
    BY <1>7 DEF TickTimed, Tick, probeVars, vars
  <2>2. age' \in [Secrets -> 0 .. Latency]
    BY <1>1, <2>1, Clock
  <2> QED BY <1>1, <2>1, <2>2 DEF TimedTypeOK
<1>8. CASE Others
  <2>1. UNCHANGED histVars
    BY <1>8 DEF Others
  <2>2. CASE Cancel \/ CancelStop \/ ProbeEnds \/ KeylogEnds \/ KeylogShutdown \/ KeylogCheckErr
               \/ KeylogStopClose \/ Terminated
    <3>1. taken' = taken
      BY <2>2 DEF Cancel, CancelStop, CancelStopBegin, CancelStopClose, ProbeEnds, KeylogEnds,
        KeylogShutdown, KeylogCheckErr, KeylogStopClose, KeylogUnchanged, Terminated, vars, probeVars
    <3> QED BY <1>2, <2>1, <3>1
  <2>3. CASE Reader \/ Delayer \/ Writer
    <3>1. taken' = taken
      BY <2>3, ReaderFrame, DelayFrame, WriterFrame DEF probeVars
    <3> QED BY <1>2, <2>1, <3>1
  <2> QED BY <1>8, <2>2, <2>3 DEF Others, Delayer
<1>9. CASE UNCHANGED timedVars
  BY <1>2, <1>9 DEF timedVars, vars, probeVars
<1> QED BY <1>3, <1>4, <1>5, <1>6, <1>7, <1>8, <1>9 DEF TimedNext

LEMMA TimedTypeInit == TimedInit => TimedTypeOK
<1> SUFFICES ASSUME TimedInit PROVE TimedTypeOK
  OBVIOUS
<1>1. TypeOK /\ taken = 0
  BY TypeInit DEF TimedInit, Init
<1> QED BY <1>1, Clock DEF TimedInit, TimedTypeOK

(* Every variable of the timing keeps its type; that an event arrives after  *)
(* its hook was hit, and at most Latency ticks later, is part of it.         *)
THEOREM TimedTypeCorrect == TimedSpec => []TimedTypeOK
<1>1. PlainInv /\ PlainInv' /\ TimedTypeOK /\ [TimedNext]_timedVars => TimedTypeOK'
  BY TimedTypeStep DEF PlainInv, Inv
<1> QED BY <1>1, TimedTypeInit, PlainAlways, PTL DEF TimedSpec

-----------------------------------------------------------------------------
(* Secrets before packets.  While the writer goes on, a secret that packet  *)
(* p needs and that is not in the file has been on its way for as long as p *)
(* has been in the ring; so when p is due, there is none.                   *)

Writing == wpc \in {"select", "secret", "packet", "flush"}
Safe(p) == p \in forced \/ needs[p] <= SecretCount
Waits(i, s) == SecretCount < s /\ s <= needs[RingAt(i).id]

KeyedInv == \A s \in 1 .. SecretCount : \E j \in DOMAIN file : file[j] = KeyBlock(s)
NeedInv  == \A p \in Packets : needs[p] <= hooked
AgeInv   == Writing =>
  \A i \in 0 .. count - 1 : \A s \in Secrets : Waits(i, s) => age[s] + RingAt(i).left >= Delay
SafeInv  ==
  /\ dpc = "offer" /\ Writing => Safe(dpkt.id)
  /\ wpc = "packet" => Safe(wmsg.id)
HistInv  == KeyedInv /\ NeedInv /\ AgeInv /\ SafeInv /\ SecretsFirst

(* What a step leaves in the file, and of the time on the way. *)
LEMMA FileGrows ==
  ASSUME Inv, [Next]_vars
  PROVE  /\ SecretCount \in Nat /\ SecretCount' \in Nat /\ SecretCount <= SecretCount'
         /\ Writing' => Writing
<1>1. TypeOK
  BY DEF Inv
<1>2. SecretCount \in Nat /\ (SecretCount' = SecretCount \/ SecretCount' = SecretCount + 1)
  BY <1>1, Numbers, FileSteps
<1>3. Writing' => Writing
  <2> USE DEF Writing
  <2>1. CASE Outside \/ ReadPacket \/ Reader \/ Delayer \/ Tick
    <3>1. wpc' = wpc
      BY <2>1, OutsideFrame, ReaderFrame, DelayFrame DEF writeVars, Tick
    <3> QED BY <3>1
  <2>2. CASE Writer
    BY <2>2 DEF Writer, TakeSecret, TakeReady, SourceClosed, WriteSecret, WritePacket, Written,
      FlushBatch, FinalFlush, Flush, AwaitCapture, Return, ReturnClose, Running
  <2> QED BY <2>1, <2>2 DEF Next, Outside
<1> QED BY <1>2, <1>3

LEMMA KeyedStep == Inv /\ KeyedInv /\ [Next]_vars => KeyedInv'
<1> SUFFICES ASSUME Inv, KeyedInv, [Next]_vars PROVE KeyedInv'
  OBVIOUS
<1>1. TypeOK /\ SecretCount \in Nat
  BY Numbers DEF Inv
<1>2. file \in Seq(Blocks) /\ Len(file) \in Nat /\ DOMAIN file = 1 .. Len(file)
  BY <1>1, LenProperties DEF TypeOK, WriteTypeOK, Blocks, Kinds
<1>3. CASE file' = file /\ SecretCount' = SecretCount
  BY <1>3 DEF KeyedInv
<1>4. ASSUME NEW b \in Blocks, file' = Append(file, b),
             SecretCount' = SecretCount \/ (SecretCount' = SecretCount + 1 /\ b = KeyBlock(SecretCount + 1))
      PROVE  KeyedInv'
  <2>1. /\ DOMAIN file' = 1 .. Len(file) + 1 /\ file'[Len(file) + 1] = b
        /\ \A j \in 1 .. Len(file) : file'[j] = file[j]
    BY <1>2, <1>4, AppendProperties, LenProperties
  <2>2. SUFFICES ASSUME NEW s \in 1 .. SecretCount' PROVE \E j \in DOMAIN file' : file'[j] = KeyBlock(s)
    BY DEF KeyedInv
  <2>3. CASE s \in 1 .. SecretCount
    <3>1. PICK j \in 1 .. Len(file) : file[j] = KeyBlock(s)
      BY <1>2, <2>3 DEF KeyedInv
    <3> QED BY <1>2, <2>1, <3>1
  <2>4. CASE s = SecretCount + 1 /\ b = KeyBlock(SecretCount + 1)
    BY <1>2, <2>1, <2>4
  <2> QED BY <1>1, <1>4, <2>2, <2>3, <2>4
<1>5. CASE /\ WriteSecret /\ file' = Append(file, KeyBlock(wmsg.id))
           /\ SecretCount' = SecretCount + 1
  <2>1. wmsg.id = SecretCount + 1 /\ KeyBlock(wmsg.id) \in Blocks
    BY <1>1, <1>5 DEF WriteSecret, Inv, SecretInv, KeyBlock, TypeOK, WriteTypeOK, Blocks, Kinds
  <2> QED BY <1>4, <1>5, <2>1
<1>6. CASE /\ WritePacket /\ file' = Append(file, PktBlock(wmsg.id, BytesOf(wmsg)))
           /\ SecretCount' = SecretCount
  <2>1. PktBlock(wmsg.id, BytesOf(wmsg)) \in Blocks
    BY <1>1, BoundAssumption DEF PktBlock, BytesOf, TypeOK, WriteTypeOK, SlabTypeOK, Buffers,
      Bytes, Blocks, Kinds
  <2> QED BY <1>4, <1>6, <2>1
<1> QED BY <1>1, <1>3, <1>5, <1>6, FileSteps

(* What the steps with a time do to the time, and to what packets need. *)
LEMMA TimedFrame ==
  ASSUME Inv, TimedTypeOK, [TimedNext]_timedVars
  PROVE  /\ \A p \in 1 .. seen : needs'[p] = needs[p]
         /\ forced \subseteq forced' /\ hooked' \in {hooked, hooked + 1}
         /\ ~TickTimed => age' = age
         /\ ~PopTimed => forced' = forced
         /\ \A p \in Packets : needs'[p] = needs[p] \/ needs'[p] = hooked
<1>1. /\ needs \in [Packets -> 0 .. MaxSecrets] /\ seen \in Nat /\ hooked \in Int
  BY Clock, BoundAssumption DEF TimedTypeOK, TypeOK, ReadTypeOK
<1>2. CASE PacketArrives
  <2>1. /\ UNCHANGED <<hooked, age, forced>> /\ needs' = [needs EXCEPT ![seen'] = hooked]
        /\ seen' = seen + 1
    BY <1>2 DEF PacketArrives, ReadPacket
  <2>2. PICK q : q = seen' /\ q = seen + 1
    BY <2>1
  <2>3. needs' = [needs EXCEPT ![q] = hooked] /\ \A p \in 1 .. seen : p # q
    BY <1>1, <2>1, <2>2
  <2>4. \A p : p # q => needs'[p] = needs[p] \/ p \notin Packets
    BY <1>1, <2>3
  <2>5. \A p \in 1 .. seen : p \in Packets
    BY <1>1, BoundAssumption DEF TimedTypeOK, TypeOK, ReadTypeOK, Packets
  <2> QED BY <1>1, <2>1, <2>3, <2>4, <2>5
<1>3. CASE HookHit \/ EventArrives \/ PopTimed \/ TickTimed \/ Others \/ UNCHANGED timedVars
  BY <1>3 DEF HookHit, EventArrives, PopTimed, TickTimed, Others, timedVars, histVars
<1> QED BY <1>2, <1>3 DEF TimedNext

LEMMA NeedStep == Inv /\ TimedTypeOK /\ NeedInv /\ [TimedNext]_timedVars => NeedInv'
<1> SUFFICES ASSUME Inv, TimedTypeOK, NeedInv, [TimedNext]_timedVars, NEW p \in Packets
             PROVE  needs'[p] <= hooked'
  BY DEF NeedInv
<1>1. needs[p] \in Nat /\ hooked \in Nat /\ needs[p] <= hooked
  BY Clock, BoundAssumption DEF TimedTypeOK, TypeOK, StopTypeOK, NeedInv
<1> QED BY <1>1, TimedFrame

(* The ring keeps its entries, or loses them, and what they wait for. *)
LEMMA AgeFrame ==
  ASSUME Inv, TimedTypeOK, AgeInv, [TimedNext]_timedVars, age' = age, count' \in Nat,
         count' = 0 \/ (count' <= count /\ \A i \in 0 .. count' - 1 : RingAt(i)' = RingAt(i))
  PROVE  AgeInv'
<1>1. /\ SecretCount \in Nat /\ SecretCount' \in Nat /\ SecretCount <= SecretCount'
      /\ Writing' => Writing
  BY FileGrows, TimedStep
<1>2. count \in Nat
  BY Numbers DEF Inv
<1>3. SUFFICES ASSUME Writing, NEW i \in 0 .. count' - 1, NEW s \in Secrets, Waits(i, s)'
               PROVE  age'[s] + RingAt(i)'.left >= Delay
  BY <1>1 DEF AgeInv
<1>4. i \in 0 .. count - 1 /\ RingAt(i)' = RingAt(i)
  <2>1. PICK c \in Nat : c = count'
    OBVIOUS
  <2>2. i \in 0 .. c - 1 /\ (c = 0 \/ (c <= count /\ \A k \in 0 .. c - 1 : RingAt(k)' = RingAt(k)))
    BY <1>3, <2>1
  <2> QED BY <1>2, <2>2
<1>5. needs'[RingAt(i)'.id] = needs[RingAt(i).id]
  BY <1>4, Received, TimedFrame
<1>6. Waits(i, s)
  BY <1>1, <1>3, <1>5, Clock DEF Waits, Secrets
<1> QED BY <1>3, <1>4, <1>6 DEF AgeInv

LEMMA AgeStep ==
  "close" \notin Faults /\ PlainInv /\ TypeOK' /\ TimedTypeOK /\ NeedInv /\ AgeInv /\ [TimedNext]_timedVars => AgeInv'
<1> SUFFICES ASSUME "close" \notin Faults, PlainInv, TypeOK', TimedTypeOK, NeedInv, AgeInv,
                    [TimedNext]_timedVars
             PROVE  AgeInv'
  OBVIOUS
<1>1. /\ Inv /\ TypeOK /\ DelayTypeOK /\ count \in Nat /\ count' \in Nat
      /\ \A i \in Nat : RingAt(i).left \in 0 .. Delay
      /\ age \in [Secrets -> 0 .. Latency]
  BY SMTT(30), LeftType, Numbers, CapacityAssumption DEF PlainInv, Inv, TypeOK, TimedTypeOK, DelayTypeOK
<1>2. /\ SecretCount \in Nat /\ SecretCount' \in Nat /\ SecretCount <= SecretCount'
      /\ Writing' => Writing
  BY <1>1, FileGrows, TimedStep
<1>3. ASSUME UNCHANGED <<entries, head, count, age>> PROVE AgeInv'
  <2>1. \A i : RingAt(i)' = RingAt(i)
    BY <1>3 DEF RingAt, At
  <2> QED BY <1>1, <1>3, <2>1, AgeFrame
<1>4. ASSUME count' = 0, age' = age PROVE AgeInv'
  BY <1>1, <1>4, AgeFrame
<1>5. CASE TakePacket /\ age' = age
  <2>1. Insert /\ count < Buffer
    <3>1. ~(count > Buffer \div 2)
      BY <1>1, <1>5 DEF TakePacket, Inv, RingInv, NeverOverflows, Overfull
    <3>2. count < Buffer /\ count # Buffer
      BY <1>1, <3>1, HalfIsLess, CapacityAssumption
    <3> QED BY <1>5, <3>2 DEF TakePacket
  <2>2. PICK c \in Nat : c = count
    BY <1>1
  <2>3. /\ count' = c + 1
        /\ \A i \in 0 .. c - 1 : RingAt(i)' = RingAt(i)
        /\ RingAt(c)'.left = Delay
    <3>1. /\ \A i \in 0 .. c - 1 : RingAt(i)' = RingAt(i)
          /\ entries'[(head' + c) % Buffer] = Entry(Delay)
      BY <1>1, <2>1, <2>2, InsertRing
    <3>2. RingAt(c)' = Entry(Delay)
      BY <3>1 DEF RingAt, At
    <3> QED BY <2>1, <2>2, <3>1, <3>2 DEF Entry, Insert
  <2>4. SUFFICES ASSUME Writing, NEW i \in 0 .. c, NEW s \in Secrets, Waits(i, s)'
                 PROVE  age'[s] + RingAt(i)'.left >= Delay
    BY <1>2, <2>3 DEF AgeInv
  <2>5. CASE i = c
    BY <1>1, <1>5, <2>3, <2>5, Clock
  <2>6. CASE i \in 0 .. c - 1
    <3>1. RingAt(i)' = RingAt(i) /\ i \in 0 .. count - 1
      BY <2>2, <2>3, <2>6
    <3>2. needs'[RingAt(i)'.id] = needs[RingAt(i).id]
      BY <1>1, <3>1, Received, TimedFrame
    <3>3. Waits(i, s)
      BY <1>2, <2>4, <3>2, Clock DEF Waits, Secrets
    <3> QED BY <1>5, <2>4, <3>1, <3>3 DEF AgeInv
  <2> QED BY <2>2, <2>5, <2>6
<1>6. CASE PopTimed
  <2>1. /\ \A i \in 0 .. count - 2 : RingAt(i)' = RingAt(i + 1)
        /\ count' = count - 1 /\ age' = age /\ needs' = needs
    BY <1>1, <1>6, PopRing DEF PopTimed
  <2>2. SUFFICES ASSUME Writing, NEW i \in 0 .. count - 2, NEW s \in Secrets, Waits(i, s)'
                 PROVE  age[s] + RingAt(i + 1).left >= Delay
    BY <1>1, <1>2, <2>1 DEF AgeInv
  <2>3. i + 1 \in 0 .. count - 1 /\ RingAt(i)' = RingAt(i + 1)
    BY <1>1, <2>1
  <2>4. needs'[RingAt(i)'.id] = needs[RingAt(i + 1).id]
    BY <2>1, <2>3
  <2>5. RingAt(i + 1).id \in 1 .. seen
    BY <1>1, <2>3, Received
  <2>6. needs[RingAt(i + 1).id] \in Nat
    BY <1>1, <2>5, BoundAssumption, Clock DEF TimedTypeOK, TypeOK, ReadTypeOK, Packets
  <2>7. Waits(i + 1, s)
    BY <1>2, <2>2, <2>4, <2>6, Clock DEF Waits, Secrets
  <2> QED BY <2>2, <2>3, <2>7 DEF AgeInv
<1>7. CASE TickTimed
  <2>1. /\ UNCHANGED <<needs, count, wpc, file>> /\ SecretCount' = SecretCount /\ Quiet
        /\ age' = [s \in Secrets |-> IF s \in OnTheirWay /\ kpc # "done" THEN age[s] + 1 ELSE age[s]]
        /\ Tick \/ UNCHANGED vars
    BY <1>7 DEF TickTimed, Tick, writeVars, delayVars, vars, SecretCount
  <2>2. \A i \in 0 .. count - 1 :
          /\ RingAt(i)'.id = RingAt(i).id
          /\ RingAt(i)'.left \in Nat /\ RingAt(i)'.left + 1 >= RingAt(i).left
    <3>1. CASE Tick
      BY <1>1, <3>1, TickRing, TickLeft, Clock
    <3>2. CASE UNCHANGED vars
      <4>1. \A i : RingAt(i)' = RingAt(i)
        BY <3>2 DEF vars, delayVars, RingAt, At
      <4> QED BY <1>1, <4>1, Clock
    <3> QED BY <2>1, <3>1, <3>2
  <2>3. SUFFICES ASSUME Writing, NEW i \in 0 .. count - 1, NEW s \in Secrets, Waits(i, s)'
                 PROVE  age'[s] + RingAt(i)'.left >= Delay
    BY <1>2, <2>1 DEF AgeInv
  <2>4. Waits(i, s) /\ age[s] + RingAt(i).left >= Delay
    BY <2>1, <2>2, <2>3 DEF Waits, AgeInv
  <2>5. dpc = "select"
    BY <1>1, <2>1, <2>3 DEF Quiet, Inv, ExitInv
  <2>6. kpc = "read" /\ wpc = "select"
    BY <2>1, <2>5, QuietReads DEF PlainInv, Inv, EndInv
  <2>7. SecretCount = taken
    BY <1>2, <2>6, Numbers, <1>1 DEF Inv, SecretInv, InHand
  <2>8. s <= hooked
    <3>1. RingAt(i).id \in Packets
      BY <1>1, <2>3, Received, BoundAssumption DEF TimedTypeOK, TypeOK, ReadTypeOK, Packets
    <3>2. needs[RingAt(i).id] <= hooked /\ needs[RingAt(i).id] \in Nat /\ hooked \in Nat
      BY <3>1, Clock DEF NeedInv, TimedTypeOK, TypeOK, StopTypeOK
    <3> QED BY <2>4, <3>2, Clock DEF Waits, Secrets
  <2>9. s \in OnTheirWay
    BY <2>4, <2>7, <2>8 DEF Waits, OnTheirWay
  <2>10. age'[s] = age[s] + 1 /\ age[s] \in Nat
    BY <1>1, <2>1, <2>6, <2>9, Clock
  <2>11. RingAt(i).left \in 0 .. Delay
    BY <1>1
  <2> QED BY <2>2, <2>3, <2>4, <2>10, <2>11, Clock
<1>8. CASE HookHit \/ EventArrives \/ PacketArrives \/ UNCHANGED timedVars
  BY <1>3, <1>8, OutsideFrame, ReaderFrame
     DEF HookHit, EventArrives, PacketArrives, timedVars, vars, delayVars, histVars, Outside, Keylog
<1>9. CASE Others
  <2>1. age' = age
    BY <1>9 DEF Others, histVars
  <2>2. CASE TakePacket
    BY <1>5, <2>1, <2>2
  <2>3. CASE SelectShutdown \/ OfferShutdown
    BY <1>4, <2>1, <2>3 DEF SelectShutdown, OfferShutdown, Discard
  <2>4. CASE PacketsClosed \/ TimerFires \/ FlushEnds
    BY <1>3, <2>1, <2>4 DEF PacketsClosed, TimerFires, FlushEnds
  <2>5. CASE Writer
    BY <1>3, <2>1, <2>5, WriterFrame
  <2>6. CASE Reader \/ Cancel \/ CancelStop \/ ProbeEnds \/ KeylogEnds \/ KeylogShutdown
               \/ KeylogCheckErr \/ KeylogStopClose \/ Terminated
    BY <1>3, <2>1, <2>6, ReaderFrame, OutsideFrame DEF delayVars, Outside, Keylog
  <2> QED BY <1>9, <2>2, <2>3, <2>4, <2>5, <2>6 DEF Others
<1> QED BY <1>6, <1>7, <1>8, <1>9 DEF TimedNext

(* A packet that is due needs no secret that is not in the file. *)
LEMMA DueIsSafe ==
  ASSUME TypeOK, TimedTypeOK, AgeInv, Writing, count > 0,
         RingAt(0).left = 0, RingAt(0).id \in Packets, SecretCount \in Nat
  PROVE  needs[RingAt(0).id] <= SecretCount
<1>1. PICK n \in 0 .. MaxSecrets : n = needs[RingAt(0).id]
  BY DEF TimedTypeOK
<1>2. count \in Nat /\ 0 \in 0 .. count - 1
  BY CapacityAssumption DEF TypeOK, DelayTypeOK
<1>3. SUFFICES ASSUME SecretCount < n PROVE FALSE
  BY <1>1, Clock
<1>4. n \in Secrets
  BY <1>1, <1>3, Clock DEF Secrets
<1>5. Waits(0, n)
  BY <1>1, <1>3, Clock DEF Waits
<1>6. age[n] + RingAt(0).left >= Delay
  BY <1>2, <1>4, <1>5 DEF AgeInv
<1>7. age[n] \in 0 .. Latency
  BY <1>4 DEF TimedTypeOK
<1> QED BY <1>6, <1>7, Clock

LEMMA SafeStep ==
  PlainInv /\ TimedTypeOK /\ AgeInv /\ SafeInv /\ [TimedNext]_timedVars => SafeInv'
<1> SUFFICES ASSUME PlainInv, TimedTypeOK, AgeInv, SafeInv, [TimedNext]_timedVars
             PROVE  SafeInv'
  OBVIOUS
<1>1. /\ Inv /\ TypeOK /\ DelayTypeOK /\ count \in Nat /\ seen \in Nat
      /\ 1 .. seen \subseteq Packets /\ needs \in [Packets -> 0 .. MaxSecrets]
  BY Numbers, BoundAssumption DEF PlainInv, Inv, TypeOK, TimedTypeOK, ReadTypeOK, Packets
<1>2. /\ SecretCount \in Nat /\ SecretCount' \in Nat /\ SecretCount <= SecretCount'
      /\ Writing' => Writing
  BY <1>1, FileGrows, TimedStep
<1>3. ASSUME NEW p \in 1 .. seen, Safe(p) PROVE Safe(p)'
  <2>1. p \in Packets /\ needs'[p] = needs[p] /\ forced \subseteq forced'
    BY <1>1, TimedFrame
  <2>2. needs[p] \in Nat
    BY <1>1, <2>1, Clock
  <2> QED BY <1>2, <1>3, <2>1, <2>2 DEF Safe
<1>4. CASE PopTimed
  <2>1. /\ Pop /\ UNCHANGED <<wpc, wmsg, needs>> /\ dpkt'.id = RingAt(0).id /\ count > 0
        /\ forced' = IF due > 0 THEN forced ELSE forced \cup {dpkt'.id}
    BY <1>1, <1>4, PopRing, DelayFrame DEF PopTimed, Pop, Delayer, writeVars
  <2>2. PICK p : p = RingAt(0).id /\ p = dpkt'.id
    BY <2>1
  <2>3. p \in 1 .. seen /\ p \in Packets
    BY <1>1, <2>1, <2>2, Received
  <2>4. Writing => Safe(p)'
    <3>1. CASE due > 0
      <4>1. RingAt(0).left = 0
        BY <1>1, <2>1, <3>1 DEF PlainInv, ClockInv, DueInv, Pop
      <4>2. SUFFICES ASSUME Writing PROVE Safe(p)'
        OBVIOUS
      <4>3. needs[p] <= SecretCount
        BY <1>1, <1>2, <2>1, <2>2, <2>3, <4>1, <4>2, DueIsSafe
      <4> QED BY <1>3, <2>3, <4>3 DEF Safe
    <3>2. CASE ~(due > 0)
      BY <2>1, <2>2, <3>2 DEF Safe
    <3> QED BY <3>1, <3>2
  <2>5. wpc = "packet" => Safe(wmsg.id)'
    <3>1. wpc = "packet" => wmsg.id \in 1 .. seen /\ Safe(wmsg.id)
      BY <1>1, Received DEF SafeInv
    <3>2. PICK q : q = wmsg.id
      OBVIOUS
    <3>3. wpc = "packet" => Safe(q)'
      BY <1>3, <3>1, <3>2
    <3> QED BY <2>1, <3>2, <3>3 DEF Safe
  <2> QED BY <1>2, <2>1, <2>2, <2>4, <2>5 DEF SafeInv, Safe
<1>5. CASE ~PopTimed
  <2>1. /\ dpc' = "offer" => dpc = "offer" /\ dpkt' = dpkt
        /\ wpc' = "packet" => \/ wpc = "packet" /\ wmsg' = wmsg
                              \/ dpc = "offer" /\ Writing /\ wmsg' = dpkt
    <3>1. CASE UNCHANGED <<dpc, dpkt, wpc, wmsg>>
      BY <3>1
    <3>2. CASE HookHit \/ EventArrives \/ PacketArrives \/ TickTimed \/ UNCHANGED timedVars
      <4>1. UNCHANGED <<dpc, dpkt, wpc, wmsg>>
        BY <3>2, OutsideFrame, ReaderFrame
           DEF HookHit, EventArrives, PacketArrives, TickTimed, Tick, timedVars, vars, delayVars,
               writeVars, Outside, Keylog
      <4> QED BY <3>1, <4>1
    <3>3. CASE Others
      <4>1. CASE TakePacket \/ PacketsClosed \/ TimerFires \/ SelectShutdown \/ OfferShutdown \/ FlushEnds
        <5>1. UNCHANGED <<wpc, wmsg>>
          BY <4>1, DelayFrame DEF Delayer, writeVars
        <5>2. dpc' # "offer"
          BY <4>1 DEF TakePacket, PacketsClosed, TimerFires, SelectShutdown, OfferShutdown,
            FlushEnds, SendDue, Discard
        <5> QED BY <5>1, <5>2
      <4>2. CASE TakeReady
        BY <4>2 DEF TakeReady, Running, Writing
      <4>3. CASE Writer /\ ~TakeReady
        <5>1. UNCHANGED <<dpc, dpkt>>
          BY <4>3, WriterFrame
        <5>2. wpc' = "packet" => wpc = "packet" /\ wmsg' = wmsg
          BY <4>3 DEF Writer, TakeSecret, SourceClosed, WriteSecret, WritePacket, Written,
            FlushBatch, FinalFlush, Flush, AwaitCapture, Return, ReturnClose, Running
        <5> QED BY <5>1, <5>2
      <4>4. CASE Reader \/ Cancel \/ CancelStop \/ ProbeEnds \/ KeylogEnds \/ KeylogShutdown
                   \/ KeylogCheckErr \/ KeylogStopClose \/ Terminated
        <5>1. UNCHANGED <<dpc, dpkt, wpc, wmsg>>
          BY <4>4, OutsideFrame, ReaderFrame DEF delayVars, writeVars, Outside, Keylog
        <5> QED BY <3>1, <5>1
      <4> QED BY <3>3, <4>1, <4>2, <4>3, <4>4 DEF Others
    <3> QED BY <1>5, <3>2, <3>3 DEF TimedNext
  <2>2. PICK p, q : p = dpkt.id /\ q = wmsg.id
    OBVIOUS
  <2>3. /\ dpc = "offer" /\ Writing => Safe(p)'
        /\ wpc = "packet" => Safe(q)'
    BY <1>1, <1>3, <2>2, Received DEF SafeInv
  <2>4. /\ dpc' = "offer" => dpc = "offer" /\ dpkt'.id = p
        /\ wpc' = "packet" => \/ wpc = "packet" /\ wmsg'.id = q
                              \/ dpc = "offer" /\ Writing /\ wmsg'.id = p
    BY <2>1, <2>2
  <2> QED BY <1>2, <2>3, <2>4 DEF SafeInv, Safe
<1> QED BY <1>4, <1>5

LEMMA FirstStep ==
  PlainInv /\ TimedTypeOK /\ KeyedInv /\ SafeInv /\ SecretsFirst /\ [TimedNext]_timedVars
    => SecretsFirst'
<1> SUFFICES ASSUME PlainInv, TimedTypeOK, KeyedInv, SafeInv, SecretsFirst, [TimedNext]_timedVars
             PROVE  SecretsFirst'
  OBVIOUS
<1>1. /\ Inv /\ TypeOK /\ SecretCount \in Nat /\ seen \in Nat /\ 1 .. seen \subseteq Packets
      /\ needs \in [Packets -> 0 .. MaxSecrets]
      /\ \A p \in 1 .. seen : needs'[p] = needs[p]
      /\ forced \subseteq forced' /\ (~PopTimed => forced' = forced)
  BY SMTT(30), Numbers, TimedFrame, BoundAssumption DEF PlainInv, Inv, TypeOK, TimedTypeOK, ReadTypeOK, Packets
<1>2. /\ file \in Seq(Blocks) /\ Len(file) \in Nat /\ DOMAIN file = 1 .. Len(file)
      /\ \A i \in 1 .. Len(file) : file[i].kind = "pkt" => file[i].id \in 1 .. seen
  BY <1>1, LenProperties, Received DEF TypeOK, WriteTypeOK, Blocks, Kinds
<1>3. CASE file' = file
  BY <1>1, <1>2, <1>3 DEF SecretsFirst
<1>4. ASSUME NEW b \in Blocks, file' = Append(file, b),
             b.kind = "pkt" => b.id \in 1 .. seen /\ Safe(b.id)
      PROVE  SecretsFirst'
  <2>1. /\ DOMAIN file' = 1 .. Len(file) + 1 /\ file'[Len(file) + 1] = b
        /\ \A i \in 1 .. Len(file) : file'[i] = file[i]
    BY <1>2, <1>4, AppendProperties, LenProperties
  <2>2. SUFFICES ASSUME NEW i \in 1 .. Len(file) + 1, file'[i].kind = "pkt", file'[i].id \notin forced',
                        NEW s \in 1 .. needs'[file'[i].id]
                 PROVE  \E j \in 1 .. i - 1 : file'[j] = KeyBlock(s)
    BY <2>1 DEF SecretsFirst
  <2>3. CASE i \in 1 .. Len(file)
    <3>1. /\ file'[i] = file[i] /\ file[i].kind = "pkt" /\ file[i].id \notin forced
          /\ s \in 1 .. needs[file[i].id]
      BY <1>1, <1>2, <2>1, <2>2, <2>3
    <3>2. PICK j \in 1 .. i - 1 : file[j] = KeyBlock(s)
      BY <1>2, <2>3, <3>1 DEF SecretsFirst
    <3>3. j \in 1 .. Len(file)
      BY <1>2, <2>3
    <3> QED BY <2>1, <3>2, <3>3
  <2>4. CASE i = Len(file) + 1
    <3>1. b.kind = "pkt" /\ b.id \in 1 .. seen /\ s \in 1 .. needs[b.id] /\ b.id \notin forced
      BY <1>1, <1>4, <2>1, <2>2, <2>4
    <3>2. needs[b.id] <= SecretCount /\ needs[b.id] \in Nat
      BY <1>1, <1>4, <3>1, Clock DEF Safe
    <3>3. s \in 1 .. SecretCount
      BY <1>1, <3>1, <3>2
    <3>4. PICK j \in 1 .. Len(file) : file[j] = KeyBlock(s)
      BY <1>2, <3>3 DEF KeyedInv
    <3>5. j \in 1 .. i - 1 /\ file'[j] = file[j]
      BY <1>2, <2>1, <2>4
    <3> QED BY <3>4, <3>5
  <2> QED BY <1>2, <2>2, <2>3, <2>4
<1>5. CASE WriteSecret /\ file' = Append(file, KeyBlock(wmsg.id))
  <2>1. KeyBlock(wmsg.id) \in Blocks /\ KeyBlock(wmsg.id).kind = "key"
    BY <1>1 DEF KeyBlock, TypeOK, WriteTypeOK, Blocks, Kinds
  <2> HIDE DEF KeyBlock
  <2> QED BY <1>4, <1>5, <2>1
<1>6. CASE WritePacket /\ file' = Append(file, PktBlock(wmsg.id, BytesOf(wmsg)))
  <2>1. /\ PktBlock(wmsg.id, BytesOf(wmsg)) \in Blocks
        /\ PktBlock(wmsg.id, BytesOf(wmsg)).id = wmsg.id
    BY <1>1, BoundAssumption DEF PktBlock, BytesOf, TypeOK, WriteTypeOK, SlabTypeOK, Buffers,
      Bytes, Blocks, Kinds
  <2>2. wmsg.id \in 1 .. seen /\ Safe(wmsg.id)
    BY <1>1, <1>6, Received DEF WritePacket, SafeInv
  <2> QED BY <1>4, <1>6, <2>1, <2>2
<1>7. [Next]_vars
  BY TimedStep
<1> QED BY <1>1, <1>3, <1>5, <1>6, <1>7, FileSteps

LEMMA HistInit == TimedInit => HistInv
<1> SUFFICES ASSUME TimedInit PROVE HistInv
  OBVIOUS
<1>1. Len(file) = 0 /\ DOMAIN file = {} /\ count = 0 /\ dpc = "select" /\ wpc = "select"
      /\ hooked = 0 /\ needs = [p \in Packets |-> 0]
  BY EmptySeq DEF TimedInit, Init
<1>2. SecretCount = 0
  <2>1. {i \in DOMAIN file : file[i].kind = "key"} = {}
    BY <1>1
  <2> QED BY <2>1, FS_EmptySet DEF SecretCount, CountIn
<1> QED BY <1>1, <1>2 DEF HistInv, KeyedInv, NeedInv, AgeInv, SafeInv, SecretsFirst

(* A packet whose deadline was kept follows in the file every secret whose   *)
(* hook was hit before the packet was received: what opt.Delay is for.  The  *)
(* probe is not closed under the capture (main closes it after PcapNG has    *)
(* returned): its events on their way would never arrive.                    *)
THEOREM SecretsComeFirst == "close" \notin Faults => (TimedSpec => []SecretsFirst)
<1> SUFFICES ASSUME "close" \notin Faults PROVE TimedSpec => []SecretsFirst
  OBVIOUS
<1>1. PlainInv /\ PlainInv' /\ TimedTypeOK /\ HistInv /\ [TimedNext]_timedVars => HistInv'
  BY TimedStep, KeyedStep, NeedStep, AgeStep, SafeStep, FirstStep DEF PlainInv, Inv, HistInv
<1>2. HistInv => SecretsFirst
  BY DEF HistInv
<1> QED BY <1>1, <1>2, HistInit, PlainAlways, TimedTypeCorrect, PTL DEF TimedSpec

=============================================================================
