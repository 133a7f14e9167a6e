---------------------------- MODULE PcapNGProofs ----------------------------
(***************************************************************************)
(* Theorems about PcapNG, for every buffer size, delay and set of faults:  *)
(* the ring never overflows, the packet memory is mapped while it is       *)
(* copied, the result is explained, the types; then, from what is on its   *)
(* way to the file, that PcapNG implements CaptureFile, that no slot of    *)
(* the slab is lost or used twice, and that what a reader of the file      *)
(* waits for is flushed.                                                   *)
(***************************************************************************)
EXTENDS PcapNG, TLAPS, FiniteSetTheorems, SequenceTheorems

-----------------------------------------------------------------------------
(* The delay ring never overflows.  The invariant adds that the number of  *)
(* entries is a number; what makes it inductive is that sendDue returns to *)
(* the select only when at most half the ring is left (More is FALSE), and *)
(* that half of the ring is less than the ring.                            *)

RingInv == count \in Nat /\ NeverOverflows

(* Half of the ring is a number of entries, and less than the ring. *)
LEMMA HalfIsLess == Buffer \div 2 \in Nat /\ Buffer \div 2 < Buffer
  BY CapacityAssumption

(* What sendDue leaves in the ring leaves room for the next packet. *)
LEMMA RingInvStep == RingInv /\ [Next]_vars => RingInv'
<1> SUFFICES ASSUME RingInv, [Next]_vars PROVE RingInv'
  OBVIOUS
<1> USE DEF RingInv, NeverOverflows, Overfull
<1>1. CASE TakePacket
  <2>1. count # Buffer
    BY <1>1, HalfIsLess, CapacityAssumption DEF TakePacket
  <2> QED BY <1>1, <2>1 DEF TakePacket, Insert, SendDue
<1>2. CASE PacketsClosed \/ TimerFires
  BY <1>2 DEF PacketsClosed, TimerFires, SendDue
<1>3. CASE SelectShutdown \/ OfferShutdown
  BY <1>3 DEF SelectShutdown, OfferShutdown, Discard
<1>4. CASE Pop
  BY <1>4 DEF Pop, More
<1>5. CASE FlushEnds
  BY <1>5, HalfIsLess DEF FlushEnds, More
<1>6. CASE Cancel \/ CancelStop \/ ProbeEnds \/ Keylog \/ ReadPacket \/ Reader
             \/ Tick \/ Terminated \/ UNCHANGED vars
  BY <1>6 DEF Cancel, CancelStop, CancelStopBegin, CancelStopClose, ProbeEnds, Keylog,
    KeylogRecv, KeylogEnds, KeylogShutdown, KeylogCheckErr, KeylogStopClose,
    KeylogUnchanged, ReadPacket, Reader, ReadError, LockForCopy, CopyPacket,
    CopyStopped, SendPacket, SendShutdown, ReadUnchanged, Tick, Terminated, vars,
    delayVars
<1>7. CASE TakeReady
  BY <1>7 DEF TakeReady, WriteUnchanged
<1>8. CASE Writer /\ ~TakeReady
  BY <1>8 DEF Writer, WriteUnchanged, TakeSecret, SourceClosed, WriteSecret,
    WritePacket, FlushBatch, FinalFlush, AwaitCapture, Return, ReturnClose
<1> QED BY <1>1, <1>2, <1>3, <1>4, <1>5, <1>6, <1>7, <1>8 DEF Next, Delayer

(* The ring starts empty. *)
LEMMA RingInvInit == Init => RingInv
  BY HalfIsLess DEF Init, RingInv, NeverOverflows, Overfull

(* dropped stays 0 and a waiting delay goroutine leaves at most half the   *)
(* ring in use: the branch at pcapng.go:353 is never taken.                *)
THEOREM RingNeverOverflows == Spec => []NeverOverflows
<1>1. RingInv => NeverOverflows
  BY DEF RingInv
<1> QED BY <1>1, RingInvInit, RingInvStep, PTL DEF Spec

-----------------------------------------------------------------------------
(* The packet memory is mapped whenever it is copied: the reader checks     *)
(* stopClosed and copies under stopMu, and Close waits for it.              *)
THEOREM CopiesAreMapped == Spec => []NoCopyAfterUnmap
<1>1. Init => NoCopyAfterUnmap
  BY DEF Init, NoCopyAfterUnmap
<1>2. NoCopyAfterUnmap /\ [Next]_vars => NoCopyAfterUnmap'
  <2> SUFFICES ASSUME NoCopyAfterUnmap, [Next]_vars PROVE NoCopyAfterUnmap'
    OBVIOUS
  <2> USE DEF NoCopyAfterUnmap
  <2>1. CASE LockForCopy
    BY <2>1 DEF LockForCopy, ReadUnchanged, stopVars
  <2>2. CASE CancelStopClose \/ KeylogStopClose \/ ReturnClose
    BY <2>2 DEF CancelStopClose, KeylogStopClose, ReturnClose, CloseHandle,
      KeylogUnchanged, WriteUnchanged, readVars
  <2>3. CASE ReadPacket \/ (Reader /\ ~LockForCopy)
    BY <2>3 DEF ReadPacket, Reader, ReadError, CopyPacket, CopyStopped, SendPacket,
      SendShutdown, ReaderExit, ReadUnchanged, stopVars
  <2>4. CASE Cancel \/ CancelStopBegin \/ ProbeEnds \/ Tick \/ Terminated \/ UNCHANGED vars
    BY <2>4 DEF Cancel, CancelStopBegin, ProbeEnds, Tick, Terminated, vars, readVars,
      stopVars
  <2>5. CASE Keylog /\ ~KeylogStopClose
    BY <2>5 DEF Keylog, KeylogRecv, KeylogEnds, KeylogShutdown, KeylogCheckErr,
      KeylogUnchanged, readVars
  <2>6. CASE Delayer
    BY <2>6 DEF Delayer, TakePacket, PacketsClosed, TimerFires, SelectShutdown, Pop,
      OfferShutdown, FlushEnds, Discard, DelayUnchanged, readVars, stopVars
  <2>7. CASE Writer /\ ~ReturnClose
    BY <2>7 DEF Writer, TakeSecret, TakeReady, SourceClosed, WriteSecret, WritePacket,
      FlushBatch, FinalFlush, AwaitCapture, Return, WriteUnchanged, readVars
  <2> QED BY <2>1, <2>2, <2>3, <2>4, <2>5, <2>6, <2>7 DEF Next, CancelStop
<1> QED BY <1>1, <1>2, PTL DEF Spec

-----------------------------------------------------------------------------
(* PcapNG never returns nil, and says "canceled" only when ctx is.  A reader *)
(* that ended without an error saw shutdownCtx cancelled, and until PcapNG   *)
(* returns only a cancelled ctx or a failed probe cancels it.                *)

Returning == wpc \in {"return", "stop", "returned"}

StopInv ==
  /\ cancelStop # "waiting" => ctxDone
  /\ kpc = "closing" => probeState = "failed"
  /\ shutdown => ctxDone \/ probeState = "failed" \/ Returning
  /\ (cancelStop = "closing" \/ kpc = "closing" \/ wpc \in {"stop", "returned"}) => shutdown
  /\ stopClosed => shutdown
  /\ capDone = "nil" => shutdown
ResultInv ==
  /\ StopInv /\ capDone \in {"none", "nil", "err"}
  /\ result # "nil" /\ (result = "canceled" => ctxDone)

(* Nothing has ended yet, and shutdownCtx is not cancelled. *)
LEMMA ResultInvInit == Init => ResultInv
  BY DEF Init, ResultInv, StopInv, Returning

(* No goroutine's step ends the reader or PcapNG without a reason. *)
LEMMA ResultInvStep == ResultInv /\ [Next]_vars => ResultInv'
<1> SUFFICES ASSUME ResultInv, [Next]_vars PROVE ResultInv'
  OBVIOUS
<1> USE DEF ResultInv, StopInv, Returning
<1>1. CASE Cancel
  BY <1>1 DEF Cancel, probeVars, readVars, writeVars
<1>2. CASE CancelStop
  BY <1>2 DEF CancelStop, CancelStopBegin, CancelStopClose, CloseHandle, probeVars,
    readVars, writeVars
<1>3. CASE ProbeEnds
  BY <1>3 DEF ProbeEnds, stopVars, readVars, writeVars
<1>4. CASE Keylog
  BY <1>4 DEF Keylog, KeylogRecv, KeylogEnds, KeylogShutdown, KeylogCheckErr,
    KeylogStopClose, KeylogUnchanged, CloseHandle, readVars, writeVars
<1>5. CASE ReadPacket \/ Reader
  BY <1>5 DEF ReadPacket, Reader, ReadError, LockForCopy, CopyPacket, CopyStopped,
    SendPacket, SendShutdown, ReaderExit, ReadUnchanged, stopVars, probeVars, writeVars
<1>6. CASE Delayer
  <2>1. DelayUnchanged
    BY <1>6 DEF Delayer, TakePacket, PacketsClosed, TimerFires, SelectShutdown, Pop,
      OfferShutdown, FlushEnds, Discard
  <2> QED BY <2>1 DEF DelayUnchanged, stopVars, probeVars, readVars, writeVars
<1>7. CASE AwaitCapture
  BY <1>7 DEF AwaitCapture, WriteUnchanged, probeVars, readVars
<1>8. CASE Writer /\ ~AwaitCapture
  BY <1>8 DEF Writer, TakeSecret, TakeReady, SourceClosed, WriteSecret, WritePacket,
    FlushBatch, FinalFlush, Return, ReturnClose, Written, Flush, CloseHandle,
    WriteUnchanged, probeVars, readVars, Running
<1>9. CASE Tick \/ Terminated \/ UNCHANGED vars
  BY <1>9 DEF Tick, Terminated, vars, stopVars, probeVars, readVars, writeVars
<1> QED BY <1>1, <1>2, <1>3, <1>4, <1>5, <1>6, <1>7, <1>8, <1>9 DEF Next

(* Every result PcapNG can return says why it ended (pcapng.go:427-440).     *)
THEOREM ResultIsExplained == Spec => []ResultExplains
<1>1. ResultInv => ResultExplains
  BY DEF ResultInv, ResultExplains
<1> QED BY <1>1, ResultInvInit, ResultInvStep, PTL DEF Spec

-----------------------------------------------------------------------------
(* Type correctness, one group of variables at a time.  TypeOK is inductive *)
(* as it stands.                                                             *)

LEMMA AtIsIndex == ASSUME head \in Index, NEW i \in Nat PROVE At(i) \in Index
  BY CapacityAssumption, Z3 DEF At, Index

(* What sendDue finds due is at most what the ring holds.                    *)
LEMMA DueIsBounded ==
  ASSUME NEW es, NEW h, NEW c \in 0 .. Buffer
  PROVE  DueNow(es, h, c) \in 0 .. Buffer
<1> DEFINE D == {i \in 0 .. c - 1 : es[(h + i) % Buffer].left = 0}
<1>1. /\ IsFiniteSet(0 .. c - 1)
      /\ Cardinality(0 .. c - 1) = IF 0 > c - 1 THEN 0 ELSE (c - 1) - 0 + 1
  BY FS_Interval, CapacityAssumption
<1>2. IsFiniteSet(D) /\ Cardinality(D) <= Cardinality(0 .. c - 1)
  BY <1>1, FS_Subset
<1>3. Cardinality(D) \in Nat
  BY <1>2, FS_CardinalityType
<1> QED BY <1>1, <1>2, <1>3, CapacityAssumption DEF DueNow

(* The context, the stops, the probe and the keylog goroutine. *)
LEMMA StopTypeStep == TypeOK /\ [Next]_vars => StopTypeOK'
<1> SUFFICES ASSUME TypeOK, [Next]_vars PROVE StopTypeOK'
  OBVIOUS
<1> USE DEF TypeOK, StopTypeOK
<1>1. CASE Cancel
  BY <1>1 DEF Cancel, probeVars
<1>2. CASE CancelStop
  BY <1>2 DEF CancelStop, CancelStopBegin, CancelStopClose, CloseHandle, probeVars
<1>3. CASE ProbeEnds
  BY <1>3 DEF ProbeEnds, stopVars
<1>4. CASE Keylog
  <2>1. CASE KeylogRecv
    BY <2>1, BoundAssumption DEF KeylogRecv, KeylogUnchanged
  <2>2. CASE KeylogEnds \/ KeylogShutdown
    BY <2>2 DEF KeylogEnds, KeylogShutdown, KeylogUnchanged
  <2>3. CASE KeylogCheckErr
    BY <2>3 DEF KeylogCheckErr, KeylogUnchanged
  <2>4. CASE KeylogStopClose
    BY <2>4 DEF KeylogStopClose, KeylogUnchanged, CloseHandle
  <2> QED BY <1>4, <2>1, <2>2, <2>3, <2>4 DEF Keylog
<1>5. CASE ReadPacket \/ Reader
  <2>1. ReadUnchanged
    BY <1>5 DEF ReadPacket, Reader, ReadError, LockForCopy, CopyPacket, CopyStopped,
      SendPacket, SendShutdown
  <2> QED BY <2>1 DEF ReadUnchanged, stopVars, probeVars
<1>6. CASE Delayer
  <2>1. DelayUnchanged
    BY <1>6 DEF Delayer, TakePacket, PacketsClosed, TimerFires, SelectShutdown, Pop,
      OfferShutdown, FlushEnds, Discard
  <2> QED BY <2>1 DEF DelayUnchanged, stopVars, probeVars
<1>7. CASE Writer
  BY <1>7 DEF Writer, TakeSecret, TakeReady, SourceClosed, WriteSecret, WritePacket,
    FlushBatch, FinalFlush, AwaitCapture, Return, ReturnClose, CloseHandle,
    WriteUnchanged, probeVars
<1>8. CASE Tick \/ Terminated \/ UNCHANGED vars
  BY <1>8 DEF Tick, Terminated, vars, stopVars, probeVars
<1> QED BY <1>1, <1>2, <1>3, <1>4, <1>5, <1>6, <1>7, <1>8 DEF Next

(* The reader, pktCh and its capacity. *)
LEMMA ReadTypeStep == TypeOK /\ [Next]_vars => ReadTypeOK'
<1> SUFFICES ASSUME TypeOK, [Next]_vars PROVE ReadTypeOK'
  OBVIOUS
<1> USE DEF TypeOK, ReadTypeOK
<1>1. CASE ReadPacket
  BY <1>1, BoundAssumption DEF ReadPacket, chanVars
<1>2. CASE ReadError \/ LockForCopy \/ CopyStopped
  BY <1>2 DEF ReadError, LockForCopy, CopyStopped, ReaderExit, chanVars
<1>3. CASE CopyPacket
  BY <1>3 DEF CopyPacket, chanVars, Buffers
<1>4. CASE SendPacket
  <2>1. [id |-> seen, slot |-> rslot] \in [id : Bytes, slot : Buffers]
    BY DEF Bytes
  <2>2. /\ pktCh' \in Seq([id : Bytes, slot : Buffers])
        /\ Len(pktCh') = Len(pktCh) + 1
    BY <1>4, <2>1, AppendProperties DEF SendPacket
  <2>3. Len(pktCh) \in Nat
    BY LenProperties
  <2> QED BY <1>4, <2>2, <2>3, CapacityAssumption DEF SendPacket, Buffers
<1>5. CASE SendShutdown
  BY <1>5 DEF SendShutdown, ReaderExit, Buffers
<1>6. CASE TakePacket
  <2>1. /\ pktCh' \in Seq([id : Bytes, slot : Buffers])
        /\ Len(pktCh') = Len(pktCh) - 1
    BY <1>6, HeadTailProperties DEF TakePacket
  <2>2. Len(pktCh) \in Nat
    BY LenProperties
  <2> QED BY <1>6, <2>1, <2>2, CapacityAssumption DEF TakePacket, DelayUnchanged, readVars
<1>7. CASE Delayer /\ ~TakePacket
  BY <1>7 DEF Delayer, PacketsClosed, TimerFires, SelectShutdown, Pop, OfferShutdown,
    FlushEnds, Discard, DelayUnchanged, readVars, chanVars
<1>8. CASE Writer
  <2>1. WriteUnchanged
    BY <1>8 DEF Writer, TakeSecret, TakeReady, SourceClosed, WriteSecret, WritePacket,
      FlushBatch, FinalFlush, AwaitCapture, Return, ReturnClose
  <2> QED BY <2>1 DEF WriteUnchanged, readVars, chanVars
<1>9. CASE Cancel \/ CancelStop \/ ProbeEnds \/ Tick \/ Terminated \/ UNCHANGED vars
  BY <1>9 DEF Cancel, CancelStop, CancelStopBegin, CancelStopClose, ProbeEnds, Tick,
    Terminated, vars, readVars, chanVars
<1>10. CASE Keylog
  BY <1>10 DEF Keylog, KeylogRecv, KeylogEnds, KeylogShutdown, KeylogCheckErr,
    KeylogStopClose, KeylogUnchanged, readVars, chanVars
<1> QED BY <1>1, <1>2, <1>3, <1>4, <1>5, <1>6, <1>7, <1>8, <1>9, <1>10 DEF Next, Reader

(* The ring: its head, its count and its entries stay in range. *)
LEMMA DelayTypeStep == TypeOK /\ [Next]_vars => DelayTypeOK'
<1> SUFFICES ASSUME TypeOK, [Next]_vars PROVE DelayTypeOK'
  OBVIOUS
<1> USE DEF TypeOK, DelayTypeOK
<1> DEFINE Entries == [id : Bytes, slot : Buffers, left : 0 .. Delay]
<1>1. /\ head \in Nat /\ Empty \in Entries
      /\ NoPkt \in [id : Bytes, slot : Buffers, last : BOOLEAN]
  BY BoundAssumption, CapacityAssumption DEF Empty, NoPkt, Bytes, Buffers, Heap, Index
<1>2. CASE TakePacket
  <2>1. Head(pktCh) \in [id : Bytes, slot : Buffers]
    BY <1>2, HeadTailProperties DEF TakePacket, ReadTypeOK
  <2>2. Entry(Delay) \in Entries
    BY <2>1, CapacityAssumption DEF Entry
  <2>3. entries' \in [Index -> Entries] /\ head' \in Index /\ count' \in 0 .. Buffer
        /\ dropped' \in Nat
    <3>1. CASE count = Buffer
      <4>1. head' \in Index
        BY <1>2, <3>1, AtIsIndex DEF TakePacket, DropOldest
      <4>2. /\ entries' = [entries EXCEPT ![head] = Entry(Delay)]
            /\ dropped' = dropped + 1 /\ count' = count
        BY <1>2, <3>1 DEF TakePacket, DropOldest
      <4> QED BY <2>2, <4>1, <4>2
    <3>2. CASE count # Buffer
      BY <1>2, <2>2, <3>2, CapacityAssumption DEF TakePacket, Insert
    <3> QED BY <3>1, <3>2
  <2>4. due' \in 0 .. Buffer
    BY <1>2, <2>3, DueIsBounded DEF TakePacket, SendDue
  <2> QED BY <1>2, <2>3, <2>4 DEF TakePacket, SendDue
<1>3. CASE PacketsClosed \/ TimerFires
  <2>1. due' \in 0 .. Buffer
    BY <1>3, DueIsBounded DEF PacketsClosed, TimerFires, SendDue
  <2> QED BY <1>3, <2>1 DEF PacketsClosed, TimerFires, SendDue
<1>4. CASE SelectShutdown \/ OfferShutdown
  <2>1. head' \in Index
    BY <1>4, AtIsIndex DEF SelectShutdown, OfferShutdown, Discard
  <2>2. entries' \in [Index -> Entries]
    BY <1>1, <1>4 DEF SelectShutdown, OfferShutdown, Discard
  <2>3. /\ count' \in 0 .. Buffer /\ dropped' \in Nat /\ due' \in 0 .. Buffer
        /\ dpc' = "done" /\ dpkt' = NoPkt
    BY <1>4, CapacityAssumption DEF SelectShutdown, OfferShutdown, Discard
  <2>4. flushAll' \in BOOLEAN /\ armed' \in BOOLEAN
    BY <1>4, Zenon DEF SelectShutdown, OfferShutdown, Discard
  <2> QED BY <1>1, <2>1, <2>2, <2>3, <2>4
<1>5. CASE Pop
  <2>1. head' \in Index
    BY <1>5, AtIsIndex DEF Pop
  <2>2. count' \in 0 .. Buffer /\ due' \in 0 .. Buffer
    BY <1>5, CapacityAssumption DEF Pop, More
  <2>3. entries[head] \in Entries /\ LastInBatch(count', due') \in BOOLEAN
    BY DEF LastInBatch, More, Overfull
  <2> QED BY <1>1, <1>5, <2>1, <2>2, <2>3 DEF Pop
<1>6. CASE FlushEnds
  <2>1. armed' \in BOOLEAN /\ flushAll' \in BOOLEAN
    BY <1>6, Zenon DEF FlushEnds
  <2> QED BY <1>6, <2>1, CapacityAssumption DEF FlushEnds
<1>7. CASE TakeReady
  BY <1>1, <1>7 DEF TakeReady, WriteUnchanged
<1>8. CASE Writer /\ ~TakeReady
  BY <1>8 DEF Writer, WriteUnchanged, TakeSecret, SourceClosed, WriteSecret,
    WritePacket, FlushBatch, FinalFlush, AwaitCapture, Return, ReturnClose
<1>9. CASE Tick
  <2>1. \A i \in Index : entries'[i] \in Entries
    BY <1>9, CapacityAssumption DEF Tick, Aged
  <2> QED BY <1>9, <2>1 DEF Tick
<1>10. CASE Cancel \/ CancelStop \/ ProbeEnds \/ Keylog \/ ReadPacket \/ Reader
             \/ Terminated \/ UNCHANGED vars
  BY <1>10 DEF Cancel, CancelStop, CancelStopBegin, CancelStopClose, ProbeEnds, Keylog,
    KeylogRecv, KeylogEnds, KeylogShutdown, KeylogCheckErr, KeylogStopClose,
    KeylogUnchanged, ReadPacket, Reader, ReadError, LockForCopy, CopyPacket,
    CopyStopped, SendPacket, SendShutdown, ReadUnchanged, Terminated, vars, delayVars
<1> QED BY <1>2, <1>3, <1>4, <1>5, <1>6, <1>7, <1>8, <1>9, <1>10 DEF Next, Delayer

(* The writer, what it has received, the file and how much of it is flushed. *)
LEMMA WriteTypeStep == TypeOK /\ [Next]_vars => WriteTypeOK'
<1> SUFFICES ASSUME TypeOK, [Next]_vars PROVE WriteTypeOK'
  OBVIOUS
<1> USE DEF TypeOK, WriteTypeOK
<1> DEFINE Blocks == [kind : {"key", "pkt"}, id : Nat, bytes : Nat]
<1>1. NoPkt \in [id : Nat, slot : Buffers, last : BOOLEAN] /\ Len(file) \in Nat
  BY LenProperties DEF NoPkt, Buffers, Heap
<1>2. CASE TakeSecret
  BY <1>2, BoundAssumption DEF TakeSecret, StopTypeOK, Buffers
<1>3. CASE TakeReady
  BY <1>3, BoundAssumption DEF TakeReady, DelayTypeOK, Bytes
<1>4. CASE SourceClosed
  BY <1>4 DEF SourceClosed
<1>5. CASE WriteSecret
  <2>1. KeyBlock(wmsg.id) \in Blocks
    BY DEF KeyBlock
  <2>2. /\ Append(file, KeyBlock(wmsg.id)) \in Seq(Blocks)
        /\ Len(Append(file, KeyBlock(wmsg.id))) = Len(file) + 1
    BY <2>1, AppendProperties
  <2>3. file' = file \/ file' = Append(file, KeyBlock(wmsg.id))
    BY <1>5 DEF WriteSecret, Written
  <2>4. file' \in Seq(Blocks) /\ flushed' \in 0 .. Len(file')
    <3>1. flushed' = flushed
      BY <1>5 DEF WriteSecret
    <3>2. CASE file' = file
      BY <3>1, <3>2
    <3>3. CASE file' # file
      <4>1. file' \in Seq(Blocks) /\ Len(file') = Len(file) + 1
        BY <2>2, <2>3, <3>3
      <4>2. flushed \in Nat /\ flushed <= Len(file)
        BY <1>1
      <4>3. flushed \in 0 .. Len(file) + 1
        BY <1>1, <4>2
      <4> QED BY <3>1, <4>1, <4>3
    <3> QED BY <3>2, <3>3
  <2>5. /\ wpc' \in {"select", "flush", "return"} /\ result' \in {result, "write"}
        /\ wmsg' = NoPkt /\ UNCHANGED <<keyOpen, readyOpen>>
    BY <1>5 DEF WriteSecret, Written
  <2> QED BY <1>1, <2>4, <2>5
<1>6. CASE WritePacket
  <2>1. PktBlock(wmsg.id, BytesOf(wmsg)) \in Blocks
    BY BoundAssumption DEF PktBlock, BytesOf, SlabTypeOK, Buffers, Bytes
  <2>2. /\ Append(file, PktBlock(wmsg.id, BytesOf(wmsg))) \in Seq(Blocks)
        /\ Len(Append(file, PktBlock(wmsg.id, BytesOf(wmsg)))) = Len(file) + 1
    BY <2>1, AppendProperties
  <2>3. file' = file \/ file' = Append(file, PktBlock(wmsg.id, BytesOf(wmsg)))
    BY <1>6 DEF WritePacket, Written
  <2>4. file' \in Seq(Blocks) /\ flushed' \in 0 .. Len(file')
    <3>1. flushed' = flushed
      BY <1>6 DEF WritePacket
    <3>2. CASE file' = file
      BY <3>1, <3>2
    <3>3. CASE file' # file
      <4>1. file' \in Seq(Blocks) /\ Len(file') = Len(file) + 1
        BY <2>2, <2>3, <3>3
      <4>2. flushed \in Nat /\ flushed <= Len(file)
        BY <1>1
      <4>3. flushed \in 0 .. Len(file) + 1
        BY <1>1, <4>2
      <4> QED BY <3>1, <4>1, <4>3
    <3> QED BY <3>2, <3>3
  <2>5. /\ wpc' \in {"select", "flush", "return"} /\ result' \in {result, "write"}
        /\ wmsg' = NoPkt /\ UNCHANGED <<keyOpen, readyOpen>>
    BY <1>6 DEF WritePacket, Written
  <2> QED BY <1>1, <2>4, <2>5
<1>7. CASE FlushBatch \/ FinalFlush
  BY <1>1, <1>7 DEF FlushBatch, FinalFlush, Flush
<1>8. CASE AwaitCapture
  BY <1>8 DEF AwaitCapture
<1>9. CASE Return \/ ReturnClose
  BY <1>9 DEF Return, ReturnClose
<1>10. CASE Cancel \/ CancelStop \/ ProbeEnds \/ ReadPacket \/ Reader
             \/ Terminated \/ UNCHANGED vars
  BY <1>10 DEF Cancel, CancelStop, CancelStopBegin, CancelStopClose, ProbeEnds,
    ReadPacket, Reader, ReadError, LockForCopy, CopyPacket, CopyStopped, SendPacket,
    SendShutdown, ReadUnchanged, Terminated, vars, writeVars
<1>11. CASE Keylog
  BY <1>11 DEF Keylog, KeylogRecv, KeylogEnds, KeylogShutdown, KeylogCheckErr,
    KeylogStopClose, KeylogUnchanged, writeVars
<1>12. CASE Delayer
  <2>1. DelayUnchanged
    BY <1>12 DEF Delayer, TakePacket, PacketsClosed, TimerFires, SelectShutdown, Pop,
      OfferShutdown, FlushEnds, Discard
  <2> QED BY <2>1 DEF DelayUnchanged, writeVars
<1>13. CASE Tick
  BY <1>13 DEF Tick, writeVars
<1> QED BY <1>2, <1>3, <1>4, <1>5, <1>6, <1>7, <1>8, <1>9, <1>10, <1>11, <1>12, <1>13
        DEF Next, Writer

(* The slab: only slots are ever in the pool. *)
LEMMA SlabTypeStep == TypeOK /\ [Next]_vars => SlabTypeOK'
<1> SUFFICES ASSUME TypeOK, [Next]_vars PROVE SlabTypeOK'
  OBVIOUS
<1> USE DEF TypeOK, SlabTypeOK
<1>1. ASSUME NEW S \in SUBSET Buffers, Release(S) PROVE SlabTypeOK'
  <2>1. pool' \subseteq Slots
    BY <1>1 DEF Release, Buffers
  <2>2. content' \in [Slots -> Bytes]
    BY <1>1, BoundAssumption DEF Release, Bytes
  <2>3. panicked' \in BOOLEAN
    BY <1>1 DEF Release
  <2> QED BY <2>1, <2>2, <2>3
<1>2. CASE CopyPacket
  <2>1. PICK slot \in Buffers : Alloc(seen, slot)
    BY <1>2 DEF CopyPacket, Buffers
  <2>2. content' \in [Slots -> Bytes]
    BY <2>1 DEF Alloc, ReadTypeOK, Bytes
  <2> QED BY <1>2, <2>1, <2>2 DEF CopyPacket, Alloc
<1>3. CASE SendShutdown
  <2>1. Release({rslot}) /\ {rslot} \in SUBSET Buffers
    BY <1>3 DEF SendShutdown, ReadTypeOK
  <2> QED BY <1>1, <2>1
<1>4. CASE TakePacket
  <2>1. CASE count = Buffer
    <3>1. Release({entries[head].slot}) /\ {entries[head].slot} \in SUBSET Buffers
      BY <1>4, <2>1 DEF TakePacket, DropOldest, DelayTypeOK
    <3> QED BY <1>1, <3>1
  <2>2. CASE count # Buffer
    BY <1>4, <2>2 DEF TakePacket, Insert, slabVars
  <2> QED BY <2>1, <2>2
<1>5. ASSUME NEW H \in SUBSET Buffers, Discard(H) PROVE SlabTypeOK'
  <2> DEFINE S == {entries[i].slot : i \in Buffered} \cup H
  <2>1. \A i \in Buffered : entries[i].slot \in Buffers
    BY AtIsIndex DEF Buffered, DelayTypeOK
  <2>2. S \in SUBSET Buffers
    BY <2>1
  <2>3. Release(S)
    BY <1>5 DEF Discard
  <2> QED BY <1>1, <2>2, <2>3
<1>6. CASE SelectShutdown
  BY <1>5, <1>6 DEF SelectShutdown
<1>7. CASE OfferShutdown
  BY <1>5, <1>7 DEF OfferShutdown, DelayTypeOK
<1>8. CASE WritePacket
  <2>1. Release({wmsg.slot}) /\ {wmsg.slot} \in SUBSET Buffers
    BY <1>8 DEF WritePacket, WriteTypeOK
  <2> QED BY <1>1, <2>1
<1>9. CASE PacketsClosed \/ TimerFires \/ Pop \/ FlushEnds
  BY <1>9 DEF PacketsClosed, TimerFires, Pop, FlushEnds, slabVars
<1>10. CASE ReadPacket \/ ReadError \/ LockForCopy \/ CopyStopped \/ SendPacket
  BY <1>10 DEF ReadPacket, ReadError, LockForCopy, CopyStopped, SendPacket, slabVars
<1>11. CASE Writer /\ ~WritePacket
  BY <1>11 DEF Writer, TakeSecret, TakeReady, SourceClosed, WriteSecret, FlushBatch,
    FinalFlush, AwaitCapture, Return, ReturnClose, slabVars
<1>12. CASE Cancel \/ CancelStop \/ ProbeEnds \/ Tick \/ Terminated \/ UNCHANGED vars
  BY <1>12 DEF Cancel, CancelStop, CancelStopBegin, CancelStopClose, ProbeEnds, Tick,
    Terminated, vars, slabVars
<1>13. CASE Keylog
  BY <1>13 DEF Keylog, KeylogRecv, KeylogEnds, KeylogShutdown, KeylogCheckErr,
    KeylogStopClose, KeylogUnchanged, slabVars
<1> QED BY <1>2, <1>3, <1>4, <1>6, <1>7, <1>8, <1>9, <1>10, <1>11, <1>12, <1>13
        DEF Next, Reader, Delayer

(* The state PcapNG starts its goroutines in. *)
LEMMA TypeInit == Init => TypeOK
<1> SUFFICES ASSUME Init PROVE TypeOK
  OBVIOUS
<1>1. /\ ctxDone \in BOOLEAN /\ shutdown \in BOOLEAN /\ stopClosed \in BOOLEAN
      /\ pktClosed \in BOOLEAN /\ flushAll \in BOOLEAN /\ armed \in BOOLEAN
      /\ keyOpen \in BOOLEAN /\ readyOpen \in BOOLEAN /\ panicked \in BOOLEAN
  BY Zenon DEF Init
<1>2. StopTypeOK
  BY <1>1, BoundAssumption DEF StopTypeOK, Init
<1>3. ReadTypeOK
  <2>1. pktCh \in Seq([id : Bytes, slot : Buffers]) /\ Len(pktCh) = 0
    BY EmptySeq DEF Init
  <2> QED BY <1>1, <2>1, BoundAssumption, CapacityAssumption DEF ReadTypeOK, Buffers, Init
<1>4. DelayTypeOK
  <2>1. NoPkt \in [id : Bytes, slot : Buffers, last : BOOLEAN]
    BY BoundAssumption DEF NoPkt, Bytes, Buffers, Heap
  <2>2. Empty \in [id : Bytes, slot : Buffers, left : 0 .. Delay]
    BY BoundAssumption, CapacityAssumption DEF Empty, Bytes, Buffers, Heap
  <2>3. entries \in [Index -> [id : Bytes, slot : Buffers, left : 0 .. Delay]]
    BY <2>2 DEF Init
  <2> QED BY <1>1, <2>1, <2>3, CapacityAssumption DEF DelayTypeOK, Index, Init
<1>5. WriteTypeOK
  BY <1>1, EmptySeq DEF WriteTypeOK, NoPkt, Buffers, Heap, Init
<1>6. SlabTypeOK
  BY <1>1, BoundAssumption DEF SlabTypeOK, Bytes, Init
<1> QED BY <1>2, <1>3, <1>4, <1>5, <1>6 DEF TypeOK

(* Every variable keeps its type: in particular the ring's head and count   *)
(* stay in the ring, pktCh within its capacity, and every buffer that is     *)
(* handed on is a slot of the slab or a heap buffer.                         *)
THEOREM TypeCorrect == Spec => []TypeOK
<1>1. TypeOK /\ [Next]_vars => TypeOK'
  <2> SUFFICES ASSUME TypeOK, [Next]_vars PROVE TypeOK'
    OBVIOUS
  <2> QED BY StopTypeStep, ReadTypeStep, DelayTypeStep, WriteTypeStep, SlabTypeStep
          DEF TypeOK
<1> QED BY TypeInit, <1>1, PTL DEF Spec

-----------------------------------------------------------------------------
(* The blocks of a file, by kind. *)

Kinds  == {"key", "pkt"}
Blocks == [kind : Kinds, id : Nat, bytes : Nat]

CountIn(f, kind) == Cardinality({i \in DOMAIN f : f[i].kind = kind})
IdsIn(f, kind)   == {f[i].id : i \in {j \in DOMAIN f : f[j].kind = kind}}
PacketCount == CountIn(file, "pkt")
SecretCount == CountIn(file, "key")

(* A file holds a number of blocks of each kind. *)
LEMMA CountIsNat ==
  ASSUME NEW f \in Seq(Blocks), NEW k \in Kinds
  PROVE  CountIn(f, k) \in Nat
<1> DEFINE D == {i \in DOMAIN f : f[i].kind = k}
<1>1. DOMAIN f = 1 .. Len(f) /\ Len(f) \in Nat
  BY LenProperties
<1>2. IsFiniteSet(1 .. Len(f))
  BY <1>1, FS_Interval
<1>3. IsFiniteSet(D)
  BY <1>1, <1>2, FS_Subset
<1> QED BY <1>3, FS_CardinalityType DEF CountIn

(* A block that is appended counts once, for its kind. *)
LEMMA CountAppend ==
  ASSUME NEW f \in Seq(Blocks), NEW b \in Blocks, NEW k \in Kinds
  PROVE  CountIn(Append(f, b), k) = CountIn(f, k) + (IF b.kind = k THEN 1 ELSE 0)
<1> DEFINE D(g) == {i \in DOMAIN g : g[i].kind = k}
<1> DEFINE fb == Append(f, b)
<1>1. DOMAIN f = 1 .. Len(f) /\ Len(f) \in Nat
  BY LenProperties
<1>2. /\ DOMAIN fb = 1 .. Len(f) + 1 /\ fb[Len(f) + 1] = b
      /\ \A i \in 1 .. Len(f) : fb[i] = f[i]
  BY <1>1, AppendProperties, LenProperties
<1>3. D(fb) = IF b.kind = k THEN D(f) \cup {Len(f) + 1} ELSE D(f)
  BY <1>1, <1>2
<1>4. IsFiniteSet(D(f)) /\ Cardinality(D(f)) \in Nat
  <2>1. IsFiniteSet(1 .. Len(f))
    BY <1>1, FS_Interval
  <2>2. IsFiniteSet(D(f))
    BY <1>1, <2>1, FS_Subset
  <2> QED BY <2>2, FS_CardinalityType
<1>5. Len(f) + 1 \notin D(f)
  BY <1>1
<1>6. Cardinality(D(f) \cup {Len(f) + 1}) = Cardinality(D(f)) + 1
  BY <1>4, <1>5, FS_AddElement
<1>7. Cardinality(D(fb)) = Cardinality(D(f)) + (IF b.kind = k THEN 1 ELSE 0)
  <2>1. CASE b.kind = k
    <3>1. D(fb) = D(f) \cup {Len(f) + 1}
      BY <1>3, <2>1, Zenon
    <3> HIDE DEF D
    <3> QED BY <1>6, <2>1, <3>1
  <2>2. CASE b.kind # k
    <3>1. D(fb) = D(f)
      BY <1>3, <2>2, Zenon
    <3> HIDE DEF D
    <3> QED BY <1>4, <2>2, <3>1
  <2> QED BY <2>1, <2>2
<1> QED BY <1>7 DEF CountIn

(* ... and adds its id to those of its kind. *)
LEMMA IdsAppend ==
  ASSUME NEW f \in Seq(Blocks), NEW b \in Blocks, NEW k \in Kinds
  PROVE  IdsIn(Append(f, b), k) = IdsIn(f, k) \cup (IF b.kind = k THEN {b.id} ELSE {})
<1> DEFINE fb == Append(f, b)
<1>1. DOMAIN f = 1 .. Len(f) /\ Len(f) \in Nat
  BY LenProperties
<1>2. /\ DOMAIN fb = 1 .. Len(f) + 1 /\ fb[Len(f) + 1] = b
      /\ \A i \in 1 .. Len(f) : fb[i] = f[i]
  BY <1>1, AppendProperties, LenProperties
<1> HIDE DEF fb
<1>3. ASSUME NEW x
      PROVE  x \in IdsIn(fb, k) <=> x \in IdsIn(f, k) \/ (b.kind = k /\ x = b.id)
  BY <1>1, <1>2 DEF IdsIn
<1> QED BY <1>3 DEF fb

-----------------------------------------------------------------------------
(* The delay ring as a queue: its i-th entry is at the i-th index after the *)
(* head, modulo the size of the ring.                                       *)

RingAt(i) == entries[At(i)]

(* Within one turn of the ring, an index wraps at most once. *)
LEMMA IndexWraps ==
  ASSUME NEW h \in Index, NEW i \in 0 .. Buffer
  PROVE  (h + i) % Buffer = IF h + i < Buffer THEN h + i ELSE h + i - Buffer
<1>1. Buffer \in Nat /\ Buffer > 0 /\ h \in Nat /\ h < Buffer /\ i \in Nat /\ i <= Buffer
  BY CapacityAssumption DEF Index
<1>2. CASE h + i < Buffer
  BY <1>1, <1>2, Z3
<1>3. CASE h + i >= Buffer
  BY <1>1, <1>3, Z3
<1> QED BY <1>1, <1>2, <1>3

(* Insert puts the packet behind the entries of the ring. *)
LEMMA InsertRing ==
  ASSUME DelayTypeOK, count < Buffer, Insert
  PROVE  /\ \A i \in 0 .. count - 1 : RingAt(i)' = RingAt(i)
         /\ entries'[(head' + count) % Buffer] = Entry(Delay)
<1>1. /\ head \in Index /\ count \in 0 .. Buffer /\ head' = head
      /\ entries' = [entries EXCEPT ![At(count)] = Entry(Delay)]
  BY DEF DelayTypeOK, Insert
<1>2. At(count) \in Index /\ entries \in [Index -> [id : Bytes, slot : Buffers, left : 0 .. Delay]]
  BY <1>1, AtIsIndex DEF DelayTypeOK
<1>3. ASSUME NEW i \in 0 .. count - 1 PROVE At(i) # At(count) /\ At(i) \in Index
  <2>1. /\ i \in 0 .. Buffer /\ count \in 0 .. Buffer /\ i \in Nat
        /\ head \in Nat /\ head < Buffer /\ Buffer \in Nat
    BY <1>1, CapacityAssumption DEF Index
  <2>2. At(i) = IF head + i < Buffer THEN head + i ELSE head + i - Buffer
    BY <1>1, <2>1, IndexWraps, Zenon DEF At
  <2>3. At(count) = IF head + count < Buffer THEN head + count ELSE head + count - Buffer
    BY <1>1, <2>1, IndexWraps, Zenon DEF At
  <2> QED BY <1>1, <2>1, <2>2, <2>3 DEF Index
<1>4. \A i : At(i)' = At(i)
  BY <1>1, Zenon DEF At
<1>5. \A i \in 0 .. count - 1 : RingAt(i)' = RingAt(i)
  <2> SUFFICES ASSUME NEW i \in 0 .. count - 1 PROVE entries'[At(i)'] = entries[At(i)]
    BY Zenon DEF RingAt
  <2>1. At(i)' = At(i)
    BY <1>4, Zenon
  <2> HIDE DEF At
  <2> QED BY <1>1, <1>2, <1>3, <2>1
<1>6. entries'[At(count)] = Entry(Delay)
  BY <1>1, <1>2
<1> QED BY <1>1, <1>5, <1>6 DEF At

(* Pop takes the first entry off the ring. *)
LEMMA PopRing ==
  ASSUME DelayTypeOK, Pop
  PROVE  /\ \A i \in 0 .. count - 2 : RingAt(i)' = RingAt(i + 1)
         /\ count \in Nat \ {0} /\ count' = count - 1
         /\ dpkt'.id = RingAt(0).id /\ dpkt'.slot = RingAt(0).slot
<1>1. /\ head \in Index /\ count \in 1 .. Buffer /\ head' = At(1) /\ count' = count - 1
      /\ entries' = [entries EXCEPT ![head] = Empty]
      /\ dpkt'.id = entries[head].id /\ dpkt'.slot = entries[head].slot
  BY DEF DelayTypeOK, Pop, More
<1>2. At(0) = head
  <2>1. 0 \in 0 .. Buffer /\ head \in Nat /\ head < Buffer
    BY <1>1, CapacityAssumption DEF Index
  <2>2. At(0) = IF head + 0 < Buffer THEN head + 0 ELSE head + 0 - Buffer
    BY <1>1, <2>1, IndexWraps, Zenon DEF At
  <2> QED BY <2>1, <2>2
<1>3. \A i \in 0 .. count - 2 : At(i)' = At(i + 1) /\ At(i + 1) # head
  <2> SUFFICES ASSUME NEW i \in 0 .. count - 2
               PROVE  At(i)' = At(i + 1) /\ At(i + 1) # head
    OBVIOUS
  <2>0. /\ i \in 0 .. Buffer /\ 1 \in 0 .. Buffer /\ i + 1 \in 0 .. Buffer /\ i + 2 <= Buffer
        /\ head \in Nat /\ head < Buffer /\ Buffer \in Nat /\ i \in Nat
    BY <1>1, CapacityAssumption DEF Index
  <2>1. At(1) = IF head + 1 < Buffer THEN head + 1 ELSE head + 1 - Buffer
    BY <1>1, <2>0, IndexWraps, Zenon DEF At
  <2>2. At(i + 1) = IF head + (i + 1) < Buffer THEN head + (i + 1) ELSE head + (i + 1) - Buffer
    BY <1>1, <2>0, IndexWraps, Zenon DEF At
  <2>3. head' \in Index
    BY <1>1, AtIsIndex
  <2>4. At(i)' = IF head' + i < Buffer THEN head' + i ELSE head' + i - Buffer
    BY <2>0, <2>3, IndexWraps, Zenon DEF At
  <2> HIDE DEF At
  <2> QED BY <1>1, <2>0, <2>1, <2>2, <2>4
<1>4. \A i \in 0 .. count - 2 : At(i + 1) \in Index
  BY <1>1, AtIsIndex
<1> QED BY <1>1, <1>2, <1>3, <1>4 DEF RingAt, DelayTypeOK

(* Time changes neither the packets of the ring nor their buffers. *)
LEMMA TickRing ==
  ASSUME DelayTypeOK, Tick
  PROVE  \A i \in Nat : RingAt(i)'.id = RingAt(i).id /\ RingAt(i)'.slot = RingAt(i).slot
<1>1. head \in Index /\ head' = head
  BY DEF DelayTypeOK, Tick
<1>2. \A i \in Nat : At(i)' = At(i) /\ At(i) \in Index
  BY <1>1, AtIsIndex DEF At
<1>3. \A j \in Index : entries'[j].id = entries[j].id /\ entries'[j].slot = entries[j].slot
  BY DEF Tick, Aged
<1> QED BY <1>2, <1>3 DEF RingAt

-----------------------------------------------------------------------------
(* The inductive invariant, in parts.                                       *)

(* How the goroutines end: what has ended by itself has left nothing behind, *)
(* and PcapNG gets to its result through the last flush, unless a write      *)
(* failed.                                                                   *)
ExitInv ==
  /\ dpc = "done" => count = 0
  /\ pktClosed <=> (rpc = "done")
  /\ (capDone = "none") <=> (rpc # "done")
  /\ flushAll => pktCh = <<>> /\ pktClosed
  /\ dpc = "done" /\ ~shutdown => pktCh = <<>> /\ pktClosed
  /\ result = "write" => Returning
  /\ ~readyOpen => dpc = "done"
  /\ wpc = "capdone" \/ (Returning /\ result # "write") => ~readyOpen /\ flushed = Len(file)
  /\ result = "capture" => capDone = "err"

(* The packets on their way, when n packets have been sent to pktCh: pktCh   *)
(* holds the last of them, the ring those before, the packet on offer comes  *)
(* before these, and the writer has written, or has in hand, those before it *)
(* - all of them, until a shutdown or a failed write.                        *)
InHand(at) == IF wpc = at THEN 1 ELSE 0
Passed(n)  == n - Len(pktCh) - count - (IF dpc = "offer" THEN 1 ELSE 0)
Sent(n) ==
  /\ n <= seen
  /\ rpc = "read" \/ capDone = "err" => n = seen
  /\ rpc \in {"copy", "copying", "send"} => n + 1 = seen
Queued(n) ==
  /\ \A i \in 1 .. Len(pktCh) : pktCh[i].id = n - Len(pktCh) + i
  /\ \A i \in 0 .. count - 1 : RingAt(i).id = n - Len(pktCh) - count + 1 + i
  /\ dpc = "offer" => dpkt.id = Passed(n) + 1
Forwarded(n) ==
  /\ wpc = "packet" => wmsg.id = PacketCount + 1
  /\ PacketCount + InHand("packet") <= Passed(n)
  /\ (dpc # "done" \/ ~shutdown) /\ result # "write"
       => PacketCount + InHand("packet") = Passed(n)
Chain(n) == Sent(n) /\ Queued(n) /\ Forwarded(n)
ChainInv == \E n \in Nat : Chain(n)

(* The packets of the file are the first ones, each once. *)
FileInv == IdsIn(file, "pkt") = 1 .. PacketCount

(* The writer keeps up with the keylog goroutine, secret by secret. *)
SecretInv ==
  /\ wpc = "secret" => wmsg.id = SecretCount + 1
  /\ SecretCount + InHand("secret") <= taken
  /\ wpc \in {"select", "secret", "packet", "flush"} =>
       /\ kpc = "read" => taken = SecretCount + InHand("secret")
       /\ kpc = "send" => taken = SecretCount + InHand("secret") + 1

(* The packets on their way and their buffers: a slot that is held is not in *)
(* the pool and has the packet's bytes, and a slot out of the pool is held.  *)
ByReader(p, s) == rpc = "send" /\ p = seen /\ s = rslot
ByChan(p, s)   == \E i \in 1 .. Len(pktCh) : p = pktCh[i].id /\ s = pktCh[i].slot
ByRing(p, s)   == \E i \in 0 .. count - 1 : p = RingAt(i).id /\ s = RingAt(i).slot
ByDelay(p, s)  == dpc = "offer" /\ p = dpkt.id /\ s = dpkt.slot
ByWriter(p, s) == wpc = "packet" /\ p = wmsg.id /\ s = wmsg.slot
HeldBy(p, s) ==
  ByReader(p, s) \/ ByChan(p, s) \/ ByRing(p, s) \/ ByDelay(p, s) \/ ByWriter(p, s)
NoneKept ==
  /\ rpc # "send" => rslot = Heap
  /\ dpc # "offer" => dpkt.slot = Heap
  /\ wpc # "packet" => wmsg.slot = Heap
HoldInv ==
  /\ ~panicked
  /\ \A p \in Nat, s \in Slots : HeldBy(p, s) => s \notin pool /\ content[s] = p
  /\ \A s \in Slots \ pool : \E p \in Nat : HeldBy(p, s)

(* A packet marked as the last of its batch is one, and a packet that is not *)
(* flushed will be followed by one that is marked.                           *)
Unflushed == \E i \in DOMAIN file : file[i].kind = "pkt" /\ i > flushed
BatchInv ==
  /\ dpc = "offer" => dpkt.last = ~More(count, due)
  /\ (wpc = "packet" /\ ~wmsg.last) \/ (wpc \in {"select", "secret"} /\ Unflushed)
       => dpc \in {"offer", "done"} \/ (dpc = "flush" /\ More(count, due))

Inv == /\ TypeOK /\ RingInv /\ ExitInv /\ ChainInv /\ FileInv /\ SecretInv
       /\ NoneKept /\ HoldInv /\ BatchInv

-----------------------------------------------------------------------------
(* What the steps of each goroutine leave alone. *)

(* The context, the stops, the probe and the keylog goroutine. *)
Outside == Cancel \/ CancelStop \/ ProbeEnds \/ Keylog \/ Terminated \/ UNCHANGED vars

LEMMA OutsideFrame ==
  ASSUME Outside
  PROVE  /\ UNCHANGED <<readVars, chanVars, delayVars, writeVars, slabVars>>
         /\ shutdown => shutdown'
<1>1. CASE Cancel \/ CancelStop \/ ProbeEnds
  BY <1>1 DEF Cancel, CancelStop, CancelStopBegin, CancelStopClose, ProbeEnds, stopVars
<1>2. CASE Keylog
  BY <1>2 DEF Keylog, KeylogRecv, KeylogEnds, KeylogShutdown, KeylogCheckErr,
    KeylogStopClose, KeylogUnchanged
<1>3. CASE Terminated \/ UNCHANGED vars
  BY <1>3 DEF Terminated, vars, stopVars
<1> QED BY <1>1, <1>2, <1>3 DEF Outside

LEMMA ReaderFrame ==
  ASSUME ReadPacket \/ Reader
  PROVE  UNCHANGED <<stopVars, probeVars, kpc, delayVars, writeVars>>
BY DEF ReadPacket, Reader, ReadError, LockForCopy, CopyPacket, CopyStopped, SendPacket,
  SendShutdown, ReadUnchanged

LEMMA DelayFrame ==
  ASSUME Delayer
  PROVE  UNCHANGED <<stopVars, probeVars, kpc, readVars, writeVars>>
BY DEF Delayer, TakePacket, PacketsClosed, TimerFires, SelectShutdown, Pop,
  OfferShutdown, FlushEnds, Discard, DelayUnchanged

LEMMA WriterFrame ==
  ASSUME Writer
  PROVE  /\ UNCHANGED <<ctxDone, cancelStop, probeVars, readVars, chanVars, entries,
                        head, count, dropped, due, flushAll, armed>>
         /\ shutdown => shutdown'
         /\ ~TakeReady => UNCHANGED <<dpc, dpkt>>
         /\ ~WritePacket => UNCHANGED slabVars
BY DEF Writer, TakeSecret, TakeReady, SourceClosed, WriteSecret, WritePacket, FlushBatch,
  FinalFlush, AwaitCapture, Return, ReturnClose, WriteUnchanged

-----------------------------------------------------------------------------
(* How the goroutines end. *)

LEMMA ExitStep == TypeOK /\ RingInv /\ ExitInv /\ [Next]_vars => ExitInv'
<1> SUFFICES ASSUME TypeOK, RingInv, ExitInv, [Next]_vars PROVE ExitInv'
  OBVIOUS
<1> USE DEF ExitInv, Returning
<1>1. CASE Outside
  BY <1>1, OutsideFrame DEF readVars, chanVars, delayVars, writeVars
<1>2. CASE ReadPacket \/ Reader
  <2>1. UNCHANGED <<shutdown, delayVars, writeVars>>
    BY <1>2, ReaderFrame DEF stopVars
  <2>2. CASE ReadPacket \/ LockForCopy \/ CopyPacket
    BY <2>1, <2>2 DEF ReadPacket, LockForCopy, CopyPacket, chanVars, delayVars, writeVars
  <2>3. CASE ReadError \/ CopyStopped \/ SendShutdown
    BY <2>1, <2>3 DEF ReadError, CopyStopped, SendShutdown, ReaderExit, delayVars, writeVars
  <2>4. CASE SendPacket
    BY <2>1, <2>4 DEF SendPacket, delayVars, writeVars
  <2> QED BY <1>2, <2>2, <2>3, <2>4 DEF Reader
<1>3. CASE Delayer
  <2>1. UNCHANGED <<shutdown, readVars, writeVars>>
    BY <1>3, DelayFrame DEF stopVars
  <2>2. CASE TakePacket
    BY <2>1, <2>2 DEF TakePacket, SendDue, readVars, writeVars
  <2>3. CASE PacketsClosed \/ TimerFires
    BY <2>1, <2>3 DEF PacketsClosed, TimerFires, SendDue, readVars, writeVars, chanVars
  <2>4. CASE SelectShutdown \/ OfferShutdown
    BY <2>1, <2>4 DEF SelectShutdown, OfferShutdown, Discard, readVars, writeVars, chanVars
  <2>5. CASE Pop
    BY <2>1, <2>5 DEF Pop, readVars, writeVars, chanVars
  <2>6. CASE FlushEnds
    BY <2>1, <2>6 DEF FlushEnds, More, RingInv, readVars, writeVars, chanVars
  <2> QED BY <1>3, <2>2, <2>3, <2>4, <2>5, <2>6 DEF Delayer
<1>4. CASE Writer
  <2>1. /\ UNCHANGED <<readVars, chanVars, count, flushAll>> /\ (shutdown => shutdown')
        /\ (~TakeReady => UNCHANGED dpc)
    BY <1>4, WriterFrame
  <2>2. CASE TakeReady
    BY <2>1, <2>2 DEF TakeReady, Running, readVars, chanVars
  <2>3. CASE TakeSecret \/ SourceClosed
    BY <2>1, <2>3 DEF TakeSecret, SourceClosed, TakeReady, Running, readVars, chanVars
  <2>4. CASE WriteSecret
    BY <2>1, <2>4 DEF WriteSecret, TakeReady, Running, Written, readVars, chanVars
  <2>5. CASE WritePacket
    BY <2>1, <2>5 DEF WritePacket, TakeReady, Running, Written, readVars, chanVars
  <2>6. CASE FlushBatch \/ FinalFlush
    BY <2>1, <2>6 DEF FlushBatch, FinalFlush, TakeReady, Running, Flush, readVars, chanVars
  <2>7. CASE AwaitCapture
    BY <2>1, <2>7 DEF AwaitCapture, TakeReady, Running, readVars, chanVars
  <2>8. CASE Return \/ ReturnClose
    BY <2>1, <2>8 DEF Return, ReturnClose, TakeReady, Running, readVars, chanVars
  <2> QED BY <1>4, <2>2, <2>3, <2>4, <2>5, <2>6, <2>7, <2>8 DEF Writer
<1>5. CASE Tick
  BY <1>5 DEF Tick, stopVars, readVars, chanVars, writeVars
<1> QED BY <1>1, <1>2, <1>3, <1>4, <1>5 DEF Next, Outside

-----------------------------------------------------------------------------
(* The packets on their way. *)

LEMMA Numbers ==
  ASSUME TypeOK
  PROVE  /\ seen \in Nat /\ taken \in Nat /\ count \in Nat /\ Len(pktCh) \in Nat
         /\ Len(file) \in Nat /\ PacketCount \in Nat /\ SecretCount \in Nat
<1>1. file \in Seq(Blocks) /\ pktCh \in Seq([id : Bytes, slot : Buffers])
  BY DEF TypeOK, WriteTypeOK, ReadTypeOK, Blocks, Kinds
<1>2. Len(pktCh) \in Nat /\ Len(file) \in Nat
  BY <1>1, LenProperties
<1>3. PacketCount \in Nat /\ SecretCount \in Nat
  BY <1>1, CountIsNat DEF PacketCount, SecretCount, Kinds
<1> QED BY <1>2, <1>3, BoundAssumption, CapacityAssumption
        DEF TypeOK, StopTypeOK, ReadTypeOK, DelayTypeOK

(* A step that moves no packet. *)
LEMMA ChainFrame ==
  ASSUME NEW n \in Nat, Chain(n), shutdown => shutdown',
         UNCHANGED <<seen, rpc, capDone, pktCh, entries, head, count, dpc, dpkt, wpc, wmsg,
                     file, result>>
  PROVE  Chain(n)'
<1>1. \A i : RingAt(i)' = RingAt(i)
  BY DEF RingAt, At
<1>2. Passed(n)' = Passed(n) /\ PacketCount' = PacketCount
      /\ InHand("packet")' = InHand("packet")
  BY DEF Passed, PacketCount, InHand
<1>3. Sent(n)' /\ Queued(n)'
  BY <1>1, <1>2 DEF Chain, Sent, Queued
<1>4. Forwarded(n)'
  BY <1>2 DEF Chain, Forwarded
<1> QED BY <1>3, <1>4 DEF Chain

(* The reader receives a packet, gives up, or sends the packet to pktCh. *)
LEMMA ChainReader ==
  ASSUME TypeOK, ExitInv, NEW n \in Nat, Chain(n), ReadPacket \/ Reader
  PROVE  \E m \in Nat : Chain(m)'
<1>1. UNCHANGED <<shutdown, entries, head, count, dpc, dpkt, wpc, wmsg, file, result>>
  BY ReaderFrame DEF stopVars, delayVars, writeVars
<1>2. \A i : RingAt(i)' = RingAt(i)
  BY <1>1 DEF RingAt, At
<1>3. CASE ~SendPacket
  <2>1. UNCHANGED pktCh /\ Sent(n)'
    BY <1>3, Numbers DEF ReadPacket, Reader, ReadError, LockForCopy, CopyPacket, CopyStopped,
      SendShutdown, ReaderExit, chanVars, Chain, Sent, ExitInv
  <2>2. Passed(n)' = Passed(n) /\ PacketCount' = PacketCount
        /\ InHand("packet")' = InHand("packet")
    BY <1>1, <2>1 DEF Passed, PacketCount, InHand
  <2>3. Queued(n)' /\ Forwarded(n)'
    BY <1>1, <1>2, <2>1, <2>2 DEF Chain, Queued, Forwarded
  <2> QED BY <2>1, <2>3 DEF Chain
<1>4. CASE SendPacket
  <2>1. /\ seen' = seen /\ seen = n + 1 /\ rpc' = "read"
        /\ pktCh' = Append(pktCh, [id |-> seen, slot |-> rslot])
        /\ rpc = "send" /\ capDone' = capDone
    BY <1>4 DEF SendPacket, Chain, Sent
  <2>2. /\ Len(pktCh') = Len(pktCh) + 1 /\ pktCh'[Len(pktCh) + 1].id = n + 1
        /\ \A i \in 1 .. Len(pktCh) : pktCh'[i] = pktCh[i]
    BY <2>1, AppendProperties, Numbers DEF TypeOK, ReadTypeOK, Bytes
  <2>3. Passed(n + 1)' = Passed(n) /\ PacketCount' = PacketCount
        /\ InHand("packet")' = InHand("packet")
    BY <1>1, <2>2, Numbers DEF Passed, PacketCount, InHand
  <2>4. Sent(n + 1)'
    BY <2>1 DEF Sent
  <2>5. \A i \in 1 .. Len(pktCh') : pktCh'[i].id = (n + 1) - Len(pktCh') + i
    <3> SUFFICES ASSUME NEW i \in 1 .. Len(pktCh')
                 PROVE  pktCh'[i].id = (n + 1) - Len(pktCh') + i
      OBVIOUS
    <3>1. CASE i = Len(pktCh) + 1
      BY <2>2, <3>1, Numbers
    <3>2. CASE i # Len(pktCh) + 1
      <4>1. i \in 1 .. Len(pktCh)
        BY <2>2, <3>2, Numbers
      <4>2. pktCh[i].id = n - Len(pktCh) + i
        BY <4>1 DEF Chain, Queued
      <4>3. pktCh'[i] = pktCh[i]
        BY <2>2, <4>1
      <4> QED BY <2>2, <4>2, <4>3, Numbers
    <3> QED BY <3>1, <3>2
  <2>6. \A i \in 0 .. count - 1 : RingAt(i)'.id = (n + 1) - Len(pktCh') - count + 1 + i
    BY SMTT(30), <1>2, <2>2, Numbers DEF Chain, Queued
  <2>7. Queued(n + 1)'
    BY <1>1, <2>3, <2>5, <2>6 DEF Chain, Queued
  <2>8. Forwarded(n + 1)'
    BY <1>1, <2>3 DEF Chain, Forwarded
  <2>9. Chain(n + 1)'
    BY <2>4, <2>7, <2>8 DEF Chain
  <2> QED BY <2>9
<1> QED BY <1>3, <1>4

(* The delay goroutine takes a packet into the ring, offers the oldest, or   *)
(* gives all of them up.                                                     *)
LEMMA ChainDelay ==
  ASSUME TypeOK, RingInv, ExitInv, NEW n \in Nat, Chain(n), Delayer
  PROVE  Chain(n)'
<1>1. UNCHANGED <<shutdown, seen, rpc, capDone, wpc, wmsg, file, result>>
  BY DelayFrame DEF stopVars, readVars, writeVars
<1>2. Sent(n)' /\ PacketCount' = PacketCount /\ InHand("packet")' = InHand("packet")
  BY <1>1 DEF Chain, Sent, PacketCount, InHand
<1>3. CASE TakePacket
  <2>1. /\ dpc = "select" /\ pktCh # <<>> /\ pktCh' = Tail(pktCh) /\ dpc' = "flush"
        /\ Insert /\ count < Buffer /\ count' = count + 1
    BY <1>3, HalfIsLess, CapacityAssumption
      DEF TakePacket, SendDue, RingInv, NeverOverflows, Overfull, TypeOK, DelayTypeOK, Insert
  <2>2. /\ Len(pktCh) \in Nat /\ Len(pktCh') = Len(pktCh) - 1 /\ Len(pktCh) # 0
        /\ \A i \in 1 .. Len(pktCh') : pktCh'[i] = pktCh[i + 1]
        /\ Head(pktCh) = pktCh[1]
    BY <2>1, HeadTailProperties, EmptySeq, Numbers DEF TypeOK, ReadTypeOK
  <2>3. /\ \A i \in 0 .. count - 1 : RingAt(i)' = RingAt(i)
        /\ entries'[(head' + count) % Buffer] = Entry(Delay)
    BY <2>1, InsertRing DEF TypeOK
  <2>4. Passed(n)' = Passed(n)
    BY <2>1, <2>2, Numbers DEF Passed
  <2>5. \A i \in 1 .. Len(pktCh') : pktCh'[i].id = n - Len(pktCh') + i
    BY SMTT(30), <2>2, Numbers DEF Chain, Queued
  <2>6. \A i \in 0 .. count' - 1 : RingAt(i)'.id = n - Len(pktCh') - count' + 1 + i
    <3> SUFFICES ASSUME NEW i \in 0 .. count' - 1
                 PROVE  RingAt(i)'.id = n - Len(pktCh') - count' + 1 + i
      OBVIOUS
    <3>1. CASE i = count
      <4>1. RingAt(i)' = Entry(Delay)
        BY <2>3, <3>1 DEF RingAt, At
      <4>2. RingAt(i)'.id = n - Len(pktCh) + 1
        BY <4>1, <2>2, Numbers DEF Entry, Chain, Queued
      <4> QED BY <2>1, <2>2, <3>1, <4>2, Numbers
    <3>2. CASE i # count
      <4>1. i \in 0 .. count - 1
        BY <2>1, <3>2, Numbers
      <4>2. RingAt(i)' = RingAt(i)
        BY <2>3, <4>1
      <4>3. RingAt(i).id = n - Len(pktCh) - count + 1 + i
        BY <4>1 DEF Chain, Queued
      <4> QED BY SMTT(30), <2>1, <2>2, <4>2, <4>3, Numbers
    <3> QED BY <3>1, <3>2
  <2>7. Queued(n)'
    BY <2>1, <2>5, <2>6 DEF Queued
  <2>8. Forwarded(n)'
    BY <1>1, <1>2, <2>1, <2>4 DEF Chain, Forwarded
  <2> QED BY <1>2, <2>7, <2>8 DEF Chain
<1>4. CASE Pop
  <2>1. /\ \A i \in 0 .. count - 2 : RingAt(i)' = RingAt(i + 1)
        /\ count \in Nat \ {0} /\ count' = count - 1 /\ dpkt'.id = RingAt(0).id
    BY <1>4, PopRing DEF TypeOK
  <2>2. dpc = "flush" /\ dpc' = "offer" /\ pktCh' = pktCh
    BY <1>4 DEF Pop, chanVars
  <2>3. Passed(n)' = Passed(n)
    BY <2>1, <2>2, Numbers DEF Passed
  <2>4. \A i \in 0 .. count' - 1 : RingAt(i)'.id = n - Len(pktCh') - count' + 1 + i
    <3> SUFFICES ASSUME NEW i \in 0 .. count' - 1
                 PROVE  RingAt(i)'.id = n - Len(pktCh') - count' + 1 + i
      OBVIOUS
    <3>1. i \in 0 .. count - 2 /\ i + 1 \in 0 .. count - 1
      BY <2>1
    <3>2. RingAt(i)' = RingAt(i + 1)
      BY <2>1, <3>1
    <3>3. RingAt(i + 1).id = n - Len(pktCh) - count + 1 + (i + 1)
      BY <3>1 DEF Chain, Queued
    <3> QED BY <2>1, <2>2, <3>1, <3>2, <3>3, Numbers
  <2>5. dpkt'.id = Passed(n) + 1
    <3>1. 0 \in 0 .. count - 1
      BY <2>1
    <3>2. RingAt(0).id = n - Len(pktCh) - count + 1 + 0
      BY <3>1 DEF Chain, Queued
    <3> QED BY <2>1, <2>2, <3>2, Numbers DEF Passed
  <2>6. Queued(n)'
    BY <2>2, <2>3, <2>4, <2>5 DEF Chain, Queued
  <2>7. Forwarded(n)'
    BY <1>1, <1>2, <2>2, <2>3 DEF Chain, Forwarded
  <2> QED BY <1>2, <2>6, <2>7 DEF Chain
<1>5. CASE SelectShutdown \/ OfferShutdown
  <2>1. count' = 0 /\ dpc' = "done" /\ pktCh' = pktCh /\ shutdown
    BY <1>5 DEF SelectShutdown, OfferShutdown, Discard, chanVars
  <2>2. Passed(n)' = n - Len(pktCh) /\ Passed(n) <= n - Len(pktCh) /\ Passed(n) \in Int
    BY <2>1, Numbers DEF Passed
  <2>3. Queued(n)'
    BY <2>1 DEF Chain, Queued
  <2>4. Forwarded(n)'
    BY <1>1, <1>2, <2>1, <2>2, Numbers DEF Chain, Forwarded, InHand
  <2> QED BY <1>2, <2>3, <2>4 DEF Chain
<1>6. CASE PacketsClosed \/ TimerFires \/ FlushEnds
  <2>1. /\ UNCHANGED <<entries, head, count, dpkt, pktCh>>
        /\ dpc # "offer" /\ dpc' # "offer" /\ dpc # "done"
    BY <1>6 DEF PacketsClosed, TimerFires, FlushEnds, SendDue, chanVars
  <2>2. \A i : RingAt(i)' = RingAt(i)
    BY <2>1 DEF RingAt, At
  <2>3. Passed(n)' = Passed(n)
    BY <2>1 DEF Passed
  <2>4. Queued(n)' /\ Forwarded(n)'
    BY <1>1, <1>2, <2>1, <2>2, <2>3 DEF Chain, Queued, Forwarded
  <2> QED BY <1>2, <2>4 DEF Chain
<1> QED BY <1>3, <1>4, <1>5, <1>6 DEF Delayer

(* The writer takes the packet on offer, and writes the packet it has. *)
LEMMA ChainWriter ==
  ASSUME TypeOK, ExitInv, NEW n \in Nat, Chain(n), Writer
  PROVE  Chain(n)'
<1>1. /\ UNCHANGED <<seen, rpc, capDone, pktCh, entries, head, count>>
      /\ (shutdown => shutdown') /\ (~TakeReady => UNCHANGED <<dpc, dpkt>>)
  BY WriterFrame DEF readVars, chanVars
<1>2. Sent(n)'
  BY <1>1 DEF Chain, Sent
<1>3. \A i : RingAt(i)' = RingAt(i)
  BY <1>1 DEF RingAt, At
<1>4. file \in Seq(Blocks)
  BY DEF TypeOK, WriteTypeOK, Blocks, Kinds
<1>5. CASE TakeReady
  <2>1. /\ dpc = "offer" /\ dpc' = "flush" /\ wpc = "select" /\ wpc' = "packet"
        /\ wmsg' = dpkt /\ file' = file /\ result' = result
    BY <1>5 DEF TakeReady, Running
  <2>2. Passed(n)' = Passed(n) + 1 /\ Passed(n) \in Int
    BY <1>1, <2>1, Numbers DEF Passed
  <2>3. /\ PacketCount' = PacketCount
        /\ InHand("packet") = 0 /\ InHand("packet")' = 1
    BY <2>1 DEF PacketCount, InHand
  <2>4. result # "write"
    BY <2>1 DEF ExitInv, Returning
  <2>5. PacketCount = Passed(n)
    BY <2>1, <2>2, <2>3, <2>4, Numbers DEF Chain, Forwarded
  <2>6. Queued(n)'
    BY <1>1, <1>3, <2>1 DEF Chain, Queued
  <2>7. wmsg'.id = PacketCount + 1
    BY <2>1, <2>5 DEF Chain, Queued
  <2>8. Forwarded(n)'
    BY <2>1, <2>2, <2>3, <2>5, <2>7, Numbers DEF Forwarded
  <2> QED BY <1>2, <2>6, <2>8 DEF Chain
<1>6. CASE Writer /\ ~TakeReady
  <2>1. Queued(n)'
    <3>1. Passed(n)' = Passed(n)
      BY <1>1, <1>6 DEF Passed
    <3> QED BY <1>1, <1>3, <1>6, <3>1 DEF Chain, Queued
  <2>2. Passed(n)' = Passed(n) /\ dpc' = dpc /\ Passed(n) \in Int
    BY <1>1, <1>6, Numbers DEF Passed
  <2>3. CASE WritePacket
    <3>1. wpc = "packet" /\ wpc' # "packet" /\ result # "write"
      BY <2>3 DEF WritePacket, Written, ExitInv, Returning
    <3>2. InHand("packet") = 1 /\ InHand("packet")' = 0
      BY <3>1 DEF InHand
    <3>3. CASE /\ file' = Append(file, PktBlock(wmsg.id, BytesOf(wmsg))) /\ result' = result
      <4>1. PktBlock(wmsg.id, BytesOf(wmsg)) \in Blocks
        BY BoundAssumption DEF PktBlock, BytesOf, TypeOK, WriteTypeOK, SlabTypeOK, Buffers,
          Bytes, Blocks, Kinds
      <4>2. PktBlock(wmsg.id, BytesOf(wmsg)).kind = "pkt" /\ "pkt" \in Kinds
        BY DEF PktBlock, Kinds
      <4>3. PacketCount' = PacketCount + 1
        BY <1>4, <3>3, <4>1, <4>2, CountAppend DEF PacketCount
      <4>4. Forwarded(n)'
        BY <1>1, <2>2, <3>1, <3>2, <3>3, <4>3, Numbers DEF Chain, Forwarded
      <4> QED BY <1>2, <2>1, <4>4 DEF Chain
    <3>4. CASE file' = file /\ result' = "write"
      <4>1. PacketCount' = PacketCount
        BY <3>4 DEF PacketCount
      <4>2. Forwarded(n)'
        BY <2>2, <3>1, <3>2, <3>4, <4>1, Numbers DEF Chain, Forwarded
      <4> QED BY <1>2, <2>1, <4>2 DEF Chain
    <3> QED BY <2>3, <3>3, <3>4 DEF WritePacket, Written
  <2>4. CASE ~WritePacket
    <3>1. PacketCount' = PacketCount
      <4>1. CASE file' = file
        BY <4>1 DEF PacketCount
      <4>2. CASE file' # file
        <5>1. file' = Append(file, KeyBlock(wmsg.id))
          BY <1>6, <2>4, <4>2 DEF Writer, TakeSecret, SourceClosed, WriteSecret, Written,
            FlushBatch, FinalFlush, AwaitCapture, Return, ReturnClose
        <5>2. KeyBlock(wmsg.id) \in Blocks /\ KeyBlock(wmsg.id).kind = "key"
          BY DEF KeyBlock, TypeOK, WriteTypeOK, Blocks, Kinds
        <5>3. "pkt" \in Kinds
          BY DEF Kinds
        <5> QED BY <1>4, <5>1, <5>2, <5>3, CountAppend, Numbers DEF PacketCount
      <4> QED BY <4>1, <4>2
    <3>2. wpc # "packet" /\ wpc' # "packet"
      BY <1>6, <2>4 DEF Writer, TakeSecret, SourceClosed, WriteSecret, Written, FlushBatch,
        FinalFlush, Flush, AwaitCapture, Return, ReturnClose, Running
    <3>3. result = "write" => result' = "write"
      BY <1>6, <2>4 DEF Writer, TakeSecret, SourceClosed, WriteSecret, Written, FlushBatch,
        FinalFlush, Flush, AwaitCapture, Return, ReturnClose, Running, ExitInv, Returning
    <3>4. InHand("packet") = 0 /\ InHand("packet")' = 0
      BY <3>2 DEF InHand
    <3>5. Forwarded(n)'
      BY <1>1, <2>2, <3>1, <3>2, <3>3, <3>4, Numbers DEF Chain, Forwarded
    <3> QED BY <1>2, <2>1, <3>5 DEF Chain
  <2> QED BY <2>3, <2>4
<1> QED BY <1>5, <1>6

LEMMA ChainStep ==
  TypeOK /\ RingInv /\ ExitInv /\ ChainInv /\ [Next]_vars => ChainInv'
<1> SUFFICES ASSUME TypeOK, RingInv, ExitInv, ChainInv, [Next]_vars PROVE ChainInv'
  OBVIOUS
<1>1. PICK n \in Nat : Chain(n)
  BY DEF ChainInv
<1>2. CASE Outside
  <2>1. Chain(n)'
    BY <1>1, <1>2, OutsideFrame, ChainFrame
      DEF readVars, chanVars, delayVars, writeVars
  <2> QED BY <2>1 DEF ChainInv
<1>3. CASE ReadPacket \/ Reader
  <2>1. \E m \in Nat : Chain(m)'
    BY <1>1, <1>3, ChainReader
  <2> QED BY <2>1 DEF ChainInv
<1>4. CASE Delayer
  <2>1. Chain(n)'
    BY <1>1, <1>4, ChainDelay
  <2> QED BY <2>1 DEF ChainInv
<1>5. CASE Writer
  <2>1. Chain(n)'
    BY <1>1, <1>5, ChainWriter
  <2> QED BY <2>1 DEF ChainInv
<1>6. CASE Tick
  <2>1. UNCHANGED <<shutdown, seen, rpc, capDone, pktCh, count, dpc, dpkt, wpc, wmsg, file, result>>
    BY <1>6 DEF Tick, stopVars, readVars, chanVars, writeVars
  <2>2. \A i \in 0 .. count - 1 : RingAt(i)'.id = RingAt(i).id
    BY <1>6, TickRing, Numbers DEF TypeOK
  <2>3. Passed(n)' = Passed(n) /\ PacketCount' = PacketCount
        /\ InHand("packet")' = InHand("packet")
    BY <2>1 DEF Passed, PacketCount, InHand
  <2>4. Sent(n)' /\ Queued(n)'
    BY <1>1, <2>1, <2>2, <2>3 DEF Chain, Sent, Queued
  <2>5. Forwarded(n)'
    BY <1>1, <2>1, <2>3 DEF Chain, Forwarded
  <2>6. Chain(n)'
    BY <2>4, <2>5 DEF Chain
  <2> QED BY <2>6 DEF ChainInv
<1> QED BY <1>2, <1>3, <1>4, <1>5, <1>6 DEF Next, Outside

-----------------------------------------------------------------------------
(* The file and the secrets. *)

(* Only a write that succeeds changes the file: it appends the block of the  *)
(* secret or of the packet the writer has in hand.                           *)
LEMMA FileSteps ==
  ASSUME TypeOK, [Next]_vars
  PROVE  \/ file' = file /\ UNCHANGED <<PacketCount, SecretCount>>
         \/ /\ WriteSecret /\ file' = Append(file, KeyBlock(wmsg.id))
            /\ PacketCount' = PacketCount /\ SecretCount' = SecretCount + 1
         \/ /\ WritePacket /\ file' = Append(file, PktBlock(wmsg.id, BytesOf(wmsg)))
            /\ PacketCount' = PacketCount + 1 /\ SecretCount' = SecretCount
<1>1. file \in Seq(Blocks)
  BY DEF TypeOK, WriteTypeOK, Blocks, Kinds
<1>2. "pkt" \in Kinds /\ "key" \in Kinds
  BY DEF Kinds
<1>3. CASE file' = file
  BY <1>3 DEF PacketCount, SecretCount
<1>4. CASE file' # file
  <2>1. CASE Outside \/ ReadPacket \/ Reader \/ Delayer \/ Tick
    <3>1. file' = file
      BY <2>1, OutsideFrame, ReaderFrame, DelayFrame DEF writeVars, Tick
    <3> QED BY <1>4, <3>1
  <2>2. CASE WriteSecret
    <3>1. file' = Append(file, KeyBlock(wmsg.id))
      BY <1>4, <2>2 DEF WriteSecret, Written
    <3>2. KeyBlock(wmsg.id) \in Blocks /\ KeyBlock(wmsg.id).kind = "key"
      BY DEF KeyBlock, TypeOK, WriteTypeOK, Blocks, Kinds
    <3> HIDE DEF KeyBlock
    <3>3. PacketCount' = PacketCount /\ SecretCount' = SecretCount + 1
      BY <1>1, <1>2, <3>1, <3>2, CountAppend, Numbers DEF PacketCount, SecretCount
    <3> QED BY <2>2, <3>1, <3>3
  <2>3. CASE WritePacket
    <3>1. file' = Append(file, PktBlock(wmsg.id, BytesOf(wmsg)))
      BY <1>4, <2>3 DEF WritePacket, Written
    <3>2. /\ PktBlock(wmsg.id, BytesOf(wmsg)) \in Blocks
          /\ PktBlock(wmsg.id, BytesOf(wmsg)).kind = "pkt"
      BY BoundAssumption DEF PktBlock, BytesOf, TypeOK, WriteTypeOK, SlabTypeOK, Buffers,
        Bytes, Blocks, Kinds
    <3>3. PacketCount' = PacketCount + 1 /\ SecretCount' = SecretCount
      BY <1>1, <1>2, <3>1, <3>2, CountAppend, Numbers DEF PacketCount, SecretCount
    <3> QED BY <2>3, <3>1, <3>3
  <2>4. CASE Writer /\ ~WriteSecret /\ ~WritePacket
    <3>1. file' = file
      BY <2>4 DEF Writer, TakeSecret, TakeReady, SourceClosed, FlushBatch, FinalFlush,
        AwaitCapture, Return, ReturnClose
    <3> QED BY <1>4, <3>1
  <2> QED BY <2>1, <2>2, <2>3, <2>4 DEF Next, Outside
<1> QED BY <1>3, <1>4

LEMMA FileStep == TypeOK /\ ChainInv /\ FileInv /\ [Next]_vars => FileInv'
<1> SUFFICES ASSUME TypeOK, ChainInv, FileInv, [Next]_vars PROVE FileInv'
  OBVIOUS
<1>1. file \in Seq(Blocks) /\ "pkt" \in Kinds
  BY DEF TypeOK, WriteTypeOK, Blocks, Kinds
<1>2. CASE file' = file
  BY <1>2 DEF FileInv, PacketCount
<1>3. CASE WriteSecret /\ file' = Append(file, KeyBlock(wmsg.id)) /\ PacketCount' = PacketCount
  <2>1. KeyBlock(wmsg.id) \in Blocks /\ KeyBlock(wmsg.id).kind # "pkt"
    BY DEF KeyBlock, TypeOK, WriteTypeOK, Blocks, Kinds
  <2> HIDE DEF KeyBlock
  <2>2. IdsIn(Append(file, KeyBlock(wmsg.id)), "pkt") = IdsIn(file, "pkt") \cup {}
    BY <1>1, <2>1, IdsAppend, Zenon
  <2>3. IdsIn(file', "pkt") = IdsIn(file, "pkt")
    BY <1>3, <2>2
  <2> QED BY <1>3, <2>3 DEF FileInv
<1>4. CASE /\ WritePacket /\ file' = Append(file, PktBlock(wmsg.id, BytesOf(wmsg)))
           /\ PacketCount' = PacketCount + 1
  <2>1. /\ PktBlock(wmsg.id, BytesOf(wmsg)) \in Blocks
        /\ PktBlock(wmsg.id, BytesOf(wmsg)).kind = "pkt"
        /\ PktBlock(wmsg.id, BytesOf(wmsg)).id = wmsg.id
    BY BoundAssumption DEF PktBlock, BytesOf, TypeOK, WriteTypeOK, SlabTypeOK, Buffers,
      Bytes, Blocks, Kinds
  <2>2. IdsIn(file', "pkt") = IdsIn(file, "pkt") \cup {wmsg.id}
    BY <1>1, <1>4, <2>1, IdsAppend
  <2>3. wmsg.id = PacketCount + 1
    BY <1>4 DEF WritePacket, ChainInv, Chain, Forwarded
  <2>4. IdsIn(file', "pkt") = 1 .. PacketCount + 1
    <3>1. (1 .. PacketCount) \cup {PacketCount + 1} = 1 .. PacketCount + 1
      BY Numbers
    <3> QED BY <2>2, <2>3, <3>1 DEF FileInv
  <2> QED BY <1>4, <2>4 DEF FileInv
<1> QED BY <1>2, <1>3, <1>4, FileSteps

LEMMA SecretStep == TypeOK /\ SecretInv /\ [Next]_vars => SecretInv'
<1> SUFFICES ASSUME TypeOK, SecretInv, [Next]_vars PROVE SecretInv'
  OBVIOUS
<1> USE DEF SecretInv
<1>1. CASE Keylog
  <2>1. UNCHANGED writeVars
    BY <1>1, OutsideFrame DEF Outside
  <2>2. SecretCount' = SecretCount /\ InHand("secret")' = InHand("secret")
    BY <2>1 DEF writeVars, SecretCount, InHand
  <2>3. InHand("secret") \in Nat
    BY DEF InHand
  <2> QED BY <1>1, <2>1, <2>2, <2>3, Numbers DEF writeVars, Keylog, KeylogRecv, KeylogEnds,
    KeylogShutdown, KeylogCheckErr, KeylogStopClose
<1>2. CASE Cancel \/ CancelStop \/ ProbeEnds \/ Terminated \/ UNCHANGED vars
  <2>1. UNCHANGED <<writeVars, taken, kpc>>
    BY <1>2 DEF Cancel, CancelStop, CancelStopBegin, CancelStopClose, ProbeEnds, Terminated,
      vars, probeVars
  <2> QED BY <2>1 DEF writeVars, SecretCount, InHand
<1>3. CASE ReadPacket \/ Reader \/ Delayer \/ Tick
  <2>1. UNCHANGED <<writeVars, taken, kpc>>
    BY <1>3, ReaderFrame, DelayFrame DEF probeVars, Tick
  <2> QED BY <2>1 DEF writeVars, SecretCount, InHand
<1>4. CASE Writer
  <2>1. taken' = taken
    BY <1>4, WriterFrame DEF probeVars
  <2>2. CASE TakeSecret
    <3>1. /\ SecretCount' = SecretCount /\ InHand("secret") = 0 /\ InHand("secret")' = 1
          /\ wpc = "select" /\ wpc' = "secret" /\ kpc = "send" /\ kpc' = "read"
          /\ wmsg'.id = taken
      BY <2>2 DEF TakeSecret, Running, SecretCount, InHand
    <3> QED BY <2>1, <3>1, Numbers
  <2>3. CASE WriteSecret
    <3>1. /\ kpc' = kpc /\ wpc = "secret" /\ wpc' \in {"select", "return"}
          /\ InHand("secret") = 1 /\ InHand("secret")' = 0
      BY <2>3 DEF WriteSecret, Written, InHand
    <3>2. CASE wpc' = "select"
      <4>1. file' = Append(file, KeyBlock(wmsg.id))
        BY <2>3, <3>2 DEF WriteSecret, Written
      <4>2. Len(file') = Len(file) + 1
        BY <4>1, AppendProperties DEF TypeOK, WriteTypeOK, KeyBlock
      <4>3. ~WritePacket /\ file' # file
        BY <3>1, <4>2, Numbers DEF WritePacket
      <4>4. SecretCount' = SecretCount + 1
        BY <4>3, FileSteps
      <4> QED BY <2>1, <3>1, <3>2, <4>4, Numbers
    <3>3. CASE wpc' = "return"
      <4>1. SecretCount' = SecretCount
        BY <2>3, <3>3 DEF WriteSecret, Written, SecretCount
      <4> QED BY <2>1, <3>1, <3>3, <4>1, Numbers
    <3> QED BY <3>1, <3>2, <3>3
  <2>4. CASE Writer /\ ~TakeSecret /\ ~WriteSecret
    <3>1. /\ kpc' = kpc /\ wpc # "secret" /\ wpc' # "secret"
          /\ wpc' \in {"select", "packet", "flush"} => wpc \in {"select", "packet", "flush"}
      BY <2>4 DEF Writer, TakeReady, SourceClosed, WritePacket, Written, FlushBatch,
        FinalFlush, Flush, AwaitCapture, Return, ReturnClose, Running
    <3>2. SecretCount' = SecretCount /\ InHand("secret") = 0 /\ InHand("secret")' = 0
      BY <2>4, <3>1, FileSteps DEF InHand
    <3> QED BY <2>1, <3>1, <3>2, Numbers
  <2> QED BY <1>4, <2>2, <2>3, <2>4
<1> QED BY <1>1, <1>2, <1>3, <1>4 DEF Next

-----------------------------------------------------------------------------
(* Batches. *)

LEMMA BatchStep == TypeOK /\ ExitInv /\ BatchInv /\ [Next]_vars => BatchInv'
<1> SUFFICES ASSUME TypeOK, ExitInv, BatchInv, [Next]_vars PROVE BatchInv'
  OBVIOUS
<1> USE DEF BatchInv
<1>1. ASSUME UNCHANGED <<dpc, dpkt, count, due, flushAll, wpc, wmsg, file, flushed>>
      PROVE  BatchInv'
  BY <1>1 DEF More, Unflushed
<1>2. CASE Outside
  BY <1>1, <1>2, OutsideFrame DEF delayVars, writeVars
<1>3. CASE ReadPacket \/ Reader
  BY <1>1, <1>3, ReaderFrame DEF delayVars, writeVars
<1>4. CASE Tick
  BY <1>1, <1>4 DEF Tick, writeVars
<1>5. CASE Delayer
  <2>1. UNCHANGED <<wpc, wmsg, file, flushed>>
    BY <1>5, DelayFrame DEF writeVars
  <2>2. Unflushed' = Unflushed
    BY <2>1 DEF Unflushed
  <2>3. CASE TakePacket \/ PacketsClosed \/ TimerFires
    <3>1. dpc = "select" /\ dpc' = "flush"
      BY <2>3 DEF TakePacket, PacketsClosed, TimerFires, SendDue
    <3> QED BY <2>1, <2>2, <3>1
  <2>4. CASE SelectShutdown \/ OfferShutdown
    <3>1. dpc' = "done"
      BY <2>4 DEF SelectShutdown, OfferShutdown, Discard
    <3> QED BY <2>1, <2>2, <3>1
  <2>5. CASE Pop
    <3>1. dpc' = "offer" /\ dpkt'.last = LastInBatch(count', due') /\ flushAll' = flushAll
      BY <2>5 DEF Pop
    <3>2. dpkt'.last = (~More(count, due))'
      BY <3>1 DEF LastInBatch, More
    <3> QED BY <2>1, <2>2, <3>1, <3>2
  <2>6. CASE FlushEnds
    <3>1. dpc = "flush" /\ ~More(count, due) /\ dpc' # "offer"
      BY <2>6 DEF FlushEnds
    <3> QED BY <2>1, <2>2, <3>1
  <2> QED BY <1>5, <2>3, <2>4, <2>5, <2>6 DEF Delayer
<1>6. CASE Writer
  <2>1. UNCHANGED <<count, due, flushAll>> /\ (~TakeReady => UNCHANGED <<dpc, dpkt>>)
    BY <1>6, WriterFrame
  <2>2. More(count, due)' = More(count, due)
    BY <2>1 DEF More
  <2>3. CASE TakeReady
    <3>1. /\ dpc = "offer" /\ dpc' = "flush" /\ wpc' = "packet" /\ wmsg' = dpkt
      BY <2>3 DEF TakeReady
    <3> HIDE DEF More
    <3> QED BY <2>2, <3>1
  <2>4. CASE TakeSecret
    <3>1. wpc = "select" /\ wpc' = "secret" /\ UNCHANGED <<dpc, dpkt, file, flushed>>
      BY <2>4 DEF TakeSecret, Running
    <3>2. Unflushed' = Unflushed
      BY <3>1 DEF Unflushed
    <3> QED BY <2>2, <3>1, <3>2
  <2>5. CASE WriteSecret
    <3>1. /\ wpc = "secret" /\ UNCHANGED <<dpc, dpkt, flushed>>
          /\ wpc' = "return" \/ (wpc' = "select" /\ file' = Append(file, KeyBlock(wmsg.id)))
      BY <2>5 DEF WriteSecret, Written
    <3>2. CASE wpc' = "return"
      BY <2>2, <3>1, <3>2
    <3>3. CASE wpc' = "select"
      <4>1. /\ DOMAIN file = 1 .. Len(file) /\ DOMAIN file' = 1 .. Len(file) + 1
            /\ file'[Len(file) + 1] = KeyBlock(wmsg.id)
            /\ \A i \in 1 .. Len(file) : file'[i] = file[i]
        <5>1. file \in Seq(Blocks) /\ KeyBlock(wmsg.id) \in Blocks
          BY DEF TypeOK, WriteTypeOK, KeyBlock, Blocks, Kinds
        <5> QED BY <3>1, <3>3, <5>1, AppendProperties, LenProperties
      <4>2. Unflushed' => Unflushed
        BY <3>1, <4>1, Numbers DEF Unflushed, KeyBlock
      <4> QED BY <2>2, <3>1, <3>3, <4>2
    <3> QED BY <3>1, <3>2, <3>3
  <2>6. CASE WritePacket
    <3>1. /\ wpc = "packet" /\ UNCHANGED <<dpc, dpkt>>
          /\ wpc' # "packet" /\ wpc' # "secret" /\ (wpc' = "select" => ~wmsg.last)
      BY <2>6 DEF WritePacket, Written
    <3> QED BY <2>2, <3>1
  <2>7. CASE FlushBatch
    <3>1. /\ UNCHANGED <<dpc, dpkt, file>>
          /\ wpc' = "return" \/ (wpc' = "select" /\ flushed' = Len(file))
      BY <2>7 DEF FlushBatch, Flush
    <3>2. wpc' = "select" => ~Unflushed'
      BY <3>1, LenProperties, Numbers DEF Unflushed, TypeOK, WriteTypeOK
    <3> QED BY <2>2, <3>1, <3>2
  <2>8. CASE FinalFlush \/ AwaitCapture \/ Return \/ ReturnClose
    <3>1. UNCHANGED <<dpc, dpkt>> /\ wpc' \notin {"select", "secret", "packet"}
      BY <2>8 DEF FinalFlush, Flush, AwaitCapture, Return, ReturnClose
    <3> QED BY <2>2, <3>1
  <2>9. CASE SourceClosed
    <3>1. UNCHANGED <<dpc, dpkt, wpc, wmsg, file, flushed>>
      BY <2>9 DEF SourceClosed
    <3> QED BY <1>1, <2>1, <3>1
  <2> QED BY <1>6, <2>3, <2>4, <2>5, <2>6, <2>7, <2>8, <2>9 DEF Writer
<1> QED BY <1>2, <1>3, <1>4, <1>5, <1>6 DEF Next, Outside

-----------------------------------------------------------------------------
(* The slab.  The number of a packet says where on its way it is, so that a  *)
(* slot with the bytes of one packet is held in one place.                   *)

LEMMA KeptStep == TypeOK /\ NoneKept /\ [Next]_vars => NoneKept'
<1> SUFFICES ASSUME TypeOK, NoneKept, [Next]_vars PROVE NoneKept'
  OBVIOUS
<1> USE DEF NoneKept
<1>1. CASE Outside
  BY <1>1, OutsideFrame DEF readVars, delayVars, writeVars
<1>2. CASE ReadPacket \/ Reader
  <2>1. UNCHANGED <<delayVars, writeVars>>
    BY <1>2, ReaderFrame
  <2> QED BY <1>2, <2>1 DEF delayVars, writeVars, ReadPacket, Reader, ReadError, LockForCopy,
    CopyPacket, CopyStopped, SendPacket, SendShutdown, ReaderExit
<1>3. CASE Delayer
  <2>1. UNCHANGED <<readVars, writeVars>>
    BY <1>3, DelayFrame
  <2> QED BY <1>3, <2>1 DEF readVars, writeVars, Delayer, TakePacket, PacketsClosed,
    TimerFires, SelectShutdown, Pop, OfferShutdown, FlushEnds, Discard, SendDue, NoPkt
<1>4. CASE Writer
  <2>1. UNCHANGED readVars
    BY <1>4, WriterFrame
  <2>2. CASE TakeReady
    BY <2>1, <2>2 DEF readVars, TakeReady, NoPkt
  <2>3. CASE TakeSecret \/ SourceClosed
    BY <2>1, <2>3 DEF readVars, TakeSecret, SourceClosed, Running
  <2>4. CASE WriteSecret \/ WritePacket
    BY <2>1, <2>4 DEF readVars, WriteSecret, WritePacket, Written, NoPkt
  <2>5. CASE FlushBatch \/ FinalFlush \/ AwaitCapture \/ Return \/ ReturnClose
    BY <2>1, <2>5 DEF readVars, FlushBatch, FinalFlush, Flush, AwaitCapture, Return, ReturnClose
  <2> QED BY <1>4, <2>2, <2>3, <2>4, <2>5 DEF Writer
<1>5. CASE Tick
  BY <1>5 DEF Tick, readVars, writeVars
<1> QED BY <1>1, <1>2, <1>3, <1>4, <1>5 DEF Next, Outside

(* Where a packet is, by its number. *)
LEMMA HeldOrder ==
  ASSUME TypeOK, NEW n \in Nat, Chain(n), NEW p \in Nat, NEW s
  PROVE  /\ ByReader(p, s) => p = n + 1
         /\ ByChan(p, s) => n - Len(pktCh) < p /\ p <= n
         /\ ByRing(p, s) => n - Len(pktCh) - count < p /\ p <= n - Len(pktCh)
         /\ ByDelay(p, s) => p = n - Len(pktCh) - count
         /\ ByWriter(p, s) => /\ p <= n - Len(pktCh) - count
                              /\ dpc = "offer" => p < n - Len(pktCh) - count
<1>1. ByReader(p, s) => p = n + 1
  BY DEF ByReader, Chain, Sent
<1>2. ByChan(p, s) => n - Len(pktCh) < p /\ p <= n
  BY Numbers DEF ByChan, Chain, Queued
<1>3. ByRing(p, s) => n - Len(pktCh) - count < p /\ p <= n - Len(pktCh)
  BY SMTT(30), Numbers DEF ByRing, Chain, Queued
<1>4. ByDelay(p, s) => p = n - Len(pktCh) - count
  BY Numbers DEF ByDelay, Chain, Queued, Passed
<1>5. ByWriter(p, s) => /\ p <= n - Len(pktCh) - count
                        /\ dpc = "offer" => p < n - Len(pktCh) - count
  BY Numbers DEF ByWriter, Chain, Forwarded, Passed, InHand
<1> QED BY <1>1, <1>2, <1>3, <1>4, <1>5

(* A step that hands packets on and leaves the slab alone. *)
LEMMA HoldMove ==
  ASSUME HoldInv, UNCHANGED slabVars,
         \A p \in Nat, s \in Slots : HeldBy(p, s)' <=> HeldBy(p, s)
  PROVE  HoldInv'
BY DEF HoldInv, slabVars

(* A step that releases the buffers in S, which were held, and nobody holds  *)
(* them any more.                                                            *)
LEMMA HoldRelease ==
  ASSUME TypeOK, HoldInv, NEW S \in SUBSET Buffers, Release(S),
         \A s \in S \cap Slots : \E p \in Nat : HeldBy(p, s),
         \A p \in Nat, s \in Slots : HeldBy(p, s)' <=> HeldBy(p, s) /\ s \notin S
  PROVE  HoldInv'
<1>1. pool \subseteq Slots /\ content \in [Slots -> Bytes] /\ Heap \notin Slots
  BY CapacityAssumption DEF TypeOK, SlabTypeOK, Slots, Heap
<1>2. S \cap pool = {}
  <2>1. ASSUME NEW s \in S, s \in pool PROVE FALSE
    <3>1. s \in S \cap Slots
      BY <1>1, <2>1
    <3> QED BY <2>1, <3>1 DEF HoldInv
  <2> QED BY <2>1
<1>3. /\ ~panicked' /\ pool' = pool \cup (S \ {Heap})
      /\ \A s \in Slots : s \notin S => content'[s] = content[s]
  BY <1>2 DEF Release, HoldInv
<1>4. ASSUME NEW p \in Nat, NEW s \in Slots, HeldBy(p, s)'
      PROVE  s \notin pool' /\ content'[s] = p
  <2>1. HeldBy(p, s) /\ s \notin S
    BY <1>4
  <2>2. s \notin pool /\ content[s] = p
    BY <2>1 DEF HoldInv
  <2> QED BY <1>3, <2>1, <2>2
<1>5. ASSUME NEW s \in Slots \ pool' PROVE \E p \in Nat : HeldBy(p, s)'
  <2>1. s \in Slots \ pool /\ s \notin S
    BY <1>1, <1>3
  <2>2. PICK p \in Nat : HeldBy(p, s)
    BY <2>1 DEF HoldInv
  <2> QED BY <2>1, <2>2
<1> QED BY <1>3, <1>4, <1>5 DEF HoldInv

(* A step that moves no packet. *)
LEMMA HoldFrame ==
  ASSUME HoldInv,
         UNCHANGED <<seen, rpc, rslot, pktCh, entries, head, count, dpc, dpkt, wpc, wmsg,
                     pool, content, panicked>>
  PROVE  HoldInv'
<1>1. \A i : RingAt(i)' = RingAt(i)
  BY DEF RingAt, At
<1>2. \A p, s : HeldBy(p, s)' <=> HeldBy(p, s)
  BY <1>1 DEF HeldBy, ByReader, ByChan, ByRing, ByDelay, ByWriter
<1> QED BY <1>2, HoldMove DEF slabVars

(* The steps of the reader. *)
LEMMA HoldReader ==
  ASSUME TypeOK, ExitInv, NoneKept, HoldInv, NEW n \in Nat, Chain(n), ReadPacket \/ Reader
  PROVE  HoldInv'
<1>1. UNCHANGED <<entries, head, count, dpc, dpkt, wpc, wmsg>>
  BY ReaderFrame DEF delayVars, writeVars
<1>2. \A i : RingAt(i)' = RingAt(i)
  BY <1>1 DEF RingAt, At
<1>3. \A p, s : /\ ByRing(p, s)' <=> ByRing(p, s)
                /\ ByDelay(p, s)' <=> ByDelay(p, s)
                /\ ByWriter(p, s)' <=> ByWriter(p, s)
  BY <1>1, <1>2 DEF ByRing, ByDelay, ByWriter
<1>4. CASE ReadPacket \/ ReadError \/ LockForCopy \/ CopyStopped
  <2>1. rpc # "send" /\ rpc' # "send" /\ UNCHANGED <<pktCh, slabVars>>
    BY <1>4 DEF ReadPacket, ReadError, LockForCopy, CopyStopped, ReaderExit, chanVars
  <2>2. \A p, s : HeldBy(p, s)' <=> HeldBy(p, s)
    BY <1>3, <2>1 DEF HeldBy, ByReader, ByChan
  <2> QED BY <2>1, <2>2, HoldMove
<1>5. CASE CopyPacket
  <2>1. /\ rpc # "send" /\ rpc' = "send" /\ seen' = seen
        /\ UNCHANGED <<pktCh, panicked>> /\ rslot' \in Buffers /\ Alloc(seen, rslot')
    BY <1>5 DEF CopyPacket, chanVars, Buffers
  <2>2. \A p, s : HeldBy(p, s)' <=> HeldBy(p, s) \/ (p = seen /\ s = rslot')
    BY <1>3, <2>1 DEF HeldBy, ByReader, ByChan
  <2>3. /\ rslot' = Heap \/ rslot' \in pool
        /\ pool' = pool \ {rslot'}
        /\ content' = IF rslot' = Heap THEN content ELSE [content EXCEPT ![rslot'] = seen]
    BY <2>1 DEF Alloc
  <2>4. /\ pool \subseteq Slots /\ content \in [Slots -> Bytes] /\ Heap \notin Slots
        /\ seen \in Nat
    BY CapacityAssumption, Numbers DEF TypeOK, SlabTypeOK, Slots, Heap
  <2>5. PICK new : new = rslot'
    OBVIOUS
  <2>6. ASSUME NEW p \in Nat, NEW s \in Slots, HeldBy(p, s)'
        PROVE  s \notin pool' /\ content'[s] = p
    <3>1. CASE p = seen /\ s = new
      BY <2>3, <2>4, <2>5, <3>1
    <3>2. CASE HeldBy(p, s)
      <4>1. s \notin pool /\ content[s] = p
        BY <3>2 DEF HoldInv
      <4>2. s # new
        BY <2>3, <2>4, <2>5, <4>1
      <4> QED BY <2>3, <2>4, <2>5, <4>1, <4>2
    <3> QED BY <2>2, <2>5, <2>6, <3>1, <3>2
  <2>7. ASSUME NEW s \in Slots \ pool' PROVE \E p \in Nat : HeldBy(p, s)'
    <3>1. CASE s = new
      BY <2>2, <2>4, <2>5, <3>1
    <3>2. CASE s # new
      <4>1. s \in Slots \ pool
        BY <2>3, <2>5, <3>2
      <4>2. PICK p \in Nat : HeldBy(p, s)
        BY <4>1 DEF HoldInv
      <4> QED BY <2>2, <4>2
    <3> QED BY <3>1, <3>2
  <2>8. ~panicked'
    BY <2>1 DEF HoldInv
  <2> QED BY <2>6, <2>7, <2>8 DEF HoldInv
<1>6. CASE SendPacket
  <2>1. /\ rpc = "send" /\ rpc' = "read" /\ UNCHANGED slabVars
        /\ pktCh' = Append(pktCh, [id |-> seen, slot |-> rslot])
    BY <1>6 DEF SendPacket
  <2>2. /\ Len(pktCh') = Len(pktCh) + 1 /\ pktCh'[Len(pktCh) + 1] = [id |-> seen, slot |-> rslot]
        /\ \A i \in 1 .. Len(pktCh) : pktCh'[i] = pktCh[i]
    BY <2>1, AppendProperties, Numbers DEF TypeOK, ReadTypeOK, Bytes
  <2>3. ASSUME NEW p, NEW s PROVE ByChan(p, s)' <=> ByChan(p, s) \/ ByReader(p, s)
    <3>1. ByReader(p, s) => ByChan(p, s)'
      <4>1. Len(pktCh) + 1 \in 1 .. Len(pktCh')
        BY <2>2, Numbers
      <4> QED BY <2>2, <4>1 DEF ByReader, ByChan
    <3>2. ByChan(p, s) => ByChan(p, s)'
      BY <2>2, Numbers DEF ByChan
    <3>3. ASSUME ByChan(p, s)' PROVE ByChan(p, s) \/ ByReader(p, s)
      <4>1. PICK i \in 1 .. Len(pktCh) + 1 : p = pktCh'[i].id /\ s = pktCh'[i].slot
        BY <2>2, <3>3 DEF ByChan
      <4>2. CASE i = Len(pktCh) + 1
        BY <2>1, <2>2, <4>1, <4>2 DEF ByReader
      <4>3. CASE i # Len(pktCh) + 1
        <5>1. i \in 1 .. Len(pktCh)
          BY <4>1, <4>3, Numbers
        <5> QED BY <2>2, <4>1, <5>1 DEF ByChan
      <4> QED BY <4>2, <4>3
    <3> QED BY <3>1, <3>2, <3>3
  <2>4. \A p, s : ~ByReader(p, s)'
    BY <2>1 DEF ByReader
  <2>5. \A p \in Nat, s \in Slots : HeldBy(p, s)' <=> HeldBy(p, s)
    BY <1>3, <2>3, <2>4 DEF HeldBy
  <2> QED BY <2>1, <2>5, HoldMove
<1>7. CASE SendShutdown
  <2>1. rpc = "send" /\ rpc' = "done" /\ pktCh' = pktCh /\ Release({rslot})
    BY <1>7 DEF SendShutdown, ReaderExit
  <2>2. {rslot} \in SUBSET Buffers
    BY DEF TypeOK, ReadTypeOK
  <2>3. \A s \in {rslot} \cap Slots : \E p \in Nat : HeldBy(p, s)
    BY <2>1, Numbers DEF HeldBy, ByReader
  <2>4. ASSUME NEW p \in Nat, NEW s \in Slots
        PROVE  HeldBy(p, s)' <=> HeldBy(p, s) /\ s # rslot
    <3>1. HeldBy(p, s)' <=> ByChan(p, s) \/ ByRing(p, s) \/ ByDelay(p, s) \/ ByWriter(p, s)
      BY <1>3, <2>1 DEF HeldBy, ByReader, ByChan
    <3>2. HeldBy(p, s) /\ s # rslot => HeldBy(p, s)'
      BY <3>1 DEF HeldBy, ByReader
    <3>3. ASSUME HeldBy(p, s)' PROVE HeldBy(p, s) /\ s # rslot
      <4>1. HeldBy(p, s)
        BY <3>1, <3>3 DEF HeldBy
      <4>2. p # seen
        <5>1. seen = n + 1
          BY <2>1 DEF Chain, Sent
        <5> QED BY <3>1, <3>3, <5>1, HeldOrder, Numbers
      <4>3. content[s] = p
        BY <4>1 DEF HoldInv
      <4>4. s = rslot => content[s] = seen
        <5>1. HeldBy(seen, rslot)
          BY <2>1 DEF HeldBy, ByReader
        <5> QED BY <5>1, Numbers DEF HoldInv
      <4> QED BY <4>1, <4>2, <4>3, <4>4
    <3> QED BY <3>2, <3>3
  <2>5. \A p \in Nat, s \in Slots : HeldBy(p, s)' <=> HeldBy(p, s) /\ s \notin {rslot}
    BY <2>4
  <2> QED BY <2>1, <2>2, <2>3, <2>5, HoldRelease
<1> QED BY <1>4, <1>5, <1>6, <1>7 DEF Reader

(* The steps of the delay goroutine. *)
LEMMA HoldDelay ==
  ASSUME TypeOK, RingInv, ExitInv, NoneKept, HoldInv, NEW n \in Nat, Chain(n), Delayer
  PROVE  HoldInv'
<1>1. UNCHANGED <<seen, rpc, rslot, wpc, wmsg>>
  BY DelayFrame DEF readVars, writeVars
<1>2. \A p, s : /\ ByReader(p, s)' <=> ByReader(p, s)
                /\ ByWriter(p, s)' <=> ByWriter(p, s)
  BY <1>1 DEF ByReader, ByWriter
<1>3. CASE PacketsClosed \/ TimerFires \/ FlushEnds
  <2>1. /\ UNCHANGED <<entries, head, count, dpkt, pktCh, slabVars>>
        /\ dpc # "offer" /\ dpc' # "offer"
    BY <1>3 DEF PacketsClosed, TimerFires, FlushEnds, SendDue, chanVars
  <2>2. \A i : RingAt(i)' = RingAt(i)
    BY <2>1 DEF RingAt, At
  <2>3. \A p, s : HeldBy(p, s)' <=> HeldBy(p, s)
    BY <1>2, <2>1, <2>2 DEF HeldBy, ByChan, ByRing, ByDelay
  <2> QED BY <2>1, <2>3, HoldMove
<1>4. CASE TakePacket
  <2>1. /\ dpc = "select" /\ pktCh # <<>> /\ pktCh' = Tail(pktCh) /\ dpc' = "flush"
        /\ Insert /\ count < Buffer /\ count' = count + 1
    BY <1>4, HalfIsLess, CapacityAssumption
      DEF TakePacket, SendDue, RingInv, NeverOverflows, Overfull, TypeOK, DelayTypeOK, Insert
  <2>2. /\ Len(pktCh) \in Nat /\ Len(pktCh') = Len(pktCh) - 1 /\ Len(pktCh) # 0
        /\ \A i \in 1 .. Len(pktCh') : pktCh'[i] = pktCh[i + 1]
        /\ Head(pktCh) = pktCh[1]
    BY <2>1, HeadTailProperties, EmptySeq, Numbers DEF TypeOK, ReadTypeOK
  <2>3. PICK c : c = count
    OBVIOUS
  <2>4. /\ \A i \in 0 .. c - 1 : RingAt(i)' = RingAt(i)
        /\ RingAt(c)'.id = pktCh[1].id /\ RingAt(c)'.slot = pktCh[1].slot
    <3>1. /\ \A i \in 0 .. count - 1 : RingAt(i)' = RingAt(i)
          /\ entries'[(head' + count) % Buffer] = Entry(Delay)
      BY <2>1, InsertRing DEF TypeOK
    <3>2. RingAt(c)' = Entry(Delay)
      BY <2>3, <3>1 DEF RingAt, At
    <3> QED BY <2>2, <2>3, <3>1, <3>2 DEF Entry
  <2>5. ASSUME NEW p, NEW s
        PROVE  ByChan(p, s) <=> ByChan(p, s)' \/ (p = pktCh[1].id /\ s = pktCh[1].slot)
    <3>1. ASSUME ByChan(p, s)'
          PROVE  ByChan(p, s)
      <4>1. PICK i \in 1 .. Len(pktCh') : p = pktCh'[i].id /\ s = pktCh'[i].slot
        BY <3>1 DEF ByChan
      <4>2. i + 1 \in 1 .. Len(pktCh) /\ pktCh'[i] = pktCh[i + 1]
        BY <2>2, <4>1
      <4> QED BY <4>1, <4>2 DEF ByChan
    <3>2. ASSUME p = pktCh[1].id, s = pktCh[1].slot
          PROVE  ByChan(p, s)
      <4>1. 1 \in 1 .. Len(pktCh)
        BY <2>2
      <4> QED BY <3>2, <4>1 DEF ByChan
    <3>3. ASSUME ByChan(p, s)
          PROVE  ByChan(p, s)' \/ (p = pktCh[1].id /\ s = pktCh[1].slot)
      <4>1. PICK i \in 1 .. Len(pktCh) : p = pktCh[i].id /\ s = pktCh[i].slot
        BY <3>3 DEF ByChan
      <4>2. CASE i = 1
        BY <4>1, <4>2
      <4>3. CASE i # 1
        <5>1. i - 1 \in 1 .. Len(pktCh') /\ pktCh'[i - 1] = pktCh[(i - 1) + 1]
          BY <2>2, <4>1, <4>3
        <5>2. (i - 1) + 1 = i
          BY <4>1
        <5> QED BY <4>1, <5>1, <5>2 DEF ByChan
      <4> QED BY <4>2, <4>3
    <3> QED BY <3>1, <3>2, <3>3
  <2>6. ASSUME NEW p, NEW s
        PROVE  ByRing(p, s)' <=> ByRing(p, s) \/ (p = pktCh[1].id /\ s = pktCh[1].slot)
    <3>1. \A i : i \in 0 .. count' - 1 <=> i \in 0 .. c - 1 \/ i = c
      BY <2>1, <2>3, Numbers
    <3> QED BY <2>3, <2>4, <3>1 DEF ByRing
  <2>7. \A p, s : ~ByDelay(p, s) /\ ~ByDelay(p, s)'
    BY <2>1 DEF ByDelay
  <2>8. \A p, s : HeldBy(p, s)' <=> HeldBy(p, s)
    BY <1>2, <2>5, <2>6, <2>7 DEF HeldBy
  <2> QED BY <2>1, <2>8, HoldMove DEF Insert
<1>5. CASE Pop
  <2>1. /\ \A i \in 0 .. count - 2 : RingAt(i)' = RingAt(i + 1)
        /\ count \in Nat \ {0} /\ count' = count - 1
        /\ dpkt'.id = RingAt(0).id /\ dpkt'.slot = RingAt(0).slot
    BY <1>5, PopRing DEF TypeOK
  <2>2. dpc = "flush" /\ dpc' = "offer" /\ UNCHANGED <<pktCh, slabVars>>
    BY <1>5 DEF Pop, chanVars
  <2>3. ASSUME NEW p, NEW s
        PROVE  ByRing(p, s) <=> ByRing(p, s)' \/ ByDelay(p, s)'
    <3>1. ByDelay(p, s)' <=> p = RingAt(0).id /\ s = RingAt(0).slot
      BY <2>1, <2>2 DEF ByDelay
    <3>2. ASSUME ByRing(p, s)' PROVE ByRing(p, s)
      <4>1. PICK i \in 0 .. count' - 1 : p = RingAt(i)'.id /\ s = RingAt(i)'.slot
        BY <3>2 DEF ByRing
      <4>2. i \in 0 .. count - 2 /\ i + 1 \in 0 .. count - 1
        BY <2>1, <4>1
      <4> QED BY <2>1, <4>1, <4>2 DEF ByRing
    <3>3. ASSUME ByDelay(p, s)' PROVE ByRing(p, s)
      <4>1. 0 \in 0 .. count - 1
        BY <2>1
      <4> QED BY <3>1, <3>3, <4>1 DEF ByRing
    <3>4. ASSUME ByRing(p, s), ~ByDelay(p, s)' PROVE ByRing(p, s)'
      <4>1. PICK i \in 0 .. count - 1 : p = RingAt(i).id /\ s = RingAt(i).slot
        BY <3>4 DEF ByRing
      <4>2. i # 0
        BY <3>1, <3>4, <4>1
      <4>3. i - 1 \in 0 .. count - 2 /\ i - 1 \in 0 .. count' - 1 /\ (i - 1) + 1 = i
        BY <2>1, <4>1, <4>2
      <4>4. PICK j : j = i - 1
        OBVIOUS
      <4>5. RingAt(j)' = RingAt(i)
        BY <2>1, <4>3, <4>4
      <4> QED BY <4>1, <4>3, <4>4, <4>5 DEF ByRing
    <3> QED BY <3>2, <3>3, <3>4
  <2>4. \A p, s : ~ByDelay(p, s) /\ (ByChan(p, s)' <=> ByChan(p, s))
    BY <2>2 DEF ByDelay, ByChan
  <2>5. \A p, s : HeldBy(p, s)' <=> HeldBy(p, s)
    BY <1>2, <2>3, <2>4 DEF HeldBy
  <2> QED BY <2>2, <2>5, HoldMove
<1>6. ASSUME NEW held, Discard(held),
             \/ held = {} /\ dpc # "offer"
             \/ held = {dpkt.slot} /\ dpc = "offer"
      PROVE  HoldInv'
  <2> DEFINE S == {entries[i].slot : i \in Buffered} \cup held
  <2>1. Release(S) /\ count' = 0 /\ dpc' = "done" /\ pktCh' = pktCh
    BY <1>6 DEF Discard, chanVars
  <2>2. \A s : s \in S <=> \E p : ByRing(p, s) \/ ByDelay(p, s)
    BY <1>6 DEF ByRing, ByDelay, Buffered, RingAt
  <2>3. S \in SUBSET Buffers
    <3>1. \A i \in Buffered : entries[i].slot \in Buffers
      BY AtIsIndex DEF Buffered, TypeOK, DelayTypeOK
    <3>2. held \in SUBSET Buffers
      BY <1>6 DEF TypeOK, DelayTypeOK
    <3> QED BY <3>1, <3>2
  <2> HIDE DEF S
  <2>4. \A p, s : ByRing(p, s) \/ ByDelay(p, s) => p \in Nat
    <3>1. \A i \in 0 .. count - 1 : RingAt(i).id \in Nat
      BY AtIsIndex, BoundAssumption DEF RingAt, TypeOK, DelayTypeOK, Bytes
    <3>2. dpkt.id \in Nat
      BY BoundAssumption DEF TypeOK, DelayTypeOK, Bytes
    <3> QED BY <3>1, <3>2 DEF ByRing, ByDelay
  <2>5. \A s \in S \cap Slots : \E p \in Nat : HeldBy(p, s)
    BY <2>2, <2>4 DEF HeldBy
  <2>6. ASSUME NEW p \in Nat, NEW s \in Slots
        PROVE  HeldBy(p, s)' <=> HeldBy(p, s) /\ s \notin S
    <3>1. HeldBy(p, s)' <=> ByReader(p, s) \/ ByChan(p, s) \/ ByWriter(p, s)
      BY <1>2, <2>1 DEF HeldBy, ByRing, ByChan, ByDelay
    <3>2. ASSUME HeldBy(p, s), s \notin S PROVE HeldBy(p, s)'
      BY <2>2, <3>1, <3>2 DEF HeldBy
    <3>3. ASSUME HeldBy(p, s)' PROVE HeldBy(p, s) /\ s \notin S
      <4>1. HeldBy(p, s)
        BY <3>1, <3>3 DEF HeldBy
      <4>2. ASSUME NEW q, ByRing(q, s) \/ ByDelay(q, s) PROVE FALSE
        <5>1. q \in Nat /\ HeldBy(q, s)
          BY <2>4, <4>2 DEF HeldBy
        <5>2. content[s] = p /\ content[s] = q
          BY <4>1, <5>1 DEF HoldInv
        <5>3. ByRing(p, s) \/ ByDelay(p, s)
          BY <4>2, <5>2
        <5>4. ByDelay(p, s) => dpc = "offer"
          BY DEF ByDelay
        <5> QED BY <3>1, <3>3, <5>3, <5>4, HeldOrder, Numbers
      <4> QED BY <2>2, <4>1, <4>2
    <3> QED BY <3>2, <3>3
  <2> QED BY <2>1, <2>3, <2>5, <2>6, HoldRelease
<1>7. CASE SelectShutdown
  BY <1>6, <1>7 DEF SelectShutdown
<1>8. CASE OfferShutdown
  BY <1>6, <1>8 DEF OfferShutdown
<1> QED BY <1>3, <1>4, <1>5, <1>7, <1>8 DEF Delayer

(* The steps of the writer. *)
LEMMA HoldWriter ==
  ASSUME TypeOK, ExitInv, NoneKept, HoldInv, NEW n \in Nat, Chain(n), Writer
  PROVE  HoldInv'
<1>1. UNCHANGED <<seen, rpc, rslot, pktCh, entries, head, count>>
  BY WriterFrame DEF readVars, chanVars
<1>2. \A i : RingAt(i)' = RingAt(i)
  BY <1>1 DEF RingAt, At
<1>3. \A p, s : /\ ByReader(p, s)' <=> ByReader(p, s)
                /\ ByChan(p, s)' <=> ByChan(p, s)
                /\ ByRing(p, s)' <=> ByRing(p, s)
  BY <1>1, <1>2 DEF ByReader, ByChan, ByRing
<1>4. CASE TakeReady
  <2>1. /\ dpc = "offer" /\ dpc' = "flush" /\ wpc = "select" /\ wpc' = "packet"
        /\ wmsg' = dpkt /\ UNCHANGED slabVars
    BY <1>4 DEF TakeReady, Running
  <2>2. \A p, s : /\ ByWriter(p, s)' <=> ByDelay(p, s)
                  /\ ~ByDelay(p, s)' /\ ~ByWriter(p, s)
    BY <2>1 DEF ByWriter, ByDelay
  <2>3. \A p, s : HeldBy(p, s)' <=> HeldBy(p, s)
    BY <1>3, <2>2 DEF HeldBy
  <2> QED BY <2>1, <2>3, HoldMove
<1>5. CASE WritePacket
  <2>1. wpc = "packet" /\ wpc' # "packet" /\ Release({wmsg.slot}) /\ UNCHANGED <<dpc, dpkt>>
    BY <1>5 DEF WritePacket, Written
  <2>2. {wmsg.slot} \in SUBSET Buffers /\ wmsg.id \in Nat
    BY DEF TypeOK, WriteTypeOK
  <2>3. ByWriter(wmsg.id, wmsg.slot)
    BY <2>1 DEF ByWriter
  <2>4. \A s \in {wmsg.slot} \cap Slots : \E p \in Nat : HeldBy(p, s)
    BY <2>2, <2>3 DEF HeldBy
  <2>5. ASSUME NEW p \in Nat, NEW s \in Slots
        PROVE  HeldBy(p, s)' <=> HeldBy(p, s) /\ s \notin {wmsg.slot}
    <3>1. HeldBy(p, s)' <=> ByReader(p, s) \/ ByChan(p, s) \/ ByRing(p, s) \/ ByDelay(p, s)
      BY <1>3, <2>1 DEF HeldBy, ByDelay, ByWriter
    <3>2. ASSUME HeldBy(p, s), s # wmsg.slot PROVE HeldBy(p, s)'
      BY <3>1, <3>2 DEF HeldBy, ByWriter
    <3>3. ASSUME HeldBy(p, s)' PROVE HeldBy(p, s) /\ s # wmsg.slot
      <4>1. HeldBy(p, s)
        BY <3>1, <3>3 DEF HeldBy
      <4>2. p # wmsg.id
        <5>1. ByDelay(p, s) => dpc = "offer"
          BY DEF ByDelay
        <5>2. /\ wmsg.id <= n - Len(pktCh) - count
              /\ dpc = "offer" => wmsg.id < n - Len(pktCh) - count
          BY <2>2, <2>3, HeldOrder
        <5> QED BY <2>2, <3>1, <3>3, <5>1, <5>2, HeldOrder, Numbers
      <4>3. content[s] = p
        BY <4>1 DEF HoldInv
      <4>4. s = wmsg.slot => content[s] = wmsg.id
        <5>1. HeldBy(wmsg.id, wmsg.slot)
          BY <2>3 DEF HeldBy
        <5> QED BY <2>2, <5>1 DEF HoldInv
      <4> QED BY <4>1, <4>2, <4>3, <4>4
    <3> QED BY <3>2, <3>3
  <2> QED BY <2>1, <2>2, <2>4, <2>5, HoldRelease
<1>6. CASE Writer /\ ~TakeReady /\ ~WritePacket
  <2>1. UNCHANGED <<dpc, dpkt, slabVars>>
    BY <1>6, WriterFrame
  <2>2. wpc # "packet" /\ wpc' # "packet"
    BY <1>6 DEF Writer, TakeSecret, SourceClosed, WriteSecret, Written, FlushBatch,
      FinalFlush, Flush, AwaitCapture, Return, ReturnClose, Running
  <2>3. \A p, s : HeldBy(p, s)' <=> HeldBy(p, s)
    BY <1>3, <2>1, <2>2 DEF HeldBy, ByDelay, ByWriter
  <2> QED BY <2>1, <2>3, HoldMove
<1> QED BY <1>4, <1>5, <1>6

LEMMA HoldStep ==
  TypeOK /\ RingInv /\ ExitInv /\ ChainInv /\ NoneKept /\ HoldInv /\ [Next]_vars => HoldInv'
<1> SUFFICES ASSUME TypeOK, RingInv, ExitInv, ChainInv, NoneKept, HoldInv, [Next]_vars
             PROVE  HoldInv'
  OBVIOUS
<1>1. PICK n \in Nat : Chain(n)
  BY DEF ChainInv
<1>2. CASE Outside
  BY <1>2, OutsideFrame, HoldFrame DEF readVars, chanVars, delayVars, writeVars, slabVars
<1>3. CASE ReadPacket \/ Reader
  BY <1>1, <1>3, HoldReader
<1>4. CASE Delayer
  BY <1>1, <1>4, HoldDelay
<1>5. CASE Writer
  BY <1>1, <1>5, HoldWriter
<1>6. CASE Tick
  <2>1. UNCHANGED <<seen, rpc, rslot, pktCh, count, dpc, dpkt, wpc, wmsg, slabVars>>
    BY <1>6 DEF Tick, readVars, chanVars, writeVars
  <2>2. \A i \in 0 .. count - 1 : /\ RingAt(i)'.id = RingAt(i).id
                                   /\ RingAt(i)'.slot = RingAt(i).slot
    BY <1>6, TickRing, Numbers DEF TypeOK
  <2>3. \A p, s : HeldBy(p, s)' <=> HeldBy(p, s)
    BY <2>1, <2>2 DEF HeldBy, ByReader, ByChan, ByRing, ByDelay, ByWriter
  <2> QED BY <2>1, <2>3, HoldMove
<1> QED BY <1>2, <1>3, <1>4, <1>5, <1>6 DEF Next, Outside

-----------------------------------------------------------------------------
(* The invariant, put together. *)

LEMMA InvInit == Init => Inv
<1> SUFFICES ASSUME Init PROVE Inv
  OBVIOUS
<1>1. TypeOK /\ RingInv
  BY TypeInit, RingInvInit
<1>2. Len(pktCh) = 0 /\ count = 0 /\ DOMAIN file = {} /\ Len(file) = 0
  BY EmptySeq DEF Init
<1>3. PacketCount = 0 /\ SecretCount = 0
  <2>1. {i \in DOMAIN file : file[i].kind = "pkt"} = {} /\ {i \in DOMAIN file : file[i].kind = "key"} = {}
    BY <1>2
  <2> QED BY <2>1, FS_EmptySet DEF PacketCount, SecretCount, CountIn
<1>4. ExitInv /\ NoneKept
  BY <1>2 DEF Init, ExitInv, Returning, NoneKept, NoPkt
<1>5. ChainInv
  <2>1. Passed(0) = 0 /\ InHand("packet") = 0
    <3>1. dpc = "select" /\ wpc = "select"
      BY DEF Init
    <3> QED BY <1>2, <3>1 DEF Passed, InHand
  <2>2. Chain(0)
    BY <1>2, <1>3, <2>1 DEF Init, Chain, Sent, Queued, Forwarded
  <2> QED BY <2>2 DEF ChainInv
<1>6. FileInv
  BY <1>2, <1>3 DEF FileInv, IdsIn
<1>7. SecretInv
  BY <1>3 DEF Init, SecretInv, InHand
<1>8. HoldInv
  BY <1>2 DEF Init, HoldInv, HeldBy, ByReader, ByChan, ByRing, ByDelay, ByWriter
<1>9. BatchInv
  BY <1>2 DEF Init, BatchInv, Unflushed
<1> QED BY <1>1, <1>4, <1>5, <1>6, <1>7, <1>8, <1>9 DEF Inv

LEMMA InvStep == Inv /\ [Next]_vars => Inv'
<1> SUFFICES ASSUME Inv, [Next]_vars PROVE Inv'
  OBVIOUS
<1>1. TypeOK'
  BY StopTypeStep, ReadTypeStep, DelayTypeStep, WriteTypeStep, SlabTypeStep DEF Inv, TypeOK
<1>2. RingInv' /\ ExitInv' /\ ChainInv'
  BY RingInvStep, ExitStep, ChainStep DEF Inv
<1>3. FileInv' /\ SecretInv' /\ BatchInv'
  BY FileStep, SecretStep, BatchStep DEF Inv
<1>4. NoneKept' /\ HoldInv'
  BY KeptStep, HoldStep DEF Inv
<1> QED BY <1>1, <1>2, <1>3, <1>4 DEF Inv

(* In every reachable state the packets on their way are the ones received   *)
(* and not yet written, in order, each with a buffer of its own.             *)
THEOREM FileInvariant == Spec => []Inv
BY InvInit, InvStep, PTL DEF Spec

-----------------------------------------------------------------------------
(* What follows from it. *)

(* When nobody holds a slot, the places it could be held at are empty; when  *)
(* one holds it, the others do not.                                          *)
LEMMA OneHolder ==
  ASSUME Inv, NEW s \in Slots
  PROVE  SlotUses(s) = 1
<1> DEFINE inPool == IF s \in pool THEN 1 ELSE 0
           inRead == IF rslot = s THEN 1 ELSE 0
           inOffer == IF dpkt.slot = s THEN 1 ELSE 0
           inWrite == IF wmsg.slot = s THEN 1 ELSE 0
           C == {i \in DOMAIN pktCh : pktCh[i].slot = s}
           R == {i \in Buffered : entries[i].slot = s}
<1>1. TypeOK /\ HoldInv /\ NoneKept /\ s # Heap
  BY DEF Inv, Slots, Heap
<1>2. PICK n \in Nat : Chain(n)
  BY DEF Inv, ChainInv
<1>3. DOMAIN pktCh = 1 .. Len(pktCh)
  BY <1>1, LenProperties DEF TypeOK, ReadTypeOK
<1>4. /\ rslot = s <=> \E p \in Nat : ByReader(p, s)
      /\ dpkt.slot = s <=> \E p \in Nat : ByDelay(p, s)
      /\ wmsg.slot = s <=> \E p \in Nat : ByWriter(p, s)
  <2>1. seen \in Nat /\ dpkt.id \in Nat /\ wmsg.id \in Nat
    BY <1>1, BoundAssumption, Numbers DEF TypeOK, DelayTypeOK, WriteTypeOK, Bytes
  <2> QED BY <1>1, <2>1 DEF NoneKept, ByReader, ByDelay, ByWriter
<1>5. /\ \A i \in 1 .. Len(pktCh) : pktCh[i].id \in Nat
      /\ \A i \in 0 .. count - 1 : RingAt(i).id \in Nat
  <2>1. Bytes \subseteq Nat
    BY BoundAssumption DEF Bytes
  <2>2. \A i \in 0 .. count - 1 : At(i) \in Index
    BY <1>1, AtIsIndex DEF TypeOK, DelayTypeOK
  <2>3. \A i \in 0 .. count - 1 : RingAt(i).id \in Bytes
    BY <1>1, <2>2 DEF TypeOK, DelayTypeOK, RingAt
  <2>4. \A i \in 1 .. Len(pktCh) : pktCh[i].id \in Bytes
    <3>1. \A i \in 1 .. Len(pktCh) : pktCh[i] \in [id : Bytes, slot : Buffers]
      BY <1>1, ElementOfSeq DEF TypeOK, ReadTypeOK
    <3> QED BY <3>1
  <2> QED BY <2>1, <2>3, <2>4
<1>6. \A i \in C : i \in 1 .. Len(pktCh) /\ ByChan(pktCh[i].id, s)
  BY <1>3 DEF ByChan
<1>7. \A j \in R : \E i \in 0 .. count - 1 : j = At(i) /\ ByRing(RingAt(i).id, s)
  BY DEF Buffered, ByRing, RingAt
<1> HIDE DEF C, R
<1>8. CASE s \in pool
  <2>1. \A p \in Nat : ~HeldBy(p, s)
    BY <1>1, <1>8 DEF HoldInv
  <2>2. C = {} /\ R = {}
    BY <1>5, <1>6, <1>7, <2>1 DEF HeldBy
  <2>3. Cardinality(C) = 0 /\ Cardinality(R) = 0
    BY <2>2, FS_EmptySet
  <2>4. rslot # s /\ dpkt.slot # s /\ wmsg.slot # s
    BY <1>4, <2>1 DEF HeldBy
  <2> QED BY <1>8, <2>3, <2>4 DEF SlotUses, C, R
<1>9. CASE s \notin pool
  <2>1. PICK p \in Nat : HeldBy(p, s)
    BY <1>1, <1>9 DEF HoldInv
  <2>2. \A q \in Nat : HeldBy(q, s) => q = p
    BY <1>1, <2>1 DEF HoldInv
  <2>3. /\ rslot = s <=> ByReader(p, s)
        /\ dpkt.slot = s <=> ByDelay(p, s)
        /\ wmsg.slot = s <=> ByWriter(p, s)
    BY <1>4, <2>2 DEF HeldBy
  <2>4. \A i \in C : i \in 1 .. Len(pktCh) /\ pktCh[i].id = p /\ ByChan(p, s)
    BY <1>5, <1>6, <2>2 DEF HeldBy
  <2>5. \A j \in R : \E i \in 0 .. count - 1 : j = At(i) /\ RingAt(i).id = p /\ ByRing(p, s)
    BY <1>5, <1>7, <2>2 DEF HeldBy
  <2>6. IF ByChan(p, s) THEN Cardinality(C) = 1 ELSE Cardinality(C) = 0
    <3>1. CASE ByChan(p, s)
      <4>1. PICK i \in 1 .. Len(pktCh) : p = pktCh[i].id /\ s = pktCh[i].slot
        BY <3>1 DEF ByChan
      <4>2. ASSUME NEW j \in C PROVE j = i
        <5>1. j \in 1 .. Len(pktCh) /\ pktCh[j].id = pktCh[i].id
          BY <2>4, <4>1
        <5>2. n - Len(pktCh) + j = n - Len(pktCh) + i
          BY <1>2, <4>1, <5>1 DEF Chain, Queued
        <5> QED BY <1>1, <4>1, <5>1, <5>2, Numbers
      <4>3. i \in C
        BY <1>3, <4>1 DEF C
      <4>4. C = {i}
        BY <4>2, <4>3
      <4> QED BY <3>1, <4>4, FS_Singleton
    <3>2. CASE ~ByChan(p, s)
      <4>1. C = {}
        BY <2>4, <3>2
      <4> QED BY <3>2, <4>1, FS_EmptySet
    <3> QED BY <3>1, <3>2
  <2>7. IF ByRing(p, s) THEN Cardinality(R) = 1 ELSE Cardinality(R) = 0
    <3>1. CASE ByRing(p, s)
      <4>1. PICK i \in 0 .. count - 1 : p = RingAt(i).id /\ s = RingAt(i).slot
        BY <3>1 DEF ByRing
      <4>2. ASSUME NEW j \in R PROVE j = At(i)
        <5>1. PICK k \in 0 .. count - 1 : j = At(k) /\ RingAt(k).id = p
          BY <2>5
        <5>2. n - Len(pktCh) - count + 1 + k = n - Len(pktCh) - count + 1 + i
          BY <1>2, <4>1, <5>1 DEF Chain, Queued
        <5>3. k = i
          BY <1>1, <4>1, <5>1, <5>2, Numbers
        <5> QED BY <5>1, <5>3
      <4>3. At(i) \in R
        BY <4>1 DEF R, Buffered, RingAt
      <4>4. R = {At(i)}
        BY <4>2, <4>3
      <4> QED BY <3>1, <4>4, FS_Singleton
    <3>2. CASE ~ByRing(p, s)
      <4>1. R = {}
        BY <2>5, <3>2
      <4> QED BY <3>2, <4>1, FS_EmptySet
    <3> QED BY <3>1, <3>2
  <2>8. /\ ByReader(p, s) => p = n + 1
        /\ ByChan(p, s) => n - Len(pktCh) < p /\ p <= n
        /\ ByRing(p, s) => n - Len(pktCh) - count < p /\ p <= n - Len(pktCh)
        /\ ByDelay(p, s) => p = n - Len(pktCh) - count /\ dpc = "offer"
        /\ ByWriter(p, s) => /\ p <= n - Len(pktCh) - count
                             /\ dpc = "offer" => p < n - Len(pktCh) - count
    <3>1. ByDelay(p, s) => dpc = "offer"
      BY DEF ByDelay
    <3> QED BY <1>1, <1>2, <3>1, HeldOrder
  <2>9. /\ ByReader(p, s) => ~ByChan(p, s) /\ ~ByRing(p, s) /\ ~ByDelay(p, s) /\ ~ByWriter(p, s)
        /\ ByChan(p, s) => ~ByRing(p, s) /\ ~ByDelay(p, s) /\ ~ByWriter(p, s)
        /\ ByRing(p, s) => ~ByDelay(p, s) /\ ~ByWriter(p, s)
        /\ ByDelay(p, s) => ~ByWriter(p, s)
    BY <1>1, <2>8, Numbers
  <2>10. ByReader(p, s) \/ ByChan(p, s) \/ ByRing(p, s) \/ ByDelay(p, s) \/ ByWriter(p, s)
    BY <2>1 DEF HeldBy
  <2> QED BY <1>9, <2>3, <2>6, <2>7, <2>9, <2>10 DEF SlotUses, C, R
<1> QED BY <1>8, <1>9

(* Every slot is in the pool or in one place on the way of a packet, and     *)
(* none is released twice (slabPool, pcapng.go), whatever is shut down or    *)
(* fails in between.                                                         *)
THEOREM SlabIsOwned == Spec => []SlabOwnership
<1>1. Inv => SlabOwnership
  BY OneHolder DEF SlabOwnership, Inv, HoldInv
<1> QED BY <1>1, FileInvariant, PTL

(* While the delay goroutine and the writer both wait, the packets of the    *)
(* file have been flushed (the last flag of the packets sent on readyCh).    *)
THEOREM WhatIsIdleIsFlushed == Spec => []IdleFlushed
<1>1. Inv => IdleFlushed
  <2> SUFFICES ASSUME Inv, dpc = "select", Running
               PROVE  \A i \in DOMAIN file : file[i].kind = "pkt" => i <= flushed
    BY DEF IdleFlushed
  <2>1. ~Unflushed
    BY DEF Inv, BatchInv, Running
  <2>2. file \in Seq(Blocks) /\ flushed \in Nat
    BY LenProperties DEF Inv, TypeOK, WriteTypeOK, Blocks, Kinds
  <2>3. DOMAIN file = 1 .. Len(file) /\ Len(file) \in Nat
    BY <2>2, LenProperties
  <2> QED BY <2>1, <2>2, <2>3 DEF Unflushed
<1> QED BY <1>1, FileInvariant, PTL

(* When PcapNG reports a capture error that is not a shutdown, every packet  *)
(* received is in the file, and flushed (pcapng.go:427).                     *)
THEOREM CaptureErrorLosesNothing == Spec => []CaptureErrorKeepsPackets
<1>1. Inv => CaptureErrorKeepsPackets
  <2> SUFFICES ASSUME Inv, wpc = "return", result = "capture", ~shutdown
               PROVE  PacketsWritten = 1 .. seen /\ flushed = Len(file)
    BY DEF CaptureErrorKeepsPackets
  <2>1. /\ ~readyOpen /\ flushed = Len(file) /\ capDone = "err" /\ dpc = "done"
        /\ count = 0 /\ pktCh = <<>>
    BY DEF Inv, ExitInv, Returning
  <2>2. PICK n \in Nat : Chain(n)
    BY DEF Inv, ChainInv
  <2>3. n = seen /\ PacketCount + InHand("packet") = Passed(n)
    BY <2>1, <2>2 DEF Chain, Sent, Forwarded
  <2>4. InHand("packet") = 0 /\ Passed(n) = n
    BY <2>1, EmptySeq DEF InHand, Passed
  <2>5. PacketCount = seen
    BY <2>3, <2>4, Numbers DEF Inv
  <2>6. PacketsWritten = 1 .. seen
    BY <2>5 DEF Inv, FileInv, IdsIn, PacketsWritten
  <2> QED BY <2>1, <2>6
<1> QED BY <1>1, FileInvariant, PTL

-----------------------------------------------------------------------------
(* The refinement: a successful write is CaptureFile's write of the next     *)
(* packet or secret, receiving is receiving, and the last flush or a failed  *)
(* write closes the file.                                                    *)

LEMMA RefinesInit == Init => Abstract!Init
  BY DEF Init, Abstract!Init

(* The block that WritePacket writes is the next packet, with its bytes. *)
LEMMA NextPacket ==
  ASSUME Inv, WritePacket
  PROVE  /\ PktBlock(wmsg.id, BytesOf(wmsg)) = Abstract!Block("pkt", Abstract!Written("pkt") + 1)
         /\ Abstract!Written("pkt") < seen
<1>1. PICK n \in Nat : Chain(n)
  BY DEF Inv, ChainInv
<1>2. TypeOK /\ wpc = "packet" /\ wmsg.id = PacketCount + 1 /\ InHand("packet") = 1
  BY <1>1 DEF Inv, WritePacket, Chain, Forwarded, InHand
<1>3. BytesOf(wmsg) = wmsg.id
  <2>1. CASE wmsg.slot = Heap
    BY <2>1 DEF BytesOf
  <2>2. CASE wmsg.slot # Heap
    <3>1. wmsg.slot \in Slots /\ wmsg.id \in Nat
      BY <1>2, <2>2 DEF TypeOK, WriteTypeOK, Buffers
    <3>2. HeldBy(wmsg.id, wmsg.slot)
      BY <1>2 DEF HeldBy, ByWriter
    <3> QED BY <2>2, <3>1, <3>2 DEF Inv, HoldInv, BytesOf
  <2> QED BY <2>1, <2>2
<1>4. PacketCount < seen
  BY <1>1, <1>2, Numbers DEF Chain, Sent, Forwarded, Passed
<1>5. Abstract!Written("pkt") = PacketCount
  BY DEF Abstract!Written, Abstract!Cardinality, Cardinality, PacketCount, CountIn
<1> QED BY <1>2, <1>3, <1>4, <1>5 DEF PktBlock, Abstract!Block

(* The block that WriteSecret writes is the next secret. *)
LEMMA NextSecret ==
  ASSUME Inv, WriteSecret
  PROVE  /\ KeyBlock(wmsg.id) = Abstract!Block("key", Abstract!Written("key") + 1)
         /\ Abstract!Written("key") < taken
<1>1. TypeOK /\ wpc = "secret" /\ InHand("secret") = 1
  BY DEF Inv, WriteSecret, InHand
<1>2. wmsg.id = SecretCount + 1 /\ SecretCount < taken
  BY <1>1, Numbers DEF Inv, SecretInv
<1>3. Abstract!Written("key") = SecretCount
  BY DEF Abstract!Written, Abstract!Cardinality, Cardinality, SecretCount, CountIn
<1> QED BY <1>2, <1>3 DEF KeyBlock, Abstract!Block

LEMMA RefinesNext == Inv /\ [Next]_vars => [Abstract!Next]_(Abstract!vars)
<1> SUFFICES ASSUME Inv, [Next]_vars PROVE [Abstract!Next]_(Abstract!vars)
  OBVIOUS
<1> DEFINE closed == wpc \in {"capdone", "return", "stop", "returned"}
<1>1. TypeOK
  BY DEF Inv
<1>2. CASE /\ UNCHANGED <<seen, taken, file, wpc>>
           /\ shutdown' = shutdown \/ shutdown' = TRUE
  BY <1>2 DEF Abstract!Next, Abstract!vars, Abstract!Stop
<1>3. CASE Cancel \/ CancelStop \/ ProbeEnds \/ Terminated \/ UNCHANGED vars \/ Tick
  BY <1>2, <1>3 DEF Cancel, CancelStop, CancelStopBegin, CancelStopClose, ProbeEnds,
    Terminated, Tick, vars, stopVars, probeVars, readVars, writeVars
<1>4. CASE Keylog
  <2>1. CASE KeylogRecv
    <3>1. taken < MaxSecrets /\ taken' = taken + 1 /\ UNCHANGED <<shutdown, seen, file, wpc>>
      BY <2>1 DEF KeylogRecv, KeylogUnchanged, readVars, writeVars
    <3> QED BY <3>1 DEF Abstract!Next, Abstract!ReceiveSecret
  <2>2. CASE ~KeylogRecv
    <3>1. /\ UNCHANGED <<seen, taken, file, wpc>>
          /\ shutdown' = shutdown \/ shutdown' = TRUE
      BY <1>4, <2>2 DEF Keylog, KeylogEnds, KeylogShutdown, KeylogCheckErr,
        KeylogStopClose, KeylogUnchanged, readVars, writeVars
    <3> QED BY <1>2, <3>1
  <2> QED BY <2>1, <2>2
<1>5. CASE ReadPacket \/ Reader
  <2>1. UNCHANGED <<shutdown, taken, file, wpc>>
    BY <1>5, ReaderFrame DEF stopVars, probeVars, writeVars
  <2>2. CASE ReadPacket
    BY <2>1, <2>2 DEF ReadPacket, Abstract!Next, Abstract!ReceivePacket
  <2>3. CASE Reader
    <3>1. seen' = seen
      BY <2>3 DEF Reader, ReadError, LockForCopy, CopyPacket, CopyStopped, SendPacket,
        SendShutdown
    <3> QED BY <1>2, <2>1, <3>1
  <2> QED BY <1>5, <2>2, <2>3
<1>6. CASE Delayer
  <2>1. UNCHANGED <<shutdown, seen, taken, file, wpc>>
    BY <1>6, DelayFrame DEF stopVars, probeVars, readVars, writeVars
  <2> QED BY <1>2, <2>1
<1>7. CASE Writer
  <2>1. UNCHANGED <<seen, taken>>
    BY <1>7, WriterFrame DEF readVars, probeVars
  <2>2. CASE WritePacket
    <3>1. wpc = "packet" /\ shutdown' = shutdown
      BY <2>2 DEF WritePacket
    <3>2. CASE file' = Append(file, PktBlock(wmsg.id, BytesOf(wmsg))) /\ wpc' \in {"flush", "select"}
      <4>1. /\ file' = Append(file, Abstract!Block("pkt", Abstract!Written("pkt") + 1))
            /\ Abstract!Written("pkt") < seen
        BY <2>2, <3>2, NextPacket
      <4>2. Abstract!WritePacket
        BY <2>1, <3>1, <3>2, <4>1 DEF Abstract!WritePacket, Abstract!Write
      <4> QED BY <4>2 DEF Abstract!Next
    <3>3. CASE file' = file /\ wpc' = "return"
      BY <2>1, <3>1, <3>3 DEF Abstract!Next, Abstract!Close
    <3> QED BY <2>2, <3>2, <3>3 DEF WritePacket, Written
  <2>3. CASE WriteSecret
    <3>1. wpc = "secret" /\ shutdown' = shutdown
      BY <2>3 DEF WriteSecret
    <3>2. CASE file' = Append(file, KeyBlock(wmsg.id)) /\ wpc' = "select"
      <4>1. /\ file' = Append(file, Abstract!Block("key", Abstract!Written("key") + 1))
            /\ Abstract!Written("key") < taken
        BY <2>3, <3>2, NextSecret
      <4>2. Abstract!WriteSecret
        BY <2>1, <3>1, <3>2, <4>1 DEF Abstract!WriteSecret, Abstract!Write
      <4> QED BY <4>2 DEF Abstract!Next
    <3>3. CASE file' = file /\ wpc' = "return"
      BY <2>1, <3>1, <3>3 DEF Abstract!Next, Abstract!Close
    <3> QED BY <2>3, <3>2, <3>3 DEF WriteSecret, Written
  <2>4. CASE FlushBatch \/ FinalFlush
    <3>1. /\ file' = file /\ shutdown' = shutdown /\ wpc \in {"flush", "select"}
          /\ wpc' \in {"select", "capdone", "return"}
      BY <2>4 DEF FlushBatch, FinalFlush, Flush
    <3>2. CASE wpc' = "select"
      BY <2>1, <3>1, <3>2 DEF Abstract!vars
    <3>3. CASE wpc' # "select"
      BY <2>1, <3>1, <3>3 DEF Abstract!Next, Abstract!Close
    <3> QED BY <3>2, <3>3
  <2>5. CASE AwaitCapture \/ Return \/ ReturnClose
    <3>1. /\ closed /\ closed' /\ file' = file
          /\ shutdown' = shutdown \/ shutdown' = TRUE
      BY <2>5 DEF AwaitCapture, Return, ReturnClose
    <3>2. closed' = closed
      BY <3>1
    <3> QED BY <2>1, <3>1, <3>2 DEF Abstract!Next, Abstract!vars, Abstract!Stop
  <2>6. CASE TakeSecret \/ TakeReady \/ SourceClosed
    <3>1. /\ file' = file /\ shutdown' = shutdown /\ wpc = "select"
          /\ wpc' \in {"secret", "packet", "select"}
      BY <2>6 DEF TakeSecret, TakeReady, SourceClosed, Running
    <3> QED BY <2>1, <3>1 DEF Abstract!vars
  <2> QED BY <1>7, <2>2, <2>3, <2>4, <2>5, <2>6 DEF Writer
<1> QED BY <1>3, <1>4, <1>5, <1>6, <1>7 DEF Next

(* PcapNG implements CaptureFile: whatever is cancelled or fails, the file   *)
(* has the packets and the secrets in order, each once, none skipped, with   *)
(* their own bytes, and nothing is written once PcapNG begins to return.     *)
THEOREM RefinesCaptureFile == Spec => ImplementsCaptureFile
BY FileInvariant, RefinesInit, RefinesNext, PTL DEF Spec, ImplementsCaptureFile

=============================================================================
