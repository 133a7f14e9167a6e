------------------------------- MODULE PcapNG -------------------------------
(***************************************************************************)
(* capture.PcapNG (src/internal/capture/pcapng.go): the goroutines that    *)
(* read packets, delay them, read keylog events and write both to the      *)
(* pcapng file, with the slab that backs the packet buffers and the        *)
(* shutdown by stop().                                                     *)
(*                                                                         *)
(*   kernel --> reader --pktCh--> delay --readyCh--\                       *)
(*                                                  >--> writer --> file   *)
(*   probe ---> keylog goroutine ------keylogCh----/                       *)
(*                                                                         *)
(* Packets are numbered in the order the reader receives them, secrets in  *)
(* the order the hook is hit.  Time is a count of ticks: a buffered packet *)
(* carries the ticks left until its deadline.                              *)
(***************************************************************************)
EXTENDS Integers, Sequences, FiniteSets

CONSTANTS
  Buffer,      \* opt.Buffer: entries of the delay ring and slots of the slab
  ChanCap,     \* capacity of pktCh (8 in the code)
  Delay,       \* opt.Delay, in ticks
  MaxPackets,  \* bound: packets the kernel delivers
  MaxSecrets,  \* bound: events the probe delivers
  Large,       \* packets larger than opt.PacketSize
  Faults       \* what may go wrong (a subset of AllFaults)

AllFaults == {"cancel", "capture", "write", "probe", "close"}

ASSUME CapacityAssumption ==
  /\ Buffer \in Nat \ {0}
  /\ ChanCap \in Nat \ {0}
  /\ Delay \in Nat \ {0}
ASSUME BoundAssumption ==
  /\ MaxPackets \in Nat
  /\ MaxSecrets \in Nat
  /\ Large \subseteq 1 .. MaxPackets
  /\ Faults \subseteq AllFaults

VARIABLES
  ctxDone,     \* ctx is cancelled
  shutdown,    \* shutdownCtx is cancelled
  stopClosed,  \* the afpacket handle is closed and its ring unmapped
  cancelStop,  \* the goroutine of context.AfterFunc(ctx, stop)
  probeState,  \* "open", "failed" (Err() is not nil) or "closed"
  taken,       \* secrets received from p.Events
  kpc,         \* the keylog goroutine; at "send" it offers secret taken
  seen,        \* packets the reader has received
  rpc, rslot,  \* the reader; at "send" it offers packet seen, in rslot
  capDone,     \* what capDoneCh holds: "none", "nil" or "err"
  pktCh, pktClosed,
  entries, head, count, dropped,   \* the delay ring
  due,         \* entries that were past their deadline at sendDue's now
  flushAll,    \* sendDue's argument
  armed,       \* timer # nil, set for the deadline of entries[head]
  dpc, dpkt,   \* the delay goroutine; at "offer" it offers packet dpkt
  wpc, wmsg,   \* the writer (the caller of PcapNG), and what it received
  keyOpen, readyOpen,   \* keylogCh # nil, readyCh # nil in the writer
  result,      \* what PcapNG returns: "none" until then
  file,        \* the blocks written, and
  flushed,     \* how many of them have been flushed to w
  pool,        \* free slots of the slab
  content,     \* content[s]: the packet whose bytes slot s holds
  panicked     \* panic("slab double free")

stopVars  == <<ctxDone, shutdown, stopClosed, cancelStop>>
probeVars == <<probeState, taken>>
readVars  == <<seen, rpc, rslot, capDone>>
chanVars  == <<pktCh, pktClosed>>
delayVars == <<entries, head, count, dropped, due, flushAll, armed, dpc, dpkt>>
writeVars == <<wpc, wmsg, keyOpen, readyOpen, result, file, flushed>>
slabVars  == <<pool, content, panicked>>
vars == <<stopVars, probeVars, kpc, readVars, chanVars, delayVars, writeVars,
          slabVars>>

-----------------------------------------------------------------------------
(* Data. *)

Slots   == 1 .. Buffer
Heap    == 0                         \* a buffer alloc had to make
Packets == 1 .. MaxPackets
Index   == 0 .. Buffer - 1

NoPkt == [id |-> 0, slot |-> Heap, last |-> FALSE]
Empty == [id |-> 0, slot |-> Heap, left |-> 0]

KeyBlock(s)    == [kind |-> "key", id |-> s, bytes |-> s]
PktBlock(p, b) == [kind |-> "pkt", id |-> p, bytes |-> b]

AtNoWrap(i) == head + i              \* mutant: the index does not wrap
At(i) == (head + i) % Buffer         \* the i-th entry of the ring
Buffered == {At(i) : i \in 0 .. count - 1}

(* slabPool.alloc: a free slot, or a heap buffer when there is none or the
   packet is larger than PacketSize; then the packet's bytes are copied. *)
Alloc(p, slot) ==
  /\ slot \in IF p \in Large \/ pool = {} THEN {Heap} ELSE pool
  /\ pool' = pool \ {slot}
  /\ content' = IF slot = Heap THEN content ELSE [content EXCEPT ![slot] = p]

(* slabPool.release of buffers held at different places: their next user may
   overwrite them at once, so nothing is known of their content. *)
ReleaseTheirs(slots) ==              \* mutant: any buffer is put in the pool
  /\ panicked' = (panicked \/ (slots \ {Heap}) \cap pool # {})
  /\ pool' = pool \cup slots
  /\ content' = [s \in Slots |-> IF s \in slots THEN 0 ELSE content[s]]
Release(slots) ==
  /\ panicked' = (panicked \/ slots \cap pool # {})
  /\ pool' = pool \cup (slots \ {Heap})
  /\ content' = [s \in Slots |-> IF s \in slots THEN 0 ELSE content[s]]

BytesOf(m) == IF m.slot = Heap THEN m.id ELSE content[m.slot]

(* Half the buffer is the most sendDue leaves in it. *)
Overfull(c) == c > Buffer \div 2

(* The entries whose deadline has passed: deadlines grow along the ring, so
   they are a prefix of it. *)
DueNow(es, h, c) ==
  Cardinality({i \in 0 .. c - 1 : es[(h + i) % Buffer].left = 0})

-----------------------------------------------------------------------------
Init ==
  /\ ctxDone = FALSE /\ shutdown = FALSE /\ stopClosed = FALSE
  /\ cancelStop = "waiting"
  /\ probeState = "open" /\ taken = 0 /\ kpc = "read"
  /\ seen = 0 /\ rpc = "read"
  /\ rslot = Heap /\ capDone = "none"
  /\ pktCh = <<>> /\ pktClosed = FALSE
  /\ entries = [i \in Index |-> Empty] /\ head = 0 /\ count = 0 /\ dropped = 0
  /\ due = 0 /\ flushAll = FALSE /\ armed = FALSE
  /\ dpc = "select" /\ dpkt = NoPkt
  /\ wpc = "select" /\ wmsg = NoPkt /\ keyOpen = TRUE /\ readyOpen = TRUE
  /\ result = "none" /\ file = <<>> /\ flushed = 0
  /\ pool = Slots /\ content = [s \in Slots |-> 0] /\ panicked = FALSE

-----------------------------------------------------------------------------
(* stop(): shutdown(), then, under stopMu, handle.Close().  It is run by     *)
(* context.AfterFunc, by the keylog goroutine and, deferred, by PcapNG.      *)

CloseUnlocked == stopClosed' = TRUE  \* mutant: Close without stopMu
CloseHandle == rpc # "copying" /\ stopClosed' = TRUE

Cancel ==                            \* a signal, or main's stop() afterwards
  /\ ~ctxDone
  /\ "cancel" \in Faults \/ wpc = "returned"
  /\ ctxDone' = TRUE
  \* AfterFunc is unregistered before the deferred stop() runs
  /\ cancelStop' = IF wpc \in {"stop", "returned"} THEN "done" ELSE "started"
  /\ UNCHANGED <<shutdown, stopClosed, probeVars, kpc, readVars, chanVars,
                 delayVars, writeVars, slabVars>>

CancelStopBegin ==
  /\ cancelStop = "started"
  /\ cancelStop' = "closing" /\ shutdown' = TRUE
  /\ UNCHANGED <<ctxDone, stopClosed, probeVars, kpc, readVars, chanVars,
                 delayVars, writeVars, slabVars>>

CancelStopClose ==
  /\ cancelStop = "closing"
  /\ cancelStop' = "done" /\ CloseHandle
  /\ UNCHANGED <<ctxDone, shutdown, probeVars, kpc, readVars, chanVars,
                 delayVars, writeVars, slabVars>>

-----------------------------------------------------------------------------
(* The probe, as far as PcapNG sees it, and the keylog goroutine. *)

ProbeEnds ==
  /\ probeState = "open"
  /\ \/ "probe" \in Faults /\ probeState' = "failed"
     \/ "close" \in Faults /\ probeState' = "closed"
  /\ UNCHANGED <<stopVars, taken, kpc, readVars, chanVars, delayVars, writeVars,
                 slabVars>>

KeylogUnchanged == UNCHANGED <<ctxDone, cancelStop, probeState, readVars,
                               chanVars, delayVars, writeVars, slabVars>>

KeylogRecv ==                        \* Events checks ctx once it has an event
  /\ kpc = "read" /\ taken < MaxSecrets
  /\ taken' = taken + 1
  /\ kpc' = IF ctxDone THEN "end" ELSE "send"
  /\ UNCHANGED <<shutdown, stopClosed>> /\ KeylogUnchanged

KeylogEnds ==                        \* interrupted, failed or closed
  /\ kpc = "read"
  /\ ctxDone \/ probeState # "open"
  /\ kpc' = "end"
  /\ UNCHANGED <<shutdown, stopClosed, taken>> /\ KeylogUnchanged

KeylogShutdown ==
  /\ kpc = "send" /\ shutdown
  /\ kpc' = "done"
  /\ UNCHANGED <<shutdown, stopClosed, taken>> /\ KeylogUnchanged

KeylogIgnoresErr ==                  \* mutant: no stop() on a probe error
  /\ kpc = "end" /\ kpc' = "done"
  /\ UNCHANGED <<shutdown, stopClosed, taken>> /\ KeylogUnchanged
KeylogCheckErr ==
  /\ kpc = "end"
  /\ IF probeState = "failed"
     THEN kpc' = "closing" /\ shutdown' = TRUE
     ELSE kpc' = "done" /\ UNCHANGED shutdown
  /\ UNCHANGED <<stopClosed, taken>> /\ KeylogUnchanged

KeylogStopClose ==
  /\ kpc = "closing"
  /\ kpc' = "done" /\ CloseHandle
  /\ UNCHANGED <<shutdown, taken>> /\ KeylogUnchanged

-----------------------------------------------------------------------------
(* The reader goroutine. *)

ReadUnchanged == UNCHANGED <<stopVars, probeVars, kpc, delayVars, writeVars>>

ReaderExitNil(err) == rpc' = "done" /\ capDone' = "nil" /\ pktClosed' = TRUE  \* mutant
ReaderExit(err) == rpc' = "done" /\ capDone' = err /\ pktClosed' = TRUE

ReadPacket ==
  /\ rpc = "read" /\ ~stopClosed /\ seen < MaxPackets
  /\ seen' = seen + 1
  /\ rpc' = "copy"
  /\ UNCHANGED <<rslot, capDone, chanVars, slabVars>> /\ ReadUnchanged

ReadError ==
  /\ rpc = "read"
  /\ stopClosed \/ "capture" \in Faults
  /\ ReaderExit(IF shutdown THEN "nil" ELSE "err")
  /\ UNCHANGED <<seen, rslot, pktCh, slabVars>> /\ ReadUnchanged

LockForCopy ==                       \* at "copying" it holds stopMu
  /\ rpc = "copy" /\ ~stopClosed
  /\ rpc' = "copying"
  /\ UNCHANGED <<seen, rslot, capDone, chanVars, slabVars>> /\ ReadUnchanged

CopyPacket ==
  /\ rpc = "copying"
  /\ \E slot \in Slots \cup {Heap} :
       Alloc(seen, slot) /\ rslot' = slot
  /\ rpc' = "send"
  /\ UNCHANGED <<seen, capDone, chanVars, panicked>> /\ ReadUnchanged

CopyStopped ==
  /\ rpc = "copy" /\ stopClosed
  /\ ReaderExit("nil")
  /\ UNCHANGED <<seen, rslot, pktCh, slabVars>> /\ ReadUnchanged

SendPacket ==
  /\ rpc = "send" /\ Len(pktCh) < ChanCap
  /\ pktCh' = Append(pktCh, [id |-> seen, slot |-> rslot])
  /\ rpc' = "read" /\ rslot' = Heap
  /\ UNCHANGED <<seen, capDone, pktClosed, slabVars>> /\ ReadUnchanged

SendShutdownLeaks ==                 \* mutant: the buffer is not released
  /\ rpc = "send" /\ shutdown
  /\ ReaderExit("nil") /\ rslot' = Heap
  /\ UNCHANGED <<seen, pktCh, slabVars>> /\ ReadUnchanged
SendShutdown ==
  /\ rpc = "send" /\ shutdown
  /\ Release({rslot}) /\ rslot' = Heap
  /\ ReaderExit("nil")
  /\ UNCHANGED <<seen, pktCh>> /\ ReadUnchanged

-----------------------------------------------------------------------------
(* The delay goroutine: select, then sendDue ("flush", and "offer" at its    *)
(* select), then scheduleTimer.                                              *)

DelayUnchanged == UNCHANGED <<stopVars, probeVars, kpc, readVars, writeVars>>

Entry(left) == [id |-> Head(pktCh).id, slot |-> Head(pktCh).slot, left |-> left]

DropOldest ==                        \* the ring is full
  /\ entries' = [entries EXCEPT ![head] = Entry(Delay)]
  /\ head' = At(1) /\ dropped' = dropped + 1
  /\ Release({entries[head].slot})
  /\ UNCHANGED count

InsertUndelayed ==                   \* mutant: the deadline is now
  /\ entries' = [entries EXCEPT ![At(count)] = Entry(0)]
  /\ count' = count + 1
  /\ UNCHANGED <<head, dropped, slabVars>>
InsertAfter ==                       \* mutant: one entry too far
  /\ entries' = [entries EXCEPT ![At(count + 1)] = Entry(Delay)]
  /\ count' = count + 1
  /\ UNCHANGED <<head, dropped, slabVars>>
Insert ==
  /\ entries' = [entries EXCEPT ![At(count)] = Entry(Delay)]
  /\ count' = count + 1
  /\ UNCHANGED <<head, dropped, slabVars>>

SendDue(all) ==                      \* the head of sendDue
  /\ dpc' = "flush" /\ flushAll' = all
  /\ due' = DueNow(entries', head', count')

TakePacket ==
  /\ dpc = "select" /\ pktCh # <<>>
  /\ IF count = Buffer THEN DropOldest ELSE Insert
  /\ pktCh' = Tail(pktCh)
  /\ SendDue(FALSE)
  /\ UNCHANGED <<armed, dpkt, pktClosed>> /\ DelayUnchanged

Discard(alsoHeld) ==                 \* release everything and return
  /\ Release({entries[i].slot : i \in Buffered} \cup alsoHeld)
  /\ entries' = [i \in Index |-> Empty]
  /\ head' = At(count) /\ count' = 0
  /\ dpc' = "done" /\ dpkt' = NoPkt
  /\ due' = 0 /\ flushAll' = FALSE /\ armed' = FALSE
  /\ UNCHANGED <<dropped, chanVars>> /\ DelayUnchanged

ClosedDiscards ==                    \* mutant: returns without sendDue(true)
  /\ dpc = "select" /\ pktCh = <<>> /\ pktClosed
  /\ Discard({})
PacketsClosed ==
  /\ dpc = "select" /\ pktCh = <<>> /\ pktClosed
  /\ UNCHANGED <<entries, head, count, dropped, armed, dpkt, chanVars, slabVars>> /\ DelayUnchanged
  /\ SendDue(TRUE)

TimerFires ==
  /\ dpc = "select" /\ armed /\ entries[head].left = 0
  /\ UNCHANGED <<entries, head, count, dropped, armed, dpkt, chanVars, slabVars>> /\ DelayUnchanged
  /\ SendDue(FALSE)

SelectShutdown ==
  /\ dpc = "select" /\ shutdown
  /\ Discard({})

MoreDue(c, d) == c > 0 /\ (flushAll \/ d > 0)  \* mutant: no half-full rule
More(c, d) == c > 0 /\ (flushAll \/ d > 0 \/ Overfull(c))

LastIfEmpty(c, d) == c = 0           \* mutant: only an empty ring ends a batch
LastInBatch(c, d) == ~More(c, d)

Pop ==
  /\ dpc = "flush" /\ More(count, due)
  /\ entries' = [entries EXCEPT ![head] = Empty]
  /\ head' = At(1) /\ count' = count - 1 /\ dropped' = 0
  /\ due' = IF due > 0 THEN due - 1 ELSE 0
  /\ dpkt' = [id |-> entries[head].id, slot |-> entries[head].slot,
              last |-> LastInBatch(count', due')]
  /\ dpc' = "offer"
  /\ UNCHANGED <<flushAll, armed, chanVars, slabVars>> /\ DelayUnchanged

OfferIgnoresShutdown == FALSE        \* mutant: no shutdownCtx case
OfferShutdown ==
  /\ dpc = "offer" /\ shutdown
  /\ Discard({dpkt.slot})

FlushEndsNoTimer ==                  \* mutant: scheduleTimer is forgotten
  /\ dpc = "flush" /\ ~More(count, due)
  /\ dpc' = IF flushAll THEN "done" ELSE "select"
  /\ due' = 0 /\ flushAll' = FALSE
  /\ UNCHANGED <<entries, head, count, dropped, armed, dpkt, chanVars, slabVars>>
  /\ DelayUnchanged
FlushEnds ==                         \* then scheduleTimer, unless flushAll
  /\ dpc = "flush" /\ ~More(count, due)
  /\ dpc' = IF flushAll THEN "done" ELSE "select"
  /\ armed' = (~flushAll /\ count > 0)
  /\ due' = 0 /\ flushAll' = FALSE
  /\ UNCHANGED <<entries, head, count, dropped, dpkt,
                 chanVars, slabVars>> /\ DelayUnchanged

-----------------------------------------------------------------------------
(* The writer. *)

WriteUnchanged == UNCHANGED <<ctxDone, cancelStop, probeVars, readVars, chanVars,
                              entries, head, count, dropped, due, flushAll, armed>>
Running == wpc = "select" /\ (keyOpen \/ readyOpen)

TakeSecret ==                        \* rendezvous on keylogCh
  /\ Running /\ keyOpen /\ kpc = "send"
  /\ kpc' = "read"
  /\ wpc' = "secret" /\ wmsg' = [id |-> taken, slot |-> Heap, last |-> FALSE]
  /\ UNCHANGED <<shutdown, stopClosed, dpc, dpkt, keyOpen, readyOpen, result, file,
                 flushed, slabVars>> /\ WriteUnchanged

TakeReady ==                         \* rendezvous on readyCh
  /\ Running /\ readyOpen /\ dpc = "offer"
  /\ dpc' = "flush" /\ dpkt' = NoPkt
  /\ wpc' = "packet" /\ wmsg' = dpkt
  /\ UNCHANGED <<shutdown, stopClosed, kpc, keyOpen, readyOpen, result, file, flushed,
                 slabVars>> /\ WriteUnchanged

SourceClosed ==
  /\ Running
  /\ \/ keyOpen /\ kpc = "done" /\ keyOpen' = FALSE /\ UNCHANGED readyOpen
     \/ readyOpen /\ dpc = "done" /\ readyOpen' = FALSE /\ UNCHANGED keyOpen
  /\ UNCHANGED <<shutdown, stopClosed, kpc, dpc, dpkt, wpc, wmsg, result, file,
                 flushed, slabVars>> /\ WriteUnchanged

(* A write succeeds, or fails and makes PcapNG return. *)
Written(block, next) ==
  \/ /\ file' = Append(file, block)
     /\ wpc' = next /\ UNCHANGED result
  \/ /\ "write" \in Faults
     /\ wpc' = "return" /\ result' = "write" /\ UNCHANGED file

WriteSecret ==
  /\ wpc = "secret"
  /\ Written(KeyBlock(wmsg.id), "select")
  /\ wmsg' = NoPkt
  /\ UNCHANGED <<shutdown, stopClosed, kpc, dpc, dpkt, keyOpen, readyOpen, flushed,
                 slabVars>> /\ WriteUnchanged

WritePacket ==
  /\ wpc = "packet"
  /\ Written(PktBlock(wmsg.id, BytesOf(wmsg)), IF wmsg.last THEN "flush" ELSE "select")
  /\ Release({wmsg.slot}) /\ wmsg' = NoPkt
  /\ UNCHANGED <<shutdown, stopClosed, kpc, dpc, dpkt, keyOpen, readyOpen, flushed>>
  /\ WriteUnchanged

Flush(next) ==
  \/ /\ flushed' = Len(file)
     /\ wpc' = next /\ UNCHANGED result
  \/ /\ "write" \in Faults
     /\ wpc' = "return" /\ result' = "write" /\ UNCHANGED flushed

FlushBatch ==
  /\ wpc = "flush"
  /\ Flush("select")
  /\ UNCHANGED <<shutdown, stopClosed, kpc, dpc, dpkt, wmsg, keyOpen, readyOpen, file,
                 slabVars>> /\ WriteUnchanged

FinalFlush ==
  /\ wpc = "select" /\ ~keyOpen /\ ~readyOpen
  /\ Flush("capdone")
  /\ UNCHANGED <<shutdown, stopClosed, kpc, dpc, dpkt, wmsg, keyOpen, readyOpen, file,
                 slabVars>> /\ WriteUnchanged

AwaitCapture ==                      \* capture, then probe, then ctx errors
  /\ wpc = "capdone" /\ capDone # "none"
  /\ \/ capDone = "err" /\ result' = "capture"
     \/ capDone = "nil" /\ probeState = "failed" /\ result' = "probe"
     \/ /\ capDone = "nil" /\ probeState # "failed"
        /\ result' = IF ctxDone THEN "canceled" ELSE "nil"
  /\ wpc' = "return"
  /\ UNCHANGED <<shutdown, stopClosed, kpc, dpc, dpkt, wmsg, keyOpen, readyOpen, file,
                 flushed, slabVars>> /\ WriteUnchanged

Return ==                            \* the deferred stop(): shutdown(), then
  /\ wpc = "return"
  /\ wpc' = "stop" /\ shutdown' = TRUE
  /\ UNCHANGED <<stopClosed, kpc, dpc, dpkt, wmsg, keyOpen, readyOpen, result, file,
                 flushed, slabVars>> /\ WriteUnchanged

ReturnClose ==
  /\ wpc = "stop"
  /\ wpc' = "returned" /\ CloseHandle
  /\ UNCHANGED <<shutdown, kpc, dpc, dpkt, wmsg, keyOpen, readyOpen, result, file,
                 flushed, slabVars>> /\ WriteUnchanged

-----------------------------------------------------------------------------
(* Time passes. *)

Aged(e) == [id |-> e.id, slot |-> e.slot, left |-> e.left - 1]

Tick ==
  /\ \E i \in Buffered : entries[i].left > 0
  /\ entries' = [i \in Index |-> IF i \in Buffered /\ entries[i].left > 0
                                 THEN Aged(entries[i]) ELSE entries[i]]
  /\ UNCHANGED <<stopVars, probeVars, kpc, readVars, chanVars, head, count, dropped,
                 due, flushAll, armed, dpc, dpkt, writeVars, slabVars>>

-----------------------------------------------------------------------------
Keylog == KeylogRecv \/ KeylogEnds \/ KeylogShutdown \/ KeylogCheckErr \/ KeylogStopClose
Reader == ReadError \/ LockForCopy \/ CopyPacket \/ CopyStopped \/ SendPacket \/ SendShutdown
Delayer == TakePacket \/ PacketsClosed \/ TimerFires \/ SelectShutdown \/ Pop
             \/ OfferShutdown \/ FlushEnds
Writer == TakeSecret \/ TakeReady \/ SourceClosed \/ WriteSecret \/ WritePacket
            \/ FlushBatch \/ FinalFlush \/ AwaitCapture \/ Return \/ ReturnClose
CancelStop == CancelStopBegin \/ CancelStopClose

AllDone == /\ ctxDone /\ cancelStop = "done"
           /\ kpc = "done" /\ rpc = "done" /\ dpc = "done" /\ wpc = "returned"
Terminated == AllDone /\ UNCHANGED vars

Next == \/ Cancel \/ CancelStop \/ ProbeEnds
        \/ Keylog \/ ReadPacket \/ Reader \/ Delayer \/ Writer \/ Tick
        \/ Terminated

Spec == Init /\ [][Next]_vars

(* Every goroutine that can run is run, time passes, and main calls stop()   *)
(* after PcapNG returns.  Nothing makes the kernel deliver packets, the probe *)
(* deliver events, or a fault happen.                                        *)
Fairness ==
  /\ WF_vars(CancelStop) /\ WF_vars(Keylog)
  /\ WF_vars(rpc # "read" /\ Reader) /\ WF_vars(stopClosed /\ Reader)
  /\ WF_vars(Delayer) /\ WF_vars(Writer) /\ WF_vars(Tick)
  /\ WF_vars(wpc = "returned" /\ Cancel)

FairSpec == Spec /\ Fairness

-----------------------------------------------------------------------------
(* Properties. *)

Bytes   == 0 .. MaxPackets
Buffers == Slots \cup {Heap}

StopTypeOK ==
  /\ ctxDone \in BOOLEAN /\ shutdown \in BOOLEAN /\ stopClosed \in BOOLEAN
  /\ cancelStop \in {"waiting", "started", "closing", "done"}
  /\ probeState \in {"open", "failed", "closed"} /\ taken \in 0 .. MaxSecrets
  /\ kpc \in {"read", "send", "end", "closing", "done"}
ReadTypeOK ==
  /\ seen \in 0 .. MaxPackets
  /\ rpc \in {"read", "copy", "copying", "send", "done"}
  /\ rslot \in Buffers /\ capDone \in {"none", "nil", "err"}
  /\ pktCh \in Seq([id : Bytes, slot : Buffers]) /\ Len(pktCh) <= ChanCap
  /\ pktClosed \in BOOLEAN
DelayTypeOK ==
  /\ entries \in [Index -> [id : Bytes, slot : Buffers, left : 0 .. Delay]]
  /\ head \in Index /\ count \in 0 .. Buffer /\ dropped \in Nat
  /\ due \in 0 .. Buffer /\ flushAll \in BOOLEAN /\ armed \in BOOLEAN
  /\ dpc \in {"select", "flush", "offer", "done"}
  /\ dpkt \in [id : Bytes, slot : Buffers, last : BOOLEAN]
WriteTypeOK ==
  /\ wpc \in {"select", "secret", "packet", "flush", "capdone", "return", "stop",
              "returned"}
  /\ wmsg \in [id : Nat, slot : Buffers, last : BOOLEAN]
  /\ keyOpen \in BOOLEAN /\ readyOpen \in BOOLEAN
  /\ result \in {"none", "write", "capture", "probe", "canceled", "nil"}
  /\ file \in Seq([kind : {"key", "pkt"}, id : Nat, bytes : Nat])
  /\ flushed \in 0 .. Len(file)
SlabTypeOK ==
  /\ pool \subseteq Slots /\ content \in [Slots -> Bytes] /\ panicked \in BOOLEAN

(* Every variable keeps its type, and the channel its capacity.              *)
TypeOK == StopTypeOK /\ ReadTypeOK /\ DelayTypeOK /\ WriteTypeOK /\ SlabTypeOK

(* The delay ring never overflows: sendDue empties it to at most half before *)
(* the next packet is taken, so no buffered packet is overwritten and        *)
(* "dropped buffered packets" (pcapng.go:411) is never logged.               *)
NeverOverflows ==
  /\ dropped = 0
  /\ dpc = "select" => ~Overfull(count)

(* Every slot of the slab is in exactly one place - free in the pool, or in  *)
(* the hands of one goroutine, channel or ring entry - whatever is shut down *)
(* or fails in between, and no release is a double free.                     *)
SlotUses(s) ==
  (IF s \in pool THEN 1 ELSE 0) + (IF rslot = s THEN 1 ELSE 0)
  + (IF dpkt.slot = s THEN 1 ELSE 0) + (IF wmsg.slot = s THEN 1 ELSE 0)
  + Cardinality({i \in DOMAIN pktCh : pktCh[i].slot = s})
  + Cardinality({i \in Buffered : entries[i].slot = s})
SlabOwnership == ~panicked /\ \A s \in Slots : SlotUses(s) = 1

(* The kernel's packet memory is not unmapped while the reader copies from   *)
(* it: handle.Close() and the copy exclude each other through stopMu.        *)
NoCopyAfterUnmap == rpc = "copying" => ~stopClosed

(* While the delay goroutine and the writer both wait, every packet written  *)
(* has been flushed to the output: the last packet of a batch is marked.     *)
IdleFlushed ==
  (dpc = "select" /\ Running) =>
    \A i \in DOMAIN file : file[i].kind = "pkt" => i <= flushed

(* A capture error that is not a shutdown loses nothing: when PcapNG reports *)
(* it, every packet received is in the file, and flushed.                    *)
PacketsWritten == {file[i].id : i \in {j \in DOMAIN file : file[j].kind = "pkt"}}
CaptureErrorKeepsPackets ==
  (wpc = "return" /\ result = "capture" /\ ~shutdown) =>
    PacketsWritten = 1 .. seen /\ flushed = Len(file)

(* PcapNG ends with an error: a capture that ended by itself is never taken  *)
(* for a success, nor a failed probe for a cancellation.                     *)
ResultExplains ==
  wpc \in {"return", "stop", "returned"} =>
    /\ result # "nil"
    /\ result = "canceled" => ctxDone

(* A buffered packet leaves the ring only to be offered to the writer, as    *)
(* PcapNG's comment says of a cancellation (pcapng.go:101).                  *)
BufferedNeverDiscarded ==
  [][\A i \in Buffered : entries'[i] = Empty => dpkt'.id = entries[i].id]_vars

(* PcapNG implements CaptureFile: packets and secrets are written in order,   *)
(* each once, none skipped, with their own bytes, and none after PcapNG has   *)
(* begun to return.  The second formula is CaptureFile's liveness: until      *)
(* stop() is called, everything received is eventually written.               *)
Abstract == INSTANCE CaptureFile WITH
  packets  <- seen,
  secrets  <- taken,
  stopping <- shutdown,
  closed   <- wpc \in {"capdone", "return", "stop", "returned"}
ImplementsCaptureFile == Abstract!Init /\ [][Abstract!Next]_(Abstract!vars)
DeliversAll == Abstract!Fairness

(* A cancellation, a failed write and a failed probe make PcapNG return. *)
StopReturns ==
  (ctxDone \/ probeState = "failed" \/ result = "write") ~> (wpc = "returned")

(* A read error of the capture is fatal (pcapng.go:101 and 228): it makes      *)
(* PcapNG return.                                                            *)
CaptureErrorReturns == (capDone = "err") ~> (wpc = "returned")

(* After PcapNG has returned and main has called stop(), no goroutine of it  *)
(* is left.                                                                  *)
GoroutinesEnd == (wpc = "returned") ~> AllDone

=============================================================================
