---------------------------- MODULE ProbeEvents ----------------------------
(***************************************************************************)
(* How the events of a probe reach its reader: the queue, the drop counter *)
(* and the end of the stream, in bpfprobe and pprobe (src/internal/probe), *)
(* with capture.Keylog (src/internal/capture/keylog.go) as the reader.     *)
(*                                                                         *)
(*   producers --p.events--> read() --> Events --> Keylog --> file         *)
(*        \-----p.dropped------^                                           *)
(*                                                                         *)
(* A producer is a goroutine that sends to p.events: handleEvents in       *)
(* bpfprobe, one run(h) per traced process in pprobe.  p.dropped is an     *)
(* atomic counter, each access to it a step.                               *)
(***************************************************************************)
EXTENDS Integers, Sequences, FiniteSets

CONSTANTS
  Producers,  \* goroutines that send events (bpfprobe has one)
  Capacity,   \* cap(p.events)
  MaxHits,    \* bound: events of each producer
  MaxLosses   \* bound: losses the kernel or phook reports

NoErr == "none"

ASSUME ProbeAssumption ==
  /\ Capacity \in Nat \ {0} /\ MaxHits \in Nat /\ MaxLosses \in Nat
  /\ IsFiniteSet(Producers) /\ NoErr \notin Producers /\ "hotplug" \notin Producers

VARIABLES
  impl,       \* which probe it is: "bpf" or "ptrace"
  ctxDone,    \* the ctx given to Events is cancelled
  fatalErr,   \* whose failure closed fatalCh: NoErr until one does
  stop,       \* done (stop in pprobe) is closed: Close has begun
  closed,     \* Close has returned
  ppc,        \* ppc[p]: "run", "drop", "failed" or "done"
  hits,       \* hits[p]: events of producer p so far
  losses,     \* losses reported so far
  queue,      \* p.events
  chanClosed, \* p.events is closed (pprobe only)
  dropped,    \* p.dropped
  rpc,        \* the reader, from read() to the end of Keylog
  event,      \* the event read() holds (NoEvent for nil), and
  ok,         \*   its result
  loaded,     \* the count of drops read() has loaded
  file,       \* what Keylog has written: events and drop counts
  wasted,     \* drops and events that left the queue and were never written
  ended       \* why the reader ended: "no", "end", "interrupt" or "write"

sourceVars == <<impl, ppc, hits, losses>>
endVars    == <<ctxDone, fatalErr, stop, closed, chanClosed>>
readVars   == <<rpc, event, ok, loaded, file, wasted, ended>>
vars == <<sourceVars, endVars, queue, dropped, readVars>>

Event(p, n) == [kind |-> "event", from |-> p, n |-> n]
Drops(n)    == [kind |-> "drops", n |-> n]
NoEvent     == [kind |-> "nil"]

Init ==
  /\ impl \in {"bpf", "ptrace"}
  /\ ctxDone = FALSE /\ fatalErr = NoErr /\ stop = FALSE /\ closed = FALSE
  /\ \E q \in Producers :
       ppc = [p \in Producers |-> IF impl = "bpf" /\ p # q THEN "done" ELSE "run"]
  /\ hits = [p \in Producers |-> 0]
  /\ losses = 0 /\ queue = <<>> /\ chanClosed = FALSE /\ dropped = 0
  /\ rpc = "select" /\ event = NoEvent /\ ok = TRUE /\ loaded = 0
  /\ file = <<>> /\ wasted = 0 /\ ended = "no"

-----------------------------------------------------------------------------
(* Producers.  The send never blocks: a full queue counts the event as       *)
(* dropped, in a step of its own.                                            *)

Send(p) ==
  /\ ppc[p] = "run" /\ hits[p] < MaxHits
  /\ hits' = [hits EXCEPT ![p] = @ + 1]
  /\ IF Len(queue) < Capacity
     THEN queue' = Append(queue, Event(p, hits[p] + 1)) /\ UNCHANGED ppc
     ELSE ppc' = [ppc EXCEPT ![p] = "drop"] /\ UNCHANGED queue
  /\ UNCHANGED <<impl, losses, endVars, dropped, readVars>>

CountDrop(p) ==
  /\ ppc[p] = "drop"
  /\ ppc' = [ppc EXCEPT ![p] = "run"]
  /\ dropped' = dropped + 1
  /\ UNCHANGED <<impl, hits, losses, endVars, queue, readVars>>

(* A PERF_RECORD_LOST counts once in bpfprobe, whatever the number of        *)
(* records it stands for; a drop of phook counts as many as it says.         *)
ReportLoss(p) ==
  /\ ppc[p] = "run" /\ losses < MaxLosses
  /\ losses' = losses + 1
  /\ dropped' = dropped + 1
  /\ UNCHANGED <<impl, ppc, hits, endVars, queue, readVars>>

(* The producer fails (epoll_wait, or the traced process's Err); bpfprobe      *)
(* takes no failure for fatal once Close has begun.  There the hotplug        *)
(* goroutine can fail too, and the producer goes on.                          *)
Fail(p) ==
  /\ ppc[p] = "run" /\ (impl = "bpf" => ~stop)
  /\ ppc' = [ppc EXCEPT ![p] = "failed"]
  /\ fatalErr' = IF fatalErr = NoErr THEN p ELSE fatalErr   \* fatalOnce
  /\ UNCHANGED <<impl, hits, losses, ctxDone, stop, closed, chanClosed, queue,
                 dropped, readVars>>

FailHotplug ==
  /\ impl = "bpf" /\ ~stop /\ fatalErr = NoErr
  /\ fatalErr' = "hotplug"
  /\ UNCHANGED <<sourceVars, ctxDone, stop, closed, chanClosed, queue, dropped,
                 readVars>>

-----------------------------------------------------------------------------
(* Close, which main calls once ctx is cancelled.                            *)

Cancel ==
  /\ ~ctxDone
  /\ ctxDone' = TRUE
  /\ UNCHANGED <<sourceVars, fatalErr, stop, closed, chanClosed, queue, dropped, readVars>>

CloseBegin ==
  /\ ctxDone /\ ~stop
  /\ stop' = TRUE
  /\ UNCHANGED <<sourceVars, ctxDone, fatalErr, closed, chanClosed, queue, dropped, readVars>>

ProducerStops(p) ==
  /\ stop /\ ppc[p] = "run"
  /\ ppc' = [ppc EXCEPT ![p] = "done"]
  /\ UNCHANGED <<impl, hits, losses, endVars, queue, dropped, readVars>>

CloseEnd ==                          \* after wg.Wait()
  /\ stop /\ ~closed
  /\ \A p \in Producers : ppc[p] \in {"failed", "done"}
  /\ closed' = TRUE /\ chanClosed' = (impl = "ptrace")
  /\ UNCHANGED <<sourceVars, ctxDone, fatalErr, stop, queue, dropped, readVars>>

-----------------------------------------------------------------------------
(* read(): a select, then - in a deferred function - the load of p.dropped   *)
(* and its subtraction.                                                      *)

ReadUnchanged == UNCHANGED <<sourceVars, endVars, file, wasted, ended>>

(* A receive from p.events, which yields nil once it is closed and empty. *)
Receive ==
  \/ /\ queue # <<>>
     /\ event' = Head(queue) /\ queue' = Tail(queue)
  \/ /\ queue = <<>> /\ chanClosed
     /\ event' = NoEvent /\ UNCHANGED queue

ReadInterrupt ==
  /\ rpc = "select" /\ ctxDone
  /\ rpc' = "load" /\ event' = NoEvent /\ ok' = TRUE
  /\ UNCHANGED <<queue, dropped, loaded>> /\ ReadUnchanged

ReadEvent ==
  /\ rpc = "select"
  /\ Receive /\ rpc' = "load" /\ ok' = TRUE
  /\ UNCHANGED <<dropped, loaded>> /\ ReadUnchanged

ReadEndOnClose ==                    \* mutant: read() does not select on fatalCh
  /\ rpc = "select" /\ stop
  /\ rpc' = "drain"
  /\ UNCHANGED <<event, ok, queue, dropped, loaded>> /\ ReadUnchanged
ReadEnd ==
  /\ rpc = "select" /\ (fatalErr # NoErr \/ stop)
  /\ rpc' = "drain"
  /\ UNCHANGED <<event, ok, queue, dropped, loaded>> /\ ReadUnchanged

DrainNothing ==                      \* mutant: read() does not look again
  /\ rpc = "drain"
  /\ rpc' = "load" /\ event' = NoEvent /\ ok' = FALSE
  /\ UNCHANGED <<queue, dropped, loaded>> /\ ReadUnchanged

Drain ==                             \* dropped is still 0 here: it is the
  /\ rpc = "drain"                   \* deferred function that loads it
  /\ \/ Receive /\ ok' = TRUE
     \/ /\ queue = <<>> /\ ~chanClosed
        /\ event' = NoEvent /\ ok' = FALSE /\ UNCHANGED queue
  /\ rpc' = "load"
  /\ UNCHANGED <<dropped, loaded>> /\ ReadUnchanged

LoadDropped ==
  /\ rpc = "load"
  /\ loaded' = dropped /\ rpc' = "subtract"
  /\ UNCHANGED <<event, ok, queue, dropped>> /\ ReadUnchanged

StoreZero ==                         \* mutant: p.dropped.Store(0)
  /\ rpc = "subtract"
  /\ dropped' = 0 /\ rpc' = "check"
  /\ UNCHANGED <<event, ok, queue, loaded>> /\ ReadUnchanged

SubtractDropped ==
  /\ rpc = "subtract"
  /\ dropped' = dropped - loaded /\ rpc' = "check"
  /\ UNCHANGED <<event, ok, queue, loaded>> /\ ReadUnchanged

-----------------------------------------------------------------------------
(* Events, and the body of Keylog's loop.  What was read is given to Keylog   *)
(* unless the stream has ended or ctx is cancelled.                          *)

Held == loaded + (IF event = NoEvent THEN 0 ELSE 1)

Leave(why) ==
  /\ rpc' = "done" /\ ended' = why
  /\ wasted' = wasted + Held
  /\ loaded' = 0 /\ event' = NoEvent

Check ==
  /\ rpc = "check"
  /\ IF ~ok THEN Leave("end")
     ELSE IF ctxDone THEN Leave("interrupt")
     ELSE rpc' = "write" /\ UNCHANGED <<event, loaded, wasted, ended>>
  /\ UNCHANGED <<sourceVars, endVars, queue, dropped, ok, file>>

WriteAlways ==                       \* mutant: a drop line even without drops
  /\ rpc = "write"
  /\ file' = file \o <<Drops(loaded)>> \o (IF event = NoEvent THEN <<>> ELSE <<event>>)
  /\ rpc' = "select" /\ event' = NoEvent /\ loaded' = 0 /\ UNCHANGED <<wasted, ended>>
  /\ UNCHANGED <<sourceVars, endVars, queue, dropped, ok>>

Write ==                             \* the drops first, then the event
  /\ rpc = "write"
  /\ \/ /\ file' = file \o (IF loaded > 0 THEN <<Drops(loaded)>> ELSE <<>>)
                        \o (IF event = NoEvent THEN <<>> ELSE <<event>>)
        /\ rpc' = "select" /\ event' = NoEvent /\ loaded' = 0 /\ UNCHANGED <<wasted, ended>>
     \/ Leave("write") /\ UNCHANGED file
  /\ UNCHANGED <<sourceVars, endVars, queue, dropped, ok>>

Finished ==
  /\ rpc = "done" /\ closed /\ UNCHANGED vars

Read == ReadInterrupt \/ ReadEvent \/ ReadEnd \/ Drain \/ LoadDropped \/ SubtractDropped
          \/ Check \/ Write
Close == CloseBegin \/ CloseEnd \/ (\E p \in Producers : ProducerStops(p))

Next ==
  \/ \E p \in Producers : Send(p) \/ CountDrop(p) \/ ReportLoss(p) \/ Fail(p)
  \/ FailHotplug \/ Cancel \/ Close \/ Read \/ Finished

Spec == Init /\ [][Next]_vars

(* The reader and Close run when they can, and a drop that was decided is    *)
(* counted.  Nothing forces an event, a failure or a cancellation.           *)
FairSpec == /\ Spec /\ WF_vars(Read) /\ WF_vars(Close)
            /\ \A p \in Producers : WF_vars(CountDrop(p))

-----------------------------------------------------------------------------
Events == [kind : {"event"}, from : Producers, n : 1 .. MaxHits]
TypeOK ==
  /\ impl \in {"bpf", "ptrace"}
  /\ {ctxDone, stop, closed, chanClosed, ok} \subseteq BOOLEAN
  /\ fatalErr \in Producers \cup {NoErr, "hotplug"}
  /\ ppc \in [Producers -> {"run", "drop", "failed", "done"}]
  /\ hits \in [Producers -> 0 .. MaxHits] /\ losses \in 0 .. MaxLosses
  /\ queue \in Seq(Events) /\ Len(queue) <= Capacity
  /\ dropped \in Nat /\ loaded \in Nat /\ wasted \in Nat
  /\ rpc \in {"select", "drain", "load", "subtract", "check", "write", "done"}
  /\ event \in Events \cup {NoEvent}
  /\ file \in Seq(Events \cup [kind : {"drops"}, n : Nat \ {0}])
  /\ ended \in {"no", "end", "interrupt", "write"}

(* Until the reader ends, every event and every reported loss is somewhere:  *)
(* written, counted in a drop line, queued, counted in p.dropped or in the   *)
(* hands of a goroutine.  No drop is counted twice or forgotten, though the  *)
(* counter is loaded and subtracted in two steps.                            *)
Weight(b) == IF b.kind = "drops" THEN b.n ELSE 1    \* events a block stands for
Sent == {e \in Producers \X (1 .. MaxHits) : e[2] <= hits[e[1]]}
Total == losses + Cardinality(Sent)
Units == UNION {{<<i, k>> : k \in 1 .. Weight(file[i])} : i \in DOMAIN file}
Written == Cardinality(Units)
Counting == Cardinality({p \in Producers : ppc[p] = "drop"})
InReadersHands == Held - (IF rpc = "subtract" THEN loaded ELSE 0)
Accounted ==
  rpc # "done" => Total = Written + Len(queue) + dropped + Counting + InReadersHands

(* When the stream ends because a producer failed, every event it had queued *)
(* has been written: read() looks at the queue once more before it reports   *)
(* the end (until Close, which ends it too, although events still arrive).   *)
FailedProducerDrained ==
  ended = "end" /\ ~stop => \A i \in DOMAIN queue : queue[i].from # fatalErr

(* Before the end of the stream is reported, the drops are                   *)
(* (bpfprobe/probe.go:389: "drain and notify dropped before returning").     *)
DropsNotified == ended = "end" => wasted = 0

(* A cancelled ctx, and a failed probe, end the reader.                      *)
ReaderEnds == (ctxDone \/ fatalErr # NoErr) ~> (rpc = "done")
=============================================================================
