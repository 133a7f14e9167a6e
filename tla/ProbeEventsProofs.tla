------------------------- MODULE ProbeEventsProofs -------------------------
(***************************************************************************)
(* The events of a probe, for every number of producers, every capacity of *)
(* the queue and every number of hits: none is lost without being counted, *)
(* and the stream of a failed producer ends after its last event.          *)
(***************************************************************************)
EXTENDS ProbeEvents, TLAPS, FiniteSetTheorems, SequenceTheorems

LEMMA Bounds == Capacity \in Nat \ {0} /\ MaxHits \in Nat /\ MaxLosses \in Nat
BY ProbeAssumption, Zenon

-----------------------------------------------------------------------------
(* What a file stands for. *)

Blocks == Events \cup [kind : {"drops"}, n : Nat \ {0}]
UnitsIn(f) == UNION {{<<i, k>> : k \in 1 .. Weight(f[i])} : i \in DOMAIN f}

(* A block that is appended adds what it stands for. *)
LEMMA UnitsAppend ==
  ASSUME NEW f \in Seq(Blocks), NEW b \in Blocks, IsFiniteSet(UnitsIn(f))
  PROVE  /\ Append(f, b) \in Seq(Blocks)
         /\ IsFiniteSet(UnitsIn(Append(f, b)))
         /\ Cardinality(UnitsIn(Append(f, b))) = Cardinality(UnitsIn(f)) + Weight(b)
<1> DEFINE w == Weight(b)
           T == {<<Len(f) + 1, k>> : k \in 1 .. w}
           g == [k \in 1 .. w |-> <<Len(f) + 1, k>>]
           fb == Append(f, b)
<1>1. w \in Nat \ {0}
  BY DEF Weight, Blocks, Events
<1>2. DOMAIN f = 1 .. Len(f) /\ Len(f) \in Nat
  BY LenProperties
<1>3. /\ fb \in Seq(Blocks) /\ DOMAIN fb = 1 .. Len(f) + 1 /\ fb[Len(f) + 1] = b
      /\ \A i \in 1 .. Len(f) : fb[i] = f[i]
  BY <1>2, AppendProperties, LenProperties
<1>4. IsFiniteSet(T) /\ Cardinality(T) = w
  <2>1. g \in Bijection(1 .. w, T)
    BY DEF Bijection, Injection, Surjection, IsInjective
  <2>2. IsFiniteSet(1 .. w) /\ Cardinality(1 .. w) = w
    BY <1>1, FS_Interval
  <2> HIDE DEF T, g, w
  <2> QED BY <2>1, <2>2, FS_Bijection DEF ExistsBijection
<1>5. UnitsIn(fb) = UnitsIn(f) \cup T
  <2> HIDE DEF fb
  <2>1. \A u : u \in UnitsIn(fb) <=> \E i \in 1 .. Len(f) + 1 : \E k \in 1 .. Weight(fb[i]) : u = <<i, k>>
    BY SMTT(30), <1>3 DEF UnitsIn
  <2>2. \A u : u \in UnitsIn(f) <=> \E i \in 1 .. Len(f) : \E k \in 1 .. Weight(f[i]) : u = <<i, k>>
    BY <1>2 DEF UnitsIn
  <2>3. \A i : i \in 1 .. Len(f) + 1 <=> i \in 1 .. Len(f) \/ i = Len(f) + 1
    BY <1>2
  <2> QED BY <1>3, <2>1, <2>2, <2>3
<1>6. UnitsIn(f) \cap T = {}
  BY <1>2 DEF UnitsIn
<1> HIDE DEF T, g, fb, w
<1>7. /\ IsFiniteSet(UnitsIn(f) \cup T)
      /\ Cardinality(UnitsIn(f) \cup T) = Cardinality(UnitsIn(f)) + Cardinality(T) - Cardinality({})
  BY <1>4, <1>6, FS_Union
<1>8. Cardinality({}) = 0 /\ Cardinality(UnitsIn(f)) \in Nat
  BY FS_EmptySet, FS_CardinalityType
<1> QED BY <1>1, <1>3, <1>4, <1>5, <1>7, <1>8 DEF fb, w

-----------------------------------------------------------------------------
(* Type correctness.  What it needs beside the types is that read() never   *)
(* subtracts more drops than there are, and that it holds nothing of the    *)
(* last read when it begins the next.                                       *)

ReadInv ==
  /\ rpc \in {"select", "drain"} => event = NoEvent
  /\ rpc \in {"select", "drain", "load"} => loaded = 0
  /\ rpc = "subtract" => loaded <= dropped
  /\ ended # "no" => rpc = "done"

(* What Keylog writes in one round of its loop. *)
LEMMA WriteSteps ==
  ASSUME TypeOK, Write
  PROVE  \/ rpc' = "done" /\ file' = file
         \/ /\ rpc' = "select"
            /\ \E f \in {file, Append(file, Drops(loaded))} :
                 /\ loaded > 0 <=> f # file
                 /\ f \in Seq(Blocks)
                 /\ file' = IF event = NoEvent THEN f ELSE Append(f, event)
                 /\ file' \in Seq(Blocks)
<1>1. /\ rpc = "write" /\ file \in Seq(Blocks) /\ loaded \in Nat /\ event \in Events \cup {NoEvent}
  BY DEF Write, TypeOK, Blocks
<1>2. CASE Leave("write")
  BY <1>2 DEF Write, Leave
<1>3. CASE /\ file' = file \o (IF loaded > 0 THEN <<Drops(loaded)>> ELSE <<>>)
                        \o (IF event = NoEvent THEN <<>> ELSE <<event>>)
           /\ rpc' = "select"
  <2> DEFINE f == IF loaded > 0 THEN Append(file, Drops(loaded)) ELSE file
  <2>1. Drops(loaded) \in Blocks \/ loaded = 0
    BY <1>1 DEF Drops, Blocks
  <2>2. f \in Seq(Blocks)
    BY <1>1, <2>1, AppendProperties
  <2>3. file \o (IF loaded > 0 THEN <<Drops(loaded)>> ELSE <<>>) = f
    BY <1>1, <2>1, AppendIsConcat, ConcatEmptySeq
  <2>4. loaded > 0 <=> f # file
    <3>1. CASE loaded > 0
      <4>1. Len(f) = Len(file) + 1 /\ Len(file) \in Nat
        BY <1>1, <2>1, <3>1, AppendProperties, LenProperties
      <4> QED BY <3>1, <4>1
    <3>2. CASE ~(loaded > 0)
      BY <3>2
    <3> QED BY <3>1, <3>2
  <2> HIDE DEF f
  <2>5. event # NoEvent => event \in Blocks
    BY <1>1 DEF Blocks
  <2>6. f \o (IF event = NoEvent THEN <<>> ELSE <<event>>) = IF event = NoEvent THEN f ELSE Append(f, event)
    BY <2>2, <2>5, AppendIsConcat, ConcatEmptySeq
  <2>7. file' = IF event = NoEvent THEN f ELSE Append(f, event)
    BY <1>3, <2>3, <2>6
  <2>8. file' \in Seq(Blocks)
    BY <2>2, <2>5, <2>7, AppendProperties
  <2>9. f \in {file, Append(file, Drops(loaded))}
    BY DEF f
  <2> QED BY <1>3, <2>2, <2>4, <2>7, <2>8, <2>9
<1> QED BY <1>2, <1>3 DEF Write

LEMMA TypeInit == Init => TypeOK /\ ReadInv
<1> SUFFICES ASSUME Init PROVE TypeOK /\ ReadInv
  OBVIOUS
<1>1. {ctxDone, stop, closed, chanClosed, ok} \subseteq BOOLEAN
  BY DEF Init
<1>2. ppc \in [Producers -> {"run", "drop", "failed", "done"}] /\ hits \in [Producers -> 0 .. MaxHits]
  BY Bounds DEF Init
<1>3. queue \in Seq(Events) /\ Len(queue) <= Capacity
  BY EmptySeq, Bounds DEF Init
<1>4. file \in Seq(Events \cup [kind : {"drops"}, n : Nat \ {0}])
  BY EmptySeq DEF Init
<1>5. /\ impl \in {"bpf", "ptrace"} /\ fatalErr = NoErr /\ losses = 0 /\ dropped = 0
      /\ loaded = 0 /\ wasted = 0 /\ rpc = "select" /\ event = NoEvent /\ ended = "no"
  BY DEF Init
<1> QED BY <1>1, <1>2, <1>3, <1>4, <1>5, Bounds DEF TypeOK, ReadInv

LEMMA TypeStep == TypeOK /\ ReadInv /\ [Next]_vars => TypeOK' /\ ReadInv'
<1> SUFFICES ASSUME TypeOK, ReadInv, [Next]_vars PROVE TypeOK' /\ ReadInv'
  OBVIOUS
<1> USE DEF TypeOK, ReadInv
<1>1. ASSUME NEW p \in Producers, Send(p) PROVE TypeOK' /\ ReadInv'
  <2>1. /\ UNCHANGED <<impl, losses, endVars, dropped, readVars>>
        /\ hits' = [hits EXCEPT ![p] = @ + 1] /\ hits[p] < MaxHits
    BY <1>1 DEF Send
  <2>2. hits' \in [Producers -> 0 .. MaxHits]
    BY <2>1, Bounds
  <2>3. CASE Len(queue) < Capacity
    <3>1. queue' = Append(queue, Event(p, hits[p] + 1)) /\ ppc' = ppc
      BY <1>1, <2>3 DEF Send
    <3>2. Event(p, hits[p] + 1) \in Events
      BY <2>1, Bounds DEF Event, Events
    <3>3. queue' \in Seq(Events) /\ Len(queue') = Len(queue) + 1 /\ Len(queue) \in Nat
      BY <3>1, <3>2, AppendProperties, LenProperties
    <3>4. Len(queue') <= Capacity
      BY <2>3, <3>3, Bounds
    <3> QED BY <2>1, <2>2, <3>1, <3>3, <3>4 DEF endVars, readVars
  <2>4. CASE ~(Len(queue) < Capacity)
    BY <1>1, <2>1, <2>2, <2>4 DEF Send, endVars, readVars
  <2> QED BY <2>3, <2>4
<1>2. ASSUME NEW p \in Producers, CountDrop(p) PROVE TypeOK' /\ ReadInv'
  BY <1>2 DEF CountDrop, endVars, readVars
<1>3. ASSUME NEW p \in Producers, ReportLoss(p) PROVE TypeOK' /\ ReadInv'
  BY <1>3, Bounds DEF ReportLoss, endVars, readVars
<1>4. ASSUME NEW p \in Producers, Fail(p) PROVE TypeOK' /\ ReadInv'
  BY <1>4 DEF Fail, readVars
<1>5. ASSUME NEW p \in Producers, ProducerStops(p) PROVE TypeOK' /\ ReadInv'
  BY <1>5 DEF ProducerStops, endVars, readVars
<1>6. CASE FailHotplug \/ Cancel \/ CloseBegin \/ CloseEnd \/ Finished \/ UNCHANGED vars
  <2>1. UNCHANGED <<sourceVars, queue, dropped, readVars>>
    BY <1>6 DEF FailHotplug, Cancel, CloseBegin, CloseEnd, Finished, vars
  <2>2. {ctxDone', stop', closed', chanClosed'} \subseteq BOOLEAN
    BY <1>6 DEF FailHotplug, Cancel, CloseBegin, CloseEnd, Finished, vars, endVars
  <2>3. fatalErr' \in {fatalErr, "hotplug"}
    BY <1>6 DEF FailHotplug, Cancel, CloseBegin, CloseEnd, Finished, vars, endVars
  <2> QED BY <2>1, <2>2, <2>3 DEF sourceVars, readVars
<1>7. ASSUME Receive, UNCHANGED <<dropped, loaded>>, ReadUnchanged, ok' = TRUE, rpc' = "load",
             rpc \in {"select", "drain"}
      PROVE  TypeOK' /\ ReadInv'
  <2>1. queue' \in Seq(Events) /\ Len(queue') <= Capacity /\ event' \in Events \cup {NoEvent}
    <3>1. CASE queue # <<>> /\ event' = Head(queue) /\ queue' = Tail(queue)
      <4>1. Head(queue) \in Events /\ Tail(queue) \in Seq(Events) /\ Len(Tail(queue)) = Len(queue) - 1
        BY <3>1, HeadTailProperties
      <4>2. Len(queue) \in Nat
        BY LenProperties
      <4> QED BY <3>1, <4>1, <4>2, Bounds
    <3>2. CASE event' = NoEvent /\ queue' = queue
      BY <3>2
    <3> QED BY <1>7, <3>1, <3>2 DEF Receive
  <2> QED BY <1>7, <2>1 DEF ReadUnchanged, sourceVars, endVars
<1>8. CASE ReadEvent
  BY <1>7, <1>8 DEF ReadEvent
<1>9. CASE Drain
  <2>1. CASE Receive /\ ok' = TRUE
    BY <1>7, <1>9, <2>1 DEF Drain
  <2>2. CASE event' = NoEvent /\ ok' = FALSE /\ UNCHANGED queue
    BY <1>9, <2>2 DEF Drain, ReadUnchanged, sourceVars, endVars
  <2> QED BY <1>9, <2>1, <2>2 DEF Drain
<1>10. CASE ReadInterrupt \/ ReadEnd
  BY <1>10 DEF ReadInterrupt, ReadEnd, ReadUnchanged, sourceVars, endVars
<1>11. CASE LoadDropped \/ SubtractDropped
  BY <1>11 DEF LoadDropped, SubtractDropped, ReadUnchanged, sourceVars, endVars
<1>12. ASSUME NEW why \in {"end", "interrupt", "write"}, Leave(why),
              UNCHANGED <<sourceVars, endVars, queue, dropped, ok, file>>
       PROVE  TypeOK' /\ ReadInv'
  BY <1>12 DEF Leave, Held, sourceVars, endVars
<1>13. CASE Check
  <2>1. CASE Leave("end") \/ Leave("interrupt")
    BY <1>12, <1>13, <2>1 DEF Check
  <2>2. CASE rpc' = "write" /\ UNCHANGED <<event, loaded, wasted, ended>>
    BY <1>13, <2>2 DEF Check, sourceVars, endVars
  <2> QED BY <1>13, <2>1, <2>2 DEF Check
<1>14. CASE Write
  <2>1. CASE Leave("write") /\ UNCHANGED file
    BY <1>12, <1>14, <2>1 DEF Write
  <2>2. CASE rpc' = "select" /\ event' = NoEvent /\ loaded' = 0 /\ UNCHANGED <<wasted, ended>>
    <3>1. file' \in Seq(Events \cup [kind : {"drops"}, n : Nat \ {0}])
      BY <1>14, <2>2, WriteSteps DEF Blocks
    <3> QED BY <1>14, <2>2, <3>1 DEF Write, sourceVars, endVars
  <2> QED BY <1>14, <2>1, <2>2 DEF Write
<1> QED BY <1>1, <1>2, <1>3, <1>4, <1>5, <1>6, <1>8, <1>9, <1>10, <1>11, <1>13, <1>14
        DEF Next, Read, Close

(* Every variable keeps its type: the queue never has more events than its  *)
(* capacity, and p.dropped, which two goroutines change, never gets below 0. *)
THEOREM TypeCorrect == Spec => []TypeOK
<1>1. Spec => [](TypeOK /\ ReadInv)
  BY TypeInit, TypeStep, PTL DEF Spec
<1> QED BY <1>1, PTL


-----------------------------------------------------------------------------
(* The end of the stream.  Once read() has found the queue empty after a    *)
(* failure, no event of the failed producer can get into the queue: the     *)
(* producer has stopped for good, and fatalErr names it until the end.      *)

NoneFromFailed == \A i \in DOMAIN queue : queue[i].from # fatalErr
EndInv ==
  /\ fatalErr \in Producers => ppc[fatalErr] = "failed"
  /\ rpc = "drain" /\ ~stop => fatalErr # NoErr
  /\ rpc \in {"load", "subtract", "check"} /\ ~ok /\ ~stop => fatalErr # NoErr /\ NoneFromFailed
  /\ ended = "end" /\ ~stop => fatalErr # NoErr /\ NoneFromFailed

LEMMA EndInit == Init => EndInv
BY ProbeAssumption, Zenon DEF Init, EndInv

LEMMA EndStep ==
  ASSUME TypeOK, ReadInv, TypeOK', EndInv, [Next]_vars
  PROVE  EndInv'
<1> USE DEF EndInv
<1>1. ASSUME NEW p \in Producers, Send(p) PROVE EndInv'
  <2>1. /\ ppc[p] = "run" /\ fatalErr' = fatalErr /\ stop' = stop /\ rpc' = rpc /\ ok' = ok
        /\ ended' = ended /\ p # fatalErr
    BY <1>1 DEF Send, endVars, readVars
  <2>2. ppc' = ppc \/ ppc' = [ppc EXCEPT ![p] = "drop"]
    BY <1>1 DEF Send
  <2>3. fatalErr' \in Producers => ppc'[fatalErr'] = "failed"
    BY <2>1, <2>2 DEF TypeOK
  <2>4. NoneFromFailed => NoneFromFailed'
    <3>1. CASE queue' = queue
      BY <2>1, <3>1 DEF NoneFromFailed
    <3>2. CASE queue' = Append(queue, Event(p, hits[p] + 1))
      <4>1. queue \in Seq(Events)
        BY DEF TypeOK
      <4>2. /\ DOMAIN queue' = 1 .. Len(queue) + 1 /\ DOMAIN queue = 1 .. Len(queue)
            /\ Len(queue) \in Nat
            /\ queue'[Len(queue) + 1] = Event(p, hits[p] + 1)
            /\ \A i \in 1 .. Len(queue) : queue'[i] = queue[i]
        BY <3>2, <4>1, LenProperties
      <4>3. Event(p, hits[p] + 1).from # fatalErr'
        BY <2>1 DEF Event
      <4>4. \A i \in 1 .. Len(queue) + 1 : i \in 1 .. Len(queue) \/ i = Len(queue) + 1
        BY <4>2
      <4> HIDE DEF EndInv
      <4> QED BY <2>1, <4>2, <4>3, <4>4, Zenon DEF NoneFromFailed
    <3> QED BY <1>1, <3>1, <3>2 DEF Send
  <2> QED BY <2>1, <2>3, <2>4, Zenon
<1>2. ASSUME NEW p \in Producers, CountDrop(p) \/ ReportLoss(p) \/ ProducerStops(p) PROVE EndInv'
  <2>1. /\ ppc[p] # "failed" /\ fatalErr' = fatalErr /\ stop' = stop /\ rpc' = rpc /\ ok' = ok
        /\ ended' = ended /\ queue' = queue
    BY <1>2 DEF CountDrop, ReportLoss, ProducerStops, endVars, readVars
  <2>2. \A q \in Producers \ {p} : ppc'[q] = ppc[q]
    BY <1>2 DEF CountDrop, ReportLoss, ProducerStops, TypeOK
  <2> QED BY <2>1, <2>2, Zenon DEF NoneFromFailed
<1>3. ASSUME NEW p \in Producers, Fail(p) PROVE EndInv'
  <2>1. /\ stop' = stop /\ rpc' = rpc /\ ok' = ok /\ ended' = ended /\ queue' = queue
        /\ ppc' = [ppc EXCEPT ![p] = "failed"]
        /\ fatalErr' = IF fatalErr = NoErr THEN p ELSE fatalErr
    BY <1>3 DEF Fail, readVars
  <2>2. fatalErr' \in Producers => ppc'[fatalErr'] = "failed"
    BY <2>1 DEF TypeOK
  <2>3. fatalErr # NoErr => fatalErr' = fatalErr
    BY <2>1
  <2>4. fatalErr' # NoErr
    BY <2>1, ProbeAssumption
  <2> QED BY <2>1, <2>2, <2>3, <2>4, Zenon DEF NoneFromFailed
<1>4. CASE FailHotplug
  <2>1. /\ stop' = stop /\ rpc' = rpc /\ ok' = ok /\ ended' = ended /\ queue' = queue
        /\ fatalErr = NoErr /\ fatalErr' = "hotplug"
    BY <1>4 DEF FailHotplug, readVars
  <2>2. "hotplug" \notin Producers
    BY ProbeAssumption
  <2> QED BY <2>1, <2>2 DEF NoneFromFailed, NoErr
<1>5. CASE Cancel \/ CloseBegin \/ CloseEnd \/ Finished \/ UNCHANGED vars
  <2>1. /\ stop' \in {stop, TRUE} /\ rpc' = rpc /\ ok' = ok /\ ended' = ended /\ queue' = queue
        /\ fatalErr' = fatalErr /\ ppc' = ppc
    BY <1>5 DEF Cancel, CloseBegin, CloseEnd, Finished, vars, sourceVars, endVars, readVars
  <2> QED BY <2>1 DEF NoneFromFailed
<1>6. CASE ReadInterrupt \/ ReadEvent
  <2>1. /\ UNCHANGED <<stop, ended, fatalErr, ppc>> /\ rpc' = "load" /\ ok' = TRUE
        /\ rpc # "done"
    BY <1>6 DEF ReadInterrupt, ReadEvent, ReadUnchanged, endVars, sourceVars
  <2> QED BY <2>1 DEF ReadInv
<1>7. CASE ReadEnd
  <2>1. /\ UNCHANGED <<stop, ended, fatalErr, ppc>> /\ rpc' = "drain" /\ rpc # "done"
        /\ fatalErr # NoErr \/ stop
    BY <1>7 DEF ReadEnd, ReadUnchanged, endVars, sourceVars
  <2> QED BY <2>1 DEF ReadInv
<1>8. CASE Drain
  <2>1. /\ UNCHANGED <<stop, ended, fatalErr, ppc>> /\ rpc = "drain" /\ rpc' = "load"
        /\ ok' = TRUE \/ queue' = <<>>
    BY <1>8 DEF Drain, ReadUnchanged, endVars, sourceVars
  <2>2. queue' = <<>> => NoneFromFailed'
    BY DEF NoneFromFailed
  <2> QED BY <2>1, <2>2 DEF ReadInv
<1>9. CASE LoadDropped \/ SubtractDropped
  <2>1. /\ UNCHANGED <<stop, ended, fatalErr, ppc, ok, queue>>
        /\ rpc \in {"load", "subtract"} /\ rpc' \in {"subtract", "check"}
    BY <1>9 DEF LoadDropped, SubtractDropped, ReadUnchanged, endVars, sourceVars
  <2> QED BY <2>1 DEF NoneFromFailed
<1>10. CASE Check
  <2>1. /\ UNCHANGED <<stop, fatalErr, ppc, ok, queue>> /\ rpc = "check" /\ rpc' \in {"done", "write"}
        /\ ended' \in {ended, "interrupt"} \/ ~ok
    BY <1>10 DEF Check, Leave, endVars, sourceVars
  <2> QED BY <2>1 DEF NoneFromFailed
<1>11. CASE Write
  <2>1. /\ UNCHANGED <<stop, fatalErr, ppc, queue>> /\ rpc' \in {"done", "select"}
        /\ ended' \in {ended, "write"}
    BY <1>11 DEF Write, Leave, endVars, sourceVars
  <2> QED BY <2>1 DEF NoneFromFailed
<1> QED BY <1>1, <1>2, <1>3, <1>4, <1>5, <1>6, <1>7, <1>8, <1>9, <1>10, <1>11
        DEF Next, Read, Close

(* When the stream ends because a producer failed, none of its events is     *)
(* left in the queue: read() looks once more before it reports the end, and  *)
(* nothing of that producer can follow.                                      *)
THEOREM FailedStreamIsDrained == Spec => []FailedProducerDrained
<1>1. Spec => [](TypeOK /\ ReadInv)
  BY TypeInit, TypeStep, PTL DEF Spec
<1>2. TypeOK /\ ReadInv /\ TypeOK' /\ EndInv /\ [Next]_vars => EndInv'
  BY EndStep
<1>3. EndInv => FailedProducerDrained
  BY DEF EndInv, FailedProducerDrained, NoneFromFailed
<1> QED BY <1>1, <1>2, <1>3, EndInit, PTL DEF Spec

-----------------------------------------------------------------------------
(* The account.  Every step moves an event or a drop from one place to       *)
(* another; the places are counted as sets.                                  *)

Balance ==
  rpc # "done" =>
    losses + Cardinality(Sent)
      = Cardinality(UnitsIn(file)) + Len(queue) + dropped + Counting + InReadersHands
AccountInv == IsFiniteSet(UnitsIn(file)) /\ Balance

DropSet == {p \in Producers : ppc[p] = "drop"}

LEMMA AccountedIsBalance == Accounted <=> Balance
BY DEF Accounted, Balance, Total, Written, Units, UnitsIn

LEMMA SentFinite == TypeOK => IsFiniteSet(Sent)
<1>1. IsFiniteSet(Producers) /\ IsFiniteSet(1 .. MaxHits)
  BY ProbeAssumption, Bounds, FS_Interval
<1>2. IsFiniteSet(Producers \X (1 .. MaxHits))
  BY <1>1, FS_Product
<1>3. Sent \subseteq Producers \X (1 .. MaxHits)
  BY DEF Sent
<1> QED BY <1>2, <1>3, FS_Subset

LEMMA DropSetFinite == IsFiniteSet(DropSet)
<1>1. IsFiniteSet(Producers)
  BY ProbeAssumption
<1>2. DropSet \subseteq Producers
  BY DEF DropSet
<1> QED BY <1>1, <1>2, FS_Subset

(* The terms of the account are numbers. *)
LEMMA AccountTypes ==
  ASSUME TypeOK, ReadInv, AccountInv
  PROVE  /\ losses \in Nat /\ Cardinality(Sent) \in Nat /\ Cardinality(UnitsIn(file)) \in Nat
         /\ Len(queue) \in Nat /\ dropped \in Nat /\ Counting \in Nat /\ loaded \in Nat
         /\ Held \in Nat /\ InReadersHands \in Nat
<1>1. /\ Cardinality(Sent) \in Nat /\ Cardinality(DropSet) \in Nat
      /\ Cardinality(UnitsIn(file)) \in Nat
  BY SentFinite, DropSetFinite, FS_CardinalityType DEF AccountInv
<1>2. losses \in 0 .. MaxLosses /\ dropped \in Nat /\ loaded \in Nat /\ queue \in Seq(Events)
  BY DEF TypeOK
<1>3. Counting = Cardinality(DropSet)
  BY DEF Counting, DropSet
<1>4. Held \in Nat /\ Held >= loaded
  BY <1>2 DEF Held
<1> QED BY <1>1, <1>2, <1>3, <1>4, Bounds, LenProperties DEF InReadersHands

(* One more event of p is one more event sent. *)
LEMMA SentAdd ==
  ASSUME TypeOK, NEW p \in Producers, hits[p] < MaxHits, hits' = [hits EXCEPT ![p] = @ + 1]
  PROVE  Cardinality(Sent') = Cardinality(Sent) + 1
<1> DEFINE e == <<p, hits[p] + 1>>
<1>1. hits \in [Producers -> 0 .. MaxHits]
  BY DEF TypeOK
<1>2. e \notin Sent
  BY <1>1 DEF Sent
<1>3. Sent' = Sent \cup {e}
  <2>1. ASSUME NEW q \in Producers, NEW n \in 1 .. MaxHits
        PROVE  n <= hits'[q] <=> n <= hits[q] \/ <<q, n>> = e
    <3>1. CASE q = p
      BY <1>1, <3>1
    <3>2. CASE q # p
      BY <1>1, <3>2
    <3> QED BY <3>1, <3>2
  <2>2. e \in Producers \X (1 .. MaxHits)
    BY <1>1, Bounds
  <2> HIDE DEF e
  <2>3. \A s \in Producers \X (1 .. MaxHits) :
          s[2] <= hits'[s[1]] <=> s[2] <= hits[s[1]] \/ s = e
    BY <2>1
  <2> QED BY <2>2, <2>3 DEF Sent
<1>4. IsFiniteSet(Sent)
  BY SentFinite
<1> HIDE DEF e
<1> QED BY <1>2, <1>3, <1>4, FS_AddElement

(* A producer that begins to count a drop, and one that has counted it. *)
LEMMA CountingSteps ==
  ASSUME TypeOK, NEW p \in Producers, NEW s, ppc' = [ppc EXCEPT ![p] = s]
  PROVE  /\ ppc[p] # "drop" /\ s = "drop" => Counting' = Counting + 1
         /\ ppc[p] = "drop" /\ s # "drop" => Counting' = Counting - 1
         /\ ppc[p] # "drop" /\ s # "drop" => Counting' = Counting
<1>1. Counting = Cardinality(DropSet) /\ Counting' = Cardinality(DropSet')
  BY DEF Counting, DropSet
<1>2. ppc \in [Producers -> {"run", "drop", "failed", "done"}]
  BY DEF TypeOK
<1>3. \A q \in Producers : ppc'[q] = IF q = p THEN s ELSE ppc[q]
  BY <1>2
<1>4. CASE ppc[p] # "drop" /\ s = "drop"
  <2>1. p \notin DropSet /\ DropSet' = DropSet \cup {p}
    BY <1>3, <1>4 DEF DropSet
  <2> QED BY <1>1, <1>4, <2>1, DropSetFinite, FS_AddElement
<1>5. CASE ppc[p] = "drop" /\ s # "drop"
  <2>1. p \in DropSet /\ DropSet' = DropSet \ {p}
    BY <1>3, <1>5 DEF DropSet
  <2>2. /\ Cardinality(DropSet \ {p}) = Cardinality(DropSet) - 1
    BY <2>1, DropSetFinite, FS_RemoveElement
  <2> QED BY <1>1, <1>5, <2>1, <2>2
<1>6. CASE ppc[p] # "drop" /\ s # "drop"
  <2>1. DropSet' = DropSet
    BY <1>3, <1>6 DEF DropSet
  <2> QED BY <1>1, <1>6, <2>1
<1> QED BY <1>4, <1>5, <1>6

LEMMA AccountInit == Init => AccountInv
<1> SUFFICES ASSUME Init PROVE AccountInv
  OBVIOUS
<1>1. /\ losses = 0 /\ queue = <<>> /\ dropped = 0 /\ rpc = "select" /\ event = NoEvent
      /\ loaded = 0 /\ file = <<>> /\ hits = [p \in Producers |-> 0]
      /\ \A p \in Producers : ppc[p] # "drop"
  BY DEF Init
<1>2. UnitsIn(file) = {}
  BY <1>1 DEF UnitsIn
<1>3. Sent = {}
  BY <1>1 DEF Sent
<1>4. {p \in Producers : ppc[p] = "drop"} = {}
  BY <1>1
<1>5. InReadersHands = 0
  BY <1>1 DEF InReadersHands, Held
<1>6. IsFiniteSet({}) /\ Cardinality({}) = 0
  BY FS_EmptySet
<1>7. Len(queue) = 0
  BY <1>1
<1>8. Counting = 0
  BY <1>4, <1>6, Zenon DEF Counting
<1>9. Cardinality(Sent) = 0 /\ Cardinality(UnitsIn(file)) = 0 /\ IsFiniteSet(UnitsIn(file))
  BY <1>2, <1>3, <1>6, Zenon
<1> QED BY <1>1, <1>5, <1>7, <1>8, <1>9 DEF AccountInv, Balance

LEMMA AccountStep ==
  ASSUME TypeOK, ReadInv, TypeOK', ReadInv', AccountInv, [Next]_vars
  PROVE  AccountInv'
<1>s. PICK S : S = Cardinality(Sent)
  OBVIOUS
<1>u. PICK U : U = Cardinality(UnitsIn(file))
  OBVIOUS
<1>t. /\ losses \in Nat /\ S \in Nat /\ U \in Nat /\ Len(queue) \in Nat /\ dropped \in Nat
      /\ Counting \in Nat /\ loaded \in Nat /\ Held \in Nat /\ InReadersHands \in Nat
  BY <1>s, <1>u, AccountTypes
<1>i. /\ IsFiniteSet(UnitsIn(file))
      /\ rpc # "done" => losses + S = U + Len(queue) + dropped + Counting + InReadersHands
  BY <1>s, <1>u DEF AccountInv, Balance
<1>f. SUFFICES /\ IsFiniteSet(UnitsIn(file')) 
               /\ rpc' # "done" => losses' + Cardinality(Sent')
                    = Cardinality(UnitsIn(file')) + Len(queue') + dropped' + Counting'
                        + InReadersHands'
  BY DEF AccountInv, Balance, UnitsIn, Weight
<1> DEFINE Goal == /\ IsFiniteSet(UnitsIn(file')) 
                   /\ rpc' # "done" => losses' + Cardinality(Sent')
                        = Cardinality(UnitsIn(file')) + Len(queue') + dropped' + Counting'
                            + InReadersHands'
(* What the reader holds while a producer or Close runs. *)
<1>r. ASSUME UNCHANGED readVars
      PROVE  /\ rpc' = rpc /\ file' = file /\ InReadersHands' = InReadersHands
  BY <1>r DEF readVars, InReadersHands, Held
(* What the producers have done while the reader runs. *)
<1>p. ASSUME UNCHANGED sourceVars
      PROVE  losses' = losses /\ Cardinality(Sent') = S /\ Counting' = Counting
  BY <1>s, <1>p DEF sourceVars, Sent, Counting
<1>1. ASSUME NEW p \in Producers, Send(p) PROVE Goal
  <2>1. /\ hits[p] < MaxHits /\ hits' = [hits EXCEPT ![p] = @ + 1] /\ ppc[p] = "run"
        /\ losses' = losses /\ dropped' = dropped /\ UNCHANGED readVars
    BY <1>1 DEF Send
  <2>2. Cardinality(Sent') = S + 1
    BY <1>s, <2>1, SentAdd
  <2>3. Len(queue') + Counting' = Len(queue) + Counting + 1
    <3>1. CASE queue' = Append(queue, Event(p, hits[p] + 1)) /\ ppc' = ppc
      <4>1. Counting' = Counting
        BY <3>1 DEF Counting
      <4>2. queue \in Seq(Events)
        BY DEF TypeOK
      <4>3. Len(queue') = Len(queue) + 1
        BY <3>1, <4>2
      <4> QED BY <1>t, <4>1, <4>3
    <3>2. CASE ppc' = [ppc EXCEPT ![p] = "drop"] /\ queue' = queue
      <4>1. Counting' = Counting + 1
        BY <2>1, <3>2, CountingSteps
      <4> QED BY <1>t, <3>2, <4>1
    <3> QED BY <1>1, <3>1, <3>2 DEF Send
  <2>4. Len(queue') \in Nat /\ Counting' \in Nat
    <3>1. queue' \in Seq(Events)
      BY DEF TypeOK
    <3>2. Counting' = Counting \/ Counting' = Counting + 1
      BY <1>1, <2>1, CountingSteps DEF Send, Counting
    <3> QED BY <1>t, <3>1, <3>2, LenProperties
  <2>6. rpc' = rpc /\ file' = file /\ InReadersHands' = InReadersHands
    BY <1>r, <2>1
  <2>7. losses' = losses /\ dropped' = dropped
    BY <2>1
  <2>8. ASSUME rpc # "done"
        PROVE  losses + (S + 1) = U + Len(queue') + dropped + Counting' + InReadersHands
    BY SMTT(30), <1>t, <1>i, <2>3, <2>4, <2>8
  <2> QED BY <1>i, <2>2, <1>u, <2>6, <2>7, <2>8
<1>2. ASSUME NEW p \in Producers, CountDrop(p) PROVE Goal
  <2>1. /\ ppc[p] = "drop" /\ ppc' = [ppc EXCEPT ![p] = "run"] /\ dropped' = dropped + 1
        /\ hits' = hits /\ losses' = losses /\ queue' = queue /\ UNCHANGED readVars
    BY <1>2 DEF CountDrop
  <2>2. Counting' = Counting - 1
    <3>1. "run" # "drop" /\ ppc[p] = "drop" /\ ppc' = [ppc EXCEPT ![p] = "run"]
      BY <2>1
    <3> QED BY <3>1, CountingSteps, Zenon
  <2>3. Cardinality(Sent') = S
    BY <1>s, <2>1 DEF Sent
  <2> QED BY <1>t, <1>i, <1>r, <2>1, <2>2, <2>3, <1>u
<1>3. ASSUME NEW p \in Producers, ReportLoss(p) PROVE Goal
  <2>1. /\ losses' = losses + 1 /\ dropped' = dropped + 1 /\ ppc' = ppc /\ hits' = hits
        /\ queue' = queue /\ UNCHANGED readVars
    BY <1>3 DEF ReportLoss
  <2>2. Counting' = Counting /\ Cardinality(Sent') = S
    BY <1>s, <2>1 DEF Sent, Counting
  <2>4. rpc' = rpc /\ file' = file /\ InReadersHands' = InReadersHands
    BY <1>r, <2>1
  <2>5. losses' = losses + 1 /\ dropped' = dropped + 1 /\ queue' = queue
    BY <2>1
  <2>6. ASSUME rpc # "done"
        PROVE  (losses + 1) + S = U + Len(queue) + (dropped + 1) + Counting + InReadersHands
    BY <1>t, <1>i, <2>6
  <2> QED BY <1>i, <2>2, <1>u, <2>4, <2>5, <2>6
<1>4. ASSUME NEW p \in Producers, Fail(p) \/ ProducerStops(p) PROVE Goal
  <2>1. /\ losses' = losses /\ dropped' = dropped /\ hits' = hits /\ queue' = queue
        /\ ppc[p] = "run" /\ UNCHANGED readVars
    BY <1>4 DEF Fail, ProducerStops
  <2>2. Counting' = Counting
    <3>1. \E s \in {"failed", "done"} : ppc' = [ppc EXCEPT ![p] = s]
      BY <1>4 DEF Fail, ProducerStops
    <3> QED BY <2>1, <3>1, CountingSteps
  <2>3. Cardinality(Sent') = S
    BY <1>s, <2>1 DEF Sent
  <2> QED BY <1>t, <1>i, <1>r, <2>1, <2>2, <2>3, <1>u
<1>5. CASE FailHotplug \/ Cancel \/ CloseBegin \/ CloseEnd \/ Finished \/ UNCHANGED vars
  <2>1. UNCHANGED <<sourceVars, queue, dropped, readVars>>
    BY <1>5 DEF FailHotplug, Cancel, CloseBegin, CloseEnd, Finished, vars
  <2>2. UNCHANGED sourceVars /\ UNCHANGED readVars /\ queue' = queue /\ dropped' = dropped
    BY <2>1
  <2> QED BY <1>i, <1>r, <1>p, <2>2, <1>u
(* A read takes the first event of the queue, or finds it empty. *)
<1>6. ASSUME rpc \in {"select", "drain"}, rpc' = "load", dropped' = dropped, loaded' = loaded,
             ReadUnchanged,
             \/ queue # <<>> /\ event' = Head(queue) /\ queue' = Tail(queue)
             \/ event' = NoEvent /\ queue' = queue
      PROVE  Goal
  <2>1. event = NoEvent /\ loaded = 0 /\ loaded' = 0
    BY <1>6 DEF ReadInv
  <2>2. InReadersHands = 0
    BY <1>6, <2>1 DEF InReadersHands, Held
  <2>3. InReadersHands' = IF event' = NoEvent THEN 0 ELSE 1
    BY <1>6, <2>1 DEF InReadersHands, Held
  <2>4. Len(queue') + InReadersHands' = Len(queue) /\ Len(queue') \in Nat
        /\ InReadersHands' \in Nat
    <3>1. CASE event' = NoEvent /\ queue' = queue
      BY <1>t, <2>3, <3>1
    <3>2. CASE queue # <<>> /\ event' = Head(queue) /\ queue' = Tail(queue)
      <4>1. queue \in Seq(Events)
        BY DEF TypeOK
      <4>2. Head(queue) \in Events /\ Len(Tail(queue)) = Len(queue) - 1 /\ Len(queue) > 0
        BY <1>t, <3>2, <4>1, HeadTailProperties, EmptySeq
      <4>3. event' # NoEvent
        BY <3>2, <4>2 DEF Events, NoEvent
      <4> QED BY <1>t, <2>3, <3>2, <4>2, <4>3
    <3> QED BY <1>6, <3>1, <3>2
  <2>5. UNCHANGED sourceVars /\ file' = file
    BY <1>6 DEF ReadUnchanged
  <2>7. losses' = losses /\ Cardinality(Sent') = S /\ Counting' = Counting
    BY <1>p, <2>5
  <2>8. losses + S = U + Len(queue') + dropped + Counting + InReadersHands'
    BY SMTT(30), <1>t, <1>i, <1>6, <2>2, <2>4
  <2> QED BY <1>i, <1>6, <2>5, <1>u, <2>7, <2>8
<1>7. CASE ReadInterrupt \/ ReadEvent \/ Drain
  BY <1>6, <1>7 DEF ReadInterrupt, ReadEvent, Drain, Receive
<1>8. CASE ReadEnd
  <2>1. /\ UNCHANGED <<queue, dropped, loaded, event>> /\ rpc = "select" /\ rpc' = "drain"
        /\ UNCHANGED sourceVars /\ file' = file
    BY <1>8 DEF ReadEnd, ReadUnchanged
  <2>2. InReadersHands' = InReadersHands
    BY <2>1 DEF InReadersHands, Held
  <2> QED BY <1>i, <1>p, <2>1, <2>2, <1>u
(* The counter is loaded: the drops are still in it. *)
<1>9. CASE LoadDropped
  <2>1. /\ UNCHANGED <<queue, dropped, event>> /\ rpc = "load" /\ rpc' = "subtract"
        /\ loaded' = dropped /\ UNCHANGED sourceVars /\ file' = file
    BY <1>9 DEF LoadDropped, ReadUnchanged
  <2>2. loaded = 0
    BY <2>1 DEF ReadInv
  <2>3. InReadersHands' = InReadersHands
    BY <1>t, <2>1, <2>2 DEF InReadersHands, Held
  <2> QED BY <1>i, <1>p, <2>1, <2>3, <1>u
(* It is subtracted: they are in the reader's hands. *)
<1>10. CASE SubtractDropped
  <2>1. /\ UNCHANGED <<queue, loaded, event>> /\ rpc = "subtract" /\ rpc' = "check"
        /\ dropped' = dropped - loaded /\ UNCHANGED sourceVars /\ file' = file
    BY <1>10 DEF SubtractDropped, ReadUnchanged
  <2>2. InReadersHands' = InReadersHands + loaded
    BY <1>t, <2>1 DEF InReadersHands, Held
  <2> QED BY <1>t, <1>i, <1>p, <2>1, <2>2, <1>u
<1>11. CASE Check
  <2>1. /\ rpc = "check" /\ UNCHANGED <<queue, dropped, file>> /\ UNCHANGED sourceVars
        /\ rpc' = "done" \/ (rpc' = "write" /\ UNCHANGED <<event, loaded>>)
    BY <1>11 DEF Check, Leave
  <2>2. rpc' # "done" => InReadersHands' = InReadersHands
    BY <2>1 DEF InReadersHands, Held
  <2> QED BY <1>i, <1>p, <2>1, <2>2, <1>u
(* What the reader held is in the file. *)
<1>12. CASE Write
  <2>1. /\ rpc = "write" /\ UNCHANGED <<queue, dropped>> /\ UNCHANGED sourceVars
        /\ rpc' = "done" \/ (rpc' = "select" /\ event' = NoEvent /\ loaded' = 0)
        /\ event \in Events \cup {NoEvent} /\ file \in Seq(Blocks)
    BY <1>12 DEF Write, Leave, TypeOK, Blocks
  <2>2. CASE rpc' = "done" /\ file' = file
    BY <1>i, <2>2
  <2>3. CASE rpc' = "select"
    <3>1. PICK f \in {file, Append(file, Drops(loaded))} :
            /\ loaded > 0 <=> f # file
            /\ f \in Seq(Blocks)
            /\ file' = IF event = NoEvent THEN f ELSE Append(f, event)
      BY <1>12, <2>3, WriteSteps
    <3>2. IsFiniteSet(UnitsIn(f)) /\ Cardinality(UnitsIn(f)) = U + loaded
      <4>1. CASE loaded > 0
        <5>1. f = Append(file, Drops(loaded))
          BY <3>1, <4>1
        <5>2. Drops(loaded) \in Blocks /\ Weight(Drops(loaded)) = loaded
          BY <1>t, <4>1 DEF Drops, Blocks, Weight
        <5>3. /\ IsFiniteSet(UnitsIn(f))
              /\ Cardinality(UnitsIn(f)) = Cardinality(UnitsIn(file)) + Weight(Drops(loaded))
          BY <1>i, <2>1, <5>1, <5>2, UnitsAppend
        <5> QED BY <1>u, <5>2, <5>3
      <4>2. CASE ~(loaded > 0)
        <5>1. f = file /\ loaded = 0
          BY <1>t, <3>1, <4>2
        <5>2. U + loaded = U
          BY <1>t, <5>1
        <5> QED BY <1>i, <1>u, <5>1, <5>2
      <4> QED BY <4>1, <4>2
    <3>3. /\ IsFiniteSet(UnitsIn(file'))
          /\ Cardinality(UnitsIn(file')) = U + Held
      <4>1. CASE event = NoEvent
        BY <1>t, <3>1, <3>2, <4>1 DEF Held
      <4>2. CASE event # NoEvent
        <5>1. event \in Blocks /\ Weight(event) = 1
          BY <2>1, <4>2 DEF Blocks, Events, Weight
        <5>2. /\ IsFiniteSet(UnitsIn(Append(f, event)))
              /\ Cardinality(UnitsIn(Append(f, event))) = Cardinality(UnitsIn(f)) + 1
          BY <3>1, <3>2, <5>1, UnitsAppend
        <5>3. file' = Append(f, event)
          BY <3>1, <4>2
        <5>4. Held = loaded + 1
          BY <4>2 DEF Held
        <5> QED BY <1>t, <3>2, <5>2, <5>3, <5>4
      <4> QED BY <4>1, <4>2
    <3>4. InReadersHands = Held /\ InReadersHands' = 0
      BY <1>t, <2>1, <2>3 DEF InReadersHands, Held
    <3> QED BY <1>t, <1>i, <1>p, <2>1, <3>3, <3>4
  <2> QED BY <1>12, <2>2, <2>3, WriteSteps
<1> QED BY <1>1, <1>2, <1>3, <1>4, <1>5, <1>7, <1>8, <1>9, <1>10, <1>11, <1>12
        DEF Next, Read, Close

(* Until the reader ends, every event and every reported loss is written,    *)
(* counted in a drop line, queued, counted in p.dropped, or in the hands of  *)
(* a goroutine, however the producers' additions fall between the load of    *)
(* the counter and its subtraction.                                          *)
THEOREM EveryEventIsAccounted == Spec => []Accounted
<1>1. Spec => [](TypeOK /\ ReadInv)
  BY TypeInit, TypeStep, PTL DEF Spec
<1>2. TypeOK /\ ReadInv /\ TypeOK' /\ ReadInv' /\ AccountInv /\ [Next]_vars => AccountInv'
  BY AccountStep
<1>3. AccountInv => Accounted
  BY AccountedIsBalance DEF AccountInv
<1> QED BY <1>1, <1>2, <1>3, AccountInit, PTL DEF Spec
=============================================================================
