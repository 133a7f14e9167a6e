------------------------------ MODULE PerfRing ------------------------------
(***************************************************************************)
(* The perf ring buffer (src/internal/probe/bpfprobe/internal/ring.go):    *)
(* the kernel appends records at head, ReadRecord copies one at tail and   *)
(* gives its space back.  Positions only grow; the data wraps around.  The *)
(* unit is a word of 8 bytes, to which the kernel aligns records.          *)
(*                                                                         *)
(* External: the kernel writes a record and then publishes head.  It keeps *)
(* a word free; what does not fit is lost, and the next record that fits   *)
(* follows a LOST record with the count.                                   *)
(***************************************************************************)
EXTENDS Integers, Sequences

CONSTANTS
  RingSize,    \* r.size, in words
  RecSizes,    \* words of a SAMPLE record with its header
  MaxSamples   \* bound: samples the kernel is asked to write

ASSUME PerfRingAssumption ==
  RingSize \in Nat \ {0} /\ RecSizes \subseteq Nat \ {0, 1} /\ MaxSamples \in Nat

VARIABLES
  data,        \* the words of the ring
  khead, head, \* what the kernel has written and what it has published
  tail,        \* what the reader has given back
  written,     \* the records the kernel has published, as their words
  samples, dropped, \* samples so far, those dropped since the last LOST record
  rpc, rhead, rtail, tmp, \* ReadRecord: "idle", "copy", "store"; loaded positions, r.tmp
  got          \* what ReadRecord has returned

ringVars == <<data, khead, head, tail, written, samples, dropped, rpc, rhead, rtail, tmp, got>>

Word(id, k, size) == [id |-> id, k |-> k, size |-> size]    \* k = 0 is the header
Record(id, size) == [k \in 1 .. size |-> Word(id, k - 1, size)]
LostSize == 3
Lost(n) == Record(0 - n, LostSize)

RingInit ==
  /\ data = [i \in 1 .. RingSize |-> Word(0, 0, 0)] /\ khead = 0 /\ head = 0 /\ tail = 0
  /\ written = <<>> /\ samples = 0 /\ dropped = 0
  /\ rpc = "idle" /\ rhead = 0 /\ rtail = 0 /\ tmp = <<>> /\ got = <<>>

-----------------------------------------------------------------------------
(* The kernel. *)

Store(words) ==
  [i \in 1 .. RingSize |->
     LET ks == {k \in 1 .. Len(words) : (khead + k - 1) % RingSize = i - 1} IN
     IF ks = {} THEN data[i] ELSE words[CHOOSE k \in ks : TRUE]]

Output(size) ==
  LET records == (IF dropped > 0 THEN <<Lost(dropped)>> ELSE <<>>)
                   \o <<Record(samples + 1, size)>>
      words == IF dropped > 0 THEN records[1] \o records[2] ELSE records[1] IN
  /\ khead = head /\ samples < MaxSamples /\ samples' = samples + 1
  /\ IF khead + Len(words) - tail < RingSize
     THEN /\ data' = Store(words) /\ khead' = khead + Len(words)
          /\ dropped' = 0 /\ written' = written \o records
     ELSE dropped' = dropped + 1 /\ UNCHANGED <<data, khead, written>>
  /\ UNCHANGED <<head, tail, rpc, rhead, rtail, tmp, got>>

Publish ==
  /\ khead # head /\ head' = khead
  /\ UNCHANGED <<data, khead, tail, written, samples, dropped, rpc, rhead, rtail, tmp, got>>

-----------------------------------------------------------------------------
(* ReadRecord. *)

CopyWrap(i, n) ==
  LET off == i % RingSize IN
  IF off + n <= RingSize
  THEN SubSeq(data, off + 1, off + n)
  ELSE SubSeq(data, off + 1, RingSize) \o SubSeq(data, 1, n - (RingSize - off))

Load ==
  /\ rpc = "idle" /\ tail < head
  /\ rhead' = head /\ rtail' = tail /\ rpc' = "copy"
  /\ UNCHANGED <<data, khead, head, tail, written, samples, dropped, tmp, got>>

Header == CopyWrap(rtail, 1)[1]

CopyLate ==                          \* mutant: the space is given back before the copy
  LET size == Header.size IN
  /\ rpc = "copy"
  /\ IF tail = rtail
     THEN tail' = rtail + size /\ tmp' = <<Header>> /\ UNCHANGED rpc
     ELSE UNCHANGED tail /\ tmp' = CopyWrap(rtail, tmp[1].size) /\ rpc' = "store"
  /\ UNCHANGED <<data, khead, head, written, samples, dropped, rhead, rtail, got>>

(* A header of no size is skipped; a record that is not published yet ends   *)
(* the call without giving anything back.                                    *)
Copy ==
  LET size == Header.size IN
  /\ rpc = "copy"
  /\ tmp' = IF size < 1 \/ rtail + size > rhead THEN <<>> ELSE CopyWrap(rtail, size)
  /\ tail' = IF size < 1 THEN rtail + 1 ELSE tail
  /\ rpc' = IF tmp' = <<>> THEN "idle" ELSE "store"
  /\ UNCHANGED <<data, khead, head, written, samples, dropped, rhead, rtail, got>>

Return ==
  /\ rpc = "store" /\ rpc' = "idle"
  /\ tail' = rtail + Len(tmp) /\ got' = Append(got, tmp) /\ tmp' = <<>>
  /\ UNCHANGED <<data, khead, head, written, samples, dropped, rhead, rtail>>

RingNext == (\E size \in RecSizes : Output(size)) \/ Publish \/ Load \/ Copy \/ Return

RingSpec == RingInit /\ [][RingNext]_ringVars

-----------------------------------------------------------------------------
(* ReadRecord returns what the kernel has written, each record once, in      *)
(* order and whole, with the LOST records in between: the kernel never       *)
(* writes over a record that is being copied, and a record that wraps around *)
(* the end of the ring is put together again.                                *)
RecordsIntact ==
  /\ Len(got) <= Len(written) /\ got = SubSeq(written, 1, Len(got))
  /\ tail <= head /\ (rpc = "idle" /\ tail = khead => got = written)
=============================================================================
