# asslcapture: TLA+ models and proofs

asslcapture captures TLS secrets of BoringSSL (and the packets they decrypt) on
Android and Linux. It finds the libraries, attaches a probe to
`ssl_log_secret`, and writes what the probe sees to a key log or, interleaved
with packets, to a pcapng file. The repository has no tests; this project
specifies its concurrent parts, checks them with TLC and proves what it can with
TLAPS.

    tlc -workers 2 -config MCPcapNG.cfg MCPcapNG      # one run of PROJECT.json
    tlapm PcapNGProofs.tla    # one of the eight modules of proofs, *Proofs.tla

## Inventory

| component | source | state | operations | hard parts |
|---|---|---|---|---|
| pcapng capture | `capture/pcapng.go` | slab, delay ring, four channels, stopMu, shutdownCtx | five goroutines and the writer loop, `stop()` | unmapping against copying, shutdown while anything is blocked, order of secrets and packets |
| keylog capture | `capture/keylog.go` | a buffered writer | `Keylog` | drops before events, end of the stream |
| probe streams | `probe/probe.go`, `bpfprobe/probe.go`, `pprobe/probe.go` | queue, drop counter, fatal error, done | producers, `read`, `Events`, `Close` | counter taken in two steps, queue left at a failure |
| ptrace hooks | `pprobe/internal/phook*.go` | threads, breakpoints, pending clones and hooks | `Attach`, `Hook`, `Events`, `Close`, the wait loop | shared text, late installs, clone order, clean-up |
| bpfprobe attaching | `bpfprobe/probe.go`, `internal/cpu.go`, `internal/uprobe.go` | instances, rings per CPU, uprobes, targets | `Attach`, hotplug, `Close` | CPU online during Attach, half-made instances |
| perf ring | `bpfprobe/internal/ring.go` | head and tail shared with the kernel | `ReadRecord` | wrap-around, lost records |
| scanner | `scanner/*.go` | queue, tasks in flight, cache | `Scan*`, workers, `saveCache`, `Close` | Close with waiters, stale metadata, two saves |
| life cycle | `main.go` | ctx, output, scanner, probe | start, signals, shutdown | order of closing |
| analysis | `analyze/*.go` | none | `LogSecret`, `ClientRandom`, `Identify` | a stale register makes a wrong function look right |
| kvlines | `kvlines/*.go` | none | `Marshal`, `Unmarshal` | quoting of what paths may hold |
| flags, BPF program | `pflagx`, `bpfprobe/probe.c`, `bpfprobe/build.go` | none | | outside the concurrency; see below |

How they interact: `main` starts the scanner, whose workers call `Attach` on the
probe for each library found; the probe's producers fill a queue; one capture
reads it through `Events` until `ctx` is cancelled or the probe fails; `main`
then calls `stop()`, closes the output, the scanner and the probe, in this order.

What makes each of them correct is the list of "hazards" in `PROJECT.json`, each
at its line, with the properties that cover it or the reason why none does yet.

## What is modelled

### PcapNG and CaptureFile

`PcapNG.tla` is `capture.PcapNG`. An action is what a goroutine does between two
points where another can interfere: a channel operation, a lock, a cancellation.
Rendezvous on the unbuffered `keylogCh` and `readyCh` is one action of both
sides (`TakeSecret`, `TakeReady`); `pktCh` is a sequence of bounded length.
`stop()` takes two steps, the cancellation of `shutdownCtx` and, under `stopMu`,
the close of the handle; it is run by three goroutines. The reader's copy is
between `LockForCopy` and `CopyPacket`, so that a close could come in between if
the mutex did not exclude it. The slab is a set of free slots, and `content`
says whose bytes a slot holds, so that a slot reused too early shows in the file.
The ring has its head, its count and its entries; time is a count of ticks left.
`sendDue` reads the clock once, and so does `DueNow`. What may go wrong is the
constant `Faults`: a cancellation, a read error, a write error, a failed probe,
a closed one.

`CaptureFile.tla` is the abstract specification: packets and secrets are received
in order and appended in order, each once. PcapNG implements it under the mapping
at the end of `PcapNG.tla` (`ImplementsCaptureFile`), and its liveness
(`DeliversAll`).

`PcapNGTimed.tla` adds what the delay is for. Secrets are hooked, and their
events take up to `Latency` ticks to arrive, with `Latency < Delay`; time passes
only while every goroutine waits. `needs[p]` records the secrets hooked before
packet `p` was received and `forced` the packets that the half-full rule let out
early.

### ProbeEvents

The producers (one in bpfprobe, one per process in pprobe), the queue, `p.dropped`,
the failures, `Close`, and the reader: `read()`, the loop of `Events` and the
body of `Keylog`. `impl` chooses the probe, since they differ in what
`Close` does to the queue and in who may fail. The select, the second look at the queue, the load and the
subtraction of the counter are separate steps.

### PHook

The tracer's loop and the clean-up of `phook`, line by line, and as much of the
kernel as ptrace shows: threads run, reach a hooked address, trap, step, stop for
signals, interrupts, clones and on their way out. The text (`brk`) is shared by
all threads. Peek and poke work through a stopped thread only, and fail silently
in the code as in `Install` and `Restore`. `PTRACE_CONT` of a stepping thread
ends its step. The reader of `Events` is away from its select ("next") between the
end of a body and its next wait, which is when hits are dropped. A breakpoint in an untraced thread, and a SIGTRAP passed to a
thread that is not known yet, kill the process.

### Scanner and Main

`Scanner.tla` is the pool of workers. Callers list names (`ScanCached` those of
the cache, `ScanDir` any set, since directories and archives are outside), stat
each (`StatName`), and submit it under mu (`Enqueue`: nothing if the scanner is
closed, the task of the same key if one is in flight, else a new one). Then they wait
for their tasks and add up what each has counted (`Await`, until `AwaitEnds`). A worker
takes a task, and its variables are in `local`: what it has looked up under mu
(`Take`), the version it has opened (`Open`), the metadata of the second stat
(`Stat`), the hash (`Hash`), and what it stores under mu (`Commit`). A file is
replaced by rename, so that an open one keeps its content; a version stands for
size and time, and `Content` gives each its hash. `Retire` and `CloseDone` are the
delete from `inflight` under mu and the `close(done)` after it. `saveCache` is
`Marshal` (under mu), `Truncate` and `Write` (not under mu, as `os.WriteFile` does it).

`Main.tla` is the life of the program around it: `New` with a cache file that may
be missing, `Refused` when it cannot be read, the scan goroutine, a first and a
second signal (`Cancel`, `ForceExit`), and the shutdown in the order of the code:
`sc.Close` marks the queue closed and waits for the workers, then `main` waits
for the scan goroutine. A second caller stands for the package's other users
and makes two scans and two saves overlap.

What the model shows and the properties admit:

* A file replaced between the open of a worker and its second stat is cached with the
  metadata of the new file and the hash of the old one. `CacheSound` and
  `ResultFresh` except the names in `raced`, which are exactly those.
* Two saves that overlap, or a kill in a save, can leave an older or an unreadable cache file;
  `mishap` says which. `main` itself never runs two scans at a time.
* Close makes scans return early with fewer names counted than listed; `InfoAddsUp`
  says so (`closed`).

### BPFProbe

`Attach` holds `mu` from `AttachBegin` to its end and opens one ring per CPU
(`AttachRing`), any of which may fail, as may the uprobe. `ringFd` keeps what
`ringFd` and `ringInstance` hold, also after the ring is closed, and descriptors are
given out lowest first, as the kernel does, so that a stale entry can be met again.
`handleEvents` fetches the descriptors that are ready in one call (`EpollWait`),
looks each up under `mu` (`TakeFd`) and reads it after the unlock (`Read`), when a
failing Attach may have closed it. `handleHotplug` reads one event, then opens a
ring in every instance under `mu`. Events of CPUs that go offline are read and
ignored and their ring is kept, as in the code. `tracefs` is the fallback without a
uprobe PMU: entries outlive a killed process, `New` removes those of processes that are
gone, and `Exists` is also true of a target that is attached with other offsets.
The limit of 16 descriptors per `EpollWait` is abstracted: a ring that is not
reported stays ready for the next call.

What the model shows and the properties admit: when a ring of one instance fails in
`PlugFails`, the other instances get none (`Covered` holds until `fatal`); an entry
of this pid left by an earlier process is never removed, and a new one of the same
name is refused (`AttachUprobeFails`); a CPU that comes online between two steps of
`Attach` is covered only because hotplug waits for `mu` and looks at the instances
after that (`PlugLock`).

### PerfRing, KVLines, LogSecret

Three algorithms, checked by the one run of `MCFormats`, whose initial states are the
ring or one input of the functions.

`PerfRing.tla` is `ReadRecord`: load of head and tail, copy, and the store of tail are
three steps, between which the kernel may write. The kernel is external: it writes a
record, then publishes it, keeps a word free, drops what does not fit and reports it in
a LOST record. `RecordsIntact` says that what is returned is what was written, in order
and whole; it depends on the copy coming before the store and on `CopyWrap`.

`KVLines.tla` is the cache's format over sequences of characters, one for each class the
decoder tells apart; a name (type or property) is a token of its own. The reference is the identity: `CacheRoundTrips` says that
`Unmarshal(Marshal(objs))` is `objs`. It assumes what the map guarantees, one object of a key, and
what the format cannot hold: an empty key, and blanks at the end of a
comment. `Span` is the search for the first character of a set, `CutQuoted` the loop over a quoted string by its
positions. Escapes other than those of the quote and of the backslash (line ends,
bytes that are no UTF-8) are done by the standard library and left out.

`LogSecret.tla` reads instructions as records. `Known` is `regValues` as the analysis
has it, `Real` the registers that the processor has; `Sites` are the calls with a label in x1,
`Candidates` what they call. `LogSecretIsCalled` compares the two:
what the heuristic returns is really called with `CLIENT_RANDOM` and with every label it has seen.
It holds as long as no instruction that the analysis ignores
writes a register taken for known (`DirectLoads`, the code's "it's not going to get
split"). Without that assumption it fails: `Track` of "other" leaves the
register known.

## Runs

| run | shows | bounds | states |
|---|---|---|---|
| `pcapng` | types, ring, slab, stopMu, flushing, capture errors, results, refinement | 3 packets, one too large for a slot, 1 secret, ring of 2, all faults | 739k |
| `pcapng_live` | delivery, return, no goroutine left | 2 packets, 1 secret, all faults but a closed probe | 203k |
| `pcapng_timed` | secrets before the packets that need them, no overdue packet | 3 packets, 2 secrets, ring of 4, delay 2, latency 1 | 1.8M |
| `pcapng_cancel` | violation: packets are discarded on cancellation | 2 packets | |
| `pcapng_capture_error` | violation: a fatal read error does not end PcapNG | 2 packets | |
| `probe_events` | no event or drop lost or counted twice, the stream ends | 2 producers, queue of 1, 2 events each, 1 loss | 304k |
| `probe_drops` | violation: the last drops are never reported | same | |
| `phook` | stopped body, breakpoints put back, hits reported, Close returns, no thread forgotten | 2 threads, or 1 and its clone, 1 hook, 2 hits, 1 signal | 624k |
| `phook_close` | violation: breakpoints left in the text after Close | same, no signals | |
| `scanner` | tasks closed once, no offsets of another version, counters, cache file, exit | 1 library with 3 versions, 2 workers, 2 callers, 2 scans, 2 tasks | 448k |
| `bpfprobe` | rings found by descriptor, every online CPU covered, nothing leaks, records read, Close returns | 2 CPUs, 3 targets on 2 uprobes and 2 configurations, 2 Attach, 1 CPU change, 1 hit, 1 failure | 299k |
| `formats` | records intact, the cache read back, the function found is called | ring of 8 words, 6 samples; keys of 2 and other strings of 1 of 6 characters; 4 of 10 instructions and a call | 187k |

The bounds are enough for the cases to happen: a ring of 2 is over half full with
2 packets, so the forced flush, a batch and a lone packet all occur; 3 packets use the heap
buffer, both slots and a reused slot; `ChanCap` 1 fills `pktCh`; a queue of 1
drops. Two threads are what a clone, a step that takes the breakpoint away from
another thread, and a late install through a thread that steps need. `Large` sends
every packet of the timed run to the heap, since the slab is no part of its question.

The library of `scanner` has two versions of BoringSSL, so that a hash can be that of
another version and be known all the same, and a third that only links to it or is broken: all
outcomes of `processTask` occur. Two tasks are what two callers have in flight; two workers work on the
same name with different keys. In `bpfprobe` the failure is any one of the failing
calls, in any order with the CPU that comes online; two calls of Attach make a
descriptor be used again after the first has failed. Six samples in a
ring of 8 words wrap around twice, fill it, are dropped and reported lost. The calls
that end the code of `formats` have a right and a wrong target, and one that is in no segment.

`phook` has no deadlock check: once the tracer is done and the reader gone,
nothing is left to do.

**Fairness.** Go's scheduler runs every goroutine that can run (`Keylog`,
`Delayer`, `Writer`, `CancelStop`, `Tracer`, `Read`, `Close`), time passes
(`Tick`), and main calls `stop()` once the capture returns. Reading a packet, an
event, a signal, a cancellation, a failure, the end of the body of a loop over
`Events`: nothing is assumed of these. The reader of packets is fair except in
its read from the kernel, which returns once the handle is closed. In `Main` the workers,
the callers in a scan and the shutdown are fair; the capture owes a return only to a
cancelled ctx, and nobody owes a scan, a signal or a change of a file. In `BPFProbe`
the goroutines are fair, and `mu` is strongly fair to the lookup of a ring and to hotplug, because
Go hands a mutex over to a waiter that starves. `RecordsRead` and `CloseReturns` need
each hit to be the last at some time (`MaxHits`): a ring that fills as fast as it is read
keeps the inner loop of handleEvents from everything else, also from Close.

**Findings** are in `PROJECT.json`; each of the four violation runs shows one.
PcapNG drops what is buffered when it is cancelled, against its comment; it does
not return on a capture error as long as its probe lives; `read` of both probes
never reports the last drops; `Close` of phook can leave breakpoints behind.

## Proofs

Every proof is for every value of the constants, from the named assumptions of the module it is about
and nothing else. An invariant `X` of a run is proved by `Init => I`, `I /\ [Next]_vars => I'` and
`I => X`, where `I` adds to `X` what makes it inductive; each `I` was an invariant of
a run before. The proof that a step preserves it has a step per action, or per group of actions for which a
"frame" lemma says what they all leave alone.

| module | proves | of the run |
|---|---|---|
| `PcapNGProofs` | types, ring, unmapping, results, slab, flushing, capture errors, the refinement of CaptureFile | all safety of `pcapng` |
| `PcapNGTimedProofs` | types, secrets first, none overdue | all of `pcapng_timed` |
| `ProbeEventsProofs` | types, the account of events, drained streams | all safety of `probe_events` |
| `PHookProofs` | types, hits reported, stopped thread, missing breakpoints | all safety of `phook` |
| `MainProofs`, `MainCacheProofs` | tasks, types, cache, results, cache file, what scans add up | all safety of `scanner` |
| `BPFProbeProofs` | types, reachable rings, leaks, covered CPUs | all safety of `bpfprobe` |
| `FormatsProofs` | records intact, cache file read back, function found is called | all of `formats` |

**`PcapNGProofs`** has two parts.

* `TypeCorrect`: `TypeOK` is inductive as it stands, with one lemma per group of variables
  (`StopTypeStep` to `SlabTypeStep`).
* `RingNeverOverflows`: `NeverOverflows` is inductive given the type of `count`: `sendDue`
  returns to the select only if `~More`, which bounds the count by half the ring, which is less than
  the whole (`HalfIsLess`), so a packet always finds room.
* `CopiesAreMapped`: each of the three closers is guarded by the mutex, and the reader takes it
  only before the close. `ResultIsExplained`: from `ResultInv`, which follows why shutdownCtx is cancelled.
* The rest is about packets on their way and has one invariant, `Inv` (`FileInvariant`). Its centre
  is `ChainInv`: there is a number `n` of packets sent to `pktCh`, and the last of them are in `pktCh`, those before
  in the ring (`RingAt`, the ring as a queue), the one before on offer, and those before written or in the writer's
  hands. With it a packet's number says where it is. `FileInv` and `SecretInv` say the
  same of the file, `ExitInv` how the goroutines end, `BatchInv` which packets are marked as last, and `HoldInv`
  that a slot out of the pool is held by somebody, with that packet's bytes.
* From `Inv` follow `SlabIsOwned` (the five places of `SlotUses` exclude each other because the numbers do),
  `WhatIsIdleIsFlushed`, `CaptureErrorLosesNothing`, and step by step the refinement
  `RefinesCaptureFile`: `NextPacket` and `NextSecret` say that what the writer writes is what CaptureFile writes
  next, every other step is CaptureFile's `Receive`, `Stop`, `Close` or a stutter.

**`PcapNGTimedProofs`** proves that PcapNGTimed is PcapNG with a history (`TimedIsPcapNG`), so that `Inv` holds of it too.

* `NoneIsOverdue`, from `ClockInv`: the entries of the ring are in the order of their deadlines
  (`OrderInv`), the timer is set while the delay goroutine waits (`ArmInv`), and `due` counts entries that are due
  (`DueInv`, from `DueIsPrefix`: what is due of an ordered ring is a prefix).
* `SecretsComeFirst`: `AgeInv` says that a secret which a packet in the ring needs, and which is not in the file, has
  been on its way for as long as the packet has been in the ring. Time passes only when the keylog goroutine
  has handed over what it has received (`QuietReads`), so both get a tick. A packet that is due has been there for
  `Delay` ticks, and no event takes as long (`LatencyAssumption`). The theorem's one hypothesis is that the probe is not closed
  under the capture: `main` closes it after PcapNG has returned, and otherwise events on their way never arrive.

**`ProbeEventsProofs`**: the account (`Balance`) is an equation between cardinalities, kept by every step because it
moves one event from one place to another. `TypeCorrect` needs that `read` never subtracts more than
has been added (`ReadInv`), `FailedStreamIsDrained` that a producer which has failed is at its end and that the second look at the
queue comes after the failure (`EndInv`).

**`PHookProofs`**: `EveryHitIsReported` from `CountInv` (where the counter is while the reader's body runs).
`HitThreadIsStopped` and `BreakpointsArePutBack` from `HitInv`: a known thread that has trapped
and is not booked as stepping is at a breakpoint (`TrapInv`), and the thread of a hit stays attached
and stopped until the tracer goes on (`EmitInv`).

**`MainProofs`** and **`MainCacheProofs`** (from `ScannerAssumption` and `MainAssumption`):

* `TasksAreClosedOnce`, from `PoolInv`: a task that the queue or a worker owns is
  not closed and has a key (so its id is not free), only owned tasks are in flight, and a worker about to
  close its task has taken it out of flight (else a scan could share it after it is closed).
* `CacheIsSound` and `ResultsAreFresh`, from `ScanInv`: `CacheInv` says what a cache, an image of it or
  the saved one may hold (`GoodCache`), `KeyInv` that a task's key is of a version the file has had, and `WorkInv` what a worker knows
  at each step of processTask (`Phase`): which version it has opened, and that its metadata is of that version unless
  the file is in `raced`.
* `TypeCorrect`: that two tasks in flight never have the same key is part of it, and follows from what is in flight being owned.
* `CacheFileIsSound`, from `FileInv`: while a scan has work to do, somebody waits for every task (`WaitInv`), so once
  the callers are past their scans no worker changes the cache, and what is saved, or is
  being saved by the one caller that saves, is the cache (`SettledInv`).
* `InfoIsRight`, from `InfoInv`. `CountInv` says what a worker has counted at each step of processTask: a task that is
  closed counts one file with one result, or nothing if Close has dropped it from the queue. `TallyInv` says of a scan that what it has
  added up, has yet to submit, submits and waits for is what it has listed (`Sum`). It needs that one scan never waits twice for
  the same task: the names of what it waits for differ from those it has yet to submit, and tasks in flight from
  each other (`KeyInv`).

**`BPFProbeProofs`** (from `BPFProbeAssumption`):

* `TypeCorrect` is inductive as it stands: that no goroutine runs before New is part
  of it, since else New would find mu held by nobody.
* `RingsAreReachable` is inductive given the types: a new ring has a descriptor that no open one has,
  and replaces what `ringFd` had of it.
* `NothingIsLeaked`, from `LeakInv`, in three parts. `Owned` adds that hotplug only opens rings of
  installed instances. `Fresh` adds that an instance belongs to one configuration and has no uprobe while its
  rings are opened, so that closing it after a failure takes no program away from a uprobe. `Traced`
  adds what New finds.
* `EveryCpuIsCovered` follows an online event from the socket to `handleHotplug`'s hands and through its
  loop (`Pending`).

**`FormatsProofs`** (from `PerfRingAssumption`, `LogSecretAssumption` and `KVLinesAssumption`):

* `RecordsAreIntact`, from `RingInv`: the records written lie one behind the other at positions `off`
  (`Laid`), and every word of those not given back is in the ring; head and tail, the kernel's and the reader's, are
  ends of records (`Marked`). The ring holds less than one turn, so that two positions in it are never the
  same word (`PositionWraps`, `PositionsDiffer`); `StoreWords` and `CopyWords` are what a write and a copy that may
  wrap around do.
* `LogSecret` and `KVLines` are recursive functions. The library's induction takes an operator
  and cannot be used, so the property is given as the set of the numbers that have it: the least number outside of the set,
  which `WFMin` finds, contradicts the step (`SetInduction`). From it follow that a function with a given
  first value and step exists (`RecursionDefines`) and is determined by them (`SameByInduction`).
* `FoundFunctionIsCalled`: along the instructions, a register that is taken for known has that value (`KnownIsReal`,
  the one step that needs `DirectLoads`), so that a candidate for a label is a call with that label
  (`CandidatesAreCalled`).
* `WrittenIsReadBack`, from what each function cuts off a text that starts with what was written:
  `CutBareCuts`, `CutQuotedCuts` (the loop stops at the positions at which `StrconvQuote` has put the characters,
  `QuotedPositions`), `CutValueCuts`, `DecodePropCuts`. The line is what is before a property and what is
  behind it at once (`Lines` and `Rests`), so the decoder is a property further with each step (`DecodeObjIs`). What ends a line is never trimmed
  (`EndLine`), and the lines are in some order those of the objects (`SetToSeqEnumerates`), each with a key of its own.
  It is for every sequence of property names and every finite set of objects, of any length.

**Only model-checked.** Liveness under fairness (`DeliversAll`, `StopReturns`, `GoroutinesEnd`, and those of the other runs) is out
of the prover's reach. Every other property of the passing runs is a theorem.

## Plan

1. `PHook`: the violation of "Attach seizes pid and all of its threads".
2. `LogSecret`: the search of `ClientRandom`, in the same way.

## Not modelled

The flags and the BPF program are sequential and pure, or run in the kernel; the drop logger of PcapNG
only logs. `computeBufferSize` overflows beyond the integers TLC has. Of the
analysis, `ClientRandom` and the identification by strings, and of the scanner the walking of
directories and archives, are left out: both depend on the content of
files more than on any order of steps. In phook, a fatal error of wait4
(it does not occur for the arguments used) and the search of
`/proc/pid/maps` are left out: every hook resolves. In bpfprobe the error paths of `New`, which leave
the hotplug socket or epoll open when the program is about to exit, and those of `Close` are left out.
