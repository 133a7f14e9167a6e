-------------------------------- MODULE Main --------------------------------
(***************************************************************************)
(* The life of the program (src/main.go) around its scanner: the scan      *)
(* goroutine, signals, the end of the capture, and the order in which the  *)
(* scanner and the probe are closed.  A second signal ends the process at  *)
(* once; the program may be started again with the cache file it has left. *)
(***************************************************************************)
EXTENDS Scanner

CONSTANTS
  ScanLoop,  \* main's scan goroutine; other callers are other users of the package
  HasProbe,  \* there is a capture, and so a probe
  MaxScans,  \* bound: scans
  MaxStarts  \* bound: starts of the program

ASSUME MainAssumption ==
  /\ ScanLoop \in Callers /\ HasProbe \in BOOLEAN /\ MaxScans \in Nat /\ MaxStarts \in Nat

VARIABLES
  main,      \* "down", "refused" (by New), "run" (the capture, or the wait for the scans),
             \*   "stop", "workers" (in Close), "scan" (<-scanDone) or "exit"
  ctx,       \* ctx is cancelled
  first,     \* the scan goroutine has not scanned what is cached yet
  scans,
  starts

mainVars == <<main, ctx, first, scans, starts>>
vars == <<scanVars, mainVars>>

Init ==
  /\ ScannerInit
  /\ main = "down" /\ ctx = FALSE
  /\ first = TRUE /\ scans = 0 /\ starts = 0

Running == main \in {"run", "stop", "workers", "scan"}

New ==
  /\ main = "down" /\ starts < MaxStarts
  /\ Start
  /\ main' = "run" /\ ctx' = FALSE
  /\ starts' = starts + 1 /\ first' = TRUE /\ UNCHANGED scans

Refused ==
  /\ main = "down" /\ saved.is = "torn"
  /\ main' = "refused"
  /\ UNCHANGED <<scanVars, ctx, first, scans, starts>>

(* The scan goroutine scans what is cached first; what it scans then is a    *)
(* matter of flags.                                                          *)
Begin(c) ==
  /\ Running /\ scans < MaxScans /\ scans' = scans + 1
  /\ first' = (first /\ c # ScanLoop)
  /\ \/ \E o \in Opts : ScanCached(c, o)
     \/ /\ c = ScanLoop => ~first
        /\ \E o \in Opts : ScanDir(c, o) \/ \E n \in Names : Scan(c, o, n)
     \/ c # ScanLoop /\ PurgeOffsets(c)
  /\ UNCHANGED <<main, ctx, starts>>

EndScans ==
  /\ Running /\ (first => scans = MaxScans) /\ EndCaller(ScanLoop)
  /\ UNCHANGED mainVars

Cancel ==                            \* a signal, or the end of stdin
  /\ main = "run" /\ ~ctx /\ ctx' = TRUE
  /\ UNCHANGED <<scanVars, main, first, scans, starts>>

ForceExit ==                         \* a second signal
  /\ Running /\ ctx
  /\ Vanish /\ main' = "down"
  /\ UNCHANGED <<ctx, first, scans, starts>>

(* The capture returns when ctx is cancelled or it fails; without a probe    *)
(* the scans are waited for.  Then stop() is called.                         *)
CaptureEnds ==
  /\ main = "run"
  /\ ~HasProbe => ctx \/ cpc[ScanLoop] = "ended"
  /\ main' = "stop" /\ ctx' = TRUE
  /\ UNCHANGED <<scanVars, first, scans, starts>>

CloseBegin ==
  /\ main = "stop" /\ CloseScanner /\ main' = "workers"
  /\ UNCHANGED <<ctx, first, scans, starts>>

CloseEnd ==
  /\ main = "workers" /\ WorkersGone /\ main' = "scan"
  /\ UNCHANGED <<scanVars, ctx, first, scans, starts>>

ScanJoined ==                        \* then the probe is closed
  /\ main = "scan" /\ cpc[ScanLoop] = "ended" /\ main' = "exit"
  /\ UNCHANGED <<scanVars, ctx, first, scans, starts>>

Finished == main \in {"exit", "refused", "down"} /\ UNCHANGED vars

Shutdown == CaptureEnds \/ CloseBegin \/ CloseEnd \/ ScanJoined
Stopped == CaptureEnds /\ ctx        \* the capture owes a return to a cancelled ctx only
WorkerStep(w) == Running /\ Worker(w) /\ UNCHANGED mainVars
CallerStep(c) == Running /\ Caller(c) /\ UNCHANGED mainVars

Next ==
  \/ New \/ Refused \/ Cancel \/ ForceExit \/ EndScans \/ Shutdown \/ Finished
  \/ \E w \in Workers : WorkerStep(w)
  \/ \E c \in Callers : Begin(c) \/ CallerStep(c)
  \/ Running /\ Environment /\ UNCHANGED mainVars

Spec == Init /\ [][Next]_vars

(* Go runs every goroutine that can run.  Nobody owes a scan, a signal or a  *)
(* change of a file; the scan goroutine ends when it has nothing to scan.    *)
FairSpec ==
  /\ Spec
  /\ WF_vars(Stopped \/ CloseBegin \/ CloseEnd \/ ScanJoined)
  /\ \A w \in Workers : WF_vars(WorkerStep(w))
  /\ \A c \in Callers : WF_vars(CallerStep(c))
  /\ WF_vars(Begin(ScanLoop) \/ EndScans)

-----------------------------------------------------------------------------
(* Every variable has its type; a key identifies at most one task in flight. *)
Metas == 0 .. MaxVersion
Keys == [name : Names \cup {"none"}, meta : Metas, opts : [force : BOOLEAN, revalidate : BOOLEAN]]
Entries == [meta : Metas, hash : Hashes \cup {"none"}]
TypeOK ==
  /\ disk \in [Files -> Metas] /\ last \in [Files -> Metas]
  /\ file \in [Names -> Entries] /\ offsets \subseteq Hashes
  /\ saved.is \in {"absent", "torn", "whole"} /\ saved.len \in Nat
  /\ \A i \in TaskIds : task[i].key \in Keys /\ task[i].closes \in Nat
  /\ queue \in Seq(TaskIds) /\ inflight \subseteq TaskIds /\ closed \in BOOLEAN
  /\ \A w \in Workers : wtask[w] \in TaskIds \/ wpc[w] \in {"idle", "gone"}
  /\ \A i, j \in inflight : task[i].key = task[j].key => i = j

(* Every task has one owner: the queue, one worker, or nobody once it is     *)
(* closed; its done channel is closed once (twice is a panic), and what a    *)
(* caller waits for is closed or will be, also when Close drops the queue.   *)
TaskDiscipline ==
  /\ \A i \in TaskIds : task[i].closes <= 1
  /\ \A j, k \in DOMAIN queue : queue[j] = queue[k] => j = k
  /\ \A v, w \in Workers : wtask[v] \in TaskIds /\ wtask[v] = wtask[w] => v = w
  /\ \A c \in Callers : \A i \in scan[c].await :
       task[i].closes = 1 \/ i \in Queued \/ \E w \in Workers : wtask[w] = i

(* What the cache says of a file is of the version it names: the hash, and   *)
(* so the offsets, of an entry are those of the file that has the entry's    *)
(* size and time.  The one exception is a file replaced between the open and *)
(* the stat of a worker, which the code does not notice (the second stat of  *)
(* processTask is "just in case it changed").                                *)
CacheSound ==
  \A n \in Names \ raced : \A e \in {file[n], saved.cache.file[n]} \ {NoEntry} :
    e.hash = Content[n][e.meta]

(* A result is of the file as it was when the scan asked for it or later,    *)
(* never of an older version, with the same exception.                       *)
ResultFresh ==
  \A w \in Workers : wpc[w] = "result" /\ KeyOf(w).name \notin raced =>
    local[w].hash \in {Content[KeyOf(w).name][v] : v \in KeyOf(w).meta .. last[Outer[KeyOf(w).name]]}

(* What ScanInfo says: a scan counts every name it has listed once, unless   *)
(* the scanner is closed, whether it is scanned for it or for another scan,  *)
(* and what it counts is cached, stale or new, or an error; so are offsets.  *)
InfoAddsUp ==
  \A c \in Callers : cpc[c] = "marshal" =>
    LET i == scan[c].info IN
      /\ i["total"] <= scan[c].listed /\ (~closed => i["total"] = scan[c].listed)
      /\ i["cached"] + i["stale"] + i["new"] <= i["total"]
      /\ i["total"] <= i["cached"] + i["stale"] + i["new"] + i["error"]
      /\ i["ototal"] = i["ocached"] + i["onew"] + i["oerror"]

(* The cache file is complete unless it is being written, two saves have     *)
(* overlapped or the process was killed in one; and when no scan is under    *)
(* way it is what the cache is, so that nothing that was found is lost.      *)
CacheFileSound ==
  /\ saved.is = "torn" => mishap # {} \/ \E c \in Callers : cpc[c] = "write"
  /\ Running /\ mishap = {} /\ (\A c \in Callers : cpc[c] \in {"idle", "ended"}) =>
       saved = Whole([file |-> file, offsets |-> offsets])

(* A cancelled program exits: Close never waits for a worker that waits, and *)
(* the scan goroutine never waits for a task that Close has dropped.         *)
MainExits == Running /\ ctx ~> ~Running
=============================================================================
