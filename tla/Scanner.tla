------------------------------ MODULE Scanner ------------------------------
(***************************************************************************)
(* scanner (src/internal/scanner): a pool of workers that looks for        *)
(* BoringSSL in library files, and a cache of what it has found, kept in   *)
(* memory under mu and saved to a file after every scan.                   *)
(*                                                                         *)
(* An action is what a goroutine does between two points where another, or *)
(* the file system, can interfere: a lock, a stat, an open, a write, a     *)
(* channel.  A version of a file stands for its size and modification      *)
(* time; files are replaced as a whole (by rename), so that an open one    *)
(* keeps its content.  Main (in Main.tla) starts and closes the scanner    *)
(* and says which scans are run.                                           *)
(***************************************************************************)
EXTENDS Integers, Sequences, FiniteSets

CONSTANTS
  Names,       \* the libraries, "archive!/entry" included
  Files,       \* the files of the file system
  Outer,       \* Outer[n]: the file that n is, or is an entry of
  Hashes,      \* the contents of libraries
  Content,     \* Content[n][v]: the content of n in version v of its file
  Kind,        \* Kind[h]: what h may turn out to be: "boring", "linked" (to it),
               \*   "other" (neither), "obscure" (the analysis fails) or "broken"
  Opts,        \* the ScanOptions used, [force, revalidate : BOOLEAN]
  Callers,     \* goroutines that call Scan* and PurgeOffsets
  Workers,     \* Options.Workers
  TaskIds,     \* bound: tasks that exist at a time
  MaxVersion   \* bound: versions of a file

Versions == 1 .. MaxVersion

ASSUME ScannerAssumption ==
  /\ IsFiniteSet(Names) /\ "none" \notin Names /\ IsFiniteSet(Files) /\ IsFiniteSet(Hashes)
  /\ Outer \in [Names -> Files] /\ Content \in [Names -> [Versions -> Hashes]]
  /\ Kind \in [Hashes -> SUBSET {"boring", "linked", "other", "obscure", "broken"}]
  /\ Opts \subseteq [force : BOOLEAN, revalidate : BOOLEAN]
  /\ IsFiniteSet(TaskIds) /\ TaskIds \subseteq Nat \ {0} /\ Workers # {} /\ MaxVersion \in Nat \ {0}

VARIABLES
  (* the file system *)
  disk,      \* disk[f]: the version of f, or 0 if it does not exist
  last,      \* last[f]: the latest version that f has had
  saved,     \* the cache file: "absent", "torn" or "whole", its length, and its cache
  (* the cache, and the tasks: s.mu *)
  file,      \* cache.File, with NoEntry for the absent ones
  offsets,   \* the keys of cache.Offsets
  task,      \* the tasks, NoTask for a free id
  queue, inflight, closed,
  (* the workers *)
  wpc,       \* "idle" (at the cond), "open", "stat", "hash", "analyze", "result",
             \*   "retire", "close" or "gone"
  wtask,     \* the task it has taken
  local,     \* its variables
  (* the callers *)
  cpc,       \* "idle", "submit", "enqueue", "forget", "marshal", "truncate", "write"
             \*   or "ended"
  scan,      \* scan[c]: the scan it runs
  image,     \* image[c]: what it has marshalled
  (* history *)
  raced,     \* names whose file was replaced between the open and the stat of a worker
  mishap     \* how a cache file has been spoilt: "overlap" (of two saves), "kill"

diskVars  == <<disk, last>>
cacheVars == <<file, offsets>>
poolVars  == <<task, queue, inflight, closed>>
workVars  == <<wpc, wtask, local>>
callVars  == <<cpc, scan, image>>
scanVars  == <<diskVars, saved, cacheVars, poolVars, workVars, callVars, raced, mishap>>

NoEntry == [meta |-> 0, hash |-> "none"]
NoKey   == [name |-> "none", meta |-> 0, opts |-> [force |-> FALSE, revalidate |-> FALSE]]
NoLocal == [had |-> NoEntry, known |-> FALSE, opened |-> 0, meta |-> 0, hash |-> "none"]
NoTaken == 0

(* ScanInfo: the counters of files and, with an o, those of ELF offsets.      *)
Counters == {"total", "cached", "stale", "new", "error",
             "ototal", "ocached", "onew", "oerror"}
NoInfo == [k \in Counters |-> 0]
Add(a, b) == [k \in Counters |-> a[k] + b[k]]
Bump(i, ks) == [k \in Counters |-> IF k \in ks THEN i[k] + 1 ELSE i[k]]

NoTask == [key |-> NoKey, closes |-> 0, info |-> NoInfo]
NoScan == [cached |-> FALSE, opts |-> NoKey.opts, todo |-> {}, key |-> NoKey,
           await |-> {}, listed |-> 0, info |-> NoInfo]

EmptyCache == [file |-> [n \in Names |-> NoEntry], offsets |-> {}]
Absent == [is |-> "absent", len |-> 0, cache |-> EmptyCache]
Torn(len) == [is |-> "torn", len |-> len, cache |-> EmptyCache]
Length(c) == Cardinality({n \in Names : c.file[n] # NoEntry}) + Cardinality(c.offsets)
Whole(c) == [is |-> "whole", len |-> Length(c), cache |-> c]

(* Before New: the cache file is missing, or what an earlier run has left    *)
(* that knew the first version of the files.                                 *)
Left ==
  LET known == {n \in Names : Kind[Content[n][1]] = {"boring"}} IN
  [file |-> [n \in Names |-> IF n \in known THEN [meta |-> 1, hash |-> Content[n][1]] ELSE NoEntry],
   offsets |-> {Content[n][1] : n \in known}]

ScannerInit ==
  /\ disk = [f \in Files |-> 1] /\ last = disk
  /\ saved \in {Absent, Whole(Left)}
  /\ file = EmptyCache.file /\ offsets = {}
  /\ task = [i \in TaskIds |-> NoTask] /\ queue = <<>> /\ inflight = {} /\ closed = FALSE
  /\ wpc = [w \in Workers |-> "gone"] /\ wtask = [w \in Workers |-> NoTaken]
  /\ local = [w \in Workers |-> NoLocal]
  /\ cpc = [c \in Callers |-> "ended"] /\ scan = [c \in Callers |-> NoScan]
  /\ image = [c \in Callers |-> EmptyCache]
  /\ raced = {} /\ mishap = {}

-----------------------------------------------------------------------------
(* The file system. *)

InWindow(f) ==                       \* names that a worker has opened and not looked at
  {task[wtask[w]].key.name : w \in {v \in Workers :
     wpc[v] = "stat" /\ Outer[task[wtask[v]].key.name] = f}}

Replace(f) ==
  /\ last[f] < MaxVersion
  /\ last' = [last EXCEPT ![f] = @ + 1] /\ disk' = [disk EXCEPT ![f] = last[f] + 1]
  /\ raced' = raced \cup InWindow(f)
  /\ UNCHANGED <<saved, cacheVars, poolVars, workVars, callVars, mishap>>

Remove(f) ==
  /\ disk[f] # 0 /\ last[f] < MaxVersion
  /\ last' = [last EXCEPT ![f] = @ + 1] /\ disk' = [disk EXCEPT ![f] = 0]
  /\ raced' = raced \cup InWindow(f)
  /\ UNCHANGED <<saved, cacheVars, poolVars, workVars, callVars, mishap>>

-----------------------------------------------------------------------------
(* New, Close, and the end of the process.                                   *)

LoadFresh ==                         \* no cache file: an empty one is written
  /\ saved.is = "absent"
  /\ saved' = Whole(EmptyCache)
  /\ file' = EmptyCache.file /\ offsets' = {}

Load ==
  /\ saved.is = "whole"
  /\ file' = saved.cache.file /\ offsets' = saved.cache.offsets
  /\ UNCHANGED saved

Start ==
  /\ LoadFresh \/ Load
  /\ wpc' = [w \in Workers |-> "idle"] /\ cpc' = [c \in Callers |-> "idle"]
  /\ UNCHANGED <<diskVars, poolVars, wtask, local, scan, image, raced, mishap>>

CloseScanner ==
  /\ closed' = TRUE
  /\ UNCHANGED <<diskVars, saved, cacheVars, task, queue, inflight, workVars, callVars,
                 raced, mishap>>

WorkersGone == \A w \in Workers : wpc[w] = "gone"

Vanish ==                            \* what is in memory is lost
  /\ file' = EmptyCache.file /\ offsets' = {}
  /\ task' = [i \in TaskIds |-> NoTask] /\ queue' = <<>> /\ inflight' = {} /\ closed' = FALSE
  /\ wpc' = [w \in Workers |-> "gone"] /\ wtask' = [w \in Workers |-> NoTaken]
  /\ local' = [w \in Workers |-> NoLocal]
  /\ cpc' = [c \in Callers |-> "ended"] /\ scan' = [c \in Callers |-> NoScan]
  /\ image' = [c \in Callers |-> EmptyCache]
  /\ mishap' = mishap \cup (IF \E c \in Callers : cpc[c] = "write" THEN {"kill"} ELSE {})
  /\ UNCHANGED <<diskVars, saved, raced>>

-----------------------------------------------------------------------------
(* A scan: list, submit, wait, save.                                         *)

CallerOnly == UNCHANGED <<diskVars, workVars, raced>>

BeginScan(c, cached, o, names, i) ==
  /\ cpc[c] = "idle" /\ cpc' = [cpc EXCEPT ![c] = "submit"]
  /\ scan' = [scan EXCEPT ![c] = [NoScan EXCEPT !.cached = cached, !.opts = o, !.todo = names,
                !.listed = Cardinality(names) + i["total"], !.info = i]]
  /\ UNCHANGED <<saved, cacheVars, poolVars, image, mishap>> /\ CallerOnly

ScanCached(c, o) ==                  \* the names are copied under mu
  ~o.force /\ BeginScan(c, TRUE, o, {n \in Names : file[n] # NoEntry}, NoInfo)

Scan(c, o, n) == BeginScan(c, FALSE, o, {n}, NoInfo)

(* A directory or an archive: it lists what it has when it comes to it, or   *)
(* cannot be listed.                                                         *)
ScanDir(c, o) ==
  \/ \E found \in SUBSET Names : BeginScan(c, FALSE, o, found, NoInfo)
  \/ BeginScan(c, FALSE, o, {}, Bump(NoInfo, {"total", "error"}))

PurgeOffsets(c) ==
  /\ cpc[c] = "idle" /\ cpc' = [cpc EXCEPT ![c] = "marshal"]
  /\ offsets' = {}
  /\ UNCHANGED <<saved, file, poolVars, scan, image, mishap>> /\ CallerOnly

Submitting(c, n) == cpc[c] = "submit" /\ n \in scan[c].todo

(* submitTask's stat of the file, before the lock. *)
StatName(c, n) ==
  LET v == disk[Outer[n]] IN
  /\ Submitting(c, n) /\ v # 0
  /\ cpc' = [cpc EXCEPT ![c] = "enqueue"]
  /\ scan' = [scan EXCEPT ![c].todo = @ \ {n},
                          ![c].key = [name |-> n, meta |-> v, opts |-> scan[c].opts]]
  /\ UNCHANGED <<saved, cacheVars, poolVars, image, mishap>> /\ CallerOnly

StatGoneQuietly(c, n) ==             \* mutant: the name is not counted
  LET cached == scan[c].cached IN
  /\ Submitting(c, n) /\ disk[Outer[n]] = 0
  /\ cpc' = [cpc EXCEPT ![c] = IF cached THEN "forget" ELSE "submit"]
  /\ scan' = [scan EXCEPT ![c].todo = @ \ {n}, ![c].key = [NoKey EXCEPT !.name = n]]
  /\ UNCHANGED <<saved, cacheVars, poolVars, image, mishap>> /\ CallerOnly

(* scanCached takes a file that does not exist out of the cache, without     *)
(* counting an error.                                                        *)
StatGone(c, n) ==
  LET cached == scan[c].cached IN
  /\ Submitting(c, n) /\ disk[Outer[n]] = 0
  /\ cpc' = [cpc EXCEPT ![c] = IF cached THEN "forget" ELSE "submit"]
  /\ scan' = [scan EXCEPT ![c].todo = @ \ {n}, ![c].key = [NoKey EXCEPT !.name = n],
                ![c].info = Bump(@, {"total", IF cached THEN "stale" ELSE "error"})]
  /\ UNCHANGED <<saved, cacheVars, poolVars, image, mishap>> /\ CallerOnly

StatFails(c, n) ==
  /\ Submitting(c, n)
  /\ scan' = [scan EXCEPT ![c].todo = @ \ {n},
                ![c].info = Bump(@, {"total", "error"} \cup
                                    (IF scan[c].cached THEN {"stale"} ELSE {}))]
  /\ UNCHANGED <<saved, cacheVars, poolVars, cpc, image, mishap>> /\ CallerOnly

Forget(c) ==
  /\ cpc[c] = "forget" /\ cpc' = [cpc EXCEPT ![c] = "submit"]
  /\ file' = [file EXCEPT ![scan[c].key.name] = NoEntry]
  /\ scan' = [scan EXCEPT ![c].key = NoKey]
  /\ UNCHANGED <<saved, offsets, poolVars, image, mishap>> /\ CallerOnly

Free(i) == task[i] = NoTask
Waiting(i) == {c \in Callers : i \in scan[c].await}

AddTask(c) ==
  \E i \in TaskIds :
    /\ Free(i) /\ \A j \in TaskIds : Free(j) => i <= j
    /\ task' = [task EXCEPT ![i] = [NoTask EXCEPT !.key = scan[c].key]]
    /\ queue' = Append(queue, i) /\ inflight' = inflight \cup {i}
    /\ scan' = [scan EXCEPT ![c].key = NoKey, ![c].await = @ \cup {i}]
    /\ UNCHANGED closed

Enqueuing(c) ==
  /\ cpc[c] = "enqueue" /\ cpc' = [cpc EXCEPT ![c] = "submit"]
  /\ UNCHANGED <<saved, cacheVars, image, mishap>> /\ CallerOnly

NotSubmitted(c) == scan' = [scan EXCEPT ![c].key = NoKey] /\ UNCHANGED poolVars

EnqueueAlways(c) ==                  \* mutant: tasks in flight are not looked up
  Enqueuing(c) /\ IF closed THEN NotSubmitted(c) ELSE AddTask(c)

(* submitTask under mu: nothing if the scanner is closed, the task of the    *)
(* same key if there is one, or a new task.                                  *)
SameKey(c) == {i \in inflight : task[i].key = scan[c].key}
Share(c) ==
  /\ scan' = [scan EXCEPT ![c].key = NoKey, ![c].await = @ \cup SameKey(c)]
  /\ UNCHANGED poolVars

EnqueueLate(c) ==                    \* mutant: also when the scanner is closed
  Enqueuing(c) /\ IF SameKey(c) # {} THEN Share(c) ELSE AddTask(c)

Enqueue(c) ==
  /\ Enqueuing(c)
  /\ \/ closed /\ NotSubmitted(c)
     \/ ~closed /\ SameKey(c) # {} /\ Share(c)
     \/ ~closed /\ SameKey(c) = {} /\ AddTask(c)

(* The loops that wait for the tasks and add up their counters; in which     *)
(* order is the same to the sum.  A task that nobody waits for any more is   *)
(* garbage.                                                                  *)
Await(c, i) ==
  /\ cpc[c] = "submit" /\ scan[c].todo = {}
  /\ i \in scan[c].await /\ task[i].closes > 0
  /\ scan' = [scan EXCEPT ![c].await = @ \ {i}, ![c].info = Add(@, task[i].info)]
  /\ task' = [task EXCEPT ![i] = IF Waiting(i) = {c} THEN NoTask ELSE @]
  /\ UNCHANGED <<saved, cacheVars, queue, inflight, closed, cpc, image, mishap>> /\ CallerOnly

AwaitEnds(c) ==
  /\ cpc[c] = "submit" /\ scan[c].todo = {} /\ scan[c].await = {}
  /\ cpc' = [cpc EXCEPT ![c] = "marshal"]
  /\ UNCHANGED <<saved, cacheVars, poolVars, scan, image, mishap>> /\ CallerOnly

Saving(c) == cpc[c] \in {"truncate", "write"}
Overlap(c) == IF \E d \in Callers \ {c} : Saving(d) THEN {"overlap"} ELSE {}

MarshalOpen(c) ==                    \* mutant: a closed scanner is not saved
  /\ cpc[c] = "marshal" /\ cpc' = [cpc EXCEPT ![c] = IF closed THEN "idle" ELSE "truncate"]
  /\ image' = [image EXCEPT ![c] = IF closed THEN @ ELSE [file |-> file, offsets |-> offsets]]
  /\ mishap' = mishap \cup Overlap(c)
  /\ scan' = [scan EXCEPT ![c] = NoScan]
  /\ UNCHANGED <<saved, cacheVars, poolVars>> /\ CallerOnly

Marshal(c) ==                        \* saveCache under mu
  /\ cpc[c] = "marshal" /\ cpc' = [cpc EXCEPT ![c] = "truncate"]
  /\ image' = [image EXCEPT ![c] = [file |-> file, offsets |-> offsets]]
  /\ mishap' = mishap \cup Overlap(c)
  /\ scan' = [scan EXCEPT ![c] = NoScan]
  /\ UNCHANGED <<saved, cacheVars, poolVars>> /\ CallerOnly

Truncate(c) ==                       \* os.WriteFile, from here on without a lock
  /\ cpc[c] = "truncate" /\ cpc' = [cpc EXCEPT ![c] = "write"]
  /\ saved' = Torn(0)
  /\ UNCHANGED <<cacheVars, poolVars, scan, image, mishap>> /\ CallerOnly

(* What another save has written in the meantime is overwritten from its     *)
(* start only.                                                               *)
Write(c) ==
  /\ cpc[c] = "write" /\ cpc' = [cpc EXCEPT ![c] = "idle"]
  /\ saved' = IF saved.len > Length(image[c]) THEN Torn(saved.len)
              ELSE Whole(image[c])
  /\ image' = [image EXCEPT ![c] = EmptyCache]
  /\ UNCHANGED <<cacheVars, poolVars, scan, mishap>> /\ CallerOnly

EndCaller(c) ==
  /\ cpc[c] = "idle" /\ cpc' = [cpc EXCEPT ![c] = "ended"]
  /\ UNCHANGED <<saved, cacheVars, poolVars, scan, image, mishap>> /\ CallerOnly

-----------------------------------------------------------------------------
(* The workers. *)

WorkerOnly == UNCHANGED <<diskVars, saved, closed, callVars, raced, mishap>>
KeyOf(w) == task[wtask[w]].key
GoTo(w, at) == wpc' = [wpc EXCEPT ![w] = at]
Count(w, ks) == task' = [task EXCEPT ![wtask[w]].info = Bump(@, ks)]
ClosedTasks(is) == [i \in TaskIds |-> IF i \in is THEN [task[i] EXCEPT !.closes = @ + 1]
                                                  ELSE task[i]]
OtherKeys(is) == {i \in inflight : \A j \in is : task[i].key # task[j].key}
Queued == {queue[k] : k \in DOMAIN queue}

(* A worker pops a task, and processTask looks up what is known under mu.    *)
(* Idle workers are alike: it does not matter which of them wakes up.        *)
Take(w) ==
  /\ ~closed /\ queue # <<>>
  /\ \E v \in Workers : wpc[v] = "idle"
  /\ w = CHOOSE v \in Workers : wpc[v] = "idle"
  /\ LET i == Head(queue)  e == file[task[i].key.name] IN
       /\ wtask' = [wtask EXCEPT ![w] = i]
       /\ local' = [local EXCEPT ![w] = [NoLocal EXCEPT !.had = e,
                      !.known = e # NoEntry /\ e.hash \in offsets]]
       /\ task' = [task EXCEPT ![i].info = Bump(@, {"total"})]
  /\ queue' = Tail(queue) /\ GoTo(w, "open")
  /\ UNCHANGED <<cacheVars, inflight>> /\ WorkerOnly

LeaveQueue(w) ==                     \* mutant: the tasks that are dropped are not closed
  /\ wpc[w] = "idle" /\ closed
  /\ inflight' = OtherKeys(Queued) /\ queue' = <<>>
  /\ GoTo(w, "gone")
  /\ UNCHANGED <<cacheVars, task, wtask, local>> /\ WorkerOnly

Leave(w) ==
  /\ wpc[w] = "idle" /\ closed
  /\ inflight' = OtherKeys(Queued) /\ task' = ClosedTasks(Queued) /\ queue' = <<>>
  /\ GoTo(w, "gone")
  /\ UNCHANGED <<cacheVars, wtask, local>> /\ WorkerOnly

ByMeta(w) ==                         \* bumpFile
  IF local[w].had = NoEntry THEN "new"
  ELSE IF local[w].had.meta # KeyOf(w).meta THEN "stale" ELSE "cached"

ByHash(w, h) ==                      \* bumpFileWithHash
  IF local[w].had = NoEntry THEN "new" ELSE IF local[w].had.hash # h THEN "stale" ELSE "cached"

Open(w) ==
  LET n == KeyOf(w).name  v == disk[Outer[n]] IN
  /\ wpc[w] = "open"
  /\ \/ /\ v # 0 => "broken" \in Kind[Content[n][v]]    \* it is gone, or no ELF file
        /\ Count(w, {ByMeta(w), "error"}) /\ GoTo(w, "retire") /\ UNCHANGED local
     \/ /\ v # 0 /\ local' = [local EXCEPT ![w].opened = v] /\ GoTo(w, "stat")
        /\ UNCHANGED task
  /\ UNCHANGED <<cacheVars, queue, inflight, wtask>> /\ WorkerOnly

(* The second stat; the cached offset is used if the metadata of the request *)
(* is that of the cache.                                                     *)
KnownName(w) ==                      \* mutant: the metadata is not compared
  ~KeyOf(w).opts.revalidate /\ local[w].known

UpToDate(w) ==
  /\ ~KeyOf(w).opts.revalidate /\ local[w].known
  /\ local[w].had.meta = KeyOf(w).meta

Stat(w) ==
  LET v == disk[Outer[KeyOf(w).name]] IN
  /\ wpc[w] = "stat"
  /\ IF UpToDate(w)
     THEN /\ Count(w, {"cached", "ototal", "ocached"})
          /\ local' = [local EXCEPT ![w].hash = local[w].had.hash] /\ GoTo(w, "result")
     ELSE /\ local' = [local EXCEPT ![w].meta = IF v = 0 THEN KeyOf(w).meta ELSE v]
          /\ GoTo(w, "hash") /\ UNCHANGED task
  /\ UNCHANGED <<cacheVars, queue, inflight, wtask>> /\ WorkerOnly

(* Hashing, and the checks before the analysis; both may fail.               *)
Hash(w) ==
  LET n == KeyOf(w).name  h == Content[n][local[w].opened]  had == local[w].had IN
  /\ wpc[w] = "hash"
  /\ \/ /\ "broken" \in Kind[h]
        /\ \E by \in {ByMeta(w), ByHash(w, h)} : Count(w, {by, "error"})
        /\ GoTo(w, "retire") /\ UNCHANGED <<file, local>>
     \/ /\ "other" \in Kind[h] \/ ("linked" \in Kind[h] /\ ~KeyOf(w).opts.force)
        /\ Count(w, {ByHash(w, h)}) /\ GoTo(w, "retire")
        /\ file' = [file EXCEPT ![n] = IF had # NoEntry THEN NoEntry ELSE @]
        /\ UNCHANGED local
     \/ /\ {"boring", "obscure"} \cap Kind[h] # {} \/ ("linked" \in Kind[h] /\ KeyOf(w).opts.force)
        /\ Count(w, {"ototal"}) /\ GoTo(w, "analyze")
        /\ local' = [local EXCEPT ![w].hash = h, ![w].known = h \in offsets]
        /\ UNCHANGED file
  /\ UNCHANGED <<offsets, queue, inflight, wtask>> /\ WorkerOnly

(* The analysis, unless the offsets are known.  Closing the scanner cancels   *)
(* its context, which may end the analysis with an error.                    *)
AnalysisFails(w) ==
  /\ wpc[w] = "analyze" /\ ~local[w].known
  /\ closed \/ "obscure" \in Kind[local[w].hash]
  /\ Count(w, {ByHash(w, local[w].hash), "error", "oerror"}) /\ GoTo(w, "retire")
  /\ UNCHANGED <<cacheVars, queue, inflight, wtask, local>> /\ WorkerOnly

Committed(w, meta) ==
  /\ wpc[w] = "analyze"
  /\ local[w].known \/ Kind[local[w].hash] \cap {"boring", "linked"} # {}
  /\ LET h == local[w].hash IN
       /\ Count(w, {ByHash(w, h), IF local[w].known THEN "ocached" ELSE "onew"})
       /\ offsets' = offsets \cup {h}
       /\ file' = [file EXCEPT ![KeyOf(w).name] = [meta |-> meta, hash |-> h]]
  /\ GoTo(w, "result")
  /\ UNCHANGED <<queue, inflight, wtask, local>> /\ WorkerOnly

CommitRequested(w) ==                \* mutant: the metadata of the request is stored
  Committed(w, KeyOf(w).meta)

Commit(w) == Committed(w, local[w].meta)

(* OnResult has returned, if there is a result. *)
Retire(w) ==
  /\ wpc[w] \in {"result", "retire"} /\ GoTo(w, "close")
  /\ inflight' = OtherKeys({wtask[w]})
  /\ UNCHANGED <<cacheVars, task, queue, wtask, local>> /\ WorkerOnly

CloseDone(w) ==
  /\ wpc[w] = "close" /\ GoTo(w, "idle")
  /\ task' = ClosedTasks({wtask[w]})
  /\ wtask' = [wtask EXCEPT ![w] = NoTaken] /\ local' = [local EXCEPT ![w] = NoLocal]
  /\ UNCHANGED <<cacheVars, queue, inflight>> /\ WorkerOnly

Worker(w) ==
  \/ Take(w) \/ Leave(w) \/ Open(w) \/ Stat(w) \/ Hash(w) \/ AnalysisFails(w) \/ Commit(w)
  \/ Retire(w) \/ CloseDone(w)

Caller(c) ==                         \* a scan that has begun
  \/ \E n \in Names : StatName(c, n) \/ StatGone(c, n) \/ StatFails(c, n)
  \/ (\E i \in TaskIds : Await(c, i))
  \/ Forget(c) \/ Enqueue(c) \/ AwaitEnds(c) \/ Marshal(c) \/ Truncate(c) \/ Write(c)

Environment == \E f \in Files : Replace(f) \/ Remove(f)
=============================================================================
