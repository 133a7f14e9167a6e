----------------------------- MODULE MainProofs -----------------------------
(* Theorems about the scanner in Main, for every number of workers, callers, *)
(* libraries and tasks, and every bound.                                     *)
EXTENDS Main, TLAPS, SequenceTheorems

(* TaskDiscipline, strengthened: who owns a task, that an owned task is not  *)
(* closed yet, and that an id which is owned or waited for is not free.      *)

Named(i) == task[i].key.name # "none"
HeldBy(w) == wpc[w] \notin {"idle", "gone"}
Owned(i) == i \in Queued \/ \E w \in Workers : wtask[w] = i

IsScan(s) ==
  s = [f \in {"cached", "opts", "todo", "key", "await", "listed", "info"} |-> s[f]]
IsTask(t) == t = [f \in {"key", "closes", "info"} |-> t[f]]

WillClose(i) == Named(i) /\ (task[i].closes = 1 \/ Owned(i))

Shapes ==
  /\ task = [i \in TaskIds |-> task[i]]
  /\ \A i \in TaskIds :
       /\ IsTask(task[i])
       /\ task[i].closes \in Nat
  /\ queue \in Seq(TaskIds) /\ inflight \subseteq TaskIds
  /\ wpc = [w \in Workers |-> wpc[w]] /\ wtask \in [Workers -> TaskIds \cup {NoTaken}]
  /\ cpc = [c \in Callers |-> cpc[c]] /\ scan = [c \in Callers |-> scan[c]]
  /\ \A c \in Callers :
       /\ IsScan(scan[c])
       /\ scan[c].await \subseteq TaskIds /\ scan[c].todo \subseteq Names

OneOwner ==
  /\ \A j, k \in DOMAIN queue : queue[j] = queue[k] => j = k
  /\ \A v, w \in Workers : wtask[v] \in TaskIds /\ wtask[v] = wtask[w] => v = w
  /\ \A w \in Workers : wtask[w] \notin Queued
  /\ \A w \in Workers : wtask[w] \in TaskIds <=> HeldBy(w)
  /\ main = "down" => \A w \in Workers : wtask[w] = NoTaken

NotClosed ==
  /\ \A i \in TaskIds : task[i].closes <= 1
  /\ \A i \in TaskIds : Owned(i) => task[i].closes = 0 /\ Named(i)
  /\ \A i \in inflight : Owned(i)
  /\ \A w \in Workers : wpc[w] = "close" => wtask[w] \notin inflight

Awaited ==
  /\ \A c \in Callers : cpc[c] = "enqueue" => scan[c].key.name # "none"
  /\ \A c \in Callers : \A i \in scan[c].await : WillClose(i)

PoolInv == Shapes /\ OneOwner /\ NotClosed /\ Awaited

(* A pool without a worker, and without a task. *)
NoPool ==
  /\ task = [i \in TaskIds |-> NoTask] /\ queue = <<>> /\ inflight = {}
  /\ wpc = [w \in Workers |-> "gone"] /\ wtask = [w \in Workers |-> NoTaken]
  /\ cpc = [c \in Callers |-> "ended"] /\ scan = [c \in Callers |-> NoScan]

LEMMA EmptyPool == NoPool => PoolInv
<1> SUFFICES ASSUME NoPool PROVE PoolInv
  OBVIOUS
<1> USE ScannerAssumption DEF NoPool
<1>1. Queued = {} /\ queue = <<>>
  BY DEF Queued
<1>2. Shapes
  <2>1. /\ task = [i \in TaskIds |-> task[i]]
        /\ \A i \in TaskIds : task[i] = NoTask
    OBVIOUS
  <2>2. /\ scan = [c \in Callers |-> scan[c]] /\ cpc = [c \in Callers |-> cpc[c]]
        /\ \A c \in Callers : scan[c] = NoScan
    OBVIOUS
  <2>3. /\ wpc = [w \in Workers |-> wpc[w]] /\ wtask \in [Workers -> TaskIds \cup {NoTaken}]
        /\ queue \in Seq(TaskIds) /\ inflight = {}
    BY <1>1
  <2> HIDE DEF NoPool
  <2> QED BY <2>1, <2>2, <2>3 DEF Shapes, NoTask, NoScan, IsScan, IsTask
<1>3. OneOwner
  BY <1>1 DEF OneOwner, HeldBy, NoTaken
<1>4. \A i \in TaskIds : ~Owned(i) /\ task[i].closes = 0
  BY <1>1 DEF Owned, NoTask, NoTaken
<1>5. NotClosed /\ Awaited
  BY <1>4 DEF NotClosed, Awaited, NoScan
<1> QED BY <1>2, <1>3, <1>5 DEF PoolInv

LEMMA InitPool == Init => PoolInv
BY EmptyPool DEF Init, ScannerInit, NoPool

-----------------------------------------------------------------------------
(* Steps that leave the pool alone and make no caller wait for more.         *)
LEMMA FramePool ==
  ASSUME PoolInv, UNCHANGED <<task, queue, inflight, wpc, wtask>>, main' = "down" => main = "down",
         cpc' = [c \in Callers |-> cpc'[c]], scan' = [c \in Callers |-> scan'[c]],
         \A c \in Callers :
           /\ IsScan(scan'[c])
           /\ scan'[c].await \subseteq {i \in TaskIds : WillClose(i)} /\ scan'[c].todo \subseteq Names
           /\ cpc'[c] = "enqueue" => scan'[c].key.name # "none"
  PROVE  PoolInv'
<1>1. Queued' = Queued /\ \A i : (Owned(i)' <=> Owned(i)) /\ (Named(i)' <=> Named(i))
  BY DEF Queued, Owned, Named, PoolInv
<1>2. Shapes'
  BY DEF PoolInv, Shapes
<1>3. OneOwner'
  BY <1>1 DEF PoolInv, OneOwner, HeldBy
<1>4. NotClosed'
  BY <1>1 DEF PoolInv, NotClosed
<1>5. Awaited'
  BY <1>1 DEF PoolInv, Awaited, WillClose
<1> QED BY <1>2, <1>3, <1>4, <1>5 DEF PoolInv

LEMMA ScanFrame ==
  ASSUME PoolInv, NEW c \in Callers, UNCHANGED <<main, task, queue, inflight, wpc, wtask>>,
         NEW pc, cpc' = [cpc EXCEPT ![c] = pc],
         NEW s, scan' = [scan EXCEPT ![c] = s],
         IsScan(s),
         s.await \subseteq {i \in TaskIds : WillClose(i)}, s.todo \subseteq Names,
         pc = "enqueue" => s.key.name # "none"
  PROVE  PoolInv'
<1>1. \A d \in Callers : scan'[d] = (IF d = c THEN s ELSE scan[d])
                        /\ cpc'[d] = (IF d = c THEN pc ELSE cpc[d])
  BY DEF PoolInv, Shapes
<1>2. cpc' = [d \in Callers |-> cpc'[d]] /\ scan' = [d \in Callers |-> scan'[d]]
  BY DEF PoolInv, Shapes
<1>3. \A d \in Callers :
           /\ IsScan(scan'[d])
           /\ scan'[d].await \subseteq {i \in TaskIds : WillClose(i)} /\ scan'[d].todo \subseteq Names
           /\ cpc'[d] = "enqueue" => scan'[d].key.name # "none"
  BY <1>1 DEF PoolInv, Shapes, Awaited
<1> QED BY <1>2, <1>3, FramePool

LEMMA ScanFrameTo ==
  ASSUME PoolInv, NEW c \in Callers, UNCHANGED <<main, task, queue, inflight, wpc, wtask>>,
         NEW pc \in {"submit", "marshal", "truncate"}, cpc' = [cpc EXCEPT ![c] = pc],
         NEW s, scan' = [scan EXCEPT ![c] = s], IsScan(s),
         s.await \subseteq scan[c].await, s.todo \subseteq Names
  PROVE  PoolInv'
<1>1. pc # "enqueue"
  OBVIOUS
<1>2. scan[c].await \subseteq {i \in TaskIds : WillClose(i)}
  BY DEF PoolInv, Shapes, Awaited
<1> QED BY <1>1, <1>2, ScanFrame

LEMMA CallerFrame ==
  ASSUME PoolInv, NEW c \in Callers, UNCHANGED mainVars,
         \/ \E n \in Names : StatName(c, n) \/ StatGone(c, n) \/ StatFails(c, n)
         \/ Forget(c) \/ AwaitEnds(c) \/ Marshal(c) \/ Truncate(c) \/ Write(c) \/ EndCaller(c)
         \/ (Enqueuing(c) /\ NotSubmitted(c))
  PROVE  PoolInv'
<1> USE DEF mainVars, CallerOnly, poolVars, workVars
<1>0. IsScan(scan[c])
      /\ scan[c].todo \subseteq Names /\ c \in DOMAIN scan /\ c \in DOMAIN cpc
      /\ scan = [scan EXCEPT ![c] = scan[c]] /\ cpc = [cpc EXCEPT ![c] = cpc[c]]
  BY DEF PoolInv, Shapes
<1>8. scan[c].await \subseteq {i \in TaskIds : WillClose(i)}
  BY DEF PoolInv, Shapes, Awaited
<1>1. ASSUME NEW n \in Names, StatName(c, n) PROVE PoolInv'
  <2> DEFINE s == [scan[c] EXCEPT !.todo = @ \ {n},
                     !.key = [name |-> n, meta |-> disk[Outer[n]], opts |-> scan[c].opts]]
  <2>1. scan' = [scan EXCEPT ![c] = s] /\ cpc' = [cpc EXCEPT ![c] = "enqueue"]
    BY <1>0, <1>1 DEF StatName
  <2>2. IsScan(s)
        /\ s.await = scan[c].await /\ s.todo \subseteq Names /\ s.key.name = n
    BY <1>0 DEF IsScan
  <2>3. UNCHANGED <<main, task, queue, inflight, wpc, wtask>> /\ n # "none"
    BY <1>1, ScannerAssumption DEF StatName
  <2> HIDE DEF s
  <2> QED BY <1>8, <2>1, <2>2, <2>3, ScanFrame
<1>2. ASSUME NEW n \in Names, StatGone(c, n) PROVE PoolInv'
  <2> DEFINE pc == IF scan[c].cached THEN "forget" ELSE "submit"
             s == [scan[c] EXCEPT !.todo = @ \ {n}, !.key = [NoKey EXCEPT !.name = n],
                     !.info = Bump(@, {"total", IF scan[c].cached THEN "stale" ELSE "error"})]
  <2>1. scan' = [scan EXCEPT ![c] = s] /\ cpc' = [cpc EXCEPT ![c] = pc]
    BY <1>0, <1>2 DEF StatGone
  <2>2. IsScan(s)
        /\ s.await = scan[c].await /\ s.todo \subseteq Names
    BY <1>0 DEF IsScan
  <2>3. UNCHANGED <<main, task, queue, inflight, wpc, wtask>> /\ pc # "enqueue"
    BY <1>2 DEF StatGone
  <2> HIDE DEF s, pc
  <2> QED BY <1>8, <2>1, <2>2, <2>3, ScanFrame
<1>3. ASSUME NEW n \in Names, StatFails(c, n) PROVE PoolInv'
  <2> DEFINE s == [scan[c] EXCEPT !.todo = @ \ {n},
                     !.info = Bump(@, {"total", "error"} \cup
                                        (IF scan[c].cached THEN {"stale"} ELSE {}))]
  <2>1. scan' = [scan EXCEPT ![c] = s] /\ cpc' = [cpc EXCEPT ![c] = "submit"]
    BY <1>0, <1>3 DEF StatFails, Submitting
  <2>2. IsScan(s)
        /\ s.await = scan[c].await /\ s.todo \subseteq Names
    BY <1>0 DEF IsScan
  <2>3. UNCHANGED <<main, task, queue, inflight, wpc, wtask>>
    BY <1>3 DEF StatFails
  <2> HIDE DEF s
  <2> QED BY <2>1, <2>2, <2>3, ScanFrameTo
<1>4. CASE Forget(c) \/ (Enqueuing(c) /\ NotSubmitted(c))
  <2> DEFINE s == [scan[c] EXCEPT !.key = NoKey]
  <2>1. scan' = [scan EXCEPT ![c] = s] /\ cpc' = [cpc EXCEPT ![c] = "submit"]
    BY <1>0, <1>4 DEF Forget, Enqueuing, NotSubmitted
  <2>2. IsScan(s)
        /\ s.await = scan[c].await /\ s.todo = scan[c].todo
    BY <1>0 DEF IsScan
  <2>3. UNCHANGED <<main, task, queue, inflight, wpc, wtask>>
    BY <1>4 DEF Forget, Enqueuing, NotSubmitted
  <2> HIDE DEF s
  <2> QED BY <1>0, <2>1, <2>2, <2>3, ScanFrameTo
<1>5. CASE Marshal(c)
  <2>1. /\ IsScan(NoScan)
        /\ NoScan.await = {} /\ NoScan.todo = {}
    BY DEF NoScan, IsScan
  <2>2. scan' = [scan EXCEPT ![c] = NoScan] /\ cpc' = [cpc EXCEPT ![c] = "truncate"]
        /\ UNCHANGED <<main, task, queue, inflight, wpc, wtask>>
    BY <1>5 DEF Marshal
  <2> QED BY <2>1, <2>2, ScanFrameTo
<1>6. ASSUME NEW pc, pc # "enqueue", cpc' = [cpc EXCEPT ![c] = pc], UNCHANGED <<scan, poolVars, workVars>>
      PROVE  PoolInv'
  <2> DEFINE s == scan[c]
  <2>1. IsScan(s)
        /\ s.await \subseteq scan[c].await /\ s.todo \subseteq Names
        /\ scan' = [scan EXCEPT ![c] = s]
    BY <1>0, <1>6
  <2> HIDE DEF s
  <2> QED BY <1>6, <1>8, <2>1, ScanFrame
<1>7. CASE AwaitEnds(c) \/ Truncate(c) \/ Write(c) \/ EndCaller(c)
  BY <1>6, <1>7 DEF AwaitEnds, Truncate, Write, EndCaller
<1> QED BY <1>1, <1>2, <1>3, <1>4, <1>5, <1>7

LEMMA BeginPool == PoolInv /\ (\E c \in Callers : Begin(c)) => PoolInv'
<1> SUFFICES ASSUME PoolInv, NEW c \in Callers, Begin(c) PROVE PoolInv'
  OBVIOUS
<1> USE DEF CallerOnly, poolVars, workVars
<1>0. UNCHANGED main
  BY DEF Begin
<1>1. ASSUME NEW cached, NEW o, NEW names \in SUBSET Names, NEW i, BeginScan(c, cached, o, names, i)
      PROVE  PoolInv'
  <2> DEFINE s == [NoScan EXCEPT !.cached = cached, !.opts = o, !.todo = names,
                     !.listed = Cardinality(names) + i["total"], !.info = i]
  <2>1. scan' = [scan EXCEPT ![c] = s] /\ cpc' = [cpc EXCEPT ![c] = "submit"]
        /\ UNCHANGED <<main, task, queue, inflight, wpc, wtask>>
    BY <1>0, <1>1 DEF BeginScan
  <2>2. IsScan(s)
        /\ s.await = {} /\ s.todo = names
    BY DEF NoScan, IsScan
  <2> HIDE DEF s
  <2> QED BY <2>1, <2>2, ScanFrameTo
<1>2. ASSUME NEW o, ScanCached(c, o) PROVE PoolInv'
  BY <1>1, <1>2 DEF ScanCached
<1>3. ASSUME NEW o, NEW n \in Names, Scan(c, o, n) PROVE PoolInv'
  <2>1. {n} \in SUBSET Names
    OBVIOUS
  <2> QED BY <1>1, <1>3, <2>1 DEF Scan
<1>4. ASSUME NEW o, ScanDir(c, o) PROVE PoolInv'
  <2>1. {} \in SUBSET Names
    OBVIOUS
  <2> QED BY <1>1, <1>4, <2>1 DEF ScanDir
<1>5. CASE PurgeOffsets(c)
  <2> DEFINE s == scan[c]
  <2>1. IsScan(s)
        /\ s.await \subseteq scan[c].await /\ s.todo \subseteq Names
        /\ scan' = [scan EXCEPT ![c] = s]
    BY <1>5 DEF PurgeOffsets, PoolInv, Shapes
  <2>2. cpc' = [cpc EXCEPT ![c] = "marshal"] /\ UNCHANGED <<main, task, queue, inflight, wpc, wtask>>
    BY <1>0, <1>5 DEF PurgeOffsets
  <2> HIDE DEF s
  <2> QED BY <2>1, <2>2, ScanFrameTo
<1> QED BY <1>2, <1>3, <1>4, <1>5 DEF Begin

-----------------------------------------------------------------------------
(* Submitting a task, and the end of the wait for one.                       *)

LEMMA SharePool ==
  ASSUME PoolInv, NEW c \in Callers, UNCHANGED main, Enqueuing(c), Share(c)
  PROVE  PoolInv'
<1> USE DEF CallerOnly, poolVars, workVars
<1> DEFINE s == [scan[c] EXCEPT !.key = NoKey, !.await = @ \cup SameKey(c)]
<1>1. scan' = [scan EXCEPT ![c] = s] /\ cpc' = [cpc EXCEPT ![c] = "submit"]
      /\ UNCHANGED <<main, task, queue, inflight, wpc, wtask>>
  BY DEF Enqueuing, Share, PoolInv, Shapes
<1>2. SameKey(c) \subseteq {i \in TaskIds : WillClose(i)}
  BY DEF SameKey, PoolInv, Shapes, NotClosed, WillClose
<1>3. scan[c].await \subseteq {i \in TaskIds : WillClose(i)} /\ scan[c].todo \subseteq Names
      /\ IsScan(scan[c])
  BY DEF PoolInv, Shapes, Awaited
<1>4. IsScan(s) /\ s.await = scan[c].await \cup SameKey(c) /\ s.todo = scan[c].todo
  BY <1>3 DEF IsScan
<1> DEFINE pc == "submit"
<1>5. pc # "enqueue"
  OBVIOUS
<1> HIDE DEF s, pc
<1>6. cpc' = [cpc EXCEPT ![c] = pc]
  BY <1>1 DEF pc
<1> QED BY <1>1, <1>2, <1>3, <1>4, <1>5, <1>6, ScanFrame

(* A task that is added is a free one, that nobody waits for. *)
LEMMA AddedToPool ==
  ASSUME PoolInv, NEW c \in Callers, Enqueuing(c), AddTask(c)
  PROVE  \E i \in TaskIds :
           /\ task'[i].key = scan[c].key /\ task'[i].closes = 0 /\ task'[i].info = NoInfo
           /\ IsTask(task'[i]) /\ scan[c].key.name # "none"
           /\ \A j \in TaskIds : j # i => task'[j] = task[j]
           /\ task' = [j \in TaskIds |-> task'[j]]
           /\ cpc[c] = "enqueue" /\ cpc' = [cpc EXCEPT ![c] = "submit"]
           /\ UNCHANGED <<wpc, wtask, closed>>
           /\ inflight' = inflight \cup {i}
           /\ scan' = [scan EXCEPT ![c].key = NoKey, ![c].await = @ \cup {i}]
           /\ ~Named(i) /\ ~Owned(i) /\ i # NoTaken /\ \A d \in Callers : i \notin scan[d].await
           /\ queue' \in Seq(TaskIds) /\ DOMAIN queue = 1 .. Len(queue)
           /\ DOMAIN queue' = 1 .. Len(queue) + 1 /\ Len(queue) \in Nat
           /\ queue'[Len(queue) + 1] = i /\ \A k \in 1 .. Len(queue) : queue'[k] = queue[k]
           /\ Queued' = Queued \cup {i} /\ i \notin Queued
<1>1. PICK i \in TaskIds :
        /\ Free(i)
        /\ task' = [task EXCEPT ![i] = [NoTask EXCEPT !.key = scan[c].key]]
        /\ queue' = Append(queue, i) /\ inflight' = inflight \cup {i}
        /\ scan' = [scan EXCEPT ![c].key = NoKey, ![c].await = @ \cup {i}]
        /\ UNCHANGED closed
  BY DEF AddTask
<1>2. cpc[c] = "enqueue" /\ cpc' = [cpc EXCEPT ![c] = "submit"] /\ UNCHANGED <<wpc, wtask>>
  BY DEF Enqueuing, CallerOnly, workVars
<1>3. /\ task'[i].key = scan[c].key /\ task'[i].closes = 0 /\ task'[i].info = NoInfo
      /\ IsTask(task'[i])
      /\ scan[c].key.name # "none"
      /\ \A j \in TaskIds : j # i => task'[j] = task[j]
      /\ task' = [j \in TaskIds |-> task'[j]]
  BY <1>1, <1>2 DEF PoolInv, Shapes, Awaited, NoTask, IsTask
<1>4. ~Named(i) /\ ~Owned(i) /\ i # NoTaken /\ \A d \in Callers : i \notin scan[d].await
  <2>1. task[i].key.name = "none"
    BY <1>1 DEF Free, NoTask, NoKey
  <2> QED BY <2>1, ScannerAssumption DEF Named, PoolInv, NotClosed, Awaited, WillClose, NoTaken
<1>5. /\ queue' \in Seq(TaskIds) /\ DOMAIN queue = 1 .. Len(queue)
      /\ DOMAIN queue' = 1 .. Len(queue) + 1 /\ Len(queue) \in Nat
      /\ queue'[Len(queue) + 1] = i /\ \A k \in 1 .. Len(queue) : queue'[k] = queue[k]
  BY <1>1, AppendProperties, LenProperties DEF PoolInv, Shapes
<1>6. Queued' = Queued \cup {i} /\ i \notin Queued
  BY <1>4, <1>5 DEF Queued, Owned
<1> QED BY <1>1, <1>2, <1>3, <1>4, <1>5, <1>6

LEMMA AddPool ==
  ASSUME PoolInv, NEW c \in Callers, UNCHANGED main, Enqueuing(c), AddTask(c)
  PROVE  PoolInv'
<1>0. PICK i \in TaskIds :
        /\ task'[i].key = scan[c].key /\ task'[i].closes = 0 /\ task'[i].info = NoInfo
        /\ IsTask(task'[i]) /\ scan[c].key.name # "none"
        /\ \A j \in TaskIds : j # i => task'[j] = task[j]
        /\ task' = [j \in TaskIds |-> task'[j]]
        /\ cpc[c] = "enqueue" /\ cpc' = [cpc EXCEPT ![c] = "submit"]
        /\ UNCHANGED <<wpc, wtask, closed>>
        /\ inflight' = inflight \cup {i}
        /\ scan' = [scan EXCEPT ![c].key = NoKey, ![c].await = @ \cup {i}]
        /\ ~Named(i) /\ ~Owned(i) /\ i # NoTaken /\ \A d \in Callers : i \notin scan[d].await
        /\ queue' \in Seq(TaskIds) /\ DOMAIN queue = 1 .. Len(queue)
        /\ DOMAIN queue' = 1 .. Len(queue) + 1 /\ Len(queue) \in Nat
        /\ queue'[Len(queue) + 1] = i /\ \A k \in 1 .. Len(queue) : queue'[k] = queue[k]
        /\ Queued' = Queued \cup {i} /\ i \notin Queued
  BY AddedToPool
<1>1. inflight' = inflight \cup {i} /\ scan' = [scan EXCEPT ![c].key = NoKey, ![c].await = @ \cup {i}]
  BY <1>0
<1>2. cpc[c] = "enqueue" /\ cpc' = [cpc EXCEPT ![c] = "submit"] /\ UNCHANGED <<wpc, wtask>>
  BY <1>0
<1>3. /\ task'[i].key = scan[c].key /\ task'[i].closes = 0 /\ IsTask(task'[i])
      /\ scan[c].key.name # "none"
      /\ \A j \in TaskIds : j # i => task'[j] = task[j]
      /\ task' = [j \in TaskIds |-> task'[j]]
  BY <1>0
<1>4. ~Named(i) /\ ~Owned(i) /\ i # NoTaken /\ \A d \in Callers : i \notin scan[d].await
  BY <1>0
<1>5. /\ queue' \in Seq(TaskIds) /\ DOMAIN queue = 1 .. Len(queue)
      /\ DOMAIN queue' = 1 .. Len(queue) + 1 /\ Len(queue) \in Nat
      /\ queue'[Len(queue) + 1] = i /\ \A k \in 1 .. Len(queue) : queue'[k] = queue[k]
  BY <1>0
<1>6. Queued' = Queued \cup {i} /\ i \notin Queued
  BY <1>0
<1>7. /\ \A j \in TaskIds : Owned(j)' <=> Owned(j) \/ j = i
      /\ \A j \in TaskIds : j # i => (Named(j)' <=> Named(j))
      /\ Named(i)'
  BY <1>2, <1>3, <1>6 DEF Owned, Named
<1>8. \A d \in Callers :
        /\ IsScan(scan'[d]) /\ scan'[d].todo \subseteq Names
        /\ scan'[d].await = IF d = c THEN scan[d].await \cup {i} ELSE scan[d].await
        /\ d # c => scan'[d] = scan[d]
  <2> DEFINE s == [scan[c] EXCEPT !.key = NoKey, !.await = @ \cup {i}]
  <2>1. scan = [d \in Callers |-> scan[d]] /\ IsScan(scan[c]) /\ scan[c].todo \subseteq Names
    BY DEF PoolInv, Shapes
  <2>2. scan' = [scan EXCEPT ![c] = s]
    BY <1>1, <2>1
  <2>3. IsScan(s) /\ s.await = scan[c].await \cup {i} /\ s.todo = scan[c].todo
    BY <2>1 DEF IsScan
  <2> HIDE DEF s
  <2>4. \A d \in Callers : scan'[d] = IF d = c THEN s ELSE scan[d]
    BY <2>1, <2>2
  <2> QED BY <2>1, <2>3, <2>4 DEF PoolInv, Shapes
<1>9. Shapes'
  <2>1. \A j \in TaskIds : IsTask(task'[j]) /\ task'[j].closes \in Nat
    BY <1>3 DEF PoolInv, Shapes
  <2>2. cpc' = [d \in Callers |-> cpc'[d]] /\ scan' = [d \in Callers |-> scan'[d]]
        /\ inflight' \subseteq TaskIds /\ wpc = [w \in Workers |-> wpc[w]]
        /\ wtask \in [Workers -> TaskIds \cup {NoTaken}]
    BY <1>1, <1>2 DEF PoolInv, Shapes
  <2>3. \A d \in Callers : scan'[d].await \subseteq TaskIds
    BY <1>8 DEF PoolInv, Shapes
  <2> QED BY <1>2, <1>3, <1>5, <1>8, <2>1, <2>2, <2>3 DEF Shapes
<1>10. OneOwner'
  <2>1. \A j, k \in DOMAIN queue' : queue'[j] = queue'[k] => j = k
    <3>1. \A k \in 1 .. Len(queue) : queue[k] # i
      BY <1>5, <1>6 DEF Queued
    <3>2. \A j, k \in 1 .. Len(queue) : queue[j] = queue[k] => j = k
      BY <1>5 DEF PoolInv, OneOwner
    <3> QED BY <1>5, <3>1, <3>2
  <2>2. \A w \in Workers : wtask[w] # i
    BY <1>4 DEF Owned
  <2> QED BY <1>2, <1>6, <2>1, <2>2 DEF PoolInv, OneOwner, HeldBy
<1>11. NotClosed'
  <2>1. ASSUME NEW j \in TaskIds
        PROVE  task'[j].closes <= 1 /\ (Owned(j)' => task'[j].closes = 0 /\ Named(j)')
    BY <1>3, <1>7, <2>1 DEF PoolInv, NotClosed
  <2>2. \A j \in inflight' : j \in TaskIds /\ Owned(j)'
    BY <1>1, <1>7 DEF PoolInv, Shapes, NotClosed
  <2>3. \A w \in Workers : wpc'[w] = "close" => wtask'[w] \notin inflight'
    BY <1>1, <1>2, <1>4 DEF PoolInv, NotClosed, Owned
  <2> QED BY <2>1, <2>2, <2>3 DEF NotClosed
<1>12. Awaited'
  <2>1. \A d \in Callers : cpc'[d] = "enqueue" => d # c /\ cpc[d] = "enqueue"
    BY <1>2 DEF PoolInv, Shapes
  <2>2. ASSUME NEW d \in Callers, NEW j \in scan'[d].await PROVE WillClose(j)'
    <3>1. CASE j = i
      BY <1>7, <3>1 DEF WillClose
    <3>2. CASE j # i
      <4>1. j \in scan[d].await /\ j \in TaskIds
        BY <1>8, <3>2 DEF PoolInv, Shapes
      <4> QED BY <1>3, <1>7, <3>2, <4>1 DEF PoolInv, Awaited, WillClose
    <3> QED BY <3>1, <3>2
  <2> QED BY <1>8, <2>1, <2>2 DEF PoolInv, Awaited
<1> QED BY <1>9, <1>10, <1>11, <1>12 DEF PoolInv

Awaits(c) == \E i \in TaskIds : Await(c, i)

LEMMA AwaitPool ==
  ASSUME PoolInv, NEW c \in Callers, NEW i \in TaskIds, UNCHANGED main, Await(c, i)
  PROVE  PoolInv'
<1>1. /\ UNCHANGED <<queue, inflight, wpc, wtask, cpc>>
      /\ task' = [task EXCEPT ![i] = IF Waiting(i) = {c} THEN NoTask ELSE @]
      /\ cpc[c] = "submit" /\ task[i].closes > 0
  BY DEF Await, CallerOnly, workVars
<1>2. PICK info : scan' = [scan EXCEPT ![c].await = @ \ {i}, ![c].info = info]
  BY DEF Await
<1>3. \A d \in Callers :
        /\ IsScan(scan'[d]) /\ scan'[d].todo \subseteq Names
        /\ scan'[d].await = IF d = c THEN scan[d].await \ {i} ELSE scan[d].await
        /\ d # c => scan'[d] = scan[d]
  <2> DEFINE s == [scan[c] EXCEPT !.await = @ \ {i}, !.info = info]
  <2>1. scan = [d \in Callers |-> scan[d]] /\ IsScan(scan[c]) /\ scan[c].todo \subseteq Names
    BY DEF PoolInv, Shapes
  <2>2. scan' = [scan EXCEPT ![c] = s]
    BY <1>2, <2>1
  <2>3. IsScan(s) /\ s.await = scan[c].await \ {i} /\ s.todo = scan[c].todo
    BY <2>1 DEF IsScan
  <2> HIDE DEF s
  <2>4. \A d \in Callers : scan'[d] = IF d = c THEN s ELSE scan[d]
    BY <2>1, <2>2
  <2> QED BY <2>1, <2>3, <2>4 DEF PoolInv, Shapes
<1>4. ~Owned(i) /\ (Waiting(i) = {c} => \A d \in Callers : i \notin scan'[d].await)
  <2>1. Owned(i) => task[i].closes = 0
    BY DEF PoolInv, NotClosed
  <2>2. Waiting(i) = {c} => \A d \in Callers : i \in scan[d].await => d = c
    BY DEF Waiting
  <2>3. \A d \in Callers : scan'[d].await = IF d = c THEN scan[d].await \ {i} ELSE scan[d].await
    BY <1>3
  <2>4. ASSUME NEW d \in Callers, i \in scan'[d].await PROVE d # c /\ i \in scan[d].await
    BY <2>3, <2>4
  <2>5. ~Owned(i)
    BY <1>1, <2>1
  <2> QED BY <2>2, <2>4, <2>5
<1>5. \A j \in TaskIds : /\ (Owned(j)' <=> Owned(j))
                         /\ task'[j] = task[j] \/ (j = i /\ task'[j] = NoTask /\ Waiting(i) = {c})
  BY <1>1 DEF Owned, Queued, PoolInv, Shapes
<1>6. Shapes'
  <2>1. IsTask(NoTask) /\ NoTask.closes = 0
    BY DEF IsTask, NoTask
  <2>2. \A j \in TaskIds : IsTask(task'[j]) /\ task'[j].closes \in Nat
    BY <1>5, <2>1 DEF PoolInv, Shapes
  <2>3. task' = [j \in TaskIds |-> task'[j]] /\ scan' = [d \in Callers |-> scan'[d]]
    BY <1>1, <1>2 DEF PoolInv, Shapes
  <2>4. \A d \in Callers : scan'[d].await \subseteq TaskIds
    BY <1>3 DEF PoolInv, Shapes
  <2> QED BY <1>1, <1>3, <2>2, <2>3, <2>4 DEF PoolInv, Shapes
<1>7. OneOwner'
  BY <1>1 DEF PoolInv, OneOwner, HeldBy, Queued
<1>8. NotClosed'
  <2>1. NoTask.closes = 0
    BY DEF NoTask
  <2> QED BY <1>1, <1>4, <1>5, <2>1 DEF PoolInv, Shapes, NotClosed, Named
<1>9. Awaited'
  <2>1. \A d \in Callers : cpc'[d] = "enqueue" => d # c /\ cpc[d] = "enqueue"
    BY <1>1
  <2>2. ASSUME NEW d \in Callers, NEW j \in scan'[d].await PROVE WillClose(j)'
    <3>1. j \in scan[d].await /\ j \in TaskIds
      BY <1>3, <2>2 DEF PoolInv, Shapes
    <3>2. task'[j] = task[j]
      BY <1>4, <1>5, <2>2, <3>1
    <3> QED BY <1>5, <3>1, <3>2 DEF PoolInv, Awaited, WillClose, Named
  <2> QED BY <1>3, <2>1, <2>2 DEF PoolInv, Awaited
<1> QED BY <1>6, <1>7, <1>8, <1>9 DEF PoolInv

-----------------------------------------------------------------------------
(* The workers. *)

(* A worker that keeps its task: Count, and what has no effect on the pool.  *)
LEMMA WorkFrame ==
  ASSUME PoolInv, NEW w \in Workers, HeldBy(w),
         UNCHANGED <<main, queue, cpc, scan, wtask>>,
         inflight' \subseteq inflight, NEW pc, pc \notin {"idle", "gone"},
         pc = "close" => wtask[w] \notin inflight',
         wpc' = [wpc EXCEPT ![w] = pc],
         task' = [i \in TaskIds |-> task'[i]],
         \A i \in TaskIds : /\ IsTask(task'[i]) /\ task'[i].key = task[i].key
                            /\ task'[i].closes = task[i].closes
  PROVE  PoolInv'
<1>1. \A v \in Workers : wpc'[v] = IF v = w THEN pc ELSE wpc[v]
  BY DEF PoolInv, Shapes
<1>2. \A i \in TaskIds : (Owned(i)' <=> Owned(i)) /\ (Named(i)' <=> Named(i))
  BY DEF Owned, Named, Queued
<1>3. \A v \in Workers : HeldBy(v)' <=> HeldBy(v)
  BY <1>1 DEF HeldBy
<1>4. Shapes'
  BY DEF PoolInv, Shapes
<1>5. OneOwner'
  BY <1>3 DEF PoolInv, OneOwner, Queued
<1>6. NotClosed'
  <2>1. \A i \in inflight' : i \in TaskIds /\ Owned(i)'
    BY <1>2 DEF PoolInv, Shapes, NotClosed
  <2>2. \A i \in TaskIds : task'[i].closes <= 1 /\ (Owned(i)' => task'[i].closes = 0 /\ Named(i)')
    BY <1>2 DEF PoolInv, NotClosed
  <2>3. \A v \in Workers : wpc'[v] = "close" => wtask'[v] \notin inflight'
    BY <1>1 DEF PoolInv, NotClosed
  <2> QED BY <2>1, <2>2, <2>3 DEF NotClosed
<1>7. Awaited'
  <2>1. \A d \in Callers : \A i \in scan[d].await : i \in TaskIds /\ WillClose(i)'
    BY <1>2 DEF PoolInv, Shapes, Awaited, WillClose
  <2> QED BY <2>1 DEF PoolInv, Awaited
<1> QED BY <1>4, <1>5, <1>6, <1>7 DEF PoolInv

(* What Count changes of the tasks. *)
LEMMA CountTask ==
  ASSUME PoolInv, NEW i \in TaskIds, NEW ks, task' = [task EXCEPT ![i].info = Bump(@, ks)]
  PROVE  /\ task' = [j \in TaskIds |-> task'[j]]
         /\ \A j \in TaskIds : /\ IsTask(task'[j]) /\ task'[j].key = task[j].key
                               /\ task'[j].closes = task[j].closes
  BY DEF PoolInv, Shapes, IsTask

LEMMA SameTask ==
  ASSUME PoolInv, UNCHANGED task
  PROVE  /\ task' = [j \in TaskIds |-> task'[j]]
         /\ \A j \in TaskIds : /\ IsTask(task'[j]) /\ task'[j].key = task[j].key
                               /\ task'[j].closes = task[j].closes
  BY DEF PoolInv, Shapes

LEMMA WorkPool ==
  ASSUME PoolInv, NEW w \in Workers, UNCHANGED main,
         Open(w) \/ Stat(w) \/ Hash(w) \/ AnalysisFails(w) \/ Commit(w)
  PROVE  PoolInv'
<1>1. HeldBy(w) /\ wtask[w] \in TaskIds
  BY DEF Open, Stat, Hash, AnalysisFails, Commit, Committed, HeldBy, PoolInv, OneOwner
<1>2. UNCHANGED <<queue, inflight, wtask, cpc, scan>>
  BY DEF Open, Stat, Hash, AnalysisFails, Commit, Committed, WorkerOnly, callVars
<1>3. \E pc \in {"retire", "stat", "result", "hash", "analyze"} : wpc' = [wpc EXCEPT ![w] = pc]
  BY DEF Open, Stat, Hash, AnalysisFails, Commit, Committed, GoTo
<1>4. UNCHANGED task \/ \E ks : Count(w, ks)
  BY DEF Open, Stat, Hash, AnalysisFails, Commit, Committed
<1>5. /\ task' = [j \in TaskIds |-> task'[j]]
      /\ \A j \in TaskIds : /\ IsTask(task'[j]) /\ task'[j].key = task[j].key
                            /\ task'[j].closes = task[j].closes
  BY <1>1, <1>4, CountTask, SameTask DEF Count
<1> QED BY <1>1, <1>2, <1>3, <1>5, WorkFrame

LEMMA RetirePool ==
  ASSUME PoolInv, NEW w \in Workers, UNCHANGED main, Retire(w)
  PROVE  PoolInv'
<1>1. HeldBy(w) /\ UNCHANGED <<queue, wtask, task, cpc, scan>>
  BY DEF Retire, HeldBy, WorkerOnly, callVars
<1>2. inflight' \subseteq inflight /\ wtask[w] \notin inflight'
  BY DEF Retire, OtherKeys
<1>3. wpc' = [wpc EXCEPT ![w] = "close"]
  BY DEF Retire, GoTo
<1> QED BY <1>1, <1>2, <1>3, SameTask, WorkFrame

(* What a worker takes is in the queue, once. *)
LEMMA TakeHead ==
  ASSUME PoolInv, NEW w \in Workers, Take(w)
  PROVE  \E i \in TaskIds :
           /\ wpc[w] = "idle" /\ wpc' = [wpc EXCEPT ![w] = "open"]
           /\ wtask' = [wtask EXCEPT ![w] = i]
           /\ UNCHANGED <<inflight, closed, cpc, scan>>
           /\ task' = [task EXCEPT ![i].info = Bump(@, {"total"})]
           /\ Len(queue) \in Nat \ {0} /\ DOMAIN queue = 1 .. Len(queue)
           /\ queue' \in Seq(TaskIds) /\ Len(queue') = Len(queue) - 1
           /\ DOMAIN queue' = 1 .. Len(queue')
           /\ \A k \in 1 .. Len(queue') : queue'[k] = queue[k + 1]
           /\ Queued = Queued' \cup {i} /\ i \notin Queued'
<1> DEFINE i == Head(queue)
<1>1. wpc[w] = "idle" /\ queue # <<>> /\ queue' = Tail(queue)
      /\ wpc' = [wpc EXCEPT ![w] = "open"] /\ wtask' = [wtask EXCEPT ![w] = i]
      /\ UNCHANGED <<inflight, closed, cpc, scan>>
      /\ task' = [task EXCEPT ![i].info = Bump(@, {"total"})]
  BY DEF Take, GoTo, WorkerOnly, callVars
<1>2. /\ Len(queue) \in Nat \ {0} /\ DOMAIN queue = 1 .. Len(queue)
      /\ i = queue[1] /\ i \in TaskIds
      /\ queue' \in Seq(TaskIds) /\ Len(queue') = Len(queue) - 1
      /\ DOMAIN queue' = 1 .. Len(queue')
      /\ \A k \in 1 .. Len(queue') : queue'[k] = queue[k + 1]
  BY <1>1, HeadTailProperties, LenProperties DEF PoolInv, Shapes
<1> HIDE DEF i
<1>3. Queued = Queued' \cup {i} /\ i \notin Queued'
  <2>1. \A j, k \in 1 .. Len(queue) : queue[j] = queue[k] => j = k
    BY <1>2 DEF PoolInv, OneOwner
  <2>2. i \notin Queued'
    BY <1>2, <2>1 DEF Queued
  <2>3. \A k \in 1 .. Len(queue) : k = 1 \/ (k - 1 \in 1 .. Len(queue') /\ queue[k] = queue'[k - 1])
    BY <1>2
  <2>4. Queued \subseteq Queued' \cup {i}
    BY <1>2, <2>3 DEF Queued
  <2>5. \A k \in 1 .. Len(queue') : k + 1 \in 1 .. Len(queue)
    BY <1>2
  <2>6. Queued' \cup {i} \subseteq Queued
    BY <1>2, <2>5 DEF Queued
  <2> QED BY <2>2, <2>4, <2>6
<1> QED BY <1>1, <1>2, <1>3

LEMMA TakePool ==
  ASSUME PoolInv, NEW w \in Workers, main # "down", UNCHANGED main, Take(w)
  PROVE  PoolInv'
<1>1. PICK i \in TaskIds :
        /\ wpc[w] = "idle" /\ wpc' = [wpc EXCEPT ![w] = "open"]
        /\ wtask' = [wtask EXCEPT ![w] = i]
        /\ UNCHANGED <<inflight, cpc, scan>>
        /\ task' = [task EXCEPT ![i].info = Bump(@, {"total"})]
        /\ Len(queue) \in Nat \ {0} /\ DOMAIN queue = 1 .. Len(queue)
        /\ queue' \in Seq(TaskIds) /\ Len(queue') = Len(queue) - 1
        /\ DOMAIN queue' = 1 .. Len(queue')
        /\ \A k \in 1 .. Len(queue') : queue'[k] = queue[k + 1]
        /\ Queued = Queued' \cup {i} /\ i \notin Queued'
  BY TakeHead
<1>2. /\ Len(queue) \in Nat \ {0} /\ DOMAIN queue = 1 .. Len(queue)
      /\ queue' \in Seq(TaskIds) /\ Len(queue') = Len(queue) - 1
      /\ DOMAIN queue' = 1 .. Len(queue')
      /\ \A k \in 1 .. Len(queue') : queue'[k] = queue[k + 1]
  BY <1>1
<1>3. /\ task' = [j \in TaskIds |-> task'[j]]
      /\ \A j \in TaskIds : /\ IsTask(task'[j]) /\ task'[j].key = task[j].key
                            /\ task'[j].closes = task[j].closes
  BY <1>1, CountTask
<1>4. Queued = Queued' \cup {i} /\ i \notin Queued'
  BY <1>1
<1>5. wtask[w] = NoTaken /\ i # NoTaken /\ \A v \in Workers : wtask[v] # i
  BY <1>1, <1>2, <1>4, ScannerAssumption DEF PoolInv, Shapes, OneOwner, HeldBy, NoTaken
<1>6. \A v \in Workers : /\ wtask'[v] = (IF v = w THEN i ELSE wtask[v])
                         /\ wpc'[v] = (IF v = w THEN "open" ELSE wpc[v])
  BY <1>1 DEF PoolInv, Shapes
<1>7. \A j \in TaskIds : (Owned(j)' <=> Owned(j)) /\ (Named(j)' <=> Named(j))
  BY <1>3, <1>4, <1>5, <1>6, ScannerAssumption DEF Owned, Named, NoTaken
<1>8. Shapes'
  BY <1>1, <1>2, <1>3, <1>6 DEF PoolInv, Shapes
<1>9. OneOwner'
  <2>1. \A j, k \in DOMAIN queue' : queue'[j] = queue'[k] => j = k
    <3>1. \A j, k \in 1 .. Len(queue) : queue[j] = queue[k] => j = k
      BY <1>2 DEF PoolInv, OneOwner
    <3>2. \A k \in 1 .. Len(queue') : k + 1 \in 1 .. Len(queue) /\ k \in Int
      BY <1>2
    <3> QED BY <1>2, <3>1, <3>2
  <2>2. \A v, u \in Workers : wtask'[v] \in TaskIds /\ wtask'[v] = wtask'[u] => v = u
    BY <1>5, <1>6 DEF PoolInv, OneOwner
  <2>3. \A v \in Workers : wtask'[v] \notin Queued'
    BY <1>4, <1>6 DEF PoolInv, OneOwner
  <2>4. \A v \in Workers : wtask'[v] \in TaskIds <=> HeldBy(v)'
    BY <1>2, <1>6 DEF PoolInv, OneOwner, HeldBy
  <2> QED BY <2>1, <2>2, <2>3, <2>4 DEF OneOwner
<1>10. NotClosed'
  <2>1. \A j \in inflight' : j \in TaskIds /\ Owned(j)'
    BY <1>1, <1>7 DEF PoolInv, Shapes, NotClosed
  <2>2. \A j \in TaskIds : task'[j].closes <= 1 /\ (Owned(j)' => task'[j].closes = 0 /\ Named(j)')
    BY <1>3, <1>7 DEF PoolInv, NotClosed
  <2>3. \A v \in Workers : wpc'[v] = "close" => wtask'[v] \notin inflight'
    BY <1>1, <1>6 DEF PoolInv, NotClosed
  <2> QED BY <2>1, <2>2, <2>3 DEF NotClosed
<1>11. Awaited'
  <2>1. \A d \in Callers : \A j \in scan[d].await : j \in TaskIds /\ WillClose(j)'
    BY <1>3, <1>7 DEF PoolInv, Shapes, Awaited, WillClose
  <2> QED BY <1>1, <2>1 DEF PoolInv, Awaited
<1> QED BY <1>8, <1>9, <1>10, <1>11 DEF PoolInv

(* Closing some tasks, of those that nobody owns after the step. *)
LEMMA CloseTasks ==
  ASSUME PoolInv, NEW is \in SUBSET TaskIds, task' = ClosedTasks(is), \A i \in is : Owned(i)
  PROVE  /\ task' = [j \in TaskIds |-> task'[j]]
         /\ \A j \in TaskIds : /\ IsTask(task'[j]) /\ task'[j].key = task[j].key /\ task'[j].info = task[j].info
                               /\ task'[j].closes = (IF j \in is THEN 1 ELSE task[j].closes)
<1>1. \A j \in is : task[j].closes = 0
  BY DEF PoolInv, NotClosed
<1>2. \A j \in TaskIds : task'[j] = IF j \in is THEN [task[j] EXCEPT !.closes = @ + 1] ELSE task[j]
  BY DEF ClosedTasks
<1>3. \A j \in TaskIds : IsTask(task[j])
  BY DEF PoolInv, Shapes
<1>4. task' = [j \in TaskIds |-> task'[j]]
  BY DEF ClosedTasks
<1>5. ASSUME NEW j \in TaskIds
      PROVE  /\ IsTask(task'[j]) /\ task'[j].key = task[j].key /\ task'[j].info = task[j].info
             /\ task'[j].closes = (IF j \in is THEN 1 ELSE task[j].closes)
  <2>1. CASE j \in is
    <3> DEFINE t == task[j]
    <3>1. IsTask(t) /\ t.closes = 0 /\ task'[j] = [t EXCEPT !.closes = @ + 1]
      BY <1>1, <1>2, <1>3, <2>1
    <3> HIDE DEF t
    <3>2. IsTask(task'[j]) /\ task'[j].key = t.key /\ task'[j].info = t.info /\ task'[j].closes = 1
      BY <3>1 DEF IsTask
    <3> QED BY <2>1, <3>2 DEF t
  <2>2. CASE j \notin is
    BY <1>2, <1>3, <2>2
  <2> QED BY <2>1, <2>2
<1> QED BY <1>4, <1>5

LEMMA LeavePool ==
  ASSUME PoolInv, NEW w \in Workers, UNCHANGED main, Leave(w)
  PROVE  PoolInv'
<1>1. wpc[w] = "idle" /\ wpc' = [wpc EXCEPT ![w] = "gone"] /\ queue' = <<>>
      /\ inflight' = OtherKeys(Queued) /\ task' = ClosedTasks(Queued)
      /\ UNCHANGED <<wtask, cpc, scan>>
  BY DEF Leave, GoTo, WorkerOnly, callVars
<1>2. Queued \subseteq TaskIds /\ \A i \in Queued : Owned(i)
  BY LenProperties DEF PoolInv, Shapes, Queued, Owned
<1>3. /\ task' = [j \in TaskIds |-> task'[j]]
      /\ \A j \in TaskIds : /\ IsTask(task'[j]) /\ task'[j].key = task[j].key
                            /\ task'[j].closes = (IF j \in Queued THEN 1 ELSE task[j].closes)
  BY <1>1, <1>2, CloseTasks
<1>4. Queued' = {} /\ queue' \in Seq(TaskIds) /\ DOMAIN queue' = {}
  BY <1>1 DEF Queued
<1>5. \A v \in Workers : wpc'[v] = (IF v = w THEN "gone" ELSE wpc[v])
  BY <1>1 DEF PoolInv, Shapes
<1>6. \A j \in TaskIds : /\ Owned(j)' <=> Owned(j) /\ j \notin Queued
                         /\ Named(j)' <=> Named(j)
  BY <1>1, <1>3, <1>4 DEF Owned, Named, PoolInv, OneOwner
<1>7. inflight' \subseteq inflight \ Queued
  BY <1>1 DEF OtherKeys
<1>8. Shapes'
  <2>1. wpc' = [v \in Workers |-> wpc'[v]] /\ inflight' \subseteq TaskIds
    BY <1>1, <1>7 DEF PoolInv, Shapes
  <2>2. \A j \in TaskIds : task'[j].closes \in Nat
    BY <1>3 DEF PoolInv, Shapes
  <2> QED BY <1>1, <1>3, <1>4, <2>1, <2>2 DEF PoolInv, Shapes
<1>9. OneOwner'
  BY <1>1, <1>4, <1>5 DEF PoolInv, OneOwner, HeldBy
<1>10. NotClosed'
  <2>1. \A j \in inflight' : j \in TaskIds /\ Owned(j)'
    BY <1>6, <1>7 DEF PoolInv, Shapes, NotClosed
  <2>2. \A j \in TaskIds : task'[j].closes <= 1 /\ (Owned(j)' => task'[j].closes = 0 /\ Named(j)')
    BY <1>3, <1>6 DEF PoolInv, NotClosed
  <2>3. \A v \in Workers : wpc'[v] = "close" => wtask'[v] \notin inflight'
    BY <1>1, <1>5, <1>7 DEF PoolInv, NotClosed
  <2> QED BY <2>1, <2>2, <2>3 DEF NotClosed
<1>11. Awaited'
  <2>1. ASSUME NEW d \in Callers, NEW j \in scan[d].await PROVE WillClose(j)'
    <3>1. j \in TaskIds /\ WillClose(j)
      BY DEF PoolInv, Shapes, Awaited
    <3> QED BY <1>3, <1>6, <3>1 DEF WillClose
  <2> QED BY <1>1, <2>1 DEF PoolInv, Awaited
<1> QED BY <1>8, <1>9, <1>10, <1>11 DEF PoolInv

LEMMA CloseDonePool ==
  ASSUME PoolInv, NEW w \in Workers, UNCHANGED main, CloseDone(w)
  PROVE  PoolInv'
<1> DEFINE i == wtask[w]
<1>1. wpc[w] = "close" /\ wpc' = [wpc EXCEPT ![w] = "idle"]
      /\ task' = ClosedTasks({i}) /\ wtask' = [wtask EXCEPT ![w] = NoTaken]
      /\ UNCHANGED <<queue, inflight, cpc, scan>>
  BY DEF CloseDone, GoTo, WorkerOnly, callVars
<1>2. i \in TaskIds /\ Owned(i) /\ i \notin inflight /\ i \notin Queued
  BY <1>1 DEF PoolInv, OneOwner, NotClosed, HeldBy, Owned
<1>3. /\ task' = [j \in TaskIds |-> task'[j]]
      /\ \A j \in TaskIds : /\ IsTask(task'[j]) /\ task'[j].key = task[j].key
                            /\ task'[j].closes = (IF j = i THEN 1 ELSE task[j].closes)
  <2> DEFINE is == {i}
  <2>1. is \in SUBSET TaskIds /\ (\A j \in is : Owned(j)) /\ \A j : j \in is <=> j = i
    BY <1>2
  <2>2. task' = ClosedTasks(is)
    BY <1>1
  <2> HIDE DEF i, is
  <2> QED BY <2>1, <2>2, CloseTasks
<1>4. \A v \in Workers : /\ wpc'[v] = (IF v = w THEN "idle" ELSE wpc[v])
                         /\ wtask'[v] = (IF v = w THEN NoTaken ELSE wtask[v])
  BY <1>1 DEF PoolInv, Shapes
<1>5. NoTaken \notin TaskIds /\ \A v \in Workers : v # w => wtask[v] # i
  BY <1>2, ScannerAssumption DEF NoTaken, PoolInv, OneOwner
<1>6. Queued' = Queued
  BY <1>1 DEF Queued
<1>7. \A j \in TaskIds : (Owned(j)' <=> Owned(j) /\ j # i) /\ (Named(j)' <=> Named(j))
  BY <1>2, <1>3, <1>4, <1>5, <1>6 DEF Owned, Named
<1> HIDE DEF i
<1>8. Shapes'
  <2>1. wpc' = [v \in Workers |-> wpc'[v]] /\ wtask' \in [Workers -> TaskIds \cup {NoTaken}]
    BY <1>1 DEF PoolInv, Shapes
  <2>2. \A j \in TaskIds : task'[j].closes \in Nat
    BY <1>3 DEF PoolInv, Shapes
  <2> QED BY <1>1, <1>3, <2>1, <2>2 DEF PoolInv, Shapes
<1>9. OneOwner'
  <2>1. NoTaken \notin Queued
    BY <1>5, LenProperties DEF PoolInv, Shapes, Queued
  <2> QED BY <1>1, <1>4, <1>5, <1>6, <2>1 DEF PoolInv, OneOwner, HeldBy
<1>10. NotClosed'
  <2>1. \A j \in inflight' : j \in TaskIds /\ Owned(j)'
    BY <1>1, <1>2, <1>7 DEF PoolInv, Shapes, NotClosed
  <2>2. \A j \in TaskIds : task'[j].closes <= 1 /\ (Owned(j)' => task'[j].closes = 0 /\ Named(j)')
    BY <1>3, <1>7 DEF PoolInv, NotClosed
  <2>3. \A v \in Workers : wpc'[v] = "close" => wtask'[v] \notin inflight'
    BY <1>1, <1>4 DEF PoolInv, NotClosed
  <2> QED BY <2>1, <2>2, <2>3 DEF NotClosed
<1>11. Awaited'
  <2>1. ASSUME NEW d \in Callers, NEW j \in scan[d].await PROVE WillClose(j)'
    <3>1. j \in TaskIds /\ WillClose(j)
      BY DEF PoolInv, Shapes, Awaited
    <3> QED BY <1>3, <1>7, <3>1 DEF WillClose
  <2> QED BY <1>1, <2>1 DEF PoolInv, Awaited
<1> QED BY <1>8, <1>9, <1>10, <1>11 DEF PoolInv

-----------------------------------------------------------------------------
(* The life of the program. *)

LEMMA VanishPool == Vanish => PoolInv'
<1>1. NoPool' => PoolInv'
  BY EmptyPool, PTL
<1>2. Vanish => NoPool'
  BY DEF Vanish, NoPool
<1> QED BY <1>1, <1>2

LEMMA StartPool ==
  ASSUME PoolInv, main = "down", main' # "down", Start
  PROVE  PoolInv'
<1>1. /\ UNCHANGED <<task, queue, inflight, wtask, scan>>
      /\ wpc' = [w \in Workers |-> "idle"] /\ cpc' = [c \in Callers |-> "idle"]
  BY DEF Start, poolVars
<1>2. Queued' = Queued /\ \A i : (Owned(i)' <=> Owned(i)) /\ (Named(i)' <=> Named(i))
  BY <1>1 DEF Queued, Owned, Named
<1>3. NoTaken \notin TaskIds /\ \A w \in Workers : wtask[w] = NoTaken /\ ~HeldBy(w)'
  BY <1>1, ScannerAssumption DEF PoolInv, OneOwner, HeldBy, NoTaken
<1>4. Shapes'
  BY <1>1 DEF PoolInv, Shapes
<1>5. OneOwner'
  BY <1>1, <1>2, <1>3 DEF PoolInv, OneOwner
<1>6. NotClosed'
  BY <1>1, <1>2 DEF PoolInv, NotClosed
<1>7. Awaited'
  BY <1>1, <1>2 DEF PoolInv, Awaited, WillClose
<1> QED BY <1>4, <1>5, <1>6, <1>7 DEF PoolInv

(* Steps that change none of the variables of the pool. *)
LEMMA IdlePool ==
  ASSUME PoolInv, UNCHANGED <<task, queue, inflight, wpc, wtask, cpc, scan>>,
         main' = "down" => main = "down"
  PROVE  PoolInv'
BY FramePool DEF PoolInv, Shapes, Awaited

LEMMA NextPool == PoolInv /\ [Next]_vars => PoolInv'
<1> SUFFICES ASSUME PoolInv, [Next]_vars PROVE PoolInv'
  OBVIOUS
<1>1. CASE New
  BY <1>1, StartPool DEF New
<1>2. CASE Refused \/ Cancel \/ CloseBegin \/ CaptureEnds \/ CloseEnd \/ ScanJoined
           \/ Finished \/ UNCHANGED vars
  BY <1>2, IdlePool DEF Refused, Cancel, CloseBegin, CaptureEnds, CloseEnd, ScanJoined, Finished,
       CloseScanner, vars, scanVars, mainVars, poolVars, workVars, callVars
<1>3. CASE ForceExit
  BY <1>3, VanishPool DEF ForceExit
<1>4. CASE EndScans
  BY <1>4, MainAssumption, CallerFrame DEF EndScans
<1>5. ASSUME NEW w \in Workers, WorkerStep(w) PROVE PoolInv'
  <2>1. UNCHANGED main /\ main # "down"
    BY <1>5 DEF WorkerStep, Running, mainVars
  <2> QED BY <1>5, <2>1, TakePool, LeavePool, WorkPool, RetirePool, CloseDonePool
          DEF WorkerStep, Worker
<1>6. ASSUME NEW c \in Callers, CallerStep(c) PROVE PoolInv'
  <2>1. UNCHANGED mainVars /\ UNCHANGED main
    BY <1>6 DEF CallerStep, mainVars
  <2>2. CASE Enqueue(c)
    BY <2>1, <2>2, CallerFrame, SharePool, AddPool DEF Enqueue
  <2>3. CASE Awaits(c)
    BY <2>1, <2>3, AwaitPool DEF Awaits
  <2> QED BY <1>6, <2>1, <2>2, <2>3, CallerFrame DEF CallerStep, Caller, Awaits
<1>7. CASE \E c \in Callers : Begin(c)
  BY <1>7, BeginPool
<1>8. CASE Running /\ Environment /\ UNCHANGED mainVars
  BY <1>8, IdlePool DEF Environment, Replace, Remove, mainVars, poolVars, workVars, callVars
<1> QED BY <1>1, <1>2, <1>3, <1>4, <1>5, <1>6, <1>7, <1>8 DEF Next, Shutdown

LEMMA PoolImpliesDiscipline == PoolInv => TaskDiscipline
BY DEF PoolInv, Shapes, OneOwner, NotClosed, Awaited, WillClose, Owned, TaskDiscipline

(* Whatever the workers, callers and main do, and in whatever order: the     *)
(* done channel of a task is closed at most once (a second close panics in   *)
(* processTask or worker), a task is in the queue once or with one worker,   *)
(* and no scan waits for a task that nobody will close, also while Close     *)
(* drops the queue (submitTask, worker, Close).                              *)
THEOREM TasksAreClosedOnce == Spec => []TaskDiscipline
<1>1. Spec => []PoolInv
  BY InitPool, NextPool, PTL DEF Spec
<1> QED BY <1>1, PoolImpliesDiscipline, PTL
=============================================================================
