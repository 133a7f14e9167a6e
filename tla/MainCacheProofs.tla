-------------------------- MODULE MainCacheProofs --------------------------
(* Theorems about the scanner's cache, its file, its results and what its    *)
(* scans add up in Main, for every number of workers, callers, libraries,    *)
(* versions and tasks.                                                       *)
EXTENDS MainProofs, FiniteSetTheorems

OptSet == [force : BOOLEAN, revalidate : BOOLEAN]
Caches == [file : [Names -> Entries], offsets : SUBSET Hashes]

DiskInv ==
  /\ disk \in [Files -> Metas] /\ last \in [Files -> Versions]
  /\ \A f \in Files : disk[f] \in {0, last[f]}

(* The versions that n has had, and what the cache may say of it.            *)
Had(n) == 1 .. last[Outer[n]]
Good(n, e) ==
  \/ e = NoEntry
  \/ /\ e \in [meta : Versions, hash : Hashes] /\ e.meta \in Had(n)
     /\ n \notin raced => e.hash = Content[n][e.meta]
GoodCache(cache) == cache \in Caches /\ \A n \in Names : Good(n, cache.file[n])
Current == [file |-> file, offsets |-> offsets]

CacheInv ==
  /\ GoodCache(Current)
  /\ image = [c \in Callers |-> image[c]] /\ \A c \in Callers : GoodCache(image[c])
  /\ saved \in [is : {"absent", "torn", "whole"}, len : Nat, cache : Caches]
  /\ GoodCache(saved.cache)

(* A key that is asked for names a version that the file has had.            *)
Asked(k) == k \in Keys /\ k.name \in Names /\ k.meta \in Had(k.name)
KeyInv ==
  /\ \A i \in TaskIds : task[i].key = NoKey \/ Asked(task[i].key)
  /\ \A c \in Callers :
       /\ scan[c].key \in Keys /\ scan[c].opts \in OptSet
       /\ cpc[c] = "enqueue" => Asked(scan[c].key)
  /\ closed \in BOOLEAN
  /\ \A i, j \in inflight : task[i].key = task[j].key => i = j

(* What a worker knows of the file it has opened.                            *)
IsLocal(l) == l = [f \in {"had", "known", "opened", "meta", "hash"} |-> l[f]]
Looked(n, from, l) ==
  /\ l.opened \in from .. last[Outer[n]] /\ l.meta \in Had(n)
  /\ n \notin raced => l.meta = l.opened
Phase(k, pc, l) ==
  /\ IsLocal(l) /\ Good(k.name, l.had) /\ l.known \in BOOLEAN
  /\ pc \in {"open", "stat"} => (l.known => l.had # NoEntry)
  /\ pc = "stat" =>
       /\ l.opened \in k.meta .. last[Outer[k.name]]
       /\ k.name \notin raced => l.opened = disk[Outer[k.name]]
  /\ pc \in {"hash", "analyze"} => Looked(k.name, k.meta, l)
  /\ pc = "analyze" => l.hash = Content[k.name][l.opened]
  /\ pc = "result" =>
       /\ l.hash \in Hashes
       /\ k.name \notin raced =>
            l.hash \in {Content[k.name][v] : v \in k.meta .. last[Outer[k.name]]}
WorkInv ==
  /\ local = [w \in Workers |-> local[w]]
  /\ \A w \in Workers : HeldBy(w) => Phase(KeyOf(w), wpc[w], local[w])

ScanInv == PoolInv /\ DiskInv /\ CacheInv /\ KeyInv /\ WorkInv

LEMMA Constants ==
  /\ NoEntry \in Entries /\ EmptyCache \in Caches /\ NoKey \in Keys /\ NoKey.opts \in OptSet
  /\ NoKey.name = "none" /\ 1 \in Versions /\ 0 \in Metas /\ Versions \subseteq Metas
  /\ MaxVersion \in Nat \ {0}
  /\ \A n \in Names : n # "none" /\ Outer[n] \in Files
  /\ \A n \in Names, v \in Versions : Content[n][v] \in Hashes
  /\ [meta : Versions, hash : Hashes] \subseteq Entries
<1>1. MaxVersion \in Nat \ {0} /\ Versions = 1 .. MaxVersion /\ Metas = 0 .. MaxVersion
  BY ScannerAssumption DEF Versions, Metas
<1>2. Content \in [Names -> [Versions -> Hashes]] /\ Outer \in [Names -> Files] /\ "none" \notin Names
  BY ScannerAssumption
<1>3. NoEntry \in Entries
  BY <1>1 DEF NoEntry, Entries
<1> HIDE DEF NoEntry
<1>4. EmptyCache \in Caches
  BY <1>3 DEF EmptyCache, Caches
<1>5. NoKey \in Keys /\ NoKey.opts \in OptSet /\ NoKey.name = "none"
  BY <1>1 DEF NoKey, Keys, OptSet
<1> QED BY <1>1, <1>2, <1>3, <1>4, <1>5 DEF Entries

-----------------------------------------------------------------------------
(* What the steps of an actor leave alone. *)

LEMMA WorkerLeaves ==
  ASSUME NEW w \in Workers, WorkerStep(w)
  PROVE  /\ UNCHANGED <<disk, last, saved, closed, cpc, scan, image, raced, mishap, main>>
         /\ Running
<1>1. Running /\ UNCHANGED main
  BY DEF WorkerStep, mainVars
<1>2. WorkerOnly
  BY DEF WorkerStep, Worker, Take, Leave, Open, Stat, Hash, AnalysisFails, Commit, Committed,
     Retire, CloseDone
<1> QED BY <1>1, <1>2 DEF WorkerOnly, diskVars, callVars

LEMMA CallerLeaves ==
  ASSUME NEW c \in Callers, Begin(c) \/ CallerStep(c) \/ EndCaller(c)
  PROVE  UNCHANGED <<disk, last, wpc, wtask, local, raced>>
<1>1. CASE Begin(c)
  BY <1>1 DEF Begin, ScanCached, Scan, ScanDir, BeginScan, PurgeOffsets, CallerOnly, diskVars, workVars
<1>2. CASE EndCaller(c)
  BY <1>2 DEF EndCaller, CallerOnly, diskVars, workVars
<1>3. CASE CallerStep(c)
  <2>1. CallerOnly
    BY <1>3 DEF CallerStep, Caller, StatName, StatGone, StatFails, Forget, Enqueue, Enqueuing, Await,
       AwaitEnds, Marshal, Truncate, Write
  <2> QED BY <2>1 DEF CallerOnly, diskVars, workVars
<1> QED BY <1>1, <1>2, <1>3

(* What main does by itself, the start and the end of a process aside.       *)
MainStep ==
  \/ Refused \/ Cancel \/ CloseBegin \/ CaptureEnds \/ CloseEnd \/ ScanJoined \/ Finished
  \/ UNCHANGED vars

LEMMA MainLeaves ==
  ASSUME MainStep
  PROVE  UNCHANGED <<disk, last, saved, file, offsets, task, queue, inflight, wpc, wtask, local,
                     cpc, scan, image, raced, mishap>>
BY DEF MainStep, Refused, Cancel, CloseBegin, CaptureEnds, CloseEnd, ScanJoined, Finished,
   CloseScanner, vars, scanVars, diskVars, cacheVars, poolVars, workVars, callVars

LEMMA FilesLeave ==
  ASSUME NEW f \in Files, Replace(f) \/ Remove(f)
  PROVE  /\ UNCHANGED <<saved, file, offsets, task, queue, inflight, closed, wpc, wtask, local,
                        cpc, scan, image, mishap>>
         /\ raced' = raced \cup InWindow(f) /\ last[f] < MaxVersion
         /\ last' = [last EXCEPT ![f] = @ + 1]
         /\ \E v \in {0, last[f] + 1} : disk' = [disk EXCEPT ![f] = v]
BY DEF Replace, Remove, cacheVars, poolVars, workVars, callVars

(* The steps of the program, by actor. *)
LEMMA Steps ==
  ASSUME [Next]_vars
  PROVE  \/ New \/ ForceExit \/ EndScans \/ MainStep
         \/ \E w \in Workers : WorkerStep(w)
         \/ \E c \in Callers : Begin(c) \/ CallerStep(c)
         \/ Running /\ UNCHANGED mainVars /\ \E f \in Files : Replace(f) \/ Remove(f)
BY DEF Next, MainStep, Shutdown, Environment

LEMMA EndsLeave ==
  /\ Start => UNCHANGED <<disk, last, task, queue, inflight, closed, wtask, local, scan, image,
                          raced, mishap>>
  /\ Vanish => UNCHANGED <<disk, last, saved, raced>>
BY DEF Start, Vanish, diskVars, poolVars

-----------------------------------------------------------------------------
(* Versions only grow, and with them what a key or a cache may say.          *)

Grows ==
  /\ last' \in [Files -> Versions] /\ \A f \in Files : last[f] <= last'[f]
  /\ raced \subseteq raced'

LEMMA DiskStep == DiskInv /\ [Next]_vars => DiskInv' /\ Grows
<1> SUFFICES ASSUME DiskInv, [Next]_vars PROVE DiskInv' /\ Grows
  OBVIOUS
<1>0. MaxVersion \in Nat \ {0} /\ Versions = 1 .. MaxVersion /\ Metas = 0 .. MaxVersion
  BY ScannerAssumption DEF Versions, Metas
<1>1. CASE UNCHANGED <<disk, last, raced>>
  BY <1>0, <1>1 DEF DiskInv, Grows
<1>2. ASSUME NEW f \in Files, Replace(f) \/ Remove(f) PROVE DiskInv' /\ Grows
  <2>1. /\ raced' = raced \cup InWindow(f) /\ last[f] < MaxVersion
        /\ last' = [last EXCEPT ![f] = @ + 1]
    BY <1>2, FilesLeave
  <2>2. PICK v \in {0, last[f] + 1} : disk' = [disk EXCEPT ![f] = v]
    BY <1>2, FilesLeave
  <2>3. last[f] \in Versions /\ last[f] + 1 \in Versions
    BY <1>0, <2>1 DEF DiskInv
  <2>4. \A g \in Files : /\ last'[g] = (IF g = f THEN last[f] + 1 ELSE last[g])
                         /\ disk'[g] = (IF g = f THEN v ELSE disk[g])
    BY <2>1, <2>2 DEF DiskInv
  <2>5. last' \in [Files -> Versions] /\ disk' \in [Files -> Metas]
    BY <1>0, <2>1, <2>2, <2>3 DEF DiskInv
  <2>6. \A g \in Files : last[g] <= last'[g] /\ disk'[g] \in {0, last'[g]}
    BY <1>0, <2>3, <2>4 DEF DiskInv
  <2> QED BY <2>1, <2>5, <2>6 DEF DiskInv, Grows
<1> QED BY <1>1, <1>2, Steps, WorkerLeaves, CallerLeaves, MainLeaves, EndsLeave, MainAssumption
        DEF New, ForceExit, EndScans

LEMMA HadGrows ==
  ASSUME DiskInv, Grows, NEW n \in Names
  PROVE  Had(n) \subseteq Had(n)' /\ Had(n)' \subseteq Versions
         /\ last[Outer[n]] \in Versions /\ last'[Outer[n]] \in Versions
         /\ last[Outer[n]] <= last'[Outer[n]]
<1>1. Outer[n] \in Files /\ MaxVersion \in Nat
  BY Constants
<1> QED BY <1>1 DEF Had, DiskInv, Grows, Versions

LEMMA GoodGrows ==
  ASSUME DiskInv, Grows, NEW n \in Names, NEW e, Good(n, e)
  PROVE  Good(n, e)'
BY HadGrows DEF Good, Grows

LEMMA GoodCacheGrows ==
  ASSUME DiskInv, Grows, NEW cache, GoodCache(cache)
  PROVE  GoodCache(cache)'
<1>1. \A n \in Names : Good(n, cache.file[n])'
  BY GoodGrows DEF GoodCache
<1> QED BY <1>1 DEF GoodCache

LEMMA AskedGrows ==
  ASSUME DiskInv, Grows, NEW k, Asked(k)
  PROVE  Asked(k)'
BY HadGrows DEF Asked

(* What a step may write in a cache. *)
LEMMA GoodCacheSet ==
  ASSUME NEW cache, GoodCache(cache), NEW n \in Names, NEW e, Good(n, e),
         NEW offs \in SUBSET Hashes, NEW new,
         new = [file |-> [cache.file EXCEPT ![n] = e], offsets |-> offs]
  PROVE  GoodCache(new)
<1>1. e \in Entries
  BY Constants DEF Good
<1>2. cache.file \in [Names -> Entries]
  BY DEF GoodCache, Caches
<1>3. \A m \in Names : new.file[m] = IF m = n THEN e ELSE cache.file[m]
  BY <1>2
<1>4. new \in Caches
  BY <1>1, <1>2 DEF Caches
<1>5. \A m \in Names : Good(m, new.file[m])
  BY <1>3 DEF GoodCache
<1> QED BY <1>4, <1>5 DEF GoodCache

LEMMA EmptyIsGood == GoodCache(EmptyCache)
BY Constants DEF GoodCache, Good, EmptyCache

(* The length of a cache file is a number. *)
LEMMA WholeType == ASSUME NEW c \in Caches PROVE Whole(c) \in [is : {"whole"}, len : Nat, cache : Caches]
<1>1. IsFiniteSet({n \in Names : c.file[n] # NoEntry}) /\ IsFiniteSet(c.offsets)
  BY ScannerAssumption, FS_Subset DEF Caches
<1>2. Length(c) \in Nat
  BY <1>1, FS_CardinalityType DEF Length
<1> QED BY <1>2 DEF Whole

-----------------------------------------------------------------------------
(* What is cached stays good. *)

LEMMA CurrentStays ==
  ASSUME DiskInv, Grows, NEW new, GoodCache(new), file' = new.file, offsets' = new.offsets
  PROVE  GoodCache(Current)'
<1>1. GoodCache(new)'
  BY GoodCacheGrows
<1>2. Current' \in Caches
  BY DEF GoodCache, Caches, Current
<1>3. \A n \in Names : Good(n, new.file[n])'
  BY <1>1 DEF GoodCache
<1>4. \A n \in Names : Good(n, Current.file[n])'
  BY <1>3 DEF Current, Good, Had
<1> QED BY <1>2, <1>4 DEF GoodCache

(* The image of a save, and what is saved. *)
LEMMA ImagesStay ==
  ASSUME DiskInv, Grows, image' = [c \in Callers |-> image'[c]],
         \A c \in Callers : GoodCache(image'[c])
  PROVE  (\A c \in Callers : GoodCache(image[c]))'
<1> SUFFICES ASSUME NEW c \in Callers PROVE GoodCache(image[c])'
  OBVIOUS
<1>1. PICK new : new = image'[c]
  OBVIOUS
<1>2. GoodCache(new)'
  BY <1>1, GoodCacheGrows
<1> QED BY <1>1, <1>2 DEF GoodCache, Good, Had

LEMMA SavedStays ==
  ASSUME DiskInv, Grows, GoodCache(saved'.cache)
  PROVE  GoodCache(saved.cache)'
<1>1. PICK new : new = saved'.cache
  OBVIOUS
<1>2. GoodCache(new)'
  BY <1>1, GoodCacheGrows
<1> QED BY <1>1, <1>2 DEF GoodCache, Good, Had

(* The task of a worker, and what it knows. *)
LEMMA HeldKey ==
  ASSUME ScanInv, NEW w \in Workers, HeldBy(w)
  PROVE  /\ wtask[w] \in TaskIds /\ Owned(wtask[w]) /\ Named(wtask[w])
         /\ Asked(KeyOf(w)) /\ KeyOf(w).name \in Names
         /\ Phase(KeyOf(w), wpc[w], local[w])
<1>1. wtask[w] \in TaskIds /\ Owned(wtask[w]) /\ Named(wtask[w])
  BY DEF ScanInv, PoolInv, OneOwner, NotClosed, Owned
<1>2. Asked(KeyOf(w))
  BY <1>1, Constants DEF ScanInv, KeyInv, Named, KeyOf
<1> QED BY <1>1, <1>2 DEF ScanInv, WorkInv, Asked

SavedSet == [is : {"absent", "torn", "whole"}, len : Nat, cache : Caches]

LEMMA CacheStays ==
  ASSUME ScanInv, [Next]_vars, NEW new, GoodCache(new), file' = new.file, offsets' = new.offsets,
         image' = [c \in Callers |-> image'[c]], \A c \in Callers : GoodCache(image'[c]),
         saved' \in SavedSet, GoodCache(saved'.cache)
  PROVE  CacheInv'
<1>1. DiskInv /\ Grows
  BY DiskStep DEF ScanInv
<1>2. GoodCache(Current)' /\ (\A c \in Callers : GoodCache(image[c]))' /\ GoodCache(saved.cache)'
  BY <1>1, CurrentStays, ImagesStay, SavedStays
<1> QED BY <1>2 DEF CacheInv, SavedSet

LEMMA CacheStep == ScanInv /\ [Next]_vars => CacheInv'
<1> SUFFICES ASSUME ScanInv, [Next]_vars PROVE CacheInv'
  OBVIOUS
<1>0. CacheInv
  BY DEF ScanInv
<1>1. PICK cur : cur = Current
  OBVIOUS
<1>2. /\ GoodCache(cur) /\ cur.file = file /\ cur.offsets = offsets
      /\ file \in [Names -> Entries] /\ offsets \subseteq Hashes
      /\ image = [c \in Callers |-> image[c]] /\ \A c \in Callers : GoodCache(image[c])
      /\ saved \in SavedSet /\ GoodCache(saved.cache)
  <2>1. cur.file = file /\ cur.offsets = offsets
    BY <1>1 DEF Current
  <2>2. GoodCache(cur) /\ cur \in Caches
    BY <1>0, <1>1 DEF CacheInv, GoodCache
  <2> QED BY <1>0, <2>1, <2>2 DEF CacheInv, SavedSet, Caches
<1>3. ASSUME UNCHANGED <<file, offsets, image, saved>> PROVE CacheInv'
  BY <1>2, <1>3, CacheStays
<1>4. ASSUME UNCHANGED <<image, saved>>, NEW n \in Names, NEW e, Good(n, e), NEW offs \in SUBSET Hashes,
             file' = [file EXCEPT ![n] = e], offsets' = offs
      PROVE  CacheInv'
  <2> DEFINE new == [file |-> [cur.file EXCEPT ![n] = e], offsets |-> offs]
  <2>1. file' = new.file /\ offsets' = new.offsets
    BY <1>2, <1>4
  <2>2. GoodCache(new)
    BY <1>2, <1>4, GoodCacheSet
  <2> HIDE DEF new
  <2> QED BY <1>2, <1>4, <2>1, <2>2, CacheStays
<1>5. CASE New
  <2>1. UNCHANGED image
    BY <1>5 DEF New, Start
  <2>2. CASE LoadFresh
    <3>1. file' = EmptyCache.file /\ offsets' = EmptyCache.offsets /\ saved' = Whole(EmptyCache)
      BY <2>2 DEF LoadFresh, EmptyCache
    <3>2. Whole(EmptyCache) \in SavedSet /\ Whole(EmptyCache).cache = EmptyCache
      BY Constants, WholeType DEF SavedSet, Whole
    <3> QED BY <1>2, <2>1, <3>1, <3>2, EmptyIsGood, CacheStays
  <2>3. CASE Load
    BY <1>2, <2>1, <2>3, CacheStays DEF Load
  <2> QED BY <1>5, <2>2, <2>3 DEF New, Start
<1>6. CASE ForceExit
  <2>1. file' = EmptyCache.file /\ offsets' = EmptyCache.offsets /\ UNCHANGED saved
        /\ image' = [c \in Callers |-> EmptyCache]
    BY <1>6 DEF ForceExit, Vanish, EmptyCache
  <2> QED BY <1>2, <2>1, EmptyIsGood, CacheStays
<1>7. CASE EndScans \/ MainStep \/ \E f \in Files : Replace(f) \/ Remove(f)
  BY <1>3, <1>7, MainLeaves, FilesLeave DEF EndScans, EndCaller, cacheVars
<1>8. ASSUME NEW w \in Workers, WorkerStep(w) PROVE CacheInv'
  <2>1. UNCHANGED <<saved, image>>
    BY <1>8, WorkerLeaves
  <2>2. ASSUME HeldBy(w) PROVE KeyOf(w).name \in Names /\ Phase(KeyOf(w), wpc[w], local[w])
    BY <2>2, HeldKey
  <2>3. CASE Hash(w)
    <3>1. KeyOf(w).name \in Names
      BY <2>2, <2>3 DEF HeldBy, Hash
    <3>2. UNCHANGED offsets /\ (UNCHANGED file \/ file' = [file EXCEPT ![KeyOf(w).name] = NoEntry])
      BY <1>2, <2>3 DEF Hash
    <3>3. CASE UNCHANGED file
      BY <1>3, <2>1, <3>2, <3>3
    <3>4. CASE file' = [file EXCEPT ![KeyOf(w).name] = NoEntry]
      <4>1. Good(KeyOf(w).name, NoEntry)
        BY DEF Good
      <4> QED BY <1>2, <1>4, <2>1, <3>1, <3>2, <3>4, <4>1
    <3> QED BY <3>2, <3>3, <3>4
  <2>4. CASE Commit(w)
    <3> DEFINE n == KeyOf(w).name
               l == local[w]
               e == [meta |-> l.meta, hash |-> l.hash]
    <3>1. n \in Names /\ Looked(n, KeyOf(w).meta, l) /\ l.hash = Content[n][l.opened]
      BY <2>2, <2>4 DEF HeldBy, Commit, Committed, Phase
    <3>2. file' = [file EXCEPT ![n] = e] /\ offsets' = offsets \cup {l.hash}
      BY <2>4 DEF Commit, Committed
    <3> HIDE DEF l, n
    <3>3. l.opened \in Versions /\ l.meta \in Versions /\ l.meta \in Had(n)
      <4>1. Asked(KeyOf(w)) /\ DiskInv
        BY <2>4, HeldKey DEF ScanInv, HeldBy, Commit, Committed
      <4>2. last[Outer[n]] \in Versions /\ KeyOf(w).meta \in Had(n)
        BY <3>1, <4>1, Constants DEF Asked, DiskInv, n
      <4>3. l.opened \in KeyOf(w).meta .. last[Outer[n]] /\ l.meta \in Had(n)
        BY <3>1 DEF Looked
      <4> QED BY <4>2, <4>3, Constants DEF Had, Versions
    <3>4. l.hash \in Hashes
      BY <3>1, <3>3, Constants
    <3>5. Good(n, e)
      BY <3>1, <3>3, <3>4 DEF Good, Looked
    <3> HIDE DEF e
    <3>6. offsets \cup {l.hash} \in SUBSET Hashes
      BY <1>2, <3>4
    <3> QED BY <1>4, <2>1, <3>1, <3>2, <3>5, <3>6
  <2>5. CASE ~Hash(w) /\ ~Commit(w)
    <3>1. UNCHANGED <<file, offsets>>
      BY <1>8, <2>5 DEF WorkerStep, Worker, Take, Leave, Open, Stat, AnalysisFails, Retire, CloseDone,
         cacheVars
    <3> QED BY <1>3, <2>1, <3>1
  <2> QED BY <2>3, <2>4, <2>5
<1>9. ASSUME NEW c \in Callers, Begin(c) PROVE CacheInv'
  <2>1. UNCHANGED <<saved, image, file>> /\ (UNCHANGED offsets \/ offsets' = {})
    BY <1>9 DEF Begin, ScanCached, Scan, ScanDir, BeginScan, PurgeOffsets, cacheVars
  <2>2. CASE UNCHANGED offsets
    BY <1>3, <2>1, <2>2
  <2>3. CASE offsets' = {}
    <3> DEFINE new == [file |-> file, offsets |-> {}]
    <3>1. GoodCache(new)
      BY <1>2 DEF GoodCache, Caches
    <3>2. file' = new.file /\ offsets' = new.offsets
      BY <2>1, <2>3
    <3> HIDE DEF new
    <3> QED BY <1>2, <2>1, <3>1, <3>2, CacheStays
  <2> QED BY <2>1, <2>2, <2>3
<1>10. ASSUME NEW c \in Callers, CallerStep(c) PROVE CacheInv'
  <2>1. CASE Forget(c)
    <3> DEFINE n == scan[c].key.name
    <3>1. UNCHANGED <<saved, image, offsets>> /\ file' = [file EXCEPT ![n] = NoEntry]
      BY <2>1 DEF Forget
    <3>2. CASE n \in Names
      <4>1. Good(n, NoEntry)
        BY DEF Good
      <4> QED BY <1>2, <1>4, <3>1, <3>2, <4>1
    <3>3. CASE n \notin Names
      <4>1. UNCHANGED file
        BY <1>2, <3>1, <3>3
      <4> QED BY <1>3, <3>1, <4>1
    <3> QED BY <3>2, <3>3
  <2>2. CASE Marshal(c)
    <3>1. UNCHANGED <<saved, file, offsets>> /\ image' = [image EXCEPT ![c] = cur]
      BY <1>1, <2>2 DEF Marshal, cacheVars, Current
    <3>2. image' = [d \in Callers |-> image'[d]] /\ \A d \in Callers : GoodCache(image'[d])
      BY <1>2, <3>1
    <3> QED BY <1>2, <3>1, <3>2, CacheStays
  <2>3. CASE Truncate(c)
    <3>1. UNCHANGED <<image, file, offsets>> /\ saved' = Torn(0)
      BY <2>3 DEF Truncate, cacheVars
    <3>2. Torn(0) \in SavedSet /\ Torn(0).cache = EmptyCache
      BY Constants DEF SavedSet, Torn
    <3> QED BY <1>2, <3>1, <3>2, EmptyIsGood, CacheStays
  <2>4. CASE Write(c)
    <3>1. UNCHANGED <<file, offsets>> /\ image' = [image EXCEPT ![c] = EmptyCache]
          /\ saved' \in {Torn(saved.len), Whole(image[c])}
      BY <2>4 DEF Write, cacheVars
    <3>2. image' = [d \in Callers |-> image'[d]] /\ \A d \in Callers : GoodCache(image'[d])
      BY <1>2, <3>1, EmptyIsGood
    <3>3. Torn(saved.len) \in SavedSet /\ Torn(saved.len).cache = EmptyCache
      <4>1. saved.len \in Nat
        BY <1>2 DEF SavedSet
      <4> QED BY <4>1, Constants DEF SavedSet, Torn
    <3>4. Whole(image[c]) \in SavedSet /\ Whole(image[c]).cache = image[c]
      <4>1. image[c] \in Caches
        BY <1>2 DEF GoodCache
      <4>2. Whole(image[c]) \in [is : {"whole"}, len : Nat, cache : Caches]
        BY <4>1, WholeType
      <4>3. Whole(image[c]).cache = image[c]
        BY DEF Whole
      <4> QED BY <4>2, <4>3 DEF SavedSet
    <3>5. saved' \in SavedSet /\ GoodCache(saved'.cache)
      BY <1>2, <3>1, <3>3, <3>4, EmptyIsGood
    <3> QED BY <1>2, <3>1, <3>2, <3>5, CacheStays
  <2>5. CASE Enqueue(c) \/ Awaits(c) \/ AwaitEnds(c) \/ \E n \in Names : StatName(c, n) \/ StatGone(c, n) \/ StatFails(c, n)
    <3>1. UNCHANGED <<saved, file, offsets, image>>
      BY <2>5 DEF Enqueue, Enqueuing, Awaits, Await, AwaitEnds, StatName, StatGone, StatFails, cacheVars
    <3> QED BY <1>3, <3>1
  <2> QED BY <1>10, <2>1, <2>2, <2>3, <2>4, <2>5 DEF CallerStep, Caller, Awaits
<1> QED BY <1>5, <1>6, <1>7, <1>8, <1>9, <1>10, Steps

-----------------------------------------------------------------------------
(* The keys of tasks. *)

LEMMA WorkerKeys ==
  ASSUME PoolInv, NEW w \in Workers, WorkerStep(w)
  PROVE  (\A i \in TaskIds : task'[i].key = task[i].key) /\ inflight' \subseteq inflight
<1>1. inflight' \subseteq inflight
  BY DEF WorkerStep, Worker, Take, Leave, Open, Stat, Hash, AnalysisFails, Commit, Committed,
     Retire, CloseDone, OtherKeys
<1>2. CASE UNCHANGED task
  BY <1>1, <1>2
<1>3. ASSUME NEW i \in TaskIds, NEW ks, task' = [task EXCEPT ![i].info = Bump(@, ks)]
      PROVE  \A j \in TaskIds : task'[j].key = task[j].key
  BY <1>3, CountTask
<1>4. CASE Take(w)
  <2>1. Head(queue) \in TaskIds
    BY <1>4, HeadTailProperties DEF Take, PoolInv, Shapes
  <2> QED BY <1>1, <1>3, <1>4, <2>1 DEF Take
<1>5. CASE Leave(w) \/ CloseDone(w)
  <2>1. PICK is : task' = ClosedTasks(is)
    BY <1>5 DEF Leave, CloseDone
  <2>2. \A i \in TaskIds : IsTask(task[i])
    BY DEF PoolInv, Shapes
  <2>3. ASSUME NEW i \in TaskIds PROVE task'[i].key = task[i].key
    <3>1. task'[i] = IF i \in is THEN [task[i] EXCEPT !.closes = @ + 1] ELSE task[i]
      BY <2>1 DEF ClosedTasks
    <3> QED BY <2>2, <3>1 DEF IsTask
  <2> QED BY <1>1, <2>3
<1>6. CASE Open(w) \/ Stat(w) \/ Hash(w) \/ AnalysisFails(w) \/ Commit(w)
  <2>1. wtask[w] \in TaskIds
    BY <1>6 DEF Open, Stat, Hash, AnalysisFails, Commit, Committed, HeldBy, PoolInv, OneOwner
  <2>2. UNCHANGED task \/ \E ks : Count(w, ks)
    BY <1>6 DEF Open, Stat, Hash, AnalysisFails, Commit, Committed
  <2> QED BY <1>1, <1>3, <2>1, <2>2 DEF Count
<1>7. CASE Retire(w)
  BY <1>1, <1>7 DEF Retire
<1> QED BY <1>4, <1>5, <1>6, <1>7 DEF WorkerStep, Worker

(* What a step of a caller does to tasks: nothing, but for one that it adds, *)
(* with the key that it asks for, and those that it forgets.                 *)
LEMMA AddedTask ==
  ASSUME ScanInv, NEW c \in Callers, Enqueue(c), ~closed, SameKey(c) = {}
  PROVE  \E i \in TaskIds :
           /\ ~Owned(i) /\ inflight' = inflight \cup {i}
           /\ task'[i].key = scan[c].key /\ task'[i].closes = 0
           /\ \A j \in TaskIds : j # i => task'[j] = task[j]
<1>1. PICK i \in TaskIds :
        /\ Free(i) /\ task' = [task EXCEPT ![i] = [NoTask EXCEPT !.key = scan[c].key]]
        /\ inflight' = inflight \cup {i}
  BY DEF Enqueue, AddTask
<1>2. task[i].key.name = "none"
  BY <1>1 DEF Free, NoTask, NoKey
<1>3. ~Owned(i)
  BY <1>2 DEF ScanInv, PoolInv, NotClosed, Named
<1>4. task'[i].key = scan[c].key /\ task'[i].closes = 0
  BY <1>1 DEF ScanInv, PoolInv, Shapes, NoTask
<1> QED BY <1>1, <1>3, <1>4

LEMMA ForgottenTasks ==
  ASSUME ScanInv, NEW c \in Callers, Awaits(c)
  PROVE  /\ UNCHANGED inflight
         /\ \A i \in TaskIds : Owned(i) => task'[i] = task[i]
         /\ \A i \in TaskIds : task'[i] = task[i] \/ task'[i] = NoTask
<1>1. PICK i \in TaskIds :
        /\ task[i].closes > 0 /\ UNCHANGED inflight
        /\ task' = [task EXCEPT ![i] = IF Waiting(i) = {c} THEN NoTask ELSE @]
  BY DEF Awaits, Await
<1>2. ~Owned(i)
  BY <1>1 DEF ScanInv, PoolInv, NotClosed
<1>3. \A j \in TaskIds : task'[j] = task[j] \/ (j = i /\ task'[j] = NoTask)
  BY <1>1 DEF ScanInv, PoolInv, Shapes
<1> QED BY <1>1, <1>2, <1>3

LEMMA CallerTasks ==
  ASSUME NEW c \in Callers, Begin(c) \/ CallerStep(c) \/ EndCaller(c), ~Awaits(c),
         ~(Enqueue(c) /\ ~closed /\ SameKey(c) = {})
  PROVE  UNCHANGED <<task, inflight, closed>>
<1>1. CASE Begin(c)
  BY <1>1 DEF Begin, ScanCached, Scan, ScanDir, BeginScan, PurgeOffsets, poolVars
<1>2. CASE EndCaller(c)
  BY <1>2 DEF EndCaller, poolVars
<1>3. CASE Enqueue(c)
  BY <1>3 DEF Enqueue, NotSubmitted, Share, poolVars
<1>4. CASE CallerStep(c) /\ ~Enqueue(c)
  BY <1>4 DEF CallerStep, Caller, StatName, StatGone, StatFails, Forget, Awaits, AwaitEnds, Marshal,
     Truncate, Write, poolVars
<1> QED BY <1>1, <1>2, <1>3, <1>4

(* The key of a task that somebody owns does not change while it runs.       *)
LEMMA OwnedKeys ==
  ASSUME ScanInv, [Next]_vars, ~ForceExit, NEW i \in TaskIds, Owned(i)
  PROVE  task'[i].key = task[i].key
<1>1. CASE New \/ MainStep \/ \E f \in Files : Replace(f) \/ Remove(f)
  BY <1>1, EndsLeave, MainLeaves, FilesLeave DEF New
<1>2. ASSUME NEW w \in Workers, WorkerStep(w) PROVE task'[i].key = task[i].key
  BY <1>2, WorkerKeys DEF ScanInv
<1>3. ASSUME NEW c \in Callers, Begin(c) \/ CallerStep(c) \/ EndCaller(c) PROVE task'[i].key = task[i].key
  BY <1>3, CallerTasks, AddedTask, ForgottenTasks
<1> QED BY <1>1, <1>2, <1>3, Steps, MainAssumption DEF EndScans

LEMMA KeysStay ==
  ASSUME ScanInv, [Next]_vars,
         \A i \in TaskIds : \/ task'[i].key \in {NoKey, task[i].key}
                            \/ \E c \in Callers : cpc[c] = "enqueue" /\ task'[i].key = scan[c].key,
         \A c \in Callers :
           /\ scan'[c].key \in Keys /\ scan'[c].opts \in OptSet
           /\ cpc'[c] = "enqueue" => Asked(scan'[c].key),
         closed' \in BOOLEAN,
         \A i, j \in inflight' : task'[i].key = task'[j].key => i = j
  PROVE  KeyInv'
<1>1. DiskInv /\ Grows
  BY DiskStep DEF ScanInv
<1>2. ASSUME NEW i \in TaskIds PROVE task'[i].key = NoKey \/ Asked(task[i].key)'
  <2>1. PICK k : k = task'[i].key
    OBVIOUS
  <2>2. k = NoKey \/ Asked(k)
    BY <2>1 DEF ScanInv, KeyInv
  <2>3. Asked(k) => Asked(k)'
    BY <1>1, AskedGrows
  <2> QED BY <2>1, <2>2, <2>3 DEF Asked, Had
<1>3. ASSUME NEW c \in Callers, cpc'[c] = "enqueue" PROVE Asked(scan[c].key)'
  <2>1. PICK k : k = scan'[c].key
    OBVIOUS
  <2>2. Asked(k)'
    BY <1>1, <1>3, <2>1, AskedGrows
  <2> QED BY <2>1, <2>2 DEF Asked, Had
<1> QED BY <1>2, <1>3 DEF KeyInv

(* A scan after a step of its caller. *)
LEMMA CallerKeys ==
  ASSUME ScanInv, NEW c \in Callers, Begin(c) \/ CallerStep(c) \/ EndCaller(c)
  PROVE  \A d \in Callers :
           /\ scan'[d].key \in Keys /\ scan'[d].opts \in OptSet
           /\ cpc'[d] = "enqueue" => Asked(scan'[d].key)
<1>0. /\ \A d \in Callers : /\ scan[d].key \in Keys /\ scan[d].opts \in OptSet /\ IsScan(scan[d])
                            /\ cpc[d] = "enqueue" => Asked(scan[d].key)
      /\ cpc = [d \in Callers |-> cpc[d]] /\ scan = [d \in Callers |-> scan[d]]
  BY DEF ScanInv, KeyInv, PoolInv, Shapes
<1>1. ASSUME NEW pc, cpc' = [cpc EXCEPT ![c] = pc],
             NEW s, scan' = [scan EXCEPT ![c] = s], s.key \in Keys, s.opts \in OptSet,
             pc = "enqueue" => Asked(s.key)
      PROVE  \A d \in Callers :
               /\ scan'[d].key \in Keys /\ scan'[d].opts \in OptSet
               /\ cpc'[d] = "enqueue" => Asked(scan'[d].key)
  BY <1>0, <1>1
<1>2. NoScan.key = NoKey /\ NoScan.opts \in OptSet /\ IsScan(NoScan) /\ NoKey \in Keys
  BY Constants DEF NoScan, IsScan
<1>3. ASSUME NEW cached, NEW o \in OptSet, NEW names, NEW i, BeginScan(c, cached, o, names, i)
      PROVE  \E s : scan' = [scan EXCEPT ![c] = s] /\ cpc' = [cpc EXCEPT ![c] = "submit"]
                    /\ s.key \in Keys /\ s.opts \in OptSet
  <2> DEFINE s == [NoScan EXCEPT !.cached = cached, !.opts = o, !.todo = names,
                     !.listed = Cardinality(names) + i["total"], !.info = i]
  <2>1. scan' = [scan EXCEPT ![c] = s] /\ cpc' = [cpc EXCEPT ![c] = "submit"]
    BY <1>3 DEF BeginScan
  <2>2. s.key = NoKey /\ s.opts = o
    BY <1>2 DEF IsScan
  <2> QED BY <1>2, <2>1, <2>2
<1>4. CASE Begin(c)
  <2>1. \A o \in Opts : o \in OptSet
    BY ScannerAssumption DEF OptSet
  <2>2. CASE PurgeOffsets(c)
    BY <1>0, <2>2 DEF PurgeOffsets
  <2>3. CASE ~PurgeOffsets(c)
    <3>1. \E cached, names, i : \E o \in Opts : BeginScan(c, cached, o, names, i)
      BY <1>4, <2>3 DEF Begin, ScanCached, Scan, ScanDir
    <3>2. PICK s : scan' = [scan EXCEPT ![c] = s] /\ cpc' = [cpc EXCEPT ![c] = "submit"]
                    /\ s.key \in Keys /\ s.opts \in OptSet
      BY <1>3, <2>1, <3>1
    <3>3. PICK pc : pc = "submit" /\ pc # "enqueue"
      OBVIOUS
    <3> QED BY <1>1, <3>2, <3>3
  <2> QED BY <2>2, <2>3
<1>5. ASSUME NEW n \in Names, StatName(c, n)
      PROVE  \E s : /\ scan' = [scan EXCEPT ![c] = s] /\ cpc' = [cpc EXCEPT ![c] = "enqueue"]
                    /\ Asked(s.key) /\ s.opts \in OptSet
  <2> DEFINE k == [name |-> n, meta |-> disk[Outer[n]], opts |-> scan[c].opts]
             s == [scan[c] EXCEPT !.todo = @ \ {n}, !.key = k]
  <2>1. scan' = [scan EXCEPT ![c] = s] /\ cpc' = [cpc EXCEPT ![c] = "enqueue"]
        /\ disk[Outer[n]] # 0
    BY <1>0, <1>5 DEF StatName
  <2>2. s.key = k /\ s.opts = scan[c].opts
    BY <1>0 DEF IsScan
  <2>3. /\ last[Outer[n]] \in 1 .. MaxVersion /\ disk[Outer[n]] = last[Outer[n]]
        /\ MaxVersion \in Nat
    BY <2>1, Constants DEF ScanInv, DiskInv, Versions
  <2>4. k \in Keys /\ k.name \in Names /\ k.meta \in Had(n)
    BY <1>0, <2>3 DEF Keys, Had, Metas, OptSet
  <2>5. Asked(k)
    BY <2>4 DEF Asked
  <2> HIDE DEF k, s
  <2> QED BY <1>0, <2>1, <2>2, <2>5
<1>6. ASSUME NEW n \in Names, StatGone(c, n) \/ StatFails(c, n)
      PROVE  \E s, pc : /\ scan' = [scan EXCEPT ![c] = s] /\ cpc' = [cpc EXCEPT ![c] = pc]
                        /\ pc # "enqueue" /\ s.key \in Keys /\ s.opts \in OptSet
  <2>1. PICK i : \/ scan' = [scan EXCEPT ![c].todo = @ \ {n}, ![c].key = [NoKey EXCEPT !.name = n],
                                         ![c].info = i]
                 \/ scan' = [scan EXCEPT ![c].todo = @ \ {n}, ![c].info = i]
    BY <1>6 DEF StatGone, StatFails
  <2>2. PICK pc : pc # "enqueue" /\ cpc' = [cpc EXCEPT ![c] = pc]
    <3>1. CASE StatGone(c, n)
      <4>1. PICK pc : pc = (IF scan[c].cached THEN "forget" ELSE "submit")
        OBVIOUS
      <4>2. pc # "enqueue" /\ cpc' = [cpc EXCEPT ![c] = pc]
        BY <3>1, <4>1 DEF StatGone
      <4> QED BY <4>2
    <3>2. CASE StatFails(c, n)
      BY <1>0, <3>2 DEF StatFails, Submitting
    <3> QED BY <1>6, <3>1, <3>2
  <2> DEFINE k == [NoKey EXCEPT !.name = n]
             s1 == [scan[c] EXCEPT !.todo = @ \ {n}, !.key = k, !.info = i]
             s2 == [scan[c] EXCEPT !.todo = @ \ {n}, !.info = i]
  <2>3. k \in Keys
    BY Constants DEF Keys, NoKey
  <2>4. s1.key = k /\ s1.opts = scan[c].opts /\ s2.key = scan[c].key /\ s2.opts = scan[c].opts
    BY <1>0 DEF IsScan
  <2>5. scan' = [scan EXCEPT ![c] = s1] \/ scan' = [scan EXCEPT ![c] = s2]
    BY <1>0, <2>1
  <2> HIDE DEF k, s1, s2
  <2> QED BY <1>0, <2>2, <2>3, <2>4, <2>5
<1>7. CASE Forget(c) \/ Enqueue(c) \/ Awaits(c) \/ Marshal(c)
  <2>1. PICK pc : pc # "enqueue" /\ cpc' = [cpc EXCEPT ![c] = pc]
    <3>1. CASE Awaits(c)
      <4>1. UNCHANGED cpc /\ cpc[c] = "submit"
        BY <3>1 DEF Awaits, Await
      <4>2. cpc' = [cpc EXCEPT ![c] = "submit"]
        BY <1>0, <4>1
      <4> QED BY <4>2
    <3>2. CASE ~Awaits(c)
      BY <1>7, <3>2 DEF Forget, Enqueue, Enqueuing, Marshal
    <3> QED BY <3>1, <3>2
  <2>2. \/ scan' = [scan EXCEPT ![c] = NoScan]
        \/ scan' = [scan EXCEPT ![c].key = NoKey]
        \/ \E is : scan' = [scan EXCEPT ![c].key = NoKey, ![c].await = is]
        \/ \E is, i : scan' = [scan EXCEPT ![c].await = is, ![c].info = i]
    <3>1. CASE Awaits(c)
      <4>1. PICK i \in TaskIds :
              scan' = [scan EXCEPT ![c].await = @ \ {i}, ![c].info = Add(@, task[i].info)]
        BY <3>1 DEF Awaits, Await
      <4>2. PICK is, sum : is = scan[c].await \ {i} /\ sum = Add(scan[c].info, task[i].info)
        OBVIOUS
      <4>3. scan' = [scan EXCEPT ![c].await = is, ![c].info = sum]
        BY <1>0, <4>1, <4>2 DEF IsScan
      <4> QED BY <4>3
    <3>2. CASE ~Awaits(c)
      BY <1>7, <3>2 DEF Forget, Enqueue, NotSubmitted, Share, AddTask, Marshal
    <3> QED BY <3>1, <3>2
  <2>3. PICK s : scan' = [scan EXCEPT ![c] = s] /\ s.key \in {NoKey, scan[c].key}
                 /\ s.opts \in {NoScan.opts, scan[c].opts}
    <3>1. CASE scan' = [scan EXCEPT ![c] = NoScan]
      BY <1>2, <3>1
    <3>2. ASSUME NEW is, NEW i,
                 \/ scan' = [scan EXCEPT ![c].key = NoKey]
                 \/ scan' = [scan EXCEPT ![c].key = NoKey, ![c].await = is]
                 \/ scan' = [scan EXCEPT ![c].await = is, ![c].info = i]
          PROVE  \E s : scan' = [scan EXCEPT ![c] = s] /\ s.key \in {NoKey, scan[c].key}
                        /\ s.opts \in {NoScan.opts, scan[c].opts}
      <4> DEFINE s1 == [scan[c] EXCEPT !.key = NoKey]
                 s2 == [scan[c] EXCEPT !.key = NoKey, !.await = is]
                 s3 == [scan[c] EXCEPT !.await = is, !.info = i]
      <4>1. s1.key = NoKey /\ s2.key = NoKey /\ s3.key = scan[c].key
            /\ s1.opts = scan[c].opts /\ s2.opts = scan[c].opts /\ s3.opts = scan[c].opts
        BY <1>0 DEF IsScan
      <4>2. \/ scan' = [scan EXCEPT ![c] = s1] \/ scan' = [scan EXCEPT ![c] = s2]
            \/ scan' = [scan EXCEPT ![c] = s3]
        BY <1>0, <3>2
      <4> HIDE DEF s1, s2, s3
      <4> QED BY <4>1, <4>2
    <3> QED BY <2>2, <3>1, <3>2
  <2> QED BY <1>0, <1>1, <1>2, <2>1, <2>3
<1>8. CASE AwaitEnds(c) \/ Truncate(c) \/ Write(c) \/ EndCaller(c)
  BY <1>0, <1>8 DEF AwaitEnds, Truncate, Write, EndCaller
<1>9. CASE \E n \in Names : StatName(c, n)
  BY <1>1, <1>5, <1>9 DEF Asked
<1>10. CASE \E n \in Names : StatGone(c, n) \/ StatFails(c, n)
  BY <1>1, <1>6, <1>10
<1> QED BY <1>4, <1>7, <1>8, <1>9, <1>10 DEF CallerStep, Caller, Awaits

LEMMA KeyStep == ScanInv /\ [Next]_vars => KeyInv'
<1> SUFFICES ASSUME ScanInv, [Next]_vars PROVE KeyInv'
  OBVIOUS
<1>0. /\ \A c \in Callers :
           /\ scan[c].key \in Keys /\ scan[c].opts \in OptSet
           /\ cpc[c] = "enqueue" => Asked(scan[c].key)
      /\ closed \in BOOLEAN /\ inflight \subseteq TaskIds
      /\ \A i, j \in inflight : task[i].key = task[j].key => i = j
  BY DEF ScanInv, KeyInv, PoolInv, Shapes
<1>1. NoTask.key = NoKey /\ NoScan.key = NoKey /\ NoScan.opts \in OptSet /\ NoKey \in Keys
  BY Constants DEF NoTask, NoScan
<1>2. CASE New
  BY <1>0, <1>2, KeysStay DEF New, Start, poolVars
<1>3. CASE ForceExit
  <2>1. /\ task' = [i \in TaskIds |-> NoTask] /\ inflight' = {} /\ closed' = FALSE
        /\ cpc' = [c \in Callers |-> "ended"] /\ scan' = [c \in Callers |-> NoScan]
    BY <1>3 DEF ForceExit, Vanish
  <2> QED BY <1>1, <2>1, KeysStay
<1>4. CASE MainStep
  <2>1. closed' \in BOOLEAN
    BY <1>0, <1>4 DEF MainStep, Refused, Cancel, CloseBegin, CaptureEnds, CloseEnd, ScanJoined, Finished,
       CloseScanner, vars, scanVars, poolVars
  <2> QED BY <1>0, <1>4, <2>1, MainLeaves, KeysStay
<1>5. CASE \E f \in Files : Replace(f) \/ Remove(f)
  BY <1>0, <1>5, FilesLeave, KeysStay
<1>6. ASSUME NEW w \in Workers, WorkerStep(w) PROVE KeyInv'
  <2>1. \A i \in TaskIds : task'[i].key = task[i].key
    BY <1>6, WorkerKeys DEF ScanInv
  <2>2. inflight' \subseteq inflight
    BY <1>6, WorkerKeys DEF ScanInv
  <2>3. UNCHANGED <<scan, cpc, closed>>
    BY <1>6, WorkerLeaves
  <2> QED BY <1>0, <2>1, <2>2, <2>3, KeysStay
<1>7. ASSUME NEW c \in Callers, Begin(c) \/ CallerStep(c) \/ EndCaller(c) PROVE KeyInv'
  <2>1. \A d \in Callers :
          /\ scan'[d].key \in Keys /\ scan'[d].opts \in OptSet
          /\ cpc'[d] = "enqueue" => Asked(scan'[d].key)
    BY <1>7, CallerKeys
  <2>2. closed' = closed
    BY <1>7 DEF Begin, ScanCached, Scan, ScanDir, BeginScan, PurgeOffsets, EndCaller, CallerStep, Caller,
       StatName, StatGone, StatFails, Forget, Enqueue, NotSubmitted, Share, AddTask, Await, AwaitEnds,
       Marshal, Truncate, Write, poolVars
  <2>3. CASE Awaits(c)
    <3>1. UNCHANGED inflight /\ \A i \in inflight : task'[i] = task[i]
      BY <1>0, <2>3, ForgottenTasks DEF ScanInv, PoolInv, NotClosed
    <3>2. \A i \in TaskIds : task'[i] = task[i] \/ task'[i] = NoTask
      BY <2>3, ForgottenTasks
    <3> QED BY <1>0, <1>1, <2>1, <2>2, <3>1, <3>2, KeysStay
  <2>4. CASE Enqueue(c) /\ ~closed /\ SameKey(c) = {}
    <3>1. PICK i \in TaskIds :
            /\ ~Owned(i) /\ inflight' = inflight \cup {i} /\ task'[i].key = scan[c].key
            /\ \A j \in TaskIds : j # i => task'[j] = task[j]
      BY <2>4, AddedTask
    <3>2. cpc[c] = "enqueue"
      BY <2>4 DEF Enqueue, Enqueuing
    <3>3. i \notin inflight /\ \A j \in inflight : task[j].key # scan[c].key
      BY <2>4, <3>1 DEF SameKey, ScanInv, PoolInv, NotClosed
    <3>4. \A j, k \in inflight' : task'[j].key = task'[k].key => j = k
      BY <1>0, <3>1, <3>3
    <3>5. \A j \in TaskIds : \/ task'[j].key = task[j].key
                             \/ cpc[c] = "enqueue" /\ task'[j].key = scan[c].key
      BY <3>1, <3>2
    <3> QED BY <1>0, <2>1, <2>2, <3>4, <3>5, KeysStay
  <2>5. CASE ~Awaits(c) /\ ~(Enqueue(c) /\ ~closed /\ SameKey(c) = {})
    BY <1>0, <1>7, <2>1, <2>5, CallerTasks, KeysStay
  <2> QED BY <2>3, <2>4, <2>5
<1> QED BY <1>2, <1>3, <1>4, <1>5, <1>6, <1>7, Steps, MainAssumption DEF EndScans

-----------------------------------------------------------------------------
(* What workers know. *)

(* A worker that another actor's step leaves where it is.                    *)
LEMMA PhaseKept ==
  ASSUME ScanInv, [Next]_vars, ~ForceExit, NEW w \in Workers, HeldBy(w),
         wpc'[w] = wpc[w], wtask'[w] = wtask[w], local'[w] = local[w],
         wpc[w] = "stat" /\ KeyOf(w).name \notin raced' =>
           disk'[Outer[KeyOf(w).name]] = disk[Outer[KeyOf(w).name]]
  PROVE  Phase(KeyOf(w), wpc[w], local[w])'
<1>1. PICK k, n, l, pc : k = KeyOf(w) /\ n = k.name /\ l = local[w] /\ pc = wpc[w]
  OBVIOUS
<1>2. n \in Names /\ Phase(k, pc, l) /\ k.meta \in Had(n)
  BY <1>1, HeldKey DEF Asked
<1>3. KeyOf(w)' = k /\ local'[w] = l /\ wpc'[w] = pc
  BY <1>1, HeldKey, OwnedKeys DEF KeyOf
<1>4. DiskInv /\ Grows
  BY DiskStep DEF ScanInv
<1>5. Good(n, l.had)'
  BY <1>1, <1>2, <1>4, GoodGrows DEF Phase
<1>6. /\ last[Outer[n]] \in 1 .. MaxVersion /\ last'[Outer[n]] \in 1 .. MaxVersion
      /\ last[Outer[n]] <= last'[Outer[n]] /\ MaxVersion \in Nat
      /\ k.meta \in 1 .. last[Outer[n]] /\ (n \notin raced' => n \notin raced)
      /\ Had(n) \subseteq Had(n)'
  BY <1>2, <1>4, HadGrows, Constants DEF Grows, Versions, Had
<1>7. Looked(n, k.meta, l) => Looked(n, k.meta, l)'
  BY <1>6 DEF Looked, Had
<1>8. Phase(k, pc, l)'
  <2>1. pc = "stat" =>
          /\ l.opened \in k.meta .. last'[Outer[n]]
          /\ n \notin raced' => l.opened = disk'[Outer[n]]
    BY <1>1, <1>2, <1>6 DEF Phase
  <2>2. pc = "result" =>
          (n \notin raced' => l.hash \in {Content[n][v] : v \in k.meta .. last'[Outer[n]]})
    <3>1. k.meta .. last[Outer[n]] \subseteq k.meta .. last'[Outer[n]]
      BY <1>6
    <3> QED BY <1>1, <1>2, <1>6, <3>1 DEF Phase
  <2> QED BY <1>1, <1>2, <1>5, <1>7, <2>1, <2>2 DEF Phase
<1> QED BY <1>3, <1>8 DEF Phase, Good, Looked, Had

(* A worker after a step of its own. *)
LEMMA PhaseReached ==
  ASSUME UNCHANGED <<disk, last, raced>>, NEW w \in Workers, NEW k, NEW pc, NEW l, Phase(k, pc, l),
         KeyOf(w)' = k, wpc'[w] = pc, local'[w] = l
  PROVE  Phase(KeyOf(w), wpc[w], local[w])'
BY DEF Phase, Good, Looked, Had

LEMMA OwnStep ==
  ASSUME ScanInv, [Next]_vars, NEW w \in Workers, WorkerStep(w), HeldBy(w)'
  PROVE  Phase(KeyOf(w), wpc[w], local[w])'
<1>0. /\ UNCHANGED <<disk, last, raced>> /\ DiskInv
      /\ local = [v \in Workers |-> local[v]] /\ wpc = [v \in Workers |-> wpc[v]]
      /\ wtask \in [Workers -> TaskIds \cup {NoTaken}] /\ task = [i \in TaskIds |-> task[i]]
  BY WorkerLeaves DEF ScanInv, WorkInv, PoolInv, Shapes
<1>1. \A i \in TaskIds : task'[i].key = task[i].key
  BY WorkerKeys DEF ScanInv
<1>2. CASE Take(w)
  <2> DEFINE i == Head(queue)  k == task[i].key  e == file[k.name]
             l == [NoLocal EXCEPT !.had = e, !.known = (e # NoEntry /\ e.hash \in offsets)]
  <2>1. wpc'[w] = "open" /\ local'[w] = l /\ wtask'[w] = i
    BY <1>0, <1>2 DEF Take, GoTo
  <2>2. i \in TaskIds /\ Owned(i)
    <3>1. queue \in Seq(TaskIds) /\ queue # <<>>
      BY <1>2 DEF Take, ScanInv, PoolInv, Shapes
    <3>2. i \in TaskIds /\ i = queue[1] /\ 1 \in DOMAIN queue
      BY <3>1, HeadTailProperties, LenProperties
    <3> QED BY <3>2 DEF Owned, Queued
  <2>3. k.name \in Names
    BY <2>2, Constants DEF ScanInv, PoolInv, NotClosed, Named, KeyInv, Asked
  <2>4. Good(k.name, e)
    BY <2>3 DEF ScanInv, CacheInv, GoodCache, Current
  <2>5. IsLocal(l) /\ l.had = e /\ l.known = (e # NoEntry /\ e.hash \in offsets)
    BY DEF NoLocal, IsLocal
  <2>6. KeyOf(w)' = k
    BY <1>1, <2>1, <2>2 DEF KeyOf
  <2> HIDE DEF i, k, e, l
  <2>7. l.known \in BOOLEAN /\ (l.known => l.had # NoEntry)
    BY <2>5
  <2>8. PICK pc : pc = "open"
    OBVIOUS
  <2>9. Phase(k, pc, l)
    BY <2>4, <2>5, <2>7, <2>8 DEF Phase
  <2> QED BY <1>0, <2>1, <2>6, <2>8, <2>9, PhaseReached
<1>3. CASE Leave(w) \/ CloseDone(w)
  BY <1>0, <1>3 DEF Leave, CloseDone, GoTo, HeldBy
<1>4. ASSUME HeldBy(w), UNCHANGED wtask,
             NEW pc, NEW l, wpc'[w] = pc, local'[w] = l,
             Phase(KeyOf(w), pc, l)
      PROVE  Phase(KeyOf(w), wpc[w], local[w])'
  <2>1. PICK k : k = KeyOf(w)
    OBVIOUS
  <2>2. KeyOf(w)' = k
    BY <1>1, <1>4, <2>1, HeldKey DEF KeyOf
  <2> QED BY <1>0, <1>4, <2>1, <2>2, PhaseReached
<1>5. CASE Open(w) \/ Stat(w) \/ Hash(w) \/ AnalysisFails(w) \/ Commit(w) \/ Retire(w)
  <2>0. HeldBy(w) /\ UNCHANGED wtask
    BY <1>5 DEF Open, Stat, Hash, AnalysisFails, Commit, Committed, Retire, HeldBy
  <2>1. PICK k, n, l : k = KeyOf(w) /\ n = k.name /\ l = local[w]
    OBVIOUS
  <2>2. n \in Names /\ Phase(k, wpc[w], l) /\ k.meta \in Had(n) /\ Outer[n] \in Files
    BY <2>0, <2>1, HeldKey, Constants DEF Asked
  <2>3. /\ last[Outer[n]] \in 1 .. MaxVersion /\ MaxVersion \in Nat
        /\ k.meta \in 1 .. last[Outer[n]] /\ disk[Outer[n]] \in {0, last[Outer[n]]}
    BY <1>0, <2>2, Constants DEF DiskInv, Versions, Had
  <2>4. ASSUME NEW pc, pc \in {"retire", "close"}, wpc'[w] = pc, local'[w] = l
        PROVE  Phase(KeyOf(w), wpc[w], local[w])'
    <3>1. Phase(k, pc, l)
      BY <2>1, <2>2, <2>4 DEF Phase
    <3> QED BY <1>4, <2>0, <2>1, <2>4, <3>1
  <2>5. CASE Open(w)
    <3>1. wpc[w] = "open"
      BY <2>5 DEF Open
    <3>2. CASE wpc'[w] = "retire" /\ local'[w] = l
      BY <2>4, <3>2
    <3>3. CASE ~(wpc'[w] = "retire" /\ local'[w] = l)
      <4>1. PICK v : v = disk[Outer[n]]
        OBVIOUS
      <4>2. v # 0 /\ wpc'[w] = "stat" /\ local'[w] = [l EXCEPT !.opened = v]
        BY <1>0, <2>1, <2>5, <3>3, <4>1 DEF Open, GoTo
      <4>3. PICK new, pc : new = [l EXCEPT !.opened = v] /\ pc = "stat"
        OBVIOUS
      <4>4. IsLocal(new) /\ new.had = l.had /\ new.known = l.known /\ new.opened = v
        BY <2>2, <4>3 DEF Phase, IsLocal
      <4>5. v \in k.meta .. last[Outer[n]]
        BY <2>3, <4>1, <4>2
      <4>6. Phase(k, pc, new)
        BY <2>1, <2>2, <3>1, <4>1, <4>3, <4>4, <4>5 DEF Phase
      <4> QED BY <1>4, <2>0, <2>1, <4>2, <4>3, <4>6
    <3> QED BY <3>2, <3>3
  <2>6. CASE Stat(w)
    <3>1. wpc[w] = "stat"
      BY <2>6 DEF Stat
    <3>2. CASE UpToDate(w)
      <4>1. PICK new, pc : new = [l EXCEPT !.hash = l.had.hash] /\ pc = "result"
        OBVIOUS
      <4>2. wpc'[w] = pc /\ local'[w] = new
        BY <1>0, <2>1, <2>6, <3>2, <4>1 DEF Stat, GoTo
      <4>3. IsLocal(new) /\ new.had = l.had /\ new.known = l.known /\ new.hash = l.had.hash
        BY <2>2, <4>1 DEF Phase, IsLocal
      <4>4. /\ l.had # NoEntry /\ l.had.meta = k.meta /\ Good(n, l.had)
        BY <2>1, <2>2, <3>1, <3>2 DEF UpToDate, Phase
      <4>5. /\ l.had.hash \in Hashes /\ (n \notin raced => l.had.hash = Content[n][k.meta])
            /\ k.meta \in k.meta .. last[Outer[n]]
        BY <2>3, <4>4 DEF Good
      <4>6. Phase(k, pc, new)
        BY <2>1, <2>2, <4>1, <4>3, <4>5 DEF Phase
      <4> QED BY <1>4, <2>0, <2>1, <4>2, <4>6
    <3>3. CASE ~UpToDate(w)
      <4>1. PICK v : v = IF disk[Outer[n]] = 0 THEN k.meta ELSE disk[Outer[n]]
        OBVIOUS
      <4>2. PICK new, pc : new = [l EXCEPT !.meta = v] /\ pc = "hash"
        OBVIOUS
      <4>3. wpc'[w] = pc /\ local'[w] = new
        BY <1>0, <2>1, <2>6, <3>3, <4>1, <4>2 DEF Stat, GoTo
      <4>4. IsLocal(new) /\ new.had = l.had /\ new.known = l.known /\ new.opened = l.opened
            /\ new.meta = v
        BY <2>2, <4>2 DEF Phase, IsLocal
      <4>5. /\ l.opened \in k.meta .. last[Outer[n]]
            /\ n \notin raced => l.opened = disk[Outer[n]]
        BY <2>1, <2>2, <3>1 DEF Phase
      <4>6. v \in Had(n) /\ (n \notin raced => v = l.opened)
        BY <2>3, <4>1, <4>5 DEF Had
      <4>7. Looked(n, k.meta, new)
        BY <4>4, <4>5, <4>6 DEF Looked
      <4>8. Phase(k, pc, new)
        BY <2>1, <2>2, <4>2, <4>4, <4>7 DEF Phase
      <4> QED BY <1>4, <2>0, <2>1, <4>3, <4>8
    <3> QED BY <3>2, <3>3
  <2>7. CASE Hash(w)
    <3>1. wpc[w] = "hash"
      BY <2>7 DEF Hash
    <3>2. CASE wpc'[w] = "retire" /\ local'[w] = l
      BY <2>4, <3>2
    <3>3. CASE ~(wpc'[w] = "retire" /\ local'[w] = l)
      <4>1. PICK h : h = Content[n][l.opened]
        OBVIOUS
      <4>2. PICK new, pc : new = [l EXCEPT !.hash = h, !.known = (h \in offsets)] /\ pc = "analyze"
        OBVIOUS
      <4>3. wpc'[w] = pc /\ local'[w] = new
        BY <1>0, <2>1, <2>7, <3>3, <4>1, <4>2 DEF Hash, GoTo
      <4>4. IsLocal(new) /\ new.had = l.had /\ new.opened = l.opened
            /\ new.meta = l.meta /\ new.hash = h /\ new.known = (h \in offsets)
        BY <2>2, <4>2 DEF Phase, IsLocal
      <4>5. Looked(n, k.meta, new)
        BY <2>1, <2>2, <3>1, <4>4 DEF Phase, Looked
      <4>6. new.known \in BOOLEAN
        BY <4>4
      <4>7. Phase(k, pc, new)
        BY <2>1, <2>2, <4>1, <4>2, <4>4, <4>5, <4>6 DEF Phase
      <4> QED BY <1>4, <2>0, <2>1, <4>3, <4>7
    <3> QED BY <3>2, <3>3
  <2>8. CASE AnalysisFails(w)
    <3>1. wpc'[w] = "retire" /\ local'[w] = l
      BY <1>0, <2>1, <2>8 DEF AnalysisFails, GoTo
    <3> QED BY <2>4, <3>1
  <2>9. CASE Commit(w)
    <3>1. wpc[w] = "analyze" /\ local'[w] = l
      BY <2>1, <2>9 DEF Commit, Committed
    <3>2. PICK pc : pc = "result" /\ wpc'[w] = pc
      BY <1>0, <2>9 DEF Commit, Committed, GoTo
    <3>3. l.opened \in k.meta .. last[Outer[n]] /\ l.hash = Content[n][l.opened]
      BY <2>1, <2>2, <3>1 DEF Phase, Looked
    <3>4. l.opened \in Versions
      BY <2>3, <3>3 DEF Versions
    <3>5. l.hash \in Hashes
      BY <2>2, <3>3, <3>4, Constants
    <3>6. Phase(k, pc, l)
      BY <2>1, <2>2, <3>2, <3>3, <3>5 DEF Phase
    <3> QED BY <1>4, <2>0, <2>1, <3>1, <3>2, <3>6
  <2>10. CASE Retire(w)
    <3>1. wpc'[w] = "close" /\ local'[w] = l
      BY <1>0, <2>1, <2>10 DEF Retire, GoTo
    <3> QED BY <2>4, <3>1
  <2> QED BY <1>5, <2>5, <2>6, <2>7, <2>8, <2>9, <2>10
<1> QED BY <1>2, <1>3, <1>5 DEF WorkerStep, Worker

LEMMA OtherWorkers ==
  ASSUME ScanInv, NEW v \in Workers, WorkerStep(v)
  PROVE  /\ local' = [w \in Workers |-> local'[w]]
         /\ \A w \in Workers \ {v} : wpc'[w] = wpc[w] /\ wtask'[w] = wtask[w] /\ local'[w] = local[w]
<1>1. /\ local = [w \in Workers |-> local[w]] /\ wpc = [w \in Workers |-> wpc[w]]
      /\ wtask = [w \in Workers |-> wtask[w]]
  BY DEF ScanInv, WorkInv, PoolInv, Shapes
<1>2. \E pc : wpc' = [wpc EXCEPT ![v] = pc]
  BY DEF WorkerStep, Worker, Take, Leave, Open, Stat, Hash, AnalysisFails, Commit, Committed,
     Retire, CloseDone, GoTo
<1>3. \E i : wtask' = [wtask EXCEPT ![v] = i]
  <2>1. UNCHANGED wtask \/ \E i : wtask' = [wtask EXCEPT ![v] = i]
    BY DEF WorkerStep, Worker, Take, Leave, Open, Stat, Hash, AnalysisFails, Commit, Committed,
       Retire, CloseDone
  <2>2. wtask = [wtask EXCEPT ![v] = wtask[v]]
    BY <1>1
  <2> QED BY <2>1, <2>2
<1>4. \E l : local' = [local EXCEPT ![v] = l]
  <2>1. local = [local EXCEPT ![v] = local[v]]
    BY <1>1
  <2>2. CASE Take(v) \/ CloseDone(v)
    BY <2>2 DEF Take, CloseDone
  <2>3. CASE Leave(v) \/ AnalysisFails(v) \/ Commit(v) \/ Retire(v)
    BY <2>1, <2>3 DEF Leave, AnalysisFails, Commit, Committed, Retire
  <2>4. CASE Open(v)
    BY <1>1, <2>1, <2>4 DEF Open
  <2>5. CASE Stat(v)
    BY <1>1, <2>1, <2>5 DEF Stat
  <2>6. CASE Hash(v)
    <3>1. \/ UNCHANGED local
          \/ \E h, known : local' = [local EXCEPT ![v].hash = h, ![v].known = known]
      BY <2>6 DEF Hash
    <3>2. ASSUME NEW h, NEW known, local' = [local EXCEPT ![v].hash = h, ![v].known = known]
          PROVE  local' = [local EXCEPT ![v] = [local[v] EXCEPT !.hash = h, !.known = known]]
      BY <1>1, <3>2
    <3> QED BY <2>1, <3>1, <3>2
  <2> QED BY <2>2, <2>3, <2>4, <2>5, <2>6 DEF WorkerStep, Worker
<1> QED BY <1>1, <1>2, <1>3, <1>4

LEMMA WorkStep == ScanInv /\ [Next]_vars => WorkInv'
<1> SUFFICES ASSUME ScanInv, [Next]_vars PROVE WorkInv'
  OBVIOUS
<1>1. local' = [w \in Workers |-> local'[w]]
  <2>1. local = [w \in Workers |-> local[w]]
    BY DEF ScanInv, WorkInv
  <2>2. CASE ForceExit
    BY <2>2 DEF ForceExit, Vanish
  <2>3. CASE UNCHANGED local
    BY <2>1, <2>3
  <2> QED BY <2>2, <2>3, Steps, OtherWorkers, CallerLeaves, MainLeaves, FilesLeave, EndsLeave,
             MainAssumption DEF New, EndScans
<1> SUFFICES ASSUME NEW w \in Workers, HeldBy(w)' PROVE Phase(KeyOf(w), wpc[w], local[w])'
  BY <1>1 DEF WorkInv
<1>2. CASE New \/ ForceExit
  BY <1>2 DEF New, Start, ForceExit, Vanish, HeldBy
<1>3. CASE UNCHANGED <<wpc, wtask, local, disk>> /\ ~ForceExit
  BY <1>3, PhaseKept DEF HeldBy
<1>4. ASSUME NEW f \in Files, Replace(f) \/ Remove(f), ~ForceExit
      PROVE  Phase(KeyOf(w), wpc[w], local[w])'
  <2>1. UNCHANGED <<wpc, wtask, local>> /\ raced' = raced \cup InWindow(f) /\ HeldBy(w)
    BY <1>4, FilesLeave DEF HeldBy
  <2>2. \E v \in {0, last[f] + 1} : disk' = [disk EXCEPT ![f] = v]
    BY <1>4, FilesLeave
  <2>3. ASSUME wpc[w] = "stat", KeyOf(w).name \notin raced'
        PROVE  disk'[Outer[KeyOf(w).name]] = disk[Outer[KeyOf(w).name]]
    <3>1. Outer[KeyOf(w).name] # f
      BY <2>1, <2>3 DEF InWindow, KeyOf
    <3>2. Outer[KeyOf(w).name] \in Files /\ disk = [g \in Files |-> disk[g]]
      BY <2>1, HeldKey, Constants DEF ScanInv, DiskInv
    <3> QED BY <2>2, <3>1, <3>2
  <2> QED BY <1>4, <2>1, <2>3, PhaseKept
<1>5. ASSUME NEW v \in Workers, WorkerStep(v), ~ForceExit
      PROVE  Phase(KeyOf(w), wpc[w], local[w])'
  <2>1. CASE w = v
    BY <1>5, <2>1, OwnStep
  <2>2. CASE w # v
    <3>1. wpc'[w] = wpc[w] /\ wtask'[w] = wtask[w] /\ local'[w] = local[w] /\ UNCHANGED disk
      BY <1>5, <2>2, OtherWorkers, WorkerLeaves
    <3> QED BY <1>5, <3>1, PhaseKept DEF HeldBy
  <2> QED BY <2>1, <2>2
<1> QED BY <1>2, <1>3, <1>4, <1>5, Steps, CallerLeaves, MainLeaves, MainAssumption DEF EndScans

-----------------------------------------------------------------------------
LEMMA ScanInit == Init => ScanInv
<1> SUFFICES ASSUME Init PROVE ScanInv
  OBVIOUS
<1> USE DEF Init, ScannerInit
<1>1. PoolInv
  BY InitPool
<1>2. DiskInv /\ \A f \in Files : last[f] = 1
  BY Constants DEF DiskInv, Versions, Metas
<1>3. \A w \in Workers : ~HeldBy(w)
  BY DEF HeldBy
<1>4. WorkInv
  BY <1>3 DEF WorkInv
<1>5. KeyInv
  BY Constants DEF KeyInv, NoTask, NoScan
<1>6. GoodCache(EmptyCache) /\ GoodCache(Left)
  <2>1. ASSUME NEW n \in Names PROVE Good(n, [meta |-> 1, hash |-> Content[n][1]])
    <3>1. 1 \in Had(n) /\ 1 \in Versions /\ Content[n][1] \in Hashes
      BY <1>2, Constants DEF Had
    <3> QED BY <3>1 DEF Good
  <2>2. \A n \in Names : Good(n, Left.file[n])
    BY <2>1 DEF Left, Good
  <2>3. Left.offsets \subseteq Hashes
    BY Constants DEF Left
  <2>4. Left.file \in [Names -> Entries]
    <3>1. \A n \in Names : Left.file[n] \in Entries
      BY <2>2, Constants DEF Good
    <3> QED BY <3>1 DEF Left
  <2>5. Left = [file |-> Left.file, offsets |-> Left.offsets]
    BY DEF Left
  <2>6. Left \in Caches
    BY <2>3, <2>4, <2>5 DEF Caches
  <2> QED BY <2>2, <2>6, EmptyIsGood DEF GoodCache
<1>7. CacheInv
  <2>1. Current = EmptyCache
    BY DEF Current, EmptyCache
  <2>2. Absent \in SavedSet /\ Absent.cache = EmptyCache
    BY Constants DEF Absent, SavedSet
  <2>3. Whole(Left) \in SavedSet /\ Whole(Left).cache = Left
    <3>1. Whole(Left) \in [is : {"whole"}, len : Nat, cache : Caches]
      BY <1>6, WholeType DEF GoodCache
    <3>2. Whole(Left).cache = Left
      BY DEF Whole
    <3> QED BY <3>1, <3>2 DEF SavedSet
  <2>4. saved \in SavedSet /\ GoodCache(saved.cache)
    BY <1>6, <2>2, <2>3
  <2> QED BY <1>6, <2>1, <2>4 DEF CacheInv, SavedSet
<1> QED BY <1>1, <1>2, <1>4, <1>5, <1>7 DEF ScanInv

(* What every task, worker, cache entry and cache file is about holds in      *)
(* every state: an entry is of a version its library has had, a worker keeps *)
(* what it has looked up for the key of its task (processTask).              *)
THEOREM ScanInvariant == Spec => []ScanInv
<1>1. ScanInv /\ [Next]_vars => ScanInv'
  BY NextPool, DiskStep, CacheStep, KeyStep, WorkStep DEF ScanInv
<1> QED BY <1>1, ScanInit, PTL DEF Spec

(* Every variable has its type, at every version of the files; and two tasks *)
(* in flight never have the same key, so that a scan that asks for what      *)
(* another has asked for shares its task (submitTask).                       *)
THEOREM TypeCorrect == Spec => []TypeOK
<1>1. ScanInv => TypeOK
  <2> SUFFICES ASSUME ScanInv PROVE TypeOK
    OBVIOUS
  <2>1. disk \in [Files -> Metas] /\ last \in [Files -> Metas]
    BY Constants DEF ScanInv, DiskInv
  <2>2. file \in [Names -> Entries] /\ offsets \subseteq Hashes
    BY DEF ScanInv, CacheInv, GoodCache, Current, Caches
  <2>3. saved.is \in {"absent", "torn", "whole"} /\ saved.len \in Nat
    BY DEF ScanInv, CacheInv
  <2>4. \A i \in TaskIds : task[i].key \in Keys /\ task[i].closes \in Nat
    BY Constants DEF ScanInv, KeyInv, Asked, PoolInv, Shapes
  <2>5. queue \in Seq(TaskIds) /\ inflight \subseteq TaskIds /\ closed \in BOOLEAN
        /\ \A i, j \in inflight : task[i].key = task[j].key => i = j
    BY DEF ScanInv, KeyInv, PoolInv, Shapes
  <2>6. \A w \in Workers : wtask[w] \in TaskIds \/ wpc[w] \in {"idle", "gone"}
    BY DEF ScanInv, PoolInv, OneOwner, HeldBy
  <2> QED BY <2>1, <2>2, <2>3, <2>4, <2>5, <2>6 DEF TypeOK
<1> QED BY <1>1, ScanInvariant, PTL

(* What is cached of a file, in memory and in what is saved, is of the       *)
(* version that the entry names, whatever is replaced, removed, scanned at   *)
(* the same time or closed (processTask): but for a file replaced between a  *)
(* worker's open and its stat, the hash, and with it the offsets that a key  *)
(* log needs, are never those of another version.                            *)
THEOREM CacheIsSound == Spec => []CacheSound
<1>1. ScanInv => CacheSound
  BY DEF ScanInv, CacheInv, GoodCache, Current, Good, CacheSound
<1> QED BY <1>1, ScanInvariant, PTL

(* A result is of the version that the scan has asked for or of a later one, *)
(* with the same exception, also if the cache knew an older one              *)
(* (processTask, OnResult).                                                  *)
THEOREM ResultsAreFresh == Spec => []ResultFresh
<1>1. ScanInv => ResultFresh
  BY DEF ScanInv, WorkInv, Phase, HeldBy, ResultFresh
<1> QED BY <1>1, ScanInvariant, PTL

-----------------------------------------------------------------------------
(* The cache file.  While a scan has work to do, somebody waits for every    *)
(* task that is not closed; otherwise the cache is what is saved, or what    *)
(* the one caller in saveCache has marshalled.                               *)

Scanning == {"submit", "enqueue", "forget"}
Settled == Running /\ mishap = {} /\ \A c \in Callers : cpc[c] \notin Scanning \cup {"marshal"}

SaveInv ==
  /\ saved.is = "whole" => saved = Whole(saved.cache)
  /\ saved.is = "torn" => mishap # {} \/ \E c \in Callers : cpc[c] = "write"
  /\ mishap = {} =>
       /\ \A c, d \in Callers : Saving(c) /\ Saving(d) => c = d
       /\ \A c \in Callers : cpc[c] = "write" => saved = Torn(0)
WaitInv ==
  /\ \A i \in TaskIds : Owned(i) => \E c \in Callers : i \in scan[c].await
  /\ \A c \in Callers : scan[c].await # {} => cpc[c] \in Scanning
  /\ main = "down" => \A c \in Callers : cpc[c] = "ended"
SettledInv ==
  Settled => /\ \A c \in Callers : Saving(c) => image[c] = Current
             /\ (\A c \in Callers : ~Saving(c)) => saved = Whole(Current)
FileInv == ScanInv /\ SaveInv /\ WaitInv /\ SettledInv

LEMMA OwnedShrinks ==
  ASSUME PoolInv, NEW w \in Workers, WorkerStep(w), NEW i \in TaskIds, Owned(i)'
  PROVE  Owned(i)
<1>0. wtask = [v \in Workers |-> wtask[v]] /\ i # NoTaken
  BY ScannerAssumption DEF PoolInv, Shapes, NoTaken
<1>1. CASE Take(w)
  <2>1. queue \in Seq(TaskIds) /\ queue # <<>> /\ queue' = Tail(queue)
        /\ wtask' = [wtask EXCEPT ![w] = Head(queue)]
    BY <1>1 DEF Take, PoolInv, Shapes
  <2>2. /\ 1 \in DOMAIN queue /\ Head(queue) = queue[1]
        /\ \A k \in DOMAIN queue' : k + 1 \in DOMAIN queue /\ queue'[k] = queue[k + 1]
    BY <2>1, HeadTailProperties, LenProperties
  <2>3. i \in Queued' => i \in Queued
    BY <2>2 DEF Queued
  <2>4. Head(queue) \in Queued
    BY <2>2 DEF Queued
  <2> QED BY <1>0, <2>1, <2>3, <2>4 DEF Owned
<1>2. CASE Leave(w)
  BY <1>2 DEF Leave, Owned, Queued
<1>3. CASE CloseDone(w)
  <2>1. Queued' = Queued /\ wtask' = [wtask EXCEPT ![w] = NoTaken]
    BY <1>3 DEF CloseDone, Queued
  <2> QED BY <1>0, <2>1 DEF Owned
<1>4. CASE UNCHANGED <<queue, wtask>>
  BY <1>4 DEF Owned, Queued
<1> QED BY <1>1, <1>2, <1>3, <1>4
        DEF WorkerStep, Worker, Open, Stat, Hash, AnalysisFails, Commit, Committed, Retire

(* Only a worker with a task changes the cache. *)
LEMMA WorkersWrite ==
  ASSUME ScanInv, WaitInv, NEW w \in Workers, WorkerStep(w), Current' # Current
  PROVE  \E c \in Callers : cpc[c] \in Scanning
<1>1. Hash(w) \/ Commit(w)
  BY DEF Current, WorkerStep, Worker, Take, Leave, Open, Stat, AnalysisFails, Retire, CloseDone, cacheVars
<1>2. wtask[w] \in TaskIds /\ Owned(wtask[w])
  BY <1>1, HeldKey DEF Hash, Commit, Committed, HeldBy
<1> QED BY <1>2 DEF WaitInv

LEMMA SaveKept ==
  ASSUME SaveInv, UNCHANGED <<saved, mishap>>,
         \A c \in Callers : (Saving(c)' <=> Saving(c)) /\ (cpc'[c] = "write" <=> cpc[c] = "write")
  PROVE  SaveInv'
BY DEF SaveInv

(* Steps of other actors than the callers. *)
LEMMA QuietFile ==
  ASSUME FileInv, UNCHANGED <<saved, mishap, image, cpc, scan>>, Running' => Running,
         main' = "down" => main = "down",
         Current' # Current => \E c \in Callers : cpc[c] \in Scanning,
         \A i \in TaskIds : Owned(i)' => Owned(i)
  PROVE  SaveInv' /\ WaitInv' /\ SettledInv'
<1>1. SaveInv'
  BY SaveKept DEF FileInv, Saving
<1>2. WaitInv'
  BY DEF FileInv, WaitInv
<1>3. SettledInv'
  <2>1. \A c \in Callers : Saving(c)' <=> Saving(c)
    BY DEF Saving
  <2>2. Settled' => Settled /\ Current' = Current
    BY DEF Settled
  <2> QED BY <2>1, <2>2 DEF FileInv, SettledInv
<1> QED BY <1>1, <1>2, <1>3

(* A caller that lists and submits. *)
LEMMA SubmitFile ==
  ASSUME FileInv, NEW c \in Callers, UNCHANGED <<saved, mishap, image, wtask>>, main' # "down",
         cpc[c] \notin {"truncate", "write"},
         NEW pc \in Scanning \cup {"marshal"}, cpc' = [cpc EXCEPT ![c] = pc],
         \A d \in Callers \ {c} : scan'[d].await = scan[d].await,
         scan'[c].await # {} => pc \in Scanning,
         \A i \in TaskIds : Owned(i)' => \E d \in Callers : i \in scan'[d].await
  PROVE  SaveInv' /\ WaitInv' /\ SettledInv'
<1>0. \A d \in Callers : cpc'[d] = IF d = c THEN pc ELSE cpc[d]
  BY DEF FileInv, ScanInv, PoolInv, Shapes
<1>1. pc \notin {"truncate", "write"}
  BY DEF Scanning
<1>2. \A d \in Callers : (Saving(d)' <=> Saving(d)) /\ (cpc'[d] = "write" <=> cpc[d] = "write")
  BY <1>0, <1>1 DEF Saving
<1>3. SaveInv'
  BY <1>2, SaveKept DEF FileInv
<1>4. ~Settled'
  BY <1>0 DEF Settled
<1>5. WaitInv'
  BY <1>0 DEF FileInv, WaitInv
<1> QED BY <1>3, <1>4, <1>5 DEF SettledInv

(* The tasks that are owned after a step of a caller that waits for as many. *)
LEMMA StillAwaited ==
  ASSUME WaitInv, NEW c \in Callers, UNCHANGED <<queue, wtask>>,
         \A d \in Callers \ {c} : scan'[d].await = scan[d].await,
         scan[c].await \subseteq scan'[c].await
  PROVE  \A i \in TaskIds : Owned(i)' => \E d \in Callers : i \in scan'[d].await
<1>1. \A i \in TaskIds : Owned(i)' <=> Owned(i)
  BY DEF Owned, Queued
<1>2. \A d \in Callers : scan[d].await \subseteq scan'[d].await
  OBVIOUS
<1> QED BY <1>1, <1>2 DEF WaitInv

LEMMA SubmitStep ==
  ASSUME FileInv, NEW c \in Callers, main' # "down",
         \/ \E n \in Names : StatName(c, n) \/ StatGone(c, n) \/ StatFails(c, n)
         \/ Forget(c) \/ Enqueue(c)
  PROVE  SaveInv' /\ WaitInv' /\ SettledInv'
<1>0. /\ IsScan(scan[c]) /\ scan = [d \in Callers |-> scan[d]] /\ cpc = [d \in Callers |-> cpc[d]]
      /\ queue \in Seq(TaskIds)
  BY DEF FileInv, ScanInv, PoolInv, Shapes
<1>1. UNCHANGED <<saved, mishap, image, wtask>>
  BY DEF StatName, StatGone, StatFails, Forget, Enqueue, Enqueuing, CallerOnly, workVars
<1>2. cpc[c] \in Scanning
  BY DEF StatName, StatGone, StatFails, Submitting, Forget, Enqueue, Enqueuing, Scanning
<1>3. PICK pc \in Scanning \cup {"marshal"} : pc \in Scanning /\ cpc' = [cpc EXCEPT ![c] = pc]
  <2>1. CASE \E n \in Names : StatGone(c, n)
    BY <2>1 DEF StatGone, Scanning
  <2>2. CASE \E n \in Names : StatFails(c, n)
    <3>1. UNCHANGED cpc /\ cpc = [cpc EXCEPT ![c] = cpc[c]]
      BY <1>0, <2>2 DEF StatFails
    <3> QED BY <1>2, <3>1
  <2>3. CASE (\E n \in Names : StatName(c, n)) \/ Forget(c) \/ Enqueue(c)
    BY <2>3 DEF StatName, Forget, Enqueue, Enqueuing, Scanning
  <2> QED BY <2>1, <2>2, <2>3
<1>4. (\A d \in Callers \ {c} : scan'[d].await = scan[d].await) /\ scan[c].await \subseteq scan'[c].await
  <2>1. ASSUME NEW t, NEW k, NEW i, NEW is, scan[c].await \subseteq is,
               \/ scan' = [scan EXCEPT ![c].todo = t, ![c].key = k]
               \/ scan' = [scan EXCEPT ![c].todo = t, ![c].key = k, ![c].info = i]
               \/ scan' = [scan EXCEPT ![c].todo = t, ![c].info = i]
               \/ scan' = [scan EXCEPT ![c].key = k]
               \/ scan' = [scan EXCEPT ![c].key = k, ![c].await = is]
        PROVE  /\ \A d \in Callers \ {c} : scan'[d].await = scan[d].await
               /\ scan[c].await \subseteq scan'[c].await
    <3> DEFINE s1 == [scan[c] EXCEPT !.todo = t, !.key = k]
               s2 == [scan[c] EXCEPT !.todo = t, !.key = k, !.info = i]
               s3 == [scan[c] EXCEPT !.todo = t, !.info = i]
               s4 == [scan[c] EXCEPT !.key = k]
               s5 == [scan[c] EXCEPT !.key = k, !.await = is]
    <3>1. /\ s1.await = scan[c].await /\ s2.await = scan[c].await /\ s3.await = scan[c].await
          /\ s4.await = scan[c].await /\ s5.await = is
      BY <1>0 DEF IsScan
    <3>2. \E s \in {s1, s2, s3, s4, s5} : scan' = [scan EXCEPT ![c] = s]
      BY <1>0, <2>1
    <3> HIDE DEF s1, s2, s3, s4, s5
    <3> QED BY <1>0, <2>1, <3>1, <3>2
  <2>2. PICK aw : aw = scan[c].await
    OBVIOUS
  <2>3. ASSUME NEW n \in Names, StatName(c, n)
        PROVE  \E t, k : scan' = [scan EXCEPT ![c].todo = t, ![c].key = k]
    BY <2>3 DEF StatName
  <2>4. ASSUME NEW n \in Names, StatGone(c, n)
        PROVE  \E t, k, i : scan' = [scan EXCEPT ![c].todo = t, ![c].key = k, ![c].info = i]
    <3>1. PICK t, k, i : /\ t = scan[c].todo \ {n} /\ k = [NoKey EXCEPT !.name = n]
                         /\ i = Bump(scan[c].info, {"total", IF scan[c].cached THEN "stale" ELSE "error"})
      OBVIOUS
    <3>2. scan' = [scan EXCEPT ![c].todo = t, ![c].key = k, ![c].info = i]
      BY <1>0, <2>4, <3>1 DEF StatGone
    <3> QED BY <3>2
  <2>5. ASSUME NEW n \in Names, StatFails(c, n)
        PROVE  \E t, i : scan' = [scan EXCEPT ![c].todo = t, ![c].info = i]
    BY <2>5 DEF StatFails
  <2>6. CASE Forget(c)
    <3>1. \E k : scan' = [scan EXCEPT ![c].key = k]
      BY <2>6 DEF Forget
    <3> QED BY <2>1, <2>2, <3>1
  <2>7. CASE Enqueue(c)
    <3>1. \/ \E k : scan' = [scan EXCEPT ![c].key = k]
          \/ \E k, is : scan[c].await \subseteq is /\ scan' = [scan EXCEPT ![c].key = k, ![c].await = is]
      <4>1. CASE NotSubmitted(c)
        BY <4>1 DEF NotSubmitted
      <4>2. ASSUME NEW is, scan' = [scan EXCEPT ![c].key = NoKey, ![c].await = @ \cup is]
            PROVE  \E k, js : /\ scan[c].await \subseteq js
                              /\ scan' = [scan EXCEPT ![c].key = k, ![c].await = js]
        <5>1. PICK js : js = scan[c].await \cup is
          OBVIOUS
        <5>2. scan' = [scan EXCEPT ![c].key = NoKey, ![c].await = js]
          BY <1>0, <4>2, <5>1 DEF IsScan
        <5> QED BY <5>1, <5>2
      <4> QED BY <2>7, <4>1, <4>2 DEF Enqueue, Share, AddTask
    <3> QED BY <2>1, <2>2, <3>1
  <2>8. ASSUME NEW n \in Names, StatName(c, n) \/ StatGone(c, n) \/ StatFails(c, n)
        PROVE  /\ \A d \in Callers \ {c} : scan'[d].await = scan[d].await
               /\ scan[c].await \subseteq scan'[c].await
    <3>1. CASE StatName(c, n)
      BY <2>1, <2>2, <2>3, <3>1
    <3>2. CASE StatGone(c, n)
      <4>1. PICK t, k, i : scan' = [scan EXCEPT ![c].todo = t, ![c].key = k, ![c].info = i]
        BY <2>4, <3>2
      <4> QED BY <2>1, <2>2, <4>1
    <3>3. CASE StatFails(c, n)
      BY <2>1, <2>2, <2>5, <3>3
    <3> QED BY <2>8, <3>1, <3>2, <3>3
  <2> QED BY <2>6, <2>7, <2>8
<1>5. \A i \in TaskIds : Owned(i)' => \E d \in Callers : i \in scan'[d].await
  <2>1. CASE UNCHANGED queue
    BY <1>1, <1>4, <2>1, StillAwaited DEF FileInv
  <2>2. CASE ~UNCHANGED queue
    <3>1. PICK j \in TaskIds : queue' = Append(queue, j)
                               /\ scan' = [scan EXCEPT ![c].key = NoKey, ![c].await = @ \cup {j}]
      BY <2>2 DEF StatName, StatGone, StatFails, Forget, Enqueue, NotSubmitted, Share, AddTask, poolVars
    <3>2. Queued' = Queued \cup {j}
      <4>1. /\ DOMAIN queue = 1 .. Len(queue) /\ DOMAIN queue' = 1 .. Len(queue) + 1
            /\ Len(queue) \in Nat /\ queue'[Len(queue) + 1] = j
            /\ \A k \in 1 .. Len(queue) : queue'[k] = queue[k]
        BY <1>0, <3>1, AppendProperties, LenProperties
      <4> QED BY <4>1 DEF Queued
    <3>3. j \in scan'[c].await
      BY <1>0, <3>1 DEF IsScan
    <3>4. \A i \in TaskIds : Owned(i)' => Owned(i) \/ i = j
      BY <1>1, <3>2 DEF Owned
    <3>5. \A d \in Callers : scan[d].await \subseteq scan'[d].await
      BY <1>4
    <3> QED BY <3>3, <3>4, <3>5 DEF FileInv, WaitInv
  <2> QED BY <2>1, <2>2
<1>6. cpc[c] \notin {"truncate", "write"}
  BY <1>2 DEF Scanning
<1> QED BY <1>1, <1>3, <1>4, <1>5, <1>6, SubmitFile

LEMMA AwaitStep ==
  ASSUME FileInv, NEW c \in Callers, main' # "down", Awaits(c) \/ AwaitEnds(c)
  PROVE  SaveInv' /\ WaitInv' /\ SettledInv'
<1>0. scan = [d \in Callers |-> scan[d]] /\ cpc = [d \in Callers |-> cpc[d]] /\ IsScan(scan[c])
  BY DEF FileInv, ScanInv, PoolInv, Shapes
<1>1. UNCHANGED <<saved, mishap, image, wtask, queue>> /\ cpc[c] = "submit"
  BY DEF Awaits, Await, AwaitEnds, CallerOnly, workVars, poolVars
<1>2. CASE AwaitEnds(c)
  <2>1. PICK pc \in Scanning \cup {"marshal"} : pc = "marshal"
    OBVIOUS
  <2>2. cpc' = [cpc EXCEPT ![c] = "marshal"] /\ UNCHANGED scan /\ scan[c].await = {}
    BY <1>2 DEF AwaitEnds
  <2>3. \A i \in TaskIds : Owned(i)' => \E d \in Callers : i \in scan'[d].await
    BY <1>1, <2>2, StillAwaited DEF FileInv
  <2> QED BY <1>1, <2>1, <2>2, <2>3, SubmitFile
<1>3. CASE Awaits(c)
  <2>1. PICK i \in TaskIds :
          /\ task[i].closes > 0 /\ UNCHANGED cpc
          /\ scan' = [scan EXCEPT ![c].await = @ \ {i}, ![c].info = Add(@, task[i].info)]
    BY <1>3 DEF Awaits, Await
  <2>2. scan'[c].await = scan[c].await \ {i} /\ \A d \in Callers \ {c} : scan'[d].await = scan[d].await
    BY <1>0, <2>1 DEF IsScan
  <2>3. \A j \in TaskIds : Owned(j)' => Owned(j) /\ j # i
    BY <1>1, <2>1 DEF Owned, Queued, FileInv, ScanInv, PoolInv, NotClosed
  <2>4. \A j \in TaskIds : Owned(j)' => \E d \in Callers : j \in scan'[d].await
    BY <2>2, <2>3 DEF FileInv, WaitInv
  <2>5. PICK pc \in Scanning \cup {"marshal"} : pc = "submit"
    BY DEF Scanning
  <2>6. cpc' = [cpc EXCEPT ![c] = pc] /\ pc \in Scanning
    BY <1>0, <1>1, <2>1, <2>5 DEF Scanning
  <2> QED BY <1>1, <2>2, <2>4, <2>6, SubmitFile
<1> QED BY <1>2, <1>3

LEMMA BeginStep ==
  ASSUME FileInv, NEW c \in Callers, Begin(c)
  PROVE  SaveInv' /\ WaitInv' /\ SettledInv'
<1>1. UNCHANGED <<saved, mishap, image, wtask, queue>> /\ cpc[c] = "idle" /\ main' # "down"
  BY DEF Running, Begin, ScanCached, Scan, ScanDir, BeginScan, PurgeOffsets, CallerOnly, workVars, poolVars
<1>2. PICK pc \in Scanning \cup {"marshal"} : cpc' = [cpc EXCEPT ![c] = pc]
  BY DEF Begin, ScanCached, Scan, ScanDir, BeginScan, PurgeOffsets, Scanning
<1>3. scan[c].await = {}
  BY <1>1 DEF FileInv, WaitInv, Scanning
<1>4. UNCHANGED scan \/ \E s : scan' = [scan EXCEPT ![c] = s] /\ s.await = {}
  <2>1. CASE PurgeOffsets(c)
    BY <2>1 DEF PurgeOffsets
  <2>2. CASE ~PurgeOffsets(c)
    <3>1. PICK cached, o, names, i : BeginScan(c, cached, o, names, i)
      BY <2>2 DEF Begin, ScanCached, Scan, ScanDir
    <3> DEFINE s == [NoScan EXCEPT !.cached = cached, !.opts = o, !.todo = names,
                       !.listed = Cardinality(names) + i["total"], !.info = i]
    <3>2. scan' = [scan EXCEPT ![c] = s]
      BY <3>1 DEF BeginScan
    <3>3. s.await = {}
      BY DEF NoScan
    <3> QED BY <3>2, <3>3
  <2> QED BY <2>1, <2>2
<1>5. scan'[c].await = {} /\ \A d \in Callers \ {c} : scan'[d].await = scan[d].await
  BY <1>3, <1>4 DEF FileInv, ScanInv, PoolInv, Shapes
<1>6. \A i \in TaskIds : Owned(i)' => \E d \in Callers : i \in scan'[d].await
  BY <1>1, <1>3, <1>5, StillAwaited DEF FileInv
<1> QED BY <1>1, <1>2, <1>5, <1>6, SubmitFile

(* A caller that saves. *)
LEMMA SavingStep ==
  ASSUME FileInv, NEW c \in Callers, UNCHANGED main, main # "down",
         Marshal(c) \/ Truncate(c) \/ Write(c) \/ EndCaller(c)
  PROVE  SaveInv' /\ WaitInv' /\ SettledInv'
<1>0. /\ scan = [d \in Callers |-> scan[d]] /\ cpc = [d \in Callers |-> cpc[d]]
      /\ image = [d \in Callers |-> image[d]]
  BY DEF FileInv, ScanInv, CacheInv, PoolInv, Shapes
<1>1. /\ UNCHANGED <<file, offsets, queue, wtask>> /\ Current' = Current
      /\ cpc[c] \notin Scanning
  BY DEF Marshal, Truncate, Write, EndCaller, CallerOnly, cacheVars, poolVars, workVars, Current, Scanning
<1>2. PICK pc : /\ cpc' = [cpc EXCEPT ![c] = pc] /\ pc \notin Scanning \cup {"marshal"}
                /\ Marshal(c) => pc = "truncate" /\ cpc[c] = "marshal"
                /\ Truncate(c) => pc = "write" /\ cpc[c] = "truncate"
                /\ Write(c) => pc = "idle" /\ cpc[c] = "write"
                /\ EndCaller(c) => pc = "ended" /\ cpc[c] = "idle"
  BY DEF Marshal, Truncate, Write, EndCaller, Scanning
<1>3. \A d \in Callers : cpc'[d] = IF d = c THEN pc ELSE cpc[d]
  BY <1>0, <1>2
<1>4. WaitInv'
  <2>1. scan[c].await = {}
    BY <1>1 DEF FileInv, WaitInv
  <2>2. UNCHANGED scan \/ (scan' = [scan EXCEPT ![c] = NoScan] /\ NoScan.await = {})
    BY DEF Marshal, Truncate, Write, EndCaller, NoScan
  <2>3. \A d \in Callers : scan'[d].await = scan[d].await
    BY <1>0, <2>1, <2>2
  <2>4. \A i \in TaskIds : Owned(i)' <=> Owned(i)
    BY <1>1 DEF Owned, Queued
  <2> QED BY <1>1, <1>3, <2>1, <2>3, <2>4 DEF FileInv, WaitInv
<1>5. CASE EndCaller(c)
  <2>1. UNCHANGED <<saved, mishap, image>>
    BY <1>5 DEF EndCaller
  <2>2. \A d \in Callers : (Saving(d)' <=> Saving(d)) /\ (cpc'[d] = "write" <=> cpc[d] = "write")
    BY <1>2, <1>3, <1>5 DEF Saving
  <2>3. SaveInv'
    BY <2>1, <2>2, SaveKept DEF FileInv
  <2>4. Settled' => Settled
    BY <1>2, <1>3, <1>5, <2>1 DEF Settled, Running, Scanning
  <2>5. SettledInv'
    BY <1>1, <2>1, <2>2, <2>4 DEF FileInv, SettledInv
  <2> QED BY <1>4, <2>3, <2>5
<1>6. CASE Marshal(c)
  <2>1. /\ UNCHANGED saved /\ image' = [image EXCEPT ![c] = Current]
        /\ mishap' = mishap \cup Overlap(c)
    BY <1>6 DEF Marshal, Current
  <2>2. mishap' = {} => mishap = {} /\ \A d \in Callers \ {c} : ~Saving(d)
    BY <2>1 DEF Overlap
  <2>3. /\ Saving(c)' /\ \A d \in Callers \ {c} : Saving(d)' <=> Saving(d)
        /\ \A d \in Callers : cpc'[d] = "write" <=> cpc[d] = "write"
    BY <1>2, <1>3, <1>6 DEF Saving
  <2>4. SaveInv'
    BY <2>1, <2>2, <2>3 DEF FileInv, SaveInv
  <2>5. SettledInv'
    BY <1>0, <1>1, <2>1, <2>2, <2>3 DEF SettledInv, Settled
  <2> QED BY <1>4, <2>4, <2>5
<1>7. CASE Truncate(c)
  <2>1. UNCHANGED <<mishap, image>> /\ saved' = Torn(0)
    BY <1>7 DEF Truncate
  <2>2. \A d \in Callers : Saving(d)' <=> Saving(d)
    BY <1>2, <1>3, <1>7 DEF Saving
  <2>3. Torn(0).is = "torn" /\ cpc'[c] = "write"
    BY <1>2, <1>3, <1>7 DEF Torn
  <2>4. SaveInv'
    BY <2>1, <2>2, <2>3 DEF FileInv, SaveInv
  <2>5. Settled' => Settled /\ Saving(c)
    BY <1>2, <1>3, <1>7, <2>1 DEF Settled, Running, Saving, Scanning
  <2>6. SettledInv'
    BY <1>1, <2>1, <2>2, <2>5 DEF FileInv, SettledInv
  <2> QED BY <1>4, <2>4, <2>6
<1>8. CASE Write(c)
  <2>1. /\ UNCHANGED mishap /\ image' = [image EXCEPT ![c] = EmptyCache]
        /\ saved' = IF saved.len > Length(image[c]) THEN Torn(saved.len) ELSE Whole(image[c])
    BY <1>8 DEF Write
  <2>2. ~Saving(c)' /\ Saving(c) /\ \A d \in Callers \ {c} :
          (Saving(d)' <=> Saving(d)) /\ (cpc'[d] = "write" <=> cpc[d] = "write")
    BY <1>2, <1>3, <1>8 DEF Saving
  <2>3. mishap = {} => saved' = Whole(image[c]) /\ \A d \in Callers \ {c} : ~Saving(d)
    <3> SUFFICES ASSUME mishap = {} PROVE saved' = Whole(image[c]) /\ \A d \in Callers \ {c} : ~Saving(d)
      OBVIOUS
    <3>1. saved = Torn(0) /\ Torn(0).len = 0
      BY <1>2, <1>8 DEF FileInv, SaveInv, Torn
    <3>2. image[c] \in Caches
      BY DEF FileInv, ScanInv, CacheInv, GoodCache
    <3>3. Length(image[c]) \in Nat
      <4>1. Whole(image[c]).len \in Nat
        BY <3>2, WholeType
      <4> QED BY <4>1 DEF Whole
    <3>4. saved' = Whole(image[c])
      BY <2>1, <3>1, <3>3
    <3> QED BY <2>2, <3>4 DEF FileInv, SaveInv
  <2>4. SaveInv'
    <3>1. saved'.is = "whole" => saved' = Whole(saved'.cache)
      <4>1. Whole(image[c]) = Whole(Whole(image[c]).cache)
        BY DEF Whole
      <4>2. Torn(saved.len).is # "whole"
        BY DEF Torn
      <4> QED BY <2>1, <4>1, <4>2
    <3>2. saved'.is = "torn" => mishap # {}
      BY <2>3 DEF Whole
    <3>3. mishap = {} => (\A d \in Callers : ~Saving(d)')
      BY <2>2, <2>3
    <3> QED BY <2>1, <3>1, <3>2, <3>3 DEF SaveInv, Saving
  <2>5. Settled' => Settled
    BY <1>2, <1>3, <1>8, <2>1 DEF Settled, Running, Scanning
  <2>6. SettledInv'
    <3>1. Settled' => image[c] = Current
      BY <2>2, <2>5 DEF FileInv, SettledInv
    <3>2. Settled' => saved' = Whole(Current) /\ \A d \in Callers : ~Saving(d)'
      BY <2>2, <2>3, <2>5, <3>1 DEF Settled
    <3> QED BY <1>1, <3>2 DEF SettledInv, Whole, Length
  <2> QED BY <1>4, <2>4, <2>6
<1> QED BY <1>5, <1>6, <1>7, <1>8

LEMMA FileStep == FileInv /\ ScanInv' /\ [Next]_vars => FileInv'
<1> SUFFICES ASSUME FileInv, ScanInv', [Next]_vars PROVE SaveInv' /\ WaitInv' /\ SettledInv'
  BY DEF FileInv
<1>0. saved.cache \in Caches /\ WaitInv /\ SaveInv /\ SettledInv /\ ScanInv
  BY DEF FileInv, ScanInv, CacheInv
<1>1. CASE New
  <2>1. /\ UNCHANGED <<task, queue, wtask, scan, image, mishap>> /\ cpc' = [c \in Callers |-> "idle"]
        /\ main = "down"
    BY <1>1, EndsLeave DEF New, Start
  <2>2. (\A i \in TaskIds : ~Owned(i)') /\ \A c \in Callers : scan[c].await = {}
    <3>1. \A c \in Callers : scan[c].await = {}
      BY <1>0, <2>1 DEF WaitInv, Scanning
    <3>2. \A i \in TaskIds : ~Owned(i)
      BY <1>0, <3>1 DEF WaitInv
    <3> QED BY <2>1, <3>1, <3>2 DEF Owned, Queued
  <2>3. WaitInv'
    BY <1>1, <2>1, <2>2 DEF WaitInv, New
  <2>4. \A c \in Callers : ~Saving(c)' /\ cpc'[c] # "write"
    BY <2>1 DEF Saving
  <2>5. CASE LoadFresh
    <3>1. saved' = Whole(EmptyCache) /\ Current' = EmptyCache
      BY <2>5 DEF LoadFresh, Current, EmptyCache
    <3>2. Whole(EmptyCache) = Whole(Whole(EmptyCache).cache) /\ Whole(EmptyCache).is = "whole"
      BY DEF Whole
    <3> QED BY <2>3, <2>4, <3>1, <3>2 DEF SaveInv, SettledInv, Whole, Length
  <2>6. CASE Load
    <3>1. saved' = saved /\ saved = Whole(saved.cache) /\ saved.is = "whole"
      BY <1>0, <2>6 DEF Load, SaveInv
    <3>2. Current' = saved.cache
      BY <1>0, <2>6 DEF Load, Current, Caches
    <3> QED BY <2>3, <2>4, <3>1, <3>2 DEF SaveInv, SettledInv, Whole, Length
  <2> QED BY <1>1, <2>5, <2>6 DEF New, Start
<1>2. CASE ForceExit
  <2>1. /\ cpc' = [c \in Callers |-> "ended"] /\ scan' = [c \in Callers |-> NoScan]
        /\ wtask' = [w \in Workers |-> NoTaken] /\ queue' = <<>> /\ UNCHANGED saved
        /\ mishap' = mishap \cup (IF \E c \in Callers : cpc[c] = "write" THEN {"kill"} ELSE {})
        /\ ~Running'
    BY <1>2 DEF ForceExit, Vanish, Running
  <2>2. \A c \in Callers : ~Saving(c)' /\ cpc'[c] # "write" /\ scan'[c].await = {}
    BY <2>1 DEF Saving, NoScan
  <2>3. \A i \in TaskIds : ~Owned(i)'
    BY <2>1, ScannerAssumption DEF Owned, Queued, NoTaken
  <2>4. SaveInv'
    BY <1>0, <2>1, <2>2 DEF SaveInv
  <2> QED BY <2>1, <2>2, <2>3, <2>4 DEF WaitInv, SettledInv, Settled
<1>3. CASE MainStep
  <2>1. (Running' => Running) /\ (main' = "down" => main = "down")
    BY <1>3 DEF MainStep, Refused, Cancel, CloseBegin, CaptureEnds, CloseEnd, ScanJoined, Finished,
       vars, mainVars, Running
  <2>2. UNCHANGED <<saved, mishap, image, cpc, scan, queue, wtask>> /\ Current' = Current
    BY <1>3, MainLeaves DEF Current
  <2> QED BY <2>1, <2>2, QuietFile DEF Owned, Queued
<1>4. CASE UNCHANGED mainVars /\ \E f \in Files : Replace(f) \/ Remove(f)
  <2>1. UNCHANGED <<saved, mishap, image, cpc, scan, queue, wtask>> /\ Current' = Current
        /\ (Running' => Running) /\ UNCHANGED main
    BY <1>4, FilesLeave DEF Current, mainVars, Running
  <2> QED BY <2>1, QuietFile DEF Owned, Queued
<1>5. ASSUME NEW w \in Workers, WorkerStep(w) PROVE SaveInv' /\ WaitInv' /\ SettledInv'
  <2>1. UNCHANGED <<saved, mishap, image, cpc, scan>> /\ (Running' => Running) /\ UNCHANGED main
    BY <1>5, WorkerLeaves
  <2>2. Current' # Current => \E c \in Callers : cpc[c] \in Scanning
    BY <1>0, <1>5, WorkersWrite
  <2>3. \A i \in TaskIds : Owned(i)' => Owned(i)
    BY <1>0, <1>5, OwnedShrinks DEF ScanInv
  <2> QED BY <2>1, <2>2, <2>3, QuietFile
<1>6. CASE EndScans
  <2>1. UNCHANGED main /\ main # "down" /\ EndCaller(ScanLoop)
    BY <1>6 DEF EndScans, mainVars, Running
  <2> QED BY <2>1, SavingStep, MainAssumption
<1>7. ASSUME NEW c \in Callers, Begin(c) \/ CallerStep(c) PROVE SaveInv' /\ WaitInv' /\ SettledInv'
  <2>1. CASE Begin(c)
    BY <2>1, BeginStep
  <2>2. CASE CallerStep(c)
    <3>1. UNCHANGED main /\ main # "down"
      BY <2>2 DEF CallerStep, mainVars, Running
    <3> QED BY <2>2, <3>1, SubmitStep, AwaitStep, SavingStep DEF CallerStep, Caller, Awaits
  <2> QED BY <1>7, <2>1, <2>2
<1> QED BY <1>1, <1>2, <1>3, <1>4, <1>5, <1>6, <1>7, Steps

LEMMA FileInit == Init => FileInv
<1> SUFFICES ASSUME Init PROVE FileInv
  OBVIOUS
<1> USE DEF Init, ScannerInit
<1>1. ScanInv
  BY ScanInit
<1>2. SaveInv
  <2>1. Absent.is = "absent" /\ Whole(Left).is = "whole" /\ Whole(Left) = Whole(Whole(Left).cache)
    BY DEF Absent, Whole
  <2> QED BY <2>1 DEF SaveInv, Saving
<1>3. WaitInv /\ SettledInv
  BY ScannerAssumption DEF WaitInv, SettledInv, Settled, Running, Owned, Queued, NoTaken, NoScan
<1> QED BY <1>1, <1>2, <1>3 DEF FileInv

(* The cache file is whole unless a save is between its truncation and its   *)
(* write, two saves have overlapped or the process was killed in one         *)
(* (saveCache, os.WriteFile); and whenever no scan is under way, what is     *)
(* saved is the cache: nothing that was found is lost by the next start, and *)
(* no start is refused, but for these.                                       *)
THEOREM CacheFileIsSound == Spec => []CacheFileSound
<1>1. ScanInv /\ [Next]_vars => ScanInv'
  BY NextPool, DiskStep, CacheStep, KeyStep, WorkStep DEF ScanInv
<1>2. FileInv /\ [Next]_vars => FileInv'
  <2>1. FileInv => ScanInv
    BY DEF FileInv
  <2> QED BY <1>1, <2>1, FileStep
<1>3. FileInv => CacheFileSound
  BY DEF FileInv, SaveInv, SettledInv, Settled, Saving, Scanning, CacheFileSound, Current
<1> QED BY <1>2, <1>3, FileInit, PTL DEF Spec

-----------------------------------------------------------------------------
(* What ScanInfo says.  A task is counted when a worker takes it, and what   *)
(* the worker finds is counted once, by the time that it has a result; what  *)
(* a scan has counted, and what it has yet to submit or waits for, is what   *)
(* it has listed.  It waits for one task of every name: two tasks in flight  *)
(* have different keys.                                                      *)

Balanced(i) ==
  /\ i \in [Counters -> Nat]
  /\ i["cached"] + i["stale"] + i["new"] <= i["total"]
  /\ i["total"] <= i["cached"] + i["stale"] + i["new"] + i["error"]
  /\ i["ototal"] = i["ocached"] + i["onew"] + i["oerror"]

OneFile == Bump(NoInfo, {"total"})
OneOffset == Bump(NoInfo, {"total", "ototal"})
OneResult(i) == Balanced(i) /\ i["total"] = 1

Counted(i, pc) ==                    \* by a worker that is at pc
  /\ pc \in {"open", "stat", "hash"} => i = OneFile
  /\ pc = "analyze" => i = OneOffset
  /\ pc \in {"result", "retire", "close"} => OneResult(i)
CountInv ==
  /\ \A i \in Queued : task[i].info = NoInfo
  /\ \A w \in Workers : HeldBy(w) => Counted(task[wtask[w]].info, wpc[w])
  /\ \A i \in TaskIds : task[i].closes > 0 =>
       OneResult(task[i].info) \/ (closed /\ task[i].info = NoInfo)

Sum(s, pc) ==
  s.info["total"] + Cardinality(s.todo) + Cardinality(s.await) + (IF pc = "enqueue" THEN 1 ELSE 0)
Tally(s, pc, tasks, cl) ==
  /\ Balanced(s.info) /\ s.listed \in Nat
  /\ Sum(s, pc) <= s.listed /\ (~cl => Sum(s, pc) = s.listed)
  /\ pc \notin Scanning => s.todo = {} /\ s.await = {}
  /\ pc = "enqueue" => s.key.name \notin s.todo
  /\ \A i \in s.await : /\ tasks[i].key.name \notin s.todo
                        /\ pc = "enqueue" => tasks[i].key.name # s.key.name
TallyInv == \A c \in Callers : Tally(scan[c], cpc[c], task, closed)
InfoInv == FileInv /\ CountInv /\ TallyInv

LEMMA BumpAt ==
  ASSUME NEW i \in [Counters -> Nat], NEW ks
  PROVE  /\ Bump(i, ks) \in [Counters -> Nat]
         /\ \A k \in Counters : Bump(i, ks)[k] = IF k \in ks THEN i[k] + 1 ELSE i[k]
BY DEF Bump

LEMMA NoInfoAt ==
  /\ NoInfo \in [Counters -> Nat] /\ \A k \in Counters : NoInfo[k] = 0
  /\ Balanced(NoInfo)
BY DEF NoInfo, Balanced, Counters

LEMMA OneOf ==
  ASSUME NEW x \in [Counters -> Nat], NEW by \in {"cached", "stale", "new"}, x["total"] = 1,
         x[by] = 1, \A k \in {"cached", "stale", "new"} : k # by => x[k] = 0,
         x["ototal"] = x["ocached"] + x["onew"] + x["oerror"]
  PROVE  OneResult(x)
<1>1. x["cached"] + x["stale"] + x["new"] = 1 /\ x["error"] \in Nat
  BY DEF Counters
<1> QED BY <1>1 DEF OneResult, Balanced

LEMMA TaskCounts ==
  /\ Bump(OneFile, {"ototal"}) = OneOffset
  /\ OneResult(Bump(OneFile, {"cached", "ototal", "ocached"}))
  /\ \A by \in {"cached", "stale", "new"} :
       /\ OneResult(Bump(OneFile, {by})) /\ OneResult(Bump(OneFile, {by, "error"}))
       /\ OneResult(Bump(OneOffset, {by, "error", "oerror"}))
       /\ \A o \in {"ocached", "onew"} : OneResult(Bump(OneOffset, {by, o}))
<1>1. /\ OneFile \in [Counters -> Nat]
      /\ \A k \in Counters : OneFile[k] = IF k = "total" THEN 1 ELSE 0
  BY NoInfoAt, BumpAt DEF OneFile
<1>2. /\ OneOffset \in [Counters -> Nat]
      /\ \A k \in Counters : OneOffset[k] = IF k \in {"total", "ototal"} THEN 1 ELSE 0
  BY NoInfoAt, BumpAt DEF OneOffset
<1>3. Bump(OneFile, {"ototal"}) = OneOffset
  BY <1>1 DEF OneOffset, Bump, NoInfo
<1> USE DEF Counters
<1>4. OneResult(Bump(OneFile, {"cached", "ototal", "ocached"}))
  BY <1>1, BumpAt DEF OneResult, Balanced
<1>5. ASSUME NEW by \in {"cached", "stale", "new"}
      PROVE  /\ OneResult(Bump(OneFile, {by})) /\ OneResult(Bump(OneFile, {by, "error"}))
             /\ OneResult(Bump(OneOffset, {by, "error", "oerror"}))
             /\ \A o \in {"ocached", "onew"} : OneResult(Bump(OneOffset, {by, o}))
  <2>1. ASSUME NEW ks, ks \in {{by}, {by, "error"}} PROVE OneResult(Bump(OneFile, ks))
    <3>1. PICK x : x = Bump(OneFile, ks)
      OBVIOUS
    <3>2. x \in [Counters -> Nat] /\ \A k \in Counters : x[k] = IF k \in ks THEN OneFile[k] + 1 ELSE OneFile[k]
      BY <1>1, <3>1, BumpAt
    <3>3. x[by] = 1 /\ x["total"] = 1 /\ \A k \in {"cached", "stale", "new"} : k # by => x[k] = 0
      BY <1>1, <2>1, <3>2
    <3>4. x["ototal"] = 0 /\ x["ocached"] = 0 /\ x["onew"] = 0 /\ x["oerror"] = 0
      BY <1>1, <2>1, <3>2
    <3> QED BY <3>1, <3>2, <3>3, <3>4, OneOf
  <2>2. ASSUME NEW ks, NEW o \in {"ocached", "onew", "oerror"},
               ks = {by, o} \/ (o = "oerror" /\ ks = {by, "error", o})
        PROVE  OneResult(Bump(OneOffset, ks))
    <3>1. PICK x : x = Bump(OneOffset, ks)
      OBVIOUS
    <3>2. /\ x \in [Counters -> Nat]
          /\ \A k \in Counters : x[k] = IF k \in ks THEN OneOffset[k] + 1 ELSE OneOffset[k]
      BY <1>2, <3>1, BumpAt
    <3>3. x[by] = 1 /\ x["total"] = 1 /\ \A k \in {"cached", "stale", "new"} : k # by => x[k] = 0
      BY <1>2, <2>2, <3>2
    <3>4. x["ototal"] = 1 /\ x[o] = 1 /\ \A k \in {"ocached", "onew", "oerror"} : k # o => x[k] = 0
      BY <1>2, <2>2, <3>2
    <3>5. x["ototal"] = x["ocached"] + x["onew"] + x["oerror"]
      BY <3>4
    <3> QED BY <3>1, <3>2, <3>3, <3>5, OneOf
  <2> QED BY <2>1, <2>2
<1> QED BY <1>3, <1>4, <1>5

LEMMA BumpBalanced ==
  ASSUME NEW i, Balanced(i),
         NEW ks \in {{"total", "stale"}, {"total", "error"}, {"total", "error", "stale"}}
  PROVE  Balanced(Bump(i, ks)) /\ Bump(i, ks)["total"] = i["total"] + 1
<1>1. i \in [Counters -> Nat]
  BY DEF Balanced
<1> QED BY <1>1, BumpAt DEF Balanced, Counters

LEMMA AddBalanced ==
  ASSUME NEW i, Balanced(i), NEW j, Balanced(j)
  PROVE  Balanced(Add(i, j)) /\ Add(i, j)["total"] = i["total"] + j["total"]
<1>1. i \in [Counters -> Nat] /\ j \in [Counters -> Nat]
  BY DEF Balanced
<1>2. Add(i, j) \in [Counters -> Nat] /\ \A k \in Counters : Add(i, j)[k] = i[k] + j[k]
  BY <1>1 DEF Add
<1> QED BY <1>1, <1>2 DEF Balanced, Counters

-----------------------------------------------------------------------------
(* What the workers count. *)

(* A worker that keeps its task. *)
LEMMA CountFrame ==
  ASSUME PoolInv, CountInv, NEW w \in Workers, HeldBy(w), UNCHANGED <<queue, wtask, closed>>,
         NEW pc, wpc' = [wpc EXCEPT ![w] = pc], NEW x,
         \/ task' = [task EXCEPT ![wtask[w]].info = x]
         \/ UNCHANGED task /\ x = task[wtask[w]].info,
         Counted(x, pc)
  PROVE  CountInv'
<1>1. wtask[w] \in TaskIds /\ wtask[w] \notin Queued /\ Queued' = Queued /\ Queued \subseteq TaskIds
  BY LenProperties DEF PoolInv, Shapes, OneOwner, Queued
<1>2. task[wtask[w]].closes = 0
  BY <1>1 DEF PoolInv, NotClosed, Owned
<1>3. \A i \in TaskIds : /\ task'[i].info = (IF i = wtask[w] THEN x ELSE task[i].info)
                         /\ task'[i].closes = task[i].closes
  <2>1. task = [i \in TaskIds |-> task[i]] /\ IsTask(task[wtask[w]])
    BY <1>1 DEF PoolInv, Shapes
  <2> QED BY <1>1, <2>1 DEF IsTask
<1>4. \A v \in Workers : wpc'[v] = IF v = w THEN pc ELSE wpc[v]
  BY DEF PoolInv, Shapes
<1>5. ASSUME NEW v \in Workers, HeldBy(v)' PROVE Counted(task'[wtask'[v]].info, wpc'[v])
  <2>1. CASE v = w
    BY <1>1, <1>3, <1>4, <2>1
  <2>2. CASE v # w
    <3>1. HeldBy(v) /\ wpc'[v] = wpc[v]
      BY <1>4, <1>5, <2>2 DEF HeldBy
    <3>2. wtask[v] \in TaskIds /\ wtask[v] # wtask[w]
      BY <2>2, <3>1 DEF PoolInv, OneOwner
    <3> QED BY <1>3, <3>1, <3>2 DEF CountInv
  <2> QED BY <2>1, <2>2
<1>6. \A i \in Queued' : task'[i].info = NoInfo
  BY <1>1, <1>3 DEF CountInv
<1>7. \A i \in TaskIds : task'[i].closes > 0 =>
        OneResult(task'[i].info) \/ (closed' /\ task'[i].info = NoInfo)
  BY <1>2, <1>3 DEF CountInv
<1> QED BY <1>5, <1>6, <1>7 DEF CountInv

LEMMA ByIs ==
  /\ \A w \in Workers : ByMeta(w) \in {"cached", "stale", "new"}
  /\ \A w \in Workers : \A h : ByHash(w, h) \in {"cached", "stale", "new"}
BY DEF ByMeta, ByHash

LEMMA WorkCount ==
  ASSUME PoolInv, CountInv, NEW w \in Workers,
         Open(w) \/ Stat(w) \/ Hash(w) \/ AnalysisFails(w) \/ Commit(w) \/ Retire(w)
  PROVE  CountInv'
<1> DEFINE i == task[wtask[w]].info
<1>1. HeldBy(w) /\ UNCHANGED <<queue, wtask, closed>> /\ Counted(i, wpc[w])
  BY DEF Open, Stat, Hash, AnalysisFails, Commit, Committed, Retire, HeldBy, WorkerOnly, CountInv
<1>2. ASSUME NEW pc, wpc' = [wpc EXCEPT ![w] = pc], NEW ks, Count(w, ks), Counted(Bump(i, ks), pc)
      PROVE  CountInv'
  <2>1. wtask[w] \in TaskIds /\ task = [j \in TaskIds |-> task[j]] /\ IsTask(task[wtask[w]])
    BY <1>1 DEF PoolInv, Shapes, OneOwner
  <2>2. PICK x : x = Bump(i, ks)
    OBVIOUS
  <2>3. task' = [task EXCEPT ![wtask[w]].info = x]
    BY <1>2, <2>1, <2>2 DEF Count
  <2> QED BY <1>1, <1>2, <2>2, <2>3, CountFrame
<1>3. ASSUME NEW pc, wpc' = [wpc EXCEPT ![w] = pc], UNCHANGED task, Counted(i, pc) PROVE CountInv'
  <2>1. PICK x : x = i
    OBVIOUS
  <2> QED BY <1>1, <1>3, <2>1, CountFrame
<1>4. ASSUME NEW pc \in {"result", "retire"}, GoTo(w, pc), NEW ks, Count(w, ks), OneResult(Bump(i, ks))
      PROVE  CountInv'
  <2>1. Counted(Bump(i, ks), pc) /\ wpc' = [wpc EXCEPT ![w] = pc]
    BY <1>4 DEF Counted, GoTo
  <2> QED BY <1>2, <1>4, <2>1
<1> HIDE DEF i
<1>5. CASE Open(w)
  <2>1. i = OneFile
    BY <1>1, <1>5 DEF Open, Counted
  <2>2. CASE Count(w, {ByMeta(w), "error"}) /\ GoTo(w, "retire")
    BY <1>4, <2>1, <2>2, ByIs, TaskCounts
  <2>3. CASE UNCHANGED task /\ GoTo(w, "stat")
    BY <1>3, <2>1, <2>3 DEF GoTo, Counted
  <2> QED BY <1>5, <2>2, <2>3 DEF Open
<1>6. CASE Stat(w)
  <2>1. i = OneFile
    BY <1>1, <1>6 DEF Stat, Counted
  <2>2. CASE Count(w, {"cached", "ototal", "ocached"}) /\ GoTo(w, "result")
    BY <1>4, <2>1, <2>2, TaskCounts
  <2>3. CASE UNCHANGED task /\ GoTo(w, "hash")
    BY <1>3, <2>1, <2>3 DEF GoTo, Counted
  <2> QED BY <1>6, <2>2, <2>3 DEF Stat
<1>7. CASE Hash(w)
  <2>1. i = OneFile
    BY <1>1, <1>7 DEF Hash, Counted
  <2>2. ASSUME NEW by \in {"cached", "stale", "new"}, Count(w, {by, "error"}) \/ Count(w, {by}), GoTo(w, "retire")
        PROVE  CountInv'
    BY <1>4, <2>1, <2>2, TaskCounts
  <2>3. CASE Count(w, {"ototal"}) /\ GoTo(w, "analyze")
    <3>1. Counted(Bump(i, {"ototal"}), "analyze") /\ wpc' = [wpc EXCEPT ![w] = "analyze"]
      BY <2>1, <2>3, TaskCounts DEF GoTo, Counted
    <3> QED BY <1>2, <2>3, <3>1
  <2>4. CASE \E by \in {"cached", "stale", "new"} :
               (Count(w, {by, "error"}) \/ Count(w, {by})) /\ GoTo(w, "retire")
    BY <2>2, <2>4
  <2>5. \/ \E by \in {"cached", "stale", "new"} :
               (Count(w, {by, "error"}) \/ Count(w, {by})) /\ GoTo(w, "retire")
        \/ Count(w, {"ototal"}) /\ GoTo(w, "analyze")
    BY <1>7, ByIs DEF Hash
  <2> QED BY <2>3, <2>4, <2>5
<1>8. CASE AnalysisFails(w) \/ Commit(w)
  <2>1. i = OneOffset
    BY <1>1, <1>8 DEF AnalysisFails, Commit, Committed, Counted
  <2>2. PICK by \in {"cached", "stale", "new"} : by = ByHash(w, local[w].hash)
    BY ByIs
  <2>3. CASE AnalysisFails(w)
    <3>1. Count(w, {by, "error", "oerror"}) /\ GoTo(w, "retire")
      BY <2>2, <2>3 DEF AnalysisFails
    <3> QED BY <1>4, <2>1, <3>1, TaskCounts
  <2>4. CASE Commit(w)
    <3>1. (\E o \in {"ocached", "onew"} : Count(w, {by, o})) /\ GoTo(w, "result")
      BY <2>2, <2>4 DEF Commit, Committed
    <3> QED BY <1>4, <2>1, <3>1, TaskCounts
  <2> QED BY <1>8, <2>3, <2>4
<1>9. CASE Retire(w)
  <2>1. wpc[w] \in {"result", "retire"} /\ GoTo(w, "close") /\ UNCHANGED task
    BY <1>9 DEF Retire
  <2> QED BY <1>1, <1>3, <2>1 DEF GoTo, Counted
<1> QED BY <1>5, <1>6, <1>7, <1>8, <1>9

LEMMA TakeCount ==
  ASSUME PoolInv, CountInv, NEW w \in Workers, Take(w)
  PROVE  CountInv'
<1>1. PICK i \in TaskIds :
        /\ wpc' = [wpc EXCEPT ![w] = "open"] /\ wtask' = [wtask EXCEPT ![w] = i]
        /\ UNCHANGED closed /\ task' = [task EXCEPT ![i].info = Bump(@, {"total"})]
        /\ Queued = Queued' \cup {i} /\ i \notin Queued'
  BY TakeHead
<1>2. task[i].info = NoInfo /\ task[i].closes = 0
  BY <1>1 DEF CountInv, PoolInv, NotClosed, Owned
<1>3. \A j \in TaskIds : /\ task'[j].info = (IF j = i THEN OneFile ELSE task[j].info)
                         /\ task'[j].closes = task[j].closes
  <2>1. task = [j \in TaskIds |-> task[j]] /\ IsTask(task[i])
    BY <1>1 DEF PoolInv, Shapes
  <2> QED BY <1>1, <1>2, <2>1 DEF IsTask, OneFile
<1>4. \A v \in Workers : /\ wpc'[v] = (IF v = w THEN "open" ELSE wpc[v])
                         /\ wtask'[v] = (IF v = w THEN i ELSE wtask[v])
  BY <1>1 DEF PoolInv, Shapes
<1>5. ASSUME NEW v \in Workers, HeldBy(v)' PROVE Counted(task'[wtask'[v]].info, wpc'[v])
  <2>1. CASE v = w
    BY <1>3, <1>4, <2>1 DEF Counted
  <2>2. CASE v # w
    <3>1. HeldBy(v) /\ wpc'[v] = wpc[v] /\ wtask'[v] = wtask[v]
      BY <1>4, <1>5, <2>2 DEF HeldBy
    <3>2. wtask[v] \in TaskIds /\ wtask[v] # i
      BY <1>1, <3>1 DEF PoolInv, OneOwner
    <3> QED BY <1>3, <3>1, <3>2 DEF CountInv
  <2> QED BY <2>1, <2>2
<1>6. \A j \in Queued' : j \in TaskIds /\ task'[j].info = NoInfo
  <2>1. Queued \subseteq TaskIds
    BY LenProperties DEF PoolInv, Shapes, Queued
  <2> QED BY <1>1, <1>3, <2>1 DEF CountInv
<1>7. \A j \in TaskIds : task'[j].closes > 0 =>
        OneResult(task'[j].info) \/ (closed' /\ task'[j].info = NoInfo)
  BY <1>1, <1>2, <1>3 DEF CountInv
<1> QED BY <1>5, <1>6, <1>7 DEF CountInv

(* A worker that closes tasks: what it drops when it leaves, or its own. *)
LEMMA CloseCount ==
  ASSUME PoolInv, CountInv, NEW w \in Workers, Leave(w) \/ CloseDone(w)
  PROVE  CountInv'
<1>0. Queued \subseteq TaskIds
  BY LenProperties DEF PoolInv, Shapes, Queued
<1>1. PICK is \in SUBSET TaskIds :
        /\ task' = ClosedTasks(is) /\ UNCHANGED closed /\ Queued' \subseteq Queued
        /\ \A i \in is : Owned(i) /\ (OneResult(task[i].info) \/ (closed /\ task[i].info = NoInfo))
        /\ \E pc \in {"idle", "gone"} : wpc' = [wpc EXCEPT ![w] = pc]
        /\ \A v \in Workers \ {w} : wtask'[v] = wtask[v]
  <2>1. CASE Leave(w)
    <3>1. task' = ClosedTasks(Queued) /\ UNCHANGED closed /\ queue' = <<>> /\ closed
          /\ wpc' = [wpc EXCEPT ![w] = "gone"] /\ UNCHANGED wtask
      BY <2>1 DEF Leave, GoTo, WorkerOnly
    <3>2. Queued' = {}
      BY <3>1 DEF Queued
    <3> QED BY <1>0, <3>1, <3>2 DEF CountInv, Owned
  <2>2. CASE CloseDone(w)
    <3>1. task' = ClosedTasks({wtask[w]}) /\ UNCHANGED <<closed, queue>> /\ wpc[w] = "close"
          /\ wpc' = [wpc EXCEPT ![w] = "idle"] /\ wtask' = [wtask EXCEPT ![w] = NoTaken]
      BY <2>2 DEF CloseDone, GoTo, WorkerOnly
    <3>2. wtask[w] \in TaskIds /\ Owned(wtask[w]) /\ OneResult(task[wtask[w]].info)
      BY <3>1 DEF PoolInv, OneOwner, HeldBy, Owned, CountInv, Counted
    <3>3. Queued' = Queued /\ \A v \in Workers \ {w} : wtask'[v] = wtask[v]
      BY <3>1 DEF Queued, PoolInv, Shapes
    <3>4. PICK is \in SUBSET TaskIds : is = {wtask[w]}
      BY <3>2
    <3> QED BY <3>1, <3>2, <3>3, <3>4
  <2> QED BY <2>1, <2>2
<1>2. \A j \in TaskIds : /\ task'[j].info = task[j].info
                         /\ task'[j].closes = (IF j \in is THEN 1 ELSE task[j].closes)
  BY <1>1, CloseTasks
<1>3. ~HeldBy(w)' /\ \A v \in Workers \ {w} : wpc'[v] = wpc[v]
  BY <1>1 DEF HeldBy, PoolInv, Shapes
<1>4. ASSUME NEW v \in Workers, HeldBy(v)' PROVE Counted(task'[wtask'[v]].info, wpc'[v])
  <2>1. v # w /\ HeldBy(v) /\ wpc'[v] = wpc[v] /\ wtask'[v] = wtask[v]
    BY <1>1, <1>3, <1>4 DEF HeldBy
  <2>2. wtask[v] \in TaskIds
    BY <2>1 DEF PoolInv, OneOwner
  <2> QED BY <1>2, <2>1, <2>2 DEF CountInv
<1>5. \A j \in Queued' : task'[j].info = NoInfo
  BY <1>0, <1>1, <1>2 DEF CountInv
<1>6. \A j \in TaskIds : task'[j].closes > 0 =>
        OneResult(task'[j].info) \/ (closed' /\ task'[j].info = NoInfo)
  BY <1>1, <1>2 DEF CountInv
<1> QED BY <1>4, <1>5, <1>6 DEF CountInv

(* What somebody owns stays as it is, and what is added has counted nothing. *)
LEMMA CountStays ==
  ASSUME PoolInv, CountInv, UNCHANGED <<wpc, wtask>>, closed => closed',
         \A i \in TaskIds : \/ task'[i] = task[i]
                            \/ ~Owned(i) /\ task'[i].closes = 0 /\ task'[i].info = NoInfo,
         \A i \in Queued' : i \in Queued \/ (i \in TaskIds /\ task'[i].info = NoInfo)
  PROVE  CountInv'
<1>1. Queued \subseteq TaskIds
  BY LenProperties DEF PoolInv, Shapes, Queued
<1>2. \A i \in Queued' : task'[i].info = NoInfo
  BY <1>1 DEF CountInv
<1>3. ASSUME NEW w \in Workers, HeldBy(w)' PROVE Counted(task'[wtask'[w]].info, wpc'[w])
  <2>1. HeldBy(w) /\ wtask[w] \in TaskIds /\ Owned(wtask[w])
    BY <1>3 DEF HeldBy, PoolInv, OneOwner, Owned
  <2> QED BY <2>1 DEF CountInv
<1>4. \A i \in TaskIds : task'[i].closes > 0 =>
        OneResult(task'[i].info) \/ (closed' /\ task'[i].info = NoInfo)
  BY DEF CountInv
<1> QED BY <1>2, <1>3, <1>4 DEF CountInv

LEMMA CallerCount ==
  ASSUME ScanInv, CountInv, NEW c \in Callers, Begin(c) \/ CallerStep(c) \/ EndCaller(c)
  PROVE  CountInv'
<1>1. PoolInv /\ UNCHANGED <<wpc, wtask>>
  BY CallerLeaves DEF ScanInv
<1>2. CASE Awaits(c)
  <2>1. UNCHANGED <<queue, closed>>
    BY <1>2 DEF Awaits, Await
  <2>2. Queued' = Queued
    BY <2>1 DEF Queued
  <2>3. NoTask.closes = 0 /\ NoTask.info = NoInfo
    BY DEF NoTask
  <2>4. \A i \in TaskIds : task'[i] = task[i] \/ (~Owned(i) /\ task'[i] = NoTask)
    BY <1>2, ForgottenTasks
  <2> QED BY <1>1, <2>1, <2>2, <2>3, <2>4, CountStays
<1>3. CASE Enqueuing(c) /\ AddTask(c)
  <2>1. PICK i \in TaskIds :
          /\ task'[i].closes = 0 /\ task'[i].info = NoInfo /\ UNCHANGED closed
          /\ \A j \in TaskIds : j # i => task'[j] = task[j]
          /\ ~Owned(i) /\ Queued' = Queued \cup {i}
    BY <1>1, <1>3, AddedToPool
  <2> QED BY <1>1, <2>1, CountStays
<1>4. CASE UNCHANGED <<task, queue, closed>>
  <2>1. Queued' = Queued
    BY <1>4 DEF Queued
  <2> QED BY <1>1, <1>4, <2>1, CountStays
<1>5. Awaits(c) \/ (Enqueuing(c) /\ AddTask(c)) \/ UNCHANGED <<task, queue, closed>>
  <2>1. CASE Begin(c) \/ EndCaller(c)
    BY <2>1 DEF Begin, ScanCached, Scan, ScanDir, BeginScan, PurgeOffsets, EndCaller, poolVars
  <2>2. CASE Enqueue(c)
    BY <2>2 DEF Enqueue, NotSubmitted, Share, poolVars
  <2>3. CASE CallerStep(c) /\ ~Enqueue(c)
    BY <2>3 DEF CallerStep, Caller, Awaits, StatName, StatGone, StatFails, Forget, AwaitEnds, Marshal,
       Truncate, Write, poolVars
  <2> QED BY <2>1, <2>2, <2>3
<1> QED BY <1>2, <1>3, <1>4, <1>5

LEMMA CountStep == ScanInv /\ CountInv /\ [Next]_vars => CountInv'
<1> SUFFICES ASSUME ScanInv, CountInv, [Next]_vars PROVE CountInv'
  OBVIOUS
<1>0. PoolInv
  BY DEF ScanInv
<1>1. CASE New
  <2>1. UNCHANGED <<task, queue, closed>> /\ \A w \in Workers : ~HeldBy(w)'
    BY <1>1 DEF New, Start, poolVars, HeldBy
  <2> QED BY <2>1 DEF CountInv, Queued
<1>2. CASE ForceExit
  <2>1. task' = [i \in TaskIds |-> NoTask] /\ queue' = <<>> /\ \A w \in Workers : ~HeldBy(w)'
    BY <1>2 DEF ForceExit, Vanish, HeldBy
  <2>2. \A i \in TaskIds : task'[i].closes = 0
    BY <2>1 DEF NoTask
  <2> QED BY <2>1, <2>2 DEF CountInv, Queued
<1>3. CASE MainStep \/ \E f \in Files : Replace(f) \/ Remove(f)
  <2>1. UNCHANGED <<task, queue, wpc, wtask>>
    BY <1>3, MainLeaves, FilesLeave
  <2>2. closed => closed'
    BY <1>3, FilesLeave DEF MainStep, Refused, Cancel, CloseBegin, CaptureEnds, CloseEnd, ScanJoined,
       Finished, CloseScanner, vars, scanVars, poolVars
  <2>3. Queued' = Queued
    BY <2>1 DEF Queued
  <2> QED BY <1>0, <2>1, <2>2, <2>3, CountStays
<1>4. ASSUME NEW w \in Workers, WorkerStep(w) PROVE CountInv'
  BY <1>0, <1>4, WorkCount, TakeCount, CloseCount DEF WorkerStep, Worker
<1>5. ASSUME NEW c \in Callers, Begin(c) \/ CallerStep(c) \/ EndCaller(c) PROVE CountInv'
  BY <1>5, CallerCount
<1> QED BY <1>1, <1>2, <1>3, <1>4, <1>5, Steps, MainAssumption DEF EndScans

-----------------------------------------------------------------------------
(* What the scans add up. *)

LEMMA FiniteScan ==
  ASSUME PoolInv, NEW c \in Callers
  PROVE  /\ IsFiniteSet(scan[c].todo) /\ Cardinality(scan[c].todo) \in Nat
         /\ IsFiniteSet(scan[c].await) /\ Cardinality(scan[c].await) \in Nat
BY ScannerAssumption, FS_Subset, FS_CardinalityType DEF PoolInv, Shapes

(* A step of one caller: the others wait for the tasks that they waited for. *)
LEMMA TallyFrame ==
  ASSUME PoolInv, TallyInv, closed => closed', NEW c \in Callers,
         NEW s, scan' = [scan EXCEPT ![c] = s], NEW pc, cpc' = [cpc EXCEPT ![c] = pc],
         \A d \in Callers \ {c} : \A i \in scan[d].await : task'[i].key = task[i].key,
         Tally(s, pc, task', closed')
  PROVE  TallyInv'
<1>1. \A d \in Callers : /\ scan'[d] = (IF d = c THEN s ELSE scan[d])
                         /\ cpc'[d] = (IF d = c THEN pc ELSE cpc[d])
  BY DEF PoolInv, Shapes
<1>2. ASSUME NEW d \in Callers \ {c} PROVE Tally(scan[d], cpc[d], task', closed')
  <2>1. Tally(scan[d], cpc[d], task, closed)
    BY DEF TallyInv
  <2> QED BY <2>1 DEF Tally
<1>3. \A d \in Callers : Tally(scan'[d], cpc'[d], task', closed')
  BY <1>1, <1>2
<1> QED BY <1>3 DEF TallyInv

LEMMA TallyQuiet ==
  ASSUME PoolInv, TallyInv, closed => closed', UNCHANGED <<scan, cpc>>,
         \A i \in TaskIds : task'[i].key = task[i].key
  PROVE  TallyInv'
<1>1. ASSUME NEW d \in Callers PROVE Tally(scan[d], cpc[d], task', closed')
  <2>1. Tally(scan[d], cpc[d], task, closed) /\ scan[d].await \subseteq TaskIds
    BY DEF TallyInv, PoolInv, Shapes
  <2> QED BY <2>1 DEF Tally
<1> QED BY <1>1 DEF TallyInv

(* A name is stated: it is counted as an error or as stale, or asked for.    *)
LEMMA TallyName ==
  ASSUME PoolInv, TallyInv, NEW c \in Callers, cpc[c] = "submit", NEW n \in scan[c].todo,
         NEW s, NEW pc \in Scanning, UNCHANGED <<task, closed>>,
         s.todo = scan[c].todo \ {n}, s.await = scan[c].await, s.listed = scan[c].listed,
         \/ pc = "enqueue" /\ s.key.name = n /\ s.info = scan[c].info
         \/ pc # "enqueue" /\ Balanced(s.info) /\ s.info["total"] = scan[c].info["total"] + 1
  PROVE  Tally(s, pc, task', closed')
<1>1. Tally(scan[c], cpc[c], task, closed)
  BY DEF TallyInv
<1>2. Cardinality(s.todo) = Cardinality(scan[c].todo) - 1
      /\ Cardinality(scan[c].todo) \in Nat /\ Cardinality(scan[c].await) \in Nat
  <2>1. PICK todo : todo = scan[c].todo
    OBVIOUS
  <2>2. IsFiniteSet(todo) /\ n \in todo
    BY <2>1, FiniteScan
  <2>3. Cardinality(todo \ {n}) = Cardinality(todo) - 1
    BY <2>2, FS_RemoveElement
  <2> QED BY <2>1, <2>3, FiniteScan
<1>3. scan[c].info["total"] \in Nat
  BY <1>1 DEF Tally, Balanced, Counters
<1>4. Sum(s, pc) = Sum(scan[c], cpc[c]) /\ Balanced(s.info)
  <2>1. Balanced(s.info)
    BY <1>1 DEF Tally
  <2>2. s.info["total"] + (IF pc = "enqueue" THEN 1 ELSE 0) = scan[c].info["total"] + 1
    BY <1>3
  <2>3. s.info["total"] \in Nat
    BY <2>1 DEF Balanced, Counters
  <2> QED BY <1>2, <1>3, <2>1, <2>2, <2>3 DEF Sum
<1>5. \A i \in s.await : /\ task'[i].key.name \notin s.todo
                         /\ pc = "enqueue" => task'[i].key.name # s.key.name
  BY <1>1 DEF Tally
<1> QED BY <1>1, <1>4, <1>5 DEF Tally

LEMMA NameStep ==
  ASSUME ScanInv, TallyInv, NEW c \in Callers, NEW n \in Names,
         StatName(c, n) \/ StatGone(c, n) \/ StatFails(c, n)
  PROVE  TallyInv'
<1>0. PoolInv /\ IsScan(scan[c]) /\ Balanced(scan[c].info)
      /\ scan = [d \in Callers |-> scan[d]] /\ cpc = [d \in Callers |-> cpc[d]]
  BY DEF ScanInv, PoolInv, Shapes, TallyInv, Tally
<1>1. cpc[c] = "submit" /\ n \in scan[c].todo /\ UNCHANGED <<task, closed>>
  BY DEF StatName, StatGone, StatFails, Submitting, poolVars
<1>2. ASSUME NEW s, NEW pc \in Scanning, scan' = [scan EXCEPT ![c] = s], cpc' = [cpc EXCEPT ![c] = pc],
             s.todo = scan[c].todo \ {n}, s.await = scan[c].await, s.listed = scan[c].listed,
             \/ pc = "enqueue" /\ s.key.name = n /\ s.info = scan[c].info
             \/ pc # "enqueue" /\ Balanced(s.info) /\ s.info["total"] = scan[c].info["total"] + 1
      PROVE  TallyInv'
  <2>1. Tally(s, pc, task', closed')
    BY <1>0, <1>1, <1>2, TallyName
  <2> QED BY <1>0, <1>1, <1>2, <2>1, TallyFrame
<1>3. CASE StatName(c, n)
  <2>1. PICK v : v = disk[Outer[n]]
    OBVIOUS
  <2> DEFINE k == [name |-> n, meta |-> v, opts |-> scan[c].opts]
             s == [scan[c] EXCEPT !.todo = @ \ {n}, !.key = k]
  <2>2. scan' = [scan EXCEPT ![c] = s] /\ cpc' = [cpc EXCEPT ![c] = "enqueue"]
    BY <1>0, <1>3, <2>1 DEF StatName
  <2>3. /\ s.todo = scan[c].todo \ {n} /\ s.await = scan[c].await /\ s.listed = scan[c].listed
        /\ s.info = scan[c].info /\ s.key.name = n
    BY <1>0 DEF IsScan
  <2>4. "enqueue" \in Scanning
    BY DEF Scanning
  <2> HIDE DEF s
  <2> QED BY <1>2, <2>2, <2>3, <2>4
<1>4. ASSUME NEW k, NEW pc \in {"submit", "forget"}, cpc' = [cpc EXCEPT ![c] = pc],
             NEW ks \in {{"total", "stale"}, {"total", "error"}, {"total", "error", "stale"}},
             scan' = [scan EXCEPT ![c].todo = @ \ {n}, ![c].key = k, ![c].info = Bump(@, ks)]
      PROVE  TallyInv'
  <2> DEFINE s == [scan[c] EXCEPT !.todo = @ \ {n}, !.key = k, !.info = Bump(@, ks)]
  <2>1. scan' = [scan EXCEPT ![c] = s]
    BY <1>0, <1>4
  <2>2. /\ s.todo = scan[c].todo \ {n} /\ s.await = scan[c].await /\ s.listed = scan[c].listed
        /\ s.info = Bump(scan[c].info, ks)
    BY <1>0 DEF IsScan
  <2>3. Balanced(s.info) /\ s.info["total"] = scan[c].info["total"] + 1
    <3>1. PICK i : i = scan[c].info
      OBVIOUS
    <3>2. Balanced(Bump(i, ks)) /\ Bump(i, ks)["total"] = i["total"] + 1
      BY <1>0, <3>1, BumpBalanced
    <3> QED BY <2>2, <3>1, <3>2
  <2>4. pc \in Scanning /\ pc # "enqueue"
    BY DEF Scanning
  <2> HIDE DEF s
  <2> QED BY <1>2, <1>4, <2>1, <2>2, <2>3, <2>4
<1>5. CASE StatGone(c, n)
  <2>1. PICK pc \in {"submit", "forget"} : pc = IF scan[c].cached THEN "forget" ELSE "submit"
    OBVIOUS
  <2>2. PICK ks \in {{"total", "stale"}, {"total", "error"}, {"total", "error", "stale"}} :
          ks = {"total", IF scan[c].cached THEN "stale" ELSE "error"}
    OBVIOUS
  <2>3. PICK k : k = [NoKey EXCEPT !.name = n]
    OBVIOUS
  <2>4. cpc' = [cpc EXCEPT ![c] = pc]
        /\ scan' = [scan EXCEPT ![c].todo = @ \ {n}, ![c].key = k, ![c].info = Bump(@, ks)]
    BY <1>5, <2>1, <2>2, <2>3 DEF StatGone
  <2> QED BY <1>4, <2>4
<1>6. CASE StatFails(c, n)
  <2>1. PICK ks \in {{"total", "stale"}, {"total", "error"}, {"total", "error", "stale"}} :
          ks = {"total", "error"} \cup (IF scan[c].cached THEN {"stale"} ELSE {})
    <3>1. {"total", "error"} \cup {"stale"} = {"total", "error", "stale"} /\ {"total", "error"} \cup {} = {"total", "error"}
      OBVIOUS
    <3> QED BY <3>1
  <2>2. UNCHANGED cpc /\ scan' = [scan EXCEPT ![c].todo = @ \ {n}, ![c].info = Bump(@, ks)]
    BY <1>6, <2>1 DEF StatFails
  <2>3. cpc' = [cpc EXCEPT ![c] = "submit"]
    BY <1>0, <1>1, <2>2
  <2>4. PICK k : k = scan[c].key
    OBVIOUS
  <2>5. scan' = [scan EXCEPT ![c].todo = @ \ {n}, ![c].key = k, ![c].info = Bump(@, ks)]
    <3> DEFINE s1 == [scan[c] EXCEPT !.todo = @ \ {n}, !.info = Bump(@, ks)]
               s2 == [scan[c] EXCEPT !.todo = @ \ {n}, !.key = k, !.info = Bump(@, ks)]
    <3>1. s1 = s2
      BY <1>0, <2>4 DEF IsScan
    <3>2. scan' = [scan EXCEPT ![c] = s1]
      BY <1>0, <2>2
    <3>3. scan' = [scan EXCEPT ![c] = s2]
      BY <3>1, <3>2
    <3> QED BY <1>0, <3>3
  <2> QED BY <1>4, <2>3, <2>5
<1> QED BY <1>3, <1>5, <1>6

(* A task is waited for that is added, or that another scan has asked for:   *)
(* either way it is one, and one that this scan does not wait for yet.       *)
LEMMA TallyEnqueue ==
  ASSUME PoolInv, TallyInv, NEW c \in Callers, cpc[c] = "enqueue", UNCHANGED closed,
         NEW i, i \notin scan[c].await, NEW s, s.todo = scan[c].todo, s.info = scan[c].info,
         s.await = scan[c].await \cup {i}, s.listed = scan[c].listed,
         task'[i].key.name = scan[c].key.name,
         \A j \in scan[c].await : task'[j].key = task[j].key
  PROVE  Tally(s, "submit", task', closed')
<1>1. Tally(scan[c], cpc[c], task, closed)
  BY DEF TallyInv
<1>2. Cardinality(s.await) = Cardinality(scan[c].await) + 1
      /\ Cardinality(scan[c].todo) \in Nat /\ Cardinality(scan[c].await) \in Nat
  <2>1. PICK await : await = scan[c].await
    OBVIOUS
  <2>2. IsFiniteSet(await) /\ i \notin await
    BY <2>1, FiniteScan
  <2>3. Cardinality(await \cup {i}) = Cardinality(await) + 1
    BY <2>2, FS_AddElement
  <2> QED BY <2>1, <2>3, FiniteScan
<1>3. Sum(s, "submit") = Sum(scan[c], cpc[c])
  <2>1. scan[c].info["total"] \in Nat
    BY <1>1 DEF Tally, Balanced, Counters
  <2> QED BY <1>2, <2>1 DEF Sum
<1>4. \A j \in s.await : task'[j].key.name \notin s.todo
  BY <1>1 DEF Tally
<1> QED BY <1>1, <1>3, <1>4 DEF Tally, Scanning

LEMMA EnqueueStep ==
  ASSUME ScanInv, TallyInv, NEW c \in Callers, Enqueue(c)
  PROVE  TallyInv'
<1>0. PoolInv /\ IsScan(scan[c]) /\ scan = [d \in Callers |-> scan[d]]
      /\ cpc[c] = "enqueue" /\ cpc' = [cpc EXCEPT ![c] = "submit"] /\ UNCHANGED closed
      /\ Tally(scan[c], cpc[c], task, closed)
  BY DEF ScanInv, PoolInv, Shapes, Enqueue, Enqueuing, NotSubmitted, Share, AddTask, poolVars, TallyInv
<1>1. ASSUME NEW i, i \notin scan[c].await, task'[i].key.name = scan[c].key.name,
             \A d \in Callers : \A j \in scan[d].await : task'[j].key = task[j].key,
             scan' = [scan EXCEPT ![c].key = NoKey, ![c].await = @ \cup {i}]
      PROVE  TallyInv'
  <2> DEFINE s == [scan[c] EXCEPT !.key = NoKey, !.await = @ \cup {i}]
  <2>1. scan' = [scan EXCEPT ![c] = s]
    BY <1>0, <1>1
  <2>2. /\ s.todo = scan[c].todo /\ s.info = scan[c].info /\ s.await = scan[c].await \cup {i}
        /\ s.listed = scan[c].listed
    BY <1>0 DEF IsScan
  <2> HIDE DEF s
  <2>3. Tally(s, "submit", task', closed')
    BY <1>0, <1>1, <2>2, TallyEnqueue
  <2> QED BY <1>0, <1>1, <2>1, <2>3, TallyFrame
<1>2. CASE AddTask(c)
  <2>1. PICK i \in TaskIds :
          /\ task'[i].key = scan[c].key /\ \A j \in TaskIds : j # i => task'[j] = task[j]
          /\ \A d \in Callers : i \notin scan[d].await
          /\ scan' = [scan EXCEPT ![c].key = NoKey, ![c].await = @ \cup {i}]
    BY <1>0, <1>2, AddedToPool DEF Enqueue
  <2>2. ASSUME NEW d \in Callers, NEW j \in scan[d].await PROVE task'[j].key = task[j].key
    BY <1>0, <2>1 DEF PoolInv, Shapes
  <2> QED BY <1>1, <2>1, <2>2
<1>3. CASE Share(c) /\ SameKey(c) # {}
  <2>1. PICK i : i \in SameKey(c)
    BY <1>3
  <2>2. i \in inflight /\ task[i].key = scan[c].key /\ SameKey(c) = {i}
    BY <2>1 DEF SameKey, ScanInv, KeyInv
  <2>3. i \notin scan[c].await
    BY <1>0, <2>2 DEF Tally
  <2>4. scan' = [scan EXCEPT ![c].key = NoKey, ![c].await = @ \cup {i}] /\ UNCHANGED task
    BY <1>3, <2>2 DEF Share, poolVars
  <2> QED BY <1>1, <2>2, <2>3, <2>4
<1>4. CASE closed /\ NotSubmitted(c)
  <2> DEFINE s == [scan[c] EXCEPT !.key = NoKey]
  <2>1. scan' = [scan EXCEPT ![c] = s] /\ UNCHANGED task
    BY <1>0, <1>4 DEF NotSubmitted, poolVars
  <2>2. /\ s.todo = scan[c].todo /\ s.info = scan[c].info /\ s.await = scan[c].await
        /\ s.listed = scan[c].listed
    BY <1>0 DEF IsScan
  <2> HIDE DEF s
  <2>3. Sum(s, "submit") <= Sum(scan[c], cpc[c]) /\ Sum(s, "submit") \in Nat /\ Sum(scan[c], cpc[c]) \in Nat
    <3>1. scan[c].info["total"] \in Nat
      BY <1>0 DEF Tally, Balanced, Counters
    <3> QED BY <1>0, <2>2, <3>1, FiniteScan DEF Sum
  <2>4. Tally(s, "submit", task', closed')
    BY <1>0, <1>4, <2>1, <2>2, <2>3 DEF Tally, Scanning
  <2> QED BY <1>0, <2>1, <2>4, TallyFrame
<1> QED BY <1>2, <1>3, <1>4 DEF Enqueue

(* A task that is waited for is counted. *)
LEMMA TallyAwait ==
  ASSUME PoolInv, CountInv, TallyInv, NEW c \in Callers, cpc[c] = "submit", UNCHANGED closed,
         NEW i \in scan[c].await, i \in TaskIds, task[i].closes > 0, NEW s, s.todo = scan[c].todo,
         s.await = scan[c].await \ {i}, s.info = Add(scan[c].info, task[i].info),
         s.listed = scan[c].listed, \A j \in TaskIds : j # i => task'[j].key = task[j].key
  PROVE  Tally(s, "submit", task', closed')
<1>1. Tally(scan[c], cpc[c], task, closed)
  BY DEF TallyInv
<1>2. Cardinality(s.await) = Cardinality(scan[c].await) - 1
      /\ Cardinality(scan[c].todo) \in Nat /\ Cardinality(scan[c].await) \in Nat
  <2>1. PICK await : await = scan[c].await
    OBVIOUS
  <2>2. IsFiniteSet(await) /\ i \in await
    BY <2>1, FiniteScan
  <2>3. Cardinality(await \ {i}) = Cardinality(await) - 1
    BY <2>2, FS_RemoveElement
  <2> QED BY <2>1, <2>3, FiniteScan
<1>3. PICK a, b : a = scan[c].info /\ b = task[i].info
  OBVIOUS
<1>4. Balanced(a) /\ Balanced(b) /\ (b["total"] = 1 \/ (closed /\ b["total"] = 0))
  BY <1>1, <1>3, NoInfoAt DEF Tally, CountInv, OneResult, Counters
<1>5. Balanced(s.info) /\ s.info["total"] = a["total"] + b["total"]
  BY <1>3, <1>4, AddBalanced
<1>6. a["total"] \in Nat
  BY <1>4 DEF Balanced, Counters
<1>7. /\ Sum(s, "submit") <= Sum(scan[c], cpc[c]) /\ Sum(s, "submit") \in Nat
      /\ Sum(scan[c], cpc[c]) \in Nat /\ (~closed => Sum(s, "submit") = Sum(scan[c], cpc[c]))
  <2>1. Sum(scan[c], cpc[c]) = a["total"] + Cardinality(scan[c].todo) + Cardinality(scan[c].await)
    BY <1>2, <1>3, <1>6 DEF Sum
  <2>2. Sum(s, "submit") = a["total"] + b["total"] + Cardinality(scan[c].todo) + (Cardinality(scan[c].await) - 1)
    <3>1. s.info["total"] \in Nat
      BY <1>5 DEF Balanced, Counters
    <3> QED BY <1>2, <1>5, <3>1 DEF Sum
  <2>3. Cardinality(s.await) \in Nat
    <3>1. IsFiniteSet(s.await)
      BY FiniteScan, FS_Subset
    <3> QED BY <3>1, FS_CardinalityType
  <2> QED BY <1>2, <1>4, <1>6, <2>1, <2>2, <2>3
<1>8. \A j \in s.await : task'[j].key.name \notin s.todo
  BY <1>1 DEF Tally, PoolInv, Shapes
<1> QED BY <1>1, <1>5, <1>7, <1>8 DEF Tally, Scanning

LEMMA WaitStep ==
  ASSUME ScanInv, CountInv, TallyInv, NEW c \in Callers, Awaits(c)
  PROVE  TallyInv'
<1>0. PoolInv /\ IsScan(scan[c]) /\ scan = [d \in Callers |-> scan[d]] /\ cpc = [d \in Callers |-> cpc[d]]
  BY DEF ScanInv, PoolInv, Shapes
<1>1. PICK i \in TaskIds :
        /\ cpc[c] = "submit" /\ i \in scan[c].await /\ task[i].closes > 0
        /\ UNCHANGED <<cpc, closed>>
        /\ scan' = [scan EXCEPT ![c].await = @ \ {i}, ![c].info = Add(@, task[i].info)]
        /\ task' = [task EXCEPT ![i] = IF Waiting(i) = {c} THEN NoTask ELSE @]
  BY DEF Awaits, Await
<1> DEFINE s == [scan[c] EXCEPT !.await = @ \ {i}, !.info = Add(@, task[i].info)]
<1>2. scan' = [scan EXCEPT ![c] = s] /\ cpc' = [cpc EXCEPT ![c] = "submit"]
  BY <1>0, <1>1
<1>3. /\ s.todo = scan[c].todo /\ s.await = scan[c].await \ {i} /\ s.listed = scan[c].listed
      /\ s.info = Add(scan[c].info, task[i].info)
  BY <1>0 DEF IsScan
<1> HIDE DEF s
<1>4. \A j \in TaskIds : j # i => task'[j] = task[j]
  BY <1>0, <1>1 DEF PoolInv, Shapes
<1>5. Tally(s, "submit", task', closed')
  BY <1>0, <1>1, <1>3, <1>4, TallyAwait
<1>6. ASSUME NEW d \in Callers \ {c}, NEW j \in scan[d].await PROVE task'[j].key = task[j].key
  <2>1. CASE j # i
    BY <1>0, <1>4, <2>1 DEF PoolInv, Shapes
  <2>2. CASE j = i
    <3>1. Waiting(i) # {c}
      BY <1>6, <2>2 DEF Waiting
    <3>2. task' = task
      BY <1>0, <1>1, <3>1 DEF PoolInv, Shapes
    <3> QED BY <3>2
  <2> QED BY <2>1, <2>2
<1> QED BY <1>0, <1>1, <1>2, <1>5, <1>6, TallyFrame

(* A step that counts nothing and waits for nothing. *)
LEMMA TallyMove ==
  ASSUME PoolInv, TallyInv, NEW c \in Callers, cpc[c] # "enqueue", UNCHANGED <<task, closed>>,
         NEW pc, pc # "enqueue", cpc' = [cpc EXCEPT ![c] = pc],
         NEW s, scan' = [scan EXCEPT ![c] = s], s.todo = scan[c].todo, s.await = scan[c].await,
         s.listed = scan[c].listed, s.info = scan[c].info,
         pc \in Scanning \/ (scan[c].todo = {} /\ scan[c].await = {})
  PROVE  TallyInv'
<1>1. Tally(scan[c], cpc[c], task, closed)
  BY DEF TallyInv
<1>2. Sum(s, pc) = Sum(scan[c], cpc[c])
  BY DEF Sum
<1>3. Tally(s, pc, task', closed')
  BY <1>1, <1>2 DEF Tally
<1> QED BY <1>3, TallyFrame

LEMMA EmptyTally == \A pc : pc # "enqueue" => \A tasks, cl : Tally(NoScan, pc, tasks, cl)
<1>1. /\ NoScan.todo = {} /\ NoScan.await = {} /\ NoScan.listed = 0 /\ NoScan.info = NoInfo
  BY DEF NoScan
<1>2. Cardinality({}) = 0
  BY FS_EmptySet
<1>3. \A pc : pc # "enqueue" => Sum(NoScan, pc) = 0
  <2>1. NoInfo["total"] = 0
    BY NoInfoAt DEF Counters
  <2> QED BY <1>1, <1>2, <2>1 DEF Sum
<1> QED BY <1>1, <1>3, NoInfoAt DEF Tally

LEMMA ScanBegins ==
  ASSUME ScanInv, TallyInv, NEW c \in Callers, NEW cached, NEW o, NEW names \in SUBSET Names,
         NEW i \in {NoInfo, Bump(NoInfo, {"total", "error"})}, BeginScan(c, cached, o, names, i)
  PROVE  TallyInv'
<1>1. Balanced(i)
  BY NoInfoAt, BumpBalanced
<1>2. i["total"] \in Nat
  BY <1>1 DEF Balanced, Counters
<1> DEFINE s == [NoScan EXCEPT !.cached = cached, !.opts = o, !.todo = names,
                   !.listed = Cardinality(names) + i["total"], !.info = i]
<1>3. /\ PoolInv /\ scan' = [scan EXCEPT ![c] = s] /\ cpc' = [cpc EXCEPT ![c] = "submit"]
      /\ UNCHANGED <<task, closed>>
  BY DEF ScanInv, BeginScan, poolVars
<1>4. /\ s.todo = names /\ s.await = {} /\ s.info = i
      /\ s.listed = Cardinality(names) + i["total"]
  BY DEF NoScan
<1> HIDE DEF s
<1>5. Cardinality(names) \in Nat /\ Cardinality({}) = 0
  BY ScannerAssumption, FS_Subset, FS_CardinalityType, FS_EmptySet
<1>6. Sum(s, "submit") = s.listed /\ s.listed \in Nat
  BY <1>2, <1>4, <1>5 DEF Sum
<1>7. Tally(s, "submit", task', closed')
  BY <1>1, <1>4, <1>6 DEF Tally, Scanning
<1> QED BY <1>3, <1>7, TallyFrame

LEMMA CallerTally ==
  ASSUME ScanInv, CountInv, TallyInv, NEW c \in Callers, Begin(c) \/ CallerStep(c) \/ EndCaller(c)
  PROVE  TallyInv'
<1>0. /\ PoolInv /\ scan = [d \in Callers |-> scan[d]] /\ cpc = [d \in Callers |-> cpc[d]]
      /\ IsScan(scan[c]) /\ Tally(scan[c], cpc[c], task, closed)
  BY DEF ScanInv, PoolInv, Shapes, TallyInv
<1>1. ASSUME NEW pc, pc # "enqueue", cpc' = [cpc EXCEPT ![c] = pc], cpc[c] \notin Scanning,
             UNCHANGED <<scan, task, closed>>
      PROVE  TallyInv'
  <2>1. PICK s : s = scan[c]
    OBVIOUS
  <2>2. scan' = [scan EXCEPT ![c] = s]
    BY <1>0, <1>1, <2>1
  <2>3. scan[c].todo = {} /\ scan[c].await = {} /\ cpc[c] # "enqueue"
    BY <1>0, <1>1 DEF Tally, Scanning
  <2> QED BY <1>0, <1>1, <2>1, <2>2, <2>3, TallyMove
<1>2. CASE Begin(c)
  <2>1. CASE PurgeOffsets(c)
    BY <1>1, <2>1 DEF PurgeOffsets, poolVars, Scanning
  <2>2. CASE ~PurgeOffsets(c)
    <3>1. PICK names \in SUBSET Names, i \in {NoInfo, Bump(NoInfo, {"total", "error"})} :
            \E cached, o : BeginScan(c, cached, o, names, i)
      <4>1. {n \in Names : file[n] # NoEntry} \in SUBSET Names /\ {} \in SUBSET Names
            /\ \A n \in Names : {n} \in SUBSET Names
        OBVIOUS
      <4>2. CASE \E o \in Opts : ScanCached(c, o)
        BY <4>1, <4>2 DEF ScanCached
      <4>3. CASE \E o \in Opts : ScanDir(c, o)
        BY <4>1, <4>3 DEF ScanDir
      <4>4. CASE \E o \in Opts : \E n \in Names : Scan(c, o, n)
        BY <4>1, <4>4 DEF Scan
      <4> QED BY <1>2, <2>2, <4>2, <4>3, <4>4 DEF Begin
    <3> QED BY <3>1, ScanBegins
  <2> QED BY <2>1, <2>2
<1>3. CASE Truncate(c) \/ Write(c) \/ EndCaller(c)
  <2>1. PICK pc \in {"write", "idle", "ended"} : cpc' = [cpc EXCEPT ![c] = pc]
    BY <1>3 DEF Truncate, Write, EndCaller
  <2> QED BY <1>1, <1>3, <2>1 DEF Truncate, Write, EndCaller, poolVars, Scanning
<1>4. CASE Forget(c)
  <2> DEFINE s == [scan[c] EXCEPT !.key = NoKey]
  <2>1. /\ s.todo = scan[c].todo /\ s.await = scan[c].await /\ s.listed = scan[c].listed
        /\ s.info = scan[c].info
    BY <1>0 DEF IsScan
  <2>2. /\ scan' = [scan EXCEPT ![c] = s] /\ cpc' = [cpc EXCEPT ![c] = "submit"]
        /\ cpc[c] = "forget" /\ UNCHANGED <<task, closed>>
    BY <1>0, <1>4 DEF Forget, poolVars
  <2> HIDE DEF s
  <2> QED BY <1>0, <2>1, <2>2, TallyMove DEF Scanning
<1>5. CASE AwaitEnds(c)
  <2>1. PICK s : s = scan[c]
    OBVIOUS
  <2>2. /\ scan' = [scan EXCEPT ![c] = s] /\ cpc' = [cpc EXCEPT ![c] = "marshal"]
        /\ cpc[c] = "submit" /\ UNCHANGED <<task, closed>> /\ scan[c].todo = {} /\ scan[c].await = {}
    BY <1>0, <1>5, <2>1 DEF AwaitEnds, poolVars
  <2> QED BY <1>0, <2>1, <2>2, TallyMove
<1>6. CASE Marshal(c)
  <2>1. /\ scan' = [scan EXCEPT ![c] = NoScan] /\ cpc' = [cpc EXCEPT ![c] = "truncate"]
        /\ UNCHANGED <<task, closed>>
    BY <1>6 DEF Marshal, poolVars
  <2> QED BY <1>0, <2>1, EmptyTally, TallyFrame
<1>7. CASE Enqueue(c) \/ Awaits(c) \/ \E n \in Names : StatName(c, n) \/ StatGone(c, n) \/ StatFails(c, n)
  BY <1>7, EnqueueStep, WaitStep, NameStep
<1> QED BY <1>2, <1>3, <1>4, <1>5, <1>6, <1>7 DEF CallerStep, Caller, Awaits

LEMMA TallyStep == FileInv /\ CountInv /\ TallyInv /\ [Next]_vars => TallyInv'
<1> SUFFICES ASSUME FileInv, CountInv, TallyInv, [Next]_vars PROVE TallyInv'
  OBVIOUS
<1>0. ScanInv /\ PoolInv
  BY DEF FileInv, ScanInv
<1>1. CASE New
  <2>1. /\ UNCHANGED <<task, scan, closed>> /\ cpc' = [c \in Callers |-> "idle"] /\ main = "down"
    BY <1>1, EndsLeave DEF New, Start
  <2>2. ASSUME NEW c \in Callers PROVE Tally(scan'[c], cpc'[c], task', closed')
    <3>1. Tally(scan[c], "ended", task, closed)
      BY <2>1 DEF TallyInv, FileInv, WaitInv
    <3>2. Sum(scan[c], "idle") = Sum(scan[c], "ended")
      BY DEF Sum
    <3> QED BY <2>1, <3>1, <3>2 DEF Tally, Scanning
  <2> QED BY <2>2 DEF TallyInv
<1>2. CASE ForceExit
  <2>1. cpc' = [c \in Callers |-> "ended"] /\ scan' = [c \in Callers |-> NoScan]
    BY <1>2 DEF ForceExit, Vanish
  <2> QED BY <2>1, EmptyTally DEF TallyInv
<1>3. CASE MainStep \/ \E f \in Files : Replace(f) \/ Remove(f)
  <2>1. UNCHANGED <<task, scan, cpc>>
    BY <1>3, MainLeaves, FilesLeave
  <2>2. closed => closed'
    BY <1>3, FilesLeave DEF MainStep, Refused, Cancel, CloseBegin, CaptureEnds, CloseEnd, ScanJoined,
       Finished, CloseScanner, vars, scanVars, poolVars
  <2> QED BY <1>0, <2>1, <2>2, TallyQuiet
<1>4. ASSUME NEW w \in Workers, WorkerStep(w) PROVE TallyInv'
  BY <1>0, <1>4, WorkerLeaves, WorkerKeys, TallyQuiet
<1>5. ASSUME NEW c \in Callers, Begin(c) \/ CallerStep(c) \/ EndCaller(c) PROVE TallyInv'
  BY <1>0, <1>5, CallerTally
<1> QED BY <1>1, <1>2, <1>3, <1>4, <1>5, Steps, MainAssumption DEF EndScans

LEMMA InfoInit == Init => InfoInv
<1> SUFFICES ASSUME Init PROVE InfoInv
  OBVIOUS
<1> USE DEF Init, ScannerInit
<1>1. FileInv
  BY FileInit
<1>2. CountInv
  BY DEF CountInv, HeldBy, Queued, NoTask
<1>3. TallyInv
  BY EmptyTally DEF TallyInv
<1> QED BY <1>1, <1>2, <1>3 DEF InfoInv

(* The ScanInfo that Scan, ScanDir and ScanCached return: every name that    *)
(* was listed is counted once, whether its task was the scan's own or shared *)
(* with another scan, unless the scanner was closed meanwhile; what is       *)
(* counted is cached, stale or new, or else an error, and every offset is    *)
(* cached, new or an error (ScanInfo.Add, the loops that wait for the tasks, *)
(* processTask's bumps).                                                     *)
THEOREM InfoIsRight == Spec => []InfoAddsUp
<1>1. InfoInv /\ [Next]_vars => InfoInv'
  <2>1. FileInv => ScanInv
    BY DEF FileInv
  <2>2. ScanInv /\ [Next]_vars => ScanInv'
    BY NextPool, DiskStep, CacheStep, KeyStep, WorkStep DEF ScanInv
  <2> QED BY <2>1, <2>2, FileStep, CountStep, TallyStep DEF InfoInv
<1>2. InfoInv => InfoAddsUp
  <2> SUFFICES ASSUME InfoInv, NEW c \in Callers, cpc[c] = "marshal"
               PROVE  LET i == scan[c].info IN
                        /\ i["total"] <= scan[c].listed /\ (~closed => i["total"] = scan[c].listed)
                        /\ i["cached"] + i["stale"] + i["new"] <= i["total"]
                        /\ i["total"] <= i["cached"] + i["stale"] + i["new"] + i["error"]
                        /\ i["ototal"] = i["ocached"] + i["onew"] + i["oerror"]
    BY DEF InfoAddsUp
  <2>1. Tally(scan[c], cpc[c], task, closed)
    BY DEF InfoInv, TallyInv
  <2>2. scan[c].todo = {} /\ scan[c].await = {}
    BY <2>1 DEF Tally, Scanning
  <2>3. Cardinality({}) = 0 /\ scan[c].info["total"] \in Nat
    BY <2>1, FS_EmptySet DEF Tally, Balanced, Counters
  <2>4. Sum(scan[c], cpc[c]) = scan[c].info["total"]
    BY <2>2, <2>3 DEF Sum
  <2> QED BY <2>1, <2>4 DEF Tally, Balanced
<1> QED BY <1>1, <1>2, InfoInit, PTL DEF Spec
=============================================================================
