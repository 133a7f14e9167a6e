------------------------------ MODULE BPFProbe ------------------------------
(***************************************************************************)
(* bpfprobe (src/internal/probe/bpfprobe): what Attach builds and Close    *)
(* takes down.  For each configuration there is an instance of the BPF     *)
(* program with a perf ring per CPU, and for each target a uprobe that     *)
(* runs the program of an instance.  handleEvents waits on an epoll of all *)
(* rings and finds a ring by its descriptor; handleHotplug opens rings for *)
(* CPUs that come online.  The maps are guarded by mu, the rings are read  *)
(* without it.  What becomes of an event that has been read is ProbeEvents.*)
(*                                                                         *)
(* An action is a step of a goroutine between two points where the kernel  *)
(* or another goroutine can interfere.  An online event is sent when the   *)
(* CPU is online; a ring keeps its records while its CPU is offline.       *)
(***************************************************************************)
EXTENDS Integers, Sequences, FiniteSets

CONSTANTS
  Cpus,        \* p.cpus: CPUs 0 .. Cpus - 1 are possible
  Targets,     \* attachSpec [key, cfg]: path and offset; configKey, offsets in the structs
  Fds,         \* descriptors that rings may get
  OtherPids,   \* other processes that have used tracefs
  MaxAttach,   \* bound: calls of Attach
  MaxChanges,  \* bound: CPUs going online or offline
  MaxHits,     \* bound: hits of uprobes
  MaxFails     \* bound: failing system calls

Cpu == 0 .. Cpus - 1
Pis == 1 .. MaxAttach            \* instances: the call of Attach that made them
Configs == {t.cfg : t \in Targets}
Keys == {t.key : t \in Targets}
Me == "me"

ASSUME BPFProbeAssumption ==
  /\ Cpus \in Nat \ {0} /\ MaxAttach \in Nat /\ MaxChanges \in Nat
  /\ MaxHits \in Nat /\ MaxFails \in Nat
  /\ Fds \subseteq Nat \ {0} /\ IsFiniteSet(Fds) /\ Cardinality(Fds) >= Cpus * MaxAttach
  /\ Me \notin OtherPids

VARIABLES
  (* the kernel *)
  online,     \* CPUs that are online
  uevents,    \* the hotplug socket: CPUs that have come online or gone offline
  alive,      \* the other processes that run
  entries,    \* tracefs uprobe_events: <<pid, seq>>
  records,    \* records[pi][c]: unread records of the ring
  (* Probe, guarded by mu *)
  mu,         \* "free", "attach", "hotplug"
  instances,  \* instances[cfg], or 0
  uprobes,    \* [key, pi, seq]; seq numbers the tracefs entries, 0 for perf
  ring,       \* ring[pi][c]: the descriptor of an open ring, or 0
  ringFd,     \* ringFd[fd]: what the maps ringFd and ringInstance hold, or NoRing
  (* the rest of Probe *)
  tracefs,    \* no uprobe PMU
  done,       \* p.done is closed, and cancelFd is written
  fatal,      \* fatalCh is closed
  (* the goroutines *)
  ppc,        \* New and Close: "new", "up", "wait" (for the goroutines), "closed" or
              \*   "killed"
  apc, spec, acpu,  \* Attach: "idle", "rings" or "uprobe"; its target, instance and CPU
  epc, batch, cur,  \* handleEvents: "wait", "batch", "read" or "gone"; fds; a ring
  hpc, hcpu, htodo, \* handleHotplug: "read", "lock", "rings" or "gone"; a CPU; instances
  attaches, changes, hits, fails, seq

kernelVars == <<online, uevents, alive, entries>>
mapVars    == <<instances, uprobes, ring, ringFd>>
attachVars == <<apc, spec, acpu, attaches, seq>>
eventVars  == <<epc, batch, cur>>
plugVars   == <<hpc, hcpu, htodo>>
countVars  == <<changes, hits, fails>>
vars == <<kernelVars, records, mu, mapVars, tracefs, done, fatal, ppc, attachVars,
          eventVars, plugVars, countVars>>

NoRing == <<0, 0>>
NoSpec == [key |-> "none", cfg |-> "none", pi |-> 0]
Cancel == 0                          \* cancelFd, in a batch of descriptors
OpenFds == {ring[pi][c] : pi \in Pis, c \in Cpu} \ {0}
Installed == {instances[g] : g \in Configs} \ {0}

NoRings == [pi \in Pis |-> [c \in Cpu |-> 0]]

Init ==
  /\ online \in {on \in SUBSET Cpu : on # {}} /\ uevents = <<>>
  /\ alive \in SUBSET OtherPids
  /\ tracefs \in BOOLEAN /\ entries \in {{}, ({Me} \cup OtherPids) \X {1}}
  /\ ~tracefs => (entries = {} /\ alive = {})
  /\ records = NoRings
  /\ mu = "free" /\ instances = [g \in Configs |-> 0] /\ uprobes = {}
  /\ ring = NoRings /\ ringFd = [f \in Fds |-> NoRing]
  /\ done = FALSE /\ fatal = FALSE /\ ppc = "new"
  /\ apc = "idle" /\ spec = NoSpec /\ acpu = 0 /\ attaches = 0 /\ seq = 0
  /\ epc = "gone" /\ batch = {} /\ cur = NoRing
  /\ hpc = "gone" /\ hcpu = 0 /\ htodo = {}
  /\ changes = 0 /\ hits = 0 /\ fails = 0

-----------------------------------------------------------------------------
(* The kernel. *)

KernelOnly == UNCHANGED <<alive, entries, mu, mapVars, tracefs, done, fatal, ppc,
                          attachVars, eventVars, plugVars, fails>>
Switch(c) ==
  /\ changes < MaxChanges /\ changes' = changes + 1
  /\ online' = IF c \in online THEN online \ {c} ELSE online \cup {c}
  /\ online' # {}
  /\ uevents' = IF ppc = "new" THEN uevents
                ELSE Append(uevents, [cpu |-> c, online |-> c \notin online])
  /\ UNCHANGED <<records, hits>> /\ KernelOnly

Hit(u, c) ==                         \* without a ring the event is lost
  /\ hits < MaxHits /\ hits' = hits + 1 /\ u \in uprobes /\ c \in online
  /\ records' = [records EXCEPT ![u.pi][c] = IF ring[u.pi][c] # 0 THEN @ + 1 ELSE @]
  /\ UNCHANGED <<online, uevents, changes>> /\ KernelOnly

-----------------------------------------------------------------------------
(* New: entries of processes that are gone are removed, one's own pid is     *)
(* taken for alive.                                                          *)

Stale == {e \in entries : e[1] \notin alive \cup {Me}}

New ==
  /\ ppc = "new" /\ ppc' = "up" /\ epc' = "wait" /\ hpc' = "read"
  /\ entries' = entries \ Stale
  /\ UNCHANGED <<online, uevents, alive, records, mu, mapVars, tracefs, done, fatal,
                 attachVars, batch, cur, hcpu, htodo, countVars>>

(* The process is killed: only the entries of tracefs outlive it.            *)
Kill ==
  /\ ppc \in {"up", "wait"} /\ ppc' = "killed"
  /\ apc' = "idle" /\ spec' = NoSpec /\ acpu' = 0 /\ epc' = "gone" /\ batch' = {}
  /\ cur' = NoRing /\ hpc' = "gone" /\ hcpu' = 0 /\ htodo' = {}
  /\ mu' = "free" /\ instances' = [g \in Configs |-> 0] /\ uprobes' = {}
  /\ ring' = NoRings /\ records' = NoRings /\ ringFd' = [f \in Fds |-> NoRing]
  /\ uevents' = <<>> /\ done' = FALSE /\ fatal' = FALSE
  /\ UNCHANGED <<online, alive, entries, tracefs, attaches, seq, countVars>>

-----------------------------------------------------------------------------
(* ringLocked, by the holder of mu.                                          *)

Fail == fails < MaxFails /\ fails' = fails + 1
NoFail == UNCHANGED fails

Skip(pi, c) == ring[pi][c] # 0 \/ c \notin online    \* there is one, or ENODEV

OpenRingOnce(pi, c) ==               \* mutant: an entry in ringFd is never replaced
  \E f \in Fds \ OpenFds :
    /\ \A g \in Fds \ OpenFds : f <= g
    /\ ring' = [ring EXCEPT ![pi][c] = f]
    /\ ringFd' = [ringFd EXCEPT ![f] = IF @ = NoRing THEN <<pi, c>> ELSE @]

OpenRing(pi, c) ==                   \* the kernel gives the lowest descriptor
  \E f \in Fds \ OpenFds :
    /\ \A g \in Fds \ OpenFds : f <= g
    /\ ring' = [ring EXCEPT ![pi][c] = f]
    /\ ringFd' = [ringFd EXCEPT ![f] = <<pi, c>>]

RingLocked(pi, c) ==
  IF Skip(pi, c) THEN UNCHANGED <<ring, ringFd>> ELSE OpenRing(pi, c)

-----------------------------------------------------------------------------
(* Attach. *)

AttachOnly == UNCHANGED <<online, uevents, alive, tracefs, done, ppc, fatal, eventVars,
                          plugVars, changes, hits>>

AttachEnds == apc' = "idle" /\ mu' = "free" /\ spec' = NoSpec /\ acpu' = 0

AttachBegin(t) ==
  LET cfg == t.cfg  pi == instances[cfg] IN
  /\ ppc = "up" /\ apc = "idle" /\ mu = "free"
  /\ attaches < MaxAttach /\ attaches' = attaches + 1
  /\ mu' = "attach" /\ acpu' = 0
  /\ spec' = [key |-> t.key, cfg |-> cfg, pi |-> IF pi = 0 THEN attaches + 1 ELSE pi]
  /\ apc' = IF pi = 0 THEN "rings" ELSE "uprobe"
  /\ instances' = [instances EXCEPT ![cfg] = IF pi = 0 THEN attaches + 1 ELSE pi]
  /\ UNCHANGED <<entries, records, uprobes, ring, ringFd, seq>> /\ NoFail /\ AttachOnly

AttachRing ==
  /\ apc = "rings" /\ RingLocked(spec.pi, acpu)
  /\ acpu' = acpu + 1 /\ apc' = IF acpu + 1 = Cpus THEN "uprobe" ELSE "rings"
  /\ UNCHANGED <<entries, records, mu, instances, uprobes, spec, attaches, seq>>
  /\ NoFail /\ AttachOnly

CloseRings(pis) ==                   \* Ring.Close, by pi.Close
  /\ ring' = [pi \in Pis |-> IF pi \in pis THEN [c \in Cpu |-> 0] ELSE ring[pi]]
  /\ records' = [pi \in Pis |-> IF pi \in pis THEN [c \in Cpu |-> 0] ELSE records[pi]]

AttachRingFailsOpen ==               \* mutant: the instance is not closed
  /\ apc = "rings" /\ ~Skip(spec.pi, acpu) /\ Fail
  /\ instances' = [instances EXCEPT ![spec.cfg] = 0]
  /\ AttachEnds
  /\ UNCHANGED <<entries, records, uprobes, ring, ringFd, attaches, seq>> /\ AttachOnly

(* A ring cannot be opened or registered: the instance is closed and taken   *)
(* out; its rings stay in ringFd.                                            *)
AttachRingFails ==
  /\ apc = "rings" /\ ~Skip(spec.pi, acpu) /\ Fail
  /\ CloseRings({spec.pi})
  /\ instances' = [instances EXCEPT ![spec.cfg] = 0]
  /\ AttachEnds
  /\ UNCHANGED <<entries, uprobes, ringFd, attaches, seq>> /\ AttachOnly

(* uprobeLocked: nothing if the target has a uprobe, whatever its program.   *)
Exists(key) == \E u \in uprobes : u.key = key
Entry == <<Me, seq + 1>>

AttachUprobe ==
  /\ apc = "uprobe"
  /\ \/ Exists(spec.key) /\ UNCHANGED <<uprobes, entries, seq>>
     \/ /\ ~Exists(spec.key) /\ (tracefs => Entry \notin entries)
        /\ uprobes' = uprobes \cup
             {[key |-> spec.key, pi |-> spec.pi, seq |-> IF tracefs THEN seq + 1 ELSE 0]}
        /\ entries' = entries \cup (IF tracefs THEN {Entry} ELSE {})
        /\ seq' = IF tracefs THEN seq + 1 ELSE seq
  /\ AttachEnds
  /\ UNCHANGED <<records, instances, ring, ringFd, attaches>> /\ NoFail /\ AttachOnly

(* The open, SetBPF or Enable fails: the event is closed, its entry removed. *)
(* The name of an entry that one's own pid has left in an earlier life is    *)
(* refused.  The instance stays.                                             *)
AttachUprobeFails ==
  /\ apc = "uprobe" /\ ~Exists(spec.key)
  /\ Fail \/ (tracefs /\ Entry \in entries /\ NoFail)
  /\ seq' = IF tracefs THEN seq + 1 ELSE seq
  /\ AttachEnds
  /\ UNCHANGED <<entries, records, mapVars, attaches>> /\ AttachOnly

Attach ==
  \/ \E t \in Targets : AttachBegin(t)
  \/ AttachRing \/ AttachRingFails \/ AttachUprobe \/ AttachUprobeFails

-----------------------------------------------------------------------------
(* handleEvents: the descriptors that are ready are fetched at once, a ring  *)
(* is looked up under mu and read after the unlock.                          *)

EventsOnly == UNCHANGED <<kernelVars, mu, mapVars, tracefs, done, ppc, attachVars,
                          plugVars, changes, hits>>

Ready == {f \in OpenFds : \E pi \in Pis, c \in Cpu : ring[pi][c] = f /\ records[pi][c] > 0}
         \cup (IF done THEN {Cancel} ELSE {})

EpollWait ==
  /\ epc = "wait" /\ Ready # {}
  /\ batch' = Ready /\ epc' = "batch"
  /\ UNCHANGED <<records, fatal, cur>> /\ NoFail /\ EventsOnly

EpollFails ==
  /\ epc = "wait" /\ Fail
  /\ epc' = "gone" /\ fatal' = (fatal \/ ~done)
  /\ UNCHANGED <<records, batch, cur>> /\ EventsOnly

TakeFdOn(f) ==                       \* mutant: cancelFd is a descriptor like the others
  /\ epc = "batch" /\ f \in batch /\ batch' = batch \ {f}
  /\ mu = "free"
  /\ cur' = IF f = Cancel THEN NoRing ELSE ringFd[f]
  /\ epc' = IF cur' = NoRing THEN "batch" ELSE "read"
  /\ UNCHANGED <<records, fatal>> /\ NoFail /\ EventsOnly

TakeFd(f) ==
  /\ epc = "batch" /\ f \in batch
  /\ \/ f = Cancel /\ epc' = "gone" /\ batch' = {} /\ UNCHANGED cur
     \/ /\ f # Cancel /\ mu = "free" /\ batch' = batch \ {f}
        /\ cur' = ringFd[f]
        /\ epc' = IF ringFd[f] = NoRing THEN "batch" ELSE "read"
  /\ UNCHANGED <<records, fatal>> /\ NoFail /\ EventsOnly

BatchEnds ==
  /\ epc = "batch" /\ batch = {} /\ epc' = "wait"
  /\ UNCHANGED <<records, fatal, batch, cur>> /\ NoFail /\ EventsOnly

(* ReadRecord, until the ring is empty, or closed: then it has no memory.    *)
Read ==
  LET pi == cur[1]  c == cur[2] IN
  /\ epc = "read"
  /\ \/ /\ ring[pi][c] # 0 /\ records[pi][c] > 0
        /\ records' = [records EXCEPT ![pi][c] = @ - 1] /\ UNCHANGED <<epc, cur>>
     \/ /\ ring[pi][c] = 0 \/ records[pi][c] = 0
        /\ epc' = "batch" /\ cur' = NoRing /\ UNCHANGED records
  /\ UNCHANGED <<fatal, batch>> /\ NoFail /\ EventsOnly

HandleEvents == EpollWait \/ EpollFails \/ (\E f \in batch : TakeFd(f)) \/ BatchEnds \/ Read

-----------------------------------------------------------------------------
(* handleHotplug. *)

PlugOnly == UNCHANGED <<online, alive, entries, records, instances, uprobes, tracefs,
                        done, ppc, attachVars, eventVars, changes, hits>>

PlugRead ==
  /\ hpc = "read" /\ ~done /\ uevents # <<>>
  /\ uevents' = Tail(uevents)
  /\ hpc' = IF Head(uevents).online THEN "lock" ELSE "read"
  /\ hcpu' = IF Head(uevents).online THEN Head(uevents).cpu ELSE 0
  /\ UNCHANGED <<mu, ring, ringFd, fatal, htodo>> /\ NoFail /\ PlugOnly

PlugEnds ==                          \* Close has closed the socket, or the read fails
  /\ hpc = "read"
  /\ \/ done /\ UNCHANGED fatal /\ NoFail
     \/ ~done /\ fatal' = TRUE /\ Fail
  /\ hpc' = "gone"
  /\ UNCHANGED <<uevents, mu, ring, ringFd, hcpu, htodo>> /\ PlugOnly

PlugUnlocked ==                      \* mutant: the instances are read before Attach is done
  /\ hpc = "lock" /\ hpc' = "rings"
  /\ htodo' = IF apc = "rings" THEN Installed \ {spec.pi} ELSE Installed
  /\ UNCHANGED <<uevents, mu, ring, ringFd, fatal, hcpu>> /\ NoFail /\ PlugOnly

PlugLock ==
  /\ hpc = "lock" /\ mu = "free" /\ mu' = "hotplug"
  /\ hpc' = "rings" /\ htodo' = Installed
  /\ UNCHANGED <<uevents, ring, ringFd, fatal, hcpu>> /\ NoFail /\ PlugOnly

PlugRing(pi) ==
  /\ hpc = "rings" /\ pi \in htodo
  /\ RingLocked(pi, hcpu) /\ htodo' = htodo \ {pi}
  /\ UNCHANGED <<uevents, mu, fatal, hpc, hcpu>> /\ NoFail /\ PlugOnly

PlugFails(pi) ==                     \* the other instances are left out
  /\ hpc = "rings" /\ pi \in htodo /\ ~Skip(pi, hcpu) /\ Fail
  /\ fatal' = TRUE /\ htodo' = {}
  /\ UNCHANGED <<uevents, mu, ring, ringFd, hpc, hcpu>> /\ PlugOnly

PlugUnlock ==
  /\ hpc = "rings" /\ htodo = {} /\ hpc' = "read" /\ mu' = "free" /\ hcpu' = 0
  /\ UNCHANGED <<uevents, ring, ringFd, fatal, htodo>> /\ NoFail /\ PlugOnly

HandleHotplug ==
  PlugRead \/ PlugEnds \/ PlugLock \/ PlugUnlock
  \/ (\E pi \in htodo : PlugRing(pi) \/ PlugFails(pi))

-----------------------------------------------------------------------------
(* Close, which main calls when nobody attaches any more.                    *)

CloseOnly == UNCHANGED <<online, uevents, alive, ringFd, tracefs, fatal, attachVars,
                         eventVars, plugVars, countVars>>
CloseBegin ==
  /\ ppc = "up" /\ apc = "idle" /\ done' = TRUE /\ ppc' = "wait"
  /\ UNCHANGED <<entries, records, mu, instances, uprobes, ring>> /\ CloseOnly

CloseEnd ==
  /\ ppc = "wait" /\ epc = "gone" /\ hpc = "gone" /\ mu = "free"
  /\ entries' = entries \ {<<Me, u.seq>> : u \in uprobes} /\ uprobes' = {}
  /\ CloseRings(Installed) /\ instances' = [g \in Configs |-> 0]
  /\ ppc' = "closed"
  /\ UNCHANGED <<mu, done>> /\ CloseOnly

Terminated == ppc \in {"closed", "killed"} /\ UNCHANGED vars

Up == ppc \in {"up", "wait"}
Next ==
  \/ New \/ Kill \/ CloseBegin \/ CloseEnd \/ Terminated
  \/ Attach \/ HandleEvents \/ HandleHotplug
  \/ (Up /\ \E c \in Cpu : Switch(c))
  \/ (Up /\ \E u \in uprobes, c \in Cpu : Hit(u, c))

Spec == Init /\ [][Next]_vars

(* The goroutines run when they can.  A Go mutex is handed over in the order *)
(* of its waiters, so that mu is strongly fair to a lookup and to hotplug.   *)
FairSpec ==
  /\ Spec
  /\ WF_vars(AttachRing \/ AttachUprobe) /\ WF_vars(CloseEnd)
  /\ WF_vars(EpollWait \/ BatchEnds \/ Read) /\ SF_vars(\E f \in batch : TakeFd(f))
  /\ WF_vars(PlugRead \/ PlugUnlock \/ (\E pi \in htodo : PlugRing(pi)))
  /\ WF_vars(hpc = "read" /\ done /\ PlugEnds) /\ SF_vars(PlugLock)

-----------------------------------------------------------------------------
(* Every variable has its type, and mu is held by the goroutine it names. *)
MuHeld == (mu = "attach" <=> apc # "idle") /\ (mu = "hotplug" <=> hpc = "rings")

KernelTypeOK ==
  /\ online \subseteq Cpu /\ alive \subseteq OtherPids
  /\ uevents \in Seq([cpu : Cpu, online : BOOLEAN])
  /\ entries \subseteq ({Me} \cup OtherPids) \X Nat
  /\ records \in [Pis -> [Cpu -> Nat]]

MapTypeOK ==
  /\ mu \in {"free", "attach", "hotplug"}
  /\ instances \in [Configs -> Pis \cup {0}]
  /\ uprobes \subseteq [key : Keys, pi : Pis, seq : Nat]
  /\ ring \in [Pis -> [Cpu -> Fds \cup {0}]]
  /\ ringFd \in [Fds -> (Pis \X Cpu) \cup {NoRing}]

AttachTypeOK ==
  /\ apc \in {"idle", "rings", "uprobe"} /\ acpu \in 0 .. Cpus
  /\ apc = "rings" => acpu < Cpus
  /\ apc # "idle" => spec \in [key : Keys, cfg : Configs, pi : Pis]
  /\ attaches \in 0 .. MaxAttach /\ seq \in Nat

LoopTypeOK ==                        \* no goroutine before New
  /\ ppc = "new" => hpc = "gone"
  /\ epc \in {"wait", "batch", "read", "gone"} /\ batch \subseteq Fds \cup {Cancel}
  /\ cur \in (Pis \X Cpu) \cup {NoRing}
  /\ hpc \in {"read", "lock", "rings", "gone"} /\ hcpu \in Cpu /\ htodo \subseteq Pis

ProbeTypeOK ==
  /\ done \in BOOLEAN /\ fatal \in BOOLEAN /\ tracefs \in BOOLEAN
  /\ ppc \in {"new", "up", "wait", "closed", "killed"}
  /\ changes \in Nat /\ hits \in Nat /\ fails \in 0 .. MaxFails

TypeOK == MuHeld /\ KernelTypeOK /\ MapTypeOK /\ AttachTypeOK /\ LoopTypeOK /\ ProbeTypeOK

(* Every open ring is found by its descriptor, as the ring of the instance   *)
(* that it is: entries that a failed Attach has left in the maps never stand *)
(* for another ring, also when the kernel uses their descriptors again.      *)
RingsReachable ==
  \A pi \in Pis, c \in Cpu : ring[pi][c] # 0 => ringFd[ring[pi][c]] = <<pi, c>>

(* As long as the probe has not failed, every instance has a ring for every  *)
(* CPU that is online, or will have one when Attach or the hotplug events    *)
(* that have been sent are through: a CPU that comes online while Attach     *)
(* opens the rings is not forgotten ("this ring will be created later on     *)
(* hotplug if needed").                                                      *)
Pending(pi, c) ==
  \/ apc = "rings" /\ spec.pi = pi /\ acpu <= c
  \/ hpc = "lock" /\ hcpu = c
  \/ hpc = "rings" /\ hcpu = c /\ pi \in htodo
  \/ \E k \in DOMAIN uevents : uevents[k] = [cpu |-> c, online |-> TRUE]

Covered ==
  Up /\ ~done /\ ~fatal =>
    \A pi \in Installed, c \in online : ring[pi][c] # 0 \/ Pending(pi, c)

(* What is open is owned: rings belong to an installed instance, uprobes run *)
(* the program of one, the tracefs entries are those of the uprobes, of live *)
(* processes or of an earlier life of this pid.  So Close leaves nothing     *)
(* behind, whatever has failed before.                                       *)
NothingLeaks ==
  /\ {pi \in Pis : ring[pi] # [c \in Cpu |-> 0]} \cup {u.pi : u \in uprobes} \subseteq Installed
  /\ Up /\ tracefs =>
       \A e \in entries : \/ e[1] \in alive
                          \/ e = <<Me, 1>>
                          \/ \E u \in uprobes : e = <<Me, u.seq>>
  /\ ppc = "closed" => Installed = {} /\ entries \subseteq (alive \X Nat) \cup {<<Me, 1>>}

(* The records of all rings are read, unless the probe fails or is closed.   *)
RecordsRead == records # NoRings ~> records = NoRings \/ fatal \/ done

(* Close returns: both goroutines notice it, whatever they are doing.        *)
CloseReturns == ppc = "wait" ~> ppc \in {"closed", "killed"}
=============================================================================
