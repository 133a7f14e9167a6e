--------------------------- MODULE BPFProbeProofs ---------------------------
(* Theorems about BPFProbe, for every number of CPUs, set of targets and     *)
(* descriptors, and every bound.                                             *)
EXTENDS BPFProbe, TLAPS, SequenceTheorems

-----------------------------------------------------------------------------
(* Types.  TypeOK is inductive as it stands.                                 *)

LEMMA OpenRingTypes ==
  ASSUME NEW pi \in Pis, NEW c \in Cpu, MapTypeOK, OpenRing(pi, c)
  PROVE  /\ ring' \in [Pis -> [Cpu -> Fds \cup {0}]]
         /\ ringFd' \in [Fds -> (Pis \X Cpu) \cup {NoRing}]
  BY DEF MapTypeOK, OpenRing

LEMMA RingLockedTypes ==
  ASSUME NEW pi \in Pis, NEW c \in Cpu, MapTypeOK, RingLocked(pi, c)
  PROVE  /\ ring' \in [Pis -> [Cpu -> Fds \cup {0}]]
         /\ ringFd' \in [Fds -> (Pis \X Cpu) \cup {NoRing}]
<1>1. CASE Skip(pi, c)
  BY <1>1 DEF RingLocked, MapTypeOK
<1>2. CASE ~Skip(pi, c)
  BY <1>2, OpenRingTypes DEF RingLocked
<1> QED BY <1>1, <1>2

LEMMA CloseRingsTypes ==
  ASSUME NEW pis, MapTypeOK, KernelTypeOK, CloseRings(pis)
  PROVE  ring' \in [Pis -> [Cpu -> Fds \cup {0}]] /\ records' \in [Pis -> [Cpu -> Nat]]
  BY DEF MapTypeOK, KernelTypeOK, CloseRings

LEMMA InitTypes == Init => TypeOK
<1> SUFFICES ASSUME Init PROVE TypeOK
  OBVIOUS
<1> USE BPFProbeAssumption
<1>1. MuHeld
  BY DEF Init, MuHeld
<1>2. KernelTypeOK
  <2>1. <<>> \in Seq([cpu : Cpu, online : BOOLEAN])
    OBVIOUS
  <2>2. entries \subseteq ({Me} \cup OtherPids) \X Nat
    BY DEF Init
  <2> QED BY <2>1, <2>2 DEF Init, KernelTypeOK, NoRings
<1>3. MapTypeOK
  BY DEF Init, MapTypeOK, NoRings
<1>4. AttachTypeOK
  BY DEF Init, AttachTypeOK
<1>5. LoopTypeOK
  BY DEF Init, LoopTypeOK, Cpu
<1>6. ProbeTypeOK
  <2>1. tracefs \in BOOLEAN /\ done \in BOOLEAN /\ fatal \in BOOLEAN
    BY Zenon DEF Init
  <2>2. ppc = "new" /\ changes = 0 /\ hits = 0 /\ fails = 0
    BY Zenon DEF Init
  <2> QED BY <2>1, <2>2 DEF ProbeTypeOK
<1> QED BY <1>1, <1>2, <1>3, <1>4, <1>5, <1>6 DEF TypeOK

LEMMA KernelTypeStep ==
  ASSUME TypeOK, (\E c \in Cpu : Switch(c)) \/ (\E u \in uprobes, c \in Cpu : Hit(u, c))
  PROVE  TypeOK'
<1> USE DEF TypeOK
<1>1. ASSUME NEW c \in Cpu, Switch(c) PROVE TypeOK'
  <2>1. uevents' \in Seq([cpu : Cpu, online : BOOLEAN])
    <3>1. [cpu |-> c, online |-> c \notin online] \in [cpu : Cpu, online : BOOLEAN]
      OBVIOUS
    <3>2. uevents \in Seq([cpu : Cpu, online : BOOLEAN])
      BY DEF KernelTypeOK
    <3>3. Append(uevents, [cpu |-> c, online |-> c \notin online])
            \in Seq([cpu : Cpu, online : BOOLEAN])
      BY <3>1, <3>2, AppendProperties
    <3> QED BY <1>1, <3>2, <3>3 DEF Switch
  <2>2. KernelTypeOK'
    BY <1>1, <2>1 DEF Switch, KernelTypeOK, KernelOnly
  <2> QED BY <1>1, <2>2 DEF Switch, KernelOnly, MuHeld, MapTypeOK, AttachTypeOK, LoopTypeOK,
        ProbeTypeOK, mapVars, attachVars, eventVars, plugVars
<1>2. ASSUME NEW u \in uprobes, NEW c \in Cpu, Hit(u, c) PROVE TypeOK'
  <2>1. records' \in [Pis -> [Cpu -> Nat]]
    BY <1>2 DEF Hit, KernelTypeOK, MapTypeOK
  <2> QED BY <1>2, <2>1 DEF Hit, KernelTypeOK, KernelOnly, MuHeld, MapTypeOK, AttachTypeOK, LoopTypeOK,
        ProbeTypeOK, mapVars, attachVars, eventVars, plugVars
<1> QED BY <1>1, <1>2

LEMMA LifeTypeStep ==
  ASSUME TypeOK, New \/ Kill \/ CloseBegin \/ CloseEnd
  PROVE  TypeOK'
<1> USE BPFProbeAssumption DEF TypeOK
<1>1. CASE New
  <2>1. entries' \subseteq entries
    BY <1>1 DEF New
  <2>2. KernelTypeOK' /\ MapTypeOK' /\ AttachTypeOK'
    BY <1>1, <2>1 DEF New, KernelTypeOK, MapTypeOK, AttachTypeOK, mapVars, attachVars
  <2>3. MuHeld' /\ LoopTypeOK'
    <3>1. hpc = "gone"
      BY <1>1 DEF New, LoopTypeOK
    <3> QED BY <1>1, <3>1 DEF New, MuHeld, LoopTypeOK, attachVars
  <2>4. ProbeTypeOK'
    BY <1>1 DEF New, ProbeTypeOK, countVars
  <2> QED BY <2>2, <2>3, <2>4
<1>2. CASE Kill
  <2>1. KernelTypeOK' /\ MapTypeOK'
    BY <1>2 DEF Kill, KernelTypeOK, MapTypeOK, NoRings
  <2>2. MuHeld' /\ AttachTypeOK'
    BY <1>2 DEF Kill, MuHeld, AttachTypeOK
  <2>3. LoopTypeOK'
    BY <1>2 DEF Kill, LoopTypeOK, Cpu
  <2>4. ProbeTypeOK'
    BY <1>2 DEF Kill, ProbeTypeOK, countVars
  <2> QED BY <2>1, <2>2, <2>3, <2>4
<1>3. CASE CloseBegin
  BY <1>3 DEF CloseBegin, CloseOnly, MuHeld, KernelTypeOK, MapTypeOK, AttachTypeOK, LoopTypeOK,
    ProbeTypeOK, attachVars, eventVars, plugVars, countVars
<1>4. CASE CloseEnd
  <2>1. KernelTypeOK' /\ MapTypeOK'
    BY <1>4, CloseRingsTypes DEF CloseEnd, CloseOnly, KernelTypeOK, MapTypeOK
  <2> QED BY <1>4, <2>1 DEF CloseEnd, CloseOnly, MuHeld, AttachTypeOK, LoopTypeOK, ProbeTypeOK,
        attachVars, eventVars, plugVars, countVars
<1> QED BY <1>1, <1>2, <1>3, <1>4

LEMMA AttachTypeStep == TypeOK /\ Attach => TypeOK'
<1> SUFFICES ASSUME TypeOK, Attach PROVE TypeOK'
  OBVIOUS
<1> USE BPFProbeAssumption DEF TypeOK, AttachOnly, eventVars, plugVars
<1>1. ASSUME NEW t \in Targets, AttachBegin(t) PROVE TypeOK'
  <2>1. t.cfg \in Configs /\ t.key \in Keys
    BY DEF Configs, Keys
  <2>2. instances[t.cfg] \in Pis \cup {0} /\ attaches + 1 \in Pis /\ attaches' \in 0 .. MaxAttach
    BY <1>1, <2>1 DEF AttachBegin, MapTypeOK, AttachTypeOK, Pis
  <2>3. MapTypeOK'
    BY <1>1, <2>1, <2>2 DEF AttachBegin, MapTypeOK
  <2>4. AttachTypeOK'
    BY <1>1, <2>1, <2>2 DEF AttachBegin, AttachTypeOK
  <2>5. MuHeld'
    BY <1>1, <2>2 DEF AttachBegin, MuHeld
  <2> QED BY <1>1, <2>3, <2>4, <2>5 DEF AttachBegin, KernelTypeOK, LoopTypeOK, ProbeTypeOK, NoFail
<1>2. CASE AttachRing
  <2>1. spec.pi \in Pis /\ acpu \in Cpu /\ acpu + 1 \in 0 .. Cpus
    BY <1>2 DEF AttachRing, AttachTypeOK, Cpu
  <2>2. MapTypeOK'
    BY <1>2, <2>1, RingLockedTypes DEF AttachRing, MapTypeOK
  <2>3. AttachTypeOK'
    BY <1>2, <2>1 DEF AttachRing, AttachTypeOK
  <2>4. MuHeld'
    BY <1>2 DEF AttachRing, MuHeld
  <2> QED BY <1>2, <2>2, <2>3, <2>4 DEF AttachRing, KernelTypeOK, LoopTypeOK, ProbeTypeOK, NoFail
<1>3. CASE AttachRingFails
  <2>1. KernelTypeOK' /\ MapTypeOK'
    BY <1>3, CloseRingsTypes DEF AttachRingFails, KernelTypeOK, MapTypeOK, AttachEnds
  <2> QED BY <1>3, <2>1 DEF AttachRingFails, AttachEnds, MuHeld, AttachTypeOK, LoopTypeOK, ProbeTypeOK, Fail
<1>4. CASE AttachUprobe
  <2>1. spec \in [key : Keys, cfg : Configs, pi : Pis]
    BY <1>4 DEF AttachUprobe, AttachTypeOK
  <2>2. /\ uprobes' \subseteq [key : Keys, pi : Pis, seq : Nat]
        /\ entries' \subseteq ({Me} \cup OtherPids) \X Nat
        /\ seq' \in Nat
    BY <1>4, <2>1 DEF AttachUprobe, KernelTypeOK, MapTypeOK, AttachTypeOK, Entry
  <2> QED BY <1>4, <2>2 DEF AttachUprobe, AttachEnds, MuHeld, KernelTypeOK, MapTypeOK, AttachTypeOK,
        LoopTypeOK, ProbeTypeOK, NoFail
<1>5. CASE AttachUprobeFails
  <2>1. fails' \in 0 .. MaxFails
    BY <1>5 DEF AttachUprobeFails, ProbeTypeOK, Fail, NoFail
  <2>2. ProbeTypeOK'
    BY <1>5, <2>1 DEF AttachUprobeFails, ProbeTypeOK
  <2>3. AttachTypeOK' /\ MuHeld'
    BY <1>5 DEF AttachUprobeFails, AttachEnds, MuHeld, AttachTypeOK
  <2> QED BY <1>5, <2>2, <2>3 DEF AttachUprobeFails, AttachEnds, KernelTypeOK, MapTypeOK,
        LoopTypeOK, mapVars
<1> QED BY <1>1, <1>2, <1>3, <1>4, <1>5 DEF Attach

LEMMA EventsTypeStep == TypeOK /\ HandleEvents => TypeOK'
<1> SUFFICES ASSUME TypeOK, HandleEvents PROVE TypeOK'
  OBVIOUS
<1>1. MuHeld' /\ MapTypeOK' /\ AttachTypeOK'
  BY DEF TypeOK, HandleEvents, EpollWait, EpollFails, TakeFd, BatchEnds, Read, EventsOnly,
    MuHeld, MapTypeOK, AttachTypeOK, mapVars, attachVars, plugVars
<1>2. KernelTypeOK'
  <2>1. records' \in [Pis -> [Cpu -> Nat]]
    <3>1. CASE Read
      <4>1. CASE UNCHANGED records
        BY <4>1 DEF TypeOK, KernelTypeOK
      <4>2. CASE ring[cur[1]][cur[2]] # 0 /\ records[cur[1]][cur[2]] > 0
                 /\ records' = [records EXCEPT ![cur[1]][cur[2]] = @ - 1]
        <5>1. CASE cur \in Pis \X Cpu
          <6>1. cur[1] \in Pis /\ cur[2] \in Cpu /\ records[cur[1]][cur[2]] \in Nat
            BY <5>1 DEF TypeOK, KernelTypeOK
          <6>2. records[cur[1]][cur[2]] - 1 \in Nat
            BY <4>2, <6>1
          <6> QED BY <4>2, <6>1, <6>2 DEF TypeOK, KernelTypeOK
        <5>2. CASE cur = NoRing
          <6>1. cur[1] \notin Pis
            BY <5>2 DEF NoRing, Pis
          <6> QED BY <4>2, <6>1 DEF TypeOK, KernelTypeOK
        <5> QED BY <5>1, <5>2 DEF TypeOK, LoopTypeOK
      <4> QED BY <3>1, <4>1, <4>2 DEF Read
    <3> QED BY <3>1 DEF TypeOK, HandleEvents, EpollWait, EpollFails, TakeFd, BatchEnds, KernelTypeOK
  <2> QED BY <2>1 DEF TypeOK, HandleEvents, EpollWait, EpollFails, TakeFd, BatchEnds, Read,
        EventsOnly, KernelTypeOK, kernelVars
<1>3. LoopTypeOK'
  <2>1. Ready \subseteq Fds \cup {Cancel}
    BY DEF TypeOK, MapTypeOK, Ready, OpenFds
  <2>2. ASSUME NEW f \in batch, TakeFd(f) PROVE LoopTypeOK'
    BY <2>2 DEF TypeOK, MapTypeOK, LoopTypeOK, TakeFd, EventsOnly, plugVars
  <2> QED BY <2>1, <2>2 DEF TypeOK, HandleEvents, EpollWait, EpollFails, BatchEnds, Read,
        EventsOnly, LoopTypeOK, plugVars
<1>4. ProbeTypeOK'
  <2>1. fatal' \in BOOLEAN
    BY DEF TypeOK, HandleEvents, EpollWait, EpollFails, TakeFd, BatchEnds, Read, ProbeTypeOK
  <2>2. fails' \in 0 .. MaxFails
    BY BPFProbeAssumption DEF TypeOK, HandleEvents, EpollWait, EpollFails, TakeFd, BatchEnds, Read,
      ProbeTypeOK, Fail, NoFail
  <2> QED BY <2>1, <2>2 DEF TypeOK, HandleEvents, EpollWait, EpollFails, TakeFd, BatchEnds, Read,
        EventsOnly, ProbeTypeOK
<1> QED BY <1>1, <1>2, <1>3, <1>4 DEF TypeOK

LEMMA HotplugTypeStep == TypeOK /\ HandleHotplug => TypeOK'
<1> SUFFICES ASSUME TypeOK, HandleHotplug PROVE TypeOK'
  OBVIOUS
<1> USE BPFProbeAssumption DEF TypeOK, PlugOnly, attachVars, eventVars
<1>1. CASE PlugRead
  <2>1. Head(uevents) \in [cpu : Cpu, online : BOOLEAN] /\ uevents' \in Seq([cpu : Cpu, online : BOOLEAN])
    BY <1>1, HeadTailProperties DEF PlugRead, KernelTypeOK
  <2>2. hcpu' \in Cpu /\ hpc' \in {"read", "lock"}
    BY <1>1, <2>1 DEF PlugRead, Cpu
  <2>3. MuHeld' /\ KernelTypeOK' /\ MapTypeOK'
    BY <1>1, <2>1, <2>2 DEF PlugRead, MuHeld, KernelTypeOK, MapTypeOK
  <2>4. AttachTypeOK' /\ LoopTypeOK'
    BY <1>1, <2>2 DEF PlugRead, AttachTypeOK, LoopTypeOK
  <2>5. ProbeTypeOK'
    BY <1>1 DEF PlugRead, ProbeTypeOK, NoFail
  <2> QED BY <2>3, <2>4, <2>5
<1>2. CASE PlugEnds
  <2>1. ProbeTypeOK'
    <3>1. fatal' \in BOOLEAN
      BY <1>2 DEF PlugEnds, ProbeTypeOK
    <3>2. fails' \in 0 .. MaxFails
      BY <1>2 DEF PlugEnds, ProbeTypeOK, Fail, NoFail
    <3> QED BY <1>2, <3>1, <3>2 DEF PlugEnds, ProbeTypeOK
  <2>2. MuHeld' /\ KernelTypeOK' /\ MapTypeOK'
    BY <1>2 DEF PlugEnds, MuHeld, KernelTypeOK, MapTypeOK
  <2>3. AttachTypeOK' /\ LoopTypeOK'
    BY <1>2 DEF PlugEnds, AttachTypeOK, LoopTypeOK
  <2> QED BY <2>1, <2>2, <2>3
<1>3. CASE PlugLock \/ PlugUnlock
  <2>1. Installed \subseteq Pis
    BY DEF Installed, MapTypeOK
  <2>2. MuHeld' /\ KernelTypeOK' /\ MapTypeOK'
    BY <1>3 DEF PlugLock, PlugUnlock, MuHeld, KernelTypeOK, MapTypeOK
  <2>3. AttachTypeOK'
    BY <1>3 DEF PlugLock, PlugUnlock, AttachTypeOK
  <2>5. LoopTypeOK'
    <3>1. 0 \in Cpu
      BY DEF Cpu
    <3>2. CASE PlugLock
      BY <3>2, <2>1 DEF PlugLock, LoopTypeOK
    <3>3. CASE PlugUnlock
      BY <3>3, <3>1 DEF PlugUnlock, LoopTypeOK
    <3> QED BY <1>3, <3>2, <3>3
  <2>4. ProbeTypeOK'
    BY <1>3 DEF PlugLock, PlugUnlock, ProbeTypeOK, NoFail
  <2> QED BY <2>2, <2>3, <2>4, <2>5
<1>4. ASSUME NEW pi \in htodo, PlugRing(pi) PROVE TypeOK'
  <2>1. MapTypeOK'
    BY <1>4, RingLockedTypes DEF PlugRing, MapTypeOK, LoopTypeOK
  <2> QED BY <1>4, <2>1 DEF PlugRing, MuHeld, KernelTypeOK, AttachTypeOK, LoopTypeOK, ProbeTypeOK, NoFail
<1>5. ASSUME NEW pi \in htodo, PlugFails(pi) PROVE TypeOK'
  BY <1>5 DEF PlugFails, MuHeld, KernelTypeOK, MapTypeOK, AttachTypeOK, LoopTypeOK, ProbeTypeOK, Fail
<1> QED BY <1>1, <1>2, <1>3, <1>4, <1>5 DEF HandleHotplug

LEMMA StutterTypeStep == TypeOK /\ UNCHANGED vars => TypeOK'
  BY DEF TypeOK, MuHeld, KernelTypeOK, MapTypeOK, AttachTypeOK, LoopTypeOK, ProbeTypeOK, vars,
    kernelVars, mapVars, attachVars, eventVars, plugVars, countVars

(* Every variable of BPFProbe keeps its type, mu is held by exactly the      *)
(* goroutine it names, and Attach never asks for a ring of a CPU that is not *)
(* possible.                                                                 *)
THEOREM TypeCorrect == Spec => []TypeOK
<1>1. TypeOK /\ [Next]_vars => TypeOK'
  BY KernelTypeStep, LifeTypeStep, AttachTypeStep, EventsTypeStep, HotplugTypeStep, StutterTypeStep
    DEF Next, Terminated
<1> QED BY <1>1, InitTypes, PTL DEF Spec

-----------------------------------------------------------------------------
(* Descriptors.  RingsReachable is inductive given the types: a new ring     *)
(* gets a descriptor that no open ring has, and what ringFd holds of it is   *)
(* replaced; closing a ring, which leaves ringFd alone, asks for less.       *)

LEMMA OpenRingReaches ==
  ASSUME NEW pi \in Pis, NEW c \in Cpu, MapTypeOK, RingsReachable, RingLocked(pi, c)
  PROVE  RingsReachable'
<1>1. CASE Skip(pi, c)
  BY <1>1 DEF RingLocked, RingsReachable
<1>2. CASE ~Skip(pi, c)
  <2>1. PICK f \in Fds \ OpenFds :
          ring' = [ring EXCEPT ![pi][c] = f] /\ ringFd' = [ringFd EXCEPT ![f] = <<pi, c>>]
    BY <1>2 DEF RingLocked, OpenRing
  <2> SUFFICES ASSUME NEW qi \in Pis, NEW d \in Cpu, ring'[qi][d] # 0
               PROVE  ringFd'[ring'[qi][d]] = <<qi, d>>
    BY DEF RingsReachable
  <2>2. CASE qi = pi /\ d = c
    BY <2>1, <2>2 DEF MapTypeOK
  <2>3. CASE ~(qi = pi /\ d = c)
    <3>1. ring'[qi][d] = ring[qi][d]
      BY <2>1, <2>3 DEF MapTypeOK
    <3>2. ring[qi][d] \in OpenFds
      BY <3>1 DEF OpenFds
    <3>3. ringFd[ring[qi][d]] = <<qi, d>>
      BY <3>1 DEF RingsReachable
    <3> QED BY <2>1, <3>1, <3>2, <3>3 DEF MapTypeOK
  <2> QED BY <2>2, <2>3
<1> QED BY <1>1, <1>2

LEMMA ClosedRingsReachable ==
  ASSUME NEW pis, MapTypeOK, RingsReachable, CloseRings(pis), UNCHANGED ringFd
  PROVE  RingsReachable'
  BY DEF MapTypeOK, RingsReachable, CloseRings

(* handleEvents never takes one ring for another: the entries that a failed  *)
(* Attach leaves in ringFd and ringInstance do no harm when the kernel uses  *)
(* their descriptors again.                                                  *)
THEOREM RingsAreReachable == Spec => []RingsReachable
<1>1. Init => RingsReachable
  BY DEF Init, RingsReachable, NoRings
<1>2. TypeOK /\ RingsReachable /\ [Next]_vars => RingsReachable'
  <2> SUFFICES ASSUME TypeOK, RingsReachable, [Next]_vars PROVE RingsReachable'
    OBVIOUS
  <2>1. CASE AttachRing
    <3>1. spec.pi \in Pis /\ acpu \in Cpu
      BY <2>1, BPFProbeAssumption DEF AttachRing, TypeOK, AttachTypeOK, Cpu
    <3> QED BY <2>1, <3>1, OpenRingReaches DEF AttachRing, TypeOK
  <2>2. CASE AttachRingFails \/ CloseEnd
    BY <2>2, ClosedRingsReachable DEF AttachRingFails, CloseEnd, CloseOnly, TypeOK
  <2>3. ASSUME NEW pi \in htodo, PlugRing(pi) PROVE RingsReachable'
    BY <2>3, OpenRingReaches DEF PlugRing, TypeOK, LoopTypeOK
  <2>4. CASE Kill
    BY <2>4 DEF Kill, RingsReachable, NoRings
  <2>5. ASSUME UNCHANGED <<ring, ringFd>> PROVE RingsReachable'
    BY <2>5 DEF RingsReachable
  <2>6. CASE (\E t \in Targets : AttachBegin(t)) \/ AttachUprobe \/ AttachUprobeFails
    BY <2>5, <2>6 DEF AttachBegin, AttachUprobe, AttachUprobeFails, mapVars
  <2>7. CASE HandleEvents
    BY <2>5, <2>7 DEF HandleEvents, EpollWait, EpollFails, TakeFd, BatchEnds, Read, EventsOnly, mapVars
  <2>8. CASE HandleHotplug /\ ~\E pi \in htodo : PlugRing(pi)
    BY <2>5, <2>8 DEF HandleHotplug, PlugRead, PlugEnds, PlugLock, PlugUnlock, PlugFails
  <2>9. CASE New \/ CloseBegin \/ Terminated \/ UNCHANGED vars
               \/ (\E c \in Cpu : Switch(c)) \/ (\E u \in uprobes, c \in Cpu : Hit(u, c))
    BY <2>5, <2>9 DEF New, CloseBegin, CloseOnly, Terminated, Switch, Hit, KernelOnly, vars, mapVars
  <2> QED BY <2>1, <2>2, <2>3, <2>4, <2>6, <2>7, <2>8, <2>9 DEF Next, Attach
<1> QED BY <1>1, <1>2, TypeCorrect, PTL DEF Spec
-----------------------------------------------------------------------------
(* Ownership.  NothingLeaks is strengthened by what Attach and handleHotplug *)
(* rely on while they hold mu: an instance belongs to one configuration, the *)
(* one whose rings are being opened has no uprobes yet, and hotplug opens    *)
(* rings of installed instances only.                                        *)

NoneOpen == [c \in Cpu |-> 0]

Owned ==
  /\ \A pi \in Pis : ring[pi] # NoneOpen => pi \in Installed
  /\ \A u \in uprobes : u.pi \in Installed
  /\ htodo \subseteq Installed
  /\ hpc # "rings" => htodo = {}

Fresh ==
  /\ \A g \in Configs : instances[g] <= attaches
  /\ \A g, h \in Configs : instances[g] = instances[h] => g = h \/ instances[g] = 0
  /\ apc # "idle" => ppc = "up" /\ instances[spec.cfg] = spec.pi
  /\ apc = "rings" => \A u \in uprobes : u.pi # spec.pi
  /\ ppc = "closed" => Installed = {}

Explained(e) ==
  \/ e[1] \in alive
  \/ e = <<Me, 1>>
  \/ \E u \in uprobes : e = <<Me, u.seq>>

Traced ==
  /\ ~tracefs => entries = {}
  /\ ppc = "new" => \A e \in entries : e[2] = 1
  /\ ppc \in {"up", "wait"} => \A e \in entries : Explained(e)
  /\ ppc = "closed" => entries \subseteq (alive \X Nat) \cup {<<Me, 1>>}

LeakInv == Owned /\ Fresh /\ Traced

LEMMA InitLeak == Init => LeakInv
<1> SUFFICES ASSUME Init PROVE LeakInv
  OBVIOUS
<1>1. Owned
  <2>1. \A pi \in Pis : ring[pi] = NoneOpen
    BY DEF Init, NoRings, NoneOpen
  <2> QED BY <2>1 DEF Init, Owned
<1>2. Fresh
  BY BPFProbeAssumption DEF Init, Fresh
<1>3. Traced
  <2>1. entries = {} \/ entries = ({Me} \cup OtherPids) \X {1}
    BY DEF Init
  <2>2. \A e \in entries : e[2] = 1
    BY <2>1
  <2>3. ppc = "new" /\ (~tracefs => entries = {})
    BY DEF Init
  <2> QED BY <2>2, <2>3 DEF Traced
<1> QED BY <1>1, <1>2, <1>3 DEF LeakInv

(* Opening a ring of pi leaves the rings of the others alone.                *)
LEMMA RingLockedOwn ==
  ASSUME NEW pi \in Pis, NEW c \in Cpu, MapTypeOK, RingLocked(pi, c),
         NEW qi \in Pis, qi # pi
  PROVE  ring'[qi] = ring[qi]
  BY DEF RingLocked, OpenRing, MapTypeOK

LEMMA KernelLeakStep ==
  ASSUME LeakInv, (\E c \in Cpu : Switch(c)) \/ (\E u \in uprobes, c \in Cpu : Hit(u, c))
  PROVE  LeakInv'
<1>1. UNCHANGED <<alive, entries, tracefs, ppc, mapVars, attachVars, plugVars>>
  BY DEF Switch, Hit, KernelOnly
<1> QED BY <1>1 DEF LeakInv, mapVars, attachVars, plugVars, Owned, Fresh, Traced, Explained, Installed

LEMMA EventsLeakStep == LeakInv /\ HandleEvents => LeakInv'
  BY DEF LeakInv, HandleEvents, EpollWait, EpollFails, TakeFd, BatchEnds, Read, EventsOnly,
    kernelVars, mapVars, attachVars, plugVars, Owned, Fresh, Traced, Explained, Installed

LEMMA HotplugLeakStep == TypeOK /\ LeakInv /\ HandleHotplug => LeakInv'
<1> SUFFICES ASSUME TypeOK, LeakInv, HandleHotplug PROVE LeakInv'
  OBVIOUS
<1> USE DEF PlugOnly, attachVars
<1>1. UNCHANGED <<alive, entries, tracefs, uprobes, instances, ppc, apc, spec, attaches>>
  BY DEF HandleHotplug, PlugRead, PlugEnds, PlugLock, PlugRing, PlugFails, PlugUnlock
<1>2. Fresh' /\ Traced' /\ Installed' = Installed
  BY <1>1 DEF LeakInv, Fresh, Traced, Explained, Installed
<1>3. Owned'
  <2>1. ASSUME NEW pi \in htodo, PlugRing(pi) PROVE Owned'
    <3>1. pi \in Pis /\ hcpu \in Cpu /\ pi \in Installed /\ MapTypeOK
      BY DEF TypeOK, LoopTypeOK, LeakInv, Owned
    <3>2. \A qi \in Pis : qi # pi => ring'[qi] = ring[qi]
      BY <2>1, <3>1, RingLockedOwn DEF PlugRing
    <3>3. htodo' = htodo \ {pi} /\ UNCHANGED <<hpc, uprobes>> /\ hpc = "rings"
      BY <2>1 DEF PlugRing
    <3> QED BY <1>2, <3>1, <3>2, <3>3 DEF LeakInv, Owned
  <2>2. CASE PlugLock
    BY <1>2, <2>2 DEF PlugLock, LeakInv, Owned
  <2>3. CASE PlugRead \/ PlugEnds \/ PlugUnlock \/ \E pi \in htodo : PlugFails(pi)
    BY <1>2, <2>3 DEF PlugRead, PlugEnds, PlugUnlock, PlugFails, LeakInv, Owned
  <2> QED BY <2>1, <2>2, <2>3 DEF HandleHotplug
<1> QED BY <1>2, <1>3 DEF LeakInv

LEMMA AttachLeakStep == TypeOK /\ LeakInv /\ Attach => LeakInv'
<1> SUFFICES ASSUME TypeOK, LeakInv, Attach PROVE LeakInv'
  OBVIOUS
<1> USE DEF AttachOnly, plugVars
<1>1. ASSUME NEW t \in Targets, AttachBegin(t) PROVE LeakInv'
  <2> DEFINE g == t.cfg
             new == instances[g] = 0
  <2>1. g \in Configs /\ t.key \in Keys
    BY DEF Configs, Keys
  <2>2. /\ instances \in [Configs -> Pis \cup {0}] /\ attaches \in Nat /\ 0 \notin Pis
        /\ attaches' = attaches + 1 /\ attaches + 1 \in Pis
    BY <1>1, BPFProbeAssumption DEF AttachBegin, TypeOK, MapTypeOK, AttachTypeOK, Pis
  <2>3. /\ spec'.cfg = g /\ spec'.pi = (IF new THEN attaches + 1 ELSE instances[g])
        /\ instances' = [instances EXCEPT ![g] = IF new THEN attaches + 1 ELSE instances[g]]
        /\ apc' = (IF new THEN "rings" ELSE "uprobe") /\ ppc = "up" /\ ppc' = "up"
        /\ UNCHANGED <<uprobes, ring, htodo, hpc, entries, alive, tracefs>>
    BY <1>1 DEF AttachBegin
  <2>4. Installed \subseteq Installed' /\ (\A pi \in Installed : pi <= attaches)
    BY <2>1, <2>2, <2>3 DEF Installed, LeakInv, Fresh
  <2>5. Owned'
    BY <2>3, <2>4 DEF LeakInv, Owned, NoneOpen
  <2>6. Fresh'
    <3>1. \A h \in Configs : instances'[h] <= attaches'
      BY <2>1, <2>2, <2>3 DEF LeakInv, Fresh, Pis
    <3>2. \A h, i \in Configs : instances'[h] = instances'[i] => h = i \/ instances'[h] = 0
      BY <2>1, <2>2, <2>3 DEF LeakInv, Fresh, Pis
    <3>3. instances'[spec'.cfg] = spec'.pi
      BY <2>1, <2>2, <2>3
    <3>4. apc' = "rings" => \A u \in uprobes' : u.pi # spec'.pi
      <4>1. \A u \in uprobes : u.pi \in Installed /\ u.pi <= attaches
        BY <2>4 DEF LeakInv, Owned
      <4> QED BY <2>2, <2>3, <4>1 DEF TypeOK, MapTypeOK, Pis
    <3> QED BY <2>3, <3>1, <3>2, <3>3, <3>4 DEF Fresh
  <2>7. Traced'
    BY <2>3 DEF LeakInv, Traced, Explained
  <2> QED BY <2>5, <2>6, <2>7 DEF LeakInv
<1>2. CASE AttachRing
  <2>1. spec.pi \in Pis /\ acpu \in Cpu /\ spec.cfg \in Configs /\ instances[spec.cfg] = spec.pi
    BY <1>2, BPFProbeAssumption DEF AttachRing, TypeOK, AttachTypeOK, Cpu, LeakInv, Fresh
  <2>2. UNCHANGED <<instances, uprobes, htodo, hpc, entries, alive, tracefs, ppc, spec, attaches>>
        /\ apc' \in {"rings", "uprobe"} /\ apc = "rings"
    BY <1>2 DEF AttachRing
  <2>3. spec.pi \in Installed /\ Installed' = Installed
    BY <2>1, <2>2 DEF Installed, Pis
  <2>4. \A qi \in Pis : qi # spec.pi => ring'[qi] = ring[qi]
    BY <1>2, <2>1, RingLockedOwn DEF AttachRing, TypeOK
  <2>5. Owned'
    BY <2>2, <2>3, <2>4 DEF LeakInv, Owned, NoneOpen
  <2>6. Fresh'
    BY <2>2, <2>3 DEF LeakInv, Fresh
  <2>7. Traced'
    BY <2>2 DEF LeakInv, Traced, Explained
  <2> QED BY <2>5, <2>6, <2>7 DEF LeakInv
<1>3. CASE AttachRingFails
  <2>1. /\ spec.pi \in Pis /\ spec.cfg \in Configs /\ instances[spec.cfg] = spec.pi
        /\ mu = "attach" /\ htodo = {} /\ 0 \notin Pis
    BY <1>3 DEF AttachRingFails, TypeOK, MuHeld, AttachTypeOK, LeakInv, Fresh, Owned, Pis
  <2>2. /\ UNCHANGED <<uprobes, htodo, hpc, entries, alive, tracefs, ppc, attaches>>
        /\ apc' = "idle" /\ apc = "rings" /\ ppc = "up"
        /\ instances' = [instances EXCEPT ![spec.cfg] = 0]
    BY <1>3 DEF AttachRingFails, AttachEnds, LeakInv, Fresh
  <2>3. Installed' = Installed \ {spec.pi}
    BY <2>1, <2>2 DEF Installed, LeakInv, Fresh, TypeOK, MapTypeOK
  <2>4. ring'[spec.pi] = NoneOpen /\ \A qi \in Pis : qi # spec.pi => ring'[qi] = ring[qi]
    BY <1>3, <2>1 DEF AttachRingFails, CloseRings, NoneOpen
  <2>5. Owned'
    BY <2>1, <2>2, <2>3, <2>4 DEF LeakInv, Owned, Fresh, NoneOpen
  <2>6. Fresh'
    BY <2>1, <2>2 DEF LeakInv, Fresh, TypeOK, MapTypeOK, AttachTypeOK
  <2>7. Traced'
    BY <2>2 DEF LeakInv, Traced, Explained
  <2> QED BY <2>5, <2>6, <2>7 DEF LeakInv
<1>4. CASE AttachUprobe
  <2>1. /\ spec.pi \in Pis /\ spec.cfg \in Configs /\ instances[spec.cfg] = spec.pi /\ ppc = "up"
    BY <1>4 DEF AttachUprobe, TypeOK, AttachTypeOK, LeakInv, Fresh
  <2>2. /\ UNCHANGED <<instances, ring, htodo, hpc, alive, tracefs, ppc, attaches>>
        /\ apc' = "idle"
    BY <1>4 DEF AttachUprobe, AttachEnds
  <2>3. spec.pi \in Installed /\ Installed' = Installed
    BY <2>1, <2>2 DEF Installed, Pis
  <2>4. Owned'
    <3>1. \A u \in uprobes' : u \in uprobes \/ u.pi = spec.pi
      BY <1>4 DEF AttachUprobe
    <3> QED BY <2>2, <2>3, <3>1 DEF LeakInv, Owned, NoneOpen
  <2>5. Fresh'
    BY <2>1, <2>2, <2>3 DEF LeakInv, Fresh
  <2>6. Traced'
    <3>1. uprobes \subseteq uprobes'
      BY <1>4 DEF AttachUprobe
    <3>2. CASE ~tracefs
      <4>1. entries' = {}
        BY <1>4, <3>2 DEF AttachUprobe, LeakInv, Traced
      <4> QED BY <2>1, <2>2, <4>1 DEF Traced
    <3>3. CASE tracefs
      <4>1. \A e \in entries' : e \in entries \/ \E u \in uprobes' : e = <<Me, u.seq>>
        <5>1. CASE Exists(spec.key)
          BY <1>4, <5>1 DEF AttachUprobe
        <5>2. CASE ~Exists(spec.key)
          <6>1. entries' = entries \cup {<<Me, seq + 1>>}
            BY <1>4, <3>3, <5>2 DEF AttachUprobe, Entry
          <6>2. [key |-> spec.key, pi |-> spec.pi, seq |-> seq + 1] \in uprobes'
            BY <1>4, <3>3, <5>2 DEF AttachUprobe
          <6> QED BY <6>1, <6>2
        <5> QED BY <5>1, <5>2
      <4> QED BY <2>1, <2>2, <3>1, <3>3, <4>1 DEF LeakInv, Traced, Explained
    <3> QED BY <3>2, <3>3
  <2> QED BY <2>4, <2>5, <2>6 DEF LeakInv
<1>5. CASE AttachUprobeFails
  <2>1. UNCHANGED <<instances, uprobes, ring, htodo, hpc, entries, alive, tracefs, ppc, attaches>>
        /\ apc' = "idle"
    BY <1>5 DEF AttachUprobeFails, AttachEnds, mapVars
  <2> QED BY <2>1 DEF LeakInv, Owned, Fresh, Traced, Explained, Installed
<1> QED BY <1>1, <1>2, <1>3, <1>4, <1>5 DEF Attach

LEMMA LifeLeakStep ==
  ASSUME TypeOK, LeakInv, New \/ Kill \/ CloseBegin \/ CloseEnd
  PROVE  LeakInv'
<1>1. CASE New
  <2>1. /\ UNCHANGED <<instances, uprobes, ring, htodo, alive, tracefs, spec, attaches, apc>>
        /\ hpc' = "read" /\ ppc' = "up" /\ ppc = "new" /\ hpc = "gone"
        /\ entries' = entries \ Stale
    BY <1>1 DEF New, mapVars, attachVars, TypeOK, LoopTypeOK
  <2>2. Owned' /\ Fresh'
    BY <2>1 DEF LeakInv, Owned, Fresh, Installed
  <2>3. ASSUME NEW e \in entries' PROVE Explained(e)'
    <3>1. e \in entries /\ e[1] \in alive \cup {Me} /\ e[2] = 1
      BY <2>1 DEF Stale, LeakInv, Traced
    <3>2. e = <<e[1], e[2]>>
      BY <3>1 DEF TypeOK, KernelTypeOK
    <3> QED BY <2>1, <3>1, <3>2 DEF Explained
  <2>4. Traced'
    BY <2>1, <2>3 DEF LeakInv, Traced
  <2> QED BY <2>2, <2>4 DEF LeakInv
<1>2. CASE Kill
  <2>1. /\ instances' = [g \in Configs |-> 0] /\ uprobes' = {} /\ ring' = NoRings /\ htodo' = {}
        /\ ppc' = "killed" /\ apc' = "idle" /\ attaches' = attaches
        /\ UNCHANGED <<entries, tracefs>>
    BY <1>2 DEF Kill
  <2>2. \A pi \in Pis : ring'[pi] = NoneOpen
    BY <2>1 DEF NoRings, NoneOpen
  <2> QED BY <2>1, <2>2 DEF LeakInv, Owned, Fresh, Traced, TypeOK, AttachTypeOK, NoneOpen
<1>3. CASE CloseBegin
  <2>1. /\ UNCHANGED <<instances, uprobes, ring, htodo, hpc, entries, alive, tracefs, attaches, apc>>
        /\ ppc' = "wait" /\ ppc = "up" /\ apc = "idle"
    BY <1>3 DEF CloseBegin, CloseOnly, attachVars, plugVars
  <2> QED BY <2>1 DEF LeakInv, Owned, Fresh, Traced, Explained, Installed
<1>4. CASE CloseEnd
  <2>1. /\ instances' = [g \in Configs |-> 0] /\ uprobes' = {}
        /\ UNCHANGED <<htodo, hpc, alive, tracefs, attaches, apc>>
        /\ entries' = entries \ {<<Me, u.seq>> : u \in uprobes}
        /\ ppc' = "closed" /\ ppc = "wait" /\ hpc = "gone"
    BY <1>4 DEF CloseEnd, CloseOnly, attachVars, plugVars
  <2>2. Installed' = {}
    BY <2>1 DEF Installed
  <2>3. \A pi \in Pis : ring'[pi] = NoneOpen
    BY <1>4 DEF CloseEnd, CloseRings, NoneOpen, LeakInv, Owned
  <2>4. Owned'
    BY <2>1, <2>2, <2>3 DEF LeakInv, Owned, NoneOpen
  <2>5. Fresh'
    BY <2>1, <2>2 DEF LeakInv, Fresh, TypeOK, AttachTypeOK
  <2>6. ASSUME NEW e \in entries' PROVE e \in (alive \X Nat) \cup {<<Me, 1>>}
    <3>1. e \in entries /\ Explained(e) /\ ~\E u \in uprobes : e = <<Me, u.seq>>
      BY <2>1 DEF LeakInv, Traced
    <3>2. e \in ({Me} \cup OtherPids) \X Nat
      BY <3>1 DEF TypeOK, KernelTypeOK
    <3> QED BY <3>1, <3>2 DEF Explained
  <2>7. Traced'
    BY <2>1, <2>6 DEF LeakInv, Traced
  <2> QED BY <2>4, <2>5, <2>7 DEF LeakInv
<1> QED BY <1>1, <1>2, <1>3, <1>4

LEMMA StutterLeakStep == LeakInv /\ UNCHANGED vars => LeakInv'
  BY DEF LeakInv, Owned, Fresh, Traced, Explained, Installed, vars, kernelVars, mapVars,
    attachVars, plugVars

LEMMA LeakStep == TypeOK /\ LeakInv /\ [Next]_vars => LeakInv'
  BY KernelLeakStep, LifeLeakStep, AttachLeakStep, EventsLeakStep, HotplugLeakStep, StutterLeakStep
    DEF Next, Terminated

(* Whatever call of Attach or of handleHotplug has failed before, every open *)
(* ring and every uprobe belongs to an instance that Close will close, and   *)
(* every tracefs entry to a uprobe, to a live process or to an earlier life  *)
(* of this pid.                                                              *)
THEOREM NothingIsLeaked == Spec => []NothingLeaks
<1>1. TypeOK /\ LeakInv => NothingLeaks
  <2> SUFFICES ASSUME TypeOK, LeakInv PROVE NothingLeaks
    OBVIOUS
  <2>1. {pi \in Pis : ring[pi] # [c \in Cpu |-> 0]} \cup {u.pi : u \in uprobes} \subseteq Installed
    BY DEF LeakInv, Owned, NoneOpen
  <2>2. Up /\ tracefs => \A e \in entries : Explained(e)
    BY DEF LeakInv, Traced, Up
  <2>3. ppc = "closed" => Installed = {} /\ entries \subseteq (alive \X Nat) \cup {<<Me, 1>>}
    BY DEF LeakInv, Fresh, Traced
  <2> QED BY <2>1, <2>2, <2>3 DEF NothingLeaks, Explained
<1> QED BY <1>1, LeakStep, InitLeak, TypeCorrect, PTL DEF Spec
-----------------------------------------------------------------------------
(* Hotplug.  Covered is inductive given the types and that nothing is        *)
(* installed before New: an online event is in the socket, then in the hands *)
(* of handleHotplug, which looks at the instances under mu; what Attach adds *)
(* before that it sees, and what Attach adds later sees the CPU online.      *)

Announced(c) == \E k \in DOMAIN uevents : uevents[k] = [cpu |-> c, online |-> TRUE]
NoneBefore == ppc = "new" => Installed = {}
Live == Up /\ ~done /\ ~fatal

LEMMA SwitchCovers ==
  ASSUME TypeOK, Covered, NoneBefore, NEW c \in Cpu, Up, Switch(c)
  PROVE  Covered'
<1> SUFFICES ASSUME Live', NEW pi \in Installed', NEW d \in online'
             PROVE  ring'[pi][d] # 0 \/ Pending(pi, d)'
  BY DEF Covered, Live
<1>1. /\ UNCHANGED <<ring, instances, apc, spec, acpu, hpc, hcpu, htodo, ppc, done, fatal>>
      /\ ppc # "new"
  BY DEF Switch, KernelOnly, mapVars, attachVars, plugVars, Up
<1>2. pi \in Installed /\ Live
  BY <1>1 DEF Installed, Live, Up
<1> DEFINE e == [cpu |-> c, online |-> c \notin online]
<1>3. uevents' = Append(uevents, e) /\ uevents \in Seq([cpu : Cpu, online : BOOLEAN])
      /\ e \in [cpu : Cpu, online : BOOLEAN]
  BY <1>1 DEF Switch, TypeOK, KernelTypeOK
<1>4. CASE d \in online
  <2>1. ring[pi][d] # 0 \/ Pending(pi, d)
    BY <1>2, <1>4 DEF Covered, Live
  <2>2. Announced(d) => Announced(d)'
    <3>1. \A k \in DOMAIN uevents : k \in DOMAIN uevents' /\ uevents'[k] = uevents[k]
      BY <1>3, AppendProperties
    <3> QED BY <3>1 DEF Announced
  <2> QED BY <1>1, <2>1, <2>2 DEF Pending, Announced
<1>5. CASE d \notin online
  <2>1. d = c
    BY <1>5 DEF Switch
  <2>2. Len(uevents) + 1 \in DOMAIN uevents' /\ uevents'[Len(uevents) + 1] = [cpu |-> d, online |-> TRUE]
    <3>1. e = [cpu |-> d, online |-> TRUE]
      BY <1>5, <2>1
    <3>2. Len(uevents') = Len(uevents) + 1 /\ uevents'[Len(uevents) + 1] = e
            /\ uevents' \in Seq([cpu : Cpu, online : BOOLEAN]) /\ Len(uevents) \in Nat
      <4> HIDE DEF e
      <4> QED BY <1>3, AppendProperties, LenProperties
    <3> HIDE DEF e
    <3>3. DOMAIN uevents' = 1 .. Len(uevents')
      BY <3>2, LenProperties
    <3> QED BY <3>1, <3>2, <3>3
  <2> QED BY <2>2 DEF Pending
<1> QED BY <1>4, <1>5

(* After ringLocked a CPU that is online has its ring, and no ring is lost.  *)
LEMMA RingLockedCovers ==
  ASSUME NEW pi \in Pis, NEW c \in Cpu, MapTypeOK, RingLocked(pi, c)
  PROVE  /\ c \in online => ring'[pi][c] # 0
         /\ \A qi \in Pis, d \in Cpu : ring[qi][d] # 0 => ring'[qi][d] # 0
<1>1. CASE Skip(pi, c)
  BY <1>1 DEF RingLocked, Skip
<1>2. CASE ~Skip(pi, c)
  <2>1. PICK f \in Fds : ring' = [ring EXCEPT ![pi][c] = f]
    BY <1>2 DEF RingLocked, OpenRing
  <2>2. f # 0
    BY BPFProbeAssumption
  <2> QED BY <2>1, <2>2 DEF MapTypeOK
<1> QED BY <1>1, <1>2

LEMMA AttachCovers == TypeOK /\ LeakInv /\ Covered /\ Attach => Covered'
<1> SUFFICES ASSUME TypeOK, LeakInv, Covered, Attach,
                    Live', NEW pi \in Installed', NEW c \in online'
             PROVE  ring'[pi][c] # 0 \/ Pending(pi, c)'
  BY DEF Covered, Live
<1>1. UNCHANGED <<online, uevents, hpc, hcpu, htodo, ppc, done, fatal>>
  BY DEF Attach, AttachBegin, AttachRing, AttachRingFails, AttachUprobe, AttachUprobeFails,
    AttachOnly, plugVars
<1>2. Live /\ c \in online /\ c \in Cpu
  BY <1>1 DEF Live, Up, TypeOK, KernelTypeOK
<1>3. pi \in Installed => ring[pi][c] # 0 \/ Pending(pi, c)
  BY <1>2 DEF Covered, Live
<1>4. ASSUME NEW t \in Targets, AttachBegin(t) PROVE ring'[pi][c] # 0 \/ Pending(pi, c)'
  <2> DEFINE g == t.cfg
  <2>1. g \in Configs /\ apc = "idle" /\ ring' = ring
        /\ instances \in [Configs -> Pis \cup {0}]
    BY <1>4 DEF Configs, AttachBegin, TypeOK, MapTypeOK
  <2>2. CASE pi \in Installed
    BY <1>1, <1>3, <2>1, <2>2 DEF Pending
  <2>3. CASE pi \notin Installed
    <3>1. instances[g] = 0 /\ pi = attaches + 1
      BY <1>4, <2>1, <2>3 DEF AttachBegin, Installed
    <3>2. apc' = "rings" /\ spec'.pi = pi /\ acpu' = 0
      BY <1>4, <3>1 DEF AttachBegin
    <3> QED BY <1>2, <3>2, BPFProbeAssumption DEF Pending, Cpu
  <2> QED BY <2>2, <2>3
<1>5. CASE AttachRing
  <2>1. spec.pi \in Pis /\ acpu \in Cpu /\ MapTypeOK /\ RingLocked(spec.pi, acpu)
    BY <1>5, BPFProbeAssumption DEF AttachRing, TypeOK, AttachTypeOK, Cpu
  <2>2. /\ UNCHANGED <<instances, spec>> /\ apc = "rings" /\ acpu' = acpu + 1
        /\ apc' = IF acpu + 1 = Cpus THEN "uprobe" ELSE "rings"
    BY <1>5 DEF AttachRing
  <2>3. pi \in Installed /\ pi \in Pis
    BY <2>2 DEF Installed, TypeOK, MapTypeOK
  <2>4. CASE ring[pi][c] # 0 \/ (spec.pi = pi /\ acpu = c)
    BY <1>2, <2>1, <2>3, <2>4, RingLockedCovers
  <2>5. CASE spec.pi = pi /\ acpu <= c /\ acpu # c
    <3>1. acpu + 1 <= c /\ acpu + 1 # Cpus
      BY <1>2, <2>1, <2>5, BPFProbeAssumption DEF Cpu
    <3> QED BY <2>2, <2>5, <3>1 DEF Pending
  <2>6. CASE ~(spec.pi = pi /\ acpu <= c) /\ Pending(pi, c)
    BY <1>1, <2>6 DEF Pending
  <2> QED BY <1>3, <2>3, <2>4, <2>5, <2>6
<1>6. CASE AttachRingFails
  <2>1. /\ spec.cfg \in Configs /\ spec.pi \in Pis /\ instances[spec.cfg] = spec.pi /\ apc = "rings"
        /\ instances' = [instances EXCEPT ![spec.cfg] = 0]
        /\ instances \in [Configs -> Pis \cup {0}] /\ 0 \notin Pis
    BY <1>6 DEF AttachRingFails, TypeOK, AttachTypeOK, MapTypeOK, LeakInv, Fresh, Pis
  <2>2. pi \in Installed /\ pi # spec.pi /\ pi \in Pis
    BY <2>1 DEF Installed, LeakInv, Fresh
  <2>3. ring'[pi] = ring[pi]
    BY <1>6, <2>2 DEF AttachRingFails, CloseRings
  <2> QED BY <1>1, <1>3, <2>2, <2>3 DEF Pending
<1>7. CASE AttachUprobe \/ AttachUprobeFails
  <2>1. UNCHANGED <<ring, instances>> /\ apc = "uprobe"
    BY <1>7 DEF AttachUprobe, AttachUprobeFails, mapVars
  <2> QED BY <1>1, <1>3, <2>1 DEF Pending, Installed
<1> QED BY <1>4, <1>5, <1>6, <1>7 DEF Attach

LEMMA HotplugCovers == TypeOK /\ Covered /\ HandleHotplug => Covered'
<1> SUFFICES ASSUME TypeOK, Covered, HandleHotplug,
                    Live', NEW pi \in Installed', NEW c \in online'
             PROVE  ring'[pi][c] # 0 \/ Pending(pi, c)'
  BY DEF Covered, Live
<1>1. UNCHANGED <<online, instances, apc, spec, acpu, ppc, done>>
  BY DEF HandleHotplug, PlugRead, PlugEnds, PlugLock, PlugUnlock, PlugRing, PlugFails,
    PlugOnly, attachVars
<1>2. ~fatal
  <2>1. CASE fatal
    BY <2>1 DEF HandleHotplug, PlugRead, PlugEnds, PlugLock, PlugUnlock, PlugRing, PlugFails, Live
  <2> QED BY <2>1
<1>3. Live /\ c \in online /\ c \in Cpu /\ pi \in Installed /\ pi \in Pis
  BY <1>1, <1>2 DEF Live, Up, TypeOK, KernelTypeOK, MapTypeOK, Installed
<1>4. ring[pi][c] # 0 \/ Pending(pi, c)
  BY <1>3 DEF Covered, Live
<1>5. CASE PlugRead
  <2>1. /\ uevents \in Seq([cpu : Cpu, online : BOOLEAN]) /\ uevents # <<>> /\ hpc = "read"
        /\ uevents' = Tail(uevents) /\ ring' = ring
    BY <1>5 DEF PlugRead, TypeOK, KernelTypeOK
  <2>2. Announced(c) => Announced(c)' \/ Head(uevents) = [cpu |-> c, online |-> TRUE]
    <3>1. ASSUME NEW k \in DOMAIN uevents, k # 1
          PROVE  k - 1 \in DOMAIN uevents' /\ uevents'[k - 1] = uevents[k]
      BY <2>1, <3>1, HeadTailProperties
    <3>2. Head(uevents) = uevents[1]
      BY <2>1, HeadTailProperties
    <3> QED BY <3>1, <3>2 DEF Announced
  <2>3. Head(uevents) = [cpu |-> c, online |-> TRUE] => hpc' = "lock" /\ hcpu' = c
    BY <1>5 DEF PlugRead
  <2> QED BY <1>1, <1>4, <2>1, <2>2, <2>3 DEF Pending, Announced
<1>6. CASE PlugEnds
  BY <1>1, <1>4, <1>6 DEF PlugEnds, Pending
<1>7. CASE PlugLock
  BY <1>1, <1>3, <1>4, <1>7 DEF PlugLock, Pending
<1>8. CASE PlugUnlock
  BY <1>1, <1>4, <1>8 DEF PlugUnlock, Pending
<1>9. ASSUME NEW qi \in htodo, PlugRing(qi) PROVE ring'[pi][c] # 0 \/ Pending(pi, c)'
  <2>1. /\ qi \in Pis /\ hcpu \in Cpu /\ MapTypeOK /\ RingLocked(qi, hcpu)
        /\ htodo' = htodo \ {qi} /\ UNCHANGED <<uevents, hpc, hcpu>> /\ hpc = "rings"
    BY <1>9 DEF PlugRing, TypeOK, LoopTypeOK
  <2>2. CASE ring[pi][c] # 0 \/ (qi = pi /\ hcpu = c)
    BY <1>3, <2>1, <2>2, RingLockedCovers
  <2>3. CASE ~(qi = pi /\ hcpu = c) /\ Pending(pi, c)
    BY <1>1, <2>1, <2>3 DEF Pending
  <2> QED BY <1>4, <2>2, <2>3
<1>10. ASSUME NEW qi \in htodo, PlugFails(qi) PROVE FALSE
  BY <1>10 DEF PlugFails, Live
<1> QED BY <1>5, <1>6, <1>7, <1>8, <1>9, <1>10 DEF HandleHotplug

(* No CPU that is online is forgotten, in whatever order it comes online,    *)
(* Attach opens the rings of a new instance and handleHotplug gets mu.       *)
THEOREM EveryCpuIsCovered == Spec => []Covered
<1>1. Init => Covered /\ NoneBefore
  BY DEF Init, Covered, NoneBefore, Installed, Up
<1>2. TypeOK /\ LeakInv /\ Covered /\ NoneBefore /\ [Next]_vars => (Covered /\ NoneBefore)'
  <2> SUFFICES ASSUME TypeOK, LeakInv, Covered, NoneBefore, [Next]_vars
               PROVE  Covered' /\ NoneBefore'
    OBVIOUS
  <2>1. CASE Attach
    <3>1. ppc # "new" /\ ppc' = ppc
      BY <2>1 DEF Attach, AttachBegin, AttachRing, AttachRingFails, AttachUprobe,
        AttachUprobeFails, AttachOnly, LeakInv, Fresh
    <3> QED BY <2>1, <3>1, AttachCovers DEF NoneBefore
  <2>2. CASE HandleHotplug
    <3>1. UNCHANGED <<ppc, instances>>
      BY <2>2 DEF HandleHotplug, PlugRead, PlugEnds, PlugLock, PlugUnlock, PlugRing, PlugFails, PlugOnly
    <3> QED BY <2>2, <3>1, HotplugCovers DEF NoneBefore, Installed
  <2>3. ASSUME Up, NEW c \in Cpu, Switch(c) PROVE Covered' /\ NoneBefore'
    <3>1. UNCHANGED <<ppc, instances>>
      BY <2>3 DEF Switch, KernelOnly, mapVars
    <3> QED BY <2>3, <3>1, SwitchCovers DEF NoneBefore, Installed
  <2>4. CASE New
    BY <2>4 DEF New, mapVars, Covered, NoneBefore, Installed
  <2>5. CASE Kill \/ CloseBegin \/ CloseEnd
    BY <2>5 DEF Kill, CloseBegin, CloseEnd, Covered, NoneBefore, Up
  <2>6. CASE HandleEvents \/ (\E u \in uprobes, c \in Cpu : Hit(u, c)) \/ Terminated \/ UNCHANGED vars
    <3>1. UNCHANGED <<online, uevents, ring, instances, apc, spec, acpu, hpc, hcpu, htodo, ppc, done>>
      BY <2>6 DEF HandleEvents, EpollWait, EpollFails, TakeFd, BatchEnds, Read, EventsOnly, Hit,
        KernelOnly, Terminated, vars, kernelVars, mapVars, attachVars, plugVars
    <3>2. fatal => fatal'
      BY <2>6 DEF HandleEvents, EpollWait, EpollFails, TakeFd, BatchEnds, Read, EventsOnly, Hit,
        KernelOnly, Terminated, vars
    <3> QED BY <3>1, <3>2 DEF Covered, NoneBefore, Installed, Up, Pending
  <2> QED BY <2>1, <2>2, <2>3, <2>4, <2>5, <2>6 DEF Next
<1> QED BY <1>1, <1>2, LeakStep, InitLeak, TypeCorrect, PTL DEF Spec
=============================================================================
