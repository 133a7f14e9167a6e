----------------------------- MODULE PHookProofs -----------------------------
(* Theorems about phook, for every set of threads and hooks, and every bound. *)
EXTENDS PHook, TLAPS

-----------------------------------------------------------------------------
(* Type correctness. *)

ProcTypeOK ==
  /\ state \in [Threads -> {"absent", "run", "step", "stop", "held", "dead", "gone"}]
  /\ why \in [Threads -> {"trap", "signal", "event", "clone", "exit"}]
  /\ at \in [Threads -> Hooks \cup {NoHook}]
  /\ child \in [Threads -> Threads \cup {NoThread}]
  /\ traced \subseteq Threads /\ interrupt \subseteq Threads
  /\ visits \in 0 .. MaxVisits /\ signals \in 0 .. MaxSignals
BookTypeOK ==
  /\ tpc \in {"attach", "loop", "wait", "emit", "cleanup", "detach", "done"}
  /\ todo \subseteq Threads /\ known \subseteq Threads /\ pending \subseteq Threads
  /\ running \subseteq known
  /\ stepping \in [Threads -> Hooks \cup {NoHook}]
  /\ brk \subseteq Hooks /\ bps \subseteq Hooks /\ late \subseteq Hooks
CallTypeOK ==
  /\ hooked \subseteq Hooks /\ cmds \subseteq Hooks
  /\ current \in Threads \cup {NoThread}
  /\ stop \in BOOLEAN /\ rpc \in {"next", "wait", "body", "ack", "gone", "left"}
  /\ dropped \in Nat /\ hits \in Nat /\ seen \in Nat

LEMMA TypeParts == TypeOK <=> ProcTypeOK /\ BookTypeOK /\ CallTypeOK
BY DEF TypeOK, ProcTypeOK, BookTypeOK, CallTypeOK

LEMMA ProcTypeStep == TypeOK /\ [Next]_vars => ProcTypeOK'
<1> SUFFICES ASSUME ProcTypeOK, BookTypeOK, CallTypeOK, [Next]_vars PROVE ProcTypeOK'
  BY TypeParts
<1> USE DEF ProcTypeOK
<1>1. CASE Process
  <2>1. ASSUME NEW t \in Threads, Execute(t) PROVE ProcTypeOK'
    BY <2>1 DEF Execute, StopFor, Killed, Alive
  <2>2. ASSUME NEW t \in Threads, Signal(t) PROVE ProcTypeOK'
    BY <2>2, PHookAssumption DEF Signal, StopFor
  <2>3. ASSUME NEW t \in Threads, Interrupted(t) \/ Exit(t) PROVE ProcTypeOK'
    BY <2>3 DEF Interrupted, Exit, StopFor
  <2>4. ASSUME NEW t \in Threads, NEW v \in Hooks, Reach(t, v) PROVE ProcTypeOK'
    BY <2>4, PHookAssumption DEF Reach
  <2>5. ASSUME NEW t \in Threads, NEW u \in Threads, Clone(t, u) PROVE ProcTypeOK'
    BY <2>5 DEF Clone
  <2> QED BY <1>1, <2>1, <2>2, <2>3, <2>4, <2>5 DEF Process
<1>2. CASE Top \/ NothingWaits \/ RunCommand
  BY <1>2 DEF BookTypeOK, Top, NothingWaits, ToCleanup, TopUnchanged, RunCommand
<1>3. CASE Emitted
  BY <1>3 DEF Emitted, AfterEmit, SingleStep, LoopUnchanged, CallTypeOK
<1>4. ASSUME NEW t \in Threads, ReapDead(t) PROVE ProcTypeOK'
  BY <1>4 DEF ReapDead
<1>5. ASSUME NEW t \in Threads, StopPending(t) \/ StopOther(t) \/ Stepped(t) PROVE ProcTypeOK'
  BY <1>5 DEF StopPending, StopOther, Stepped, Cont, Resume, BackToTop, LoopUnchanged
<1>6. ASSUME NEW t \in Threads, StopUnknown(t) PROVE ProcTypeOK'
  BY <1>6 DEF StopUnknown, Resume, Killed, BackToTop, LoopUnchanged
<1>7. ASSUME NEW t \in Threads, Hit(t) PROVE ProcTypeOK'
  BY <1>7 DEF Hit, SingleStep, LoopUnchanged
<1>8. CASE Attached \/ Restore
  BY <1>8 DEF Attached, AttachUnchanged, Restore, CleanupUnchanged
<1>9. CASE Detach
  BY <1>9 DEF Detach, CleanupUnchanged
<1>10. ASSUME NEW t \in Threads, Seize(t) \/ CleanupStop(t) PROVE ProcTypeOK'
  BY <1>10 DEF Seize, AttachUnchanged, CleanupStop, CleanupUnchanged
<1>11. CASE Callers \/ UNCHANGED vars
  BY <1>11 DEF Callers, Close, BodyEnds, ReaderWaits, ReaderCancelled, ReaderEnds, Hook,
       CallerUnchanged, vars, procVars
<1> QED BY <1>1, <1>2, <1>3, <1>4, <1>5, <1>6, <1>7, <1>8, <1>9, <1>10, <1>11
        DEF Next, Tracer, Loop

LEMMA BookTypeStep == TypeOK /\ [Next]_vars => BookTypeOK'
<1> SUFFICES ASSUME ProcTypeOK, BookTypeOK, CallTypeOK, [Next]_vars PROVE BookTypeOK'
  BY TypeParts
<1> USE DEF BookTypeOK
<1>1. CASE Process
  BY <1>1 DEF Process, Execute, Signal, Interrupted, Exit, Reach, Clone, ProcUnchanged, bookVars
<1>2. CASE Top \/ NothingWaits \/ RunCommand
  BY <1>2 DEF Top, NothingWaits, ToCleanup, TopUnchanged, RunCommand, bookVars, Install, CallTypeOK
<1>3. CASE Emitted
  BY <1>3 DEF Emitted, AfterEmit, SingleStep, LoopUnchanged, CallTypeOK, ProcTypeOK
<1>4. ASSUME NEW t \in Threads, ReapDead(t) PROVE BookTypeOK'
  BY <1>4 DEF ReapDead
<1>5. ASSUME NEW t \in Threads, StopPending(t) \/ StopOther(t) PROVE BookTypeOK'
  BY <1>5 DEF StopPending, StopOther, Known, Waited, Install, Cont, BackToTop, LoopUnchanged
<1>6. ASSUME NEW t \in Threads, StopUnknown(t) PROVE BookTypeOK'
  BY <1>6 DEF StopUnknown, BackToTop, LoopUnchanged
<1>7. ASSUME NEW t \in Threads, Hit(t) PROVE BookTypeOK'
  BY <1>7 DEF Hit, SingleStep, LoopUnchanged, ProcTypeOK
<1>8. ASSUME NEW t \in Threads, Stepped(t) PROVE BookTypeOK'
  BY <1>8 DEF Stepped, Known, Cont, BackToTop, LoopUnchanged
<1>9. CASE Attached \/ Restore \/ Detach
  BY <1>9 DEF Attached, AttachUnchanged, Restore, Detach, CleanupUnchanged
<1>10. ASSUME NEW t \in Threads, Seize(t) \/ CleanupStop(t) PROVE BookTypeOK'
  BY <1>10 DEF Seize, AttachUnchanged, CleanupStop, CleanupUnchanged
<1>11. CASE Callers \/ UNCHANGED vars
  BY <1>11 DEF Callers, Close, BodyEnds, ReaderWaits, ReaderCancelled, ReaderEnds, Hook,
       CallerUnchanged, vars, procVars, bookVars
<1> QED BY <1>1, <1>2, <1>3, <1>4, <1>5, <1>6, <1>7, <1>8, <1>9, <1>10, <1>11
        DEF Next, Tracer, Loop

LEMMA CallTypeStep == TypeOK /\ [Next]_vars => CallTypeOK'
<1> SUFFICES ASSUME CallTypeOK, [Next]_vars PROVE CallTypeOK'
  BY TypeParts
<1> USE DEF CallTypeOK
<1>1. CASE Process
  BY <1>1 DEF Process, Execute, Signal, Interrupted, Exit, Reach, Clone, ProcUnchanged, callVars, countVars
<1>2. CASE Top \/ NothingWaits \/ RunCommand
  BY <1>2 DEF Top, NothingWaits, TopUnchanged, RunCommand, callVars, countVars
<1>3. CASE Emitted
  BY <1>3 DEF Emitted, AfterEmit, LoopUnchanged, callVars, countVars
<1>4. ASSUME NEW t \in Threads, ReapDead(t) PROVE CallTypeOK'
  BY <1>4 DEF ReapDead, callVars, countVars
<1>5. ASSUME NEW t \in Threads, StopPending(t) \/ StopOther(t) \/ Stepped(t) \/ StopUnknown(t)
      PROVE  CallTypeOK'
  BY <1>5 DEF StopPending, StopOther, Stepped, StopUnknown, BackToTop, LoopUnchanged, callVars, countVars
<1>6. ASSUME NEW t \in Threads, Hit(t) PROVE CallTypeOK'
  BY <1>6 DEF Hit, LoopUnchanged, callVars
<1>7. CASE Attached \/ Restore \/ Detach
  BY <1>7 DEF Attached, AttachUnchanged, Restore, Detach, CleanupUnchanged, callVars, countVars
<1>8. ASSUME NEW t \in Threads, Seize(t) \/ CleanupStop(t) PROVE CallTypeOK'
  BY <1>8 DEF Seize, AttachUnchanged, CleanupStop, CleanupUnchanged, callVars, countVars
<1>9. CASE Close \/ \E v \in Hooks : Hook(v)
  BY <1>9 DEF Close, Hook, CallerUnchanged
<1>10. CASE BodyEnds \/ ReaderWaits \/ ReaderCancelled \/ ReaderEnds
  BY <1>10 DEF BodyEnds, ReaderWaits, ReaderCancelled, ReaderEnds, CallerUnchanged, callVars
<1>11. CASE UNCHANGED vars
  BY <1>11 DEF vars, callVars, countVars
<1> QED BY <1>1, <1>2, <1>3, <1>4, <1>5, <1>6, <1>7, <1>8, <1>9, <1>10, <1>11
        DEF Next, Tracer, Loop, Callers

(* Every variable keeps its type, and only threads in p.threads are marked   *)
(* as running.                                                               *)
THEOREM TypeCorrect == Spec => []TypeOK
<1>1. Init => TypeOK
  <2> SUFFICES ASSUME Init PROVE TypeOK
    OBVIOUS
  <2>1. ProcTypeOK
    BY PHookAssumption DEF Init, ProcTypeOK
  <2>2. BookTypeOK
    BY DEF Init, BookTypeOK
  <2>3. CallTypeOK
    BY DEF Init, CallTypeOK
  <2> QED BY <2>1, <2>2, <2>3, TypeParts
<1>2. TypeOK /\ [Next]_vars => TypeOK'
  <2> SUFFICES ASSUME TypeOK, [Next]_vars PROVE TypeOK'
    OBVIOUS
  <2>1. ProcTypeOK' /\ BookTypeOK' /\ CallTypeOK'
    BY ProcTypeStep, BookTypeStep, CallTypeStep
  <2> QED BY <2>1 DEF TypeOK, ProcTypeOK, BookTypeOK, CallTypeOK
<1> QED BY <1>1, <1>2, PTL DEF Spec

-----------------------------------------------------------------------------
(* The counts.  What the reader has been given leaves no drop behind while   *)
(* its body runs and until it is on its way to the select again, because the *)
(* tracer waits for it, or has been told to stop and never sees a hit again. *)
CountInv ==
  /\ hits = seen + dropped
  /\ rpc = "gone" => dropped = 0 /\ tpc = "done"
  /\ rpc \in {"body", "ack"} =>
       /\ dropped = 0
       /\ tpc = "emit" \/ (stop /\ tpc \in {"loop", "cleanup", "detach", "done"})

LEMMA CountInvStep == TypeOK /\ CountInv /\ [Next]_vars => CountInv'
<1> SUFFICES ASSUME CallTypeOK, CountInv, [Next]_vars PROVE CountInv'
  BY TypeParts
<1> USE DEF CountInv
<1>1. CASE Process
  BY <1>1 DEF Process, Execute, Signal, Interrupted, Exit, Reach, Clone, ProcUnchanged, callVars, countVars
<1>2. CASE Top \/ NothingWaits \/ RunCommand
  BY <1>2 DEF Top, NothingWaits, ToCleanup, TopUnchanged, RunCommand, callVars, countVars
<1>3. CASE Emitted
  BY <1>3 DEF Emitted, AfterEmit, LoopUnchanged, callVars, countVars
<1>4. ASSUME NEW t \in Threads, ReapDead(t) PROVE CountInv'
  BY <1>4 DEF ReapDead, callVars, countVars
<1>5. ASSUME NEW t \in Threads, StopPending(t) \/ StopOther(t) \/ Stepped(t) \/ StopUnknown(t)
      PROVE  CountInv'
  BY <1>5 DEF StopPending, StopOther, Stepped, StopUnknown, Known, Waited, BackToTop, LoopUnchanged,
       callVars, countVars
<1>6. ASSUME NEW t \in Threads, Hit(t) PROVE CountInv'
  BY <1>6 DEF Hit, Known, Waited, LoopUnchanged, callVars, CallTypeOK
<1>7. CASE Attached \/ Restore \/ Detach
  BY <1>7 DEF Attached, AttachUnchanged, Restore, Detach, CleanupUnchanged, callVars, countVars
<1>8. ASSUME NEW t \in Threads, Seize(t) \/ CleanupStop(t) PROVE CountInv'
  BY <1>8 DEF Seize, AttachUnchanged, CleanupStop, CleanupUnchanged, callVars, countVars
<1>9. CASE Close \/ \E v \in Hooks : Hook(v)
  BY <1>9 DEF Close, Hook, CallerUnchanged
<1>10. CASE BodyEnds \/ ReaderWaits \/ ReaderCancelled \/ ReaderEnds
  BY <1>10 DEF BodyEnds, ReaderWaits, ReaderCancelled, ReaderEnds, CallerUnchanged, callVars, CallTypeOK
<1>11. CASE UNCHANGED vars
  BY <1>11 DEF vars, callVars, countVars
<1> QED BY <1>1, <1>2, <1>3, <1>4, <1>5, <1>6, <1>7, <1>8, <1>9, <1>10, <1>11
        DEF Next, Tracer, Loop, Callers

(* Whatever the threads of the process do, in whatever order hits, drops,    *)
(* Close and the ways out of Events happen: each hit is reported once, and a *)
(* reader that reads to the end of the sequence has been told of all.        *)
THEOREM EveryHitIsReported == Spec => []HitsReported
<1>1. Init => CountInv
  BY DEF Init, CountInv
<1>2. CountInv => HitsReported
  BY DEF CountInv, HitsReported
<1> QED BY <1>1, <1>2, TypeCorrect, CountInvStep, PTL DEF Spec

-----------------------------------------------------------------------------
(* Why a thread has trapped.  A known thread that stops with SIGTRAP and is  *)
(* not booked as stepping is at a breakpoint: single steps are taken only by *)
(* threads that are booked, and stay booked until their trap is seen.        *)
TrapInv ==
  \A t \in Threads :
    /\ state[t] = "absent" => why[t] = "event"
    /\ state[t] = "step" => stepping[t] # NoHook
    /\ state[t] = "stop" /\ why[t] = "trap" /\ at[t] = NoHook => stepping[t] # NoHook

(* The thread of a hit is attached, stopped (or dead) at the hooked address, *)
(* and not booked as stepping.                                               *)
EmitInv ==
  tpc = "emit" =>
    /\ current \in traced /\ state[current] \in {"held", "dead"}
    /\ at[current] # NoHook /\ stepping[current] = NoHook

(* The booked threads cover the breakpoints that are missing. *)
BodyInv ==
  /\ rpc = "body" /\ ~stop => tpc = "emit"
  /\ tpc = "attach" => bps = {}
HitInv == TrapInv /\ EmitInv /\ MissingOnlyWhileStepping /\ BodyInv

LEMMA HitInvProcess == TypeOK /\ HitInv /\ Process => HitInv'
<1> SUFFICES ASSUME ProcTypeOK, BookTypeOK, CallTypeOK, HitInv, Process PROVE HitInv'
  BY TypeParts
<1>1. UNCHANGED <<tpc, stepping, bps, current, stop, rpc, brk>>
  BY DEF Process, Execute, Signal, Interrupted, Exit, Reach, Clone, ProcUnchanged, bookVars, callVars
<1>2. MissingOnlyWhileStepping' /\ BodyInv'
  BY <1>1 DEF HitInv, MissingOnlyWhileStepping, BodyInv
<1>3. TrapInv' /\ EmitInv'
  <2> USE <1>1 DEF HitInv, TrapInv, EmitInv, ProcTypeOK
  <2>1. ASSUME NEW t \in Threads, Execute(t) PROVE TrapInv' /\ EmitInv'
    BY <2>1 DEF Execute, StopFor, Killed, Alive
  <2>2. ASSUME NEW t \in Threads, Signal(t) \/ Interrupted(t) \/ Exit(t) PROVE TrapInv' /\ EmitInv'
    BY <2>2 DEF Signal, Interrupted, Exit, StopFor
  <2>3. ASSUME NEW t \in Threads, NEW v \in Hooks, Reach(t, v) PROVE TrapInv' /\ EmitInv'
    BY <2>3 DEF Reach
  <2>4. ASSUME NEW t \in Threads, NEW u \in Threads, Clone(t, u) PROVE TrapInv' /\ EmitInv'
    BY <2>4 DEF Clone
  <2> QED BY <2>1, <2>2, <2>3, <2>4 DEF Process
<1> QED BY <1>2, <1>3 DEF HitInv

LEMMA HitInvStop ==
  ASSUME TypeOK, HitInv, NEW t \in Threads,
         StopPending(t) \/ StopOther(t) \/ Stepped(t) \/ StopUnknown(t)
  PROVE  HitInv'
<1> USE DEF HitInv
<1>0. ProcTypeOK /\ BookTypeOK
  BY TypeParts
<1>1. tpc = "wait" /\ tpc' = "loop" /\ state[t] = "stop" /\ UNCHANGED <<at, traced, rpc, stop>>
  BY DEF StopPending, StopOther, Stepped, StopUnknown, Known, Waited, BackToTop, LoopUnchanged, callVars
<1>2. EmitInv' /\ BodyInv'
  BY <1>1 DEF EmitInv, BodyInv
<1>3. CASE Stepped(t)
  <2>1. TrapInv'
    BY <1>0, <1>1, <1>3 DEF Stepped, Cont, Resume, Stopped, TrapInv, ProcTypeOK, BookTypeOK
  <2>2. MissingOnlyWhileStepping'
    <3>1. bps' = bps \cup late /\ brk' = brk \cup (late \ bps) \cup {stepping[t]}
          /\ stepping' = [stepping EXCEPT ![t] = NoHook]
      BY <1>3 DEF Stepped
    <3>2. \A u \in Threads : u # t => stepping'[u] = stepping[u]
      BY <1>0, <3>1 DEF BookTypeOK
    <3> QED BY <1>1, <3>1, <3>2 DEF MissingOnlyWhileStepping
  <2> QED BY <1>2, <2>1, <2>2
<1>4. CASE StopPending(t) \/ StopOther(t) \/ StopUnknown(t)
  <2>1. UNCHANGED stepping
    BY <1>4 DEF StopPending, StopOther, StopUnknown
  <2>2. TrapInv'
    BY <1>0, <1>1, <1>4, <2>1
       DEF StopPending, StopOther, StopUnknown, Cont, Resume, Stopped, Killed, Alive, TrapInv, ProcTypeOK
  <2>3. MissingOnlyWhileStepping'
    BY <1>1, <1>4, <2>1 DEF StopPending, StopOther, StopUnknown, Install, MissingOnlyWhileStepping
  <2> QED BY <1>2, <2>2, <2>3
<1> QED BY <1>3, <1>4

LEMMA HitInvHit ==
  ASSUME TypeOK, HitInv, NEW t \in Threads, Hit(t)
  PROVE  HitInv'
<1> USE DEF HitInv
<1>0. ProcTypeOK /\ BookTypeOK /\ CallTypeOK
  BY TypeParts
<1>1. tpc = "wait" /\ t \in traced /\ state[t] = "stop" /\ why[t] = "trap" /\ stepping[t] = NoHook
      /\ at[t] # NoHook /\ UNCHANGED <<at, traced, stop>> /\ bps' = bps \cup late
  BY DEF Hit, Known, Waited, TrapInv, LoopUnchanged, callVars
<1>2. CASE rpc = "wait"
  <2>1. rpc' = "body" /\ tpc' = "emit" /\ current' = t /\ UNCHANGED <<why, stepping>>
        /\ state' = [state EXCEPT ![t] = "held"] /\ brk' = brk \cup (late \ bps)
    BY <1>2 DEF Hit
  <2>2. TrapInv' /\ EmitInv' /\ BodyInv'
    BY <1>0, <1>1, <2>1 DEF TrapInv, EmitInv, BodyInv, ProcTypeOK
  <2>3. MissingOnlyWhileStepping'
    BY <1>1, <2>1 DEF MissingOnlyWhileStepping
  <2> QED BY <2>2, <2>3
<1>3. CASE rpc # "wait"
  <2>1. tpc' = "loop" /\ stepping' = [stepping EXCEPT ![t] = at[t]]
        /\ brk' = (brk \cup (late \ bps)) \ {at[t]} /\ UNCHANGED rpc
        /\ state' = [state EXCEPT ![t] = "step"] /\ why' = [why EXCEPT ![t] = "event"]
    BY <1>1, <1>3 DEF Hit, SingleStep, Stopped
  <2>2. TrapInv' /\ EmitInv' /\ BodyInv'
    BY <1>0, <1>1, <2>1 DEF TrapInv, EmitInv, BodyInv, ProcTypeOK, BookTypeOK
  <2>3. MissingOnlyWhileStepping'
    <3>1. stepping'[t] = at[t] /\ \A u \in Threads : u # t => stepping'[u] = stepping[u]
      BY <1>0, <2>1 DEF BookTypeOK
    <3>2. \A b \in bps \ brk : b \in Hooks /\ \E u \in Threads : stepping[u] = b
      BY <1>0, <1>1 DEF MissingOnlyWhileStepping, BookTypeOK
    <3> QED BY <1>1, <2>1, <3>1, <3>2, PHookAssumption DEF MissingOnlyWhileStepping
  <2> QED BY <2>2, <2>3
<1> QED BY <1>2, <1>3

LEMMA HitInvEmitted ==
  ASSUME TypeOK, HitInv, Emitted
  PROVE  HitInv'
<1> USE DEF HitInv
<1>0. ProcTypeOK /\ BookTypeOK /\ CallTypeOK
  BY TypeParts
<1>1. current \in Threads /\ state[current] \in {"held", "dead"} /\ at[current] # NoHook
      /\ stepping[current] = NoHook
  BY <1>0 DEF Emitted, EmitInv, ProcTypeOK
<1>2. tpc = "emit" /\ tpc' = "loop" /\ stepping' = [stepping EXCEPT ![current] = at[current]]
      /\ brk' = brk \ {at[current]} /\ UNCHANGED <<bps, at, stop>>
      /\ why' = [why EXCEPT ![current] = "event"]
      /\ state' = [state EXCEPT ![current] = IF Stopped(current) THEN "step" ELSE @]
  BY DEF Emitted, AfterEmit, SingleStep, LoopUnchanged, callVars
<1>3. BodyInv' /\ EmitInv'
  BY <1>2 DEF BodyInv, EmitInv, Emitted
<1>4. TrapInv'
  BY <1>0, <1>1, <1>2 DEF TrapInv, ProcTypeOK, BookTypeOK
<1>5. MissingOnlyWhileStepping'
  <2>1. stepping'[current] = at[current] /\ \A u \in Threads : u # current => stepping'[u] = stepping[u]
    BY <1>0, <1>1, <1>2 DEF BookTypeOK
  <2>2. \A b \in bps \ brk : b \in Hooks /\ \E u \in Threads : stepping[u] = b
    BY <1>0, <1>2 DEF MissingOnlyWhileStepping, BookTypeOK
  <2> QED BY <1>1, <1>2, <2>1, <2>2, PHookAssumption DEF MissingOnlyWhileStepping
<1> QED BY <1>3, <1>4, <1>5

LEMMA HitInvStep == TypeOK /\ HitInv /\ [Next]_vars => HitInv'
<1> SUFFICES ASSUME TypeOK, HitInv, [Next]_vars PROVE HitInv'
  OBVIOUS
<1>0. ProcTypeOK /\ BookTypeOK /\ CallTypeOK
  BY TypeParts
<1> USE DEF HitInv
<1>1. CASE Top \/ NothingWaits
  BY <1>1 DEF Top, NothingWaits, ToCleanup, TopUnchanged, bookVars, callVars, countVars,
     TrapInv, EmitInv, BodyInv, MissingOnlyWhileStepping
<1>2. CASE RunCommand
  BY <1>2 DEF RunCommand, Install, TrapInv, EmitInv, BodyInv, MissingOnlyWhileStepping
<1>3. ASSUME NEW t \in Threads, ReapDead(t) PROVE HitInv'
  BY <1>0, <1>3 DEF ReapDead, callVars, TrapInv, EmitInv, BodyInv, MissingOnlyWhileStepping, ProcTypeOK
<1>4. CASE Attached
  BY <1>4 DEF Attached, AttachUnchanged, callVars, TrapInv, EmitInv, BodyInv,
     MissingOnlyWhileStepping
<1>5. CASE Restore \/ Detach
  BY <1>0, <1>5 DEF Restore, Detach, CleanupUnchanged, callVars, TrapInv, EmitInv, BodyInv,
     MissingOnlyWhileStepping, ProcTypeOK
<1>6. ASSUME NEW t \in Threads, Seize(t) \/ CleanupStop(t) PROVE HitInv'
  BY <1>0, <1>6 DEF Seize, AttachUnchanged, CleanupStop, CleanupUnchanged, callVars, TrapInv, EmitInv,
     BodyInv, MissingOnlyWhileStepping, ProcTypeOK
<1>7. CASE Callers
  BY <1>7 DEF Callers, Close, BodyEnds, ReaderWaits, ReaderCancelled, ReaderEnds, Hook,
     CallerUnchanged, procVars, bookVars, callVars, TrapInv, EmitInv, BodyInv, MissingOnlyWhileStepping
<1>8. CASE UNCHANGED vars
  BY <1>8 DEF vars, procVars, bookVars, callVars, TrapInv, EmitInv, BodyInv,
     MissingOnlyWhileStepping
<1> QED BY <1>1, <1>2, <1>3, <1>4, <1>5, <1>6, <1>7, <1>8, HitInvProcess, HitInvStop, HitInvHit,
        HitInvEmitted DEF Next, Tracer, Loop

LEMMA HitInvAlways == Spec => [](TypeOK /\ HitInv)
<1>1. Init => HitInv
  BY DEF Init, HitInv, TrapInv, EmitInv, BodyInv, MissingOnlyWhileStepping
<1> QED BY <1>1, TypeCorrect, HitInvStep, PTL DEF Spec

(* As long as the process is not closed, the thread of a hit does not move   *)
(* while the body of the loop over Events runs: no signal, kill, clone, stop *)
(* of another thread or late hook resumes it (what the comment on Events     *)
(* promises the body).                                                       *)
THEOREM HitThreadIsStopped == Spec => []BodyThreadStopped
<1>1. TypeOK /\ HitInv => BodyThreadStopped
  BY DEF HitInv, BodyInv, EmitInv, BodyThreadStopped, TypeOK
<1> QED BY <1>1, HitInvAlways, PTL

(* In every order of hits, steps, clones, signals and late hooks, the text   *)
(* of a breakpoint is missing only while a thread is booked as stepping over *)
(* it: no hook is lost for good (handleBreakpoint).                          *)
THEOREM BreakpointsArePutBack == Spec => []MissingOnlyWhileStepping
<1>1. HitInv => MissingOnlyWhileStepping
  BY DEF HitInv
<1> QED BY <1>1, HitInvAlways, PTL
=============================================================================
