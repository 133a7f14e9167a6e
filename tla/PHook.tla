------------------------------- MODULE PHook -------------------------------
(***************************************************************************)
(* phook (src/internal/probe/pprobe/internal): hooks in another process    *)
(* through ptrace.  One goroutine, locked to its thread, is the tracer: it *)
(* seizes the threads of the process, writes breakpoints into its text,    *)
(* waits for stops, hands the hits to the reader of Events and steps the   *)
(* stopped thread over the original instruction.                           *)
(*                                                                         *)
(* The threads of the process and the kernel are modelled as far as ptrace *)
(* shows them: the text is shared by all threads, a thread can be poked or *)
(* continued only while it is stopped, and a continued thread that was     *)
(* stepping no longer steps.                                               *)
(***************************************************************************)
EXTENDS Integers, FiniteSets

CONSTANTS
  Threads,     \* the threads of the process
  Hooks,       \* the addresses that hooks resolve to
  MaxVisits,   \* bound: times threads reach a hooked address
  MaxSignals   \* bound: signals sent to the process

NoHook == "none"

ASSUME PHookAssumption ==
  /\ IsFiniteSet(Threads) /\ Threads # {} /\ IsFiniteSet(Hooks) /\ NoHook \notin Hooks
  /\ MaxVisits \in Nat /\ MaxSignals \in Nat

VARIABLES
  (* the process *)
  state,     \* state[t]: "absent", "run", "step", "stop" (not waited for yet),
             \*   "held" (waited for), "dead" (not waited for yet) or "gone"
  why,       \* why[t]: why t stopped: "trap", "signal", "event", "clone" or "exit"
             \*   ("event" while it runs)
  at,        \* at[t]: the hooked address t is about to execute
  traced,    \* threads the tracer is attached to
  interrupt, \* threads with a PTRACE_INTERRUPT to come
  child,     \* child[t]: the thread t has cloned, at its clone stop
  brk,       \* addresses whose text is the breakpoint instruction
  visits, signals,
  (* the tracer *)
  tpc,       \* "attach", "loop" (the top), "wait", "emit", "cleanup", "detach" or "done"
  todo,      \* threads listed and not seized yet
  known,     \* p.threads, with
  running,   \*   the threads marked running, and
  stepping,  \*   stepping[t]: the breakpoint t is stepping over
  pending,   \* p.pending: clones whose first stop has not been seen
  bps,       \* p.bps: breakpoints installed
  late,      \* p.pendingSpecs
  current,   \* the thread whose hit is being emitted
  (* the reader, and the callers of Hook and Close *)
  hooked,    \* hooks passed to Hook
  cmds,      \* p.cmdCh: hooks to install
  stop,      \* p.stop is closed
  rpc,       \* the reader of Events: "next" (on its way to the select), "wait" (at
             \*   it), "body", "ack" (sends on doneCh), "gone" (the sequence has
             \*   ended) or "left" (it broke off, or its context is cancelled)
  dropped,   \* p.dropped
  hits,      \* hits the tracer has handled
  seen       \* hits and drops the reader has been given

procVars   == <<state, why, at, traced, interrupt, child, brk, visits, signals>>
bookVars   == <<todo, known, running, stepping, pending, bps, late>>
callVars   == <<hooked, cmds, stop>>
countVars  == <<dropped, hits, seen>>
vars == <<procVars, tpc, bookVars, current, callVars, rpc, countVars>>

NoThread == "none"
Stopped(t) == state[t] \in {"stop", "held"}
Alive(t)   == state[t] \in {"run", "step", "stop", "held"}

Init ==
  /\ \E live \in SUBSET Threads \ {{}} :
       state = [t \in Threads |-> IF t \in live THEN "run" ELSE "absent"]
  /\ why = [t \in Threads |-> "event"] /\ at = [t \in Threads |-> NoHook]
  /\ traced = {} /\ interrupt = {} /\ child = [t \in Threads |-> NoThread] /\ brk = {}
  /\ visits = 0 /\ signals = 0
  /\ tpc = "attach" /\ todo = {t \in Threads : state[t] = "run"}
  /\ known = {} /\ running = {} /\ stepping = [t \in Threads |-> NoHook]
  /\ pending = {} /\ bps = {} /\ late = {} /\ current = NoThread
  /\ hooked = {} /\ cmds = {} /\ stop = FALSE
  /\ rpc = "next" /\ dropped = 0 /\ hits = 0 /\ seen = 0

-----------------------------------------------------------------------------
(* The process and the kernel. *)

ProcUnchanged == UNCHANGED <<tpc, bookVars, current, callVars, rpc, countVars>>

StopFor(t, reason) ==                \* any stop is the answer to an interrupt
  /\ state' = [state EXCEPT ![t] = "stop"]
  /\ why' = [why EXCEPT ![t] = reason]
  /\ interrupt' = interrupt \ {t}

Reach(t, v) ==
  /\ state[t] = "run" /\ at[t] = NoHook /\ visits < MaxVisits
  /\ at' = [at EXCEPT ![t] = v] /\ visits' = visits + 1
  /\ UNCHANGED <<state, why, traced, interrupt, child, brk, signals>> /\ ProcUnchanged

Killed ==                            \* SIGTRAP's default action, for the process
  [t \in Threads |-> IF ~Alive(t) THEN state[t] ELSE IF t \in traced THEN "dead" ELSE "gone"]

(* The breakpoint stops a traced thread and kills the process of an untraced *)
(* one; the original instruction is executed, and traps if t is stepping.    *)
Execute(t) ==
  /\ state[t] \in {"run", "step"} /\ at[t] # NoHook
  /\ at' = [at EXCEPT ![t] = IF @ \in brk THEN @ ELSE NoHook]
  /\ \/ /\ IF at[t] \in brk THEN t \in traced ELSE state[t] = "step"
        /\ StopFor(t, "trap")
     \/ /\ at[t] \in brk /\ t \notin traced
        /\ state' = Killed /\ UNCHANGED <<why, interrupt>>
     \/ /\ at[t] \notin brk /\ state[t] = "run"
        /\ UNCHANGED <<state, why, interrupt>>
  /\ UNCHANGED <<traced, child, brk, visits, signals>> /\ ProcUnchanged

Signal(t) ==
  /\ state[t] \in {"run", "step"} /\ t \in traced /\ signals < MaxSignals
  /\ StopFor(t, "signal") /\ signals' = signals + 1
  /\ UNCHANGED <<at, traced, child, brk, visits>> /\ ProcUnchanged

Interrupted(t) ==
  /\ t \in interrupt /\ state[t] \in {"run", "step"}
  /\ StopFor(t, "event")
  /\ UNCHANGED <<at, traced, child, brk, visits, signals>> /\ ProcUnchanged

(* The clone of a traced thread is traced and starts stopped; that of an     *)
(* untraced one just runs.                                                   *)
Clone(t, u) ==
  /\ state[t] = "run" /\ at[t] = NoHook /\ state[u] = "absent"
  /\ IF t \in traced
     THEN /\ state' = [state EXCEPT ![t] = "stop", ![u] = "stop"]
          /\ why' = [why EXCEPT ![t] = "clone"] /\ interrupt' = interrupt \ {t}
          /\ child' = [child EXCEPT ![t] = u] /\ traced' = traced \cup {u}
     ELSE state' = [state EXCEPT ![u] = "run"] /\ UNCHANGED <<why, interrupt, child, traced>>
  /\ UNCHANGED <<at, brk, visits, signals>> /\ ProcUnchanged

(* A traced thread stops once more on its way out. *)
Exit(t) ==
  /\ state[t] = "run" /\ at[t] = NoHook
  /\ \/ t \in traced /\ StopFor(t, "exit")
     \/ t \notin traced /\ state' = [state EXCEPT ![t] = "gone"] /\ UNCHANGED <<why, interrupt>>
  /\ UNCHANGED <<at, traced, child, brk, visits, signals>> /\ ProcUnchanged

-----------------------------------------------------------------------------
(* Attach: the threads are listed once, then seized one after the other.     *)

AttachUnchanged == UNCHANGED <<state, why, at, interrupt, child, brk, visits, signals,
                               stepping, pending, bps, late, current, callVars, rpc,
                               countVars>>
Seize(t) ==                          \* it fails for a thread that is gone
  /\ tpc = "attach" /\ t \in todo
  /\ todo' = todo \ {t}
  /\ IF Alive(t)
     THEN traced' = traced \cup {t} /\ known' = known \cup {t} /\ running' = running \cup {t}
     ELSE UNCHANGED <<traced, known, running>>
  /\ UNCHANGED tpc /\ AttachUnchanged

Attached ==
  /\ tpc = "attach" /\ todo = {}
  /\ tpc' = IF known = {} THEN "done" ELSE "loop"
  /\ UNCHANGED <<traced, todo, known, running>> /\ AttachUnchanged

-----------------------------------------------------------------------------
(* Installing hooks.  peek and poke need a stopped thread; what fails is     *)
(* given up.                                                                 *)

Install(t, specs) ==
  IF Stopped(t)
  THEN bps' = bps \cup specs /\ brk' = brk \cup (specs \ bps)
  ELSE UNCHANGED <<bps, brk>>

Resume(t) ==                         \* PTRACE_CONT
  /\ state' = [state EXCEPT ![t] = IF ~Stopped(t) THEN @
                                   ELSE IF why[t] = "exit" THEN "dead" ELSE "run"]
  /\ why' = [why EXCEPT ![t] = IF Stopped(t) THEN "event" ELSE @]
  /\ child' = [child EXCEPT ![t] = NoThread]

Cont(t) == Resume(t) /\ running' = running \cup {t}

RunCommand ==
  /\ tpc = "loop" /\ cmds # {}
  /\ \E v \in cmds :
       /\ cmds' = cmds \ {v}
       /\ IF known \subseteq running
          THEN /\ late' = late \cup {v}
               /\ \/ known = {} /\ UNCHANGED interrupt
                  \/ \E t \in known : interrupt' = interrupt \cup ({t} \cap {u \in Threads : Alive(u)})
               /\ UNCHANGED <<bps, brk>>
          ELSE /\ \E t \in known \ running : Install(t, {v})
               /\ UNCHANGED <<late, interrupt>>
  /\ UNCHANGED <<state, why, at, traced, child, visits, signals, tpc, todo, known,
                 running, stepping, pending, current, hooked, stop, rpc, countVars>>

-----------------------------------------------------------------------------
(* The loop: the commands are run, stop is looked at, and then wait4 returns *)
(* one stop of any thread; stop may be closed between the two.               *)

LoopUnchanged == UNCHANGED <<at, traced, interrupt, visits, signals, todo, callVars>>
TopUnchanged == UNCHANGED <<state, why, at, traced, child, brk, visits, signals, bookVars,
                            current, callVars, rpc, countVars>>
ToCleanup ==                         \* the running threads are interrupted first
  /\ tpc' = "cleanup"
  /\ interrupt' = interrupt \cup {t \in running : Alive(t)}

Top ==
  /\ tpc = "loop" /\ cmds = {}
  /\ \/ stop /\ ToCleanup
     \/ ~stop /\ tpc' = "wait" /\ UNCHANGED interrupt
  /\ TopUnchanged

(* A command that arrives in this select is run at the top of the loop. *)
NothingWaits ==
  /\ tpc = "wait" /\ \A t \in traced : state[t] \notin {"stop", "dead"}
  /\ \/ stop /\ ToCleanup
     \/ tpc' = "loop" /\ UNCHANGED interrupt
  /\ TopUnchanged

(* stepping[t] keeps what the record held that is deleted. *)
ReapDead(t) ==
  /\ tpc \in {"wait", "cleanup"} /\ state[t] = "dead"
  /\ tpc = "cleanup" => running # {}
  /\ tpc' = IF tpc = "wait" THEN "loop" ELSE "cleanup"
  /\ state' = [state EXCEPT ![t] = "gone"] /\ traced' = traced \ {t}
  /\ known' = known \ {t} /\ running' = running \ {t}
  /\ UNCHANGED <<why, at, interrupt, child, brk, visits, signals, todo, stepping, pending,
                 bps, late, current, callVars, rpc, countVars>>

Waited(t) == tpc = "wait" /\ state[t] = "stop" /\ t \in traced
BackToTop == tpc' = "loop" /\ UNCHANGED <<current, rpc, countVars>> /\ LoopUnchanged

(* The first stop of a clone that its parent has announced. *)
StopPendingForgets(t) ==             \* mutant: the clone is not entered in p.threads
  /\ Waited(t) /\ t \in pending
  /\ pending' = pending \ {t}
  /\ Install(t, late) /\ late' = {}
  /\ Cont(t)
  /\ UNCHANGED <<known, stepping>> /\ BackToTop

StopPending(t) ==
  /\ Waited(t) /\ t \in pending
  /\ pending' = pending \ {t} /\ known' = known \cup {t}
  /\ Install(t, late) /\ late' = {}
  /\ Cont(t)
  /\ UNCHANGED stepping /\ BackToTop

(* A clone that stops before its parent does is let go, with the signal.     *)
StopUnknown(t) ==
  /\ Waited(t) /\ t \notin pending /\ t \notin known
  /\ IF why[t] = "trap" THEN state' = Killed /\ UNCHANGED <<why, child>> ELSE Resume(t)
  /\ UNCHANGED <<brk, known, running, stepping, pending, bps, late>> /\ BackToTop

Known(t) == Waited(t) /\ t \notin pending /\ t \in known

StopOther(t) ==                      \* a clone, an exit, an interrupt or a signal
  /\ Known(t) /\ why[t] # "trap"
  /\ Install(t, late) /\ late' = {}
  /\ pending' = pending \cup ({child[t]} \cap Threads)
  /\ Cont(t)
  /\ UNCHANGED <<known, stepping>> /\ BackToTop

(* handleBreakpoint after a single step *)
StepForgets(t) ==                    \* mutant: the breakpoint is not put back
  /\ Known(t) /\ why[t] = "trap" /\ stepping[t] # NoHook
  /\ stepping' = [stepping EXCEPT ![t] = NoHook]
  /\ Install(t, late) /\ late' = {}
  /\ Cont(t)
  /\ UNCHANGED <<known, pending>> /\ BackToTop

Stepped(t) ==
  /\ Known(t) /\ why[t] = "trap" /\ stepping[t] # NoHook
  /\ stepping' = [stepping EXCEPT ![t] = NoHook]
  /\ bps' = bps \cup late
  /\ brk' = brk \cup (late \ bps) \cup {stepping[t]} /\ late' = {}
  /\ Cont(t)
  /\ UNCHANGED <<known, pending>> /\ BackToTop

(* handleBreakpoint for a hit: emit hands it to a waiting reader, or counts *)
(* it as dropped and steps at once.                                         *)
SingleStep(t) ==
  /\ stepping' = [stepping EXCEPT ![t] = at[t]]
  /\ state' = [state EXCEPT ![t] = IF Stopped(t) THEN "step" ELSE @]
  /\ why' = [why EXCEPT ![t] = "event"]

Hit(t) ==
  /\ Known(t) /\ why[t] = "trap" /\ stepping[t] = NoHook
  /\ running' = running \ {t} /\ hits' = hits + 1
  /\ bps' = bps \cup late /\ late' = {}
  /\ \/ /\ rpc = "wait"
        /\ rpc' = "body" /\ seen' = seen + 1 + dropped /\ dropped' = 0
        /\ tpc' = "emit" /\ current' = t
        /\ state' = [state EXCEPT ![t] = "held"]
        /\ brk' = brk \cup (late \ bps) /\ UNCHANGED <<why, stepping>>
     \/ /\ rpc # "wait"
        /\ dropped' = dropped + 1 /\ tpc' = "loop"
        /\ SingleStep(t) /\ brk' = (brk \cup (late \ bps)) \ {at[t]}
        /\ UNCHANGED <<rpc, seen, current>>
  /\ UNCHANGED <<child, known, pending>> /\ LoopUnchanged

AfterEmit ==
  /\ tpc' = "loop" /\ current' = NoThread
  /\ SingleStep(current) /\ brk' = brk \ {at[current]}
  /\ UNCHANGED <<child, known, running, pending, bps, late, countVars>>
  /\ LoopUnchanged

EmittedAtOnce ==                     \* mutant: emit does not wait for the body
  tpc = "emit" /\ rpc' = (IF rpc = "ack" THEN "next" ELSE rpc) /\ AfterEmit

EmittedIgnoresStop ==                \* mutant: emit waits for the body only
  tpc = "emit" /\ rpc = "ack" /\ rpc' \in {"next", "left"} /\ AfterEmit

Emitted ==                           \* the body is done, or the process is closed
  /\ tpc = "emit"
  /\ \/ rpc = "ack" /\ rpc' \in {"next", "left"}
     \/ stop /\ UNCHANGED rpc
  /\ AfterEmit

-----------------------------------------------------------------------------
(* The clean-up: the threads that have been interrupted are waited for, up   *)
(* to a deadline; then one that is marked as not running is used to restore  *)
(* the text, and all are detached.                                           *)

CleanupUnchanged == UNCHANGED <<why, at, child, visits, signals, todo, stepping, pending,
                                bps, late, current, callVars, rpc, countVars>>

CleanupStop(t) ==                    \* the stop of an unknown thread is taken, too
  /\ tpc = "cleanup" /\ running # {} /\ state[t] = "stop" /\ t \in traced
  /\ state' = [state EXCEPT ![t] = "held"] /\ running' = running \ {t}
  /\ UNCHANGED <<traced, interrupt, brk, tpc, known>> /\ CleanupUnchanged

(* With threads still running it is the deadline, or ECHILD. *)
Restore ==
  /\ tpc = "cleanup" /\ tpc' = "detach"
  /\ IF known \subseteq running THEN UNCHANGED brk
     ELSE \E t \in known \ running : brk' = IF Stopped(t) THEN brk \ bps ELSE brk
  /\ UNCHANGED <<state, traced, interrupt, known, running>> /\ CleanupUnchanged

(* PTRACE_DETACH fails for a thread that is not stopped. *)
Detach ==
  /\ tpc = "detach" /\ tpc' = "done"
  /\ LET out == {t \in known : Stopped(t)} IN
       /\ state' = [t \in Threads |-> IF t \notin out THEN state[t]
                                      ELSE IF why[t] = "exit" THEN "gone" ELSE "run"]
       /\ traced' = traced \ out /\ interrupt' = interrupt \ out
  /\ UNCHANGED <<brk, known, running>> /\ CleanupUnchanged

-----------------------------------------------------------------------------
(* The callers of Hook and Close, and the reader of Events.                  *)

CallerUnchanged == UNCHANGED <<procVars, tpc, bookVars, current, hits>>
Attaching == tpc = "attach" \/ (todo = {} /\ known = {} /\ tpc = "done")

Hook(v) ==
  /\ ~Attaching /\ v \notin hooked
  /\ hooked' = hooked \cup {v}
  /\ \/ cmds' = cmds \cup {v}
     \/ stop /\ UNCHANGED cmds
  /\ UNCHANGED <<stop, rpc, dropped, seen>> /\ CallerUnchanged

Close ==                             \* it returns when tpc is "done"
  /\ ~Attaching /\ ~stop /\ stop' = TRUE
  /\ UNCHANGED <<hooked, cmds, rpc, dropped, seen>> /\ CallerUnchanged

LeaveBody ==                         \* mutant: break without the send on doneCh
  /\ rpc = "body" /\ rpc' \in {"ack", "left"}
  /\ UNCHANGED <<callVars, dropped, seen>> /\ CallerUnchanged

BodyEnds ==
  /\ rpc = "body" /\ rpc' = "ack"
  /\ UNCHANGED <<callVars, dropped, seen>> /\ CallerUnchanged

ReaderWaits ==
  /\ rpc = "next" /\ rpc' = "wait"
  /\ UNCHANGED <<callVars, dropped, seen>> /\ CallerUnchanged

ReaderCancelled ==
  /\ rpc = "wait" /\ rpc' = "left"
  /\ UNCHANGED <<callVars, dropped, seen>> /\ CallerUnchanged

ReaderEndsSilently ==                \* mutant: the last drops are not yielded
  /\ tpc = "done" /\ rpc \in {"wait", "ack"} /\ rpc' = "gone"
  /\ UNCHANGED <<callVars, dropped, seen>> /\ CallerUnchanged

ReaderEnds ==
  /\ tpc = "done" /\ rpc \in {"wait", "ack"} /\ rpc' = "gone"
  /\ IF rpc = "wait" THEN seen' = seen + dropped /\ dropped' = 0 ELSE UNCHANGED <<seen, dropped>>
  /\ UNCHANGED callVars /\ CallerUnchanged

-----------------------------------------------------------------------------
Process ==
  \/ \E t \in Threads : Execute(t) \/ Signal(t) \/ Interrupted(t) \/ Exit(t)
  \/ \E t \in Threads, v \in Hooks : Reach(t, v)
  \/ \E t, u \in Threads : Clone(t, u)

Loop ==
  \/ Top \/ NothingWaits \/ RunCommand \/ Emitted
  \/ \E t \in Threads : \/ ReapDead(t) \/ StopPending(t) \/ StopUnknown(t) \/ StopOther(t)
                        \/ Stepped(t) \/ Hit(t)

Tracer ==
  \/ Attached \/ Loop \/ Restore \/ Detach
  \/ \E t \in Threads : Seize(t) \/ CleanupStop(t)

Callers ==
  \/ Close \/ BodyEnds \/ ReaderWaits \/ ReaderCancelled \/ ReaderEnds
  \/ \E v \in Hooks : Hook(v)

Next == Process \/ Tracer \/ Callers

Spec == Init /\ [][Next]_vars

(* The tracer keeps running, which takes the clean-up to its deadline, too.  *)
(* Neither the reader, nor the body of its loop, nor a thread of the process *)
(* owes a step.                                                              *)
FairSpec == Spec /\ WF_vars(Tracer)

-----------------------------------------------------------------------------
(* Every variable has its type, and only entered threads are marked running. *)
TypeOK ==
  /\ state \in [Threads -> {"absent", "run", "step", "stop", "held", "dead", "gone"}]
  /\ why \in [Threads -> {"trap", "signal", "event", "clone", "exit"}]
  /\ at \in [Threads -> Hooks \cup {NoHook}]
  /\ child \in [Threads -> Threads \cup {NoThread}]
  /\ traced \subseteq Threads /\ interrupt \subseteq Threads
  /\ visits \in 0 .. MaxVisits /\ signals \in 0 .. MaxSignals
  /\ tpc \in {"attach", "loop", "wait", "emit", "cleanup", "detach", "done"}
  /\ todo \subseteq Threads /\ known \subseteq Threads /\ pending \subseteq Threads
  /\ running \subseteq known
  /\ stepping \in [Threads -> Hooks \cup {NoHook}]
  /\ brk \subseteq Hooks /\ bps \subseteq Hooks /\ late \subseteq Hooks
  /\ hooked \subseteq Hooks /\ cmds \subseteq Hooks
  /\ current \in Threads \cup {NoThread}
  /\ stop \in BOOLEAN /\ rpc \in {"next", "wait", "body", "ack", "gone", "left"}
  /\ dropped \in Nat /\ hits \in Nat /\ seen \in Nat

(* Until the process is closed, the thread of a hit is stopped, at the hooked *)
(* address, for as long as the body of the loop over Events runs (the comment *)
(* on Events), although the other threads go on, trap, exit and are cloned; it *)
(* does not run again even if the process is killed.                          *)
BodyThreadStopped ==
  rpc = "body" /\ ~stop =>
    /\ tpc = "emit" /\ current \in Threads
    /\ state[current] \in {"held", "dead"} /\ at[current] # NoHook

(* While the loop runs, the text of an installed breakpoint is the original   *)
(* instruction only if some thread has been booked as stepping over it and    *)
(* that has not been resolved: breakpoints are shared by all threads, and one *)
(* that is not put back makes every thread miss the hook from then on.        *)
MissingOnlyWhileStepping ==
  tpc \in {"loop", "wait", "emit"} => bps \ brk \subseteq {stepping[t] : t \in Threads}

(* Every hit is reported once, as a breakpoint or in a count of drops, to a   *)
(* reader that reads until the sequence ends: none is left in the counter     *)
(* (emit, and the three ways out of Events).                                  *)
HitsReported ==
  /\ hits = seen + dropped
  /\ rpc = "gone" => dropped = 0

(* Close returns, whatever the threads of the process do and even if the body *)
(* of the loop over Events never ends.                                        *)
CloseReturns == stop ~> tpc = "done"

(* A thread that stops is resumed, unless its hit is in the body of the loop  *)
(* or the process is being closed: no order of clone stops, late installs,    *)
(* steps and hits makes the tracer forget one ("this must be done before      *)
(* returning to avoid indefinitely-stopped threads", Events).                 *)
ThreadsResume ==
  \A t \in Threads : Stopped(t) /\ t \in traced ~> ~Stopped(t) \/ stop \/ rpc = "body"

(* What the comment on Close says: "detaches from the process, restoring      *)
(* breakpoints and resuming all threads".  Here: the text is restored if the  *)
(* tracer has a live thread left, and none has outlasted the deadline.        *)
RestoredOnClose ==
  tpc = "done" /\ running = {} /\ (\E t \in known : Alive(t)) => brk = {}
=============================================================================
