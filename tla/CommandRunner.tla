--------------------------- MODULE CommandRunner ---------------------------
(***************************************************************************)
(* The child processes of the orchestrator: the pool threads that start    *)
(* and wait for them (SubprocessCommandRunner.run), the registry of the    *)
(* ones that run (ProcessRegistry), and the handler of SIGINT and SIGTERM  *)
(* (RuntimeContext.request_stop), which the interpreter runs in the main   *)
(* thread, between two instructions of whatever runs there - an earlier    *)
(* call of the handler included.                                           *)
(*                                                                         *)
(* Timeouts are events that may happen as long as the child lives.         *)
(***************************************************************************)
EXTENDS Integers, Sequences, FiniteSets

CONSTANTS
  Threads,     \* threads of the pool that run a cycle
  Commands,    \* bound: commands of a cycle
  MaxSignals   \* bound: signals the orchestrator is sent

ASSUME RunnerAssumption ==
  /\ IsFiniteSet(Threads)
  /\ Commands \in Nat \ {0}
  /\ MaxSignals \in Nat

VARIABLES
  stopEvent,  \* RuntimeContext.stop_event
  frames,     \* calls of the handler on the main thread's stack, oldest first
  signals,    \* signals received
  registry,   \* threads whose child is in ProcessRegistry._processes
  step,       \* where a thread is in SubprocessCommandRunner.run
  started,    \* commands a thread has begun
  child,      \* what the thread's child does
  \* History, read by properties only:
  unlisted    \* whether a child no snapshot has listed was started before the
              \* first signal ("early") or after it ("late"); "no" for others

handlerVars == <<stopEvent, frames, signals>>
runnerVars == <<handlerVars, registry, step, started, child, unlisted>>

Alive == {"booting", "working", "finalizing"}

\* A call of the handler: the instruction it is at, and the children it has
\* yet to signal.
Frame(at, left) == [at |-> at, left |-> left]
Top == frames[Len(frames)]
Below(at) == \E i \in 1..(Len(frames) - 1) : frames[i].at = at

\* Both locks are plain: a lock that a suspended call of the handler holds is
\* not given to the call that interrupted it.
RegistryLocked == \E i \in DOMAIN frames : frames[i].at = "reading"

RunnerInit ==
  /\ stopEvent = FALSE /\ frames = <<>> /\ signals = 0
  /\ registry = {}
  /\ step = [t \in Threads |-> "idle"] /\ started = [t \in Threads |-> 0]
  /\ child = [t \in Threads |-> "none"] /\ unlisted = [t \in Threads |-> "no"]

-----------------------------------------------------------------------------
(* The children. *)

\* What a signal makes of a child.  Before its main() has installed the handlers
\* it dies; afterwards SIGINT and SIGTERM both raise KeyboardInterrupt, which
\* ends the work, and a second one may cut the finalization short.
After(state, sig) ==
  {next \in {"none", "finalizing", "dead"} :
     /\ state \in {"none", "dead"} => next = state
     /\ state \in Alive => next # "none"
     /\ state = "booting" \/ (state \in Alive /\ sig = "KILL") => next = "dead"
     /\ state = "working" /\ sig # "KILL" => next = "finalizing"}

\* signal_process_group: a child that has ended meanwhile is left alone.
Send(t, sig) ==
  \E next \in After(child[t], sig) : child' = [child EXCEPT ![t] = next]

Boot(t) ==
  /\ child[t] = "booting"
  /\ child' = [child EXCEPT ![t] = "working"]
  /\ UNCHANGED <<handlerVars, registry, step, started, unlisted>>

Die(t) ==
  /\ child[t] \in Alive
  /\ child' = [child EXCEPT ![t] = "dead"]
  /\ UNCHANGED <<handlerVars, registry, step, started, unlisted>>

-----------------------------------------------------------------------------
(* SubprocessCommandRunner.run. *)

\* The thread has looked at the stop event, or is at its collector, which is
\* started without a look.
StartCommand(t) ==
  /\ step[t] = "idle" /\ started[t] < Commands
  /\ started[t] = 0 \/ ~stopEvent
  /\ step' = [step EXCEPT ![t] = "spawning"]
  /\ started' = [started EXCEPT ![t] = @ + 1]
  /\ UNCHANGED <<handlerVars, registry, child, unlisted>>

\* Popen: the child lives, the registry does not know it yet.
Spawn(t) ==
  /\ step[t] = "spawning"
  /\ step' = [step EXCEPT ![t] = "registering"]
  /\ child' = [child EXCEPT ![t] = "booting"]
  /\ unlisted' = [unlisted EXCEPT ![t] = IF signals = 0 THEN "early" ELSE "late"]
  /\ UNCHANGED <<handlerVars, registry, started>>

Register(t) ==
  /\ step[t] = "registering" /\ ~RegistryLocked
  /\ registry' = registry \cup {t}
  /\ step' = [step EXCEPT ![t] = "waiting"]
  /\ UNCHANGED <<handlerVars, started, child, unlisted>>

\* One of the wait() calls returns: the first with the code of the child, the
\* later ones make it 124 however the child has ended.
Ended(t) ==
  /\ step[t] \in {"waiting", "grace", "termGrace", "reaping"} /\ child[t] = "dead"
  /\ step' = [step EXCEPT ![t] = "leaving"]
  /\ UNCHANGED <<handlerVars, registry, started, child, unlisted>>

\* TimeoutExpired is raised; the child may still end before it is signalled.
Timeout(t) ==
  /\ step[t] = "waiting" /\ child[t] \in Alive
  /\ step' = [step EXCEPT ![t] = "interrupt"]
  /\ UNCHANGED <<handlerVars, registry, started, child, unlisted>>

Escalate(t, from, sig, to) ==
  /\ step[t] = from
  /\ Send(t, sig)
  /\ step' = [step EXCEPT ![t] = to]
  /\ UNCHANGED <<handlerVars, registry, started, unlisted>>

Interrupt(t) == Escalate(t, "interrupt", "INT", "grace")

\* Mutation: nobody waits after SIGTERM.
TerminateAndLeave(t) == Escalate(t, "terminate", "TERM", "leaving")

Terminate(t) == Escalate(t, "terminate", "TERM", "termGrace")

Kill(t) == Escalate(t, "kill", "KILL", "reaping")

\* Mutation: SIGTERM is the last signal.
GraceOverOnce(t) ==
  /\ step[t] = "grace" /\ child[t] \in Alive
  /\ step' = [step EXCEPT ![t] = "terminate"]
  /\ UNCHANGED <<handlerVars, registry, started, child, unlisted>>

\* interrupt_grace_seconds or the 10 seconds after SIGTERM are over.
GraceOver(t) ==
  /\ step[t] \in {"grace", "termGrace"} /\ child[t] \in Alive
  /\ step' = [step EXCEPT ![t] = IF @ = "grace" THEN "terminate" ELSE "kill"]
  /\ UNCHANGED <<handlerVars, registry, started, child, unlisted>>

\* The finally block.
Discard(t) ==
  /\ step[t] = "leaving" /\ ~RegistryLocked
  /\ registry' = registry \ {t}
  /\ step' = [step EXCEPT ![t] = "idle"]
  /\ child' = [child EXCEPT ![t] = "none"]
  /\ unlisted' = [unlisted EXCEPT ![t] = "no"]
  /\ UNCHANGED <<handlerVars, started>>

-----------------------------------------------------------------------------
(* RuntimeContext.request_stop, a call of which only the newest moves. *)

Signal ==
  /\ signals < MaxSignals
  /\ signals' = signals + 1
  /\ frames' = Append(frames, Frame("set", {}))
  /\ UNCHANGED <<stopEvent, registry, step, started, child, unlisted>>

Goto(at, left) == frames' = [frames EXCEPT ![Len(frames)] = Frame(at, left)]

\* stop_event.set() takes the lock of the event, sets the flag, and releases it.
LockEvent ==
  /\ frames # <<>> /\ Top.at = "set" /\ ~Below("setting")
  /\ Goto("setting", {})
  /\ UNCHANGED <<stopEvent, signals, registry, step, started, child, unlisted>>

SetEvent ==
  /\ frames # <<>> /\ Top.at = "setting"
  /\ stopEvent' = TRUE
  /\ Goto("lock", {})
  /\ UNCHANGED <<signals, registry, step, started, child, unlisted>>

\* snapshot() takes the lock of the registry, copies it, and releases it.
LockRegistry ==
  /\ frames # <<>> /\ Top.at = "lock" /\ ~Below("reading")
  /\ Goto("reading", {})
  /\ UNCHANGED <<stopEvent, signals, registry, step, started, child, unlisted>>

Snapshot ==
  /\ frames # <<>> /\ Top.at = "reading"
  /\ Goto("forwarding", {<<t, started[t]>> : t \in registry})
  /\ unlisted' = [t \in Threads |-> IF t \in registry THEN "no" ELSE unlisted[t]]
  /\ UNCHANGED <<stopEvent, signals, registry, step, started, child>>

\* Mutation: the error of a child that has ended leaves the handler.
ForwardOrFail(t, n) ==
  /\ frames # <<>> /\ Top.at = "forwarding" /\ <<t, n>> \in Top.left
  /\ IF n = started[t] /\ child[t] \in Alive
       THEN /\ Send(t, "INT") /\ Goto("forwarding", Top.left \ {<<t, n>>})
       ELSE /\ UNCHANGED child /\ Goto("forwarding", {})
  /\ UNCHANGED <<stopEvent, signals, registry, step, started, unlisted>>

\* The listed child, not the one the thread may have started since.
Forward(t, n) ==
  /\ frames # <<>> /\ Top.at = "forwarding" /\ <<t, n>> \in Top.left
  /\ IF n = started[t] THEN Send(t, "INT") ELSE UNCHANGED child
  /\ Goto("forwarding", Top.left \ {<<t, n>>})
  /\ UNCHANGED <<stopEvent, signals, registry, step, started, unlisted>>

HandlerReturns ==
  /\ frames # <<>> /\ Top.at = "forwarding" /\ Top.left = {}
  /\ frames' = SubSeq(frames, 1, Len(frames) - 1)
  /\ UNCHANGED <<stopEvent, signals, registry, step, started, child, unlisted>>

-----------------------------------------------------------------------------
Handler ==
  \/ LockEvent \/ SetEvent \/ LockRegistry \/ Snapshot
  \/ \E t \in Threads, n \in 1..Commands : Forward(t, n)
  \/ HandlerReturns

Thread(t) ==
  \/ StartCommand(t) \/ Spawn(t) \/ Register(t) \/ Ended(t)
  \/ Timeout(t) \/ Interrupt(t) \/ Terminate(t) \/ Kill(t)
  \/ GraceOver(t) \/ Discard(t)

Child(t) == Boot(t) \/ Die(t)

RunnerNext == Signal \/ Handler \/ \E t \in Threads : Thread(t) \/ Child(t)

RunnerSpec == RunnerInit /\ [][RunnerNext]_runnerVars

\* The main thread runs the handler whatever it was doing, and every wait of a
\* thread has a timeout; a child may hang for ever.
RunnerFairSpec ==
  /\ RunnerSpec
  /\ WF_runnerVars(Handler) /\ \A t \in Threads : WF_runnerVars(Thread(t))

-----------------------------------------------------------------------------
(* Properties. *)

\* Every variable has its type.
RunnerTypeOK ==
  /\ stopEvent \in BOOLEAN /\ signals \in 0..MaxSignals
  /\ frames \in Seq([at : {"set", "setting", "lock", "reading", "forwarding"},
                     left : SUBSET (Threads \X (0..Commands))])
  /\ registry \in SUBSET Threads
  /\ step \in [Threads -> {"idle", "spawning", "registering", "waiting", "interrupt",
                         "grace", "terminate", "termGrace", "kill", "reaping",
                         "leaving"}]
  /\ started \in [Threads -> 0..Commands]
  /\ child \in [Threads -> Alive \cup {"none", "dead"}]
  /\ unlisted \in [Threads -> {"no", "early", "late"}]

\* No child outlives the call that started it: whichever rung of the ladder ends
\* it, run() is left only after the child has been waited for, and no entry stays
\* in the registry (its pid could belong to another process when it is signalled).
NoChildIsLeftBehind ==
  \A t \in Threads :
    /\ child[t] \in Alive => step[t] \notin {"idle", "spawning", "leaving"}
    /\ step[t] \in {"idle", "spawning"} => t \notin registry

\* When the handler is through, no child that one of its snapshots has listed goes
\* on working, whatever children have ended or been replaced while it went round.
SnapshotIsInterrupted ==
  stopEvent /\ frames = <<>> =>
    \A t \in Threads : child[t] \in {"booting", "working"} => unlisted[t] # "no"

\* A call of the handler that waits for a lock the call below it holds.
Stuck ==
  /\ frames # <<>>
  /\ \/ Top.at = "set" /\ Below("setting")
     \/ Top.at = "lock" /\ Below("reading")

\* A stop request ends every cycle, even if children hang and ignore SIGINT and
\* SIGTERM - unless a second signal is handled while the first call holds one of
\* the two locks, which are not reentrant.
StopEndsCycles ==
  stopEvent ~> \/ frames = <<>> /\ \A t \in Threads : step[t] = "idle"
              \/ Stuck

\* README.md:394-396: SIGINT and SIGTERM are forwarded to active child processes:
\* when the handler is through, no child that was started before the signal goes
\* on working.
ForwardedToActiveChildren ==
  stopEvent /\ frames = <<>> =>
    \A t \in Threads : child[t] \in {"booting", "working"} => unlisted[t] # "early"
=============================================================================
