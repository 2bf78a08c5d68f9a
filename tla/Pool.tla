-------------------------------- MODULE Pool --------------------------------
(***************************************************************************)
(* The ring of workers: construction, round-robin selection, replacement   *)
(* of dead workers under the pool's lock, shutdown, and the readiness      *)
(* probe that a load balancer acts on.                                     *)
(*                                                                         *)
(* A worker is reduced to what the pool can see of it: its process and     *)
(* whether its reader goroutine has closed done.  What happens inside a    *)
(* render call is module Worker.                                           *)
(***************************************************************************)
EXTENDS Naturals

CONSTANTS Callers,      \* goroutines that call pool.render
          Size,         \* number of slots
          MaxSpawn,     \* bound: workers started over the pool's lifetime
          MaxCrashes,   \* bound: processes that die on their own
          CursorMod,    \* the cursor counts modulo this (2^64 in the code)
          Probed,       \* whether a load balancer acts on the readiness probe
          ShutsDown     \* whether the application ever shuts the pool down

ASSUME PoolAssumption ==
    /\ Size \in Nat \ {0}
    /\ MaxSpawn \in Nat
    /\ MaxCrashes \in Nat
    /\ CursorMod \in Nat \ {0}
    /\ Probed \in BOOLEAN
    /\ ShutsDown \in BOOLEAN

Slots   == 0..(Size - 1)
Workers == 1..MaxSpawn
None    == 0            \* the nil pointer in a slot not filled yet

VARIABLES
    slot,       \* slot[i]: the worker in slot i
    proc,       \* proc[k]: state of worker k's process
    done,       \* the workers whose done channel is closed
    eof,        \* the workers whose stdin has been closed
    spawned,    \* number of workers started so far
    crashes,    \* number of processes that died on their own
    phase,      \* progress of newPool
    cursor,     \* the round-robin counter
    pc,         \* pc[c]: how far caller c is in render and workerAt
    idx,        \* idx[c]: the slot c was given
    held,       \* held[c]: the worker c is looking at or using
    ctxDone,    \* whether the pool's lifetime context is cancelled
    closing,    \* progress of closeRange: "no", "next", "wait" or "end"
    closeIdx,   \* the slot closeRange is at
    closeEnd,   \* the slot it stops before
    waitFor,    \* the worker close is waiting for
    ready       \* whether the load balancer sends requests

procVars  == <<proc, done, eof, spawned, crashes>>
callVars  == <<pc, idx, held>>
closeVars == <<closing, closeIdx, closeEnd, waitFor>>
vars == <<slot, procVars, phase, cursor, callVars, ctxDone, closeVars, ready>>

alive(k) == k \notin done

\* mu is write-locked while its holder is at "locked" or "started".
HoldsLock(c) == pc[c] \in {"locked", "started"}
Unlocked == \A c \in Callers : ~HoldsLock(c)

Init ==
    /\ slot = [i \in Slots |-> None]
    /\ proc = [k \in Workers |-> "none"]
    /\ done = {}
    /\ eof = {}
    /\ spawned = 0
    /\ crashes = 0
    /\ phase = "starting"
    /\ cursor = 0
    /\ pc = [c \in Callers |-> "idle"]
    /\ idx = [c \in Callers |-> 0]
    /\ held = [c \in Callers |-> None]
    /\ ctxDone = FALSE
    /\ closing = "no"
    /\ closeIdx = 0
    /\ closeEnd = 0
    /\ waitFor = None
    /\ ready = TRUE
-----------------------------------------------------------------------------
\* newWorker: cmd.Start refuses a cancelled context; otherwise a process runs
\* and its reader goroutine with it.
newWorker ==
    /\ ~ctxDone
    /\ spawned < MaxSpawn
    /\ spawned' = spawned + 1
    /\ proc' = [proc EXCEPT ![spawned'] = "running"]
    /\ UNCHANGED <<done, eof, crashes>>

(***************************************************************************)
(* newPool                                                                 *)
(***************************************************************************)
StartNext ==
    /\ phase = "starting"
    /\ newWorker
    /\ slot' = [slot EXCEPT ![spawned] = spawned']
    /\ phase' = IF spawned' = Size THEN "ready" ELSE "starting"
    /\ UNCHANGED <<cursor, callVars, ctxDone, closeVars, ready>>

\* Mutant: the failed constructor closes all slots, the empty ones too.
StartFails_ClosesAll ==
    /\ phase = "starting"
    /\ phase' = "failed"
    /\ closing' = "next"
    /\ closeIdx' = 0
    /\ closeEnd' = Size
    /\ UNCHANGED <<slot, procVars, cursor, callVars, ctxDone, waitFor, ready>>

\* Mutant: the last worker started before the failure is forgotten.
StartFails_ForgetsLast ==
    /\ phase = "starting"
    /\ phase' = "failed"
    /\ closing' = "next"
    /\ closeIdx' = 0
    /\ closeEnd' = IF spawned = 0 THEN 0 ELSE spawned - 1
    /\ UNCHANGED <<slot, procVars, cursor, callVars, ctxDone, waitFor, ready>>

\* A worker cannot be started: shut down the ones that were.
StartFails ==
    /\ phase = "starting"
    /\ phase' = "failed"
    /\ closing' = "next"
    /\ closeIdx' = 0
    /\ closeEnd' = spawned
    /\ UNCHANGED <<slot, procVars, cursor, callVars, ctxDone, waitFor, ready>>

(***************************************************************************)
(* render and workerAt                                                     *)
(***************************************************************************)
\* Mutant: the last slot of the ring is never reached.
NextIndex_SkipsLast(n) == n % (Size - 1)

NextIndex(n) == n % Size

\* A request arrives and takes the next slot of the ring.
Pick(c) ==
    /\ phase = "ready"
    /\ ready
    /\ pc[c] = "idle"
    /\ cursor' = (cursor + 1) % CursorMod
    /\ idx' = [idx EXCEPT ![c] = NextIndex(cursor')]
    /\ pc' = [pc EXCEPT ![c] = "picked"]
    /\ UNCHANGED <<slot, procVars, phase, held, ctxDone, closeVars, ready>>

\* Fast path: read the slot under the read lock.
ReadSlot(c) ==
    /\ pc[c] = "picked"
    /\ Unlocked
    /\ held' = [held EXCEPT ![c] = slot[idx[c]]]
    /\ pc' = [pc EXCEPT ![c] = "check"]
    /\ UNCHANGED <<slot, procVars, phase, cursor, idx, ctxDone, closeVars, ready>>

CheckAlive(c) ==
    /\ pc[c] = "check"
    /\ pc' = [pc EXCEPT ![c] = IF alive(held[c]) THEN "using" ELSE "dead"]
    /\ UNCHANGED <<slot, procVars, phase, cursor, idx, held, ctxDone, closeVars, ready>>

\* Mutant: the read lock is released only when workerAt returns.
LockSlot_DeferredRUnlock(c) ==
    /\ pc[c] = "dead"
    /\ Unlocked
    /\ \A d \in Callers : pc[d] \notin {"check", "dead"}
    /\ pc' = [pc EXCEPT ![c] = "locked"]
    /\ UNCHANGED <<slot, procVars, phase, cursor, idx, held, ctxDone, closeVars, ready>>

\* Slow path: take the write lock.
LockSlot(c) ==
    /\ pc[c] = "dead"
    /\ Unlocked
    /\ pc' = [pc EXCEPT ![c] = "locked"]
    /\ UNCHANGED <<slot, procVars, phase, cursor, idx, held, ctxDone, closeVars, ready>>

\* Under the lock, another goroutine turns out to have replaced the worker.
AlreadyReplaced(c) ==
    /\ pc[c] = "locked"
    /\ alive(slot[idx[c]])
    /\ held' = [held EXCEPT ![c] = slot[idx[c]]]
    /\ pc' = [pc EXCEPT ![c] = "using"]
    /\ UNCHANGED <<slot, procVars, phase, cursor, idx, ctxDone, closeVars, ready>>

\* Mutant: no second look at the slot once the lock is held.
Replace_NoRecheck(c) ==
    /\ pc[c] = "locked"
    /\ newWorker
    /\ held' = [held EXCEPT ![c] = spawned']
    /\ pc' = [pc EXCEPT ![c] = "started"]
    /\ UNCHANGED <<slot, phase, cursor, idx, ctxDone, closeVars, ready>>

\* Still dead: start a new worker.
Replace(c) ==
    /\ pc[c] = "locked"
    /\ ~alive(slot[idx[c]])
    /\ newWorker
    /\ held' = [held EXCEPT ![c] = spawned']
    /\ pc' = [pc EXCEPT ![c] = "started"]
    /\ UNCHANGED <<slot, phase, cursor, idx, ctxDone, closeVars, ready>>

\* Mutant: the new worker goes into the neighbouring slot.
Install_WrongSlot(c) ==
    /\ pc[c] = "started"
    /\ slot' = [slot EXCEPT ![(idx[c] + 1) % Size] = held[c]]
    /\ pc' = [pc EXCEPT ![c] = "using"]
    /\ UNCHANGED <<procVars, phase, cursor, idx, held, ctxDone, closeVars, ready>>

\* Put it into the slot, which close may be reading at the same time.
Install(c) ==
    /\ pc[c] = "started"
    /\ slot' = [slot EXCEPT ![idx[c]] = held[c]]
    /\ pc' = [pc EXCEPT ![c] = "using"]
    /\ UNCHANGED <<procVars, phase, cursor, idx, held, ctxDone, closeVars, ready>>

\* newWorker fails; the deferred unlock releases mu.
ReplaceFails(c) ==
    /\ pc[c] = "locked"
    /\ ~alive(slot[idx[c]])
    /\ pc' = [pc EXCEPT ![c] = "idle"]
    /\ UNCHANGED <<slot, procVars, phase, cursor, idx, held, ctxDone, closeVars, ready>>

\* A running process answers in the end, and done, once closed, ends the wait.
Answered(c) == proc[held[c]] = "running" \/ ~alive(held[c])

\* worker.render returns, with an answer or an error.  A failed write, an answer
\* still buffered or the caller's own context may end it at any moment.
RenderReturns(c) ==
    /\ pc[c] = "using"
    /\ pc' = [pc EXCEPT ![c] = "idle"]
    /\ UNCHANGED <<slot, procVars, phase, cursor, idx, held, ctxDone, closeVars, ready>>

Call(c) == \/ ReadSlot(c) \/ CheckAlive(c) \/ LockSlot(c) \/ AlreadyReplaced(c)
           \/ Replace(c) \/ Install(c) \/ ReplaceFails(c) \/ RenderReturns(c)

(***************************************************************************)
(* Processes and their reader goroutines                                   *)
(***************************************************************************)
Exit(k) ==
    /\ proc[k] = "running"
    /\ proc' = [proc EXCEPT ![k] = "exited"]
    /\ UNCHANGED <<slot, done, eof, spawned, phase, cursor, callVars, ctxDone, closeVars, ready>>

Crash(k) ==
    /\ crashes < MaxCrashes
    /\ crashes' = crashes + 1
    /\ Exit(k)

\* Mutant: replacements are started under another context.
Kill_OnlyOriginals(k) ==
    /\ ctxDone
    /\ k <= Size
    /\ Exit(k)
    /\ UNCHANGED crashes

\* Cancelling the lifetime context kills every process started under it.
Kill(k) ==
    /\ ctxDone
    /\ Exit(k)
    /\ UNCHANGED crashes

ExitOnEOF(k) ==
    /\ k \in eof
    /\ Exit(k)
    /\ UNCHANGED crashes

\* The reader goroutine reaches the end of stdout and closes done.
CloseDone(k) ==
    /\ proc[k] \in {"exited", "reaped"}
    /\ alive(k)
    /\ done' = done \cup {k}
    /\ UNCHANGED <<slot, proc, eof, spawned, crashes, phase, cursor, callVars, ctxDone, closeVars, ready>>

CancelContext ==
    /\ ShutsDown
    /\ ~ctxDone
    /\ ctxDone' = TRUE
    /\ UNCHANGED <<slot, procVars, phase, cursor, callVars, closeVars, ready>>

(***************************************************************************)
(* close and closeRange; neither takes the pool's lock                     *)
(***************************************************************************)
Close ==
    /\ ShutsDown
    /\ phase = "ready"
    /\ closing = "no"
    /\ closing' = "next"
    /\ closeIdx' = 0
    /\ closeEnd' = Size
    /\ UNCHANGED <<slot, procVars, phase, cursor, callVars, ctxDone, waitFor, ready>>

\* Close the stdin of the worker now in the slot and start waiting for it.
CloseStdin ==
    /\ closing = "next"
    /\ closeIdx < closeEnd
    /\ eof' = eof \cup {slot[closeIdx]}
    /\ waitFor' = slot[closeIdx]
    /\ closing' = "wait"
    /\ UNCHANGED <<slot, proc, done, spawned, crashes, phase, cursor, callVars, ctxDone,
                   closeIdx, closeEnd, ready>>

\* cmd.Wait returns; go on with the next slot whatever it reported.
Wait ==
    /\ closing = "wait"
    /\ proc[waitFor] = "exited"
    /\ proc' = [proc EXCEPT ![waitFor] = "reaped"]
    /\ closeIdx' = closeIdx + 1
    /\ closing' = "next"
    /\ UNCHANGED <<slot, done, eof, spawned, crashes, phase, cursor, callVars, ctxDone,
                   closeEnd, waitFor, ready>>

CloseReturns ==
    /\ closing = "next"
    /\ closeIdx = closeEnd
    /\ closing' = "end"
    /\ UNCHANGED <<slot, procVars, phase, cursor, callVars, ctxDone,
                   closeIdx, closeEnd, waitFor, ready>>

closeRange == CloseStdin \/ Wait \/ CloseReturns

(***************************************************************************)
(* stats, the readiness handlers, and the load balancer that polls them    *)
(***************************************************************************)
AliveSlots == {i \in Slots : alive(slot[i])}

Probe ==
    /\ Probed
    /\ phase = "ready"
    /\ Unlocked
    /\ ready' = (AliveSlots # {})
    /\ UNCHANGED <<slot, procVars, phase, cursor, callVars, ctxDone, closeVars>>
-----------------------------------------------------------------------------
Next ==
    \/ StartNext \/ StartFails
    \/ \E c \in Callers : Pick(c) \/ Call(c)
    \/ \E k \in Workers : Crash(k) \/ Kill(k) \/ ExitOnEOF(k) \/ CloseDone(k)
    \/ CancelContext \/ Close \/ closeRange \/ Probe

Spec == Init /\ [][Next]_vars

(***************************************************************************)
(* Goroutines that can run do run, waiting for a lock does not last for    *)
(* ever, a killed or ended process exits, and close is not abandoned.      *)
(***************************************************************************)
Fairness ==
    /\ \A c \in Callers :
          /\ SF_vars(ReadSlot(c))
          /\ SF_vars(LockSlot(c))
          /\ WF_vars(CheckAlive(c))
          /\ WF_vars(AlreadyReplaced(c) \/ Replace(c) \/ ReplaceFails(c))
          /\ WF_vars(Install(c))
          /\ WF_vars(RenderReturns(c) /\ Answered(c))
    /\ \A k \in Workers : WF_vars(Kill(k)) /\ WF_vars(ExitOnEOF(k)) /\ WF_vars(CloseDone(k))
    /\ WF_vars(StartNext \/ StartFails)
    /\ WF_vars(closeRange)

FairSpec == Spec /\ Fairness

\* Requests keep coming, and a start fails only now and then.
Traffic ==
    \A c \in Callers : SF_vars(Pick(c)) /\ SF_vars(Replace(c))
-----------------------------------------------------------------------------
TypeOK ==
    /\ slot \in [Slots -> 0..MaxSpawn]
    /\ proc \in [Workers -> {"none", "running", "exited", "reaped"}]
    /\ done \in SUBSET Workers
    /\ eof \in SUBSET Workers
    /\ spawned \in 0..MaxSpawn
    /\ crashes \in 0..MaxCrashes
    /\ phase \in {"starting", "ready", "failed"}
    /\ cursor \in 0..(CursorMod - 1)
    /\ pc \in [Callers -> {"idle", "picked", "check", "dead", "locked", "started", "using"}]
    /\ idx \in [Callers -> Slots]
    /\ held \in [Callers -> 0..MaxSpawn]
    /\ ctxDone \in BOOLEAN
    /\ closing \in {"no", "next", "wait", "end"}
    /\ closeIdx \in 0..Size
    /\ closeEnd \in 0..Size
    /\ waitFor \in 0..MaxSpawn
    /\ ready \in BOOLEAN

\* Every running process is in a slot or about to be put into one: however many
\* goroutines find the same worker dead, none of the processes they start is
\* lost to the pool.
NoOrphanProcess ==
    \A k \in Workers : proc[k] = "running" =>
        \/ \E i \in Slots : slot[i] = k
        \/ \E c \in Callers : pc[c] = "started" /\ held[c] = k

\* A worker leaves its slot only after its done channel was closed, so a
\* replacement never pulls a live worker from under its callers.
OnlyDeadReplaced ==
    [][\A i \in Slots : slot'[i] # slot[i] => slot[i] = None \/ ~alive(slot[i])]_vars

\* A pool whose construction failed half-way leaves no process behind.
FailedStartLeavesNothing ==
    phase = "failed" /\ closing = "end" =>
        \A k \in Workers : proc[k] # "running"

\* Every call that entered the pool returns, also when workers die and cannot be
\* replaced.  What becomes of the calls that meet a shutdown is App's
\* EveryPageAnswered.
CallsReturn ==
    \A c \in Callers : pc[c] # "idle" ~> pc[c] = "idle"

\* While requests arrive and the pool is not shut down, the ring reaches every
\* slot and every dead worker is replaced.
DeadSlotsRefilled ==
    Traffic =>
        \A i \in Slots :
            phase = "ready" /\ ~alive(slot[i])
                ~> alive(slot[i]) \/ ctxDone \/ closing # "no"

\* The pool's view of worker k.  That it is what module Worker implements is the
\* property ImplementsSubprocess there.
Life(k) == INSTANCE Subprocess WITH proc <- proc[k], done <- (k \in done), eof <- (k \in eof)
=============================================================================
