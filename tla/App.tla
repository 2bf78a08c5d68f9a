-------------------------------- MODULE App ---------------------------------
(***************************************************************************)
(* The application around the pool: construction under the merged signal   *)
(* and caller context, pages that render their slots concurrently, and the *)
(* shutdown sequence of Run.  Composes module Pool: a slot goroutine is a  *)
(* caller of the pool, cancelling the merged context is the pool's         *)
(* CancelContext, and renderer.Close is the pool's Close.                  *)
(***************************************************************************)
EXTENDS Naturals

CONSTANTS Callers, Size, MaxSpawn, MaxCrashes, CursorMod,   \* as in Pool
          Pages,        \* HTTP requests for a page
          PageOf,       \* PageOf[c]: the page whose slot goroutine c renders
          SSR,          \* the goroutines whose component is server-rendered
          Hangs         \* whether components may get stuck in Node

ASSUME AppAssumption ==
    /\ PageOf \in [Callers -> Pages]
    /\ SSR \subseteq Callers
    /\ Hangs \in BOOLEAN

VARIABLES slot, proc, done, eof, spawned, crashes, phase, cursor, pc, idx, held,
          ctxDone, closing, closeIdx, closeEnd, waitFor, ready     \* as in Pool

VARIABLES
    hung,       \* the workers whose process is stuck in a component
    sig,        \* whether SIGINT or SIGTERM has arrived
    run,        \* progress of NewApp and Run
    page,       \* page[p]: progress of the handler of page p
    out         \* out[c]: progress of slot goroutine c

poolVars == <<slot, proc, done, eof, spawned, crashes, phase, cursor, pc, idx, held,
              ctxDone, closing, closeIdx, closeEnd, waitFor, ready>>
appVars  == <<hung, sig, run, page, out>>
vars == <<poolVars, appVars>>

Pool == INSTANCE Pool WITH Probed <- FALSE, ShutsDown <- TRUE

SlotsOf(p) == {c \in Callers : PageOf[c] = p}

Init ==
    /\ Pool!Init
    /\ hung = {}
    /\ sig = FALSE
    /\ run = "new"
    /\ page = [p \in Pages |-> "none"]
    /\ out = [c \in Callers |-> "none"]
-----------------------------------------------------------------------------
(***************************************************************************)
(* newAppWithConfig                                                        *)
(***************************************************************************)
StartRenderer ==
    /\ Pool!StartNext \/ Pool!StartFails
    /\ UNCHANGED appVars

\* The renderer is up: Run begins to listen.
Listen ==
    /\ run = "new"
    /\ phase = "ready"
    /\ run' = "serving"
    /\ UNCHANGED <<poolVars, hung, sig, page, out>>

\* The renderer could not be started: cancel and give up.
NewAppFails ==
    /\ run = "new"
    /\ phase = "failed"
    /\ closing = "end"
    /\ run' = "failed"
    /\ Pool!CancelContext \/ (ctxDone /\ UNCHANGED poolVars)
    /\ UNCHANGED <<hung, sig, page, out>>

Signal ==
    /\ ~sig
    /\ sig' = TRUE
    /\ UNCHANGED <<poolVars, hung, run, page, out>>

\* The merged context ends with the caller's own, whose child it is, or when
\* the goroutine that watches for a signal cancels it.
CancelMerged ==
    /\ Pool!CancelContext
    /\ UNCHANGED <<hung, sig, run, page, out>>

ForwardSignal == sig /\ CancelMerged
-----------------------------------------------------------------------------
(***************************************************************************)
(* Pages                                                                   *)
(***************************************************************************)

\* Shutdown closes the listener; until then requests are accepted.
Accept(p) ==
    /\ run \in {"serving", "closing"}
    /\ page[p] = "none"
    /\ page' = [page EXCEPT ![p] = "rendering"]
    /\ out' = [c \in Callers |-> IF PageOf[c] = p THEN "started" ELSE out[c]]
    /\ UNCHANGED <<poolVars, hung, sig, run>>

\* resolveTemplate fails before any slot is started.
NoTemplate(p) ==
    /\ run \in {"serving", "closing"}
    /\ page[p] = "none"
    /\ page' = [page EXCEPT ![p] = "error"]
    /\ UNCHANGED <<poolVars, hung, sig, run, out>>

\* Renderer.Render without a Node round-trip: the mount container of a
\* client-only component, or an error (no name, unknown component, props that
\* do not marshal).
RenderLocally(c) ==
    /\ out[c] = "started"
    /\ c \notin SSR
    /\ \E o \in {"ok", "err"} : out' = [out EXCEPT ![c] = o]
    /\ UNCHANGED <<poolVars, hung, sig, run, page>>

AskPool(c) ==
    /\ out[c] = "started"
    /\ c \in SSR
    /\ Pool!Pick(c)
    /\ out' = [out EXCEPT ![c] = "asked"]
    /\ UNCHANGED <<hung, sig, run, page>>

GetWorker(c) ==
    /\ \/ Pool!ReadSlot(c) \/ Pool!CheckAlive(c) \/ Pool!LockSlot(c)
       \/ Pool!AlreadyReplaced(c) \/ Pool!Replace(c) \/ Pool!Install(c)
    /\ UNCHANGED appVars

\* Mutant: the error return of the slot goroutine skips wg.Done.
NoWorker_SkipsDone(c) ==
    /\ Pool!ReplaceFails(c)
    /\ UNCHANGED appVars

NoWorker(c) ==
    /\ Pool!ReplaceFails(c)
    /\ out' = [out EXCEPT ![c] = "err"]
    /\ UNCHANGED <<hung, sig, run, page>>

\* The worker answers, with markup or with a component's error, or dies, or the
\* client goes away.
SlotRendered(c) ==
    /\ Pool!RenderReturns(c)
    /\ \E o \in {"ok", "err"} : out' = [out EXCEPT ![c] = o]
    /\ UNCHANGED <<hung, sig, run, page>>

\* Mutant: the first slot that fails fails the page.
FinishPage_FirstError(p) ==
    /\ page[p] = "rendering"
    /\ \/ \A c \in SlotsOf(p) : out[c] = "ok"
       \/ \E c \in SlotsOf(p) : out[c] = "err"
    /\ page' = [page EXCEPT ![p] = IF \E c \in SlotsOf(p) : out[c] = "err" THEN "error" ELSE "ok"]
    /\ UNCHANGED <<poolVars, hung, sig, run, out>>

\* wg.Wait has returned: one failed slot fails the page, and so does a
\* template that does not parse or execute.
FinishPage(p) ==
    /\ page[p] = "rendering"
    /\ \A c \in SlotsOf(p) : out[c] \in {"ok", "err"}
    /\ \E o \in {"ok", "error"} :
          /\ o = "ok" => \A c \in SlotsOf(p) : out[c] = "ok"
          /\ page' = [page EXCEPT ![p] = o]
    /\ UNCHANGED <<poolVars, hung, sig, run, out>>
-----------------------------------------------------------------------------
(***************************************************************************)
(* Node processes                                                          *)
(***************************************************************************)
Hang(k) ==
    /\ Hangs
    /\ proc[k] = "running"
    /\ \E c \in Callers : pc[c] = "using" /\ held[c] = k
    /\ hung' = hung \cup {k}
    /\ UNCHANGED <<poolVars, sig, run, page, out>>

\* A stuck process does not get to see the end of its stdin; SIGKILL ends it.
Process(k) ==
    /\ \/ Pool!Crash(k) \/ Pool!Kill(k) \/ Pool!CloseDone(k)
       \/ k \notin hung /\ Pool!ExitOnEOF(k)
    /\ UNCHANGED appVars
-----------------------------------------------------------------------------
(***************************************************************************)
(* Run, from the moment its context is done                                *)
(***************************************************************************)
CloseRenderer ==
    /\ run = "serving"
    /\ ctxDone
    /\ run' = "closing"
    /\ Pool!Close
    /\ UNCHANGED <<hung, sig, page, out>>

\* The steps of closeRange, on behalf of Run or of a failed newPool.
CloseWorkers ==
    /\ Pool!closeRange
    /\ UNCHANGED appVars

\* srv.Shutdown closes the listener ...
Shutdown ==
    /\ run = "closing"
    /\ closing = "end"
    /\ run' = "shutdown"
    /\ UNCHANGED <<poolVars, hung, sig, page, out>>

\* ... and returns when no handler is left, or after shutdownTimeout.
ShutdownReturns ==
    /\ run = "shutdown"
    /\ \A p \in Pages : page[p] # "rendering"
    /\ run' = "stopped"
    /\ UNCHANGED <<poolVars, hung, sig, page, out>>

ShutdownTimesOut ==
    /\ run = "shutdown"
    /\ \E p \in Pages : page[p] = "rendering"
    /\ run' = "stopped"
    /\ UNCHANGED <<poolVars, hung, sig, page, out>>

Run == CloseRenderer \/ Shutdown \/ ShutdownReturns \/ ShutdownTimesOut
-----------------------------------------------------------------------------
Slot(c) == AskPool(c) \/ RenderLocally(c) \/ GetWorker(c) \/ NoWorker(c) \/ SlotRendered(c)

Next ==
    \/ StartRenderer \/ Listen \/ NewAppFails \/ Signal \/ CancelMerged \/ ForwardSignal
    \/ \E p \in Pages : Accept(p) \/ NoTemplate(p) \/ FinishPage(p)
    \/ \E c \in Callers : Slot(c)
    \/ \E k \in 1..MaxSpawn : Hang(k) \/ Process(k)
    \/ Run \/ CloseWorkers

Spec == Init /\ [][Next]_vars

(***************************************************************************)
(* Goroutines and live processes make progress; nothing forces a request,  *)
(* a signal, a crash, a hang, or the end of the caller's context.          *)
(***************************************************************************)
Fairness ==
    /\ WF_vars(StartRenderer)
    /\ WF_vars(Listen) /\ WF_vars(NewAppFails) /\ WF_vars(ForwardSignal)
    /\ \A p \in Pages : WF_vars(FinishPage(p))
    /\ \A c \in Callers :
          /\ WF_vars(RenderLocally(c)) /\ WF_vars(AskPool(c))
          /\ SF_vars(GetWorker(c) \/ NoWorker(c))
          /\ WF_vars(SlotRendered(c) /\ Pool!Answered(c) /\ (held[c] \notin hung \/ held[c] \in done))
    /\ \A k \in 1..MaxSpawn :
          /\ WF_vars(Pool!Kill(k) /\ UNCHANGED appVars)
          /\ WF_vars(k \notin hung /\ Pool!ExitOnEOF(k) /\ UNCHANGED appVars)
          /\ WF_vars(Pool!CloseDone(k) /\ UNCHANGED appVars)
    /\ WF_vars(Run) /\ WF_vars(CloseWorkers)

FairSpec == Spec /\ Fairness
-----------------------------------------------------------------------------
\* The wait group counts what runs: a slot goroutine is in the pool exactly while
\* its page waits for its outcome, however the call for a worker ends, and a page
\* is not answered over the head of one.
SlotsAreWaitedFor ==
    \A c \in Callers :
        /\ pc[c] # "idle" <=> out[c] = "asked"
        /\ pc[c] # "idle" => page[PageOf[c]] = "rendering"

\* A renderer that could not be built leaves no process behind.  When renderer.Close
\* has returned, which walks the ring without the pool's lock, no worker of the
\* first generation runs, and of the replacements at most one: the one that was
\* being started when the context ended.  (Proved: an instance on which two
\* replacements could be missed is beyond the run that checks this module.)
AtMostOneLeft ==
    LET Running == {k \in Pool!Workers : proc[k] = "running"}
    IN  /\ run = "failed" => Running = {}
        /\ run \in {"shutdown", "stopped"} => \A j, k \in Running : j = k /\ k > Size

\* Once a signal has arrived or the caller's context has ended, the program
\* comes to its end, stuck components and crashing workers notwithstanding:
\* the kill that comes with the context is what lets close return.
ShutdownCompletes ==
    sig \/ ctxDone ~> run \in {"stopped", "failed"}

\* The end of the context ends every Node process for good, also one that was
\* being started as a replacement at that moment.
CancelEndsProcesses ==
    ctxDone ~> [](\A k \in 1..MaxSpawn : proc[k] # "running")

\* Every accepted page gets its response, whether its workers die, cannot be
\* replaced or are shut down while it renders; only a stuck component can hold
\* it up, and no longer than until shutdown.
EveryPageAnswered ==
    \A p \in Pages :
        page[p] = "rendering" /\ (hung = {} \/ ctxDone)
            ~> page[p] \in {"ok", "error"} \/ (hung # {} /\ ~ctxDone)
=============================================================================
