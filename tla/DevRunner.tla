----------------------------- MODULE DevRunner ------------------------------
(***************************************************************************)
(* The development runner: two watchers poll the Go sources and the client *)
(* assets and signal a loop that kills the server, compiles and starts it  *)
(* again, beside a Node process that rebuilds the assets.  Servers crash,  *)
(* builds fail, and cancellation may arrive at any moment.                 *)
(*                                                                         *)
(* A source tree is the number of edits made to it; a snapshot of its      *)
(* modification times or hashes is the edits it has seen.  Server          *)
(* processes are counted, not named.                                       *)
(***************************************************************************)
EXTENDS Naturals

CONSTANTS MaxEdits      \* bound: edits to both trees together

ASSUME DevAssumption == MaxEdits \in Nat

Trees == {"go", "client"}   \* Go sources and embedded client assets
RestartCap == 2             \* capacity of the restart channel

VARIABLES
    edits,      \* edits[t]: edits made to tree t
    watcher,    \* watcher[t]: "new", "on" or "off"
    seen,       \* seen[t]: the edits in the watcher's latest snapshot
    pending,    \* pending[t]: a change was noticed and not signalled yet
    restart,    \* signals in the restart channel
    main,       \* where runGoWithRestart and run are
    cmd,        \* "nil", or "failed" or "started" as cmd.Start went
    running,    \* server processes running
    ended,      \* ended processes whose Wait goroutine has not reported yet
    exits,      \* reports in the processExited channel
    read,       \* read[t]: the edits of t the latest build has read
    bin,        \* whether the compiled binary exists
    node,       \* where runNodeWatcher is
    ctxDone     \* whether the context is cancelled

treeVars   == <<edits, watcher, seen, pending>>
serverVars == <<cmd, running, ended, exits>>
vars == <<treeVars, restart, main, serverVars, read, bin, node, ctxDone>>

Init ==
    /\ edits = [t \in Trees |-> 0]
    /\ watcher = [t \in Trees |-> "new"]
    /\ seen = [t \in Trees |-> 0]
    /\ pending = [t \in Trees |-> FALSE]
    /\ restart = 0
    /\ main = "initial"
    /\ cmd = "nil"
    /\ running = 0
    /\ ended = 0
    /\ exits = 0
    /\ read = [t \in Trees |-> 0]
    /\ bin = FALSE
    /\ node = "starting"
    /\ ctxDone = FALSE

\* A send that does not block: dropped when the channel is full.
Signalled == IF restart < RestartCap THEN restart + 1 ELSE restart
-----------------------------------------------------------------------------
(***************************************************************************)
(* The world outside                                                       *)
(***************************************************************************)

\* Client assets change when the Node watcher rebuilds them.
Edit(t) ==
    /\ edits["go"] + edits["client"] < MaxEdits
    /\ t = "client" => node = "running"
    /\ edits' = [edits EXCEPT ![t] = @ + 1]
    /\ UNCHANGED <<watcher, seen, pending, restart, main, serverVars, read, bin, node, ctxDone>>

Cancel ==
    /\ ~ctxDone
    /\ ctxDone' = TRUE
    /\ UNCHANGED <<treeVars, restart, main, serverVars, read, bin, node>>

\* The server ends on its own.
Crash ==
    /\ running > 0
    /\ running' = running - 1
    /\ ended' = ended + 1
    /\ UNCHANGED <<treeVars, restart, main, cmd, exits, read, bin, node, ctxDone>>

\* The goroutine that waits for the process reports into a channel of one.
ReportExit ==
    /\ ended > 0
    /\ exits = 0
    /\ ended' = ended - 1
    /\ exits' = 1
    /\ UNCHANGED <<treeVars, restart, main, cmd, running, read, bin, node, ctxDone>>
-----------------------------------------------------------------------------
(***************************************************************************)
(* The watchers                                                            *)
(***************************************************************************)
Collect(t) ==
    /\ watcher[t] = "new"
    /\ watcher' = [watcher EXCEPT ![t] = "on"]
    /\ seen' = [seen EXCEPT ![t] = edits[t]]
    /\ UNCHANGED <<edits, pending, restart, main, serverVars, read, bin, node, ctxDone>>

\* A tick that finds a change; the debounce interval begins again.
NoticeChange(t) ==
    /\ watcher[t] = "on"
    /\ seen[t] # edits[t]
    /\ seen' = [seen EXCEPT ![t] = edits[t]]
    /\ pending' = [pending EXCEPT ![t] = TRUE]
    /\ UNCHANGED <<edits, watcher, restart, main, serverVars, read, bin, node, ctxDone>>

\* A tick that finds no change, after the debounce interval.
SignalRestart(t) ==
    /\ watcher[t] = "on"
    /\ seen[t] = edits[t]
    /\ pending[t]
    /\ pending' = [pending EXCEPT ![t] = FALSE]
    /\ restart' = Signalled
    /\ UNCHANGED <<edits, watcher, seen, main, serverVars, read, bin, node, ctxDone>>

StopWatching(t) ==
    /\ watcher[t] = "on"
    /\ ctxDone
    /\ watcher' = [watcher EXCEPT ![t] = "off"]
    /\ UNCHANGED <<edits, seen, pending, restart, main, serverVars, read, bin, node, ctxDone>>
-----------------------------------------------------------------------------
(***************************************************************************)
(* runGoWithRestart                                                        *)
(***************************************************************************)
InitialRestart ==
    /\ main = "initial"
    /\ main' = "select"
    /\ restart' = Signalled
    /\ UNCHANGED <<treeVars, serverVars, read, bin, node, ctxDone>>

\* killProcess, first half: kill what cmd names and go on to wait for it; a
\* command that never started has no process.
KillThen(wait, next) ==
    IF cmd = "started"
      THEN /\ main' = wait
           /\ running' = 0
           /\ ended' = ended + running
           /\ UNCHANGED <<cmd, exits>>
      ELSE /\ main' = next
           /\ UNCHANGED serverVars

\* killProcess, second half: receive the exit report.
Killed(wait, next) ==
    /\ main = wait
    /\ exits = 1
    /\ exits' = 0
    /\ cmd' = "nil"
    /\ main' = next
    /\ UNCHANGED <<treeVars, restart, running, ended, read, bin, node, ctxDone>>

\* Mutant: the loop ends without killing the server.
SelectDone_NoKill ==
    /\ main = "select"
    /\ ctxDone
    /\ main' = "exit"
    /\ UNCHANGED <<treeVars, restart, serverVars, read, bin, node, ctxDone>>

SelectDone ==
    /\ main = "select"
    /\ ctxDone
    /\ KillThen("exit-wait", "exit")
    /\ UNCHANGED <<treeVars, restart, read, bin, node, ctxDone>>

RemoveBinary ==
    /\ main = "exit"
    /\ bin' = FALSE
    /\ main' = "joining"
    /\ UNCHANGED <<treeVars, restart, serverVars, read, node, ctxDone>>

\* Mutant: cmd still names the process whose exit has been received.
SelectExited_KeepsCmd ==
    /\ main = "select"
    /\ exits = 1
    /\ exits' = 0
    /\ main' = IF ctxDone THEN "select" ELSE "backoff"
    /\ UNCHANGED <<treeVars, restart, cmd, running, ended, read, bin, node, ctxDone>>

SelectExited ==
    /\ main = "select"
    /\ exits = 1
    /\ exits' = 0
    /\ cmd' = "nil"
    /\ main' = IF ctxDone THEN "select" ELSE "backoff"
    /\ UNCHANGED <<treeVars, restart, running, ended, read, bin, node, ctxDone>>

\* One second after the server ended, ask for a restart.
Backoff ==
    /\ main = "backoff"
    /\ main' = "select"
    /\ restart' = Signalled
    /\ UNCHANGED <<treeVars, serverVars, read, bin, node, ctxDone>>

\* Mutant: the old server is left running.
SelectRestart_NoKill ==
    /\ main = "select"
    /\ restart > 0
    /\ restart' = restart - 1
    /\ main' = "build"
    /\ UNCHANGED <<treeVars, serverVars, read, bin, node, ctxDone>>

SelectRestart ==
    /\ main = "select"
    /\ restart > 0
    /\ restart' = restart - 1
    /\ KillThen("build-wait", "build")
    /\ UNCHANGED <<treeVars, read, bin, node, ctxDone>>

\* go build reads the sources and the embedded assets ...
BuildReads ==
    /\ main = "build"
    /\ main' = "compile"
    /\ read' = edits
    /\ UNCHANGED <<treeVars, restart, serverVars, bin, node, ctxDone>>

\* ... and succeeds, or fails to compile or is killed with the context.
BuildEnds ==
    /\ main = "compile"
    /\ \/ ~ctxDone /\ main' = "start" /\ bin' = TRUE
       \/ main' = "select" /\ UNCHANGED bin
    /\ UNCHANGED <<treeVars, restart, serverVars, read, node, ctxDone>>

\* Mutant: restarts asked for during the build are taken as served by it.
StartServer_Drains ==
    /\ main = "start"
    /\ main' = "select"
    /\ restart' = 0
    /\ \/ cmd' = "started" /\ running' = running + 1
       \/ cmd' = "failed" /\ UNCHANGED running
    /\ UNCHANGED <<treeVars, ended, exits, read, bin, node, ctxDone>>

\* The server is not bound to the context: only killProcess ends it.
StartServer ==
    /\ main = "start"
    /\ main' = "select"
    /\ \/ cmd' = "started" /\ running' = running + 1
       \/ cmd' = "failed" /\ UNCHANGED running
    /\ UNCHANGED <<treeVars, restart, ended, exits, read, bin, node, ctxDone>>

\* run: wait for the Node watcher and the asset watcher, not for the other.
Join ==
    /\ main = "joining"
    /\ node = "off"
    /\ watcher["client"] = "off"
    /\ main' = "over"
    /\ UNCHANGED <<treeVars, restart, serverVars, read, bin, node, ctxDone>>

Loop == \/ InitialRestart \/ Backoff \/ BuildReads \/ BuildEnds \/ StartServer
        \/ Killed("build-wait", "build") \/ Killed("exit-wait", "exit") \/ RemoveBinary \/ Join
-----------------------------------------------------------------------------
(***************************************************************************)
(* runNodeWatcher; its context ends with the runner's                      *)
(***************************************************************************)
NodeCtxDone == ctxDone \/ main \in {"joining", "over"}

NodeStep(from, to) ==
    /\ node = from
    /\ node' = to
    /\ UNCHANGED <<treeVars, restart, main, serverVars, read, bin, ctxDone>>

NodeStarts      == ~NodeCtxDone /\ NodeStep("starting", "running")
NodeStartFails  == NodeStep("starting", "off")
NodeExits       == NodeStep("running", "exited")
NodeExitNoticed == NodeStep("exited", IF NodeCtxDone THEN "off" ELSE "starting")
NodeKilled      == NodeCtxDone /\ NodeStep("running", "off")

NodeLoop == NodeStarts \/ NodeStartFails \/ NodeExitNoticed \/ NodeKilled
-----------------------------------------------------------------------------
Next ==
    \/ \E t \in Trees :
          Edit(t) \/ Collect(t) \/ NoticeChange(t) \/ SignalRestart(t) \/ StopWatching(t)
    \/ Cancel \/ Crash \/ ReportExit
    \/ SelectDone \/ SelectExited \/ SelectRestart \/ Loop
    \/ NodeLoop \/ NodeExits

Spec == Init /\ [][Next]_vars

(***************************************************************************)
(* Goroutines run, timers fire, builds end.  select picks at random among  *)
(* the ready cases, so none that is ready again and again is passed over   *)
(* for ever: strong fairness.                                              *)
(***************************************************************************)
Fairness ==
    /\ \A t \in Trees :
          /\ WF_vars(Collect(t)) /\ WF_vars(NoticeChange(t))
          /\ WF_vars(SignalRestart(t)) /\ SF_vars(StopWatching(t))
    /\ WF_vars(ReportExit) /\ WF_vars(Loop) /\ WF_vars(NodeLoop)
    /\ SF_vars(SelectDone) /\ SF_vars(SelectExited) /\ SF_vars(SelectRestart)

FairSpec == Spec /\ Fairness
-----------------------------------------------------------------------------
Places == {"initial", "select", "build-wait", "build", "compile", "start",
           "backoff", "exit-wait", "exit", "joining", "over"}

TypeOK ==
    /\ edits \in [Trees -> 0..MaxEdits]
    /\ watcher \in [Trees -> {"new", "on", "off"}]
    /\ seen \in [Trees -> 0..MaxEdits]
    /\ pending \in [Trees -> BOOLEAN]
    /\ restart \in 0..RestartCap
    /\ main \in Places
    /\ cmd \in {"nil", "failed", "started"}
    /\ running \in Nat
    /\ ended \in Nat
    /\ exits \in 0..1
    /\ read \in [Trees -> 0..MaxEdits]
    /\ bin \in BOOLEAN
    /\ node \in {"starting", "running", "exited", "off"}
    /\ ctxDone \in BOOLEAN

\* Two servers never run side by side, competing for the port: a restart waits
\* for the old process whatever crashes and reports cross it.
AtMostOneServer == running <= 1

\* When the runner has come to its end, no server and no binary is left.
NothingLeftBehind == main \in {"joining", "over"} => running = 0 /\ ~bin

\* After cancellation the runner ends: killProcess never waits for a report
\* that has been received already, and no build or restart keeps it busy.
RunReturns == ctxDone ~> main = "over"

\* Once its watcher is on, an edit leads to a build of the tree as it then is,
\* although signals are debounced, dropped when the channel is full, and
\* arrive during builds.
EditsReachBuild ==
    \A t \in Trees :
        watcher[t] = "on" /\ seen[t] # edits[t] ~> read[t] = edits[t] \/ ctxDone
=============================================================================
