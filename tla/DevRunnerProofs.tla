-------------------------- MODULE DevRunnerProofs ---------------------------
(***************************************************************************)
(* The restart loop never has two servers and leaves none behind.  The     *)
(* invariant is a count: a started command stands for exactly one process  *)
(* that runs, has ended, or has been reported and not received yet.        *)
(***************************************************************************)
EXTENDS DevRunner, TLAPS

\* One command, one process.
OneProcess == running + ended + exits = IF cmd = "started" THEN 1 ELSE 0

\* While killProcess waits, the process no longer runs; once it is done, and
\* until the next start, there is no started command.
KillInv ==
    /\ main \in {"build-wait", "exit-wait"} => running = 0
    /\ main \in {"initial", "build", "compile", "start", "backoff", "exit", "joining", "over"}
          => cmd # "started"
    /\ main \in {"joining", "over"} => ~bin

DevInv == TypeOK /\ OneProcess /\ KillInv
-----------------------------------------------------------------------------
\* The initial state satisfies the invariant.
LEMMA DevInit == Init => DevInv
  <1>. SUFFICES ASSUME Init PROVE DevInv
    OBVIOUS
  <1>. USE DevAssumption DEF Init
  <1>1. /\ edits \in [Trees -> 0..MaxEdits] /\ seen \in [Trees -> 0..MaxEdits]
        /\ read \in [Trees -> 0..MaxEdits]
    OBVIOUS
  <1>2. watcher \in [Trees -> {"new", "on", "off"}] /\ pending \in [Trees -> BOOLEAN]
    OBVIOUS
  <1>3. restart \in 0..RestartCap /\ running \in Nat /\ ended \in Nat /\ exits \in 0..1
    BY DEF RestartCap
  <1>4. /\ main \in Places /\ cmd \in {"nil", "failed", "started"}
        /\ node \in {"starting", "running", "exited", "off"}
    BY DEF Places
  <1>5. bin \in BOOLEAN /\ ctxDone \in BOOLEAN
    OBVIOUS
  <1>6. OneProcess /\ KillInv
    BY DEF OneProcess, KillInv
  <1>. QED  BY <1>1, <1>2, <1>3, <1>4, <1>5, <1>6 DEF DevInv, TypeOK

\* A signal fits into the restart channel or is dropped.
LEMMA SignalledType == TypeOK => Signalled \in 0..RestartCap
  BY DEF TypeOK, Signalled, RestartCap

\* Watchers and the Node process do not touch the server.
LEMMA OutsideStep ==
    ASSUME DevInv, TypeOK', UNCHANGED <<main, serverVars, bin>>
    PROVE  DevInv'
  BY DEF DevInv, OneProcess, KillInv, serverVars

\* The type invariant is preserved by the watchers, the world and Node.
LEMMA OutsideTypes ==
    ASSUME TypeOK, NEW t \in Trees,
           \/ Edit(t) \/ Collect(t) \/ NoticeChange(t) \/ SignalRestart(t) \/ StopWatching(t)
           \/ Cancel \/ NodeLoop \/ NodeExits
    PROVE  TypeOK' /\ UNCHANGED <<main, serverVars, bin>>
  <1>. USE DevAssumption
  <1>1. CASE Edit(t)
    <2>1. edits[t] \in Nat /\ edits["go"] \in Nat /\ edits["client"] \in Nat
      BY DEF TypeOK, Trees
    <2>2. edits[t] + 1 \in 0..MaxEdits
      BY <1>1, <2>1 DEF Edit, Trees
    <2>. QED  BY <1>1, <2>2 DEF TypeOK, Edit, serverVars
  <1>2. CASE Collect(t)
    BY <1>2 DEF TypeOK, Collect, serverVars
  <1>3. CASE NoticeChange(t)
    BY <1>3 DEF TypeOK, NoticeChange, serverVars
  <1>4. CASE SignalRestart(t)
    BY <1>4, SignalledType DEF TypeOK, SignalRestart, serverVars
  <1>5. CASE StopWatching(t)
    BY <1>5 DEF TypeOK, StopWatching, serverVars
  <1>6. CASE Cancel
    BY <1>6 DEF TypeOK, Cancel, treeVars, serverVars
  <1>7. CASE NodeLoop \/ NodeExits
    BY <1>7 DEF TypeOK, NodeLoop, NodeExits, NodeStarts, NodeStartFails, NodeExitNoticed,
                NodeKilled, NodeStep, treeVars, serverVars
  <1>. QED  BY <1>1, <1>2, <1>3, <1>4, <1>5, <1>6, <1>7

\* The invariant is inductive.
LEMMA DevStep == DevInv /\ [Next]_vars => DevInv'
  <1>. SUFFICES ASSUME DevInv, [Next]_vars PROVE DevInv'
    OBVIOUS
  <1>. USE DEF DevInv, OneProcess, KillInv
  <1>0. TypeOK /\ Signalled \in 0..RestartCap
    BY SignalledType
  <1>1. ASSUME NEW t \in Trees,
               \/ Edit(t) \/ Collect(t) \/ NoticeChange(t) \/ SignalRestart(t) \/ StopWatching(t)
        PROVE  DevInv'
    BY <1>0, <1>1, OutsideTypes, OutsideStep
  <1>2. ASSUME Cancel \/ NodeLoop \/ NodeExits PROVE DevInv'
    BY <1>0, <1>2, OutsideTypes, OutsideStep DEF Trees
  <1>3. ASSUME Crash PROVE DevInv'
    BY <1>3 DEF TypeOK, Crash, treeVars, Places
  <1>4. ASSUME ReportExit PROVE DevInv'
    BY <1>4 DEF TypeOK, ReportExit, treeVars, Places
  <1>5. ASSUME SelectDone PROVE DevInv'
    BY <1>5 DEF TypeOK, SelectDone, KillThen, treeVars, serverVars, Places
  <1>6. ASSUME SelectExited PROVE DevInv'
    BY <1>6 DEF TypeOK, SelectExited, treeVars, Places
  <1>7. ASSUME SelectRestart PROVE DevInv'
    BY <1>7 DEF TypeOK, SelectRestart, KillThen, treeVars, serverVars, Places, RestartCap
  <1>8. ASSUME InitialRestart \/ Backoff PROVE DevInv'
    BY <1>0, <1>8 DEF TypeOK, InitialRestart, Backoff, treeVars, serverVars, Places
  <1>9. ASSUME BuildReads PROVE DevInv'
    BY <1>9 DEF TypeOK, BuildReads, treeVars, serverVars, Places
  <1>10. ASSUME BuildEnds PROVE DevInv'
    <2>1. CASE ~ctxDone /\ main' = "start" /\ bin' = TRUE
      BY <1>10, <2>1 DEF TypeOK, BuildEnds, treeVars, serverVars, Places
    <2>2. CASE main' = "select" /\ UNCHANGED bin
      BY <1>10, <2>2 DEF TypeOK, BuildEnds, treeVars, serverVars, Places
    <2>. QED  BY <1>10, <2>1, <2>2 DEF BuildEnds
  <1>11. ASSUME StartServer PROVE DevInv'
    BY <1>11 DEF TypeOK, StartServer, treeVars, Places
  <1>12. ASSUME Killed("build-wait", "build") PROVE DevInv'
    BY <1>12 DEF TypeOK, Killed, treeVars, Places
  <1>13. ASSUME Killed("exit-wait", "exit") PROVE DevInv'
    BY <1>13 DEF TypeOK, Killed, treeVars, Places
  <1>14. ASSUME RemoveBinary PROVE DevInv'
    BY <1>14 DEF TypeOK, RemoveBinary, treeVars, serverVars, Places
  <1>15. ASSUME Join PROVE DevInv'
    BY <1>15 DEF TypeOK, Join, treeVars, serverVars, Places
  <1>16. ASSUME UNCHANGED vars PROVE DevInv'
    BY <1>16 DEF TypeOK, vars, treeVars, serverVars
  <1>. QED
    BY <1>1, <1>2, <1>3, <1>4, <1>5, <1>6, <1>7, <1>8, <1>9, <1>10, <1>11, <1>12,
       <1>13, <1>14, <1>15, <1>16 DEF Next, Loop
-----------------------------------------------------------------------------
\* The invariant holds throughout.
LEMMA DevInvariant == Spec => []DevInv
  BY DevInit, DevStep, PTL DEF Spec

\* The runner's state stays well typed: the exit channel never holds two
\* reports (runGoWithRestart, dev.go).
THEOREM DevTypes == Spec => []TypeOK
  <1>1. DevInv => TypeOK
    BY DEF DevInv
  <1>. QED  BY <1>1, DevInvariant, PTL

\* runGoWithRestart never has two servers at a time, for any number of edits,
\* crashes and failed builds.
THEOREM OneServer == Spec => []AtMostOneServer
  <1>1. DevInv => AtMostOneServer
    BY DEF DevInv, TypeOK, OneProcess, AtMostOneServer
  <1>. QED  BY <1>1, DevInvariant, PTL

\* When run is over, the server is dead and the binary is gone.
THEOREM LeavesNothing == Spec => []NothingLeftBehind
  <1>1. DevInv => NothingLeftBehind
    BY DEF DevInv, TypeOK, OneProcess, KillInv, NothingLeftBehind
  <1>. QED  BY <1>1, DevInvariant, PTL
=============================================================================
