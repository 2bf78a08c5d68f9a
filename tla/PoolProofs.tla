----------------------------- MODULE PoolProofs -----------------------------
(***************************************************************************)
(* Theorems about Pool, for any number of slots, callers, starts and       *)
(* crashes, and about App, the application that drives it.                 *)
(***************************************************************************)
EXTENDS Pool, TLAPS

CONSTANTS Pages, PageOf, SSR, Hangs         \* as in App
VARIABLES hung, sig, run, page, out         \* as in App

App == INSTANCE App

(***************************************************************************)
(* The inductive invariant.                                                *)
(***************************************************************************)

\* Slots are filled from the left, by workers that have been started.
Filled ==
    /\ \A i \in Slots : slot[i] = None <=> i >= spawned
    /\ \A i \in Slots : slot[i] <= spawned
    /\ \A k \in Workers : proc[k] = "none" <=> k > spawned

\* Construction, calls and shutdown do not overlap in ways newPool forbids.
Lifecycle ==
    /\ phase = "starting" => spawned < Size /\ closing = "no"
    /\ phase = "ready" => spawned >= Size
    /\ phase = "failed" => spawned < Size /\ closing # "no" /\ closeEnd = spawned
    /\ phase # "ready" => \A c \in Callers : pc[c] = "idle"

\* done is closed only after the process is gone.
DoneMeansExited == \A k \in done : proc[k] \in {"exited", "reaped"}

\* closeRange stays within the slots that were filled when it was called.
CloseInRange ==
    /\ closing # "no" => closeIdx <= closeEnd /\ closeEnd <= spawned
    /\ closing = "wait" => closeIdx < closeEnd /\ waitFor \in Workers
    /\ closing = "end" => closeIdx = closeEnd

\* After a failed start, every slot already passed holds an ended process.
Swept ==
    phase = "failed" =>
        /\ \A i \in Slots : i < closeIdx => proc[slot[i]] # "running"
        /\ closing = "wait" => waitFor = slot[closeIdx]

\* At most one goroutine holds the write lock, and the worker it is about to
\* put into a slot takes the place of a dead one.
LockInv ==
    /\ \A c, d \in Callers : HoldsLock(c) /\ HoldsLock(d) => c = d
    /\ \A c \in Callers : pc[c] = "started" =>
          /\ slot[idx[c]] \in done
          /\ held[c] \in Workers
          /\ held[c] <= spawned

PoolInv ==
    /\ TypeOK
    /\ Filled
    /\ Lifecycle
    /\ DoneMeansExited
    /\ CloseInRange
    /\ Swept
    /\ LockInv
    /\ NoOrphanProcess

\* The initial state satisfies the invariant: nothing has been started.
LEMMA InitInv == Init => PoolInv
<1> SUFFICES ASSUME Init PROVE PoolInv
  OBVIOUS
<1> USE PoolAssumption DEF Init, Slots, Workers, None
<1>1. TypeOK
  <2>1. /\ 0 \in 0..MaxSpawn /\ 0 \in 0..MaxCrashes /\ 0 \in 0..Size
        /\ 0 \in 0..(CursorMod - 1) /\ 0 \in Slots
    OBVIOUS
  <2>2. slot \in [Slots -> 0..MaxSpawn] /\ proc \in [Workers -> {"none", "running", "exited", "reaped"}]
    BY <2>1
  <2>3. /\ pc \in [Callers -> {"idle", "picked", "check", "dead", "locked", "started", "using"}]
        /\ idx \in [Callers -> Slots]
        /\ held \in [Callers -> 0..MaxSpawn]
    BY <2>1
  <2> HIDE DEF Slots, Workers
  <2> QED BY <2>1, <2>2, <2>3 DEF TypeOK
<1>2. Filled /\ Lifecycle
  BY DEF Filled, Lifecycle
<1>3. DoneMeansExited /\ CloseInRange /\ Swept
  BY DEF DoneMeansExited, CloseInRange, Swept
<1>4. NoOrphanProcess /\ LockInv
  BY DEF NoOrphanProcess, LockInv, HoldsLock
<1> QED BY <1>1, <1>2, <1>3, <1>4 DEF PoolInv

\* Construction steps.
LEMMA NewPoolKeepsInv ==
    ASSUME PoolInv, StartNext \/ StartFails
    PROVE  PoolInv'
<1> USE PoolAssumption DEF PoolInv, procVars, callVars, closeVars, Slots, Workers, None
<1>1. CASE StartNext
  <2> USE <1>1 DEF StartNext, newWorker, TypeOK
  <2>1. TypeOK'
    BY DEF Lifecycle
  <2>2. Filled'
    BY DEF Filled, Lifecycle
  <2>3. Lifecycle'
    BY DEF Lifecycle
  <2>4. DoneMeansExited'
    BY DEF DoneMeansExited, Filled
  <2>5. CloseInRange' /\ Swept'
    BY DEF CloseInRange, Swept, Lifecycle
  <2>6. NoOrphanProcess'
    BY DEF NoOrphanProcess, Filled, Lifecycle
  <2>7. LockInv'
    BY DEF LockInv, HoldsLock, Lifecycle
  <2> QED BY <2>1, <2>2, <2>3, <2>4, <2>5, <2>6, <2>7
<1>2. CASE StartFails
  BY <1>2
  DEF StartFails, TypeOK, Filled, Lifecycle, DoneMeansExited, CloseInRange, Swept, LockInv,
      HoldsLock, NoOrphanProcess
<1> QED BY <1>1, <1>2

\* The ring index is a slot.
LEMMA IndexInRing == \A n \in Nat : NextIndex(n) \in Slots
BY PoolAssumption DEF NextIndex, Slots

\* The cursor wraps within its width.
LEMMA CursorInRange == \A n \in Nat : n % CursorMod \in 0..(CursorMod - 1)
BY PoolAssumption

\* Steps of a call that touch neither slots nor processes.
LEMMA CallKeepsInv ==
    ASSUME PoolInv, NEW c \in Callers,
           \/ Pick(c) \/ ReadSlot(c) \/ CheckAlive(c) \/ LockSlot(c)
           \/ AlreadyReplaced(c) \/ ReplaceFails(c) \/ RenderReturns(c)
    PROVE  PoolInv'
<1> USE DEF PoolInv, procVars, callVars, closeVars
<1>1. UNCHANGED <<slot, procVars, phase, ctxDone, closeVars, ready>>
  BY DEF Pick, ReadSlot, CheckAlive, LockSlot, AlreadyReplaced, ReplaceFails, RenderReturns
<1>2. phase = "ready"
  BY DEF Lifecycle, Pick, ReadSlot, CheckAlive, LockSlot, AlreadyReplaced, ReplaceFails,
         RenderReturns
<1>3. TypeOK'
  <2>1. CASE Pick(c)
    <3>1. cursor + 1 \in Nat
      BY PoolAssumption DEF TypeOK
    <3>2. cursor' \in 0..(CursorMod - 1) /\ cursor' \in Nat
      BY <2>1, <3>1, CursorInRange DEF Pick
    <3>3. NextIndex(cursor') \in Slots
      BY <3>2, IndexInRing
    <3> QED BY <1>1, <2>1, <3>2, <3>3 DEF Pick, TypeOK
  <2>2. CASE ReadSlot(c) \/ CheckAlive(c) \/ LockSlot(c)
    BY <1>1, <2>2 DEF ReadSlot, CheckAlive, LockSlot, TypeOK
  <2>3. CASE AlreadyReplaced(c) \/ ReplaceFails(c) \/ RenderReturns(c)
    BY <1>1, <2>3 DEF AlreadyReplaced, ReplaceFails, RenderReturns, TypeOK
  <2> QED BY <2>1, <2>2, <2>3
<1>4. Filled' /\ DoneMeansExited' /\ CloseInRange' /\ Swept'
  BY <1>1 DEF Filled, DoneMeansExited, CloseInRange, Swept
<1>5. Lifecycle'
  BY <1>1, <1>2 DEF Lifecycle
<1>6. /\ pc \in [Callers -> {"idle", "picked", "check", "dead", "locked", "started", "using"}]
      /\ pc[c] # "started"
      /\ pc'[c] # "started"
      /\ \A d \in Callers : d # c => pc'[d] = pc[d] /\ held'[d] = held[d] /\ idx'[d] = idx[d]
      /\ HoldsLock(c)' => HoldsLock(c) \/ Unlocked
  BY DEF TypeOK, HoldsLock, Pick, ReadSlot, CheckAlive, LockSlot, AlreadyReplaced,
         ReplaceFails, RenderReturns
<1>7. LockInv'
  BY <1>1, <1>6 DEF LockInv, HoldsLock, Unlocked
<1>8. NoOrphanProcess'
  BY <1>1, <1>6 DEF NoOrphanProcess
<1> QED BY <1>3, <1>4, <1>5, <1>7, <1>8

\* Starting a replacement, with the write lock held and the slot still dead.
LEMMA ReplaceKeepsInv ==
    ASSUME PoolInv, NEW c \in Callers, Replace(c)
    PROVE  PoolInv'
<1> USE PoolAssumption DEF PoolInv, procVars, callVars, closeVars, Slots, Workers, None
<1>1. /\ phase = "ready"
      /\ spawned >= Size
      /\ idx[c] \in Slots
      /\ slot[idx[c]] \in Workers
      /\ slot[idx[c]] \in done
  BY DEF Replace, Lifecycle, Filled, TypeOK, alive
<1>2. /\ pc[c] = "locked"
      /\ spawned' = spawned + 1
      /\ spawned' \in Workers
      /\ proc' = [proc EXCEPT ![spawned + 1] = "running"]
      /\ held' = [held EXCEPT ![c] = spawned + 1]
      /\ pc' = [pc EXCEPT ![c] = "started"]
      /\ UNCHANGED <<slot, done, eof, crashes, phase, cursor, idx, ctxDone, closeVars, ready>>
  BY DEF Replace, newWorker, TypeOK
<1>3. TypeOK'
  BY <1>2 DEF TypeOK
<1>4. Filled'
  BY <1>1, <1>2 DEF Filled, TypeOK
<1>5. Lifecycle' /\ CloseInRange' /\ Swept'
  BY <1>1, <1>2 DEF Lifecycle, CloseInRange, Swept, TypeOK
<1>6. DoneMeansExited'
  BY <1>2 DEF DoneMeansExited, Filled, TypeOK
<1>7. LockInv'
  BY <1>1, <1>2 DEF LockInv, HoldsLock, TypeOK
<1>8. NoOrphanProcess'
  <2> SUFFICES ASSUME NEW k \in Workers, proc'[k] = "running"
               PROVE  \/ \E i \in Slots : slot'[i] = k
                      \/ \E d \in Callers : pc'[d] = "started" /\ held'[d] = k
    BY DEF NoOrphanProcess
  <2>1. CASE k = spawned + 1
    BY <1>2, <2>1 DEF TypeOK
  <2>2. CASE k # spawned + 1
    <3>1. proc[k] = "running"
      BY <1>2, <2>2 DEF TypeOK
    <3> QED BY <1>2, <3>1 DEF NoOrphanProcess, TypeOK
  <2> QED BY <2>1, <2>2
<1> QED BY <1>3, <1>4, <1>5, <1>6, <1>7, <1>8

\* The new worker takes the slot of one whose process is gone.
LEMMA InstallKeepsInv ==
    ASSUME PoolInv, NEW c \in Callers, Install(c)
    PROVE  PoolInv'
<1> USE PoolAssumption DEF PoolInv, procVars, callVars, closeVars, Slots, Workers, None
<1>1. /\ phase = "ready"
      /\ spawned >= Size
      /\ idx[c] \in Slots
      /\ slot[idx[c]] \in done
      /\ held[c] \in Workers
      /\ held[c] <= spawned
  BY DEF Install, Lifecycle, LockInv, TypeOK
<1>2. /\ pc[c] = "started"
      /\ slot' = [slot EXCEPT ![idx[c]] = held[c]]
      /\ pc' = [pc EXCEPT ![c] = "using"]
      /\ UNCHANGED <<procVars, phase, cursor, idx, held, ctxDone, closeVars, ready>>
  BY DEF Install
<1>3. TypeOK'
  BY <1>1, <1>2 DEF TypeOK
<1>4. Filled'
  BY <1>1, <1>2 DEF Filled, TypeOK
<1>5. Lifecycle' /\ CloseInRange' /\ Swept' /\ DoneMeansExited'
  BY <1>1, <1>2 DEF Lifecycle, CloseInRange, Swept, DoneMeansExited, TypeOK
<1>6. LockInv'
  <2>1. \A d \in Callers : d # c => ~HoldsLock(d)
    BY <1>2 DEF LockInv, HoldsLock
  <2>2. \A d \in Callers : ~HoldsLock(d)'
    BY <1>2, <2>1 DEF HoldsLock, TypeOK
  <2> QED BY <2>2 DEF LockInv, HoldsLock
<1>7. NoOrphanProcess'
  <2> SUFFICES ASSUME NEW k \in Workers, proc[k] = "running"
               PROVE  \/ \E i \in Slots : slot'[i] = k
                      \/ \E d \in Callers : pc'[d] = "started" /\ held[d] = k
    BY <1>2 DEF NoOrphanProcess
  <2>1. k # slot[idx[c]]
    BY <1>1 DEF DoneMeansExited
  <2>2. CASE \E i \in Slots : slot[i] = k
    BY <1>2, <2>1, <2>2 DEF TypeOK
  <2>3. CASE \E d \in Callers : pc[d] = "started" /\ held[d] = k
    BY <1>1, <1>2, <2>3 DEF TypeOK
  <2> QED BY <2>2, <2>3 DEF NoOrphanProcess
<1> QED BY <1>3, <1>4, <1>5, <1>6, <1>7

\* Processes end and their readers notice.
LEMMA ProcessKeepsInv ==
    ASSUME PoolInv, NEW k \in Workers, Crash(k) \/ Kill(k) \/ ExitOnEOF(k) \/ CloseDone(k)
    PROVE  PoolInv'
<1> USE PoolAssumption DEF PoolInv, procVars, callVars, closeVars, Slots, Workers, None
<1>1. CASE Exit(k) /\ crashes' \in 0..MaxCrashes
  <2> USE <1>1 DEF Exit, TypeOK
  <2>1. TypeOK'
    OBVIOUS
  <2>2. Filled' /\ Lifecycle'
    BY DEF Filled, Lifecycle
  <2>3. DoneMeansExited' /\ CloseInRange' /\ NoOrphanProcess'
    BY DEF DoneMeansExited, CloseInRange, NoOrphanProcess
  <2>5. LockInv'
    BY DEF LockInv, HoldsLock
  <2>4. Swept'
    <3>1. \A j \in Workers : proc'[j] = "running" => proc[j] = "running"
      OBVIOUS
    <3>2. \A i \in Slots : i < spawned => slot[i] \in Workers
      BY DEF Filled
    <3> QED BY <3>1, <3>2 DEF Swept, Lifecycle, CloseInRange
  <2> QED BY <2>1, <2>2, <2>3, <2>4, <2>5
<1>2. CASE CloseDone(k)
  <2> USE <1>2 DEF CloseDone
  <2>1. TypeOK' /\ Filled' /\ Lifecycle'
    BY DEF TypeOK, Filled, Lifecycle
  <2>2. DoneMeansExited' /\ CloseInRange' /\ Swept'
    BY DEF DoneMeansExited, CloseInRange, Swept
  <2>3. LockInv' /\ NoOrphanProcess'
    BY DEF LockInv, HoldsLock, NoOrphanProcess
  <2> QED BY <2>1, <2>2, <2>3
<1>3. ASSUME Crash(k) \/ Kill(k) \/ ExitOnEOF(k)
      PROVE  Exit(k) /\ crashes' \in 0..MaxCrashes
  BY <1>3 DEF Crash, Kill, ExitOnEOF, TypeOK
<1> QED BY <1>1, <1>2, <1>3

\* Shutdown steps.
LEMMA CloseKeepsInv ==
    ASSUME PoolInv, Close \/ closeRange
    PROVE  PoolInv'
<1> USE PoolAssumption DEF PoolInv, procVars, callVars, closeVars, Slots, Workers, None
<1>1. CASE Close
  <2> USE <1>1 DEF Close
  <2>1. TypeOK' /\ CloseInRange' /\ Lifecycle' /\ Swept'
    BY DEF TypeOK, CloseInRange, Lifecycle, Swept
  <2>2. Filled' /\ DoneMeansExited'
    BY DEF Filled, DoneMeansExited
  <2>3. LockInv' /\ NoOrphanProcess'
    BY DEF LockInv, HoldsLock, NoOrphanProcess
  <2> QED BY <2>1, <2>2, <2>3
<1>2. CASE CloseStdin
  <2>1. slot[closeIdx] \in Workers
    BY <1>2 DEF CloseStdin, CloseInRange, Filled, TypeOK
  <2>2. TypeOK'
    <3>1. eof' \in SUBSET Workers /\ waitFor' \in 0..MaxSpawn
      <4>1. eof \in SUBSET Workers
        BY DEF TypeOK
      <4>2. eof' = eof \cup {slot[closeIdx]} /\ waitFor' = slot[closeIdx]
        BY <1>2 DEF CloseStdin
      <4>3. Workers \subseteq 0..MaxSpawn
        OBVIOUS
      <4> HIDE DEF Workers, PoolInv
      <4> QED BY <2>1, <4>1, <4>2, <4>3
    <3>2. UNCHANGED <<slot, proc, done, spawned, crashes, phase, cursor, callVars, ctxDone,
                      closeIdx, closeEnd, ready>> /\ closing' = "wait"
      BY <1>2 DEF CloseStdin
    <3> HIDE DEF Slots, Workers
    <3> QED BY <3>1, <3>2 DEF TypeOK
  <2>3. Filled' /\ Lifecycle' /\ DoneMeansExited' /\ LockInv' /\ NoOrphanProcess'
    BY <1>2 DEF CloseStdin, Filled, Lifecycle, DoneMeansExited, LockInv, HoldsLock,
                NoOrphanProcess
  <2>4. CloseInRange' /\ Swept'
    BY <1>2, <2>1 DEF CloseStdin, CloseInRange, Swept, TypeOK
  <2> QED BY <2>2, <2>3, <2>4
<1>3. CASE Wait
  <2> USE <1>3 DEF Wait, TypeOK
  <2>1. waitFor \in Workers /\ closeIdx < closeEnd
    BY DEF CloseInRange
  <2>2. TypeOK'
    BY <2>1
  <2>3. Filled' /\ Lifecycle'
    BY <2>1 DEF Filled, Lifecycle
  <2>4. DoneMeansExited' /\ CloseInRange' /\ LockInv' /\ NoOrphanProcess'
    BY <2>1 DEF DoneMeansExited, CloseInRange, LockInv, HoldsLock, NoOrphanProcess
  <2>5. Swept'
    <3>1. \A j \in Workers : proc'[j] = "running" => proc[j] = "running" /\ j # waitFor
      BY <2>1
    <3>2. \A i \in Slots : i < spawned => slot[i] \in Workers
      BY DEF Filled
    <3> QED BY <2>1, <3>1, <3>2 DEF Swept, Lifecycle, CloseInRange
  <2> QED BY <2>2, <2>3, <2>4, <2>5
<1>4. CASE CloseReturns
  BY <1>4
  DEF CloseReturns, TypeOK, Filled, Lifecycle, DoneMeansExited, CloseInRange, Swept, LockInv,
      HoldsLock, NoOrphanProcess
<1> QED BY <1>1, <1>2, <1>3, <1>4 DEF closeRange

\* Every step keeps the invariant.
LEMMA NextKeepsInv == PoolInv /\ [Next]_vars => PoolInv'
<1> SUFFICES ASSUME PoolInv, [Next]_vars
             PROVE  PoolInv'
  OBVIOUS
<1>1. CASE CancelContext \/ Probe \/ UNCHANGED vars
  <2>1. /\ UNCHANGED <<slot, procVars, phase, cursor, callVars, closeVars>>
        /\ ctxDone' \in BOOLEAN /\ ready' \in BOOLEAN
    BY <1>1 DEF CancelContext, Probe, vars, procVars, callVars, closeVars, PoolInv, TypeOK
  <2> QED
    BY <2>1
    DEF procVars, callVars, closeVars, PoolInv, TypeOK, Filled, Lifecycle, DoneMeansExited,
        CloseInRange, Swept, LockInv, HoldsLock, NoOrphanProcess
<1>2. CASE Next
  BY <1>1, <1>2, NewPoolKeepsInv, CallKeepsInv, ReplaceKeepsInv, InstallKeepsInv,
     ProcessKeepsInv, CloseKeepsInv
  DEF Next, Call
<1> QED BY <1>1, <1>2

\* The invariant holds throughout.
LEMMA PoolInvHolds == Spec => []PoolInv
BY InitInv, NextKeepsInv, PTL DEF Spec

\* Type correctness of the pool; in particular the round-robin index always
\* names a slot and closeRange never leaves the ring.
THEOREM PoolTypes == Spec => []TypeOK
<1>1. PoolInv => TypeOK
  BY DEF PoolInv
<1> QED BY PoolInvHolds, <1>1, PTL

\* However many goroutines race to replace the same dead worker, every
\* running process stays in a slot.
THEOREM NoOrphans == Spec => []NoOrphanProcess
<1>1. PoolInv => NoOrphanProcess
  BY DEF PoolInv
<1> QED BY PoolInvHolds, <1>1, PTL

LEMMA FailedLeavesNone == PoolInv => FailedStartLeavesNothing
<1> SUFFICES ASSUME PoolInv, phase = "failed", closing = "end",
                    NEW k \in Workers, proc[k] = "running"
             PROVE  FALSE
  BY DEF FailedStartLeavesNothing
<1>1. PICK i \in Slots : slot[i] = k
  BY DEF PoolInv, NoOrphanProcess, Lifecycle
<1>2. i < closeIdx
  BY <1>1, PoolAssumption
  DEF PoolInv, Filled, Lifecycle, CloseInRange, TypeOK, Slots, Workers, None
<1> QED BY <1>1, <1>2 DEF PoolInv, Swept

\* A constructor that failed at any worker has ended all earlier ones when it
\* returns.
THEOREM FailedStartCleansUp == Spec => []FailedStartLeavesNothing
BY PoolInvHolds, FailedLeavesNone, PTL

\* A worker leaves its slot only once its done channel is closed.
THEOREM ReplacementsAreOfDeadWorkers == Spec => OnlyDeadReplaced
<1>1. ASSUME PoolInv, [Next]_vars
      PROVE  [\A i \in Slots : slot'[i] # slot[i] => slot[i] = None \/ ~alive(slot[i])]_vars
  <2> SUFFICES ASSUME Next, NEW i \in Slots, slot'[i] # slot[i]
               PROVE  slot[i] = None \/ ~alive(slot[i])
    BY <1>1
  <2> USE <1>1 DEF PoolInv, procVars, callVars, closeVars
  <2>1. CASE StartNext
    BY <2>1, PoolAssumption DEF StartNext, newWorker, Filled, TypeOK, Slots
  <2>2. ASSUME NEW c \in Callers, Install(c)
        PROVE  ~alive(slot[i])
    BY <2>2 DEF Install, LockInv, alive, TypeOK
  <2> QED
    BY <2>1, <2>2
    DEF Next, Call, StartFails, Pick, ReadSlot, CheckAlive, LockSlot, AlreadyReplaced, Replace,
        ReplaceFails, RenderReturns, Crash, Kill, ExitOnEOF, Exit, CloseDone, CancelContext,
        Close, closeRange, CloseStdin, Wait, CloseReturns, Probe
<1> QED BY PoolInvHolds, <1>1, PTL DEF Spec, OnlyDeadReplaced

(***************************************************************************)
(* What the pool relies on of each worker.                                 *)
(***************************************************************************)
Awaited == closing = "wait" => waitFor \in eof

LEMMA LifeStep ==
    ASSUME PoolInv, Awaited, [Next]_vars, NEW k \in Workers
    PROVE  Awaited' /\ [Life(k)!Next]_(Life(k)!vars)
<1> USE PoolAssumption DEF procVars, closeVars, Awaited
<1> DEFINE Kept == Awaited' /\ [Life(k)!Next]_(Life(k)!vars)
<1>1. ASSUME newWorker, UNCHANGED <<closing, waitFor>>
      PROVE  Kept
  <2>1. /\ spawned + 1 \in Workers /\ proc[spawned + 1] = "none"
        /\ proc' = [proc EXCEPT ![spawned + 1] = "running"] /\ UNCHANGED <<done, eof>>
    BY <1>1 DEF newWorker, PoolInv, TypeOK, Filled, Workers
  <2>2. CASE k = spawned + 1
    BY <1>1, <2>1, <2>2 DEF Life!Next, Life!Start, PoolInv, TypeOK
  <2>3. CASE k # spawned + 1
    BY <1>1, <2>1, <2>3 DEF Life!vars, PoolInv, TypeOK
  <2> QED BY <2>2, <2>3
<1>2. ASSUME UNCHANGED <<proc, done, eof, waitFor>>, closing' = "wait" => closing = "wait"
      PROVE  Kept
  BY <1>2 DEF Life!vars
<1>3. ASSUME NEW c \in Callers, Pick(c) \/ Call(c)
      PROVE  Kept
  <2>1. CASE Replace(c)
    BY <1>1, <2>1 DEF Replace
  <2>2. CASE ~Replace(c)
    <3>1. UNCHANGED <<proc, done, eof, waitFor, closing>>
      BY <1>3, <2>2 DEF Pick, Call, ReadSlot, CheckAlive, LockSlot, AlreadyReplaced, Install,
                        ReplaceFails, RenderReturns
    <3> QED BY <1>2, <3>1
  <2> QED BY <2>1, <2>2
<1>4. ASSUME NEW j \in Workers, Crash(j) \/ Kill(j) \/ ExitOnEOF(j)
      PROVE  Kept
  <2>1. proc[j] = "running" /\ proc' = [proc EXCEPT ![j] = "exited"] /\ UNCHANGED <<done, eof, closing, waitFor>>
    BY <1>4 DEF Crash, Kill, ExitOnEOF, Exit
  <2>2. CASE k = j
    BY <2>1, <2>2 DEF Life!Next, Life!Exit, PoolInv, TypeOK
  <2>3. CASE k # j
    BY <2>1, <2>3 DEF Life!vars, PoolInv, TypeOK
  <2> QED BY <2>2, <2>3
<1>5. ASSUME NEW j \in Workers, CloseDone(j)
      PROVE  Kept
  <2>1. /\ proc[j] \in {"exited", "reaped"} /\ j \notin done /\ done' = done \cup {j}
        /\ UNCHANGED <<proc, eof, closing, waitFor>>
    BY <1>5 DEF CloseDone, alive
  <2>2. CASE k = j
    BY <2>1, <2>2 DEF Life!Next, Life!CloseDone
  <2>3. CASE k # j
    BY <2>1, <2>3 DEF Life!vars
  <2> QED BY <2>2, <2>3
<1>6. CASE CloseStdin
  <2>1. /\ eof' = eof \cup {slot[closeIdx]} /\ waitFor' = slot[closeIdx]
        /\ UNCHANGED <<proc, done>> /\ closeIdx < closeEnd
    BY <1>6 DEF CloseStdin
  <2>2. slot[closeIdx] \in Workers => proc[slot[closeIdx]] # "none"
    <3>1. closeIdx \in Slots
      BY <1>6, <2>1 DEF PoolInv, TypeOK, CloseInRange, Slots
    <3>2. slot[closeIdx] <= spawned /\ slot[closeIdx] \in Nat /\ spawned \in Nat
      BY <3>1 DEF PoolInv, Filled, TypeOK
    <3> QED BY <3>2 DEF PoolInv, Filled
  <2>3. CASE k = slot[closeIdx]
    BY <2>1, <2>2, <2>3 DEF Life!Next, Life!CloseStdin
  <2>4. CASE k # slot[closeIdx]
    BY <2>1, <2>4 DEF Life!vars
  <2> QED BY <2>3, <2>4
<1>7. CASE Wait
  <2>1. /\ waitFor \in eof /\ proc[waitFor] = "exited" /\ proc' = [proc EXCEPT ![waitFor] = "reaped"]
        /\ closing' = "next" /\ UNCHANGED <<done, eof>>
    BY <1>7 DEF Wait
  <2>2. CASE k = waitFor
    BY <2>1, <2>2 DEF Life!Next, Life!Wait, PoolInv, TypeOK
  <2>3. CASE k # waitFor
    BY <2>1, <2>3 DEF Life!vars, PoolInv, TypeOK
  <2> QED BY <2>2, <2>3
<1>8. CASE StartNext
  BY <1>1, <1>8 DEF StartNext
<1>9. CASE StartFails \/ CancelContext \/ Close \/ CloseReturns \/ Probe \/ UNCHANGED vars
  BY <1>2, <1>9 DEF StartFails, CancelContext, Close, CloseReturns, Probe, vars
<1> QED
  BY <1>3, <1>4, <1>5, <1>6, <1>7, <1>8, <1>9 DEF Next, closeRange

\* However calls, replacements and shutdown interleave, the pool takes no worker
\* for anything but a subprocess: it waits only for one whose stdin it has closed
\* and that was started, and sees done closed once, after the end of the process.
THEOREM PoolHoldsSubprocesses ==
    ASSUME NEW k \in Workers
    PROVE  Spec => Life(k)!Spec
<1>1. Init => Awaited /\ Life(k)!Init
  BY DEF Init, Awaited, Life!Init
<1>2. PoolInv /\ Awaited /\ [Next]_vars => Awaited' /\ [Life(k)!Next]_(Life(k)!vars)
  BY LifeStep
<1> QED BY <1>1, <1>2, PoolInvHolds, PTL DEF Spec, Life!Spec
-----------------------------------------------------------------------------
(***************************************************************************)
(* The application.  App instantiates Pool; the pool it drives is this one *)
(* when no load balancer probes it and it is shut down at the end.         *)
(***************************************************************************)
InApp == Probed = FALSE /\ ShutsDown = TRUE /\ PageOf \in [Callers -> Pages]

LEMMA SameConstruction ==
    /\ App!Pool!Init <=> Init
    /\ App!Pool!StartNext <=> StartNext
    /\ App!Pool!StartFails <=> StartFails
<1> USE DEF App!Pool!procVars, App!Pool!callVars, App!Pool!closeVars, procVars, callVars, closeVars
<1>1. App!Pool!Init <=> Init
  BY DEF App!Pool!Init, Init, App!Pool!Slots, Slots, App!Pool!Workers, Workers, App!Pool!None, None
<1>2. App!Pool!StartNext <=> StartNext
  BY DEF App!Pool!StartNext, StartNext, App!Pool!newWorker, newWorker
<1>3. App!Pool!StartFails <=> StartFails
  BY DEF App!Pool!StartFails, StartFails
<1> QED BY <1>1, <1>2, <1>3

LEMMA SameCalls ==
    ASSUME NEW c
    PROVE  /\ App!Pool!Pick(c) <=> Pick(c)
           /\ App!Pool!ReadSlot(c) <=> ReadSlot(c)
           /\ App!Pool!CheckAlive(c) <=> CheckAlive(c)
           /\ App!Pool!LockSlot(c) <=> LockSlot(c)
           /\ App!Pool!AlreadyReplaced(c) <=> AlreadyReplaced(c)
           /\ App!Pool!Replace(c) <=> Replace(c)
           /\ App!Pool!Install(c) <=> Install(c)
           /\ App!Pool!ReplaceFails(c) <=> ReplaceFails(c)
           /\ App!Pool!RenderReturns(c) <=> RenderReturns(c)
<1> USE DEF App!Pool!procVars, App!Pool!callVars, App!Pool!closeVars, procVars, callVars, closeVars,
            App!Pool!alive, alive
<1>1. App!Pool!Pick(c) <=> Pick(c)
  BY DEF App!Pool!Pick, Pick, App!Pool!NextIndex, NextIndex
<1>2. App!Pool!ReadSlot(c) <=> ReadSlot(c)
  BY DEF App!Pool!ReadSlot, ReadSlot, App!Pool!Unlocked, Unlocked, App!Pool!HoldsLock, HoldsLock
<1>3. App!Pool!CheckAlive(c) <=> CheckAlive(c)
  BY DEF App!Pool!CheckAlive, CheckAlive
<1>4. App!Pool!LockSlot(c) <=> LockSlot(c)
  BY DEF App!Pool!LockSlot, LockSlot, App!Pool!Unlocked, Unlocked, App!Pool!HoldsLock, HoldsLock
<1>5. App!Pool!AlreadyReplaced(c) <=> AlreadyReplaced(c)
  BY DEF App!Pool!AlreadyReplaced, AlreadyReplaced
<1>6. App!Pool!Replace(c) <=> Replace(c)
  BY DEF App!Pool!Replace, Replace, App!Pool!newWorker, newWorker
<1>7. App!Pool!Install(c) <=> Install(c)
  BY DEF App!Pool!Install, Install
<1>8. App!Pool!ReplaceFails(c) <=> ReplaceFails(c)
  BY DEF App!Pool!ReplaceFails, ReplaceFails
<1>9. App!Pool!RenderReturns(c) <=> RenderReturns(c)
  BY DEF App!Pool!RenderReturns, RenderReturns
<1> QED BY <1>1, <1>2, <1>3, <1>4, <1>5, <1>6, <1>7, <1>8, <1>9

LEMMA SameProcesses ==
    ASSUME NEW k
    PROVE  /\ App!Pool!Crash(k) <=> Crash(k)
           /\ App!Pool!Kill(k) <=> Kill(k)
           /\ App!Pool!ExitOnEOF(k) <=> ExitOnEOF(k)
           /\ App!Pool!CloseDone(k) <=> CloseDone(k)
<1>1. App!Pool!Exit(k) <=> Exit(k)
  BY DEF App!Pool!Exit, Exit, App!Pool!callVars, App!Pool!closeVars, callVars, closeVars
<1>2. App!Pool!CloseDone(k) <=> CloseDone(k)
  BY DEF App!Pool!CloseDone, CloseDone, App!Pool!callVars, App!Pool!closeVars, callVars, closeVars,
         App!Pool!alive, alive
<1> QED
  BY <1>1, <1>2
  DEF App!Pool!Crash, Crash, App!Pool!Kill, Kill, App!Pool!ExitOnEOF, ExitOnEOF

LEMMA SameShutdown ==
    ASSUME InApp
    PROVE  /\ App!Pool!CancelContext <=> CancelContext
           /\ App!Pool!Close <=> Close
           /\ App!Pool!closeRange <=> closeRange
<1> USE DEF App!Pool!procVars, App!Pool!callVars, App!Pool!closeVars, procVars, callVars, closeVars
<1>1. (App!Pool!CancelContext <=> CancelContext) /\ (App!Pool!Close <=> Close)
  BY DEF InApp, App!Pool!CancelContext, CancelContext, App!Pool!Close, Close
<1>2. App!Pool!closeRange <=> closeRange
  BY DEF App!Pool!closeRange, closeRange, App!Pool!CloseStdin, CloseStdin, App!Pool!Wait, Wait,
         App!Pool!CloseReturns, CloseReturns
<1> QED BY <1>1, <1>2

LEMMA SameVars == (UNCHANGED App!poolVars <=> UNCHANGED vars) /\ App!Pool!Workers = Workers
BY DEF App!poolVars, vars, procVars, callVars, closeVars, App!Pool!Workers, Workers

\* What the application does to its pool: one of the pool's own steps, or nothing.
LEMMA AppStepsPool == InApp /\ [App!Next]_(App!vars) => [Next]_vars
<1> SUFFICES ASSUME InApp, [App!Next]_(App!vars)
             PROVE  Next \/ UNCHANGED vars
  OBVIOUS
<1> USE SameVars, SameShutdown, SameConstruction
<1>1. CASE App!StartRenderer \/ App!Listen \/ App!NewAppFails \/ App!Signal \/ App!CancelMerged \/ App!ForwardSignal
  BY <1>1 DEF App!StartRenderer, App!Listen, App!NewAppFails, App!Signal, App!CancelMerged,
              App!ForwardSignal, Next
<1>2. ASSUME NEW p, App!Accept(p) \/ App!NoTemplate(p) \/ App!FinishPage(p)
      PROVE  UNCHANGED vars
  BY <1>2 DEF App!Accept, App!NoTemplate, App!FinishPage
<1>3. ASSUME NEW c \in Callers, App!Slot(c)
      PROVE  Next \/ UNCHANGED vars
  <2>1. Pick(c) \/ Call(c) \/ UNCHANGED vars
    BY <1>3, SameCalls
    DEF App!Slot, App!AskPool, App!RenderLocally, App!GetWorker, App!NoWorker, App!SlotRendered, Call
  <2> QED BY <2>1 DEF Next
<1>4. ASSUME NEW k \in Workers, App!Hang(k) \/ App!Process(k)
      PROVE  Next \/ UNCHANGED vars
  <2>1. Crash(k) \/ Kill(k) \/ ExitOnEOF(k) \/ CloseDone(k) \/ UNCHANGED vars
    BY <1>4, SameProcesses DEF App!Hang, App!Process
  <2> QED BY <2>1 DEF Next
<1>5. CASE App!Run \/ App!CloseWorkers
  BY <1>5 DEF App!Run, App!CloseRenderer, App!Shutdown, App!ShutdownReturns, App!ShutdownTimesOut,
              App!CloseWorkers, Next
<1>6. CASE UNCHANGED App!vars
  BY <1>6 DEF App!vars
<1> QED BY <1>1, <1>2, <1>3, <1>4, <1>5, <1>6 DEF App!Next, Workers

\* The application, its signals, pages and shutdown included, makes no step with
\* its pool that the pool's specification does not allow: what is proved of the
\* pool above holds of it there.
THEOREM AppImplementsPool ==
    ASSUME InApp
    PROVE  App!Spec => Spec
<1>1. App!Init => Init
  BY SameConstruction DEF App!Init
<1>2. [App!Next]_(App!vars) => [Next]_vars
  BY AppStepsPool
<1> QED BY <1>1, <1>2, PTL DEF App!Spec, Spec

(***************************************************************************)
(* What close misses.  It reads the slots without the lock, so a           *)
(* replacement may be put into a slot that it has passed, or that it is    *)
(* waiting at for the worker that was there before.                        *)
(***************************************************************************)
Missed(k) ==
    /\ proc[k] = "running"
    /\ \/ \E c \in Callers : pc[c] = "started" /\ held[c] = k
       \/ \E i \in Slots : slot[i] = k /\ i < closeIdx
       \/ closing = "wait" /\ slot[closeIdx] = k /\ waitFor # k

MissedAreOne == \A j, k \in Workers : Missed(j) /\ Missed(k) => j = k /\ k > Size

\* In the application the context ends before close begins, and starts fail from
\* then on: only the one replacement under way can be missed.
SweepInv ==
    /\ \A c \in Callers : pc[c] = "started" => held[c] > Size
    /\ phase = "ready" /\ closing # "no" => ctxDone /\ closeEnd = Size /\ MissedAreOne

LEMMA SweepStays ==
    ASSUME PoolInv, SweepInv, UNCHANGED <<ctxDone, closing, closeEnd, phase>>,
           \A c \in Callers : pc'[c] = "started" => pc[c] = "started" /\ held'[c] = held[c],
           phase = "ready" /\ closing # "no" => \A k \in Workers : Missed(k)' => Missed(k)
    PROVE  SweepInv'
BY DEF SweepInv, MissedAreOne, Workers

LEMMA SweepStep ==
    ASSUME PoolInv, SweepInv, [Next]_vars, Close => ctxDone
    PROVE  SweepInv'
<1> USE PoolAssumption DEF procVars, callVars, closeVars
<1>1. CASE StartNext \/ StartFails
  <2>1. phase' = "ready" => closing' = "no"
    BY <1>1 DEF StartNext, StartFails, PoolInv, Lifecycle
  <2>2. \A c \in Callers : pc'[c] # "started"
    BY <1>1 DEF StartNext, StartFails, PoolInv, Lifecycle
  <2> QED BY <2>1, <2>2 DEF SweepInv
<1>2. ASSUME NEW c \in Callers,
             \/ Pick(c) \/ ReadSlot(c) \/ CheckAlive(c) \/ LockSlot(c)
             \/ AlreadyReplaced(c) \/ ReplaceFails(c) \/ RenderReturns(c)
      PROVE  SweepInv'
  <2>1. UNCHANGED <<slot, procVars, phase, ctxDone, closeVars>>
    BY <1>2 DEF Pick, ReadSlot, CheckAlive, LockSlot, AlreadyReplaced, ReplaceFails, RenderReturns
  <2>2. \A d \in Callers : pc'[d] = "started" => pc[d] = "started" /\ held'[d] = held[d]
    BY <1>2 DEF Pick, ReadSlot, CheckAlive, LockSlot, AlreadyReplaced, ReplaceFails, RenderReturns,
                PoolInv, TypeOK
  <2>3. \A k \in Workers : Missed(k)' => Missed(k)
    BY <2>1, <2>2 DEF Missed
  <2> QED BY <2>1, <2>2, <2>3, SweepStays
<1>3. ASSUME NEW c \in Callers, Replace(c)
      PROVE  SweepInv'
  <2>1. phase' = "ready" /\ spawned >= Size /\ spawned \in Nat /\ ~ctxDone /\ closing' = closing
    BY <1>3 DEF Replace, newWorker, PoolInv, Lifecycle, TypeOK
  <2>2. held' = [held EXCEPT ![c] = spawned + 1] /\ pc' = [pc EXCEPT ![c] = "started"]
    BY <1>3 DEF Replace, newWorker
  <2>3. phase = "ready" /\ closing = "no"
    BY <1>3, <2>1 DEF Replace, SweepInv
  <2> QED BY <2>1, <2>2, <2>3 DEF SweepInv, PoolInv, TypeOK
<1>4. ASSUME NEW c \in Callers, Install(c)
      PROVE  SweepInv'
  <2>1. /\ pc[c] = "started" /\ idx[c] \in Slots
        /\ slot' = [slot EXCEPT ![idx[c]] = held[c]]
        /\ pc' = [pc EXCEPT ![c] = "using"]
        /\ UNCHANGED <<procVars, phase, idx, held, ctxDone, closeVars>>
    BY <1>4 DEF Install, PoolInv, TypeOK
  <2>2. \A d \in Callers : pc'[d] = "started" => pc[d] = "started" /\ held'[d] = held[d]
    BY <2>1 DEF PoolInv, TypeOK
  <2>3. ASSUME NEW k \in Workers, Missed(k)'
        PROVE  Missed(k)
    <3>1. proc[k] = "running"
      BY <2>1, <2>3 DEF Missed
    <3>2. CASE k = held[c]
      BY <2>1, <3>1, <3>2 DEF Missed
    <3>3. CASE k # held[c]
      <4>1. \A i : slot'[i] = k => slot[i] = k
        BY <2>1, <3>3 DEF PoolInv, TypeOK
      <4> QED BY <2>1, <2>2, <2>3, <4>1 DEF Missed
    <3> QED BY <3>2, <3>3
  <2> QED BY <2>1, <2>2, <2>3, SweepStays
<1>5. ASSUME NEW k \in Workers, Crash(k) \/ Kill(k) \/ ExitOnEOF(k) \/ CloseDone(k)
      PROVE  SweepInv'
  <2>1. /\ UNCHANGED <<slot, phase, callVars, ctxDone, closeVars>>
        /\ \A j \in Workers : proc'[j] = "running" => proc[j] = "running"
    BY <1>5 DEF Crash, Kill, ExitOnEOF, CloseDone, Exit, PoolInv, TypeOK
  <2>2. \A j \in Workers : Missed(j)' => Missed(j)
    BY <2>1 DEF Missed
  <2> QED BY <2>1, <2>2, SweepStays
<1>6. CASE Close
  <2>1. /\ UNCHANGED <<slot, procVars, phase, callVars, ctxDone>>
        /\ ctxDone /\ closing' = "next" /\ closeIdx' = 0 /\ closeEnd' = Size
    BY <1>6 DEF Close
  <2>2. ASSUME NEW j \in Workers, Missed(j)'
        PROVE  \E c \in Callers : pc[c] = "started" /\ held[c] = j
    BY <2>1, <2>2 DEF Missed, Slots
  <2>3. MissedAreOne'
    <3> SUFFICES ASSUME NEW j \in Workers, NEW k \in Workers, Missed(j)', Missed(k)'
                 PROVE  j = k /\ k > Size
      BY DEF MissedAreOne, Workers
    <3>1. PICK c \in Callers : pc[c] = "started" /\ held[c] = j
      BY <2>2
    <3>2. PICK d \in Callers : pc[d] = "started" /\ held[d] = k
      BY <2>2
    <3>3. c = d
      BY <3>1, <3>2 DEF PoolInv, LockInv, HoldsLock
    <3> QED BY <3>1, <3>2, <3>3 DEF SweepInv
  <2> QED BY <2>1, <2>3 DEF SweepInv
<1>7. CASE CloseStdin
  <2>1. /\ UNCHANGED <<slot, proc, phase, callVars, ctxDone, closeIdx, closeEnd>>
        /\ closing = "next" /\ closing' = "wait" /\ waitFor' = slot[closeIdx]
    BY <1>7 DEF CloseStdin
  <2>2. \A j \in Workers : Missed(j)' => Missed(j)
    BY <2>1 DEF Missed
  <2> QED BY <2>1, <2>2 DEF SweepInv, MissedAreOne, Workers
<1>8. CASE Wait
  <2>1. /\ UNCHANGED <<slot, phase, callVars, ctxDone, closeEnd>>
        /\ closing = "wait" /\ closing' = "next" /\ closeIdx' = closeIdx + 1
        /\ proc[waitFor] = "exited" /\ proc' = [proc EXCEPT ![waitFor] = "reaped"]
    BY <1>8 DEF Wait
  <2>2. ASSUME NEW j \in Workers, Missed(j)'
        PROVE  Missed(j)
    <3>1. proc[j] = "running" /\ j # waitFor
      BY <2>1, <2>2 DEF Missed, PoolInv, TypeOK
    <3>2. \A i \in Slots : i < closeIdx + 1 => i < closeIdx \/ i = closeIdx
      BY DEF PoolInv, TypeOK, Slots
    <3> QED BY <2>1, <2>2, <3>1, <3>2 DEF Missed
  <2> QED BY <2>1, <2>2 DEF SweepInv, MissedAreOne, Workers
<1>9. CASE CloseReturns
  <2>1. /\ UNCHANGED <<slot, proc, phase, callVars, ctxDone, closeIdx, closeEnd, waitFor>>
        /\ closing = "next" /\ closing' = "end"
    BY <1>9 DEF CloseReturns
  <2>2. \A j \in Workers : Missed(j)' => Missed(j)
    BY <2>1 DEF Missed
  <2> QED BY <2>1, <2>2 DEF SweepInv, MissedAreOne, Workers
<1>10. CASE CancelContext \/ Probe \/ UNCHANGED vars
  <2>1. /\ UNCHANGED <<slot, procVars, phase, callVars, closeVars>>
        /\ ctxDone => ctxDone'
    BY <1>10 DEF CancelContext, Probe, vars
  <2>2. \A j \in Workers : Missed(j)' => Missed(j)
    BY <2>1 DEF Missed
  <2> QED BY <2>1, <2>2 DEF SweepInv, MissedAreOne, Workers
<1> QED
  BY <1>1, <1>2, <1>3, <1>4, <1>5, <1>6, <1>7, <1>8, <1>9, <1>10 DEF Next, Call, closeRange

(***************************************************************************)
(* Pages and Run, in step with the pool.                                   *)
(***************************************************************************)
SlotsInStep ==
    /\ out \in [Callers -> {"none", "started", "asked", "ok", "err"}]
    /\ DOMAIN page = Pages
    /\ \A c \in Callers :
          /\ pc[c] # "idle" <=> out[c] = "asked"
          /\ out[c] \in {"started", "asked"} => page[PageOf[c]] = "rendering"

RunInStep ==
    /\ run = "serving" => phase = "ready"
    /\ run \in {"closing", "shutdown", "stopped"} => phase = "ready" /\ closing # "no"
    /\ run \in {"shutdown", "stopped"} => closing = "end"
    /\ run = "failed" => phase = "failed" /\ closing = "end"

AppInv == PoolInv /\ SweepInv /\ SlotsInStep /\ RunInStep

LEMMA AppInitInv == ASSUME InApp, App!Init PROVE AppInv
<1>1. Init
  BY SameConstruction DEF App!Init
<1>2. SweepInv
  BY <1>1 DEF Init, SweepInv
<1>3. SlotsInStep /\ RunInStep
  BY <1>1 DEF Init, App!Init, SlotsInStep, RunInStep
<1> QED BY <1>1, <1>2, <1>3, InitInv DEF AppInv

LEMMA AppPoolStep ==
    ASSUME InApp, AppInv, [App!Next]_(App!vars)
    PROVE  PoolInv' /\ SweepInv'
<1>1. [Next]_vars
  BY AppStepsPool
<1>2. PoolInv'
  BY <1>1, NextKeepsInv DEF AppInv
<1>3. Close => ctxDone
  <2> SUFFICES ASSUME closing = "no", closing' = "next", phase = "ready"
               PROVE  ctxDone
    BY DEF Close
  <2> USE SameVars, SameShutdown, SameConstruction DEF vars, closeVars
  <2>1. CASE App!Run
    BY <2>1 DEF App!Run, App!CloseRenderer, App!Shutdown, App!ShutdownReturns, App!ShutdownTimesOut
  <2>2. CASE App!StartRenderer \/ App!NewAppFails \/ App!CancelMerged \/ App!ForwardSignal \/ App!CloseWorkers
    BY <2>2 DEF App!StartRenderer, App!NewAppFails, App!CancelMerged, App!ForwardSignal, App!CloseWorkers,
       StartNext, StartFails, CancelContext, closeRange, CloseStdin, Wait, CloseReturns
  <2>3. ASSUME NEW c \in Callers, App!Slot(c) PROVE UNCHANGED closing
    <3>1. Pick(c) \/ Call(c) \/ UNCHANGED vars
      BY <2>3, SameCalls
      DEF App!Slot, App!AskPool, App!RenderLocally, App!GetWorker, App!NoWorker, App!SlotRendered, Call
    <3> QED
      BY <3>1 DEF Pick, Call, ReadSlot, CheckAlive, LockSlot, AlreadyReplaced, Replace, Install,
                  ReplaceFails, RenderReturns
  <2>4. ASSUME NEW k \in Workers, App!Hang(k) \/ App!Process(k) PROVE UNCHANGED closing
    BY <2>4, SameProcesses DEF App!Hang, App!Process, Crash, Kill, ExitOnEOF, CloseDone, Exit
  <2>5. ASSUME NEW p, App!Accept(p) \/ App!NoTemplate(p) \/ App!FinishPage(p) PROVE UNCHANGED closing
    BY <2>5 DEF App!Accept, App!NoTemplate, App!FinishPage
  <2>6. CASE App!Listen \/ App!Signal \/ UNCHANGED App!vars
    BY <2>6 DEF App!Listen, App!Signal, App!vars
  <2> QED BY <2>1, <2>2, <2>3, <2>4, <2>5, <2>6 DEF App!Next, Workers
<1> QED BY <1>1, <1>2, <1>3, SweepStep DEF AppInv

\* A page waits for its slots: no step ends one without its page's count.
LEMMA SlotsStayInStep ==
    ASSUME InApp, AppInv, [App!Next]_(App!vars)
    PROVE  SlotsInStep'
<1> USE SameVars, SameShutdown, SameConstruction DEF AppInv, InApp
<1>1. ASSUME NEW c \in Callers, App!Slot(c)
      PROVE  SlotsInStep'
  <2> DEFINE Moves(d) == /\ \A e \in Callers \ {d} : pc'[e] = pc[e] /\ out'[e] = out[e]
                         /\ out' \in [Callers -> {"none", "started", "asked", "ok", "err"}]
                         /\ pc'[d] # "idle" <=> out'[d] = "asked"
                         /\ out'[d] \in {"started", "asked"} => out[d] \in {"started", "asked"}
                         /\ UNCHANGED page
  <2>1. pc \in [Callers -> {"idle", "picked", "check", "dead", "locked", "started", "using"}]
        /\ out \in [Callers -> {"none", "started", "asked", "ok", "err"}]
        /\ (pc[c] # "idle" <=> out[c] = "asked")
    BY DEF PoolInv, TypeOK, SlotsInStep
  <2>2. ASSUME App!AskPool(c) PROVE Moves(c)
    <3>1. pc' = [pc EXCEPT ![c] = "picked"] /\ out[c] = "started" /\ out' = [out EXCEPT ![c] = "asked"] /\ UNCHANGED page
      BY <2>2, SameCalls DEF App!AskPool, Pick
    <3> QED BY <2>1, <3>1
  <2>3. ASSUME App!RenderLocally(c) PROVE Moves(c)
    <3>1. UNCHANGED <<pc, page>> /\ out[c] = "started" /\ \E o \in {"ok", "err"} : out' = [out EXCEPT ![c] = o]
      BY <2>3 DEF App!RenderLocally, App!poolVars
    <3> QED BY <2>1, <3>1
  <2>4. ASSUME App!GetWorker(c) PROVE Moves(c)
    <3>1. UNCHANGED <<out, page>> /\ pc[c] # "idle" /\ \E s : s # "idle" /\ pc' = [pc EXCEPT ![c] = s]
      <4>1. \/ ReadSlot(c) \/ CheckAlive(c) \/ LockSlot(c)
            \/ AlreadyReplaced(c) \/ Replace(c) \/ Install(c)
        BY <2>4, SameCalls DEF App!GetWorker
      <4>2. pc[c] # "idle" /\ \E s : s # "idle" /\ pc' = [pc EXCEPT ![c] = s]
        BY <4>1 DEF ReadSlot, CheckAlive, LockSlot, AlreadyReplaced, Replace, Install
      <4> QED BY <2>4, <4>2 DEF App!GetWorker, App!appVars
    <3> QED BY <2>1, <3>1
  <2>5. ASSUME App!NoWorker(c) \/ App!SlotRendered(c) PROVE Moves(c)
    <3>1. UNCHANGED page /\ pc' = [pc EXCEPT ![c] = "idle"] /\ \E o \in {"ok", "err"} : out' = [out EXCEPT ![c] = o]
      BY <2>5, SameCalls DEF App!NoWorker, App!SlotRendered, ReplaceFails, RenderReturns
    <3> QED BY <2>1, <3>1
  <2>6. Moves(c)
    BY <1>1, <2>2, <2>3, <2>4, <2>5 DEF App!Slot
  <2> QED BY <2>6 DEF SlotsInStep
<1>2. ASSUME NEW p \in Pages, App!Accept(p)
      PROVE  SlotsInStep'
  <2>1. /\ page[p] = "none" /\ page' = [page EXCEPT ![p] = "rendering"] /\ UNCHANGED pc
        /\ out' = [c \in Callers |-> IF PageOf[c] = p THEN "started" ELSE out[c]]
    BY <1>2 DEF App!Accept, App!poolVars
  <2>2. \A c \in Callers : PageOf[c] = p => pc[c] = "idle"
    BY <2>1 DEF SlotsInStep
  <2> QED BY <2>1, <2>2 DEF SlotsInStep
<1>3. ASSUME NEW p \in Pages, App!NoTemplate(p) \/ App!FinishPage(p)
      PROVE  SlotsInStep'
  <2>1. \A c \in Callers : PageOf[c] = p => out[c] \notin {"started", "asked"}
    BY <1>3 DEF App!NoTemplate, App!FinishPage, App!SlotsOf, SlotsInStep
  <2>2. UNCHANGED <<pc, out>> /\ \E o : page' = [page EXCEPT ![p] = o]
    BY <1>3 DEF App!NoTemplate, App!FinishPage, App!poolVars
  <2> QED BY <2>1, <2>2 DEF SlotsInStep
<1>4. ASSUME UNCHANGED <<pc, page, out>>
      PROVE  SlotsInStep'
  BY <1>4 DEF SlotsInStep
<1>5. CASE App!StartRenderer \/ App!NewAppFails \/ App!CancelMerged \/ App!ForwardSignal \/ App!CloseWorkers
  <2>1. \/ StartNext \/ StartFails \/ CancelContext \/ closeRange
        \/ UNCHANGED vars
    BY <1>5 DEF App!StartRenderer, App!NewAppFails, App!CancelMerged, App!ForwardSignal, App!CloseWorkers
  <2>2. UNCHANGED pc
    BY <2>1 DEF StartNext, StartFails, CancelContext, closeRange, CloseStdin, Wait, CloseReturns, vars, callVars
  <2>3. UNCHANGED <<page, out>>
    BY <1>5 DEF App!StartRenderer, App!NewAppFails, App!CancelMerged, App!ForwardSignal, App!CloseWorkers,
                App!appVars
  <2> QED BY <1>4, <2>2, <2>3
<1>6. ASSUME NEW k \in Workers, App!Hang(k) \/ App!Process(k)
      PROVE  SlotsInStep'
  <2>1. UNCHANGED <<page, out>>
    BY <1>6 DEF App!Hang, App!Process, App!appVars
  <2>2. UNCHANGED pc
    <3>1. Crash(k) \/ Kill(k) \/ ExitOnEOF(k) \/ CloseDone(k) \/ UNCHANGED vars
      BY <1>6, SameProcesses DEF App!Hang, App!Process
    <3> QED BY <3>1 DEF Crash, Kill, ExitOnEOF, CloseDone, Exit, vars, callVars
  <2> QED BY <1>4, <2>1, <2>2
<1>7. CASE App!Run \/ App!Listen \/ App!Signal \/ UNCHANGED App!vars
  <2>1. UNCHANGED <<pc, page, out>>
    BY <1>7 DEF App!Run, App!Listen, App!Signal, App!CloseRenderer, App!Shutdown, App!ShutdownReturns,
                App!ShutdownTimesOut, Close, callVars, App!poolVars, App!vars, App!appVars
  <2> QED BY <1>4, <2>1
<1> QED
  BY <1>1, <1>2, <1>3, <1>5, <1>6, <1>7 DEF App!Next, Workers

LEMMA RunStaysInStep ==
    ASSUME InApp, AppInv, [App!Next]_(App!vars)
    PROVE  RunInStep'
<1> USE SameVars, SameShutdown, SameConstruction DEF AppInv
<1>1. CASE App!CloseRenderer
  <2>1. phase = "ready" /\ phase' = "ready" /\ closing' = "next" /\ run' = "closing"
    BY <1>1 DEF App!CloseRenderer, Close
  <2> QED BY <2>1 DEF RunInStep
<1>2. CASE App!Listen \/ App!Shutdown \/ App!ShutdownReturns \/ App!ShutdownTimesOut
  <2>1. UNCHANGED <<phase, closing>>
    BY <1>2 DEF App!Listen, App!Shutdown, App!ShutdownReturns, App!ShutdownTimesOut, App!poolVars
  <2> QED
    BY <1>2, <2>1
    DEF App!Listen, App!Shutdown, App!ShutdownReturns, App!ShutdownTimesOut, RunInStep
<1>3. CASE App!NewAppFails
  <2>1. UNCHANGED <<phase, closing>>
    BY <1>3 DEF App!NewAppFails, CancelContext, vars, closeVars
  <2> QED BY <1>3, <2>1 DEF App!NewAppFails, RunInStep
<1>4. ASSUME UNCHANGED run,
             phase = "ready" => phase' = "ready", phase = "failed" => phase' = "failed",
             closing # "no" => closing' # "no", closing = "end" => closing' = "end"
      PROVE  RunInStep'
  BY <1>4 DEF RunInStep
<1>5. ASSUME UNCHANGED run, Next \/ UNCHANGED vars
      PROVE  RunInStep'
  <2> USE DEF closeVars
  <2>1. CASE StartNext \/ StartFails \/ Close \/ closeRange
    <3>1. phase = "starting" \/ UNCHANGED phase
      BY <2>1 DEF StartNext, StartFails, Close, closeRange, CloseStdin, Wait, CloseReturns
    <3>2. phase = "starting" => closing = "no"
      BY DEF PoolInv, Lifecycle
    <3>3. closing # "no" => closing' # "no" /\ closing # "end"
      BY <2>1, <3>2 DEF StartNext, StartFails, Close, closeRange, CloseStdin, Wait, CloseReturns
    <3> QED BY <1>4, <1>5, <3>1, <3>2, <3>3
  <2>2. ASSUME NEW c \in Callers, Pick(c) \/ Call(c)
        PROVE  UNCHANGED <<phase, closing>>
    BY <2>2 DEF Pick, Call, ReadSlot, CheckAlive, LockSlot, AlreadyReplaced, Replace, Install,
                ReplaceFails, RenderReturns
  <2>3. ASSUME NEW k \in Workers, Crash(k) \/ Kill(k) \/ ExitOnEOF(k) \/ CloseDone(k)
        PROVE  UNCHANGED <<phase, closing>>
    BY <2>3 DEF Crash, Kill, ExitOnEOF, CloseDone, Exit
  <2>4. ASSUME CancelContext \/ Probe \/ UNCHANGED vars
        PROVE  UNCHANGED <<phase, closing>>
    BY <2>4 DEF CancelContext, Probe, vars
  <2> QED BY <1>4, <1>5, <2>1, <2>2, <2>3, <2>4 DEF Next
<1>6. ASSUME ~(App!Run \/ App!Listen \/ App!NewAppFails)
      PROVE  UNCHANGED run
  BY <1>6
  DEF App!Next, App!vars, App!appVars, App!StartRenderer, App!Signal, App!CancelMerged, App!ForwardSignal,
      App!Accept, App!NoTemplate, App!FinishPage, App!Slot, App!AskPool, App!RenderLocally, App!GetWorker,
      App!NoWorker, App!SlotRendered, App!Hang, App!Process, App!CloseWorkers
<1> QED
  BY <1>1, <1>2, <1>3, <1>5, <1>6, AppStepsPool DEF App!Run

LEMMA AppInvStep == ASSUME InApp PROVE AppInv /\ [App!Next]_(App!vars) => AppInv'
BY AppPoolStep, SlotsStayInStep, RunStaysInStep DEF AppInv

\* Whatever becomes of the workers its slots ask for, in the application a page
\* is answered after its last slot goroutine has left the pool.
THEOREM PagesWaitForSlots ==
    ASSUME InApp
    PROVE  App!Spec => []App!SlotsAreWaitedFor
<1>1. App!Init => AppInv
  BY AppInitInv
<1>2. AppInv /\ [App!Next]_(App!vars) => AppInv'
  BY AppInvStep
<1>3. AppInv => App!SlotsAreWaitedFor
  BY DEF AppInv, SlotsInStep, App!SlotsAreWaitedFor
<1> QED BY <1>1, <1>2, <1>3, PTL DEF App!Spec

\* For any ring and any number of replacements racing with shutdown: close
\* misses no worker but one, and that one is a replacement.
THEOREM CloseMissesOne ==
    ASSUME InApp
    PROVE  App!Spec => []App!AtMostOneLeft
<1>1. App!Init => AppInv
  BY AppInitInv
<1>2. AppInv /\ [App!Next]_(App!vars) => AppInv'
  BY AppInvStep
<1>3. AppInv => App!AtMostOneLeft
  <2> SUFFICES ASSUME AppInv PROVE App!AtMostOneLeft
    OBVIOUS
  <2> USE SameVars DEF AppInv
  <2>1. ASSUME run = "failed", NEW k \in Workers
        PROVE  proc[k] # "running"
    BY <2>1, FailedLeavesNone DEF RunInStep, FailedStartLeavesNothing
  <2>2. ASSUME run \in {"shutdown", "stopped"}, NEW k \in Workers, proc[k] = "running"
        PROVE  Missed(k)
    <3>1. closing = "end" /\ phase = "ready"
      BY <2>2 DEF RunInStep
    <3>2. closeIdx = Size
      BY <3>1 DEF SweepInv, PoolInv, CloseInRange
    <3>3. \A i \in Slots : i < Size
      BY PoolAssumption DEF Slots
    <3> QED BY <2>2, <3>2, <3>3 DEF PoolInv, NoOrphanProcess, Missed
  <2>3. run \in {"shutdown", "stopped"} => MissedAreOne
    BY DEF RunInStep, SweepInv
  <2> QED BY <2>1, <2>2, <2>3 DEF App!AtMostOneLeft, MissedAreOne
<1> QED BY <1>1, <1>2, <1>3, PTL DEF App!Spec
=============================================================================
