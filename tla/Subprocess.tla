----------------------------- MODULE Subprocess -----------------------------
(***************************************************************************)
(* What the pool may rely on of one worker: the process is started, ends   *)
(* on its own, by a signal or when its stdin is closed, and is waited for  *)
(* by close alone; done is closed once, and not while the process runs.    *)
(*                                                                         *)
(* Worker implements this specification, and so does Pool for each of its  *)
(* workers: the pool's view of a worker is what a worker is.               *)
(***************************************************************************)
VARIABLES proc,         \* the process: "none", "running", "exited" or "reaped"
          done,         \* whether the done channel is closed
          eof           \* whether stdin has been closed

vars == <<proc, done, eof>>

Init == proc \in {"none", "running"} /\ done = FALSE /\ eof = FALSE

Start      == proc = "none" /\ proc' = "running" /\ UNCHANGED <<done, eof>>
CloseStdin == proc # "none" /\ eof' = TRUE /\ UNCHANGED <<proc, done>>
Exit       == proc = "running" /\ proc' = "exited" /\ UNCHANGED <<done, eof>>
Wait       == eof /\ proc = "exited" /\ proc' = "reaped" /\ UNCHANGED <<done, eof>>
CloseDone  == ~done /\ proc \in {"exited", "reaped"} /\ done' = TRUE /\ UNCHANGED <<proc, eof>>

Next == Start \/ CloseStdin \/ Exit \/ Wait \/ CloseDone

Spec == Init /\ [][Next]_vars
=============================================================================
