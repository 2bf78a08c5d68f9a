--------------------------- MODULE RenderService ---------------------------
(***************************************************************************)
(* What a render call promises its caller, with no processes, pipes or     *)
(* request identifiers: every call ends at most once, either with the      *)
(* markup of the very component it asked for or with an error.             *)
(*                                                                         *)
(* Worker implements this specification; see the refinement there.         *)
(***************************************************************************)
CONSTANTS Callers,      \* goroutines that call render
          Components,   \* component names; also the markup each one renders to
          NoHTML        \* the reply of a call that ended with an error; no
                        \* component is called that

VARIABLES busy,         \* the callers whose call is in progress
          asked,        \* asked[c]: the component of c's latest call
          reply         \* reply[c]: what c's latest finished call returned

vars == <<busy, asked, reply>>

Init ==
    /\ busy = {}
    /\ asked = [c \in Callers |-> NoHTML]
    /\ reply = [c \in Callers |-> NoHTML]

Submit(c, comp) ==
    /\ c \notin busy
    /\ busy' = busy \cup {c}
    /\ asked' = [asked EXCEPT ![c] = comp]
    /\ reply' = [reply EXCEPT ![c] = NoHTML]

Answer(c) ==
    /\ c \in busy
    /\ busy' = busy \ {c}
    /\ reply' = [reply EXCEPT ![c] = asked[c]]
    /\ UNCHANGED asked

Fail(c) ==
    /\ c \in busy
    /\ busy' = busy \ {c}
    /\ UNCHANGED <<asked, reply>>

Next ==
    \E c \in Callers : \/ \E comp \in Components : Submit(c, comp)
                       \/ Answer(c)
                       \/ Fail(c)

Spec == Init /\ [][Next]_vars
=============================================================================
