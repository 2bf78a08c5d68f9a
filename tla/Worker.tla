------------------------------- MODULE Worker -------------------------------
(***************************************************************************)
(* One worker: a Node.js subprocess that many goroutines share.  A caller  *)
(* registers a request under a fresh identifier, writes it to the          *)
(* process's stdin and waits; a single reader goroutine takes lines off    *)
(* stdout and hands each one to the caller registered under its            *)
(* identifier.  The process may print noise, hang, or die at any moment,   *)
(* callers may be cancelled, and close may run concurrently with all of    *)
(* it.                                                                     *)
(*                                                                         *)
(* Data is reduced to what the routing can confuse: a request is the       *)
(* component it names, and a rendered page is the name of the component it *)
(* shows.                                                                  *)
(***************************************************************************)
EXTENDS Naturals, Sequences

CONSTANTS Callers,      \* goroutines that call render
          Components,   \* component names; also the markup each one renders to
          NoHTML,       \* the HTML field of a response that carries an error
          MaxID,        \* largest request identifier (2^64 - 1 in the code)
          StdinCap,     \* lines the stdin pipe holds before a write blocks
          StdoutCap,    \* lines the stdout pipe holds before Node blocks
          Faults        \* which of the process's misbehaviours are considered

ASSUME WorkerAssumption ==
    /\ NoHTML \notin Components
    /\ MaxID \in Nat
    /\ StdinCap \in Nat \ {0}
    /\ StdoutCap \in Nat \ {0}
    /\ Faults \subseteq {"noise", "corrupt", "hang", "crash"}

IDs == 1..MaxID

Requests  == [id : IDs, component : Components]
\* A parsed response; id 0 is the zero value of the field.
Responses == [id : 0..MaxID, html : Components \cup {NoHTML}]
\* A line of stdout: json says whether json.Unmarshal accepts it.
Lines     == [json : BOOLEAN, resp : Responses]

ErrorResponse(id) == [id |-> id, html |-> NoHTML]
Garbage == [json |-> FALSE, resp |-> ErrorResponse(0)]

VARIABLES
    pc,         \* pc[c]: how far caller c is in render
    id,         \* id[c]: the identifier of c's request
    req,        \* req[c]: the component c asked for
    ctxDone,    \* the callers whose context is done
    result,     \* result[c]: what c's latest call returned
    nextID,     \* the identifier generator
    pending,    \* identifiers present in the pending map
    chan,       \* chan[k]: contents of the reply channel of request k
    stdin,      \* lines written to Node and not read by it yet
    stdout,     \* lines written by Node and not read by the reader yet
    node,       \* state of the process
    reader,     \* how far the reader goroutine is in readLoop
    cur,        \* the response the reader is dispatching
    closer      \* how far close has come

callerVars == <<pc, id, req, ctxDone, result>>
nodeVars   == <<stdin, stdout, node>>
readerVars == <<reader, cur>>
mapVars    == <<nextID, pending, chan>>
vars == <<callerVars, mapVars, nodeVars, readerVars, closer>>

\* done is closed by the reader's deferred close when readLoop returns.
done == reader = "exited"

\* alive reports whether the reader goroutine is still running.
alive == ~done

\* Callers between registration and the moment the outcome is decided.
InFlight == {c \in Callers : pc[c] \in {"registered", "writing", "waiting"}}

Init ==
    /\ pc = [c \in Callers |-> "idle"]
    /\ id = [c \in Callers |-> 0]
    /\ req = [c \in Callers |-> NoHTML]
    /\ ctxDone = {}
    /\ result = [c \in Callers |-> NoHTML]
    /\ nextID = 0
    /\ pending = {}
    /\ chan = [k \in IDs |-> {}]
    /\ stdin = <<>>
    /\ stdout = <<>>
    /\ node = "running"
    /\ reader = "read"
    /\ cur = ErrorResponse(0)
    /\ closer = "open"
-----------------------------------------------------------------------------
(***************************************************************************)
(* render                                                                  *)
(***************************************************************************)

\* Mutant: identifiers are recycled as soon as the map no longer holds them.
Register_Recycled(c, comp) ==
    /\ pc[c] = "idle"
    /\ \E k \in IDs \ pending :
          /\ pending' = pending \cup {k}
          /\ id' = [id EXCEPT ![c] = k]
          /\ chan' = [chan EXCEPT ![k] = {}]
    /\ req' = [req EXCEPT ![c] = comp]
    /\ result' = [result EXCEPT ![c] = NoHTML]
    /\ pc' = [pc EXCEPT ![c] = "registered"]
    /\ UNCHANGED <<ctxDone, nextID, nodeVars, readerVars, closer>>

\* Take a fresh identifier and enter it in the pending map with an empty
\* reply channel, before anything is written.
Register(c, comp) ==
    /\ pc[c] = "idle"
    /\ nextID < MaxID
    /\ nextID' = nextID + 1
    /\ pending' = pending \cup {nextID'}
    /\ id' = [id EXCEPT ![c] = nextID']
    /\ req' = [req EXCEPT ![c] = comp]
    /\ result' = [result EXCEPT ![c] = NoHTML]
    /\ pc' = [pc EXCEPT ![c] = "registered"]
    /\ UNCHANGED <<ctxDone, chan, nodeVars, readerVars, closer>>

\* Leave the body of render with an error; the deferred delete comes next.
LeaveWithError(c) ==
    /\ pc' = [pc EXCEPT ![c] = "leaving"]
    /\ UNCHANGED <<id, req, ctxDone, result>>

\* json.Marshal rejects the request's props.
MarshalFails(c) ==
    /\ pc[c] = "registered"
    /\ LeaveWithError(c)
    /\ UNCHANGED <<mapVars, nodeVars, readerVars, closer>>

\* writeMu is held exactly while its owner is at "writing".
LockWrite(c) ==
    /\ pc[c] = "registered"
    /\ \A d \in Callers : pc[d] # "writing"
    /\ pc' = [pc EXCEPT ![c] = "writing"]
    /\ UNCHANGED <<id, req, ctxDone, result, mapVars, nodeVars, readerVars, closer>>

StdinBroken == node = "exited" \/ closer # "open"

\* The write goes through once the pipe has room; until then it blocks, and
\* nothing in writeRequest looks at the caller's context.
WriteRequest(c) ==
    /\ pc[c] = "writing"
    /\ ~StdinBroken
    /\ Len(stdin) < StdinCap
    /\ stdin' = Append(stdin, [id |-> id[c], component |-> req[c]])
    /\ pc' = [pc EXCEPT ![c] = "waiting"]
    /\ UNCHANGED <<id, req, ctxDone, result, mapVars, stdout, node, readerVars, closer>>

WriteFails(c) ==
    /\ pc[c] = "writing"
    /\ StdinBroken
    /\ LeaveWithError(c)
    /\ UNCHANGED <<mapVars, nodeVars, readerVars, closer>>

\* The three branches of select; when several are ready any of them is taken.
SelectResponse(c) ==
    /\ pc[c] = "waiting"
    /\ \E r \in chan[id[c]] : result' = [result EXCEPT ![c] = r.html]
    /\ chan' = [chan EXCEPT ![id[c]] = {}]
    /\ pc' = [pc EXCEPT ![c] = "leaving"]
    /\ UNCHANGED <<id, req, ctxDone, nextID, pending, nodeVars, readerVars, closer>>

SelectDone(c) ==
    /\ pc[c] = "waiting"
    /\ done
    /\ LeaveWithError(c)
    /\ UNCHANGED <<mapVars, nodeVars, readerVars, closer>>

SelectCancelled(c) ==
    /\ pc[c] = "waiting"
    /\ c \in ctxDone
    /\ LeaveWithError(c)
    /\ UNCHANGED <<mapVars, nodeVars, readerVars, closer>>

\* Mutant: an exit path that does not delete the entry.
Deregister_Missing(c) ==
    /\ pc[c] = "leaving"
    /\ pc' = [pc EXCEPT ![c] = "idle"]
    /\ ctxDone' = ctxDone \ {c}
    /\ UNCHANGED <<id, req, result, mapVars, nodeVars, readerVars, closer>>

\* Mutant: the deferred function deletes the newest identifier, not its own.
Deregister_Newest(c) ==
    /\ pc[c] = "leaving"
    /\ pending' = pending \ {nextID}
    /\ pc' = [pc EXCEPT ![c] = "idle"]
    /\ ctxDone' = ctxDone \ {c}
    /\ UNCHANGED <<id, req, result, nextID, chan, nodeVars, readerVars, closer>>

Deregister(c) ==
    /\ pc[c] = "leaving"
    /\ pending' = pending \ {id[c]}
    /\ pc' = [pc EXCEPT ![c] = "idle"]
    /\ ctxDone' = ctxDone \ {c}
    /\ UNCHANGED <<id, req, result, nextID, chan, nodeVars, readerVars, closer>>

\* The caller's deadline passes or its HTTP client goes away.
Cancel(c) ==
    /\ c \in InFlight \ ctxDone
    /\ ctxDone' = ctxDone \cup {c}
    /\ UNCHANGED <<pc, id, req, result, mapVars, nodeVars, readerVars, closer>>

Caller(c) ==
    \/ \E comp \in Components : Register(c, comp)
    \/ MarshalFails(c)
    \/ LockWrite(c)
    \/ WriteRequest(c)
    \/ WriteFails(c)
    \/ SelectResponse(c)
    \/ SelectDone(c)
    \/ SelectCancelled(c)
    \/ Deregister(c)
    \/ Cancel(c)
-----------------------------------------------------------------------------
(***************************************************************************)
(* readLoop                                                                *)
(***************************************************************************)

\* Mutant: a line that does not parse ends the goroutine without closing done.
ReadLine_GivesUp ==
    /\ reader = "read"
    /\ stdout # <<>>
    /\ stdout' = Tail(stdout)
    /\ IF Head(stdout).json
         THEN reader' = "lookup" /\ cur' = Head(stdout).resp
         ELSE reader' = "gone" /\ cur' = cur
    /\ UNCHANGED <<callerVars, mapVars, stdin, node, closer>>

\* Take the next line; one that does not parse is skipped.
ReadLine ==
    /\ reader = "read"
    /\ stdout # <<>>
    /\ stdout' = Tail(stdout)
    /\ IF Head(stdout).json
         THEN reader' = "lookup" /\ cur' = Head(stdout).resp
         ELSE UNCHANGED readerVars
    /\ UNCHANGED <<callerVars, mapVars, stdin, node, closer>>

\* dispatch, first half: look the identifier up under pendingMu.
Lookup ==
    /\ reader = "lookup"
    /\ reader' = IF cur.id \in pending THEN "send" ELSE "read"
    /\ UNCHANGED <<callerVars, mapVars, nodeVars, cur, closer>>

\* Mutant: the response goes to the newest call.
Send_ToNewest ==
    /\ reader = "send"
    /\ chan' = [chan EXCEPT ![nextID] = {cur}]
    /\ reader' = "read"
    /\ UNCHANGED <<callerVars, nextID, pending, nodeVars, cur, closer>>

\* dispatch, second half: non-blocking send, outside the lock, into a
\* channel of capacity one whose owner may have left meanwhile.
Send ==
    /\ reader = "send"
    /\ chan' = IF chan[cur.id] = {} THEN [chan EXCEPT ![cur.id] = {cur}] ELSE chan
    /\ reader' = "read"
    /\ UNCHANGED <<callerVars, nextID, pending, nodeVars, cur, closer>>

\* Mutant: the reader gives up as soon as close has been called.
ReadFails_OnClose ==
    /\ reader = "read"
    /\ stdout = <<>>
    /\ node = "exited" \/ closer # "open"
    /\ reader' = "drain"
    /\ UNCHANGED <<callerVars, mapVars, nodeVars, cur, closer>>

\* Nothing is left to read from a dead process: EOF, or the error of a pipe
\* that close has already closed.
ReadFails ==
    /\ reader = "read"
    /\ stdout = <<>>
    /\ node = "exited"
    /\ reader' = "drain"
    /\ UNCHANGED <<callerVars, mapVars, nodeVars, cur, closer>>

drainPending ==
    /\ reader = "drain"
    /\ chan' = [k \in IDs |-> IF k \in pending /\ chan[k] = {}
                                THEN {ErrorResponse(0)} ELSE chan[k]]
    /\ pending' = {}
    /\ reader' = "drained"
    /\ UNCHANGED <<callerVars, nextID, nodeVars, cur, closer>>

CloseDone ==
    /\ reader = "drained"
    /\ reader' = "exited"
    /\ UNCHANGED <<callerVars, mapVars, nodeVars, cur, closer>>

readLoop == ReadLine \/ Lookup \/ Send \/ ReadFails \/ drainPending \/ CloseDone
-----------------------------------------------------------------------------
(***************************************************************************)
(* The Node process: render-server.js and the components it runs           *)
(***************************************************************************)

Emit(line) ==
    /\ node = "running"
    /\ Len(stdout) < StdoutCap
    /\ stdout' = Append(stdout, line)
    /\ UNCHANGED <<callerVars, mapVars, node, readerVars, closer>>

\* Serve one request line: the component's markup, or an error naming the
\* same request.
handleRequest ==
    /\ stdin # <<>>
    /\ stdin' = Tail(stdin)
    /\ \E html \in {Head(stdin).component, NoHTML} :
          Emit([json |-> TRUE, resp |-> [id |-> Head(stdin).id, html |-> html]])

\* The component wrote to stdout without a newline: its output and the
\* response share a line that is not JSON.
CorruptAnswer ==
    /\ "corrupt" \in Faults
    /\ stdin # <<>>
    /\ stdin' = Tail(stdin)
    /\ Emit(Garbage)

\* A component logs a whole line to stdout: text, or JSON of its own, which
\* unmarshals into a response that names no request.
Noise ==
    /\ "noise" \in Faults
    /\ \E json \in BOOLEAN : Emit([json |-> json, resp |-> ErrorResponse(0)])
    /\ UNCHANGED stdin

\* A component never returns; the event loop is stuck with it.
Hang ==
    /\ "hang" \in Faults
    /\ node = "running"
    /\ stdin # <<>>
    /\ stdin' = Tail(stdin)
    /\ node' = "hung"
    /\ UNCHANGED <<callerVars, mapVars, stdout, readerVars, closer>>

Exit ==
    /\ node' = "exited"
    /\ stdin' = <<>>
    /\ UNCHANGED <<callerVars, mapVars, stdout, readerVars, closer>>

\* Uncaught exception, unhandled rejection, or SIGKILL from the pool's
\* context; what was written to stdout before stays readable.
Crash ==
    /\ "crash" \in Faults
    /\ node # "exited"
    /\ Exit

\* readline reports the end of stdin after the last line: process.exit(0).
ExitOnEOF ==
    /\ node = "running"
    /\ closer # "open"
    /\ stdin = <<>>
    /\ Exit

Node == handleRequest \/ CorruptAnswer \/ Noise \/ Hang \/ Crash \/ ExitOnEOF
-----------------------------------------------------------------------------
(***************************************************************************)
(* close                                                                   *)
(***************************************************************************)

CloseStdin ==
    /\ closer = "open"
    /\ closer' = "waiting"
    /\ UNCHANGED <<callerVars, mapVars, nodeVars, readerVars>>

\* cmd.Wait returns once the process is gone and closes the read end of
\* stdout; of the unread lines only those the reader's buffer already holds
\* remain.
Wait ==
    /\ closer = "waiting"
    /\ node = "exited"
    /\ closer' = "closed"
    /\ \E n \in 0..Len(stdout) : stdout' = SubSeq(stdout, 1, n)
    /\ UNCHANGED <<callerVars, mapVars, stdin, node, readerVars>>

Close == CloseStdin \/ Wait
-----------------------------------------------------------------------------
Next == (\E c \in Callers : Caller(c)) \/ readLoop \/ Node \/ Close

Spec == Init /\ [][Next]_vars

(***************************************************************************)
(* The scheduler runs every goroutine that can run; a mutex under          *)
(* contention is handed to the longest waiter, hence strong fairness for   *)
(* LockWrite.  A process that neither hangs nor dies serves its input,     *)
(* however much its components print in between.                           *)
(* Nothing forces a cancellation, a fault or a close.                      *)
(***************************************************************************)
Fairness ==
    /\ \A c \in Callers :
          /\ SF_vars(LockWrite(c))
          /\ WF_vars(WriteRequest(c))
          /\ WF_vars(WriteFails(c))
          /\ WF_vars(SelectResponse(c) \/ SelectDone(c) \/ SelectCancelled(c))
          /\ WF_vars(Deregister(c))
    /\ WF_vars(readLoop)
    /\ SF_vars(handleRequest \/ CorruptAnswer)
    /\ WF_vars(ExitOnEOF)
    /\ WF_vars(Wait)

FairSpec == Spec /\ Fairness
-----------------------------------------------------------------------------
(***************************************************************************)
(* Properties                                                              *)
(***************************************************************************)

TypeOK ==
    /\ pc \in [Callers -> {"idle", "registered", "writing", "waiting", "leaving"}]
    /\ id \in [Callers -> 0..MaxID]
    /\ req \in [Callers -> Components \cup {NoHTML}]
    /\ ctxDone \in SUBSET Callers
    /\ result \in [Callers -> Components \cup {NoHTML}]
    /\ nextID \in 0..MaxID
    /\ pending \in SUBSET IDs
    /\ chan \in [IDs -> SUBSET Responses]
    /\ stdin \in Seq(Requests)
    /\ stdout \in Seq(Lines)
    /\ node \in {"running", "hung", "exited"}
    /\ reader \in {"read", "lookup", "send", "drain", "drained", "exited"}
    /\ cur \in Responses
    /\ closer \in {"open", "waiting", "closed"}

\* A page returned by render is the page of the component that caller asked
\* for, however requests, late answers and abandoned calls interleave on the
\* shared pipes.
OwnReply ==
    \A c \in Callers : result[c] # NoHTML => result[c] = req[c]

\* The pending map holds no entry of a call that has returned: every exit
\* path of render removes its own, and the drain removes the rest.
NoPendingLeak ==
    \A k \in pending : \E c \in Callers : pc[c] # "idle" /\ id[c] = k

\* dispatch discards a response only when nobody waits for it any more:
\* registering before writing closes the window in which an answer could
\* overtake its own registration.
NoLiveResponseDiscarded ==
    [][reader = "lookup" /\ reader' = "read" =>
          \A c \in InFlight : id[c] # cur.id]_vars

\* Every call returns when Node answers or dies: no caller is left behind by
\* a call registered around the drain, by a full pipe or by the write lock.
EveryRenderReturns ==
    \A c \in Callers : pc[c] # "idle" ~> pc[c] = "idle"

\* The calls of a worker are calls of the abstract render service; a call is
\* over as soon as its outcome is decided.
Service == INSTANCE RenderService WITH busy <- InFlight, asked <- req, reply <- result
ImplementsRenderService == Service!Spec

\* To its pool a worker is a process that ends once and is reaped by close, and a
\* done channel that is closed only after the process is gone.
Life == INSTANCE Subprocess WITH
            proc <- IF node # "exited" THEN "running" ELSE IF closer = "closed" THEN "reaped" ELSE "exited",
            eof  <- closer # "open"
ImplementsSubprocess == Life!Spec
=============================================================================
