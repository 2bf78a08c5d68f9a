---------------------------- MODULE WorkerProofs ----------------------------
(***************************************************************************)
(* Theorems about Worker, for any number of callers, components and        *)
(* requests, any pipe capacities and any set of faults.                    *)
(***************************************************************************)
EXTENDS Worker, TLAPS

(***************************************************************************)
(* Types.  A caller in the middle of a call has a request to write; TypeOK *)
(* alone does not say so and is not inductive.                             *)
(***************************************************************************)
HasRequest ==
    \A c \in Callers : pc[c] # "idle" => id[c] \in IDs /\ req[c] \in Components

TypeInv == TypeOK /\ HasRequest

\* The messages the actions build are well typed, and so are 0 and the
\* identifiers as values of an id field.
LEMMA MessageTypes ==
    /\ \A k \in 0..MaxID : ErrorResponse(k) \in Responses
    /\ Garbage \in Lines
    /\ \A k \in 0..MaxID, h \in Components \cup {NoHTML}, b \in BOOLEAN :
          [json |-> b, resp |-> [id |-> k, html |-> h]] \in Lines
    /\ IDs \subseteq 0..MaxID
    /\ 0 \in 0..MaxID
BY WorkerAssumption DEF ErrorResponse, Garbage, Responses, Lines, IDs

\* Each step of a caller in render keeps the types.
LEMMA CallerKeepsTypes ==
    ASSUME TypeInv, NEW c \in Callers, Caller(c)
    PROVE  TypeInv'
<1> USE DEF TypeInv, TypeOK, HasRequest, callerVars, mapVars, nodeVars, readerVars
<1>1. ASSUME NEW comp \in Components, Register(c, comp)
      PROVE  TypeInv'
  <2>1. nextID' \in IDs /\ nextID' \in 0..MaxID
    BY <1>1, WorkerAssumption DEF Register, IDs
  <2> QED BY <1>1, <2>1, MessageTypes DEF Register
<1>2. CASE MarshalFails(c)
  BY <1>2 DEF MarshalFails, LeaveWithError
<1>3. CASE LockWrite(c)
  BY <1>3 DEF LockWrite
<1>4. CASE WriteRequest(c)
  <2>1. [id |-> id[c], component |-> req[c]] \in Requests
    BY <1>4 DEF WriteRequest, Requests
  <2>2. stdin' \in Seq(Requests)
    BY <1>4, <2>1 DEF WriteRequest
  <2> QED BY <1>4, <2>2 DEF WriteRequest
<1>5. CASE WriteFails(c)
  BY <1>5 DEF WriteFails, LeaveWithError
<1>6. CASE SelectResponse(c)
  <2>1. PICK r \in chan[id[c]] : result' = [result EXCEPT ![c] = r.html]
    BY <1>6 DEF SelectResponse
  <2>2. r \in Responses
    BY <1>6, <2>1 DEF SelectResponse
  <2>3. r.html \in Components \cup {NoHTML}
    BY <2>2 DEF Responses
  <2> QED BY <1>6, <2>1, <2>3 DEF SelectResponse
<1>7. CASE SelectDone(c)
  BY <1>7 DEF SelectDone, LeaveWithError
<1>8. CASE SelectCancelled(c)
  BY <1>8 DEF SelectCancelled, LeaveWithError
<1>9. CASE Deregister(c)
  BY <1>9 DEF Deregister
<1>10. CASE Cancel(c)
  BY <1>10 DEF Cancel, InFlight
<1> QED
  BY <1>1, <1>2, <1>3, <1>4, <1>5, <1>6, <1>7, <1>8, <1>9, <1>10 DEF Caller

\* Each step of the reader goroutine keeps the types.
LEMMA ReaderKeepsTypes ==
    ASSUME TypeInv, readLoop
    PROVE  TypeInv'
<1> USE DEF TypeInv, TypeOK, HasRequest, callerVars, mapVars, nodeVars, readerVars
<1>1. CASE ReadLine
  <2>1. Head(stdout) \in Lines /\ Tail(stdout) \in Seq(Lines)
    BY <1>1 DEF ReadLine
  <2>2. Head(stdout).resp \in Responses
    BY <2>1 DEF Lines
  <2> QED BY <1>1, <2>1, <2>2 DEF ReadLine
<1>2. CASE Lookup
  BY <1>2 DEF Lookup
<1>3. CASE Send
  BY <1>3 DEF Send
<1>4. CASE ReadFails
  BY <1>4 DEF ReadFails
<1>5. CASE drainPending
  BY <1>5, MessageTypes DEF drainPending
<1>6. CASE CloseDone
  BY <1>6 DEF CloseDone
<1> QED
  BY <1>1, <1>2, <1>3, <1>4, <1>5, <1>6 DEF readLoop

\* Each step of the Node process keeps the types.
LEMMA NodeKeepsTypes ==
    ASSUME TypeInv, Node
    PROVE  TypeInv'
<1> USE DEF TypeInv, TypeOK, HasRequest, callerVars, mapVars, readerVars
<1>1. ASSUME NEW line \in Lines, Emit(line), stdin' \in Seq(Requests)
      PROVE  TypeInv'
  BY <1>1 DEF Emit
<1>2. ASSUME stdin # <<>>
      PROVE  /\ Head(stdin) \in Requests
             /\ Head(stdin).id \in 0..MaxID
             /\ Head(stdin).component \in Components
             /\ Tail(stdin) \in Seq(Requests)
  <2>1. Head(stdin) \in Requests /\ Tail(stdin) \in Seq(Requests)
    BY <1>2
  <2> QED BY <2>1, MessageTypes DEF Requests
<1>3. CASE handleRequest
  <2>1. PICK html \in {Head(stdin).component, NoHTML} :
           Emit([json |-> TRUE, resp |-> [id |-> Head(stdin).id, html |-> html]])
    BY <1>3 DEF handleRequest
  <2>2. [json |-> TRUE, resp |-> [id |-> Head(stdin).id, html |-> html]] \in Lines
    BY <1>2, <1>3, <2>1, MessageTypes DEF handleRequest
  <2>3. stdin' \in Seq(Requests)
    BY <1>2, <1>3 DEF handleRequest
  <2> QED BY <1>1, <2>1, <2>2, <2>3
<1>4. CASE CorruptAnswer
  <2>1. stdin' \in Seq(Requests)
    BY <1>2, <1>4 DEF CorruptAnswer
  <2> QED BY <1>1, <1>4, <2>1, MessageTypes DEF CorruptAnswer
<1>5. CASE Noise
  <2>1. PICK json \in BOOLEAN : Emit([json |-> json, resp |-> ErrorResponse(0)])
    BY <1>5 DEF Noise
  <2>2. [json |-> json, resp |-> ErrorResponse(0)] \in Lines
    BY <2>1, MessageTypes DEF Lines
  <2> QED BY <1>1, <1>5, <2>1, <2>2 DEF Noise
<1>6. CASE Hang
  BY <1>2, <1>6 DEF Hang
<1>7. CASE Exit
  BY <1>7 DEF Exit
<1> QED
  BY <1>3, <1>4, <1>5, <1>6, <1>7 DEF Node, Crash, ExitOnEOF

\* Both steps of close keep the types.
LEMMA CloseKeepsTypes ==
    ASSUME TypeInv, Close
    PROVE  TypeInv'
<1> USE DEF TypeInv, TypeOK, HasRequest, callerVars, mapVars, nodeVars, readerVars
<1>1. CASE CloseStdin
  BY <1>1 DEF CloseStdin
<1>2. CASE Wait
  <2>1. PICK n \in 0..Len(stdout) : stdout' = SubSeq(stdout, 1, n)
    BY <1>2 DEF Wait
  <2>2. stdout' \in Seq(Lines)
    BY <2>1
  <2> QED BY <1>2, <2>2 DEF Wait
<1> QED BY <1>1, <1>2 DEF Close

\* The initial state is well typed.
LEMMA InitTypes == Init => TypeInv
BY MessageTypes DEF Init, TypeInv, TypeOK, HasRequest

\* Every step keeps the types.
LEMMA NextKeepsTypes == TypeInv /\ [Next]_vars => TypeInv'
<1> SUFFICES ASSUME TypeInv, [Next]_vars
             PROVE  TypeInv'
  OBVIOUS
<1>1. CASE UNCHANGED vars
  BY <1>1 DEF vars, callerVars, mapVars, nodeVars, readerVars,
              TypeInv, TypeOK, HasRequest
<1>2. CASE Next
  BY <1>2, CallerKeepsTypes, ReaderKeepsTypes, NodeKeepsTypes, CloseKeepsTypes DEF Next
<1> QED BY <1>1, <1>2

\* Type correctness of the worker.
THEOREM WorkerTypes == Spec => []TypeOK
<1>1. TypeInv => TypeOK
  BY DEF TypeInv
<1> QED BY InitTypes, NextKeepsTypes, <1>1, PTL DEF Spec

(***************************************************************************)
(* Routing.  Identifiers are never reused, so a response that reaches the  *)
(* channel of a call, however late, can only be that call's own.           *)
(***************************************************************************)

\* Identifiers come from the generator and no two callers share one.
UniqueIDs ==
    /\ \A c \in Callers : id[c] <= nextID
    /\ \A c, d \in Callers : id[c] = id[d] /\ id[c] # 0 => c = d

\* A message about request k showing page h is about the caller that holds k.
Faithful(k, h) ==
    /\ k <= nextID
    /\ h # NoHTML => \A c \in Callers : id[c] = k => req[c] = h

\* Every message under way is faithful, and a page in a reply channel is the
\* answer to that channel's request.
MessagesFaithful ==
    /\ \A n \in 1..Len(stdin) : Faithful(stdin[n].id, stdin[n].component)
    /\ \A n \in 1..Len(stdout) : Faithful(stdout[n].resp.id, stdout[n].resp.html)
    /\ Faithful(cur.id, cur.html)
    /\ \A k \in IDs : \A r \in chan[k] :
          Faithful(r.id, r.html) /\ (r.html # NoHTML => r.id = k)

RoutingInv == TypeInv /\ UniqueIDs /\ MessagesFaithful /\ OwnReply

\* Messages stay faithful when no identifier, request or counter changes.
LEMMA FaithfulStable ==
    ASSUME UNCHANGED <<id, req, nextID>>, NEW k, NEW h, Faithful(k, h)
    PROVE  Faithful(k, h)'
BY DEF Faithful

\* Taking a fresh identifier does not touch the meaning of older messages.
LEMMA RegisterKeepsRouting ==
    ASSUME RoutingInv, NEW c \in Callers, NEW comp \in Components, Register(c, comp)
    PROVE  RoutingInv'
<1> USE DEF RoutingInv, callerVars, mapVars, nodeVars, readerVars
<1>1. TypeInv'
  BY CallerKeepsTypes DEF Caller
<1>2. /\ nextID \in Nat /\ nextID' = nextID + 1
      /\ id' = [id EXCEPT ![c] = nextID + 1]
      /\ req' = [req EXCEPT ![c] = comp]
      /\ id \in [Callers -> 0..MaxID]
      /\ req \in [Callers -> Components \cup {NoHTML}]
  BY WorkerAssumption DEF Register, TypeInv, TypeOK
<1>3. UniqueIDs'
  BY <1>2, WorkerAssumption DEF UniqueIDs
<1>4. ASSUME NEW k \in 0..MaxID, NEW h, Faithful(k, h)
      PROVE  Faithful(k, h)'
  BY <1>2, <1>4, WorkerAssumption DEF Faithful
<1>5. MessagesFaithful'
  <2>1. \A n \in 1..Len(stdin) : stdin[n].id \in 0..MaxID
    <3>1. \A n \in 1..Len(stdin) : stdin[n] \in Requests
      BY DEF TypeInv, TypeOK
    <3> QED BY <3>1, MessageTypes DEF Requests
  <2>2. \A n \in 1..Len(stdout) : stdout[n].resp.id \in 0..MaxID
    <3>1. \A n \in 1..Len(stdout) : stdout[n] \in Lines
      BY DEF TypeInv, TypeOK
    <3> QED BY <3>1 DEF Lines, Responses
  <2>3. \A k \in IDs : \A r \in chan[k] : r.id \in 0..MaxID
    BY DEF TypeInv, TypeOK, Responses
  <2>4. cur.id \in 0..MaxID
    BY DEF TypeInv, TypeOK, Responses
  <2>5. UNCHANGED <<stdin, stdout, cur, chan>>
    BY DEF Register
  <2> QED BY <1>4, <2>1, <2>2, <2>3, <2>4, <2>5 DEF MessagesFaithful
<1>6. OwnReply'
  <2>1. result' = [result EXCEPT ![c] = NoHTML] /\ result \in [Callers -> Components \cup {NoHTML}]
    BY DEF Register, TypeInv, TypeOK
  <2> QED BY <1>2, <2>1 DEF OwnReply
<1> QED BY <1>1, <1>3, <1>5, <1>6

\* The caller's other steps deliver only its own page.
LEMMA CallerKeepsRouting ==
    ASSUME RoutingInv, NEW c \in Callers, Caller(c)
    PROVE  RoutingInv'
<1> USE DEF RoutingInv, callerVars, mapVars, nodeVars, readerVars
<1>1. ASSUME NEW comp \in Components, Register(c, comp)
      PROVE  RoutingInv'
  BY <1>1, RegisterKeepsRouting
<1>2. TypeInv'
  BY CallerKeepsTypes
<1>3. CASE WriteRequest(c)
  <2>1. UNCHANGED <<id, req, nextID, stdout, cur, chan, result>>
    BY <1>3 DEF WriteRequest
  <2>2. Faithful(id[c], req[c])
    <3>1. id[c] \in IDs
      BY <1>3 DEF WriteRequest, TypeInv, HasRequest
    <3> QED BY <3>1 DEF Faithful, UniqueIDs, IDs
  <2>3. \A n \in 1..Len(stdin') : Faithful(stdin'[n].id, stdin'[n].component)
    <3>1. stdin \in Seq(Requests)
      BY DEF TypeInv, TypeOK
    <3>2. stdin' = Append(stdin, [id |-> id[c], component |-> req[c]])
      BY <1>3 DEF WriteRequest
    <3>3. TAKE n \in 1..Len(stdin')
    <3>4. CASE n \in 1..Len(stdin)
      <4>1. stdin'[n] = stdin[n]
        BY <3>1, <3>2, <3>4
      <4> QED BY <3>4, <4>1 DEF MessagesFaithful
    <3>5. CASE n = Len(stdin) + 1
      <4>1. stdin'[n] = [id |-> id[c], component |-> req[c]]
        BY <3>1, <3>2, <3>5
      <4> QED BY <2>2, <4>1
    <3> QED BY <3>1, <3>2, <3>4, <3>5
  <2>4. MessagesFaithful'
    BY <2>1, <2>3, FaithfulStable DEF MessagesFaithful
  <2> QED BY <1>2, <2>1, <2>4 DEF UniqueIDs, OwnReply
<1>4. CASE SelectResponse(c)
  <2>1. PICK r \in chan[id[c]] : result' = [result EXCEPT ![c] = r.html]
    BY <1>4 DEF SelectResponse
  <2>2. /\ UNCHANGED <<id, req, nextID, stdin, stdout, cur>>
        /\ chan' = [chan EXCEPT ![id[c]] = {}]
        /\ id[c] \in IDs
    BY <1>4 DEF SelectResponse, TypeInv, HasRequest
  <2>3. r.html # NoHTML => r.html = req[c]
    BY <2>1, <2>2 DEF MessagesFaithful, Faithful
  <2>4. OwnReply'
    BY <2>1, <2>2, <2>3 DEF OwnReply, TypeInv, TypeOK
  <2>5. MessagesFaithful'
    <3>1. \A k \in IDs : chan'[k] \subseteq chan[k]
      BY <2>2 DEF TypeInv, TypeOK
    <3> QED BY <2>2, <3>1, FaithfulStable DEF MessagesFaithful
  <2> QED BY <1>2, <2>2, <2>4, <2>5 DEF UniqueIDs
<1>5. CASE UNCHANGED <<id, req, nextID, stdin, stdout, cur, chan, result>>
  BY <1>2, <1>5, FaithfulStable DEF UniqueIDs, MessagesFaithful, OwnReply
<1> QED
  BY <1>1, <1>3, <1>4, <1>5 DEF Caller, MarshalFails, LockWrite, WriteFails, SelectDone,
     SelectCancelled, Deregister, Cancel, LeaveWithError

\* The reader puts a response only into the channel of the request it names.
LEMMA ReaderKeepsRouting ==
    ASSUME RoutingInv, readLoop
    PROVE  RoutingInv'
<1> USE DEF RoutingInv, callerVars, mapVars, nodeVars, readerVars
<1>1. TypeInv'
  BY ReaderKeepsTypes
<1>2. UNCHANGED <<id, req, nextID, result, stdin>>
  BY DEF readLoop, ReadLine, Lookup, Send, ReadFails, drainPending, CloseDone
<1>3. UniqueIDs' /\ OwnReply'
  BY <1>2 DEF UniqueIDs, OwnReply
<1>4. MessagesFaithful'
  <2>1. CASE ReadLine
    <3>1. /\ stdout \in Seq(Lines)
          /\ stdout # <<>>
          /\ stdout' = Tail(stdout)
          /\ chan' = chan
          /\ cur' = cur \/ cur' = Head(stdout).resp
      BY <2>1 DEF ReadLine, TypeInv, TypeOK
    <3>2. \A n \in 1..Len(stdout') : stdout'[n] = stdout[n+1] /\ n+1 \in 1..Len(stdout)
      BY <3>1
    <3>3. Head(stdout) = stdout[1] /\ 1 \in 1..Len(stdout)
      BY <3>1
    <3> QED BY <1>2, <3>1, <3>2, <3>3, FaithfulStable DEF MessagesFaithful
  <2>2. CASE Send
    <3>1. UNCHANGED <<cur, stdout>>
      BY <2>2 DEF Send
    <3>2. \A k \in IDs : \A r \in chan'[k] : r \in chan[k] \/ (r = cur /\ k = cur.id)
      BY <2>2 DEF Send, TypeInv, TypeOK
    <3> QED BY <1>2, <3>1, <3>2, FaithfulStable DEF MessagesFaithful
  <2>3. CASE drainPending
    <3>1. UNCHANGED <<cur, stdout>>
      BY <2>3 DEF drainPending
    <3>2. \A k \in IDs : \A r \in chan'[k] : r \in chan[k] \/ r = ErrorResponse(0)
      BY <2>3 DEF drainPending
    <3>3. Faithful(0, NoHTML)
      BY WorkerAssumption DEF Faithful, TypeInv, TypeOK
    <3>4. ErrorResponse(0).id = 0 /\ ErrorResponse(0).html = NoHTML
      BY DEF ErrorResponse
    <3> QED BY <1>2, <3>1, <3>2, <3>3, <3>4, FaithfulStable DEF MessagesFaithful
  <2>4. CASE UNCHANGED <<cur, stdout, chan>>
    BY <1>2, <2>4, FaithfulStable DEF MessagesFaithful
  <2> QED
    BY <2>1, <2>2, <2>3, <2>4 DEF readLoop, Lookup, ReadFails, CloseDone
<1> QED BY <1>1, <1>3, <1>4

\* Node answers a request with the identifier it came with.
LEMMA NodeKeepsRouting ==
    ASSUME RoutingInv, Node
    PROVE  RoutingInv'
<1> USE DEF RoutingInv, callerVars, mapVars, readerVars
<1>1. TypeInv'
  BY NodeKeepsTypes
<1>2. UNCHANGED <<id, req, nextID, result, cur, chan>>
  BY DEF Node, handleRequest, CorruptAnswer, Noise, Hang, Crash, ExitOnEOF, Exit, Emit
<1>3. UniqueIDs' /\ OwnReply'
  BY <1>2 DEF UniqueIDs, OwnReply
<1>4. ASSUME NEW line, Emit(line), Faithful(line.resp.id, line.resp.html)
      PROVE  \A n \in 1..Len(stdout') : Faithful(stdout'[n].resp.id, stdout'[n].resp.html)
  <2>1. stdout \in Seq(Lines) /\ stdout' = Append(stdout, line)
    BY <1>4 DEF Emit, TypeInv, TypeOK
  <2>2. TAKE n \in 1..Len(stdout')
  <2>3. CASE n \in 1..Len(stdout)
    <3>1. stdout'[n] = stdout[n]
      BY <2>1, <2>3
    <3> QED BY <2>3, <3>1 DEF MessagesFaithful
  <2>4. CASE n = Len(stdout) + 1
    <3>1. stdout'[n] = line
      BY <2>1, <2>4
    <3> QED BY <1>4, <3>1
  <2> QED BY <2>1, <2>3, <2>4
<1>5. Faithful(0, NoHTML) /\ ErrorResponse(0) = [id |-> 0, html |-> NoHTML]
  BY WorkerAssumption DEF Faithful, ErrorResponse, TypeInv, TypeOK
<1>6. ASSUME stdin # <<>>, stdin' = Tail(stdin)
      PROVE  \A n \in 1..Len(stdin') : Faithful(stdin'[n].id, stdin'[n].component)
  <2>1. \A n \in 1..Len(stdin') : stdin'[n] = stdin[n+1] /\ n+1 \in 1..Len(stdin)
    BY <1>6 DEF TypeInv, TypeOK
  <2> QED BY <2>1 DEF MessagesFaithful
<1>7. \A n \in 1..Len(stdin') : Faithful(stdin'[n].id, stdin'[n].component)
  <2>1. CASE stdin' = stdin
    BY <2>1 DEF MessagesFaithful
  <2>2. CASE stdin' = <<>>
    BY <2>2
  <2>3. CASE stdin # <<>> /\ stdin' = Tail(stdin)
    BY <1>6, <2>3
  <2> QED BY <2>1, <2>2, <2>3 DEF Node, handleRequest, CorruptAnswer, Noise, Hang, Crash,
             ExitOnEOF, Exit
<1>8. \A n \in 1..Len(stdout') : Faithful(stdout'[n].resp.id, stdout'[n].resp.html)
  <2>1. CASE handleRequest
    <3>1. PICK html \in {Head(stdin).component, NoHTML} :
             Emit([json |-> TRUE, resp |-> [id |-> Head(stdin).id, html |-> html]])
      BY <2>1 DEF handleRequest
    <3>2. Head(stdin) = stdin[1] /\ 1 \in 1..Len(stdin)
      BY <2>1 DEF handleRequest, TypeInv, TypeOK
    <3>3. Faithful(Head(stdin).id, html)
      BY <3>1, <3>2 DEF MessagesFaithful, Faithful
    <3> QED BY <1>4, <3>1, <3>3
  <2>2. CASE CorruptAnswer
    BY <1>4, <1>5, <2>2 DEF CorruptAnswer, Garbage
  <2>3. CASE Noise
    BY <1>4, <1>5, <2>3 DEF Noise
  <2>4. CASE stdout' = stdout
    BY <2>4 DEF MessagesFaithful
  <2> QED BY <2>1, <2>2, <2>3, <2>4 DEF Node, Hang, Crash, ExitOnEOF, Exit
<1>9. MessagesFaithful'
  BY <1>2, <1>7, <1>8, FaithfulStable DEF MessagesFaithful
<1> QED BY <1>1, <1>3, <1>9

\* close only takes unread lines away.
LEMMA CloseKeepsRouting ==
    ASSUME RoutingInv, Close
    PROVE  RoutingInv'
<1> USE DEF RoutingInv, callerVars, mapVars, nodeVars, readerVars
<1>1. TypeInv'
  BY CloseKeepsTypes
<1>2. UNCHANGED <<id, req, nextID, result, cur, chan, stdin>>
  BY DEF Close, CloseStdin, Wait
<1>3. \A n \in 1..Len(stdout') : stdout'[n] = stdout[n] /\ n \in 1..Len(stdout)
  <2>1. CASE CloseStdin
    BY <2>1 DEF CloseStdin
  <2>2. CASE Wait
    <3>1. PICK m \in 0..Len(stdout) : stdout' = SubSeq(stdout, 1, m)
      BY <2>2 DEF Wait
    <3>2. stdout \in Seq(Lines)
      BY DEF TypeInv, TypeOK
    <3> QED BY <3>1, <3>2
  <2> QED BY <2>1, <2>2 DEF Close
<1>4. MessagesFaithful'
  BY <1>2, <1>3, FaithfulStable DEF MessagesFaithful
<1> QED BY <1>1, <1>2, <1>4 DEF UniqueIDs, OwnReply

\* Routing holds initially: there are no messages.
LEMMA InitRouting == Init => RoutingInv
<1> SUFFICES ASSUME Init PROVE RoutingInv
  OBVIOUS
<1>1. TypeInv
  BY InitTypes
<1>2. UniqueIDs /\ OwnReply
  BY DEF Init, UniqueIDs, OwnReply
<1>3. MessagesFaithful
  BY DEF Init, MessagesFaithful, Faithful, ErrorResponse
<1> QED BY <1>1, <1>2, <1>3 DEF RoutingInv

\* Every step keeps the routing invariant.
LEMMA NextKeepsRouting == RoutingInv /\ [Next]_vars => RoutingInv'
<1> SUFFICES ASSUME RoutingInv, [Next]_vars
             PROVE  RoutingInv'
  OBVIOUS
<1>1. CASE UNCHANGED vars
  <2>1. UNCHANGED <<id, req, nextID, stdin, stdout, cur, chan, result>>
    BY <1>1 DEF vars, callerVars, mapVars, nodeVars, readerVars
  <2>2. TypeInv'
    BY <1>1, NextKeepsTypes DEF RoutingInv
  <2> QED BY <2>1, <2>2, FaithfulStable DEF RoutingInv, UniqueIDs, MessagesFaithful, OwnReply
<1>2. CASE Next
  BY <1>2, CallerKeepsRouting, ReaderKeepsRouting, NodeKeepsRouting, CloseKeepsRouting DEF Next
<1> QED BY <1>1, <1>2

\* A page returned by render is the page of the component its caller asked
\* for, whatever the interleaving of calls, late answers and faults.
THEOREM RendersAreOwn == Spec => []OwnReply
<1>1. RoutingInv => OwnReply
  BY DEF RoutingInv
<1> QED BY InitRouting, NextKeepsRouting, <1>1, PTL DEF Spec

(***************************************************************************)
(* Registration.  Until the reader drains the map, every call in progress  *)
(* is in it; uniqueness of identifiers keeps one call's deferred delete    *)
(* from removing another's entry.                                          *)
(***************************************************************************)
Registered ==
    reader \notin {"drained", "exited"} => \A c \in InFlight : id[c] \in pending

RegistrationInv == TypeInv /\ UniqueIDs /\ Registered /\ NoPendingLeak

\* A step that changes neither the callers' progress nor the map, and does
\* not bring the reader back from the drain, keeps the registrations.
LEMMA RegistrationStable ==
    ASSUME RegistrationInv, TypeInv', UNCHANGED <<id, nextID, pc, pending>>,
           reader \in {"drained", "exited"} => reader' \in {"drained", "exited"}
    PROVE  RegistrationInv'
BY DEF RegistrationInv, UniqueIDs, Registered, NoPendingLeak, InFlight

\* Every exit path of render removes exactly the caller's own entry.
LEMMA CallerKeepsRegistration ==
    ASSUME RegistrationInv, NEW c \in Callers, Caller(c)
    PROVE  RegistrationInv'
<1> USE DEF RegistrationInv, callerVars, mapVars, nodeVars, readerVars
<1>1. TypeInv'
  BY CallerKeepsTypes
<1>2. /\ pc \in [Callers -> {"idle", "registered", "writing", "waiting", "leaving"}]
      /\ id \in [Callers -> 0..MaxID]
      /\ nextID \in 0..MaxID
  BY DEF TypeInv, TypeOK
<1>3. ASSUME NEW comp \in Components, Register(c, comp)
      PROVE  RegistrationInv'
  <2>1. /\ pc[c] = "idle"
        /\ pc' = [pc EXCEPT ![c] = "registered"]
        /\ id' = [id EXCEPT ![c] = nextID + 1]
        /\ nextID' = nextID + 1
        /\ pending' = pending \cup {nextID + 1}
        /\ reader' = reader
    BY <1>3 DEF Register
  <2>2. UniqueIDs'
    BY <1>2, <2>1, WorkerAssumption DEF UniqueIDs
  <2>3. Registered'
    BY <1>2, <2>1 DEF Registered, InFlight
  <2>4. NoPendingLeak'
    BY <1>2, <2>1 DEF NoPendingLeak
  <2> QED BY <1>1, <2>2, <2>3, <2>4
<1>4. CASE Deregister(c)
  <2>1. /\ pc' = [pc EXCEPT ![c] = "idle"]
        /\ pending' = pending \ {id[c]}
        /\ UNCHANGED <<id, nextID, reader>>
        /\ id[c] \in IDs
    BY <1>4 DEF Deregister, TypeInv, HasRequest
  <2>2. UniqueIDs'
    BY <2>1 DEF UniqueIDs
  <2>3. Registered'
    <3>1. \A d \in InFlight' : d \in InFlight /\ d # c
      BY <1>2, <2>1 DEF InFlight
    <3>2. \A d \in Callers : d # c => id[d] # id[c]
      BY <2>1 DEF UniqueIDs, IDs
    <3> QED BY <2>1, <3>1, <3>2 DEF Registered, InFlight
  <2>4. NoPendingLeak'
    BY <1>2, <2>1 DEF NoPendingLeak
  <2> QED BY <1>1, <2>2, <2>3, <2>4
<1>5. ASSUME pc[c] # "idle",
             \E p \in {"writing", "waiting", "leaving"} : pc' = [pc EXCEPT ![c] = p],
             pc[c] \in {"registered", "writing", "waiting"},
             UNCHANGED <<id, nextID, pending, reader>>
      PROVE  RegistrationInv'
  <2>1. UniqueIDs'
    BY <1>5 DEF UniqueIDs
  <2>2. Registered'
    BY <1>2, <1>5 DEF Registered, InFlight
  <2>3. NoPendingLeak'
    BY <1>2, <1>5 DEF NoPendingLeak
  <2> QED BY <1>1, <2>1, <2>2, <2>3
<1>6. CASE Cancel(c)
  BY <1>1, <1>6, RegistrationStable DEF Cancel
<1> QED
  BY <1>3, <1>4, <1>5, <1>6 DEF Caller, MarshalFails, LockWrite, WriteRequest, WriteFails,
     SelectResponse, SelectDone, SelectCancelled, LeaveWithError

\* Only the drain takes entries away from calls in progress.
LEMMA OthersKeepRegistration ==
    ASSUME RegistrationInv, readLoop \/ Node \/ Close
    PROVE  RegistrationInv'
<1> USE DEF callerVars, mapVars, nodeVars, readerVars
<1>1. TypeInv'
  BY ReaderKeepsTypes, NodeKeepsTypes, CloseKeepsTypes DEF RegistrationInv
<1>2. CASE drainPending
  <2>1. reader' = "drained" /\ pending' = {} /\ UNCHANGED <<id, nextID, pc>>
    BY <1>2 DEF drainPending
  <2> QED
    BY <1>1, <2>1 DEF RegistrationInv, UniqueIDs, Registered, NoPendingLeak
<1>3. CASE ReadLine \/ Lookup \/ Send \/ ReadFails \/ CloseDone
  BY <1>1, <1>3, RegistrationStable DEF ReadLine, Lookup, Send, ReadFails, CloseDone
<1>4. CASE Node
  <2>1. UNCHANGED <<id, nextID, pc, pending, reader>>
    BY <1>4 DEF Node, handleRequest, CorruptAnswer, Noise, Hang, Crash, ExitOnEOF, Exit, Emit
  <2> QED BY <1>1, <2>1, RegistrationStable
<1>5. CASE Close
  BY <1>1, <1>5, RegistrationStable DEF Close, CloseStdin, Wait
<1> QED BY <1>2, <1>3, <1>4, <1>5 DEF readLoop

\* Nobody is registered initially.
LEMMA InitRegistration == Init => RegistrationInv
BY InitTypes DEF Init, RegistrationInv, UniqueIDs, Registered, NoPendingLeak, InFlight

\* Every step keeps the registration invariant.
LEMMA NextKeepsRegistration == RegistrationInv /\ [Next]_vars => RegistrationInv'
<1> SUFFICES ASSUME RegistrationInv, [Next]_vars
             PROVE  RegistrationInv'
  OBVIOUS
<1>1. CASE UNCHANGED vars
  <2>1. UNCHANGED <<id, nextID, pc, pending, reader>>
    BY <1>1 DEF vars, callerVars, mapVars, nodeVars, readerVars
  <2>2. TypeInv'
    BY <1>1, NextKeepsTypes DEF RegistrationInv
  <2> QED BY <2>1, <2>2, RegistrationStable
<1>2. CASE Next
  BY <1>2, CallerKeepsRegistration, OthersKeepRegistration DEF Next
<1> QED BY <1>1, <1>2

\* The registration invariant holds throughout.
LEMMA RegistrationHolds == Spec => []RegistrationInv
BY InitRegistration, NextKeepsRegistration, PTL DEF Spec

\* No call that has returned leaves an entry in the pending map.
THEOREM PendingNeverLeaks == Spec => []NoPendingLeak
<1>1. RegistrationInv => NoPendingLeak
  BY DEF RegistrationInv
<1> QED BY RegistrationHolds, <1>1, PTL

\* dispatch never throws away a response whose caller is still waiting for
\* it: registration before the write is enough, in every interleaving.
THEOREM LiveResponsesDelivered == Spec => NoLiveResponseDiscarded
<1>1. ASSUME RegistrationInv, [Next]_vars
      PROVE  [reader = "lookup" /\ reader' = "read" =>
                 \A c \in InFlight : id[c] # cur.id]_vars
  <2> SUFFICES ASSUME Next, reader = "lookup", reader' = "read"
               PROVE  \A c \in InFlight : id[c] # cur.id
    BY <1>1
  <2> USE DEF callerVars, mapVars, nodeVars, readerVars
  <2>1. Lookup
    <3>1. reader' # reader
      OBVIOUS
    <3>2. ~Node /\ ~Close
      BY <3>1 DEF Node, handleRequest, CorruptAnswer, Noise, Hang, Crash, ExitOnEOF, Exit,
                  Emit, Close, CloseStdin, Wait
    <3>3. ~(\E c \in Callers : Caller(c))
      BY <3>1 DEF Caller, Register, MarshalFails, LockWrite, WriteRequest, WriteFails,
                  SelectResponse, SelectDone, SelectCancelled, Deregister, Cancel, LeaveWithError
    <3>4. ~ReadLine /\ ~Send /\ ~ReadFails /\ ~drainPending /\ ~CloseDone
      BY DEF ReadLine, Send, ReadFails, drainPending, CloseDone
    <3> QED BY <3>2, <3>3, <3>4 DEF Next, readLoop
  <2>2. cur.id \notin pending
    BY <2>1 DEF Lookup
  <2> QED BY <1>1, <2>2 DEF RegistrationInv, Registered
<1> QED BY RegistrationHolds, <1>1, PTL DEF Spec, NoLiveResponseDiscarded

(***************************************************************************)
(* Refinement.  A call of the abstract service lasts from registration to  *)
(* the moment the outcome is decided; until then nothing has been returned *)
(* for it.                                                                 *)
(***************************************************************************)
Undecided == \A c \in InFlight : result[c] = NoHTML

ServiceInv == RoutingInv /\ Undecided

\* Only the caller itself decides the outcome of its call.
LEMMA NextKeepsService == ServiceInv /\ [Next]_vars => ServiceInv'
<1> SUFFICES ASSUME ServiceInv, [Next]_vars
             PROVE  Undecided'
  BY NextKeepsRouting DEF ServiceInv
<1> USE DEF ServiceInv, callerVars, mapVars, nodeVars, readerVars
<1>1. /\ pc \in [Callers -> {"idle", "registered", "writing", "waiting", "leaving"}]
      /\ result \in [Callers -> Components \cup {NoHTML}]
  BY DEF RoutingInv, TypeInv, TypeOK
<1>2. CASE UNCHANGED <<pc, result>>
  BY <1>2 DEF Undecided, InFlight
<1>3. ASSUME NEW c \in Callers, Caller(c)
      PROVE  Undecided'
  <2>1. CASE \E comp \in Components : Register(c, comp)
    BY <1>1, <2>1 DEF Register, Undecided, InFlight
  <2>2. CASE SelectResponse(c)
    BY <1>1, <2>2 DEF SelectResponse, Undecided, InFlight
  <2>3. CASE LockWrite(c) \/ WriteRequest(c) \/ Deregister(c) \/ Cancel(c)
    BY <1>1, <2>3 DEF LockWrite, WriteRequest, Deregister, Cancel, Undecided, InFlight
  <2>4. CASE LeaveWithError(c)
    BY <1>1, <2>4 DEF LeaveWithError, Undecided, InFlight
  <2> QED BY <1>3, <2>1, <2>2, <2>3, <2>4 DEF Caller, MarshalFails, WriteFails, SelectDone,
             SelectCancelled
<1>4. CASE readLoop \/ Node \/ Close
  <2>1. UNCHANGED <<pc, result>>
    BY <1>4 DEF readLoop, ReadLine, Lookup, Send, ReadFails, drainPending, CloseDone,
       Node, handleRequest, CorruptAnswer, Noise, Hang, Crash, ExitOnEOF, Exit, Emit,
       Close, CloseStdin, Wait
  <2> QED BY <1>2, <2>1
<1>5. CASE UNCHANGED vars
  BY <1>2, <1>5 DEF vars
<1> QED BY <1>3, <1>4, <1>5 DEF Next

\* Each step of the worker is a step of the service or invisible to it.
LEMMA StepSimulation ==
    ServiceInv /\ [Next]_vars => [Service!Next]_Service!vars
<1> SUFFICES ASSUME ServiceInv, [Next]_vars
             PROVE  [Service!Next]_Service!vars
  OBVIOUS
<1> USE DEF ServiceInv, callerVars, mapVars, nodeVars, readerVars
<1>1. /\ pc \in [Callers -> {"idle", "registered", "writing", "waiting", "leaving"}]
      /\ result \in [Callers -> Components \cup {NoHTML}]
  BY DEF RoutingInv, TypeInv, TypeOK
<1>2. ASSUME UNCHANGED <<req, result>>, InFlight' = InFlight
      PROVE  UNCHANGED Service!vars
  BY <1>2 DEF Service!vars
<1>3. ASSUME NEW c \in Callers, Caller(c)
      PROVE  [Service!Next]_Service!vars
  <2>1. ASSUME NEW comp \in Components, Register(c, comp)
        PROVE  Service!Submit(c, comp)
    <3>1. c \notin InFlight /\ InFlight' = InFlight \cup {c}
      BY <1>1, <2>1 DEF Register, InFlight
    <3> QED BY <2>1, <3>1 DEF Register, Service!Submit
  <2>2. ASSUME LeaveWithError(c), pc[c] \in {"registered", "writing", "waiting"}
        PROVE  Service!Fail(c)
    <3>1. c \in InFlight /\ InFlight' = InFlight \ {c}
      BY <1>1, <2>2 DEF LeaveWithError, InFlight
    <3> QED BY <2>2, <3>1 DEF LeaveWithError, Service!Fail
  <2>3. CASE SelectResponse(c)
    <3>1. PICK r \in chan[id[c]] : result' = [result EXCEPT ![c] = r.html]
      BY <2>3 DEF SelectResponse
    <3>2. c \in InFlight /\ InFlight' = InFlight \ {c} /\ UNCHANGED req
      BY <1>1, <2>3 DEF SelectResponse, InFlight
    <3>3. CASE r.html = NoHTML
      <4>1. result' = result
        BY <1>1, <3>1, <3>2, <3>3 DEF Undecided
      <4> QED BY <3>2, <4>1 DEF Service!Fail, Service!Next
    <3>4. CASE r.html # NoHTML
      <4>1. OwnReply'
        BY NextKeepsRouting DEF RoutingInv
      <4>2. r.html = req[c]
        BY <1>1, <3>1, <3>2, <3>4, <4>1 DEF OwnReply
      <4> QED BY <3>1, <3>2, <4>2 DEF Service!Answer, Service!Next
    <3> QED BY <3>3, <3>4
  <2>4. CASE LockWrite(c) \/ WriteRequest(c) \/ Deregister(c) \/ Cancel(c)
    <3>1. InFlight' = InFlight /\ UNCHANGED <<req, result>>
      BY <1>1, <2>4 DEF LockWrite, WriteRequest, Deregister, Cancel, InFlight
    <3> QED BY <1>2, <3>1
  <2> QED BY <1>3, <2>1, <2>2, <2>3, <2>4 DEF Caller, MarshalFails, WriteFails, SelectDone,
             SelectCancelled, Service!Next
<1>4. CASE readLoop \/ Node \/ Close
  <2>1. UNCHANGED <<pc, req, result>>
    BY <1>4 DEF readLoop, ReadLine, Lookup, Send, ReadFails, drainPending, CloseDone,
       Node, handleRequest, CorruptAnswer, Noise, Hang, Crash, ExitOnEOF, Exit, Emit,
       Close, CloseStdin, Wait
  <2> QED BY <1>2, <2>1 DEF InFlight
<1>5. CASE UNCHANGED vars
  BY <1>2, <1>5 DEF vars, InFlight
<1> QED BY <1>3, <1>4, <1>5 DEF Next

\* The worker, with its pipes, identifiers, faults and shutdown, implements
\* the abstract render service.
THEOREM WorkerRefinesService == Spec => ImplementsRenderService
<1>1. Init => ServiceInv
  BY InitRouting DEF Init, ServiceInv, Undecided, InFlight
<1>2. Init => Service!Init
  BY DEF Init, Service!Init, InFlight
<1> QED
  BY <1>1, <1>2, NextKeepsService, StepSimulation, PTL
  DEF Spec, ImplementsRenderService, Service!Spec

(***************************************************************************)
(* The other side of the worker: what its pool sees.                       *)
(***************************************************************************)
Gone ==
    /\ reader \in {"drain", "drained", "exited"} => node = "exited"
    /\ closer = "closed" => node = "exited"

LEMMA NextKeepsGone == Gone /\ [Next]_vars => Gone' /\ [Life!Next]_(Life!vars)
<1> SUFFICES ASSUME Gone, [Next]_vars
             PROVE  Gone' /\ [Life!Next]_(Life!vars)
  OBVIOUS
<1> USE DEF callerVars, mapVars, nodeVars, readerVars, done, Gone
<1>1. ASSUME UNCHANGED <<reader, closer>>, node' = node \/ (node # "exited" /\ node' = "hung")
      PROVE  Gone' /\ [Life!Next]_(Life!vars)
  BY <1>1 DEF Life!vars
<1>2. ASSUME NEW c \in Callers, Caller(c)
      PROVE  UNCHANGED <<reader, closer, node>>
  BY <1>2 DEF Caller, Register, MarshalFails, LockWrite, WriteRequest, WriteFails, SelectResponse,
     SelectDone, SelectCancelled, Deregister, Cancel, LeaveWithError
<1>3. CASE readLoop
  <2>1. CASE ReadLine \/ Lookup \/ Send \/ ReadFails \/ drainPending
    BY <2>1 DEF ReadLine, Lookup, Send, ReadFails, drainPending, Life!vars
  <2>2. CASE CloseDone
    BY <2>2 DEF CloseDone, Life!Next, Life!CloseDone
  <2> QED BY <1>3, <2>1, <2>2 DEF readLoop
<1>4. CASE Node
  <2>1. CASE handleRequest \/ CorruptAnswer \/ Noise \/ Hang
    <3>1. UNCHANGED <<reader, closer>> /\ (node' = node \/ (node # "exited" /\ node' = "hung"))
      BY <2>1 DEF handleRequest, CorruptAnswer, Noise, Hang, Emit
    <3> QED BY <1>1, <3>1
  <2>2. CASE node # "exited" /\ Exit
    BY <2>2 DEF Exit, Life!Next, Life!Exit
  <2> QED BY <1>4, <2>1, <2>2 DEF Node, Crash, ExitOnEOF
<1>5. CASE CloseStdin
  BY <1>5 DEF CloseStdin, Life!Next, Life!CloseStdin
<1>6. CASE Wait
  BY <1>6 DEF Wait, Life!Next, Life!Wait
<1>7. CASE UNCHANGED vars
  BY <1>1, <1>7 DEF vars
<1> QED BY <1>1, <1>2, <1>3, <1>4, <1>5, <1>6, <1>7 DEF Next, Close

\* Whatever the process prints, however it ends and whenever close is called:
\* done is closed once and after the process is gone, which is all the pool
\* knows when it replaces a worker.
THEOREM WorkerIsSubprocess == Spec => ImplementsSubprocess
<1>1. Init => Gone /\ Life!Init
  BY DEF Init, Gone, Life!Init, done
<1> QED BY <1>1, NextKeepsGone, PTL DEF Spec, ImplementsSubprocess, Life!Spec
=============================================================================
