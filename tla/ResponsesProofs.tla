-------------------------- MODULE ResponsesProofs ---------------------------
(***************************************************************************)
(* Responses, for any number of requests and any chains.                   *)
(*                                                                         *)
(* First the pool of ETag writers: no two requests write into one buffer.  *)
(* What a request holds is its own from the moment it takes a writer until *)
(* EtagRelease: on the way out, until its level is below that of the ETag  *)
(* middleware.                                                             *)
(*                                                                         *)
(* Then a response on its way (Flow): at every level the writers from      *)
(* there to the server have seen no status, or have passed one on, or the  *)
(* ETag writer keeps it.  From that follow what becomes of the status      *)
(* (Stands), of the log line (Shown), of a failure (Reported) and of the   *)
(* validator (Current), and last of the headers and the body (Fits), for a *)
(* chain without a compressor, with one, and for static files.             *)
(***************************************************************************)
EXTENDS Responses, FiniteSetTheorems, SequenceTheorems, WellFoundedInduction, TLAPS

\* The ETag middleware of r has begun and has not yet returned.
Within(r) == \E i \in 1..level[r] : chain[r][i] = "etag"

Holds(r) ==
    /\ ew[r] # None
    /\ pc[r] \in {"refuse", "handler"} \/ (pc[r] = "unwind" /\ Within(r))

Shape ==
    /\ pc \in [Requests -> {"new", "refuse", "handler", "unwind", "commit", "done"}]
    /\ chain \in [Requests -> Chains]
    /\ level \in [Requests -> Nat]
    /\ ew \in [Requests -> Nat]
    /\ \A r \in Requests : level[r] <= Len(chain[r])

\* Writers in the pool have been some request's; one inside the ETag
\* middleware has a writer.
Taken ==
    /\ \A w \in pool : w # None /\ \E r \in Requests : ew[r] = w
    /\ \A r \in Requests : pc[r] = "new" => ew[r] = None
    /\ \A r \in Requests : pc[r] # "new" /\ Within(r) => ew[r] # None
    /\ \A r \in Requests : pc[r] = "commit" => level[r] > 0 /\ chain[r][level[r]] = "etag"

Apart ==
    \A r \in Requests : Holds(r) =>
        ew[r] \notin pool /\ \A q \in Requests : Holds(q) /\ ew[q] = ew[r] => q = r

PoolInv == Shape /\ Taken /\ Apart

\* A chain holds the ETag middleware once.
LEMMA OneEtag ==
    ASSUME Shape, NEW r \in Requests, NEW i \in 1..level[r], NEW j \in 1..level[r],
           chain[r][i] = "etag", chain[r][j] = "etag"
    PROVE  i = j
  <1>1. chain[r] \in Chains
    BY DEF Shape
  <1>2. CASE chain[r] = <<"static">>
    <2>1. Len(chain[r]) = 1
      BY <1>2
    <2>2. level[r] \in Nat /\ level[r] <= 1
      BY <2>1 DEF Shape
    <2>. QED  BY <2>2
  <1>3. CASE chain[r] # <<"static">>
    <2>1. chain[r] \in Seq({"recovery", "logger", "basicauth", "jwt", "cors", "compress", "etag"})
      BY <1>1, <1>3, ResponsesAssumption
    <2>2. i \in DOMAIN chain[r] /\ j \in DOMAIN chain[r]
      BY <2>1 DEF Shape
    <2>. QED  BY <1>1, <1>3, <2>2, ResponsesAssumption
  <1>. QED  BY <1>2, <1>3

\* Steps that take no writer: they may only end the holding of one.
LEMMA Keeps ==
    ASSUME PoolInv, Shape', UNCHANGED <<chain, ew>>,
           \A r \in Requests : Holds(r)' => Holds(r),
           \A r \in Requests : pc'[r] = "new" => pc[r] = "new",
           \A r \in Requests : pc'[r] # "new" /\ Within(r)' => pc[r] # "new" /\ Within(r),
           \A r \in Requests : pc'[r] = "commit" => level'[r] > 0 /\ chain[r][level'[r]] = "etag",
           \A w \in pool' : w \in pool \/ \E r \in Requests : w = ew[r] /\ Holds(r) /\ ~Holds(r)'
    PROVE  PoolInv'
  <1>1. Taken'
    <2>1. (\A w \in pool : w # None /\ \E r \in Requests : ew[r] = w)'
      BY DEF PoolInv, Taken, Holds
    <2>2. (\A r \in Requests : pc[r] = "new" => ew[r] = None)'
      BY DEF PoolInv, Taken
    <2>3. (\A r \in Requests : pc[r] # "new" /\ Within(r) => ew[r] # None)'
      BY DEF PoolInv, Taken
    <2>4. (\A r \in Requests : pc[r] = "commit" => level[r] > 0 /\ chain[r][level[r]] = "etag")'
      OBVIOUS
    <2>. QED  BY <2>1, <2>2, <2>3, <2>4 DEF Taken
  <1>2. Apart'
    <2>1. SUFFICES ASSUME NEW r \in Requests, Holds(r)'
                   PROVE  (ew[r] \notin pool /\ \A q \in Requests : Holds(q) /\ ew[q] = ew[r] => q = r)'
      BY DEF Apart
    <2>2. Holds(r) /\ ew[r] \notin pool /\ \A q \in Requests : Holds(q) /\ ew[q] = ew[r] => q = r
      BY <2>1 DEF PoolInv, Apart
    <2>3. ew'[r] \notin pool'
      BY <2>1, <2>2
    <2>. QED  BY <2>2, <2>3
  <1>. QED  BY <1>1, <1>2 DEF PoolInv

LEMMA WritersAreNumbers == \A w \in Writers : w \in Nat /\ w # None
  <1>1. Cardinality(Requests) \in Nat
    BY ResponsesAssumption, FS_CardinalityType
  <1>. QED  BY <1>1 DEF Writers, None

LEMMA ArriveKeeps ==
    ASSUME PoolInv, NEW r \in Requests, Arrive(r)
    PROVE  PoolInv'
  <1> USE DEF PoolInv
  <1>1. PICK n \in Stops(r), w \in Fresh \cup pool :
          /\ level' = [level EXCEPT ![r] = n]
          /\ pc' = [pc EXCEPT ![r] = IF n = Len(chain[r]) THEN "handler" ELSE "refuse"]
          /\ \/ /\ \E i \in 1..n : chain[r][i] = "etag"
                /\ pool' = Without(w)
                /\ ew' = [ew EXCEPT ![r] = w]
             \/ /\ \A i \in 1..n : chain[r][i] # "etag"
                /\ w \in Fresh
                /\ ew' = [ew EXCEPT ![r] = IF chain[r] = <<"static">> THEN w ELSE None]
                /\ UNCHANGED pool
    BY DEF Arrive
  <1>2. UNCHANGED chain /\ pc[r] = "new" /\ ew[r] = None
    BY DEF Arrive, Taken
  <1>3. chain[r] \in Seq({"recovery", "logger", "basicauth", "jwt", "cors", "compress", "etag", "static"})
    <2>1. chain[r] \in Chains
      BY DEF Shape
    <2>2. CASE chain[r] = <<"static">>
      BY <2>2
    <2>3. CASE chain[r] # <<"static">>
      <3>1. chain[r] \in Seq({"recovery", "logger", "basicauth", "jwt", "cors", "compress", "etag"})
        BY <2>1, <2>3, ResponsesAssumption
      <3>. QED  BY <3>1
    <2>. QED  BY <2>2, <2>3
  <1>4. n \in Nat /\ n <= Len(chain[r])
    BY <1>3 DEF Stops
  <1>5. w \in Nat /\ w # None /\ \A q \in Requests : Holds(q) => ew[q] # w
    <2>1. CASE w \in Fresh
      BY <2>1, WritersAreNumbers DEF Fresh
    <2>2. CASE w \in pool
      BY <2>2 DEF Apart, Taken, Shape
    <2>. QED  BY <2>1, <2>2
  <1>6. Shape'
    BY <1>1, <1>2, <1>4, <1>5 DEF Shape, None
  <1>7. \A q \in Requests \ {r} : /\ pc'[q] = pc[q] /\ ew'[q] = ew[q] /\ Within(q)' = Within(q)
                                  /\ level'[q] = level[q] /\ Holds(q)' = Holds(q)
    BY <1>1, <1>2 DEF Shape, Within, Holds
  <1>8. \A v \in pool' : v \in pool /\ (ew'[r] # None => ew'[r] # v)
    BY <1>1, <1>2 DEF Shape, Without, Fresh, Taken
  <1>9. pc'[r] \in {"refuse", "handler"} /\ level'[r] = n /\ ew'[r] \in {w, None}
    BY <1>1 DEF Shape
  <1>10. Taken'
    <2>1. (\A v \in pool : v # None /\ \E q \in Requests : ew[q] = v)'
      BY <1>2, <1>7, <1>8 DEF Taken
    <2>2. (\A q \in Requests : pc[q] = "new" => ew[q] = None)'
      BY <1>7, <1>9 DEF Taken
    <2>3. (\A q \in Requests : pc[q] # "new" /\ Within(q) => ew[q] # None)'
      <3>1. Within(r)' => ew'[r] # None
        BY <1>1, <1>2, <1>5, <1>9 DEF Within, Shape
      <3>. QED  BY <1>7, <3>1 DEF Taken
    <2>4. (\A q \in Requests : pc[q] = "commit" => level[q] > 0 /\ chain[q][level[q]] = "etag")'
      BY <1>2, <1>7, <1>9 DEF Taken
    <2>. QED  BY <2>1, <2>2, <2>3, <2>4 DEF Taken
  <1>11. Apart'
    <2>1. SUFFICES ASSUME NEW q \in Requests, Holds(q)'
                   PROVE  (ew[q] \notin pool /\ \A p \in Requests : Holds(p) /\ ew[p] = ew[q] => p = q)'
      BY DEF Apart
    <2>2. CASE q = r
      BY <2>1, <2>2, <1>5, <1>7, <1>8, <1>9 DEF Holds
    <2>3. CASE q # r
      <3>1. Holds(q) /\ ew'[q] = ew[q]
        BY <2>1, <2>3, <1>7
      <3>. QED  BY <2>3, <3>1, <1>5, <1>7, <1>8, <1>9 DEF Apart, Holds
    <2>. QED  BY <2>2, <2>3
  <1>. QED  BY <1>6, <1>10, <1>11

\* The steps of the handler itself.
LEMMA HandlerKeeps ==
    ASSUME PoolInv, NEW r \in Requests, UNCHANGED <<chain, level, pool, ew>>,
           \/ pc[r] \in {"refuse", "handler"} /\ pc' = [pc EXCEPT ![r] = "unwind"]
           \/ pc[r] = "unwind" /\ pc' = [pc EXCEPT ![r] = "done"]
           \/ UNCHANGED pc
    PROVE  PoolInv'
  <1>1. Shape'
    BY DEF PoolInv, Shape
  <1>2. \A q \in Requests : Holds(q)' => Holds(q)
    BY DEF PoolInv, Shape, Holds, Within
  <1>3. \A q \in Requests : /\ pc'[q] = "new" => pc[q] = "new"
                            /\ pc'[q] # "new" /\ Within(q)' => pc[q] # "new" /\ Within(q)
                            /\ pc'[q] = "commit" => level'[q] > 0 /\ chain[q][level'[q]] = "etag"
    BY DEF PoolInv, Shape, Taken, Within
  <1>. QED  BY <1>1, <1>2, <1>3, Keeps

\* One middleware returns; that of the ETag writer may give it back.
LEMMA LeaveKeeps ==
    ASSUME PoolInv, NEW r \in Requests, Leave(r), level[r] > 0, UNCHANGED <<chain, ew>>,
           \/ pc[r] \in {"unwind", "commit"} /\ pool' = pool
           \/ /\ pc[r] = "unwind" /\ chain[r][level[r]] = "etag"
              /\ pool' \in {pool, pool \cup {ew[r]}}
    PROVE  PoolInv'
  <1>1. Shape'
    BY DEF PoolInv, Shape, Leave
  <1>2. \A q \in Requests \ {r} : /\ pc'[q] = pc[q] /\ level'[q] = level[q]
                                  /\ Holds(q)' = Holds(q) /\ Within(q)' = Within(q)
    BY DEF PoolInv, Shape, Leave, Holds, Within
  <1>3. pc'[r] = "unwind" /\ level'[r] = level[r] - 1 /\ level[r] \in Nat
    BY DEF PoolInv, Shape, Leave
  <1>4. Within(r)' => Within(r)
    BY <1>3 DEF Within
  <1>5. chain[r][level[r]] = "etag" => ~Within(r)'
    <2>1. ASSUME chain[r][level[r]] = "etag", NEW i \in 1..(level[r] - 1), chain[r][i] = "etag"
          PROVE  FALSE
      <3>1. i \in 1..level[r] /\ level[r] \in 1..level[r] /\ i # level[r]
        BY <1>3
      <3>. QED  BY <2>1, <3>1, OneEtag DEF PoolInv
    <2>. QED  BY <1>3, <2>1 DEF Within
  <1>6. Holds(r)' => Holds(r)
    <2>1. CASE pc[r] = "unwind"
      BY <2>1, <1>3, <1>4 DEF Holds
    <2>2. CASE pc[r] = "commit"
      BY <2>2, <1>3, <1>5 DEF Holds, PoolInv, Taken
    <2>. QED  BY <2>1, <2>2
  <1>7. \A w \in pool' : w \in pool \/ \E q \in Requests : w = ew[q] /\ Holds(q) /\ ~Holds(q)'
    <2>1. ASSUME pc[r] = "unwind", chain[r][level[r]] = "etag" PROVE Holds(r) /\ ~Holds(r)'
      <3>1. Within(r)
        BY <2>1, <1>3 DEF Within
      <3>. QED  BY <2>1, <3>1, <1>3, <1>5 DEF Holds, PoolInv, Taken
    <2>. QED  BY <2>1
  <1>8. pc[r] # "new"
    OBVIOUS
  <1>9. /\ \A q \in Requests : pc'[q] = "new" => pc[q] = "new"
        /\ \A q \in Requests : pc'[q] # "new" /\ Within(q)' => pc[q] # "new" /\ Within(q)
        /\ \A q \in Requests : pc'[q] = "commit" => level'[q] > 0 /\ chain[q][level'[q]] = "etag"
    BY <1>2, <1>3, <1>4, <1>8 DEF PoolInv, Taken
  <1>. QED  BY <1>1, <1>2, <1>6, <1>7, <1>9, Keeps

LEMMA CommitKeeps ==
    ASSUME PoolInv, NEW r \in Requests, EtagRelease(r), pc' = [pc EXCEPT ![r] = "commit"],
           UNCHANGED level
    PROVE  PoolInv'
  <1>1. UNCHANGED <<chain, ew>> /\ pool' \in {pool, pool \cup {ew[r]}}
        /\ pc[r] = "unwind" /\ level[r] > 0 /\ chain[r][level[r]] = "etag"
    BY DEF EtagRelease, At
  <1>2. Shape'
    BY <1>1 DEF PoolInv, Shape
  <1>3. \A q \in Requests : Within(q)' = Within(q) /\ (q # r => pc'[q] = pc[q] /\ Holds(q)' = Holds(q))
    BY <1>1 DEF PoolInv, Shape, Holds, Within
  <1>4. pc'[r] = "commit" /\ ~Holds(r)'
    BY DEF PoolInv, Shape, Holds
  <1>5. Holds(r)
    <2>1. Within(r)
      BY <1>1 DEF Within, PoolInv, Shape
    <2>. QED  BY <1>1, <2>1 DEF Holds, PoolInv, Taken
  <1>6. \A w \in pool' : w \in pool \/ \E q \in Requests : w = ew[q] /\ Holds(q) /\ ~Holds(q)'
    BY <1>1, <1>4, <1>5
  <1>7. /\ \A q \in Requests : pc'[q] = "new" => pc[q] = "new"
        /\ \A q \in Requests : pc'[q] # "new" /\ Within(q)' => pc[q] # "new" /\ Within(q)
        /\ \A q \in Requests : pc'[q] = "commit" => level'[q] > 0 /\ chain[q][level'[q]] = "etag"
    BY <1>1, <1>3, <1>4 DEF PoolInv, Taken
  <1>. QED  BY <1>1, <1>2, <1>3, <1>4, <1>6, <1>7, Keeps

LEMMA PoolStep == PoolInv /\ [Next]_vars => PoolInv'
  <1> SUFFICES ASSUME PoolInv, [Next]_vars PROVE PoolInv'
    OBVIOUS
  <1>1. ASSUME NEW r \in Requests, Handler(r) PROVE PoolInv'
    <2>1. CASE Arrive(r)
      BY <2>1, ArriveKeeps
    <2>2. CASE \E code \in BasicAuth \cup JWT \cup CORS : Refuse(r, code)
      <3>1. pc[r] = "refuse" /\ pc' = [pc EXCEPT ![r] = "unwind"] /\ UNCHANGED <<chain, level, pool, ew>>
        BY <2>2 DEF Refuse
      <3>. QED  BY <3>1, HandlerKeeps
    <2>3. CASE \E code \in Codes : HandlerHeader(r, code)
      <3>1. UNCHANGED <<pc, chain, level, pool, ew>>
        BY <2>3 DEF HandlerHeader
      <3>. QED  BY <3>1, HandlerKeeps
    <2>4. CASE HandlerDeclares(r)
      <3>1. UNCHANGED <<pc, chain, level, pool, ew>>
        BY <2>4 DEF HandlerDeclares, poolVars
      <3>. QED  BY <3>1, HandlerKeeps
    <2>5. CASE \E page \in Pages : HandlerWrite(r, page)
      <3>1. UNCHANGED <<pc, chain, level, pool, ew>>
        BY <2>5 DEF HandlerWrite
      <3>. QED  BY <3>1, HandlerKeeps
    <2>6. CASE \E how \in {"ok", "err", "panic"} : HandlerEnds(r, how)
      <3>1. pc[r] = "handler" /\ pc' = [pc EXCEPT ![r] = "unwind"] /\ UNCHANGED <<chain, level, pool, ew>>
        BY <2>6 DEF HandlerEnds
      <3>. QED  BY <3>1, HandlerKeeps
    <2>. QED  BY <1>1, <2>1, <2>2, <2>3, <2>4, <2>5, <2>6 DEF Handler
  <1>2. ASSUME NEW r \in Requests, Unwind(r) PROVE PoolInv'
    <2>1. CASE \/ CloseCompressor(r) \/ FlushStatic(r) \/ PassBy(r) \/ Log(r) \/ Recover(r)
      <3>1. pc[r] = "unwind" /\ level[r] > 0 /\ Leave(r) /\ UNCHANGED <<chain, pool, ew>>
        BY <2>1 DEF CloseCompressor, FlushStatic, PassBy, Log, Recover, At
      <3>. QED  BY <3>1, LeaveKeeps
    <2>2. CASE EtagRelease(r)
      <3>1. CASE Leave(r)
        <4>1. /\ pc[r] = "unwind" /\ level[r] > 0 /\ chain[r][level[r]] = "etag"
              /\ UNCHANGED <<chain, ew>> /\ pool' \in {pool, pool \cup {ew[r]}}
          BY <2>2 DEF EtagRelease, At
        <4>. QED  BY <3>1, <4>1, LeaveKeeps
      <3>2. CASE pc' = [pc EXCEPT ![r] = "commit"] /\ UNCHANGED level
        BY <2>2, <3>2, CommitKeeps
      <3>. QED  BY <2>2, <3>1, <3>2 DEF EtagRelease
    <2>3. CASE \E inm, im \in Validators : CommitConditional(r, inm, im) \/ CommitBody(r, inm, im)
      <3>1. pc[r] = "commit" /\ Leave(r) /\ UNCHANGED <<chain, pool, ew>>
        BY <2>3 DEF CommitConditional, CommitBody
      <3>2. level[r] > 0
        BY <3>1 DEF PoolInv, Taken
      <3>. QED  BY <3>1, <3>2, LeaveKeeps
    <2>4. CASE Adapt(r)
      <3>1. pc[r] = "unwind" /\ pc' = [pc EXCEPT ![r] = "done"] /\ UNCHANGED <<chain, level, pool, ew>>
        BY <2>4 DEF Adapt
      <3>. QED  BY <3>1, HandlerKeeps
    <2>. QED  BY <1>2, <2>1, <2>2, <2>3, <2>4 DEF Unwind
  <1>3. ASSUME NEW r \in Requests, LogFails(r) PROVE PoolInv'
    <2>1. pc[r] = "unwind" /\ level[r] > 0 /\ Leave(r) /\ UNCHANGED <<chain, pool, ew>>
      BY <1>3 DEF LogFails, At
    <2>. QED  BY <2>1, LeaveKeeps
  <1>4. CASE UNCHANGED vars
    <2>1. UNCHANGED <<pc, chain, level, pool, ew>>
      BY <1>4 DEF vars
    <2>2. PICK r \in Requests : TRUE
      BY ResponsesAssumption
    <2>. QED  BY <2>1, <2>2, HandlerKeeps
  <1>. QED  BY <1>1, <1>2, <1>3, <1>4 DEF Next

LEMMA PoolInit == Init => PoolInv
  <1> SUFFICES ASSUME Init PROVE PoolInv
    OBVIOUS
  <1>1. \A r \in Requests : Len(chain[r]) \in Nat
    <2> TAKE r \in Requests
    <2>1. chain[r] \in Chains
      BY DEF Init
    <2>2. CASE chain[r] = <<"static">>
      BY <2>2
    <2>3. CASE chain[r] # <<"static">>
      <3>1. chain[r] \in Seq({"recovery", "logger", "basicauth", "jwt", "cors", "compress", "etag"})
        BY <2>1, <2>3, ResponsesAssumption
      <3>. QED  BY <3>1
    <2>. QED  BY <2>2, <2>3
  <1>2. Shape
    BY <1>1 DEF Init, Shape, None
  <1>3. Taken
    BY DEF Init, Taken
  <1>4. Apart
    BY DEF Init, Apart, Holds
  <1>. QED  BY <1>2, <1>3, <1>4 DEF PoolInv

\* Whatever chains and however many requests are served, failed or panicking:
\* the writer that a request writes its body into is in nobody else's hands and
\* not in the pool.
THEOREM BuffersExclusive == Spec => []WritersExclusive
  <1>1. PoolInv => WritersExclusive
    BY DEF PoolInv, Apart, Holds, WritersExclusive
  <1>. QED  BY <1>1, PoolInit, PoolStep, PTL DEF Spec
-----------------------------------------------------------------------------
(***************************************************************************)
(* Types, and the phases of a request.                                     *)
(***************************************************************************)
Kinds == {"recovery", "logger", "basicauth", "jwt", "cors", "compress", "etag", "static"}
Piece == [what : Pages \cup {Trailer, ErrorText}, packed : BOOLEAN]
Bodies == Seq(Piece)
Statuses == Nat \ {0}
Maps == [etag : Bodies \cup {NoTag}, packed : BOOLEAN, length : Nat]

OutTypes ==
    /\ \A r \in Requests : layer[r] \in [DOMAIN chain[r] -> [wrote : BOOLEAN, status : Statuses]]
    /\ layer = [r \in Requests |-> layer[r]]
    /\ hdr \in [Requests -> Maps]
    /\ raw \in [Requests -> [status : Nat, headers : Maps, body : Bodies]]
    /\ own \in [Requests -> Bodies]
    /\ array \in [Writers -> Bodies]
    /\ used \in [Writers -> Nat]
    /\ \A w \in Writers : used[w] <= Len(array[w])

EtagTypes ==
    /\ tag \in [Requests -> Bodies \cup {NoTag}]
    /\ size \in [Requests -> Nat]
    /\ matched \in [Requests -> Validators]
    /\ pool \subseteq Writers
    /\ \A r \in Requests : ew[r] \in Writers \cup {None}
    /\ \A r \in Requests : pc[r] = "commit" => size[r] <= Len(array[ew[r]])
    /\ \A r \in Requests : pc[r] # "new" /\ chain[r] = <<"static">> => ew[r] # None

Types ==
    /\ OutTypes
    /\ EtagTypes
    /\ outcome \in [Requests -> {"ok", "err", "panic"}]
    /\ ended \in [Requests -> {"running", "copying", "wrote", "ok", "err", "panic", "callback"}]
    /\ said \in [Requests -> Nat]
    /\ logged \in [Requests -> Nat]

\* Who has said what, by the place the request has got to.
Phase(r) ==
    /\ pc[r] = "new" => level[r] = Len(chain[r]) /\ said[r] = 0 /\ ended[r] = "running"
    /\ pc[r] = "refuse" => said[r] = 0 /\ ended[r] = "running"
    /\ pc[r] = "handler" =>
          /\ level[r] = Len(chain[r]) /\ ended[r] \in {"running", "copying", "wrote"}
          /\ ended[r] = "copying" => said[r] = 0
    /\ pc[r] \in {"new", "refuse", "handler"} => outcome[r] = "ok" /\ logged[r] = 0
    /\ pc[r] \in {"unwind", "commit", "done"} =>
          /\ ended[r] \in {"ok", "err", "panic", "callback"}
          /\ ended[r] = "callback" => outcome[r] = "err" /\ chain[r] # <<"static">>
          /\ ended[r] = "ok" => outcome[r] = "ok"
          /\ ended[r] = "err" => outcome[r] = "err"
          /\ ended[r] = "panic" => outcome[r] \in {"ok", "panic"}
          /\ chain[r] = <<"static">> => ended[r] = "ok"
    /\ pc[r] = "commit" => outcome[r] = "ok" /\ layer[r][level[r]].status = 200
    /\ pc[r] = "done" => level[r] = 0

(***************************************************************************)
(* Where the status is.  At every level of a chain one of three things is  *)
(* true of the writers from there to the server: none has seen a status;   *)
(* all have, the same one, and the server has sent it; or the ETag writer  *)
(* (or that of static files) at e has kept it to itself, those outside e   *)
(* have seen none, those inside have seen a 200.                           *)
(***************************************************************************)
Untouched(r, n) == raw[r].status = 0 /\ \A i \in 1..n : layer[r][i] = [wrote |-> FALSE, status |-> 200]

Passed(r, n) ==
    /\ raw[r].status # 0
    /\ \A i \in 1..n :
          /\ chain[r][i] # "static"
          /\ chain[r][i] = "etag" => raw[r].status # 200
          /\ Wraps(chain[r][i]) => layer[r][i] = [wrote |-> TRUE, status |-> raw[r].status]

KeptAt(r, n, e) ==
    /\ raw[r].status = 0
    /\ e \in 1..n
    /\ chain[r][e] \in {"etag", "static"}
    /\ \A i \in 1..(e - 1) : layer[r][i] = [wrote |-> FALSE, status |-> 200]
    /\ \A i \in e..n : Wraps(chain[r][i]) =>
          layer[r][i].wrote /\ (chain[r][e] = "etag" => layer[r][i].status = 200)

Kept(r, n) == \E e \in 1..n : KeptAt(r, n, e)

\* A body made of nothing but the given pieces.
Made(body, whats) == \A k \in DOMAIN body : body[k].what \in whats

\* The middleware has not begun to return.
Inside(r) == pc[r] \in {"new", "refuse", "handler"} \/ (pc[r] = "unwind" /\ level[r] = Len(chain[r]))

Flow(r) ==
    /\ Untouched(r, level[r]) \/ Passed(r, level[r]) \/ Kept(r, level[r])
    /\ Inside(r) /\ said[r] = 0 => Untouched(r, level[r])

\* A status the handler has decided on is on its way.
Stands(r) ==
    ended[r] \in {"running", "copying", "wrote", "ok"} /\ said[r] # 0 =>
        \/ /\ Passed(r, level[r])
           /\ \/ raw[r].status = said[r]
              \/ pc[r] # "handler" /\ said[r] = 200 /\ Has(r, "etag", 0) /\ raw[r].status \in {304, 412}
        \/ \E e \in 1..level[r] :
              /\ KeptAt(r, level[r], e)
              /\ chain[r][e] = "etag" => said[r] = 200
              /\ chain[r][e] = "static" => layer[r][e].status = said[r]

\* What the log shows is sent, or an ETag writer further out has it.
Shown(r) ==
    logged[r] # 0 /\ ended[r] \notin {"err", "callback"} =>
        /\ outcome[r] = "ok"
        /\ Has(r, "logger", level[r])
        /\ \/ Passed(r, level[r]) /\ logged[r] = raw[r].status
           \/ logged[r] = 200 /\ pc[r] # "done" /\ ~Passed(r, level[r])
           \/ /\ logged[r] = 200 /\ Passed(r, level[r]) /\ raw[r].status \in {304, 412}
              /\ \E e \in (level[r] + 1)..Len(chain[r]) :
                    chain[r][e] = "etag" /\ \A i \in (level[r] + 1)..e : chain[r][i] # "logger"

\* A failure nobody has answered for has left nothing outside whoever will;
\* once answered, nothing but the answer goes out.
Waiting(r) == pc[r] # "done" /\ outcome[r] = ended[r]

Reported(r) ==
    pc[r] \in {"unwind", "commit", "done"} /\ Failed(r) /\ Unanswered(r) =>
        /\ Waiting(r) => level[r] >= Answerer(r) /\ Untouched(r, Answerer(r))
        /\ ~Waiting(r) => /\ Passed(r, level[r]) /\ raw[r].status = 500
                          /\ Made(raw[r].body, {ErrorText, Trailer})

\* Nothing has been sent before a status has.
Ordered(r) == raw[r].status = 0 => raw[r].body = <<>>

\* The buffer of an ETag writer holds what its request has written, and the ETag
\* is that of the same.
Current(r) ==
    /\ pc[r] = "new" => own[r] = <<>>
    /\ Holds(r) /\ Has(r, "etag", 0) => SubSeq(array[ew[r]], 1, used[ew[r]]) = own[r]
    /\ pc[r] = "commit" => tag[r] = own[r]
    /\ raw[r].status = 304 /\ said[r] # 304 => matched[r] = own[r] /\ Passed(r, level[r])

-----------------------------------------------------------------------------
LEMMA ChainKinds ==
    ASSUME Shape, NEW r \in Requests
    PROVE  /\ chain[r] \in Seq(Kinds) /\ Len(chain[r]) \in Nat /\ DOMAIN chain[r] = 1..Len(chain[r])
           /\ \A i, j \in 1..Len(chain[r]) :
                 chain[r][i] = chain[r][j] /\ chain[r][i] \in {"compress", "etag"} => i = j
           /\ \A i \in 1..Len(chain[r]) :
                 chain[r][i] = "static" => chain[r] = <<"static">> /\ Len(chain[r]) = 1
  <1>1. chain[r] \in Chains
    BY DEF Shape
  <1>2. CASE chain[r] = <<"static">>
    <2>1. chain[r] \in Seq(Kinds) /\ Len(chain[r]) = 1 /\ chain[r][1] = "static"
      BY <1>2 DEF Kinds
    <2>. QED  BY <1>2, <2>1
  <1>3. CASE chain[r] # <<"static">>
    <2> DEFINE Inner == {"recovery", "logger", "basicauth", "jwt", "cors", "compress", "etag"}
    <2>1. chain[r] \in Seq(Inner)
      BY <1>1, <1>3, ResponsesAssumption
    <2>2. chain[r] \in Seq(Kinds) /\ DOMAIN chain[r] = 1..Len(chain[r]) /\ Len(chain[r]) \in Nat
          /\ \A i \in 1..Len(chain[r]) : chain[r][i] # "static"
      BY <2>1 DEF Kinds
    <2>3. \A i, j \in DOMAIN chain[r] :
             chain[r][i] = chain[r][j] /\ chain[r][i] \in {"compress", "etag"} => i = j
      BY <1>1, <1>3, ResponsesAssumption
    <2>. QED  BY <2>2, <2>3
  <1>. QED  BY <1>2, <1>3

\* The writer of middleware e keeps a code to itself.
Keeper(r, e, code) == chain[r][e] = "static" \/ (chain[r][e] = "etag" /\ code = 200)

\* What the header of a write at n does to the writers from n to the server.
HeaderStep(r, n, code, map) ==
    /\ layer'[r] = HeaderLayers(r, n, code)
    /\ raw'[r].status = HeaderRaw(r, n, code, map).status
    /\ chain'[r] = chain[r]

LEMMA HeaderKept ==
    ASSUME Shape, Types, NEW r \in Requests, NEW n \in 0..Len(chain[r]), NEW code \in Statuses, NEW map,
           HeaderStep(r, n, code, map), Untouched(r, n), NEW e \in 1..n, Keeper(r, e, code)
    PROVE  KeptAt(r, n, e)' /\ layer'[r][e].status = code
  <1>1. /\ DOMAIN chain[r] = 1..Len(chain[r]) /\ Len(chain[r]) \in Nat /\ n \in Nat /\ e \in Nat
        /\ \A i \in 1..n : i \in 1..Len(chain[r])
        /\ \A i \in 1..n : Keeper(r, i, code) => i = e
    BY ChainKinds DEF Keeper
  <1>2. \A i \in 1..n : Absorbs(r, i, code) <=> i = e
    BY <1>1 DEF Absorbs, Untouched, Keeper, Wraps
  <1>3. \A i \in 0..n : Reaches(r, n, i, code) <=> i >= e
    BY <1>1, <1>2 DEF Reaches
  <1>4. \A i \in 1..n : Takes(r, n, i, code) <=> Wraps(chain[r][i]) /\ i >= e
    BY <1>1, <1>3 DEF Takes, Untouched
  <1>5. \A i \in 1..n : layer'[r][i] = IF Wraps(chain[r][i]) /\ i >= e
                                         THEN [wrote |-> TRUE, status |-> code] ELSE layer[r][i]
    BY <1>1, <1>4 DEF HeaderStep, HeaderLayers
  <1>6. raw'[r].status = raw[r].status
    BY <1>1, <1>3 DEF HeaderStep, HeaderRaw
  <1>7. chain[r][e] \in {"etag", "static"} /\ Wraps(chain[r][e]) /\ (chain[r][e] = "etag" => code = 200)
    BY DEF Keeper, Wraps
  <1>. QED  BY <1>1, <1>5, <1>6, <1>7 DEF KeptAt, Untouched, HeaderStep

LEMMA HeaderPassed ==
    ASSUME Shape, Types, NEW r \in Requests, NEW n \in 0..Len(chain[r]), NEW code \in Statuses, NEW map,
           HeaderStep(r, n, code, map), Untouched(r, n), \A e \in 1..n : ~Keeper(r, e, code)
    PROVE  Passed(r, n)' /\ raw'[r].status = code
  <1>1. /\ DOMAIN chain[r] = 1..Len(chain[r]) /\ n \in Nat
        /\ \A i \in 1..n : i \in 1..Len(chain[r])
    BY ChainKinds
  <1>2. \A i \in 1..n : ~Absorbs(r, i, code)
    BY <1>1 DEF Absorbs, Untouched, Keeper
  <1>3. \A i \in 0..n : Reaches(r, n, i, code)
    BY <1>1, <1>2 DEF Reaches
  <1>4. \A i \in 1..n : Wraps(chain[r][i]) => layer'[r][i] = [wrote |-> TRUE, status |-> code]
    BY <1>1, <1>3 DEF HeaderStep, HeaderLayers, Takes, Untouched
  <1>5. raw'[r].status = code
    BY <1>1, <1>3 DEF HeaderStep, HeaderRaw, Untouched, Types, OutTypes
  <1>6. ASSUME NEW i \in 1..n
        PROVE  /\ chain'[r][i] # "static" /\ (chain'[r][i] = "etag" => code # 200)
               /\ Wraps(chain'[r][i]) => layer'[r][i] = [wrote |-> TRUE, status |-> code]
    <2>1. chain'[r][i] = chain[r][i] /\ ~Keeper(r, i, code)
      BY DEF HeaderStep
    <2>. QED  BY <1>4, <2>1 DEF Keeper
  <1>7. code # 0
    BY DEF Statuses
  <1>. QED  BY <1>5, <1>6, <1>7 DEF Passed, Wraps

\* Once a status is on its way, a header changes nothing.
LEMMA HeaderDropped ==
    ASSUME Shape, Types, NEW r \in Requests, NEW n \in 0..Len(chain[r]), NEW code \in Statuses, NEW map,
           HeaderStep(r, n, code, map), Passed(r, n) \/ Kept(r, n)
    PROVE  layer'[r] = layer[r] /\ raw'[r].status = raw[r].status
  <1>1. DOMAIN chain[r] = 1..Len(chain[r]) /\ n \in Nat /\ layer[r] = [i \in DOMAIN chain[r] |-> layer[r][i]]
    BY ChainKinds DEF Types, OutTypes
  <1>2. \A i \in 1..n : ~Takes(r, n, i, code)
    <2>1. CASE Passed(r, n)
      BY <2>1 DEF Passed, Takes
    <2>2. CASE Kept(r, n)
      <3>1. PICK e \in 1..n : KeptAt(r, n, e)
        BY <2>2 DEF Kept
      <3>2. Absorbs(r, e, code)
        BY <3>1 DEF KeptAt, Absorbs, Wraps
      <3>3. \A i \in 1..n : i < e => ~Reaches(r, n, i, code)
        BY <3>1, <3>2 DEF Reaches
      <3>4. ASSUME NEW i \in 1..n, ~(i < e), Wraps(chain[r][i]) PROVE layer[r][i].wrote
        <4>1. i \in e..n
          BY <1>1, <3>4
        <4>. QED  BY <3>1, <3>4, <4>1 DEF KeptAt
      <3>. QED  BY <3>3, <3>4 DEF Takes
    <2>. QED  BY <2>1, <2>2
  <1>3. layer'[r] = [i \in DOMAIN chain[r] |-> layer[r][i]]
    BY <1>1, <1>2 DEF HeaderStep, HeaderLayers
  <1>4. raw'[r].status = raw[r].status
    <2>1. CASE Passed(r, n)
      BY <2>1 DEF Passed, HeaderStep, HeaderRaw
    <2>2. CASE Kept(r, n)
      <3>1. PICK e \in 1..n : KeptAt(r, n, e)
        BY <2>2 DEF Kept
      <3>2. Absorbs(r, e, code)
        BY <3>1 DEF KeptAt, Absorbs, Wraps
      <3>3. ~Reaches(r, n, 0, code)
        BY <3>1, <3>2 DEF Reaches
      <3>. QED  BY <3>3 DEF HeaderStep, HeaderRaw
    <2>. QED  BY <2>1, <2>2
  <1>. QED  BY <1>1, <1>3, <1>4

-----------------------------------------------------------------------------
(***************************************************************************)
(* The pieces of a body                                                    *)
(***************************************************************************)
LEMMA PiecesAreTyped ==
    /\ \A page \in Pages : <<Plain(page)>> \in Bodies
    /\ <<Plain(ErrorText)>> \in Bodies
    /\ <<Packed(Trailer)>> \in Bodies
  BY DEF Bodies, Piece, Plain, Packed

LEMMA PassTypes ==
    ASSUME NEW r, NEW n, NEW i, NEW pieces \in Bodies
    PROVE  Pass(r, n, i, pieces) \in Bodies /\ Len(Pass(r, n, i, pieces)) = Len(pieces)
  <1> DEFINE packed == [k \in DOMAIN pieces |-> Packed(pieces[k].what)]
  <1>1. DOMAIN pieces = 1..Len(pieces) /\ Len(pieces) \in Nat /\ \A k \in 1..Len(pieces) : pieces[k] \in Piece
    BY DEF Bodies
  <1>2. \A k \in 1..Len(pieces) : Packed(pieces[k].what) \in Piece
    BY <1>1 DEF Piece, Packed
  <1>3. packed \in Seq(Piece) /\ Len(packed) = Len(pieces)
    <2>1. packed = [k \in 1..Len(pieces) |-> Packed(pieces[k].what)]
      BY <1>1
    <2>. QED  BY <1>1, <1>2, <2>1, IsASeq
  <1>. QED  BY <1>3 DEF Pass, Bodies

LEMMA Prefix ==
    ASSUME NEW s \in Bodies, NEW n \in 0..Len(s)
    PROVE  SubSeq(s, 1, n) \in Bodies /\ Len(SubSeq(s, 1, n)) = n /\ \A k \in 1..n : SubSeq(s, 1, n)[k] = s[k]
  <1>1. n \in Int /\ 1 \in Int /\ \A k \in 1..n : s[k] \in Piece
    BY DEF Bodies
  <1>2. /\ SubSeq(s, 1, n) \in Seq(Piece) /\ Len(SubSeq(s, 1, n)) = (IF 1 <= n THEN n - 1 + 1 ELSE 0)
        /\ \A k \in 1..(n - 1 + 1) : SubSeq(s, 1, n)[k] = s[1 + k - 1]
    BY <1>1, SubSeqProperties
  <1>3. Len(s) \in Nat
    BY DEF Bodies
  <1>4. n \in Nat /\ n - 1 + 1 = n /\ (\A k \in 1..n : 1 + k - 1 = k) /\ (~(1 <= n) => n = 0)
    BY <1>3
  <1> DEFINE t == SubSeq(s, 1, n)
  <1> HIDE DEF t
  <1>5. t \in Seq(Piece) /\ Len(t) = (IF 1 <= n THEN n - 1 + 1 ELSE 0) /\ \A k \in 1..(n - 1 + 1) : t[k] = s[1 + k - 1]
    BY <1>2 DEF t
  <1>6. t \in Bodies /\ Len(t) = n /\ \A k \in 1..n : t[k] = s[k]
    BY <1>4, <1>5 DEF Bodies
  <1>. QED  BY <1>6 DEF t

LEMMA ConcatFirst ==
    ASSUME NEW S, NEW x \in Seq(S), NEW y \in Seq(S)
    PROVE  x \o y \in Seq(S) /\ Len(x \o y) = Len(x) + Len(y) /\ \A k \in 1..Len(x) : (x \o y)[k] = x[k]
  <1>1. x \o y \in Seq(S) /\ Len(x \o y) = Len(x) + Len(y)
    OBVIOUS
  <1>2. \A k \in 1..Len(x) : (x \o y)[k] = x[k]
    OBVIOUS
  <1>. QED  BY <1>1, <1>2

\* What is written over earlier memory follows what the buffer held, and the
\* memory does not shrink.
LEMMA OverwriteKeeps ==
    ASSUME NEW s \in Bodies, NEW at \in 0..Len(s), NEW p \in Bodies
    PROVE  /\ Overwrite(s, at, p) \in Bodies
           /\ Len(Overwrite(s, at, p)) >= Len(s) /\ Len(Overwrite(s, at, p)) >= at + Len(p)
           /\ SubSeq(Overwrite(s, at, p), 1, at + Len(p)) = SubSeq(s, 1, at) \o p
  <1> DEFINE a == SubSeq(s, 1, at)
             z == SubSeq(s, at + Len(p) + 1, Len(s))
             b == a \o p
             o == b \o z
  <1>1. Len(s) \in Nat /\ Len(p) \in Nat /\ at \in Nat /\ at <= Len(s)
    BY DEF Bodies
  <1>2. a \in Seq(Piece) /\ Len(a) = at
    BY Prefix DEF Bodies
  <1>3. z \in Seq(Piece) /\ Len(z) = IF at + Len(p) + 1 <= Len(s) THEN Len(s) - (at + Len(p) + 1) + 1 ELSE 0
    <2>1. at + Len(p) + 1 \in Int /\ Len(s) \in Int /\ \A k \in (at + Len(p) + 1)..Len(s) : s[k] \in Piece
      BY <1>1 DEF Bodies
    <2>. QED  BY <2>1, SubSeqProperties, Zenon
  <1>4. p \in Seq(Piece)
    BY DEF Bodies
  <1> HIDE DEF a, z
  <1>5. b \in Seq(Piece) /\ Len(b) = at + Len(p)
    BY <1>2, <1>4, ConcatProperties
  <1> HIDE DEF b
  <1>6. o \in Seq(Piece) /\ Len(o) = Len(b) + Len(z) /\ \A k \in 1..Len(b) : o[k] = b[k]
    BY <1>3, <1>5, ConcatFirst, Zenon
  <1>7. Len(z) \in Nat /\ Len(b) + Len(z) >= Len(s) /\ Len(b) + Len(z) >= at + Len(p)
    <2>1. ASSUME NEW m \in Nat, NEW n \in Nat, NEW i \in Nat, NEW x,
                 x = IF i + m + 1 <= n THEN n - (i + m + 1) + 1 ELSE 0
          PROVE  x \in Nat /\ i + m + x >= n /\ i + m + x >= i + m
      BY <2>1
    <2>. QED  BY <1>1, <1>3, <1>5, <2>1
  <1> HIDE DEF o
  <1>8. SubSeq(o, 1, at + Len(p)) = b
    <2>1. at + Len(p) \in 0..Len(o) /\ o \in Bodies
      BY <1>1, <1>5, <1>6, <1>7 DEF Bodies
    <2> DEFINE t == SubSeq(o, 1, at + Len(p))
    <2>2. t \in Seq(Piece) /\ Len(t) = at + Len(p) /\ \A k \in 1..(at + Len(p)) : t[k] = o[k]
      BY <2>1, Prefix DEF Bodies
    <2> HIDE DEF t
    <2>3. Len(t) = Len(b) /\ \A k \in 1..Len(t) : t[k] = b[k]
      BY <1>5, <1>6, <2>2
    <2>4. t = b
      BY <1>5, <2>2, <2>3, SeqEqual
    <2>. QED  BY <2>4 DEF t
  <1>9. Overwrite(s, at, p) = o
    BY DEF Overwrite, o, b, a, z
  <1>. QED  BY <1>6, <1>7, <1>8, <1>9 DEF Bodies, b, a

-----------------------------------------------------------------------------
(***************************************************************************)
(* WriteHeader and Write keep the types.                                   *)
(***************************************************************************)
RawType == [status : Nat, headers : Maps, body : Bodies]

LEMMA HeaderTypes ==
    ASSUME Shape, Types, NEW r \in Requests, NEW n \in Nat, NEW code \in Statuses, NEW map \in Maps
    PROVE  /\ HeaderLayers(r, n, code) \in [DOMAIN chain[r] -> [wrote : BOOLEAN, status : Statuses]]
           /\ HeaderMap(r, n, code, map) \in Maps
           /\ HeaderRaw(r, n, code, map) \in RawType
           /\ HeaderRaw(r, n, code, map).body = raw[r].body
  <1>1. HeaderMap(r, n, code, map) \in Maps
    BY DEF HeaderMap, Maps
  <1>2. HeaderLayers(r, n, code) \in [DOMAIN chain[r] -> [wrote : BOOLEAN, status : Statuses]]
    <2>1. layer[r] \in [DOMAIN chain[r] -> [wrote : BOOLEAN, status : Statuses]]
      BY DEF Types, OutTypes
    <2>. QED  BY <2>1 DEF HeaderLayers
  <1>3. raw[r] \in RawType /\ code \in Nat
    BY DEF Types, OutTypes, RawType, Statuses
  <1>. QED  BY <1>1, <1>2, <1>3 DEF HeaderRaw, RawType

LEMMA SentTypes ==
    ASSUME NEW out \in RawType, NEW pieces \in Bodies
    PROVE  /\ Sent(out, pieces) \in RawType
           /\ Sent(out, pieces).status = out.status /\ Sent(out, pieces).headers = out.headers
  <1> DEFINE body == out.body \o pieces
  <1>1. body \in Bodies
    BY DEF RawType, Bodies
  <1>2. ASSUME out.headers.length \in 1..(Len(body) - 1)
        PROVE  SubSeq(body, 1, out.headers.length) \in Bodies
    <2>1. out.headers.length \in 0..Len(body)
      BY <1>1, <1>2 DEF Bodies
    <2>. QED  BY <1>1, <2>1, Prefix
  <1> HIDE DEF body
  <1>3. Sent(out, pieces) = CASE out.status \in Silent -> out
                              [] out.status \notin Silent /\ out.headers.length \in 1..(Len(body) - 1) ->
                                   [out EXCEPT !.body = SubSeq(body, 1, out.headers.length)]
                              [] OTHER -> [out EXCEPT !.body = body]
    BY DEF Sent, body
  <1>4. CASE out.status \in Silent
    BY <1>3, <1>4
  <1>5. CASE out.status \notin Silent /\ out.headers.length \in 1..(Len(body) - 1)
    BY <1>2, <1>3, <1>5 DEF RawType
  <1>6. CASE out.status \notin Silent /\ out.headers.length \notin 1..(Len(body) - 1)
    BY <1>1, <1>3, <1>6 DEF RawType
  <1>. QED  BY <1>4, <1>5, <1>6

Grows == \A w \in Writers : Len(array'[w]) >= Len(array[w])

LEMMA WriteHeaderTypes ==
    ASSUME Shape, Types, NEW r \in Requests, NEW n \in Nat, NEW code \in Statuses, NEW map \in Maps,
           WriteHeader(r, n, code, map), UNCHANGED chain
    PROVE  OutTypes' /\ Grows /\ HeaderStep(r, n, code, map)
  <1>1. layer' = [layer EXCEPT ![r] = HeaderLayers(r, n, code)]
        /\ hdr' = [hdr EXCEPT ![r] = HeaderMap(r, n, code, map)]
        /\ raw' = [raw EXCEPT ![r] = HeaderRaw(r, n, code, map)] /\ UNCHANGED <<array, used, own>>
    BY DEF WriteHeader
  <1>2. OutTypes
    BY DEF Types
  <1>3. OutTypes'
    BY <1>1, <1>2, HeaderTypes DEF OutTypes, RawType
  <1>4. \A w \in Writers : Len(array[w]) \in Nat
    BY <1>2 DEF OutTypes, Bodies
  <1>5. HeaderStep(r, n, code, map)
    BY <1>1, <1>2 DEF HeaderStep, OutTypes
  <1>. QED  BY <1>1, <1>3, <1>4, <1>5 DEF Grows

LEMMA WriteTypes ==
    ASSUME Shape, Types, NEW r \in Requests, NEW n \in Nat, NEW code \in Statuses, NEW map \in Maps,
           NEW pieces \in Bodies, Write(r, n, code, map, pieces), UNCHANGED chain
    PROVE  OutTypes' /\ Grows /\ HeaderStep(r, n, code, map)
  <1> DEFINE keeper == Buffering(r, n, code)
             w == ew[r]
             kept == Pass(r, n, keeper, pieces)
             committed == HeaderRaw(r, n, code, map)
  <1>1. /\ layer' = [layer EXCEPT ![r] = HeaderLayers(r, n, code)]
        /\ hdr' = [hdr EXCEPT ![r] = HeaderMap(r, n, code, map)]
        /\ \/ /\ array' = [array EXCEPT ![w] = Overwrite(@, used[w], kept)]
              /\ used' = [used EXCEPT ![w] = @ + Len(kept)]
              /\ own' = [own EXCEPT ![r] = @ \o kept]
              /\ raw' = [raw EXCEPT ![r] = committed]
           \/ /\ raw' = [raw EXCEPT ![r] = Sent(committed, kept)]
              /\ UNCHANGED <<array, used, own>>
    BY DEF Write
  <1>2. kept \in Bodies /\ Len(kept) \in Nat
    BY PassTypes DEF Bodies
  <1>3. committed \in RawType /\ Sent(committed, kept) \in RawType
        /\ Sent(committed, kept).status = committed.status
    BY <1>2, HeaderTypes, SentTypes
  <1>4. OutTypes /\ w \in Writers \cup {None}
    BY DEF Types, EtagTypes
  <1>5. \A v \in Writers : Len(array[v]) \in Nat /\ used[v] \in Nat /\ used[v] \in 0..Len(array[v])
    BY <1>4 DEF OutTypes, Bodies
  <1>6. own[r] \o kept \in Bodies
    BY <1>2, <1>4 DEF OutTypes, Bodies
  <1>7. HeaderLayers(r, n, code) \in [DOMAIN chain[r] -> [wrote : BOOLEAN, status : Statuses]]
        /\ HeaderMap(r, n, code, map) \in Maps
    BY HeaderTypes
  <1> HIDE DEF kept, committed
  <1>8. HeaderStep(r, n, code, map)
    <2>1. layer'[r] = HeaderLayers(r, n, code) /\ raw'[r].status = committed.status
      BY <1>1, <1>3, <1>4 DEF OutTypes
    <2>. QED  BY <2>1 DEF HeaderStep, committed
  <1>9. /\ \A q \in Requests : layer'[q] \in [DOMAIN chain[q] -> [wrote : BOOLEAN, status : Statuses]]
        /\ layer' = [q \in Requests |-> layer'[q]]
        /\ hdr' \in [Requests -> Maps]
        /\ raw' \in [Requests -> RawType]
        /\ own' \in [Requests -> Bodies]
    <2>1. /\ layer' = [q \in Requests |-> layer'[q]]
          /\ \A q \in Requests : layer'[q] \in [DOMAIN chain[q] -> [wrote : BOOLEAN, status : Statuses]]
      BY <1>1, <1>4, <1>7 DEF OutTypes
    <2>2. hdr' \in [Requests -> Maps]
      BY <1>1, <1>4, <1>7 DEF OutTypes
    <2>3. raw' \in [Requests -> RawType]
      BY <1>1, <1>3, <1>4 DEF OutTypes, RawType
    <2>4. own' \in [Requests -> Bodies]
      BY <1>1, <1>4, <1>6 DEF OutTypes
    <2>. QED  BY <2>1, <2>2, <2>3, <2>4
  <1>10. /\ array' \in [Writers -> Bodies] /\ used' \in [Writers -> Nat]
         /\ \A v \in Writers : used'[v] <= Len(array'[v]) /\ Len(array'[v]) >= Len(array[v])
    <2>1. CASE UNCHANGED <<array, used>>
      BY <1>4, <1>5, <2>1 DEF OutTypes
    <2>2. CASE /\ array' = [array EXCEPT ![w] = Overwrite(@, used[w], kept)]
               /\ used' = [used EXCEPT ![w] = @ + Len(kept)]
      <3>1. CASE w \in Writers
        <4>1. /\ array[w] \in Bodies
              /\ Overwrite(array[w], used[w], kept) \in Bodies
              /\ Len(Overwrite(array[w], used[w], kept)) >= Len(array[w])
              /\ Len(Overwrite(array[w], used[w], kept)) >= used[w] + Len(kept)
          BY <1>2, <1>4, <1>5, <3>1, OverwriteKeeps DEF OutTypes
        <4>. QED  BY <1>2, <1>4, <1>5, <2>2, <3>1, <4>1 DEF OutTypes
      <3>2. CASE w \notin Writers
        <4>1. array' = array /\ used' = used
          BY <1>4, <2>2, <3>2 DEF OutTypes
        <4>. QED  BY <1>4, <1>5, <4>1 DEF OutTypes
      <3>. QED  BY <3>1, <3>2
    <2>. QED  BY <1>1, <2>1, <2>2
  <1>. QED  BY <1>8, <1>9, <1>10 DEF OutTypes, RawType, Grows

-----------------------------------------------------------------------------
(***************************************************************************)
(* Every step keeps the types.                                             *)
(***************************************************************************)
LEMMA OthersTyped ==
    ASSUME PoolInv, Types, OutTypes', Grows, UNCHANGED <<chain, ew, pool, tag, size>>,
           matched' \in [Requests -> Validators],
           outcome' \in [Requests -> {"ok", "err", "panic"}],
           ended' \in [Requests -> {"running", "copying", "wrote", "ok", "err", "panic", "callback"}],
           said' \in [Requests -> Nat], logged' \in [Requests -> Nat],
           \A q \in Requests : pc'[q] = "commit" => pc[q] = "commit",
           \A q \in Requests : pc'[q] # "new" => pc[q] # "new"
    PROVE  Types'
  <1>1. ASSUME NEW q \in Requests, pc'[q] = "commit" PROVE size'[q] <= Len(array'[ew'[q]])
    <2>1. pc[q] = "commit" /\ level[q] \in Nat /\ level[q] > 0 /\ chain[q][level[q]] = "etag"
      BY <1>1 DEF PoolInv, Shape, Taken
    <2>2. ew[q] \in Writers
      <3>1. level[q] \in 1..level[q]
        BY <2>1
      <3>2. Within(q)
        BY <2>1, <3>1 DEF Within
      <3>. QED  BY <2>1, <3>2 DEF PoolInv, Taken, Types, EtagTypes
    <2>3. /\ size[q] <= Len(array[ew[q]]) /\ Len(array'[ew[q]]) >= Len(array[ew[q]])
          /\ size[q] \in Nat /\ Len(array[ew[q]]) \in Nat /\ Len(array'[ew[q]]) \in Nat
      <3>1. array[ew[q]] \in Bodies /\ array'[ew[q]] \in Bodies
        BY <2>2 DEF Types, OutTypes
      <3>2. Len(array[ew[q]]) \in Nat /\ Len(array'[ew[q]]) \in Nat
        BY <3>1 DEF Bodies
      <3>. QED  BY <2>1, <2>2, <3>2 DEF Types, EtagTypes, Grows
    <2>. QED  BY <2>3
  <1>2. EtagTypes'
    BY <1>1 DEF Types, EtagTypes
  <1>. QED  BY <1>2 DEF Types

LEMMA StillTyped == ASSUME Types, UNCHANGED <<chain, outVars>> PROVE OutTypes' /\ Grows
  <1>1. \A w \in Writers : Len(array[w]) \in Nat
    BY DEF Types, OutTypes, Bodies
  <1>. QED  BY <1>1 DEF Types, OutTypes, outVars, Grows

\* What the program does to a header map leaves a header map.
LEMMA MapForms ==
    ASSUME Types, NEW r \in Requests
    PROVE  /\ hdr[r] \in Maps /\ [hdr[r] EXCEPT !.etag = tag[r]] \in Maps
           /\ [hdr[r] EXCEPT !.length = 0] \in Maps /\ [hdr[r] EXCEPT !.length = 1] \in Maps
           /\ Compressed(hdr[r]) \in Maps
  <1>1. hdr[r] \in Maps
    BY DEF Types, OutTypes
  <1>2. tag[r] \in Bodies \cup {NoTag}
    BY DEF Types, EtagTypes
  <1>3. [hdr[r] EXCEPT !.etag = tag[r]] \in Maps
    BY <1>1, <1>2 DEF Maps
  <1>4. [hdr[r] EXCEPT !.length = 0] \in Maps /\ [hdr[r] EXCEPT !.length = 1] \in Maps
    BY <1>1 DEF Maps
  <1>5. Compressed(hdr[r]) \in Maps
    BY <1>1 DEF Compressed, Maps
  <1>. QED  BY <1>1, <1>3, <1>4, <1>5

LEMMA HandlerTyped ==
    ASSUME PoolInv, Types, NEW r \in Requests, Handler(r), ~Arrive(r)
    PROVE  Types'
  <1>1. Shape /\ level[r] \in Nat /\ hdr[r] \in Maps
    BY DEF PoolInv, Shape, Types, OutTypes
  <1>2. CASE \E code \in BasicAuth \cup JWT \cup CORS : Refuse(r, code)
    <2>1. PICK code \in BasicAuth \cup JWT \cup CORS : Refuse(r, code)
      BY <1>2
    <2>2. code \in Statuses /\ code \in Nat
      BY DEF BasicAuth, JWT, CORS, Statuses
    <2>3. OutTypes' /\ Grows
      BY <1>1, <2>1, <2>2, WriteHeaderTypes DEF Refuse
    <2>. QED  BY <2>1, <2>2, <2>3, OthersTyped DEF Refuse, Types, EtagTypes, PoolInv, Shape
  <1>3. CASE \E code \in Codes : HandlerHeader(r, code)
    <2>1. PICK code \in Codes : HandlerHeader(r, code)
      BY <1>3
    <2>2. code \in Statuses /\ code \in Nat
      BY ResponsesAssumption DEF Statuses
    <2>3. OutTypes' /\ Grows
      BY <1>1, <2>1, <2>2, WriteHeaderTypes DEF HandlerHeader
    <2>. QED  BY <2>1, <2>2, <2>3, OthersTyped DEF HandlerHeader, Types, EtagTypes
  <1>4. CASE HandlerDeclares(r)
    <2>1. OutTypes' /\ Grows
      <3>1. [hdr[r] EXCEPT !.length = 1] \in Maps
        BY <1>1 DEF Maps
      <3>2. \A w \in Writers : Len(array[w]) \in Nat
        BY DEF Types, OutTypes, Bodies
      <3>. QED  BY <1>4, <3>1, <3>2 DEF HandlerDeclares, Types, OutTypes, Grows, poolVars
    <2>. QED  BY <1>4, <2>1, OthersTyped DEF HandlerDeclares, Types, EtagTypes, poolVars
  <1>5. CASE \E page \in Pages : HandlerWrite(r, page)
    <2>1. PICK page \in Pages : HandlerWrite(r, page)
      BY <1>5
    <2>2. 200 \in Statuses /\ <<Plain(page)>> \in Bodies
      BY PiecesAreTyped DEF Statuses
    <2>3. OutTypes' /\ Grows
      BY <1>1, <2>1, <2>2, WriteTypes DEF HandlerWrite
    <2>4. /\ UNCHANGED <<chain, ew, pool, tag, size, pc, outcome, logged, matched>>
          /\ ended' = [ended EXCEPT ![r] = "wrote"]
          /\ said' = [said EXCEPT ![r] = IF @ = 0 THEN 200 ELSE @]
      BY <2>1 DEF HandlerWrite
    <2>5. ended' \in [Requests -> {"running", "copying", "wrote", "ok", "err", "panic", "callback"}] /\ said' \in [Requests -> Nat]
      BY <2>4 DEF Types
    <2>6. /\ matched' \in [Requests -> Validators] /\ outcome' \in [Requests -> {"ok", "err", "panic"}]
          /\ logged' \in [Requests -> Nat]
      BY <2>4 DEF Types, EtagTypes
    <2>. QED  BY <2>3, <2>4, <2>5, <2>6, OthersTyped
  <1>6. CASE \E how \in {"ok", "err", "panic"} : HandlerEnds(r, how)
    <2>1. OutTypes' /\ Grows
      BY <1>6, StillTyped DEF HandlerEnds
    <2>2. PICK how \in {"ok", "err", "panic"} : HandlerEnds(r, how)
      BY <1>6
    <2>3. /\ UNCHANGED <<chain, ew, pool, tag, size, logged, matched, said>>
          /\ pc' = [pc EXCEPT ![r] = "unwind"] /\ pc[r] = "handler"
          /\ outcome' = [outcome EXCEPT ![r] = how] /\ ended' = [ended EXCEPT ![r] = how]
      BY <2>2 DEF HandlerEnds
    <2>4. \A q \in Requests : (pc'[q] = "commit" => pc[q] = "commit") /\ (pc'[q] # "new" => pc[q] # "new")
      BY <2>3 DEF PoolInv, Shape
    <2>5. /\ ended' \in [Requests -> {"running", "copying", "wrote", "ok", "err", "panic", "callback"}]
          /\ outcome' \in [Requests -> {"ok", "err", "panic"}]
      BY <2>3 DEF Types
    <2>6. said' \in [Requests -> Nat] /\ matched' \in [Requests -> Validators] /\ logged' \in [Requests -> Nat]
      BY <2>3 DEF Types, EtagTypes
    <2>. QED  BY <2>1, <2>3, <2>4, <2>5, <2>6, OthersTyped
  <1>. QED  BY <1>2, <1>3, <1>4, <1>5, <1>6 DEF Handler

LEMMA ArriveTyped ==
    ASSUME PoolInv, Types, NEW r \in Requests, Arrive(r)
    PROVE  Types'
  <1>1. PICK n \in Stops(r), w \in Fresh \cup pool :
          /\ pc' = [pc EXCEPT ![r] = IF n = Len(chain[r]) THEN "handler" ELSE "refuse"]
          /\ \/ /\ \E i \in 1..n : chain[r][i] = "etag"
                /\ pool' = Without(w)
                /\ ew' = [ew EXCEPT ![r] = w]
                /\ used' = [used EXCEPT ![w] = 0]
             \/ /\ ew' = [ew EXCEPT ![r] = IF chain[r] = <<"static">> THEN w ELSE None]
                /\ UNCHANGED <<pool, used>>
    BY DEF Arrive
  <1>2. UNCHANGED <<chain, outcome, layer, hdr, raw, array, tag, size, logged, matched, own, said, ended>>
    BY DEF Arrive
  <1>3. w \in Writers /\ w # None
    BY WritersAreNumbers DEF Fresh, Types, EtagTypes
  <1>4. OutTypes'
    <2>1. \A v \in Writers : Len(array[v]) \in Nat
      BY DEF Types, OutTypes, Bodies
    <2>2. used' \in [Writers -> Nat] /\ \A v \in Writers : used'[v] <= Len(array[v])
      <3>1. used \in [Writers -> Nat] /\ \A v \in Writers : used[v] <= Len(array[v])
        BY DEF Types, OutTypes
      <3>2. used' = used \/ used' = [used EXCEPT ![w] = 0]
        BY <1>1
      <3>3. CASE used' = used
        BY <3>1, <3>3
      <3>4. CASE used' = [used EXCEPT ![w] = 0]
        BY <1>3, <2>1, <3>1, <3>4
      <3>. QED  BY <3>2, <3>3, <3>4
    <2>. QED  BY <1>2, <2>2 DEF Types, OutTypes
  <1>5. EtagTypes'
    <2>1. pool' \subseteq Writers
      BY <1>1 DEF Types, EtagTypes, Without
    <2>2. \A q \in Requests \ {r} : ew'[q] = ew[q] /\ pc'[q] = pc[q]
      BY <1>1 DEF PoolInv, Shape
    <2>3. /\ pc'[r] # "commit" /\ ew'[r] \in {w, None}
          /\ chain[r] = <<"static">> => ew'[r] = w
      BY <1>1 DEF PoolInv, Shape
    <2>. QED  BY <1>2, <1>3, <2>1, <2>2, <2>3 DEF Types, EtagTypes
  <1>. QED  BY <1>2, <1>4, <1>5 DEF Types

\* The body of static files, packed.
LEMMA StaticPieces ==
    ASSUME NEW s \in Bodies, NEW n \in 0..Len(s)
    PROVE  Append([k \in 1..n |-> Packed(s[k].what)], Packed(Trailer)) \in Bodies
  <1>1. s \in Seq(Piece) /\ Len(s) \in Nat
    BY DEF Bodies
  <1>2. n \in Nat /\ \A k \in 1..n : Packed(s[k].what) \in Piece
    <2>1. n \in Nat /\ \A k \in 1..n : k \in 1..Len(s)
      BY <1>1
    <2>2. \A k \in 1..Len(s) : s[k] \in Piece
      BY <1>1
    <2>3. \A x \in Piece : Packed(x.what) \in Piece
      BY DEF Piece, Packed
    <2>. QED  BY <2>1, <2>2, <2>3
  <1>3. [k \in 1..n |-> Packed(s[k].what)] \in Seq(Piece)
    BY <1>2, IsASeq
  <1>4. Packed(Trailer) \in Piece
    BY DEF Piece, Packed
  <1>. QED  BY <1>3, <1>4, AppendProperties DEF Bodies

\* What a writer has in its buffer.
LEMMA BufferTypes ==
    ASSUME PoolInv, Types, NEW r \in Requests, ew[r] # None
    PROVE  /\ array[ew[r]] \in Bodies /\ used[ew[r]] \in 0..Len(array[ew[r]])
           /\ SubSeq(array[ew[r]], 1, used[ew[r]]) \in Bodies
           /\ pc[r] = "commit" => SubSeq(array[ew[r]], 1, size[r]) \in Bodies
  <1>1. ew[r] \in Writers
    BY DEF Types, EtagTypes
  <1>2. array[ew[r]] \in Bodies /\ used[ew[r]] \in Nat /\ used[ew[r]] <= Len(array[ew[r]]) /\ size[r] \in Nat
        /\ (pc[r] = "commit" => size[r] <= Len(array[ew[r]]))
    BY <1>1 DEF Types, OutTypes, EtagTypes
  <1>3. Len(array[ew[r]]) \in Nat
    BY <1>2 DEF Bodies
  <1>4. used[ew[r]] \in 0..Len(array[ew[r]]) /\ (pc[r] = "commit" => size[r] \in 0..Len(array[ew[r]]))
    BY <1>2, <1>3
  <1>. QED  BY <1>2, <1>4, Prefix

LEMMA EtagHasWriter ==
    ASSUME PoolInv, NEW r \in Requests, pc[r] # "new", level[r] > 0, chain[r][level[r]] = "etag"
    PROVE  ew[r] # None
  <1>1. level[r] \in 1..level[r]
    BY DEF PoolInv, Shape
  <1>. QED  BY <1>1 DEF PoolInv, Taken, Within

LEMMA ReleaseTyped ==
    ASSUME PoolInv, Types, NEW r \in Requests, EtagRelease(r)
    PROVE  Types'
  <1>1. pc[r] = "unwind" /\ level[r] > 0 /\ chain[r][level[r]] = "etag"
    BY DEF EtagRelease, At
  <1>2. ew[r] # None /\ ew[r] \in Writers
    BY <1>1, EtagHasWriter DEF Types, EtagTypes
  <1>3. UNCHANGED <<chain, outcome, layer, hdr, raw, ew, array, used, logged, matched, own, said, ended>>
    BY DEF EtagRelease
  <1>4. /\ SubSeq(array[ew[r]], 1, used[ew[r]]) \in Bodies
        /\ used[ew[r]] \in Nat /\ used[ew[r]] <= Len(array[ew[r]])
    BY <1>2, BufferTypes DEF Types, OutTypes
  <1>5. EtagTypes'
    <2>1. tag' \in [Requests -> Bodies \cup {NoTag}] /\ size' \in [Requests -> Nat] /\ pool' \subseteq Writers
      BY <1>2, <1>4 DEF EtagRelease, Types, EtagTypes
    <2>2. \A q \in Requests \ {r} : pc'[q] = pc[q] /\ size'[q] = size[q]
      BY DEF EtagRelease, Leave, PoolInv, Shape, Types, EtagTypes
    <2>3. size'[r] = used[ew[r]]
      BY DEF EtagRelease, Types, EtagTypes
    <2>4. \A q \in Requests : pc'[q] = "commit" => size'[q] <= Len(array'[ew'[q]])
      BY <1>3, <1>4, <2>2, <2>3 DEF Types, EtagTypes
    <2>. QED  BY <1>1, <1>3, <2>1, <2>2, <2>4 DEF Types, EtagTypes
  <1>. QED  BY <1>3, <1>5 DEF Types, OutTypes

LEMMA UnwindTyped ==
    ASSUME PoolInv, Types, NEW r \in Requests, Unwind(r), ~EtagRelease(r)
    PROVE  Types'
  <1>1. /\ Shape /\ level[r] \in Nat /\ hdr[r] \in Maps /\ 200 \in Statuses /\ 500 \in Statuses
        /\ 304 \in Statuses /\ 412 \in Statuses
    BY DEF PoolInv, Shape, Types, OutTypes, Statuses
  <1>2. \A q \in Requests \ {r} : Leave(r) => pc'[q] = pc[q]
    BY DEF Leave, PoolInv, Shape
  <1>3. ASSUME Leave(r), pc[r] # "new", OutTypes', Grows, UNCHANGED <<chain, ew, pool, tag, size, said, ended>>,
               matched' \in [Requests -> Validators], logged' \in [Requests -> Nat],
               outcome' \in [Requests -> {"ok", "err", "panic"}]
        PROVE  Types'
    BY <1>2, <1>3, OthersTyped DEF Leave, PoolInv, Shape, Types
  <1>4. CASE CloseCompressor(r)
    <2>1. OutTypes' /\ Grows
      <3>1. CASE UNCHANGED outVars
        BY <1>4, <3>1, StillTyped DEF CloseCompressor
      <3>2. CASE Write(r, level[r] - 1, 200, hdr[r], <<Packed(Trailer)>>)
        <4>1. level[r] - 1 \in Nat
          BY <1>1, <1>4 DEF CloseCompressor, At
        <4>. QED  BY <1>1, <1>4, <3>2, <4>1, PiecesAreTyped, WriteTypes DEF CloseCompressor
      <3>. QED  BY <1>4, <3>1, <3>2 DEF CloseCompressor
    <2>. QED  BY <1>3, <1>4, <2>1 DEF CloseCompressor, At, Types, EtagTypes
  <1>5. CASE FlushStatic(r)
    <2>1. pc[r] = "unwind" /\ level[r] > 0 /\ chain[r][level[r]] = "static"
      BY <1>5 DEF FlushStatic, At
    <2>2. chain[r] = <<"static">> /\ level[r] \in 1..Len(chain[r]) /\ Len(chain[r]) = 1
      BY <1>1, <2>1, ChainKinds DEF Shape
    <2>3. ew[r] # None
      BY <2>1, <2>2 DEF Types, EtagTypes
    <2>4. Append([k \in 1..used[ew[r]] |-> Packed(array[ew[r]][k].what)], Packed(Trailer)) \in Bodies
      BY <2>3, BufferTypes, StaticPieces
    <2>5. layer[r][1].status \in Statuses
      BY <2>2 DEF Types, OutTypes
    <2>6. Compressed(hdr[r]) \in Maps
      BY MapForms
    <2>7. OutTypes' /\ Grows
      BY <1>1, <1>5, <2>4, <2>5, <2>6, WriteTypes DEF FlushStatic
    <2>. QED  BY <1>3, <1>5, <2>7 DEF FlushStatic, At, Types, EtagTypes
  <1>6. CASE PassBy(r)
    <2>1. OutTypes' /\ Grows
      BY <1>6, StillTyped DEF PassBy
    <2>. QED  BY <1>3, <1>6, <2>1 DEF PassBy, At, Types, EtagTypes
  <1>7. CASE Log(r)
    <2>1. OutTypes' /\ Grows
      BY <1>7, StillTyped DEF Log
    <2>2. level[r] \in DOMAIN chain[r]
      BY <1>1, <1>7, ChainKinds DEF Log, At, Shape
    <2>3. layer[r][level[r]].status \in Nat
      BY <2>2 DEF Types, OutTypes, Statuses
    <2>. QED  BY <1>3, <1>7, <2>1, <2>3 DEF Log, At, Types, EtagTypes
  <1>8. CASE \E inm, im \in Validators : CommitConditional(r, inm, im) \/ CommitBody(r, inm, im)
    <2>1. PICK inm \in Validators, im \in Validators : CommitConditional(r, inm, im) \/ CommitBody(r, inm, im)
      BY <1>8
    <2>2. pc[r] = "commit" /\ level[r] > 0 /\ chain[r][level[r]] = "etag" /\ level[r] - 1 \in Nat
      BY <1>1, <2>1 DEF CommitConditional, CommitBody, PoolInv, Taken
    <2>3. OutTypes' /\ Grows
      <3>1. CASE CommitConditional(r, inm, im)
        <4>1. PICK code \in {304, 412} : WriteHeader(r, level[r] - 1, code, hdr[r])
          BY <3>1 DEF CommitConditional
        <4>. QED  BY <1>1, <2>2, <3>1, <4>1, WriteHeaderTypes DEF CommitConditional
      <3>2. CASE CommitBody(r, inm, im)
        <4>1. ew[r] # None
          BY <2>2, EtagHasWriter
        <4>2. SubSeq(array[ew[r]], 1, size[r]) \in Bodies
          BY <2>2, <4>1, BufferTypes
        <4>3. [hdr[r] EXCEPT !.etag = tag[r]] \in Maps
          BY MapForms
        <4>. QED  BY <1>1, <2>2, <3>2, <4>2, <4>3, WriteTypes DEF CommitBody
      <3>. QED  BY <2>1, <3>1, <3>2
    <2>4. /\ Leave(r) /\ pc[r] # "new" /\ UNCHANGED <<chain, ew, pool, tag, size, said, ended>>
          /\ UNCHANGED <<outcome, logged>>
      BY <2>1, <2>2 DEF CommitConditional, CommitBody
    <2>5. matched' \in [Requests -> Validators]
      <3>1. matched \in [Requests -> Validators]
        BY DEF Types, EtagTypes
      <3>2. matched' = matched \/ \E v \in Validators : matched' = [matched EXCEPT ![r] = v]
        <4>1. CASE CommitBody(r, inm, im)
          BY <4>1 DEF CommitBody
        <4>2. CASE CommitConditional(r, inm, im)
          <5>1. PICK v : v = IF NotModified(r, inm) THEN inm ELSE matched[r]
            OBVIOUS
          <5>2. matched' = [matched EXCEPT ![r] = v]
            BY <4>2, <5>1 DEF CommitConditional
          <5>. QED  BY <3>1, <5>1, <5>2
        <4>. QED  BY <2>1, <4>1, <4>2
      <3>. QED  BY <3>1, <3>2
    <2>6. outcome' \in [Requests -> {"ok", "err", "panic"}] /\ logged' \in [Requests -> Nat]
      BY <2>4 DEF Types
    <2>. QED  BY <1>3, <2>3, <2>4, <2>5, <2>6
  <1>9. CASE Recover(r)
    <2>1. OutTypes' /\ Grows
      <3>1. CASE UNCHANGED outVars
        BY <1>9, <3>1, StillTyped DEF Recover
      <3>2. CASE Write(r, level[r] - 1, 500, hdr[r], <<Plain(ErrorText)>>)
        <4>1. level[r] - 1 \in Nat
          BY <1>1, <1>9 DEF Recover, At
        <4>. QED  BY <1>1, <1>9, <3>2, <4>1, PiecesAreTyped, WriteTypes DEF Recover
      <3>. QED  BY <1>9, <3>1, <3>2 DEF Recover
    <2>. QED  BY <1>3, <1>9, <2>1 DEF Recover, At, Types, EtagTypes
  <1>10. CASE Adapt(r)
    <2>1. OutTypes' /\ Grows
      <3>1. CASE outcome[r] = "err"
        <4>1. Write(r, 0, 500, [hdr[r] EXCEPT !.length = 0], <<Plain(ErrorText)>>)
          BY <1>10, <3>1 DEF Adapt
        <4>2. [hdr[r] EXCEPT !.length = 0] \in Maps
          BY MapForms
        <4>3. UNCHANGED chain
          BY <1>10 DEF Adapt
        <4>. QED  BY <1>1, <4>1, <4>2, <4>3, PiecesAreTyped, WriteTypes
      <3>2. CASE outcome[r] = "ok"
        <4>1. WriteHeader(r, 0, 200, hdr[r])
          BY <1>10, <3>2 DEF Adapt
        <4>2. UNCHANGED chain
          BY <1>10 DEF Adapt
        <4>3. PICK n \in Nat, code \in Statuses, map \in Maps : WriteHeader(r, n, code, map)
          BY <1>1, <4>1
        <4>4. Shape
          BY <1>1
        <4>. QED  BY <4>2, <4>3, <4>4, WriteHeaderTypes
      <3>3. CASE outcome[r] = "panic"
        BY <1>10, <3>3, StillTyped DEF Adapt
      <3>. QED  BY <3>1, <3>2, <3>3 DEF Types
    <2>. QED  BY <1>10, <2>1, OthersTyped DEF Adapt, Types, EtagTypes, PoolInv, Shape
  <1>. QED  BY <1>4, <1>5, <1>6, <1>7, <1>8, <1>9, <1>10 DEF Unwind

LEMMA TypesStep == PoolInv /\ Types /\ [Next]_vars => Types'
  <1> SUFFICES ASSUME PoolInv, Types, [Next]_vars PROVE Types'
    OBVIOUS
  <1>1. ASSUME NEW r \in Requests, Handler(r) PROVE Types'
    BY <1>1, HandlerTyped, ArriveTyped
  <1>2. ASSUME NEW r \in Requests, Unwind(r) PROVE Types'
    BY <1>2, UnwindTyped, ReleaseTyped
  <1>3. ASSUME NEW r \in Requests, LogFails(r) PROVE Types'
    <2>1. \A q \in Requests : pc'[q] \in {"commit", "new"} => pc'[q] = pc[q]
      BY <1>3 DEF LogFails, Leave, PoolInv, Shape
    <2>2. /\ UNCHANGED <<chain, outVars, pool, ew, tag, size, logged, matched, said>>
          /\ outcome' \in [Requests -> {"ok", "err", "panic"}]
          /\ ended' \in [Requests -> {"running", "copying", "wrote", "ok", "err", "panic", "callback"}]
          /\ pc[r] # "new"
      BY <1>3 DEF LogFails, At, Types
    <2>3. \A q \in Requests : pc'[q] # "new" => pc[q] # "new"
      BY <1>3, <2>2 DEF LogFails, Leave, PoolInv, Shape
    <2>. QED  BY <2>1, <2>2, <2>3 DEF outVars, Types, OutTypes, EtagTypes
  <1>4. CASE UNCHANGED vars
    BY <1>4 DEF vars, outVars, Types, OutTypes, EtagTypes
  <1>. QED  BY <1>1, <1>2, <1>3, <1>4 DEF Next

LEMMA TypesInit == Init => Types
  <1> SUFFICES ASSUME Init PROVE Types
    OBVIOUS
  <1>1. Shape
    BY PoolInit DEF PoolInv
  <1>2. NoHeaders \in Maps /\ <<>> \in Bodies /\ Len(<<>>) = 0
    BY DEF NoHeaders, Maps, Bodies
  <1>3. OutTypes
    BY <1>1, <1>2 DEF Init, OutTypes, Statuses
  <1>4. EtagTypes
    BY ResponsesAssumption DEF Init, EtagTypes
  <1>. QED  BY <1>3, <1>4 DEF Init, Types

-----------------------------------------------------------------------------
(***************************************************************************)
(* A step of one request leaves the others alone, but for the buffers.     *)
(***************************************************************************)
SameFor(q) ==
    /\ pc'[q] = pc[q] /\ chain'[q] = chain[q] /\ level'[q] = level[q] /\ outcome'[q] = outcome[q]
    /\ layer'[q] = layer[q] /\ hdr'[q] = hdr[q] /\ raw'[q] = raw[q] /\ ew'[q] = ew[q]
    /\ tag'[q] = tag[q] /\ size'[q] = size[q] /\ logged'[q] = logged[q] /\ matched'[q] = matched[q]
    /\ own'[q] = own[q] /\ said'[q] = said[q] /\ ended'[q] = ended[q]

OutSame(q) == layer'[q] = layer[q] /\ hdr'[q] = hdr[q] /\ raw'[q] = raw[q] /\ own'[q] = own[q]

LEMMA WritesAreOwn ==
    ASSUME Types, NEW r \in Requests, NEW q \in Requests \ {r}, NEW n, NEW code, NEW map, NEW pieces,
           WriteHeader(r, n, code, map) \/ Write(r, n, code, map, pieces)
    PROVE  OutSame(q)
  BY DEF WriteHeader, Write, OutSame, Types, OutTypes

LEMMA Others ==
    ASSUME PoolInv, Types, NEW r \in Requests, Handler(r) \/ Unwind(r), NEW q \in Requests \ {r}
    PROVE  SameFor(q)
  <1> USE DEF PoolInv, Shape, Types, OutTypes, EtagTypes
  <1>1. CASE Arrive(r)
    BY <1>1 DEF Arrive, SameFor
  <1>2. CASE \E code \in BasicAuth \cup JWT \cup CORS : Refuse(r, code)
    <2>1. PICK code \in BasicAuth \cup JWT \cup CORS : Refuse(r, code)
      BY <1>2
    <2>2. OutSame(q)
      BY <2>1, WritesAreOwn DEF Refuse
    <2>. QED  BY <2>1, <2>2 DEF Refuse, SameFor, OutSame
  <1>3. CASE \E code \in Codes : HandlerHeader(r, code)
    <2>1. PICK code \in Codes : HandlerHeader(r, code)
      BY <1>3
    <2>2. OutSame(q)
      BY <2>1, WritesAreOwn DEF HandlerHeader
    <2>. QED  BY <2>1, <2>2 DEF HandlerHeader, SameFor, OutSame
  <1>4. CASE HandlerDeclares(r)
    BY <1>4 DEF HandlerDeclares, poolVars, SameFor
  <1>5. CASE \E page \in Pages : HandlerWrite(r, page)
    <2>1. PICK page \in Pages : HandlerWrite(r, page)
      BY <1>5
    <2>2. PICK n, code, map, pieces : Write(r, n, code, map, pieces)
      BY <2>1 DEF HandlerWrite
    <2>3. OutSame(q)
      BY <2>2, WritesAreOwn
    <2>. QED  BY <2>1, <2>3 DEF HandlerWrite, SameFor, OutSame
  <1>6. CASE \E how \in {"ok", "err", "panic"} : HandlerEnds(r, how)
    BY <1>6 DEF HandlerEnds, outVars, SameFor
  <1>7. UNCHANGED outVars => OutSame(q)
    BY DEF outVars, OutSame
  <1>8. Leave(r) => pc'[q] = pc[q] /\ level'[q] = level[q]
    BY DEF Leave
  <1>9. CASE CloseCompressor(r)
    <2>1. OutSame(q)
      BY <1>7, <1>9, WritesAreOwn DEF CloseCompressor
    <2>. QED  BY <1>8, <1>9, <2>1 DEF CloseCompressor, SameFor, OutSame
  <1>10. CASE FlushStatic(r)
    <2>1. OutSame(q)
      BY <1>10, WritesAreOwn DEF FlushStatic
    <2>. QED  BY <1>8, <1>10, <2>1 DEF FlushStatic, SameFor, OutSame
  <1>11. CASE PassBy(r) \/ Log(r)
    BY <1>7, <1>8, <1>11 DEF PassBy, Log, SameFor, OutSame
  <1>12. CASE EtagRelease(r)
    BY <1>8, <1>12 DEF EtagRelease, SameFor
  <1>13. CASE \E inm, im \in Validators : CommitConditional(r, inm, im) \/ CommitBody(r, inm, im)
    <2>1. PICK inm \in Validators, im \in Validators : CommitConditional(r, inm, im) \/ CommitBody(r, inm, im)
      BY <1>13
    <2>2. OutSame(q)
      BY <2>1, WritesAreOwn DEF CommitConditional, CommitBody
    <2>. QED  BY <1>8, <2>1, <2>2 DEF CommitConditional, CommitBody, SameFor, OutSame
  <1>14. CASE Recover(r)
    <2>1. OutSame(q)
      <3>1. UNCHANGED outVars \/ Write(r, level[r] - 1, 500, hdr[r], <<Plain(ErrorText)>>)
        BY <1>14 DEF Recover
      <3>. QED  BY <1>7, <3>1, WritesAreOwn
    <2>. QED  BY <1>8, <1>14, <2>1 DEF Recover, SameFor, OutSame
  <1>15. CASE Adapt(r)
    <2>1. OutSame(q)
      <3>1. outcome[r] \in {"ok", "err", "panic"}
        OBVIOUS
      <3>2. CASE outcome[r] = "err"
        <4>1. PICK n, code, map, pieces : Write(r, n, code, map, pieces)
          BY <1>15, <3>2 DEF Adapt
        <4>. QED  BY <4>1, WritesAreOwn
      <3>3. CASE outcome[r] = "ok"
        <4>1. WriteHeader(r, 0, 200, hdr[r])
          BY <1>15, <3>3 DEF Adapt
        <4>. QED  BY <4>1, WritesAreOwn
      <3>4. CASE outcome[r] = "panic"
        BY <1>7, <1>15, <3>4 DEF Adapt
      <3>. QED  BY <3>1, <3>2, <3>3, <3>4
    <2>. QED  BY <1>15, <2>1 DEF Adapt, SameFor, OutSame
  <1>. QED  BY <1>1, <1>2, <1>3, <1>4, <1>5, <1>6, <1>9, <1>10, <1>11, <1>12, <1>13, <1>14, <1>15
            DEF Handler, Unwind

-----------------------------------------------------------------------------
(***************************************************************************)
(* The phases of a request                                                 *)
(***************************************************************************)
LEMMA PhaseStep ==
    ASSUME PoolInv, Types, NEW r \in Requests, Phase(r), Handler(r) \/ Unwind(r)
    PROVE  Phase(r)'
  <1> USE DEF Phase
  <1>1. /\ pc \in [Requests -> {"new", "refuse", "handler", "unwind", "commit", "done"}]
        /\ level \in [Requests -> Nat] /\ level[r] <= Len(chain[r])
        /\ outcome \in [Requests -> {"ok", "err", "panic"}]
        /\ ended \in [Requests -> {"running", "copying", "wrote", "ok", "err", "panic", "callback"}]
        /\ said \in [Requests -> Nat] /\ logged \in [Requests -> Nat]
    BY DEF PoolInv, Shape, Types
  <1>2. CASE Arrive(r)
    BY <1>1, <1>2 DEF Arrive
  <1>3. CASE \E code \in BasicAuth \cup JWT \cup CORS : Refuse(r, code)
    BY <1>1, <1>3 DEF Refuse
  <1>4. CASE \E code \in Codes : HandlerHeader(r, code)
    BY <1>1, <1>4 DEF HandlerHeader
  <1>5. CASE HandlerDeclares(r)
    BY <1>1, <1>5 DEF HandlerDeclares
  <1>6. CASE \E page \in Pages : HandlerWrite(r, page)
    BY <1>1, <1>6 DEF HandlerWrite
  <1>7. CASE \E how \in {"ok", "err", "panic"} : HandlerEnds(r, how)
    BY <1>1, <1>7 DEF HandlerEnds
  <1>8. ASSUME Leave(r), pc[r] \in {"unwind", "commit"}, UNCHANGED <<chain, ended>>,
               outcome'[r] = outcome[r] \/ (outcome[r] = "panic" /\ outcome'[r] = "ok")
        PROVE  Phase(r)'
    BY <1>1, <1>8 DEF Leave
  <1>9. CASE CloseCompressor(r) \/ FlushStatic(r) \/ PassBy(r) \/ Log(r)
    BY <1>8, <1>9 DEF CloseCompressor, FlushStatic, PassBy, Log, At
  <1>10. CASE EtagRelease(r)
    <2>1. CASE Leave(r)
      BY <1>8, <1>10, <2>1 DEF EtagRelease, At
    <2>2. CASE Commits(r) /\ pc' = [pc EXCEPT ![r] = "commit"] /\ UNCHANGED level
      BY <1>1, <1>10, <2>2 DEF EtagRelease, At, Commits
    <2>. QED  BY <1>10, <2>1, <2>2 DEF EtagRelease
  <1>11. CASE \E inm, im \in Validators : CommitConditional(r, inm, im) \/ CommitBody(r, inm, im)
    BY <1>8, <1>11 DEF CommitConditional, CommitBody
  <1>12. CASE Recover(r)
    BY <1>1, <1>8, <1>12 DEF Recover, At
  <1>13. CASE Adapt(r)
    BY <1>1, <1>13 DEF Adapt
  <1>. QED  BY <1>2, <1>3, <1>4, <1>5, <1>6, <1>7, <1>9, <1>10, <1>11, <1>12, <1>13 DEF Handler, Unwind

-----------------------------------------------------------------------------
(***************************************************************************)
(* A status keeps its place while the levels are left one by one.          *)
(***************************************************************************)
LEMMA Narrow ==
    ASSUME NEW r, NEW m \in Nat, NEW n \in 0..m
    PROVE  /\ Untouched(r, m) => Untouched(r, n)
           /\ Passed(r, m) => Passed(r, n)
           /\ \A e \in 1..m : KeptAt(r, m, e) => IF e <= n THEN KeptAt(r, n, e) ELSE Untouched(r, n)
  <1>1. n \in Nat /\ n <= m /\ \A i \in 1..n : i \in 1..m
    OBVIOUS
  <1>2. Untouched(r, m) => Untouched(r, n)
    BY <1>1 DEF Untouched
  <1>3. Passed(r, m) => Passed(r, n)
    BY <1>1 DEF Passed
  <1>4. ASSUME NEW e \in 1..m, KeptAt(r, m, e), e <= n PROVE KeptAt(r, n, e)
    <2>1. e \in 1..n /\ \A i \in e..n : i \in e..m
      BY <1>1, <1>4
    <2>. QED  BY <1>4, <2>1 DEF KeptAt
  <1>5. ASSUME NEW e \in 1..m, KeptAt(r, m, e), ~(e <= n) PROVE Untouched(r, n)
    <2>1. \A i \in 1..n : i \in 1..(e - 1)
      BY <1>5
    <2>. QED  BY <1>5, <2>1 DEF KeptAt, Untouched
  <1>. QED  BY <1>2, <1>3, <1>4, <1>5

Quiet(r) == layer'[r] = layer[r] /\ raw'[r].status = raw[r].status /\ chain'[r] = chain[r]

Moved(r, n) == Quiet(r) \/ \E code \in Statuses, map \in Maps : HeaderStep(r, n, code, map)

LEMMA QuietKeeps ==
    ASSUME NEW r, NEW n, Quiet(r)
    PROVE  /\ Untouched(r, n) => Untouched(r, n)'
           /\ Passed(r, n) => Passed(r, n)'
           /\ \A e : KeptAt(r, n, e) => KeptAt(r, n, e)'
  <1>1. layer'[r] = layer[r] /\ raw'[r].status = raw[r].status /\ chain'[r] = chain[r]
    BY DEF Quiet
  <1>2. Untouched(r, n) => Untouched(r, n)'
    BY <1>1 DEF Untouched
  <1>3. Passed(r, n) => Passed(r, n)'
    <2>1. SUFFICES ASSUME Passed(r, n) PROVE Passed(r, n)'
      OBVIOUS
    <2>2. raw'[r].status # 0
      BY <1>1, <2>1 DEF Passed
    <2>3. ASSUME NEW i \in 1..n
          PROVE  /\ chain'[r][i] # "static"
                 /\ chain'[r][i] = "etag" => raw'[r].status # 200
                 /\ Wraps(chain'[r][i]) => layer'[r][i] = [wrote |-> TRUE, status |-> raw'[r].status]
      BY <1>1, <2>1, <2>3, Zenon DEF Passed
    <2>. QED  BY <2>2, <2>3, Zenon DEF Passed
  <1>4. ASSUME NEW e, KeptAt(r, n, e) PROVE KeptAt(r, n, e)'
    BY <1>1, <1>4 DEF KeptAt, Wraps
  <1>. QED  BY <1>2, <1>3, <1>4

LEMMA Carried ==
    ASSUME Shape, Types, NEW r \in Requests, NEW m \in Nat, m <= Len(chain[r]), NEW n \in 0..m, Moved(r, n)
    PROVE  /\ Passed(r, m) => Passed(r, n)' /\ raw'[r].status = raw[r].status
           /\ \A e \in 1..n : KeptAt(r, m, e) => KeptAt(r, n, e)' /\ layer'[r] = layer[r]
  <1>1. n \in 0..Len(chain[r])
    BY ChainKinds
  <1>2. ASSUME Passed(r, n) \/ Kept(r, n) PROVE Quiet(r)
    <2>1. CASE Quiet(r)
      BY <2>1
    <2>2. CASE \E code \in Statuses, map \in Maps : HeaderStep(r, n, code, map)
      <3>1. PICK code \in Statuses, map \in Maps : HeaderStep(r, n, code, map)
        BY <2>2
      <3>2. layer'[r] = layer[r] /\ raw'[r].status = raw[r].status
        BY <1>1, <1>2, <3>1, HeaderDropped
      <3>. QED  BY <3>1, <3>2 DEF Quiet, HeaderStep
    <2>. QED  BY <2>1, <2>2 DEF Moved
  <1>3. ASSUME Passed(r, m) PROVE Passed(r, n)' /\ raw'[r].status = raw[r].status
    <2>1. Passed(r, n)
      BY <1>3, Narrow
    <2>. QED  BY <1>2, <2>1, QuietKeeps DEF Quiet
  <1>4. ASSUME NEW e \in 1..n, KeptAt(r, m, e) PROVE KeptAt(r, n, e)' /\ layer'[r] = layer[r]
    <2>1. e \in 1..m /\ e <= n
      OBVIOUS
    <2>2. KeptAt(r, n, e)
      BY <1>4, <2>1, Narrow
    <2>. QED  BY <1>2, <2>2, QuietKeeps DEF Quiet, Kept
  <1>. QED  BY <1>3, <1>4

\* Where the header of a first write ends up.
LEMMA FirstHeader ==
    ASSUME Shape, Types, NEW r \in Requests, NEW n \in 0..Len(chain[r]), NEW code \in Statuses, NEW map,
           HeaderStep(r, n, code, map), Untouched(r, n)
    PROVE  \/ Passed(r, n)' /\ raw'[r].status = code /\ \A e \in 1..n : ~Keeper(r, e, code)
           \/ \E e \in 1..n : /\ KeptAt(r, n, e)' /\ layer'[r][e].status = code
                              /\ Keeper(r, e, code)
  BY HeaderKept, HeaderPassed

\* The three cases exclude each other, and a body has one keeper.
LEMMA Apart3 ==
    ASSUME NEW r, NEW n \in Nat
    PROVE  /\ Passed(r, n) => ~Untouched(r, n) /\ \A m, e : ~KeptAt(r, m, e)
           /\ Untouched(r, n) => \A m : ~Passed(r, m)
           /\ \A e \in 1..n : KeptAt(r, n, e) => ~Passed(r, n)
           /\ \A e \in 1..n : KeptAt(r, n, e) => ~Untouched(r, n)
  BY DEF Passed, Untouched, KeptAt, Wraps

LEMMA BodyKeeper ==
    ASSUME Shape, NEW r \in Requests, NEW n \in 0..Len(chain[r]), NEW code, NEW map, HeaderStep(r, n, code, map)
    PROVE  /\ Passed(r, n)' => Buffering(r, n, code) = 0
           /\ \A e \in 1..n : KeptAt(r, n, e)' => Buffering(r, n, code) = e
  <1> DEFINE layers == HeaderLayers(r, n, code)
             Holding(i) == \/ chain[r][i] = "etag" /\ layers[i].wrote /\ layers[i].status = 200
                           \/ chain[r][i] = "static"
             keepers == {i \in 1..n : Holding(i)}
  <1>1. layers = layer'[r] /\ chain'[r] = chain[r] /\ Buffering(r, n, code) = Max(keepers \cup {0})
    BY DEF HeaderStep, Buffering
  <1>2. ASSUME Passed(r, n)' PROVE Buffering(r, n, code) = 0
    <2>1. keepers = {}
      <3>1. ASSUME NEW i \in 1..n PROVE ~Holding(i)
        <4>1. /\ chain[r][i] # "static" /\ (chain[r][i] = "etag" => raw'[r].status # 200)
              /\ Wraps(chain[r][i]) => layers[i] = [wrote |-> TRUE, status |-> raw'[r].status]
          <5>1. /\ chain'[r][i] # "static" /\ (chain'[r][i] = "etag" => raw'[r].status # 200)
                /\ Wraps(chain'[r][i]) => layer'[r][i] = [wrote |-> TRUE, status |-> raw'[r].status]
            BY <1>2 DEF Passed, Wraps
          <5>2. chain'[r][i] = chain[r][i] /\ layer'[r][i] = layers[i]
            BY <1>1
          <5> HIDE DEF layers
          <5>. QED  BY <5>1, <5>2
        <4> HIDE DEF layers
        <4>. QED  BY <4>1 DEF Wraps
      <3>. QED  BY <3>1
    <2>2. Max({0}) = 0
      BY DEF Max
    <2>. QED  BY <1>1, <2>1, <2>2
  <1>3. ASSUME NEW e \in 1..n, KeptAt(r, n, e)' PROVE Buffering(r, n, code) = e
    <2>1. /\ chain[r][e] \in {"etag", "static"}
          /\ \A i \in 1..n : i # e => chain[r][i] \notin {"etag", "static"}
          /\ \A i \in 1..n : i \in 1..Len(chain[r])
      <3>1. chain[r][e] \in {"etag", "static"}
        BY <1>1, <1>3 DEF KeptAt
      <3>2. \A i \in 1..n : i \in 1..Len(chain[r])
        BY ChainKinds
      <3>. QED  BY <3>1, <3>2, ChainKinds
    <2>2. chain[r][e] = "etag" => layers[e].wrote /\ layers[e].status = 200
      <3>1. e \in e..n
        OBVIOUS
      <3>. QED  BY <1>1, <1>3, <3>1 DEF KeptAt, Wraps
    <2>3. keepers = {e}
      BY <2>1, <2>2
    <2>4. Max({e, 0}) = e
      <3>1. e \in Nat /\ e > 0
        OBVIOUS
      <3>. QED  BY <3>1 DEF Max
    <2>. QED  BY <1>1, <2>3, <2>4
  <1>. QED  BY <1>2, <1>3

-----------------------------------------------------------------------------
(***************************************************************************)
(* What each step does to the status                                       *)
(***************************************************************************)
LEMMA WriteStatus ==
    ASSUME Shape, Types, NEW r \in Requests, NEW n \in Nat, NEW code \in Statuses, NEW map \in Maps, NEW pieces,
           WriteHeader(r, n, code, map) \/ Write(r, n, code, map, pieces), UNCHANGED chain
    PROVE  HeaderStep(r, n, code, map)
  <1> DEFINE committed == HeaderRaw(r, n, code, map)
  <1>1. committed \in RawType
    BY HeaderTypes
  <1>2. OutTypes
    BY DEF Types
  <1>3. CASE WriteHeader(r, n, code, map)
    BY <1>2, <1>3 DEF WriteHeader, HeaderStep, OutTypes
  <1>4. CASE Write(r, n, code, map, pieces)
    <2> DEFINE kept == Pass(r, n, Buffering(r, n, code), pieces)
    <2>0. raw' = [raw EXCEPT ![r] = committed] \/ raw' = [raw EXCEPT ![r] = Sent(committed, kept)]
      BY <1>4 DEF Write
    <2> HIDE DEF kept
    <2>1. raw'[r] = committed \/ raw'[r] = Sent(committed, kept)
      BY <1>2, <2>0 DEF OutTypes
    <2>2. Sent(committed, kept).status = committed.status
      <3> HIDE DEF committed
      <3>. QED  BY <1>1 DEF Sent, RawType
    <2>3. layer'[r] = HeaderLayers(r, n, code)
      BY <1>2, <1>4 DEF Write, OutTypes
    <2>. QED  BY <2>1, <2>2, <2>3 DEF HeaderStep
  <1>. QED  BY <1>3, <1>4

LEMMA StillQuiet ==
    ASSUME NEW r, UNCHANGED <<chain, layer, raw>> \/ UNCHANGED <<chain, outVars>>
    PROVE  Quiet(r)
  BY DEF Quiet, outVars

LEMMA Decides ==
    ASSUME PoolInv, Types, NEW r \in Requests, NEW code,
           \/ code \in BasicAuth \cup JWT \cup CORS /\ Refuse(r, code)
           \/ code \in Codes /\ HandlerHeader(r, code)
           \/ code = 200 /\ \E page \in Pages : HandlerWrite(r, page)
    PROVE  code \in Statuses /\ hdr[r] \in Maps /\ HeaderStep(r, level[r], code, hdr[r])
  <1>1. Shape /\ level[r] \in Nat /\ hdr[r] \in Maps
    BY DEF PoolInv, Shape, Types, OutTypes
  <1>2. code \in Statuses
    <2>1. BasicAuth \cup JWT \cup CORS \cup {200} \subseteq Statuses
      BY DEF BasicAuth, JWT, CORS, Statuses
    <2>2. Codes \subseteq Statuses
      BY ResponsesAssumption DEF Statuses
    <2>. QED  BY <2>1, <2>2
  <1>3. UNCHANGED chain
    BY DEF Refuse, HandlerHeader, HandlerWrite
  <1>4. CASE Refuse(r, code) \/ HandlerHeader(r, code)
    <2>1. WriteHeader(r, level[r], code, hdr[r])
      BY <1>4 DEF Refuse, HandlerHeader
    <2>. QED  BY <1>1, <1>2, <1>3, <2>1, WriteStatus
  <1>5. CASE code = 200 /\ \E page \in Pages : HandlerWrite(r, page)
    <2>1. PICK pieces : Write(r, level[r], code, hdr[r], pieces)
      BY <1>5 DEF HandlerWrite
    <2>. QED  BY <1>1, <1>2, <1>3, <2>1, WriteStatus
  <1>. QED  BY <1>1, <1>2, <1>4, <1>5

LEMMA ArriveLevel ==
    ASSUME PoolInv, NEW r \in Requests, Phase(r), Arrive(r)
    PROVE  level'[r] \in 0..level[r]
  <1>1. DOMAIN chain[r] = 1..Len(chain[r]) /\ Len(chain[r]) \in Nat
    BY ChainKinds DEF PoolInv
  <1>2. level[r] = Len(chain[r]) /\ \E n \in Stops(r) : level' = [level EXCEPT ![r] = n]
    BY DEF Arrive, Phase
  <1>3. \A n \in Stops(r) : n \in 0..Len(chain[r])
    BY <1>1 DEF Stops
  <1>. QED  BY <1>2, <1>3 DEF PoolInv, Shape

LEMMA HandlerPath ==
    ASSUME PoolInv, Types, NEW r \in Requests, Phase(r), Handler(r)
    PROVE  \E n \in 0..level[r] : n = level'[r] /\ Moved(r, n) /\ (~Arrive(r) => n = level[r])
  <1>1. level \in [Requests -> Nat] /\ level[r] \in 0..level[r]
    BY DEF PoolInv, Shape
  <1>2. CASE Arrive(r)
    <2>1. Quiet(r)
      BY <1>2, StillQuiet DEF Arrive
    <2>2. level'[r] \in 0..level[r]
      BY <1>1, <1>2, ArriveLevel
    <2>. QED  BY <1>2, <2>1, <2>2 DEF Moved
  <1>3. CASE HandlerDeclares(r) \/ \E how \in {"ok", "err", "panic"} : HandlerEnds(r, how)
    <2>1. Quiet(r) /\ level'[r] = level[r]
      BY <1>3, StillQuiet DEF HandlerDeclares, HandlerEnds
    <2>. QED  BY <1>1, <2>1 DEF Moved
  <1>4. CASE \/ \E code \in BasicAuth \cup JWT \cup CORS : Refuse(r, code)
             \/ \E code \in Codes : HandlerHeader(r, code)
             \/ \E page \in Pages : HandlerWrite(r, page)
    <2>1. PICK code \in Statuses : HeaderStep(r, level[r], code, hdr[r]) /\ hdr[r] \in Maps
      BY <1>4, Decides
    <2>2. level' = level
      BY <1>4 DEF Refuse, HandlerHeader, HandlerWrite
    <2>. QED  BY <1>1, <2>1, <2>2 DEF Moved
  <1>. QED  BY <1>2, <1>3, <1>4 DEF Handler

Sends(r, n, code) == code \in Statuses /\ \E map \in Maps : HeaderStep(r, n, code, map)

LEMMA SendsStatus ==
    ASSUME Shape, Types, NEW r \in Requests, NEW n \in Nat, NEW code \in Statuses, NEW map \in Maps,
           WriteHeader(r, n, code, map) \/ \E pieces : Write(r, n, code, map, pieces), UNCHANGED chain
    PROVE  Sends(r, n, code)
  <1>1. CASE WriteHeader(r, n, code, map)
    <2>1. PICK pieces : pieces = <<>>
      OBVIOUS
    <2>. QED  BY <1>1, WriteStatus DEF Sends
  <1>2. CASE \E pieces : Write(r, n, code, map, pieces)
    <2>1. PICK pieces : Write(r, n, code, map, pieces)
      BY <1>2
    <2>. QED  BY <2>1, WriteStatus DEF Sends
  <1>. QED  BY <1>1, <1>2

LEMMA AdaptAtZero == ASSUME NEW r, Adapt(r) PROVE level[r] = 0 /\ pc[r] = "unwind" /\ pc' = [pc EXCEPT ![r] = "done"]
  BY DEF Adapt

\* The steps on the way out, by what they send.
LEMMA UnwindPath ==
    ASSUME PoolInv, Types, NEW r \in Requests, Phase(r), Unwind(r)
    PROVE  \E n \in 0..level[r] :
             /\ n = level'[r] /\ chain'[r] = chain[r]
             /\ \/ Quiet(r) /\ ~FlushStatic(r) /\ pc[r] = "unwind" /\ (Adapt(r) => outcome[r] = "panic")
                \/ CloseCompressor(r) /\ Sends(r, n, 200)
                \/ FlushStatic(r) /\ Sends(r, n, layer[r][1].status)
                \/ \E inm, im \in Validators : CommitConditional(r, inm, im)
                                               /\ \E code \in {304, 412} : Sends(r, n, code) /\ (code = 304 <=> NotModified(r, inm))
                \/ (\E inm, im \in Validators : CommitBody(r, inm, im)) /\ Sends(r, n, 200)
                \/ Recover(r) /\ outcome[r] = "panic" /\ Sends(r, n, 500)
                \/ Adapt(r) /\ outcome[r] = "err" /\ Sends(r, n, 500)
                \/ Adapt(r) /\ outcome[r] = "ok" /\ Sends(r, n, 200)
  <1>1. /\ Shape /\ level \in [Requests -> Nat] /\ hdr[r] \in Maps /\ outcome[r] \in {"ok", "err", "panic"}
        /\ {200, 304, 412, 500} \subseteq Statuses
    BY DEF PoolInv, Shape, Types, OutTypes, Statuses
  <1>0. Shape /\ 0 \in Nat /\ 200 \in Statuses /\ 500 \in Statuses /\ hdr[r] \in Maps
    BY <1>1
  <1>2. UNCHANGED chain
    BY DEF Unwind, CloseCompressor, FlushStatic, PassBy, Log, EtagRelease, CommitConditional, CommitBody,
           Recover, Adapt
  <1>3. level[r] \in 0..level[r] /\ (level[r] > 0 => level[r] - 1 \in 0..level[r] /\ level[r] - 1 \in Nat)
    BY <1>1
  <1>4. Leave(r) => level'[r] = level[r] - 1
    BY <1>1 DEF Leave
  <1>5. CASE CloseCompressor(r)
    <2>1. Leave(r) /\ level[r] > 0 /\ pc[r] = "unwind" /\ chain[r][level[r]] = "compress"
      BY <1>5 DEF CloseCompressor, At
    <2>2. CASE UNCHANGED outVars
      <3>1. Quiet(r) /\ ~FlushStatic(r) /\ ~Adapt(r)
        BY <1>1, <1>2, <2>1, <2>2, StillQuiet, AdaptAtZero DEF FlushStatic, At
      <3>. QED  BY <1>2, <1>3, <1>4, <2>1, <3>1
    <2>3. CASE Write(r, level[r] - 1, 200, hdr[r], <<Packed(Trailer)>>)
      <3>1. Sends(r, level[r] - 1, 200)
        BY <1>0, <1>2, <1>3, <2>1, <2>3, SendsStatus
      <3>. QED  BY <1>2, <1>3, <1>4, <1>5, <2>1, <3>1
    <2>. QED  BY <1>5, <2>2, <2>3 DEF CloseCompressor
  <1>6. CASE FlushStatic(r)
    <2>1. Leave(r) /\ level[r] > 0 /\ chain[r][level[r]] = "static"
      BY <1>6 DEF FlushStatic, At
    <2>2. level[r] = 1 /\ Len(chain[r]) = 1 /\ DOMAIN chain[r] = 1..1
      <3>1. level[r] \in 1..Len(chain[r])
        BY <1>1, <2>1, ChainKinds DEF Shape
      <3>2. Len(chain[r]) = 1 /\ DOMAIN chain[r] = 1..Len(chain[r])
        BY <1>1, <2>1, <3>1, ChainKinds
      <3>. QED  BY <3>1, <3>2
    <2>3. layer[r][1].status \in Statuses
      BY <2>2 DEF Types, OutTypes
    <2>4. PICK map, pieces : map \in Maps /\ Write(r, 0, layer[r][1].status, map, pieces)
      <3>1. Compressed(hdr[r]) \in Maps
        BY MapForms
      <3>. QED  BY <1>6, <3>1 DEF FlushStatic
    <2>5. Sends(r, 0, layer[r][1].status)
      BY <1>0, <1>2, <2>3, <2>4, SendsStatus
    <2>. QED  BY <1>2, <1>3, <1>4, <1>6, <2>1, <2>2, <2>5
  <1>7. CASE PassBy(r) \/ Log(r) \/ EtagRelease(r)
    <2>1. Quiet(r) /\ pc[r] = "unwind" /\ level[r] > 0
      BY <1>7, StillQuiet DEF PassBy, Log, EtagRelease, At
    <2>2. ~FlushStatic(r) /\ ~Adapt(r)
      BY <1>1, <1>7, <2>1, AdaptAtZero DEF PassBy, Log, EtagRelease, FlushStatic, At, Refusals
    <2>3. level'[r] \in {level[r], level[r] - 1}
      BY <1>4, <1>7 DEF PassBy, Log, EtagRelease
    <2>. QED  BY <1>2, <1>3, <2>1, <2>2, <2>3
  <1>8. ASSUME NEW inm \in Validators, NEW im \in Validators, CommitConditional(r, inm, im)
        PROVE  \E code \in {304, 412} : /\ Sends(r, level[r] - 1, code) /\ (code = 304 <=> NotModified(r, inm))
                                        /\ Leave(r) /\ level[r] > 0
    <2>1. PICK code \in {304, 412} : WriteHeader(r, level[r] - 1, code, hdr[r]) /\ (code = 304 <=> NotModified(r, inm))
      BY <1>8 DEF CommitConditional
    <2>2. Leave(r) /\ level[r] > 0
      BY <1>8 DEF CommitConditional, PoolInv, Taken
    <2>3. code \in Statuses /\ level[r] - 1 \in Nat
      BY <1>1, <1>3, <2>2
    <2>4. Sends(r, level[r] - 1, code)
      BY <1>0, <1>2, <2>1, <2>3, SendsStatus
    <2>. QED  BY <2>1, <2>2, <2>4
  <1>9. ASSUME NEW inm \in Validators, NEW im \in Validators, CommitBody(r, inm, im)
        PROVE  Sends(r, level[r] - 1, 200) /\ Leave(r) /\ level[r] > 0
    <2>1. [hdr[r] EXCEPT !.etag = tag[r]] \in Maps
      BY MapForms
    <2>2. PICK map, pieces : map \in Maps /\ Write(r, level[r] - 1, 200, map, pieces)
      BY <1>9, <2>1 DEF CommitBody
    <2>3. Leave(r) /\ level[r] > 0
      BY <1>9 DEF CommitBody, PoolInv, Taken
    <2>4. Sends(r, level[r] - 1, 200)
      BY <1>0, <1>2, <1>3, <2>2, <2>3, SendsStatus
    <2>. QED  BY <2>3, <2>4
  <1>10. CASE Recover(r)
    <2>1. Leave(r) /\ level[r] > 0 /\ pc[r] = "unwind" /\ chain[r][level[r]] = "recovery"
      BY <1>10 DEF Recover, At
    <2>2. CASE outcome[r] # "panic"
      <3>1. Quiet(r) /\ ~FlushStatic(r) /\ ~Adapt(r)
        BY <1>1, <1>2, <1>10, <2>1, <2>2, StillQuiet, AdaptAtZero DEF FlushStatic, At, Recover
      <3>. QED  BY <1>2, <1>3, <1>4, <2>1, <3>1
    <2>3. CASE outcome[r] = "panic"
      <3>1. Write(r, level[r] - 1, 500, hdr[r], <<Plain(ErrorText)>>)
        BY <1>10, <2>3 DEF Recover
      <3>2. Sends(r, level[r] - 1, 500)
        BY <1>0, <1>2, <1>3, <2>1, <3>1, SendsStatus
      <3>. QED  BY <1>2, <1>3, <1>4, <1>10, <2>1, <2>3, <3>2
    <2>. QED  BY <2>2, <2>3
  <1>11. CASE Adapt(r)
    <2>1. level[r] = 0 /\ level' = level /\ pc[r] = "unwind" /\ ~FlushStatic(r)
      BY <1>11 DEF Adapt, FlushStatic, At
    <2>2. CASE outcome[r] = "err"
      <3>1. [hdr[r] EXCEPT !.length = 0] \in Maps
        BY MapForms
      <3>2. PICK map, pieces : map \in Maps /\ Write(r, 0, 500, map, pieces)
        BY <1>11, <2>2, <3>1 DEF Adapt
      <3>3. Sends(r, 0, 500)
        BY <1>0, <1>2, <3>2, SendsStatus
      <3>. QED  BY <1>2, <1>3, <1>11, <2>1, <2>2, <3>3
    <2>3. CASE outcome[r] = "ok"
      <3>1. WriteHeader(r, 0, 200, hdr[r])
        BY <1>11, <2>3 DEF Adapt
      <3>2. Sends(r, 0, 200)
        BY <1>0, <1>2, <3>1, SendsStatus
      <3>. QED  BY <1>2, <1>3, <1>11, <2>1, <2>3, <3>2
    <2>4. CASE outcome[r] = "panic"
      <3>1. Quiet(r)
        BY <1>2, <1>11, <2>4, StillQuiet DEF Adapt
      <3>. QED  BY <1>2, <1>3, <2>1, <2>4, <3>1
    <2>. QED  BY <1>1, <2>2, <2>3, <2>4
  <1>12. CASE \E inm, im \in Validators : CommitConditional(r, inm, im) \/ CommitBody(r, inm, im)
    <2>1. PICK inm \in Validators, im \in Validators : CommitConditional(r, inm, im) \/ CommitBody(r, inm, im)
      BY <1>12
    <2>. QED  BY <1>2, <1>3, <1>4, <1>8, <1>9, <2>1
  <1>. QED  BY <1>5, <1>6, <1>7, <1>10, <1>11, <1>12 DEF Unwind

-----------------------------------------------------------------------------
(***************************************************************************)
(* Flow                                                                    *)
(***************************************************************************)
LEMMA FlowMoves ==
    ASSUME Shape, Types, NEW r \in Requests, NEW m \in Nat, m <= Len(chain[r]), NEW n \in 0..m, Moved(r, n),
           Untouched(r, m) \/ Passed(r, m) \/ Kept(r, m)
    PROVE  (Untouched(r, n) \/ Passed(r, n) \/ Kept(r, n))'
  <1>1. n \in 0..Len(chain[r]) /\ n \in Nat
    BY ChainKinds
  <1>2. CASE Untouched(r, n)
    <2>1. CASE Quiet(r)
      BY <1>2, <2>1, QuietKeeps
    <2>2. CASE \E code \in Statuses, map \in Maps : HeaderStep(r, n, code, map)
      BY <1>1, <1>2, <2>2, FirstHeader DEF Kept
    <2>. QED  BY <2>1, <2>2 DEF Moved
  <1>3. CASE Passed(r, m)
    BY <1>3, Carried
  <1>4. CASE Kept(r, m)
    <2>1. PICK e \in 1..m : KeptAt(r, m, e)
      BY <1>4 DEF Kept
    <2>2. CASE e <= n
      <3>1. e \in 1..n
        BY <1>1, <2>2
      <3>2. KeptAt(r, n, e)'
        BY <2>1, <3>1, Carried
      <3>. QED  BY <3>1, <3>2 DEF Kept
    <2>3. CASE ~(e <= n)
      BY <1>2, <2>1, <2>3, Narrow
    <2>. QED  BY <2>2, <2>3
  <1>5. Untouched(r, m) => Untouched(r, n)
    BY Narrow
  <1>. QED  BY <1>2, <1>3, <1>4, <1>5

LEMMA SendsMoves == ASSUME NEW r, NEW n, NEW code, Sends(r, n, code) PROVE Moved(r, n)
  BY DEF Sends, Moved

LEMMA UnwindMoves ==
    ASSUME PoolInv, Types, NEW r \in Requests, Phase(r), Unwind(r)
    PROVE  \E n \in 0..level[r] : n = level'[r] /\ Moved(r, n)
  <1>1. PICK n \in 0..level[r] :
          /\ n = level'[r]
          /\ \/ Quiet(r)
             \/ Sends(r, n, 200) \/ Sends(r, n, layer[r][1].status) \/ Sends(r, n, 304)
             \/ Sends(r, n, 412) \/ Sends(r, n, 500)
    BY UnwindPath
  <1>2. Moved(r, n)
    BY <1>1, SendsMoves DEF Moved
  <1>. QED  BY <1>1, <1>2

LEMMA UnwindEnds ==
    ASSUME PoolInv, NEW r \in Requests, Unwind(r)
    PROVE  /\ pc[r] \in {"unwind", "commit"} /\ pc'[r] \in {"unwind", "commit", "done"}
           /\ UNCHANGED <<chain, said, ended>> /\ (pc'[r] = "done" <=> Adapt(r))
  BY DEF Unwind, CloseCompressor, FlushStatic, PassBy, Log, EtagRelease, CommitConditional, CommitBody,
         Recover, Adapt, Leave, At, PoolInv, Shape

\* A level at a time.
LEMMA OneLevel ==
    ASSUME PoolInv, NEW r \in Requests, Unwind(r)
    PROVE  level'[r] = level[r] \/ (Leave(r) /\ level[r] > 0 /\ level'[r] = level[r] - 1)
  <1>1. Leave(r) => level'[r] = level[r] - 1
    BY DEF Leave, PoolInv, Shape
  <1>. QED  BY <1>1 DEF Unwind, CloseCompressor, FlushStatic, PassBy, Log, EtagRelease, CommitConditional,
              CommitBody, Recover, Adapt, At, PoolInv, Taken, Shape

LEMMA FlowStep ==
    ASSUME PoolInv, Types, NEW r \in Requests, Phase(r), Flow(r), Handler(r) \/ Unwind(r)
    PROVE  Flow(r)'
  <1>1. PICK n \in 0..level[r] : n = level'[r] /\ Moved(r, n)
    BY HandlerPath, UnwindMoves
  <1>2. level[r] \in Nat /\ level[r] <= Len(chain[r])
    BY DEF PoolInv, Shape
  <1>3. (Untouched(r, n) \/ Passed(r, n) \/ Kept(r, n))'
    BY <1>1, <1>2, FlowMoves DEF Flow, PoolInv
  <1>4. ASSUME Inside(r)', said'[r] = 0 PROVE Untouched(r, n)'
    <2>1. Arrive(r) \/ HandlerDeclares(r) \/ \E how \in {"ok", "err", "panic"} : HandlerEnds(r, how)
      <3>1. ~Unwind(r)
        <4>1. Len(chain[r]) \in Nat
          BY ChainKinds DEF PoolInv
        <4>2. ASSUME Unwind(r) PROVE pc'[r] = "unwind" /\ level'[r] = Len(chain[r]) /\ ~Adapt(r)
          BY <1>4, <4>2, UnwindEnds DEF Inside
        <4>3. ASSUME Unwind(r), ~Leave(r) PROVE FALSE
          <5>1. EtagRelease(r) /\ pc' = [pc EXCEPT ![r] = "commit"]
            BY <4>2, <4>3 DEF Unwind, CloseCompressor, FlushStatic, PassBy, Log, EtagRelease, CommitConditional,
                              CommitBody, Recover
          <5>. QED  BY <4>2, <4>3, <5>1 DEF PoolInv, Shape
        <4>. QED  BY <1>2, <4>1, <4>2, <4>3, OneLevel DEF Leave, PoolInv, Shape
      <3>2. ~(\E code \in BasicAuth \cup JWT \cup CORS : Refuse(r, code))
        BY <1>4 DEF Refuse, Types, BasicAuth, JWT, CORS
      <3>3. ~(\E code \in Codes : HandlerHeader(r, code))
        BY <1>4, ResponsesAssumption DEF HandlerHeader, Types
      <3>4. ~(\E page \in Pages : HandlerWrite(r, page))
        <4>1. said \in [Requests -> Nat]
          BY DEF Types
        <4>2. ASSUME NEW page, HandlerWrite(r, page) PROVE said' = [said EXCEPT ![r] = IF @ = 0 THEN 200 ELSE @]
          BY <4>2 DEF HandlerWrite
        <4>. QED  BY <1>4, <4>1, <4>2
      <3>. QED  BY <3>1, <3>2, <3>3, <3>4 DEF Handler
    <2>2. Quiet(r) /\ pc[r] \in {"new", "handler"} /\ said[r] = 0
      BY <1>4, <2>1, StillQuiet DEF Arrive, HandlerDeclares, HandlerEnds, Phase
    <2>3. Untouched(r, n)
      BY <1>1, <1>2, <2>2, Narrow DEF Flow, Inside
    <2>. QED  BY <2>2, <2>3, QuietKeeps
  <1>5. (Untouched(r, level[r]) \/ Passed(r, level[r]) \/ Kept(r, level[r]))'
    BY <1>1, <1>3
  <1>6. (Inside(r) /\ said[r] = 0 => Untouched(r, level[r]))'
    BY <1>1, <1>4
  <1>. QED  BY <1>5, <1>6 DEF Flow

-----------------------------------------------------------------------------
(***************************************************************************)
(* The status that was decided on                                          *)
(***************************************************************************)
\* The ETag writer lets go of a 200 only for an error or a panic, or to commit it.
LEMMA LetsGo ==
    ASSUME PoolInv, Types, NEW r \in Requests, Unwind(r), pc[r] = "unwind", Leave(r), outcome[r] = "ok",
           level[r] > 0, KeptAt(r, level[r], level[r])
    PROVE  FlushStatic(r)
  <1>1. chain[r][level[r]] \in {"etag", "static"}
    BY DEF KeptAt
  <1>2. CASE chain[r][level[r]] = "etag"
    <2>1. EtagRelease(r)
      BY <1>2 DEF Unwind, CloseCompressor, FlushStatic, PassBy, Log, CommitConditional, CommitBody, Recover,
                  Adapt, At, Refusals
    <2>2. ~Commits(r)
      BY <2>1 DEF EtagRelease, Leave, PoolInv, Shape
    <2>3. level[r] \in level[r]..level[r]
      BY DEF PoolInv, Shape
    <2>4. layer[r][level[r]].status = 200
      BY <1>2, <2>3 DEF KeptAt, Wraps
    <2>. QED  BY <2>2, <2>4 DEF Commits
  <1>3. CASE chain[r][level[r]] = "static"
    BY <1>3 DEF Unwind, CloseCompressor, PassBy, Log, EtagRelease, CommitConditional, CommitBody, Recover,
                Adapt, At, Refusals
  <1>. QED  BY <1>1, <1>2, <1>3

LEMMA OnlyEtag ==
    ASSUME Shape, NEW r \in Requests, level[r] > 0, chain[r][level[r]] = "etag", NEW n \in Nat, n = level[r] - 1,
           NEW e \in 1..n
    PROVE  chain[r][e] \notin {"etag", "static"} /\ level[r] \in 1..Len(chain[r]) /\ n \in 0..Len(chain[r])
  <1>1. level[r] \in 1..Len(chain[r]) /\ e \in 1..Len(chain[r]) /\ e # level[r] /\ n \in 0..Len(chain[r])
    BY ChainKinds DEF Shape
  <1>2. chain[r][e] # "etag"
    BY <1>1, ChainKinds
  <1>3. chain[r][e] # "static"
    BY <1>1, ChainKinds
  <1>. QED  BY <1>1, <1>2, <1>3

LEMMA HandlerStands ==
    ASSUME PoolInv, Types, NEW r \in Requests, Phase(r), Flow(r), Stands(r), Handler(r)
    PROVE  Stands(r)'
  <1>1. PICK n \in 0..level[r] : n = level'[r] /\ Moved(r, n) /\ (~Arrive(r) => n = level[r])
    BY HandlerPath
  <1>2. Shape /\ level[r] \in Nat /\ level[r] <= Len(chain[r]) /\ n \in 0..Len(chain[r]) /\ said \in [Requests -> Nat]
    BY ChainKinds DEF PoolInv, Shape, Types
  <1>3. SUFFICES ASSUME said'[r] # 0
                 PROVE  \/ Passed(r, n)' /\ raw'[r].status = said'[r]
                        \/ \E e \in 1..n :
                              /\ KeptAt(r, n, e)'
                              /\ chain'[r][e] = "etag" => said'[r] = 200
                              /\ chain'[r][e] = "static" => layer'[r][e].status = said'[r]
    BY <1>1 DEF Stands
  <1>4. ASSUME NEW code,
               \/ code \in BasicAuth \cup JWT \cup CORS /\ Refuse(r, code)
               \/ code \in Codes /\ HandlerHeader(r, code)
               \/ code = 200 /\ \E page \in Pages : HandlerWrite(r, page),
               said[r] = 0, said'[r] = code, level' = level, pc[r] \in {"refuse", "handler"}
        PROVE  \/ Passed(r, n)' /\ raw'[r].status = code
               \/ \E e \in 1..n :
                     /\ KeptAt(r, n, e)'
                     /\ chain'[r][e] = "etag" => code = 200
                     /\ chain'[r][e] = "static" => layer'[r][e].status = code
    <2>1. code \in Statuses /\ hdr[r] \in Maps /\ HeaderStep(r, level[r], code, hdr[r])
      BY <1>4, Decides
    <2>2. n = level[r] /\ Untouched(r, n)
      BY <1>1, <1>4 DEF Flow, Inside
    <2>3. \/ Passed(r, n)' /\ raw'[r].status = code
          \/ \E e \in 1..n : KeptAt(r, n, e)' /\ layer'[r][e].status = code /\ Keeper(r, e, code)
      BY <1>2, <2>1, <2>2, FirstHeader
    <2>4. chain'[r] = chain[r]
      BY <2>1 DEF HeaderStep
    <2>. QED  BY <2>3, <2>4 DEF Keeper
  <1>5. ASSUME said[r] # 0, said'[r] = said[r], pc[r] = "handler", n = level[r], chain' = chain
        PROVE  \/ Passed(r, n)' /\ raw'[r].status = said'[r]
               \/ \E e \in 1..n :
                     /\ KeptAt(r, n, e)'
                     /\ chain'[r][e] = "etag" => said'[r] = 200
                     /\ chain'[r][e] = "static" => layer'[r][e].status = said'[r]
    <2>1. ended[r] \in {"running", "copying", "wrote", "ok"}
      BY <1>5 DEF Phase
    <2>2. CASE Passed(r, n) /\ raw[r].status = said[r]
      BY <1>1, <1>2, <1>5, <2>2, Carried
    <2>3. CASE \E e \in 1..n :
                 /\ KeptAt(r, n, e)
                 /\ chain[r][e] = "etag" => said[r] = 200
                 /\ chain[r][e] = "static" => layer[r][e].status = said[r]
      <3>1. PICK e \in 1..n : /\ KeptAt(r, n, e)
                              /\ chain[r][e] = "etag" => said[r] = 200
                              /\ chain[r][e] = "static" => layer[r][e].status = said[r]
        BY <2>3
      <3>2. KeptAt(r, n, e)' /\ layer'[r] = layer[r]
        BY <1>1, <1>2, <1>5, <3>1, Carried
      <3>. QED  BY <1>5, <3>1, <3>2
    <2>. QED  BY <1>5, <2>1, <2>2, <2>3 DEF Stands
  <1>6. CASE \E code \in BasicAuth \cup JWT \cup CORS : Refuse(r, code)
    <2>1. PICK code \in BasicAuth \cup JWT \cup CORS : Refuse(r, code)
      BY <1>6
    <2>2. said[r] = 0 /\ said'[r] = code /\ level' = level /\ pc[r] = "refuse"
      BY <1>2, <2>1 DEF Refuse, Phase
    <2>. QED  BY <1>4, <2>1, <2>2
  <1>7. CASE \E code \in Codes : HandlerHeader(r, code)
    <2>1. PICK code \in Codes : HandlerHeader(r, code)
      BY <1>7
    <2>2. said[r] = 0 /\ said'[r] = code /\ level' = level /\ pc[r] = "handler"
      BY <1>2, <2>1 DEF HandlerHeader
    <2>. QED  BY <1>4, <2>1, <2>2
  <1>8. CASE \E page \in Pages : HandlerWrite(r, page)
    <2>1. pc[r] = "handler" /\ level' = level /\ chain' = chain
          /\ said' = [said EXCEPT ![r] = IF @ = 0 THEN 200 ELSE @]
      BY <1>8 DEF HandlerWrite
    <2>2. CASE said[r] = 0
      <3>1. said'[r] = 200
        BY <1>2, <2>1, <2>2
      <3>. QED  BY <1>4, <1>8, <2>1, <2>2, <3>1
    <2>3. CASE said[r] # 0
      <3>1. said'[r] = said[r] /\ n = level[r]
        BY <1>1, <1>2, <2>1, <2>3
      <3>. QED  BY <1>5, <2>1, <2>3, <3>1
    <2>. QED  BY <2>2, <2>3
  <1>9. CASE \E how \in {"ok", "err", "panic"} : HandlerEnds(r, how)
    <2>1. pc[r] = "handler" /\ level' = level /\ UNCHANGED <<chain, said>>
      BY <1>9 DEF HandlerEnds
    <2>. QED  BY <1>1, <1>3, <1>5, <2>1
  <1>10. CASE Arrive(r) \/ HandlerDeclares(r)
    <2>1. said'[r] = 0
      BY <1>10 DEF Arrive, HandlerDeclares, Phase
    <2>. QED  BY <1>3, <2>1
  <1>. QED  BY <1>6, <1>7, <1>8, <1>9, <1>10 DEF Handler

LEMMA UnwindStands ==
    ASSUME PoolInv, Types, NEW r \in Requests, Phase(r), Flow(r), Stands(r), Unwind(r)
    PROVE  Stands(r)'
  <1>1. PICK n \in 0..level[r] : n = level'[r] /\ Moved(r, n)
    BY UnwindMoves
  <1>2. Shape /\ level[r] \in Nat /\ level[r] <= Len(chain[r]) /\ n \in 0..Len(chain[r]) /\ n \in Nat
    BY ChainKinds DEF PoolInv, Shape
  <1>3. pc[r] \in {"unwind", "commit"} /\ pc'[r] # "handler" /\ UNCHANGED <<chain, said, ended>>
    BY UnwindEnds
  <1>4. SUFFICES ASSUME ended[r] = "ok", said[r] # 0
                 PROVE  \/ /\ Passed(r, n)'
                           /\ \/ raw'[r].status = said[r]
                              \/ said[r] = 200 /\ Has(r, "etag", 0) /\ raw'[r].status \in {304, 412}
                        \/ \E e \in 1..n :
                              /\ KeptAt(r, n, e)'
                              /\ chain[r][e] = "etag" => said[r] = 200
                              /\ chain[r][e] = "static" => layer'[r][e].status = said[r]
    BY <1>1, <1>3 DEF Stands, Phase, Has
  <1>5. outcome[r] = "ok"
    BY <1>3, <1>4 DEF Phase
  <1>6. CASE Passed(r, level[r])
    <2>1. \/ raw[r].status = said[r]
          \/ said[r] = 200 /\ Has(r, "etag", 0) /\ raw[r].status \in {304, 412}
      BY <1>2, <1>4, <1>6, Apart3 DEF Stands
    <2>. QED  BY <1>1, <1>2, <1>6, <2>1, Carried
  <1>7. CASE ~Passed(r, level[r])
    <2>1. PICK e \in 1..level[r] : /\ KeptAt(r, level[r], e)
                                   /\ chain[r][e] = "etag" => said[r] = 200
                                   /\ chain[r][e] = "static" => layer[r][e].status = said[r]
      BY <1>4, <1>7 DEF Stands
    <2>2. CASE e <= n
      <3>1. e \in 1..n
        BY <1>2, <2>2
      <3>2. KeptAt(r, n, e)' /\ layer'[r] = layer[r]
        BY <1>1, <1>2, <2>1, <3>1, Carried
      <3>. QED  BY <2>1, <3>1, <3>2
    <2>3. CASE ~(e <= n)
      <3>1. Untouched(r, n)
        BY <1>2, <2>1, <2>3, Narrow
      <3>2. e = level[r] /\ Leave(r) /\ level[r] > 0 /\ n = level[r] - 1
        BY <1>1, <1>2, <2>3, OneLevel
      <3>3. KeptAt(r, level[r], level[r]) /\ chain[r][level[r]] \in {"etag", "static"}
        BY <2>1, <3>2 DEF KeptAt
      <3>4. CASE FlushStatic(r)
        <4>1. chain[r][level[r]] = "static" /\ level[r] \in 1..Len(chain[r])
          BY <1>2, <3>2, <3>4 DEF FlushStatic, At
        <4>2. level[r] = 1 /\ n = 0
          BY <1>2, <3>2, <4>1, ChainKinds
        <4>3. layer[r][1].status = said[r]
          BY <2>1, <3>2, <4>1, <4>2
        <4>4. Sends(r, n, said[r])
          <5>1. ~CloseCompressor(r) /\ ~Recover(r) /\ ~Adapt(r)
                /\ ~(\E inm, im \in Validators : CommitConditional(r, inm, im) \/ CommitBody(r, inm, im))
            <6>1. pc[r] = "unwind" /\ level[r] > 0 /\ chain[r][level[r]] = "static"
              BY <3>4 DEF FlushStatic, At
            <6>2. ~CloseCompressor(r) /\ ~Recover(r)
              BY <6>1 DEF CloseCompressor, Recover, At
            <6>3. ~Adapt(r)
              <7>1. Adapt(r) => level[r] = 0
                BY DEF Adapt
              <7>. QED  BY <1>2, <6>1, <7>1
            <6>4. ~(\E inm, im \in Validators : CommitConditional(r, inm, im) \/ CommitBody(r, inm, im))
              BY <6>1 DEF CommitConditional, CommitBody
            <6>. QED  BY <6>2, <6>3, <6>4
          <5>. QED  BY <1>1, <3>4, <4>3, <5>1, UnwindPath
        <4>5. PICK map \in Maps : HeaderStep(r, n, said[r], map) /\ said[r] \in Statuses
          BY <4>4 DEF Sends
        <4>6. Passed(r, n)' /\ raw'[r].status = said[r]
          BY <1>2, <3>1, <4>2, <4>5, FirstHeader
        <4>. QED  BY <4>6
      <3>5. CASE pc[r] = "unwind" /\ ~FlushStatic(r)
        BY <1>5, <3>2, <3>3, <3>5, LetsGo
      <3>6. CASE pc[r] = "commit"
        <4>1. chain[r][level[r]] = "etag" /\ said[r] = 200 /\ level[r] \in 1..Len(chain[r])
          BY <1>2, <2>1, <3>2, <3>6 DEF PoolInv, Taken
        <4>2. \E code \in {200, 304, 412} : Sends(r, n, code)
          <5>1. ~CloseCompressor(r) /\ ~Recover(r) /\ ~Adapt(r) /\ ~FlushStatic(r)
            BY <3>6 DEF CloseCompressor, Recover, Adapt, FlushStatic, At
          <5>. QED  BY <1>1, <3>6, <5>1, UnwindPath
        <4>3. PICK code \in {200, 304, 412} : Sends(r, n, code)
          BY <4>2
        <4>4. PICK map \in Maps : HeaderStep(r, n, code, map) /\ code \in Statuses
          BY <4>3 DEF Sends
        <4>5. \A i \in 1..n : ~Keeper(r, i, code)
          BY <1>2, <3>2, <4>1, OnlyEtag DEF Keeper
        <4>6. Passed(r, n)' /\ raw'[r].status = code
          BY <1>2, <3>1, <4>4, <4>5, FirstHeader
        <4>7. Has(r, "etag", 0)
          BY <4>1 DEF Has
        <4>. QED  BY <4>1, <4>6, <4>7
      <3>. QED  BY <1>3, <3>4, <3>5, <3>6
    <2>. QED  BY <2>2, <2>3
  <1>. QED  BY <1>6, <1>7

-----------------------------------------------------------------------------
(***************************************************************************)
(* The log                                                                 *)
(***************************************************************************)
LEMMA SentCode ==
    ASSUME Types, NEW r \in Requests, NEW n, NEW code, Sends(r, n, code), raw[r].status = 0, raw'[r].status # 0
    PROVE  raw'[r].status = code
  <1>1. raw[r] \in [status : Nat, headers : Maps, body : Bodies]
    BY DEF Types, OutTypes
  <1>. QED  BY <1>1 DEF Sends, HeaderStep, HeaderRaw

LEMMA LogShows ==
    ASSUME PoolInv, Types, NEW r \in Requests, Phase(r), Flow(r), Log(r), ended[r] \notin {"err", "callback"}
    PROVE  Shown(r)'
  <1>1. PICK n \in 0..level[r] : n = level'[r]
    BY UnwindMoves DEF Unwind
  <1>2. Shape /\ level[r] \in Nat /\ level[r] \in 1..Len(chain[r]) /\ n = level[r] - 1 /\ n \in Nat
    <2>1. n = level[r] - 1 /\ level[r] > 0
      BY <1>1 DEF Log, At, Leave, PoolInv, Shape
    <2>. QED  BY <2>1, ChainKinds DEF PoolInv, Shape
  <1>3. /\ Quiet(r) /\ chain[r][level[r]] = "logger" /\ UNCHANGED <<chain, outcome>> /\ pc'[r] = "unwind"
        /\ logged'[r] = layer[r][level[r]].status /\ outcome[r] = "ok"
    BY StillQuiet DEF Log, At, Leave, Phase, PoolInv, Shape, Types
  <1>4. Has(r, "logger", n)'
    <2>1. level[r] \in (n + 1)..Len(chain[r])
      BY <1>2
    <2>. QED  BY <1>3, <2>1 DEF Has
  <1>5. \/ Passed(r, n)' /\ logged'[r] = raw'[r].status
        \/ logged'[r] = 200 /\ ~Passed(r, n)'
    <2>1. CASE Untouched(r, level[r])
      <3>1. logged'[r] = 200
        BY <1>2, <1>3, <2>1 DEF Untouched
      <3>2. raw'[r].status = 0
        BY <1>3, <2>1 DEF Untouched, Quiet
      <3>. QED  BY <3>1, <3>2 DEF Passed
    <2>2. CASE Passed(r, level[r])
      <3>1. logged'[r] = raw[r].status
        <4>1. level[r] \in 1..level[r]
          BY <1>2
        <4>. QED  BY <1>3, <2>2, <4>1 DEF Passed, Wraps
      <3>2. Passed(r, n)' /\ raw'[r].status = raw[r].status
        BY <1>1, <1>2, <1>3, <2>2, Narrow, QuietKeeps DEF Quiet
      <3>. QED  BY <3>1, <3>2
    <2>3. CASE Kept(r, level[r])
      <3>1. PICK e \in 1..level[r] : KeptAt(r, level[r], e)
        BY <2>3 DEF Kept
      <3>2. chain[r][e] = "etag"
        <4>1. chain[r][e] \in {"etag", "static"} /\ e \in 1..Len(chain[r]) /\ e # level[r]
          BY <1>2, <1>3, <3>1 DEF KeptAt
        <4>2. chain[r][e] = "static" => Len(chain[r]) = 1
          BY <1>2, <4>1, ChainKinds
        <4>3. Len(chain[r]) = 1 => e = level[r]
          BY <1>2, <4>1
        <4>. QED  BY <4>1, <4>2, <4>3
      <3>3. logged'[r] = 200
        <4>1. level[r] \in e..level[r]
          BY <1>2
        <4>. QED  BY <1>3, <3>1, <3>2, <4>1 DEF KeptAt, Wraps
      <3>4. raw'[r].status = 0
        BY <1>3, <3>1 DEF KeptAt, Quiet
      <3>. QED  BY <3>3, <3>4 DEF Passed
    <2>. QED  BY <2>1, <2>2, <2>3 DEF Flow
  <1>. QED  BY <1>1, <1>3, <1>4, <1>5 DEF Shown

LEMMA ShownStep ==
    ASSUME PoolInv, Types, NEW r \in Requests, Phase(r), Flow(r), Shown(r), Handler(r) \/ Unwind(r)
    PROVE  Shown(r)'
  <1>1. CASE Handler(r)
    <2>1. logged[r] = 0 /\ UNCHANGED logged
      BY <1>1 DEF Handler, Arrive, Refuse, HandlerHeader, HandlerDeclares, HandlerWrite, HandlerEnds, Phase
    <2>. QED  BY <2>1 DEF Shown
  <1>2. CASE Unwind(r) /\ ended[r] \in {"err", "callback"}
    <2>1. ended'[r] \in {"err", "callback"}
      BY <1>2, UnwindEnds
    <2>. QED  BY <2>1 DEF Shown
  <1>3. CASE Log(r) /\ ended[r] \notin {"err", "callback"}
    BY <1>3, LogShows
  <1>4. CASE Unwind(r) /\ ~Log(r) /\ ended[r] \notin {"err", "callback"}
    <2>1. PICK n \in 0..level[r] :
             /\ n = level'[r] /\ chain'[r] = chain[r]
             /\ \/ Quiet(r) /\ ~FlushStatic(r) /\ pc[r] = "unwind" /\ (Adapt(r) => outcome[r] = "panic")
                \/ CloseCompressor(r) /\ Sends(r, n, 200)
                \/ FlushStatic(r)
                \/ \E inm, im \in Validators : CommitConditional(r, inm, im)
                                               /\ \E code \in {304, 412} : Sends(r, n, code)
                \/ (\E inm, im \in Validators : CommitBody(r, inm, im)) /\ Sends(r, n, 200)
                \/ Recover(r) /\ outcome[r] = "panic" /\ Sends(r, n, 500)
                \/ Adapt(r) /\ outcome[r] = "err" /\ Sends(r, n, 500)
                \/ Adapt(r) /\ outcome[r] = "ok" /\ Sends(r, n, 200)
      BY <1>4, UnwindPath
    <2>2. Shape /\ level[r] \in Nat /\ level[r] <= Len(chain[r]) /\ n \in Nat /\ Len(chain[r]) \in Nat
      BY ChainKinds DEF PoolInv, Shape
    <2>3. logged' = logged /\ (ended'[r] = ended[r]) /\ (pc'[r] = "done" <=> Adapt(r))
      <3>1. logged' = logged
        BY <1>4 DEF Unwind, CloseCompressor, FlushStatic, PassBy, EtagRelease, CommitConditional, CommitBody,
                    Recover, Adapt
      <3>. QED  BY <1>4, <3>1, UnwindEnds
    <2>4. SUFFICES ASSUME logged[r] # 0
                   PROVE  /\ outcome'[r] = "ok"
                          /\ Has(r, "logger", n)'
                          /\ \/ Passed(r, n)' /\ logged[r] = raw'[r].status
                             \/ logged[r] = 200 /\ pc'[r] # "done" /\ ~Passed(r, n)'
                             \/ /\ logged[r] = 200 /\ Passed(r, n)' /\ raw'[r].status \in {304, 412}
                                /\ \E e \in (n + 1)..Len(chain[r]) :
                                      chain[r][e] = "etag" /\ \A i \in (n + 1)..e : chain[r][i] # "logger"
      <3> DEFINE Aim == /\ outcome'[r] = "ok"
                        /\ Has(r, "logger", n)'
                        /\ \/ Passed(r, n)' /\ logged[r] = raw'[r].status
                           \/ logged[r] = 200 /\ pc'[r] # "done" /\ ~Passed(r, n)'
                           \/ /\ logged[r] = 200 /\ Passed(r, n)' /\ raw'[r].status \in {304, 412}
                              /\ \E e \in (n + 1)..Len(chain[r]) :
                                    chain[r][e] = "etag" /\ \A i \in (n + 1)..e : chain[r][i] # "logger"
      <3>1. Aim => Shown(r)'
        BY <2>1, <2>3 DEF Shown
      <3>2. logged[r] = 0 => Shown(r)'
        BY <2>3 DEF Shown
      <3>. QED  BY <3>1, <3>2
    <2>5. outcome[r] = "ok" /\ Has(r, "logger", level[r])
      BY <1>4, <2>4 DEF Shown
    <2>6. outcome'[r] = "ok"
      BY <1>4, <2>5 DEF Unwind, CloseCompressor, FlushStatic, PassBy, EtagRelease, CommitConditional, CommitBody,
                    Recover, Adapt, Types
    <2>7. Has(r, "logger", n)'
      <3>1. \A i \in (level[r] + 1)..Len(chain[r]) : i \in (n + 1)..Len(chain[r])
        BY <2>2
      <3>. QED  BY <2>1, <2>5, <3>1 DEF Has
    <2>8. Moved(r, n)
      <3>1. PICK m \in 0..level[r] : m = level'[r] /\ Moved(r, m)
        BY <1>4, UnwindMoves
      <3>. QED  BY <2>1, <3>1
    <2>9. n # level[r] => n = level[r] - 1 /\ level[r] > 0 /\ chain[r][level[r]] # "logger"
      <3>1. n # level[r] => n = level[r] - 1 /\ level[r] > 0
        BY <1>4, <2>1, OneLevel
      <3>2. level[r] > 0 => chain[r][level[r]] # "logger"
        <4>1. ASSUME level[r] > 0, chain[r][level[r]] = "logger" PROVE FALSE
          <5>1. ~Adapt(r)
            BY <2>2, <4>1, AdaptAtZero
          <5>2. ~(\E inm, im \in Validators : CommitConditional(r, inm, im) \/ CommitBody(r, inm, im))
            BY <4>1 DEF CommitConditional, CommitBody, PoolInv, Taken
          <5>. QED  BY <1>4, <2>5, <4>1, <5>1, <5>2 DEF Unwind, CloseCompressor, FlushStatic, PassBy, EtagRelease,
                                                     Recover, At, Refusals
        <4>. QED  BY <4>1
      <3>. QED  BY <3>1, <3>2
    <2>10. CASE Passed(r, level[r])
      <3>1. Passed(r, n)' /\ raw'[r].status = raw[r].status
        BY <2>2, <2>8, <2>10, Carried
      <3>2. CASE logged[r] = raw[r].status
        BY <2>6, <2>7, <3>1, <3>2
      <3>3. CASE logged[r] # raw[r].status
        <4>1. PICK e \in (level[r] + 1)..Len(chain[r]) :
                 chain[r][e] = "etag" /\ \A i \in (level[r] + 1)..e : chain[r][i] # "logger"
          BY <1>4, <2>4, <2>10, <3>3 DEF Shown
        <4>2. e \in (n + 1)..Len(chain[r]) /\ \A i \in (n + 1)..e : i \in (level[r] + 1)..e \/ (i = level[r] /\ n # level[r])
          BY <2>1, <2>2, <2>9
        <4>3. \A i \in (n + 1)..e : chain[r][i] # "logger"
          BY <2>9, <4>1, <4>2
        <4>4. logged[r] = 200 /\ raw[r].status \in {304, 412}
          BY <1>4, <2>4, <2>10, <3>3 DEF Shown
        <4>. QED  BY <2>6, <2>7, <3>1, <4>1, <4>2, <4>3, <4>4
      <3>. QED  BY <3>2, <3>3
    <2>11. CASE ~Passed(r, level[r])
      <3>1. logged[r] = 200
        BY <1>4, <2>4, <2>11 DEF Shown
      <3>2. raw[r].status = 0
        BY <2>11 DEF Flow, Untouched, Kept, KeptAt
      <3>3. Passed(r, n)' => raw'[r].status # 0
        BY DEF Passed
      <3>4. CASE Quiet(r) /\ ~FlushStatic(r) /\ (Adapt(r) => outcome[r] = "panic")
        BY <2>3, <2>5, <2>6, <2>7, <3>1, <3>2, <3>3, <3>4 DEF Quiet
      <3>5. CASE Sends(r, n, 200) /\ ~Adapt(r)
        BY <2>3, <2>6, <2>7, <3>1, <3>2, <3>3, <3>5, SentCode
      <3>6. CASE FlushStatic(r)
        <4>1. level[r] > 0 /\ chain[r][level[r]] = "static" /\ level[r] \in 1..Len(chain[r])
          BY <2>2, <3>6 DEF FlushStatic, At
        <4>2. Len(chain[r]) = 1 /\ level[r] = 1
          BY <2>2, <4>1, ChainKinds
        <4>. QED  BY <2>5, <4>2 DEF Has
      <3>7. CASE \E inm, im \in Validators : CommitConditional(r, inm, im)
                                             /\ \E code \in {304, 412} : Sends(r, n, code)
        <4>1. PICK code \in {304, 412} : Sends(r, n, code)
          BY <3>7
        <4>2. chain[r][level[r]] = "etag" /\ n = level[r] - 1 /\ level[r] > 0 /\ ~Adapt(r)
          <5>1. pc[r] = "commit" /\ Leave(r)
            BY <3>7 DEF CommitConditional
          <5>2. chain[r][level[r]] = "etag" /\ level[r] > 0 /\ level'[r] = level[r] - 1
            BY <5>1 DEF Leave, PoolInv, Taken, Shape
          <5>. QED  BY <2>1, <5>1, <5>2, AdaptAtZero
        <4>3. level[r] \in (n + 1)..Len(chain[r]) /\ \A i \in (n + 1)..level[r] : i = level[r]
          BY <2>2, <4>2
        <4>. QED  BY <2>3, <2>6, <2>7, <3>1, <3>2, <3>3, <4>1, <4>2, <4>3, SentCode
      <3>8. CASE Adapt(r) /\ outcome[r] = "ok" /\ Sends(r, n, 200)
        <4>1. level[r] = 0 /\ n = 0 /\ n \in 0..Len(chain[r])
          BY <2>1, <2>2, <3>8, AdaptAtZero
        <4>2. Untouched(r, n)
          BY <2>11, <4>1 DEF Flow, Kept
        <4>3. PICK map \in Maps : HeaderStep(r, n, 200, map) /\ 200 \in Statuses
          BY <3>8 DEF Sends
        <4>4. Passed(r, n)' /\ raw'[r].status = 200
          BY <2>2, <4>1, <4>2, <4>3, FirstHeader
        <4>. QED  BY <2>6, <2>7, <3>1, <4>4
      <3>9. CloseCompressor(r) \/ (\E inm, im \in Validators : CommitBody(r, inm, im)) => ~Adapt(r)
        BY <2>2, AdaptAtZero DEF CloseCompressor, CommitBody, At
      <3>. QED  BY <2>1, <2>5, <3>4, <3>5, <3>6, <3>7, <3>8, <3>9
    <2>. QED  BY <2>10, <2>11
  <1>. QED  BY <1>1, <1>2, <1>3, <1>4

-----------------------------------------------------------------------------
(***************************************************************************)
(* The body that follows the status                                        *)
(***************************************************************************)
LEMMA LargestOf ==
    ASSUME NEW n \in Nat, NEW S \in SUBSET (0..n), S # {}
    PROVE  Max(S) \in S /\ \A x \in S : x <= Max(S)
  <1> DEFINE R == {ss \in Nat \X Nat : ss[1] < ss[2]}
             Bounds == {b \in Nat : \A x \in S : x <= b}
  <1>1. IsWellFoundedOn(R, Nat)
    BY NatLessThanWellFounded, Zenon DEF OpToRel
  <1>2. n \in Bounds /\ Bounds \in SUBSET Nat
    OBVIOUS
  <1>3. PICK m \in Bounds : \A b \in Bounds : ~ (<<b, m>> \in R)
    <2> HIDE DEF R, Bounds
    <2>. QED  BY <1>1, <1>2, WFMin, Zenon
  <1>4. m \in S
    <2>1. SUFFICES ASSUME m \notin S PROVE FALSE
      OBVIOUS
    <2>2. \A x \in S : x \in Nat /\ x < m
      BY <1>3, <2>1
    <2>3. m \in Nat /\ m > 0
      <3>1. PICK x \in S : x \in Nat /\ x < m
        BY <2>2
      <3>. QED  BY <1>3, <3>1
    <2>4. m - 1 \in Bounds
      BY <2>2, <2>3
    <2>5. <<m - 1, m>> \in R
      BY <2>3
    <2>. QED  BY <1>3, <2>4, <2>5
  <1>. QED  BY <1>3, <1>4 DEF Max

\* The innermost recovery of a chain, or 0.
Innermost(ch) == Max({i \in DOMAIN ch : ch[i] = "recovery"} \cup {0})

LEMMA InnermostIs ==
    ASSUME NEW ch, DOMAIN ch = 1..Len(ch), Len(ch) \in Nat
    PROVE  /\ Innermost(ch) \in 0..Len(ch)
           /\ (\E i \in 1..Len(ch) : ch[i] = "recovery") => Innermost(ch) > 0
           /\ Innermost(ch) > 0 => ch[Innermost(ch)] = "recovery"
           /\ \A i \in 1..Len(ch) : ch[i] = "recovery" => i <= Innermost(ch)
  <1> DEFINE S == {i \in DOMAIN ch : ch[i] = "recovery"} \cup {0}
  <1>1. S \in SUBSET (0..Len(ch)) /\ S # {}
    OBVIOUS
  <1>2. Max(S) \in S /\ \A x \in S : x <= Max(S)
    <2> HIDE DEF S
    <2>. QED  BY <1>1, LargestOf
  <1>3. Max(S) \in 0..Len(ch) /\ (Max(S) > 0 => ch[Max(S)] = "recovery")
    BY <1>2
  <1>4. \A i \in 1..Len(ch) : ch[i] = "recovery" => i <= Max(S)
    BY <1>2
  <1>5. Innermost(ch) = Max(S)
    BY DEF Innermost
  <1> HIDE DEF S
  <1>6. (\E i \in 1..Len(ch) : ch[i] = "recovery") => Max(S) > 0
    BY <1>3, <1>4
  <1>. QED  BY <1>3, <1>4, <1>5, <1>6

LEMMA PassMakes ==
    ASSUME NEW r, NEW n, NEW i, NEW pieces \in Bodies, NEW W, Made(pieces, W)
    PROVE  Made(Pass(r, n, i, pieces), W)
  <1>1. \A k \in DOMAIN pieces : Packed(pieces[k].what).what = pieces[k].what
    BY DEF Packed
  <1>. QED  BY <1>1 DEF Pass, Made

LEMMA SentMakes ==
    ASSUME NEW out \in RawType, NEW pieces \in Bodies, NEW W, Made(out.body, W), Made(pieces, W)
    PROVE  Made(Sent(out, pieces).body, W)
  <1> DEFINE body == out.body \o pieces
             len == out.headers.length
  <1>1. out.body \in Seq(Piece) /\ pieces \in Seq(Piece) /\ len \in Nat
    BY DEF RawType, Bodies, Maps
  <1>2. body \in Bodies /\ Len(body) \in Nat /\ \A k \in 1..Len(body) : body[k].what \in W
    <2>1. body \in Seq(Piece) /\ Len(body) = Len(out.body) + Len(pieces)
      BY <1>1
    <2>2. \A k \in 1..Len(body) : \/ k \in 1..Len(out.body) /\ body[k] = out.body[k]
                                  \/ k - Len(out.body) \in 1..Len(pieces) /\ body[k] = pieces[k - Len(out.body)]
      BY <1>1
    <2>3. DOMAIN out.body = 1..Len(out.body) /\ DOMAIN pieces = 1..Len(pieces)
      BY <1>1
    <2>4. \A k \in 1..Len(body) : body[k].what \in W
      BY <2>2, <2>3 DEF Made
    <2>. QED  BY <2>1, <2>4 DEF Bodies
  <1>3. Made(body, W)
    <2> HIDE DEF body
    <2>1. DOMAIN body = 1..Len(body)
      BY <1>2 DEF Bodies
    <2>. QED  BY <1>2, <2>1 DEF Made
  <1>4. ASSUME len \in 1..(Len(body) - 1) PROVE Made(SubSeq(body, 1, len), W)
    <2> HIDE DEF body, len
    <2>1. len \in 0..Len(body)
      BY <1>2, <1>4
    <2>2. SubSeq(body, 1, len) \in Bodies /\ Len(SubSeq(body, 1, len)) = len
          /\ \A k \in 1..len : SubSeq(body, 1, len)[k] = body[k]
      BY <1>2, <2>1, Prefix
    <2>3. DOMAIN SubSeq(body, 1, len) = 1..len
      <3> DEFINE t == SubSeq(body, 1, len)
      <3> HIDE DEF t
      <3>1. t \in Bodies /\ Len(t) = len
        BY <2>2 DEF t
      <3>2. DOMAIN t = 1..len
        BY <3>1 DEF Bodies
      <3>. QED  BY <3>2 DEF t
    <2>4. \A k \in 1..len : k \in 1..Len(body)
      BY <1>2, <1>4
    <2>. QED  BY <1>2, <2>2, <2>3, <2>4 DEF Made
  <1>5. Sent(out, pieces) = CASE out.status \in Silent -> out
                              [] out.status \notin Silent /\ len \in 1..(Len(body) - 1) ->
                                   [out EXCEPT !.body = SubSeq(body, 1, len)]
                              [] OTHER -> [out EXCEPT !.body = body]
    BY DEF Sent
  <1> HIDE DEF body, len
  <1>6. CASE out.status \in Silent
    BY <1>5, <1>6
  <1>7. CASE out.status \notin Silent /\ len \in 1..(Len(body) - 1)
    BY <1>4, <1>5, <1>7 DEF RawType
  <1>8. CASE out.status \notin Silent /\ len \notin 1..(Len(body) - 1)
    BY <1>3, <1>5, <1>8 DEF RawType
  <1>. QED  BY <1>6, <1>7, <1>8

\* A body is sent behind a status, and kept with one.
LEMMA WriteBody ==
    ASSUME Shape, Types, NEW r \in Requests, NEW n \in 0..Len(chain[r]), NEW code \in Statuses,
           NEW map \in Maps, NEW pieces \in Bodies, Write(r, n, code, map, pieces), UNCHANGED chain
    PROVE  /\ Passed(r, n)' => /\ raw'[r] = Sent(HeaderRaw(r, n, code, map), Pass(r, n, 0, pieces))
                               /\ UNCHANGED <<array, used, own>>
           /\ \A e \in 1..n : KeptAt(r, n, e)' => raw'[r] = HeaderRaw(r, n, code, map)
           /\ \A W : Made(raw[r].body, W) /\ Made(pieces, W) => Made(raw'[r].body, W)
  <1>1. n \in Nat /\ raw \in [Requests -> RawType]
    BY ChainKinds DEF Types, OutTypes, RawType
  <1>2. HeaderStep(r, n, code, map)
    BY <1>1, WriteStatus
  <1>3. Passed(r, n)' => /\ raw'[r] = Sent(HeaderRaw(r, n, code, map), Pass(r, n, 0, pieces))
                         /\ UNCHANGED <<array, used, own>>
    <2>1. Passed(r, n)' => Buffering(r, n, code) = 0
      BY <1>2, BodyKeeper
    <2>. QED  BY <1>1, <2>1 DEF Write
  <1>4. ASSUME NEW e \in 1..n, KeptAt(r, n, e)' PROVE raw'[r] = HeaderRaw(r, n, code, map)
    <2>1. Buffering(r, n, code) = e /\ e # 0
      BY <1>2, <1>4, BodyKeeper
    <2>. QED  BY <1>1, <2>1 DEF Write
  <1>5. ASSUME NEW W, Made(raw[r].body, W), Made(pieces, W) PROVE Made(raw'[r].body, W)
    <2> DEFINE committed == HeaderRaw(r, n, code, map)
               kept == Pass(r, n, Buffering(r, n, code), pieces)
    <2>1. committed \in RawType /\ committed.body = raw[r].body
      BY <1>1, HeaderTypes
    <2>2. kept \in Bodies /\ Made(kept, W)
      BY <1>5, PassTypes, PassMakes
    <2>3. raw'[r] = committed \/ raw'[r] = Sent(committed, kept)
      BY <1>1 DEF Write
    <2> HIDE DEF committed, kept
    <2>4. Made(Sent(committed, kept).body, W)
      BY <1>5, <2>1, <2>2, SentMakes
    <2>. QED  BY <1>5, <2>1, <2>3, <2>4
  <1>. QED  BY <1>3, <1>4, <1>5

\* What a step hands to the writers from n outwards, if it writes at all.
Acts(r, n) ==
    \/ UNCHANGED <<layer, raw, own, array>> /\ (Arrive(r) \/ UNCHANGED used)
    \/ \E code \in Statuses, map \in Maps : WriteHeader(r, n, code, map)
    \/ \E code \in Statuses, map \in Maps, pieces \in Bodies : Write(r, n, code, map, pieces)

LEMMA HandlerActs ==
    ASSUME PoolInv, Types, NEW r \in Requests, Phase(r), Handler(r)
    PROVE  \E n \in 0..level[r] : n = level'[r] /\ Acts(r, n) /\ UNCHANGED chain
  <1>1. PICK n \in 0..level[r] : n = level'[r] /\ (~Arrive(r) => n = level[r])
    BY HandlerPath
  <1>2. CASE Arrive(r) \/ HandlerDeclares(r) \/ \E how \in {"ok", "err", "panic"} : HandlerEnds(r, how)
    <2>1. UNCHANGED <<layer, raw, own, array>> /\ (Arrive(r) \/ UNCHANGED used) /\ UNCHANGED chain
      BY <1>2 DEF Arrive, HandlerDeclares, HandlerEnds, poolVars, outVars
    <2>. QED  BY <1>1, <2>1 DEF Acts
  <1>3. ASSUME NEW code,
               \/ code \in BasicAuth \cup JWT \cup CORS /\ Refuse(r, code)
               \/ code \in Codes /\ HandlerHeader(r, code)
        PROVE  \E m \in 0..level[r] : m = level'[r] /\ Acts(r, m) /\ UNCHANGED chain
    <2>1. code \in Statuses /\ hdr[r] \in Maps
      BY <1>3, Decides
    <2>2. WriteHeader(r, level[r], code, hdr[r]) /\ UNCHANGED <<chain, level>>
      BY <1>3 DEF Refuse, HandlerHeader
    <2>3. ~Arrive(r)
      BY <1>3 DEF Arrive, Refuse, HandlerHeader
    <2>. QED  BY <1>1, <2>1, <2>2, <2>3 DEF Acts
  <1>4. CASE \E page \in Pages : HandlerWrite(r, page)
    <2>1. PICK page \in Pages : HandlerWrite(r, page)
      BY <1>4
    <2>2. 200 \in Statuses /\ hdr[r] \in Maps /\ <<Plain(page)>> \in Bodies
      BY <2>1, Decides, PiecesAreTyped
    <2>3. Write(r, level[r], 200, hdr[r], <<Plain(page)>>) /\ UNCHANGED <<chain, level>> /\ ~Arrive(r)
      BY <2>1 DEF HandlerWrite, Arrive
    <2>. QED  BY <1>1, <2>2, <2>3 DEF Acts
  <1>. QED  BY <1>2, <1>3, <1>4 DEF Handler

LEMMA UnwindActs ==
    ASSUME PoolInv, Types, NEW r \in Requests, Phase(r), Unwind(r)
    PROVE  \E n \in 0..level[r] : n = level'[r] /\ Acts(r, n) /\ UNCHANGED chain
  <1>1. PICK n \in 0..level[r] : n = level'[r]
    BY UnwindPath
  <1>2. /\ Shape /\ level \in [Requests -> Nat] /\ hdr[r] \in Maps /\ outcome[r] \in {"ok", "err", "panic"}
        /\ {200, 304, 412, 500} \subseteq Statuses
    BY DEF PoolInv, Shape, Types, OutTypes, Statuses
  <1>3. UNCHANGED chain
    BY UnwindEnds
  <1>4. Leave(r) => level'[r] = level[r] - 1
    BY <1>2 DEF Leave
  <1>5. CASE PassBy(r) \/ Log(r) \/ EtagRelease(r)
    BY <1>1, <1>3, <1>5 DEF PassBy, Log, EtagRelease, outVars, Acts
  <1>6. CASE CloseCompressor(r)
    <2>1. Leave(r)
      BY <1>6 DEF CloseCompressor
    <2>2. CASE UNCHANGED outVars
      BY <1>1, <1>3, <2>2 DEF outVars, Acts
    <2>3. CASE Write(r, level[r] - 1, 200, hdr[r], <<Packed(Trailer)>>)
      BY <1>1, <1>2, <1>3, <1>4, <2>1, <2>3, PiecesAreTyped DEF Acts
    <2>. QED  BY <1>6, <2>2, <2>3 DEF CloseCompressor
  <1>7. CASE FlushStatic(r)
    <2>1. pc[r] = "unwind" /\ level[r] > 0 /\ chain[r][level[r]] = "static" /\ Leave(r)
      BY <1>7 DEF FlushStatic, At
    <2>2. chain[r] = <<"static">> /\ level[r] \in 1..Len(chain[r]) /\ Len(chain[r]) = 1 /\ DOMAIN chain[r] = 1..Len(chain[r])
      BY <1>2, <2>1, ChainKinds DEF Shape
    <2>3. ew[r] # None
      BY <2>1, <2>2 DEF Types, EtagTypes
    <2>4. Append([k \in 1..used[ew[r]] |-> Packed(array[ew[r]][k].what)], Packed(Trailer)) \in Bodies
      BY <2>3, BufferTypes, StaticPieces
    <2>5. layer[r][1].status \in Statuses
      BY <2>2 DEF Types, OutTypes
    <2>6. Compressed(hdr[r]) \in Maps
      BY MapForms
    <2>7. PICK code \in Statuses, map \in Maps, pieces \in Bodies : Write(r, 0, code, map, pieces)
      BY <1>7, <2>4, <2>5, <2>6 DEF FlushStatic
    <2>8. n = 0
      BY <1>1, <1>4, <2>1, <2>2
    <2>. QED  BY <1>1, <1>3, <2>7, <2>8 DEF Acts
  <1>8. CASE \E inm, im \in Validators : CommitConditional(r, inm, im) \/ CommitBody(r, inm, im)
    <2>1. PICK inm \in Validators, im \in Validators : CommitConditional(r, inm, im) \/ CommitBody(r, inm, im)
      BY <1>8
    <2>2. pc[r] = "commit" /\ Leave(r) /\ level[r] > 0 /\ chain[r][level[r]] = "etag"
      BY <2>1 DEF CommitConditional, CommitBody, PoolInv, Taken
    <2>3. CASE CommitConditional(r, inm, im)
      <3>1. PICK code \in {304, 412} : WriteHeader(r, level[r] - 1, code, hdr[r])
        BY <2>3 DEF CommitConditional
      <3>. QED  BY <1>1, <1>2, <1>3, <1>4, <2>2, <3>1 DEF Acts
    <2>4. CASE CommitBody(r, inm, im)
      <3>1. ew[r] # None
        BY <2>2, EtagHasWriter
      <3>2. SubSeq(array[ew[r]], 1, size[r]) \in Bodies
        BY <2>2, <3>1, BufferTypes
      <3>3. [hdr[r] EXCEPT !.etag = tag[r]] \in Maps
        BY MapForms
      <3>4. PICK map, pieces : map \in Maps /\ pieces \in Bodies /\ Write(r, level[r] - 1, 200, map, pieces)
        BY <2>4, <3>2, <3>3 DEF CommitBody
      <3>. QED  BY <1>1, <1>2, <1>3, <1>4, <2>2, <3>4 DEF Acts
    <2>. QED  BY <2>1, <2>3, <2>4
  <1>9. CASE Recover(r)
    <2>1. Leave(r)
      BY <1>9 DEF Recover
    <2>2. CASE outcome[r] # "panic"
      BY <1>1, <1>3, <1>9, <2>2 DEF Recover, outVars, Acts
    <2>3. CASE outcome[r] = "panic"
      <3>1. Write(r, level[r] - 1, 500, hdr[r], <<Plain(ErrorText)>>)
        BY <1>9, <2>3 DEF Recover
      <3>. QED  BY <1>1, <1>2, <1>3, <1>4, <2>1, <3>1, PiecesAreTyped DEF Acts
    <2>. QED  BY <2>2, <2>3
  <1>10. CASE Adapt(r)
    <2>1. level[r] = 0 /\ n = 0
      BY <1>1, <1>10, AdaptAtZero
    <2>2. CASE outcome[r] = "err"
      <3>1. Write(r, 0, 500, [hdr[r] EXCEPT !.length = 0], <<Plain(ErrorText)>>)
        BY <1>10, <2>2 DEF Adapt
      <3>2. [hdr[r] EXCEPT !.length = 0] \in Maps
        BY <1>2 DEF Maps
      <3>. QED  BY <1>1, <1>2, <1>3, <2>1, <3>1, <3>2, PiecesAreTyped DEF Acts
    <2>3. CASE outcome[r] = "ok"
      <3>1. WriteHeader(r, 0, 200, hdr[r])
        BY <1>10, <2>3 DEF Adapt
      <3>. QED  BY <1>1, <1>2, <1>3, <2>1, <3>1 DEF Acts
    <2>4. CASE outcome[r] = "panic"
      <3>1. UNCHANGED outVars
        BY <1>10, <2>4 DEF Adapt
      <3>. QED  BY <1>1, <1>3, <3>1 DEF outVars, Acts
    <2>. QED  BY <1>2, <2>2, <2>3, <2>4
  <1>. QED  BY <1>5, <1>6, <1>7, <1>8, <1>9, <1>10 DEF Unwind

\* Whatever header is written first, somebody has it.
LEMMA HeaderDecides ==
    ASSUME Shape, Types, NEW r \in Requests, NEW m \in Nat, m <= Len(chain[r]), NEW n \in 0..m,
           NEW code \in Statuses, NEW map \in Maps, HeaderStep(r, n, code, map),
           Untouched(r, m) \/ Passed(r, m) \/ Kept(r, m)
    PROVE  Passed(r, n)' \/ \E e \in 1..n : KeptAt(r, n, e)'
  <1>1. n \in 0..Len(chain[r]) /\ n \in Nat /\ Moved(r, n)
    BY ChainKinds DEF Moved
  <1>2. CASE Untouched(r, n)
    BY <1>1, <1>2, FirstHeader
  <1>3. CASE Passed(r, m)
    BY <1>1, <1>3, Carried
  <1>4. CASE Kept(r, m)
    <2>1. PICK e \in 1..m : KeptAt(r, m, e)
      BY <1>4 DEF Kept
    <2>2. CASE e <= n
      <3>1. e \in 1..n
        BY <1>1, <2>2
      <3>. QED  BY <1>1, <2>1, <3>1, Carried
    <2>3. CASE ~(e <= n)
      BY <1>2, <2>1, <2>3, Narrow
    <2>. QED  BY <2>2, <2>3
  <1>. QED  BY <1>2, <1>3, <1>4, Narrow

LEMMA OrderedStep ==
    ASSUME PoolInv, Types, NEW r \in Requests, Phase(r), Flow(r), Ordered(r), Handler(r) \/ Unwind(r)
    PROVE  Ordered(r)'
  <1>1. PICK n \in 0..level[r] : n = level'[r] /\ Acts(r, n) /\ UNCHANGED chain
    BY HandlerActs, UnwindActs
  <1>2. Shape /\ level[r] \in Nat /\ level[r] <= Len(chain[r]) /\ n \in Nat /\ n \in 0..Len(chain[r])
    BY ChainKinds DEF PoolInv, Shape
  <1>3. raw \in [Requests -> RawType]
    BY DEF Types, OutTypes, RawType
  <1>4. CASE UNCHANGED <<layer, raw, own, array>>
    BY <1>4 DEF Ordered
  <1>5. ASSUME NEW code \in Statuses, NEW map \in Maps, raw'[r] = HeaderRaw(r, n, code, map) PROVE Ordered(r)'
    <2>1. HeaderRaw(r, n, code, map).body = raw[r].body
      BY <1>2, HeaderTypes
    <2>2. HeaderRaw(r, n, code, map).status \in {raw[r].status, code} /\ code # 0
      BY <1>3 DEF HeaderRaw, RawType, Statuses
    <2>3. HeaderRaw(r, n, code, map).status = 0 => raw[r].status = 0
      BY <2>2, <1>3 DEF HeaderRaw, RawType
    <2>. QED  BY <1>5, <2>1, <2>3 DEF Ordered
  <1>6. CASE \E code \in Statuses, map \in Maps : WriteHeader(r, n, code, map)
    BY <1>3, <1>5, <1>6 DEF WriteHeader
  <1>7. CASE \E code \in Statuses, map \in Maps, pieces \in Bodies : Write(r, n, code, map, pieces)
    <2>1. PICK code \in Statuses, map \in Maps, pieces \in Bodies : Write(r, n, code, map, pieces)
      BY <1>7
    <2>2. HeaderStep(r, n, code, map)
      BY <1>1, <1>2, <2>1, WriteStatus
    <2>3. Passed(r, n)' \/ \E e \in 1..n : KeptAt(r, n, e)'
      BY <1>2, <2>2, HeaderDecides DEF Flow
    <2>4. CASE Passed(r, n)'
      BY <2>4 DEF Passed, Ordered
    <2>5. CASE \E e \in 1..n : KeptAt(r, n, e)'
      <3>1. raw'[r] = HeaderRaw(r, n, code, map)
        BY <1>1, <1>2, <2>1, <2>5, WriteBody
      <3>. QED  BY <1>5, <3>1
    <2>. QED  BY <2>3, <2>4, <2>5
  <1>. QED  BY <1>1, <1>4, <1>6, <1>7 DEF Acts

-----------------------------------------------------------------------------
(***************************************************************************)
(* The answer to a failure                                                 *)
(***************************************************************************)
\* Nothing is outside whoever will answer for a handler that has failed.
LEMMA HandlerReports ==
    ASSUME PoolInv, Types, NEW r \in Requests, Phase(r), Flow(r), Stands(r), Handler(r)
    PROVE  Reported(r)'
  <1>1. SUFFICES ASSUME pc'[r] \in {"unwind", "commit", "done"}, Failed(r)', Unanswered(r)'
                 PROVE  Waiting(r)' /\ (level[r] >= Answerer(r) /\ Untouched(r, Answerer(r)))'
    BY DEF Reported
  <1>2. PICK how \in {"err", "panic"} : HandlerEnds(r, how)
    <2>1. ASSUME NEW code, Refuse(r, code) PROVE FALSE
      BY <1>1, <2>1 DEF Refuse, Failed, Types
    <2>2. \E how \in {"ok", "err", "panic"} : HandlerEnds(r, how)
      BY <1>1, <2>1 DEF Handler, Arrive, HandlerHeader, HandlerDeclares, HandlerWrite, PoolInv, Shape
    <2>3. ~HandlerEnds(r, "ok")
      BY <1>1 DEF HandlerEnds, Failed, Types
    <2>. QED  BY <2>2, <2>3
  <1>3. /\ pc[r] = "handler" /\ pc'[r] = "unwind" /\ ended'[r] = how /\ outcome'[r] = how
        /\ UNCHANGED <<chain, level, layer, raw, said>> /\ chain[r] # <<"static">>
    BY <1>2 DEF HandlerEnds, outVars, PoolInv, Shape, Types
  <1>4. /\ Shape /\ level[r] \in Nat /\ level[r] = Len(chain[r]) /\ DOMAIN chain[r] = 1..Len(chain[r])
        /\ ended[r] \in {"running", "copying", "wrote"}
    BY <1>3, ChainKinds DEF PoolInv, Shape, Phase
  <1>5. PICK A \in 0..level[r] : A = Answerer(r)'
    <2>1. Innermost(chain[r]) \in 0..Len(chain[r])
      BY <1>4, InnermostIs
    <2>2. Answerer(r)' = IF how = "panic" THEN Innermost(chain[r]) ELSE 0
      BY <1>3 DEF Answerer, Innermost
    <2>. QED  BY <1>4, <2>1, <2>2
  <1>6. Quiet(r)
    BY <1>3, StillQuiet
  <1>7. said[r] = 0 \/ (said[r] = 200 /\ \E i \in (A + 1)..Len(chain[r]) : chain[r][i] = "etag")
    BY <1>1, <1>3, <1>5 DEF Unanswered, Has
  <1>8. Untouched(r, A)
    <2>1. CASE said[r] = 0
      BY <1>3, <1>4, <2>1, Narrow DEF Flow, Inside
    <2>2. CASE said[r] = 200 /\ \E i \in (A + 1)..Len(chain[r]) : chain[r][i] = "etag"
      <3>1. PICK i \in (A + 1)..Len(chain[r]) : chain[r][i] = "etag"
        BY <2>2
      <3>2. i \in 1..level[r] /\ i > A
        BY <1>4, <3>1
      <3>3. CASE Passed(r, level[r]) /\ raw[r].status = 200
        BY <3>1, <3>2, <3>3 DEF Passed
      <3>4. CASE \E e \in 1..level[r] : KeptAt(r, level[r], e)
        <4>1. PICK e \in 1..level[r] : KeptAt(r, level[r], e)
          BY <3>4
        <4>2. chain[r][e] = "etag"
          <5>1. chain[r][e] \in {"etag", "static"} /\ e \in 1..Len(chain[r])
            BY <1>4, <4>1 DEF KeptAt
          <5>. QED  BY <1>3, <1>4, <5>1, ChainKinds
        <4>3. e = i
          BY <1>4, <3>1, <3>2, <4>2, ChainKinds
        <4>4. ~(e <= A) /\ e \in 1..level[r] /\ level[r] \in Nat /\ A \in 0..level[r]
          BY <1>4, <3>2, <4>1, <4>3
        <4>. QED  BY <4>1, <4>4, Narrow
      <3>. QED  BY <1>3, <1>4, <2>2, <3>3, <3>4 DEF Stands
    <2>. QED  BY <1>7, <2>1, <2>2
  <1>9. Untouched(r, A)'
    BY <1>6, <1>8, QuietKeeps
  <1>. QED  BY <1>3, <1>4, <1>5, <1>9 DEF Waiting

\* Outside the place where a failure will be answered nothing is written.
LEMMA StillWaits ==
    ASSUME PoolInv, Types, NEW r \in Requests, Phase(r), Reported(r), Unwind(r),
           Failed(r), Unanswered(r), Waiting(r),
           ~(Recover(r) /\ outcome[r] = "panic"), ~Adapt(r)
    PROVE  /\ Quiet(r) /\ outcome'[r] = outcome[r] /\ pc'[r] # "done"
           /\ level'[r] >= Answerer(r)
  <1>1. /\ pc[r] \in {"unwind", "commit"} /\ pc'[r] # "done" /\ UNCHANGED <<chain, said, ended>>
    BY UnwindEnds
  <1>2. /\ Shape /\ level[r] \in Nat /\ level[r] <= Len(chain[r]) /\ DOMAIN chain[r] = 1..Len(chain[r])
        /\ Len(chain[r]) \in Nat
    BY ChainKinds DEF PoolInv, Shape
  <1>3. level[r] >= Answerer(r) /\ outcome[r] = ended[r] /\ ended[r] \in {"err", "panic"}
    BY <1>1 DEF Reported, Waiting, Failed
  <1>4. pc[r] = "unwind" /\ chain[r] # <<"static">>
    BY <1>1, <1>3 DEF Phase
  <1>5. PICK A \in 0..Len(chain[r]) : /\ A = Answerer(r) /\ (ended[r] = "err" => A = 0)
                                      /\ A > 0 => chain[r][A] = "recovery"
    <2>1. /\ Innermost(chain[r]) \in 0..Len(chain[r])
          /\ Innermost(chain[r]) > 0 => chain[r][Innermost(chain[r])] = "recovery"
      BY <1>2, InnermostIs
    <2>2. Answerer(r) = IF ended[r] = "panic" THEN Innermost(chain[r]) ELSE 0
      BY DEF Answerer, Innermost
    <2>. QED  BY <1>2, <2>1, <2>2
  <1>6. level[r] > 0 /\ chain[r][level[r]] = "compress" => FALSE
    <2>1. SUFFICES ASSUME level[r] > 0, chain[r][level[r]] = "compress" PROVE FALSE
      OBVIOUS
    <2>2. level[r] # A
      BY <1>5, <2>1
    <2>3. level[r] \in (A + 1)..Len(chain[r])
      BY <1>2, <1>3, <1>5, <2>1, <2>2
    <2>. QED  BY <1>5, <2>1, <2>3 DEF Unanswered, Has
  <1>7. PassBy(r) \/ Log(r) \/ EtagRelease(r) \/ (Recover(r) /\ outcome[r] # "panic")
    <2>1. ~CloseCompressor(r)
      BY <1>6 DEF CloseCompressor, At
    <2>2. ~FlushStatic(r)
      <3>1. ASSUME level[r] > 0, chain[r][level[r]] = "static" PROVE FALSE
        <4>1. level[r] \in 1..Len(chain[r])
          BY <1>2, <3>1
        <4>. QED  BY <1>2, <1>4, <3>1, <4>1, ChainKinds
      <3>. QED  BY <3>1 DEF FlushStatic, At
    <2>3. ~(\E inm, im \in Validators : CommitConditional(r, inm, im) \/ CommitBody(r, inm, im))
      BY <1>4 DEF CommitConditional, CommitBody
    <2>. QED  BY <2>1, <2>2, <2>3 DEF Unwind
  <1>8. Quiet(r) /\ outcome'[r] = outcome[r]
    <2>1. UNCHANGED <<chain, layer, raw>> \/ UNCHANGED <<chain, outVars>>
      BY <1>7 DEF PassBy, Log, EtagRelease, Recover
    <2>2. outcome'[r] = outcome[r]
      BY <1>7 DEF PassBy, Log, EtagRelease, Recover, Types
    <2>. QED  BY <2>1, <2>2, StillQuiet
  <1>9. level'[r] >= A
    <2>1. CASE level'[r] = level[r]
      BY <1>3, <1>5, <2>1
    <2>2. CASE level[r] > 0 /\ level'[r] = level[r] - 1
      <3>1. CASE A = 0
        BY <1>2, <2>2, <3>1
      <3>2. CASE A > 0
        <4>1. outcome[r] = "panic" /\ chain[r][A] = "recovery"
          BY <1>3, <1>5, <3>2
        <4>2. chain[r][level[r]] # "recovery"
          BY <1>7, <2>2, <4>1 DEF PassBy, Log, EtagRelease, Recover, At, Refusals
        <4>. QED  BY <1>2, <1>3, <1>5, <2>2, <4>1, <4>2
      <3>. QED  BY <1>5, <3>1, <3>2
    <2>. QED  BY <2>1, <2>2, OneLevel
  <1>. QED  BY <1>1, <1>5, <1>8, <1>9

\* Error text goes out behind a 500 where nothing has.
Answered(r, n) == Passed(r, n)' /\ raw'[r].status = 500 /\ Made(raw'[r].body, {ErrorText, Trailer})

LEMMA Answers ==
    ASSUME Shape, Types, NEW r \in Requests, Ordered(r), chain[r] # <<"static">>,
           NEW n \in 0..Len(chain[r]), NEW map \in Maps,
           Write(r, n, 500, map, <<Plain(ErrorText)>>), UNCHANGED chain, Untouched(r, n)
    PROVE  Answered(r, n)
  <1>1. n \in Nat /\ 500 \in Statuses /\ <<Plain(ErrorText)>> \in Bodies
    BY ChainKinds, PiecesAreTyped DEF Statuses
  <1>2. HeaderStep(r, n, 500, map)
    BY <1>1, WriteStatus
  <1>3. \A e \in 1..n : ~Keeper(r, e, 500)
    <2>1. ASSUME NEW e \in 1..n, chain[r][e] = "static" PROVE FALSE
      <3>1. e \in 1..Len(chain[r])
        BY ChainKinds
      <3>. QED  BY <2>1, <3>1, ChainKinds
    <2>. QED  BY <2>1 DEF Keeper
  <1>4. Passed(r, n)' /\ raw'[r].status = 500
    BY <1>1, <1>2, <1>3, FirstHeader
  <1>5. Made(raw[r].body, {ErrorText, Trailer})
    BY DEF Ordered, Untouched, Made
  <1>6. Made(<<Plain(ErrorText)>>, {ErrorText, Trailer})
    BY DEF Made, Plain
  <1>7. Made(raw'[r].body, {ErrorText, Trailer})
    BY <1>1, <1>5, <1>6, WriteBody
  <1>. QED  BY <1>4, <1>7 DEF Answered

\* An answer once given is not taken back or added to.
LEMMA StillAnswered ==
    ASSUME PoolInv, Types, NEW r \in Requests, Phase(r), Unwind(r), chain[r] # <<"static">>, outcome[r] = "ok",
           NEW n \in 0..level[r], n = level'[r],
           Passed(r, level[r]), raw[r].status = 500, Made(raw[r].body, {ErrorText, Trailer})
    PROVE  outcome'[r] = "ok" /\ raw'[r].status = 500 /\ Made(raw'[r].body, {ErrorText, Trailer})
  <1>1. /\ Shape /\ level[r] \in Nat /\ level[r] <= Len(chain[r]) /\ DOMAIN chain[r] = 1..Len(chain[r])
        /\ Len(chain[r]) \in Nat /\ hdr[r] \in Maps /\ raw \in [Requests -> RawType]
    BY ChainKinds DEF PoolInv, Shape, Types, OutTypes, RawType
  <1>2. raw'[r].status = 500
    <2>1. PICK m \in 0..level[r] : m = level'[r] /\ Moved(r, m)
      BY UnwindMoves
    <2>2. Moved(r, n)
      BY <2>1
    <2>. QED  BY <1>1, <2>2, Carried
  <1>3. UNCHANGED chain
    BY UnwindEnds
  <1>4. CASE PassBy(r) \/ Log(r) \/ EtagRelease(r) \/ Recover(r)
    <2>1. UNCHANGED raw /\ outcome'[r] = "ok"
      BY <1>4 DEF PassBy, Log, EtagRelease, Recover, outVars, Types
    <2>. QED  BY <1>2, <2>1
  <1>5. CASE CloseCompressor(r)
    <2>1. outcome'[r] = "ok" /\ level[r] > 0
      BY <1>5 DEF CloseCompressor, At
    <2>2. CASE UNCHANGED outVars
      BY <1>2, <2>1, <2>2 DEF outVars
    <2>3. CASE Write(r, level[r] - 1, 200, hdr[r], <<Packed(Trailer)>>)
      <3>1. level[r] - 1 \in 0..Len(chain[r]) /\ 200 \in Statuses /\ <<Packed(Trailer)>> \in Bodies
        BY <1>1, <2>1, PiecesAreTyped DEF Statuses
      <3>2. Made(<<Packed(Trailer)>>, {ErrorText, Trailer})
        BY DEF Made, Packed
      <3>3. Made(raw'[r].body, {ErrorText, Trailer})
        BY <1>1, <1>3, <2>3, <3>1, <3>2, WriteBody
      <3>. QED  BY <1>2, <2>1, <3>3
    <2>. QED  BY <1>5, <2>2, <2>3 DEF CloseCompressor
  <1>6. ~FlushStatic(r)
    <2>1. ASSUME level[r] > 0, chain[r][level[r]] = "static" PROVE FALSE
      <3>1. level[r] \in 1..Len(chain[r])
        BY <1>1, <2>1
      <3>. QED  BY <1>1, <2>1, <3>1, ChainKinds
    <2>. QED  BY <2>1 DEF FlushStatic, At
  <1>7. ~(\E inm, im \in Validators : CommitConditional(r, inm, im) \/ CommitBody(r, inm, im))
    <2>1. ASSUME pc[r] = "commit" PROVE FALSE
      <3>1. chain[r][level[r]] = "etag" /\ level[r] \in 1..level[r] /\ layer[r][level[r]].status = 200
        BY <1>1, <2>1 DEF PoolInv, Taken, Phase
      <3>. QED  BY <3>1 DEF Passed, Wraps
    <2>. QED  BY <2>1 DEF CommitConditional, CommitBody
  <1>8. CASE Adapt(r)
    <2>1. WriteHeader(r, 0, 200, hdr[r]) /\ UNCHANGED outcome
      BY <1>8 DEF Adapt
    <2>2. PICK m, code : m \in Nat /\ code \in Statuses /\ raw'[r] = HeaderRaw(r, m, code, hdr[r])
      BY <1>1, <2>1 DEF WriteHeader, Statuses
    <2>3. raw'[r].body = raw[r].body
      BY <1>1, <2>2, HeaderTypes
    <2>. QED  BY <1>2, <2>1, <2>3
  <1>. QED  BY <1>4, <1>5, <1>6, <1>7, <1>8 DEF Unwind

LEMMA UnwindReports ==
    ASSUME PoolInv, Types, NEW r \in Requests, Phase(r), Ordered(r), Reported(r), Unwind(r)
    PROVE  Reported(r)'
  <1>1. PICK n \in 0..level[r] : n = level'[r]
    BY UnwindMoves
  <1>2. pc[r] \in {"unwind", "commit"} /\ UNCHANGED <<chain, said, ended>> /\ (pc'[r] = "done" <=> Adapt(r))
    BY UnwindEnds
  <1>3. /\ Shape /\ level[r] \in Nat /\ level[r] <= Len(chain[r]) /\ DOMAIN chain[r] = 1..Len(chain[r])
        /\ Len(chain[r]) \in Nat /\ hdr[r] \in Maps /\ level \in [Requests -> Nat]
    BY ChainKinds DEF PoolInv, Shape, Types, OutTypes
  <1>4. PICK A \in 0..Len(chain[r]) :
          /\ A = Answerer(r) /\ A = Answerer(r)'
          /\ ended[r] # "panic" => A = 0
          /\ ended[r] = "panic" => \A i \in 1..Len(chain[r]) : chain[r][i] = "recovery" => i <= A
          /\ ended[r] = "panic" /\ Has(r, "recovery", 0) => A > 0
    <2>1. /\ Innermost(chain[r]) \in 0..Len(chain[r])
          /\ \A i \in 1..Len(chain[r]) : chain[r][i] = "recovery" => i <= Innermost(chain[r])
          /\ (\E i \in 1..Len(chain[r]) : chain[r][i] = "recovery") => Innermost(chain[r]) > 0
      BY <1>3, InnermostIs
    <2>2. Answerer(r) = (IF ended[r] = "panic" THEN Innermost(chain[r]) ELSE 0) /\ Answerer(r)' = Answerer(r)
      BY <1>2 DEF Answerer, Innermost
    <2>3. Has(r, "recovery", 0) => \E i \in 1..Len(chain[r]) : chain[r][i] = "recovery"
      BY DEF Has
    <2>4. CASE ended[r] = "panic"
      BY <2>1, <2>2, <2>3, <2>4
    <2>5. CASE ended[r] # "panic"
      BY <1>3, <2>2, <2>5
    <2>. QED  BY <2>4, <2>5
  <1>5. SUFFICES ASSUME Failed(r), Unanswered(r)
                 PROVE  /\ Waiting(r)' => n >= A /\ Untouched(r, A)'
                        /\ ~Waiting(r)' => /\ Passed(r, n)' /\ raw'[r].status = 500
                                           /\ Made(raw'[r].body, {ErrorText, Trailer})
    <2>1. (Failed(r)' <=> Failed(r)) /\ (Unanswered(r)' <=> Unanswered(r))
      BY <1>2, <1>4 DEF Failed, Unanswered, Has
    <2>. QED  BY <1>1, <1>4, <2>1 DEF Reported
  <1>6. chain[r] # <<"static">> /\ ended[r] \in {"err", "panic"}
    BY <1>2, <1>5 DEF Failed, Phase
  <1>7. CASE Waiting(r)
    <2>1. level[r] >= A /\ Untouched(r, A) /\ outcome[r] = ended[r]
      BY <1>2, <1>4, <1>5, <1>7 DEF Reported, Waiting
    <2>2. CASE Recover(r) /\ outcome[r] = "panic"
      <3>1. chain[r][level[r]] = "recovery" /\ level[r] > 0 /\ Leave(r)
        BY <2>2 DEF Recover, At
      <3>2. level[r] = A /\ n = A - 1 /\ n \in 0..Len(chain[r])
        <4>1. level[r] \in 1..Len(chain[r]) /\ level'[r] = level[r] - 1
          BY <1>3, <3>1 DEF Leave
        <4>. QED  BY <1>1, <1>3, <1>4, <2>1, <2>2, <3>1, <4>1
      <3>3. Untouched(r, n)
        <4>1. A \in Nat /\ n \in 0..A
          BY <1>3, <3>2
        <4>. QED  BY <2>1, <4>1, Narrow
      <3>4. Write(r, n, 500, hdr[r], <<Plain(ErrorText)>>) /\ outcome'[r] = "ok"
        BY <2>2, <3>2 DEF Recover, Types
      <3>5. ~Waiting(r)'
        BY <1>2, <2>1, <2>2, <3>4 DEF Waiting
      <3>7. PICK m \in 0..Len(chain[r]), map \in Maps : m = n /\ Write(r, m, 500, map, <<Plain(ErrorText)>>)
        BY <1>3, <3>2, <3>4
      <3>8. Untouched(r, m) /\ chain[r] # <<"static">> /\ Shape
        BY <1>3, <1>6, <3>3, <3>7
      <3>9. Answered(r, m)
        <4>1. Write(r, m, 500, map, <<Plain(ErrorText)>>) /\ UNCHANGED chain
          BY <1>2, <3>7
        <4>2. m \in 0..Len(chain[r]) /\ map \in Maps
          BY <3>7
        <4>. QED  BY <3>8, <4>1, <4>2, Answers
      <3>10. Answered(r, n)
        BY <3>7, <3>9
      <3>. QED  BY <3>5, <3>10 DEF Answered
    <2>3. CASE Adapt(r)
      <3>1. level[r] = 0 /\ n = 0 /\ pc'[r] = "done"
        BY <1>1, <1>2, <2>3, AdaptAtZero
      <3>2. A = 0 /\ ended[r] = "err"
        BY <1>4, <1>5, <1>6, <2>1, <3>1 DEF Failed
      <3>3. PICK map : map \in Maps /\ Write(r, 0, 500, map, <<Plain(ErrorText)>>)
        <4>1. [hdr[r] EXCEPT !.length = 0] \in Maps
          BY <1>3 DEF Maps
        <4>. QED  BY <2>1, <2>3, <3>2, <4>1 DEF Adapt
      <3>4. ~Waiting(r)'
        BY <3>1 DEF Waiting
      <3>5. Untouched(r, n) /\ Write(r, n, 500, map, <<Plain(ErrorText)>>) /\ n \in 0..Len(chain[r]) /\ map \in Maps
        BY <1>3, <2>1, <3>1, <3>2, <3>3
      <3>6. Answered(r, n)
        BY <1>2, <1>3, <1>6, <3>5, Answers
      <3>. QED  BY <3>4, <3>6 DEF Answered
    <2>4. CASE ~(Recover(r) /\ outcome[r] = "panic") /\ ~Adapt(r)
      <3>1. Quiet(r) /\ outcome'[r] = outcome[r] /\ pc'[r] # "done" /\ n >= A
        BY <1>1, <1>4, <1>5, <1>7, <2>4, StillWaits
      <3>2. Waiting(r)'
        BY <1>2, <2>1, <3>1 DEF Waiting
      <3>. QED  BY <2>1, <3>1, <3>2, QuietKeeps
    <2>. QED  BY <2>2, <2>3, <2>4
  <1>8. CASE ~Waiting(r)
    <2>1. outcome[r] = "ok"
      BY <1>2, <1>6, <1>8 DEF Waiting, Phase
    <2>2. Passed(r, level[r]) /\ raw[r].status = 500 /\ Made(raw[r].body, {ErrorText, Trailer})
      BY <1>2, <1>5, <1>8 DEF Reported
    <2>3. outcome'[r] = "ok" /\ Passed(r, n)' /\ raw'[r].status = 500 /\ Made(raw'[r].body, {ErrorText, Trailer})
      <3>1. chain[r] # <<"static">> /\ n = level'[r] /\ raw[r].status = 500
        BY <1>1, <1>6, <2>2
      <3>2. Passed(r, level[r])
        BY <2>2
      <3>3. Made(raw[r].body, {ErrorText, Trailer})
        BY <2>2
      <3>4. outcome'[r] = "ok" /\ raw'[r].status = 500 /\ Made(raw'[r].body, {ErrorText, Trailer})
        BY <2>1, <3>1, <3>2, <3>3, StillAnswered
      <3>5. Moved(r, n)
        <4>1. PICK m \in 0..level[r] : m = level'[r] /\ Moved(r, m)
          BY UnwindMoves
        <4>. QED  BY <1>1, <4>1
      <3>6. Passed(r, n)'
        BY <1>3, <3>2, <3>5, Carried
      <3>. QED  BY <3>4, <3>6
    <2>4. ~Waiting(r)'
      BY <1>2, <1>6, <2>3 DEF Waiting
    <2>. QED  BY <2>3, <2>4
  <1>. QED  BY <1>7, <1>8

-----------------------------------------------------------------------------
(***************************************************************************)
(* The buffer of the ETag writer                                           *)
(***************************************************************************)
\* A body is either sent, or appended to what the writer's buffer holds.
LEMMA WriteBuffer ==
    ASSUME Shape, Types, NEW r \in Requests, NEW n \in 0..Len(chain[r]), NEW code \in Statuses,
           NEW map \in Maps, NEW pieces \in Bodies, Write(r, n, code, map, pieces), UNCHANGED chain,
           Passed(r, n)' \/ \E e \in 1..n : KeptAt(r, n, e)'
    PROVE  \/ UNCHANGED <<array, used, own>>
           \/ /\ raw'[r].status = 0
              /\ \E e \in 1..n : chain[r][e] \in {"etag", "static"}
              /\ \E kept \in Bodies :
                    /\ array' = [array EXCEPT ![ew[r]] = Overwrite(array[ew[r]], used[ew[r]], kept)]
                    /\ used' = [used EXCEPT ![ew[r]] = used[ew[r]] + Len(kept)]
                    /\ own' = [own EXCEPT ![r] = own[r] \o kept]
  <1>1. n \in Nat
    BY ChainKinds
  <1>2. HeaderStep(r, n, code, map)
    BY <1>1, WriteStatus
  <1>3. CASE Passed(r, n)'
    BY <1>1, <1>3, WriteBody
  <1>4. CASE \E e \in 1..n : KeptAt(r, n, e)'
    <2>1. PICK e \in 1..n : KeptAt(r, n, e)'
      BY <1>4
    <2>2. Buffering(r, n, code) = e /\ e # 0
      BY <1>2, <2>1, BodyKeeper
    <2>3. raw'[r].status = 0 /\ chain[r][e] \in {"etag", "static"}
      BY <1>2, <2>1 DEF KeptAt, HeaderStep
    <2> DEFINE kept == Pass(r, n, Buffering(r, n, code), pieces)
    <2>4. kept \in Bodies
      BY PassTypes
    <2>5. /\ array' = [array EXCEPT ![ew[r]] = Overwrite(array[ew[r]], used[ew[r]], kept)]
          /\ used' = [used EXCEPT ![ew[r]] = used[ew[r]] + Len(kept)]
          /\ own' = [own EXCEPT ![r] = own[r] \o kept]
      BY <2>2 DEF Write
    <2> HIDE DEF kept
    <2>. QED  BY <2>3, <2>4, <2>5
  <1>. QED  BY <1>3, <1>4

\* Whoever writes into a buffer holds it.
LEMMA StepBuffer ==
    ASSUME PoolInv, Types, NEW r \in Requests, Phase(r), Flow(r), Handler(r) \/ Unwind(r), ~Arrive(r)
    PROVE  \/ UNCHANGED <<array, used, own>>
           \/ /\ raw'[r].status = 0 /\ Holds(r)
              /\ \E kept \in Bodies :
                    /\ array' = [array EXCEPT ![ew[r]] = Overwrite(array[ew[r]], used[ew[r]], kept)]
                    /\ used' = [used EXCEPT ![ew[r]] = used[ew[r]] + Len(kept)]
                    /\ own' = [own EXCEPT ![r] = own[r] \o kept]
  <1>1. PICK n \in 0..level[r] : n = level'[r] /\ Acts(r, n) /\ UNCHANGED chain
    BY HandlerActs, UnwindActs
  <1>2. /\ Shape /\ level[r] \in Nat /\ level[r] <= Len(chain[r]) /\ Len(chain[r]) \in Nat
        /\ n \in Nat /\ n \in 0..Len(chain[r])
    BY ChainKinds DEF PoolInv, Shape
  <1>3. CASE UNCHANGED <<layer, raw, own, array>> /\ (Arrive(r) \/ UNCHANGED used)
    BY <1>3
  <1>4. CASE \E code \in Statuses, map \in Maps : WriteHeader(r, n, code, map)
    BY <1>4 DEF WriteHeader
  <1>5. CASE \E code \in Statuses, map \in Maps, pieces \in Bodies : Write(r, n, code, map, pieces)
    <2>1. PICK code \in Statuses, map \in Maps, pieces \in Bodies : Write(r, n, code, map, pieces)
      BY <1>5
    <2>2. HeaderStep(r, n, code, map)
      BY <1>1, <1>2, <2>1, WriteStatus
    <2>3. Passed(r, n)' \/ \E e \in 1..n : KeptAt(r, n, e)'
      BY <1>2, <2>2, HeaderDecides DEF Flow
    <2>4. ASSUME NEW e \in 1..n, chain[r][e] \in {"etag", "static"} PROVE Holds(r)
      <3>1. e \in 1..level[r] /\ e \in 1..Len(chain[r])
        BY <1>2
      <3>2. pc[r] \in {"refuse", "handler", "unwind", "commit"}
        BY UnwindEnds DEF Handler, Arrive, Refuse, HandlerHeader, HandlerDeclares, HandlerWrite, HandlerEnds
      <3>3. pc[r] # "commit"
        <4>1. ASSUME pc[r] = "commit" PROVE FALSE
          <5>1. Unwind(r) /\ level[r] > 0 /\ chain[r][level[r]] = "etag"
            BY <4>1 DEF Handler, Arrive, Refuse, HandlerHeader, HandlerDeclares, HandlerWrite, HandlerEnds,
                        PoolInv, Taken
          <5>2. Leave(r)
            BY <4>1, <5>1 DEF Unwind, CloseCompressor, FlushStatic, PassBy, Log, EtagRelease, CommitConditional,
                              CommitBody, Recover, Adapt, At
          <5>3. n = level[r] - 1
            BY <1>1, <1>2, <5>2 DEF Leave, PoolInv, Shape
          <5>. QED  BY <1>2, <2>4, <5>1, <5>3, OnlyEtag
        <4>. QED  BY <4>1
      <3>4. CASE chain[r][e] = "etag"
        <4>1. Within(r)
          BY <3>1, <3>4 DEF Within
        <4>2. ew[r] # None
          BY <3>2, <4>1 DEF PoolInv, Taken
        <4>. QED  BY <3>2, <3>3, <4>1, <4>2 DEF Holds
      <3>5. CASE chain[r][e] = "static"
        <4>1. chain[r] = <<"static">> /\ Len(chain[r]) = 1
          BY <1>2, <3>1, <3>5, ChainKinds
        <4>2. ew[r] # None
          BY <3>2, <4>1 DEF Types, EtagTypes
        <4>3. pc[r] # "unwind"
          <5>1. ASSUME pc[r] = "unwind" PROVE FALSE
            <6>1. Unwind(r) /\ n = 1 /\ level[r] = 1
              BY <1>2, <3>1, <4>1, <5>1 DEF Handler, Arrive, Refuse, HandlerHeader, HandlerDeclares, HandlerWrite,
                                           HandlerEnds
            <6>2. chain[r][1] = "static"
              BY <4>1
            <6>3. ~Leave(r)
              <7>1. Leave(r) => level'[r] = level[r] - 1
                BY DEF Leave, PoolInv, Shape
              <7>. QED  BY <1>1, <6>1, <7>1
            <6>4. ~Adapt(r) /\ ~EtagRelease(r)
              BY <6>1, <6>2, AdaptAtZero DEF EtagRelease, At
            <6>. QED  BY <6>1, <6>3, <6>4 DEF Unwind, CloseCompressor, FlushStatic, PassBy, Log,
                       CommitConditional, CommitBody, Recover
          <5>. QED  BY <5>1
        <4>. QED  BY <3>2, <3>3, <4>2, <4>3 DEF Holds
      <3>. QED  BY <2>4, <3>4, <3>5
    <2>. QED  BY <1>1, <1>2, <2>1, <2>3, <2>4, WriteBuffer
  <1>. QED  BY <1>1, <1>3, <1>4, <1>5 DEF Acts

\* Only on arrival is a writer taken.
LEMMA HoldsStill ==
    ASSUME PoolInv, NEW r \in Requests, Handler(r) \/ Unwind(r), ~Arrive(r), Holds(r)'
    PROVE  Holds(r)
  <1>1. ew' = ew /\ pc'[r] \in {"refuse", "handler", "unwind"} /\ ew[r] # None /\ chain' = chain
    BY DEF Holds, Handler, Refuse, HandlerHeader, HandlerDeclares, HandlerWrite, HandlerEnds, poolVars,
           Unwind, CloseCompressor, FlushStatic, PassBy, Log, EtagRelease, CommitConditional, CommitBody, Recover, Adapt
  <1>2. level \in [Requests -> Nat] /\ level[r] <= Len(chain[r])
    BY DEF PoolInv, Shape
  <1>3. CASE Handler(r)
    <2>1. pc[r] \in {"refuse", "handler"}
      BY <1>3 DEF Handler, Refuse, HandlerHeader, HandlerDeclares, HandlerWrite, HandlerEnds
    <2>. QED  BY <1>1, <2>1 DEF Holds
  <1>4. CASE Unwind(r)
    <2>1. pc[r] \in {"unwind", "commit"} /\ pc'[r] = "unwind" /\ Within(r)'
      BY <1>1, <1>4, UnwindEnds DEF Holds
    <2>2. level'[r] = level[r] \/ (Leave(r) /\ level[r] > 0 /\ level'[r] = level[r] - 1)
      BY <1>4, OneLevel
    <2>3. Within(r)
      BY <1>1, <1>2, <2>1, <2>2 DEF Within
    <2>4. pc[r] # "commit"
      <3>1. ASSUME pc[r] = "commit" PROVE FALSE
        <4>1. level[r] > 0 /\ chain[r][level[r]] = "etag"
          BY <3>1 DEF PoolInv, Taken
        <4>2. Leave(r)
          BY <1>4, <3>1 DEF Unwind, CloseCompressor, FlushStatic, PassBy, Log, EtagRelease, CommitConditional,
                            CommitBody, Recover, Adapt, At
        <4>3. level'[r] = level[r] - 1
          BY <1>2, <4>2 DEF Leave
        <4>4. PICK e \in 1..(level[r] - 1) : chain[r][e] = "etag"
          BY <1>1, <2>1, <4>3 DEF Within
        <4>5. level[r] - 1 \in Nat
          BY <1>2, <4>1
        <4>. QED  BY <4>1, <4>4, <4>5, OnlyEtag DEF PoolInv
      <3>. QED  BY <3>1
    <2>. QED  BY <1>1, <2>1, <2>3, <2>4 DEF Holds
  <1>. QED  BY <1>3, <1>4

\* Nobody writes into a buffer that another request holds, or resets it.
LEMMA OthersBuffers ==
    ASSUME PoolInv, Types, NEW r \in Requests, Phase(r), Flow(r), Handler(r) \/ Unwind(r),
           NEW q \in Requests \ {r}, Holds(q)
    PROVE  array'[ew[q]] = array[ew[q]] /\ used'[ew[q]] = used[ew[q]]
  <1>1. ew[q] \in Writers /\ array \in [Writers -> Bodies] /\ used \in [Writers -> Nat]
    BY DEF Holds, Types, OutTypes, EtagTypes
  <1>2. CASE Arrive(r)
    <2>1. UNCHANGED array
      BY <1>2 DEF Arrive
    <2>2. PICK w \in Fresh \cup pool : used' = used \/ used' = [used EXCEPT ![w] = 0]
      BY <1>2 DEF Arrive
    <2>3. w # ew[q]
      BY DEF Fresh, PoolInv, Apart
    <2>. QED  BY <1>1, <2>1, <2>2, <2>3
  <1>3. CASE ~Arrive(r)
    <2>1. CASE UNCHANGED <<array, used, own>>
      BY <2>1
    <2>2. CASE Holds(r)
      <3>1. ew[r] # ew[q]
        BY <2>2 DEF PoolInv, Apart
      <3>2. \/ UNCHANGED <<array, used, own>>
            \/ \E kept \in Bodies :
                  /\ array' = [array EXCEPT ![ew[r]] = Overwrite(array[ew[r]], used[ew[r]], kept)]
                  /\ used' = [used EXCEPT ![ew[r]] = used[ew[r]] + Len(kept)]
        BY <1>3, StepBuffer
      <3>. QED  BY <1>1, <3>1, <3>2
    <2>. QED  BY <1>3, <2>1, <2>2, StepBuffer
  <1>. QED  BY <1>2, <1>3

LEMMA ArriveBuffer ==
    ASSUME PoolInv, Types, NEW r \in Requests, Current(r), Arrive(r)
    PROVE  /\ pc'[r] \notin {"new", "commit"} /\ own'[r] = <<>>
           /\ Holds(r)' /\ Has(r, "etag", 0)' => SubSeq(array'[ew'[r]], 1, used'[ew'[r]]) = own'[r]
  <1>1. /\ own'[r] = <<>> /\ UNCHANGED <<array, chain>> /\ pc'[r] \notin {"new", "commit"}
    BY DEF Arrive, Current, PoolInv, Shape
  <1>2. PICK n \in Stops(r), w \in Fresh \cup pool :
          \/ /\ ew' = [ew EXCEPT ![r] = w]
             /\ used' = [used EXCEPT ![w] = 0]
          \/ ew' = [ew EXCEPT ![r] = IF chain[r] = <<"static">> THEN w ELSE None]
             /\ (chain[r] = <<"static">> \/ ew'[r] = None)
    BY DEF Arrive, PoolInv, Shape
  <1>3. w \in Writers
    BY DEF Fresh, Types, EtagTypes
  <1>4. ASSUME Holds(r)', Has(r, "etag", 0)' PROVE SubSeq(array'[ew'[r]], 1, used'[ew'[r]]) = <<>>
    <2>1. chain[r] # <<"static">> /\ ew'[r] # None
      <3>1. PICK i \in 1..Len(chain[r]) : chain[r][i] = "etag"
        BY <1>1, <1>4 DEF Has
      <3>2. chain[r] = <<"static">> => Len(chain[r]) = 1 /\ chain[r][1] = "static"
        OBVIOUS
      <3>. QED  BY <1>4, <3>1, <3>2 DEF Holds
    <2>2. ew'[r] = w /\ used'[w] = 0
      BY <1>2, <1>3, <2>1 DEF PoolInv, Shape, Types, OutTypes
    <2>3. array[w] \in Bodies /\ 0 \in 0..Len(array[w])
      <3>1. array[w] \in Bodies
        BY <1>3 DEF Types, OutTypes
      <3>. QED  BY <3>1 DEF Bodies
    <2>4. PICK zero : zero = 0 /\ zero \in 0..Len(array[w])
      BY <2>3
    <2>5. SubSeq(array[w], 1, zero) \in Bodies /\ Len(SubSeq(array[w], 1, zero)) = 0
      BY <2>3, <2>4, Prefix
    <2>6. SubSeq(array[w], 1, zero) = <<>>
      <3> DEFINE s == SubSeq(array[w], 1, zero)
      <3>1. s \in Seq(Piece) /\ Len(s) = 0
        BY <2>5 DEF Bodies
      <3> HIDE DEF s
      <3>2. s = <<>>
        BY <3>1
      <3>. QED  BY <3>2 DEF s
    <2>. QED  BY <1>1, <2>2, <2>4, <2>6
  <1>. QED  BY <1>1, <1>4

LEMMA BufferStep ==
    ASSUME PoolInv, Types, NEW r \in Requests, Phase(r), Flow(r), Current(r), Handler(r) \/ Unwind(r)
    PROVE  /\ pc'[r] = "new" => own'[r] = <<>>
           /\ Holds(r)' /\ Has(r, "etag", 0)' => SubSeq(array'[ew'[r]], 1, used'[ew'[r]]) = own'[r]
           /\ pc'[r] = "commit" => tag'[r] = own'[r]
  <1>1. CASE Arrive(r)
    BY <1>1, ArriveBuffer
  <1>2. CASE ~Arrive(r)
    <2>1. UNCHANGED <<chain, ew>> /\ own \in [Requests -> Bodies]
      BY <1>2 DEF Handler, Refuse, HandlerHeader, HandlerDeclares, HandlerWrite, HandlerEnds, poolVars,
           Unwind, CloseCompressor, FlushStatic, PassBy, Log, EtagRelease, CommitConditional, CommitBody, Recover,
           Adapt, Types, OutTypes
    <2>2. pc'[r] # "new"
      <3>1. ~Handler(r) => pc'[r] # "new"
        BY UnwindEnds
      <3>2. Handler(r) => pc'[r] # "new"
        BY <1>2 DEF Handler, Refuse, HandlerHeader, HandlerDeclares, HandlerWrite, HandlerEnds, PoolInv, Shape
      <3>. QED  BY <3>1, <3>2
    <2>3. ASSUME Holds(r)', Has(r, "etag", 0)' PROVE SubSeq(array'[ew'[r]], 1, used'[ew'[r]]) = own'[r]
      <3>1. Holds(r) /\ Has(r, "etag", 0)
        BY <1>2, <2>1, <2>3, HoldsStill DEF Has
      <3>2. SubSeq(array[ew[r]], 1, used[ew[r]]) = own[r]
        BY <3>1 DEF Current
      <3>3. /\ ew[r] \in Writers /\ array[ew[r]] \in Bodies /\ used[ew[r]] \in 0..Len(array[ew[r]])
            /\ array \in [Writers -> Bodies] /\ used \in [Writers -> Nat]
        <4>1. ew[r] \in Writers /\ ew[r] # None
          BY <3>1 DEF Holds, Types, EtagTypes
        <4>2. array[ew[r]] \in Bodies /\ used[ew[r]] \in Nat /\ used[ew[r]] <= Len(array[ew[r]])
          BY <4>1 DEF Types, OutTypes
        <4>3. Len(array[ew[r]]) \in Nat
          BY <4>2 DEF Bodies
        <4>. QED  BY <4>1, <4>2, <4>3 DEF Types, OutTypes
      <3>4. CASE UNCHANGED <<array, used, own>>
        BY <2>1, <3>2, <3>4
      <3>5. CASE \E kept \in Bodies :
                    /\ array' = [array EXCEPT ![ew[r]] = Overwrite(array[ew[r]], used[ew[r]], kept)]
                    /\ used' = [used EXCEPT ![ew[r]] = used[ew[r]] + Len(kept)]
                    /\ own' = [own EXCEPT ![r] = own[r] \o kept]
        <4>1. PICK kept \in Bodies :
                    /\ array' = [array EXCEPT ![ew[r]] = Overwrite(array[ew[r]], used[ew[r]], kept)]
                    /\ used' = [used EXCEPT ![ew[r]] = used[ew[r]] + Len(kept)]
                    /\ own' = [own EXCEPT ![r] = own[r] \o kept]
          BY <3>5
        <4>2. array'[ew[r]] = Overwrite(array[ew[r]], used[ew[r]], kept) /\ used'[ew[r]] = used[ew[r]] + Len(kept)
              /\ own'[r] = own[r] \o kept
          BY <2>1, <3>3, <4>1
        <4>3. SubSeq(Overwrite(array[ew[r]], used[ew[r]], kept), 1, used[ew[r]] + Len(kept))
                = SubSeq(array[ew[r]], 1, used[ew[r]]) \o kept
          BY <3>3, OverwriteKeeps
        <4>. QED  BY <2>1, <3>2, <4>2, <4>3
      <3>. QED  BY <1>2, <3>4, <3>5, StepBuffer
    <2>4. ASSUME pc'[r] = "commit" PROVE tag'[r] = own'[r]
      <3>1. EtagRelease(r)
        <4>1. ~Handler(r)
          BY <1>2, <2>4 DEF Handler, Refuse, HandlerHeader, HandlerDeclares, HandlerWrite, HandlerEnds, PoolInv, Shape
        <4>2. ~Leave(r) /\ ~Adapt(r)
          BY <2>4, AdaptAtZero DEF Leave, PoolInv, Shape
        <4>. QED  BY <4>1, <4>2 DEF Unwind, CloseCompressor, FlushStatic, PassBy, Log, CommitConditional,
                                    CommitBody, Recover
      <3>2. pc[r] = "unwind" /\ level[r] > 0 /\ chain[r][level[r]] = "etag" /\ UNCHANGED own
            /\ tag'[r] = SubSeq(array[ew[r]], 1, used[ew[r]])
        BY <3>1 DEF EtagRelease, At, Types, EtagTypes
      <3>3. level[r] \in 1..level[r] /\ level[r] \in 1..Len(chain[r])
        BY <3>2, ChainKinds DEF PoolInv, Shape
      <3>4. Has(r, "etag", 0) /\ Within(r)
        BY <3>2, <3>3 DEF Has, Within
      <3>5. Holds(r)
        BY <3>2, <3>4 DEF Holds, PoolInv, Taken
      <3>. QED  BY <3>2, <3>4, <3>5 DEF Current
    <2>. QED  BY <2>2, <2>3, <2>4
  <1>. QED  BY <1>1, <1>2

\* A 304 that nobody but the ETag writer can have said: it is for the client
\* whose validator is the tag.
LEMMA NewMatch ==
    ASSUME PoolInv, Types, NEW r \in Requests, Phase(r), Flow(r), Stands(r), Current(r), Handler(r) \/ Unwind(r),
           raw[r].status = 0, raw'[r].status = 304, said'[r] # 304
    PROVE  matched'[r] = own'[r]
  <1>1. /\ Shape /\ level[r] \in Nat /\ level[r] <= Len(chain[r]) /\ Len(chain[r]) \in Nat
        /\ raw[r] \in RawType /\ said \in [Requests -> Nat]
    BY ChainKinds DEF PoolInv, Shape, Types, OutTypes, RawType
  <1>2. ASSUME NEW n, NEW code, NEW map, HeaderStep(r, n, code, map) PROVE code = 304
    BY <1>1, <1>2 DEF HeaderStep, HeaderRaw, RawType
  <1>3. ~Handler(r)
    <2>1. ~(\E code \in BasicAuth \cup JWT \cup CORS : Refuse(r, code))
      <3>1. ASSUME NEW code \in BasicAuth \cup JWT \cup CORS, Refuse(r, code) PROVE FALSE
        <4>1. code = 304
          BY <1>2, <3>1, Decides
        <4>. QED  BY <4>1 DEF BasicAuth, JWT, CORS
      <3>. QED  BY <3>1
    <2>2. ~(\E code \in Codes : HandlerHeader(r, code))
      <3>1. ASSUME NEW code \in Codes, HandlerHeader(r, code) PROVE FALSE
        <4>1. code = 304
          BY <1>2, <3>1, Decides
        <4>2. said'[r] = code
          BY <1>1, <3>1 DEF HandlerHeader
        <4>. QED  BY <4>1, <4>2
      <3>. QED  BY <3>1
    <2>3. ~(\E page \in Pages : HandlerWrite(r, page))
      <3>1. ASSUME \E page \in Pages : HandlerWrite(r, page) PROVE FALSE
        <4>1. PICK code : code = 200 /\ \E page \in Pages : HandlerWrite(r, page)
          BY <3>1
        <4>2. code = 304
          BY <1>2, <4>1, Decides
        <4>. QED  BY <4>1, <4>2
      <3>. QED  BY <3>1
    <2>4. ~Arrive(r) /\ ~HandlerDeclares(r) /\ ~(\E how \in {"ok", "err", "panic"} : HandlerEnds(r, how))
      BY DEF Arrive, HandlerDeclares, HandlerEnds, outVars
    <2>. QED  BY <2>1, <2>2, <2>3, <2>4 DEF Handler
  <1>4. PICK n \in 0..level[r] :
          \/ Quiet(r)
          \/ Sends(r, n, 200) \/ Sends(r, n, 500)
          \/ FlushStatic(r) /\ Sends(r, n, layer[r][1].status)
          \/ \E inm, im \in Validators : CommitConditional(r, inm, im)
                                         /\ \E code \in {304, 412} : Sends(r, n, code) /\ (code = 304 <=> NotModified(r, inm))
    BY <1>3, UnwindPath
  <1>5. \A code : Sends(r, n, code) => code = 304
    BY <1>2 DEF Sends
  <1>6. ~FlushStatic(r)
    <2>1. SUFFICES ASSUME FlushStatic(r) PROVE FALSE
      OBVIOUS
    <2>2. pc[r] = "unwind" /\ level[r] > 0 /\ chain[r][level[r]] = "static" /\ said' = said
      BY <2>1 DEF FlushStatic, At
    <2>3. level[r] \in 1..Len(chain[r])
      BY <1>1, <2>2
    <2>4. chain[r] = <<"static">> /\ Len(chain[r]) = 1 /\ level[r] = 1
      BY <1>1, <2>2, <2>3, ChainKinds
    <2>5. ended[r] = "ok" /\ Inside(r) /\ ~Passed(r, level[r])
      BY <2>2, <2>4 DEF Phase, Inside, Passed
    <2>6. CASE said[r] = 0
      <3>1. Untouched(r, level[r])
        BY <2>5, <2>6 DEF Flow
      <3>2. layer[r][1].status = 200
        BY <2>4, <3>1 DEF Untouched
      <3>3. ~Quiet(r) /\ ~(\E inm, im \in Validators : CommitConditional(r, inm, im))
        BY <2>2 DEF Quiet, CommitConditional
      <3>. QED  BY <1>4, <1>5, <3>2, <3>3
    <2>7. CASE said[r] # 0
      <3>1. PICK e \in 1..level[r] : chain[r][e] = "static" => layer[r][e].status = said[r]
        BY <2>5, <2>7 DEF Stands
      <3>2. layer[r][1].status = said[r]
        <4>1. e = 1
          BY <2>4
        <4>. QED  BY <2>2, <2>4, <3>1, <4>1
      <3>3. ~Quiet(r) /\ ~(\E inm, im \in Validators : CommitConditional(r, inm, im))
        BY <2>2 DEF Quiet, CommitConditional
      <3>4. layer[r][1].status = 304
        BY <1>4, <1>5, <3>3
      <3>. QED  BY <2>2, <3>2, <3>4
    <2>. QED  BY <2>6, <2>7
  <1>7. ~Quiet(r) /\ ~Sends(r, n, 200) /\ ~Sends(r, n, 500)
    BY <1>5 DEF Quiet
  <1>8. PICK inm \in Validators, im \in Validators :
          CommitConditional(r, inm, im) /\ \E code \in {304, 412} : Sends(r, n, code) /\ (code = 304 <=> NotModified(r, inm))
    BY <1>4, <1>6, <1>7
  <1>9. NotModified(r, inm) /\ inm = tag[r]
    BY <1>5, <1>8 DEF NotModified
  <1>10. pc[r] = "commit" /\ matched'[r] = inm /\ UNCHANGED own
    BY <1>8, <1>9 DEF CommitConditional, WriteHeader, Types, EtagTypes
  <1>. QED  BY <1>9, <1>10 DEF Current

LEMMA MatchStep ==
    ASSUME PoolInv, Types, NEW r \in Requests, Phase(r), Flow(r), Stands(r), Current(r), Handler(r) \/ Unwind(r),
           raw'[r].status = 304, said'[r] # 304
    PROVE  matched'[r] = own'[r]
  <1>1. /\ Shape /\ level[r] \in Nat /\ level[r] <= Len(chain[r]) /\ Len(chain[r]) \in Nat
        /\ said \in [Requests -> Nat]
    BY ChainKinds DEF PoolInv, Shape, Types
  <1>2. CASE raw[r].status = 0
    BY <1>2, NewMatch
  <1>3. CASE raw[r].status # 0
    <2>1. Passed(r, level[r])
      BY <1>3 DEF Flow, Untouched, Kept, KeptAt
    <2>2. raw[r].status = 304
      <3>1. PICK n \in 0..level[r] : Moved(r, n)
        BY HandlerPath, UnwindMoves
      <3>. QED  BY <1>1, <2>1, <3>1, Carried
    <2>3. said'[r] = said[r]
      <3>1. CASE Unwind(r)
        BY <3>1, UnwindEnds
      <3>2. CASE Handler(r)
        <4>1. pc[r] \in {"new", "refuse", "handler"}
          BY <3>2 DEF Handler, Arrive, Refuse, HandlerHeader, HandlerDeclares, HandlerWrite, HandlerEnds
        <4>2. said[r] # 0
          BY <1>3, <4>1 DEF Flow, Inside, Untouched
        <4>3. ASSUME \E page \in Pages : HandlerWrite(r, page) PROVE said'[r] = said[r]
          <5>1. said' = [said EXCEPT ![r] = IF @ = 0 THEN 200 ELSE @]
            BY <4>3 DEF HandlerWrite
          <5>. QED  BY <1>1, <4>2, <5>1
        <4>. QED  BY <3>2, <4>2, <4>3 DEF Handler, Arrive, Refuse, HandlerHeader, HandlerDeclares, HandlerEnds, Phase
      <3>. QED  BY <3>1, <3>2
    <2>4. matched[r] = own[r]
      BY <2>2, <2>3 DEF Current
    <2>5. own'[r] = own[r]
      <3>1. CASE Arrive(r)
        BY <3>1 DEF Arrive
      <3>2. CASE ~Arrive(r)
        <4>1. UNCHANGED <<array, used, own>> \/ raw'[r].status = 0
          BY <3>2, StepBuffer
        <4>. QED  BY <4>1
      <3>. QED  BY <3>1, <3>2
    <2>6. matched'[r] = matched[r]
      <3>1. pc[r] # "commit"
        <4>1. ASSUME pc[r] = "commit" PROVE FALSE
          <5>1. chain[r][level[r]] = "etag" /\ level[r] \in 1..level[r] /\ layer[r][level[r]].status = 200
            BY <1>1, <4>1 DEF PoolInv, Taken, Phase
          <5>. QED  BY <2>1, <2>2, <5>1 DEF Passed, Wraps
        <4>. QED  BY <4>1
      <3>. QED  BY <3>1 DEF Handler, Arrive, Refuse, HandlerHeader, HandlerDeclares, HandlerWrite, HandlerEnds,
                  Unwind, CloseCompressor, FlushStatic, PassBy, Log, EtagRelease, CommitConditional, CommitBody,
                  Recover, Adapt
    <2>. QED  BY <2>4, <2>5, <2>6
  <1>. QED  BY <1>2, <1>3

LEMMA CurrentStep ==
    ASSUME PoolInv, Types, NEW r \in Requests, Phase(r), Flow(r), Stands(r), Current(r), Handler(r) \/ Unwind(r)
    PROVE  Current(r)'
  <1>1. (raw[r].status = 304 => Passed(r, level[r]))'
    <2>1. Flow(r)'
      BY FlowStep
    <2>. QED  BY <2>1 DEF Flow, Untouched, Kept, KeptAt
  <1>2. raw'[r].status = 304 /\ said'[r] # 304 => matched'[r] = own'[r]
    BY MatchStep
  <1>3. /\ pc'[r] = "new" => own'[r] = <<>>
        /\ Holds(r)' /\ Has(r, "etag", 0)' => SubSeq(array'[ew'[r]], 1, used'[ew'[r]]) = own'[r]
        /\ pc'[r] = "commit" => tag'[r] = own'[r]
    BY BufferStep
  <1>. QED  BY <1>1, <1>2, <1>3 DEF Current

LEMMA CurrentStays ==
    ASSUME PoolInv, Types, NEW r \in Requests, Phase(r), Flow(r), Handler(r) \/ Unwind(r),
           NEW q \in Requests \ {r}, Current(q)
    PROVE  Current(q)'
  <1>1. SameFor(q)
    BY Others
  <1>2. (Holds(q)' <=> Holds(q)) /\ (Has(q, "etag", 0)' <=> Has(q, "etag", 0))
    BY <1>1 DEF SameFor, Holds, Within, Has
  <1>3. Passed(q, level[q]) => Passed(q, level[q])'
    <2>1. PICK n : n = level[q] /\ n = level'[q]
      BY <1>1 DEF SameFor
    <2>2. Quiet(q)
      BY <1>1 DEF SameFor, Quiet
    <2>3. Passed(q, n) => Passed(q, n)'
      BY <2>2, QuietKeeps
    <2>. QED  BY <2>1, <2>3
  <1>4. Holds(q) => array'[ew'[q]] = array[ew[q]] /\ used'[ew'[q]] = used[ew[q]]
    BY <1>1, OthersBuffers DEF SameFor
  <1>. QED  BY <1>1, <1>2, <1>3, <1>4 DEF Current, SameFor

-----------------------------------------------------------------------------
(***************************************************************************)
(* The whole invariant                                                     *)
(***************************************************************************)
Served(r) ==
    Phase(r) /\ Flow(r) /\ Stands(r) /\ Shown(r) /\ Ordered(r) /\ Reported(r) /\ Current(r)

RespInv == PoolInv /\ Types /\ \A r \in Requests : Served(r)

\* Nothing here depends on what the others do.
LEMMA Stays ==
    ASSUME Shape, NEW q \in Requests, SameFor(q), Served(q), Current(q)'
    PROVE  Served(q)'
  <1>1. PICK n : n = level[q] /\ n = level'[q] /\ n \in Nat
    BY DEF SameFor, Shape
  <1>2. Quiet(q)
    BY DEF SameFor, Quiet
  <1>3. /\ Untouched(q, n) => Untouched(q, n)'
        /\ Passed(q, n) => Passed(q, n)'
        /\ \A e : KeptAt(q, n, e) => KeptAt(q, n, e)'
    BY <1>2, QuietKeeps
  <1>4. Phase(q)'
    BY DEF Served, Phase, SameFor
  <1>5. Flow(q)'
    <2>1. (Untouched(q, n) \/ Passed(q, n) \/ Kept(q, n))'
      BY <1>1, <1>3 DEF Served, Flow, Kept
    <2>2. Inside(q)' /\ said'[q] = 0 => Untouched(q, n)'
      BY <1>1, <1>3 DEF Served, Flow, Inside, SameFor
    <2>. QED  BY <1>1, <2>1, <2>2 DEF Flow
  <1>6. Stands(q)'
    <2>1. SUFFICES ASSUME ended[q] \in {"running", "copying", "wrote", "ok"}, said[q] # 0
                   PROVE  \/ /\ Passed(q, n)'
                             /\ \/ raw[q].status = said[q]
                                \/ pc[q] # "handler" /\ said[q] = 200 /\ Has(q, "etag", 0) /\ raw[q].status \in {304, 412}
                          \/ \E e \in 1..n :
                                /\ KeptAt(q, n, e)'
                                /\ chain[q][e] = "etag" => said[q] = 200
                                /\ chain[q][e] = "static" => layer[q][e].status = said[q]
      BY <1>1 DEF Stands, SameFor, Has
    <2>2. CASE /\ Passed(q, n)
               /\ \/ raw[q].status = said[q]
                  \/ pc[q] # "handler" /\ said[q] = 200 /\ Has(q, "etag", 0) /\ raw[q].status \in {304, 412}
      BY <1>3, <2>2
    <2>3. CASE \E e \in 1..n :
                  /\ KeptAt(q, n, e)
                  /\ chain[q][e] = "etag" => said[q] = 200
                  /\ chain[q][e] = "static" => layer[q][e].status = said[q]
      BY <1>3, <2>3
    <2>. QED  BY <1>1, <2>1, <2>2, <2>3 DEF Served, Stands
  <1>7. Passed(q, n)' => Passed(q, n)
    BY <1>2 DEF Passed, Quiet
  <1>8. Shown(q)'
    <2>1. SUFFICES ASSUME logged[q] # 0, ended[q] \notin {"err", "callback"}
                   PROVE  /\ outcome[q] = "ok"
                          /\ Has(q, "logger", n)
                          /\ \/ Passed(q, n)' /\ logged[q] = raw[q].status
                             \/ logged[q] = 200 /\ pc[q] # "done" /\ ~Passed(q, n)'
                             \/ /\ logged[q] = 200 /\ Passed(q, n)' /\ raw[q].status \in {304, 412}
                                /\ \E e \in (n + 1)..Len(chain[q]) :
                                      chain[q][e] = "etag" /\ \A i \in (n + 1)..e : chain[q][i] # "logger"
      BY <1>1 DEF Shown, SameFor, Has
    <2>. QED  BY <1>1, <1>3, <1>7, <2>1 DEF Served, Shown
  <1>9. Ordered(q)'
    BY DEF Served, Ordered, SameFor
  <1>10. Reported(q)'
    <2>1. PICK A : A = Answerer(q) /\ A = Answerer(q)'
      BY DEF Answerer, SameFor
    <2>2. Failed(q)' = Failed(q) /\ Waiting(q)' = Waiting(q) /\ Unanswered(q)' = Unanswered(q)
      BY <2>1 DEF Failed, Waiting, Unanswered, Has, SameFor
    <2>3. Untouched(q, A) => Untouched(q, A)'
      BY <1>2, QuietKeeps
    <2>4. raw'[q] = raw[q] /\ level'[q] = level[q] /\ pc'[q] = pc[q]
      BY DEF SameFor
    <2>5. SUFFICES ASSUME pc[q] \in {"unwind", "commit", "done"}, Failed(q), Unanswered(q)
                   PROVE  /\ Waiting(q) => n >= A /\ Untouched(q, A)'
                          /\ ~Waiting(q) => /\ Passed(q, n)' /\ raw[q].status = 500
                                            /\ Made(raw[q].body, {ErrorText, Trailer})
      BY <1>1, <2>1, <2>2, <2>4 DEF Reported
    <2>. QED  BY <1>1, <1>3, <2>1, <2>3, <2>5 DEF Served, Reported
  <1>. QED  BY <1>4, <1>5, <1>6, <1>8, <1>9, <1>10 DEF Served

LEMMA ServedStep ==
    ASSUME PoolInv, Types, NEW r \in Requests, Served(r), Handler(r) \/ Unwind(r)
    PROVE  Served(r)'
  <1>1. Phase(r) /\ Flow(r) /\ Stands(r) /\ Shown(r) /\ Ordered(r) /\ Reported(r) /\ Current(r)
    BY DEF Served
  <1>2. Phase(r)'
    BY <1>1, PhaseStep
  <1>3. Flow(r)'
    BY <1>1, FlowStep
  <1>4. Stands(r)'
    BY <1>1, HandlerStands, UnwindStands
  <1>5. Shown(r)'
    BY <1>1, ShownStep
  <1>6. Ordered(r)'
    BY <1>1, OrderedStep
  <1>7. Reported(r)'
    BY <1>1, HandlerReports, UnwindReports
  <1>8. Current(r)'
    BY <1>1, CurrentStep
  <1>. QED  BY <1>2, <1>3, <1>4, <1>5, <1>6, <1>7, <1>8 DEF Served

\* A log whose callback fails says nothing and sends nothing.
LEMMA FailedLog ==
    ASSUME PoolInv, Types, NEW r \in Requests, LogFails(r)
    PROVE  /\ \A q \in Requests \ {r} : SameFor(q)
           /\ UNCHANGED <<chain, outVars, pool, ew, tag, size, logged, matched, said>>
           /\ pc[r] = "unwind" /\ pc'[r] = "unwind" /\ outcome'[r] = "err" /\ ended'[r] = "callback"
           /\ level[r] \in 1..Len(chain[r]) /\ level'[r] = level[r] - 1 /\ chain[r][level[r]] = "logger"
  <1> USE DEF PoolInv, Shape, Types
  <1>1. /\ pc' = [pc EXCEPT ![r] = "unwind"] /\ level' = [level EXCEPT ![r] = @ - 1]
        /\ outcome' = [outcome EXCEPT ![r] = "err"] /\ ended' = [ended EXCEPT ![r] = "callback"]
        /\ UNCHANGED <<chain, outVars, pool, ew, tag, size, logged, matched, said>>
        /\ pc[r] = "unwind" /\ level[r] > 0 /\ chain[r][level[r]] = "logger"
    BY DEF LogFails, Leave, At
  <1>2. level[r] \in 1..Len(chain[r])
    BY <1>1, ChainKinds
  <1>. QED  BY <1>1, <1>2 DEF SameFor, outVars

LEMMA FailedLogServes ==
    ASSUME PoolInv, Types, NEW r \in Requests, LogFails(r), Served(r)
    PROVE  Served(r)'
  <1>1. Phase(r) /\ Flow(r) /\ Ordered(r) /\ Current(r)
    BY DEF Served
  <1>2. /\ UNCHANGED <<chain, outVars, pool, ew, tag, size, logged, matched, said>>
        /\ pc[r] = "unwind" /\ pc'[r] = "unwind" /\ outcome'[r] = "err" /\ ended'[r] = "callback"
        /\ level[r] \in 1..Len(chain[r]) /\ level'[r] = level[r] - 1 /\ chain[r][level[r]] = "logger"
    BY FailedLog
  <1>3. PICK n \in Nat : n = level'[r] /\ n \in 0..level[r] /\ level[r] \in Nat /\ n < level[r]
    BY <1>2, ChainKinds DEF PoolInv, Shape
  <1>4. Quiet(r) /\ UNCHANGED <<array, used, own, raw, layer>>
    BY <1>2 DEF outVars, Quiet
  <1>5. chain[r] # <<"static">>
    BY <1>2
  <1>6. Phase(r)'
    BY <1>1, <1>2, <1>5 DEF Phase
  <1>7. (Untouched(r, n) \/ Passed(r, n) \/ Kept(r, n))
    <2>1. CASE Untouched(r, level[r]) \/ Passed(r, level[r])
      BY <1>3, <2>1, Narrow
    <2>2. CASE Kept(r, level[r])
      <3>1. PICK e \in 1..level[r] : KeptAt(r, level[r], e)
        BY <2>2 DEF Kept
      <3>2. e <= n => e \in 1..n
        BY <1>3
      <3>. QED  BY <1>3, <3>1, <3>2, Narrow DEF Kept
    <2>. QED  BY <1>1, <2>1, <2>2 DEF Flow
  <1>8. /\ Untouched(r, n) => Untouched(r, n)'
        /\ Passed(r, n) => Passed(r, n)'
        /\ \A e : KeptAt(r, n, e) => KeptAt(r, n, e)'
    BY <1>4, QuietKeeps
  <1>9. ~Inside(r)'
    <2>1. level[r] <= Len(chain[r]) /\ Len(chain[r]) \in Nat
      BY ChainKinds DEF PoolInv, Shape
    <2>. QED  BY <1>2, <1>3, <2>1 DEF Inside
  <1>10. Flow(r)'
    BY <1>3, <1>7, <1>8, <1>9 DEF Flow, Kept
  <1>11. Stands(r)' /\ Shown(r)' /\ Reported(r)'
    BY <1>2 DEF Stands, Shown, Reported, Failed
  <1>12. Ordered(r)'
    BY <1>1, <1>4 DEF Ordered
  <1>13. Holds(r)' => Holds(r)
    BY <1>2, <1>3 DEF Holds, Within
  <1>14. (raw[r].status = 304 => Passed(r, level[r]))'
    BY <1>10 DEF Flow, Untouched, Kept, KeptAt
  <1>15. Current(r)'
    BY <1>1, <1>2, <1>4, <1>13, <1>14 DEF Current, Has
  <1>. QED  BY <1>6, <1>10, <1>11, <1>12, <1>15 DEF Served

\* Who stays as it is keeps what it has, if the buffers are left alone.
LEMMA CurrentRests ==
    ASSUME NEW q \in Requests, SameFor(q), UNCHANGED <<array, used>>, Current(q)
    PROVE  Current(q)'
  <1>1. (Holds(q)' <=> Holds(q)) /\ (Has(q, "etag", 0)' <=> Has(q, "etag", 0))
    BY DEF SameFor, Holds, Within, Has
  <1>2. Passed(q, level[q]) => Passed(q, level[q])'
    <2>1. PICK n : n = level[q] /\ n = level'[q]
      BY DEF SameFor
    <2>2. Passed(q, n) => Passed(q, n)'
      BY QuietKeeps DEF SameFor, Quiet
    <2>. QED  BY <2>1, <2>2
  <1>. QED  BY <1>1, <1>2 DEF Current, SameFor

LEMMA RespStep == RespInv /\ [Next]_vars => RespInv'
  <1> SUFFICES ASSUME RespInv, [Next]_vars PROVE RespInv'
    OBVIOUS
  <1>1. PoolInv' /\ Types'
    BY PoolStep, TypesStep DEF RespInv
  <1>2. ASSUME NEW r \in Requests, Handler(r) \/ Unwind(r), NEW q \in Requests PROVE Served(q)'
    <2>1. CASE q = r
      BY <1>2, <2>1, ServedStep DEF RespInv
    <2>2. CASE q # r
      <3>1. SameFor(q)
        BY <1>2, <2>2, Others DEF RespInv
      <3>2. Current(q)'
        BY <1>2, <2>2, CurrentStays DEF RespInv, Served
      <3>. QED  BY <3>1, <3>2, Stays DEF RespInv, PoolInv
    <2>. QED  BY <2>1, <2>2
  <1>3. ASSUME NEW r \in Requests, LogFails(r), NEW q \in Requests PROVE Served(q)'
    <2>1. CASE q = r
      BY <1>3, <2>1, FailedLogServes DEF RespInv
    <2>2. CASE q # r
      <3>1. SameFor(q) /\ UNCHANGED <<array, used>>
        BY <1>3, <2>2, FailedLog DEF RespInv, outVars
      <3>2. Current(q)'
        BY <3>1, CurrentRests DEF RespInv, Served
      <3>. QED  BY <3>1, <3>2, Stays DEF RespInv, PoolInv
    <2>. QED  BY <2>1, <2>2
  <1>4. ASSUME UNCHANGED vars, NEW q \in Requests PROVE Served(q)'
    <2>1. SameFor(q) /\ UNCHANGED <<array, used>>
      BY <1>4 DEF vars, outVars, SameFor
    <2>2. Current(q)'
      BY <2>1, CurrentRests DEF RespInv, Served
    <2>. QED  BY <2>1, <2>2, Stays DEF RespInv, PoolInv
  <1>. QED  BY <1>1, <1>2, <1>3, <1>4 DEF Next, RespInv

LEMMA RespInit == Init => RespInv
  <1> SUFFICES ASSUME Init, NEW r \in Requests PROVE PoolInv /\ Types /\ Served(r)
    BY ResponsesAssumption DEF RespInv
  <1>1. PoolInv /\ Types
    BY PoolInit, TypesInit
  <1>2. /\ pc[r] = "new" /\ level[r] = Len(chain[r]) /\ said[r] = 0 /\ ended[r] = "running" /\ outcome[r] = "ok"
        /\ logged[r] = 0 /\ raw[r].status = 0 /\ raw[r].body = <<>> /\ own[r] = <<>>
        /\ \A i \in DOMAIN chain[r] : layer[r][i] = [wrote |-> FALSE, status |-> 200]
    BY DEF Init
  <1>3. Untouched(r, level[r])
    <2>1. DOMAIN chain[r] = 1..Len(chain[r])
      BY <1>1, ChainKinds DEF PoolInv
    <2>. QED  BY <1>2, <2>1 DEF Untouched
  <1>4. Phase(r)
    BY <1>2 DEF Phase
  <1>5. Flow(r) /\ Stands(r) /\ Shown(r) /\ Ordered(r) /\ Reported(r) /\ Current(r)
    BY <1>2, <1>3 DEF Flow, Stands, Shown, Ordered, Reported, Current, Holds
  <1>. QED  BY <1>1, <1>4, <1>5 DEF Served

LEMMA Serving == Spec => []RespInv
  BY RespInit, RespStep, PTL DEF Spec

-----------------------------------------------------------------------------
(***************************************************************************)
(* What the client gets                                                    *)
(***************************************************************************)
\* For any chain of middleware and any number of requests: a status that a
\* handler or a gate has decided on reaches the client, unless the ETag writer
\* has made a 304 or a 412 of a 200; no compressor, log or recovery in between
\* changes it, and a later one is dropped.
THEOREM StatusesStand == Spec => []AnswerStands
  <1>1. ASSUME RespInv, NEW r \in Requests, pc[r] = "done", ended[r] = "ok", said[r] # 0
        PROVE  \/ raw[r].status = said[r]
               \/ said[r] = 200 /\ Has(r, "etag", 0) /\ raw[r].status \in {304, 412}
    <2>1. level[r] = 0 /\ Stands(r)
      BY <1>1 DEF RespInv, Served, Phase
    <2>2. ~\E e \in 1..level[r] : KeptAt(r, level[r], e)
      BY <2>1
    <2>. QED  BY <1>1, <2>1, <2>2 DEF Stands
  <1>2. RespInv => AnswerStands
    BY <1>1 DEF AnswerStands
  <1>. QED  BY <1>2, Serving, PTL

\* The status in a log line is the one the client got, whatever the chain, unless
\* the handler returned an error or an ETag writer outside every log had
\* something else to say than 200.
THEOREM LogIsTrue == Spec => []LoggedIsSent
  <1>1. ASSUME RespInv, NEW r \in Requests, pc[r] = "done", logged[r] # 0, ended[r] \notin {"err", "callback"}
        PROVE  \/ logged[r] = raw[r].status
               \/ logged[r] = 200 /\ EtagOutsideLog(r) /\ raw[r].status \in {304, 412}
    <2>1. level[r] = 0 /\ Shown(r) /\ DOMAIN chain[r] = 1..Len(chain[r])
      BY <1>1, ChainKinds DEF RespInv, Served, Phase, PoolInv
    <2>2. CASE logged[r] = raw[r].status
      BY <2>2
    <2>3. CASE /\ logged[r] = 200 /\ raw[r].status \in {304, 412}
               /\ \E e \in (level[r] + 1)..Len(chain[r]) :
                     chain[r][e] = "etag" /\ \A i \in (level[r] + 1)..e : chain[r][i] # "logger"
      BY <2>1, <2>3 DEF EtagOutsideLog
    <2>. QED  BY <1>1, <2>1, <2>2, <2>3 DEF Shown
  <1>2. RespInv => LoggedIsSent
    BY <1>1 DEF LoggedIsSent
  <1>. QED  BY <1>2, Serving, PTL

\* An error or a recovered panic that the handler has not answered for reaches
\* the client as 500, and none of the pages written before it does, when no
\* compressor stands inside whoever answers.
THEOREM FailuresAnswered == Spec => []FailuresReported
  <1>1. ASSUME RespInv, NEW r \in Requests, pc[r] = "done", Failed(r), Unanswered(r)
        PROVE  raw[r].status = 500 /\ \A k \in DOMAIN raw[r].body : raw[r].body[k].what \notin Pages
    <2>1. Reported(r)
      BY <1>1 DEF RespInv, Served
    <2>2. raw[r].status = 500 /\ Made(raw[r].body, {ErrorText, Trailer})
      BY <1>1, <2>1 DEF Reported, Waiting
    <2>. QED  BY <2>2, ResponsesAssumption DEF Made
  <1>2. RespInv => FailuresReported
    BY <1>1 DEF FailuresReported
  <1>. QED  BY <1>2, Serving, PTL

\* However many requests share the pool of buffers and whenever a writer changes
\* hands: a 304 is sent only to a client whose validator is all that this
\* request, and no other, has produced.
THEOREM ValidatorsAreCurrent == Spec => []NotModifiedIsCurrent
  <1>1. RespInv => NotModifiedIsCurrent
    BY DEF RespInv, Served, Current, NotModifiedIsCurrent
  <1>. QED  BY <1>1, Serving, PTL

-----------------------------------------------------------------------------
(***************************************************************************)
(* Headers and body                                                        *)
(***************************************************************************)
\* All pieces are packed, or none is.
Only(body, packed) == \A k \in DOMAIN body : body[k].packed = packed
Closed(body) == body # <<>> => Last(body).what = Trailer

Alone(r) == ew[r] # None => \A q \in Requests \ {r} : ew[q] # ew[r]

\* Requests that may come to be Intact.
Going(r) ==
    /\ ended[r] \notin {"panic", "callback"}
    /\ ended[r] = "ok" /\ Has(r, "compress", 0) => said[r] # 0
    /\ ended[r] = "err" => ~Has(r, "compress", 0)
    /\ Alone(r)

\* A body is as long as the headers say, which say 1 or nothing.
Sized(out) ==
    \/ out.status \in Silent \cup {412}
    \/ out.headers.length = 0
    \/ out.headers.length = 1 /\ Len(out.body) = 1

\* Without compressors all is plain; a length is announced for the one page
\* that is kept or sent.
BareFits(r) ==
    /\ hdr[r].packed = FALSE /\ raw[r].headers.packed = FALSE
    /\ Only(own[r], FALSE) /\ Only(raw[r].body, FALSE)
    /\ hdr[r].length \in {0, 1}
    /\ ended[r] \in {"running", "copying"} => own[r] = <<>>
    /\ ended[r] = "running" => hdr[r].length = 0
    /\ ended[r] = "wrote" => said[r] # 0
    /\ ended[r] = "ok" /\ said[r] = 0 => hdr[r].length = 0
    /\ hdr[r].length = 1 /\ ended[r] \in {"wrote", "ok"} /\ raw[r].status = 0 => Len(own[r]) = 1
    /\ Sized(raw[r])

\* The headers say that the body is packed once a status has passed the
\* compressor, at c.
Turned(map) == map.packed = TRUE /\ map.length = 0

Announced(r, c) ==
    /\ layer[r][c].wrote /\ layer[r][c].status \notin Silent => Turned(hdr[r])
    /\ layer[r][c].wrote /\ layer[r][c].status \in Silent => raw[r].status \in Silent
    /\ layer[r][c].wrote /\ raw[r].status \notin Silent \cup {0} => Turned(raw[r].headers)

Unannounced(r, c) ==
    /\ ~layer[r][c].wrote => raw[r].body = <<>> /\ raw[r].headers.length = 0
    /\ ended[r] = "running" /\ said[r] = 0 => hdr[r].length = 0

\* What is sent, and what an ETag writer outside the compressor keeps, is packed.
EtagOutside(r, c) == \E e \in 1..(c - 1) : chain[r][e] = "etag"

AllPacked(r, c) == Only(raw[r].body, TRUE) /\ (EtagOutside(r, c) => Only(own[r], TRUE))

\* It ends with the trailer when the compressor has been closed.
Ended(r, c) ==
    level[r] < c =>
        /\ Closed(raw[r].body)
        /\ raw[r].status = 0 /\ EtagOutside(r, c) => Closed(own[r])
        /\ said[r] # 0 => layer[r][c].wrote \/ raw[r].status # 0

PackedFits(r, c) == Announced(r, c) /\ Unannounced(r, c) /\ AllPacked(r, c) /\ Ended(r, c)

\* Static files are packed when they leave their buffer.
StaticFits(r) ==
    level[r] = 0 =>
        /\ raw[r].status # 0 /\ Turned(raw[r].headers)
        /\ Only(raw[r].body, TRUE) /\ Closed(raw[r].body)

\* The slice that is committed is what the request has written.
Saved(r) == pc[r] = "commit" /\ Alone(r) => SubSeq(array[ew[r]], 1, size[r]) = own[r]

\* No body follows a status that has none.
SilentEmpty(r) == raw[r].status \in Silent => raw[r].body = <<>>

Fits(r) ==
    /\ SilentEmpty(r)
    /\ Saved(r)
    /\ Going(r) /\ chain[r] = <<"static">> => StaticFits(r)
    /\ Going(r) /\ chain[r] # <<"static">> /\ ~Has(r, "compress", 0) => BareFits(r)
    /\ Going(r) => \A c \in 1..Len(chain[r]) : chain[r][c] = "compress" => PackedFits(r, c)

-----------------------------------------------------------------------------
\* What is sent is made of what was there and what is added.
LEMMA SentPieces ==
    ASSUME NEW out \in RawType, NEW pieces \in Bodies
    PROVE  LET sent == Sent(out, pieces).body
           IN  \A k \in DOMAIN sent : \/ \E j \in DOMAIN out.body : sent[k] = out.body[j]
                                      \/ \E j \in DOMAIN pieces : sent[k] = pieces[j]
  <1> DEFINE body == out.body \o pieces
             len == out.headers.length
             From(s) == \A k \in DOMAIN s : \/ \E j \in DOMAIN out.body : s[k] = out.body[j]
                                            \/ \E j \in DOMAIN pieces : s[k] = pieces[j]
  <1>1. out.body \in Seq(Piece) /\ pieces \in Seq(Piece) /\ len \in Nat
    BY DEF RawType, Bodies, Maps
  <1>2. body \in Bodies /\ DOMAIN body = 1..Len(body) /\ Len(body) \in Nat /\ From(body)
    <2>1. body \in Seq(Piece) /\ Len(body) = Len(out.body) + Len(pieces)
      BY <1>1
    <2>2. \A k \in 1..Len(body) : \/ k \in 1..Len(out.body) /\ body[k] = out.body[k]
                                  \/ k - Len(out.body) \in 1..Len(pieces) /\ body[k] = pieces[k - Len(out.body)]
      BY <1>1
    <2>3. DOMAIN out.body = 1..Len(out.body) /\ DOMAIN pieces = 1..Len(pieces)
      BY <1>1
    <2> HIDE DEF body
    <2>4. DOMAIN body = 1..Len(body) /\ Len(body) \in Nat
      BY <2>1
    <2>. QED  BY <2>1, <2>2, <2>3, <2>4 DEF Bodies
  <1>3. ASSUME len \in 1..(Len(body) - 1) PROVE From(SubSeq(body, 1, len))
    <2> HIDE DEF body, len
    <2>1. len \in 0..Len(body)
      BY <1>2, <1>3
    <2>2. SubSeq(body, 1, len) \in Bodies /\ Len(SubSeq(body, 1, len)) = len
          /\ \A k \in 1..len : SubSeq(body, 1, len)[k] = body[k]
      BY <1>2, <2>1, Prefix
    <2> DEFINE t == SubSeq(body, 1, len)
    <2> HIDE DEF t
    <2>3. t \in Bodies /\ Len(t) = len /\ \A k \in 1..len : t[k] = body[k]
      BY <2>2 DEF t
    <2>4. DOMAIN t = 1..len
      BY <2>3 DEF Bodies
    <2>5. \A k \in 1..len : k \in 1..Len(body)
      BY <1>2, <1>3
    <2>6. From(t)
      BY <1>2, <2>3, <2>4, <2>5
    <2>. QED  BY <2>6 DEF t
  <1>4. Sent(out, pieces) = CASE out.status \in Silent -> out
                              [] out.status \notin Silent /\ len \in 1..(Len(body) - 1) ->
                                   [out EXCEPT !.body = SubSeq(body, 1, len)]
                              [] OTHER -> [out EXCEPT !.body = body]
    BY DEF Sent
  <1>5. From(out.body)
    OBVIOUS
  <1> HIDE DEF body, len, From
  <1>6. From(Sent(out, pieces).body)
    <2>1. CASE out.status \in Silent
      BY <1>4, <1>5, <2>1
    <2>2. CASE out.status \notin Silent /\ len \in 1..(Len(body) - 1)
      BY <1>3, <1>4, <2>2 DEF RawType
    <2>3. CASE out.status \notin Silent /\ len \notin 1..(Len(body) - 1)
      BY <1>2, <1>4, <2>3 DEF RawType
    <2>. QED  BY <2>1, <2>2, <2>3
  <1>. QED  BY <1>6 DEF From

LEMMA SentOnly ==
    ASSUME NEW out \in RawType, NEW pieces \in Bodies, NEW p, Only(out.body, p), Only(pieces, p)
    PROVE  Only(Sent(out, pieces).body, p)
  BY SentPieces DEF Only

\* How the server counts: an announced length cuts the body.
LEMMA SentForms ==
    ASSUME NEW out \in RawType, NEW pieces \in Bodies
    PROVE  /\ out.status \in Silent => Sent(out, pieces) = out
           /\ out.headers.length = 0 => Sent(out, pieces).body \in {out.body, out.body \o pieces}
           /\ out.headers.length = 0 /\ out.status \notin Silent => Sent(out, pieces).body = out.body \o pieces
           /\ Sized(out) => Sized(Sent(out, pieces))
           /\ out.body = <<>> /\ out.headers.length = 1 /\ Len(pieces) = 1 => Sized(Sent(out, pieces))
  <1> DEFINE body == out.body \o pieces
             len == out.headers.length
             sent == Sent(out, pieces)
  <1>1. out.body \in Seq(Piece) /\ pieces \in Seq(Piece) /\ len \in Nat
    BY DEF RawType, Bodies, Maps
  <1>2. body \in Seq(Piece) /\ Len(body) = Len(out.body) + Len(pieces) /\ Len(body) \in Nat
        /\ Len(out.body) \in Nat /\ Len(pieces) \in Nat
    BY <1>1
  <1>3. sent = CASE out.status \in Silent -> out
                 [] out.status \notin Silent /\ len \in 1..(Len(body) - 1) ->
                      [out EXCEPT !.body = SubSeq(body, 1, len)]
                 [] OTHER -> [out EXCEPT !.body = body]
    BY DEF Sent
  <1>4. sent.status = out.status /\ sent.headers = out.headers
    BY SentTypes
  <1>5. out.body = <<>> => Len(body) = Len(pieces)
    BY <1>2
  <1>6. len \in 1..(Len(body) - 1) => Len(SubSeq(body, 1, len)) = len
    <2> HIDE DEF body, len
    <2>1. len \in 1..(Len(body) - 1) => len \in 0..Len(body)
      BY <1>2
    <2>. QED  BY <1>2, <2>1, Prefix DEF Bodies
  <1> HIDE DEF body, len, sent
  <1>7. out.status \in Silent => sent = out
    BY <1>3
  <1>8. len = 0 => sent.body \in {out.body, body}
    BY <1>3, <1>7 DEF RawType
  <1>9. len = 0 /\ out.status \notin Silent => sent.body = body
    BY <1>3 DEF RawType
  <1>10. len = 1 /\ out.status \notin Silent /\ Len(body) # 0 => Len(sent.body) = 1
    <2>1. SUFFICES ASSUME len = 1, out.status \notin Silent, Len(body) # 0 PROVE Len(sent.body) = 1
      OBVIOUS
    <2>2. CASE len \in 1..(Len(body) - 1)
      BY <1>3, <1>6, <2>1, <2>2 DEF RawType
    <2>3. CASE len \notin 1..(Len(body) - 1)
      <3>1. sent.body = body
        BY <1>3, <2>1, <2>3 DEF RawType
      <3>2. Len(body) = 1
        BY <1>2, <2>1, <2>3
      <3>. QED  BY <3>1, <3>2
    <2>. QED  BY <2>2, <2>3
  <1>11. Sized(out) => Sized(sent)
    <2>1. Len(out.body) = 1 => Len(body) # 0
      BY <1>2
    <2>. QED  BY <1>4, <1>10, <2>1 DEF Sized, len
  <1>12. out.body = <<>> /\ len = 1 /\ Len(pieces) = 1 => Sized(sent)
    BY <1>4, <1>5, <1>10 DEF Sized, len
  <1>. QED  BY <1>7, <1>8, <1>9, <1>11, <1>12 DEF body, len, sent

LEMMA PassPlain ==
    ASSUME NEW r, NEW n, NEW i, NEW pieces, \A j \in (i + 1)..n : chain[r][j] # "compress"
    PROVE  Pass(r, n, i, pieces) = pieces
  BY DEF Pass

LEMMA PassForms ==
    ASSUME NEW r, NEW n \in Nat, NEW i \in Nat, NEW pieces \in Bodies
    PROVE  /\ (\A j \in (i + 1)..n : chain[r][j] # "compress") => Pass(r, n, i, pieces) = pieces
           /\ (\E j \in (i + 1)..n : chain[r][j] = "compress") => Only(Pass(r, n, i, pieces), TRUE)
  <1>1. (\A j \in (i + 1)..n : chain[r][j] # "compress") => Pass(r, n, i, pieces) = pieces
    BY DEF Pass
  <1>2. (\E j \in (i + 1)..n : chain[r][j] = "compress") => Only(Pass(r, n, i, pieces), TRUE)
    BY DEF Pass, Only, Packed
  <1>. QED  BY <1>1, <1>2

\* What a header does to the server's writer, the header map and the compressor.
LEMMA HeaderAtServer ==
    ASSUME Types, NEW r \in Requests, NEW n, NEW code, NEW map
    PROVE  /\ HeaderRaw(r, n, code, map).body = raw[r].body
           /\ \/ HeaderRaw(r, n, code, map) = raw[r]
              \/ /\ raw[r].status = 0
                 /\ HeaderRaw(r, n, code, map).status = code
                 /\ HeaderRaw(r, n, code, map).headers = HeaderMap(r, n, code, map)
  <1> DEFINE turned == HeaderMap(r, n, code, map)
  <1>1. raw[r] \in RawType
    BY DEF Types, OutTypes, RawType
  <1>2. HeaderRaw(r, n, code, map) = IF Reaches(r, n, 0, code) /\ raw[r].status = 0
           THEN [raw[r] EXCEPT !.status = code, !.headers = turned] ELSE raw[r]
    BY DEF HeaderRaw
  <1> HIDE DEF turned
  <1>3. \/ HeaderRaw(r, n, code, map) = raw[r]
        \/ /\ raw[r].status = 0 /\ HeaderRaw(r, n, code, map).body = raw[r].body
           /\ HeaderRaw(r, n, code, map).status = code /\ HeaderRaw(r, n, code, map).headers = turned
    BY <1>1, <1>2 DEF RawType
  <1>. QED  BY <1>3 DEF turned

LEMMA HeaderUnpacked ==
    ASSUME Shape, NEW r \in Requests, NEW n \in 0..Len(chain[r]), NEW code, NEW map, ~Has(r, "compress", 0) \/ n = 0
    PROVE  HeaderMap(r, n, code, map) = map
  <1>1. Len(chain[r]) \in Nat
    BY ChainKinds
  <1>. QED  BY <1>1 DEF HeaderMap, Has

Turns(r, n, code, map, c) ==
    \/ HeaderLayers(r, n, code)[c] = layer[r][c] /\ HeaderMap(r, n, code, map) = map
    \/ /\ layer[r][c].wrote = FALSE /\ c <= n
       /\ HeaderLayers(r, n, code)[c].wrote = TRUE /\ HeaderLayers(r, n, code)[c].status = code
       /\ code \notin Silent => Turned(HeaderMap(r, n, code, map))

LEMMA HeaderAtCompressor ==
    ASSUME Shape, Types, NEW r \in Requests, NEW n \in 0..Len(chain[r]), NEW code \in Statuses, NEW map \in Maps,
           NEW c \in 1..Len(chain[r]), chain[r][c] = "compress"
    PROVE  Turns(r, n, code, map, c)
  <1>1. /\ DOMAIN chain[r] = 1..Len(chain[r]) /\ Len(chain[r]) \in Nat /\ n \in Nat
        /\ \A i, j \in 1..Len(chain[r]) : chain[r][i] = chain[r][j] /\ chain[r][i] = "compress" => i = j
    BY ChainKinds
  <1>2. \A i \in 1..n : chain[r][i] = "compress" => i = c
    BY <1>1
  <1>3. CASE c <= n /\ Takes(r, n, c, code)
    <2>1. c \in 1..n /\ layer[r][c].wrote = FALSE
      <3>1. layer[r][c].wrote \in BOOLEAN
        BY <1>1 DEF Types, OutTypes
      <3>. QED  BY <1>1, <1>3, <3>1 DEF Takes
    <2>2. HeaderLayers(r, n, code)[c] = [wrote |-> TRUE, status |-> code]
      BY <1>1, <1>3, <2>1 DEF HeaderLayers
    <2>3. HeaderMap(r, n, code, map) = IF code \notin Silent THEN [map EXCEPT !.packed = TRUE, !.length = 0] ELSE map
      BY <1>1, <1>3, <2>1 DEF HeaderMap
    <2>4. Turned([map EXCEPT !.packed = TRUE, !.length = 0])
      BY DEF Turned, Maps
    <2>. QED  BY <1>3, <2>1, <2>2, <2>3, <2>4 DEF Turns
  <1>4. CASE ~(c <= n /\ Takes(r, n, c, code))
    <2>1. ~(\E i \in 1..n : chain[r][i] = "compress" /\ Takes(r, n, i, code))
      BY <1>2, <1>4
    <2>. QED  BY <1>1, <1>4, <2>1 DEF HeaderLayers, HeaderMap, Turns
  <1>. QED  BY <1>3, <1>4

\* A header, and a body if one follows it, on their way: either they are sent,
\* or a buffer at e keeps them.
Sending(r, n, code, map) ==
    /\ layer'[r] = HeaderLayers(r, n, code)
    /\ hdr'[r] = HeaderMap(r, n, code, map)

SendsHeader(r, n, code, map) ==
    /\ Sending(r, n, code, map)
    /\ raw'[r] = HeaderRaw(r, n, code, map)
    /\ own'[r] = own[r]

SendsBody(r, n, code, map, pieces) ==
    /\ Sending(r, n, code, map)
    /\ \/ /\ Passed(r, n)'
          /\ raw'[r] = Sent(HeaderRaw(r, n, code, map), Pass(r, n, 0, pieces))
          /\ own'[r] = own[r]
       \/ \E e \in 1..n :
             /\ KeptAt(r, n, e)'
             /\ raw[r].status = 0 /\ raw'[r] = raw[r]
             /\ own'[r] = own[r] \o Pass(r, n, e, pieces)

LEMMA HeaderSends ==
    ASSUME Types, NEW r \in Requests, NEW n, NEW code, NEW map, WriteHeader(r, n, code, map)
    PROVE  SendsHeader(r, n, code, map)
  BY DEF Types, OutTypes, WriteHeader, SendsHeader, Sending

LEMMA WriteSends ==
    ASSUME Shape, Types, NEW r \in Requests, NEW n \in 0..Len(chain[r]), NEW code \in Statuses,
           NEW map \in Maps, NEW pieces \in Bodies, Write(r, n, code, map, pieces), UNCHANGED chain,
           NEW m \in n..Len(chain[r]), Untouched(r, m) \/ Passed(r, m) \/ Kept(r, m)
    PROVE  SendsBody(r, n, code, map, pieces)
  <1>1. n \in Nat /\ m \in Nat /\ m <= Len(chain[r]) /\ n \in 0..m
    BY ChainKinds
  <1>2. HeaderStep(r, n, code, map)
    BY <1>1, WriteStatus
  <1>3. Passed(r, n)' \/ \E e \in 1..n : KeptAt(r, n, e)'
    BY <1>1, <1>2, HeaderDecides
  <1>4. Sending(r, n, code, map)
    BY DEF Types, OutTypes, Write, Sending
  <1>5. ASSUME Passed(r, n)' PROVE SendsBody(r, n, code, map, pieces)
    <2>1. raw'[r] = Sent(HeaderRaw(r, n, code, map), Pass(r, n, 0, pieces)) /\ own'[r] = own[r]
      BY <1>5, WriteBody
    <2>. QED  BY <1>4, <1>5, <2>1 DEF SendsBody
  <1>6. ASSUME NEW e \in 1..n, KeptAt(r, n, e)' PROVE SendsBody(r, n, code, map, pieces)
    <2>1. Buffering(r, n, code) = e /\ e # 0
      BY <1>2, <1>6, BodyKeeper
    <2>2. raw'[r] = HeaderRaw(r, n, code, map) /\ own'[r] = own[r] \o Pass(r, n, e, pieces)
      BY <2>1 DEF Write, Types, OutTypes
    <2>3. raw'[r].status = 0
      BY <1>6 DEF KeptAt
    <2>4. raw'[r] = raw[r] /\ raw[r].status = 0
      <3>1. code # 0
        BY DEF Statuses
      <3>. QED  BY <2>2, <2>3, <3>1, HeaderAtServer
    <2>. QED  BY <1>4, <1>6, <2>2, <2>4 DEF SendsBody
  <1>. QED  BY <1>3, <1>5, <1>6

-----------------------------------------------------------------------------
\* What the steps of a request do to its response.
Resting(r) == OutSame(r) /\ said'[r] = said[r]

Idles(r) ==
    /\ Resting(r)
    /\ \/ Arrive(r) /\ ended'[r] = ended[r]
       \/ /\ level'[r] = level[r] /\ pc[r] = "handler" /\ ended'[r] \in {"ok", "err", "panic"}
          /\ ended[r] = "copying" => ended'[r] # "ok"

Declares(r) ==
    /\ layer'[r] = layer[r] /\ raw'[r] = raw[r] /\ own'[r] = own[r] /\ said'[r] = said[r]
    /\ hdr'[r] = [hdr[r] EXCEPT !.length = 1] /\ level'[r] = level[r]
    /\ Untouched(r, level[r]) /\ pc[r] = "handler" /\ ended[r] = "running" /\ ended'[r] = "copying"

SetsStatus(r, code) ==
    /\ SendsHeader(r, level[r], code, hdr[r])
    /\ HeaderStep(r, level[r], code, hdr[r])
    /\ pc[r] = "refuse" => code # 200
    /\ level'[r] = level[r] /\ said[r] = 0 /\ ended[r] = "running" /\ Untouched(r, level[r]) /\ said'[r] # 0
    /\ \/ pc[r] = "refuse" /\ ended'[r] = "ok"
       \/ pc[r] = "handler" /\ ended'[r] = "running"

WritesPage(r, page) ==
    /\ SendsBody(r, level[r], 200, hdr[r], <<Plain(page)>>)
    /\ HeaderStep(r, level[r], 200, hdr[r])
    /\ level'[r] = level[r] /\ pc[r] = "handler" /\ said'[r] # 0
    /\ ended[r] \in {"running", "copying"} /\ ended'[r] = "wrote"

LEMMA HandlerForms ==
    ASSUME PoolInv, Types, NEW r \in Requests, Phase(r), Flow(r), Handler(r)
    PROVE  \/ Idles(r) \/ Declares(r)
           \/ \E code \in Statuses : SetsStatus(r, code)
           \/ \E page \in Pages : WritesPage(r, page)
  <1>1. /\ Shape /\ said \in [Requests -> Nat] /\ ended \in [Requests -> {"running", "copying", "wrote", "ok", "err", "panic", "callback"}]
        /\ hdr \in [Requests -> Maps] /\ level[r] \in Nat /\ level[r] <= Len(chain[r]) /\ Len(chain[r]) \in Nat
    BY ChainKinds DEF PoolInv, Shape, Types, OutTypes
  <1>2. Untouched(r, level[r]) \/ Passed(r, level[r]) \/ Kept(r, level[r])
    BY DEF Flow
  <1>3. Inside(r)
    BY DEF Handler, Arrive, Refuse, HandlerHeader, HandlerDeclares, HandlerWrite, HandlerEnds, Inside
  <1>4. said[r] = 0 => Untouched(r, level[r])
    BY <1>3 DEF Flow
  <1>5. CASE Arrive(r)
    BY <1>5 DEF Idles, Arrive, Resting, OutSame
  <1>6. CASE \E how \in {"ok", "err", "panic"} : HandlerEnds(r, how)
    BY <1>1, <1>6 DEF Idles, HandlerEnds, Resting, OutSame, outVars
  <1>7. CASE HandlerDeclares(r)
    BY <1>1, <1>4, <1>7 DEF Declares, HandlerDeclares
  <1>8. ASSUME NEW code \in BasicAuth \cup JWT \cup CORS, Refuse(r, code)
        PROVE  /\ code \in Statuses /\ code # 200 /\ SendsHeader(r, level[r], code, hdr[r]) /\ level'[r] = level[r]
               /\ HeaderStep(r, level[r], code, hdr[r])
               /\ said[r] = 0 /\ ended[r] = "running" /\ said'[r] # 0 /\ pc[r] = "refuse" /\ ended'[r] = "ok"
    <2>1. code \in Statuses /\ code # 200 /\ code # 0
      BY DEF BasicAuth, JWT, CORS, Statuses
    <2>2. WriteHeader(r, level[r], code, hdr[r])
      BY <1>8 DEF Refuse
    <2>3. HeaderStep(r, level[r], code, hdr[r])
      BY <1>8, Decides
    <2>. QED  BY <1>1, <1>8, <2>1, <2>2, <2>3, HeaderSends DEF Refuse, Phase
  <1>9. ASSUME NEW code \in Codes, HandlerHeader(r, code)
        PROVE  /\ code \in Statuses /\ SendsHeader(r, level[r], code, hdr[r]) /\ level'[r] = level[r]
               /\ HeaderStep(r, level[r], code, hdr[r])
               /\ said[r] = 0 /\ ended[r] = "running" /\ said'[r] # 0 /\ pc[r] = "handler" /\ ended'[r] = "running"
    <2>1. code \in Statuses /\ code # 0
      BY ResponsesAssumption DEF Statuses
    <2>2. WriteHeader(r, level[r], code, hdr[r])
      BY <1>9 DEF HandlerHeader
    <2>3. HeaderStep(r, level[r], code, hdr[r])
      BY <1>9, Decides
    <2>. QED  BY <1>1, <1>9, <2>1, <2>2, <2>3, HeaderSends DEF HandlerHeader
  <1>10. ASSUME NEW page \in Pages, HandlerWrite(r, page)
         PROVE  /\ SendsBody(r, level[r], 200, hdr[r], <<Plain(page)>>)
                /\ HeaderStep(r, level[r], 200, hdr[r])
                /\ level'[r] = level[r] /\ pc[r] = "handler" /\ said'[r] # 0
                /\ ended[r] \in {"running", "copying"} /\ ended'[r] = "wrote"
    <2>1. Write(r, level[r], 200, hdr[r], <<Plain(page)>>) /\ UNCHANGED chain
      BY <1>10 DEF HandlerWrite
    <2>2. level[r] \in level[r]..Len(chain[r]) /\ level[r] \in 0..Len(chain[r]) /\ 200 \in Statuses
          /\ hdr[r] \in Maps /\ <<Plain(page)>> \in Bodies
      BY <1>1, PiecesAreTyped DEF Statuses
    <2>3. SendsBody(r, level[r], 200, hdr[r], <<Plain(page)>>)
      BY <1>1, <1>2, <2>1, <2>2, WriteSends
    <2>4. said'[r] # 0 /\ level'[r] = level[r] /\ pc[r] = "handler" /\ ended[r] \in {"running", "copying"} /\ ended'[r] = "wrote"
      BY <1>1, <1>10 DEF HandlerWrite
    <2>5. HeaderStep(r, level[r], 200, hdr[r])
      BY <1>10, Decides
    <2>. QED  BY <2>3, <2>4, <2>5
  <1>11. CASE \E code \in BasicAuth \cup JWT \cup CORS : Refuse(r, code)
    <2>1. PICK code \in BasicAuth \cup JWT \cup CORS : Refuse(r, code)
      BY <1>11
    <2>2. code \in Statuses /\ SetsStatus(r, code)
      BY <1>4, <1>8, <2>1 DEF SetsStatus
    <2>. QED  BY <2>2
  <1>12. CASE \E code \in Codes : HandlerHeader(r, code)
    <2>1. pc[r] # "refuse"
      BY <1>12 DEF HandlerHeader
    <2>2. PICK code \in Codes : HandlerHeader(r, code)
      BY <1>12
    <2>3. code \in Statuses /\ SetsStatus(r, code)
      BY <1>4, <1>9, <2>1, <2>2 DEF SetsStatus
    <2>. QED  BY <2>3
  <1>13. CASE \E page \in Pages : HandlerWrite(r, page)
    BY <1>10, <1>13 DEF WritesPage
  <1>. QED  BY <1>5, <1>6, <1>7, <1>11, <1>12, <1>13 DEF Handler

\* The places where one that goes well can be on its way out.
LEMMA GoesWell ==
    ASSUME PoolInv, Types, NEW r \in Requests, Phase(r), Going(r), Unwind(r)
    PROVE  /\ ended[r] \in {"ok", "err"} /\ outcome[r] = ended[r]
           /\ ended[r] = "err" => ~Has(r, "compress", 0)
           /\ ended[r] = "ok" /\ Has(r, "compress", 0) => said[r] # 0
  BY UnwindEnds DEF Phase, Going, Types

\* A status that stands and has been taken by the writer at c, if that is not
\* a gate or the like.
LEMMA StandsTaken ==
    ASSUME Shape, NEW r \in Requests, Stands(r), ended[r] = "ok", said[r] # 0,
           level[r] > 0, chain[r][level[r]] = "compress"
    PROVE  layer[r][level[r]].wrote
  <1>1. level[r] \in Nat /\ level[r] \in 1..level[r] /\ Wraps(chain[r][level[r]])
    BY DEF Shape, Wraps
  <1>2. CASE Passed(r, level[r])
    BY <1>1, <1>2 DEF Passed
  <1>3. CASE \E e \in 1..level[r] : KeptAt(r, level[r], e)
    <2>1. PICK e \in 1..level[r] : KeptAt(r, level[r], e)
      BY <1>3
    <2>2. level[r] \in e..level[r]
      BY <1>1
    <2>. QED  BY <1>1, <2>1, <2>2 DEF KeptAt
  <1>. QED  BY <1>2, <1>3 DEF Stands

\* Nothing has been sent when a response is committed.
LEMMA CommitsFirst ==
    ASSUME PoolInv, Types, NEW r \in Requests, Phase(r), Flow(r), pc[r] = "commit"
    PROVE  /\ raw[r].status = 0 /\ level[r] > 0 /\ chain[r][level[r]] = "etag"
           /\ ew[r] # None
  <1>1. level[r] > 0 /\ chain[r][level[r]] = "etag" /\ layer[r][level[r]].status = 200 /\ level[r] \in 1..level[r]
    BY DEF PoolInv, Shape, Taken, Phase
  <1>2. ~Passed(r, level[r])
    BY <1>1 DEF Passed, Wraps
  <1>. QED  BY <1>1, <1>2, EtagHasWriter DEF Flow, Untouched, Kept, KeptAt

\* What a step on the way out does to the response: nothing, close a
\* compressor, flush a static file, commit a response that has been kept, answer
\* a failure, or send the empty 200 of a handler that has said nothing.
Rests(r) ==
    /\ Resting(r) /\ level'[r] \in {level[r], level[r] - 1}
    /\ level'[r] # level[r] /\ chain[r][level[r]] = "compress" =>
          layer[r][level[r]].wrote /\ layer[r][level[r]].status \in Silent
    /\ chain[r] = <<"static">> => level'[r] = level[r]

Closes(r) ==
    /\ level[r] > 0 /\ chain[r][level[r]] = "compress" /\ level'[r] = level[r] - 1
    /\ layer[r][level[r]].wrote /\ layer[r][level[r]].status \notin Silent
    /\ SendsBody(r, level[r] - 1, 200, hdr[r], <<Packed(Trailer)>>)
    /\ HeaderStep(r, level[r] - 1, 200, hdr[r])

Flushes(r) ==
    /\ chain[r] = <<"static">> /\ level[r] = 1 /\ level'[r] = 0 /\ raw[r].status = 0
    /\ \E code \in Statuses, pieces \in Bodies :
          /\ Only(pieces, TRUE) /\ Closed(pieces)
          /\ SendsBody(r, 0, code, Compressed(hdr[r]), pieces)

CommitsKept(r) ==
    /\ level[r] > 0 /\ chain[r][level[r]] = "etag" /\ level'[r] = level[r] - 1
    /\ raw[r].status = 0 /\ ended[r] = "ok"
    /\ \/ \E code \in {304, 412} : /\ SendsHeader(r, level[r] - 1, code, hdr[r])
                                   /\ HeaderStep(r, level[r] - 1, code, hdr[r])
       \/ \E map \in Maps :
             /\ map = [hdr[r] EXCEPT !.etag = tag[r]]
             /\ SendsBody(r, level[r] - 1, 200, map, own[r])
             /\ HeaderStep(r, level[r] - 1, 200, map)

Fails(r) ==
    /\ ended[r] = "err" /\ level[r] = 0 /\ level'[r] = 0
    /\ \E map \in Maps :
          /\ map = [hdr[r] EXCEPT !.length = 0]
          /\ SendsBody(r, 0, 500, map, <<Plain(ErrorText)>>)

Empties(r) ==
    /\ ended[r] = "ok" /\ said[r] = 0 /\ ~Has(r, "compress", 0)
    /\ raw[r].status = 0 /\ level[r] = 0 /\ level'[r] = 0
    /\ SendsHeader(r, 0, 200, hdr[r])

LEMMA UnwindForms ==
    ASSUME PoolInv, Types, NEW r \in Requests, Phase(r), Flow(r), Stands(r), Saved(r), Going(r), Unwind(r)
    PROVE  Rests(r) \/ Closes(r) \/ Flushes(r) \/ CommitsKept(r) \/ Fails(r) \/ Empties(r)
  <1> USE DEF Rests, Closes, Flushes, CommitsKept, Fails, Empties
  <1>1. /\ Shape /\ level \in [Requests -> Nat] /\ hdr[r] \in Maps /\ {200, 304, 412, 500} \subseteq Statuses
        /\ level[r] \in Nat /\ level[r] <= Len(chain[r]) /\ Len(chain[r]) \in Nat
    BY ChainKinds DEF PoolInv, Shape, Types, OutTypes, Statuses
  <1>2. UNCHANGED chain /\ UNCHANGED said /\ pc[r] \in {"unwind", "commit"}
    BY UnwindEnds
  <1>3. Untouched(r, level[r]) \/ Passed(r, level[r]) \/ Kept(r, level[r])
    BY DEF Flow
  <1>4. Leave(r) => level'[r] = level[r] - 1
    BY <1>1 DEF Leave
  <1>5. /\ level[r] > 0 => level[r] - 1 \in Nat /\ level[r] - 1 \in 0..Len(chain[r]) /\ level[r] \in (level[r] - 1)..Len(chain[r])
        /\ level[r] \in level[r]..Len(chain[r])
    BY <1>1
  <1>6. ended[r] \in {"ok", "err"} /\ outcome[r] = ended[r] /\ (ended[r] = "ok" /\ Has(r, "compress", 0) => said[r] # 0)
    BY GoesWell
  <1>7. UNCHANGED outVars => Resting(r)
    BY <1>2 DEF outVars, Resting, OutSame
  <1>8. level[r] > 0 /\ chain[r] = <<"static">> => chain[r][level[r]] = "static" /\ level[r] = 1
    BY <1>1
  <1>9. CASE PassBy(r) \/ Log(r) \/ EtagRelease(r)
    <2>1. Resting(r) /\ level[r] > 0 /\ (Leave(r) \/ UNCHANGED level)
      BY <1>2, <1>7, <1>9 DEF PassBy, Log, EtagRelease, At, Resting, OutSame
    <2>2. chain[r][level[r]] \notin {"compress", "static"}
      BY <1>9 DEF PassBy, Log, EtagRelease, At, Refusals
    <2>. QED  BY <1>4, <1>8, <2>1, <2>2
  <1>10. CASE CloseCompressor(r)
    <2>1. Leave(r) /\ level[r] > 0 /\ chain[r][level[r]] = "compress"
      BY <1>10 DEF CloseCompressor, At
    <2>2. layer[r][level[r]].wrote
      <3>1. level[r] \in 1..Len(chain[r])
        BY <1>1, <2>1
      <3>2. ended[r] = "ok"
        BY <1>6, <2>1, <3>1 DEF Going, Has
      <3>3. said[r] # 0
        <4>1. Has(r, "compress", 0)
          BY <1>1, <2>1, <3>1 DEF Has
        <4>. QED  BY <1>6, <3>2, <4>1
      <3>. QED  BY <1>1, <2>1, <3>2, <3>3, StandsTaken
    <2>3. CASE layer[r][level[r]].status \in Silent
      BY <1>4, <1>7, <1>8, <1>10, <2>1, <2>2, <2>3 DEF CloseCompressor
    <2>4. CASE layer[r][level[r]].status \notin Silent
      <3>1. Write(r, level[r] - 1, 200, hdr[r], <<Packed(Trailer)>>)
        BY <1>10, <2>2, <2>4 DEF CloseCompressor
      <3>2. SendsBody(r, level[r] - 1, 200, hdr[r], <<Packed(Trailer)>>)
        BY <1>1, <1>2, <1>3, <1>5, <2>1, <3>1, WriteSends, PiecesAreTyped
      <3>3. HeaderStep(r, level[r] - 1, 200, hdr[r])
        BY <1>1, <1>2, <1>5, <2>1, <3>1, WriteStatus
      <3>. QED  BY <1>4, <2>1, <2>2, <2>4, <3>2, <3>3
    <2>. QED  BY <2>3, <2>4
  <1>11. CASE FlushStatic(r)
    <2>1. pc[r] = "unwind" /\ level[r] > 0 /\ chain[r][level[r]] = "static" /\ Leave(r)
      BY <1>11 DEF FlushStatic, At
    <2>2. chain[r] = <<"static">> /\ level[r] = 1 /\ level'[r] = 0 /\ Len(chain[r]) = 1 /\ DOMAIN chain[r] = 1..1
      <3>1. level[r] \in 1..Len(chain[r])
        BY <1>1, <2>1
      <3>2. chain[r] = <<"static">> /\ Len(chain[r]) = 1 /\ DOMAIN chain[r] = 1..Len(chain[r])
        BY <1>1, <2>1, <3>1, ChainKinds
      <3>. QED  BY <1>4, <2>1, <3>1, <3>2
    <2>3. ew[r] # None
      BY <2>1, <2>2 DEF Types, EtagTypes
    <2>4. raw[r].status = 0
      <3>1. ~Passed(r, level[r])
        BY <2>1, <2>2 DEF Passed
      <3>. QED  BY <1>3, <3>1 DEF Untouched, Kept, KeptAt
    <2>5. layer[r][1].status \in Statuses /\ Compressed(hdr[r]) \in Maps
      <3>1. layer[r][1].status \in Statuses
        BY <2>2 DEF Types, OutTypes
      <3>2. Compressed(hdr[r]) \in Maps
        BY MapForms
      <3>. QED  BY <3>1, <3>2
    <2> DEFINE front == [k \in 1..used[ew[r]] |-> Packed(array[ew[r]][k].what)]
               pieces == Append(front, Packed(Trailer))
    <2>6. /\ used[ew[r]] \in Nat /\ front \in Seq(Piece) /\ Len(front) = used[ew[r]]
          /\ Packed(Trailer) \in Piece
      <3>1. array[ew[r]] \in Seq(Piece) /\ used[ew[r]] \in 0..Len(array[ew[r]]) /\ Len(array[ew[r]]) \in Nat
        BY <2>3, BufferTypes DEF Bodies
      <3>2. used[ew[r]] \in Nat /\ \A k \in 1..used[ew[r]] : k \in 1..Len(array[ew[r]])
        BY <3>1
      <3>3. \A x \in Piece : Packed(x.what) \in Piece
        BY DEF Piece, Packed
      <3>4. \A k \in 1..used[ew[r]] : Packed(array[ew[r]][k].what) \in Piece
        BY <3>1, <3>2, <3>3
      <3>5. Packed(Trailer) \in Piece
        BY DEF Piece, Packed
      <3>. QED  BY <3>2, <3>4, <3>5, IsASeq
    <2>7. \A k \in 1..Len(front) : front[k].packed = TRUE
      BY <2>6 DEF Packed
    <2> HIDE DEF front
    <2>8. /\ pieces \in Seq(Piece) /\ Len(pieces) = Len(front) + 1 /\ DOMAIN pieces = 1..(Len(front) + 1)
          /\ pieces[Len(front) + 1] = Packed(Trailer) /\ \A k \in 1..Len(front) : pieces[k] = front[k]
      BY <2>6
    <2> HIDE DEF pieces
    <2>9. pieces \in Bodies /\ Only(pieces, TRUE) /\ Closed(pieces)
      <3>1. \A k \in 1..(Len(front) + 1) : k \in 1..Len(front) \/ k = Len(front) + 1
        BY <2>6
      <3>2. Packed(Trailer).packed = TRUE /\ Packed(Trailer).what = Trailer
        BY DEF Packed
      <3>3. Last(pieces) = pieces[Len(front) + 1]
        BY <2>8 DEF Last
      <3>. QED  BY <2>7, <2>8, <3>1, <3>2, <3>3 DEF Only, Closed, Bodies
    <2>10. Write(r, 0, layer[r][1].status, Compressed(hdr[r]), pieces)
      BY <1>11 DEF FlushStatic, pieces, front
    <2>11. SendsBody(r, 0, layer[r][1].status, Compressed(hdr[r]), pieces)
      <3>1. PICK code \in Statuses, map \in Maps : code = layer[r][1].status /\ map = Compressed(hdr[r])
        BY <2>5
      <3>2. level[r] \in 0..Len(chain[r]) /\ 0 \in 0..Len(chain[r])
        BY <1>1
      <3>3. SendsBody(r, 0, code, map, pieces)
        BY <1>1, <1>2, <1>3, <2>9, <2>10, <3>1, <3>2, WriteSends
      <3>. QED  BY <3>1, <3>3
    <2>. QED  BY <2>2, <2>4, <2>5, <2>9, <2>11
  <1>12. ASSUME NEW inm \in Validators, NEW im \in Validators, CommitConditional(r, inm, im) \/ CommitBody(r, inm, im)
         PROVE  /\ level[r] > 0 /\ chain[r][level[r]] = "etag" /\ level'[r] = level[r] - 1
                /\ raw[r].status = 0 /\ ended[r] = "ok"
                /\ \/ \E code \in {304, 412} : /\ SendsHeader(r, level[r] - 1, code, hdr[r])
                                               /\ HeaderStep(r, level[r] - 1, code, hdr[r])
                   \/ \E map \in Maps :
                         /\ map = [hdr[r] EXCEPT !.etag = tag[r]]
                         /\ SendsBody(r, level[r] - 1, 200, map, own[r])
                         /\ HeaderStep(r, level[r] - 1, 200, map)
    <2>1. pc[r] = "commit" /\ Leave(r)
      BY <1>12 DEF CommitConditional, CommitBody
    <2>2. raw[r].status = 0 /\ level[r] > 0 /\ chain[r][level[r]] = "etag" /\ ew[r] # None
      BY <2>1, CommitsFirst
    <2>3. ended[r] = "ok"
      BY <1>6, <2>1 DEF Phase
    <2>4. CASE CommitConditional(r, inm, im)
      <3>1. PICK code \in {304, 412} : WriteHeader(r, level[r] - 1, code, hdr[r])
        BY <2>4 DEF CommitConditional
      <3>2. code \in Statuses
        BY <1>1
      <3>3. HeaderStep(r, level[r] - 1, code, hdr[r])
        <4>1. PICK n \in Nat, map \in Maps : n = level[r] - 1 /\ map = hdr[r]
          BY <1>1, <1>5, <2>2
        <4>2. WriteHeader(r, n, code, map)
          BY <3>1, <4>1
        <4>3. HeaderStep(r, n, code, map)
          BY <1>1, <1>2, <3>2, <4>2, WriteStatus
        <4>. QED  BY <4>1, <4>3
      <3>4. SendsHeader(r, level[r] - 1, code, hdr[r])
        BY <3>1, HeaderSends
      <3>. QED  BY <1>4, <2>1, <2>2, <2>3, <3>3, <3>4
    <2>5. CASE CommitBody(r, inm, im)
      <3>1. SubSeq(array[ew[r]], 1, size[r]) = own[r] /\ own[r] \in Bodies
        BY <2>1 DEF Saved, Going, Types, OutTypes
      <3>2. [hdr[r] EXCEPT !.etag = tag[r]] \in Maps
        BY MapForms
      <3>3. PICK map \in Maps : map = [hdr[r] EXCEPT !.etag = tag[r]]
        BY <3>2
      <3>4. Write(r, level[r] - 1, 200, map, own[r])
        BY <2>5, <3>1, <3>3 DEF CommitBody
      <3>5. PICK n : n = level[r] - 1
        OBVIOUS
      <3>6. n \in Nat /\ n \in 0..Len(chain[r]) /\ level[r] \in n..Len(chain[r]) /\ 200 \in Statuses
        BY <1>1, <1>5, <2>2, <3>5
      <3>7. HeaderStep(r, n, 200, map)
        BY <1>1, <1>2, <3>4, <3>5, <3>6, WriteStatus
      <3>8. SendsBody(r, n, 200, map, own[r])
        BY <1>1, <1>2, <1>3, <3>1, <3>4, <3>5, <3>6, WriteSends
      <3>. QED  BY <1>4, <2>1, <2>2, <2>3, <3>3, <3>5, <3>7, <3>8
    <2>. QED  BY <1>12, <2>4, <2>5
  <1>13. CASE Recover(r)
    <2>1. UNCHANGED outVars /\ Leave(r) /\ level[r] > 0 /\ chain[r][level[r]] = "recovery"
      BY <1>6, <1>13 DEF Recover, At
    <2>. QED  BY <1>4, <1>7, <1>8, <2>1
  <1>14. CASE Adapt(r)
    <2>1. level[r] = 0 /\ UNCHANGED level /\ level[r] \in 0..Len(chain[r]) /\ 0 \in 0..Len(chain[r]) /\ 0 \in Nat
      BY <1>1, <1>14 DEF Adapt
    <2>2. CASE ended[r] = "err"
      <3>1. [hdr[r] EXCEPT !.length = 0] \in Maps
        BY MapForms
      <3>2. PICK map \in Maps : map = [hdr[r] EXCEPT !.length = 0]
        BY <3>1
      <3>3. Write(r, 0, 500, map, <<Plain(ErrorText)>>)
        BY <1>6, <1>14, <2>2, <3>2 DEF Adapt
      <3>4. PICK n : n = 0
        OBVIOUS
      <3>5. SendsBody(r, n, 500, map, <<Plain(ErrorText)>>)
        BY <1>1, <1>2, <1>3, <2>1, <3>3, <3>4, WriteSends, PiecesAreTyped
      <3>. QED  BY <2>1, <2>2, <3>2, <3>4, <3>5
    <2>3. CASE ended[r] = "ok" /\ raw[r].status = 0
      <3>1. SendsHeader(r, 0, 200, hdr[r])
        BY <1>6, <1>14, <2>3, HeaderSends DEF Adapt
      <3>2. said[r] = 0
        BY <2>1, <2>3 DEF Stands, Passed
      <3>3. ~Has(r, "compress", 0)
        BY <1>6, <2>3, <3>2
      <3>. QED  BY <2>1, <2>3, <3>1, <3>2, <3>3
    <2>4. CASE ended[r] = "ok" /\ raw[r].status # 0
      <3>1. WriteHeader(r, 0, 200, hdr[r])
        BY <1>6, <1>14, <2>4 DEF Adapt
      <3>2. HeaderStep(r, 0, 200, hdr[r]) /\ SendsHeader(r, 0, 200, hdr[r])
        <4>1. HeaderStep(r, 0, 200, hdr[r])
          BY <1>1, <1>2, <3>1, WriteStatus
        <4>. QED  BY <3>1, <4>1, HeaderSends
      <3>3. Passed(r, 0)
        BY <1>3, <2>1, <2>4 DEF Untouched, Kept, KeptAt
      <3>4. raw[r].status # 0
        BY <2>4
      <3>5. layer'[r] = layer[r]
        BY <1>1, <2>1, <3>2, <3>3, HeaderDropped
      <3>6. raw'[r] = raw[r]
        BY <3>2, <3>4, HeaderAtServer DEF SendsHeader
      <3>7. hdr'[r] = hdr[r]
        BY <1>1, <2>1, <3>2, HeaderUnpacked DEF SendsHeader, Sending
      <3>. QED  BY <1>2, <2>1, <3>2, <3>5, <3>6, <3>7 DEF Resting, OutSame, SendsHeader
    <2>. QED  BY <1>6, <2>2, <2>3, <2>4
  <1>15. CASE \E inm, im \in Validators : CommitConditional(r, inm, im) \/ CommitBody(r, inm, im)
    BY <1>12, <1>15
  <1>. QED  BY <1>9, <1>10, <1>11, <1>13, <1>14, <1>15 DEF Unwind

-----------------------------------------------------------------------------
\* Going well is not something that begins on the way.
LEMMA AloneBack ==
    ASSUME PoolInv, NEW p \in Requests, Handler(p) \/ Unwind(p), NEW r \in Requests, Alone(r)'
    PROVE  Alone(r)
  <1>1. ew \in [Requests -> Nat] /\ (pc[p] = "new" => ew[p] = None)
    BY DEF PoolInv, Shape, Taken
  <1>2. CASE UNCHANGED ew
    BY <1>2 DEF Alone
  <1>3. CASE Arrive(p)
    <2>1. ew[p] = None /\ \A q \in Requests \ {p} : ew'[q] = ew[q]
      BY <1>1, <1>3 DEF Arrive
    <2>. QED  BY <2>1 DEF Alone
  <1>4. Arrive(p) \/ UNCHANGED ew
    BY DEF Handler, Refuse, HandlerHeader, HandlerDeclares, HandlerWrite, HandlerEnds, poolVars,
           Unwind, CloseCompressor, FlushStatic, PassBy, Log, EtagRelease, CommitConditional, CommitBody, Recover, Adapt
  <1>. QED  BY <1>2, <1>3, <1>4

LEMMA GoingBack ==
    ASSUME PoolInv, Types, NEW p \in Requests, Phase(p), Handler(p) \/ Unwind(p), NEW r \in Requests, Going(r)'
    PROVE  Going(r)
  <1>1. Alone(r)
    BY AloneBack DEF Going
  <1>2. CASE p # r
    <2>1. SameFor(r)
      BY <1>2, Others
    <2>. QED  BY <1>1, <2>1 DEF SameFor, Going, Has
  <1>3. CASE p = r /\ Handler(p)
    <2>1. ended[r] \in {"running", "copying", "wrote"}
      BY <1>3 DEF Handler, Arrive, Refuse, HandlerHeader, HandlerDeclares, HandlerWrite, HandlerEnds, Phase
    <2>. QED  BY <1>1, <2>1 DEF Going
  <1>4. CASE p = r /\ Unwind(p)
    <2>1. UNCHANGED <<chain, said, ended>>
      BY <1>4, UnwindEnds
    <2>. QED  BY <1>1, <2>1 DEF Going, Has
  <1>. QED  BY <1>2, <1>3, <1>4

\* What is to be committed stays what the request has written.
LEMMA SavedStep ==
    ASSUME PoolInv, Types, NEW p \in Requests, Phase(p), Flow(p), Handler(p) \/ Unwind(p),
           NEW r \in Requests, Current(r), Saved(r)
    PROVE  Saved(r)'
  <1> SUFFICES ASSUME pc'[r] = "commit", Alone(r)'
               PROVE  SubSeq(array'[ew'[r]], 1, size'[r]) = own'[r]
    BY DEF Saved
  <1>1. Alone(r)
    BY AloneBack
  <1>2. /\ pc \in [Requests -> {"new", "refuse", "handler", "unwind", "commit", "done"}]
        /\ level \in [Requests -> Nat] /\ level[r] <= Len(chain[r]) /\ Len(chain[r]) \in Nat
        /\ size \in [Requests -> Nat]
    BY ChainKinds DEF PoolInv, Shape, Types, EtagTypes
  <1>3. CASE p = r
    <2>1. EtagRelease(r)
      BY <1>2, <1>3 DEF Handler, Arrive, Refuse, HandlerHeader, HandlerDeclares, HandlerWrite, HandlerEnds, Leave,
             Unwind, CloseCompressor, FlushStatic, PassBy, Log, CommitConditional, CommitBody, Recover, Adapt
    <2>2. pc[r] = "unwind" /\ level[r] > 0 /\ chain[r][level[r]] = "etag"
      BY <2>1 DEF EtagRelease, At
    <2>3. level[r] \in 1..level[r] /\ level[r] \in (0 + 1)..Len(chain[r]) /\ ew[r] # None
      BY <1>2, <2>2, EtagHasWriter
    <2>4. Holds(r) /\ Has(r, "etag", 0)
      BY <2>2, <2>3 DEF Holds, Within, Has
    <2>5. SubSeq(array[ew[r]], 1, used[ew[r]]) = own[r]
      BY <2>4 DEF Current
    <2>6. array' = array /\ ew' = ew /\ own' = own /\ size'[r] = used[ew[r]]
      BY <1>2, <2>1 DEF EtagRelease
    <2>. QED  BY <2>5, <2>6
  <1>4. CASE p # r
    <2>1. SameFor(r)
      BY <1>4, Others
    <2>2. pc[r] = "commit" /\ ew'[r] = ew[r] /\ size'[r] = size[r] /\ own'[r] = own[r]
      BY <2>1 DEF SameFor
    <2>3. ew[r] # None
      BY <2>2, EtagHasWriter DEF PoolInv, Taken
    <2>4. array'[ew[r]] = array[ew[r]]
      <3>1. CASE Arrive(p)
        BY <3>1 DEF Arrive
      <3>2. CASE ~Arrive(p)
        <4>1. ew[p] # ew[r]
          BY <1>1, <1>4, <2>3 DEF Alone
        <4>2. UNCHANGED array \/ \E kept \in Bodies : array' = [array EXCEPT ![ew[p]] = Overwrite(array[ew[p]], used[ew[p]], kept)]
          BY <3>2, StepBuffer
        <4>3. ew[r] \in Writers /\ array \in [Writers -> Bodies]
          BY <2>3 DEF Types, OutTypes, EtagTypes
        <4>. QED  BY <4>1, <4>2, <4>3
      <3>. QED  BY <3>1, <3>2
    <2>. QED  BY <1>1, <2>2, <2>4 DEF Saved
  <1>. QED  BY <1>3, <1>4

\* No body follows a status that has none.
LEMMA SilentStep ==
    ASSUME PoolInv, Types, NEW r \in Requests, Phase(r), Ordered(r), SilentEmpty(r), Handler(r) \/ Unwind(r)
    PROVE  SilentEmpty(r)'
  <1>1. PICK n \in 0..level[r] : n = level'[r] /\ Acts(r, n) /\ UNCHANGED chain
    BY HandlerActs, UnwindActs
  <1>2. raw \in [Requests -> RawType] /\ Shape /\ n \in Nat
    BY DEF Types, OutTypes, RawType, PoolInv, Shape
  <1>3. ASSUME NEW code \in Statuses, NEW map \in Maps
        PROVE  /\ HeaderRaw(r, n, code, map) \in RawType
               /\ HeaderRaw(r, n, code, map).status \in Silent => HeaderRaw(r, n, code, map).body = <<>>
    BY <1>2, HeaderTypes, HeaderAtServer DEF SilentEmpty, Ordered
  <1>4. CASE UNCHANGED <<layer, raw, own, array>>
    BY <1>4 DEF SilentEmpty
  <1>5. CASE \E code \in Statuses, map \in Maps : WriteHeader(r, n, code, map)
    BY <1>2, <1>3, <1>5 DEF WriteHeader, SilentEmpty
  <1>6. CASE \E code \in Statuses, map \in Maps, pieces \in Bodies : Write(r, n, code, map, pieces)
    <2>1. PICK code \in Statuses, map \in Maps, pieces \in Bodies : Write(r, n, code, map, pieces)
      BY <1>6
    <2>2. PICK kept \in Bodies : kept = Pass(r, n, Buffering(r, n, code), pieces)
      BY PassTypes
    <2>3. raw'[r] = HeaderRaw(r, n, code, map) \/ raw'[r] = Sent(HeaderRaw(r, n, code, map), kept)
      BY <1>2, <2>1, <2>2 DEF Write
    <2>4. PICK out \in RawType : out = HeaderRaw(r, n, code, map)
      BY <1>3
    <2>5. out.status \in Silent => out.body = <<>>
      BY <1>3, <2>4
    <2>6. Sent(out, kept).status = out.status /\ (out.status \in Silent => Sent(out, kept) = out)
      BY SentTypes, SentForms
    <2>. QED  BY <2>3, <2>4, <2>5, <2>6 DEF SilentEmpty
  <1>. QED  BY <1>1, <1>4, <1>5, <1>6 DEF Acts

-----------------------------------------------------------------------------
LEMMA PassOnly ==
    ASSUME NEW r, NEW n \in Nat, NEW i \in Nat, NEW pieces \in Bodies, Only(pieces, TRUE)
    PROVE  Only(Pass(r, n, i, pieces), TRUE)
  BY PassForms

LEMMA OnlyConcat ==
    ASSUME NEW a \in Bodies, NEW b \in Bodies, NEW p, Only(a, p), Only(b, p)
    PROVE  a \o b \in Bodies /\ Only(a \o b, p)
  <1>1. a \in Seq(Piece) /\ b \in Seq(Piece) /\ DOMAIN a = 1..Len(a) /\ DOMAIN b = 1..Len(b)
    BY DEF Bodies
  <1>2. a \o b \in Seq(Piece) /\ Len(a \o b) = Len(a) + Len(b)
    BY <1>1
  <1>3. \A k \in 1..Len(a \o b) : \/ k \in 1..Len(a) /\ (a \o b)[k] = a[k]
                                  \/ k - Len(a) \in 1..Len(b) /\ (a \o b)[k] = b[k - Len(a)]
    BY <1>1, <1>2
  <1> DEFINE s == a \o b
  <1> HIDE DEF s
  <1>4. s \in Seq(Piece) /\ DOMAIN s = 1..Len(s)
    BY <1>2 DEF s
  <1>5. \A k \in 1..Len(s) : \/ k \in 1..Len(a) /\ s[k] = a[k]
                             \/ k - Len(a) \in 1..Len(b) /\ s[k] = b[k - Len(a)]
    BY <1>3 DEF s
  <1>6. Only(s, p)
    BY <1>1, <1>4, <1>5 DEF Only
  <1>. QED  BY <1>4, <1>6 DEF s, Bodies

\* A body that gets one more piece ends with it.
LEMMA ClosedBy ==
    ASSUME NEW a \in Bodies, NEW x \in Piece, x.what = Trailer
    PROVE  Closed(a \o <<x>>)
  <1>1. a \in Seq(Piece) /\ Len(a) \in Nat /\ <<x>> \in Seq(Piece) /\ Len(<<x>>) = 1
    BY DEF Bodies
  <1>2. a \o <<x>> \in Seq(Piece) /\ Len(a \o <<x>>) = Len(a) + 1 /\ (a \o <<x>>)[Len(a) + 1] = x
    BY <1>1
  <1>. QED  BY <1>1, <1>2 DEF Closed, Last

LEMMA Compressor ==
    ASSUME Shape, NEW r \in Requests, NEW c \in 1..Len(chain[r]), chain[r][c] = "compress"
    PROVE  /\ chain[r] # <<"static">> /\ Has(r, "compress", 0) /\ Wraps("compress") /\ c \in Nat /\ Len(chain[r]) \in Nat
           /\ \A i \in 1..Len(chain[r]) : chain[r][i] # "static" /\ (chain[r][i] = "compress" => i = c)
           /\ \A i, j \in 1..Len(chain[r]) : chain[r][i] = "etag" /\ chain[r][j] = "etag" => i = j
           /\ level[r] \in Nat /\ level[r] <= Len(chain[r])
  <1>1. /\ DOMAIN chain[r] = 1..Len(chain[r]) /\ Len(chain[r]) \in Nat
        /\ \A i, j \in 1..Len(chain[r]) :
              chain[r][i] = chain[r][j] /\ chain[r][i] \in {"compress", "etag"} => i = j
        /\ \A i \in 1..Len(chain[r]) : chain[r][i] = "static" => chain[r] = <<"static">>
    BY ChainKinds
  <1>2. chain[r] # <<"static">>
    <2>1. ASSUME chain[r] = <<"static">> PROVE FALSE
      <3>1. Len(chain[r]) = 1 /\ chain[r][1] = "static"
        BY <2>1
      <3>2. c = 1
        BY <3>1
      <3>. QED  BY <3>1, <3>2
    <2>. QED  BY <2>1
  <1>3. Has(r, "compress", 0)
    BY <1>1 DEF Has
  <1>4. level[r] \in Nat /\ level[r] <= Len(chain[r])
    BY DEF Shape
  <1>. QED  BY <1>1, <1>2, <1>3, <1>4 DEF Wraps

\* The headers and the status the server has are set together.
SetsRaw(r) ==
    \/ raw'[r].status = raw[r].status /\ raw'[r].headers = raw[r].headers
    \/ raw[r].status = 0 /\ raw'[r].status # 0 /\ raw'[r].headers = hdr'[r]

LEMMA SendsSets ==
    ASSUME Shape, Types, NEW r \in Requests, NEW n \in Nat, NEW code \in Statuses, NEW map \in Maps,
           NEW pieces \in Bodies, SendsHeader(r, n, code, map) \/ SendsBody(r, n, code, map, pieces)
    PROVE  SetsRaw(r) /\ Sending(r, n, code, map)
  <1>1. PICK out \in RawType : out = HeaderRaw(r, n, code, map)
    BY HeaderTypes
  <1>2. /\ code # 0
        /\ \/ out = raw[r]
           \/ raw[r].status = 0 /\ out.status = code /\ out.headers = HeaderMap(r, n, code, map)
    BY <1>1, HeaderAtServer DEF Statuses
  <1>3. Sending(r, n, code, map)
    BY DEF SendsHeader, SendsBody
  <1>4. /\ raw'[r].status = out.status /\ raw'[r].headers = out.headers
        \/ raw'[r] = raw[r]
    <2>1. PICK kept \in Bodies : kept = Pass(r, n, 0, pieces)
      BY PassTypes
    <2>2. raw'[r] = out \/ raw'[r] = Sent(out, kept) \/ raw'[r] = raw[r]
      BY <1>1, <2>1 DEF SendsHeader, SendsBody
    <2>3. Sent(out, kept).status = out.status /\ Sent(out, kept).headers = out.headers
      BY SentTypes
    <2>. QED  BY <2>2, <2>3
  <1>. QED  BY <1>2, <1>3, <1>4 DEF SetsRaw, Sending

\* Once a compressor has seen a status it keeps it.
LEMMA WroteStays ==
    ASSUME Shape, Types, NEW r \in Requests, NEW n \in 0..Len(chain[r]), NEW code \in Statuses, NEW map \in Maps,
           Sending(r, n, code, map), NEW c \in 1..Len(chain[r]), chain[r][c] = "compress"
    PROVE  /\ layer[r][c].wrote => layer'[r][c] = layer[r][c] /\ hdr'[r] = map
           /\ ~layer'[r][c].wrote => ~layer[r][c].wrote /\ hdr'[r] = map
           /\ c > n => layer'[r][c] = layer[r][c] /\ hdr'[r] = map
  <1>1. Turns(r, n, code, map, c)
    BY HeaderAtCompressor
  <1>2. c \in Nat /\ n \in Nat
    BY ChainKinds
  <1>. QED  BY <1>1, <1>2 DEF Turns, Sending

\* Whoever has the header, the compressor at c has seen it if it is inside.
LEMMA SeenPassed ==
    ASSUME Shape, NEW r \in Requests, NEW c \in 1..Len(chain[r]), chain[r][c] = "compress",
           NEW n \in 0..Len(chain[r]), c <= n, chain'[r] = chain[r], Passed(r, n)'
    PROVE  layer'[r][c].wrote = TRUE /\ layer'[r][c].status = raw'[r].status
  <1>1. c \in 1..n /\ Wraps(chain'[r][c])
    BY Compressor, ChainKinds
  <1>2. layer'[r][c] = [wrote |-> TRUE, status |-> raw'[r].status]
    BY <1>1 DEF Passed, Wraps
  <1>. QED  BY <1>2

LEMMA SeenKept ==
    ASSUME Shape, NEW r \in Requests, NEW c \in 1..Len(chain[r]), chain[r][c] = "compress",
           NEW n \in 0..Len(chain[r]), c <= n, chain'[r] = chain[r], NEW e \in 1..n, KeptAt(r, n, e)'
    PROVE  /\ e < c => layer'[r][c].wrote /\ layer'[r][c].status = 200
           /\ ~(e < c) => ~layer'[r][c].wrote
  <1>1. /\ c \in 1..n /\ Wraps(chain'[r][c]) /\ n \in Nat
        /\ \A i \in 1..n : chain'[r][i] # "static"
    BY Compressor, ChainKinds
  <1>2. /\ chain'[r][e] = "etag"
        /\ \A i \in 1..(e - 1) : layer'[r][i] = [wrote |-> FALSE, status |-> 200]
        /\ \A i \in e..n : Wraps(chain'[r][i]) => layer'[r][i].wrote /\ layer'[r][i].status = 200
    BY <1>1 DEF KeptAt, Wraps
  <1>3. e # c
    BY <1>2
  <1>4. e < c => layer'[r][c].wrote /\ layer'[r][c].status = 200
    <2>1. e < c => c \in e..n
      BY <1>1
    <2>. QED  BY <1>1, <1>2, <2>1
  <1>5. ~(e < c) => ~layer'[r][c].wrote
    <2>1. ~(e < c) => c \in 1..(e - 1)
      BY <1>1, <1>3
    <2>. QED  BY <1>2, <2>1
  <1>. QED  BY <1>4, <1>5

LEMMA AnnouncedStep ==
    ASSUME Shape, Types, NEW r \in Requests, Flow(r), NEW c \in 1..Len(chain[r]), chain[r][c] = "compress",
           Announced(r, c), NEW n \in 0..level[r], NEW code \in Statuses, NEW map \in Maps,
           HeaderStep(r, n, code, map), Sending(r, n, code, map), SetsRaw(r), Turned(hdr[r]) => Turned(map)
    PROVE  Announced(r, c)'
  <1>1. /\ level[r] \in Nat /\ level[r] <= Len(chain[r]) /\ Len(chain[r]) \in Nat /\ n \in Nat /\ n \in 0..Len(chain[r])
        /\ c \in Nat /\ Wraps("compress") /\ chain'[r] = chain[r]
    BY Compressor, ChainKinds DEF HeaderStep
  <1>2. Turns(r, n, code, map, c)
    BY <1>1, HeaderAtCompressor
  <1>3. layer'[r] = HeaderLayers(r, n, code) /\ hdr'[r] = HeaderMap(r, n, code, map)
    BY DEF Sending
  <1>4. 0 \notin Silent /\ 200 \notin Silent
    BY DEF Silent
  <1>5. CASE layer'[r][c] = layer[r][c] /\ hdr'[r] = map
    BY <1>4, <1>5 DEF Announced, SetsRaw
  <1>6. CASE /\ layer[r][c].wrote = FALSE /\ c <= n
             /\ layer'[r][c].wrote = TRUE /\ layer'[r][c].status = code
             /\ code \notin Silent => Turned(hdr'[r])
    <2>1. raw[r].status = 0
      <3>1. c \in 1..level[r]
        BY <1>1, <1>6
      <3>2. ~Passed(r, level[r])
        BY <1>1, <1>6, <3>1 DEF Passed
      <3>. QED  BY <3>2 DEF Flow, Untouched, Kept, KeptAt
    <2>2. layer'[r][c].wrote = TRUE /\ layer'[r][c].status = code
      BY <1>6
    <2>3. CASE code \notin Silent
      <3>1. Turned(hdr'[r])
        BY <1>6, <2>3
      <3>. QED  BY <1>4, <2>1, <2>2, <2>3, <3>1 DEF Announced, SetsRaw, Turned
    <2>4. CASE code \in Silent
      <3>1. Passed(r, n)' \/ \E e \in 1..n : KeptAt(r, n, e)'
        BY <1>1, HeaderDecides DEF Flow
      <3>2. raw'[r].status = code
        <4>1. ASSUME NEW e \in 1..n, KeptAt(r, n, e)' PROVE FALSE
          <5>1. c <= n /\ n \in 0..Len(chain[r])
            BY <1>1, <1>6
          <5>2. /\ e < c => layer'[r][c].wrote /\ layer'[r][c].status = 200
                /\ ~(e < c) => ~layer'[r][c].wrote
            BY <1>1, <4>1, <5>1, SeenKept
          <5>. QED  BY <1>4, <2>2, <2>4, <5>2
        <4>2. layer'[r][c].status = raw'[r].status
          BY <1>1, <1>6, <3>1, <4>1, SeenPassed
        <4>. QED  BY <2>2, <4>2
      <3>. QED  BY <2>2, <2>4, <3>2 DEF Announced
    <2>. QED  BY <2>3, <2>4
  <1>. QED  BY <1>2, <1>3, <1>5, <1>6 DEF Turns

-----------------------------------------------------------------------------
\* A compressor's response, step by step.
LEMMA PackedRests ==
    ASSUME PoolInv, Types, NEW r \in Requests, Phase(r), Flow(r), Current(r), SilentEmpty(r),
           NEW c \in 1..Len(chain[r]), chain[r][c] = "compress", PackedFits(r, c), Resting(r), chain'[r] = chain[r],
           \/ Arrive(r) /\ ended'[r] = ended[r]
           \/ level'[r] = level[r] /\ ended'[r] # "running"
           \/ /\ ended'[r] # "running" /\ level'[r] \in {level[r], level[r] - 1}
              /\ level'[r] # level[r] /\ chain[r][level[r]] = "compress" =>
                    layer[r][level[r]].wrote /\ layer[r][level[r]].status \in Silent
    PROVE  PackedFits(r, c)'
  <1>1. Announced(r, c) /\ Unannounced(r, c) /\ AllPacked(r, c) /\ Ended(r, c)
    BY DEF PackedFits
  <1>2. layer'[r] = layer[r] /\ hdr'[r] = hdr[r] /\ raw'[r] = raw[r] /\ own'[r] = own[r] /\ said'[r] = said[r]
    BY DEF Resting, OutSame
  <1>3. /\ c \in Nat /\ level[r] \in Nat /\ level[r] <= Len(chain[r]) /\ Len(chain[r]) \in Nat /\ Wraps("compress")
    BY Compressor DEF PoolInv
  <1>4. Announced(r, c)' /\ AllPacked(r, c)'
    BY <1>1, <1>2 DEF Announced, AllPacked, EtagOutside
  <1>5. Unannounced(r, c)'
    BY <1>1, <1>2 DEF Unannounced
  <1>6. Ended(r, c)'
    <2>1. CASE level[r] < c
      BY <1>1, <1>2, <2>1 DEF Ended, EtagOutside
    <2>2. CASE ~(level[r] < c) /\ Arrive(r)
      <3>1. pc[r] = "new" /\ said[r] = 0 /\ own[r] = <<>>
        BY <2>2 DEF Arrive, Phase, Current
      <3>2. Untouched(r, level[r]) /\ c \in 1..level[r]
        BY <1>3, <2>2, <3>1 DEF Flow, Inside
      <3>3. layer[r][c] = [wrote |-> FALSE, status |-> 200]
        BY <3>2 DEF Untouched
      <3>4. raw[r].body = <<>>
        BY <1>1, <3>3 DEF Unannounced
      <3>. QED  BY <1>2, <3>1, <3>4 DEF Ended, Closed
    <2>3. CASE ~(level[r] < c) /\ level'[r] < c /\ ~Arrive(r)
      <3>1. level[r] = c /\ level'[r] # level[r]
        BY <1>3, <2>3
      <3>2. layer[r][c].wrote /\ layer[r][c].status \in Silent
        BY <2>3, <3>1
      <3>3. raw[r].status \in Silent /\ raw[r].status # 0
        BY <1>1, <3>2 DEF Announced, Silent
      <3>4. raw[r].body = <<>>
        BY <3>3 DEF SilentEmpty
      <3>. QED  BY <1>2, <3>2, <3>3, <3>4 DEF Ended, Closed
    <2>4. CASE ~(level'[r] < c)
      BY <2>4 DEF Ended
    <2>. QED  BY <2>1, <2>2, <2>3, <2>4
  <1>. QED  BY <1>4, <1>5, <1>6 DEF PackedFits

LEMMA PackedDeclares ==
    ASSUME PoolInv, Types, NEW r \in Requests, NEW c \in 1..Len(chain[r]), chain[r][c] = "compress", PackedFits(r, c),
           layer'[r] = layer[r], raw'[r] = raw[r], own'[r] = own[r], said'[r] = said[r], chain'[r] = chain[r],
           level'[r] = level[r], level[r] = Len(chain[r]), Untouched(r, level[r]), ended'[r] # "running"
    PROVE  PackedFits(r, c)'
  <1>1. Announced(r, c) /\ Unannounced(r, c) /\ AllPacked(r, c) /\ Ended(r, c)
    BY DEF PackedFits
  <1>2. c \in Nat /\ level[r] \in Nat /\ c \in 1..level[r] /\ ~(level[r] < c)
    BY Compressor DEF PoolInv
  <1>3. layer[r][c] = [wrote |-> FALSE, status |-> 200]
    BY <1>2 DEF Untouched
  <1>4. Announced(r, c)' /\ AllPacked(r, c)' /\ Ended(r, c)'
    <2>1. layer'[r][c].wrote = FALSE
      BY <1>3
    <2>2. Announced(r, c)'
      BY <2>1 DEF Announced
    <2>3. AllPacked(r, c)'
      BY <1>1 DEF AllPacked, EtagOutside
    <2>4. Ended(r, c)'
      BY <1>2 DEF Ended
    <2>. QED  BY <2>2, <2>3, <2>4
  <1>5. Unannounced(r, c)'
    BY <1>1 DEF Unannounced
  <1>. QED  BY <1>4, <1>5 DEF PackedFits

LEMMA PackedFirst ==
    ASSUME PoolInv, Types, NEW r \in Requests, Flow(r), NEW c \in 1..Len(chain[r]), chain[r][c] = "compress",
           PackedFits(r, c), NEW code \in Statuses, SendsHeader(r, level[r], code, hdr[r]),
           HeaderStep(r, level[r], code, hdr[r]), level'[r] = level[r], said[r] = 0, ended[r] = "running",
           Untouched(r, level[r]), said'[r] # 0, code # 200 \/ level[r] = Len(chain[r])
    PROVE  PackedFits(r, c)'
  <1>1. Announced(r, c) /\ Unannounced(r, c) /\ AllPacked(r, c) /\ Ended(r, c)
    BY DEF PackedFits
  <1>2. /\ Shape /\ c \in Nat /\ level[r] \in Nat /\ level[r] \in 0..Len(chain[r]) /\ level[r] \in 0..level[r]
        /\ Len(chain[r]) \in Nat /\ \A i \in 1..level[r] : chain[r][i] # "static"
        /\ hdr[r] \in Maps /\ chain'[r] = chain[r]
    BY Compressor DEF PoolInv, Types, OutTypes, HeaderStep
  <1>3. SetsRaw(r) /\ Sending(r, level[r], code, hdr[r])
    <2>1. PICK pieces \in Bodies : pieces = <<Plain(ErrorText)>>
      BY PiecesAreTyped
    <2>. QED  BY <1>2, SendsSets
  <1>4. Announced(r, c)'
    BY <1>1, <1>2, <1>3, AnnouncedStep
  <1>5. raw'[r].body = raw[r].body /\ own'[r] = own[r]
    BY HeaderAtServer DEF SendsHeader
  <1>6. ~layer'[r][c].wrote => ~layer[r][c].wrote /\ hdr'[r] = hdr[r]
    BY <1>2, <1>3, WroteStays
  <1>7. Unannounced(r, c)'
    BY <1>1, <1>3, <1>5, <1>6 DEF Unannounced, SetsRaw
  <1>8. AllPacked(r, c)'
    BY <1>1, <1>2, <1>5 DEF AllPacked, EtagOutside
  <1>9. Ended(r, c)'
    <2>1. SUFFICES ASSUME level[r] < c PROVE Ended(r, c)'
      BY DEF Ended
    <2>2. \A e \in 1..level[r] : ~Keeper(r, e, code)
      BY <1>2, <2>1 DEF Keeper
    <2>3. raw'[r].status # 0
      <3>1. raw'[r].status = code
        BY <1>2, <2>2, HeaderPassed
      <3>. QED  BY <3>1 DEF Statuses
    <2>. QED  BY <1>1, <1>5, <2>1, <2>3 DEF Ended
  <1>. QED  BY <1>4, <1>7, <1>8, <1>9 DEF PackedFits

\* What becomes of the body a write at n hands on.
LEMMA BodySent ==
    ASSUME Types, NEW r \in Requests, NEW n \in Nat, NEW code \in Statuses, NEW map \in Maps, NEW pieces \in Bodies,
           raw'[r] = Sent(HeaderRaw(r, n, code, map), Pass(r, n, 0, pieces)), Shape
    PROVE  \E out \in RawType, kept \in Bodies :
              /\ kept = Pass(r, n, 0, pieces) /\ raw'[r] = Sent(out, kept)
              /\ out.body = raw[r].body /\ raw'[r].status = out.status /\ raw'[r].headers = out.headers
              /\ \/ out = raw[r]
                 \/ raw[r].status = 0 /\ out.status = code /\ out.headers = HeaderMap(r, n, code, map)
  <1>1. PICK out \in RawType : out = HeaderRaw(r, n, code, map)
    BY HeaderTypes
  <1>2. PICK kept \in Bodies : kept = Pass(r, n, 0, pieces)
    BY PassTypes
  <1>3. /\ out.body = raw[r].body
        /\ \/ out = raw[r]
           \/ raw[r].status = 0 /\ out.status = code /\ out.headers = HeaderMap(r, n, code, map)
    BY <1>1, HeaderAtServer
  <1>4. raw'[r] = Sent(out, kept)
    BY <1>1, <1>2
  <1>5. Sent(out, kept).status = out.status /\ Sent(out, kept).headers = out.headers
    BY SentTypes
  <1>. QED  BY <1>2, <1>3, <1>4, <1>5

\* All that is sent or kept by a write inside the compressor, or of packed
\* pieces, is packed.
LEMMA PackedBody ==
    ASSUME PoolInv, Types, NEW r \in Requests, NEW c \in 1..Len(chain[r]), chain[r][c] = "compress", AllPacked(r, c),
           NEW n \in 0..Len(chain[r]), NEW code \in Statuses, NEW map \in Maps, NEW pieces \in Bodies,
           SendsBody(r, n, code, map, pieces), c <= n \/ Only(pieces, TRUE), chain'[r] = chain[r]
    PROVE  AllPacked(r, c)'
  <1>1. /\ Shape /\ c \in Nat /\ n \in Nat /\ Len(chain[r]) \in Nat
        /\ \A i, j \in 1..Len(chain[r]) : chain[r][i] = "etag" /\ chain[r][j] = "etag" => i = j
        /\ \A i \in 1..Len(chain[r]) : chain[r][i] # "static"
        /\ own[r] \in Bodies
    BY Compressor DEF PoolInv, Types, OutTypes
  <1>2. \A e \in 0..n : (c <= n /\ e < c) \/ Only(pieces, TRUE) => Only(Pass(r, n, e, pieces), TRUE)
    <2>1. ASSUME NEW e \in 0..n, c <= n, e < c PROVE Only(Pass(r, n, e, pieces), TRUE)
      <3>1. e \in Nat /\ c \in (e + 1)..n
        BY <1>1, <2>1
      <3>. QED  BY <1>1, <3>1, PassForms
    <2>2. ASSUME NEW e \in 0..n, Only(pieces, TRUE) PROVE Only(Pass(r, n, e, pieces), TRUE)
      <3>1. e \in Nat
        BY <1>1
      <3>. QED  BY <1>1, <2>2, <3>1, PassOnly
    <2>. QED  BY <2>1, <2>2
  <1>3. CASE raw'[r] = Sent(HeaderRaw(r, n, code, map), Pass(r, n, 0, pieces)) /\ own'[r] = own[r]
    <2>1. PICK out \in RawType, kept \in Bodies : /\ kept = Pass(r, n, 0, pieces) /\ raw'[r] = Sent(out, kept)
                                                  /\ out.body = raw[r].body
      BY <1>1, <1>3, BodySent
    <2>2. Only(kept, TRUE)
      <3>1. 0 \in 0..n /\ 0 < c
        BY <1>1
      <3>. QED  BY <1>2, <2>1, <3>1
    <2>3. Only(Sent(out, kept).body, TRUE)
      BY <2>1, <2>2, SentOnly DEF AllPacked
    <2>. QED  BY <1>3, <2>1, <2>3 DEF AllPacked, EtagOutside
  <1>4. ASSUME NEW e \in 1..n, KeptAt(r, n, e)', raw'[r] = raw[r], own'[r] = own[r] \o Pass(r, n, e, pieces)
        PROVE  AllPacked(r, c)'
    <2>1. EtagOutside(r, c) => Only(own'[r], TRUE)
      <3>1. SUFFICES ASSUME EtagOutside(r, c) PROVE Only(own'[r], TRUE)
        OBVIOUS
      <3>2. PICK i \in 1..(c - 1) : chain[r][i] = "etag"
        BY <3>1 DEF EtagOutside
      <3>3. chain[r][e] = "etag"
        <4>1. chain'[r][e] \in {"etag", "static"}
          BY <1>4 DEF KeptAt
        <4>2. e \in 1..Len(chain[r])
          BY <1>1
        <4>. QED  BY <1>1, <4>1, <4>2
      <3>4. e \in 0..n /\ e < c
        BY <1>1, <3>2, <3>3
      <3>5. PICK kept \in Bodies : kept = Pass(r, n, e, pieces)
        BY PassTypes
      <3>6. Only(kept, TRUE)
        BY <1>2, <3>4, <3>5
      <3>7. Only(own[r] \o kept, TRUE)
        BY <1>1, <3>1, <3>6, OnlyConcat DEF AllPacked
      <3>. QED  BY <1>4, <3>5, <3>7
    <2>. QED  BY <1>4, <2>1 DEF AllPacked, EtagOutside
  <1>. QED  BY <1>3, <1>4 DEF SendsBody

LEMMA PackedWrite ==
    ASSUME PoolInv, Types, NEW r \in Requests, Flow(r), NEW c \in 1..Len(chain[r]), chain[r][c] = "compress",
           PackedFits(r, c), NEW pieces \in Bodies, SendsBody(r, level[r], 200, hdr[r], pieces),
           HeaderStep(r, level[r], 200, hdr[r]), level'[r] = level[r], ended'[r] # "running",
           level[r] = Len(chain[r])
    PROVE  PackedFits(r, c)'
  <1>1. Announced(r, c) /\ Unannounced(r, c) /\ AllPacked(r, c) /\ Ended(r, c)
    BY DEF PackedFits
  <1>2. PICK n : n = level[r]
    OBVIOUS
  <1>3. /\ Shape /\ c \in Nat /\ n \in Nat /\ n \in 0..Len(chain[r]) /\ n \in 0..level[r] /\ c <= n /\ ~(level[r] < c)
        /\ Len(chain[r]) \in Nat /\ hdr[r] \in Maps /\ chain'[r] = chain[r] /\ 200 \in Statuses
    BY <1>2, Compressor DEF PoolInv, Types, OutTypes, HeaderStep, Statuses
  <1>4. SetsRaw(r) /\ Sending(r, n, 200, hdr[r])
    BY <1>2, <1>3, SendsSets
  <1>5. Announced(r, c)'
    BY <1>1, <1>2, <1>3, <1>4, AnnouncedStep
  <1>6. AllPacked(r, c)'
    BY <1>1, <1>2, <1>3, PackedBody
  <1>7. ~layer'[r][c].wrote => ~layer[r][c].wrote
    BY <1>3, <1>4, WroteStays
  <1>8. ~layer'[r][c].wrote => raw'[r] = raw[r]
    <2>1. Passed(r, n)' => layer'[r][c].wrote
      BY <1>3, SeenPassed
    <2>. QED  BY <1>2, <2>1 DEF SendsBody
  <1>9. Unannounced(r, c)'
    BY <1>1, <1>7, <1>8 DEF Unannounced
  <1>10. Ended(r, c)'
    BY <1>3 DEF Ended
  <1>. QED  BY <1>5, <1>6, <1>9, <1>10 DEF PackedFits

LEMMA PackedCloses ==
    ASSUME PoolInv, Types, NEW r \in Requests, Flow(r), Ordered(r), SilentEmpty(r), NEW c \in 1..Len(chain[r]),
           chain[r][c] = "compress", PackedFits(r, c), level[r] = c, level'[r] = c - 1,
           layer[r][c].wrote, layer[r][c].status \notin Silent,
           NEW n \in Nat, n = c - 1, SendsBody(r, n, 200, hdr[r], <<Packed(Trailer)>>),
           HeaderStep(r, n, 200, hdr[r]), ended'[r] # "running"
    PROVE  PackedFits(r, c)'
  <1>1. Announced(r, c) /\ Unannounced(r, c) /\ AllPacked(r, c) /\ Ended(r, c)
    BY DEF PackedFits
  <1>2. /\ Shape /\ c \in Nat /\ n \in 0..Len(chain[r]) /\ n \in 0..level[r] /\ c > n
        /\ Len(chain[r]) \in Nat /\ hdr[r] \in Maps /\ chain'[r] = chain[r] /\ 200 \in Statuses
        /\ \A i \in 1..Len(chain[r]) : chain[r][i] # "static" /\ (chain[r][i] = "compress" => i = c)
        /\ raw[r] \in RawType /\ own[r] \in Bodies
    BY Compressor DEF PoolInv, Types, OutTypes, HeaderStep, Statuses, RawType
  <1>3. PICK pieces \in Bodies : pieces = <<Packed(Trailer)>>
    BY PiecesAreTyped
  <1>4. Packed(Trailer) \in Piece /\ Packed(Trailer).what = Trailer /\ Packed(Trailer).packed = TRUE /\ Only(pieces, TRUE)
    BY <1>3 DEF Packed, Piece, Only
  <1>5. SetsRaw(r) /\ Sending(r, n, 200, hdr[r])
    BY <1>2, <1>3, SendsSets
  <1>6. Announced(r, c)'
    BY <1>1, <1>2, <1>5, AnnouncedStep
  <1>7. AllPacked(r, c)'
    BY <1>1, <1>2, <1>3, <1>4, PackedBody
  <1>8. layer'[r][c] = layer[r][c]
    BY <1>2, <1>5, WroteStays
  <1>9. Unannounced(r, c)'
    BY <1>8 DEF Unannounced
  <1>10. \A e \in Nat : Pass(r, n, e, pieces) = pieces
    <2>1. ASSUME NEW e \in Nat PROVE Pass(r, n, e, pieces) = pieces
      <3>1. \A j \in (e + 1)..n : chain[r][j] # "compress"
        BY <1>2
      <3>. QED  BY <3>1, PassPlain
    <2>. QED  BY <2>1
  <1>11. Closed(raw'[r].body) /\ (raw'[r].status = 0 => Closed(own'[r]))
    <2>1. CASE Passed(r, n)' /\ raw'[r] = Sent(HeaderRaw(r, n, 200, hdr[r]), Pass(r, n, 0, pieces))
      <3>1. PICK out \in RawType, kept \in Bodies :
              /\ kept = Pass(r, n, 0, pieces) /\ raw'[r] = Sent(out, kept)
              /\ out.body = raw[r].body /\ raw'[r].status = out.status /\ raw'[r].headers = out.headers
              /\ out = raw[r] \/ raw[r].status = 0
        BY <1>2, <2>1, BodySent
      <3>2. kept = pieces
        BY <1>10, <3>1
      <3>3. raw'[r].status # 0
        BY <2>1 DEF Passed
      <3>4. CASE out.status \in Silent
        <4>1. raw'[r] = out
          BY <3>1, <3>4, SentForms
        <4>2. raw[r].body = <<>>
          BY <3>1, <3>4 DEF SilentEmpty, Ordered
        <4>. QED  BY <3>1, <3>3, <4>1, <4>2 DEF Closed
      <3>5. CASE out.status \notin Silent
        <4>1. Turned(out.headers)
          BY <1>6, <1>8, <3>1, <3>3, <3>5 DEF Announced
        <4>2. raw'[r].body = out.body \o pieces
          BY <3>1, <3>2, <3>5, <4>1, SentForms DEF Turned
        <4>3. Closed(raw'[r].body)
          BY <1>2, <1>3, <1>4, <3>1, <4>2, ClosedBy DEF RawType
        <4>. QED  BY <3>3, <4>3
      <3>. QED  BY <3>4, <3>5
    <2>2. ASSUME NEW e \in 1..n, raw[r].status = 0, raw'[r] = raw[r], own'[r] = own[r] \o Pass(r, n, e, pieces)
          PROVE  Closed(raw'[r].body) /\ Closed(own'[r])
      <3>1. Pass(r, n, e, pieces) = pieces
        BY <1>10
      <3>2. Closed(own'[r])
        BY <1>2, <1>3, <1>4, <2>2, <3>1, ClosedBy
      <3>. QED  BY <2>2, <3>2 DEF Ordered, Closed
    <2>. QED  BY <1>3, <2>1, <2>2 DEF SendsBody
  <1>12. Ended(r, c)'
    BY <1>8, <1>11 DEF Ended
  <1>. QED  BY <1>6, <1>7, <1>9, <1>12 DEF PackedFits

LEMMA PackedCommits ==
    ASSUME PoolInv, Types, NEW r \in Requests, Flow(r), Ordered(r), NEW c \in 1..Len(chain[r]),
           chain[r][c] = "compress", PackedFits(r, c), level[r] > 0, chain[r][level[r]] = "etag",
           NEW n \in Nat, n = level[r] - 1, level'[r] = n, raw[r].status = 0, said[r] # 0, ended'[r] # "running",
           NEW code \in Statuses, NEW map \in Maps, HeaderStep(r, n, code, map), Turned(hdr[r]) => Turned(map),
           SendsHeader(r, n, code, map) \/ SendsBody(r, n, code, map, own[r])
    PROVE  PackedFits(r, c)'
  <1>1. Announced(r, c) /\ Unannounced(r, c) /\ AllPacked(r, c) /\ Ended(r, c)
    BY DEF PackedFits
  <1>2. /\ Shape /\ c \in Nat /\ level[r] \in Nat /\ level[r] \in 1..Len(chain[r]) /\ n \in 0..Len(chain[r]) /\ n \in 0..level[r]
        /\ Len(chain[r]) \in Nat /\ hdr[r] \in Maps /\ chain'[r] = chain[r] /\ level[r] # c
        /\ \A i \in 1..Len(chain[r]) : chain[r][i] # "static" /\ (chain[r][i] = "compress" => i = c)
        /\ raw[r] \in RawType /\ own[r] \in Bodies /\ level[r] <= Len(chain[r])
    BY Compressor DEF PoolInv, Types, OutTypes, HeaderStep, RawType
  <1>3. SetsRaw(r) /\ Sending(r, n, code, map)
    BY <1>2, SendsSets
  <1>4. Announced(r, c)'
    BY <1>1, <1>2, <1>3, AnnouncedStep
  <1>5. \A e \in 1..n : ~KeptAt(r, n, e)'
    <2>1. ASSUME NEW e \in 1..n, KeptAt(r, n, e)' PROVE FALSE
      <3>1. chain'[r][e] \in {"etag", "static"}
        BY <2>1 DEF KeptAt
      <3>. QED  BY <1>2, <3>1, OnlyEtag
    <2>. QED  BY <2>1
  <1>6. Passed(r, n)' /\ raw'[r].status # 0
    <2>1. Passed(r, n)'
      BY <1>2, <1>5, HeaderDecides DEF Flow
    <2>. QED  BY <2>1 DEF Passed
  <1>7. layer'[r][c].wrote
    <2>1. CASE c <= n
      BY <1>2, <1>6, <2>1, SeenPassed
    <2>2. CASE ~(c <= n)
      <3>1. level[r] < c
        BY <1>2, <2>2
      <3>2. layer[r][c].wrote
        BY <1>1, <3>1 DEF Ended
      <3>. QED  BY <1>2, <1>3, <3>2, WroteStays
    <2>. QED  BY <2>1, <2>2
  <1>8. Unannounced(r, c)'
    BY <1>7 DEF Unannounced
  <1>9. ~(c <= n) => level[r] < c /\ EtagOutside(r, c)
    <2>1. ~(c <= n) => level[r] < c /\ level[r] \in 1..(c - 1)
      BY <1>2
    <2>. QED  BY <2>1 DEF EtagOutside
  <1>10. raw[r].body = <<>>
    BY DEF Ordered
  <1>11. CASE SendsHeader(r, n, code, map)
    <2>1. raw'[r].body = raw[r].body /\ own'[r] = own[r]
      BY <1>11, HeaderAtServer DEF SendsHeader
    <2>2. AllPacked(r, c)'
      BY <1>1, <1>2, <2>1 DEF AllPacked, EtagOutside
    <2>3. Ended(r, c)'
      BY <1>6, <1>10, <2>1 DEF Ended, Closed
    <2>. QED  BY <1>4, <1>8, <2>2, <2>3 DEF PackedFits
  <1>12. CASE SendsBody(r, n, code, map, own[r])
    <2>1. c <= n \/ Only(own[r], TRUE)
      BY <1>1, <1>9 DEF AllPacked
    <2>2. PICK pieces \in Bodies : pieces = own[r]
      BY <1>2
    <2>3. AllPacked(r, c)'
      BY <1>1, <1>2, <1>12, <2>1, <2>2, PackedBody
    <2>4. raw'[r] = Sent(HeaderRaw(r, n, code, map), Pass(r, n, 0, pieces))
      BY <1>5, <1>12, <2>2 DEF SendsBody
    <2>5. ASSUME ~(c <= n) PROVE Closed(raw'[r].body)
      <3>1. PICK out \in RawType, kept \in Bodies :
              /\ kept = Pass(r, n, 0, pieces) /\ raw'[r] = Sent(out, kept)
              /\ out.body = raw[r].body /\ raw'[r].status = out.status /\ raw'[r].headers = out.headers
        BY <1>2, <2>4, BodySent
      <3>2. kept = pieces
        <4>1. PICK i \in Nat : i = 0
          OBVIOUS
        <4>2. \A j \in (i + 1)..n : chain[r][j] # "compress"
          BY <1>2, <2>5, <4>1
        <4>3. Pass(r, n, i, pieces) = pieces
          BY <4>2, PassPlain
        <4>. QED  BY <3>1, <4>1, <4>3
      <3>3. Closed(pieces)
        BY <1>1, <1>9, <2>2, <2>5 DEF Ended
      <3>4. CASE out.status \in Silent
        <4>1. raw'[r] = out
          BY <3>1, <3>4, SentForms
        <4>. QED  BY <1>10, <3>1, <4>1 DEF Closed
      <3>5. CASE out.status \notin Silent
        <4>1. Turned(out.headers)
          <5>1. layer'[r][c].status \notin Silent
            BY <1>4, <1>7, <3>1, <3>5 DEF Announced
          <5>. QED  BY <1>4, <1>6, <1>7, <3>1, <3>5 DEF Announced
        <4>2. raw'[r].body = <<>> \o pieces
          BY <1>10, <3>1, <3>2, <3>5, <4>1, SentForms DEF Turned
        <4>3. <<>> \o pieces = pieces
          BY DEF Bodies
        <4>. QED  BY <3>3, <4>2, <4>3
      <3>. QED  BY <3>4, <3>5
    <2>6. Ended(r, c)'
      <3>1. SUFFICES ASSUME n < c PROVE Ended(r, c)'
        BY DEF Ended
      <3>2. ~(c <= n)
        BY <1>2, <3>1
      <3>. QED  BY <1>6, <2>5, <3>2 DEF Ended
    <2>. QED  BY <1>4, <1>8, <2>3, <2>6 DEF PackedFits
  <1>. QED  BY <1>11, <1>12

LEMMA PackedStep ==
    ASSUME PoolInv, Types, NEW r \in Requests, Phase(r), Flow(r), Stands(r), Ordered(r), Current(r), Saved(r),
           SilentEmpty(r), Going(r), Handler(r) \/ Unwind(r), chain'[r] = chain[r],
           NEW c \in 1..Len(chain[r]), chain[r][c] = "compress", PackedFits(r, c)
    PROVE  PackedFits(r, c)'
  <1>1. /\ chain[r] # <<"static">> /\ Has(r, "compress", 0) /\ c \in Nat /\ level[r] \in Nat
        /\ \A i \in 1..Len(chain[r]) : chain[r][i] = "compress" => i = c
        /\ level[r] > 0 => level[r] \in 1..Len(chain[r]) /\ level[r] - 1 \in Nat
        /\ {200, 304, 412} \subseteq Statuses
        /\ hdr[r] \in Maps /\ <<Packed(Trailer)>> \in Bodies /\ \A page \in Pages : <<Plain(page)>> \in Bodies
    BY Compressor, PiecesAreTyped DEF PoolInv, Types, OutTypes, Statuses
  <1>2. CASE Handler(r)
    <2>1. pc[r] = "handler" => level[r] = Len(chain[r])
      BY DEF Phase
    <2>2. CASE Idles(r)
      BY <2>2, PackedRests DEF Idles
    <2>3. CASE Declares(r)
      BY <2>1, <2>3, PackedDeclares DEF Declares
    <2>4. ASSUME NEW code \in Statuses, SetsStatus(r, code)
          PROVE  PackedFits(r, c)'
      <3>0. /\ SendsHeader(r, level[r], code, hdr[r]) /\ HeaderStep(r, level[r], code, hdr[r])
            /\ pc[r] = "refuse" => code # 200
            /\ level'[r] = level[r] /\ said[r] = 0 /\ ended[r] = "running" /\ Untouched(r, level[r])
            /\ said'[r] # 0 /\ pc[r] \in {"refuse", "handler"}
        BY <2>4 DEF SetsStatus
      <3>1. code # 200 \/ level[r] = Len(chain[r])
        BY <2>1, <3>0
      <3>. QED  BY <3>0, <3>1, PackedFirst
    <2>5. ASSUME NEW page \in Pages, WritesPage(r, page)
          PROVE  PackedFits(r, c)'
      <3>0. /\ SendsBody(r, level[r], 200, hdr[r], <<Plain(page)>>) /\ HeaderStep(r, level[r], 200, hdr[r])
            /\ level'[r] = level[r] /\ pc[r] = "handler" /\ ended'[r] = "wrote"
        BY <2>5 DEF WritesPage
      <3>1. PICK pieces \in Bodies : pieces = <<Plain(page)>>
        BY <1>1
      <3>2. SendsBody(r, level[r], 200, hdr[r], pieces) /\ ended'[r] # "running" /\ level[r] = Len(chain[r])
        BY <2>1, <3>0, <3>1
      <3>. QED  BY <3>0, <3>2, PackedWrite
    <2>. QED  BY <1>2, <2>2, <2>3, <2>4, <2>5, HandlerForms
  <1>3. CASE Unwind(r)
    <2>1. ended[r] = "ok" /\ said[r] # 0 /\ ended'[r] # "running"
      <3>1. ended[r] \in {"ok", "err"} /\ (ended[r] = "err" => ~Has(r, "compress", 0))
            /\ (ended[r] = "ok" /\ Has(r, "compress", 0) => said[r] # 0)
        BY <1>3, GoesWell
      <3>2. ended'[r] # "running"
        BY <1>3, <3>1, UnwindEnds
      <3>. QED  BY <1>1, <3>1, <3>2
    <2>2. CASE Rests(r)
      BY <2>1, <2>2, PackedRests DEF Rests
    <2>3. CASE Closes(r)
      <3>1. level[r] = c
        BY <1>1, <2>3 DEF Closes
      <3>2. PICK n \in Nat : n = c - 1
        BY <1>1, <2>3, <3>1 DEF Closes
      <3>3. /\ SendsBody(r, n, 200, hdr[r], <<Packed(Trailer)>>) /\ HeaderStep(r, n, 200, hdr[r])
            /\ level'[r] = c - 1 /\ layer[r][c].wrote /\ layer[r][c].status \notin Silent
        BY <2>3, <3>1, <3>2 DEF Closes
      <3>. QED  BY <2>1, <3>1, <3>2, <3>3, PackedCloses
    <2>4. CASE CommitsKept(r)
      <3>1. PICK n \in Nat : n = level[r] - 1
        BY <1>1, <2>4 DEF CommitsKept
      <3>2. ASSUME NEW code \in {304, 412}, SendsHeader(r, n, code, hdr[r]), HeaderStep(r, n, code, hdr[r])
            PROVE  PackedFits(r, c)'
        <4>1. PICK map \in Maps : map = hdr[r]
          BY <1>1
        <4>2. code \in Statuses /\ SendsHeader(r, n, code, map) /\ HeaderStep(r, n, code, map)
          BY <1>1, <3>2, <4>1
        <4>3. Turned(hdr[r]) => Turned(map)
          BY <4>1
        <4>4. level'[r] = n /\ chain[r][level[r]] = "etag" /\ level[r] > 0 /\ raw[r].status = 0
          BY <2>4, <3>1 DEF CommitsKept
        <4>. QED  BY <2>1, <3>1, <4>2, <4>3, <4>4, PackedCommits
      <3>3. ASSUME NEW map \in Maps, map = [hdr[r] EXCEPT !.etag = tag[r]], SendsBody(r, n, 200, map, own[r]),
                   HeaderStep(r, n, 200, map)
            PROVE  PackedFits(r, c)'
        <4>1. Turned(hdr[r]) => Turned(map)
          BY <1>1, <3>3 DEF Turned, Maps
        <4>2. PICK code \in Statuses : code = 200
          BY <1>1
        <4>3. /\ level'[r] = n /\ SendsBody(r, n, code, map, own[r]) /\ HeaderStep(r, n, code, map)
              /\ chain[r][level[r]] = "etag" /\ level[r] > 0 /\ raw[r].status = 0
          BY <2>4, <3>1, <3>3, <4>2 DEF CommitsKept
        <4>. QED  BY <2>1, <3>1, <4>1, <4>3, PackedCommits
      <3>. QED  BY <2>4, <3>1, <3>2, <3>3 DEF CommitsKept
    <2>5. ~Flushes(r) /\ ~Fails(r) /\ ~Empties(r)
      BY <1>1, <2>1 DEF Flushes, Fails, Empties
    <2>. QED  BY <1>3, <2>2, <2>3, <2>4, <2>5, UnwindForms
  <1>. QED  BY <1>2, <1>3

\* Static files.
LEMMA StaticStep ==
    ASSUME PoolInv, Types, NEW r \in Requests, Phase(r), Flow(r), Stands(r), Ordered(r), Saved(r),
           Going(r), Handler(r) \/ Unwind(r), chain'[r] = chain[r], chain[r] = <<"static">>, StaticFits(r)
    PROVE  StaticFits(r)'
  <1> SUFFICES ASSUME level'[r] = 0 PROVE StaticFits(r)'
    BY DEF StaticFits
  <1>1. Shape /\ level[r] \in Nat /\ Len(chain[r]) = 1 /\ chain[r][1] = "static" /\ hdr[r] \in Maps /\ raw[r] \in RawType
    BY DEF PoolInv, Shape, Types, OutTypes, RawType
  <1>2. CASE Resting(r) /\ level'[r] = level[r]
    BY <1>2 DEF Resting, OutSame, StaticFits
  <1>3. CASE Handler(r)
    <2>1. level[r] = 0 => pc[r] # "handler" /\ pc[r] # "new"
      BY <1>1 DEF Phase
    <2>2. ~Arrive(r)
      <3>1. ASSUME Arrive(r) PROVE FALSE
        <4>1. DOMAIN chain[r] = 1..1 /\ Refusals("static") = {}
          BY <1>1, ChainKinds DEF Refusals
        <4>2. Stops(r) = {1}
          BY <1>1, <4>1 DEF Stops
        <4>3. level'[r] = 1
          BY <3>1, <4>2 DEF Arrive, PoolInv, Shape
        <4>. QED  BY <4>3
      <3>. QED  BY <3>1
    <2>3. level'[r] = level[r] /\ pc[r] \in {"handler", "refuse"}
      BY <1>3, <2>2 DEF Handler, Refuse, HandlerHeader, HandlerDeclares, HandlerWrite, HandlerEnds
    <2>4. pc[r] = "refuse"
      BY <2>1, <2>3
    <2>5. PICK code : Refuse(r, code)
      BY <1>3, <2>4 DEF Handler, Arrive, HandlerHeader, HandlerDeclares, HandlerWrite, HandlerEnds
    <2>6. level[r] + 1 = 1
      BY <2>3
    <2>7. code \in Refusals("static")
      BY <1>1, <2>5, <2>6 DEF Refuse
    <2>. QED  BY <2>7 DEF Refusals
  <1>4. CASE Unwind(r)
    <2>1. CASE Flushes(r)
      <3>1. PICK code \in Statuses, pieces \in Bodies : /\ Only(pieces, TRUE) /\ Closed(pieces)
                                                        /\ SendsBody(r, 0, code, Compressed(hdr[r]), pieces)
        BY <2>1 DEF Flushes
      <3>2. Compressed(hdr[r]) \in Maps /\ Turned(Compressed(hdr[r]))
        BY MapForms DEF Compressed, Maps, Turned
      <3>3. PICK n \in Nat, map \in Maps : n = 0 /\ map = Compressed(hdr[r])
        BY <3>2
      <3>4. Turned(map) /\ SendsBody(r, n, code, map, pieces) /\ n \in 0..Len(chain[r])
        BY <1>1, <3>1, <3>2, <3>3
      <3>5. raw'[r] = Sent(HeaderRaw(r, n, code, map), Pass(r, n, 0, pieces)) /\ Passed(r, n)'
        BY <3>3, <3>4 DEF SendsBody
      <3>6. PICK out \in RawType, kept \in Bodies :
              /\ kept = Pass(r, n, 0, pieces) /\ raw'[r] = Sent(out, kept)
              /\ out.body = raw[r].body /\ raw'[r].status = out.status /\ raw'[r].headers = out.headers
              /\ \/ out = raw[r]
                 \/ raw[r].status = 0 /\ out.status = code /\ out.headers = HeaderMap(r, n, code, map)
        BY <1>1, <3>5, BodySent
      <3>7. kept = pieces
        <4>1. PICK i \in Nat : i = 0
          OBVIOUS
        <4>2. \A j \in (i + 1)..n : chain[r][j] # "compress"
          BY <3>3, <4>1
        <4>3. Pass(r, n, i, pieces) = pieces
          BY <4>2, PassPlain
        <4>. QED  BY <3>6, <4>1, <4>3
      <3>8. raw'[r].status # 0
        BY <3>5 DEF Passed
      <3>9. Turned(out.headers)
        <4>1. HeaderMap(r, n, code, map) = map
          BY <1>1, <3>3, <3>4, HeaderUnpacked
        <4>. QED  BY <2>1, <3>4, <3>6, <3>8, <4>1 DEF Flushes
      <3>10. raw[r].body = <<>> /\ Only(<<>>, TRUE)
        BY <2>1 DEF Flushes, Ordered, Only
      <3>11. raw'[r].body \in {<<>>, pieces}
        <4>1. raw'[r].body \in {out.body, out.body \o kept}
          BY <3>6, <3>9, SentForms DEF Turned
        <4>2. <<>> \o pieces = pieces
          BY DEF Bodies
        <4>. QED  BY <3>6, <3>7, <3>10, <4>1, <4>2
      <3>. QED  BY <3>1, <3>6, <3>8, <3>9, <3>10, <3>11 DEF StaticFits, Closed
    <2>2. ~(level[r] > 0 /\ chain[r][level[r]] \in {"compress", "etag"})
      <3>1. level[r] > 0 => level[r] = 1
        <4>1. level[r] <= Len(chain[r])
          BY <1>1 DEF Shape
        <4>. QED  BY <1>1, <4>1
      <3>. QED  BY <1>1, <3>1
    <2>3. ended[r] # "err"
      BY <1>4, UnwindEnds DEF Phase
    <2>4. CASE Rests(r)
      BY <1>2, <2>4 DEF Rests
    <2>5. ~Closes(r) /\ ~CommitsKept(r) /\ ~Fails(r) /\ ~Empties(r)
      BY <2>2, <2>3 DEF Closes, CommitsKept, Fails, Empties, StaticFits
    <2>. QED  BY <1>4, <2>1, <2>4, <2>5, UnwindForms
  <1>. QED  BY <1>3, <1>4

-----------------------------------------------------------------------------
\* Without a compressor nothing is packed and no header is changed.
StaysBare(r, map) ==
    /\ hdr'[r] = map
    /\ raw'[r].headers.packed = FALSE
    /\ Only(own'[r], FALSE) /\ Only(raw'[r].body, FALSE)
    /\ Sized(raw'[r])

KeepsBare(r, n, pieces) ==
    \/ raw'[r].status # 0 /\ own'[r] = own[r]
    \/ own'[r] = own[r] \o pieces /\ raw'[r] = raw[r] /\ \E e \in 1..n : KeptAt(r, n, e)'

LEMMA BareBody ==
    ASSUME Shape, Types, NEW r \in Requests, ~Has(r, "compress", 0), Ordered(r), BareFits(r),
           NEW n \in 0..Len(chain[r]), NEW code \in Statuses, NEW map \in Maps, NEW pieces \in Bodies,
           SendsBody(r, n, code, map, pieces), Only(pieces, FALSE), map.packed = FALSE, map.length \in {0, 1},
           raw[r].status = 0 /\ map.length = 1 => Len(pieces) = 1
    PROVE  StaysBare(r, map) /\ KeepsBare(r, n, pieces)
  <1> USE DEF StaysBare, KeepsBare
  <1>1. /\ n \in Nat /\ raw[r] \in RawType /\ own[r] \in Bodies
        /\ raw[r].headers.packed = FALSE /\ Only(own[r], FALSE) /\ Only(raw[r].body, FALSE) /\ Sized(raw[r])
    <2>1. n \in Nat /\ raw[r] \in RawType /\ own[r] \in Bodies
      BY ChainKinds DEF Types, OutTypes, RawType
    <2>. QED  BY <2>1 DEF BareFits
  <1>2. HeaderMap(r, n, code, map) = map
    BY HeaderUnpacked
  <1>3. hdr'[r] = map
    BY <1>2 DEF SendsBody, Sending
  <1>4. \A e \in 0..n : Pass(r, n, e, pieces) = pieces
    <2>1. ASSUME NEW e \in 0..n PROVE Pass(r, n, e, pieces) = pieces
      <3>1. e \in Nat /\ \A j \in (e + 1)..n : chain[r][j] # "compress"
        BY ChainKinds DEF Has
      <3>. QED  BY <3>1, PassPlain
    <2>. QED  BY <2>1
  <1>5. CASE /\ Passed(r, n)' /\ own'[r] = own[r]
             /\ raw'[r] = Sent(HeaderRaw(r, n, code, map), Pass(r, n, 0, pieces))
    <2>1. PICK out \in RawType, kept \in Bodies :
            /\ kept = Pass(r, n, 0, pieces) /\ raw'[r] = Sent(out, kept)
            /\ out.body = raw[r].body /\ raw'[r].status = out.status /\ raw'[r].headers = out.headers
            /\ \/ out = raw[r]
               \/ raw[r].status = 0 /\ out.status = code /\ out.headers = HeaderMap(r, n, code, map)
      BY <1>1, <1>5, BodySent
    <2>2. kept = pieces
      <3>1. 0 \in 0..n
        BY <1>1
      <3>. QED  BY <1>4, <2>1, <3>1
    <2>3. raw'[r].status # 0
      BY <1>5 DEF Passed
    <2>4. raw'[r].headers.packed = FALSE
      BY <1>1, <1>2, <2>1
    <2>5. Only(raw'[r].body, FALSE)
      BY <1>1, <2>1, <2>2, SentOnly
    <2>6. Sized(raw'[r])
      <3>1. CASE out = raw[r]
        BY <1>1, <2>1, <3>1, SentForms
      <3>2. CASE raw[r].status = 0 /\ out.headers = map
        <4>1. out.body = <<>>
          BY <2>1, <3>2 DEF Ordered
        <4>2. CASE map.length = 0
          <5>1. Sized(out)
            BY <3>2, <4>2 DEF Sized
          <5>. QED  BY <2>1, <5>1, SentForms
        <4>3. CASE map.length = 1
          BY <2>1, <2>2, <3>2, <4>1, <4>3, SentForms
        <4>. QED  BY <4>2, <4>3
      <3>. QED  BY <1>2, <2>1, <3>1, <3>2
    <2>. QED  BY <1>1, <1>3, <1>5, <2>3, <2>4, <2>5, <2>6
  <1>6. ASSUME NEW e \in 1..n, KeptAt(r, n, e)', raw'[r] = raw[r], own'[r] = own[r] \o Pass(r, n, e, pieces)
        PROVE  own'[r] = own[r] \o pieces /\ Only(own'[r], FALSE)
    <2>1. Pass(r, n, e, pieces) = pieces
      BY <1>1, <1>4
    <2>2. Only(own[r] \o pieces, FALSE)
      BY <1>1, OnlyConcat
    <2>. QED  BY <1>6, <2>1, <2>2
  <1>. QED  BY <1>1, <1>3, <1>5, <1>6 DEF SendsBody

LEMMA BareHeader ==
    ASSUME Shape, Types, NEW r \in Requests, ~Has(r, "compress", 0), BareFits(r),
           NEW n \in 0..Len(chain[r]), NEW code, SendsHeader(r, n, code, hdr[r]),
           hdr[r].length = 0 \/ code \in Silent \cup {412}
    PROVE  StaysBare(r, hdr[r]) /\ own'[r] = own[r] /\ (raw'[r] = raw[r] \/ raw'[r].status = code)
  <1> USE DEF StaysBare
  <1>1. HeaderMap(r, n, code, hdr[r]) = hdr[r]
    BY HeaderUnpacked
  <1>2. hdr'[r] = hdr[r] /\ own'[r] = own[r] /\ raw'[r] = HeaderRaw(r, n, code, hdr[r])
    BY <1>1 DEF SendsHeader, Sending
  <1>3. /\ raw'[r].body = raw[r].body
        /\ raw'[r] = raw[r] \/ (raw'[r].status = code /\ raw'[r].headers = hdr[r])
    BY <1>1, <1>2, HeaderAtServer
  <1>4. Only(raw'[r].body, FALSE) /\ Only(own'[r], FALSE)
    BY <1>2, <1>3 DEF BareFits
  <1>5. CASE raw'[r] = raw[r]
    BY <1>2, <1>4, <1>5 DEF BareFits
  <1>6. CASE raw'[r].status = code /\ raw'[r].headers = hdr[r]
    <2>1. raw'[r].headers.packed = FALSE /\ Sized(raw'[r])
      BY <1>6 DEF BareFits, Sized
    <2>. QED  BY <1>2, <1>4, <1>6, <2>1
  <1>. QED  BY <1>3, <1>5, <1>6

LEMMA BareRests ==
    ASSUME NEW r \in Requests, BareFits(r), Resting(r), chain'[r] = chain[r],
           ended'[r] = ended[r] \/ (ended[r] \in {"running", "wrote"} /\ ended'[r] \in {"ok", "err", "panic"})
                                \/ ended'[r] \in {"err", "panic"}
    PROVE  BareFits(r)'
  <1>1. hdr'[r] = hdr[r] /\ raw'[r] = raw[r] /\ own'[r] = own[r]
    BY DEF Resting, OutSame
  <1>2. /\ ended'[r] \in {"running", "copying"} => own[r] = <<>>
        /\ ended'[r] = "running" => hdr[r].length = 0
        /\ hdr[r].length = 1 /\ ended'[r] \in {"wrote", "ok"} /\ raw[r].status = 0 => Len(own[r]) = 1
        /\ ended'[r] = "wrote" => said[r] # 0
        /\ ended'[r] = "ok" /\ said[r] = 0 => hdr[r].length = 0
        /\ said'[r] = said[r]
    BY DEF BareFits, Resting
  <1>. QED  BY <1>1, <1>2 DEF BareFits

LEMMA BareStep ==
    ASSUME PoolInv, Types, NEW r \in Requests, Phase(r), Flow(r), Stands(r), Ordered(r), Saved(r),
           Going(r), Handler(r) \/ Unwind(r), chain'[r] = chain[r], chain[r] # <<"static">>,
           ~Has(r, "compress", 0), BareFits(r)
    PROVE  BareFits(r)'
  <1>1. /\ Shape /\ level[r] \in Nat /\ level[r] \in 0..Len(chain[r]) /\ Len(chain[r]) \in Nat /\ 0 \in 0..Len(chain[r])
        /\ {200, 304, 412, 500} \subseteq Statuses /\ hdr[r] \in Maps /\ own[r] \in Bodies /\ raw[r] \in RawType
        /\ \A i \in 1..Len(chain[r]) : chain[r][i] # "compress"
    <2>1. Shape /\ level[r] \in Nat /\ level[r] <= Len(chain[r]) /\ Len(chain[r]) \in Nat
      BY ChainKinds DEF PoolInv, Shape
    <2>. QED  BY <2>1 DEF Types, OutTypes, RawType, Statuses, Has
  <1>0. Shape /\ 0 # 1
    BY DEF PoolInv
  <1>2. /\ hdr[r].packed = FALSE /\ Only(own[r], FALSE) /\ hdr[r].length \in {0, 1}
        /\ ended[r] \in {"running", "copying"} => own[r] = <<>>
        /\ ended[r] = "running" => hdr[r].length = 0
        /\ hdr[r].length = 1 /\ ended[r] \in {"wrote", "ok"} /\ raw[r].status = 0 => Len(own[r]) = 1
        /\ ended[r] = "wrote" => said[r] # 0
        /\ ended[r] = "ok" /\ said[r] = 0 => hdr[r].length = 0
    BY DEF BareFits
  <1>3. CASE Handler(r)
    <2>1. CASE Idles(r)
      <3>1. \/ ended'[r] = ended[r]
            \/ ended[r] \in {"running", "wrote"} /\ ended'[r] \in {"ok", "err", "panic"}
            \/ ended'[r] \in {"err", "panic"}
        BY <2>1 DEF Idles, Phase
      <3>. QED  BY <2>1, <3>1, BareRests DEF Idles
    <2>2. CASE Declares(r)
      <3>1. hdr'[r].packed = FALSE /\ hdr'[r].length = 1
        BY <1>1, <1>2, <2>2 DEF Declares, Maps
      <3>. QED  BY <2>2, <3>1 DEF Declares, BareFits
    <2>3. ASSUME NEW code \in Statuses, SetsStatus(r, code)
          PROVE  BareFits(r)'
      <3>0. /\ SendsHeader(r, level[r], code, hdr[r]) /\ ended[r] = "running" /\ said'[r] # 0
            /\ \/ pc[r] = "refuse" /\ ended'[r] = "ok"
               \/ pc[r] = "handler" /\ ended'[r] = "running"
        BY <2>3 DEF SetsStatus
      <3>1. PICK n \in 0..Len(chain[r]) : n = level[r]
        BY <1>1
      <3>2. SendsHeader(r, n, code, hdr[r]) /\ hdr[r].length = 0
        BY <1>2, <3>0, <3>1
      <3>3. StaysBare(r, hdr[r]) /\ own'[r] = own[r]
        BY <1>0, <3>2, BareHeader
      <3>4. hdr'[r].length = 0 /\ hdr'[r].packed = FALSE
        BY <1>2, <3>2, <3>3 DEF StaysBare
      <3>5. ended'[r] \in {"running", "copying"} => own'[r] = <<>>
        BY <1>2, <3>0, <3>3
      <3>7. ended'[r] = "running" => hdr'[r].length = 0
        BY <3>4
      <3>8. hdr'[r].length = 1 /\ ended'[r] \in {"wrote", "ok"} /\ raw'[r].status = 0 => Len(own'[r]) = 1
        BY <1>0, <3>4
      <3>9. hdr'[r].length \in {0, 1}
        BY <3>4
      <3>10. said'[r] # 0
        BY <3>0
      <3>. QED  BY <3>3, <3>4, <3>5, <3>7, <3>8, <3>9, <3>10, Zenon DEF StaysBare, BareFits
    <2>4. ASSUME NEW page \in Pages, WritesPage(r, page)
          PROVE  BareFits(r)'
      <3>0. /\ SendsBody(r, level[r], 200, hdr[r], <<Plain(page)>>)
            /\ ended[r] \in {"running", "copying"} /\ ended'[r] = "wrote" /\ said'[r] # 0
        BY <2>4 DEF WritesPage
      <3>1. PICK pieces \in Bodies : pieces = <<Plain(page)>>
        BY PiecesAreTyped
      <3>2. Len(pieces) = 1 /\ Only(pieces, FALSE)
        BY <3>1 DEF Only, Plain
      <3>3. PICK n \in 0..Len(chain[r]), code \in Statuses, map \in Maps : n = level[r] /\ code = 200 /\ map = hdr[r]
        BY <1>1
      <3>4. SendsBody(r, n, code, map, pieces) /\ map.packed = FALSE /\ map.length \in {0, 1}
        BY <1>2, <3>0, <3>1, <3>3
      <3>5. StaysBare(r, map) /\ KeepsBare(r, n, pieces)
        BY <1>0, <3>2, <3>4, BareBody
      <3>6. raw'[r].status = 0 => Len(own'[r]) = 1
        <4>1. raw'[r].status = 0 => own'[r] = <<>> \o pieces
          BY <1>2, <3>0, <3>5 DEF KeepsBare
        <4>2. <<>> \o pieces = pieces
          BY <3>3 DEF Bodies
        <4>. QED  BY <3>2, <4>1, <4>2
      <3>7. /\ ended'[r] \in {"running", "copying"} => own'[r] = <<>>
            /\ ended'[r] = "running" => hdr'[r].length = 0
            /\ hdr'[r].length = 1 /\ ended'[r] \in {"wrote", "ok"} /\ raw'[r].status = 0 => Len(own'[r]) = 1
            /\ ended'[r] = "wrote" => said'[r] # 0
            /\ ended'[r] = "ok" /\ said'[r] = 0 => hdr'[r].length = 0
        BY <3>0, <3>6
      <3>8. StaysBare(r, map)
        BY <3>5
      <3>9. hdr'[r].packed = FALSE /\ hdr'[r].length \in {0, 1}
        BY <3>4, <3>8 DEF StaysBare
      <3>10. raw'[r].headers.packed = FALSE /\ Sized(raw'[r])
        BY <3>8 DEF StaysBare
      <3>11. Only(own'[r], FALSE) /\ Only(raw'[r].body, FALSE)
        BY <3>8 DEF StaysBare
      <3>. QED  BY <3>9, <3>10, <3>11, <3>7 DEF BareFits
    <2>. QED  BY <1>3, <2>1, <2>2, <2>3, <2>4, HandlerForms
  <1>4. CASE Unwind(r)
    <2>1. ended'[r] = ended[r] /\ ended[r] \in {"ok", "err"} /\ said'[r] = said[r]
      BY <1>4, UnwindEnds, GoesWell
    <2>2. CASE Rests(r)
      BY <2>1, <2>2, BareRests DEF Rests
    <2>3. ~Closes(r) /\ ~Flushes(r)
      <3>1. level[r] > 0 => level[r] \in 1..Len(chain[r])
        BY <1>1
      <3>. QED  BY <1>1, <3>1 DEF Closes, Flushes
    <2>4. CASE CommitsKept(r)
      <3>1. PICK n \in Nat : n = level[r] - 1
        BY <1>1, <2>4 DEF CommitsKept
      <3>2. n \in 0..Len(chain[r]) /\ raw[r].status = 0
        BY <1>1, <2>4, <3>1 DEF CommitsKept
      <3>3. ASSUME NEW code \in {304, 412}, SendsHeader(r, n, code, hdr[r]) PROVE BareFits(r)'
        <4>0. SendsHeader(r, n, code, hdr[r]) /\ n \in 0..Len(chain[r])
          BY <3>2, <3>3
        <4>1. code # 0 /\ (hdr[r].length = 0 \/ code \in Silent \cup {412})
          BY DEF Silent
        <4>2. StaysBare(r, hdr[r]) /\ own'[r] = own[r] /\ (raw'[r] = raw[r] \/ raw'[r].status = code)
          BY <1>0, <4>0, <4>1, BareHeader
        <4>3. hdr'[r].length = hdr[r].length /\ hdr'[r].packed = FALSE
          BY <1>2, <4>2 DEF StaysBare
        <4>4. raw'[r].status = 0 => raw[r].status = 0
          BY <3>2
        <4>. QED  BY <1>2, <2>1, <4>2, <4>3, <4>4 DEF StaysBare, BareFits
      <3>4. ASSUME NEW map \in Maps, map = [hdr[r] EXCEPT !.etag = tag[r]], SendsBody(r, n, 200, map, own[r])
            PROVE  BareFits(r)'
        <4>1. map.packed = FALSE /\ map.length = hdr[r].length
          BY <1>1, <1>2, <3>4 DEF Maps
        <4>2. PICK code \in Statuses, pieces \in Bodies : code = 200 /\ pieces = own[r]
          BY <1>1
        <4>3. ended[r] = "ok"
          BY <2>4 DEF CommitsKept
        <4>4. /\ SendsBody(r, n, code, map, pieces) /\ Only(pieces, FALSE) /\ map.length \in {0, 1}
              /\ raw[r].status = 0 /\ map.length = 1 => Len(pieces) = 1
          BY <1>2, <3>4, <4>1, <4>2, <4>3
        <4>5. StaysBare(r, map) /\ KeepsBare(r, n, pieces)
          BY <1>0, <3>2, <4>1, <4>4, BareBody
        <4>6. ASSUME NEW e \in 1..n, KeptAt(r, n, e)' PROVE FALSE
          <5>1. chain'[r][e] \in {"etag", "static"}
            BY <4>6 DEF KeptAt
          <5>2. level[r] > 0 /\ chain[r][level[r]] = "etag"
            BY <2>4 DEF CommitsKept
          <5>. QED  BY <1>1, <3>1, <5>1, <5>2, OnlyEtag
        <4>. QED  BY <2>1, <4>1, <4>3, <4>4, <4>5, <4>6 DEF StaysBare, KeepsBare, BareFits
      <3>. QED  BY <2>4, <3>1, <3>3, <3>4 DEF CommitsKept
    <2>5. CASE Fails(r)
      <3>1. PICK map \in Maps : map = [hdr[r] EXCEPT !.length = 0] /\ SendsBody(r, 0, 500, map, <<Plain(ErrorText)>>)
        BY <2>5 DEF Fails
      <3>2. map.packed = FALSE /\ map.length = 0
        BY <1>1, <1>2, <3>1 DEF Maps
      <3>3. PICK n \in 0..Len(chain[r]), code \in Statuses, pieces \in Bodies :
              n = 0 /\ code = 500 /\ pieces = <<Plain(ErrorText)>>
        BY <1>1, PiecesAreTyped
      <3>4. SendsBody(r, n, code, map, pieces) /\ Only(pieces, FALSE)
        BY <3>1, <3>3 DEF Only, Plain
      <3>7. map.length \in {0, 1} /\ (raw[r].status = 0 /\ map.length = 1 => Len(pieces) = 1)
        BY <1>0, <3>2
      <3>5. StaysBare(r, map)
        BY <1>0, <3>2, <3>4, <3>7, BareBody
      <3>6. ended'[r] = "err"
        BY <2>1, <2>5 DEF Fails
      <3>. QED  BY <3>2, <3>5, <3>6 DEF StaysBare, BareFits
    <2>6. CASE Empties(r)
      <3>1. PICK n \in 0..Len(chain[r]) : n = 0
        BY <1>1
      <3>2. SendsHeader(r, n, 200, hdr[r]) /\ hdr[r].length = 0 /\ ended[r] = "ok" /\ said[r] = 0
        BY <1>2, <2>6, <3>1 DEF Empties
      <3>3. StaysBare(r, hdr[r]) /\ own'[r] = own[r]
        BY <1>0, <3>2, BareHeader
      <3>4. hdr'[r].length = 0 /\ hdr'[r].packed = FALSE
        BY <1>2, <3>2, <3>3 DEF StaysBare
      <3>5. ended'[r] = "ok"
        BY <2>1, <3>2
      <3>. QED  BY <1>0, <3>3, <3>4, <3>5 DEF StaysBare, BareFits
    <2>. QED  BY <1>4, <2>2, <2>3, <2>4, <2>5, <2>6, UnwindForms
  <1>. QED  BY <1>3, <1>4

-----------------------------------------------------------------------------
\* Every step of a request, and of the others.
LEMMA FitsStep ==
    ASSUME PoolInv, Types, NEW r \in Requests, Served(r), Fits(r), Handler(r) \/ Unwind(r)
    PROVE  Fits(r)'
  <1>1. Phase(r) /\ Flow(r) /\ Stands(r) /\ Ordered(r) /\ Current(r)
    BY DEF Served
  <1>2. chain'[r] = chain[r]
    <2>1. Handler(r) => UNCHANGED chain
      BY DEF Handler, Arrive, Refuse, HandlerHeader, HandlerDeclares, HandlerWrite, HandlerEnds
    <2>. QED  BY <2>1, UnwindEnds
  <1>3. SilentEmpty(r) /\ Saved(r)
    BY DEF Fits
  <1>4. SilentEmpty(r)' /\ Saved(r)'
    BY <1>1, <1>3, SilentStep, SavedStep
  <1>5. Going(r)' => Going(r)
    BY <1>1, GoingBack
  <1>6. ASSUME Going(r), chain[r] = <<"static">> PROVE StaticFits(r)'
    <2>1. StaticFits(r)
      BY <1>6 DEF Fits
    <2>. QED  BY <1>1, <1>2, <1>3, <1>6, <2>1, StaticStep
  <1>7. ASSUME Going(r), chain[r] # <<"static">>, ~Has(r, "compress", 0) PROVE BareFits(r)'
    <2>1. BareFits(r)
      BY <1>7 DEF Fits
    <2>. QED  BY <1>1, <1>2, <1>3, <1>7, <2>1, BareStep
  <1>8. ASSUME Going(r), NEW c \in 1..Len(chain[r]), chain[r][c] = "compress" PROVE PackedFits(r, c)'
    <2>1. PackedFits(r, c)
      BY <1>8 DEF Fits
    <2>. QED  BY <1>1, <1>2, <1>3, <1>8, <2>1, PackedStep
  <1>9. Has(r, "compress", 0)' <=> Has(r, "compress", 0)
    BY <1>2 DEF Has
  <1>10. Going(r)' => \A c \in 1..Len(chain'[r]) : chain'[r][c] = "compress" => PackedFits(r, c)'
    BY <1>2, <1>5, <1>8
  <1>. QED  BY <1>2, <1>4, <1>5, <1>6, <1>7, <1>9, <1>10 DEF Fits

\* What a request that does not move has to show.
LEMMA FitsKept ==
    ASSUME NEW q \in Requests, SameFor(q), Fits(q), Going(q)' => Going(q), Saved(q)'
    PROVE  Fits(q)'
  <1>1. SilentEmpty(q)'
    BY DEF Fits, SilentEmpty, SameFor
  <1>2. StaticFits(q) => StaticFits(q)'
    BY DEF StaticFits, SameFor
  <1>3. BareFits(q) => BareFits(q)'
    BY DEF BareFits, SameFor
  <1>4. ASSUME NEW c, PackedFits(q, c) PROVE PackedFits(q, c)'
    <2>1. Announced(q, c)' /\ Unannounced(q, c)'
      BY <1>4 DEF PackedFits, Announced, Unannounced, SameFor
    <2>2. EtagOutside(q, c)' <=> EtagOutside(q, c)
      BY DEF EtagOutside, SameFor
    <2>3. AllPacked(q, c)' /\ Ended(q, c)'
      BY <1>4, <2>2 DEF PackedFits, AllPacked, Ended, SameFor
    <2>. QED  BY <2>1, <2>3 DEF PackedFits
  <1>5. chain'[q] = chain[q] /\ (Has(q, "compress", 0)' <=> Has(q, "compress", 0))
    BY DEF SameFor, Has
  <1>6. Going(q)' => \A c \in 1..Len(chain'[q]) : chain'[q][c] = "compress" => PackedFits(q, c)'
    BY <1>4, <1>5 DEF Fits
  <1>. QED  BY <1>1, <1>2, <1>3, <1>5, <1>6 DEF Fits

FitsInv == RespInv /\ \A r \in Requests : Fits(r)

LEMMA FitsInvStep == FitsInv /\ [Next]_vars => FitsInv'
  <1> SUFFICES ASSUME FitsInv, [Next]_vars, NEW q \in Requests PROVE Fits(q)'
    BY RespStep DEF FitsInv
  <1>1. PoolInv /\ Types /\ Served(q) /\ Fits(q)
    BY DEF FitsInv, RespInv
  <1>2. ASSUME NEW r \in Requests, Handler(r) \/ Unwind(r) PROVE Fits(q)'
    <2>1. CASE q = r
      BY <1>1, <1>2, <2>1, FitsStep
    <2>2. CASE q # r
      <3>1. SameFor(q)
        BY <1>1, <1>2, <2>2, Others
      <3>2. Phase(r) /\ Flow(r) /\ Current(q) /\ Saved(q)
        BY <1>1 DEF FitsInv, RespInv, Served, Fits
      <3>3. Going(q)' => Going(q)
        BY <1>1, <1>2, <3>2, GoingBack
      <3>4. Saved(q)'
        BY <1>1, <1>2, <3>2, SavedStep
      <3>. QED  BY <1>1, <3>1, <3>3, <3>4, FitsKept
    <2>. QED  BY <2>1, <2>2
  <1>3. ASSUME SameFor(q), UNCHANGED <<chain, ew, array>> PROVE Fits(q)'
    <2>1. (Alone(q)' <=> Alone(q)) /\ (Has(q, "compress", 0)' <=> Has(q, "compress", 0))
      BY <1>3 DEF Alone, Has
    <2>2. Going(q)' => Going(q)
      BY <1>3, <2>1 DEF Going, SameFor
    <2>3. Saved(q)'
      BY <1>1, <1>3, <2>1 DEF Fits, Saved, SameFor
    <2>. QED  BY <1>1, <1>3, <2>2, <2>3, FitsKept
  <1>4. ASSUME NEW r \in Requests, LogFails(r) PROVE Fits(q)'
    <2>1. CASE q # r
      BY <1>1, <1>3, <1>4, <2>1, FailedLog DEF outVars
    <2>2. CASE q = r
      <3>1. UNCHANGED outVars /\ pc'[q] = "unwind" /\ ended'[q] = "callback"
        BY <1>1, <1>4, <2>2, FailedLog
      <3>2. ~Going(q)'
        BY <3>1 DEF Going
      <3>3. SilentEmpty(q)' /\ Saved(q)'
        BY <1>1, <3>1 DEF Fits, SilentEmpty, Saved, outVars
      <3>. QED  BY <3>2, <3>3 DEF Fits
    <2>. QED  BY <2>1, <2>2
  <1>5. CASE UNCHANGED vars
    BY <1>3, <1>5 DEF vars, outVars, SameFor
  <1>. QED  BY <1>2, <1>4, <1>5 DEF Next

LEMMA FitsInit == Init => FitsInv
  <1> SUFFICES ASSUME Init, NEW r \in Requests PROVE Fits(r)
    BY RespInit DEF FitsInv
  <1>1. /\ pc[r] = "new" /\ level[r] = Len(chain[r]) /\ ended[r] = "running"
        /\ raw[r] = [status |-> 0, headers |-> NoHeaders, body |-> <<>>]
        /\ hdr[r] = NoHeaders /\ own[r] = <<>>
        /\ \A i \in DOMAIN chain[r] : layer[r][i] = [wrote |-> FALSE, status |-> 200]
    BY DEF Init
  <1>2. NoHeaders.packed = FALSE /\ NoHeaders.length = 0
    BY DEF NoHeaders
  <1>3. SilentEmpty(r) /\ Saved(r)
    BY <1>1 DEF SilentEmpty, Saved
  <1>4. chain[r] = <<"static">> => StaticFits(r)
    BY <1>1 DEF StaticFits
  <1>5. BareFits(r)
    BY <1>1, <1>2 DEF BareFits, Only, Sized
  <1>6. ASSUME NEW c \in 1..Len(chain[r]) PROVE PackedFits(r, c)
    <2>1. c \in DOMAIN chain[r] /\ ~(level[r] < c)
      BY <1>1, RespInit, ChainKinds DEF RespInv, PoolInv
    <2>2. layer[r][c].wrote = FALSE
      BY <1>1, <2>1
    <2>. QED  BY <1>1, <1>2, <2>1, <2>2 DEF PackedFits, Announced, Unannounced, AllPacked, Ended, Only
  <1>. QED  BY <1>3, <1>4, <1>5, <1>6 DEF Fits

\* A client that decodes a response as its headers announce gets what was
\* written, whatever the order of the middleware around it and whoever else is
\* served, if one compressor at most is among them: what is announced as packed
\* is packed from the first piece to the trailer, what is not is plain, and the
\* length is right where one is announced.  Promised of Intact requests: not when
\* the handler panicked, when a log's callback failed, when the handler failed
\* inside the compressor or returned nil there without having written, or when
\* another request has had the ETag writer.
THEOREM HeadersDescribeBody == Spec => []HeadersMatchBody
  <1>1. ASSUME FitsInv, NEW r \in Requests, pc[r] = "done", Intact(r)
        PROVE  /\ \A k \in DOMAIN raw[r].body : raw[r].body[k].packed = raw[r].headers.packed
               /\ raw[r].headers.packed /\ raw[r].body # <<>> => Last(raw[r].body).what = Trailer
               /\ raw[r].status \in Silent \cup {412} \/ raw[r].headers.length \in {0, Len(raw[r].body)}
    <2>1. Phase(r) /\ Stands(r) /\ Shape /\ Fits(r)
      BY <1>1 DEF FitsInv, RespInv, Served, PoolInv
    <2>2. level[r] = 0
      BY <1>1, <2>1 DEF Phase
    <2>3. Going(r)
      BY <1>1 DEF Intact, Going, Alone
    <2>4. CASE chain[r] = <<"static">>
      <3>1. StaticFits(r)
        BY <2>1, <2>3, <2>4 DEF Fits
      <3>. QED  BY <2>2, <3>1 DEF StaticFits, Turned, Only, Closed
    <2>5. CASE chain[r] # <<"static">> /\ ~Has(r, "compress", 0)
      <3>1. BareFits(r)
        BY <2>1, <2>3, <2>5 DEF Fits
      <3>2. /\ Only(raw[r].body, FALSE) /\ raw[r].headers.packed = FALSE /\ Sized(raw[r])
        BY <3>1 DEF BareFits
      <3>3. \A k \in DOMAIN raw[r].body : raw[r].body[k].packed = raw[r].headers.packed
        BY <3>2 DEF Only
      <3>4. raw[r].status \in Silent \cup {412} \/ raw[r].headers.length \in {0, Len(raw[r].body)}
        BY <3>2 DEF Sized
      <3>. QED  BY <3>2, <3>3, <3>4
    <2>6. ASSUME NEW c \in 1..Len(chain[r]), chain[r][c] = "compress"
          PROVE  /\ \A k \in DOMAIN raw[r].body : raw[r].body[k].packed = raw[r].headers.packed
                 /\ raw[r].headers.packed /\ raw[r].body # <<>> => Last(raw[r].body).what = Trailer
                 /\ raw[r].status \in Silent \cup {412} \/ raw[r].headers.length \in {0, Len(raw[r].body)}
      <3>1. PackedFits(r, c) /\ SilentEmpty(r)
        BY <2>1, <2>3, <2>6 DEF Fits
      <3>2. ended[r] = "ok" /\ said[r] # 0 /\ level[r] < c
        BY <1>1, <2>1, <2>2, <2>6, Compressor DEF Intact, Has
      <3>3. raw[r].status # 0
        <4>1. ~\E e \in 1..level[r] : KeptAt(r, level[r], e)
          BY <2>2
        <4>. QED  BY <2>1, <3>2, <4>1 DEF Stands, Passed
      <3>4. Only(raw[r].body, TRUE) /\ Closed(raw[r].body)
        BY <3>1, <3>2 DEF PackedFits, AllPacked, Ended
      <3>5. CASE raw[r].body = <<>> /\ raw[r].status \in Silent
        BY <3>5
      <3>6. CASE raw[r].body = <<>> /\ raw[r].headers.length = 0
        BY <3>6
      <3>7. CASE Turned(raw[r].headers)
        BY <3>4, <3>7 DEF Turned, Only, Closed
      <3>. QED  BY <3>1, <3>3, <3>5, <3>6, <3>7 DEF PackedFits, Announced, Unannounced, SilentEmpty
    <2>. QED  BY <2>4, <2>5, <2>6 DEF Has
  <1>2. FitsInv => HeadersMatchBody
    BY <1>1 DEF HeadersMatchBody
  <1>. QED  BY <1>2, FitsInit, FitsInvStep, PTL DEF Spec
=============================================================================
