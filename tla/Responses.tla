------------------------------ MODULE Responses -----------------------------
(***************************************************************************)
(* How a response gets from a handler to the client through a chain of     *)
(* middleware: panic recovery, the request log, gates (basic and bearer    *)
(* authentication, CORS), compression (the gzip and Brotli writers are one *)
(* design), and the ETag writer, whose buffers come from a pool that all   *)
(* requests share.  Around the chain Adapt answers errors.  The handler of *)
(* static files has a compressing buffer of its own.                       *)
(*                                                                         *)
(* A body is a sequence of pieces: pages, an error text, and the trailer   *)
(* that closing a compressor writes, each plain or packed by a compressor. *)
(* An ETag is the body it was computed from.                               *)
(***************************************************************************)
EXTENDS Naturals, Sequences, SequencesExt

CONSTANTS Requests,     \* requests being served
          Pages,        \* what handlers write
          Chains,       \* middleware chains, outermost first
          Codes,        \* status codes handlers set
          Validators,   \* ETags clients send, and NoTag
          NoTag         \* no ETag

Trailer == "trailer"
ErrorText == "error"

\* Gates, with the answers they give instead of calling next.
BasicAuth == {401}
JWT == {401}
CORS == {403, 204}

Refusals(m) ==
    CASE m = "basicauth" -> BasicAuth
      [] m = "jwt"       -> JWT
      [] m = "cors"      -> CORS
      [] OTHER           -> {}

\* An app installs one of the compressing middleware, gzip or Brotli, and the ETag
\* middleware at most once each; static files are served without middleware.
ASSUME ResponsesAssumption ==
    /\ Requests # {} /\ IsFiniteSet(Requests)
    /\ \A ch \in Chains :
          \/ /\ ch \in Seq({"recovery", "logger", "basicauth", "jwt", "cors", "compress", "etag"})
             /\ \A i, j \in DOMAIN ch : ch[i] = ch[j] /\ ch[i] \in {"compress", "etag"} => i = j
          \/ ch = <<"static">>
    /\ Codes \subseteq Nat \ {0}
    /\ Pages \cap {Trailer, ErrorText} = {}
    /\ NoTag \in Validators

\* Buffers of ETag writers and of static files; never more than requests.
Writers == 1..Cardinality(Requests)
None == 0

VARIABLES
    pc,         \* pc[r]: "new", "handler", "unwind", "commit" or "done"
    chain,      \* chain[r]: the middleware around r's handler
    level,      \* level[r]: the middleware whose code runs next on the way out
    outcome,    \* outcome[r]: what is on its way out: "ok", "err" or "panic"
    layer,      \* layer[r][i]: wrote and status of the writer of middleware i
    hdr,        \* hdr[r]: ETag, encoding and length in the header map
    raw,        \* raw[r]: what has gone to the client
    pool,       \* ETag writers in the pool
    ew,         \* ew[r]: the ETag writer r took from it, or its static buffer
    array,      \* array[w]: the memory behind w's buffer
    used,       \* used[w]: how much of it the buffer uses
    tag,        \* tag[r]: the ETag computed for r
    size,       \* size[r]: length of the slice taken for r's body
    logged,     \* logged[r]: the status in the log line, or 0
    matched,    \* history: the If-None-Match that got r a 304
    own,        \* history: what r wrote into its ETag writer
    said,       \* history: the status r's handler decided on first, or 0
    ended       \* history: how r's handler, or the log's callback, ended

poolVars == <<pool, ew, array, used>>
outVars  == <<layer, hdr, raw, array, used, own>>
vars == <<pc, chain, level, outcome, outVars, pool, ew, tag, size, logged,
          matched, said, ended>>

Silent == {204, 304}        \* no body, no trailer
NoHeaders == [etag |-> NoTag, packed |-> FALSE, length |-> 0]

Init ==
    /\ pc = [r \in Requests |-> "new"]
    /\ chain \in [Requests -> Chains]
    /\ level = [r \in Requests |-> Len(chain[r])]
    /\ outcome = [r \in Requests |-> "ok"]
    /\ layer = [r \in Requests |-> [i \in DOMAIN chain[r] |-> [wrote |-> FALSE, status |-> 200]]]
    /\ hdr = [r \in Requests |-> NoHeaders]
    /\ raw = [r \in Requests |-> [status |-> 0, headers |-> NoHeaders, body |-> <<>>]]
    /\ pool = {}
    /\ ew = [r \in Requests |-> None]
    /\ array = [w \in Writers |-> <<>>]
    /\ used = [w \in Writers |-> 0]
    /\ tag = [r \in Requests |-> NoTag]
    /\ size = [r \in Requests |-> 0]
    /\ logged = [r \in Requests |-> 0]
    /\ matched = [r \in Requests |-> NoTag]
    /\ own = [r \in Requests |-> <<>>]
    /\ said = [r \in Requests |-> 0]
    /\ ended = [r \in Requests |-> "running"]
-----------------------------------------------------------------------------
(***************************************************************************)
(* WriteHeader and Write, called on the writer that middleware n wraps     *)
(* around the ones before it; n = 0 is the server's own writer             *)
(***************************************************************************)
\* gzip and Brotli are one "compress"; a chain has one of them at most.
Wraps(m) == m \in {"etag", "compress", "logger", "static"}
Has(r, m, above) == \E i \in (above + 1)..Len(chain[r]) : chain[r][i] = m

\* Mutant: the ETag writer keeps every status to itself.
Absorbs_EveryStatus(r, i, code) ==
    Wraps(chain[r][i]) /\ (layer[r][i].wrote \/ chain[r][i] \in {"etag", "static"})

\* A second WriteHeader is dropped; the ETag writer keeps a 200 to itself, the
\* static one every status.
Absorbs(r, i, code) ==
    /\ Wraps(chain[r][i])
    /\ \/ layer[r][i].wrote
       \/ chain[r][i] = "etag" /\ code = 200
       \/ chain[r][i] = "static"

Reaches(r, n, i, code) == \A j \in (i + 1)..n : ~Absorbs(r, j, code)

\* Middleware i sees the header for the first time.
Takes(r, n, i, code) == Wraps(chain[r][i]) /\ Reaches(r, n, i, code) /\ ~layer[r][i].wrote

\* Mutant: the log's writer passes the status on without keeping it.
HeaderLayers_Unlogged(r, n, code) ==
    [i \in DOMAIN chain[r] |->
        IF i <= n /\ Takes(r, n, i, code)
          THEN [wrote |-> TRUE, status |-> IF chain[r][i] = "logger" THEN layer[r][i].status ELSE code]
          ELSE layer[r][i]]

HeaderLayers(r, n, code) ==
    [i \in DOMAIN chain[r] |->
        IF i <= n /\ Takes(r, n, i, code) THEN [wrote |-> TRUE, status |-> code] ELSE layer[r][i]]

\* A compressor the header passes announces the encoding and drops the length.
HeaderMap(r, n, code, map) ==
    IF code \notin Silent /\ \E i \in 1..n : chain[r][i] = "compress" /\ Takes(r, n, i, code)
      THEN [map EXCEPT !.packed = TRUE, !.length = 0] ELSE map

\* The server's writer takes the first status and the headers as they are then.
HeaderRaw(r, n, code, map) ==
    IF Reaches(r, n, 0, code) /\ raw[r].status = 0
      THEN [raw[r] EXCEPT !.status = code, !.headers = HeaderMap(r, n, code, map)] ELSE raw[r]

WriteHeader(r, n, code, map) ==
    /\ layer' = [layer EXCEPT ![r] = HeaderLayers(r, n, code)]
    /\ hdr' = [hdr EXCEPT ![r] = HeaderMap(r, n, code, map)]
    /\ raw' = [raw EXCEPT ![r] = HeaderRaw(r, n, code, map)]
    /\ UNCHANGED <<array, used, own>>

Plain(what) == [what |-> what, packed |-> FALSE]
Packed(what) == [what |-> what, packed |-> TRUE]

\* A compressor between n and the place i packs the pieces written at n.
Pass(r, n, i, pieces) ==
    IF \E j \in (i + 1)..n : chain[r][j] = "compress"
      THEN [k \in DOMAIN pieces |-> Packed(pieces[k].what)] ELSE pieces

\* The middleware that keeps a body written at n after the header code, or 0.
Buffering(r, n, code) ==
    LET layers == HeaderLayers(r, n, code)
        Keeps(i) == \/ chain[r][i] = "etag" /\ layers[i].wrote /\ layers[i].status = 200
                    \/ chain[r][i] = "static"
    IN  Max({i \in 1..n : Keeps(i)} \cup {0})

\* bytes.Buffer overwrites what an earlier use of the same memory left there.
Overwrite(seq, at, pieces) ==
    SubSeq(seq, 1, at) \o pieces \o SubSeq(seq, at + Len(pieces) + 1, Len(seq))

\* The server sends no body after some statuses, and none past the length.
Sent(out, pieces) ==
    LET body == out.body \o pieces IN
      CASE out.status \in Silent -> out
        [] out.status \notin Silent /\ out.headers.length \in 1..(Len(body) - 1) ->
              [out EXCEPT !.body = SubSeq(body, 1, out.headers.length)]
        [] OTHER -> [out EXCEPT !.body = body]

\* A write commits code if no status was decided, then passes the pieces on.
Write(r, n, code, map, pieces) ==
    LET keeper == Buffering(r, n, code)
        w == ew[r]
        kept == Pass(r, n, keeper, pieces)
        committed == HeaderRaw(r, n, code, map)
    IN  /\ layer' = [layer EXCEPT ![r] = HeaderLayers(r, n, code)]
        /\ hdr' = [hdr EXCEPT ![r] = HeaderMap(r, n, code, map)]
        /\ IF keeper # 0
             THEN /\ array' = [array EXCEPT ![w] = Overwrite(@, used[w], kept)]
                  /\ used' = [used EXCEPT ![w] = @ + Len(kept)]
                  /\ own' = [own EXCEPT ![r] = @ \o kept]
                  /\ raw' = [raw EXCEPT ![r] = committed]
             ELSE /\ raw' = [raw EXCEPT ![r] = Sent(committed, kept)]
                  /\ UNCHANGED <<array, used, own>>
-----------------------------------------------------------------------------
(***************************************************************************)
(* On the way in, and the handler                                          *)
(***************************************************************************)

\* A gate may refuse; otherwise the request gets to the handler.
Stops(r) == {Len(chain[r])} \cup {i - 1 : i \in {j \in DOMAIN chain[r] : Refusals(chain[r][j]) # {}}}

Fresh == {v \in Writers : \A q \in Requests : ew[q] # v}

\* Mutant: the writer goes back to the pool as soon as it has been reset.
Without_PutsBack(w) == pool \cup {w}

Without(w) == pool \ {w}

\* The middleware runs up to its call of next: the ETag writer comes from the
\* pool, or is new, and is reset, which leaves the memory as it was.
Arrive(r) ==
    /\ pc[r] = "new"
    /\ \E n \in Stops(r), w \in Fresh \cup pool :
         /\ level' = [level EXCEPT ![r] = n]
         /\ pc' = [pc EXCEPT ![r] = IF n = Len(chain[r]) THEN "handler" ELSE "refuse"]
         /\ \/ /\ \E i \in 1..n : chain[r][i] = "etag"
               /\ pool' = Without(w)
               /\ ew' = [ew EXCEPT ![r] = w]
               /\ used' = [used EXCEPT ![w] = 0]
            \/ /\ \A i \in 1..n : chain[r][i] # "etag"
               /\ w \in Fresh
               /\ ew' = [ew EXCEPT ![r] = IF chain[r] = <<"static">> THEN w ELSE None]
               /\ UNCHANGED <<pool, used>>
    /\ UNCHANGED <<chain, outcome, layer, hdr, raw, array, tag, size, logged, matched, own, said, ended>>

\* 401 from the authenticators, 403 or the preflight's 204 from CORS.
Refuse(r, code) ==
    /\ pc[r] = "refuse"
    /\ code \in Refusals(chain[r][level[r] + 1])
    /\ WriteHeader(r, level[r], code, hdr[r])
    /\ pc' = [pc EXCEPT ![r] = "unwind"]
    /\ said' = [said EXCEPT ![r] = code]
    /\ ended' = [ended EXCEPT ![r] = "ok"]
    /\ UNCHANGED <<chain, level, outcome, pool, ew, tag, size, logged, matched>>

\* NoContent, Redirect, JSON before it encodes.
HandlerHeader(r, code) ==
    /\ pc[r] = "handler"
    /\ said[r] = 0
    /\ ended[r] = "running"
    /\ said' = [said EXCEPT ![r] = code]
    /\ WriteHeader(r, level[r], code, hdr[r])
    /\ UNCHANGED <<pc, chain, level, outcome, pool, ew, tag, size, logged, matched, ended>>

\* StreamReader and ServeFile announce the length of what they go on to copy.
HandlerDeclares(r) ==
    /\ pc[r] = "handler"
    /\ said[r] = 0
    /\ ended[r] = "running"
    /\ ended' = [ended EXCEPT ![r] = "copying"]
    /\ hdr' = [hdr EXCEPT ![r].length = 1]
    /\ UNCHANGED <<pc, chain, level, outcome, layer, raw, poolVars, tag, size, logged, matched, own, said>>

\* A page is written once (bound).
HandlerWrite(r, page) ==
    /\ pc[r] = "handler"
    /\ ended[r] \in {"running", "copying"}
    /\ ended' = [ended EXCEPT ![r] = "wrote"]
    /\ said' = [said EXCEPT ![r] = IF @ = 0 THEN 200 ELSE @]
    /\ Write(r, level[r], 200, hdr[r], <<Plain(page)>>)
    /\ UNCHANGED <<pc, chain, level, outcome, pool, ew, tag, size, logged, matched>>

\* A copy that ends without its page has failed; the file server does not fail.
HandlerEnds(r, how) ==
    /\ pc[r] = "handler"
    /\ ended[r] = "copying" => how # "ok"
    /\ chain[r] = <<"static">> => how = "ok"
    /\ pc' = [pc EXCEPT ![r] = "unwind"]
    /\ outcome' = [outcome EXCEPT ![r] = how]
    /\ ended' = [ended EXCEPT ![r] = how]
    /\ UNCHANGED <<chain, level, outVars, pool, ew, tag, size, logged, matched, said>>
-----------------------------------------------------------------------------
(***************************************************************************)
(* On the way out                                                          *)
(***************************************************************************)
At(r, m) == pc[r] = "unwind" /\ level[r] > 0 /\ chain[r][level[r]] = m

Leave(r) ==
    /\ level' = [level EXCEPT ![r] = @ - 1]
    /\ pc' = [pc EXCEPT ![r] = "unwind"]

\* The deferred Close of the compressor, on errors and panics too: a write to
\* the writer outside it.
CloseCompressor(r) ==
    /\ At(r, "compress")
    /\ LET l == layer[r][level[r]] IN
         IF l.wrote /\ l.status \in Silent
           THEN UNCHANGED outVars
           ELSE Write(r, level[r] - 1, 200, hdr[r], <<Packed(Trailer)>>)
    /\ Leave(r)
    /\ UNCHANGED <<chain, outcome, pool, ew, tag, size, logged, matched, said, ended>>

\* Mutant: the length of the file on disk stays in the headers.
Compressed_KeepsLength(map) == [map EXCEPT !.packed = TRUE]

Compressed(map) == [map EXCEPT !.packed = TRUE, !.length = 0]

\* The handler of static files compresses what the file server left in its buffer.
FlushStatic(r) ==
    /\ At(r, "static")
    /\ Write(r, 0, layer[r][1].status, Compressed(hdr[r]),
             Append([k \in 1..used[ew[r]] |-> Packed(array[ew[r]][k].what)], Packed(Trailer)))
    /\ Leave(r)
    /\ UNCHANGED <<chain, outcome, pool, ew, tag, size, logged, matched, said, ended>>

\* A panic passes the ETag middleware and the log by; the writer is lost to the
\* pool, the line to the log.  A gate does nothing on the way out.
PassBy(r) ==
    /\ \/ pc[r] = "unwind" /\ level[r] > 0 /\ Refusals(chain[r][level[r]]) # {}
       \/ (At(r, "etag") \/ At(r, "logger")) /\ outcome[r] = "panic"
    /\ Leave(r)
    /\ UNCHANGED <<chain, outcome, outVars, pool, ew, tag, size, logged, matched, said, ended>>

\* The log line shows the status that went through its writer, 200 if none did.
Log(r) ==
    /\ At(r, "logger")
    /\ outcome[r] # "panic"
    /\ logged' = [logged EXCEPT ![r] = layer[r][level[r]].status]
    /\ Leave(r)
    /\ UNCHANGED <<chain, outcome, outVars, pool, ew, tag, size, matched, said, ended>>

\* The callback that may change the line has spoilt its arguments: there is no
\* line, and an error goes on in place of what the handler returned.
LogFails(r) ==
    /\ At(r, "logger")
    /\ outcome[r] # "panic"
    /\ outcome' = [outcome EXCEPT ![r] = "err"]
    /\ ended' = [ended EXCEPT ![r] = "callback"]
    /\ Leave(r)
    /\ UNCHANGED <<chain, outVars, pool, ew, tag, size, logged, matched, said>>

\* Mutant: an error does not keep the buffered response from being committed.
Commits_Always(r) == layer[r][level[r]].status = 200

Commits(r) == outcome[r] = "ok" /\ layer[r][level[r]].status = 200

\* Take the hash and a slice of the buffer, then give the writer back, unless
\* it has grown too large, and decide whether there is something to commit.
EtagRelease(r) ==
    /\ At(r, "etag")
    /\ outcome[r] # "panic"
    /\ tag' = [tag EXCEPT ![r] = SubSeq(array[ew[r]], 1, used[ew[r]])]
    /\ size' = [size EXCEPT ![r] = used[ew[r]]]
    /\ pool' \in {pool, pool \cup {ew[r]}}
    /\ IF Commits(r) THEN pc' = [pc EXCEPT ![r] = "commit"] /\ UNCHANGED level ELSE Leave(r)
    /\ UNCHANGED <<chain, outcome, layer, hdr, raw, ew, array, used, logged, matched, own, said, ended>>

\* Mutant: the validator is compared with what the buffer holds by now.
NotModified_Late(r, inm) == inm = SubSeq(array[ew[r]], 1, size[r])

NotModified(r, inm) == inm = tag[r]

\* The conditional headers are read here: 304, or 412, without an ETag.
CommitConditional(r, inm, im) ==
    /\ pc[r] = "commit"
    /\ NotModified(r, inm) \/ im \notin {NoTag, tag[r]}
    /\ WriteHeader(r, level[r] - 1, IF NotModified(r, inm) THEN 304 ELSE 412, hdr[r])
    /\ matched' = [matched EXCEPT ![r] = IF NotModified(r, inm) THEN inm ELSE @]
    /\ Leave(r)
    /\ UNCHANGED <<chain, outcome, pool, ew, tag, size, logged, said, ended>>

\* ETag, status, then the slice of a buffer that is no longer ours.
CommitBody(r, inm, im) ==
    /\ pc[r] = "commit"
    /\ ~NotModified(r, inm)
    /\ im \in {NoTag, tag[r]}
    /\ Write(r, level[r] - 1, 200, [hdr[r] EXCEPT !.etag = tag[r]], SubSeq(array[ew[r]], 1, size[r]))
    /\ Leave(r)
    /\ UNCHANGED <<chain, outcome, pool, ew, tag, size, logged, matched, said, ended>>

\* A recovered panic is answered with 500 and does not go on as an error.
Recover(r) ==
    /\ At(r, "recovery")
    /\ IF outcome[r] = "panic"
         THEN Write(r, level[r] - 1, 500, hdr[r], <<Plain(ErrorText)>>)
         ELSE UNCHANGED outVars
    /\ outcome' = [outcome EXCEPT ![r] = IF @ = "panic" THEN "ok" ELSE @]
    /\ Leave(r)
    /\ UNCHANGED <<chain, pool, ew, tag, size, logged, matched, said, ended>>

\* Adapt hands an error to the error handler, which drops the length; a panic
\* makes the server drop the connection, and a response nobody began is an
\* empty 200.
Adapt(r) ==
    /\ pc[r] = "unwind"
    /\ level[r] = 0
    /\ CASE outcome[r] = "err"   -> Write(r, 0, 500, [hdr[r] EXCEPT !.length = 0], <<Plain(ErrorText)>>)
         [] outcome[r] = "ok"    -> WriteHeader(r, 0, 200, hdr[r])
         [] outcome[r] = "panic" -> UNCHANGED outVars
    /\ pc' = [pc EXCEPT ![r] = "done"]
    /\ UNCHANGED <<chain, level, outcome, pool, ew, tag, size, logged, matched, said, ended>>
-----------------------------------------------------------------------------
Handler(r) ==
    \/ Arrive(r)
    \/ \E code \in BasicAuth \cup JWT \cup CORS : Refuse(r, code)
    \/ \E code \in Codes : HandlerHeader(r, code)
    \/ HandlerDeclares(r)
    \/ \E page \in Pages : HandlerWrite(r, page)
    \/ \E how \in {"ok", "err", "panic"} : HandlerEnds(r, how)

Unwind(r) ==
    \/ CloseCompressor(r) \/ FlushStatic(r) \/ PassBy(r) \/ Log(r) \/ EtagRelease(r)
    \/ \E inm, im \in Validators : CommitConditional(r, inm, im) \/ CommitBody(r, inm, im)
    \/ Recover(r) \/ Adapt(r)

Next == \E r \in Requests : Handler(r) \/ Unwind(r) \/ LogFails(r)

Spec == Init /\ [][Next]_vars
-----------------------------------------------------------------------------
\* Requests that are still writing have different buffers, none of them free
\* for others to take.
WritersExclusive ==
    LET Writing == {r \in Requests : ew[r] # None /\ pc[r] \in {"refuse", "handler"}}
    IN  \A r \in Writing : ew[r] \notin pool /\ \A q \in Writing : ew[q] = ew[r] => q = r

\* 304 is sent only when the client's validator names exactly what this request
\* has produced, whoever used the buffer before or has taken it over since.
NotModifiedIsCurrent ==
    \A r \in Requests :
        raw[r].status = 304 /\ said[r] # 304 => matched[r] = own[r]

\* Where a failure is answered: by the innermost recovery, or by Adapt.
Answerer(r) ==
    IF ended[r] = "panic" THEN Max({i \in DOMAIN chain[r] : chain[r][i] = "recovery"} \cup {0}) ELSE 0

Failed(r) == ended[r] = "err" \/ (ended[r] = "panic" /\ Has(r, "recovery", 0))

\* Nothing stands between the handler and the answer to its failure that has
\* sent anything: no status was decided, or the ETag writer kept its 200; and no
\* compressor writes its trailer first.
Unanswered(r) ==
    /\ said[r] = 0 \/ (said[r] = 200 /\ Has(r, "etag", Answerer(r)))
    /\ ~Has(r, "compress", Answerer(r))

\* A failure the handler has not answered itself reaches the client as 500, and
\* nothing of the half-made response with it, when no compressor stands inside
\* whoever answers it.
FailuresReported ==
    \A r \in Requests :
        pc[r] = "done" /\ Failed(r) /\ Unanswered(r)
            => /\ raw[r].status = 500
               /\ \A k \in DOMAIN raw[r].body : raw[r].body[k].what \notin Pages

\* Whatever chain surrounds it, the status a handler or a gate decides on
\* reaches the client, but for the 304 or 412 the ETag writer makes of a 200.
AnswerStands ==
    \A r \in Requests :
        pc[r] = "done" /\ ended[r] = "ok" /\ said[r] # 0
            => \/ raw[r].status = said[r]
               \/ said[r] = 200 /\ Has(r, "etag", 0) /\ raw[r].status \in {304, 412}

\* An ETag writer outside every log, which may still make a 304 or a 412 of the
\* 200 they show.
EtagOutsideLog(r) ==
    \E e \in DOMAIN chain[r] :
        chain[r][e] = "etag" /\ \A i \in 1..e : chain[r][i] # "logger"

\* The log shows the status the client got, unless the handler, or the callback of
\* another log, returned an error, which Adapt answers when the line has been
\* written, or the ETag writer stands outside the log and had something else to
\* say than 200.
LoggedIsSent ==
    \A r \in Requests :
        pc[r] = "done" /\ logged[r] # 0 /\ ended[r] \notin {"err", "callback"}
            => \/ logged[r] = raw[r].status
               \/ logged[r] = 200 /\ EtagOutsideLog(r) /\ raw[r].status \in {304, 412}

\* Nothing stood in the way of a response that says what it is.  Not so: when the
\* handler panicked or a log's callback failed; when it returned an error inside
\* a compressor, or returned nil there and had written nothing, for the trailer
\* of a compressor that is closed unused carries no encoding; and when another
\* request has had the ETag writer.
Intact(r) ==
    /\ ended[r] \in {"ok", "err"}
    /\ Has(r, "compress", 0) => ended[r] = "ok" /\ said[r] # 0
    /\ ew[r] # None => \A q \in Requests \ {r} : ew[q] # ew[r]

\* A client that decodes what the headers announce gets what was written, in a
\* chain with one compressor at most: a response is announced as packed exactly
\* if its body is, to the end of the packed stream, and is as long as announced.
\* That is promised of Intact requests only: a handler inside gzip or Brotli
\* that returns nil without having written anything sends an unlabelled trailer.
HeadersMatchBody ==
    \A r \in Requests :
        LET body == raw[r].body
            headers == raw[r].headers
        IN  pc[r] = "done" /\ Intact(r)
                => /\ \A k \in DOMAIN body : body[k].packed = headers.packed
                   /\ headers.packed /\ body # <<>> => Last(body).what = Trailer
                   /\ raw[r].status \in Silent \cup {412} \/ headers.length \in {0, Len(body)}

\* A response that carries an ETag carries the body the ETag was computed from.
BodyMatchesEtag ==
    \A r \in Requests :
        pc[r] = "done" /\ raw[r].headers.etag # NoTag => raw[r].body = raw[r].headers.etag
=============================================================================
