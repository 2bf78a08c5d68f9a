--------------------------- MODULE SessionsProofs ---------------------------
(***************************************************************************)
(* Theorems about Sessions, for any number of tabs, kinds of requests that *)
(* skip authentication, restarts and times: logouts last, flash messages   *)
(* do not come back, forms stay valid, users who come back in time stay.   *)
(***************************************************************************)
EXTENDS Sessions, FiniteSetTheorems, TLAPS

Stages == {"idle", "sent", "answered"}

Shape ==
    /\ stage \in [Tabs -> Stages]
    /\ {"auth", "csrf", "flash"} \subseteq DOMAIN jar
    /\ DOMAIN req = Tabs /\ DOMAIN res = Tabs /\ DOMAIN form = Tabs

(***************************************************************************)
(* What is in a response                                                   *)
(***************************************************************************)
LEMMA Over ==
    ASSUME NEW f, NEW g
    PROVE  /\ DOMAIN (f ++ g) = DOMAIN f \cup DOMAIN g
           /\ \A k \in DOMAIN f : (f ++ g)[k] = f[k]
           /\ \A k \in DOMAIN g \ DOMAIN f : (f ++ g)[k] = g[k]
  BY DEF ++

LEMMA OneCookie == ASSUME NEW k, NEW v PROVE DOMAIN Cookie(k, v) = {k} /\ Cookie(k, v)[k] = v
  BY DEF Cookie

LEMMA NoneSet == DOMAIN <<>> = {}
  OBVIOUS

\* The session the server saves now.
Stamp == [at |-> now, key |-> key]

LEMMA PartsSet ==
    ASSUME NEW c, NEW html
    PROVE  /\ DOMAIN AuthSet(c) \subseteq {"auth"}
           /\ DOMAIN FlashSet(c, html) = IF Pending(c, html) # None THEN {"flash"} ELSE {}
           /\ Pending(c, html) # None => FlashSet(c, html)["flash"] = NoFlash
           /\ DOMAIN CsrfSet(c) = IF c.csrf = None THEN {"csrf"} ELSE {}
           /\ c.csrf = None => CsrfSet(c)["csrf"] = minted + 1
           /\ c.auth = NoSession => DOMAIN AuthSet(c) = {}
           /\ "auth" \in DOMAIN AuthSet(c) => AuthSet(c)["auth"] \in {NoSession, Stamp}
           /\ "auth" \notin DOMAIN AuthSet(c) /\ Authenticated(c) => ~(now - c.auth.at > RefreshAge)
  BY OneCookie, NoneSet DEF Stamp, AuthSet, FlashSet, CsrfSet, Saved, Undecodable, Authenticated

\* What every answer to t leaves alone, and the token it may bring.
Frame(t) ==
    /\ stage[t] = "sent" /\ stage' = [stage EXCEPT ![t] = "answered"]
    /\ UNCHANGED <<now, jar, form, fresh, out, seen, crossed>>
    /\ DOMAIN req' = Tabs /\ DOMAIN res' = Tabs
    /\ \A u \in Tabs \ {t} : req'[u] = req[u] /\ res'[u] = res[u]
    /\ req'[t].kind = req[t].kind /\ req'[t].sent = req[t].sent

\* The set of a part of the chain below the CSRF middleware.
Below(t, set) ==
    /\ DOMAIN res'[t].set = DOMAIN set \cup DOMAIN CsrfSet(req[t].carried)
    /\ \A k \in DOMAIN set : res'[t].set[k] = set[k]
    /\ req[t].carried.csrf = None => res'[t].set["csrf"] = minted + 1

LEMMA Answers ==
    ASSUME Shape, NEW t \in Tabs, NEW who, NEW set, NEW token, NEW shown,
           Answer(t, who, set, token, shown), stage[t] = "sent", "csrf" \notin DOMAIN set
    PROVE  /\ Frame(t) /\ Below(t, set)
           /\ res'[t].who = who /\ res'[t].token = token /\ res'[t].shown = shown
           /\ res'[t].at = IF who = "user" THEN now ELSE None
           /\ minted' = minted + Cardinality(DOMAIN CsrfSet(req[t].carried))
  <1> DEFINE c == req[t].carried
             all == set ++ CsrfSet(c)
  <1>1. /\ res'[t].set = all /\ res'[t].who = who /\ res'[t].token = token /\ res'[t].shown = shown
        /\ res'[t].at = IF who = "user" THEN now ELSE None
    BY DEF Answer, Shape
  <1>2. Frame(t)
    BY DEF Answer, Shape, Frame, browserVars, NoRequest
  <1>3. /\ DOMAIN all = DOMAIN set \cup DOMAIN CsrfSet(c)
        /\ \A k \in DOMAIN set : all[k] = set[k]
        /\ \A k \in DOMAIN CsrfSet(c) \ DOMAIN set : all[k] = CsrfSet(c)[k]
    BY Over
  <1> HIDE DEF all
  <1>4. Below(t, set)
    BY <1>1, <1>3, PartsSet DEF Below
  <1>. QED  BY <1>1, <1>2, <1>4 DEF Answer

LEMMA Mint ==
    ASSUME NEW c
    PROVE  Cardinality(DOMAIN CsrfSet(c)) = IF c.csrf = None THEN 1 ELSE 0
  BY PartsSet, FS_EmptySet, FS_Singleton

(***************************************************************************)
(* What serving a request does to each cookie                              *)
(***************************************************************************)
AuthServed(t) ==
    /\ req[t].carried.auth = NoSession /\ "auth" \in DOMAIN res'[t].set
          => \/ res'[t].set["auth"] = NoSession
             \/ req[t].kind = "login" /\ res'[t].who = "user"
    /\ req[t].kind = "logout" /\ res'[t].who = "user"
          => "auth" \in DOMAIN res'[t].set /\ res'[t].set["auth"] = NoSession

\* A response that shows a session alive and does not save it anew was made
\* when it was fresh enough.
AliveServed(t) ==
    LET c == req[t].carried
        set == res'[t].set
    IN  /\ "auth" \in DOMAIN set => set["auth"] \in {NoSession, Stamp}
        /\ res'[t].at \in {None, now}
        /\ "auth" \notin DOMAIN set /\ res'[t].at # None
              => Authenticated(c) /\ ~(now - c.auth.at > RefreshAge)
        /\ res'[t].who \in {"refused", "guest"} => ~Authenticated(c)

CsrfServed(t) ==
    LET c == req[t].carried IN
    /\ "csrf" \in DOMAIN res'[t].set <=> c.csrf = None
    /\ c.csrf = None => res'[t].set["csrf"] = minted + 1
    /\ res'[t].token \in {None, Token(c)}
    /\ res'[t].who = "forbidden" => ~Allowed(t)

FlashServed(t) ==
    LET c == req[t].carried IN
    \/ posts' = posts /\ "flash" \notin DOMAIN res'[t].set /\ res'[t].shown = None
    \/ /\ "flash" \in DOMAIN res'[t].set
       /\ res'[t].shown \in {None, c.flash.msg}
       /\ \/ posts' = posts /\ res'[t].set["flash"].msg = None
          \/ posts' = posts + 1 /\ res'[t].set["flash"].msg = posts + 1

\* The cookies of a handler, over those of the middleware it runs in.
Chain(f, g, h) == (f ++ g) ++ h

LEMMA Three ==
    ASSUME NEW f, NEW g, NEW h
    PROVE  /\ \A k : k \in DOMAIN Chain(f, g, h) <=> k \in DOMAIN f \/ k \in DOMAIN g \/ k \in DOMAIN h
           /\ \A k \in DOMAIN f : Chain(f, g, h)[k] = f[k]
           /\ \A k \in DOMAIN g \ DOMAIN f : Chain(f, g, h)[k] = g[k]
           /\ \A k \in (DOMAIN h \ DOMAIN g) \ DOMAIN f : Chain(f, g, h)[k] = h[k]
  <1> DEFINE e == f ++ g
  <1>1. /\ DOMAIN e = DOMAIN f \cup DOMAIN g
        /\ \A k \in DOMAIN f : e[k] = f[k]
        /\ \A k \in DOMAIN g \ DOMAIN f : e[k] = g[k]
    BY Over
  <1> HIDE DEF e
  <1>2. /\ DOMAIN (e ++ h) = DOMAIN e \cup DOMAIN h /\ \A k \in DOMAIN e : (e ++ h)[k] = e[k]
        /\ \A k \in DOMAIN h \ DOMAIN e : (e ++ h)[k] = h[k]
    BY Over
  <1>3. /\ \A k : k \in DOMAIN (e ++ h) <=> k \in DOMAIN f \/ k \in DOMAIN g \/ k \in DOMAIN h
        /\ \A k \in DOMAIN f : (e ++ h)[k] = f[k]
        /\ \A k \in DOMAIN g \ DOMAIN f : (e ++ h)[k] = g[k]
        /\ \A k \in (DOMAIN h \ DOMAIN g) \ DOMAIN f : (e ++ h)[k] = h[k]
    BY <1>1, <1>2
  <1>. QED  BY <1>3 DEF e, Chain

ServeAs(t, html) ==
    \/ Forbid(t) \/ Refuse(t)
    \/ ServePage(t, html) \/ Login(t, html) \/ LoginFails(t, html)
    \/ Logout(t, html) \/ Post(t, html)

LEMMA ServedAs ==
    ASSUME Shape, NEW t \in Tabs, NEW html, ServeAs(t, html)
    PROVE  Frame(t) /\ AuthServed(t) /\ AliveServed(t) /\ CsrfServed(t) /\ FlashServed(t)
  <1> DEFINE c == req[t].carried
             F == FlashSet(c, html)
             A == AuthSet(c)
             tail(set) == Chain(set, F, A)
  <1>0. /\ DOMAIN A \subseteq {"auth"}
        /\ DOMAIN F = IF Pending(c, html) # None THEN {"flash"} ELSE {}
        /\ Pending(c, html) # None => F["flash"] = NoFlash
        /\ DOMAIN CsrfSet(c) = IF c.csrf = None THEN {"csrf"} ELSE {}
        /\ c.auth = NoSession => DOMAIN A = {}
        /\ "auth" \in DOMAIN A => A["auth"] \in {NoSession, Stamp}
        /\ "auth" \notin DOMAIN A /\ Authenticated(c) => ~(now - c.auth.at > RefreshAge)
    BY PartsSet
  <1> HIDE DEF F, A
  <1>1. ASSUME NEW set
        PROVE  /\ \A k : k \in DOMAIN tail(set) <=> k \in DOMAIN set \/ k \in DOMAIN F \/ k \in DOMAIN A
               /\ \A k \in DOMAIN set : tail(set)[k] = set[k]
               /\ \A k \in DOMAIN F \ DOMAIN set : tail(set)[k] = F[k]
               /\ \A k \in (DOMAIN A \ DOMAIN F) \ DOMAIN set : tail(set)[k] = A[k]
    BY Three
  <1> HIDE DEF tail
  <1>2. CASE Forbid(t)
    <2>1. Frame(t) /\ Below(t, <<>>) /\ res'[t].who = "forbidden" /\ res'[t].token = None /\ res'[t].shown = None
          /\ res'[t].at = None
      BY <1>2, Answers, NoneSet DEF Forbid
    <2>. QED  BY <1>0, <1>2, <2>1, NoneSet DEF Below, AuthServed, AliveServed, CsrfServed, FlashServed, Forbid
  <1>3. CASE Refuse(t)
    <2>1. /\ Frame(t) /\ Below(t, A)
          /\ res'[t].who = "refused" /\ res'[t].token = None /\ res'[t].shown = None
          /\ res'[t].at = None
      <3>1. "csrf" \notin DOMAIN A
        BY <1>0
      <3>. QED  BY <1>3, <3>1, Answers DEF Refuse, A
    <2>. QED  BY <1>3, <2>1, <1>0 DEF Below, AuthServed, AliveServed, CsrfServed, FlashServed, Refuse
  <1>4. ASSUME NEW who, NEW set, Respond(t, html, who, set), stage[t] = "sent", "csrf" \notin DOMAIN set
        PROVE  /\ Frame(t) /\ Below(t, tail(set)) /\ res'[t].who = who
               /\ res'[t].token = Token(c) /\ res'[t].shown = Pending(c, html)
               /\ res'[t].at = IF who = "user" THEN now ELSE None
    <2>1. "csrf" \notin DOMAIN tail(set)
      BY <1>1, <1>4, <1>0
    <2>2. Answer(t, who, tail(set), Token(c), Pending(c, html))
      BY <1>4 DEF Respond, Chain, tail, F, A
    <2>. QED  BY <1>4, <2>1, <2>2, Answers
  <1>5. CASE ServePage(t, html)
    <2> DEFINE who == Who(c)
    <2>1. Respond(t, html, who, <<>>) /\ who = IF Authenticated(c) THEN "user" ELSE "guest"
      BY <1>5 DEF ServePage, Who
    <2>2. stage[t] = "sent" /\ req[t].kind = "page" /\ posts' = posts
      BY <1>5 DEF ServePage, Reached
    <2> HIDE DEF who
    <2>3. /\ Frame(t) /\ Below(t, tail(<<>>)) /\ res'[t].who = who
          /\ res'[t].token = Token(c) /\ res'[t].shown = Pending(c, html)
          /\ res'[t].at = IF who = "user" THEN now ELSE None
      BY <1>4, <2>1, <2>2, NoneSet
    <2>. QED  BY <1>1, <2>1, <2>2, <2>3, NoneSet, <1>0
              DEF Below, AuthServed, AliveServed, CsrfServed, FlashServed, Pending, NoFlash
  <1>6. CASE Login(t, html)
    <2>1. stage[t] = "sent" /\ req[t].kind = "login" /\ posts' = posts /\ Respond(t, html, "user", Saved)
      BY <1>6 DEF Login, Reached
    <2>2. DOMAIN Saved = {"auth"} /\ Saved["auth"] = Stamp
      <3>1. Saved = Cookie("auth", Stamp)
        BY DEF Saved, Stamp
      <3> HIDE DEF Stamp
      <3>. QED  BY <3>1, OneCookie
    <2>3. /\ Frame(t) /\ Below(t, tail(Saved)) /\ res'[t].who = "user"
          /\ res'[t].token = Token(c) /\ res'[t].shown = Pending(c, html)
          /\ res'[t].at \in {None, now}
      BY <1>4, <2>1, <2>2
    <2>. QED  BY <1>1, <2>1, <2>2, <2>3, <1>0
              DEF Below, AuthServed, AliveServed, CsrfServed, FlashServed, Pending, NoFlash
  <1>7. CASE LoginFails(t, html)
    <2>1. stage[t] = "sent" /\ req[t].kind = "login" /\ posts' = posts
      BY <1>7 DEF LoginFails, Reached
    <2> DEFINE set == F ++ A
    <2>2. Answer(t, "failed", set, None, None)
      BY <1>7 DEF LoginFails, F, A
    <2>3. /\ DOMAIN set = DOMAIN F \cup DOMAIN A
          /\ \A k \in DOMAIN F : set[k] = F[k]
          /\ \A k \in DOMAIN A \ DOMAIN F : set[k] = A[k]
          /\ "csrf" \notin DOMAIN set
      <3>1. /\ DOMAIN set = DOMAIN F \cup DOMAIN A /\ \A k \in DOMAIN F : set[k] = F[k]
            /\ \A k \in DOMAIN A \ DOMAIN F : set[k] = A[k]
        BY Over
      <3>. QED  BY <3>1, <1>0
    <2> HIDE DEF set
    <2>4. /\ Frame(t) /\ Below(t, set)
          /\ res'[t].who = "failed" /\ res'[t].token = None /\ res'[t].shown = None
          /\ res'[t].at = None
      BY <2>1, <2>2, <2>3, Answers
    <2>. QED  BY <2>1, <2>3, <2>4, <1>0 DEF Below, AuthServed, AliveServed, CsrfServed, FlashServed, NoFlash
  <1>8. CASE Logout(t, html)
    <2>1. stage[t] = "sent" /\ req[t].kind = "logout" /\ posts' = posts /\ Respond(t, html, "user", Cleared)
      BY <1>8 DEF Logout, Reached
    <2>2. DOMAIN Cleared = {"auth"} /\ Cleared["auth"] = NoSession
      BY OneCookie DEF Cleared
    <2>3. /\ Frame(t) /\ Below(t, tail(Cleared)) /\ res'[t].who = "user"
          /\ res'[t].token = Token(c) /\ res'[t].shown = Pending(c, html)
          /\ res'[t].at \in {None, now}
      BY <1>4, <2>1, <2>2
    <2>. QED  BY <1>1, <2>1, <2>2, <2>3, <1>0
              DEF Below, AuthServed, AliveServed, CsrfServed, FlashServed, Pending, NoFlash
  <1>9. CASE Post(t, html)
    <2> DEFINE message == [msg |-> posts + 1, secret |-> secret]
               queued == Queued
               who == Who(c)
    <2>1. /\ stage[t] = "sent" /\ req[t].kind = "post" /\ posts' = posts + 1
          /\ Respond(t, html, who, queued) /\ who = IF Authenticated(c) THEN "user" ELSE "guest"
      BY <1>9 DEF Post, Reached, Who
    <2>2. DOMAIN queued = {"flash"} /\ queued["flash"].msg = posts + 1
      <3>1. message.msg = posts + 1
        OBVIOUS
      <3>2. DOMAIN queued = {"flash"} /\ queued["flash"] = message
        <4>1. queued = Cookie("flash", message)
          BY DEF Queued
        <4> HIDE DEF message, queued
        <4>. QED  BY <4>1, OneCookie
      <3>. QED  BY <3>1, <3>2
    <2> HIDE DEF queued, who
    <2>3. /\ Frame(t) /\ Below(t, tail(queued)) /\ res'[t].who = who
          /\ res'[t].token = Token(c) /\ res'[t].shown = Pending(c, html)
          /\ res'[t].at = IF who = "user" THEN now ELSE None
      BY <1>4, <2>1, <2>2
    <2>. QED  BY <1>1, <2>1, <2>2, <2>3, <1>0
              DEF Below, AuthServed, AliveServed, CsrfServed, FlashServed, Pending
  <1>. QED  BY <1>2, <1>3, <1>5, <1>6, <1>7, <1>8, <1>9 DEF ServeAs

LEMMA Served ==
    ASSUME Shape, NEW t \in Tabs, Serve(t)
    PROVE  Frame(t) /\ AuthServed(t) /\ AliveServed(t) /\ CsrfServed(t) /\ FlashServed(t)
  <1>1. PICK html \in BOOLEAN : ServeAs(t, html)
    BY DEF Serve, ServeAs
  <1>. QED  BY <1>1, ServedAs

(***************************************************************************)
(* What the browser's steps do                                             *)
(***************************************************************************)
Names == {"auth", "csrf", "flash"}

Sent(t, kind) ==
    /\ stage[t] = "idle" /\ stage' = [stage EXCEPT ![t] = "sent"]
    /\ UNCHANGED <<jar, posts, seen, out, res>>
    /\ form' = [form EXCEPT ![t] = None]
    /\ DOMAIN req' = Tabs /\ \A u \in Tabs \ {t} : req'[u] = req[u]
    /\ req'[t].carried.csrf = jar.csrf /\ req'[t].carried.flash = jar.flash
    /\ \/ req'[t].carried.auth = jar.auth
       \/ req'[t].carried.auth = NoSession /\ now - jar.auth.at > MaxAge
    /\ req'[t].kind = kind
    /\ kind # "page" => form[t] # None /\ req'[t].posted = form[t]

LEMMA Sending ==
    ASSUME Shape, NEW t \in Tabs, NEW kind \in Kinds, Send(t, kind)
    PROVE  Sent(t, kind) /\ UNCHANGED <<now, fresh>> /\ req'[t].sent = now /\ req'[t].fresh = fresh
  <1>1. PICK carried \in Sendable :
           req' = [req EXCEPT ![t] =
              [kind |-> kind, carried |-> carried, sent |-> now, fresh |-> fresh,
               posted |-> IF kind = "page" THEN None ELSE form[t]]]
    BY DEF Send
  <1>2. /\ carried.csrf = jar.csrf /\ carried.flash = jar.flash
        /\ carried.auth = jar.auth \/ (carried.auth = NoSession /\ now - jar.auth.at > MaxAge)
    <2>1. carried = jar \/ (carried = [jar EXCEPT !.auth = NoSession] /\ now - jar.auth.at > MaxAge)
      BY <1>1 DEF Sendable
    <2>2. ASSUME carried = [jar EXCEPT !.auth = NoSession]
          PROVE  carried.auth = NoSession /\ carried.csrf = jar.csrf /\ carried.flash = jar.flash
      <3> HIDE DEF NoSession
      <3>. QED  BY <2>2 DEF Shape
    <2>. QED  BY <2>1, <2>2
  <1>. QED  BY <1>1, <1>2 DEF Send, Sent, Shape, serverVars

Received(t) ==
    /\ stage[t] = "answered" /\ stage' = [stage EXCEPT ![t] = "idle"]
    /\ UNCHANGED <<posts, crossed>>
    /\ DOMAIN req' = Tabs /\ DOMAIN res' = Tabs /\ DOMAIN form' = Tabs
    /\ \A u \in Tabs \ {t} : req'[u] = req[u] /\ res'[u] = res[u] /\ form'[u] = form[u]
    /\ form'[t] = res[t].token /\ res'[t] = NoResponse
    /\ Names \subseteq DOMAIN jar'
    /\ \A k \in Names : jar'[k] = IF k \in DOMAIN res[t].set THEN res[t].set[k] ELSE jar[k]
    /\ seen' = seen \cup ({res[t].shown} \ {None})

LEMMA Receiving ==
    ASSUME Shape, NEW t \in Tabs, Receive(t)
    PROVE  Received(t)
  <1> DEFINE set == res[t].set
  <1>1. jar' = set ++ jar
    BY DEF Receive
  <1>2. /\ DOMAIN (set ++ jar) = DOMAIN set \cup DOMAIN jar
        /\ \A k \in DOMAIN set : (set ++ jar)[k] = set[k]
        /\ \A k \in DOMAIN jar \ DOMAIN set : (set ++ jar)[k] = jar[k]
    BY Over
  <1>3. /\ Names \subseteq DOMAIN jar'
        /\ \A k \in Names : jar'[k] = IF k \in DOMAIN set THEN set[k] ELSE jar[k]
    BY <1>1, <1>2 DEF Shape, Names
  <1>. QED  BY <1>3 DEF Receive, Received, Shape, serverVars

\* The steps that change nothing but the clock, the keys or nothing at all.
Aside == UNCHANGED <<posts, jar, form, stage, req, res, out, crossed, seen>>

LEMMA Steps ==
    ASSUME [Next]_vars
    PROVE  \/ Aside
           \/ \E t \in Tabs : Serve(t) \/ Receive(t) \/ \E kind \in Kinds : Send(t, kind)
  BY DEF Next, Restart, Tick, Aside, vars, serverVars, browserVars

LEMMA ShapeInit == Init => Shape
  BY DEF Init, Shape, Stages, NoCookies

LEMMA ShapeNext ==
    ASSUME Shape, [Next]_vars
    PROVE  Shape'
  <1>1. CASE Aside
    BY <1>1 DEF Aside, Shape
  <1>2. ASSUME NEW t \in Tabs, Serve(t)
        PROVE  Shape'
    <2>1. Frame(t)
      BY <1>2, Served
    <2>. QED  BY <2>1 DEF Shape, Frame, Stages
  <1>3. ASSUME NEW t \in Tabs, Receive(t)
        PROVE  Shape'
    <2>1. Received(t)
      BY <1>3, Receiving
    <2>. QED  BY <2>1 DEF Shape, Received, Stages, Names
  <1>4. ASSUME NEW t \in Tabs, NEW kind \in Kinds, Send(t, kind)
        PROVE  Shape'
    <2>1. Sent(t, kind)
      BY <1>4, Sending
    <2>. QED  BY <2>1 DEF Shape, Sent, Stages
  <1>. QED  BY <1>1, <1>2, <1>3, <1>4, Steps

(***************************************************************************)
(* Logouts last                                                            *)
(***************************************************************************)

\* After a logout nothing on the way can bring a session back but a login.
Gone ==
    /\ out => jar.auth = NoSession
    /\ \A t \in Tabs : out /\ stage[t] = "sent" => req[t].carried.auth = NoSession
    /\ \A t \in Tabs : out /\ stage[t] = "answered" /\ "auth" \in DOMAIN res[t].set =>
          \/ res[t].set["auth"] = NoSession
          \/ req[t].kind = "login" /\ res[t].who = "user"
    /\ \A t \in Tabs : stage[t] = "answered" /\ req[t].kind = "logout" /\ res[t].who = "user" =>
          "auth" \in DOMAIN res[t].set /\ res[t].set["auth"] = NoSession

LEMMA GoneNext ==
    ASSUME Shape, Gone, [Next]_vars
    PROVE  Gone'
  <1>1. CASE Aside
    BY <1>1 DEF Aside, Gone
  <1>2. ASSUME NEW t \in Tabs, Serve(t)
        PROVE  Gone'
    <2>1. Frame(t) /\ AuthServed(t)
      BY <1>2, Served
    <2>. QED  BY <2>1 DEF Shape, Gone, Frame, AuthServed
  <1>3. ASSUME NEW t \in Tabs, Receive(t)
        PROVE  Gone'
    <2>1. Received(t)
      BY <1>3, Receiving
    <2>2. out' = CASE res[t].who = "user" /\ req[t].kind = "logout" -> Others(t) = {}
                   [] res[t].who = "user" /\ req[t].kind = "login"  -> FALSE
                   [] OTHER -> out
      BY <1>3 DEF Receive
    <2>3. CASE res[t].who = "user" /\ req[t].kind = "logout"
      <3>1. jar'.auth = NoSession
        BY <2>1, <2>3 DEF Gone, Received, Names
      <3>2. out' = (Others(t) = {})
        BY <2>2, <2>3
      <3>3. out' => \A u \in Tabs : stage'[u] = "idle"
        BY <2>1, <3>2 DEF Others, Received, Shape
      <3>. QED  BY <2>1, <3>1, <3>3 DEF Gone, Shape, Received
    <2>4. CASE res[t].who = "user" /\ req[t].kind = "login"
      <3>1. ~ out'
        BY <2>2, <2>4
      <3>. QED  BY <2>1, <3>1 DEF Gone, Shape, Received
    <2>5. CASE res[t].who # "user" \/ req[t].kind \notin {"login", "logout"}
      <3>1. out' = out
        BY <2>2, <2>5
      <3>2. out => jar'.auth = NoSession
        BY <2>1, <2>5 DEF Gone, Received, Names
      <3>. QED  BY <2>1, <3>1, <3>2 DEF Gone, Shape, Received
    <2>. QED  BY <2>3, <2>4, <2>5
  <1>4. ASSUME NEW t \in Tabs, NEW kind \in Kinds, Send(t, kind)
        PROVE  Gone'
    <2>1. Sent(t, kind)
      BY <1>4, Sending
    <2>. QED  BY <2>1 DEF Shape, Gone, Sent
  <1>. QED  BY <1>1, <1>2, <1>3, <1>4, Steps

\* A session that was logged out without another request on the way stays
\* gone until the next login: (*CookieAuth).Middleware refreshes only what a
\* request still carries.
THEOREM LoggedOutForGood == Spec => []LogoutSticks
  <1>1. Init => Shape /\ Gone
    BY ShapeInit DEF Init, Gone, NoCookies
  <1>2. Shape /\ Gone /\ [Next]_vars => (Shape /\ Gone)'
    BY ShapeNext, GoneNext
  <1>3. Gone => LogoutSticks
    BY DEF Gone, LogoutSticks
  <1>. QED  BY <1>1, <1>2, <1>3, PTL DEF Spec

(***************************************************************************)
(* Forms stay valid                                                        *)
(***************************************************************************)

\* t's request went out without a CSRF cookie, and its token is not here yet.
First(t) ==
    \/ stage[t] = "sent" /\ req[t].carried.csrf = None
    \/ stage[t] = "answered" /\ "csrf" \in DOMAIN res[t].set

\* What every tab knows of the one token of the browser, unless first requests
\* crossed.
OneToken ==
    /\ \A t \in Tabs : form[t] \in {None, jar.csrf}
    /\ \A t \in Tabs : stage[t] = "sent" =>
          /\ req[t].carried.csrf \in {None, jar.csrf}
          /\ req[t].kind # "page" => /\ req[t].carried.csrf # None
                                     /\ req[t].posted = req[t].carried.csrf
    /\ \A t \in Tabs : stage[t] = "answered" =>
          res[t].token \in {None, IF "csrf" \in DOMAIN res[t].set THEN res[t].set["csrf"] ELSE jar.csrf}
    /\ \A t \in Tabs : First(t) => jar.csrf = None
    /\ \A t, u \in Tabs : First(t) /\ First(u) => t = u

Matching ==
    /\ ~crossed => OneToken
    /\ \A t \in Tabs : res[t].who = "forbidden" => crossed

LEMMA MatchingServe ==
    ASSUME Shape, Matching, NEW t \in Tabs, Serve(t)
    PROVE  Matching'
  <1>1. Frame(t) /\ CsrfServed(t)
    BY Served
  <1>2. CASE crossed
    BY <1>1, <1>2 DEF Frame, Matching
  <1>3. CASE ~crossed
    <2> OneToken
      BY <1>3 DEF Matching
    <2>1. \A u \in Tabs : First(u)' <=> First(u)
      BY <1>1 DEF First, Frame, CsrfServed, Shape
    <2>2. Allowed(t)
      BY <1>1 DEF OneToken, Frame, Allowed, validateCSRFToken
    <2>3. \A u \in Tabs : form'[u] \in {None, jar'.csrf}
      BY <1>1 DEF OneToken, Frame
    <2>4. \A u \in Tabs : stage'[u] = "sent" =>
             /\ req'[u].carried.csrf \in {None, jar'.csrf}
             /\ req'[u].kind # "page" => /\ req'[u].carried.csrf # None
                                         /\ req'[u].posted = req'[u].carried.csrf
      BY <1>1 DEF OneToken, Frame, Shape
    <2>5. \A u \in Tabs : stage'[u] = "answered" =>
             res'[u].token \in
                {None, IF "csrf" \in DOMAIN res'[u].set THEN res'[u].set["csrf"] ELSE jar'.csrf}
      <3>1. TAKE u \in Tabs
      <3>2. CASE u = t
        BY <1>1, <3>2 DEF OneToken, Frame, CsrfServed, Token
      <3>3. CASE u # t
        BY <1>1, <3>3 DEF OneToken, Frame, Shape
      <3>. QED  BY <3>2, <3>3
    <2>6. jar' = jar
      BY <1>1 DEF Frame
    <2>7. OneToken'
      BY <2>1, <2>3, <2>4, <2>5, <2>6 DEF OneToken
    <2>8. \A u \in Tabs : res'[u].who # "forbidden"
      BY <1>1, <1>3, <2>2 DEF Matching, Frame, CsrfServed
    <2>. QED  BY <2>7, <2>8 DEF Matching
  <1>. QED  BY <1>2, <1>3

LEMMA MatchingReceive ==
    ASSUME Shape, Matching, NEW t \in Tabs, Receive(t)
    PROVE  Matching'
  <1>1. Received(t)
    BY Receiving
  <1>2. \A u \in Tabs : res'[u].who = "forbidden" => crossed'
    BY <1>1 DEF Received, NoResponse, Matching
  <1>3. ASSUME ~crossed
        PROVE  OneToken'
    <2> OneToken
      BY <1>3 DEF Matching
    <2>1. jar'.csrf = IF "csrf" \in DOMAIN res[t].set THEN res[t].set["csrf"] ELSE jar.csrf
      BY <1>1 DEF Received, Names
    <2>2. "csrf" \in DOMAIN res[t].set => First(t) /\ jar.csrf = None
      BY <1>1 DEF Received, First, OneToken
    <2>3. ~ First(t)' /\ \A u \in Tabs \ {t} : First(u)' <=> First(u)
      BY <1>1 DEF Received, First, Shape
    <2>4. \A u \in Tabs : First(u)' => jar'.csrf = None
      BY <2>1, <2>2, <2>3 DEF OneToken
    <2>5. \A u, v \in Tabs : First(u)' /\ First(v)' => u = v
      BY <2>3 DEF OneToken
    <2>6. \A u \in Tabs : form'[u] \in {None, jar'.csrf}
      BY <1>1, <2>1, <2>2 DEF Received, OneToken
    <2>7. \A u \in Tabs : stage'[u] = "sent" =>
             /\ req'[u].carried.csrf \in {None, jar'.csrf}
             /\ req'[u].kind # "page" => /\ req'[u].carried.csrf # None
                                         /\ req'[u].posted = req'[u].carried.csrf
      BY <1>1, <2>1, <2>2 DEF Received, OneToken, Shape
    <2>8. \A u \in Tabs : stage'[u] = "answered" =>
             res'[u].token \in
                {None, IF "csrf" \in DOMAIN res'[u].set THEN res'[u].set["csrf"] ELSE jar'.csrf}
      BY <1>1, <2>1, <2>2 DEF Received, OneToken, Shape
    <2>. QED  BY <2>4, <2>5, <2>6, <2>7, <2>8 DEF OneToken
  <1>. QED  BY <1>1, <1>2, <1>3 DEF Matching, Received

LEMMA MatchingSend ==
    ASSUME Shape, Matching, NEW t \in Tabs, NEW kind \in Kinds, Send(t, kind)
    PROVE  Matching'
  <1>1. Sent(t, kind)
    BY Sending
  <1>2. crossed' = (crossed \/ (jar.csrf = None /\ FirstRequests(t) # {}))
    BY DEF Send
  <1>3. \A u \in Tabs : res'[u].who = "forbidden" => crossed'
    BY <1>1, <1>2 DEF Sent, Matching
  <1>4. ASSUME ~crossed'
        PROVE  OneToken'
    <2> OneToken
      BY <1>2, <1>4 DEF Matching
    <2>1. /\ First(t)' <=> jar.csrf = None
          /\ \A u \in Tabs \ {t} : First(u)' <=> First(u)
      BY <1>1 DEF Sent, First, Shape
    <2>2. jar.csrf = None => \A u \in Tabs \ {t} : ~ First(u)
      BY <1>2, <1>4 DEF FirstRequests, Others, First, Shape, Stages
    <2>3. \A u, v \in Tabs : First(u)' /\ First(v)' => u = v
      BY <2>1, <2>2 DEF OneToken
    <2>4. \A u \in Tabs : First(u)' => jar'.csrf = None
      BY <1>1, <2>1 DEF OneToken, Sent
    <2>5. \A u \in Tabs : form'[u] \in {None, jar'.csrf}
      BY <1>1 DEF Sent, OneToken
    <2>6. \A u \in Tabs : stage'[u] = "sent" =>
             /\ req'[u].carried.csrf \in {None, jar'.csrf}
             /\ req'[u].kind # "page" => /\ req'[u].carried.csrf # None
                                         /\ req'[u].posted = req'[u].carried.csrf
      <3>1. kind # "page" => form[t] = jar.csrf /\ jar.csrf # None
        BY <1>1 DEF Sent, OneToken
      <3>. QED  BY <1>1, <3>1 DEF Sent, OneToken, Shape
    <2>7. \A u \in Tabs : stage'[u] = "answered" =>
             res'[u].token \in
                {None, IF "csrf" \in DOMAIN res'[u].set THEN res'[u].set["csrf"] ELSE jar'.csrf}
      BY <1>1 DEF Sent, OneToken, Shape
    <2>. QED  BY <2>3, <2>4, <2>5, <2>6, <2>7 DEF OneToken
  <1>. QED  BY <1>3, <1>4 DEF Matching

\* Unless two first requests of a browser crossed, getOrCreateToken makes one
\* token and validateCSRFToken accepts the form of every tab.
THEOREM FormsStayValid == Spec => []FormsAccepted
  <1>1. Init => Shape /\ Matching
    <2> SUFFICES ASSUME Init PROVE Matching
      BY ShapeInit
    <2>1. OneToken
      BY DEF Init, OneToken, First, NoCookies
    <2>. QED  BY <2>1 DEF Init, Matching, NoResponse
  <1>2. ASSUME Shape, Matching, [Next]_vars
        PROVE  Matching'
    <2>1. CASE Aside
      <3>1. OneToken => OneToken'
        BY <2>1 DEF Aside, OneToken, First
      <3>. QED  BY <1>2, <2>1, <3>1 DEF Aside, Matching
    <2>2. CASE \E t \in Tabs : Serve(t) \/ Receive(t) \/ \E kind \in Kinds : Send(t, kind)
      BY <1>2, <2>2, MatchingServe, MatchingReceive, MatchingSend
    <2>. QED  BY <1>2, <2>1, <2>2, Steps
  <1>3. Matching => FormsAccepted
    BY DEF Matching, FormsAccepted
  <1>4. Shape /\ Matching /\ [Next]_vars => (Shape /\ Matching)'
    BY <1>2, ShapeNext
  <1>. QED  BY <1>1, <1>3, <1>4, PTL DEF Spec

(***************************************************************************)
(* Flash messages                                                          *)
(***************************************************************************)

\* A message on its way to the browser for the first time.
Brings(t, k) ==
    /\ stage[t] = "answered" /\ "flash" \in DOMAIN res[t].set
    /\ res[t].set["flash"].msg = k /\ k # None

\* k is in no cookie, in no other response, and was not shown.
Unheard(t, k) ==
    /\ k \notin seen /\ k # jar.flash.msg
    /\ \A u \in Tabs : stage[u] = "sent" => req[u].carried.flash.msg # k
    /\ \A u \in Tabs : stage[u] = "answered" => res[u].shown # k
    /\ \A u \in Tabs \ {t} : ~ Brings(u, k)

Numbered ==
    /\ posts \in Nat /\ seen \subseteq 1..posts
    /\ jar.flash.msg \in 0..posts
    /\ \A t \in Tabs : stage[t] = "sent" => req[t].carried.flash.msg \in 0..posts
    /\ \A t \in Tabs : stage[t] = "answered" =>
          /\ res[t].shown \in 0..posts
          /\ "flash" \in DOMAIN res[t].set => res[t].set["flash"].msg \in 0..posts
          /\ "flash" \notin DOMAIN res[t].set => res[t].shown = None

OnceOnly ==
    /\ jar.flash.msg \notin seen
    /\ \A t \in Tabs : \A k \in 1..posts : Brings(t, k) => Unheard(t, k)

LEMMA NumberedNext ==
    ASSUME Shape, Numbered, [Next]_vars
    PROVE  Numbered'
  <1>1. CASE Aside
    BY <1>1 DEF Aside, Numbered
  <1>2. ASSUME NEW t \in Tabs, Serve(t)
        PROVE  Numbered'
    <2>1. Frame(t) /\ FlashServed(t)
      BY <1>2, Served
    <2>2. posts \in Nat /\ posts' \in {posts, posts + 1}
      BY <2>1 DEF FlashServed, Numbered
    <2>3. 0..posts \subseteq 0..posts' /\ 1..posts \subseteq 1..posts' /\ None \in 0..posts' /\ posts' \in Nat
      BY <2>2 DEF None
    <2>4. posts' \in 0..posts'
      BY <2>2
    <2>5. req[t].carried.flash.msg \in 0..posts
      BY <2>1 DEF Numbered, Frame
    <2>6. /\ res'[t].shown \in 0..posts'
          /\ "flash" \in DOMAIN res'[t].set => res'[t].set["flash"].msg \in 0..posts'
          /\ "flash" \notin DOMAIN res'[t].set => res'[t].shown = None
      BY <2>1, <2>3, <2>4, <2>5 DEF FlashServed
    <2>. QED  BY <2>1, <2>3, <2>6 DEF Numbered, Frame, Shape
  <1>3. ASSUME NEW t \in Tabs, Receive(t)
        PROVE  Numbered'
    <2>1. Received(t)
      BY <1>3, Receiving
    <2>2. jar'.flash = IF "flash" \in DOMAIN res[t].set THEN res[t].set["flash"] ELSE jar.flash
      BY <2>1 DEF Received, Names
    <2>3. seen' \subseteq 1..posts'
      <3>1. /\ posts' = posts /\ posts \in Nat
            /\ seen' = seen \cup ({res[t].shown} \ {0})
            /\ seen \subseteq 1..posts /\ res[t].shown \in 0..posts
        BY <2>1 DEF Received, Numbered, None
      <3>2. ASSUME NEW k \in seen'
            PROVE  k \in 1..posts
        <4>1. CASE k \in seen
          BY <3>1, <4>1
        <4>2. CASE k = res[t].shown /\ k # 0
          BY <3>1, <4>2
        <4>. QED  BY <3>1, <3>2, <4>1, <4>2
      <3>. QED  BY <3>1, <3>2
    <2>4. jar'.flash.msg \in 0..posts'
      BY <2>1, <2>2 DEF Numbered, Received
    <2>5. \A u \in Tabs : stage'[u] # "idle" =>
             stage'[u] = stage[u] /\ req'[u] = req[u] /\ res'[u] = res[u]
      BY <2>1 DEF Received, Shape
    <2>. QED  BY <2>1, <2>3, <2>4, <2>5 DEF Numbered, Received
  <1>4. ASSUME NEW t \in Tabs, NEW kind \in Kinds, Send(t, kind)
        PROVE  Numbered'
    <2>1. Sent(t, kind)
      BY <1>4, Sending
    <2>. QED  BY <2>1 DEF Numbered, Sent, Shape
  <1>. QED  BY <1>1, <1>2, <1>3, <1>4, Steps

LEMMA OnceOnlyServe ==
    ASSUME Shape, Numbered, OnceOnly, NEW t \in Tabs, Serve(t)
    PROVE  OnceOnly'
  <1>1. Frame(t) /\ FlashServed(t)
    BY Served
  <1>2. posts \in Nat /\ posts' \in {posts, posts + 1}
    BY <1>1 DEF FlashServed, Numbered
  <1>3. \A u \in Tabs \ {t} : \A k : Brings(u, k)' <=> Brings(u, k)
    BY <1>1 DEF Frame, Brings, Shape
  <1>4. \A k : Brings(t, k)' => k = posts + 1
    BY <1>1 DEF FlashServed, Brings
  <1>5. \A u \in Tabs : \A k : Brings(u, k) => k \in 1..posts
    BY <1>2 DEF Brings, Numbered, None
  <1>6. res'[t].shown \in {None, req[t].carried.flash.msg}
    BY <1>1 DEF FlashServed
  <1>7. ASSUME NEW u \in Tabs, NEW k, Brings(u, k)'
        PROVE  Unheard(u, k)'
    <2>1. CASE u = t
      <3>1. k = posts + 1
        BY <1>4, <1>7, <2>1
      <3>2. k \notin seen /\ k # jar.flash.msg /\ k \notin 0..posts /\ k # None
        BY <1>2, <3>1 DEF Numbered, None
      <3>3. \A v \in Tabs : stage'[v] = "sent" => req'[v].carried.flash.msg # k
        BY <1>1, <3>2 DEF Numbered, Frame, Shape
      <3>4. \A v \in Tabs : stage'[v] = "answered" => res'[v].shown # k
        BY <1>1, <1>6, <3>2 DEF Numbered, Frame, Shape
      <3>5. \A v \in Tabs \ {t} : ~ Brings(v, k)'
        BY <1>2, <1>3, <1>5, <3>1
      <3>. QED  BY <1>1, <2>1, <3>2, <3>3, <3>4, <3>5 DEF Unheard, Frame
    <2>2. CASE u # t
      <3>1. Brings(u, k) /\ k \in 1..posts /\ k # None
        BY <1>3, <1>5, <1>7, <2>2 DEF Brings
      <3>2. Unheard(u, k)
        BY <3>1 DEF OnceOnly
      <3>3. k # posts + 1
        BY <1>2, <3>1
      <3>4. \A v \in Tabs : stage'[v] = "answered" => res'[v].shown # k
        BY <1>1, <1>6, <3>1, <3>2 DEF Unheard, Frame, Shape
      <3>5. \A v \in Tabs \ {u} : ~ Brings(v, k)'
        BY <1>3, <1>4, <3>2, <3>3 DEF Unheard
      <3>. QED  BY <1>1, <3>2, <3>4, <3>5 DEF Unheard, Frame, Shape
    <2>. QED  BY <2>1, <2>2
  <1>. QED  BY <1>1, <1>7 DEF OnceOnly, Frame

LEMMA OnceOnlyReceive ==
    ASSUME Shape, Numbered, OnceOnly, NEW t \in Tabs, Receive(t)
    PROVE  OnceOnly'
  <1>1. Received(t)
    BY Receiving
  <1>2. jar'.flash = IF "flash" \in DOMAIN res[t].set THEN res[t].set["flash"] ELSE jar.flash
    BY <1>1 DEF Received, Names
  <1>3. \A u \in Tabs : \A k : Brings(u, k)' => u # t /\ Brings(u, k) /\ k \in 1..posts /\ k # None
    BY <1>1 DEF Received, Brings, Shape, Numbered, None
  <1>4. None \notin seen'
    BY <1>1 DEF Received, Numbered, None
  <1>5. jar'.flash.msg \notin seen'
    <2>1. CASE "flash" \notin DOMAIN res[t].set
      BY <1>1, <1>2, <2>1 DEF Numbered, OnceOnly, Received
    <2>2. CASE "flash" \in DOMAIN res[t].set /\ res[t].set["flash"].msg = None
      BY <1>2, <1>4, <2>2
    <2>3. CASE "flash" \in DOMAIN res[t].set /\ res[t].set["flash"].msg # None
      <3> DEFINE k == res[t].set["flash"].msg
      <3>1. Brings(t, k) /\ k \in 1..posts
        BY <1>1, <2>3 DEF Brings, Received, Numbered, None
      <3>2. k \notin seen /\ res[t].shown # k
        BY <1>1, <3>1 DEF OnceOnly, Unheard, Received
      <3>. QED  BY <1>1, <1>2, <2>3, <3>2 DEF Received
    <2>. QED  BY <2>1, <2>2, <2>3
  <1>6. ASSUME NEW u \in Tabs, NEW k, Brings(u, k)'
        PROVE  Unheard(u, k)'
    <2>1. u # t /\ Brings(u, k) /\ Unheard(u, k) /\ k # None
      BY <1>3, <1>6 DEF OnceOnly
    <2>2. k \notin seen'
      BY <1>1, <2>1 DEF Received, Unheard
    <2>3. k # jar'.flash.msg
      BY <1>1, <1>2, <2>1 DEF Received, Unheard, Brings
    <2>4. \A v \in Tabs \ {u} : ~ Brings(v, k)'
      BY <1>3, <2>1 DEF Unheard
    <2>. QED  BY <1>1, <2>1, <2>2, <2>3, <2>4 DEF Unheard, Received, Shape
  <1>. QED  BY <1>5, <1>6 DEF OnceOnly

LEMMA OnceOnlySend ==
    ASSUME Shape, OnceOnly, NEW t \in Tabs, NEW kind \in Kinds, Send(t, kind)
    PROVE  OnceOnly'
  <1>1. Sent(t, kind)
    BY Sending
  <1>2. \A u \in Tabs : \A k : Brings(u, k)' <=> Brings(u, k)
    BY <1>1 DEF Sent, Brings, Shape
  <1>3. ASSUME NEW u \in Tabs, NEW k \in 1..posts, Brings(u, k)'
        PROVE  Unheard(u, k)'
    <2>1. Unheard(u, k)
      BY <1>2, <1>3 DEF OnceOnly
    <2>2. \A v \in Tabs : stage'[v] = "sent" => req'[v].carried.flash.msg # k
      BY <1>1, <2>1 DEF Sent, Unheard, Shape
    <2>. QED  BY <1>1, <1>2, <2>1, <2>2 DEF Unheard, Sent, Shape
  <1>. QED  BY <1>1, <1>3 DEF OnceOnly, Sent

\* What getFlashMessage showed, clearCookie removed for good: no response on
\* the way puts a message back into the jar that the browser has shown.
THEOREM ShownOnce == Spec => []SeenIsGone
  <1>1. Init => Shape /\ Numbered /\ OnceOnly
    <2> SUFFICES ASSUME Init PROVE Numbered /\ OnceOnly
      BY ShapeInit
    <2>1. Numbered
      BY DEF Init, Numbered, NoCookies, NoFlash, None
    <2>2. OnceOnly
      BY DEF Init, OnceOnly, Brings
    <2>. QED  BY <2>1, <2>2
  <1>2. ASSUME Shape, Numbered, OnceOnly, [Next]_vars
        PROVE  OnceOnly'
    <2>1. CASE Aside
      BY <1>2, <2>1 DEF Aside, OnceOnly, Brings, Unheard
    <2>2. CASE \E t \in Tabs : Serve(t) \/ Receive(t) \/ \E kind \in Kinds : Send(t, kind)
      BY <1>2, <2>2, OnceOnlyServe, OnceOnlyReceive, OnceOnlySend
    <2>. QED  BY <1>2, <2>1, <2>2, Steps
  <1>3. OnceOnly => SeenIsGone
    BY DEF OnceOnly, SeenIsGone
  <1>4. Shape /\ Numbered /\ OnceOnly /\ [Next]_vars => (Shape /\ Numbered /\ OnceOnly)'
    BY <1>2, ShapeNext, NumberedNext
  <1>. QED  BY <1>1, <1>3, <1>4, PTL DEF Spec

(***************************************************************************)
(* The sliding window                                                      *)
(***************************************************************************)

\* How far the session in the jar may be behind what the browser knows: a
\* response shows it alive without saving it anew, or an older one arrives late.
Lag == RefreshAge + Latency

At(session, from, to) == session = NoSession \/ session.at \in {n \in Nat : from <= n /\ n <= to}

Clock ==
    /\ now \in Nat /\ fresh \in Nat /\ fresh <= now
    /\ \A t \in Tabs : stage[t] # "idle" =>
          req[t].sent \in Nat /\ req[t].sent <= now /\ now <= req[t].sent + Latency

JarAlive ==
    /\ At(jar.auth, 0, now)
    /\ fresh # None => jar.auth # NoSession /\ fresh <= jar.auth.at + Lag

\* The session t's request carries is as fresh as the browser thought, unless it
\* was too old to be sent.  Since then the jar has got no session but from
\* responses to requests under way with it.
SentAlive(t) ==
    LET c == req[t].carried IN
    /\ At(c.auth, 0, req[t].sent)
    /\ req[t].fresh \in Nat
    /\ req[t].fresh # None =>
          \/ c.auth # NoSession /\ req[t].fresh <= c.auth.at + Lag
          \/ c.auth = NoSession /\ req[t].fresh + MaxAge < req[t].sent + Lag
    /\ c.auth # NoSession =>
          jar.auth \in {c.auth, NoSession} \/ req[t].sent <= jar.auth.at + Latency

AnsweredAlive(t) ==
    LET set == res[t].set IN
    /\ res[t].at \in Nat /\ res[t].at <= now
    /\ "auth" \in DOMAIN set => At(set["auth"], req[t].sent, now)
    /\ "auth" \notin DOMAIN set /\ res[t].at # None =>
          jar.auth = NoSession \/ res[t].at <= jar.auth.at + Lag

Alive ==
    /\ Clock /\ JarAlive
    /\ \A t \in Tabs : stage[t] = "sent" => SentAlive(t)
    /\ \A t \in Tabs : stage[t] = "answered" => AnsweredAlive(t)

LEMMA Ages ==
    /\ RefreshAge \in Nat /\ Latency \in Nat /\ MaxAge \in Nat /\ CodecAge \in Nat
    /\ RefreshAge = MaxAge \div 2
  BY SessionsAssumption DEF RefreshAge

LEMMA AliveTick ==
    ASSUME Shape, Alive, Tick
    PROVE  Alive'
  <1> USE Ages
  <1>1. /\ now' = now + 1 /\ UNCHANGED <<jar, fresh, stage, req, res>>
        /\ \A t \in Tabs : stage[t] # "idle" => now - req[t].sent < Latency
    BY DEF Tick, serverVars, browserVars
  <1>2. Clock' /\ JarAlive'
    BY <1>1 DEF Alive, Clock, JarAlive, At
  <1>3. \A t \in Tabs : stage'[t] = "sent" => SentAlive(t)'
    BY <1>1 DEF Alive, SentAlive, At
  <1>4. \A t \in Tabs : stage'[t] = "answered" => AnsweredAlive(t)'
    BY <1>1 DEF Alive, Clock, AnsweredAlive, At
  <1>. QED  BY <1>2, <1>3, <1>4 DEF Alive

\* A response that does not save the session was made when it was fresh; what
\* has come into the jar meanwhile is not older than the request by more than
\* Latency.
LEMMA AliveServe ==
    ASSUME Shape, Alive, NEW t \in Tabs, Serve(t)
    PROVE  Alive'
  <1> USE Ages
  <1>1. Frame(t) /\ AliveServed(t)
    BY Served
  <1>2. \A u \in Tabs \ {t} : stage'[u] = stage[u]
    BY <1>1 DEF Frame, Shape
  <1>3. stage'[t] = "answered" /\ SentAlive(t) /\ stage[t] # "idle"
    BY <1>1 DEF Frame, Shape, Alive
  <1>4. Clock' /\ JarAlive'
    BY <1>1, <1>2, <1>3 DEF Frame, Alive, Clock, JarAlive, At
  <1>5. ASSUME NEW u \in Tabs \ {t}
        PROVE  (stage'[u] = "sent" => SentAlive(u)') /\ (stage'[u] = "answered" => AnsweredAlive(u)')
    BY <1>1, <1>2 DEF Frame, Alive, SentAlive, AnsweredAlive
  <1>6. AnsweredAlive(t)'
    <2> DEFINE c == req[t].carried.auth
               set == res'[t].set
               sent == req[t].sent
    <2>1. /\ now \in Nat /\ sent \in Nat /\ sent <= now /\ now <= sent + Latency
          /\ now' = now /\ jar' = jar /\ req'[t].sent = sent
      BY <1>1, <1>3 DEF Alive, Clock, Frame
    <2>2. res'[t].at \in Nat /\ res'[t].at <= now
      BY <1>1, <2>1 DEF AliveServed, None
    <2>3. "auth" \in DOMAIN set => At(set["auth"], sent, now)
      BY <1>1, <2>1 DEF AliveServed, At, Stamp
    <2>4. ASSUME "auth" \notin DOMAIN set, res'[t].at # None, jar.auth # NoSession
          PROVE  res'[t].at <= jar.auth.at + Lag
      <3>1. res'[t].at = now /\ c # NoSession /\ ~(now - c.at > RefreshAge)
        BY <1>1, <2>4 DEF AliveServed, Authenticated
      <3>2. c.at \in Nat /\ c.at <= sent /\ now <= c.at + RefreshAge
        BY <1>3, <2>1, <3>1 DEF SentAlive, At
      <3>3. jar.auth = c \/ sent <= jar.auth.at + Latency
        BY <1>3, <2>4, <3>1 DEF SentAlive
      <3>4. jar.auth.at \in Nat
        BY <2>4 DEF Alive, JarAlive, At
      <3>. QED  BY <2>1, <3>1, <3>2, <3>3, <3>4 DEF Lag
    <2>. QED  BY <2>1, <2>2, <2>3, <2>4 DEF AnsweredAlive
  <1>. QED  BY <1>3, <1>4, <1>5, <1>6 DEF Alive

LEMMA AliveSend ==
    ASSUME Shape, Alive, NEW t \in Tabs, NEW kind \in Kinds, Send(t, kind)
    PROVE  Alive'
  <1> USE Ages
  <1>1. Sent(t, kind) /\ UNCHANGED <<now, fresh>> /\ req'[t].sent = now /\ req'[t].fresh = fresh
    BY Sending
  <1>2. stage'[t] = "sent" /\ \A u \in Tabs \ {t} : stage'[u] = stage[u]
    BY <1>1 DEF Sent, Shape
  <1>3. Clock' /\ JarAlive'
    BY <1>1, <1>2 DEF Sent, Alive, Clock, JarAlive, At
  <1>4. ASSUME NEW u \in Tabs \ {t}
        PROVE  (stage'[u] = "sent" => SentAlive(u)') /\ (stage'[u] = "answered" => AnsweredAlive(u)')
    BY <1>1, <1>2 DEF Sent, Alive, SentAlive, AnsweredAlive
  <1>5. SentAlive(t)'
    <2> DEFINE c == req'[t].carried.auth
    <2>1. /\ now \in Nat /\ fresh \in Nat /\ At(jar.auth, 0, now) /\ jar' = jar
          /\ fresh # None => jar.auth # NoSession /\ fresh <= jar.auth.at + Lag
          /\ c = jar.auth \/ (c = NoSession /\ now - jar.auth.at > MaxAge)
      <3> HIDE DEF NoSession
      <3>. QED  BY <1>1 DEF Sent, Alive, Clock, JarAlive
    <2>2. jar.auth # NoSession => jar.auth.at \in Nat /\ jar.auth.at <= now
      BY <2>1 DEF At
    <2>3. At(c, 0, now)
      BY <2>1 DEF At
    <2>4. fresh # None => \/ c # NoSession /\ fresh <= c.at + Lag
                          \/ c = NoSession /\ fresh + MaxAge < now + Lag
      <3> HIDE DEF NoSession
      <3>. QED  BY <2>1, <2>2 DEF Lag
    <2>. QED  BY <1>1, <2>1, <2>3, <2>4 DEF SentAlive
  <1>. QED  BY <1>2, <1>3, <1>4, <1>5 DEF Alive

LEMMA AliveReceive ==
    ASSUME Shape, Alive, NEW t \in Tabs, Receive(t)
    PROVE  Alive'
  <1> USE Ages
  <1> DEFINE set == res[t].set
             sent == req[t].sent
  <1>1. /\ Received(t) /\ now' = now /\ stage[t] = "answered"
        /\ jar'.auth = IF "auth" \in DOMAIN set THEN set["auth"] ELSE jar.auth
        /\ fresh' = IF jar'.auth = NoSession \/ jar'.auth.key # key THEN None ELSE Later(fresh, res[t].at)
    BY Receiving DEF Receive, Received, Names
  <1>2. stage'[t] = "idle" /\ \A u \in Tabs \ {t} : stage'[u] = stage[u]
    BY <1>1 DEF Received, Shape
  <1>3. /\ now \in Nat /\ fresh \in Nat /\ fresh <= now
        /\ sent \in Nat /\ sent <= now /\ now <= sent + Latency
        /\ res[t].at \in Nat /\ res[t].at <= now
        /\ "auth" \in DOMAIN set => At(set["auth"], sent, now)
        /\ "auth" \notin DOMAIN set /\ res[t].at # None => jar.auth = NoSession \/ res[t].at <= jar.auth.at + Lag
    BY <1>1 DEF Alive, Clock, AnsweredAlive
  \* The session in the jar is the old one, or one served within Latency.
  <1>4. jar'.auth \in {jar.auth, NoSession} \/ (jar'.auth.at \in Nat /\ now <= jar'.auth.at + Latency)
    BY <1>1, <1>3 DEF At
  <1>5. At(jar'.auth, 0, now)
    BY <1>1, <1>3 DEF At, Alive, JarAlive
  <1>6. fresh' \in Nat /\ fresh' <= now
    BY <1>1, <1>3 DEF Later, None
  <1>7. ASSUME fresh' # None
        PROVE  jar'.auth # NoSession /\ fresh' <= jar'.auth.at + Lag
    <2>1. jar'.auth # NoSession /\ fresh' \in {fresh, res[t].at} /\ jar'.auth.at \in Nat
      BY <1>1, <1>5, <1>7 DEF Later, At
    <2>2. CASE "auth" \in DOMAIN set
      BY <1>1, <1>3, <1>6, <2>1, <2>2 DEF At, Lag
    <2>3. CASE "auth" \notin DOMAIN set
      BY <1>1, <1>3, <1>7, <2>1, <2>3 DEF Alive, JarAlive
    <2>. QED  BY <2>1, <2>2, <2>3
  <1>8. Clock' /\ JarAlive'
    <2>1. Clock'
      BY <1>1, <1>2, <1>3, <1>6 DEF Received, Alive, Clock
    <2>2. JarAlive'
      BY <1>1, <1>5, <1>7 DEF JarAlive
    <2>. QED  BY <2>1, <2>2
  <1>9. ASSUME NEW u \in Tabs \ {t}, stage'[u] = "sent"
        PROVE  SentAlive(u)'
    <2>1. SentAlive(u) /\ req'[u] = req[u] /\ req[u].sent \in Nat /\ req[u].sent <= now
      BY <1>1, <1>2, <1>9 DEF Alive, Clock, Received
    <2>2. req[u].carried.auth # NoSession =>
             jar'.auth \in {req[u].carried.auth, NoSession} \/ req[u].sent <= jar'.auth.at + Latency
      BY <1>3, <1>4, <2>1 DEF SentAlive
    <2>. QED  BY <2>1, <2>2 DEF SentAlive
  <1>10. ASSUME NEW u \in Tabs \ {t}, stage'[u] = "answered"
         PROVE  AnsweredAlive(u)'
    <2>1. AnsweredAlive(u) /\ req'[u] = req[u] /\ res'[u] = res[u]
      BY <1>1, <1>2, <1>10 DEF Alive, Received
    <2>2. jar'.auth \notin {jar.auth, NoSession} => res[u].at <= jar'.auth.at + Lag
      BY <1>3, <1>4, <2>1 DEF AnsweredAlive, Lag
    <2>. QED  BY <1>1, <2>1, <2>2 DEF AnsweredAlive
  <1>. QED  BY <1>2, <1>8, <1>9, <1>10 DEF Alive

LEMMA AliveNext ==
    ASSUME Shape, Alive, [Next]_vars
    PROVE  Alive'
  <1>1. CASE UNCHANGED vars \/ \E rotated \in Rotations : Restart(rotated)
    <2>1. UNCHANGED <<now, jar, fresh, stage, req, res>>
      BY <1>1 DEF vars, Restart, browserVars
    <2>. QED  BY <2>1 DEF Alive, Clock, JarAlive, SentAlive, AnsweredAlive
  <1>. QED  BY <1>1, AliveTick, AliveServe, AliveSend, AliveReceive DEF Next

\* A user who comes back soon after a response that showed the session alive is
\* let in by the authentication, in whatever order the responses of all tabs
\* arrive, and for every MaxAge, CodecAge and Latency.
THEOREM ActiveUsersStay == Spec => ActiveStaysIn
  <1>1. Init => Shape /\ Alive
    <2>1. Init => Alive
      BY DEF Init, Alive, Clock, JarAlive, At, NoCookies, None
    <2>. QED  BY <2>1, ShapeInit
  <1>2. Shape /\ Alive /\ [Next]_vars => (Shape /\ Alive)'
    BY ShapeNext, AliveNext
  <1>3. ASSUME Shape, Alive, [Next]_vars
        PROVE  [\A t \in Tabs :
                   stage[t] = "sent" /\ stage'[t] = "answered" /\ RecentlyAlive(t)
                      => res'[t].who \notin {"refused", "guest"}]_vars
    <2> SUFFICES ASSUME NEW t \in Tabs, stage[t] = "sent", stage'[t] = "answered", RecentlyAlive(t)
                 PROVE  res'[t].who \notin {"refused", "guest"}
      OBVIOUS
    <2> DEFINE c == req[t].carried
    <2>1. Serve(t)
      <3>1. CASE Aside
        BY <3>1 DEF Aside
      <3>2. ASSUME NEW u \in Tabs, Serve(u) PROVE u = t
        BY <1>3, <3>2, Served DEF Frame, Shape
      <3>3. ASSUME NEW u \in Tabs, Receive(u) PROVE FALSE
        BY <1>3, <3>3 DEF Receive, Shape
      <3>4. ASSUME NEW u \in Tabs, NEW kind \in Kinds, Send(u, kind) PROVE FALSE
        BY <1>3, <3>4 DEF Send, Shape
      <3>. QED  BY <1>3, <3>1, <3>2, <3>3, <3>4, Steps
    <2>2. /\ now \in Nat /\ req[t].sent \in Nat /\ req[t].sent <= now /\ req[t].fresh \in Nat
          /\ now + Lag <= req[t].fresh + Lifetime
          /\ Lifetime \in Nat /\ Lifetime <= MaxAge /\ Lifetime <= CodecAge
      BY <1>3, Ages DEF RecentlyAlive, Alive, Clock, SentAlive, Lifetime, Lag
    <2>3. c.auth # NoSession /\ c.auth.at \in Nat /\ req[t].fresh <= c.auth.at + Lag
      BY <1>3, <2>2, Ages DEF RecentlyAlive, Alive, SentAlive, At, Lag
    <2>4. now - c.auth.at <= Lifetime
      BY <2>2, <2>3, Ages DEF Lag
    <2>5. Authenticated(c)
      BY <1>3, <2>2, <2>3, <2>4, Ages DEF Authenticated, Undecodable, RecentlyAlive
    <2>. QED  BY <1>3, <2>1, <2>5, Served DEF AliveServed
  <1>. QED  BY <1>1, <1>2, <1>3, PTL DEF Spec, ActiveStaysIn
=============================================================================
