------------------------------ MODULE Sessions ------------------------------
(***************************************************************************)
(* The middleware that keeps state in the browser: CSRF tokens, cookie     *)
(* sessions with sliding expiry, and flash messages.  The server keeps     *)
(* nothing between requests but its keys, so a request is served in one    *)
(* step; tabs of one browser share the cookie jar, and their requests and  *)
(* responses cross each other on the way.  The chain is CSRF, then         *)
(* authentication, then flash messages, then the handler.                  *)
(*                                                                         *)
(* Tokens and messages are numbered.  A session whose Max-Age has passed   *)
(* stays in the jar, but the browser does not send it any more.            *)
(***************************************************************************)
EXTENDS Naturals, FiniteSets

CONSTANTS Tabs,         \* tabs of the browser
          Skips,        \* requests for which SkipAuth answers true
          Rotations,    \* whether restarts rotate the authentication keys
          MaxAge,       \* ticks a session lasts without being refreshed
          CodecAge,     \* ticks the store's codecs accept a cookie, whatever MaxAge
          Latency,      \* bound: ticks from sending a request to its response
          MaxTime,      \* bound: ticks
          CrossedTime,  \* bound: ticks where first requests have crossed
          MaxPosts,     \* bound: flash messages
          MaxRestarts   \* bound: restarts of the server

Kinds == {"page", "login", "logout", "post"}

ASSUME SessionsAssumption ==
    /\ Skips \subseteq Kinds
    /\ Rotations \subseteq BOOLEAN
    /\ MaxAge \in Nat /\ CodecAge \in Nat /\ Latency \in Nat /\ MaxTime \in Nat /\ CrossedTime \in Nat
    /\ MaxPosts \in Nat /\ MaxRestarts \in Nat

None == 0
NoSession == [at |-> None, key |-> None]
NoFlash == [msg |-> None, secret |-> None]
NoCookies == [auth |-> NoSession, csrf |-> None, flash |-> NoFlash]

VARIABLES
    now,        \* the clock, from 1
    key,        \* the key pair of the cookie authentication
    secret,     \* the flash store's key, new in every process
    minted,     \* CSRF tokens created so far
    posts,      \* flash messages created so far
    jar,        \* the browser's cookies
    form,       \* form[t]: the token in the page tab t shows
    stage,      \* stage[t]: "idle", "sent" or "answered"
    req,        \* req[t]: what t's request carries
    res,        \* res[t]: the response on its way to t
    fresh,      \* history: when the session last was seen alive by the browser
    out,        \* history: the last thing the browser heard is a logout
    crossed,    \* history: two requests without a CSRF cookie were under way at once
    seen        \* history: flash messages the browser has shown

serverVars  == <<key, secret, minted, posts>>
browserVars == <<jar, form, fresh, out, seen>>
vars == <<now, serverVars, browserVars, stage, req, res, crossed>>

NoRequest == [kind |-> "page", carried |-> NoCookies, posted |-> None, sent |-> None, fresh |-> None]
\* at is when a session was served, or None.
NoResponse == [who |-> "guest", set |-> <<>>, token |-> None, shown |-> None, at |-> None]

Init ==
    /\ now = 1
    /\ key = 1
    /\ secret = 1
    /\ minted = 0
    /\ posts = 0
    /\ jar = NoCookies
    /\ form = [t \in Tabs |-> None]
    /\ stage = [t \in Tabs |-> "idle"]
    /\ req = [t \in Tabs |-> NoRequest]
    /\ res = [t \in Tabs |-> NoResponse]
    /\ fresh = None
    /\ out = FALSE
    /\ crossed = FALSE
    /\ seen = {}
-----------------------------------------------------------------------------
(***************************************************************************)
(* The middleware.  c is the cookies a request carries; the operators that *)
(* end in Set give the cookies a part of the chain sets in the response.   *)
(***************************************************************************)

Cookie(name, value) == [n \in {name} |-> value]

\* Cookies by name, those of f over those of g.
f ++ g == [n \in DOMAIN f \cup DOMAIN g |-> IF n \in DOMAIN f THEN f[n] ELSE g[n]]

\* Mutant: a form from an earlier page no longer matches.
CsrfSet_Always(c) == Cookie("csrf", minted + 1)

\* getOrCreateToken
CsrfSet(c) == IF c.csrf = None THEN Cookie("csrf", minted + 1) ELSE <<>>

Token(c) == IF c.csrf = None THEN minted + 1 ELSE c.csrf

\* validateCSRFToken: a token created for this very request is no match.
validateCSRFToken(t) ==
    LET c == req[t].carried IN c.csrf # None /\ req[t].posted = c.csrf

Allowed(t) == req[t].kind = "page" \/ validateCSRFToken(t)

\* store.Get fails on a session saved under other keys, and on one older than
\* the codecs allow: NewCookieStore gives them thirty days, and NewCookieAuth
\* replaces only the store's options.
Undecodable(c) ==
    /\ c.auth # NoSession
    /\ c.auth.key # key \/ now - c.auth.at > CodecAge

\* Mutant: sessions are refreshed only when they are over.
RefreshAge_Full == MaxAge

RefreshAge == MaxAge \div 2

Authenticated(c) ==
    /\ c.auth # NoSession
    /\ ~Undecodable(c)
    /\ now - c.auth.at <= MaxAge

Saved == Cookie("auth", [at |-> now, key |-> key])

\* Middleware: expire what cannot be decoded, save what is getting old.
AuthSet(c) ==
    IF Undecodable(c) THEN Cookie("auth", NoSession)
    ELSE IF Authenticated(c) /\ now - c.auth.at > RefreshAge THEN Saved
    ELSE <<>>

\* getFlashMessage: the message, if the request accepts HTML and this process
\* can decode it.  A message too old for the codecs is passed over like one whose
\* request does not accept HTML.
Pending(c, html) == IF html /\ c.flash.secret = secret THEN c.flash.msg ELSE None

\* Mutant: the session is cleared but not saved.
FlashSet_Unsaved(c, html) == <<>>

\* clearCookie, when there is a message.
FlashSet(c, html) == IF Pending(c, html) # None THEN Cookie("flash", NoFlash) ELSE <<>>

\* setFlashMessage: the message takes the place of one that is pending.
Queued == Cookie("flash", [msg |-> posts + 1, secret |-> secret])

\* Mutant: the session's values are cleared and nothing is sent.
Cleared_NotSent == <<>>

\* Clear expires the cookie.
Cleared == Cookie("auth", NoSession)
-----------------------------------------------------------------------------
(***************************************************************************)
(* The server                                                              *)
(***************************************************************************)
Answer(t, who, set, token, shown) ==
    /\ stage' = [stage EXCEPT ![t] = "answered"]
    /\ res' = [res EXCEPT ![t] =
          [who |-> who, set |-> set ++ CsrfSet(req[t].carried),
           token |-> token, shown |-> shown, at |-> IF who = "user" THEN now ELSE None]]
    /\ req' = [req EXCEPT ![t] = [NoRequest EXCEPT !.kind = req[t].kind, !.sent = req[t].sent]]
    /\ minted' = minted + Cardinality(DOMAIN CsrfSet(req[t].carried))
    /\ UNCHANGED <<now, key, secret, browserVars, crossed>>

\* 403: nothing behind the CSRF middleware runs.
Forbid(t) ==
    /\ stage[t] = "sent"
    /\ ~Allowed(t)
    /\ Answer(t, "forbidden", <<>>, None, None)
    /\ UNCHANGED posts

\* 401
Refuse(t) ==
    LET c == req[t].carried IN
    /\ stage[t] = "sent"
    /\ Allowed(t)
    /\ ~Authenticated(c)
    /\ req[t].kind \notin Skips
    /\ Answer(t, "refused", AuthSet(c), None, None)
    /\ UNCHANGED posts

\* The handler of a request of this kind runs.
Reached(t, kind) ==
    /\ stage[t] = "sent"
    /\ req[t].kind = kind
    /\ Allowed(t)
    /\ Authenticated(req[t].carried) \/ kind \in Skips

\* A handler that SkipAuth lets a request through to sees no user.
Who(c) == IF Authenticated(c) THEN "user" ELSE "guest"

\* What a handler answers: its own cookies last, then a page with a form.
Respond(t, html, who, set) ==
    LET c == req[t].carried
    IN  Answer(t, who, set ++ FlashSet(c, html) ++ AuthSet(c), Token(c), Pending(c, html))

ServePage(t, html) ==
    /\ Reached(t, "page")
    /\ Respond(t, html, Who(req[t].carried), <<>>)
    /\ UNCHANGED posts

Login(t, html) ==
    /\ Reached(t, "login")
    /\ ~Undecodable(req[t].carried)
    /\ Respond(t, html, "user", Saved)
    /\ UNCHANGED posts

\* SetState fails while the request still carries an undecodable session; a
\* pending flash message is cleared all the same.
LoginFails(t, html) ==
    LET c == req[t].carried IN
    /\ Reached(t, "login")
    /\ Undecodable(c)
    /\ Answer(t, "failed", FlashSet(c, html) ++ AuthSet(c), None, None)
    /\ UNCHANGED posts

Logout(t, html) ==
    /\ Reached(t, "logout")
    /\ Respond(t, html, "user", Cleared)
    /\ UNCHANGED posts

\* A handler that queues a flash message for the next page.
Post(t, html) ==
    /\ Reached(t, "post")
    /\ posts' = posts + 1
    /\ Respond(t, html, Who(req[t].carried), Queued)

\* The request passes the chain as far as it is let.
Serve(t) ==
    \/ Forbid(t) \/ Refuse(t)
    \/ \E html \in BOOLEAN :
          \/ ServePage(t, html) \/ Login(t, html) \/ LoginFails(t, html)
          \/ Logout(t, html) \/ Post(t, html)

\* A new process has a new flash key, and new authentication keys if they
\* were rotated.
Restart(rotated) ==
    /\ secret <= MaxRestarts
    /\ secret' = secret + 1
    /\ key' = IF rotated THEN key + 1 ELSE key
    /\ UNCHANGED <<now, minted, posts, browserVars, stage, req, res, crossed>>
-----------------------------------------------------------------------------
(***************************************************************************)
(* The browser                                                             *)
(***************************************************************************)
Others(t) == {u \in Tabs \ {t} : stage[u] # "idle"}

\* Others who were sent without a CSRF cookie and whose token is not here yet.
FirstRequests(t) ==
    {u \in Others(t) : IF stage[u] = "sent" THEN req[u].carried.csrf = None
                                           ELSE "csrf" \in DOMAIN res[u].set}

\* The cookies that go with a request.  The Max-Age of a session runs from its
\* arrival, at most Latency after it was saved.
Sendable ==
    LET age == now - jar.auth.at
    IN  (IF jar.auth = NoSession \/ age <= MaxAge + Latency THEN {jar} ELSE {})
        \cup (IF age > MaxAge THEN {[jar EXCEPT !.auth = NoSession]} ELSE {})

Posting(t) == stage[t] = "sent" /\ req[t].kind = "post"

Send(t, kind) ==
    /\ stage[t] = "idle"
    /\ kind = "page" \/ form[t] # None
    /\ kind = "post" => posts + Cardinality({u \in Tabs : Posting(u)}) < MaxPosts
    /\ stage' = [stage EXCEPT ![t] = "sent"]
    /\ \E carried \in Sendable :
          req' = [req EXCEPT ![t] =
              [kind |-> kind, carried |-> carried, sent |-> now, fresh |-> fresh,
               posted |-> IF kind = "page" THEN None ELSE form[t]]]
    /\ crossed' = (crossed \/ (jar.csrf = None /\ FirstRequests(t) # {}))
    /\ form' = [form EXCEPT ![t] = None]
    /\ UNCHANGED <<now, serverVars, jar, fresh, out, seen, res>>

Later(a, b) == IF a < b THEN b ELSE a

\* Cookies go into the jar in the order responses arrive.
Receive(t) ==
    /\ stage[t] = "answered"
    /\ stage' = [stage EXCEPT ![t] = "idle"]
    /\ jar' = res[t].set ++ jar
    /\ form' = [form EXCEPT ![t] = res[t].token]
    /\ fresh' = IF jar'.auth = NoSession \/ jar'.auth.key # key THEN None
                ELSE Later(fresh, res[t].at)
    /\ out' = CASE res[t].who = "user" /\ req[t].kind = "logout" -> Others(t) = {}
                [] res[t].who = "user" /\ req[t].kind = "login"  -> FALSE
                [] OTHER -> out
    /\ seen' = seen \cup ({res[t].shown} \ {None})
    /\ req' = [req EXCEPT ![t] = NoRequest]
    /\ res' = [res EXCEPT ![t] = NoResponse]
    /\ UNCHANGED <<now, serverVars, crossed>>

\* Time passes, but not so much that a response is later than Latency.
Tick ==
    /\ now < MaxTime
    /\ crossed => now < CrossedTime
    /\ \A t \in Tabs : stage[t] # "idle" => now - req[t].sent < Latency
    /\ now' = now + 1
    /\ UNCHANGED <<serverVars, browserVars, stage, req, res, crossed>>

Next ==
    \/ \E t \in Tabs : Serve(t) \/ Receive(t) \/ \E kind \in Kinds : Send(t, kind)
    \/ \E rotated \in Rotations : Restart(rotated)
    \/ Tick

Spec == Init /\ [][Next]_vars
-----------------------------------------------------------------------------
\* A session is good for MaxAge, but never for longer than its cookie is decoded.
Lifetime == IF CodecAge < MaxAge THEN CodecAge ELSE MaxAge

\* When it sent t's request the browser had seen the session alive, not longer
\* ago than a lifetime less the age at which sessions are refreshed and the
\* latency of responses, and the keys have not been rotated since.
RecentlyAlive(t) ==
    LET session == req[t].carried.auth IN
    /\ req[t].fresh # None
    /\ now + (MaxAge \div 2) + Latency <= req[t].fresh + Lifetime
    /\ session = NoSession \/ session.key = key

\* The sliding window: a user who comes back soon enough after the last response
\* that showed the session alive is still logged in, although tabs overwrite each
\* other's saved and refreshed cookies in any order.  Soon enough is half of
\* MaxAge where MaxAge is within CodecAge, and never where it is twice that.
ActiveStaysIn ==
    [][\A t \in Tabs :
          stage[t] = "sent" /\ stage'[t] = "answered" /\ RecentlyAlive(t)
             => res'[t].who \notin {"refused", "guest"}]_vars

\* A logout that no other request crossed lasts until the next login: no
\* refresh brings the session back.
LogoutSticks == out => jar.auth = NoSession

\* A form is rejected only if two first requests crossed and each got a token:
\* otherwise the forms of all tabs stay valid, over logins and restarts.
FormsAccepted == \A t \in Tabs : res[t].who = "forbidden" => crossed

\* A flash message that was shown is gone from the jar for good, whatever
\* responses are still under way.
SeenIsGone == jar.flash.msg \notin seen
=============================================================================
