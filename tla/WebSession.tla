------------------------------ MODULE WebSession ------------------------------
(***************************************************************************)
(* The session of a user of the web application, over the refresh tokens of *)
(* Sessions: NextAuth keeps the tokens of the API in a cookie, the          *)
(* middleware runs its jwt callback on every route, which refreshes at the  *)
(* API once the access token has expired, and the axios client sends the    *)
(* access token of the session with its requests and asks for a new session *)
(* when it gets a 401.                                                      *)
(*                                                                         *)
(* One user who has signed in; no other session of the same user.  A call   *)
(* reads the cookie as the browser sent it, and what it answers replaces    *)
(* the cookie, whatever that is by then.  The route of the session and that *)
(* of the copilot run the callback too, after the middleware and with the   *)
(* same cookie.                                                             *)
(***************************************************************************)
EXTENDS Sessions

CONSTANTS Pages         \* requests of the tab under way at the same time

VARIABLES
    cookie,     \* the session cookie of the browser, or SignedOut
    visit,      \* visit[r]: the call r of the web server, or NoVisit
    shown,      \* the session that React has
    getter,     \* the access token the client was last given by AuthTokenBridge
    aged,       \* tokens issued with an access token that has expired
    page,       \* page[q]: the request q of the axios client
    refresher,  \* inflightRefresh: the session call the client waits for, or NoRefresh
    excuse,     \* has anything happened that may end the session? (history)
    left        \* calls under way when the user signed out (history)

\* There is a token for the sign-in.
WebAssumption == SessionsAssumption /\ MaxTokens > 0

webVars == <<cookie, visit, shown, getter, aged, page, refresher, excuse, left>>

SignedOut == [error |-> TRUE]
NoVisit == [step |-> "none"]
NoRefresh == [idle |-> TRUE]
NotSent == [step |-> "none"]
NoToken == 0

\* The tokens of jti, or the last ones known when a refresh failed.
Session == [jti : Jtis, error : BOOLEAN]

\* A page, the session for useSession and update, or an answer of the copilot.
Kinds == {"page", "session", "copilot"}

\* How often the jwt callback runs: in the middleware, and again in the route's own auth().
RunsOf(kind) == IF kind = "page" THEN 1 ELSE 2

\* runs: how many are left, this one included; cookie: as it was sent; set: as it is to be
\* set by the answer.
Visit == [kind : Kinds, runs : {1, 2}, step : {"asked", "calling", "answered"},
          cookie : Session, set : Session]

\* _refreshAttempted, _retryCount, and how often it was sent in all.
Page == [step : {"ready", "sent", "waiting"}, token : {NoToken} \cup Jtis, tried : BOOLEAN,
         retries : 0 .. 2, sends : Nat]

WebTypeOK ==
    /\ TypeOK
    /\ cookie \in Session \cup {SignedOut}
    /\ visit \in [Requests -> Visit \cup {NoVisit}]
    /\ shown \in Session \cup {SignedOut}
    /\ getter \in {NoToken} \cup Jtis
    /\ aged \subseteq Jtis
    /\ page \in [Pages -> Page \cup {NotSent}]
    /\ refresher \in {NoRefresh} \cup [call : Requests]
    /\ excuse \in BOOLEAN
    /\ left \subseteq Requests

\* Just after the sign-in of a user, with the first token.
WebInit ==
    /\ active = Users
    /\ \E u \in Users, p \in Replicas :
          /\ token = [j \in Jtis |-> IF j = 1 THEN [user |-> u, fam |-> 1, home |-> p] ELSE Unissued]
          /\ jtis = [q \in Replicas |-> [j \in Jtis |-> IF q = p /\ j = 1 THEN "live" ELSE "unknown"]]
    /\ revokedFamilies = [p \in Replicas |-> {}]
    /\ failed = [p \in Replicas |-> [u \in Users |-> NoFailures]]
    /\ call = [r \in Requests |-> Idle]
    /\ ended = {}
    /\ overlapped = {}
    /\ cookie = [jti |-> 1, error |-> FALSE]
    /\ visit = [r \in Requests |-> NoVisit]
    /\ shown = cookie
    /\ getter = NoToken
    /\ aged = {}
    /\ page = [q \in Pages |-> NotSent]
    /\ refresher = NoRefresh
    /\ excuse = FALSE
    /\ left = {}

-------------------------------------------------------------------------------
(* The jwt callback, in the middleware and in two routes behind it.         *)

Visiting == {r \in Requests : visit[r] # NoVisit}

\* The browser sends the cookie with a call.
Ask(r, kind) ==
    /\ cookie # SignedOut
    /\ visit[r] = NoVisit
    /\ call[r] = Idle
    /\ visit' = [visit EXCEPT ![r] = [kind |-> kind, runs |-> RunsOf(kind), step |-> "asked",
                                      cookie |-> cookie, set |-> cookie]]
    /\ excuse' = (excuse \/ Visiting # {})

Browse(r) ==
    /\ \E kind \in Kinds : Ask(r, kind)
    /\ UNCHANGED <<vars, cookie, shown, getter, aged, page, refresher, left>>

\* A run of the callback has made s of the session: the response of the middleware and
\* that of the session route set the cookie, the later one for good; auth() in the route of
\* the copilot sets none.  The next run begins, or the answer is ready.
AfterRun(v, s) ==
    [v EXCEPT !.set = IF v.kind = "copilot" /\ v.runs = 1 THEN @ ELSE s,
              !.step = IF v.runs = 2 THEN "asked" ELSE "answered",
              !.runs = 1]

RunEnds(r, s) == visit' = [visit EXCEPT ![r] = AfterRun(@, s)]

\* RefreshAccessTokenError, which leaves the old tokens.
RefreshError(r) == [visit[r].cookie EXCEPT !.error = TRUE]

\* The access token has not expired: the session is as it was.
StillValid(r) ==
    /\ visit[r].step = "asked"
    /\ visit[r].cookie.jti \notin aged
    /\ RunEnds(r, visit[r].cookie)
    /\ UNCHANGED <<vars, cookie, shown, getter, aged, page, refresher, excuse, left>>

\* refreshBackendToken: the replica p of the API lets the token through to its user row.
\* After that the cookie is no good to a second run of the callback, and if the route of
\* the copilot asked, to nobody.
CallRefresh(r, p) ==
    /\ visit[r].step = "asked"
    /\ visit[r].cookie.jti \in aged
    /\ BeginRefresh(r, visit[r].cookie.jti, p)
    /\ visit' = [visit EXCEPT ![r].step = "calling"]
    /\ excuse' = (excuse \/ visit[r].runs = 2 \/ visit[r].kind = "copilot")
    /\ UNCHANGED <<cookie, shown, getter, aged, page, refresher, left>>

\* The replica refuses the token: it was used before, or is of a revoked family, or
\* unknown there.
RefreshTurnedDown(r, p) ==
    /\ visit[r].step = "asked"
    /\ visit[r].cookie.jti \in aged
    /\ LET j == visit[r].cookie.jti
       IN  /\ \/ RefreshReused(j, p)
              \/ /\ token[j].fam \in revokedFamilies[p] \/ jtis[p][j] = "unknown"
                 /\ UNCHANGED vars
           /\ excuse' = (excuse \/ p # token[j].home)
    /\ RunEnds(r, RefreshError(r))
    /\ UNCHANGED <<cookie, shown, getter, aged, page, refresher, left>>

\* The API reads the user row, and answers with a new pair of tokens, or with 401.
ApiReads(r) ==
    /\ visit[r].step = "calling"
    /\ ReadUser(r)
    /\ excuse' = (excuse \/ call[r].user \notin active)
    /\ UNCHANGED <<cookie, visit, shown, getter, aged, page, refresher, left>>

ApiRotates(r, j) ==
    /\ visit[r].step = "calling"
    /\ Rotate(r, j)
    /\ RunEnds(r, [jti |-> j, error |-> FALSE])
    /\ UNCHANGED <<cookie, shown, getter, aged, page, refresher, excuse, left>>

\* As above, but the answer does not get back to NextAuth.
AnswerLost(r, j) ==
    /\ visit[r].step = "calling"
    /\ Rotate(r, j)
    /\ RunEnds(r, RefreshError(r))
    /\ excuse' = TRUE
    /\ UNCHANGED <<cookie, shown, getter, aged, page, refresher, left>>

ApiRefuses(r) ==
    /\ visit[r].step = "calling"
    /\ RefreshRefused(r)
    /\ RunEnds(r, RefreshError(r))
    /\ UNCHANGED <<cookie, shown, getter, aged, page, refresher, excuse, left>>

\* The answer arrives, with a new cookie, and if it is of the session, with that; requests
\* that wait for it go on with its token, whether or not there was an error.
Arrive(r) ==
    /\ visit[r].step = "answered"
    /\ cookie' = visit[r].set
    /\ shown' = IF visit[r].kind = "session" THEN visit[r].set ELSE shown
    /\ visit' = [visit EXCEPT ![r] = NoVisit]
    /\ left' = left \ {r}
    /\ IF refresher = [call |-> r]
       THEN /\ refresher' = NoRefresh
            /\ page' = [q \in Pages |-> IF page[q].step = "waiting"
                                        THEN [page[q] EXCEPT !.step = "ready"] ELSE page[q]]
       ELSE UNCHANGED <<refresher, page>>
    /\ UNCHANGED <<vars, getter, aged, excuse>>

-------------------------------------------------------------------------------
(* The tab.                                                                  *)

\* The effect of AuthTokenBridge, some time after a render with a new session.
Register ==
    /\ shown # SignedOut
    /\ getter # shown.jti
    /\ getter' = shown.jti
    /\ UNCHANGED <<vars, cookie, visit, shown, aged, page, refresher, excuse, left>>

\* signOut: by the user, or by the effect that sees RefreshAccessTokenError.  The tab
\* goes to /login; the API is not told.
SignOut ==
    /\ shown # SignedOut
    /\ cookie' = SignedOut
    /\ shown' = SignedOut
    /\ getter' = NoToken
    /\ page' = [q \in Pages |-> NotSent]
    /\ refresher' = NoRefresh
    /\ left' = Visiting
    /\ UNCHANGED <<vars, visit, aged, excuse>>

\* As if every 401 were worth a refresh.
MayAlwaysRefresh(p) == p.sends > 0

MayRefresh(p) == ~p.tried

Start(q) ==
    /\ shown # SignedOut
    /\ page[q] = NotSent
    /\ page' = [page EXCEPT ![q] = [step |-> "ready", token |-> NoToken, tried |-> FALSE,
                                    retries |-> 0, sends |-> 0]]
    /\ UNCHANGED <<vars, cookie, visit, shown, getter, aged, refresher, excuse, left>>

\* The request interceptor puts the token of the getter in, also in a request that was
\* given the new one of a refresh.
Send(q) ==
    /\ page[q].step = "ready"
    /\ page' = [page EXCEPT ![q].step = "sent", ![q].token = getter, ![q].sends = @ + 1]
    /\ UNCHANGED <<vars, cookie, visit, shown, getter, aged, refresher, excuse, left>>

Finish(q) ==
    /\ page[q].step = "sent"
    /\ page' = [page EXCEPT ![q] = NotSent]
    /\ UNCHANGED <<vars, cookie, visit, shown, getter, aged, refresher, excuse, left>>

\* A 401, for a token that has expired or none: the first of the request waits for a
\* session call, which all that wait share.
Unauthorised(q, r) ==
    /\ page[q].step = "sent"
    /\ page[q].token \in aged \cup {NoToken}
    /\ MayRefresh(page[q])
    /\ page' = [page EXCEPT ![q].step = "waiting", ![q].tried = TRUE]
    /\ \/ /\ refresher = NoRefresh
          /\ Ask(r, "session")
          /\ refresher' = [call |-> r]
       \/ /\ refresher = [call |-> r]
          /\ UNCHANGED <<visit, refresher, excuse>>
    /\ UNCHANGED <<vars, cookie, shown, getter, aged, left>>

\* A 5xx, a timeout or no answer: again, after a while.
Retry(q) ==
    /\ page[q].step = "sent"
    /\ page[q].retries < 2
    /\ page' = [page EXCEPT ![q].step = "ready", ![q].retries = @ + 1]
    /\ UNCHANGED <<vars, cookie, visit, shown, getter, aged, refresher, excuse, left>>

-------------------------------------------------------------------------------
(* Time, the administrator and the processes of the API.                     *)

\* An hour later; a token issued meanwhile is fresh.
AccessExpires(j) ==
    /\ Issued(j)
    /\ j \notin aged
    /\ aged' = aged \cup {j}
    /\ UNCHANGED <<vars, cookie, visit, shown, getter, page, refresher, excuse, left>>

AdminDeactivates(u) ==
    /\ Deactivate(u)
    /\ UNCHANGED webVars

\* Calls under way at the replica get no answer.
ApiRestarts(p) ==
    /\ Restart(p)
    /\ visit' = [r \in Requests |-> IF visit[r].step = "calling" /\ call[r].at = p
                                    THEN AfterRun(visit[r], RefreshError(r)) ELSE visit[r]]
    /\ excuse' = TRUE
    /\ UNCHANGED <<cookie, shown, getter, aged, page, refresher, left>>

SessionCall(r) == \/ Browse(r)
                  \/ StillValid(r)
                  \/ \E p \in Replicas : CallRefresh(r, p) \/ RefreshTurnedDown(r, p)
                  \/ ApiReads(r)
                  \/ \E j \in Jtis : ApiRotates(r, j) \/ AnswerLost(r, j)
                  \/ ApiRefuses(r)
                  \/ Arrive(r)

Request(q) == \/ Start(q)
              \/ Send(q)
              \/ Finish(q)
              \/ \E r \in Requests : Unauthorised(q, r)
              \/ Retry(q)

WebNext == \/ \E r \in Requests : SessionCall(r)
           \/ \E q \in Pages : Request(q)
           \/ Register
           \/ SignOut
           \/ \E j \in Jtis : AccessExpires(j)
           \/ \E u \in Users : AdminDeactivates(u)
           \/ \E p \in Replicas : ApiRestarts(p)
-------------------------------------------------------------------------------
(* Properties.                                                               *)

\* The jwt callback refreshes the session.  It ends in an error only if the user was
\* deactivated, a replica of the API restarted, an answer got lost, two calls overlapped,
\* which may use one refresh token twice, a replica was asked that had not issued the
\* token, or it was not a page that found the access token expired but a call whose route
\* refreshes once more with the same cookie, or keeps the new one to itself.
SessionEndsForAReason == cookie # SignedOut /\ cookie.error => excuse

\* A browser that was signed out stays so, unless a call was under way, whose answer brings
\* the cookie back.
SignOutHolds ==
    [][cookie = SignedOut /\ shown = SignedOut /\ left = {}
          => cookie' = SignedOut /\ shown' = SignedOut]_<<vars, webVars>>

\* A request is sent at most four times, however refreshes and retries alternate: a 401
\* again after the refresh is final.
AtMostFourSends == \A q \in Pages : page[q] # NotSent => page[q].sends <= 4

\* A request that waits for a session waits for a call that will answer: none is left
\* behind by the call that others started.
WaitersAreServed ==
    \A q \in Pages : page[q].step = "waiting" =>
        /\ refresher # NoRefresh
        /\ visit[refresher.call] # NoVisit

\* The session of a browser ends for a reason, and requests neither multiply nor hang.
BrowserSessionIsSound == SessionEndsForAReason /\ AtMostFourSends /\ WaitersAreServed
===============================================================================
