------------------------------- MODULE Client -------------------------------
(***************************************************************************)
(* A browser at work: the API client with its CSRF token and redirects     *)
(* (lib/api.ts), the session store (AuthContext.tsx), ProtectedRoute.tsx   *)
(* and LoginPage.tsx on one side; the CSRF check of app.ts, requireAuth    *)
(* and the paywall on the other.                                           *)
(*                                                                         *)
(* One page in detail; other tabs share its cookies.  Better Auth keeps a  *)
(* session cookie and, for five minutes, a cached copy of the session.     *)
(* Answers that the client only passes on count as "ok".  Left out: roles, *)
(* bans other than as a session that ends, the rate limiter, and the       *)
(* query string of the address; another tab's token request is one step.   *)
(*                                                                         *)
(* The definitions that every module has (Init, Next, ...) carry this      *)
(* module's name, so that another page's module can be extended with it.   *)
(***************************************************************************)
EXTENDS Integers

CONSTANTS
    Requests,       \* requests the page may have under way at once
    MaxSessions,    \* bound on the sign-ins
    MaxTokens,      \* bound on the CSRF tokens the server makes
    SecureCookies   \* Better Auth prefixes its cookies' names with __Secure-

ASSUME SessionAssumption == MaxSessions \in Nat \ {0} /\ MaxTokens \in Nat \ {0}
ASSUME CookieAssumption == SecureCookies \in BOOLEAN

VARIABLES
    sessions,   \* number of sessions made so far
    live,       \* sessions that are rows of the database
    paid,       \* the organization passes the paywall
    cookie,     \* the browser's session cookie: a session, or 0
    cached,     \* whether the cached copy of that session is still good
    csrf,       \* the __csrf cookie
    tokens,     \* number of tokens made so far
    at,         \* the page's place
    store,      \* what useSession says
    want,       \* the place to return to after a sign-in
    leaving,    \* isRedirecting, and where to
    token,      \* csrfToken, the page's copy
    req,        \* [Requests -> a request]
    \* history, for the properties only
    blame       \* what happened to the tokens while the page had one or fetched one

browser == <<cookie, cached, csrf>>
server == <<sessions, live, paid, tokens>>
place == <<at, store, want, leaving>>
clientVars == <<browser, server, place, token, req, blame>>

Protected == {"app", "organizations"}
Public == {"login", "pricing"}
Exempt == {"organizations", "pricing", "login"}
NoToken == <<0, 0>>
Tokens == (0..MaxTokens) \X (0..MaxSessions)
IdleRequest == [pc |-> "idle", write |-> FALSE, token |-> NoToken, status |-> "none"]
RequestStates == [pc : {"idle", "fetching", "fetched", "ready", "answered"}, write : BOOLEAN,
                  token : Tokens, status : {"none", "ok", "401", "paywall", "csrf"}]

ClientTypeOK ==
    /\ sessions \in 0..MaxSessions /\ live \subseteq 1..sessions /\ paid \in BOOLEAN
    /\ cookie \in 0..sessions /\ cached \in BOOLEAN
    /\ csrf \in Tokens /\ token \in Tokens /\ tokens \in 0..MaxTokens
    /\ at \in Protected \cup Public /\ want \in Protected \cup {"pricing", "none"}
    /\ store \in {"unknown", "out", "in"} /\ leaving \in Public \cup {"none"}
    /\ req \in [Requests -> RequestStates]
    /\ blame \subseteq {"switch", "twin"}

ClientInit ==
    /\ sessions = 0 /\ live = {} /\ paid = TRUE /\ tokens = 0
    /\ cookie = 0 /\ cached = FALSE /\ csrf = NoToken
    /\ at = "login" /\ store = "unknown" /\ want = "none" /\ leaving = "none"
    /\ token = NoToken /\ req = [r \in Requests |-> IdleRequest] /\ blame = {}

-----------------------------------------------------------------------------
(***************************************************************************)
(* The page: routes and the session store.                                 *)
(***************************************************************************)
\* useSession asks once per load.  A cached copy answers without the database;
\* a session that is gone takes its cookie along.
\* Mutant: the copy is renewed from the cookie alone.
LoadSessionTrusting ==
    /\ store = "unknown"
    /\ store' = IF cookie # 0 THEN "in" ELSE "out"
    /\ cached' = (cookie # 0)
    /\ UNCHANGED <<server, cookie, csrf, at, want, leaving, token, req, blame>>

LoadSession ==
    /\ store = "unknown"
    /\ \/ /\ cookie # 0 /\ (cached \/ cookie \in live)
          /\ store' = "in" /\ cached' = TRUE
          /\ UNCHANGED cookie
       \/ /\ cookie = 0 \/ (~cached /\ cookie \notin live)
          /\ store' = "out" /\ cached' = FALSE /\ cookie' = 0
    /\ UNCHANGED <<server, csrf, at, want, leaving, token, req, blame>>

\* ProtectedRoute, without a note of where the user was.
Bounce ==
    /\ store = "out" /\ at \in Protected
    /\ at' = "login" /\ want' = "none"
    /\ UNCHANGED <<browser, server, store, leaving, token, req, blame>>

\* Mutant: only a requested place is honoured, the default forgotten.
LeaveLoginIfAsked ==
    /\ at = "login" /\ store = "in" /\ want # "none"
    /\ at' = want /\ want' = "none"
    /\ UNCHANGED <<browser, server, store, leaving, token, req, blame>>

\* LoginPage's effect waits for the store, and only then moves on.
LeaveLogin ==
    /\ at = "login" /\ store = "in"
    /\ at' = IF want = "none" THEN "app" ELSE want
    /\ want' = "none"
    /\ UNCHANGED <<browser, server, store, leaving, token, req, blame>>

GoTo(p) ==
    /\ leaving = "none" /\ at # "login" /\ at # p
    /\ p \in Protected => store = "in"
    /\ at' = p
    /\ UNCHANGED <<browser, server, store, want, leaving, token, req, blame>>

\* A navigation, or a reload by the user: the page's memory is gone and its
\* requests are abandoned.
Load(p, back) ==
    /\ at' = p /\ want' = back
    /\ store' = "unknown" /\ leaving' = "none"
    /\ token' = NoToken /\ req' = [r \in Requests |-> IdleRequest] /\ blame' = {}
    /\ UNCHANGED <<browser, server>>

FollowRedirect == leaving # "none" /\ Load(leaving, want)
Reload == leaving = "none" /\ store # "unknown" /\ Load(at, want)

-----------------------------------------------------------------------------
(***************************************************************************)
(* Signing in, and what other tabs and the server do to the session.       *)
(***************************************************************************)
NewSession ==
    /\ sessions < MaxSessions
    /\ sessions' = sessions + 1
    /\ live' = live \cup {sessions + 1}
    /\ cookie' = sessions + 1 /\ cached' = TRUE
    /\ blame' = IF token # NoToken \/ \E r \in Requests : req[r].pc # "idle"
                THEN blame \cup {"switch"} ELSE blame

\* The call resolves; the store hears of it later.
SignIn ==
    /\ at = "login" /\ store = "out"
    /\ NewSession
    /\ UNCHANGED <<paid, tokens, csrf, place, token, req>>

SessionSignal ==
    /\ at = "login" /\ store = "out" /\ cookie # 0
    /\ store' = "unknown"
    /\ UNCHANGED <<browser, server, at, want, leaving, token, req, blame>>

OtherTabSignsIn ==
    /\ NewSession
    /\ UNCHANGED <<paid, tokens, csrf, place, token, req>>

\* A ban, a revocation, a sign-out elsewhere.
Revoke ==
    /\ cookie \in live
    /\ live' = live \ {cookie}
    /\ UNCHANGED <<sessions, paid, tokens, browser, place, token, req, blame>>

CacheExpires ==
    /\ cached
    /\ cached' = FALSE
    /\ UNCHANGED <<cookie, csrf, server, place, token, req, blame>>

SubscriptionChanges ==
    /\ paid' = ~paid
    /\ UNCHANGED <<sessions, live, tokens, browser, place, token, req, blame>>

-----------------------------------------------------------------------------
(***************************************************************************)
(* CSRF tokens.  A token is bound to the session cookie app.ts looks up by *)
(* its plain name, which is never there when names are prefixed.           *)
(***************************************************************************)
Identifier == IF SecureCookies THEN 0 ELSE cookie
Good(t) == t # NoToken /\ t[2] = Identifier

\* Mutant: every request for a token makes a new one.
TokenOverwritten(t) ==
    /\ tokens < MaxTokens
    /\ tokens' = tokens + 1
    /\ t = <<tokens + 1, Identifier>>

\* The cookie's token is handed out again while it is good.
TokenFor(t) ==
    \/ /\ Good(csrf) /\ t = csrf
       /\ UNCHANGED tokens
    \/ /\ ~Good(csrf) /\ tokens < MaxTokens
       /\ tokens' = tokens + 1
       /\ t = <<tokens + 1, Identifier>>

Ask(r, write) ==
    /\ leaving = "none" /\ store = "in" /\ at \in Protected /\ req[r].pc = "idle"
    /\ req' = [req EXCEPT ![r] =
         [IdleRequest EXCEPT !.pc = IF write /\ token = NoToken THEN "fetching" ELSE "ready",
                             !.write = write, !.token = IF write THEN token ELSE NoToken]]
    /\ blame' = IF write /\ token = NoToken
                   /\ \E other \in Requests : req[other].pc \in {"fetching", "fetched"}
                THEN blame \cup {"twin"} ELSE blame
    /\ UNCHANGED <<browser, server, place, token>>

MakeToken(r) ==
    /\ req[r].pc = "fetching"
    /\ \E t \in Tokens :
         /\ TokenFor(t)
         /\ req' = [req EXCEPT ![r].pc = "fetched", ![r].token = t]
    /\ UNCHANGED <<sessions, live, paid, browser, place, token, blame>>

\* The answer sets the cookie and the page's copy, and the request goes out.
TokenArrives(r) ==
    /\ req[r].pc = "fetched"
    /\ csrf' = req[r].token /\ token' = req[r].token
    /\ req' = [req EXCEPT ![r].pc = "ready"]
    /\ UNCHANGED <<cookie, cached, server, place, blame>>

TokenLost(r) ==
    /\ req[r].pc \in {"fetching", "fetched"}
    /\ req' = [req EXCEPT ![r] = IdleRequest]
    /\ UNCHANGED <<browser, server, place, token, blame>>

OtherTabToken ==
    /\ \E t \in Tokens : TokenFor(t) /\ csrf' = t
    /\ UNCHANGED <<sessions, live, paid, cookie, cached, place, token, req, blame>>

-----------------------------------------------------------------------------
(***************************************************************************)
(* A request at the server, and its answer at the client.                  *)
(***************************************************************************)
\* First the token, then requireAuth, which wants a session from the cookies
\* and its row from the database, then the paywall.
Serve(r) ==
    /\ req[r].pc = "ready"
    /\ req' = [req EXCEPT ![r].pc = "answered", ![r].status =
         IF req[r].write /\ ~(req[r].token = csrf /\ Good(csrf)) THEN "csrf"
         ELSE IF cookie \notin live THEN "401"
         ELSE IF ~paid THEN "paywall" ELSE "ok"]
    /\ UNCHANGED <<browser, server, place, token, blame>>

\* Mutant: the paywall's own upgrade path is followed.
AnswerUpgradePath(r) ==
    /\ req[r].pc = "answered"
    /\ req' = [req EXCEPT ![r] = IdleRequest]
    /\ \/ /\ req[r].status = "401" /\ leaving = "none" /\ at # "login"
          /\ leaving' = "login" /\ want' = at
       \/ /\ req[r].status = "paywall" /\ leaving = "none" /\ at \notin Exempt
          /\ leaving' = "billing"
          /\ UNCHANGED want
       \/ /\ \/ req[r].status \in {"ok", "csrf"} \/ leaving # "none"
             \/ req[r].status = "401" /\ at = "login"
             \/ req[r].status = "paywall" /\ at \in Exempt
          /\ UNCHANGED <<leaving, want>>
    /\ UNCHANGED <<browser, server, at, store, token, blame>>

\* The interceptor.  The refusal of a token reaches it as a status 500 without
\* the code it looks for, so it changes nothing.
Answer(r) ==
    /\ req[r].pc = "answered"
    /\ req' = [req EXCEPT ![r] = IdleRequest]
    /\ \/ /\ req[r].status = "401" /\ leaving = "none" /\ at # "login"
          /\ leaving' = "login" /\ want' = at
       \/ /\ req[r].status = "paywall" /\ leaving = "none" /\ at \notin Exempt
          /\ leaving' = "pricing"
          /\ UNCHANGED want
       \/ /\ \/ req[r].status \in {"ok", "csrf"} \/ leaving # "none"
             \/ req[r].status = "401" /\ at = "login"
             \/ req[r].status = "paywall" /\ at \in Exempt
          /\ UNCHANGED <<leaving, want>>
    /\ UNCHANGED <<browser, server, at, store, token, blame>>

ClientNext ==
    \/ LoadSession \/ Bounce \/ LeaveLogin \/ FollowRedirect \/ Reload
    \/ SignIn \/ SessionSignal \/ OtherTabSignsIn \/ Revoke \/ CacheExpires
    \/ SubscriptionChanges \/ OtherTabToken
    \/ \E p \in Protected \cup {"pricing"} : GoTo(p)
    \/ \E r \in Requests :
         \/ \E write \in BOOLEAN : Ask(r, write)
         \/ MakeToken(r) \/ TokenArrives(r) \/ TokenLost(r) \/ Serve(r) \/ Answer(r)

\* The page's own reactions happen, and five minutes pass.  LoginPage's effect
\* runs in the render that sees the store change: a user who reloads again and
\* again does not get ahead of it every time.
Fairness ==
    /\ WF_clientVars(LoadSession) /\ WF_clientVars(Bounce)
    /\ SF_clientVars(LeaveLogin) /\ WF_clientVars(FollowRedirect)
    /\ WF_clientVars(SessionSignal) /\ WF_clientVars(CacheExpires)

ClientSpec == ClientInit /\ [][ClientNext]_clientVars /\ Fairness

-----------------------------------------------------------------------------
(***************************************************************************)
(* Properties.                                                             *)
(***************************************************************************)

\* The server refuses a write's token only if the session cookie has changed
\* under the page since it first asked for a token, or two of its requests
\* asked for one at once.
RefusalExplained == \A r \in Requests : req[r].status = "csrf" => blame # {}

\* A sign-in leads away from the login page (the comment at LoginPage.tsx:27),
\* although the store hears of it only later and the user may reload meanwhile;
\* unless the session is gone by then.
LoginLeaves == at = "login" /\ cookie \in live ~> at # "login" \/ cookie \notin live

\* While the cached copy of a revoked session lives, the API sends the user to
\* the login page and the login page sends him back; that ends.
NoEndlessBounce ==
    <>[](cookie \notin live) => <>[](at = "login") \/ <>[](at # "login")
=============================================================================
