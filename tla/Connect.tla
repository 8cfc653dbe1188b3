------------------------------ MODULE Connect ------------------------------
(***************************************************************************)
(* How a HubConnection gets a transport: Connection::connect()             *)
(* (src/connection.rs), that is negotiate with redirects and access tokens *)
(* (src/negotiate.rs), the WebSocket and the handshake (src/handshake.rs); *)
(* and how it gets another one for the same connection, which is           *)
(* ResumeTarget::reopen().  One connect() or reopen() runs at a time; what *)
(* the server answers is its choice.                                       *)
(***************************************************************************)
EXTENDS Naturals

CONSTANTS
    Urls,           \* hub URLs
    Hub,            \* base_url
    NoUrl,          \* a negotiate response without url
    MaxRedirects,   \* MAX_NEGOTIATE_REDIRECTS
    MaxConnects,    \* bound: calls of connect()
    MaxReopens      \* bound: calls of reopen()

ASSUME ConnectAssumption ==
    /\ Hub \in Urls /\ NoUrl \notin Urls
    /\ {MaxRedirects, MaxConnects, MaxReopens} \subseteq Nat

VARIABLES
    factory,      \* an access_token_factory is configured
    wants,        \* negotiate.use_stateful_reconnect
    phase,        \* what the task awaits
    url,          \* current_url
    redirects,
    retried,      \* the request is sent with a refreshed token
    refreshable,  \* the TokenSource is Factory
    token,        \* its token
    ws,           \* the WebSocket that is or was last opened: hub, connection, token
    target,       \* Connection.resume
    resume,       \* HubConnection.resume
    connects,     \* calls of connect(), and the id of the connection
    reopens,      \* calls of reopen()
    calls,        \* calls of the factory that returned a token
    issued,       \* token_from_server, and the last token the server issued
    requests      \* history: the negotiate requests of this connect()

options == <<factory, wants>>
negotiation == <<url, redirects, retried, refreshable, token, requests, issued>>
vars == <<options, phase, negotiation, ws, target, resume, connects, reopens, calls>>

\* n tells the tokens of the factory apart, and those of the server; 0 is the
\* empty token.
Tokens == [by : {"none", "app", "server"}, n : Nat]
NoToken == [by |-> "none", n |-> 0]

\* Where a WebSocket goes.  Connection 0 is none.
Targets == [url : Urls, id : Nat, token : Tokens]
NoTarget == [url |-> Hub, id |-> 0, token |-> NoToken]

Replies == [error : BOOLEAN, stateful : BOOLEAN, issues : {"no", "token", "empty"},
            url : Urls \cup {NoUrl}, id : BOOLEAN]

Opening == {"token", "request", "refresh", "socket", "handshake", "ping"}
Reopening == {"reopen token", "reopen"}

Init ==
    /\ factory \in BOOLEAN /\ wants \in BOOLEAN
    /\ phase = "idle"
    /\ url = Hub /\ redirects = 0 /\ retried = FALSE
    /\ refreshable = FALSE /\ token = NoToken
    /\ ws = NoTarget /\ target = NoTarget /\ resume = NoTarget
    /\ connects = 0 /\ reopens = 0 /\ calls = 0
    /\ requests = 0 /\ issued = NoToken

\* Variant of Bearer: an empty token is sent as it is.
BearerAny(t) == t

\* An empty token is neither sent as a header nor put into a URL.
Bearer(t) == IF t.n = 0 THEN NoToken ELSE t

-----------------------------------------------------------------------------
(* negotiate_with_token_factory() *)

Connect ==
    /\ phase = "idle" /\ connects < MaxConnects
    /\ connects' = connects + 1
    /\ url' = Hub /\ redirects' = 0 /\ retried' = FALSE
    /\ refreshable' = factory /\ token' = NoToken
    /\ requests' = (IF factory THEN 0 ELSE 1) /\ issued' = NoToken
    /\ phase' = IF factory THEN "token" ELSE "request"
    /\ UNCHANGED <<options, ws, target, resume, reopens, calls>>

\* access_token::resolve(): a new token, or an empty one, which is None.
Resolve == {NoToken, [by |-> "app", n |-> calls + 1]}

\* The factory returns the token of the first request, or of one more request
\* after a 401.
TokenArrives ==
    /\ phase \in {"token", "refresh"}
    /\ token' \in Resolve /\ calls' = calls + 1
    /\ retried' = (phase = "refresh")
    /\ requests' = requests + 1
    /\ phase' = "request"
    /\ UNCHANGED <<options, url, redirects, refreshable, issued, ws, target, resume, connects,
                   reopens>>

\* Variant of Unauthorized: every 401 asks for another token.
UnauthorizedAgain ==
    /\ phase = "request"
    /\ phase' = IF refreshable THEN "refresh" ELSE "idle"
    /\ UNCHANGED <<options, negotiation, ws, target, resume, connects, reopens, calls>>

\* The first 401 of a request asks for another token, if there is a factory.
Unauthorized ==
    /\ phase = "request"
    /\ phase' = IF refreshable /\ ~retried THEN "refresh" ELSE "idle"
    /\ UNCHANGED <<options, negotiation, ws, target, resume, connects, reopens, calls>>

\* Stateful reconnect that the client did not ask for is an error.
Refused(r) == r.error \/ (r.stateful /\ ~wants)

RefusedReply(r) ==
    /\ phase = "request"
    /\ Refused(r)
    /\ phase' = "idle"
    /\ UNCHANGED <<options, negotiation, ws, target, resume, connects, reopens, calls>>

\* The token after a response: one that the server issues replaces the source.
TokenAfter(r) ==
    CASE r.issues = "no"    -> token
      [] r.issues = "token" -> [by |-> "server", n |-> redirects + 1]
      [] r.issues = "empty" -> [by |-> "server", n |-> 0]

\* Variant of TakeToken: the factory stays the source.
TakeTokenOnce(r) ==
    /\ token' = TokenAfter(r)
    /\ UNCHANGED refreshable
    /\ issued' = IF r.issues = "no" THEN issued ELSE TokenAfter(r)

TakeToken(r) ==
    /\ token' = TokenAfter(r)
    /\ refreshable' = (refreshable /\ r.issues = "no")
    /\ issued' = IF r.issues = "no" THEN issued ELSE TokenAfter(r)

Redirect(r) ==
    /\ phase = "request"
    /\ ~Refused(r) /\ r.url # NoUrl
    /\ TakeToken(r)
    /\ IF redirects >= MaxRedirects
       THEN phase' = "idle" /\ UNCHANGED <<url, redirects, retried, requests>>
       ELSE /\ url' = r.url /\ redirects' = redirects + 1
            /\ retried' = FALSE /\ requests' = requests + 1
            /\ UNCHANGED phase
    /\ UNCHANGED <<options, ws, target, resume, connects, reopens, calls>>

\* Connection::connect() goes on with the last response: websocket_token(),
\* build_websocket_url() and the ResumeTarget.
Negotiated(r) ==
    /\ phase = "request"
    /\ ~Refused(r) /\ r.url = NoUrl
    /\ TakeToken(r)
    /\ IF r.id
       THEN /\ ws' = [url |-> url, id |-> connects, token |-> Bearer(token')]
            /\ target' = IF r.stateful
                         THEN [url |-> url, id |-> connects,
                               token |-> IF issued' # NoToken THEN token' ELSE NoToken]
                         ELSE NoTarget
            /\ phase' = "socket"
       ELSE phase' = "idle" /\ UNCHANGED <<ws, target>>
    /\ UNCHANGED <<options, url, redirects, retried, requests, resume, connects, reopens, calls>>

-----------------------------------------------------------------------------
(* The WebSocket, the handshake and what follows *)

SocketOpens ==
    /\ phase = "socket"
    /\ phase' = "handshake"
    /\ UNCHANGED <<options, negotiation, ws, target, resume, connects, reopens, calls>>

\* Variant of HandshakeOk: a connection that cannot be resumed leaves the old target.
HandshakeOkKeeps ==
    /\ phase = "handshake"
    /\ resume' = IF target = NoTarget THEN resume ELSE target
    /\ phase' = "ping"
    /\ UNCHANGED <<options, negotiation, ws, target, connects, reopens, calls>>

\* The handshake response arrives; use_connection_buffer().
HandshakeOk ==
    /\ phase = "handshake"
    /\ resume' = target
    /\ phase' = "ping"
    /\ UNCHANGED <<options, negotiation, ws, target, connects, reopens, calls>>

\* send_initial_ping()
PingOk ==
    /\ phase = "ping"
    /\ phase' = "up"
    /\ UNCHANGED <<options, negotiation, ws, target, resume, connects, reopens, calls>>

\* Whatever is awaited fails or times out, or the future is dropped.
Fail ==
    /\ phase \in Opening \cup Reopening
    /\ phase' = "idle"
    /\ UNCHANGED <<options, negotiation, ws, target, resume, connects, reopens, calls>>

\* The connection ends for good: a Close message, a timeout or close().
End ==
    /\ phase = "up"
    /\ phase' = "idle"
    /\ UNCHANGED <<options, negotiation, ws, target, resume, connects, reopens, calls>>

-----------------------------------------------------------------------------
(* ResumeTarget::reopen() *)

\* The transport is dropped.
Dropped ==
    /\ phase = "up"
    /\ IF resume = NoTarget
       THEN phase' = "idle" /\ UNCHANGED <<ws, reopens>>
       ELSE /\ reopens < MaxReopens /\ reopens' = reopens + 1
            /\ IF resume.token.by # "server" /\ factory
               THEN phase' = "reopen token" /\ UNCHANGED ws
               ELSE phase' = "reopen" /\ ws' = [resume EXCEPT !.token = Bearer(@)]
    /\ UNCHANGED <<options, negotiation, target, resume, connects, calls>>

ReopenToken ==
    /\ phase = "reopen token"
    /\ \E t \in Resolve : ws' = [resume EXCEPT !.token = t]
    /\ calls' = calls + 1
    /\ phase' = "reopen"
    /\ UNCHANGED <<options, negotiation, target, resume, connects, reopens>>

Reopened ==
    /\ phase = "reopen"
    /\ phase' = "up"
    /\ UNCHANGED <<options, negotiation, ws, target, resume, connects, reopens, calls>>

-----------------------------------------------------------------------------
Next ==
    \/ Connect \/ TokenArrives \/ Unauthorized
    \/ \E r \in Replies : RefusedReply(r) \/ Redirect(r) \/ Negotiated(r)
    \/ SocketOpens \/ HandshakeOk \/ PingOk \/ Fail \/ End
    \/ Dropped \/ ReopenToken \/ Reopened

Spec == Init /\ [][Next]_vars

-----------------------------------------------------------------------------
(* Properties *)

\* The state has the shape of the code's.
TypeOK ==
    /\ factory \in BOOLEAN /\ wants \in BOOLEAN
    /\ phase \in {"idle", "up"} \cup Opening \cup Reopening
    /\ url \in Urls /\ redirects \in 0..MaxRedirects /\ retried \in BOOLEAN
    /\ refreshable \in BOOLEAN /\ token \in Tokens
    /\ ws \in Targets /\ target \in Targets /\ resume \in Targets
    /\ connects \in 0..MaxConnects /\ reopens \in 0..MaxReopens
    /\ calls \in Nat /\ issued \in Tokens /\ requests \in Nat

\* A WebSocket is opened with the token the server issued last or, if it issued
\* none, with the newest one of the factory, after a 401, a redirect and a
\* transport that is reopened too; an empty token is left out.
LatestToken ==
    phase \in {"socket", "handshake", "ping", "up", "reopen"} =>
        IF issued = NoToken
        THEN ws.token = NoToken \/ (ws.token.by = "app" /\ ws.token.n = calls)
        ELSE ws.token = IF issued.n = 0 THEN NoToken ELSE issued

\* The factory is not called again for a connection the server issued a token to
\* (negotiate_with_token_factory() and ResumeTarget.server_token).
ServerTokenFinal == [][issued # NoToken => calls' = calls]_vars

\* "That request is sent once more; a second 401 fails", and the redirects are
\* limited: connect() sends at most two requests per URL it is led to.
RequestsBounded == requests <= 2 * (redirects + 1) /\ redirects <= MaxRedirects

\* A transport is only reopened for the connection that is up: a connection that
\* replaced a resumable one is not resumed in its place, and only a client that
\* asked for stateful reconnect resumes.
SameConnection ==
    phase \in {"ping", "up"} \cup Reopening /\ resume # NoTarget =>
        wants /\ resume.id = connects /\ ws.id = connects /\ ws.url = resume.url
=============================================================================
