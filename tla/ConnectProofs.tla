--------------------------- MODULE ConnectProofs ---------------------------
(***************************************************************************)
(* The properties of Connect for every number of redirects, connects and   *)
(* reopens and every set of URLs.  The code's limit of 100 redirects is    *)
(* far from what can be enumerated.                                        *)
(***************************************************************************)
EXTENDS Connect, TLAPS

\* Two requests per URL: one after each redirect, one after the first 401 there.
RequestsInd ==
    /\ requests <= 2 * redirects + (IF retried THEN 2 ELSE 1)
    /\ phase = "refresh" => ~retried
    /\ phase = "token" => requests = 0 /\ redirects = 0

\* What the source of tokens holds during negotiate.
SourceInd ==
    /\ issued = NoToken \/ issued.by = "server"
    /\ issued # NoToken => ~refreshable
    /\ phase \in {"token", "refresh"} => refreshable
    /\ phase = "request" =>
        IF issued = NoToken
        THEN token = NoToken \/ (token.by = "app" /\ token.n = calls)
        ELSE token = issued

\* t is a way to resume the connection of the current connect().
Current(t) ==
    t # NoTarget => wants /\ t.id = connects /\ t.id = ws.id /\ t.url = ws.url /\ t.token = issued

TargetInd ==
    /\ phase \in {"socket", "handshake"} => Current(target)
    /\ phase \in {"ping", "up"} \cup Reopening => Current(resume)
    /\ phase \in Reopening => resume # NoTarget
    /\ phase = "reopen token" => resume.token.by # "server"

IInv == TypeOK /\ RequestsInd /\ SourceInd /\ TargetInd /\ LatestToken

-----------------------------------------------------------------------------
\* The constants of the model are of their types.
LEMMA Constants == NoToken \in Tokens /\ NoTarget \in Targets /\ NoTarget.token = NoToken
  BY ConnectAssumption, Zenon DEF NoToken, Tokens, NoTarget, Targets

\* The bounds are numbers.
LEMMA Bounds == MaxRedirects \in Nat /\ MaxConnects \in Nat /\ MaxReopens \in Nat
  BY ConnectAssumption, Zenon

\* Leaving the empty token out keeps the type.
LEMMA BearerType == ASSUME NEW t \in Tokens PROVE Bearer(t) \in Tokens
  BY Constants, Zenon DEF Bearer

\* What resolve() returns: nothing, or the newest token of the factory.
LEMMA ResolveType ==
  ASSUME calls \in Nat, NEW t \in Resolve
  PROVE  t \in Tokens /\ (t = NoToken \/ (t.by = "app" /\ t.n = calls + 1))
  BY Constants DEF Resolve, Tokens

\* A response either leaves the source alone or replaces it by a token of the
\* server.
LEMMA TakeTokenStep ==
  ASSUME TypeOK, NEW r \in Replies, TakeToken(r)
  PROVE  /\ token' \in Tokens /\ issued' \in Tokens /\ refreshable' \in BOOLEAN
         /\ \/ token' = token /\ issued' = issued /\ refreshable' = refreshable
            \/ /\ token' = issued' /\ refreshable' = FALSE
               /\ issued'.by = "server" /\ issued' # NoToken
<1>1. CASE r.issues = "no"
  BY <1>1, Zenon DEF TakeToken, TokenAfter, TypeOK
<1>2. CASE r.issues = "token"
  <2>1. token' = [by |-> "server", n |-> redirects + 1] /\ issued' = token'
    BY <1>2, Zenon DEF TakeToken, TokenAfter
  <2>2. refreshable' = FALSE
    BY <1>2, Zenon DEF TakeToken
  <2>3. redirects + 1 \in Nat
    BY Bounds DEF TypeOK
  <2> QED
    BY <2>1, <2>2, <2>3, Zenon DEF Tokens, NoToken
<1>3. CASE r.issues = "empty"
  <2>1. token' = [by |-> "server", n |-> 0] /\ issued' = token'
    BY <1>3, Zenon DEF TakeToken, TokenAfter
  <2>2. refreshable' = FALSE
    BY <1>3, Zenon DEF TakeToken
  <2> QED
    BY <2>1, <2>2, Zenon DEF Tokens, NoToken
<1> QED
  BY <1>1, <1>2, <1>3, Zenon DEF Replies

-----------------------------------------------------------------------------
\* Initially nothing is connected and no token is known.
LEMMA InitInductive == Init => IInv
<1> SUFFICES ASSUME Init PROVE IInv
  BY Zenon
<1>1. TypeOK
  <2>1. factory \in BOOLEAN /\ wants \in BOOLEAN /\ retried \in BOOLEAN /\ refreshable \in BOOLEAN
    BY Zenon DEF Init
  <2> QED
    BY <2>1, Constants, Bounds, ConnectAssumption DEF Init, TypeOK, Opening, Reopening
<1>2. RequestsInd /\ SourceInd /\ TargetInd /\ LatestToken
  BY DEF Init, RequestsInd, SourceInd, TargetInd, LatestToken, Reopening
<1> QED
  BY <1>1, <1>2, Zenon DEF IInv

\* A step that only changes the phase, and not to one that promises more.
LEMMA IdleInductive ==
  ASSUME IInv, phase' = "idle",
         UNCHANGED <<options, negotiation, ws, target, resume, connects, reopens, calls>>
  PROVE  IInv'
  BY Zenon DEF IInv, TypeOK, RequestsInd, SourceInd, TargetInd, LatestToken, Reopening, options,
         negotiation

\* connect() starts over.
LEMMA ConnectInductive == ASSUME IInv, Connect PROVE IInv'
<1>1. TypeOK'
  <2>1. (factory \in BOOLEAN /\ wants \in BOOLEAN /\ retried \in BOOLEAN /\ refreshable \in BOOLEAN)'
    BY Zenon DEF IInv, TypeOK, Connect, options
  <2> QED
    BY <2>1, Constants, Bounds, ConnectAssumption DEF IInv, TypeOK, Connect, Opening
<1>2. RequestsInd'
  BY DEF Connect, RequestsInd
<1>3. SourceInd'
  BY Zenon DEF IInv, TypeOK, Connect, SourceInd
<1>4. TargetInd' /\ LatestToken'
  BY Zenon DEF IInv, TypeOK, Connect, TargetInd, LatestToken, Reopening
<1> QED
  BY <1>1, <1>2, <1>3, <1>4, Zenon DEF IInv

\* A token of the factory is used for one more request, and only while the
\* factory is the source.
LEMMA TokenInductive == ASSUME IInv, TokenArrives PROVE IInv'
<1>1. PICK t \in Resolve : token' = t
  BY Zenon DEF TokenArrives
<1>2. TypeOK'
  <2>1. (factory \in BOOLEAN /\ wants \in BOOLEAN /\ retried \in BOOLEAN /\ refreshable \in BOOLEAN)'
    BY Zenon DEF IInv, TypeOK, TokenArrives, options
  <2> QED
    BY <2>1, <1>1, ResolveType, Bounds DEF IInv, TypeOK, TokenArrives, Opening
<1>3. RequestsInd'
  <2>1. CASE phase = "token"
    <3>1. ~retried'
      BY <2>1, Zenon DEF TokenArrives
    <3> QED
      BY <2>1, <3>1, Bounds DEF IInv, TypeOK, TokenArrives, RequestsInd
  <2>2. CASE phase = "refresh"
    <3>1. retried' /\ ~retried
      BY <2>2, Zenon DEF IInv, TokenArrives, RequestsInd
    <3> QED
      BY <2>2, <3>1, Bounds DEF IInv, TypeOK, TokenArrives, RequestsInd
  <2> QED
    BY <2>1, <2>2, Zenon DEF TokenArrives
<1>4. SourceInd'
  BY <1>1, ResolveType, Zenon DEF IInv, TypeOK, TokenArrives, SourceInd
<1>5. TargetInd' /\ LatestToken'
  BY Zenon DEF IInv, TokenArrives, TargetInd, LatestToken, Reopening
<1> QED
  BY <1>2, <1>3, <1>4, <1>5, Zenon DEF IInv

\* Another token is asked for only before the request was retried.
LEMMA UnauthorizedInductive == ASSUME IInv, Unauthorized PROVE IInv'
<1>1. CASE phase' = "idle"
  BY <1>1, IdleInductive, Zenon DEF Unauthorized
<1>2. CASE phase' = "refresh"
  BY <1>2, Zenon DEF IInv, TypeOK, Unauthorized, RequestsInd, SourceInd, TargetInd, LatestToken,
              Reopening, Opening, options, negotiation
<1> QED
  BY <1>1, <1>2, Zenon DEF Unauthorized

\* A redirect adds one URL, for which one request is sent.
LEMMA RedirectInductive == ASSUME IInv, NEW r \in Replies, Redirect(r) PROVE IInv'
<1>1. TakeToken(r)
  BY Zenon DEF Redirect
<1>2. /\ token' \in Tokens /\ issued' \in Tokens /\ refreshable' \in BOOLEAN
      /\ \/ token' = token /\ issued' = issued /\ refreshable' = refreshable
         \/ /\ token' = issued' /\ refreshable' = FALSE
            /\ issued'.by = "server" /\ issued' # NoToken
  BY <1>1, TakeTokenStep, Zenon DEF IInv
<1>3. TypeOK'
  <2>1. (factory \in BOOLEAN /\ wants \in BOOLEAN /\ retried \in BOOLEAN /\ refreshable \in BOOLEAN)'
    BY <1>2, Zenon DEF IInv, TypeOK, Redirect, options
  <2> QED
    BY <2>1, <1>2, Bounds DEF IInv, TypeOK, Redirect, Replies
<1>4. RequestsInd'
  BY Bounds DEF IInv, TypeOK, Redirect, RequestsInd
<1>5. SourceInd'
  BY <1>2, Zenon DEF IInv, Redirect, SourceInd
<1>6. TargetInd' /\ LatestToken'
  BY Zenon DEF Redirect, TargetInd, LatestToken, Reopening
<1> QED
  BY <1>3, <1>4, <1>5, <1>6, Zenon DEF IInv

\* The WebSocket gets the token of the source; the target is the new connection.
LEMMA NegotiatedInductive == ASSUME IInv, NEW r \in Replies, Negotiated(r) PROVE IInv'
<1>1. TakeToken(r)
  BY Zenon DEF Negotiated
<1>2. /\ token' \in Tokens /\ issued' \in Tokens /\ refreshable' \in BOOLEAN
      /\ \/ token' = token /\ issued' = issued /\ refreshable' = refreshable
         \/ /\ token' = issued' /\ refreshable' = FALSE
            /\ issued'.by = "server" /\ issued' # NoToken
  BY <1>1, TakeTokenStep, Zenon DEF IInv
<1>3. IF issued' = NoToken
      THEN token' = NoToken \/ (token'.by = "app" /\ token'.n = calls)
      ELSE token' = issued'
  BY <1>2, Zenon DEF IInv, SourceInd, Negotiated
<1>4. ws' \in Targets /\ target' \in Targets
  <2>1. CASE r.id
    <3>1. /\ ws' = [url |-> url, id |-> connects, token |-> Bearer(token')]
          /\ \/ target' = NoTarget
             \/ target' = [url |-> url, id |-> connects, token |-> token']
             \/ target' = [url |-> url, id |-> connects, token |-> NoToken]
      BY <2>1, Zenon DEF Negotiated
    <3>2. Bearer(token') \in Tokens /\ NoToken \in Tokens /\ NoTarget \in Targets
      BY <1>2, BearerType, Constants, Zenon
    <3>3. url \in Urls /\ connects \in Nat
      BY Bounds DEF IInv, TypeOK
    <3> QED
      BY <1>2, <3>1, <3>2, <3>3 DEF Targets
  <2>2. CASE ~r.id
    BY <2>2, Zenon DEF IInv, TypeOK, Negotiated
  <2> QED
    BY <2>1, <2>2, Zenon
<1>5. TypeOK'
  <2>1. (factory \in BOOLEAN /\ wants \in BOOLEAN /\ retried \in BOOLEAN /\ refreshable \in BOOLEAN)'
    BY <1>2, Zenon DEF IInv, TypeOK, Negotiated, options
  <2> QED
    BY <1>2, <1>4, <2>1, Zenon DEF IInv, TypeOK, Negotiated, Opening
<1>6. RequestsInd'
  BY Zenon DEF IInv, TypeOK, Negotiated, RequestsInd
<1>7. SourceInd'
  BY <1>2, Zenon DEF IInv, Negotiated, SourceInd
<1>8. TargetInd'
  <2>1. CASE phase' = "idle"
    BY <2>1, Zenon DEF TargetInd, Reopening
  <2>2. CASE phase' = "socket" /\ ~r.stateful
    BY <2>2, Zenon DEF Negotiated, TargetInd, Current, Reopening
  <2>3. CASE phase' = "socket" /\ r.stateful
    <3>1. /\ ws'.url = url /\ ws'.id = connects
          /\ target'.url = url /\ target'.id = connects /\ connects' = connects
          /\ target'.token = IF issued' # NoToken THEN token' ELSE NoToken
      BY <2>3 DEF Negotiated
    <3>2. wants'
      BY <2>3, Zenon DEF Negotiated, Refused, options
    <3> QED
      BY <1>3, <2>3, <3>1, <3>2, Zenon DEF TargetInd, Current, Reopening
  <2> QED
    BY <2>1, <2>2, <2>3, Zenon DEF Negotiated
<1>9. LatestToken'
  <2>1. CASE phase' = "idle"
    BY <2>1, Zenon DEF LatestToken
  <2>2. CASE phase' = "socket"
    <3>1. ws'.token = Bearer(token') /\ calls' = calls
      BY <2>2 DEF Negotiated
    <3> QED
      BY <1>3, <2>2, <3>1, Zenon DEF LatestToken, Bearer, NoToken
  <2> QED
    BY <2>1, <2>2, Zenon DEF Negotiated
<1> QED
  BY <1>5, <1>6, <1>7, <1>8, <1>9, Zenon DEF IInv

\* From the WebSocket to the connection that is up the target is handed on.
LEMMA OpenInductive ==
  ASSUME IInv, SocketOpens \/ HandshakeOk \/ PingOk \/ Reopened PROVE IInv'
<1>1. TypeOK'
  BY Zenon DEF IInv, TypeOK, SocketOpens, HandshakeOk, PingOk, Reopened, options, negotiation,
         Opening
<1>2. RequestsInd' /\ SourceInd'
  BY DEF IInv, RequestsInd, SourceInd, SocketOpens, HandshakeOk, PingOk, Reopened, negotiation
<1>3. TargetInd'
  BY Zenon DEF IInv, TargetInd, Current, Reopening, SocketOpens, HandshakeOk, PingOk, Reopened,
         options, negotiation
<1>4. LatestToken'
  BY Zenon DEF IInv, LatestToken, SocketOpens, HandshakeOk, PingOk, Reopened, negotiation
<1> QED
  BY <1>1, <1>2, <1>3, <1>4, Zenon DEF IInv

\* A dropped transport is reopened where its connection is.
LEMMA DroppedInductive == ASSUME IInv, Dropped PROVE IInv'
<1>1. CASE resume = NoTarget
  BY <1>1, IdleInductive, Zenon DEF Dropped
<1>2. CASE resume # NoTarget
  <2>1. resume \in Targets /\ resume.token \in Tokens /\ resume.token = issued
    BY <1>2, Zenon DEF IInv, TypeOK, TargetInd, Current, Dropped, Targets
  <2>2. \/ phase' = "reopen token" /\ ws' = ws /\ resume.token.by # "server"
        \/ phase' = "reopen" /\ ws' = [resume EXCEPT !.token = Bearer(resume.token)]
    BY <1>2, Zenon DEF Dropped
  <2>3. ws' \in Targets
    BY <2>1, <2>2, BearerType, Zenon DEF IInv, TypeOK, Targets
  <2>4. TypeOK'
    <3>1. (factory \in BOOLEAN /\ wants \in BOOLEAN /\ retried \in BOOLEAN /\ refreshable \in BOOLEAN)'
      BY Zenon DEF IInv, TypeOK, Dropped, options, negotiation
    <3>2. reopens' \in 0..MaxReopens
      <4>1. reopens < MaxReopens /\ reopens' = reopens + 1
        BY <1>2, Zenon DEF Dropped
      <4>2. reopens \in 0..MaxReopens
        BY Zenon DEF IInv, TypeOK
      <4> QED
        BY <4>1, <4>2, Bounds
    <3> QED
      BY <2>2, <2>3, <3>1, <3>2, Zenon DEF IInv, TypeOK, Dropped, negotiation, Reopening
  <2>5. RequestsInd' /\ SourceInd'
    BY <2>2, Zenon DEF IInv, RequestsInd, SourceInd, Dropped, negotiation
  <2>6. TargetInd'
    BY <1>2, <2>1, <2>2, Zenon DEF IInv, TargetInd, Current, Dropped, Reopening, Targets, options,
                            negotiation
  <2>7. LatestToken'
    BY <2>1, <2>2, Zenon DEF LatestToken, Dropped, Bearer, Targets, negotiation
  <2> QED
    BY <2>4, <2>5, <2>6, <2>7, Zenon DEF IInv
<1> QED
  BY <1>1, <1>2, Zenon

\* A token of the factory reopens a transport only if the server issued none.
LEMMA ReopenTokenInductive == ASSUME IInv, ReopenToken PROVE IInv'
<1>1. PICK t \in Resolve : ws' = [resume EXCEPT !.token = t]
  BY Zenon DEF ReopenToken
<1>2. resume \in Targets /\ t \in Tokens /\ (t = NoToken \/ (t.by = "app" /\ t.n = calls'))
  BY ResolveType, Zenon DEF IInv, TypeOK, ReopenToken
<1>3. issued = NoToken
  BY Zenon DEF IInv, TargetInd, Current, SourceInd, ReopenToken, Reopening
<1>4. TypeOK'
  <2>1. (factory \in BOOLEAN /\ wants \in BOOLEAN /\ retried \in BOOLEAN /\ refreshable \in BOOLEAN)'
    BY Zenon DEF IInv, TypeOK, ReopenToken, options, negotiation
  <2>2. ws' \in Targets
    BY <1>1, <1>2, Zenon DEF Targets
  <2>3. calls' \in Nat
    <3>1. calls' = calls + 1
      BY Zenon DEF ReopenToken
    <3>2. calls \in Nat
      BY Zenon DEF IInv, TypeOK
    <3> QED
      BY <3>1, <3>2
  <2> QED
    BY <2>1, <2>2, <2>3, Zenon DEF IInv, TypeOK, ReopenToken, negotiation, Reopening
<1>5. RequestsInd' /\ SourceInd'
  BY Zenon DEF IInv, RequestsInd, SourceInd, ReopenToken, negotiation
<1>6. TargetInd'
  BY <1>1, <1>2, Zenon DEF IInv, TargetInd, Current, ReopenToken, Reopening, Targets, options,
                    negotiation
<1>7. LatestToken'
  BY <1>1, <1>2, <1>3, Zenon DEF LatestToken, ReopenToken, Targets, negotiation
<1> QED
  BY <1>4, <1>5, <1>6, <1>7, Zenon DEF IInv

\* Every step keeps the invariant.
LEMMA NextInductive == IInv /\ [Next]_vars => IInv'
<1> SUFFICES ASSUME IInv, [Next]_vars PROVE IInv'
  BY Zenon
<1>1. CASE Connect
  BY <1>1, ConnectInductive, Zenon
<1>2. CASE TokenArrives
  BY <1>2, TokenInductive, Zenon
<1>3. CASE Unauthorized
  BY <1>3, UnauthorizedInductive, Zenon
<1>4. ASSUME NEW r \in Replies, RefusedReply(r) PROVE IInv'
  BY <1>4, IdleInductive, Zenon DEF RefusedReply
<1>5. ASSUME NEW r \in Replies, Redirect(r) PROVE IInv'
  BY <1>5, RedirectInductive, Zenon
<1>6. ASSUME NEW r \in Replies, Negotiated(r) PROVE IInv'
  BY <1>6, NegotiatedInductive, Zenon
<1>7. CASE SocketOpens \/ HandshakeOk \/ PingOk \/ Reopened
  BY <1>7, OpenInductive, Zenon
<1>8. CASE Fail \/ End
  BY <1>8, IdleInductive, Zenon DEF Fail, End
<1>9. CASE Dropped
  BY <1>9, DroppedInductive, Zenon
<1>10. CASE ReopenToken
  BY <1>10, ReopenTokenInductive, Zenon
<1>11. CASE UNCHANGED vars
  <2>1. TypeOK'
    BY <1>11, Zenon DEF IInv, TypeOK, vars, options, negotiation
  <2>2. RequestsInd' /\ SourceInd'
    BY <1>11, Zenon DEF IInv, RequestsInd, SourceInd, vars, negotiation
  <2>3. TargetInd' /\ LatestToken'
    BY <1>11, Zenon DEF IInv, TargetInd, Current, LatestToken, vars, options, negotiation
  <2> QED
    BY <2>1, <2>2, <2>3, Zenon DEF IInv
<1> QED
  BY <1>1, <1>2, <1>3, <1>4, <1>5, <1>6, <1>7, <1>8, <1>9, <1>10, <1>11, Zenon DEF Next

\* The invariant holds in every reachable state.
THEOREM Inductive == Spec => []IInv
  BY InitInductive, NextInductive, PTL DEF Spec

-----------------------------------------------------------------------------
\* connect() sends at most two negotiate requests per URL, for every limit of
\* redirects (negotiate_with_source()).
THEOREM BoundedRequests == Spec => []RequestsBounded
<1>1. IInv => RequestsBounded
  BY Bounds DEF IInv, TypeOK, RequestsInd, RequestsBounded
<1> QED
  BY <1>1, Inductive, PTL

\* Every WebSocket is opened with the newest token of the side that issues them
\* (Connection::connect() and ResumeTarget::reopen()).
THEOREM TokenIsLatest == Spec => []LatestToken
<1>1. IInv => LatestToken
  BY Zenon DEF IInv
<1> QED
  BY <1>1, Inductive, PTL

\* Only the connection that is up is resumed (use_connection_buffer() and
\* resume_transport()).
THEOREM ResumesSame == Spec => []SameConnection
<1>1. IInv => SameConnection
  BY Zenon DEF IInv, TargetInd, Current, SameConnection, Reopening
<1> QED
  BY <1>1, Inductive, PTL

\* The factory is not called for a connection the server issued a token to.
THEOREM FactoryStays == Spec => ServerTokenFinal
<1>1. IInv /\ [Next]_vars => [issued # NoToken => calls' = calls]_vars
  <2> SUFFICES ASSUME IInv, Next, issued # NoToken PROVE calls' = calls
    BY Zenon
  <2>1. ~TokenArrives
    BY Zenon DEF IInv, SourceInd, TokenArrives
  <2>2. ~ReopenToken
    BY Zenon DEF IInv, TargetInd, SourceInd, Current, ReopenToken, Reopening
  <2> QED
    BY <2>1, <2>2, Zenon DEF Next, Connect, Unauthorized, RefusedReply, Redirect, Negotiated,
         SocketOpens, HandshakeOk, PingOk, Fail, End, Dropped, Reopened
<1> QED
  BY <1>1, Inductive, PTL DEF Spec, ServerTokenFinal
=============================================================================
