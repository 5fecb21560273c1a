-------------------------- MODULE GatewayServerProofs --------------------------
(***************************************************************************)
(* Proofs about GatewayServer, for any number of requests, tokens, callers *)
(* and policies, with panics, cache errors and clock changes or without.   *)
(*                                                                         *)
(* The limiter's own invariant carries over, because every step of the     *)
(* server is a step of RateLimiter, a stutter, or the end of the process   *)
(* (LimiterStep).  What the chain of middlewares knows of a request is a   *)
(* fact about its record alone (Good): nothing is sent, logged or          *)
(* recovered before the answer, and the verdict fits the stage.            *)
(***************************************************************************)
EXTENDS GatewayServer, RateLimiterProofs

Good(c) ==
  /\ c.target = "me" =>
       /\ c.stage = "limit" \/ c.verdict # "none" => c.entitled = TRUE
       /\ c.stage = "handle" => c.verdict \in {"admitted", "failed"}
       /\ c.sent = 429 => c.verdict = "refused"
       /\ c.sent \in {401, 403} => c.entitled = FALSE
  /\ c.stage = "answered" =>
       /\ c.sent # None
       /\ c.panicked = TRUE => c.line = None
       /\ c.panicked = FALSE => c.line = c.sent
  /\ c.stage # "answered" => c.sent = None /\ c.line = None /\ c.panicked = FALSE

CallsGood == \A s \in Slots : Busy(s) => Good(call[s])

KeyKept ==
  \A s \in Slots : At(s, "limit") =>
    req[s].key = ScopeKey(call[s].user, Me, Scope[PolicyOf[Me]])

ServerInv == ServerTypeOK /\ CallsGood /\ KeyKept

-----------------------------------------------------------------------------
(* What the layers do to the record of a request.                            *)

LEMMA StatusesUsed ==
  {200, 204, 401, 403, 404, 429, 500, 503} \subseteq Statuses /\ None \notin Statuses
BY DEF Statuses, None

LEMMA Wrapped ==
  ASSUME NEW c \in Call, NEW code \in Statuses
  PROVE  /\ Wrote(c, code) \in Call
         /\ Wrote(c, code).target = c.target
         /\ Wrote(c, code).verdict = c.verdict
         /\ Wrote(c, code).entitled = c.entitled
         /\ Wrote(c, code).panicked = c.panicked
         /\ Wrote(c, code).line = c.line
         /\ Wrote(c, code).seen = code
         /\ Wrote(c, code).sent = IF c.sent = None THEN code ELSE c.sent
<1> DEFINE sent == IF c.sent = None THEN code ELSE c.sent
<1>1. sent \in Statuses \cup {None}
  BY DEF Call
<1>2. Wrote(c, code) = [c EXCEPT !.seen = code, !.sent = sent]
  BY DEF Wrote, Call
<1> HIDE DEF sent
<1>3. /\ Wrote(c, code) \in Call
      /\ Wrote(c, code).target = c.target
      /\ Wrote(c, code).verdict = c.verdict
      /\ Wrote(c, code).entitled = c.entitled
      /\ Wrote(c, code).panicked = c.panicked
      /\ Wrote(c, code).line = c.line
      /\ Wrote(c, code).seen = code
      /\ Wrote(c, code).sent = sent
  BY <1>1, <1>2 DEF Call
<1> QED
  BY <1>3 DEF sent

LEMMA Answered ==
  ASSUME NEW c \in Call, NEW code \in Statuses
  PROVE  /\ Answer(c, code) \in Call
         /\ Answer(c, code).stage = "answered"
         /\ Answer(c, code).target = c.target
         /\ Answer(c, code).verdict = c.verdict
         /\ Answer(c, code).entitled = c.entitled
         /\ Answer(c, code).panicked = c.panicked
         /\ Answer(c, code).sent = IF c.sent = None THEN code ELSE c.sent
         /\ Answer(c, code).line = code
<1> DEFINE w == Wrote(c, code)
<1>1. /\ w \in Call /\ w.seen = code
      /\ w.target = c.target /\ w.verdict = c.verdict /\ w.entitled = c.entitled
      /\ w.panicked = c.panicked /\ w.sent = IF c.sent = None THEN code ELSE c.sent
  BY Wrapped
<1>2. Answer(c, code) = [w EXCEPT !.line = w.seen, !.stage = "answered"]
  BY DEF Answer, Logged
<1> HIDE DEF w
<1>3. /\ Answer(c, code) \in Call
      /\ Answer(c, code).stage = "answered" /\ Answer(c, code).line = w.seen
      /\ Answer(c, code).target = w.target /\ Answer(c, code).verdict = w.verdict
      /\ Answer(c, code).entitled = w.entitled /\ Answer(c, code).sent = w.sent
      /\ Answer(c, code).panicked = w.panicked
  BY <1>1, <1>2 DEF Call
<1> QED
  BY <1>1, <1>3

LEMMA Caught ==
  ASSUME NEW c \in Call
  PROVE  /\ Recovered(c) \in Call
         /\ Recovered(c).stage = "answered"
         /\ Recovered(c).target = c.target
         /\ Recovered(c).verdict = c.verdict
         /\ Recovered(c).entitled = c.entitled
         /\ Recovered(c).panicked = TRUE
         /\ Recovered(c).line = c.line
         /\ Recovered(c).sent = IF c.sent = None THEN 500 ELSE c.sent
<1> DEFINE sent == IF c.sent = None THEN 500 ELSE c.sent
<1>1. sent \in Statuses \cup {None}
  <2>1. c.sent \in Statuses \cup {None}
    BY DEF Call
  <2>2. 500 \in Statuses
    BY StatusesUsed
  <2> QED
    BY <2>1, <2>2
<1>2. Recovered(c) = [c EXCEPT !.sent = sent, !.panicked = TRUE, !.stage = "answered"]
  BY DEF Recovered, Call
<1> HIDE DEF sent
<1>3. /\ Recovered(c) \in Call
      /\ Recovered(c).stage = "answered"
      /\ Recovered(c).target = c.target
      /\ Recovered(c).verdict = c.verdict
      /\ Recovered(c).entitled = c.entitled
      /\ Recovered(c).panicked = TRUE
      /\ Recovered(c).line = c.line
      /\ Recovered(c).sent = sent
  BY <1>1, <1>2 DEF Call
<1> QED
  BY <1>3 DEF sent

\* A status that may answer the request as it stands.
Fits(c, code) ==
  /\ c.sent = None /\ c.panicked = FALSE
  /\ c.target = "me" =>
       /\ c.verdict # "none" => c.entitled = TRUE
       /\ code = 429 => c.verdict = "refused"
       /\ code \in {401, 403} => c.entitled = FALSE

LEMMA GoodAnswer ==
  ASSUME NEW c \in Call, NEW code \in Statuses, Fits(c, code)
  PROVE  /\ Answer(c, code) \in Call /\ Good(Answer(c, code))
         /\ Answer(c, code).stage # "limit"
<1> DEFINE a == Answer(c, code)
<1>1. /\ a \in Call /\ a.stage = "answered" /\ a.target = c.target
      /\ a.verdict = c.verdict /\ a.entitled = c.entitled /\ a.panicked = FALSE
      /\ a.sent = code /\ a.line = code
  BY Answered DEF Fits
<1> HIDE DEF a
<1>2. code # None
  BY StatusesUsed
<1>3. Good(a)
  BY <1>1, <1>2 DEF Good, Fits
<1> QED
  BY <1>1, <1>3 DEF a

LEMMA NewCallFields ==
  /\ NewCall \in Call
  /\ NewCall.stage = "handle" /\ NewCall.verdict = "none" /\ NewCall.sent = None
  /\ NewCall.line = None /\ NewCall.panicked = FALSE /\ NewCall.entitled = FALSE
BY DEF NewCall, Call, Targets, Statuses, None

LEMMA NewCallType ==
  ASSUME NEW target \in Targets, NEW b \in BOOLEAN
  PROVE  LET c == [NewCall EXCEPT !.target = target, !.entitled = b]
         IN  /\ c \in Call /\ c.target = target /\ c.entitled = b
             /\ c.stage = "handle" /\ c.verdict = "none"
             /\ c.sent = None /\ c.line = None /\ c.panicked = FALSE
BY NewCallFields DEF Call

\* One slot's request is replaced by a good one; the limiter has it or not.
LEMMA Replace ==
  ASSUME ServerTypeOK, CallsGood, TypeOK', UNCHANGED process,
         main \in {"serve", "drain"},
         NEW s \in Slots, NEW c \in Call, Good(c),
         call' = [call EXCEPT ![s] = c],
         \A t \in Slots \ {s} : pc'[t] = pc[t],
         pc'[s] # "idle" <=> c.stage = "limit"
  PROVE  ServerTypeOK' /\ CallsGood'
<1>1. /\ call'[s] = c
      /\ \A t \in Slots \ {s} : call'[t] = call[t]
      /\ call' \in [Slots -> Call \cup {NoCall}]
  BY DEF ServerTypeOK
<1>2. c # NoCall
  BY NoCallAssumption
<1>3. ServerTypeOK'
  BY <1>1, <1>2 DEF ServerTypeOK, At, Busy, process
<1>4. CallsGood'
  BY <1>1, <1>2 DEF CallsGood, Busy
<1> QED
  BY <1>3, <1>4

\* The request of a slot is a proper one, and the process is up.
LEMMA Serves ==
  ASSUME ServerTypeOK, NEW s \in Slots, Busy(s)
  PROVE  call[s] \in Call /\ main \in {"serve", "drain"}
BY DEF ServerTypeOK, Busy

LEMMA AtLimit ==
  ASSUME ServerTypeOK, NEW s \in Slots, pc[s] # "idle"
  PROVE  At(s, "limit") /\ Busy(s)
BY DEF ServerTypeOK, At

-----------------------------------------------------------------------------
(* The limiter inside the server.                                            *)

LEMMA LimiterStep ==
  ASSUME [ServerNext]_svars
  PROVE  [Next]_vars \/ \E how : Exit(how)
<1>1. CASE BootFails \/ ServeFails \/ ShutDown \/ GraceExpires \/ Killed
  BY <1>1 DEF BootFails, ServeFails, ShutDown, GraceExpires, Killed
<1>2. CASE BootStep \/ Listen \/ ServeClosed \/ Interrupt
  BY <1>2 DEF BootStep, Listen, ServeClosed, Interrupt
<1>3. CASE Time
  BY <1>3 DEF Time, Next, Undisturbed
<1>4. ASSUME NEW s \in Slots, NEW t \in Tokens \cup {NoToken}, GetMe(s, t)
      PROVE  [Next]_vars
  <2>1. Verify(t) => Claims[t].sub \in Callers /\ Me \in Routes
    BY GatewayServerAssumption DEF Verify
  <2>2. UNCHANGED vars \/ (Verify(t) /\ Arrive(s, Claims[t].sub, Me))
    BY <1>4, ZenonT(40) DEF GetMe
  <2> QED
    BY <2>1, <2>2 DEF Next, Undisturbed
<1>5. ASSUME NEW s \in Slots,
             Preflight(s) \/ NotFound(s) \/ Ping(s) \/ HandleMe(s) \/ HandlePing(s)
             \/ HandlerPanics(s) \/ Finish(s)
      PROVE  [Next]_vars
  BY <1>5 DEF Preflight, NotFound, Ping, HandleMe, HandlePing, HandlerPanics, Finish
<1>6. ASSUME NEW s \in Slots,
             WaitForMutex(s) \/ InLimiter(s) \/ LimiterFails(s) \/ LimiterDecides(s)
      PROVE  [Next]_vars
  BY <1>6 DEF WaitForMutex, InLimiter, LimiterFails, LimiterDecides, Next, Undisturbed
<1>7. CASE UNCHANGED svars
  BY <1>7 DEF svars
<1> QED
  BY <1>1, <1>2, <1>3, <1>4, <1>5, <1>6, <1>7 DEF ServerNext, Handle

LEMMA TypeAtExit == ASSUME TypeOK, NEW how, Exit(how) PROVE TypeOK'
<1>1. /\ cell' \in [Scopes \X Keys -> Entry \cup {NoEntry}]
      /\ pc' \in [Slots -> {"idle", "lock"} \cup Critical]
      /\ req' \in [Slots -> Request \cup {NoRequest}]
      /\ UNCHANGED <<clock, slew, level>>
  BY DEF Exit
<1>2. \A s \in Slots : pc'[s] = "idle" /\ mu' # s
  BY RateLimiterAssumption DEF Exit
<1> QED
  BY <1>1, <1>2 DEF TypeOK, Critical

LEMMA LimiterTypeStep == ASSUME TypeOK, [ServerNext]_svars PROVE TypeOK'
BY LimiterStep, TypeStep, TypeAtExit

\* The limiter keeps the key of the request it works on.
LEMMA KeyStays ==
  ASSUME TypeOK, NEW s \in Slots, Lock(s) \/ Load(s) \/ Take(s) \/ Stamp(s)
  PROVE  /\ \A t \in Slots : req'[t].key = req[t].key
         /\ \A t \in Slots \ {s} : pc'[t] = pc[t]
         /\ pc[s] # "idle" /\ pc'[s] # "idle"
<1>1. pc[s] # "idle" /\ req \in [Slots -> Request \cup {NoRequest}]
  BY DEF Lock, Load, Take, Stamp, TypeOK
<1>2. req[s] \in Request
  BY <1>1, Serving
<1>3. CASE Lock(s)
  BY <1>1, <1>2, <1>3 DEF Lock, Goto, TypeOK, Request
<1>4. CASE Load(s)
  BY <1>1, <1>2, <1>4 DEF Load, Goto, TypeOK, Request
<1>5. CASE Take(s)
  BY <1>1, <1>2, <1>5 DEF Take, Goto, TypeOK, Request
<1>6. CASE Stamp(s)
  BY <1>1, <1>2, <1>6 DEF Stamp, Goto, TypeOK, Request
<1> QED
  BY <1>3, <1>4, <1>5, <1>6

\* The limiter is done with a request.
LEMMA LimiterReturns ==
  ASSUME TypeOK, NEW s \in Slots, LoadFails(s) \/ Store(s) \/ StoreFails(s)
  PROVE  /\ \A t \in Slots \ {s} : pc'[t] = pc[t] /\ req'[t] = req[t]
         /\ pc[s] # "idle" /\ pc'[s] = "idle"
BY DEF LoadFails, Store, StoreFails, Unlock, Goto, TypeOK

-----------------------------------------------------------------------------
(* The invariant.                                                            *)

LEMMA ServerInvInit == ServerInit => ServerInv
<1> SUFFICES ASSUME ServerInit PROVE ServerInv
  OBVIOUS
<1>1. TypeOK
  BY TypeInit DEF ServerInit
<1>2. \A s \in Slots : ~Busy(s) /\ pc[s] = "idle"
  BY DEF ServerInit, Init, Busy
<1>3. ServerTypeOK
  BY <1>1, <1>2 DEF ServerTypeOK, ServerInit, At, Booting
<1> QED
  BY <1>2, <1>3 DEF ServerInv, CallsGood, KeyKept, At

\* Requests that go on do so under the key they came with.
LEMMA KeyStep ==
  ASSUME ServerInv, NEW s \in Slots, KeyKept,
         \A t \in Slots \ {s} : call'[t] = call[t] /\ req'[t].key = req[t].key,
         At(s, "limit")' =>
           req'[s].key = ScopeKey(call'[s].user, Me, Scope[PolicyOf[Me]])
  PROVE  KeyKept'
BY DEF KeyKept, At, Busy

\* A request that the limiter does not have moves on.
LEMMA PlainStep ==
  ASSUME ServerInv, UNCHANGED vars, UNCHANGED process,
         main \in {"serve", "drain"},
         NEW s \in Slots, pc[s] = "idle",
         NEW c \in Call, Good(c), c.stage # "limit",
         call' = [call EXCEPT ![s] = c]
  PROVE  ServerInv'
<1>1. TypeOK'
  BY DEF ServerInv, ServerTypeOK, TypeOK, vars, Wall
<1>2. call'[s] = c /\ \A t \in Slots \ {s} : call'[t] = call[t]
  BY DEF ServerInv, ServerTypeOK
<1>3. ServerTypeOK' /\ CallsGood'
  BY <1>1, Replace DEF ServerInv, vars
<1>4. KeyKept'
  BY <1>2, KeyStep DEF ServerInv, vars, At
<1> QED
  BY <1>3, <1>4 DEF ServerInv

LEMMA IdleUnlessLimit ==
  ASSUME ServerTypeOK, NEW s \in Slots, ~At(s, "limit")
  PROVE  pc[s] = "idle"
BY DEF ServerTypeOK

LEMMA StartStep ==
  ASSUME ServerInv, NEW s \in Slots,
         Preflight(s) \/ NotFound(s) \/ Ping(s)
         \/ \E t \in Tokens \cup {NoToken} : GetMe(s, t)
  PROVE  ServerInv'
<1>1. ServerTypeOK /\ main \in {"serve", "drain"} /\ ~Busy(s)
  BY DEF Preflight, NotFound, Ping, GetMe, Start, ServerInv
<1>2. pc[s] = "idle"
  BY <1>1, IdleUnlessLimit DEF At
<1>a. ASSUME NEW c \in Call, Good(c), c.stage # "limit", Start(s, c), UNCHANGED vars
      PROVE  ServerInv'
  BY <1>1, <1>2, <1>a, PlainStep DEF Start
<1>3. CASE Ping(s)
  <2>1. NewCall \in Call /\ Good(NewCall) /\ NewCall.stage # "limit"
    BY DEF NewCall, Good, Call, Targets, Statuses, None
  <2> QED
    BY <1>a, <1>3, <2>1 DEF Ping
<1>4. CASE Preflight(s)
  <2> DEFINE c == [NewCall EXCEPT !.target = "preflight"]
  <2>2. c \in Call /\ c.target = "preflight" /\ c.sent = None /\ c.panicked = FALSE
    BY NewCallFields DEF Call, Targets
  <2> HIDE DEF c
  <2>3. Answer(c, 204) \in Call /\ Good(Answer(c, 204))
        /\ Answer(c, 204).stage # "limit"
    <3>1. 204 \in Statuses
      BY StatusesUsed
    <3>2. Fits(c, 204)
      BY <2>2 DEF Fits
    <3> QED
      BY <2>2, <3>1, <3>2, GoodAnswer, ZenonT(40)
  <2> QED
    BY <1>a, <1>4, <2>3 DEF Preflight, c
<1>5. CASE NotFound(s)
  <2> DEFINE c == [NewCall EXCEPT !.target = "unknown"]
  <2>2. c \in Call /\ c.target = "unknown" /\ c.sent = None /\ c.panicked = FALSE
    BY NewCallFields DEF Call, Targets
  <2> HIDE DEF c
  <2>3. Answer(c, 404) \in Call /\ Good(Answer(c, 404))
        /\ Answer(c, 404).stage # "limit"
    <3>1. 404 \in Statuses
      BY StatusesUsed
    <3>2. Fits(c, 404)
      BY <2>2 DEF Fits
    <3> QED
      BY <2>2, <3>1, <3>2, GoodAnswer, ZenonT(40)
  <2> QED
    BY <1>a, <1>5, <2>3 DEF NotFound, c
<1>6. ASSUME NEW t \in Tokens \cup {NoToken}, GetMe(s, t) PROVE ServerInv'
  <2> DEFINE c == [NewCall EXCEPT !.target = "me", !.entitled = Entitled(t)]
  <2>1. Entitled(t) \in BOOLEAN
    BY DEF Entitled
  <2>2. /\ c \in Call /\ c.target = "me" /\ c.sent = None /\ c.panicked = FALSE
        /\ c.verdict = "none" /\ c.entitled = Entitled(t) /\ c.line = None
        /\ c.stage = "handle"
    BY ZenonT(60), <2>1, NewCallType DEF Targets
  <2>3. Verify(t) => t \in Tokens /\ Claims[t].sub \in Callers
    BY GatewayServerAssumption DEF Verify
  <2>4. Entitled(t) => Verify(t) /\ HasScope(t)
    BY GatewayServerAssumption DEF Entitled, Verify, HasScope
  <2>5. Verify(t) /\ HasScope(t) => Entitled(t)
    BY <2>3 DEF Entitled, Verify, HasScope
  <2> HIDE DEF c
  <2>6. CASE ~Verify(t)
    <3>1. Start(s, Answer(c, 401)) /\ UNCHANGED vars
      BY <1>6, <2>6 DEF GetMe, c
    <3>2. Answer(c, 401) \in Call /\ Good(Answer(c, 401))
          /\ Answer(c, 401).stage # "limit"
      <4>1. 401 \in Statuses
        BY StatusesUsed
      <4>2. Fits(c, 401)
        BY <2>1, <2>2, <2>4, <2>6 DEF Fits
      <4> QED
        BY <2>2, <4>1, <4>2, GoodAnswer, ZenonT(40)
    <3> QED
      BY <1>a, <3>1, <3>2
  <2>7. CASE Verify(t) /\ ~HasScope(t)
    <3>1. Start(s, Answer(c, 403)) /\ UNCHANGED vars
      BY <1>6, <2>7 DEF GetMe, c
    <3>2. Answer(c, 403) \in Call /\ Good(Answer(c, 403))
          /\ Answer(c, 403).stage # "limit"
      <4>1. 403 \in Statuses
        BY StatusesUsed
      <4>2. Fits(c, 403)
        BY <2>1, <2>2, <2>4, <2>7 DEF Fits
      <4> QED
        BY <2>2, <4>1, <4>2, GoodAnswer, ZenonT(40)
    <3> QED
      BY <1>a, <3>1, <3>2
  <2>8. CASE Verify(t) /\ HasScope(t)
    <3> DEFINE user == Claims[t].sub
               d == [c EXCEPT !.stage = "limit", !.user = user]
    <3>1. Start(s, d) /\ Arrive(s, user, Me)
      BY <1>6, <2>8 DEF GetMe, c
    <3>2. user \in Callers
      BY <2>3, <2>8
    <3> HIDE DEF user
    <3>a. /\ d \in Call /\ d.stage = "limit" /\ d.user = user
          /\ d.target = c.target /\ d.sent = c.sent /\ d.line = c.line
          /\ d.panicked = c.panicked /\ d.entitled = c.entitled
      BY <2>2, <3>2 DEF Call
    <3> HIDE DEF d
    <3>b. Good(d)
      BY <2>2, <2>5, <2>8, <3>a DEF Good, None
    <3>3. d \in Call /\ Good(d) /\ d.stage = "limit" /\ d.user = user
      BY <3>a, <3>b
    <3>4. [Next]_vars
      BY <3>1, <3>2, GatewayServerAssumption DEF Next, Undisturbed
    <3>5. TypeOK'
      BY <1>1, <3>4, TypeStep DEF ServerTypeOK
    <3>6. pc'[s] = "lock" /\ \A u \in Slots \ {s} : pc'[u] = pc[u]
      BY <1>1, <3>1 DEF Arrive, Goto, ServerTypeOK, TypeOK
    <3>7. call' = [call EXCEPT ![s] = d] /\ UNCHANGED process
      BY <3>1 DEF Start
    <3>8. ServerTypeOK' /\ CallsGood'
      BY <1>1, <3>3, <3>5, <3>6, <3>7, Replace DEF ServerInv
    <3>9. /\ req'[s].key = ScopeKey(user, Me, Scope[PolicyOf[Me]])
          /\ \A u \in Slots \ {s} : req'[u] = req[u]
      BY <1>1, <3>1 DEF Arrive, ServerTypeOK, TypeOK
    <3>10. call'[s] = d /\ \A u \in Slots \ {s} : call'[u] = call[u]
      BY <1>1, <3>7 DEF ServerTypeOK
    <3>11. KeyKept'
      BY <3>3, <3>9, <3>10, KeyStep DEF ServerInv
    <3> QED
      BY <3>8, <3>11 DEF ServerInv
  <2> QED
    BY <2>6, <2>7, <2>8
<1> QED
  BY <1>3, <1>4, <1>5, <1>6

LEMMA HandlerStep ==
  ASSUME ServerInv, NEW s \in Slots,
         HandleMe(s) \/ HandlePing(s) \/ HandlerPanics(s)
  PROVE  ServerInv'
<1>1. ServerTypeOK /\ At(s, "handle") /\ Busy(s) /\ UNCHANGED vars /\ UNCHANGED process
  BY DEF HandleMe, HandlePing, HandlerPanics, At, ServerInv
<1>2. call[s] \in Call /\ main \in {"serve", "drain"} /\ call[s].stage = "handle"
  BY <1>1, Serves DEF At
<1>3. pc[s] = "idle"
  BY <1>1, IdleUnlessLimit DEF At
<1>4. Good(call[s])
  BY <1>1 DEF ServerInv, CallsGood
<1>5. /\ call[s].sent = None /\ call[s].line = None /\ call[s].panicked = FALSE
      /\ call[s].target = "me" =>
           call[s].verdict \in {"admitted", "failed"} /\ call[s].entitled = TRUE
  BY <1>2, <1>4 DEF Good
<1>a. ASSUME NEW c \in Call, Good(c), c.stage # "limit", call' = [call EXCEPT ![s] = c]
      PROVE  ServerInv'
  BY <1>1, <1>2, <1>3, <1>a, PlainStep
<1>b. ASSUME NEW code \in Statuses, code \notin {401, 403, 429},
             call' = [call EXCEPT ![s] = Answer(call[s], code)]
      PROVE  ServerInv'
  <2> DEFINE a == Answer(call[s], code)
  <2>1. Fits(call[s], code)
    BY <1>5, <1>b DEF Fits
  <2>2. a \in Call /\ Good(a) /\ a.stage # "limit"
    BY <1>2, <2>1, GoodAnswer, ZenonT(40)
  <2>3. call' = [call EXCEPT ![s] = a]
    BY <1>b
  <2> HIDE DEF a
  <2> QED
    BY <1>a, <2>2, <2>3
<1>c. ASSUME call' = [call EXCEPT ![s] = Answer(call[s], 200)] PROVE ServerInv'
  <2>1. PICK code \in Statuses : code = 200
    BY StatusesUsed
  <2>2. call' = [call EXCEPT ![s] = Answer(call[s], code)]
    BY <1>c, <2>1
  <2>3. code \notin {401, 403, 429}
    BY <2>1
  <2> QED
    BY <1>b, <2>2, <2>3, ZenonT(40)
<1>d. ASSUME call' = [call EXCEPT ![s] = Answer(call[s], 503)] PROVE ServerInv'
  <2>1. PICK code \in Statuses : code = 503
    BY StatusesUsed
  <2>2. call' = [call EXCEPT ![s] = Answer(call[s], code)]
    BY <1>d, <2>1
  <2>3. code \notin {401, 403, 429}
    BY <2>1
  <2> QED
    BY <1>b, <2>2, <2>3, ZenonT(40)
<1>6. CASE HandleMe(s)
  BY <1>c, <1>6, ZenonT(40) DEF HandleMe
<1>7. CASE HandlePing(s)
  <2>1. PICK code \in {200, 503} : call' = [call EXCEPT ![s] = Answer(call[s], code)]
    BY <1>7, ZenonT(40) DEF HandlePing
  <2>2. code = 200 \/ code = 503
    BY <2>1
  <2> QED
    BY <1>c, <1>d, <2>1, <2>2, ZenonT(40)
<1>8. CASE HandlerPanics(s)
  <2>1. PICK c \in {call[s], Wrote(call[s], 200)} : call' = [call EXCEPT ![s] = Recovered(c)]
    BY <1>8 DEF HandlerPanics
  <2>2. /\ c \in Call /\ c.target = call[s].target /\ c.verdict = call[s].verdict
        /\ c.entitled = call[s].entitled /\ c.line = None /\ c.sent \in {None, 200}
    <3>1. CASE c = call[s]
      BY <1>2, <1>5, <3>1
    <3>2. CASE c = Wrote(call[s], 200)
      <4>1. PICK code \in Statuses : code = 200
        BY StatusesUsed
      <4> DEFINE w == Wrote(call[s], code)
      <4>2. /\ w \in Call /\ w.target = call[s].target /\ w.line = call[s].line
            /\ w.verdict = call[s].verdict /\ w.entitled = call[s].entitled
            /\ w.sent = IF call[s].sent = None THEN code ELSE call[s].sent
        BY <1>2, Wrapped
      <4> HIDE DEF w
      <4>3. c = w
        BY <3>2, <4>1 DEF w
      <4> QED
        BY <1>5, <4>1, <4>2, <4>3
    <3> QED
      BY <2>1, <3>1, <3>2
  <2> DEFINE r == Recovered(c)
  <2>3. /\ r \in Call /\ r.stage = "answered" /\ r.target = call[s].target
        /\ r.verdict = call[s].verdict /\ r.entitled = call[s].entitled
        /\ r.panicked = TRUE /\ r.line = None
        /\ r.sent = IF c.sent = None THEN 500 ELSE c.sent
    BY <2>2, Caught, ZenonT(40)
  <2> HIDE DEF r
  <2>4. Good(r)
    BY <1>5, <2>2, <2>3 DEF Good, None
  <2> QED
    BY <1>a, <2>1, <2>3, <2>4 DEF r
<1> QED
  BY <1>6, <1>7, <1>8

LEMMA LimiterWorks ==
  ASSUME ServerInv, NEW s \in Slots, WaitForMutex(s) \/ InLimiter(s)
  PROVE  ServerInv'
<1>1. /\ Lock(s) \/ Load(s) \/ Take(s) \/ Stamp(s)
      /\ UNCHANGED <<process, call>> /\ TypeOK /\ ServerTypeOK
  BY DEF WaitForMutex, InLimiter, ServerInv, ServerTypeOK
<1>2. /\ \A t \in Slots : req'[t].key = req[t].key
      /\ \A t \in Slots \ {s} : pc'[t] = pc[t]
      /\ pc[s] # "idle" /\ pc'[s] # "idle"
  BY <1>1, KeyStays
<1>3. TypeOK'
  BY <1>1, TypeStep DEF Next, Undisturbed
<1>4. ServerTypeOK'
  BY <1>1, <1>2, <1>3 DEF ServerTypeOK, At, Busy, process
<1>5. CallsGood' /\ KeyKept'
  BY <1>1, <1>2 DEF ServerInv, CallsGood, KeyKept, At, Busy
<1> QED
  BY <1>4, <1>5 DEF ServerInv

LEMMA LimiterAnswers ==
  ASSUME ServerInv, NEW s \in Slots, LimiterFails(s) \/ LimiterDecides(s)
  PROVE  ServerInv'
<1>1. /\ LoadFails(s) \/ Store(s) \/ StoreFails(s)
      /\ UNCHANGED process /\ TypeOK /\ ServerTypeOK
  BY DEF LimiterFails, LimiterDecides, ServerInv, ServerTypeOK
<1>2. /\ \A t \in Slots \ {s} : pc'[t] = pc[t] /\ req'[t] = req[t]
      /\ pc[s] # "idle" /\ pc'[s] = "idle"
  BY <1>1, LimiterReturns
<1>3. TypeOK'
  BY <1>1, TypeStep DEF Next, Undisturbed
<1>4. Busy(s) /\ call[s].stage = "limit"
  BY <1>1, <1>2, AtLimit DEF At
<1>5. call[s] \in Call /\ main \in {"serve", "drain"} /\ Good(call[s])
  BY <1>1, <1>4, Serves DEF ServerInv, CallsGood
<1>a. ASSUME NEW c \in Call, Good(c), c.stage # "limit", call' = [call EXCEPT ![s] = c]
      PROVE  ServerInv'
  <2>1. ServerTypeOK' /\ CallsGood'
    BY <1>1, <1>2, <1>3, <1>5, <1>a, Replace DEF ServerInv
  <2>2. call'[s] = c /\ \A t \in Slots \ {s} : call'[t] = call[t]
    BY <1>1, <1>a DEF ServerTypeOK
  <2>3. KeyKept'
    BY <1>2, <1>a, <2>2, KeyStep DEF ServerInv, At
  <2> QED
    BY <2>1, <2>3 DEF ServerInv
<1>0. /\ call[s].sent = None /\ call[s].line = None /\ call[s].panicked = FALSE
      /\ call[s].target = "me" => call[s].entitled = TRUE
  BY <1>4, <1>5 DEF Good
<1>b. ASSUME NEW v \in {"admitted", "failed"}
      PROVE  LET c == [call[s] EXCEPT !.verdict = v, !.stage = "handle"]
             IN  c \in Call /\ Good(c) /\ c.stage # "limit"
  <2> DEFINE c == [call[s] EXCEPT !.verdict = v, !.stage = "handle"]
  <2>1. /\ c \in Call /\ c.stage = "handle" /\ c.verdict = v /\ c.line = None
        /\ c.sent = None /\ c.panicked = FALSE /\ c.target = call[s].target
        /\ c.entitled = call[s].entitled
    BY <1>0, <1>5 DEF Call
  <2> HIDE DEF c
  <2>2. Good(c) /\ c.stage # "limit"
    BY <1>0, <2>1 DEF Good, None
  <2> QED
    BY <2>1, <2>2 DEF c
<1>6. CASE LimiterFails(s)
  <2>1. call' = [call EXCEPT ![s] = [call[s] EXCEPT !.verdict = "failed", !.stage = "handle"]]
    BY <1>1, <1>6 DEF LimiterFails, ServerTypeOK
  <2> QED
    BY <1>a, <1>b, <2>1
<1>7. CASE LimiterDecides(s)
  <2>1. CASE req[s].allowed
    <3>1. call' = [call EXCEPT ![s] =
                     [call[s] EXCEPT !.verdict = "admitted", !.stage = "handle"]]
      BY <1>1, <1>7, <2>1 DEF LimiterDecides, ServerTypeOK
    <3> QED
      BY <1>a, <1>b, <3>1
  <2>2. CASE ~req[s].allowed
    <3> DEFINE c == [call[s] EXCEPT !.verdict = "refused"]
    <3>1. call' = [call EXCEPT ![s] = Answer(c, 429)]
      BY <1>1, <1>7, <2>2 DEF LimiterDecides, ServerTypeOK
    <3>2. /\ c \in Call /\ c.verdict = "refused" /\ c.sent = None
          /\ c.panicked = FALSE
          /\ c.target = call[s].target /\ c.entitled = call[s].entitled
      BY <1>0, <1>5 DEF Call
    <3> HIDE DEF c
    <3>3. /\ Answer(c, 429) \in Call /\ Good(Answer(c, 429))
          /\ Answer(c, 429).stage # "limit"
      <4>1. 429 \in Statuses
        BY StatusesUsed
      <4>2. Fits(c, 429)
        BY <1>0, <3>2 DEF Fits
      <4> QED
        BY <3>2, <4>1, <4>2, GoodAnswer, ZenonT(40)
    <3> QED
      BY <1>a, <3>1, <3>3
  <2> QED
    BY <2>1, <2>2
<1> QED
  BY <1>6, <1>7

LEMMA FinishStep ==
  ASSUME ServerInv, NEW s \in Slots, Finish(s) PROVE ServerInv'
<1>1. /\ At(s, "answered") /\ UNCHANGED vars /\ UNCHANGED process
      /\ call' = [call EXCEPT ![s] = NoCall] /\ ServerTypeOK /\ TypeOK
  BY DEF Finish, ServerInv, ServerTypeOK
<1>2. pc[s] = "idle"
  BY <1>1, IdleUnlessLimit DEF At
<1>3. call'[s] = NoCall /\ \A t \in Slots \ {s} : call'[t] = call[t]
  BY <1>1 DEF ServerTypeOK
<1>4. TypeOK'
  BY <1>1 DEF TypeOK, vars
<1>5. ServerTypeOK'
  BY <1>1, <1>2, <1>3, <1>4 DEF ServerTypeOK, At, Busy, process, vars
<1>6. CallsGood' /\ KeyKept'
  BY <1>1, <1>3 DEF ServerInv, CallsGood, KeyKept, At, Busy, vars
<1> QED
  BY <1>5, <1>6 DEF ServerInv

\* main, the listening goroutine, time.
LEMMA ProcessStep ==
  ASSUME ServerInv, UNCHANGED call,
         \/ BootStep \/ Listen \/ ServeClosed \/ Interrupt
         \/ Time \/ UNCHANGED svars
  PROVE  ServerInv'
<1>1. UNCHANGED <<pc, req>> /\ TypeOK /\ ServerTypeOK
  BY DEF BootStep, Listen, ServeClosed, Interrupt, Time, Tick, Slew, svars, vars,
         ServerInv, ServerTypeOK
<1>2. TypeOK'
  BY <1>1, LimiterTypeStep DEF ServerNext
<1>3. CallsGood' /\ KeyKept'
  BY <1>1 DEF ServerInv, CallsGood, KeyKept, At, Busy
<1>4. /\ main' \in Booting \cup {"serve", "drain", "gone"}
      /\ status' \in {"alive", "ok", "late", "error", "killed"}
      /\ listener' \in {"new", "open", "closed", "never"}
      /\ main' \notin {"serve", "drain"} => main \notin {"serve", "drain"}
  BY <1>1 DEF BootStep, Listen, ServeClosed, Interrupt, Time, process, svars,
              ServerTypeOK, Booting
<1>5. ServerTypeOK'
  BY <1>1, <1>2, <1>4 DEF ServerTypeOK, At, Busy
<1> QED
  BY <1>3, <1>5 DEF ServerInv

LEMMA ExitStep ==
  ASSUME ServerInv, NEW how \in {"ok", "late", "error", "killed"}, Exit(how)
  PROVE  ServerInv'
<1>1. TypeOK'
  BY TypeAtExit DEF ServerInv, ServerTypeOK
<1>2. \A s \in Slots : pc'[s] = "idle" /\ call'[s] = NoCall
  BY DEF Exit
<1>3. call' \in [Slots -> Call \cup {NoCall}]
  BY DEF Exit
<1>4. ServerTypeOK'
  BY <1>1, <1>2, <1>3 DEF Exit, ServerTypeOK, At, Busy
<1>5. CallsGood' /\ KeyKept'
  BY <1>2 DEF CallsGood, KeyKept, At, Busy
<1> QED
  BY <1>4, <1>5 DEF ServerInv

LEMMA ServerInvStep == ServerInv /\ [ServerNext]_svars => ServerInv'
<1> SUFFICES ASSUME ServerInv, [ServerNext]_svars PROVE ServerInv'
  OBVIOUS
<1>1. CASE BootFails \/ ServeFails \/ ShutDown \/ GraceExpires \/ Killed
  BY <1>1, ExitStep DEF BootFails, ServeFails, ShutDown, GraceExpires, Killed
<1>2. CASE BootStep \/ Listen \/ ServeClosed \/ Interrupt \/ Time \/ UNCHANGED svars
  <2>1. UNCHANGED call
    BY <1>2 DEF BootStep, Listen, ServeClosed, Interrupt, Time, svars
  <2> QED
    BY <1>2, <2>1, ProcessStep
<1>3. ASSUME NEW s \in Slots,
             Preflight(s) \/ NotFound(s) \/ Ping(s)
             \/ \E t \in Tokens \cup {NoToken} : GetMe(s, t)
      PROVE  ServerInv'
  BY <1>3, StartStep
<1>4. ASSUME NEW s \in Slots, WaitForMutex(s) \/ Handle(s) PROVE ServerInv'
  BY <1>4, LimiterWorks, LimiterAnswers, HandlerStep, FinishStep DEF Handle
<1>5. ASSUME NEW s \in Slots, HandlePing(s) \/ HandlerPanics(s) PROVE ServerInv'
  BY <1>5, HandlerStep
<1> QED
  BY <1>1, <1>2, <1>3, <1>4, <1>5 DEF ServerNext

LEMMA ServerInvariant == ServerSpec => []ServerInv
<1> QED
  BY ServerInvInit, ServerInvStep, PTL DEF ServerSpec

-----------------------------------------------------------------------------
(* Theorems                                                                  *)

\* Server and limiter keep their types, the limiter has exactly the requests
\* that are at it, and a process that is booting or gone serves nobody.
THEOREM ServerTypeCorrect == ServerSpec => []ServerTypeOK
<1>1. ServerInv => ServerTypeOK
  BY DEF ServerInv
<1> QED
  BY <1>1, ServerInvariant, PTL

\* Authentication, scope and quota come in this order and nothing skips one.
THEOREM OrderSafe == ServerSpec => []ServedInOrder
<1>1. ServerInv => ServedInOrder
  BY DEF ServerInv, ServedInOrder, CallsGood, KeyKept, Good, At
<1> QED
  BY <1>1, ServerInvariant, PTL

\* The access log agrees with the wire on every request whose handler returned.
THEOREM LinesSafe == ServerSpec => []LinesOfReturned
<1>1. ServerInv => LinesOfReturned
  BY DEF ServerInv, LinesOfReturned, CallsGood, Good, At
<1> QED
  BY <1>1, ServerInvariant, PTL

\* A drain ends early only by a signal.
THEOREM DrainSafe == ServerSpec => DrainCutsNobodyEarly
<1>1. [ServerNext]_svars =>
        [(main = "drain" /\ main' = "gone" /\ \E s \in Slots : Busy(s))
           => status' \in {"late", "killed"}]_svars
  <2> SUFFICES ASSUME ServerNext, main = "drain", main' = "gone",
                      NEW s \in Slots, Busy(s)
               PROVE  status' \in {"late", "killed"}
    OBVIOUS
  <2>1. ~BootFails /\ ~ServeFails /\ ~ShutDown
    BY DEF BootFails, ServeFails, ShutDown, Booting
  <2>2. GraceExpires \/ Killed => status' \in {"late", "killed"}
    BY DEF GraceExpires, Killed, Exit
  <2>3. ~BootStep /\ ~Listen /\ ~ServeClosed /\ ~Interrupt /\ ~Time
    BY DEF BootStep, Listen, ServeClosed, Interrupt, Time, process, Booting
  <2>4. ASSUME NEW t \in Slots
        PROVE  /\ ~Preflight(t) /\ ~NotFound(t) /\ ~Ping(t) /\ ~WaitForMutex(t)
               /\ ~Handle(t) /\ ~HandlePing(t) /\ ~HandlerPanics(t)
               /\ \A u \in Tokens \cup {NoToken} : ~GetMe(t, u)
    BY DEF Preflight, NotFound, Ping, GetMe, Start, WaitForMutex, Handle, InLimiter,
           LimiterFails, LimiterDecides, HandleMe, HandlePing, HandlerPanics, Finish,
           process
  <2> QED
    BY <2>1, <2>2, <2>3, <2>4 DEF ServerNext
<1> QED
  BY <1>1, PTL DEF ServerSpec, DrainCutsNobodyEarly
=============================================================================
