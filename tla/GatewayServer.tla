----------------------------- MODULE GatewayServer -----------------------------
(***************************************************************************)
(* cmd/server: one life of the gateway process.  main boots, a goroutine   *)
(* listens, every request runs in a goroutine through                      *)
(*   Recovery, Trace, AccessLog, CORS | mux | Authenticate, RequireScope,  *)
(*   RateLimit | handler                                                   *)
(* and an interrupt starts http.Server.Shutdown, which waits ten seconds   *)
(* for the requests in flight.  cmd/auth has the same chain, mux and life  *)
(* without the part from Authenticate to RateLimit.                        *)
(*                                                                         *)
(* The limiter is RateLimiter, step by step: a request is in its hands     *)
(* while pc[s] # "idle".  Everything before it only reads the request, the *)
(* claims and the clock and is one step; so is the handler and the way     *)
(* back out.  The ten seconds of a drain are an event that may come at any *)
(* time, since no handler is bounded: WriteTimeout only fails writes.  A   *)
(* handler may panic, and the database may keep a health check waiting for *)
(* ever.                                                                   *)
(***************************************************************************)
EXTENDS RateLimiter

CONSTANTS
  Tokens,   \* bearer tokens clients hold
  NoToken,  \* no, or a malformed, Authorization header
  Claims,   \* Claims[t]: what a token says, and whether its signature is good
  Me,       \* the route /me
  Panics,   \* handlers may panic
  NoCall

Booting == {"open", "migrate", "key", "policy", "mount"}
Targets == {"me", "ping", "preflight", "unknown"}
Statuses == {200, 204, 401, 403, 404, 429, 500, 503}
None == 0

ASSUME GatewayServerAssumption ==
  /\ NoToken \notin Tokens
  /\ "" \notin Callers
  /\ Claims \in [Tokens -> [genuine : BOOLEAN, sub : Callers \cup {""},
                            scopes : SUBSET {"read", "write", "admin"}, exp : Int]]
  /\ Me \in Routes
  /\ Panics \in BOOLEAN

VARIABLES
  main,      \* where main is: booting, "serve", "drain" or "gone"
  status,    \* "alive", or how the process ended: "ok", "late" (main returned,
             \* after an error of Shutdown), "error" (os.Exit(1)), "killed"
  listener,  \* the goroutine: "new", "open" (Serve), "closed", "never" (opened)
  call       \* call[s]: the request of slot s, or NoCall

process == <<main, status, listener>>
svars == <<vars, process, call>>

\* sent: the status on the wire; seen: the one AccessLog's writer saw; line: the
\* one logged; verdict: what the limiter said.  History: whether the client was
\* entitled when it came, and whether its handler panicked.
Call == [stage : {"limit", "handle", "answered"},
         target : Targets, user : Callers \cup {""}, entitled : BOOLEAN,
         verdict : {"none", "admitted", "refused", "failed"},
         sent : Statuses \cup {None}, seen : Statuses, line : Statuses \cup {None},
         panicked : BOOLEAN]

ASSUME NoCallAssumption == NoCall \notin Call

\* statusCode starts as 200.
NewCall == [stage |-> "handle", target |-> "ping", user |-> "", entitled |-> FALSE,
            verdict |-> "none", sent |-> None, seen |-> 200, line |-> None,
            panicked |-> FALSE]

Busy(s) == call[s] # NoCall
At(s, stage) == Busy(s) /\ call[s].stage = stage

\* WriteHeader on AccessLog's writer: the last status is seen, the first is sent.
Wrote(c, code) == [c EXCEPT !.seen = code, !.sent = IF @ = None THEN code ELSE @]

\* Mutant: next is given the writer AccessLog got, not its own.
LoggedUnwrapped(c) == [c EXCEPT !.line = 200, !.stage = "answered"]

\* AccessLog's line, once next has returned.
Logged(c) == [c EXCEPT !.line = c.seen, !.stage = "answered"]

\* Recovery, outside Trace and AccessLog: 500 unless a header is out already.
Recovered(c) ==
  [c EXCEPT !.sent = IF @ = None THEN 500 ELSE @, !.panicked = TRUE, !.stage = "answered"]

Answer(c, code) == Logged(Wrote(c, code))

ServerInit ==
  /\ Init
  /\ main = "open"
  /\ status = "alive"
  /\ listener = "new"
  /\ call = [s \in Slots |-> NoCall]
-----------------------------------------------------------------------------
(* main and the listening goroutine *)

BootStep ==
  /\ main \in Booting
  /\ main' = CASE main = "open" -> "migrate"
               [] main = "migrate" -> "key"
               [] main = "key" -> "policy"
               [] main = "policy" -> "mount"
               [] main = "mount" -> "serve"
  /\ UNCHANGED <<vars, status, listener, call>>

\* The process ends and its memory with it, requests included.
Exit(how) ==
  /\ main' = "gone" /\ status' = how /\ listener' = "closed"
  /\ call' = [s \in Slots |-> NoCall]
  /\ cell' = [b \in Scopes \X Keys |-> NoEntry]
  /\ mu' = NoSlot
  /\ pc' = [s \in Slots |-> "idle"]
  /\ req' = [s \in Slots |-> NoRequest]
  /\ UNCHANGED <<clock, slew, level>>

\* Every step may fail but the policy's: lookupRateLimitPolicy has a default.
BootFails == main \in Booting \ {"policy"} /\ Exit("error")

\* ListenAndServe: at once ErrServerClosed if Shutdown came first.
Listen ==
  /\ main \in {"serve", "drain"} /\ listener = "new"
  /\ listener' = IF main = "serve" THEN "open" ELSE "never"
  /\ UNCHANGED <<vars, main, status, call>>

\* No port, or an error of Accept, while the server is not shutting down.
ServeFails == main = "serve" /\ listener \in {"new", "open"} /\ Exit("error")

\* Mutant: ErrServerClosed is not told from an error.
ServeClosedExits == main = "drain" /\ listener = "open" /\ Exit("error")

\* Shutdown has closed the listener: Serve returns ErrServerClosed, no exit.
ServeClosed ==
  /\ main = "drain" /\ listener = "open"
  /\ listener' = "closed"
  /\ UNCHANGED <<vars, main, status, call>>

\* os.Interrupt: Shutdown is called with a context of ten seconds.
Interrupt ==
  /\ main = "serve"
  /\ main' = "drain"
  /\ UNCHANGED <<vars, status, listener, call>>

\* Shutdown returns when nobody is served any more, and main with it.
ShutDown ==
  /\ main = "drain"
  /\ \A s \in Slots : ~Busy(s)
  /\ Exit("ok")

\* Mutant: the context of Shutdown has no deadline.
GraceNever == FALSE /\ UNCHANGED svars

\* The ten seconds are over: Shutdown and main return, whoever is still served.
GraceExpires == main = "drain" /\ Exit("late")

\* Any other signal or crash, and an interrupt that comes before NotifyContext.
Killed == main # "gone" /\ Exit("killed")
-----------------------------------------------------------------------------
(* Requests *)

\* A drain still serves what comes in on connections accepted before it.
Start(s, c) ==
  /\ ~Busy(s)
  /\ \/ main = "serve" /\ listener = "open"
     \/ main = "drain" /\ listener \in {"open", "closed"}
  /\ call' = [call EXCEPT ![s] = c]
  /\ UNCHANGED process

\* CORS answers OPTIONS itself: 204.
Preflight(s) ==
  /\ Start(s, Answer([NewCall EXCEPT !.target = "preflight"], 204))
  /\ UNCHANGED vars

\* A path the mux does not know.
NotFound(s) ==
  /\ Start(s, Answer([NewCall EXCEPT !.target = "unknown"], 404))
  /\ UNCHANGED vars

Ping(s) == Start(s, NewCall) /\ UNCHANGED vars

\* ExtractBearerToken and JWTManager.Verify, with jwt's own clock.
Verify(t) ==
  /\ t # NoToken
  /\ Claims[t].genuine
  /\ Wall < Claims[t].exp
  /\ Claims[t].sub # ""

\* Mutant: any scope will do.
HasAnyScope(t) == Claims[t].scopes # {}

\* RequireScope(read); admin stands for every scope.
HasScope(t) == "read" \in Claims[t].scopes \/ "admin" \in Claims[t].scopes

\* What auth.go, scope.go and the routes of main promise of a client that is served.
Entitled(t) ==
  t \in {u \in Tokens : /\ Claims[u].genuine /\ Wall < Claims[u].exp
                        /\ Claims[u].sub \in Callers
                        /\ Claims[u].scopes \cap {"read", "admin"} # {}}

\* GET /me: 401, 403 or on to the limiter.
GetMe(s, t) ==
  LET c == [NewCall EXCEPT !.target = "me", !.entitled = Entitled(t)] IN
  IF ~Verify(t) THEN Start(s, Answer(c, 401)) /\ UNCHANGED vars
  ELSE IF ~HasScope(t) THEN Start(s, Answer(c, 403)) /\ UNCHANGED vars
  ELSE /\ Start(s, [c EXCEPT !.stage = "limit", !.user = Claims[t].sub])
       /\ Arrive(s, Claims[t].sub, Me)

\* Inside Allow.
InLimiter(s) ==
  /\ Load(s) \/ Take(s) \/ Stamp(s)
  /\ UNCHANGED <<process, call>>

WaitForMutex(s) == Lock(s) /\ UNCHANGED <<process, call>>

\* Mutant: the error branch returns without calling next.
LimiterFailsSilently(s) == LoadFails(s) /\ UNCHANGED <<process, call>>

\* An error of the limiter: fail open.
LimiterFails(s) ==
  /\ LoadFails(s)
  /\ call' = [call EXCEPT ![s].verdict = "failed", ![s].stage = "handle"]
  /\ UNCHANGED process

\* Allow has returned: the handler, or 429.
LimiterDecides(s) ==
  /\ Store(s) \/ StoreFails(s)
  /\ call' = [call EXCEPT ![s] =
       IF req[s].allowed THEN [@ EXCEPT !.verdict = "admitted", !.stage = "handle"]
       ELSE Answer([@ EXCEPT !.verdict = "refused"], 429)]
  /\ UNCHANGED process

\* Me answers 200, with the principal of the context.
HandleMe(s) ==
  /\ At(s, "handle") /\ call[s].target = "me"
  /\ call' = [call EXCEPT ![s] = Answer(@, 200)]
  /\ UNCHANGED <<vars, process>>

\* HealthCheck: as the database answers, if it does.
HandlePing(s) ==
  /\ At(s, "handle") /\ call[s].target = "ping"
  /\ \E code \in {200, 503} : call' = [call EXCEPT ![s] = Answer(@, code)]
  /\ UNCHANGED <<vars, process>>

\* A handler panics before or after it wrote its header.
HandlerPanics(s) ==
  /\ Panics /\ At(s, "handle")
  /\ \E c \in {call[s], Wrote(call[s], 200)} :
       call' = [call EXCEPT ![s] = Recovered(c)]
  /\ UNCHANGED <<vars, process>>

\* net/http ends the response.
Finish(s) ==
  /\ At(s, "answered")
  /\ call' = [call EXCEPT ![s] = NoCall]
  /\ UNCHANGED <<vars, process>>
-----------------------------------------------------------------------------
Handle(s) ==
  InLimiter(s) \/ LimiterFails(s) \/ LimiterDecides(s) \/ HandleMe(s)
  \/ Finish(s)

Time == (Tick \/ Slew) /\ main # "gone" /\ UNCHANGED <<process, call>>

ServerNext ==
  \/ BootStep \/ BootFails \/ Listen \/ ServeFails \/ ServeClosed
  \/ Interrupt \/ ShutDown \/ GraceExpires \/ Killed
  \/ \E s \in Slots :
       \/ Preflight(s) \/ NotFound(s) \/ Ping(s)
       \/ \E t \in Tokens \cup {NoToken} : GetMe(s, t)
       \/ WaitForMutex(s) \/ Handle(s) \/ HandlePing(s) \/ HandlerPanics(s)
  \/ Time

ServerSpec == ServerInit /\ [][ServerNext]_svars

\* Goroutines run, sync.Mutex starves nobody for ever, and the timer of Shutdown's
\* context fires.  Nothing bounds a ping of the database, and no signal need come.
FairServerSpec ==
  /\ ServerSpec
  /\ WF_svars(GraceExpires)
  /\ \A s \in Slots : WF_svars(Handle(s)) /\ SF_svars(WaitForMutex(s))
-----------------------------------------------------------------------------
(* Properties *)

\* The limiter's state is typed, the limiter is busy with exactly the requests
\* that are at it, and a process that is gone serves nobody.
ServerTypeOK ==
  /\ TypeOK
  /\ main \in Booting \cup {"serve", "drain", "gone"}
  /\ status \in {"alive", "ok", "late", "error", "killed"}
  /\ listener \in {"new", "open", "closed", "never"}
  /\ call \in [Slots -> Call \cup {NoCall}]
  /\ \A s \in Slots : pc[s] # "idle" <=> At(s, "limit")
  /\ main \notin {"serve", "drain"} => \A s \in Slots : ~Busy(s)

\* auth.go:39 tells 401 from 403, ratelimit.go:19 wants the caller authenticated
\* before the limiter is asked: only entitled clients reach the limiter, each under
\* its own name, and /me is only handled for those it admitted or could not judge.
ServedInOrder ==
  \A s \in Slots : Busy(s) /\ call[s].target = "me" =>
    /\ call[s].stage = "limit" => req[s].key = ScopeKey(call[s].user, Me, Scope[PolicyOf[Me]])
    /\ call[s].stage = "limit" \/ call[s].verdict # "none" => call[s].entitled
    /\ call[s].stage = "handle" => call[s].verdict \in {"admitted", "failed"}
    /\ call[s].sent = 429 => call[s].verdict = "refused"
    /\ call[s].sent \in {401, 403} => ~call[s].entitled

\* The line of a request whose handler returned tells what went over the wire,
\* whoever wrote it: a middleware, the mux, the handler or net/http.
LinesOfReturned ==
  \A s \in Slots : At(s, "answered") /\ ~call[s].panicked =>
    call[s].sent # None /\ call[s].line = call[s].sent

\* accesslog.go:21 "AccessLog records the access information of every request":
\* a request that was answered has a line, with the status that was sent.
LinesTellAnswers ==
  \A s \in Slots : At(s, "answered") => call[s].line = call[s].sent

\* A shutdown cuts nobody off before its ten seconds are over, whatever the
\* listening goroutine does meanwhile; afterwards main leaves while they run.
DrainCutsNobodyEarly ==
  [][(main = "drain" /\ main' = "gone" /\ \E s \in Slots : Busy(s))
       => status' \in {"late", "killed"}]_svars

\* Every /me in flight is answered as long as the process lives, fail-open and
\* panics included, and an interrupt ends the process although nothing bounds a
\* health check.
AnsweredAndStopped ==
  /\ \A s \in Slots : (Busy(s) /\ call[s].target = "me") ~> (~Busy(s))
  /\ main = "drain" ~> main = "gone"
=============================================================================
