----------------------------- MODULE TokenHandler -----------------------------
(***************************************************************************)
(* internal/handler/token.go with internal/auth and internal/persistence/  *)
(* repo: POST /token, /refresh and /revoke of the authentication service.  *)
(*                                                                         *)
(* A slot is a goroutine serving one request at a time, in any instance of *)
(* the service (they share the database).  Each action is one database     *)
(* statement together with the local code up to the next one, since no     *)
(* handler opens a transaction: other requests run between a handler's     *)
(* statements, on whatever copy of the row it read.  With Faults a         *)
(* statement may fail or take effect and lose its answer, a process may    *)
(* die between statements, and a response may never reach the client.      *)
(*                                                                         *)
(* An element of Tokens is a plaintext GenerateRefreshToken may draw; the  *)
(* row is indexed by it, as token_hash is unique and SHA-256 is taken to   *)
(* be injective.  Requests turned away with 400 before the first statement *)
(* (malformed body, wrong grant_type, empty field) change nothing and are  *)
(* left out.                                                               *)
(***************************************************************************)
EXTENDS Integers, FiniteSets

CONSTANTS
  Slots,        \* goroutines serving requests
  Users,        \* registered users
  Scopes,       \* scope names a login may ask for
  Tokens,       \* refresh token plaintexts that may be drawn
  NoToken,      \* a plaintext without a row; also the empty string
  NoUser,       \* the empty user id
  NoRow,
  RefreshTTL,   \* refreshTTL
  IDCallbacks,  \* models.RegisterIDCallbacks was called on the connection
  Faults,       \* statements, processes and responses may be lost
  MaxTime       \* bound: last value of the clock

ASSUME TokenHandlerAssumption ==
  /\ NoToken \notin Tokens
  /\ NoUser \notin Users
  /\ RefreshTTL \in Nat
  /\ IDCallbacks \in BOOLEAN
  /\ Faults \in BOOLEAN
  /\ MaxTime \in Nat

VARIABLES
  clock,    \* time.Now
  store,    \* store[t]: the refresh_tokens row with t's hash, or NoRow
  pc,       \* pc[s]: the statement slot s executes next
  req,      \* req[s]: the request slot s serves and its local variables
  signed,   \* access tokens signed: user, scopes, and the refresh token beside
  acked,    \* history: tokens /revoke answered 200 for
  raced     \* history: tokens two refreshes validated before either's save

vars == <<clock, store, pc, req, signed, acked, raced>>

\* models.RefreshToken, without the columns no handler reads back.
Row == [id : Tokens \cup {NoToken}, user : Users \cup {NoUser},
        scopes : SUBSET Scopes, expiresAt : Nat, revoked : BOOLEAN,
        rotatedFrom : Tokens \cup {NoToken}]

ASSUME NoRowAssumption == NoRow \notin Row

\* kind: the endpoint; tok: the plaintext presented; row: the handler's copy;
\* now: the clock as the request read it last; minted: newPlain; late, expired: history, the request came
\* after /revoke of its token was answered 200, after its token expired.
Request == [kind : {"token", "refresh", "revoke"}, tok : Tokens \cup {NoToken},
            row : Row, now : Nat, minted : Tokens \cup {NoToken},
            late : BOOLEAN, expired : BOOLEAN]

Labels == {"idle", "find", "validate", "retire", "mint", "issue"}

BlankRow == [id |-> NoToken, user |-> NoUser, scopes |-> {}, expiresAt |-> 0,
             revoked |-> FALSE, rotatedFrom |-> NoToken]
NoRequest == [kind |-> "token", tok |-> NoToken, row |-> BlankRow, now |-> 0,
              minted |-> NoToken, late |-> FALSE, expired |-> FALSE]

Exists(t) == t \in Tokens /\ store[t] # NoRow
Expired(t) == Exists(t) /\ clock > store[t].expiresAt

\* The id a user's row got when it was registered.
UserID(u) == IF IDCallbacks THEN u ELSE NoUser

Answers == IF Faults THEN {"ok", "fail", "lost"} ELSE {"ok"}

Goto(s, l) == pc' = [pc EXCEPT ![s] = l]

\* The handler returns; its locals are gone.
Return(s) == Goto(s, "idle") /\ req' = [req EXCEPT ![s] = NoRequest]

Init ==
  /\ clock = 0
  /\ store = [t \in Tokens |-> NoRow]
  /\ pc = [s \in Slots |-> "idle"]
  /\ req = [s \in Slots |-> NoRequest]
  /\ signed = {}
  /\ acked = {}
  /\ raced = {}
-----------------------------------------------------------------------------
(* Requests arrive *)

\* Bound: requests that mint arrive while a plaintext is left for each.
Room ==
  Cardinality({s \in Slots : pc[s] # "idle"})
    < Cardinality({t \in Tokens : store[t] = NoRow})

\* HandleToken up to GetByEmail: parseScopes of the requested scopes.
Login(s, u, sc) ==
  /\ pc[s] = "idle" /\ Room
  /\ Goto(s, "find")
  /\ req' = [req EXCEPT ![s] = [NoRequest EXCEPT
               !.row = [BlankRow EXCEPT !.user = UserID(u), !.scopes = sc]]]
  /\ UNCHANGED <<clock, store, signed, acked, raced>>

\* The plaintexts clients were sent; any other matches no row.
Wallet == {j.beside : j \in signed}

\* HandleRefresh or HandleRevoke up to ValidateRefreshToken.
Present(s, k, t) ==
  /\ pc[s] = "idle" /\ (k = "refresh" => Room)
  /\ Goto(s, "validate")
  /\ req' = [req EXCEPT ![s] = [NoRequest EXCEPT
               !.kind = k, !.tok = t, !.late = t \in acked,
               !.expired = Expired(t)]]
  /\ UNCHANGED <<clock, store, signed, acked, raced>>
-----------------------------------------------------------------------------
(* Handlers *)

\* GetByEmail, VerifyPassword and h.now(); every failure is the same 401.
FindUser(s) ==
  /\ pc[s] = "find"
  /\ \/ Goto(s, "mint") /\ req' = [req EXCEPT ![s].now = clock]
     \/ Return(s)
  /\ UNCHANGED <<clock, store, signed, acked, raced>>

\* Mutant: the test of revoked_at is missing.
AcceptsRevoked(s) ==
  LET t == req[s].tok IN
  /\ pc[s] = "validate"
  /\ Exists(t) /\ clock <= store[t].expiresAt
  /\ Goto(s, "retire")
  /\ req' = [req EXCEPT ![s].row = store[t], ![s].now = clock]
  /\ UNCHANGED <<clock, store, signed, acked, raced>>

\* Mutant: the test of expires_at is missing.
AcceptsExpired(s) ==
  LET t == req[s].tok IN
  /\ pc[s] = "validate"
  /\ Exists(t) /\ ~store[t].revoked
  /\ Goto(s, "retire")
  /\ req' = [req EXCEPT ![s].row = store[t], ![s].now = clock]
  /\ UNCHANGED <<clock, store, signed, acked, raced>>

\* A refresh between its validation of t and its save of t.
Saving(q, t) ==
  pc[q] = "retire" /\ req[q].kind = "refresh" /\ req[q].tok = t

\* ValidateRefreshToken returns the row: it has not expired by time.Now().
ValidateAccepts(s) ==
  LET t == req[s].tok IN
  /\ pc[s] = "validate"
  /\ Exists(t) /\ ~store[t].revoked /\ clock <= store[t].expiresAt
  /\ Goto(s, "retire")
  /\ req' = [req EXCEPT ![s].row = store[t], ![s].now = clock]
  /\ raced' = IF req[s].kind = "refresh" /\ \E q \in Slots : Saving(q, t)
                THEN raced \cup {t} ELSE raced
  /\ UNCHANGED <<clock, store, signed, acked>>

\* Mutant: /revoke answers every validation error with 200.
RejectsWithOK(s) ==
  LET t == req[s].tok IN
  /\ pc[s] = "validate"
  /\ Exists(t) => store[t].revoked \/ clock > store[t].expiresAt
  /\ Return(s)
  /\ acked' = IF req[s].kind = "revoke" THEN acked \cup {t} ELSE acked
  /\ UNCHANGED <<clock, store, signed, raced>>

\* Unknown, revoked or expired: 401 or 400, but /revoke of a revoked token
\* is answered 200 like the first time.
ValidateRejects(s) ==
  LET t == req[s].tok IN
  /\ pc[s] = "validate"
  /\ Exists(t) => store[t].revoked \/ clock > store[t].expiresAt
  /\ Return(s)
  /\ acked' = IF req[s].kind = "revoke" /\ Exists(t) /\ store[t].revoked
                THEN acked \cup {t} ELSE acked
  /\ UNCHANGED <<clock, store, signed, raced>>

\* The query fails: reported as an invalid token.
ValidateFails(s) ==
  /\ Faults /\ pc[s] = "validate"
  /\ Return(s)
  /\ UNCHANGED <<clock, store, signed, acked, raced>>

\* Mutant: HandleRefresh does not set RevokedAt before Update saves the copy.
RetireSavesCopy(s) ==
  LET r == req[s] IN
  /\ pc[s] = "retire"
  /\ store' = [store EXCEPT ![r.tok] = [r.row EXCEPT !.revoked = r.kind = "revoke"]]
  /\ IF r.kind = "refresh"
       THEN Goto(s, "mint") /\ UNCHANGED <<req, acked>>
       ELSE Return(s) /\ acked' = acked \cup {r.tok}
  /\ UNCHANGED <<clock, signed, raced>>

\* Mutant: the error of Update is not looked at.
RetireIgnoresError(s) ==
  LET r == req[s] IN
  /\ pc[s] = "retire"
  /\ \E a \in Answers :
       store' = IF a = "fail" THEN store
                ELSE [store EXCEPT ![r.tok] = [r.row EXCEPT !.revoked = TRUE]]
  /\ IF r.kind = "refresh"
       THEN Goto(s, "mint") /\ UNCHANGED <<req, acked>>
       ELSE Return(s) /\ acked' = acked \cup {r.tok}
  /\ UNCHANGED <<clock, signed, raced>>

\* h.now(), read at some moment n since validation read time.Now(); RevokedAt
\* is set on the copy and Update saves every column of it.  GORM's Save of a
\* row without a primary key is an INSERT, which meets itself.
Retire(s) ==
  LET r == req[s]
      saved == r.row.id # NoToken
  IN
  /\ pc[s] = "retire"
  /\ \E a \in Answers :
       /\ IF saved /\ a # "fail"
            THEN store' = [store EXCEPT ![r.tok] = [r.row EXCEPT !.revoked = TRUE]]
            ELSE UNCHANGED store
       /\ IF saved /\ a = "ok" /\ r.kind = "refresh"
            THEN /\ Goto(s, "mint")
                 /\ \E n \in r.now .. clock : req' = [req EXCEPT ![s].now = n]
            ELSE Return(s)
       /\ acked' = IF saved /\ a = "ok" /\ r.kind = "revoke"
                     THEN acked \cup {r.tok} ELSE acked
  /\ UNCHANGED <<clock, signed, raced>>

\* The row issueTokens and HandleRefresh create; id by the create callback.
NewRow(s, t) ==
  LET r == req[s] IN
  [id |-> IF IDCallbacks THEN t ELSE NoToken,
   user |-> r.row.user,
   scopes |-> r.row.scopes,
   expiresAt |-> r.now + RefreshTTL,
   revoked |-> FALSE,
   rotatedFrom |-> IF r.kind = "refresh" THEN r.row.id ELSE NoToken]

\* Mutant: the error of Create is not looked at.
MintIgnoresError(s) ==
  /\ pc[s] = "mint"
  /\ \E t \in Tokens, a \in Answers :
       /\ store[t] = NoRow
       /\ store' = IF a = "fail" THEN store ELSE [store EXCEPT ![t] = NewRow(s, t)]
       /\ Goto(s, "issue") /\ req' = [req EXCEPT ![s].minted = t]
  /\ UNCHANGED <<clock, signed, acked, raced>>

\* GenerateRefreshToken, then Create: an INSERT under the primary key.
Mint(s) ==
  /\ pc[s] = "mint"
  /\ \E t \in Tokens, a \in Answers :
       LET inserted == ~\E o \in Tokens : Exists(o) /\ store[o].id = NewRow(s, t).id
       IN
       /\ store[t] = NoRow
       /\ store' = IF inserted /\ a # "fail"
                     THEN [store EXCEPT ![t] = NewRow(s, t)] ELSE store
       /\ IF inserted /\ a = "ok"
            THEN Goto(s, "issue") /\ req' = [req EXCEPT ![s].minted = t]
            ELSE Return(s)
  /\ UNCHANGED <<clock, signed, acked, raced>>

\* Mutant: the access token is signed for every scope there is.
IssueAllScopes(s) ==
  LET r == req[s] IN
  /\ pc[s] = "issue"
  /\ signed' = signed \cup
       {[sub |-> r.row.user, scopes |-> Scopes, beside |-> r.minted]}
  /\ Return(s)
  /\ UNCHANGED <<clock, store, acked, raced>>

\* JWTManager.Issue and the response; a client that does not get it presents
\* the old token again, or none.
Issue(s) ==
  LET r == req[s] IN
  /\ pc[s] = "issue"
  /\ signed' = signed \cup
       {[sub |-> r.row.user, scopes |-> r.row.scopes, beside |-> r.minted]}
  /\ Return(s)
  /\ UNCHANGED <<clock, store, acked, raced>>
-----------------------------------------------------------------------------
\* The process dies, or the client is gone before the next statement.
Crash(s) ==
  /\ Faults /\ pc[s] # "idle"
  /\ Return(s)
  /\ UNCHANGED <<clock, store, signed, acked, raced>>

Tick ==
  /\ clock < MaxTime
  /\ clock' = clock + 1
  /\ UNCHANGED <<store, pc, req, signed, acked, raced>>

Arrive(s) ==
  \/ \E u \in Users, sc \in SUBSET Scopes : Login(s, u, sc)
  \/ \E k \in {"refresh", "revoke"}, t \in Wallet \cup {NoToken} : Present(s, k, t)

Step(s) ==
  \/ FindUser(s) \/ ValidateAccepts(s) \/ ValidateRejects(s) \/ ValidateFails(s)
  \/ Retire(s) \/ Mint(s) \/ Issue(s)

Next ==
  \/ \E s \in Slots : Arrive(s) \/ Step(s) \/ Crash(s)
  \/ Tick

Spec == Init /\ [][Next]_vars
-----------------------------------------------------------------------------
(* Properties *)

TypeOK ==
  /\ clock \in Nat
  /\ store \in [Tokens -> Row \cup {NoRow}]
  /\ pc \in [Slots -> Labels]
  /\ req \in [Slots -> Request]
  /\ signed \subseteq [sub : Users \cup {NoUser}, scopes : SUBSET Scopes,
                       beside : Tokens]
  /\ acked \subseteq Tokens
  /\ raced \subseteq Tokens

\* A revoked row stays revoked: no request saves a copy it read before the
\* revocation over it, and no row disappears.
RevocationPermanent ==
  [][\A t \in Tokens : Exists(t) /\ store[t].revoked
       => store'[t] # NoRow /\ store'[t].revoked]_vars

\* A token with rotated_from was created after its predecessor was revoked,
\* and carries exactly that predecessor's user and scopes.
LineageInherits ==
  \A p, c \in Tokens :
    Exists(c) /\ store[c].rotatedFrom = p =>
      /\ p # c /\ Exists(p) /\ store[p].revoked
      /\ store[c].user = store[p].user
      /\ store[c].scopes = store[p].scopes

\* Sessions slide forward, by at most refreshTTL from now, and only for
\* requests that came before the token expired.  Expiry is judged by one
\* reading of the clock and the new one counted from a later one, so a
\* refresh that passed at the last moment may be prolonged from after expiry;
\* one that came after expiry never gets past validation.
RenewedInTime ==
  /\ \A p, c \in Tokens :
       Exists(c) /\ store[c].rotatedFrom = p =>
         Exists(p) /\ store[p].expiresAt <= store[c].expiresAt
  /\ \A t \in Tokens : Exists(t) => store[t].expiresAt <= clock + RefreshTTL
  /\ \A s \in Slots : req[s].expired => pc[s] = "validate"

\* A request that arrives after /revoke was answered 200 never gets past
\* ValidateRefreshToken, whatever failed or was lost on the way.
LateRequestsStopped ==
  \A s \in Slots : req[s].late => pc[s] = "validate"

\* An answer 200 to /revoke means that the row is revoked, even when the
\* answer came from the idempotent branch of another request.
AckMeansRevoked == \A t \in acked : Exists(t) /\ store[t].revoked

\* Every access token ever signed has a refresh token row beside it for the
\* same user and scopes: no statement that failed is followed by a signature.
SignedBesideRow ==
  \A j \in signed :
    /\ Exists(j.beside)
    /\ store[j.beside].user = j.sub
    /\ store[j.beside].scopes = j.scopes

Siblings(c, d) ==
  /\ c # d /\ Exists(c) /\ Exists(d)
  /\ store[c].rotatedFrom = store[d].rotatedFrom
  /\ store[c].rotatedFrom # NoToken

\* A token gets a second successor only when two refreshes of it validated
\* before either had saved it: no retry after a fault, no crash and no other
\* interleaving lets a rotated token be rotated again.
SuccessorsRaced ==
  \A c, d \in Tokens : Siblings(c, d) => store[c].rotatedFrom \in raced

\* token.go:237 "once revoked, the token can at once no longer be redeemed
\* for a new access token".
NoRedeemAfterRevoke ==
  [][\A c \in Tokens : store[c] = NoRow /\ store'[c] # NoRow
       => store'[c].rotatedFrom \notin acked]_vars

\* The promise, and how this module's rows keep it.
Ledger == INSTANCE GrantLedger WITH
  Owners <- [user : Users \cup {NoUser}, scopes : SUBSET Scopes],
  NoOwner <- NoRow,
  state <- [t \in Tokens |-> IF store[t] = NoRow THEN "unborn"
                             ELSE IF store[t].revoked THEN "dead" ELSE "live"],
  owner <- [t \in Tokens |-> IF store[t] = NoRow THEN NoRow ELSE
              [user |-> store[t].user, scopes |-> store[t].scopes]],
  parent <- [t \in Tokens |-> IF store[t] = NoRow THEN NoToken
                              ELSE store[t].rotatedFrom],
  signed <- {[user |-> j.sub, scopes |-> j.scopes] : j \in signed}

\* The handlers implement the ledger, statement by statement.
KeepsLedger == Ledger!Spec
=============================================================================
