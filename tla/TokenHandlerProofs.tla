-------------------------- MODULE TokenHandlerProofs --------------------------
(***************************************************************************)
(* The token endpoints keep their promises for any number of concurrent    *)
(* requests, users, scopes and tokens, whatever fails or is lost.          *)
(*                                                                         *)
(* The properties speak of rows; a row is written from the copy a request  *)
(* read earlier.  So the invariant says what a request between two of its  *)
(* statements knows: that its copy still agrees with the row in everything *)
(* but the revocation mark (CopyAgrees), that the token it rotates is      *)
(* already revoked (RotatesRevoked), that the row it is about to sign      *)
(* beside is there (MintedExists) and that its `now` is no more than       *)
(* RefreshTTL before the expiry it extends (NowInTime).                    *)
(***************************************************************************)
EXTENDS TokenHandler, TLAPS

IdOf(t) == IF IDCallbacks THEN t ELSE NoToken

SameGrant(a, b) == /\ a.id = b.id
                   /\ a.user = b.user
                   /\ a.scopes = b.scopes
                   /\ a.expiresAt = b.expiresAt
                   /\ a.rotatedFrom = b.rotatedFrom

\* Requests that hold a copy of the row of the token presented to them.
HoldsCopy(s) == req[s].kind # "token" /\ pc[s] \in {"retire", "mint", "issue"}

KindFits(s) ==
  /\ req[s].kind = "token" => pc[s] \notin {"validate", "retire"}
  /\ req[s].kind = "refresh" => pc[s] # "find"
  /\ req[s].kind = "revoke" => pc[s] \notin {"find", "mint", "issue"}

CopyAgrees(s) ==
  HoldsCopy(s) => Exists(req[s].tok) /\ SameGrant(req[s].row, store[req[s].tok])

RotatesRevoked(s) ==
  req[s].kind = "refresh" /\ pc[s] \in {"mint", "issue"} => store[req[s].tok].revoked

MintedExists(s) ==
  pc[s] = "issue" =>
    /\ Exists(req[s].minted)
    /\ store[req[s].minted].user = req[s].row.user
    /\ store[req[s].minted].scopes = req[s].row.scopes

NowInTime(s) ==
  /\ req[s].now <= clock
  /\ HoldsCopy(s) => req[s].row.expiresAt <= req[s].now + RefreshTTL

LateAcked(s) == req[s].late => pc[s] = "validate" /\ req[s].tok \in acked

ExpiredWaits(s) == req[s].expired => pc[s] = "validate" /\ Expired(req[s].tok)

SlotInv(s) == /\ KindFits(s) /\ CopyAgrees(s) /\ RotatesRevoked(s)
              /\ MintedExists(s) /\ NowInTime(s) /\ LateAcked(s)
              /\ ExpiredWaits(s)

IdsFit == \A t \in Tokens : Exists(t) => store[t].id = IdOf(t)

ExpiryBounded == \A t \in Tokens : Exists(t) => store[t].expiresAt <= clock + RefreshTTL

SlidesForward ==
  \A p, c \in Tokens :
    Exists(c) /\ store[c].rotatedFrom = p =>
      Exists(p) /\ store[p].expiresAt <= store[c].expiresAt

IInv == /\ \A s \in Slots : SlotInv(s)
        /\ IdsFit /\ ExpiryBounded /\ AckMeansRevoked
        /\ LineageInherits /\ SlidesForward /\ SignedBesideRow
-----------------------------------------------------------------------------
(* Types *)

\* A row written by Mint is a row.
LEMMA NewRowType ==
  ASSUME TypeOK, NEW s \in Slots, NEW t \in Tokens
  PROVE  NewRow(s, t) \in Row
BY TokenHandlerAssumption DEF TypeOK, NewRow, Row, Request

LEMMA TypeInit == Init => TypeOK
BY TokenHandlerAssumption
DEF Init, TypeOK, Labels, Request, Row, NoRequest, BlankRow

LEMMA NoRequestType == NoRequest \in Request
BY TokenHandlerAssumption DEF Request, Row, NoRequest, BlankRow

LEMMA TypeStep ==
  ASSUME TypeOK, IInv, [Next]_vars
  PROVE  TypeOK'
<1>. USE TokenHandlerAssumption, NoRequestType DEF TypeOK
<1>1. ASSUME NEW s \in Slots, NEW u \in Users, NEW sc \in SUBSET Scopes,
             Login(s, u, sc)
      PROVE  TypeOK'
  <2>1. [BlankRow EXCEPT !.user = UserID(u), !.scopes = sc] \in Row
    BY DEF BlankRow, Row, UserID
  <2>2. req' \in [Slots -> Request]
    BY <1>1, <2>1 DEF Login, Request
  <2>. QED BY <1>1, <2>2 DEF Login, Goto, Labels
<1>2. ASSUME NEW s \in Slots, NEW k \in {"refresh", "revoke"},
             NEW t \in Wallet \cup {NoToken}, Present(s, k, t)
      PROVE  TypeOK'
  <2>1. /\ (t \in acked) \in BOOLEAN /\ t \in Tokens \cup {NoToken}
        /\ Expired(t) \in BOOLEAN
    BY DEF Wallet, Expired
  <2>2. req' \in [Slots -> Request]
    BY <1>2, <2>1 DEF Present, Request
  <2>. QED BY <1>2, <2>2 DEF Present, Goto, Labels
<1>3. ASSUME NEW s \in Slots, FindUser(s) PROVE TypeOK'
  <2>1. req' \in [Slots -> Request]
    BY SMTT(30), <1>3 DEF FindUser, Return, Request
  <2>. QED BY <1>3, <2>1 DEF FindUser, Return, Goto, Labels
<1>4. ASSUME NEW s \in Slots, ValidateAccepts(s) PROVE TypeOK'
  <2>1. store[req[s].tok] \in Row /\ raced' \subseteq Tokens
    BY <1>4 DEF ValidateAccepts, Exists
  <2>2. req' \in [Slots -> Request]
    BY ZenonT(60), <1>4, <2>1 DEF ValidateAccepts, Request
  <2>. QED BY <1>4, <2>1, <2>2 DEF ValidateAccepts, Goto, Labels
<1>5. ASSUME NEW s \in Slots,
             ValidateRejects(s) \/ ValidateFails(s) \/ Crash(s)
      PROVE  TypeOK'
  BY <1>5 DEF ValidateRejects, ValidateFails, Crash, Return, Goto, Labels, Exists
<1>6. ASSUME NEW s \in Slots, Retire(s) PROVE TypeOK'
  <2>1. req[s].tok \in Tokens /\ [req[s].row EXCEPT !.revoked = TRUE] \in Row
    <3>1. HoldsCopy(s)
      BY <1>6 DEF Retire, HoldsCopy, IInv, SlotInv, KindFits
    <3>. QED BY <3>1 DEF IInv, SlotInv, CopyAgrees, Exists, Request, Row
  <2>2. store' \in [Tokens -> Row \cup {NoRow}]
    BY <1>6, <2>1 DEF Retire
  <2>3. pc' \in [Slots -> Labels]
    BY <1>6 DEF Retire, Return, Goto, Labels
  <2>5. req' \in [Slots -> Request]
    <3>1. ASSUME NEW n \in req[s].now .. clock, req' = [req EXCEPT ![s].now = n]
          PROVE  req' \in [Slots -> Request]
      <4>1. req[s].now \in Nat
        BY DEF Request
      <4>2. n \in Nat
        BY <4>1
      <4>. HIDE <1>6
      <4>. QED BY SMTT(30), <3>1, <4>2 DEF Request
    <3>2. CASE req' = [req EXCEPT ![s] = NoRequest]
      BY <3>2
    <3>. QED BY <1>6, <3>1, <3>2 DEF Retire, Return
  <2>4. acked' \subseteq Tokens
    BY <1>6, <2>1 DEF Retire
  <2>. QED BY <1>6, <2>2, <2>3, <2>4, <2>5 DEF Retire
<1>7. ASSUME NEW s \in Slots, Mint(s) PROVE TypeOK'
  <2>1. store' \in [Tokens -> Row \cup {NoRow}]
    BY <1>7, NewRowType DEF Mint
  <2>2. pc' \in [Slots -> Labels]
    BY <1>7 DEF Mint, Return, Goto, Labels
  <2>3. CASE req' = [req EXCEPT ![s] = NoRequest]
    BY <1>7, <2>1, <2>2, <2>3 DEF Mint
  <2>4. ASSUME NEW t \in Tokens, req' = [req EXCEPT ![s].minted = t] PROVE TypeOK'
    <3>1. [req[s] EXCEPT !.minted = t] \in Request
      BY DEF Request
    <3>2. req' \in [Slots -> Request]
      BY <2>4, <3>1
    <3>. QED BY <1>7, <2>1, <2>2, <3>2 DEF Mint
  <2>. QED BY <1>7, <2>3, <2>4 DEF Mint, Return
<1>8. ASSUME NEW s \in Slots, Issue(s) PROVE TypeOK'
  <2>1. req[s].minted \in Tokens
    BY <1>8 DEF Issue, IInv, SlotInv, MintedExists, Exists
  <2>2. [sub |-> req[s].row.user, scopes |-> req[s].row.scopes,
         beside |-> req[s].minted]
          \in [sub : Users \cup {NoUser}, scopes : SUBSET Scopes, beside : Tokens]
    BY <2>1 DEF Request, Row
  <2>. QED BY <1>8, <2>1, <2>2 DEF Issue, Return, Goto, Labels
<1>9. CASE Tick
  BY <1>9 DEF Tick
<1>10. CASE UNCHANGED vars
  BY <1>10 DEF vars
<1>. QED
  BY <1>1, <1>2, <1>3, <1>4, <1>5, <1>6, <1>7, <1>8, <1>9, <1>10
  DEF Next, Arrive, Step
-----------------------------------------------------------------------------
(* What a step can do to the rows *)

\* A row is never lost, changed in what it grants, or revived; the copy that
\* Update writes back differs from the row in its revocation mark only.
LEMMA RowStep ==
  ASSUME TypeOK, IInv, [Next]_vars, NEW t \in Tokens, Exists(t)
  PROVE  /\ Exists(t)'
         /\ SameGrant(store[t], store'[t])
         /\ store[t].revoked => store'[t].revoked
<1>. USE DEF TypeOK, Exists, SameGrant
<1>1. ASSUME NEW s \in Slots, Retire(s)
      PROVE  /\ Exists(t)'
             /\ SameGrant(store[t], store'[t])
             /\ store[t].revoked => store'[t].revoked
  <2>1. req[s].tok \in Tokens /\ SameGrant(req[s].row, store[req[s].tok])
    <3>1. HoldsCopy(s)
      BY <1>1 DEF Retire, HoldsCopy, IInv, SlotInv, KindFits
    <3>. QED BY <3>1 DEF IInv, SlotInv, CopyAgrees
  <2>2. [req[s].row EXCEPT !.revoked = TRUE] \in Row
    <3>1. req[s].row \in Row
      BY DEF Request
    <3>. QED BY <3>1 DEF Row
  <2>3. CASE store' = store
    BY <2>3
  <2>4. CASE store' = [store EXCEPT ![req[s].tok] = [req[s].row EXCEPT !.revoked = TRUE]]
    BY <2>1, <2>2, <2>4, NoRowAssumption DEF Request, Row
  <2>. QED BY <1>1, <2>3, <2>4 DEF Retire
<1>2. ASSUME NEW s \in Slots, Mint(s) PROVE store'[t] = store[t]
  BY <1>2 DEF Mint
<1>3. ASSUME NEW s \in Slots,
             \/ Arrive(s) \/ FindUser(s) \/ ValidateAccepts(s) \/ ValidateRejects(s)
             \/ ValidateFails(s) \/ Issue(s) \/ Crash(s)
      PROVE  store' = store
  BY <1>3 DEF Arrive, Login, Present, FindUser, ValidateAccepts, ValidateRejects,
              ValidateFails, Issue, Crash
<1>4. CASE Tick \/ UNCHANGED vars
  BY <1>4 DEF Tick, vars
<1>. QED BY <1>1, <1>2, <1>3, <1>4 DEF Next, Step

\* A copy that agrees with its row goes on agreeing.
LEMMA CopyStep ==
  ASSUME TypeOK, IInv, [Next]_vars, NEW r, NEW t, Exists(t), SameGrant(r, store[t])
  PROVE  /\ t \in Tokens /\ store'[t] # NoRow
         /\ SameGrant(r, store'[t])
         /\ store[t].revoked => store'[t].revoked
<1>1. t \in Tokens
  BY DEF Exists
<1>2. /\ Exists(t)' /\ SameGrant(store[t], store'[t])
      /\ store[t].revoked => store'[t].revoked
  BY <1>1, RowStep
<1>. QED BY <1>1, <1>2 DEF SameGrant, Exists

\* A new row is one that Mint made for some request.
LEMMA MintedBy ==
  ASSUME TypeOK, IInv, [Next]_vars, NEW t \in Tokens, ~Exists(t), Exists(t)'
  PROVE  \E s \in Slots : pc[s] = "mint" /\ store'[t] = NewRow(s, t)
<1>. USE DEF TypeOK, Exists
<1>1. ASSUME NEW s \in Slots, Retire(s) PROVE FALSE
  <2>1. HoldsCopy(s)
    BY <1>1 DEF Retire, HoldsCopy, IInv, SlotInv, KindFits
  <2>2. Exists(req[s].tok)
    BY <2>1 DEF IInv, SlotInv, CopyAgrees
  <2>. QED BY <1>1, <2>2 DEF Retire
<1>2. ASSUME NEW s \in Slots, Mint(s)
      PROVE  pc[s] = "mint" /\ store'[t] = NewRow(s, t)
  BY <1>2 DEF Mint
<1>3. ASSUME NEW s \in Slots,
             \/ Arrive(s) \/ FindUser(s) \/ ValidateAccepts(s) \/ ValidateRejects(s)
             \/ ValidateFails(s) \/ Issue(s) \/ Crash(s)
      PROVE  FALSE
  BY <1>3 DEF Arrive, Login, Present, FindUser, ValidateAccepts, ValidateRejects,
              ValidateFails, Issue, Crash
<1>4. CASE Tick \/ UNCHANGED vars
  BY <1>4 DEF Tick, vars
<1>. QED BY <1>1, <1>2, <1>3, <1>4 DEF Next, Step

\* What a request that is about to rotate knows.
LEMMA RotationFacts ==
  ASSUME TypeOK, IInv, NEW s \in Slots, pc[s] = "mint", req[s].kind = "refresh"
  PROVE  /\ Exists(req[s].tok)
         /\ store[req[s].tok].revoked
         /\ SameGrant(req[s].row, store[req[s].tok])
         /\ req[s].row.id = IdOf(req[s].tok)
         /\ req[s].row.expiresAt <= req[s].now + RefreshTTL
<1>1. HoldsCopy(s)
  BY DEF HoldsCopy
<1>2. Exists(req[s].tok) /\ SameGrant(req[s].row, store[req[s].tok])
  BY <1>1 DEF IInv, SlotInv, CopyAgrees
<1>. QED
  BY <1>1, <1>2 DEF IInv, SlotInv, RotatesRevoked, IdsFit, NowInTime, SameGrant, Exists

LEMMA ClockStep ==
  ASSUME TypeOK, [Next]_vars
  PROVE  clock' \in Nat /\ clock <= clock'
<1>. USE DEF TypeOK
<1>1. ASSUME NEW s \in Slots, Arrive(s) \/ Step(s) \/ Crash(s) PROVE clock' = clock
  BY <1>1 DEF Arrive, Login, Present, Step, FindUser, ValidateAccepts,
              ValidateRejects, ValidateFails, Retire, Mint, Issue, Crash
<1>2. CASE Tick \/ UNCHANGED vars
  BY <1>2 DEF Tick, vars
<1>. QED BY <1>1, <1>2 DEF Next
-----------------------------------------------------------------------------
(* The rows *)

LEMMA IdsStep ==
  ASSUME TypeOK, IInv, [Next]_vars
  PROVE  IdsFit'
<1>. SUFFICES ASSUME NEW t \in Tokens, Exists(t)' PROVE store'[t].id = IdOf(t)
  BY DEF IdsFit, IdOf
<1>1. CASE Exists(t)
  BY <1>1, RowStep DEF SameGrant, IInv, IdsFit
<1>2. CASE ~Exists(t)
  <2>1. PICK s \in Slots : store'[t] = NewRow(s, t)
    BY <1>2, MintedBy
  <2>. QED BY <2>1 DEF NewRow, IdOf
<1>. QED BY <1>1, <1>2

LEMMA ExpiryStep ==
  ASSUME TypeOK, TypeOK', IInv, [Next]_vars
  PROVE  ExpiryBounded'
<1>. USE TokenHandlerAssumption DEF TypeOK
<1>. SUFFICES ASSUME NEW t \in Tokens, Exists(t)'
              PROVE  store'[t].expiresAt <= clock' + RefreshTTL
  BY DEF ExpiryBounded
<1>0. clock' \in Nat /\ clock \in Nat /\ clock <= clock' /\ RefreshTTL \in Nat
  BY ClockStep
<1>1. CASE Exists(t)
  <2>1. store'[t].expiresAt = store[t].expiresAt
    BY <1>1, RowStep DEF SameGrant
  <2>2. store[t].expiresAt <= clock + RefreshTTL /\ store[t].expiresAt \in Nat
    BY <1>1 DEF IInv, ExpiryBounded, Exists, Row
  <2>. QED BY <1>0, <2>1, <2>2
<1>2. CASE ~Exists(t)
  <2>1. PICK s \in Slots : store'[t] = NewRow(s, t)
    BY <1>2, MintedBy
  <2>2. store'[t].expiresAt = req[s].now + RefreshTTL
    BY <2>1 DEF NewRow
  <2>3. req[s].now <= clock /\ req[s].now \in Nat
    BY DEF IInv, SlotInv, NowInTime, Request
  <2>. QED BY <1>0, <2>2, <2>3
<1>. QED BY <1>1, <1>2

\* Rotation: the row a refresh creates descends from the revoked one.
LEMMA LineageStep ==
  ASSUME TypeOK, TypeOK', IInv, [Next]_vars
  PROVE  LineageInherits' /\ SlidesForward'
<1>. USE TokenHandlerAssumption DEF TypeOK
<1>. SUFFICES ASSUME NEW p \in Tokens, NEW c \in Tokens,
                     Exists(c)', store'[c].rotatedFrom = p
              PROVE  /\ p # c /\ Exists(p)' /\ store'[p].revoked
                     /\ store'[c].user = store'[p].user
                     /\ store'[c].scopes = store'[p].scopes
                     /\ store'[p].expiresAt <= store'[c].expiresAt
  BY DEF LineageInherits, SlidesForward
<1>1. CASE Exists(c)
  <2>1. SameGrant(store[c], store'[c])
    BY <1>1, RowStep
  <2>2. /\ p # c /\ Exists(p) /\ store[p].revoked
        /\ store[c].user = store[p].user
        /\ store[c].scopes = store[p].scopes
        /\ store[p].expiresAt <= store[c].expiresAt
    BY <1>1, <2>1 DEF IInv, LineageInherits, SlidesForward, SameGrant
  <2>3. Exists(p)' /\ SameGrant(store[p], store'[p]) /\ store'[p].revoked
    BY <2>2, RowStep
  <2>. QED BY <2>1, <2>2, <2>3 DEF SameGrant
<1>2. CASE ~Exists(c)
  <2>1. PICK s \in Slots : pc[s] = "mint" /\ store'[c] = NewRow(s, c)
    BY <1>2, MintedBy
  <2>2. req[s].kind = "refresh" /\ req[s].row.id = p
    BY <2>1 DEF NewRow
  <2>3. /\ Exists(req[s].tok) /\ store[req[s].tok].revoked
        /\ SameGrant(req[s].row, store[req[s].tok])
        /\ req[s].row.id = IdOf(req[s].tok)
        /\ req[s].row.expiresAt <= req[s].now + RefreshTTL
    BY <2>1, <2>2, RotationFacts
  <2>4. p = req[s].tok
    BY <2>2, <2>3 DEF IdOf
  <2>5. Exists(p)' /\ SameGrant(store[p], store'[p]) /\ store'[p].revoked
    BY <2>3, <2>4, RowStep
  <2>6. /\ store'[c].user = req[s].row.user
        /\ store'[c].scopes = req[s].row.scopes
        /\ store'[c].expiresAt = req[s].now + RefreshTTL
    BY <2>1 DEF NewRow
  <2>7. req[s].now \in Nat /\ req[s].row.expiresAt \in Nat
    BY DEF Request, Row
  <2>8. req[s].row.expiresAt = store'[p].expiresAt
    BY <2>3, <2>4, <2>5 DEF SameGrant
  <2>9. /\ store'[c].user = store'[p].user
        /\ store'[c].scopes = store'[p].scopes
    BY <2>3, <2>4, <2>5, <2>6 DEF SameGrant
  <2>10. store'[p].expiresAt <= store'[c].expiresAt
    BY <2>3, <2>6, <2>7, <2>8
  <2>. QED BY <1>2, <2>3, <2>4, <2>5, <2>9, <2>10
<1>. QED BY <1>1, <1>2
\* No row's expiry is ever moved, so an expired one stays expired.
LEMMA ExpiredStays ==
  ASSUME TypeOK, IInv, [Next]_vars, NEW t, Expired(t)
  PROVE  Expired(t)'
<1>. USE DEF TypeOK
<1>1. PICK u \in Tokens : u = t
  BY DEF Expired, Exists
<1>2. Exists(u) /\ clock > store[u].expiresAt
  BY <1>1 DEF Expired
<1>3. Exists(u)' /\ store'[u].expiresAt = store[u].expiresAt
  BY <1>2, RowStep DEF SameGrant
<1>4. store[u].expiresAt \in Nat /\ clock \in Nat
  BY <1>2 DEF Exists, Row
<1>5. clock' > store'[u].expiresAt
  BY <1>2, <1>3, <1>4, ClockStep
<1>. QED BY <1>1, <1>3, <1>5 DEF Expired, Exists
-----------------------------------------------------------------------------
(* The requests *)

\* A slot that does not move keeps what it knows, whatever the others do.
LEMMA SlotFrame ==
  ASSUME TypeOK, IInv, [Next]_vars, acked \subseteq acked',
         NEW q \in Slots, pc'[q] = pc[q], req'[q] = req[q]
  PROVE  SlotInv(q)'
<1>. USE TokenHandlerAssumption DEF TypeOK
<1>1. SlotInv(q)
  BY DEF IInv
<1>2. KindFits(q)'
  BY <1>1 DEF SlotInv, KindFits
<1>3. CopyAgrees(q)'
  <2>. SUFFICES ASSUME HoldsCopy(q)
                PROVE  Exists(req[q].tok)' /\ SameGrant(req[q].row, store'[req[q].tok])
    BY DEF CopyAgrees, HoldsCopy
  <2>1. Exists(req[q].tok) /\ SameGrant(req[q].row, store[req[q].tok])
    BY <1>1 DEF SlotInv, CopyAgrees
  <2>2. /\ req[q].tok \in Tokens /\ store'[req[q].tok] # NoRow
        /\ SameGrant(req[q].row, store'[req[q].tok])
    BY <2>1, CopyStep
  <2>. QED BY <2>2 DEF Exists
<1>4. RotatesRevoked(q)'
  <2>. SUFFICES ASSUME req[q].kind = "refresh", pc[q] \in {"mint", "issue"}
                PROVE  store'[req[q].tok].revoked
    BY DEF RotatesRevoked
  <2>1. Exists(req[q].tok) /\ store[req[q].tok].revoked
    BY <1>1 DEF SlotInv, CopyAgrees, RotatesRevoked, HoldsCopy
  <2>. QED BY <2>1, RowStep DEF Exists
<1>5. MintedExists(q)'
  <2>. SUFFICES ASSUME pc[q] = "issue"
                PROVE  /\ Exists(req[q].minted)'
                       /\ store'[req[q].minted].user = req[q].row.user
                       /\ store'[req[q].minted].scopes = req[q].row.scopes
    BY DEF MintedExists, Exists
  <2>1. /\ Exists(req[q].minted)
        /\ store[req[q].minted].user = req[q].row.user
        /\ store[req[q].minted].scopes = req[q].row.scopes
    BY <1>1 DEF SlotInv, MintedExists
  <2>2. Exists(req[q].minted)' /\ SameGrant(store[req[q].minted], store'[req[q].minted])
    BY <2>1, RowStep DEF Exists
  <2>. QED BY <2>1, <2>2 DEF SameGrant
<1>6. NowInTime(q)'
  <2>1. clock \in Nat /\ clock' \in Nat /\ clock <= clock' /\ req[q].now \in Nat
    BY ClockStep DEF Request
  <2>2. NowInTime(q)
    BY <1>1 DEF SlotInv
  <2>. QED BY <2>1, <2>2 DEF NowInTime, HoldsCopy
<1>7. LateAcked(q)'
  BY <1>1 DEF SlotInv, LateAcked
<1>8. ExpiredWaits(q)'
  <2>. SUFFICES ASSUME req[q].expired PROVE pc[q] = "validate" /\ Expired(req[q].tok)'
    BY DEF ExpiredWaits
  <2>1. pc[q] = "validate" /\ Expired(req[q].tok)
    BY <1>1 DEF SlotInv, ExpiredWaits
  <2>. QED BY <2>1, ExpiredStays
<1>. QED BY <1>2, <1>3, <1>4, <1>5, <1>6, <1>7, <1>8 DEF SlotInv

\* A slot whose handler has returned knows nothing.
LEMMA SlotIdle ==
  ASSUME TypeOK, [Next]_vars, NEW q \in Slots, pc'[q] = "idle", req'[q] = NoRequest
  PROVE  SlotInv(q)'
<1>1. 0 <= clock'
  BY ClockStep
<1>. QED
  BY <1>1 DEF SlotInv, KindFits, CopyAgrees, RotatesRevoked, MintedExists,
              NowInTime, LateAcked, ExpiredWaits, HoldsCopy, NoRequest

LEMMA AckedGrows ==
  ASSUME TypeOK, [Next]_vars
  PROVE  acked \subseteq acked'
<1>1. ASSUME NEW s \in Slots, Arrive(s) \/ Step(s) \/ Crash(s)
      PROVE  acked \subseteq acked'
  BY <1>1 DEF Arrive, Login, Present, Step, FindUser, ValidateAccepts,
              ValidateRejects, ValidateFails, Retire, Mint, Issue, Crash
<1>2. CASE Tick \/ UNCHANGED vars
  BY <1>2 DEF Tick, vars
<1>. QED BY <1>1, <1>2 DEF Next

LEMMA SlotStep ==
  ASSUME TypeOK, TypeOK', IInv, [Next]_vars
  PROVE  \A q \in Slots : SlotInv(q)'
<1>. USE TokenHandlerAssumption DEF TypeOK
<1>. TAKE q \in Slots
<1>0. acked \subseteq acked'
  BY AckedGrows
<1>1. CASE pc'[q] = pc[q] /\ req'[q] = req[q]
  BY <1>0, <1>1, SlotFrame
<1>2. CASE pc'[q] = "idle" /\ req'[q] = NoRequest
  BY <1>2, SlotIdle
<1>3. ASSUME NEW u \in Users, NEW sc \in SUBSET Scopes, Login(q, u, sc)
      PROVE  SlotInv(q)'
  <2>1. /\ pc'[q] = "find" /\ req'[q].kind = "token" /\ ~req'[q].late
        /\ req'[q].now = 0 /\ ~req'[q].expired
    BY <1>3 DEF Login, Goto, NoRequest
  <2>2. 0 <= clock'
    OBVIOUS
  <2>. QED
    BY <2>1, <2>2 DEF SlotInv, KindFits, CopyAgrees, RotatesRevoked, MintedExists,
                      NowInTime, LateAcked, ExpiredWaits, HoldsCopy
<1>4. ASSUME NEW k \in {"refresh", "revoke"}, NEW t \in Wallet \cup {NoToken},
             Present(q, k, t)
      PROVE  SlotInv(q)'
  <2>1. /\ pc'[q] = "validate" /\ req'[q].kind = k /\ req'[q].tok = t
        /\ req'[q].late <=> t \in acked
        /\ req'[q].now = 0 /\ acked' = acked
        /\ req'[q].expired <=> Expired(t)
        /\ clock' = clock /\ store' = store
    BY <1>4 DEF Present, Goto, NoRequest
  <2>2. 0 <= clock'
    OBVIOUS
  <2>3. req'[q].expired => Expired(t)'
    BY <2>1 DEF Expired, Exists
  <2>. QED
    BY <2>1, <2>2, <2>3 DEF SlotInv, KindFits, CopyAgrees, RotatesRevoked, MintedExists,
                      NowInTime, LateAcked, ExpiredWaits, HoldsCopy
<1>5. ASSUME FindUser(q) PROVE SlotInv(q)'
  <2>1. CASE pc'[q] = "mint"
    <3>1. /\ pc[q] = "find" /\ req' = [req EXCEPT ![q].now = clock] /\ clock' = clock
      BY <1>5, <2>1 DEF FindUser, Goto, Return
    <3>2. /\ req'[q].kind = req[q].kind /\ req'[q].late = req[q].late
          /\ req'[q].expired = req[q].expired /\ req'[q].now = clock'
      BY <3>1 DEF Request
    <3>3. ~req[q].late /\ ~req[q].expired
      BY <3>1 DEF IInv, SlotInv, LateAcked, ExpiredWaits
    <3>4. req[q].kind = "token"
      BY <3>1 DEF IInv, SlotInv, KindFits, Request
    <3>. QED
      BY <2>1, <3>2, <3>3, <3>4
      DEF SlotInv, KindFits, CopyAgrees, RotatesRevoked, MintedExists, NowInTime,
          LateAcked, ExpiredWaits, HoldsCopy
  <2>2. CASE pc'[q] # "mint"
    BY <1>2, <1>5, <2>2 DEF FindUser, Return, Goto
  <2>. QED BY <2>1, <2>2
<1>6. ASSUME ValidateAccepts(q) PROVE SlotInv(q)'
  <2>1. /\ pc[q] = "validate" /\ pc'[q] = "retire"
        /\ Exists(req[q].tok) /\ ~store[req[q].tok].revoked
        /\ clock <= store[req[q].tok].expiresAt
        /\ store' = store /\ clock' = clock
        /\ req' = [req EXCEPT ![q].row = store[req[q].tok], ![q].now = clock]
    BY <1>6 DEF ValidateAccepts, Goto
  <2>2. /\ req'[q].kind = req[q].kind /\ req'[q].tok = req[q].tok
        /\ req'[q].late = req[q].late /\ req'[q].expired = req[q].expired
        /\ req'[q].row = store[req[q].tok] /\ req'[q].now = clock
    BY <2>1 DEF Request
  <2>3. ~req[q].late
    BY <2>1 DEF IInv, SlotInv, LateAcked, AckMeansRevoked
  <2>4. ~req[q].expired
    <3>1. clock \in Nat /\ store[req[q].tok].expiresAt \in Nat
      BY <2>1 DEF Exists, Row
    <3>2. ~Expired(req[q].tok)
      BY <2>1, <3>1 DEF Expired
    <3>. QED BY <3>2 DEF IInv, SlotInv, ExpiredWaits
  <2>5. req[q].kind # "token"
    BY <2>1 DEF IInv, SlotInv, KindFits
  <2>6. store[req[q].tok].expiresAt <= clock + RefreshTTL
    BY <2>1 DEF IInv, ExpiryBounded, Exists
  <2>7. Exists(req[q].tok)' /\ SameGrant(req'[q].row, store'[req'[q].tok])
    BY <2>1, <2>2 DEF Exists, SameGrant
  <2>. QED
    BY <2>1, <2>2, <2>3, <2>4, <2>5, <2>6, <2>7
    DEF SlotInv, KindFits, CopyAgrees, RotatesRevoked, MintedExists, NowInTime,
        LateAcked, ExpiredWaits, HoldsCopy, Exists
<1>7. ASSUME ValidateRejects(q) \/ ValidateFails(q) \/ Crash(q) \/ Issue(q)
      PROVE  SlotInv(q)'
  BY <1>2, <1>7 DEF ValidateRejects, ValidateFails, Crash, Issue, Return, Goto
<1>8. ASSUME Retire(q) PROVE SlotInv(q)'
  <2>1. CASE pc'[q] = "mint"
    <3>0. PICK n \in req[q].now .. clock : req' = [req EXCEPT ![q].now = n]
      BY <1>8, <2>1 DEF Retire, Return, Goto
    <3>1. /\ pc[q] = "retire" /\ clock' = clock
          /\ req[q].kind = "refresh"
      BY <1>8, <2>1 DEF Retire, Return, Goto
    <3>1a. /\ req'[q].kind = req[q].kind /\ req'[q].tok = req[q].tok
           /\ req'[q].row = req[q].row /\ req'[q].now = n
           /\ req'[q].late = req[q].late /\ req'[q].expired = req[q].expired
      BY <3>0 DEF Request
    <3>1b. /\ req[q].now \in Nat /\ req[q].row.expiresAt \in Nat /\ n \in Nat
           /\ req[q].now <= n /\ n <= clock
      BY <3>0 DEF Request, Row
    <3>2. HoldsCopy(q) /\ SlotInv(q)
      BY <3>1 DEF HoldsCopy, IInv
    <3>3. Exists(req[q].tok) /\ SameGrant(req[q].row, store[req[q].tok])
      BY <3>2 DEF SlotInv, CopyAgrees
    <3>4. /\ req[q].tok \in Tokens /\ store'[req[q].tok] # NoRow
          /\ SameGrant(req[q].row, store'[req[q].tok])
      BY <3>3, CopyStep
    <3>5. store'[req[q].tok].revoked
      BY <1>8, <2>1, <3>3 DEF Retire, Return, Goto, Exists, Request, Row
    <3>6. ~req[q].late /\ ~req[q].expired
      BY <3>1, <3>2 DEF SlotInv, LateAcked, ExpiredWaits
    <3>7. NowInTime(q)'
      BY <3>1, <3>1a, <3>1b, <3>2 DEF SlotInv, NowInTime
    <3>. QED
      BY <2>1, <3>1, <3>1a, <3>2, <3>4, <3>5, <3>6, <3>7
      DEF SlotInv, KindFits, CopyAgrees, RotatesRevoked, MintedExists, NowInTime,
          LateAcked, ExpiredWaits, HoldsCopy, Exists
  <2>2. CASE pc'[q] # "mint"
    BY <1>2, <1>8, <2>2 DEF Retire, Return, Goto
  <2>. QED BY <2>1, <2>2
<1>9. ASSUME Mint(q) PROVE SlotInv(q)'
  <2>1. CASE pc'[q] = "issue"
    <3>1. PICK t \in Tokens : /\ store' = [store EXCEPT ![t] = NewRow(q, t)]
                              /\ req' = [req EXCEPT ![q].minted = t]
                              /\ store[t] = NoRow
      BY <1>9, <2>1 DEF Mint, Return, Goto
    <3>2. pc[q] = "mint" /\ clock' = clock /\ SlotInv(q)
      BY <1>9 DEF Mint, IInv
    <3>3. /\ req'[q].kind = req[q].kind /\ req'[q].tok = req[q].tok
          /\ req'[q].row = req[q].row /\ req'[q].now = req[q].now
          /\ req'[q].late = req[q].late /\ req'[q].minted = t
          /\ req'[q].expired = req[q].expired
      BY <3>1 DEF Request
    <3>4. store'[t] = NewRow(q, t) /\ store'[t] # NoRow
      BY <3>1, NewRowType, NoRowAssumption
    <3>5. MintedExists(q)'
      BY <3>3, <3>4 DEF MintedExists, NewRow, Exists
    <3>6. HoldsCopy(q) =>
            /\ req[q].tok \in Tokens /\ store'[req[q].tok] # NoRow
            /\ SameGrant(req[q].row, store'[req[q].tok])
            /\ req[q].kind = "refresh" => store'[req[q].tok].revoked
      <4>. SUFFICES ASSUME HoldsCopy(q)
                    PROVE  /\ req[q].tok \in Tokens /\ store'[req[q].tok] # NoRow
                           /\ SameGrant(req[q].row, store'[req[q].tok])
                           /\ req[q].kind = "refresh" => store'[req[q].tok].revoked
        OBVIOUS
      <4>1. /\ Exists(req[q].tok) /\ SameGrant(req[q].row, store[req[q].tok])
            /\ req[q].kind = "refresh" => store[req[q].tok].revoked
        BY <3>2 DEF SlotInv, CopyAgrees, RotatesRevoked
      <4>. QED BY <4>1, CopyStep
    <3>7. HoldsCopy(q)' => HoldsCopy(q)
      BY <3>2, <3>3 DEF HoldsCopy
    <3>8. CopyAgrees(q)' /\ RotatesRevoked(q)'
      BY <2>1, <3>2, <3>3, <3>6, <3>7 DEF CopyAgrees, RotatesRevoked, HoldsCopy, Exists
    <3>9. KindFits(q)' /\ NowInTime(q)' /\ LateAcked(q)' /\ ExpiredWaits(q)'
      BY <2>1, <3>2, <3>3, <3>7
      DEF SlotInv, KindFits, NowInTime, LateAcked, ExpiredWaits
    <3>. QED BY <3>5, <3>8, <3>9 DEF SlotInv
  <2>2. CASE pc'[q] # "issue"
    BY <1>2, <1>9, <2>2 DEF Mint, Return, Goto
  <2>. QED BY <2>1, <2>2
<1>10. ASSUME NEW s \in Slots, s # q, Arrive(s) \/ Step(s) \/ Crash(s)
       PROVE  pc'[q] = pc[q] /\ req'[q] = req[q]
  BY ZenonT(60), <1>10 DEF Arrive, Login, Present, Step, FindUser, ValidateAccepts,
      ValidateRejects, ValidateFails, Retire, Mint, Issue, Crash, Return, Goto
<1>11. CASE Tick \/ UNCHANGED vars
  BY <1>1, <1>11 DEF Tick, vars
<1>. QED
  BY <1>1, <1>3, <1>4, <1>5, <1>6, <1>7, <1>8, <1>9, <1>10, <1>11
  DEF Next, Arrive, Step
-----------------------------------------------------------------------------
(* Acknowledgements and signatures *)

LEMMA AckedStep ==
  ASSUME TypeOK, IInv, [Next]_vars
  PROVE  AckMeansRevoked'
<1>. USE TokenHandlerAssumption DEF TypeOK
<1>. SUFFICES ASSUME NEW t \in acked' PROVE Exists(t)' /\ store'[t].revoked
  BY DEF AckMeansRevoked
<1>1. CASE Exists(t) /\ store[t].revoked
  <2>1. t \in Tokens
    BY <1>1 DEF Exists
  <2>. QED BY <1>1, <2>1, RowStep
<1>2. ASSUME NEW s \in Slots, Retire(s), t \notin acked
      PROVE  Exists(t)' /\ store'[t].revoked
  <2>1. Exists(req[s].tok) /\ SameGrant(req[s].row, store[req[s].tok])
    BY <1>2 DEF Retire, HoldsCopy, IInv, SlotInv, KindFits, CopyAgrees
  <2>2. store'[req[s].tok] # NoRow
    BY <2>1, CopyStep
  <2>3. /\ t = req[s].tok
        /\ store' = [store EXCEPT ![t] = [req[s].row EXCEPT !.revoked = TRUE]]
    BY <1>2 DEF Retire
  <2>. QED BY <2>1, <2>2, <2>3 DEF Exists, Request, Row
<1>3. ASSUME NEW s \in Slots, ValidateRejects(s), t \notin acked
      PROVE  Exists(t) /\ store[t].revoked
  BY <1>3 DEF ValidateRejects
<1>4. ASSUME NEW s \in Slots,
             \/ Arrive(s) \/ FindUser(s) \/ ValidateAccepts(s) \/ ValidateFails(s)
             \/ Mint(s) \/ Issue(s) \/ Crash(s)
      PROVE  acked' = acked
  BY <1>4 DEF Arrive, Login, Present, FindUser, ValidateAccepts, ValidateFails,
              Mint, Issue, Crash
<1>5. CASE Tick \/ UNCHANGED vars
  BY <1>1, <1>5 DEF Tick, vars, IInv, AckMeansRevoked
<1>6. t \in acked => Exists(t) /\ store[t].revoked
  BY DEF IInv, AckMeansRevoked
<1>. QED BY <1>1, <1>2, <1>3, <1>4, <1>5, <1>6 DEF Next, Step

LEMMA SignedStep ==
  ASSUME TypeOK, IInv, [Next]_vars
  PROVE  SignedBesideRow'
<1>. USE DEF TypeOK
<1>. SUFFICES ASSUME NEW j \in signed'
              PROVE  /\ Exists(j.beside)'
                     /\ store'[j.beside].user = j.sub
                     /\ store'[j.beside].scopes = j.scopes
  BY DEF SignedBesideRow
<1>1. ASSUME /\ Exists(j.beside)
             /\ store[j.beside].user = j.sub
             /\ store[j.beside].scopes = j.scopes
      PROVE  /\ Exists(j.beside)'
             /\ store'[j.beside].user = j.sub
             /\ store'[j.beside].scopes = j.scopes
  <2>1. j.beside \in Tokens
    BY <1>1 DEF Exists
  <2>2. Exists(j.beside)' /\ SameGrant(store[j.beside], store'[j.beside])
    BY <1>1, <2>1, RowStep
  <2>. QED BY <1>1, <2>2 DEF SameGrant
<1>2. CASE j \in signed
  BY <1>1, <1>2 DEF IInv, SignedBesideRow
<1>3. ASSUME NEW s \in Slots, Issue(s), j \notin signed
      PROVE  /\ Exists(j.beside)
             /\ store[j.beside].user = j.sub
             /\ store[j.beside].scopes = j.scopes
  <2>1. MintedExists(s) /\ pc[s] = "issue"
    BY <1>3 DEF Issue, IInv, SlotInv
  <2>2. /\ j.sub = req[s].row.user /\ j.scopes = req[s].row.scopes
        /\ j.beside = req[s].minted
    BY <1>3 DEF Issue
  <2>. QED BY <2>1, <2>2 DEF MintedExists
<1>4. ASSUME NEW s \in Slots,
             \/ Arrive(s) \/ FindUser(s) \/ ValidateAccepts(s) \/ ValidateRejects(s)
             \/ ValidateFails(s) \/ Retire(s) \/ Mint(s) \/ Crash(s)
      PROVE  signed' = signed
  BY <1>4 DEF Arrive, Login, Present, FindUser, ValidateAccepts, ValidateRejects,
              ValidateFails, Retire, Mint, Crash
<1>5. CASE Tick \/ UNCHANGED vars
  BY <1>2, <1>5 DEF Tick, vars
<1>. QED BY <1>1, <1>2, <1>3, <1>4, <1>5 DEF Next, Step
-----------------------------------------------------------------------------
(* Successors: the right to rotate a token *)

\* A refresh that may still give p a successor.
Claims(s, p) ==
  req[s].kind = "refresh" /\ req[s].tok = p /\ pc[s] \in {"retire", "mint"}

Child(c, p) == Exists(c) /\ store[c].rotatedFrom = p

\* Unless p was raced for, one request or one row holds that right at most.
SoleHeir(p) ==
  /\ \A s, q \in Slots : Claims(s, p) /\ Claims(q, p) => s = q
  /\ \A s \in Slots, c \in Tokens : Claims(s, p) => ~Child(c, p)
  /\ \A c, d \in Tokens : Child(c, p) /\ Child(d, p) => c = d

HeirInv == \A p \in Tokens \ raced : SoleHeir(p)

LEMMA HeirStep ==
  ASSUME TypeOK, IInv, HeirInv, [Next]_vars
  PROVE  HeirInv'
<1>. USE TokenHandlerAssumption DEF TypeOK
<1>1. SUFFICES ASSUME NEW p \in Tokens, p \notin raced' PROVE SoleHeir(p)'
  BY DEF HeirInv
<1>2. ASSUME NEW z \in Slots, ValidateAccepts(z) PROVE SoleHeir(p)'
  <2>1. p \notin raced /\ store' = store
    BY <1>1, <1>2 DEF ValidateAccepts
  <2>2. SoleHeir(p)
    BY <2>1 DEF HeirInv
  <2>3. \A c \in Tokens : Child(c, p)' <=> Child(c, p)
    BY <2>1 DEF Child, Exists
  <2>4. \A s \in Slots : s # z => (Claims(s, p)' <=> Claims(s, p))
    BY <1>2 DEF ValidateAccepts, Goto, Claims
  <2>5. CASE req[z].kind = "refresh" /\ req[z].tok = p
    <3>1. ~store[p].revoked /\ \A q \in Slots : ~Saving(q, p)
      BY <1>1, <1>2, <2>5 DEF ValidateAccepts
    <3>2. \A s \in Slots : ~Claims(s, p)
      BY <3>1 DEF Claims, Saving, IInv, SlotInv, RotatesRevoked
    <3>3. \A c \in Tokens : ~Child(c, p)
      BY <3>1 DEF Child, IInv, LineageInherits
    <3>. QED BY <2>3, <2>4, <3>2, <3>3 DEF SoleHeir
  <2>6. CASE ~(req[z].kind = "refresh" /\ req[z].tok = p)
    <3>1. ~Claims(z, p)'
      BY <1>2, <2>6 DEF ValidateAccepts, Claims, Request
    <3>. QED BY <2>2, <2>3, <2>4, <3>1 DEF SoleHeir
  <2>. QED BY <2>5, <2>6
<1>3. ASSUME NEW z \in Slots, Mint(z) PROVE SoleHeir(p)'
  <2>1. p \notin raced /\ pc[z] = "mint"
    BY <1>1, <1>3 DEF Mint
  <2>2. SoleHeir(p)
    BY <2>1 DEF HeirInv
  <2>3. ~Claims(z, p)' /\ \A s \in Slots : s # z => (Claims(s, p)' <=> Claims(s, p))
    BY <1>3 DEF Mint, Return, Goto, Claims, NoRequest
  <2>4. PICK t \in Tokens :
          /\ store[t] = NoRow
          /\ store' = store \/ store' = [store EXCEPT ![t] = NewRow(z, t)]
    BY <1>3 DEF Mint
  <2>5. \A c \in Tokens : c # t => (Child(c, p)' <=> Child(c, p))
    BY <2>4 DEF Child, Exists
  <2>6. ~Child(t, p)
    BY <2>4 DEF Child, Exists
  <2>7. CASE ~Child(t, p)'
    BY <2>2, <2>3, <2>5, <2>6, <2>7 DEF SoleHeir
  <2>8. CASE Child(t, p)'
    <3>1. NewRow(z, t).rotatedFrom = p
      BY <2>4, <2>8 DEF Child, Exists
    <3>2. req[z].kind = "refresh" /\ req[z].row.id = p
      BY <3>1 DEF NewRow
    <3>3. req[z].row.id = IdOf(req[z].tok)
      BY <2>1, <3>2, RotationFacts
    <3>4. Claims(z, p)
      BY <2>1, <3>2, <3>3 DEF Claims, IdOf
    <3>5. \A s \in Slots : ~Claims(s, p)'
      BY <2>2, <2>3, <3>4 DEF SoleHeir
    <3>6. \A c \in Tokens : Child(c, p)' => c = t
      BY <2>2, <2>5, <3>4 DEF SoleHeir
    <3>. QED BY <3>5, <3>6 DEF SoleHeir
  <2>. QED BY <2>7, <2>8
<1>4. ASSUME raced' = raced,
             \A s \in Slots : Claims(s, p)' => Claims(s, p),
             \A c \in Tokens : Child(c, p)' => Child(c, p)
      PROVE  SoleHeir(p)'
  <2>1. SoleHeir(p)
    BY <1>1, <1>4 DEF HeirInv
  <2>. QED BY <1>4, <2>1 DEF SoleHeir
<1>5. ASSUME NEW z \in Slots, Retire(z) PROVE SoleHeir(p)'
  <2>1. raced' = raced
    BY <1>5 DEF Retire
  <2>2. ASSUME NEW s \in Slots, Claims(s, p)' PROVE Claims(s, p)
    <3>1. CASE s # z
      BY <1>5, <2>2, <3>1 DEF Retire, Return, Goto, Claims
    <3>2. CASE s = z
      <4>1. PICK n \in req[z].now .. clock : req' = [req EXCEPT ![z].now = n]
        BY <1>5, <2>2, <3>2 DEF Retire, Return, Goto, Claims, NoRequest
      <4>2. req'[z].tok = req[z].tok /\ req'[z].kind = req[z].kind
        BY <4>1 DEF Request
      <4>. QED BY <1>5, <2>2, <3>2, <4>2 DEF Retire, Claims
    <3>. QED BY <3>1, <3>2
  <2>3. ASSUME NEW c \in Tokens, Child(c, p)' PROVE Child(c, p)
    <3>1. Exists(c)
      <4>1. Exists(c)' /\ pc[z] = "retire"
        BY <1>5, <2>3 DEF Child, Retire
      <4>2. Exists(req[z].tok)
        BY <4>1 DEF HoldsCopy, IInv, SlotInv, KindFits, CopyAgrees
      <4>. QED BY <1>5, <4>1, <4>2 DEF Retire, Exists
    <3>2. SameGrant(store[c], store'[c])
      BY <3>1, RowStep
    <3>. QED BY <2>3, <3>1, <3>2 DEF Child, SameGrant
  <2>. QED BY <1>4, <2>1, <2>2, <2>3
<1>6. ASSUME NEW z \in Slots,
             \/ Arrive(z) \/ FindUser(z) \/ ValidateRejects(z)
             \/ ValidateFails(z) \/ Issue(z) \/ Crash(z)
      PROVE  SoleHeir(p)'
  <2>1. raced' = raced /\ store' = store
    BY <1>6 DEF Arrive, Login, Present, FindUser, ValidateRejects,
                ValidateFails, Issue, Crash
  <2>2. \A s \in Slots : Claims(s, p)' => Claims(s, p)
    <3>1. CASE Arrive(z)
      BY <3>1 DEF Arrive, Login, Present, Goto, Claims
    <3>2. CASE FindUser(z)
      BY <3>2 DEF FindUser, Return, Goto, Claims, NoRequest, IInv, SlotInv, KindFits, Request
    <3>3. CASE ValidateRejects(z) \/ ValidateFails(z) \/ Issue(z) \/ Crash(z)
      BY <3>3 DEF ValidateRejects, ValidateFails, Issue, Crash, Return, Goto,
                  Claims, NoRequest
    <3>. QED BY <1>6, <3>1, <3>2, <3>3
  <2>3. \A c \in Tokens : Child(c, p)' => Child(c, p)
    BY <2>1 DEF Child, Exists
  <2>. QED BY <1>4, <2>1, <2>2, <2>3
<1>7. CASE Tick \/ UNCHANGED vars
  <2>1. /\ raced' = raced /\ store' = store /\ pc' = pc /\ req' = req
    BY <1>7 DEF Tick, vars
  <2>2. \A s \in Slots : Claims(s, p)' => Claims(s, p)
    BY <2>1 DEF Claims
  <2>3. \A c \in Tokens : Child(c, p)' => Child(c, p)
    BY <2>1 DEF Child, Exists
  <2>. QED BY <1>4, <2>1, <2>2, <2>3
<1>. QED BY <1>2, <1>3, <1>5, <1>6, <1>7 DEF Next, Step
-----------------------------------------------------------------------------
(* The theorems *)

LEMMA InvInit == Init => IInv
<1>. SUFFICES ASSUME Init PROVE IInv
  OBVIOUS
<1>1. \A s \in Slots : SlotInv(s)
  BY DEF Init, SlotInv, KindFits, CopyAgrees, RotatesRevoked, MintedExists,
         NowInTime, LateAcked, ExpiredWaits, HoldsCopy, NoRequest
<1>2. \A t \in Tokens : ~Exists(t)
  BY DEF Init, Exists
<1>3. acked = {} /\ signed = {}
  BY DEF Init
<1>. QED
  BY <1>1, <1>2, <1>3 DEF IInv, IdsFit, ExpiryBounded, AckMeansRevoked,
     LineageInherits, SlidesForward, SignedBesideRow

LEMMA Invariant == Spec => [](TypeOK /\ IInv)
<1>1. TypeOK /\ IInv /\ [Next]_vars => TypeOK'
  BY TypeStep
<1>2. TypeOK /\ TypeOK' /\ IInv /\ [Next]_vars => IInv'
  BY SlotStep, IdsStep, ExpiryStep, LineageStep, AckedStep, SignedStep DEF IInv
<1>. QED BY TypeInit, InvInit, <1>1, <1>2, PTL DEF Spec

LEMMA HeirInvariant == Spec => []HeirInv
<1>1. Init => HeirInv
  BY DEF Init, HeirInv, SoleHeir, Claims, Child, Exists
<1>2. TypeOK /\ IInv /\ HeirInv /\ [Next]_vars => HeirInv'
  BY HeirStep
<1>. QED BY Invariant, <1>1, <1>2, PTL DEF Spec

\* A token that two refreshes did not validate before either saved it has one
\* successor at most, whatever fails, is retried or crashes.
THEOREM SuccessorSafe == Spec => []SuccessorsRaced
<1>1. TypeOK /\ IInv /\ HeirInv => SuccessorsRaced
  <2>. SUFFICES ASSUME TypeOK, IInv, HeirInv, NEW c \in Tokens, NEW d \in Tokens,
                       Siblings(c, d)
                PROVE  store[c].rotatedFrom \in raced
    BY DEF SuccessorsRaced
  <2>1. PICK p : p = store[c].rotatedFrom
    OBVIOUS
  <2>2. p \in Tokens
    BY <2>1 DEF Siblings, TypeOK, Exists, Row
  <2>3. Child(c, p) /\ Child(d, p) /\ c # d
    BY <2>1 DEF Siblings, Child
  <2>. QED BY <2>1, <2>2, <2>3 DEF HeirInv, SoleHeir
<1>. QED BY Invariant, HeirInvariant, <1>1, PTL

\* Every row, request and signed token has its type.
THEOREM TypeCorrect == Spec => []TypeOK
BY Invariant, PTL

\* A rotation's successor has a revoked predecessor with the same user and
\* scopes, under any interleaving of any number of refreshes and revocations.
THEOREM LineageSafe == Spec => []LineageInherits
<1>1. IInv => LineageInherits
  BY DEF IInv
<1>. QED BY Invariant, <1>1, PTL

\* Sessions slide forward by at most RefreshTTL from now, and no refresh that
\* came after its token expired is let in, though time passes between the two
\* clock readings of every refresh.
THEOREM RenewalSafe == Spec => []RenewedInTime
<1>1. IInv => RenewedInTime
  BY DEF IInv, RenewedInTime, SlidesForward, ExpiryBounded, SlotInv, ExpiredWaits
<1>. QED BY Invariant, <1>1, PTL

\* Once /revoke was answered 200, requests that arrive are stopped.
THEOREM LateSafe == Spec => []LateRequestsStopped
<1>1. IInv => LateRequestsStopped
  BY DEF IInv, SlotInv, LateAcked, LateRequestsStopped
<1>. QED BY Invariant, <1>1, PTL

\* 200 to /revoke is never a lie about the row.
THEOREM AckSafe == Spec => []AckMeansRevoked
<1>1. IInv => AckMeansRevoked
  BY DEF IInv
<1>. QED BY Invariant, <1>1, PTL

\* No access token is signed for a session that was not stored.
THEOREM SignedSafe == Spec => []SignedBesideRow
<1>1. IInv => SignedBesideRow
  BY DEF IInv
<1>. QED BY Invariant, <1>1, PTL

\* Update writes whole rows from copies read earlier, yet never revives one.
THEOREM RevocationSafe == Spec => RevocationPermanent
<1>1. TypeOK /\ IInv /\ [Next]_vars =>
        [\A t \in Tokens : Exists(t) /\ store[t].revoked
           => store'[t] # NoRow /\ store'[t].revoked]_vars
  BY RowStep DEF Exists
<1>. QED BY Invariant, <1>1, PTL DEF Spec, RevocationPermanent
-----------------------------------------------------------------------------
(* Refinement: every statement of a handler is a step of the ledger or none *)

LEMMA LedgerInit == Init => Ledger!Init
BY DEF Init, Ledger!Init

\* Creating a row opens a grant with the row's user, scopes and parent.
LEMMA LedgerBorn ==
  ASSUME TypeOK, NEW t \in Tokens, store[t] = NoRow, NEW r \in Row, ~r.revoked,
         store' = [store EXCEPT ![t] = r], signed' = signed
  PROVE  Ledger!Born(t, [user |-> r.user, scopes |-> r.scopes], r.rotatedFrom)
<1>1. r # NoRow
  BY NoRowAssumption
<1>. QED BY <1>1 DEF TypeOK, Ledger!Born

LEMMA LedgerMint ==
  ASSUME TypeOK, IInv, NEW s \in Slots, NEW t \in Tokens, pc[s] = "mint",
         store[t] = NoRow, store' = [store EXCEPT ![t] = NewRow(s, t)],
         signed' = signed
  PROVE  Ledger!Next
<1>1. PICK r \in Row : r = NewRow(s, t)
  BY NewRowType
<1>2. ~r.revoked /\ store' = [store EXCEPT ![t] = r]
  BY <1>1 DEF NewRow
<1>3. PICK o : o = [user |-> r.user, scopes |-> r.scopes]
  OBVIOUS
<1>4. Ledger!Born(t, o, r.rotatedFrom)
  BY <1>2, <1>3, LedgerBorn
<1>5. CASE r.rotatedFrom = NoToken
  <2>1. o \in [user : Users \cup {NoUser}, scopes : SUBSET Scopes]
    BY <1>3 DEF Row
  <2>2. Ledger!Open(t)
    BY <1>4, <1>5, <2>1 DEF Ledger!Open
  <2>. QED BY <2>2 DEF Ledger!Next
<1>6. CASE r.rotatedFrom # NoToken
  <2>1. req[s].kind = "refresh" /\ r.rotatedFrom = req[s].row.id
    BY <1>1, <1>6 DEF NewRow
  <2>2. PICK p : p = req[s].tok
    OBVIOUS
  <2>3. /\ Exists(p) /\ store[p].revoked
        /\ SameGrant(req[s].row, store[p]) /\ req[s].row.id = IdOf(p)
    BY <2>1, <2>2, RotationFacts
  <2>4. r.rotatedFrom = p /\ p \in Tokens /\ store[p] # NoRow
    BY <1>6, <2>1, <2>3 DEF IdOf, Exists
  <2>5. o = [user |-> store[p].user, scopes |-> store[p].scopes]
    BY <1>1, <1>3, <2>3 DEF SameGrant, NewRow
  <2>6. Ledger!Renew(p, t)
    BY <1>4, <2>3, <2>4, <2>5 DEF Ledger!Renew
  <2>. QED BY <2>4, <2>6 DEF Ledger!Next
<1>. QED BY <1>5, <1>6

LEMMA LedgerStep ==
  ASSUME TypeOK, IInv, [Next]_vars
  PROVE  [Ledger!Next]_Ledger!ledgerVars
<1>. USE DEF TypeOK
<1>1. ASSUME store' = store, signed' = signed
      PROVE  UNCHANGED Ledger!ledgerVars
  BY <1>1 DEF Ledger!ledgerVars
<1>2. ASSUME NEW s \in Slots, Retire(s)
      PROVE  [Ledger!Next]_Ledger!ledgerVars
  <2>1. PICK t, r : t = req[s].tok /\ r = [req[s].row EXCEPT !.revoked = TRUE]
    OBVIOUS
  <2>2. Exists(t) /\ SameGrant(req[s].row, store[t])
    BY <1>2, <2>1 DEF Retire, HoldsCopy, IInv, SlotInv, KindFits, CopyAgrees
  <2>3. /\ t \in Tokens /\ store[t] \in Row /\ store[t] # NoRow
        /\ r \in Row /\ r # NoRow /\ r.revoked /\ SameGrant(r, store[t])
    <3>1. req[s].row \in Row
      BY DEF Request
    <3>2. r \in Row /\ r.revoked /\ SameGrant(r, req[s].row)
      BY <2>1, <3>1 DEF Row, SameGrant
    <3>. QED BY <2>2, <3>2, NoRowAssumption DEF SameGrant, Exists
  <2>4. signed' = signed
    BY <1>2 DEF Retire
  <2>5. CASE store' = store
    BY <1>1, <2>4, <2>5
  <2>6. CASE store' = [store EXCEPT ![t] = r]
    <3>1. CASE store[t].revoked
      BY <2>3, <2>4, <2>6, <3>1 DEF Ledger!ledgerVars, SameGrant
    <3>2. CASE ~store[t].revoked
      <4>1. Ledger!Retire(t)
        BY <2>3, <2>4, <2>6, <3>2 DEF Ledger!Retire, SameGrant
      <4>. QED BY <2>3, <4>1 DEF Ledger!Next
    <3>. QED BY <3>1, <3>2
  <2>. QED BY <1>2, <2>1, <2>5, <2>6 DEF Retire
<1>3. ASSUME NEW s \in Slots, Mint(s) PROVE [Ledger!Next]_Ledger!ledgerVars
  <2>1. pc[s] = "mint" /\ signed' = signed
    BY <1>3 DEF Mint
  <2>2. CASE store' = store
    BY <1>1, <2>1, <2>2
  <2>3. CASE store' # store
    <3>1. PICK t \in Tokens : store[t] = NoRow /\ store' = [store EXCEPT ![t] = NewRow(s, t)]
      BY <1>3, <2>3 DEF Mint
    <3>. QED BY <2>1, <3>1, LedgerMint
  <2>. QED BY <2>2, <2>3
<1>4. ASSUME NEW s \in Slots, Issue(s) PROVE [Ledger!Next]_Ledger!ledgerVars
  <2>1. PICK t : t = req[s].minted
    OBVIOUS
  <2>2. /\ t \in Tokens /\ store[t] # NoRow
        /\ store[t].user = req[s].row.user
        /\ store[t].scopes = req[s].row.scopes
    BY <1>4, <2>1 DEF Issue, IInv, SlotInv, MintedExists, Exists
  <2>3. PICK j : j = [sub |-> store[t].user, scopes |-> store[t].scopes, beside |-> t]
    OBVIOUS
  <2>4. store' = store /\ signed' = signed \cup {j}
    BY <1>4, <2>1, <2>2, <2>3 DEF Issue
  <2>5. j.sub = store[t].user /\ j.scopes = store[t].scopes
    BY <2>3
  <2>6. {[user |-> k.sub, scopes |-> k.scopes] : k \in signed'} =
          {[user |-> k.sub, scopes |-> k.scopes] : k \in signed}
            \cup {[user |-> store[t].user, scopes |-> store[t].scopes]}
    BY <2>4, <2>5
  <2>7. Ledger!Sign(t)
    BY <2>2, <2>4, <2>6 DEF Ledger!Sign
  <2>. QED BY <2>2, <2>7 DEF Ledger!Next
<1>5. ASSUME NEW s \in Slots,
             \/ Arrive(s) \/ FindUser(s) \/ ValidateAccepts(s) \/ ValidateRejects(s)
             \/ ValidateFails(s) \/ Crash(s)
      PROVE  store' = store /\ signed' = signed
  BY <1>5 DEF Arrive, Login, Present, FindUser, ValidateAccepts, ValidateRejects,
              ValidateFails, Crash
<1>6. CASE Tick \/ UNCHANGED vars
  BY <1>1, <1>6 DEF Tick, vars
<1>. QED BY <1>1, <1>2, <1>3, <1>4, <1>5, <1>6 DEF Next, Step

\* The handlers, interleaved statement by statement and failing anywhere,
\* implement the ledger of grants.
THEOREM Refinement == Spec => KeepsLedger
<1>1. TypeOK /\ IInv /\ [Next]_vars => [Ledger!Next]_Ledger!ledgerVars
  BY LedgerStep
<1>. QED
  BY LedgerInit, Invariant, <1>1, PTL DEF Spec, KeepsLedger, Ledger!Spec
=============================================================================
