------------------------------ MODULE GrantLedger ------------------------------
(***************************************************************************)
(* What the authentication service promises about refresh tokens, without  *)
(* requests, databases or clocks.                                          *)
(*                                                                         *)
(* A refresh token is a grant to an owner, a user with a list of scopes.   *)
(* It is opened by a login, or renews a grant that is already dead and     *)
(* inherits its owner.  A dead grant never comes back to life, and access  *)
(* tokens are only ever signed for the owner of some grant.                *)
(***************************************************************************)
CONSTANTS Tokens, NoToken, Owners, NoOwner

VARIABLES
  state,   \* state[t]: "unborn", "live" or "dead"
  owner,   \* owner[t]: whom the grant is for
  parent,  \* parent[t]: the grant it renews, NoToken for a login
  signed   \* the owners access tokens were signed for

ledgerVars == <<state, owner, parent, signed>>

Init ==
  /\ state = [t \in Tokens |-> "unborn"]
  /\ owner = [t \in Tokens |-> NoOwner]
  /\ parent = [t \in Tokens |-> NoToken]
  /\ signed = {}

Born(t, o, p) ==
  /\ state[t] = "unborn"
  /\ state' = [state EXCEPT ![t] = "live"]
  /\ owner' = [owner EXCEPT ![t] = o]
  /\ parent' = [parent EXCEPT ![t] = p]
  /\ UNCHANGED signed

Open(t) == \E o \in Owners : Born(t, o, NoToken)

Renew(p, t) == state[p] = "dead" /\ Born(t, owner[p], p)

Retire(t) ==
  /\ state[t] = "live"
  /\ state' = [state EXCEPT ![t] = "dead"]
  /\ UNCHANGED <<owner, parent, signed>>

Sign(t) ==
  /\ state[t] # "unborn"
  /\ signed' = signed \cup {owner[t]}
  /\ UNCHANGED <<state, owner, parent>>

Next ==
  \E t \in Tokens :
    Open(t) \/ Retire(t) \/ Sign(t) \/ \E p \in Tokens : Renew(p, t)

Spec == Init /\ [][Next]_ledgerVars
=============================================================================
