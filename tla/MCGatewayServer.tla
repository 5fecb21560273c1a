--------------------------- MODULE MCGatewayServer ---------------------------
(* TLC instance of GatewayServer: one policy of one token per tick and key. *)
EXTENDS GatewayServer

CONSTANTS g1, g2, ann, me, policy, short, root, writer, blank, forged

Only(x) == [p \in Policies |-> x]
PolicyOfRoute == [r \in Routes |-> policy]
PerKey == Only("per-key")
Ones == Only(1)

\* short expires while its requests are under way.
ClaimsOf ==
  [t \in Tokens |->
    [genuine |-> t # forged,
     sub |-> IF t = blank THEN "" ELSE ann,
     scopes |-> CASE t = root -> {"admin"} [] t = writer -> {"write"} [] OTHER -> {"read"},
     exp |-> IF t = short THEN 1 ELSE 9]]
=============================================================================
