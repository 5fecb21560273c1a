------------------------------ MODULE RouteTable ------------------------------
(***************************************************************************)
(* What the comments of internal/gateway/registry.go promise of a registry *)
(* before it is mounted: it is a list of routes, each with its own copy of *)
(* the middlewares it was declared with.  Every operation adds routes at   *)
(* the end of one list and changes no route that is there already.         *)
(***************************************************************************)
EXTENDS Sequences

CONSTANTS Registries, Groups, NoScope, NoPolicy, NoGroup

VARIABLES
  table,   \* table[r]: the routes of registry r, middlewares by value
  group    \* group[g]: the sub-router g, middlewares by value, or NoGroup

Either(own, default, none) == IF own = none THEN default ELSE own

Within(g, route) ==
  [route EXCEPT !.pattern = g.prefix \o @,
                !.scope   = Either(@, g.scope, NoScope),
                !.policy  = Either(@, g.policy, NoPolicy),
                !.mws     = g.mws \o @]

Under(args, routes) ==
  [i \in DOMAIN routes |->
     [routes[i] EXCEPT !.pattern = args.prefix \o @, !.mws = args.mws \o @]]

Init ==
  /\ table = [r \in Registries |-> <<>>]
  /\ group = [g \in Groups |-> NoGroup]

Declare(r, route) ==
  /\ table' = [table EXCEPT ![r] = Append(@, route)]
  /\ UNCHANGED group

Open(g, r, args) ==
  /\ group[g] = NoGroup
  /\ group' = [group EXCEPT ![g] = [registry |-> r, args |-> args]]
  /\ UNCHANGED table

DeclareIn(g, route) ==
  /\ group[g] # NoGroup
  /\ Declare(group[g].registry, Within(group[g].args, route))

Merge(r, other, args) ==
  /\ table' = [table EXCEPT ![r] = @ \o Under(args, table[other])]
  /\ UNCHANGED group
=============================================================================
