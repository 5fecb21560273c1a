-------------------------- MODULE MCGatewayRegistry --------------------------
(* TLC instance of GatewayRegistry: two registries, a sub-router, and   *)
(* the same calls on slices with and without spare capacity.               *)
EXTENDS GatewayRegistry

CONSTANTS main, functions, g1, read, quota

MW(provider, name, apply, onConflict) ==
  [provider |-> provider, name |-> name, apply |-> apply,
   onConflict |-> onConflict]

auth     == MW(<<>>, <<"a">>, "auth", "Error")
authAgain == MW(<<>>, <<"a">>, "auth2", "KeepFirst")
authNil  == MW(<<>>, <<"a">>, NilApply, "KeepLast")
acme     == MW(<<"letter">>, <<"a">>, "acme", "Error")
posing   == MW(<<>>, <<"letter", ":", "a">>, "posing", "KeepLast")
dotted   == MW(<<"letter", ".">>, <<"a">>, "dotted", "Error")

Slice(at, len) == [at |-> at, len |-> len]

\* Array 2 is the one a caller passes as ms...; array 3 holds two more.
MCHeaps ==
  { << <<>>, shared, <<auth, acme>>, <<authAgain>>, <<authNil>>, <<posing>>, <<dotted>> >> :
      shared \in {<<auth>>, <<acme, NilMiddleware>>, <<auth, NilMiddleware, NilMiddleware>>} }

R(pattern, handler, scope, policy, mws) ==
  [pattern |-> pattern, handler |-> handler, scope |-> scope,
   policy |-> policy, mws |-> mws]

MCOffers ==
  { R(<<"x">>, "h1", NoScope, quota, Slice(4, 1)),
    R(<<"y">>, "h2", read, NoPolicy, Slice(6, 1)),
    R(<<"y">>, "h3", NoScope, NoPolicy, Slice(1, 0)),
    R(<<"z">>, "h4", NoScope, NoPolicy, Slice(5, 1)),
    R(<<"z">>, "h5", NoScope, NoPolicy, Slice(7, 1)) }

Group(prefix, scope, policy, mws) ==
  [prefix |-> prefix, scope |-> scope, policy |-> policy, mws |-> mws]

MCSubCalls ==
  { Group(<<"api">>, read, quota, Slice(2, 1)),
    Group(<<>>, NoScope, quota, Slice(3, 2)) }

MCIncludeCalls ==
  { [prefix |-> <<"api">>, mws |-> Slice(1, 0)],
    [prefix |-> <<>>, mws |-> Slice(2, 1)] }
=============================================================================
