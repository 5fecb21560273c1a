--------------------------- MODULE GatewayRegistry ---------------------------
(***************************************************************************)
(* The route registry of internal/gateway: registry.go (Registry,          *)
(* SubRouter, Include, Mount, dedupeMiddlewares) and named.go.             *)
(*                                                                         *)
(* Go slices are modelled as they are: a slice is a window of a backing    *)
(* array, append writes into that array when it has room behind the window *)
(* and moves to a fresh array of twice the capacity when it has none.      *)
(* Patterns are sequences of segments, and names and providers sequences   *)
(* of characters, of which only the classes the code tells apart matter.   *)
(***************************************************************************)
EXTENDS Integers, SequencesExt

CONSTANTS
  Registries, Root,   \* the registries, and the one that is mounted
  Groups,             \* sub-routers
  Heaps,              \* backing arrays the caller may have built, 1 is empty
  Offers,             \* routes the caller may declare
  SubCalls,           \* arguments of Sub: prefix, scope, policy, mws
  IncludeCalls,       \* arguments of Include: prefix, mws
  NoScope, NoPolicy, NoGroup, NilApply, NilMiddleware,
  MaxCalls            \* bound on the calls before Mount

VARIABLES
  heap,     \* the backing arrays
  routes,   \* routes[r]: Registry.routes
  subs,     \* subs[g]: the SubRouter g, or NoGroup
  calls,    \* calls made, for the bound
  mux,      \* the routes handed to the ServeMux: pattern and handler chain
  outcome   \* "building", "mounting", or how Mount ended

vars == <<heap, routes, subs, calls, mux, outcome>>

View(h, s) == SubSeq(h[s.at], 1, s.len)

\* A slice lies in its array and shows none of the zero values behind it.
IsWindow(h, s) ==
  /\ s.at \in DOMAIN h /\ s.len \in 0 .. Len(h[s.at])
  /\ \A n \in 1 .. s.len : h[s.at][n] # NilMiddleware

Middlewares ==
  (UNION {UNION {Range(h[a]) : a \in DOMAIN h} : h \in Heaps}) \ {NilMiddleware}

\* A backing array ends in zero values where append left room.
Arrays == Seq(Seq(Middlewares \cup {NilMiddleware}))

IsList(x) == x \in Seq(Range(x))

IsRoute(x) ==
  x = [pattern |-> x.pattern, handler |-> x.handler, scope |-> x.scope,
       policy |-> x.policy, mws |-> [at |-> x.mws.at, len |-> x.mws.len]]

IsGroup(x) ==
  x = [prefix |-> x.prefix, scope |-> x.scope, policy |-> x.policy,
       mws |-> [at |-> x.mws.at, len |-> x.mws.len]]

IsInclude(x) ==
  x = [prefix |-> x.prefix, mws |-> [at |-> x.mws.at, len |-> x.mws.len]]

\* The callers pass routes and slices as they have built them.
ASSUME RegistryAssumption ==
  /\ Root \in Registries /\ MaxCalls \in Nat
  /\ \A h \in Heaps :
       /\ h \in Arrays
       /\ \A x \in Offers \cup SubCalls \cup IncludeCalls : IsWindow(h, x.mws)
  /\ \A m \in Middlewares : IsList(m.name) /\ IsList(m.provider)
  /\ \A x \in Offers : IsRoute(x)
  /\ \A x \in SubCalls : IsGroup(x)
  /\ \A x \in IncludeCalls : IsInclude(x)
  /\ NoGroup \notin [registry : Registries, args : SubCalls]
  /\ NoGroup \notin [registry : Registries,
                     args : [prefix : {x.prefix : x \in SubCalls},
                             scope  : {x.scope : x \in SubCalls},
                             policy : {x.policy : x \in SubCalls},
                             mws    : Seq(Middlewares)]]

\* append(s, xs...) on the arrays h.
GoAppend(h, s, xs) ==
  LET n    == s.len + Len(xs)
      cap  == Len(h[s.at])
      room == [i \in 1 .. (IF 2 * cap > n THEN 2 * cap - n ELSE 0) |->
                 NilMiddleware]
  IN  IF n <= cap
        THEN [heap  |-> [h EXCEPT ![s.at] =
                 SubSeq(@, 1, s.len) \o xs \o SubSeq(@, n + 1, cap)],
              slice |-> [s EXCEPT !.len = n]]
        ELSE [heap  |-> Append(h, View(h, s) \o xs \o room),
              slice |-> [at |-> Len(h) + 1, len |-> n]]

Init ==
  /\ heap \in Heaps
  /\ routes = [r \in Registries |-> <<>>]
  /\ subs = [g \in Groups |-> NoGroup]
  /\ calls = 0
  /\ mux = <<>>
  /\ outcome = "building"

Call ==
  /\ outcome = "building" /\ calls < MaxCalls
  /\ calls' = calls + 1

(* Registry.Add *)
Add(r, route) ==
  /\ Call
  /\ routes' = [routes EXCEPT ![r] = Append(@, route)]
  /\ UNCHANGED <<heap, subs, mux, outcome>>

(* Registry.Sub: the sub-router keeps the caller's slice. *)
Sub(g, r, args) ==
  /\ Call /\ subs[g] = NoGroup
  /\ subs' = [subs EXCEPT ![g] = [registry |-> r, args |-> args]]
  /\ UNCHANGED <<heap, routes, mux, outcome>>

OrDefault(own, default, none) == IF own = none THEN default ELSE own

\* Mutants of SubAdd: a fresh slice made with a length instead of a capacity,
\* and the route's own middlewares outside those of the group.
SubAddPadded(g, route) ==
  /\ Call /\ subs[g] # NoGroup
  /\ LET s == subs[g].args
         merged == [i \in 1 .. s.mws.len |-> NilMiddleware]
                   \o View(heap, s.mws) \o View(heap, route.mws)
     IN /\ heap' = Append(heap, merged)
        /\ routes' = [routes EXCEPT ![subs[g].registry] = Append(@,
             [route EXCEPT !.pattern = s.prefix \o @,
                           !.mws = [at |-> Len(heap) + 1,
                                    len |-> Len(merged)]])]
  /\ UNCHANGED <<subs, mux, outcome>>

SubAddOwnFirst(g, route) ==
  /\ Call /\ subs[g] # NoGroup
  /\ LET s == subs[g].args
         merged == GoAppend(heap, route.mws, View(heap, s.mws))
     IN /\ heap' = merged.heap
        /\ routes' = [routes EXCEPT ![subs[g].registry] = Append(@,
             [route EXCEPT
                !.pattern = s.prefix \o @,
                !.scope   = OrDefault(@, s.scope, NoScope),
                !.policy  = OrDefault(@, s.policy, NoPolicy),
                !.mws     = merged.slice])]
  /\ UNCHANGED <<subs, mux, outcome>>

(* SubRouter.Add *)
SubAdd(g, route) ==
  /\ Call /\ subs[g] # NoGroup
  /\ LET s == subs[g].args
         merged == GoAppend(heap, s.mws, View(heap, route.mws))
     IN /\ heap' = merged.heap
        /\ routes' = [routes EXCEPT ![subs[g].registry] = Append(@,
             [route EXCEPT
                !.pattern = s.prefix \o @,
                !.scope   = OrDefault(@, s.scope, NoScope),
                !.policy  = OrDefault(@, s.policy, NoPolicy),
                !.mws     = merged.slice])]
  /\ UNCHANGED <<subs, mux, outcome>>

\* One route of the other registry, and the loop over all of them.
Merged(acc, route, args) ==
  LET merged == GoAppend(acc.heap, args.mws, View(acc.heap, route.mws))
  IN  [heap   |-> merged.heap,
       routes |-> Append(acc.routes,
                    [route EXCEPT !.pattern = args.prefix \o @,
                                  !.mws = merged.slice])]

Merging(own, from, args) ==
  LET acc[n \in 0 .. Len(from)] ==
        IF n = 0 THEN [heap |-> heap, routes |-> own]
        ELSE Merged(acc[n - 1], from[n], args)
  IN  acc

(* Registry.Include: range reads other.routes once, so a registry may      *)
(* include itself.                                                         *)
Include(r, other, args) ==
  /\ Call
  /\ LET all == Merging(routes[r], routes[other], args)[Len(routes[other])]
     IN  /\ heap' = all.heap
         /\ routes' = [routes EXCEPT ![r] = all.routes]
  /\ UNCHANGED <<subs, mux, outcome>>

-----------------------------------------------------------------------------
(* NamedMiddleware, named.go *)

Valid(provider) ==
  \A i \in DOMAIN provider : provider[i] \in {"letter", "digit", "-", "_"}

\* TrimSpace(Name) # "": a character that is not a space.
Validates(m) ==
  /\ Valid(m.provider)
  /\ \E i \in DOMAIN m.name : m.name[i] # " "

\* Mutant of Key: the provider forgotten.
KeyBare(m) == m.name

Key(m) ==
  IF m.provider = <<>> THEN m.name ELSE m.provider \o <<":">> \o m.name

\* Mutant of Consider: keep-last adds the later one instead of replacing.
ConsiderAppends(acc, m) ==
  LET seen == {i \in DOMAIN acc.out : Key(acc.out[i]) = Key(m)}
  IN  CASE acc.failed -> acc
        [] ~acc.failed /\ seen # {} /\ m.onConflict = "KeepFirst" -> acc
        [] ~Validates(m) \/ m.apply = NilApply
           \/ (seen # {} /\ m.onConflict = "Error") ->
             [acc EXCEPT !.failed = TRUE]
        [] OTHER -> [acc EXCEPT !.out = Append(@, m)]

(* The loop body of dedupeMiddlewares; seen is the set of positions of out *)
(* with the key of m.                                                      *)
Consider(acc, m) ==
  LET seen == {i \in DOMAIN acc.out : Key(acc.out[i]) = Key(m)}
      fail == [acc EXCEPT !.failed = TRUE]
  IN  CASE acc.failed -> acc
        [] ~acc.failed /\ ~Validates(m) -> fail
        [] ~acc.failed /\ Validates(m) /\ seen # {} ->
             (CASE m.onConflict = "KeepFirst" -> acc
                [] m.onConflict = "KeepLast" ->
                     [acc EXCEPT !.out = [i \in DOMAIN @ |->
                        IF i \in seen THEN m ELSE @[i]]]
                [] OTHER -> fail)
        [] OTHER -> IF m.apply = NilApply THEN fail
                    ELSE [acc EXCEPT !.out = Append(@, m)]

Deduping(ms) ==
  LET acc[n \in 0 .. Len(ms)] ==
        IF n = 0 THEN [out |-> <<>>, failed |-> FALSE]
        ELSE Consider(acc[n - 1], ms[n])
  IN  acc

Dedupe(ms) == Deduping(ms)[Len(ms)]

Layer(x, none) == IF x = none THEN <<>> ELSE <<x>>

(* The layers around a handler, outermost first. *)
Chain(route, ms) ==
  <<"authenticate">> \o Layer(route.scope, NoScope) \o Layer(route.policy, NoPolicy)
    \o [i \in DOMAIN ms |-> ms[i].apply] \o <<route.handler>>

StartMount ==
  /\ outcome = "building"
  /\ outcome' = "mounting"
  /\ UNCHANGED <<heap, routes, subs, calls, mux>>

\* Mutant of Mount: the survivors are collected in ms[:0], the route's array.
MountInPlace ==
  /\ outcome = "mounting" /\ Len(mux) < Len(routes[Root])
  /\ LET route == routes[Root][Len(mux) + 1]
         deduped == Dedupe(View(heap, route.mws))
     IN  IF deduped.failed
           THEN outcome' = "error" /\ UNCHANGED <<heap, mux>>
           ELSE /\ heap' = GoAppend(heap, [route.mws EXCEPT !.len = 0],
                                    deduped.out).heap
                /\ mux' = Append(mux, [pattern |-> route.pattern,
                                       chain |-> Chain(route, deduped.out)])
                /\ UNCHANGED outcome
  /\ UNCHANGED <<routes, subs, calls>>

(* One iteration of Registry.Mount.  Calling a nil Apply panics, and so    *)
(* does ServeMux.Handle for a pattern it has.                              *)
Mount ==
  /\ outcome = "mounting" /\ Len(mux) < Len(routes[Root])
  /\ LET route == routes[Root][Len(mux) + 1]
         deduped == Dedupe(View(heap, route.mws))
         panics == \/ \E i \in DOMAIN deduped.out :
                         deduped.out[i].apply = NilApply
                   \/ \E i \in DOMAIN mux : mux[i].pattern = route.pattern
     IN  \/ /\ deduped.failed
            /\ outcome' = "error"
            /\ UNCHANGED mux
         \/ /\ ~deduped.failed /\ panics
            /\ outcome' = "panic"
            /\ UNCHANGED mux
         \/ /\ ~deduped.failed /\ ~panics
            /\ mux' = Append(mux, [pattern |-> route.pattern,
                                   chain |-> Chain(route, deduped.out)])
            /\ UNCHANGED outcome
  /\ UNCHANGED <<heap, routes, subs, calls>>

EndMount ==
  /\ outcome = "mounting" /\ Len(mux) = Len(routes[Root])
  /\ outcome' = "ok"
  /\ UNCHANGED <<heap, routes, subs, calls, mux>>

Next ==
  \/ \E r \in Registries, route \in Offers : Add(r, route)
  \/ \E g \in Groups, r \in Registries, args \in SubCalls : Sub(g, r, args)
  \/ \E g \in Groups, route \in Offers : SubAdd(g, route)
  \/ \E r, other \in Registries, args \in IncludeCalls :
        Include(r, other, args)
  \/ StartMount \/ Mount \/ EndMount

Spec == Init /\ [][Next]_vars

-----------------------------------------------------------------------------
(* Properties *)

(* Every slice is a window of an array, no window ever shows the zero      *)
(* values append leaves behind it, and Mount counts the routes it served.  *)
TypeOK ==
  /\ heap \in Arrays
  /\ routes = [r \in Registries |-> routes[r]]
  /\ \A r \in Registries :
       /\ IsList(routes[r])
       /\ \A i \in DOMAIN routes[r] :
            IsRoute(routes[r][i]) /\ IsWindow(heap, routes[r][i].mws)
  /\ \A x \in Offers \cup SubCalls \cup IncludeCalls : IsWindow(heap, x.mws)
  /\ subs \in [Groups -> {NoGroup} \cup [registry : Registries, args : SubCalls]]
  /\ calls \in 0 .. MaxCalls
  /\ IsList(mux) /\ Len(mux) <= Len(routes[Root])
  /\ outcome \in {"building", "mounting", "ok", "error", "panic"}

ByValue(h, record) == [record EXCEPT !.mws = View(h, @)]

table == [r \in Registries |->
            [i \in DOMAIN routes[r] |-> ByValue(heap, routes[r][i])]]
group == [g \in Groups |->
            IF subs[g] = NoGroup THEN NoGroup
            ELSE [subs[g] EXCEPT !.args = ByValue(heap, @)]]

Table == INSTANCE RouteTable

\* The slices passed as ms... end where their arrays end.
Bundles == {args.mws : args \in SubCalls \cup IncludeCalls}

Roomless == \A s \in Bundles : s.len = Len(heap[s.at])

TableStep ==
  \/ \E r \in Registries, route \in Offers :
       Table!Declare(r, ByValue(heap, route))
  \/ \E g \in Groups, r \in Registries, args \in SubCalls :
       Table!Open(g, r, ByValue(heap, args))
  \/ \E g \in Groups, route \in Offers :
       Table!DeclareIn(g, ByValue(heap, route))
  \/ \E r, other \in Registries, args \in IncludeCalls :
       Table!Merge(r, other, ByValue(heap, args))

(* Registries built from slices without spare capacity (literals, or       *)
(* variadic arguments written out) behave as lists of routes that own      *)
(* their middlewares, whatever arrays append shares or moves to.           *)
KeepsTable ==
  /\ Table!Init
  /\ [][Roomless => TableStep]_<<table, group>>

(* With spare capacity behind a slice passed as ms... (registry.go:96 and  *)
(* :123) routes do change behind the caller's back, but only so: the route *)
(* lies in the array of such a slice, the slice's own window is kept, and  *)
(* a route added in this step lies in that array too.                      *)
RewrittenOnlyBehindSharedPrefix ==
  [][\A r \in Registries : \A i \in DOMAIN routes[r] :
       LET s == routes[r][i].mws
       IN  View(heap', s) # View(heap, s) =>
             \E base \in Bundles :
               /\ base.at = s.at /\ base.len < Len(heap[s.at])
               /\ View(heap', base) = View(heap, base)
               /\ \E q \in Registries : \E j \in DOMAIN routes'[q] :
                    /\ j > Len(routes[q])
                    /\ routes'[q][j].mws.at = s.at]_vars

\* What dedupeMiddlewares is documented to keep, from sets of positions.
Leaders(ms) ==
  {i \in DOMAIN ms : \A j \in 1 .. i - 1 : Key(ms[j]) # Key(ms[i])}

Overriders(ms, i) ==
  {j \in DOMAIN ms : j > i /\ Key(ms[j]) = Key(ms[i])
                           /\ ms[j].onConflict = "KeepLast"}

Refused(ms) ==
  \E i \in DOMAIN ms :
    \/ ~Validates(ms[i])
    \/ i \in Leaders(ms) /\ ms[i].apply = NilApply
    \/ i \notin Leaders(ms) /\ ms[i].onConflict \notin {"KeepFirst", "KeepLast"}

\* The leaders in their order; there is one such list.
Orders(ms) ==
  {f \in UNION {[1 .. n -> Leaders(ms)] : n \in 0 .. Len(ms)} :
     /\ Range(f) = Leaders(ms)
     /\ \A m, n \in DOMAIN f : m < n => f[m] < f[n]}

Survivors(ms) ==
  {[n \in DOMAIN f |-> ms[Max({f[n]} \cup Overriders(ms, f[n]))]] : f \in Orders(ms)}

Declared(i) == View(heap, routes[Root][i].mws)

Taken(i) ==
  \E j \in 1 .. i - 1 : routes[Root][j].pattern = routes[Root][i].pattern

HasNil(kept) == \E n \in DOMAIN kept : kept[n].apply = NilApply

NilSurvives(i) == \E kept \in Survivors(Declared(i)) : HasNil(kept)

Served(i) ==
  LET route == routes[Root][i]
  IN  /\ ~Refused(Declared(i)) /\ ~Taken(i)
      /\ mux[i].pattern = route.pattern
      /\ \E kept \in Survivors(Declared(i)) :
           /\ ~HasNil(kept)
           /\ mux[i].chain =
                <<"authenticate">> \o Layer(route.scope, NoScope)
                  \o Layer(route.policy, NoPolicy)
                  \o [n \in DOMAIN kept |-> kept[n].apply] \o <<route.handler>>

(* Mount serves the routes in order behind authentication, then scope,     *)
(* then quota, then the middlewares that the conflict policies leave, and  *)
(* stops at the first route that cannot be served: with an error when its  *)
(* list is refused, by a panic when its pattern is taken or a keep-last    *)
(* duplicate without Apply took the place of a good middleware             *)
(* (registry.go:186).  Earlier routes stay served; ok means all are.       *)
MountStopsAtFirstFault ==
  LET n == Len(mux) + 1
  IN  /\ \A i \in DOMAIN mux : Served(i)
      /\ outcome = "ok" => n > Len(routes[Root])
      /\ outcome \in {"error", "panic"} => n <= Len(routes[Root])
      /\ outcome = "error" => Refused(Declared(n))
      /\ outcome = "panic" =>
           ~Refused(Declared(n)) /\ (Taken(n) \/ NilSurvives(n))

(* Middlewares of the platform and of providers do not displace each       *)
(* other: one declared on a served route runs, unless another of the same  *)
(* provider and name is declared on it or a bare name contains the colon   *)
(* that separates provider and name (named.go:78).                         *)
OnlyNamesakesDisplace ==
  \A i \in DOMAIN mux : \A k \in DOMAIN Declared(i) :
    LET m == Declared(i)[k]
        Colon(x) == x.provider = <<>> /\ Contains(x.name, ":")
    IN  \/ Contains(mux[i].chain, m.apply)
        \/ \E j \in DOMAIN Declared(i) \ {k} :
             LET x == Declared(i)[j]
             IN  \/ x.provider = m.provider /\ x.name = m.name
                 \/ (Colon(x) \/ Colon(m)) /\ x.provider # m.provider
=============================================================================
