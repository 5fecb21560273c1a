\* Two registries, one sub-router and four calls before Mount.
CONSTANTS
  main = main
  functions = functions
  g1 = g1
  read = read
  quota = quota
  Registries = {main, functions}
  Root = main
  Groups = {g1}
  Heaps <- MCHeaps
  Offers <- MCOffers
  SubCalls <- MCSubCalls
  IncludeCalls <- MCIncludeCalls
  NoScope = NoScope
  NoPolicy = NoPolicy
  NoGroup = NoGroup
  NilApply = NilApply
  NilMiddleware = NilMiddleware
  MaxCalls = 4
SPECIFICATION Spec
\* Nothing is called on a registry once Mount has returned.
CHECK_DEADLOCK FALSE
INVARIANTS TypeOK MountStopsAtFirstFault OnlyNamesakesDisplace
PROPERTIES KeepsTable RewrittenOnlyBehindSharedPrefix
