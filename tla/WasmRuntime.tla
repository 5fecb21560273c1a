----------------------------- MODULE WasmRuntime -----------------------------
(***************************************************************************)
(* The wasm kernel of internal/wasm: Runtime (runtime.go) with its cache   *)
(* of compiled modules, its calls and Close, and the capability Registry   *)
(* (capability.go).                                                        *)
(*                                                                         *)
(* wazero is external: it instantiates a module only while the runtime is  *)
(* open, all imported host modules are there and no live instance bears    *)
(* the name in the module's name section, since the code configures none.  *)
(* It stops a function at the deadline of the context only when configured *)
(* WithCloseOnContextDone, which the code does not ask for: CallTimeout    *)
(* does not appear below because it changes nothing.                       *)
(***************************************************************************)
CONSTANTS
  Slots,         \* goroutines
  Names,         \* names modules are compiled under
  Binaries,      \* wasm binaries
  Functions,     \* exported functions callers ask for
  Capabilities,  \* keys of capabilities, which are host modules too
  NoBinary,
  Anonymous      \* no module name

CONSTANTS
  WellFormed(_),     \* CompileModule accepts the binary
  SectionName(_),    \* the module name in its name section, or Anonymous
  Imports(_),        \* host modules it imports
  Exports(_),        \* functions it exports
  Spins(_)           \* it never returns from a function

ASSUME WasmAssumption == NoBinary \notin Binaries /\ Anonymous \notin Capabilities

VARIABLES
  cache,     \* cache[n]: the binary compiled under name n, or NoBinary
  writer,    \* the slots that hold mu for writing
  closed,    \* the runtime is closed
  live,      \* instances of modules: the slot that made it and the binary
  hosts,     \* host modules instantiated
  byKey,     \* Registry.byKey
  pending,   \* capabilities RegisterAll has yet to register
  registry,  \* how the last RegisterAll ended, or "running"
  pc, call,  \* the calls in progress
  answer     \* answer[s]: what the last call of slot s returned

compileVars == <<cache, writer>>
registryVars == <<byKey, pending, registry>>
vars == <<compileVars, closed, live, hosts, registryVars, pc, call, answer>>

NoCall == [name |-> Anonymous, binary |-> NoBinary, function |-> Anonymous]

Init ==
  /\ cache = [n \in Names |-> NoBinary]
  /\ writer = {}
  /\ closed = FALSE
  /\ live = {}
  /\ hosts = {}
  /\ byKey = {}
  /\ pending = {}
  /\ registry = "none"
  /\ pc = [s \in Slots |-> "idle"]
  /\ call = [s \in Slots |-> NoCall]
  /\ answer = [s \in Slots |-> "none"]

Goto(s, label) == pc' = [pc EXCEPT ![s] = label]

\* The method returns; what it held is gone.
Return(s, result) ==
  /\ Goto(s, "idle")
  /\ call' = [call EXCEPT ![s] = NoCall]
  /\ answer' = [answer EXCEPT ![s] = result]

Enter(s, label, c) ==
  /\ pc[s] = "idle"
  /\ Goto(s, label)
  /\ call' = [call EXCEPT ![s] = c]
  /\ answer' = [answer EXCEPT ![s] = "none"]

-----------------------------------------------------------------------------
(* Runtime.Compile *)

Compile(s, n, b) ==
  /\ Enter(s, "lock", [NoCall EXCEPT !.name = n, !.binary = b])
  /\ UNCHANGED <<compileVars, closed, live, hosts, registryVars>>

\* Mutant: the cache is looked up under a read lock before compiling.
CompileLockShared(s) ==
  /\ pc[s] = "lock"
  /\ \/ /\ cache[call[s].name] # NoBinary
        /\ Return(s, "ok")
     \/ /\ cache[call[s].name] = NoBinary
        /\ Goto(s, "compile")
        /\ UNCHANGED <<call, answer>>
  /\ UNCHANGED <<compileVars, closed, live, hosts, registryVars>>

\* mu.Lock, and the return for a name that is cached.
CompileLock(s) ==
  /\ pc[s] = "lock" /\ writer = {}
  /\ \/ /\ cache[call[s].name] # NoBinary
        /\ Return(s, "ok") /\ UNCHANGED writer
     \/ /\ cache[call[s].name] = NoBinary
        /\ Goto(s, "compile") /\ writer' = {s}
        /\ UNCHANGED <<call, answer>>
  /\ UNCHANGED <<cache, closed, live, hosts, registryVars>>

\* Mutant: the error return forgets to unlock.
CompileKeepsLock(s) ==
  /\ pc[s] = "compile"
  /\ IF WellFormed(call[s].binary) /\ ~closed
       THEN /\ cache' = [cache EXCEPT ![call[s].name] = call[s].binary]
            /\ Return(s, "ok") /\ writer' = writer \ {s}
       ELSE Return(s, "error") /\ UNCHANGED <<cache, writer>>
  /\ UNCHANGED <<closed, live, hosts, registryVars>>

CompileModule(s) ==
  /\ pc[s] = "compile"
  /\ IF WellFormed(call[s].binary) /\ ~closed
       THEN /\ cache' = [cache EXCEPT ![call[s].name] = call[s].binary]
            /\ Return(s, "ok")
       ELSE Return(s, "error") /\ UNCHANGED cache
  /\ writer' = writer \ {s}
  /\ UNCHANGED <<closed, live, hosts, registryVars>>

-----------------------------------------------------------------------------
(* Runtime.Call *)

Call(s, n, f) ==
  /\ Enter(s, "lookup", [NoCall EXCEPT !.name = n, !.function = f])
  /\ UNCHANGED <<compileVars, closed, live, hosts, registryVars>>

\* Mutant: the lookup's miss goes unnoticed.
LookupMissed(s) ==
  /\ pc[s] = "lookup" /\ writer = {}
  /\ Goto(s, "instantiate")
  /\ call' = [call EXCEPT ![s].binary = cache[call[s].name]]
  /\ UNCHANGED <<compileVars, closed, live, hosts, registryVars, answer>>

\* The read lock is held for the lookup only.
Lookup(s) ==
  /\ pc[s] = "lookup" /\ writer = {}
  /\ LET b == cache[call[s].name]
     IN  IF b = NoBinary THEN Return(s, "error")
         ELSE /\ Goto(s, "instantiate")
              /\ call' = [call EXCEPT ![s].binary = b]
              /\ UNCHANGED answer
  /\ UNCHANGED <<compileVars, closed, live, hosts, registryVars>>

Instance(s) == [slot |-> s, binary |-> call[s].binary]

\* wazero: module names are unique, host modules included.
NameTaken(name) ==
  /\ name # Anonymous
  /\ name \in hosts \cup {SectionName(i.binary) : i \in live}

Instantiate(s) ==
  /\ pc[s] = "instantiate"
  /\ LET b == call[s].binary
     IN  IF closed \/ ~(Imports(b) \subseteq hosts) \/ NameTaken(SectionName(b))
           THEN Return(s, "error") /\ UNCHANGED live
           ELSE /\ live' = live \cup {Instance(s)}
                /\ Goto(s, "run")
                /\ UNCHANGED <<call, answer>>
  /\ UNCHANGED <<compileVars, closed, hosts, registryVars>>

\* The deferred mod.Close: whichever way Call returns from here on.
Unload(s) == live' = live \ {Instance(s)}

\* Mutant: mod.Close is deferred only after the function was found.
NoFunctionLeaks(s) ==
  /\ pc[s] = "run" /\ call[s].function \notin Exports(call[s].binary)
  /\ Return(s, "error")
  /\ UNCHANGED <<compileVars, closed, live, hosts, registryVars>>

NoFunction(s) ==
  /\ pc[s] = "run" /\ call[s].function \notin Exports(call[s].binary)
  /\ Return(s, "error")
  /\ Unload(s)
  /\ UNCHANGED <<compileVars, closed, hosts, registryVars>>

\* The function returns or traps; a host module it calls may be closed.
Run(s) ==
  /\ pc[s] = "run" /\ call[s].function \in Exports(call[s].binary)
  /\ ~Spins(call[s].binary)
  /\ \/ ~closed /\ Return(s, "ok")
     \/ closed /\ Return(s, "error")
  /\ Unload(s)
  /\ UNCHANGED <<compileVars, closed, hosts, registryVars>>

(* Runtime.Close: every instance is closed with the runtime. *)
Close ==
  /\ ~closed /\ closed' = TRUE
  /\ live' = {} /\ hosts' = {}
  /\ UNCHANGED <<compileVars, registryVars, pc, call, answer>>

-----------------------------------------------------------------------------
(* Registry.Add and Registry.RegisterAll *)

Add(c) ==
  /\ registry # "running" /\ c \notin byKey
  /\ byKey' = byKey \cup {c}
  /\ UNCHANGED <<compileVars, closed, live, hosts, pending, registry, pc, call,
                 answer>>

RegisterAll ==
  /\ registry # "running" /\ byKey # {}
  /\ registry' = "running" /\ pending' = byKey
  /\ UNCHANGED <<compileVars, closed, live, hosts, byKey, pc, call, answer>>

\* Mutant: a failing capability is skipped.
RegisterSkips(c) ==
  /\ registry = "running" /\ c \in pending
  /\ hosts' = IF closed \/ NameTaken(c) THEN hosts ELSE hosts \cup {c}
  /\ pending' = pending \ {c}
  /\ registry' = IF pending' = {} THEN "ok" ELSE "running"
  /\ UNCHANGED <<compileVars, closed, live, byKey, pc, call, answer>>

\* The range visits the map in any order and stops at the first error.
Register(c) ==
  /\ registry = "running" /\ c \in pending
  /\ \/ /\ ~closed /\ ~NameTaken(c)
        /\ hosts' = hosts \cup {c}
        /\ pending' = pending \ {c}
        /\ registry' = IF pending' = {} THEN "ok" ELSE "running"
     \/ /\ closed \/ NameTaken(c)
        /\ registry' = "error" /\ pending' = {}
        /\ UNCHANGED hosts
  /\ UNCHANGED <<compileVars, closed, live, byKey, pc, call, answer>>

-----------------------------------------------------------------------------
Step(s) ==
  \/ CompileLock(s) \/ CompileModule(s)
  \/ Lookup(s) \/ Instantiate(s) \/ NoFunction(s) \/ Run(s)

Next ==
  \/ \E s \in Slots :
       \/ \E n \in Names, b \in Binaries : Compile(s, n, b)
       \/ \E n \in Names, f \in Functions : Call(s, n, f)
       \/ Step(s)
  \/ \E c \in Capabilities : Add(c) \/ Register(c)
  \/ RegisterAll \/ Close

\* The scheduler runs every goroutine that can go on.  Only mu takes a step away
\* again, and it starves nobody: a waiting Lock keeps later readers out.
Fairness == \A s \in Slots : SF_vars(Step(s))

Spec == Init /\ [][Next]_vars /\ Fairness

-----------------------------------------------------------------------------
(* Properties *)

\* The state is typed, and mu is held for writing exactly by who compiles.
TypeOK ==
  /\ cache \in [Names -> Binaries \cup {NoBinary}]
  /\ writer = {s \in Slots : pc[s] = "compile"}
  /\ \A s, t \in writer : s = t
  /\ closed \in BOOLEAN
  /\ live \subseteq [slot : Slots, binary : Binaries]
  /\ hosts \subseteq byKey /\ byKey \subseteq Capabilities
  /\ pending \subseteq byKey
  /\ registry \in {"none", "running", "ok", "error"}
  /\ pc \in [Slots -> {"idle", "lock", "compile", "lookup", "instantiate", "run"}]
  /\ call \in [Slots -> [name : Names \cup {Anonymous},
                         binary : Binaries \cup {NoBinary},
                         function : Functions \cup {Anonymous}]]
  /\ answer \in [Slots -> {"none", "ok", "error"}]

(* Every instance, and so its memory, belongs to a call that is running    *)
(* it, and no two instances bear one module name: the early return for a   *)
(* missing function unloads too, and nothing is left behind by Close.      *)
NoOrphans ==
  /\ \A i \in live : pc[i.slot] = "run" /\ call[i.slot].binary = i.binary
  /\ \A i, j \in live : i # j /\ SectionName(i.binary) # Anonymous =>
       SectionName(i.binary) # SectionName(j.binary)
  /\ \A i \in live : SectionName(i.binary) \notin hosts

(* The first binary compiled under a name stays its binary for good, and   *)
(* is the one a call in progress runs, however compilations and calls of   *)
(* that name overlap (runtime.go:57).                                      *)
ArtifactsFixed ==
  [][\A s \in Slots, n \in Names :
       /\ cache[n] # NoBinary => cache'[n] = cache[n]
       /\ pc'[s] \in {"instantiate", "run"} /\ call'[s].name = n =>
            call'[s].binary = cache'[n]]_vars

\* A module that has no name, finds its imports, and returns.
Sound(b, f) ==
  /\ b # NoBinary /\ SectionName(b) = Anonymous
  /\ Imports(b) \subseteq hosts /\ f \in Exports(b) /\ ~Spins(b)

(* Calls of sound modules succeed whatever other calls, compilations and   *)
(* registrations go on beside them, functions that never return included,  *)
(* until the runtime is closed.  Of modules with a name section this does  *)
(* not hold: a second instance is refused while one lives (runtime.go:84). *)
SoundCallsSucceed ==
  \A s \in Slots :
    pc[s] = "lookup" /\ Sound(cache[call[s].name], call[s].function)
      ~> answer[s] = "ok" \/ closed

(* RegisterAll returns nil only when every capability added is there, in   *)
(* whatever order it visits them and wherever it stopped before            *)
(* (capability.go:62).                                                     *)
RegisteredMeansAll ==
  [][registry = "running" /\ registry' = "ok" => byKey \subseteq hosts']_vars
=============================================================================
