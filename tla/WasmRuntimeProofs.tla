--------------------------- MODULE WasmRuntimeProofs ---------------------------
(***************************************************************************)
(* Proofs about WasmRuntime, for any number of goroutines, names, binaries *)
(* and capabilities, whatever the binaries import, export and are called.  *)
(*                                                                         *)
(* What a call between two steps relies on is in Artifacts: a goroutine    *)
(* that compiles found no binary under its name, and one past the lookup   *)
(* has the binary that is cached.  The write lock keeps the first true     *)
(* while another goroutine compiles, and with it the second.               *)
(***************************************************************************)
EXTENDS WasmRuntime, TLAPS

Loaded(s) == pc[s] \in {"instantiate", "run"}

Artifacts ==
  \A s \in Slots :
    /\ pc[s] # "idle" => call[s].name \in Names
    /\ pc[s] \in {"lock", "compile"} => call[s].binary \in Binaries
    /\ pc[s] = "compile" => cache[call[s].name] = NoBinary
    /\ Loaded(s) => /\ call[s].binary \in Binaries
                    /\ call[s].binary = cache[call[s].name]

CacheInv == TypeOK /\ Artifacts

LEMMA CacheInit == Init => CacheInv
<1> SUFFICES ASSUME Init PROVE CacheInv
  OBVIOUS
<1>1. writer = {s \in Slots : pc[s] = "compile"} /\ \A s, t \in writer : s = t
  BY DEF Init
<1>2. call \in [Slots -> [name : Names \cup {Anonymous},
                         binary : Binaries \cup {NoBinary},
                         function : Functions \cup {Anonymous}]]
  BY DEF Init, NoCall
<1> QED
  BY <1>1, <1>2 DEF Init, CacheInv, TypeOK, Artifacts, Loaded

LEMMA CacheStep == CacheInv /\ [Next]_vars => CacheInv'
<1> SUFFICES ASSUME CacheInv, [Next]_vars PROVE CacheInv'
  OBVIOUS
<1> USE WasmAssumption
<1>1. ASSUME NEW s \in Slots, NEW n \in Names, NEW b \in Binaries, Compile(s, n, b)
      PROVE  CacheInv'
  BY <1>1 DEF Compile, Enter, Goto, NoCall, compileVars, registryVars,
              CacheInv, TypeOK, Artifacts, Loaded
<1>2. ASSUME NEW s \in Slots, NEW n \in Names, NEW f \in Functions, Call(s, n, f)
      PROVE  CacheInv'
  BY <1>2 DEF Call, Enter, Goto, NoCall, compileVars, registryVars,
              CacheInv, TypeOK, Artifacts, Loaded
<1>0. ASSUME NEW s \in Slots, pc[s] # "compile", NEW a \in {"ok", "error"},
             Return(s, a), live' \in SUBSET live,
             UNCHANGED <<compileVars, closed, hosts, registryVars>>
      PROVE  CacheInv'
  <2>1. call' \in [Slots -> [name : Names \cup {Anonymous},
                            binary : Binaries \cup {NoBinary},
                            function : Functions \cup {Anonymous}]]
    BY <1>0 DEF Return, NoCall, CacheInv, TypeOK
  <2>2. \A t \in Slots \ {s} : pc'[t] = pc[t] /\ call'[t] = call[t]
    BY <1>0 DEF Return, Goto, CacheInv, TypeOK
  <2>3. pc'[s] = "idle"
    BY <1>0 DEF Return, Goto, CacheInv, TypeOK
  <2>4. TypeOK'
    BY <1>0, <2>1 DEF Return, Goto, compileVars, registryVars, CacheInv, TypeOK
  <2>5. Artifacts'
    BY <1>0, <2>2, <2>3 DEF compileVars, CacheInv, Artifacts, Loaded
  <2> QED
    BY <2>4, <2>5 DEF CacheInv
<1>3. ASSUME NEW s \in Slots, CompileLock(s) PROVE CacheInv'
  <2>1. CASE Return(s, "ok") /\ UNCHANGED writer
    BY <1>0, <1>3, <2>1 DEF CompileLock, compileVars
  <2>2. CASE /\ cache[call[s].name] = NoBinary
             /\ Goto(s, "compile") /\ writer' = {s} /\ UNCHANGED <<call, answer>>
    <3>1. TypeOK'
      BY <1>3, <2>2 DEF CompileLock, Goto, registryVars, CacheInv, TypeOK
    <3>2. Artifacts'
      BY <1>3, <2>2 DEF CompileLock, Goto, CacheInv, TypeOK, Artifacts, Loaded
    <3> QED
      BY <3>1, <3>2 DEF CacheInv
  <2> QED
    BY <1>3, <2>1, <2>2 DEF CompileLock
<1>4. ASSUME NEW s \in Slots, CompileModule(s) PROVE CacheInv'
  BY SMTT(30), <1>4 DEF CompileModule, Return, Goto, NoCall, registryVars,
              CacheInv, TypeOK, Artifacts, Loaded
<1>5. ASSUME NEW s \in Slots, Lookup(s) PROVE CacheInv'
  <2>1. CASE cache[call[s].name] = NoBinary
    BY <1>0, <1>5, <2>1 DEF Lookup, CacheInv, TypeOK
  <2>2. CASE cache[call[s].name] # NoBinary
    <3>1. /\ Goto(s, "instantiate")
          /\ call' = [call EXCEPT ![s].binary = cache[call[s].name]]
          /\ UNCHANGED <<compileVars, closed, live, hosts, registryVars, answer>>
      BY <1>5, <2>2 DEF Lookup
    <3>2. cache[call[s].name] \in Binaries
      BY <1>5, <2>2 DEF Lookup, CacheInv, TypeOK, Artifacts
    <3>3. TypeOK'
      BY <1>5, <3>1, <3>2
         DEF Lookup, Goto, compileVars, registryVars, CacheInv, TypeOK
    <3>4. Artifacts'
      BY <1>5, <3>1, <3>2
         DEF Lookup, Goto, compileVars, CacheInv, TypeOK, Artifacts, Loaded
    <3> QED
      BY <3>3, <3>4 DEF CacheInv
  <2> QED
    BY <2>1, <2>2
<1>6. ASSUME NEW s \in Slots, Instantiate(s) PROVE CacheInv'
  <2>1. CASE Return(s, "error") /\ UNCHANGED live
    BY <1>0, <1>6, <2>1 DEF Instantiate
  <2>2. CASE /\ live' = live \cup {Instance(s)} /\ Goto(s, "run")
             /\ UNCHANGED <<call, answer>>
    <3>1. Instance(s) \in [slot : Slots, binary : Binaries]
      BY <1>6 DEF Instantiate, Instance, CacheInv, Artifacts, Loaded
    <3>2. TypeOK'
      BY <1>6, <2>2, <3>1
         DEF Instantiate, Goto, compileVars, registryVars, CacheInv, TypeOK
    <3>3. Artifacts'
      BY <1>6, <2>2
         DEF Instantiate, Goto, compileVars, CacheInv, TypeOK, Artifacts, Loaded
    <3> QED
      BY <3>2, <3>3 DEF CacheInv
  <2> QED
    BY <1>6, <2>1, <2>2 DEF Instantiate
<1>7. ASSUME NEW s \in Slots, NoFunction(s) \/ Run(s) PROVE CacheInv'
  BY <1>0, <1>7 DEF NoFunction, Run, Unload
<1>8. CASE Close
  BY <1>8 DEF Close, compileVars, registryVars, CacheInv, TypeOK, Artifacts, Loaded
<1>9. ASSUME NEW c \in Capabilities, Add(c) \/ Register(c) PROVE CacheInv'
  BY <1>9 DEF Add, Register, compileVars, CacheInv, TypeOK, Artifacts, Loaded
<1>10. CASE RegisterAll
  BY <1>10 DEF RegisterAll, compileVars, CacheInv, TypeOK, Artifacts, Loaded
<1>11. CASE UNCHANGED vars
  BY <1>11 DEF vars, compileVars, registryVars, CacheInv, TypeOK, Artifacts, Loaded
<1> QED
  BY <1>1, <1>2, <1>3, <1>4, <1>5, <1>6, <1>7, <1>8, <1>9, <1>10, <1>11
     DEF Next, Step

LEMMA CacheInvariant == Spec => []CacheInv
<1> QED
  BY CacheInit, CacheStep, PTL DEF Spec

\* Every variable keeps its type, and mu is held for writing by the goroutine
\* that compiles and by nobody else.
THEOREM TypeCorrect == Spec => []TypeOK
<1>1. CacheInv => TypeOK
  BY DEF CacheInv
<1> QED
  BY <1>1, CacheInvariant, PTL

-----------------------------------------------------------------------------
(* A cached binary is never replaced: only CompileModule writes the cache,   *)
(* and only where nothing is.                                                *)

\* Compile and Call agree on one binary per name, for good.
THEOREM ArtifactsSafe == Spec => ArtifactsFixed
<1>1. CacheInv /\ CacheInv' /\ [Next]_vars =>
        [\A s \in Slots, n \in Names :
           /\ cache[n] # NoBinary => cache'[n] = cache[n]
           /\ pc'[s] \in {"instantiate", "run"} /\ call'[s].name = n =>
                call'[s].binary = cache'[n]]_vars
  <2> SUFFICES ASSUME CacheInv, CacheInv', Next,
                      NEW n \in Names, cache[n] # NoBinary
               PROVE  cache'[n] = cache[n]
    BY DEF CacheInv, Artifacts, Loaded
  <2>1. ASSUME NEW s \in Slots, CompileModule(s) PROVE cache'[n] = cache[n]
    BY <2>1 DEF CompileModule, CacheInv, TypeOK, Artifacts
  <2>2. CASE UNCHANGED cache
    BY <2>2
  <2>3. (\E s \in Slots : CompileModule(s)) \/ UNCHANGED cache
    BY DEF Next, Step, Compile, Call, CompileLock, Lookup, Instantiate,
           NoFunction, Run, Close, Add, Register, RegisterAll, compileVars
  <2> QED
    BY <2>1, <2>2, <2>3
<1> QED
  BY <1>1, CacheInvariant, PTL DEF Spec, ArtifactsFixed

-----------------------------------------------------------------------------
(* Instances.                                                                *)

LEMMA OrphanStep ==
  CacheInv /\ NoOrphans /\ [Next]_vars => NoOrphans'
<1> SUFFICES ASSUME CacheInv, NoOrphans, [Next]_vars PROVE NoOrphans'
  OBVIOUS
<1> USE DEF NoOrphans
<1>1. ASSUME NEW s \in Slots, pc[s] # "run", live' = live, hosts' = hosts,
             \A t \in Slots \ {s} : pc'[t] = pc[t] /\ call'[t] = call[t]
      PROVE  NoOrphans'
  BY <1>1 DEF CacheInv, TypeOK
<1>2. ASSUME NEW s \in Slots, Instantiate(s) PROVE NoOrphans'
  <2>1. CASE Return(s, "error") /\ UNCHANGED live
    BY <1>1, <1>2, <2>1 DEF Instantiate, Return, Goto, CacheInv, TypeOK
  <2>2. CASE /\ live' = live \cup {Instance(s)} /\ Goto(s, "run")
             /\ UNCHANGED <<call, answer>>
    <3>1. ~NameTaken(SectionName(call[s].binary)) /\ hosts' = hosts
      <4>1. ~Return(s, "error")
        BY <2>2 DEF Return, Goto, CacheInv, TypeOK
      <4>2. hosts' = hosts
        BY <1>2 DEF Instantiate
      <4>3. ~NameTaken(SectionName(call[s].binary))
        BY <1>2, <4>1, Zenon DEF Instantiate
      <4> QED
        BY <4>2, <4>3
    <3>2. \A i \in live' : i \in live \/ i = Instance(s)
      BY <2>2
    <3>3. \A i \in live : i.slot # s
      BY <1>2 DEF Instantiate
    <3>4. Instance(s).slot = s /\ Instance(s).binary = call[s].binary
      BY DEF Instance
    <3>5. \A i \in live' : pc'[i.slot] = "run" /\ call'[i.slot].binary = i.binary
      BY <2>2, <3>2, <3>3, <3>4 DEF Goto, CacheInv, TypeOK
    <3>6. /\ SectionName(call[s].binary) \notin hosts
          /\ SectionName(call[s].binary) # Anonymous =>
               \A i \in live : SectionName(i.binary) # SectionName(call[s].binary)
      BY <3>1, WasmAssumption DEF NameTaken, CacheInv, TypeOK
    <3>7. \A i \in live' : SectionName(i.binary) \notin hosts'
      BY <3>1, <3>2, <3>4, <3>6
    <3>8. \A i, j \in live' : i # j /\ SectionName(i.binary) # Anonymous =>
            SectionName(i.binary) # SectionName(j.binary)
      BY <3>2, <3>4, <3>6
    <3> QED
      BY <3>5, <3>7, <3>8
  <2> QED
    BY <1>2, <2>1, <2>2 DEF Instantiate
<1>3. ASSUME NEW s \in Slots, NoFunction(s) \/ Run(s) PROVE NoOrphans'
  BY <1>3 DEF NoFunction, Run, Unload, Instance, Return, Goto, CacheInv, TypeOK
<1>4. ASSUME NEW c \in Capabilities, Register(c) PROVE NoOrphans'
  BY <1>4, WasmAssumption DEF Register, NameTaken, CacheInv, TypeOK
<1>5. CASE Close
  BY <1>5 DEF Close
<1>6. CASE UNCHANGED <<live, hosts, pc, call>>
  BY <1>6
<1>7. ASSUME NEW s \in Slots, NEW n \in Names, NEW b \in Binaries, Compile(s, n, b)
      PROVE  NoOrphans'
  BY <1>1, <1>7 DEF Compile, Enter, Goto, CacheInv, TypeOK
<1>8. ASSUME NEW s \in Slots, NEW n \in Names, NEW f \in Functions, Call(s, n, f)
      PROVE  NoOrphans'
  BY <1>1, <1>8 DEF Call, Enter, Goto, CacheInv, TypeOK
<1>9. ASSUME NEW s \in Slots, CompileLock(s) \/ CompileModule(s) \/ Lookup(s)
      PROVE  NoOrphans'
  BY <1>1, <1>9 DEF CompileLock, CompileModule, Lookup, Return, Goto, CacheInv, TypeOK
<1>10. ASSUME NEW c \in Capabilities, Add(c) \/ RegisterAll PROVE NoOrphans'
  BY <1>6, <1>10 DEF Add, RegisterAll, compileVars
<1> QED
  BY <1>2, <1>3, <1>4, <1>5, <1>6, <1>7, <1>8, <1>9, <1>10
     DEF Next, Step, vars, RegisterAll

\* No instance outlives its call, and no two instances or host modules of one
\* name are there together.
THEOREM OrphansSafe == Spec => []NoOrphans
<1>1. Init => NoOrphans
  BY DEF Init, NoOrphans
<1> QED
  BY <1>1, OrphanStep, CacheInvariant, PTL DEF Spec

-----------------------------------------------------------------------------
(* RegisterAll.  Until the runtime is closed, whatever is not pending any    *)
(* more is there; once it is closed, RegisterAll can only fail.              *)

Accounted == registry = "running" /\ ~closed => byKey \subseteq pending \cup hosts

\* RegisterAll returns nil only when every capability added is there.
THEOREM RegisteredSafe == Spec => RegisteredMeansAll
<1>1. Init => Accounted
  BY DEF Init, Accounted
<1>2. Accounted /\ [Next]_vars => Accounted'
  BY DEF Accounted, Next, Step, Compile, Call, CompileLock, CompileModule,
         Lookup, Instantiate, NoFunction, Run, Close, Add, Register,
         RegisterAll, vars, compileVars, registryVars
<1>3. Accounted /\ [Next]_vars =>
        [registry = "running" /\ registry' = "ok" => byKey \subseteq hosts']_vars
  BY DEF Accounted, Next, Step, Compile, Call, CompileLock, CompileModule,
         Lookup, Instantiate, NoFunction, Run, Close, Add, Register,
         RegisterAll, vars, compileVars, registryVars
<1> QED
  BY <1>1, <1>2, <1>3, PTL DEF Spec, RegisteredMeansAll
=============================================================================
