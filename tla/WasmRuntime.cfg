\* Two goroutines, two names, four binaries, two capabilities.
CONSTANTS
  s1 = s1
  s2 = s2
  plugin = plugin
  tool = tool
  plain = plain
  named = named
  looping = looping
  broken = broken
  answerFun = answerFun
  Slots = {s1, s2}
  Names = {plugin, tool}
  Binaries = {plain, named, looping, broken}
  Functions = {answerFun}
  Capabilities = {"log", "http"}
  NoBinary = NoBinary
  Anonymous = Anonymous
  WellFormed <- MCWellFormed
  SectionName <- MCSectionName
  Imports <- MCImports
  Exports <- MCExports
  Spins <- MCSpins
SPECIFICATION Spec
INVARIANTS TypeOK NoOrphans
PROPERTIES ArtifactsFixed SoundCallsSucceed RegisteredMeansAll
