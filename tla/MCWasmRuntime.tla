---------------------------- MODULE MCWasmRuntime ----------------------------
(* TLC instance of WasmRuntime: a plain module, one with a name section  *)
(* but no function, one that loops and is named "log" like a capability,   *)
(* and a broken one.                                                       *)
EXTENDS WasmRuntime, TLC

CONSTANTS s1, s2, plugin, tool, plain, named, looping, broken, answerFun

MCWellFormed(b) == b # broken
MCSectionName(b) == CASE b = named -> "acme.wasm"
                      [] b = looping -> "log"
                      [] OTHER -> Anonymous
MCImports(b) == IF b = plain THEN {"log"} ELSE {}
MCExports(b) == IF b = named THEN {} ELSE {answerFun}
MCSpins(b) == b = looping
=============================================================================
