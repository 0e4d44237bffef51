------------------------------ MODULE MCGpuWork -------------------------------
(*****************************************************************************)
(* What decides which model works: the order of the queue, memory and the    *)
(* tables of models, each on a small instance:                               *)
(* part names the component whose steps are taken; the others, with which it *)
(* shares no state, stay at an initial state of theirs.                      *)
(*****************************************************************************)
EXTENDS PhaseBatching, Memory, ModelRegistry, TLC

\* PhaseBatching: four rows, three models of two types; the two image models differ in
\* nothing but their ids.
CONSTANTS draw, paint, talk

MCModels == {draw, paint, talk}
MCTypeOf == draw :> "image" @@ paint :> "image" @@ talk :> "llm"
MCJobs == 1 .. 4
MCPriorities == {0, 1}
MCCreatedAt == <<1, 2, 3, 4>>

\* Memory
CONSTANTS flux, sdxl, llm
GuessMC == flux :> 4 @@ sdxl :> 5 @@ llm :> 2
HeldMC == flux :> 3 @@ sdxl :> 1 @@ llm :> 1
ParkedMC == flux :> 3 @@ sdxl :> 4 @@ llm :> 0
DeltasMC == flux :> {0, 2, 3} @@ sdxl :> {0, 1} @@ llm :> {0}

\* ModelRegistry
F(k, slug, words, keys, big, whole) == [kind |-> k, slug |-> slug, words |-> words, keys |-> keys, big |-> big, whole |-> whole]
FoldersMC == {
  <<F("file", "a", {}, "unet", FALSE, FALSE), F("file", "b", {"svdq", "int4", "flux2"}, "none", TRUE, FALSE),
    F("repo", "c", {}, "qwen-image", TRUE, FALSE), F("gguf", "d", {}, "none", FALSE, FALSE), F("lora", "l", {"noobai"}, "none", FALSE, FALSE),
    F("lora", "m", {}, "none", FALSE, FALSE)>>,
  <<F("file", "a", {"svdq", "fp4", "qwen-image"}, "none", TRUE, FALSE), F("file", "b", {"flux"}, "modulation", TRUE, FALSE),
    F("repo", "c", {}, "flux2", TRUE, TRUE), F("file", "d", {}, "none", TRUE, FALSE), F("gguf", "c", {}, "none", FALSE, FALSE),
    F("lora", "l", {}, "blocks", FALSE, FALSE), F("lora", "m", {"flux2"}, "unet", FALSE, FALSE)>>,
  <<F("file", "a", {}, "unreadable", FALSE, FALSE), F("file", "b", {"nunchaku", "awq", "z-image"}, "none", FALSE, FALSE), F("file", "b", {"nunchaku"}, "none", FALSE, FALSE),
    F("repo", "c", {}, "z-image", FALSE, TRUE), F("repo", "d", {}, "qwen-image", FALSE, FALSE), F("repo", "e", {}, "other", FALSE, FALSE),
    F("lora", "l", {}, "unet", FALSE, FALSE)>>,
  <<F("file", "d", {}, "blocks", FALSE, FALSE), F("file", "e", {}, "none", FALSE, FALSE)>>}

VARIABLE part

GpuWorkInit ==
  /\ part \in {"batching", "memory", "registry"}
  /\ Init /\ (part # "batching" => waiting = {} /\ row = [j \in Jobs |-> [model |-> talk, priority |-> 0]])
  /\ MemoryInit
  /\ RegistryInit /\ (part # "registry" => disk = (CHOOSE fs \in Folders : TRUE))

GpuWorkNext ==
  \/ part = "batching" /\ Next /\ UNCHANGED <<part, memoryVars, registryVars>>
  \/ part = "memory" /\ MemoryNext /\ UNCHANGED <<part, vars, registryVars>>
  \/ part = "registry" /\ RegistryNext /\ UNCHANGED <<part, vars, memoryVars>>

GpuWorkSpec == GpuWorkInit /\ [][GpuWorkNext]_<<part, vars, memoryVars, registryVars>>

GpuWorkSymmetry == Permutations({draw, paint})
==============================================================================
