----------------------------- MODULE ImageBackend -----------------------------
(***************************************************************************)
(* DiffusersImageBackend (image_diffusers.py) from within: the pipeline     *)
(* object and where its weights are, the features and LoRAs that are put on *)
(* it, and the jobs that run on it, with a failure wherever torch or a file *)
(* may raise. GpuArbiter sees only the flags loaded and warm.               *)
(***************************************************************************)
EXTENDS Naturals, FiniteSets, Sequences

CONSTANTS Adapters,     \* LoRAs
          Setups,       \* pairs of a model with how its family is loaded, and other settings
          Turbo, NoPipe,
          StepChoices,  \* params.steps of a job; 0: absent
          CacheMax,     \* image_lora_cache_max
          RecycleMin,   \* image_recycle_min_jobs
          MaxImageJobs, MaxBatch, MaxPipeLoads \* bounds

\* A pipeline object: where its weights are, the LoRAs loaded into it and those switched on.
PipeRecord == [place : {"gpu", "offload", "refused", "cpu", "split"}, lora : SUBSET Adapters,
               on : SUBSET (Adapters \union {Turbo}), turbo : BOOLEAN, compiled : BOOLEAN]

ASSUME ImageAssumption ==
  /\ Turbo \notin Adapters /\ NoPipe \notin PipeRecord
  /\ {CacheMax, RecycleMin, MaxImageJobs, MaxBatch, MaxPipeLoads} \subseteq Nat /\ StepChoices \subseteq Nat

VARIABLES kind,       \* [family, nunchaku, quant, offload]
          setup,      \* [turbo, compile, cache, attention, defaultSteps, ...]
          pipe,       \* _pipe
          isLoaded, isWarm,
          features,   \* _active_features
          loadedLoras, lastUsed, generationIndex, stop,
          work,       \* what the backend is doing, step by step
          imageJob,   \* the job, and images it has left
          made,       \* history: the last image, what was wanted for it and what was used
          lastAsked,  \* history: the image for which a LoRA was last asked
          pruned,     \* history: the job before this one could prune the cache
          imageJobs, imageLoads

imageFlags == <<isLoaded, isWarm>>
loraCache == <<loadedLoras, lastUsed>>
imageSetup == <<kind, setup>>
jobState == <<imageJob, made, lastAsked, pruned, imageJobs>>
imageVars == <<imageSetup, pipe, imageFlags, features, loraCache, generationIndex, stop, work, jobState, imageLoads>>

NoImageJob == [asked |-> {}, turbo |-> FALSE, steps |-> 0, left |-> 0]
IsSdxl == kind.family = "sdxl"

ImageInit ==
  /\ \E s \in Setups : kind = s[1] /\ setup = s[2]
  /\ pipe = NoPipe /\ isLoaded = FALSE /\ isWarm = FALSE
  /\ features = {} /\ loadedLoras = {} /\ lastUsed = [l \in Adapters |-> 0]
  /\ generationIndex = 0 /\ stop = FALSE /\ work = "idle"
  /\ imageJob = NoImageJob /\ made = {} /\ lastAsked = [l \in Adapters |-> 0] /\ pruned = TRUE
  /\ imageJobs = 0 /\ imageLoads = 0

------------------------------------------------------------------------------
(* load: _load_pipeline_sync *)

\* Where a loader puts the weights: "gpu", or "offload" with hooks that bring each
\* part to the GPU while it runs; "refused" is a setting it does not know.
PlaceRepo == IF kind.offload = "none" THEN "gpu"
             ELSE IF kind.offload \in {"model", "sequential"} THEN "offload" ELSE "refused"
KnowsQuant == kind.quant \in {"bnb-nf4", "bnb-fp4", "none", "bf16"}
IsBnb == kind.quant \in {"bnb-nf4", "bnb-fp4"}

\* bitsandbytes puts its modules on the GPU itself and takes no hooks; an offload
\* that FLUX.2 does not know is "model".
PlaceFlux2 == IF ~KnowsQuant THEN "refused" ELSE IF IsBnb \/ kind.offload = "none" THEN "gpu" ELSE "offload"
PlaceNunchakuFlux2 == "gpu"
PlaceQwen == IF ~KnowsQuant THEN "refused" ELSE IF IsBnb THEN "gpu" ELSE PlaceRepo
PlaceNunchakuQwen == IF KnowsQuant THEN "gpu" ELSE "refused"  \* some blocks stay there
PlaceZImage == IF ~kind.nunchaku THEN PlaceRepo ELSE IF kind.offload = "none" THEN "gpu" ELSE "offload"
PlaceFlux == "offload"
PlaceSdxl == "gpu"

Place == CASE kind.family = "flux2" -> IF kind.nunchaku THEN PlaceNunchakuFlux2 ELSE PlaceFlux2
           [] kind.family = "qwen" -> IF kind.nunchaku THEN PlaceNunchakuQwen ELSE PlaceQwen
           [] kind.family = "z" -> PlaceZImage
           [] kind.family = "flux" -> PlaceFlux
           [] OTHER -> PlaceSdxl

ClearLoras == features' = {} /\ loadedLoras' = {} /\ lastUsed' = [l \in Adapters |-> 0]

BeginLoad ==
  /\ work = "idle" /\ ~isLoaded /\ ~isWarm /\ imageLoads < MaxPipeLoads
  /\ ClearLoras /\ work' = "build" /\ imageLoads' = imageLoads + 1
  /\ UNCHANGED <<imageSetup, pipe, imageFlags, generationIndex, stop, jobState>>

\* Until _pipe is assigned a loader may fail without a trace.
BuildPipe ==
  /\ work = "build"
  /\ \/ /\ Place # "refused"
        /\ pipe' = [place |-> Place, lora |-> {}, on |-> {}, turbo |-> FALSE, compiled |-> FALSE]
        /\ work' = "attention"
        /\ features' = IF kind.family \in {"flux2", "qwen", "z"} THEN {kind.family} ELSE {}
     \/ work' = "idle" /\ UNCHANGED <<pipe, features>>
  /\ UNCHANGED <<imageSetup, imageFlags, loraCache, generationIndex, stop, jobState, imageLoads>>

\* _apply_acceleration, feature by feature; each may raise, and the pipeline is there.
ConfigureAttention ==
  /\ work = "attention"
  /\ IF setup.attention THEN work' = "cache" /\ features' = features \union {"attention"}
     ELSE work' = "idle" /\ UNCHANGED features
  /\ UNCHANGED <<imageSetup, pipe, imageFlags, loraCache, generationIndex, stop, jobState, imageLoads>>

ApplyStepCache ==
  /\ work = "cache"
  /\ IF kind.family # "flux" \/ setup.cache = "off" THEN work' = "turbo" /\ UNCHANGED features
     ELSE IF setup.cache = "fb" THEN work' = "turbo" /\ features' = features \union {"step_cache"}
     ELSE work' = "idle" /\ UNCHANGED features
  /\ UNCHANGED <<imageSetup, pipe, imageFlags, loraCache, generationIndex, stop, jobState, imageLoads>>

ApplyTurboLora ==
  /\ work = "turbo"
  /\ IF ~IsSdxl \/ ~setup.turbo THEN work' = "compile" /\ UNCHANGED <<pipe, features>>
     ELSE \/ /\ work' = "compile" /\ features' = features \union {"turbo"}
             /\ pipe' = [pipe EXCEPT !.turbo = TRUE, !.on = {Turbo}]
          \/ work' = "idle" /\ UNCHANGED <<pipe, features>>
  /\ UNCHANGED <<imageSetup, imageFlags, loraCache, generationIndex, stop, jobState, imageLoads>>

\* A compilation that fails is rolled back; SDXL has no transformer.
CompileTransformer ==
  /\ work = "compile"
  /\ \/ /\ setup.compile /\ ~IsSdxl
        /\ pipe' = [pipe EXCEPT !.compiled = TRUE] /\ features' = features \union {"compile"}
     \/ UNCHANGED <<pipe, features>>
  /\ isLoaded' = TRUE /\ work' = "idle"
  /\ UNCHANGED <<imageSetup, isWarm, loraCache, generationIndex, stop, jobState, imageLoads>>

------------------------------------------------------------------------------
(* park, resume, unload *)

\* Only SDXL is moved to the CPU; the hooks of an offloaded one are freed. A move that
\* fails half-way leaves some modules where they were.
Park ==
  /\ work = "idle" /\ isLoaded /\ pipe # NoPipe
  /\ \/ /\ pipe' = [pipe EXCEPT !.place = IF IsSdxl THEN "cpu" ELSE @]
        /\ isLoaded' = FALSE /\ isWarm' = TRUE
     \/ IsSdxl /\ pipe' = [pipe EXCEPT !.place = "split"] /\ UNCHANGED imageFlags
  /\ UNCHANGED <<imageSetup, features, loraCache, generationIndex, stop, work, jobState, imageLoads>>

Resume ==
  /\ work = "idle" /\ ~isLoaded /\ isWarm /\ pipe # NoPipe /\ imageLoads < MaxPipeLoads
  /\ imageLoads' = imageLoads + 1
  /\ \/ /\ pipe' = [pipe EXCEPT !.place = IF IsSdxl THEN "gpu" ELSE "offload"]
        /\ isLoaded' = TRUE /\ isWarm' = FALSE
     \/ pipe' = [pipe EXCEPT !.place = "split"] /\ UNCHANGED imageFlags
  /\ UNCHANGED <<imageSetup, features, loraCache, generationIndex, stop, work, jobState>>

\* unload returns at once unless the backend is loaded or warm.
Unload ==
  /\ work = "idle" /\ (isLoaded \/ isWarm)
  /\ pipe' = NoPipe /\ isLoaded' = FALSE /\ isWarm' = FALSE
  /\ ClearLoras /\ generationIndex' = 0
  /\ UNCHANGED <<imageSetup, stop, work, jobState, imageLoads>>

------------------------------------------------------------------------------
(* generate *)

\* _steps: a value that equals the default counts as not chosen.
Steps(p, turbo) ==
  LET asked == IF p = 0 THEN setup.defaultSteps ELSE p
      untouched == asked = setup.defaultSteps
  IN IF untouched /\ kind.family \in {"flux2", "qwen", "z"} THEN setup.familySteps
     ELSE IF untouched /\ "turbo" \in features /\ turbo THEN setup.turboSteps
     ELSE asked

\* img2img and inpainting are for SDXL, and a mask needs a source.
AcceptableInput(source, mask) == (mask => source) /\ (source => IsSdxl)

Generate(asked, turbo, steps, batch, source, mask) ==
  /\ work = "idle" /\ isLoaded /\ imageJobs < MaxImageJobs
  /\ imageJobs' = imageJobs + 1
  /\ imageJob' = [asked |-> asked, turbo |-> turbo, steps |-> steps, left |-> batch]
  /\ IF AcceptableInput(source, mask) THEN work' = "loras" /\ stop' = FALSE
     ELSE work' = "tidy" /\ UNCHANGED stop
  /\ UNCHANGED <<imageSetup, pipe, imageFlags, features, loraCache, generationIndex, made, lastAsked, pruned, imageLoads>>

\* What a job wants on the pipeline.
Wanted == imageJob.asked \union (IF "turbo" \in features /\ imageJob.turbo THEN {Turbo} ELSE {})

UsedNow(ls) == [l \in Adapters |-> IF l \in ls THEN generationIndex + 1 ELSE lastUsed[l]]

\* Mutant: a job without LoRAs leaves those of the job before it on.
ApplySticky ==
  /\ work = "loras" /\ generationIndex' = generationIndex + 1
  /\ lastAsked' = [l \in Adapters |-> IF l \in imageJob.asked THEN generationIndex + 1 ELSE lastAsked[l]]
  /\ loadedLoras' = loadedLoras \union imageJob.asked /\ lastUsed' = UsedNow(imageJob.asked)
  /\ pipe' = [pipe EXCEPT !.lora = @ \union imageJob.asked, !.on = IF Wanted = {} THEN @ ELSE Wanted]
  /\ work' = "run"
  /\ UNCHANGED <<imageSetup, imageFlags, features, stop, imageJob, made, pruned, imageJobs, imageLoads>>

\* _apply_runtime_loras: those that are missing are loaded, and then exactly the
\* wanted ones are switched on, or all of them off.
ApplyLoras ==
  /\ work = "loras" /\ generationIndex' = generationIndex + 1
  /\ lastAsked' = [l \in Adapters |-> IF l \in imageJob.asked THEN generationIndex + 1 ELSE lastAsked[l]]
  /\ loadedLoras' = loadedLoras \union imageJob.asked /\ lastUsed' = UsedNow(imageJob.asked)
  /\ pipe' = [pipe EXCEPT !.lora = @ \union imageJob.asked, !.on = Wanted]
  /\ work' = "run"
  /\ UNCHANGED <<imageSetup, imageFlags, features, stop, imageJob, made, pruned, imageJobs, imageLoads>>

\* A file is missing, or torch raises: those before it stay loaded, and switched on.
LoraFails ==
  /\ work = "loras" /\ imageJob.asked \ loadedLoras # {}
  /\ generationIndex' = generationIndex + 1
  /\ \E ls \in SUBSET imageJob.asked :
       /\ ~(imageJob.asked \subseteq loadedLoras \union ls)
       /\ loadedLoras' = loadedLoras \union ls /\ lastUsed' = UsedNow(ls)
       /\ lastAsked' = [l \in Adapters |-> IF l \in ls THEN generationIndex + 1 ELSE lastAsked[l]]
       /\ pipe' = [pipe EXCEPT !.lora = @ \union ls, !.on = @ \union (ls \ loadedLoras)]
  /\ work' = "tidy"
  /\ UNCHANGED <<imageSetup, imageFlags, features, stop, imageJob, made, pruned, imageJobs, imageLoads>>

\* One image; the parameters recorded with it are the ones it was made with.
RunPipe ==
  /\ work = "run" /\ ~stop
  /\ LET steps == Steps(imageJob.steps, imageJob.turbo)
     IN made' = {[wanted |-> Wanted, on |-> pipe.on, steps |-> steps,
               again |-> Steps(steps, imageJob.turbo),
               claimed |-> features, compiled |-> pipe.compiled]}
  /\ imageJob' = [imageJob EXCEPT !.left = @ - 1]
  /\ work' = IF imageJob.left = 1 THEN "tidy" ELSE "loras"
  /\ UNCHANGED <<imageSetup, pipe, imageFlags, features, loraCache, generationIndex, stop, lastAsked, pruned, imageJobs, imageLoads>>

\* The step callback raises GenerationCancelled, or the pipeline raises.
RunStops ==
  /\ work = "run" /\ work' = "tidy"
  /\ UNCHANGED <<imageSetup, pipe, imageFlags, features, loraCache, generationIndex, stop, jobState, imageLoads>>

\* At any other time the next generate would forget it (JobQueue: CancelSignal).
RequestStop ==
  /\ work \in {"loras", "run"} /\ ~stop /\ stop' = TRUE
  /\ UNCHANGED <<imageSetup, pipe, imageFlags, features, loraCache, generationIndex, work, jobState, imageLoads>>

------------------------------------------------------------------------------
(* after_job *)

\* _prune_lora_cache: the least recently used ones that the job did not ask for, until
\* the cache has its size; with a size of 0 all of them.
Pruned ==
  LET older(l) == {k \in loadedLoras : lastUsed[k] < lastUsed[l]}
      Fits(ls) ==
        /\ ls \subseteq loadedLoras \ imageJob.asked
        /\ Cardinality(loadedLoras \ ls) <= CacheMax \/ ls = loadedLoras \ imageJob.asked
        /\ ls = {} \/ Cardinality(loadedLoras \ ls) >= CacheMax
        /\ \A l \in ls : older(l) \subseteq ls \union imageJob.asked
  IN IF CacheMax = 0 THEN {loadedLoras} ELSE {ls \in SUBSET loadedLoras : Fits(ls)}

\* Pruning may raise, and is then left for the next job. The hooks of an offloaded
\* pipeline are freed.
AfterJob ==
  /\ work = "tidy" /\ work' = "idle"
  /\ \E ls \in Pruned \union {{}} :
       /\ loadedLoras' = loadedLoras \ ls
       /\ lastUsed' = [l \in Adapters |-> IF l \in ls THEN 0 ELSE lastUsed[l]]
       /\ pipe' = [pipe EXCEPT !.lora = @ \ ls, !.on = @ \ ls]
       /\ pruned' = (ls \in Pruned)
  /\ UNCHANGED <<imageSetup, imageFlags, features, generationIndex, stop, imageJob, made, lastAsked, imageJobs, imageLoads>>

\* _recycle_pipeline_sync: free, clear, and load again; the index goes on.
Recycle ==
  /\ work = "tidy" /\ generationIndex >= RecycleMin /\ imageLoads < MaxPipeLoads
  /\ pipe' = NoPipe /\ isLoaded' = FALSE /\ isWarm' = FALSE
  /\ ClearLoras /\ work' = "build" /\ imageLoads' = imageLoads + 1
  /\ UNCHANGED <<imageSetup, generationIndex, stop, jobState>>

ImageNext ==
  \/ BeginLoad \/ BuildPipe \/ ConfigureAttention \/ ApplyStepCache \/ ApplyTurboLora \/ CompileTransformer
  \/ Park \/ Resume \/ Unload
  \/ \E asked \in SUBSET Adapters, turbo \in BOOLEAN, steps \in StepChoices, batch \in 1..MaxBatch :
       \E source \in BOOLEAN, mask \in BOOLEAN : Generate(asked, turbo, steps, batch, source, mask)
  \/ ApplyLoras \/ LoraFails \/ RunPipe \/ RunStops \/ RequestStop
  \/ AfterJob \/ Recycle

ImageSpec == ImageInit /\ [][ImageNext]_imageVars

------------------------------------------------------------------------------
(* Properties *)

ImageTypeOK ==
  /\ loadedLoras \subseteq Adapters /\ generationIndex \in Nat
  /\ ~(isLoaded /\ isWarm) /\ (isLoaded \/ isWarm => pipe # NoPipe)

\* An image is made with the LoRAs its job asked for and no others, whatever jobs
\* before it asked for, lost or failed with; and what its metadata claims of the
\* pipeline is so (imaging.py:3-5).
ImagesUseTheirLoras ==
  \A m \in made : /\ m.on = m.wanted
                  /\ "compile" \in m.claimed <=> m.compiled
                  /\ m.again = m.steps

\* The cache of LoRAs is what the pipeline holds, through parks, resumes, recycles,
\* failed loads and prunes.
CacheIsThePipes == isLoaded \/ isWarm => loadedLoras = pipe.lora /\ ("turbo" \in features <=> pipe.turbo)

\* Between jobs there are never more LoRAs than image_lora_cache_max or than the last
\* job asked for, and a LoRA that is older for the cache was asked for earlier.
LorasAreBounded ==
  /\ work = "idle" /\ isLoaded /\ pruned =>
       Cardinality(loadedLoras) <= CacheMax \/ loadedLoras \subseteq imageJob.asked
  /\ \A k, l \in loadedLoras : lastUsed[k] < lastUsed[l] => lastAsked[k] < lastAsked[l]

ImageBackendIsSound == ImageTypeOK /\ ImagesUseTheirLoras /\ CacheIsThePipes /\ LorasAreBounded

\* arbiter.py:4, base.py:3-5: between operations a backend that does not call itself
\* loaded has nothing on the GPU. A load that fails after _pipe is assigned breaks it,
\* and so does the park of a pipeline that its loader put on the GPU without hooks.
OnlyLoadedIsOnGpu == work = "idle" /\ pipe # NoPipe /\ pipe.place \in {"gpu", "split"} => isLoaded
==============================================================================
