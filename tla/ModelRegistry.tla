---------------------------- MODULE ModelRegistry ----------------------------
(***************************************************************************)
(* ModelRegistry (registry.py, inspect.py): the scan of the model folders   *)
(* at start, the table of ids it leaves, the jobs that are checked against  *)
(* the table when they are accepted and looked up in it when they are run,  *)
(* maybe by the backend of a later start that scanned other files.          *)
(***************************************************************************)
EXTENDS Naturals, Sequences

CONSTANTS Folders,      \* contents of the model folders, in the order a scan meets them
          Blackwell,    \* is_blackwell_gpu
          Slugs, LoraSlugs, \* ids
          AnyFamily,    \* a LoRA that fits every model, and no LoRA at all
          MaxStarts     \* bound

ASSUME RegistryAssumption ==
  /\ Blackwell \in BOOLEAN /\ MaxStarts \in Nat
  /\ \A fs \in Folders : fs \in Seq({fs[i] : i \in DOMAIN fs})

VARIABLES disk,         \* the files now
          table, loraTable, \* _descriptors and _loras: functions from ids
          backendOf,    \* _backends: the descriptors of the backends made so far
          isUp, starts,
          accepted,     \* the job in the queue, and the model and LoRA it was checked with
          ran           \* history: the job that ran last

registryVars == <<disk, table, loraTable, backendOf, isUp, starts, accepted, ran>>

------------------------------------------------------------------------------
(* What a file is taken for. A file is [kind, slug, words, keys, big, whole]: words of   *)
(* its name, what its header or model_index.json shows, and, of a repo, whether the      *)
(* transformer is there.                                                                 *)

Has(f, ws) == f.words \intersect ws # {}
IsSvdq(f) == Has(f, {"svdq", "nunchaku"})

NunchakuQuant(f) == IF Has(f, {"fp4"}) THEN "nunchaku-fp4"
                    ELSE IF Has(f, {"int4", "awq"}) THEN "nunchaku-int4" ELSE "nunchaku"

NunchakuFamily(f) == IF Has(f, {"qwen-image"}) THEN "qwen-image" ELSE IF Has(f, {"z-image"}) THEN "z-image"
                     ELSE IF Has(f, {"flux2"}) THEN "flux2" ELSE "flux"

ClassifyImage(f) ==
  CASE f.keys = "unreadable" -> "unknown"
    [] f.keys = "modulation" -> "flux2"
    [] f.keys = "blocks" -> "flux"
    [] f.keys = "unet" -> "sdxl"
    [] OTHER -> IF f.big THEN "flux" ELSE "sdxl"

RepoFamilies == {"flux2", "qwen-image", "z-image"}

\* The name decides first: every path with "flux" in it, FLUX.2 included, is FLUX.
ClassifyLora(f) ==
  CASE Has(f, {"flux", "flux2"}) -> "flux"
    [] ~Has(f, {"flux", "flux2"}) /\ Has(f, {"sdxl", "noobai"}) -> "sdxl"
    [] OTHER -> IF f.keys = "blocks" THEN "flux" ELSE IF f.keys = "unet" THEN "sdxl" ELSE AnyFamily

------------------------------------------------------------------------------
(* scan *)

HasFlux2Repo(fs) == \E i \in DOMAIN fs : fs[i].kind = "repo" /\ fs[i].keys = "flux2"

ShownFile(f, fs) ==
  IF IsSvdq(f) THEN ~(NunchakuFamily(f) = "flux2" /\ NunchakuQuant(f) = "nunchaku-int4" /\ Blackwell)
  ELSE ~(ClassifyImage(f) = "flux2" /\ HasFlux2Repo(fs))

\* What a scan does not pass over. Not all of it can be loaded: an unreadable file is
\* listed and read as SDXL, and a FLUX.2 repo is listed without its transformer.
Shown(f, fs) ==
  CASE f.kind = "file" -> ShownFile(f, fs)
    [] f.kind = "repo" -> f.keys \in RepoFamilies /\ (f.keys \in {"qwen-image", "z-image"} => f.whole)
    [] OTHER -> f.kind = "gguf"

Family(f) == CASE f.kind = "file" -> IF IsSvdq(f) THEN NunchakuFamily(f) ELSE ClassifyImage(f)
               [] f.kind = "repo" -> f.keys
               [] OTHER -> "gguf"

Descriptor(f) == [file |-> f, family |-> Family(f), nunchaku |-> f.kind = "file" /\ IsSvdq(f),
                  job |-> IF f.kind = "gguf" THEN "llm" ELSE "image"]

\* A scan takes the files first, then the repos, then the GGUFs, and the LoRAs apart.
Pass(f) == CASE f.kind = "file" -> 0 [] f.kind = "repo" -> 1 [] OTHER -> 2
ComesAfter(fs, i, j) == Pass(fs[i]) > Pass(fs[j]) \/ (Pass(fs[i]) = Pass(fs[j]) /\ i > j)

ListedModels(fs) == {i \in DOMAIN fs : Shown(fs[i], fs)}
ListedLoras(fs) == {i \in DOMAIN fs : fs[i].kind = "lora"}

\* Of those with one id the last one stays.
LastOf(fs, listed) ==
  [s \in {fs[i].slug : i \in listed} |->
     fs[CHOOSE i \in listed : /\ fs[i].slug = s
                              /\ \A j \in listed \ {i} : fs[j].slug = s => ComesAfter(fs, i, j)]]

ModelTable(fs) == LET found == LastOf(fs, ListedModels(fs)) IN [s \in DOMAIN found |-> Descriptor(found[s])]
LoraTable(fs) == LET found == LastOf(fs, ListedLoras(fs))
                 IN [s \in DOMAIN found |-> [file |-> found[s], family |-> ClassifyLora(found[s])]]

------------------------------------------------------------------------------
(* Steps *)

NoJob == [slug |-> AnyFamily, job |-> "none", lora |-> AnyFamily]

RegistryInit ==
  /\ disk \in Folders /\ table = <<>> /\ loraTable = <<>> /\ backendOf = <<>>
  /\ isUp = FALSE /\ starts = 0 /\ accepted = NoJob /\ ran = NoJob

Scan ==
  /\ ~isUp /\ starts < MaxStarts /\ isUp' = TRUE /\ starts' = starts + 1
  /\ table' = ModelTable(disk) /\ loraTable' = LoraTable(disk) /\ backendOf' = <<>>
  /\ UNCHANGED <<disk, accepted, ran>>

\* Files come and go at any time; the tables are not read again.
ChangeFiles ==
  /\ disk' \in Folders \ {disk}
  /\ UNCHANGED <<table, loraTable, backendOf, isUp, starts, accepted, ran>>

GoDown ==
  /\ isUp /\ isUp' = FALSE
  /\ UNCHANGED <<disk, table, loraTable, backendOf, starts, accepted, ran>>

\* Mutant: a LoRA is not held against the model's family.
AcceptAnyLora(s, job, l) ==
  /\ isUp /\ accepted = NoJob
  /\ s \in DOMAIN table /\ table[s].job = job
  /\ l # AnyFamily => job = "image" /\ l \in DOMAIN loraTable
  /\ accepted' = [slug |-> s, job |-> job, lora |-> l, model |-> table[s], start |-> starts]
  /\ UNCHANGED <<disk, table, loraTable, backendOf, isUp, starts, ran>>

\* _validate_model and _normalize_loras.
AcceptJob(s, job, l) ==
  /\ isUp /\ accepted = NoJob
  /\ s \in DOMAIN table /\ table[s].job = job
  /\ l # AnyFamily => /\ job = "image" /\ l \in DOMAIN loraTable
                      /\ loraTable[l].family \in {AnyFamily, table[s].family}
  /\ accepted' = [slug |-> s, job |-> job, lora |-> l, model |-> table[s], start |-> starts]
  /\ UNCHANGED <<disk, table, loraTable, backendOf, isUp, starts, ran>>

\* get_backend: made from the table once, and kept.
Backend(s) == IF s \in DOMAIN backendOf THEN backendOf[s] ELSE table[s]

\* _run: an unknown model or LoRA, and a backend of the other type, fail the job; the
\* backend has been made and loaded by then.
RunAccepted ==
  /\ isUp /\ accepted # NoJob /\ accepted' = NoJob
  /\ IF accepted.slug \notin DOMAIN table THEN UNCHANGED <<backendOf, ran>>
     ELSE /\ backendOf' = [s \in DOMAIN backendOf \union {accepted.slug} |-> Backend(s)]
          /\ ran' = IF /\ Backend(accepted.slug).job = accepted.job
                       /\ accepted.lora \in DOMAIN loraTable \union {AnyFamily}
                    THEN [slug |-> accepted.slug, job |-> accepted.job, lora |-> accepted.lora,
                          model |-> Backend(accepted.slug), checked |-> accepted.model, again |-> accepted.start # starts,
                          fits |-> IF accepted.lora = AnyFamily THEN TRUE
                                   ELSE loraTable[accepted.lora].family \in {AnyFamily, Backend(accepted.slug).family}]
                    ELSE NoJob
  /\ UNCHANGED <<disk, table, loraTable, isUp, starts>>

RegistryNext ==
  \/ Scan \/ ChangeFiles \/ GoDown \/ RunAccepted
  \/ \E s \in Slugs, job \in {"image", "llm"}, l \in LoraSlugs \union {AnyFamily} : AcceptJob(s, job, l)

RegistrySpec == RegistryInit /\ [][RegistryNext]_registryVars

------------------------------------------------------------------------------
(* Properties *)

\* A job is run by the model it was checked with, and with a LoRA of its family, unless
\* the backend was started again in between; by a model of its type even then.
JobsRunAsChecked ==
  ran # NoJob => /\ ran.model.job = ran.job
                 /\ ~ran.again => ran.model = ran.checked /\ ran.fits

\* Jobs run as they were checked, and a backend that was made is of the file its id stands
\* for in the table of this start (get_backend).
RegistryIsSound == JobsRunAsChecked /\ (isUp => \A s \in DOMAIN backendOf : backendOf[s] = table[s])

\* api/jobs.py:69-74 refuses a LoRA of another family. A job that waits through a restart
\* is not checked again, and runs with one.
LorasFit == ran # NoJob => ran.fits
==============================================================================
