---------------------------- MODULE PhaseBatching ----------------------------
(***************************************************************************)
(* The phase-batching rule of the GPU queue (backend/app/core/scheduler.py) *)
(* and the plan preview that predicts it (GET /api/jobs/plan).              *)
(*                                                                         *)
(* A job is one queued row.  The worker repeatedly runs one row of the top  *)
(* priority tier, chosen by select_in_tier; the preview simulates the same  *)
(* loop over a snapshot of the queue.  Of a run the module has what the     *)
(* arbiter does to the resident: the swap's unload, the load, and where     *)
(* either fails.  The rest of it is the business of GpuArbiter and JobQueue. *)
(***************************************************************************)
EXTENDS Integers, Sequences, FiniteSets, FiniteSetsExt, SequencesExt

CONSTANTS Jobs,        \* rows that may be queued
          Models,      \* model ids
          TypeOf,      \* TypeOf[m] is "llm" or "image": descriptor.job_type
          Priorities,  \* priorities a client uses
          CreatedAt,   \* CreatedAt[j]: the row's created_at; two rows may share one
          PlanLimit,   \* the LIMIT of the preview's query (1000 in the code)
          NoModel,     \* no GPU resident
          NoRun        \* no job that runs

ASSUME BatchingAssumption ==
  /\ TypeOf \in [Models -> {"llm", "image"}]
  /\ Priorities \subseteq Int
  /\ CreatedAt \in [Jobs -> Nat]
  /\ PlanLimit \in Nat
  /\ NoModel \notin Models /\ NoRun \notin Jobs

VARIABLES row,       \* row[j]: the model_id and priority columns
          waiting,   \* rows with status "queued"
          phase,     \* where the worker is in _run
          running,   \* the job that it runs, or NoRun
          resident,  \* descriptor.id of arbiter.current, or NoModel
          drained,   \* history: jobs picked since a job or a priority was last set
          cleanFrom, \* history: how many of them up to the last run whose load failed
          preview    \* the last answer of GET /plan, what was run before it, whether it saw
                     \* the whole queue and the right resident, and the swaps since

vars == <<row, waiting, phase, running, resident, drained, cleanFrom, preview>>

Row == [model : Models, priority : Priorities]
NoPreview == [swaps |-> -1, steps |-> <<>>, from |-> 0, exact |-> FALSE, swapped |-> 0]

------------------------------------------------------------------------------
(* The rule *)

Oldest(S) == {j \in S : \A k \in S : CreatedAt[j] <= CreatedAt[k]}

TopTier(S) == {j \in S : \A k \in S : row[k].priority <= row[j].priority}

TypeMatches(S, m) == {j \in S : TypeOf[row[j].model] = TypeOf[m]}
ModelMatches(S, m) == {j \in S : row[j].model = m}

\* Mutant: the resident model is not preferred to others of its type.
SelectByType(tier, m) ==
  IF m # NoModel /\ TypeMatches(tier, m) # {} THEN Oldest(TypeMatches(tier, m))
  ELSE Oldest(tier)

\* select_in_tier: the oldest job of the resident model, else of its type, else
\* the oldest.  A set, because rows with equal stamps come back in any order.
SelectInTier(tier, m) ==
  IF m = NoModel THEN Oldest(tier)
  ELSE IF ModelMatches(tier, m) # {} THEN Oldest(ModelMatches(tier, m))
  ELSE IF TypeMatches(tier, m) # {} THEN Oldest(TypeMatches(tier, m))
  ELSE Oldest(tier)

IsSwap(from, to) == from # NoModel /\ from # to

\* One more run of model m at the front of a compressed run sequence.
Prepend(m, steps) ==
  IF steps # <<>> /\ Head(steps).model = m
  THEN <<[Head(steps) EXCEPT !.count = @ + 1]>> \o Tail(steps)
  ELSE <<[model |-> m, type |-> TypeOf[m], count |-> 1]>> \o steps

\* Mutant: the simulation does not follow its own swaps.
PlanFromResident(S, m) ==
  LET plan[T \in SUBSET S] ==
        IF T = {} THEN [swaps |-> 0, steps |-> <<>>]
        ELSE LET j == CHOOSE j \in SelectInTier(TopTier(T), m) : TRUE
             IN [swaps |-> plan[T \ {j}].swaps + (IF IsSwap(m, row[j].model) THEN 1 ELSE 0),
                 steps |-> Prepend(row[j].model, plan[T \ {j}].steps)]
  IN plan[S]

\* plan_queue over the rows S with resident m.
PlanQueue(S, m) ==
  LET plan[T \in SUBSET S] ==
        [r \in Models \union {NoModel} |->
          IF T = {} THEN [swaps |-> 0, steps |-> <<>>]
          ELSE LET j == CHOOSE j \in SelectInTier(TopTier(T), r) : TRUE
                   rest == plan[T \ {j}][row[j].model]
               IN [swaps |-> rest.swaps + (IF IsSwap(r, row[j].model) THEN 1 ELSE 0),
                   steps |-> Prepend(row[j].model, rest.steps)]]
  IN plan[S][m]

\* list_jobs(status=QUEUED, limit): ORDER BY created_at DESC LIMIT PlanLimit.
NewestRows == {S \in SUBSET waiting :
                 /\ Cardinality(S) = Min({PlanLimit, Cardinality(waiting)})
                 /\ \A j \in S, k \in waiting \ S : CreatedAt[k] <= CreatedAt[j]}

------------------------------------------------------------------------------
(* The state machine *)

Init ==
  /\ row \in [Jobs -> Row]
  /\ waiting \in SUBSET Jobs
  /\ phase = "idle" /\ running = NoRun
  /\ resident = NoModel
  /\ drained = <<>> /\ cleanFrom = 0
  /\ preview = NoPreview

\* The model of the job that runs.
Needed == row[running].model

\* The histories start anew, and the preview is void.
StartOver == drained' = <<>> /\ cleanFrom' = 0 /\ preview' = NoPreview

\* POST /api/jobs, or a tool call of the job that runs: a new row; the preview ignores
\* arrivals.
CreateJob(j) ==
  /\ j \notin waiting \union {running}
  /\ \A k \in waiting : CreatedAt[k] <= CreatedAt[j]
  /\ waiting' = waiting \union {j}
  /\ StartOver /\ UNCHANGED <<row, phase, running, resident>>

\* POST /api/jobs/{id}/priority on a queued row.
SetPriority(j, p) ==
  /\ j \in waiting
  /\ row' = [row EXCEPT ![j].priority = p]
  /\ StartOver /\ UNCHANGED <<waiting, phase, running, resident>>

\* DELETE /api/jobs/{id} of a queued row: the order of the others stays what it was.
CancelQueued(j) ==
  /\ j \in waiting /\ waiting' = waiting \ {j}
  /\ preview' = NoPreview
  /\ UNCHANGED <<row, phase, running, resident, drained, cleanFrom>>

\* _pick_next.
PickNext ==
  /\ phase = "idle" /\ phase' = "picked"
  /\ \E j \in SelectInTier(TopTier(waiting), resident) :
       /\ waiting' = waiting \ {j}
       /\ drained' = Append(drained, j)
       /\ running' = j
  /\ UNCHANGED <<row, resident, cleanFrom, preview>>

\* _requeue: a live voice session began after the pick.
Requeue ==
  /\ phase = "picked" /\ phase' = "idle" /\ running' = NoRun
  /\ waiting' = waiting \union {running}
  /\ StartOver /\ UNCHANGED <<row, resident>>

\* get_backend, and ensure takes the arbiter's lock.
BeginEnsure ==
  /\ phase = "picked" /\ phase' = "ensuring"
  /\ UNCHANGED <<row, waiting, running, resident, drained, cleanFrom, preview>>

\* ensure: another model is unloaded first. It is a swap for a job that was picked after
\* the preview.
UnloadForSwap ==
  /\ phase = "ensuring" /\ IsSwap(resident, Needed)
  /\ resident' = NoModel
  /\ preview' = IF preview # NoPreview /\ preview.from < Len(drained)
                  THEN [preview EXCEPT !.swapped = @ + 1] ELSE preview
  /\ UNCHANGED <<row, waiting, phase, running, drained, cleanFrom>>

\* ensure: the job's model is, or becomes, the resident one.
BecomeResident ==
  /\ phase = "ensuring" /\ resident \in {NoModel, Needed}
  /\ phase' = "generating" /\ resident' = Needed
  /\ UNCHANGED <<row, waiting, running, drained, cleanFrom, preview>>

\* The job ends before its model is loaded: an unknown model or an unload that raised
\* leaves the old resident, a load that is refused or fails leaves none.
FailRun ==
  /\ phase \in {"picked", "ensuring"}
  /\ phase' = "idle" /\ running' = NoRun
  /\ cleanFrom' = Len(drained) /\ preview' = NoPreview
  /\ UNCHANGED <<row, waiting, resident, drained>>

\* The job ends, however it ends, with its model loaded.
FinishRun ==
  /\ phase = "generating" /\ phase' = "idle" /\ running' = NoRun
  /\ UNCHANGED <<row, waiting, resident, drained, cleanFrom, preview>>

\* GET /api/jobs/plan. The LIMIT may hide rows, and while a job's model is not loaded yet
\* current is not what the next job will find.
QueuePlan ==
  /\ \E S \in NewestRows :
       preview' = [swaps |-> PlanQueue(S, resident).swaps,
                   steps |-> PlanQueue(S, resident).steps,
                   from |-> Len(drained),
                   exact |-> S = waiting /\ (phase = "idle" \/ resident = Needed),
                   swapped |-> 0]
  /\ UNCHANGED <<row, waiting, phase, running, resident, drained, cleanFrom>>

\* POST /api/gpu/free, which waits for the arbiter's lock.
FreeGpu ==
  /\ resident # NoModel /\ phase # "ensuring"
  /\ resident' = NoModel
  /\ StartOver /\ UNCHANGED <<row, waiting, phase, running>>

Next ==
  \/ \E j \in Jobs : CreateJob(j) \/ CancelQueued(j)
  \/ \E j \in Jobs, p \in Priorities : SetPriority(j, p)
  \/ PickNext \/ Requeue \/ BeginEnsure \/ UnloadForSwap \/ BecomeResident \/ FailRun \/ FinishRun
  \/ QueuePlan
  \/ FreeGpu

Spec == Init /\ [][Next]_vars

------------------------------------------------------------------------------
(* Properties *)

BatchTypeOK ==
  /\ row \in [Jobs -> Row] /\ waiting \in SUBSET Jobs
  /\ phase \in {"idle", "picked", "ensuring", "generating"}
  /\ running \in Jobs \union {NoRun} /\ (phase = "idle" <=> running = NoRun)
  /\ resident \in Models \union {NoModel}
  /\ drained \in Seq(Jobs) /\ cleanFrom \in 0 .. Len(drained)

ModelAt(i) == row[drained[i]].model
TierAt(i) == row[drained[i]].priority

\* While the queue is left alone and every load succeeds, a tier runs each model in one
\* unbroken run (ROADMAP: "a mixed batch swaps once"): a model that has been swapped out
\* is not swapped in again for a job that was already waiting in the same tier. A load
\* that fails leaves no resident to follow, and the tier begins anew behind it.
ModelRunsAreContiguous ==
  \A i, j, k \in DOMAIN drained :
    cleanFrom < i /\ i < j /\ j < k /\ TierAt(i) = TierAt(k) /\ ModelAt(i) = ModelAt(k)
      => ModelAt(j) = ModelAt(i)

\* The same for the job types of a tier: LLM and image jobs do not alternate.
TypeRunsAreContiguous ==
  \A i, j, k \in DOMAIN drained :
    cleanFrom < i /\ i < j /\ j < k /\ TierAt(i) = TierAt(k) /\ TypeOf[ModelAt(i)] = TypeOf[ModelAt(k)]
      => TypeOf[ModelAt(j)] = TypeOf[ModelAt(i)]

\* Batching never overtakes within a model, failed loads or not: of two jobs of one model
\* and one priority the older runs first, and no job runs before one of higher priority.
FifoWithinModel ==
  \A i, k \in DOMAIN drained :
    i < k => /\ TierAt(k) <= TierAt(i)
             /\ TierAt(i) = TierAt(k) /\ ModelAt(i) = ModelAt(k)
                  => CreatedAt[drained[i]] <= CreatedAt[drained[k]]

\* select_in_tier's order, seen over the run of a whole queue: between failed loads each
\* tier swaps once per model and once per type, and no job is overtaken within its model.
BatchesAreOrdered == BatchTypeOK /\ ModelRunsAreContiguous /\ TypeRunsAreContiguous /\ FifoWithinModel

\* The jobs picked since the preview was taken.
SincePreview == SubSeq(drained, preview.from + 1, Len(drained))
PlannedModels ==
  FoldLeft(LAMBDA acc, s : acc \o [i \in 1 .. s.count |-> s.model], <<>>, preview.steps)

DistinctStamps == \A j, k \in Jobs : j # k => CreatedAt[j] # CreatedAt[k]

\* The worker follows the previewed run sequence, and when the queue is empty it has run
\* all of it, at the number of swaps that was previewed.
IsFollowed ==
  LET ran == [i \in DOMAIN SincePreview |-> row[SincePreview[i]].model]
  IN /\ IsPrefix(ran, PlannedModels)
     /\ waiting = {} => ran = PlannedModels
     /\ waiting = {} /\ phase = "idle" => preview.swapped = preview.swaps

\* The preview does not drift from the live worker: as long as nothing changes the queue
\* from outside and every load succeeds, it is followed. This holds of a preview that saw
\* the whole queue and was not taken in the middle of a swap. (Rows share no stamp.)
PlanIsFollowed == preview.exact /\ DistinctStamps => IsFollowed

\* backend/tests/test_scheduler.py:3-5: worker and preview share their rule, "so the
\* predicted swap count can never drift from what actually runs".
PlanNeverDrifts ==
  preview # NoPreview /\ DistinctStamps /\ waiting = {} /\ phase = "idle" => preview.swapped = preview.swaps
=============================================================================
