-------------------------------- MODULE Memory --------------------------------
(***************************************************************************)
(* Memory accounting (sysmon.py, model_profile_service.py, the keep-warm    *)
(* decision, the budget guard and the profiles of arbiter.py): how a swap   *)
(* decides from estimates whether to park, to evict or to refuse, and how   *)
(* the measurements behind those estimates are learned, reset and read      *)
(* again after a restart. GpuArbiter leaves these answers open.             *)
(***************************************************************************)
EXTENDS Integers, Sequences, SequencesExt

CONSTANTS Weights,     \* models
          Parkable,    \* those whose backend can be kept warm
          Ram,         \* RAM of the machine
          OtherUse,    \* amounts other programs may take
          Guess,       \* Guess[m]: the heuristic of estimate_ram_need_gb
          Held, Parked,\* RAM of a model on the GPU, and of a parked one
          Deltas,      \* Deltas[m]: what measuring a load or a resume of m may give, 0 for noise
          Margin,      \* learned_ram_margin_gb
          MinFree,     \* min_free_ram_gb
          KeepWarmMin, \* keep_warm_min_available_ram_gb
          MaxWarm,     \* keep_warm_max_models
          NoWeights,
          MaxReloads, MaxResets, MaxOtherChanges \* bounds

ASSUME MemoryAssumption ==
  /\ Parkable \subseteq Weights /\ NoWeights \notin Weights
  /\ OtherUse \subseteq Nat /\ {Ram, Margin, MinFree, KeepWarmMin, MaxWarm} \subseteq Nat
  /\ {MaxReloads, MaxResets, MaxOtherChanges} \subseteq Nat
  /\ \A m \in Weights : {Guess[m], Held[m], Parked[m]} \subseteq Nat /\ Deltas[m] \subseteq Nat

VARIABLES onGpu, pool,  \* the resident, and the warm pool in order
          others,       \* RAM other programs use
          swap,         \* the ensure that holds the lock
          profileRows,  \* RAM column of the table; 0: no row
          learned,      \* the cache of sysmon.py
          profile,      \* the record in flight
          reset,        \* the reset in flight
          promised,     \* history: what the swap parked a model for: "load", "resume" or "none"
          wasted,       \* history: ... and what was refused, or made evict somebody, after it
          largest,      \* history: the largest measurement since the row was made
          resetFailed,  \* history: a reset cleared the cache and kept the rows
          reloads, resets, otherChanges

learning == <<profileRows, learned, profile, reset, largest, resetFailed, resets>>
residency == <<onGpu, pool, others, swap, promised, wasted, otherChanges>>
memoryVars == <<learning, residency, reloads>>

NoSwap == [stage |-> "idle", to |-> NoWeights]
NoProfile == [stage |-> "idle", of |-> NoWeights, base |-> 0, ram |-> 0]
NoReset == {}

MemoryInit ==
  /\ onGpu = NoWeights /\ pool = <<>> /\ others = 0 /\ swap = NoSwap
  /\ profileRows = [m \in Weights |-> 0] /\ learned = profileRows /\ largest = profileRows
  /\ profile = NoProfile /\ reset = NoReset
  /\ promised = "none" /\ wasted = {} /\ resetFailed = FALSE
  /\ reloads = 0 /\ resets = 0 /\ otherChanges = 0

------------------------------------------------------------------------------
(* Estimates *)

Larger(a, b) == IF a < b THEN b ELSE a

\* What the warm pool takes.
WarmRam(ms) == LET sum[n \in 0..Len(ms)] == IF n = 0 THEN 0 ELSE sum[n - 1] + Parked[ms[n]]
               IN sum[Len(ms)]

RamAvailable ==
  Ram - others - WarmRam(pool)
      - (IF onGpu = NoWeights THEN 0 ELSE Held[onGpu])

\* estimate_ram_need_gb: a measurement with its margin, or else the heuristic.
RamNeed(m) == IF learned[m] > 0 THEN learned[m] + Margin ELSE Guess[m]

\* ram_budget
WithinBudget(m) == RamAvailable >= RamNeed(m) + MinFree

\* Mutant: the share of the incoming model is forgotten.
MayParkAlone(m, incoming) ==
  /\ m \in Parkable /\ Len(pool) < MaxWarm
  /\ RamAvailable >= RamNeed(m) + KeepWarmMin

\* can_keep_warm and _keep_warm_decision: parked beside the model that comes, whose
\* share counts only if it is not parked itself.
MayPark(m, incoming) ==
  /\ m \in Parkable /\ Len(pool) < MaxWarm
  /\ RamAvailable >= RamNeed(m) + (IF incoming \in ToSet(pool) THEN 0 ELSE RamNeed(incoming)) + KeepWarmMin

------------------------------------------------------------------------------
(* ensure, under the lock of the arbiter *)

\* A swap: the resident is parked or unloaded. A park promises room to the model that
\* comes, loaded anew or resumed, where the estimate covers what the parked model takes.
BeginSwap(m) ==
  /\ swap = NoSwap /\ profile = NoProfile /\ m # onGpu
  /\ swap' = [stage |-> "guard", to |-> m]
  /\ IF onGpu # NoWeights /\ MayPark(onGpu, m)
     THEN /\ pool' = Append(pool, onGpu)
          /\ promised' = IF Parked[onGpu] - Held[onGpu] <= RamNeed(onGpu)
                         THEN IF m \in ToSet(pool) THEN "resume" ELSE "load"
                         ELSE "none"
     ELSE pool' = pool /\ promised' = "none"
  /\ onGpu' = NoWeights
  /\ UNCHANGED <<others, wasted, otherChanges, learning, reloads>>

\* _guard_budget: as long as there is too little, the next victim is unloaded, the
\* model that is to be loaded last.
EvictWarm ==
  /\ swap.stage = "guard" /\ ~WithinBudget(swap.to) /\ pool # <<>>
  /\ pool' = IF ToSet(pool) = {swap.to} THEN <<>> ELSE RemoveFirstMatch(pool, LAMBDA b : b # swap.to)
  /\ wasted' = wasted \union ({promised} \ {"none"})
  /\ UNCHANGED <<onGpu, others, swap, promised, otherChanges, learning, reloads>>

RefuseLoad ==
  /\ swap.stage = "guard" /\ ~WithinBudget(swap.to) /\ pool = <<>>
  /\ swap' = NoSwap /\ wasted' = wasted \union ({promised} \ {"none"}) /\ promised' = "none"
  /\ UNCHANGED <<onGpu, pool, others, otherChanges, learning, reloads>>

PassBudget ==
  /\ swap.stage = "guard" /\ WithinBudget(swap.to)
  /\ swap' = [swap EXCEPT !.stage = "loading"] /\ promised' = "none"
  /\ UNCHANGED <<onGpu, pool, others, wasted, otherChanges, learning, reloads>>

\* load, or the resume of a warm model, which is measured and recorded just the same; a
\* failed load leaves a warm model in the pool.
LoadEnds ==
  /\ swap.stage = "loading"
  /\ \/ /\ onGpu' = swap.to /\ pool' = RemoveFirst(pool, swap.to)
        /\ \E ram \in Deltas[swap.to] :
             profile' = IF ram = 0 THEN NoProfile
                        ELSE [stage |-> "measured", of |-> swap.to, base |-> 0, ram |-> ram]
     \/ UNCHANGED <<onGpu, pool, profile>>
  /\ swap' = NoSwap
  /\ UNCHANGED <<others, promised, wasted, otherChanges, profileRows, learned, reset, largest, resetFailed, resets, reloads>>

FreeMemory ==
  /\ swap = NoSwap /\ profile = NoProfile /\ onGpu' = NoWeights /\ pool' = <<>>
  /\ UNCHANGED <<others, swap, promised, wasted, otherChanges, learning, reloads>>

\* Other programs take and give back memory whenever they like.
UseRam(n) ==
  /\ otherChanges < MaxOtherChanges /\ otherChanges' = otherChanges + 1
  /\ others' = n /\ promised' = "none"
  /\ UNCHANGED <<onGpu, pool, swap, wasted, learning, reloads>>

------------------------------------------------------------------------------
(* _record_profile, still under the lock; its errors are swallowed *)

RecordRead ==
  /\ profile.stage = "measured"
  /\ profile' = [profile EXCEPT !.stage = "read", !.base = profileRows[profile.of]]
  /\ UNCHANGED <<residency, profileRows, learned, reset, largest, resetFailed, resets, reloads>>

\* The commit. It waits for a reset whose DELETE has run; an UPDATE of a row that was
\* deleted since fails.
RecordCommit ==
  LET m == profile.of
  IN /\ profile.stage = "read" /\ reset = NoReset
     /\ profile.base = 0 \/ profileRows[m] > 0
     /\ profileRows' = [profileRows EXCEPT ![m] = Larger(profile.base, profile.ram)]
     /\ largest' = [largest EXCEPT ![m] = Larger(IF profileRows[m] = 0 THEN 0 ELSE @, profile.ram)]
     /\ profile' = [profile EXCEPT !.stage = "committed"]
     /\ UNCHANGED <<residency, learned, reset, resetFailed, resets, reloads>>

RecordFails ==
  /\ profile.stage \in {"measured", "read"} /\ profile' = NoProfile
  /\ UNCHANGED <<residency, profileRows, learned, reset, largest, resetFailed, resets, reloads>>

\* set_learned_profile
RecordCache ==
  LET m == profile.of
  IN /\ profile.stage = "committed" /\ profile' = NoProfile
     /\ learned' = [learned EXCEPT ![m] = Larger(@, profile.ram)]
     /\ UNCHANGED <<residency, profileRows, reset, largest, resetFailed, resets, reloads>>

------------------------------------------------------------------------------
(* The resets of api/models.py, and a restart *)

\* DELETE in an open transaction, then the cache; ms: one model or all of them.
ResetProfiles(ms) ==
  /\ reset = NoReset /\ resets < MaxResets /\ resets' = resets + 1
  /\ reset' = ms /\ learned' = [m \in Weights |-> IF m \in ms THEN 0 ELSE learned[m]]
  /\ promised' = "none"
  /\ UNCHANGED <<onGpu, pool, others, swap, wasted, otherChanges, profileRows, profile, largest, resetFailed, reloads>>

\* get_session commits when the request is over.
CommitReset ==
  /\ reset # NoReset /\ reset' = NoReset
  /\ profileRows' = [m \in Weights |-> IF m \in reset THEN 0 ELSE profileRows[m]]
  /\ largest' = [m \in Weights |-> IF m \in reset THEN 0 ELSE largest[m]]
  /\ UNCHANGED <<residency, learned, profile, resetFailed, resets, reloads>>

ResetFails ==
  /\ reset # NoReset /\ reset' = NoReset /\ resetFailed' = TRUE
  /\ UNCHANGED <<residency, profileRows, learned, profile, largest, resets, reloads>>

\* The backend ends at any point; the next one primes its cache from the rows, or
\* starts without them if they cannot be read.
Reload ==
  /\ reloads < MaxReloads /\ reloads' = reloads + 1
  /\ onGpu' = NoWeights /\ pool' = <<>> /\ swap' = NoSwap /\ promised' = "none"
  /\ profile' = NoProfile /\ reset' = NoReset
  /\ \/ learned' = profileRows /\ resetFailed' = FALSE
     \/ learned' = [m \in Weights |-> 0] /\ resetFailed' = TRUE
  /\ UNCHANGED <<others, wasted, otherChanges, profileRows, largest, resets>>

MemoryNext ==
  \/ \E m \in Weights : BeginSwap(m)
  \/ EvictWarm \/ RefuseLoad \/ PassBudget \/ LoadEnds \/ FreeMemory
  \/ \E n \in OtherUse : UseRam(n)
  \/ RecordRead \/ RecordCommit \/ RecordFails \/ RecordCache
  \/ \E ms \in {Weights} \union {{m} : m \in Weights} : ResetProfiles(ms)
  \/ CommitReset \/ ResetFails \/ Reload

MemorySpec == MemoryInit /\ [][MemoryNext]_memoryVars

------------------------------------------------------------------------------
(* Properties *)

MemoryTypeOK ==
  /\ onGpu \in Weights \union {NoWeights} /\ ToSet(pool) \subseteq Parkable \ {onGpu}
  /\ Len(pool) <= MaxWarm /\ IsInjective(pool)
  /\ \A m \in Weights : learned[m] \in Nat /\ profileRows[m] \in Nat

\* sysmon.py:228-230: a model that is loaded anew, not resumed, is never refused, nor
\* anybody evicted for it, because of the park of the same swap, while nobody else takes
\* memory and no profile is reset.
ParkingLeavesRoom == MinFree <= KeepWarmMin => "load" \notin wasted

\* arbiter.py:161-162: "the parked model and the incoming load must coexist in RAM, so
\* reserve the incoming model's share before agreeing to park".  No swap evicts or
\* refuses because of its own park, the resume of a warm model included.
EverySwapHasRoom == MinFree <= KeepWarmMin => wasted = {}

\* model_profile_service.py:4-5: a row holds the largest measurement since it was
\* made, in whatever order loads, resets and restarts come, and the budget never
\* goes by less, unless the cache was emptied and the rows could not be.
LearnedIsLargest ==
  /\ profileRows = largest
  /\ \A m \in Weights : \/ learned[m] >= profileRows[m] \/ resetFailed \/ m \in reset
                        \/ profile.stage = "committed" /\ profile.of = m

MemoryIsSound == MemoryTypeOK /\ ParkingLeavesRoom /\ LearnedIsLargest
==============================================================================
