----------------------------- MODULE GpuArbiter -----------------------------
(***************************************************************************)
(* GpuArbiter (backend/app/core/arbiter.py) over the load, unload and park  *)
(* of the GPU backends.                                                    *)
(*                                                                         *)
(* Tasks of one event loop call ensure(backend) or free_all().  Both hold   *)
(* the arbiter's asyncio lock from the first to the last line and suspend   *)
(* inside it wherever a backend works in a thread or a subprocess; a stage  *)
(* names the await a call is suspended at.  Event-bus publishes never       *)
(* suspend and are left out.  RAM measurements are a free choice wherever   *)
(* the code reads them.  Real mode: stub backends only sleep.               *)
(***************************************************************************)
EXTENDS Integers, Sequences, FiniteSets

CONSTANTS Backends,       \* the GPU backends of the registry
          ImageBackends,  \* those that can be parked: can_keep_warm
          Callers,        \* tasks that call the arbiter
          MaxWarm,        \* settings.keep_warm_max_models, 0 if keep-warm is off
          NoBackend,      \* None
          NoCaller        \* the lock is free

ASSUME ArbiterAssumption ==
  /\ ImageBackends \subseteq Backends
  /\ IsFiniteSet(Backends)
  /\ MaxWarm \in Nat
  /\ NoBackend \notin Backends
  /\ NoCaller \notin Callers

VARIABLES current,   \* _current
          warmPool,  \* _warm_backends, without its order
          loaded,    \* loaded[b]: backend._loaded, its weights are on the GPU
          warm,      \* warm[b]: backend._warm, its weights are parked in RAM
          holder,    \* the caller inside `async with self._lock`
          waiters,   \* callers suspended on the lock, first come first served
          call       \* call[c]: the arbiter call of task c

modelVars == <<current, warmPool, loaded, warm>>
lockVars == <<holder, waiters>>
arbiterVars == <<modelVars, lockVars, call>>

Outside == {"idle", "returned", "failed"}
Inside == {"park", "unload", "check", "evict", "load", "profile", "drain"}
Stages == Outside \union Inside \union {"queued"}

Call == [op : {"ensure", "free"}, target : Backends \union {NoBackend}, stage : Stages]

ArbiterInit ==
  /\ current = NoBackend
  /\ warmPool = {}
  /\ loaded = [b \in Backends |-> FALSE]
  /\ warm = [b \in Backends |-> FALSE]
  /\ holder = NoCaller
  /\ waiters = <<>>
  /\ call = [c \in Callers |-> [op |-> "free", target |-> NoBackend, stage |-> "idle"]]

------------------------------------------------------------------------------
(* The lock *)

\* asyncio.Lock.acquire: take a free lock, else queue up behind the others.
Acquire(c) ==
  \/ /\ holder = NoCaller
     /\ holder' = c
     /\ UNCHANGED waiters
  \/ /\ holder # NoCaller
     /\ waiters' = Append(waiters, c)
     /\ UNCHANGED holder

\* Mutant: the lock is freed, and its waiters are not woken.
ReleaseForgetsWaiters == holder' = NoCaller /\ UNCHANGED waiters

\* asyncio.Lock.release: the lock goes to the first waiter.
Release ==
  \/ /\ waiters = <<>>
     /\ holder' = NoCaller
     /\ UNCHANGED waiters
  \/ /\ waiters # <<>>
     /\ holder' = Head(waiters)
     /\ waiters' = Tail(waiters)

Suspended(c, stage) == holder = c /\ call[c].stage = stage

GoTo(c, stage) ==
  /\ call' = [call EXCEPT ![c].stage = stage]
  /\ UNCHANGED lockVars

Leave(c, outcome) ==
  /\ call' = [call EXCEPT ![c].stage = outcome]
  /\ Release

------------------------------------------------------------------------------
(* Backends *)

\* _clear_resident_state, or the llama-server's exit.
Cleared(b) ==
  /\ loaded' = [loaded EXCEPT ![b] = FALSE]
  /\ warm' = [warm EXCEPT ![b] = FALSE]

\* _keep_warm_decision up to the RAM measurement.
MayKeepWarm(b) ==
  /\ b \in ImageBackends
  /\ b \in warmPool \/ Cardinality(warmPool) < MaxWarm
  /\ MaxWarm > 0

\* _guard_budget evicts the backend being loaded last.
Victims(b) == IF warmPool = {b} THEN {b} ELSE warmPool \ {b}

------------------------------------------------------------------------------
(* ensure(backend) *)

EnsureCall(c, b) ==
  /\ call[c].stage \in Outside
  /\ call' = [call EXCEPT ![c] = [op |-> "ensure", target |-> b, stage |-> "queued"]]
  /\ Acquire(c)
  /\ UNCHANGED modelVars

\* Mutant: the resident is not displaced first.
EnsureWithoutSwap(c) ==
  /\ Suspended(c, "queued") /\ call[c].op = "ensure"
  /\ IF current = call[c].target /\ loaded[current] THEN Leave(c, "returned") ELSE GoTo(c, "check")
  /\ UNCHANGED modelVars

\* Mutant: _current is trusted to be loaded.
EnsureTrustsCurrent(c) ==
  /\ Suspended(c, "queued") /\ call[c].op = "ensure"
  /\ \/ current = call[c].target /\ Leave(c, "returned")
     \/ current = NoBackend /\ GoTo(c, "check")
     \/ current \notin {call[c].target, NoBackend} /\ GoTo(c, "unload")
  /\ UNCHANGED modelVars

\* With the lock: nothing to do, a resident to displace, or a free slot.  A
\* displaced resident is parked if the policy allows it; park() refuses one that
\* is not loaded, and the arbiter then unloads it.
EnsureEnter(c) ==
  /\ Suspended(c, "queued") /\ call[c].op = "ensure"
  /\ LET b == call[c].target IN
       \/ /\ current = b /\ loaded[b]
          /\ Leave(c, "returned")
       \/ /\ current \notin {b, NoBackend}
          /\ MayKeepWarm(current) /\ loaded[current]
          /\ GoTo(c, "park")
       \/ /\ current \notin {b, NoBackend}
          /\ GoTo(c, "unload")
       \/ /\ current \in {b, NoBackend}
          /\ ~(current = b /\ loaded[b])
          /\ GoTo(c, "check")
  /\ UNCHANGED modelVars

ParkDone(c) ==
  /\ Suspended(c, "park")
  /\ loaded' = [loaded EXCEPT ![current] = FALSE]
  /\ warm' = [warm EXCEPT ![current] = TRUE]
  /\ warmPool' = warmPool \union {current}
  /\ current' = NoBackend
  /\ GoTo(c, "check")

\* Mutant: _current is forgotten although the park failed.
ParkFailsForgets(c) ==
  /\ Suspended(c, "park")
  /\ Leave(c, "failed")
  /\ current' = NoBackend
  /\ UNCHANGED <<warmPool, loaded, warm>>

\* _park_pipeline_sync raises: the resident stays as it was.
ParkFails(c) ==
  /\ Suspended(c, "park")
  /\ Leave(c, "failed")
  /\ UNCHANGED modelVars

\* `if not backend.loaded` and _guard_budget: load if the RAM budget allows it,
\* else evict a warm model and measure again, else refuse (MemoryError).
EnsureCheck(c) ==
  /\ Suspended(c, "check")
  /\ LET b == call[c].target IN
       \/ /\ loaded[b]
          /\ current' = b
          /\ Leave(c, "returned")
          /\ UNCHANGED <<warmPool, loaded, warm>>
       \/ /\ ~loaded[b]
          /\ GoTo(c, "load")
          /\ UNCHANGED modelVars
       \/ /\ ~loaded[b] /\ warmPool # {}
          /\ GoTo(c, "evict")
          /\ UNCHANGED modelVars
       \/ /\ ~loaded[b] /\ warmPool = {}
          /\ Leave(c, "failed")
          /\ UNCHANGED modelVars

\* Mutant: a resumed pipeline keeps its _warm flag.
LoadStaysWarm(c) ==
  /\ Suspended(c, "load")
  /\ loaded' = [loaded EXCEPT ![call[c].target] = TRUE]
  /\ GoTo(c, "profile")
  /\ UNCHANGED <<current, warmPool, warm>>

\* backend.load(): a cold load, or the resume of a parked pipeline.
LoadDone(c) ==
  /\ Suspended(c, "load")
  /\ loaded' = [loaded EXCEPT ![call[c].target] = TRUE]
  /\ warm' = [warm EXCEPT ![call[c].target] = FALSE]
  /\ GoTo(c, "profile")
  /\ UNCHANGED <<current, warmPool>>

LoadFails(c) ==
  /\ Suspended(c, "load")
  /\ Leave(c, "failed")
  /\ UNCHANGED modelVars

\* _record_profile has written its row, or failed to, and ensure completes.
EnsureDone(c) ==
  /\ Suspended(c, "profile")
  /\ warmPool' = warmPool \ {call[c].target}
  /\ current' = call[c].target
  /\ Leave(c, "returned")
  /\ UNCHANGED <<loaded, warm>>

------------------------------------------------------------------------------
(* free_all() and the unloads it shares with ensure *)

FreeCall(c) ==
  /\ call[c].stage \in Outside
  /\ call' = [call EXCEPT ![c] = [op |-> "free", target |-> NoBackend, stage |-> "queued"]]
  /\ Acquire(c)
  /\ UNCHANGED modelVars

FreeEnter(c) ==
  /\ Suspended(c, "queued") /\ call[c].op = "free"
  /\ GoTo(c, IF current = NoBackend THEN "drain" ELSE "unload")
  /\ UNCHANGED modelVars

\* _unload_current after unload() returned.
UnloadDone(c) ==
  /\ Suspended(c, "unload")
  /\ Cleared(current)
  /\ warmPool' = warmPool \ {current}
  /\ current' = NoBackend
  /\ GoTo(c, IF call[c].op = "ensure" THEN "check" ELSE "drain")

\* The free of an image pipeline raises: its `finally` clears the flags, but the
\* arbiter's own bookkeeping is skipped.
UnloadFails(c) ==
  /\ Suspended(c, "unload")
  /\ current \in ImageBackends /\ (loaded[current] \/ warm[current])
  /\ Cleared(current)
  /\ Leave(c, "failed")
  /\ UNCHANGED <<current, warmPool>>

\* _unload_warm of one parked backend.
UnloadWarmDone(c) ==
  /\ \/ Suspended(c, "evict") /\ GoTo(c, "check")
     \/ Suspended(c, "drain") /\ GoTo(c, "drain")
  /\ \E b \in Victims(call[c].target) :
       /\ Cleared(b)
       /\ warmPool' = warmPool \ {b}
  /\ UNCHANGED current

\* Mutant: a failing unload leaves the pool, but keeps its weights.
UnloadWarmLeaks(c) ==
  /\ Suspended(c, "evict") \/ Suspended(c, "drain")
  /\ \E b \in Victims(call[c].target) : warmPool' = warmPool \ {b}
  /\ Leave(c, "failed")
  /\ UNCHANGED <<current, loaded, warm>>

UnloadWarmFails(c) ==
  /\ Suspended(c, "evict") \/ Suspended(c, "drain")
  /\ \E b \in Victims(call[c].target) :
       /\ loaded[b] \/ warm[b]
       /\ Cleared(b)
  /\ Leave(c, "failed")
  /\ UNCHANGED <<current, warmPool>>

\* Mutant: free_all does not wait for the warm pool.
FreeDoneEarly(c) ==
  /\ Suspended(c, "drain")
  /\ Leave(c, "returned")
  /\ UNCHANGED modelVars

FreeDone(c) ==
  /\ Suspended(c, "drain")
  /\ warmPool = {}
  /\ Leave(c, "returned")
  /\ UNCHANGED modelVars

------------------------------------------------------------------------------
\* What a call does once it is made.
Progress(c) ==
  \/ EnsureEnter(c) \/ ParkDone(c) \/ ParkFails(c) \/ EnsureCheck(c)
  \/ LoadDone(c) \/ LoadFails(c) \/ EnsureDone(c)
  \/ FreeEnter(c) \/ UnloadDone(c) \/ UnloadFails(c)
  \/ UnloadWarmDone(c) \/ UnloadWarmFails(c) \/ FreeDone(c)

ArbiterNext ==
  \E c \in Callers :
    \/ \E b \in Backends : EnsureCall(c, b)
    \/ FreeCall(c)
    \/ Progress(c)

ArbiterSpec == ArbiterInit /\ [][ArbiterNext]_arbiterVars

------------------------------------------------------------------------------
(* Properties *)

TypeOK ==
  /\ current \in Backends \union {NoBackend}
  /\ warmPool \in SUBSET Backends
  /\ loaded \in [Backends -> BOOLEAN]
  /\ warm \in [Backends -> BOOLEAN]
  /\ holder \in Callers \union {NoCaller}
  /\ waiters \in Seq(Callers)
  /\ call \in [Callers -> Call]

\* arbiter.py, line 5: at most one GPU resident at a time, through every
\* interleaving of calls and every failure of a park, load or unload.
OneResident == \A a, b \in Backends : loaded[a] /\ loaded[b] => a = b

\* A resident is never hidden from the arbiter: it is _current, so the next swap
\* or free_all unloads it, or its own load is about to make it so.
ResidentIsCurrent ==
  \A b \in Backends :
    loaded[b] => current = b
                 \/ \E c \in Callers : Suspended(c, "profile") /\ call[c].target = b

\* A load starts from a clean baseline (arbiter.py, lines 177-178): while a
\* backend loads, nothing else is on the GPU.
CleanBaseline ==
  \A c \in Callers : Suspended(c, "load") => \A b \in Backends : ~loaded[b]

\* No parked model leaks: whatever is warm is in the pool that the budget guard
\* and free_all can evict, though evictions and loads fail.
WarmIsPooled == \A b \in Backends : warm[b] => b \in warmPool

\* Parking never exceeds keep_warm_max_models.
PoolIsBounded == Cardinality(warmPool) <= MaxWarm

\* The bookkeeping of arbiter.py agrees with the backends, whatever raises half-way
\* through a swap: no model is on the GPU or parked in RAM where no later swap, eviction
\* or free_all would find it.
BooksAgree == TypeOK /\ ResidentIsCurrent /\ WarmIsPooled

Returns(c) == call[c].stage # "returned" /\ call'[c].stage = "returned"

\* ensure's docstring: when it returns, its backend is the sole resident, loaded.
EnsureGuarantee ==
  [][\A c \in Callers :
       Returns(c) /\ call[c].op = "ensure" =>
         /\ current' = call[c].target
         /\ \A b \in Backends : loaded'[b] <=> b = call[c].target]_arbiterVars

\* A free_all that returns has emptied the GPU and the warm pool.
FreeGuarantee ==
  [][\A c \in Callers :
       Returns(c) /\ call[c].op = "free" =>
         /\ current' = NoBackend /\ warmPool' = {}
         /\ \A b \in Backends : ~loaded'[b] /\ ~warm'[b]]_arbiterVars

\* What the callers of ensure and free_all rely on when the call returns, however many
\* others were queued on the lock before and behind it.
CallsDeliver == EnsureGuarantee /\ FreeGuarantee

\* The arbiter implements the slot: a swap empties it before it fills it, and the
\* parked models are the ones whose weights wait in RAM.
Resident == IF \E b \in Backends : loaded[b] THEN CHOOSE b \in Backends : loaded[b]
            ELSE NoBackend
Parked == {b \in Backends : warm[b]}
Slots == INSTANCE ModelSlots WITH slot <- Resident, parked <- Parked
SlotSpec == Slots!Spec

\* Every call ends, however many others queue on the lock.
CallsEnd ==
  \A c \in Callers : call[c].stage = "queued" ~> call[c].stage \in {"returned", "failed"}
=============================================================================
