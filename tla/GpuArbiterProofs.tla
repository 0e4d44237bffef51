-------------------------- MODULE GpuArbiterProofs --------------------------
(***************************************************************************)
(* Theorems about GpuArbiter, for any set of backends and callers and any   *)
(* keep-warm limit.  They follow from one inductive invariant, ArbiterInv:  *)
(* who is inside the lock, what each stage of a call knows about the        *)
(* models, and how the flags of the backends relate to the bookkeeping of   *)
(* the arbiter.                                                             *)
(***************************************************************************)
EXTENDS GpuArbiter, FiniteSetTheorems, TLAPS

\* Only the holder of the lock is past the queue.
LockInv == \A c \in Callers : call[c].stage \in Inside => holder = c

NoneLoaded == \A b \in Backends : ~loaded[b]

\* What a call knows at the await it is suspended at.
StageInv ==
  \A c \in Callers :
    /\ call[c].op = "ensure" => call[c].target \in Backends
    /\ call[c].stage = "park" =>
         /\ call[c].op = "ensure"
         /\ current \in Backends /\ loaded[current] /\ MayKeepWarm(current)
    /\ call[c].stage = "unload" => current \in Backends
    /\ call[c].stage \in {"check", "evict", "load"} =>
         /\ call[c].op = "ensure" /\ NoneLoaded
         /\ current \in {NoBackend, call[c].target}
    /\ call[c].stage = "profile" =>
         /\ call[c].op = "ensure"
         /\ current \in {NoBackend, call[c].target}
         /\ \A b \in Backends : loaded[b] <=> b = call[c].target
    /\ call[c].stage = "drain" =>
         call[c].op = "free" /\ current = NoBackend /\ NoneLoaded

\* A parked backend is in the pool, and neither current nor loaded.
WarmInv == \A b \in Backends : warm[b] => b \in warmPool /\ b # current /\ ~loaded[b]

ArbiterInv ==
  /\ TypeOK
  /\ LockInv
  /\ StageInv
  /\ ResidentIsCurrent
  /\ WarmInv
  /\ PoolIsBounded

------------------------------------------------------------------------------
(* What the helpers do *)

LEMMA AcquireType ==
  ASSUME TypeOK, NEW c \in Callers, Acquire(c)
  PROVE  /\ holder' \in Callers \union {NoCaller} /\ waiters' \in Seq(Callers)
         /\ holder # NoCaller => holder' = holder
  BY DEF TypeOK, Acquire

LEMMA ReleaseType ==
  ASSUME TypeOK, Release
  PROVE  holder' \in Callers \union {NoCaller} /\ waiters' \in Seq(Callers)
  BY DEF TypeOK, Release

\* A call that moves on keeps its operation and target, and the lock.
LEMMA GoToFacts ==
  ASSUME TypeOK, LockInv, NEW c \in Callers, NEW stage \in Stages, holder = c, GoTo(c, stage)
  PROVE  /\ call' \in [Callers -> Call]
         /\ call'[c].stage = stage /\ call'[c].op = call[c].op
         /\ call'[c].target = call[c].target
         /\ \A d \in Callers \ {c} : call'[d] = call[d]
         /\ UNCHANGED lockVars
         /\ LockInv'
  <1>1. /\ call' \in [Callers -> Call]
        /\ call'[c].stage = stage /\ call'[c].op = call[c].op
        /\ call'[c].target = call[c].target
        /\ \A d \in Callers \ {c} : call'[d] = call[d]
        /\ UNCHANGED lockVars
    BY DEF TypeOK, GoTo, Call
  <1> QED BY <1>1 DEF LockInv, lockVars

\* A call that ends hands the lock on.
LEMMA LeaveFacts ==
  ASSUME TypeOK, LockInv, NEW c \in Callers, NEW outcome \in Outside, holder = c,
         Leave(c, outcome)
  PROVE  /\ call' \in [Callers -> Call]
         /\ call'[c].stage = outcome /\ call'[c].op = call[c].op
         /\ call'[c].target = call[c].target
         /\ \A d \in Callers \ {c} : call'[d] = call[d] /\ call'[d].stage \notin Inside
         /\ holder' \in Callers \union {NoCaller} /\ waiters' \in Seq(Callers)
         /\ LockInv'
  <1>1. outcome \in Stages /\ outcome \notin Inside
    BY DEF Stages, Outside, Inside
  <1>2. /\ call' \in [Callers -> Call]
        /\ call'[c].stage = outcome /\ call'[c].op = call[c].op
        /\ call'[c].target = call[c].target
        /\ \A d \in Callers \ {c} : call'[d] = call[d]
    BY <1>1 DEF TypeOK, Leave, Call
  <1>3. holder' \in Callers \union {NoCaller} /\ waiters' \in Seq(Callers)
    BY ReleaseType DEF Leave
  <1>4. \A d \in Callers : call'[d].stage \notin Inside
    BY <1>1, <1>2, ArbiterAssumption DEF LockInv
  <1> QED BY <1>2, <1>3, <1>4 DEF LockInv

\* A new call queues up; it is inside the lock only once it enters.
LEMMA CallFacts ==
  ASSUME TypeOK, LockInv, NEW c \in Callers, call[c].stage \in Outside, Acquire(c),
         NEW op \in {"ensure", "free"}, NEW b \in Backends \union {NoBackend},
         call' = [call EXCEPT ![c] = [op |-> op, target |-> b, stage |-> "queued"]]
  PROVE  /\ call' \in [Callers -> Call]
         /\ call'[c] = [op |-> op, target |-> b, stage |-> "queued"]
         /\ \A d \in Callers \ {c} : call'[d] = call[d]
         /\ holder' \in Callers \union {NoCaller} /\ waiters' \in Seq(Callers)
         /\ holder # NoCaller => holder' = holder
         /\ LockInv'
  <1>1. /\ call' \in [Callers -> Call]
        /\ call'[c] = [op |-> op, target |-> b, stage |-> "queued"]
        /\ \A d \in Callers \ {c} : call'[d] = call[d]
    BY DEF TypeOK, Call, Stages
  <1>2. /\ holder' \in Callers \union {NoCaller} /\ waiters' \in Seq(Callers)
        /\ holder # NoCaller => holder' = holder
    BY AcquireType
  <1> QED BY <1>1, <1>2, ArbiterAssumption DEF LockInv, Inside

\* The part of a call's step that is about the call and the lock.
LEMMA ProgressFacts ==
  ASSUME TypeOK, LockInv, NEW c \in Callers, Progress(c)
  PROVE  /\ holder = c
         /\ call' \in [Callers -> Call]
         /\ call[c].stage \notin Outside
         /\ call'[c].stage \in Inside \union {"returned", "failed"}
         /\ call'[c].op = call[c].op /\ call'[c].target = call[c].target
         /\ \A d \in Callers \ {c} : call'[d] = call[d] /\ call'[d].stage \notin Inside
         /\ holder' \in Callers \union {NoCaller} /\ waiters' \in Seq(Callers)
         /\ LockInv'
  <1>1. holder = c /\ call[c].stage \notin Outside
    BY DEF Progress, EnsureEnter, ParkDone, ParkFails, EnsureCheck, LoadDone, LoadFails,
       EnsureDone, FreeEnter, UnloadDone, UnloadFails, UnloadWarmDone, UnloadWarmFails,
       FreeDone, Suspended, Outside
  <1>2. \/ \E stage \in Inside : GoTo(c, stage)
        \/ \E outcome \in {"returned", "failed"} : Leave(c, outcome)
    BY DEF Progress, EnsureEnter, ParkDone, ParkFails, EnsureCheck, LoadDone, LoadFails,
       EnsureDone, FreeEnter, UnloadDone, UnloadFails, UnloadWarmDone, UnloadWarmFails,
       FreeDone, Stages, Inside, Outside
  <1>3. \A d \in Callers \ {c} : call[d].stage \notin Inside
    BY <1>1 DEF LockInv
  <1>4. CASE \E stage \in Inside : GoTo(c, stage)
    <2>1. PICK stage \in Inside : GoTo(c, stage)
      BY <1>4
    <2> QED BY <1>1, <1>3, <2>1, GoToFacts DEF TypeOK, lockVars, Stages, Inside
  <1>5. CASE \E outcome \in {"returned", "failed"} : Leave(c, outcome)
    <2>1. PICK outcome \in {"returned", "failed"} : Leave(c, outcome)
      BY <1>5
    <2> QED BY <1>1, <1>3, <2>1, LeaveFacts DEF Outside
  <1> QED BY <1>2, <1>4, <1>5

\* The pool stays within its bound when it loses a member.
LEMMA SmallerPool ==
  ASSUME TypeOK, PoolIsBounded, NEW S, warmPool' = warmPool \ S
  PROVE  PoolIsBounded'
  <1>1. IsFiniteSet(warmPool)
    BY FS_Subset, ArbiterAssumption DEF TypeOK
  <1>2. Cardinality(warmPool \ S) <= Cardinality(warmPool)
    BY <1>1, FS_Subset
  <1>3. Cardinality(warmPool) \in Nat /\ Cardinality(warmPool \ S) \in Nat
    BY <1>1, FS_Subset, FS_CardinalityType
  <1> QED BY <1>2, <1>3, ArbiterAssumption DEF PoolIsBounded

\* ... and when it gains one the keep-warm policy allows.
LEMMA LargerPool ==
  ASSUME TypeOK, PoolIsBounded, NEW b \in Backends, MayKeepWarm(b),
         warmPool' = warmPool \union {b}
  PROVE  PoolIsBounded'
  <1>1. IsFiniteSet(warmPool)
    BY FS_Subset, ArbiterAssumption DEF TypeOK
  <1>2. Cardinality(warmPool \union {b}) =
          IF b \in warmPool THEN Cardinality(warmPool) ELSE Cardinality(warmPool) + 1
    BY <1>1, FS_AddElement
  <1>3. Cardinality(warmPool) \in Nat
    BY <1>1, FS_CardinalityType
  <1> QED BY <1>2, <1>3, ArbiterAssumption DEF PoolIsBounded, MayKeepWarm

------------------------------------------------------------------------------
(* The inductive step, one lemma per action *)

LEMMA EnsureCallStep ==
  ASSUME ArbiterInv, NEW c \in Callers, NEW b \in Backends, EnsureCall(c, b)
  PROVE  ArbiterInv'
  <1> USE DEF ArbiterInv
  <1>0. /\ call[c].stage \in Outside /\ Acquire(c)
        /\ call' = [call EXCEPT ![c] = [op |-> "ensure", target |-> b, stage |-> "queued"]]
        /\ UNCHANGED modelVars
    BY DEF EnsureCall
  <1>a. /\ call' \in [Callers -> Call]
        /\ call'[c] = [op |-> "ensure", target |-> b, stage |-> "queued"]
        /\ \A d \in Callers \ {c} : call'[d] = call[d]
        /\ holder' \in Callers \union {NoCaller} /\ waiters' \in Seq(Callers)
        /\ holder # NoCaller => holder' = holder
        /\ LockInv'
    BY <1>0, CallFacts
  <1>1. TypeOK'
    BY <1>0, <1>a DEF EnsureCall, TypeOK, StageInv, Suspended, modelVars, lockVars
  <1>2. LockInv'
    BY <1>0, <1>a
  <1>3. StageInv'
    BY <1>0, <1>a, ArbiterAssumption DEF EnsureCall, StageInv, LockInv, TypeOK, ResidentIsCurrent, WarmInv, NoneLoaded,
         Suspended, MayKeepWarm, modelVars, lockVars, Inside, Outside, Stages
  <1>4. ResidentIsCurrent'
    BY <1>0, <1>a, ArbiterAssumption DEF EnsureCall, ResidentIsCurrent, StageInv, LockInv, TypeOK, NoneLoaded,
         Suspended, modelVars, lockVars, Inside, Outside, Stages
  <1>5. WarmInv'
    BY <1>0, <1>a, ArbiterAssumption DEF EnsureCall, WarmInv, StageInv, TypeOK, ResidentIsCurrent, NoneLoaded, Suspended,
         modelVars
  <1>6. PoolIsBounded'
    BY <1>0, <1>a DEF EnsureCall, PoolIsBounded, modelVars
  <1> QED BY <1>1, <1>2, <1>3, <1>4, <1>5, <1>6 DEF ArbiterInv


LEMMA EnsureEnterStep ==
  ASSUME ArbiterInv, NEW c \in Callers, EnsureEnter(c)
  PROVE  ArbiterInv'
  <1> USE DEF ArbiterInv
  <1>1. CASE current = call[c].target /\ loaded[current] /\ Leave(c, "returned")
    <2>0. holder = c /\ "returned" \in Outside
      BY DEF EnsureEnter, Suspended, Outside
    <2>1. TypeOK'
      BY <1>1, <2>0, LeaveFacts DEF EnsureEnter, TypeOK, StageInv, Suspended, modelVars, lockVars
    <2>2. LockInv'
      BY <1>1, <2>0, LeaveFacts
    <2>3. StageInv'
      BY <1>1, <2>0, LeaveFacts, ArbiterAssumption DEF EnsureEnter, StageInv, LockInv, TypeOK, ResidentIsCurrent, WarmInv, NoneLoaded,
           Suspended, MayKeepWarm, modelVars, lockVars, Inside, Outside, Stages
    <2>4. ResidentIsCurrent'
      BY <1>1, <2>0, LeaveFacts, ArbiterAssumption DEF EnsureEnter, ResidentIsCurrent, StageInv, LockInv, TypeOK, NoneLoaded,
           Suspended, modelVars, lockVars, Inside, Outside, Stages
    <2>5. WarmInv'
      BY <1>1, <2>0, LeaveFacts, ArbiterAssumption DEF EnsureEnter, WarmInv, StageInv, TypeOK, ResidentIsCurrent, NoneLoaded, Suspended,
           modelVars
    <2>6. PoolIsBounded'
      BY <1>1, <2>0, LeaveFacts DEF EnsureEnter, PoolIsBounded, modelVars
    <2> QED BY <2>1, <2>2, <2>3, <2>4, <2>5, <2>6
  <1>2. CASE /\ current \notin {call[c].target, NoBackend}
             /\ MayKeepWarm(current) /\ loaded[current] /\ GoTo(c, "park")
    <2>0. holder = c /\ "park" \in Stages
      BY DEF EnsureEnter, Suspended, Stages, Inside
    <2>1. TypeOK'
      BY <1>2, <2>0, GoToFacts DEF EnsureEnter, TypeOK, StageInv, Suspended, modelVars, lockVars
    <2>2. LockInv'
      BY <1>2, <2>0, GoToFacts
    <2>3. StageInv'
      BY <1>2, <2>0, GoToFacts, ArbiterAssumption DEF EnsureEnter, StageInv, LockInv, TypeOK, ResidentIsCurrent, WarmInv, NoneLoaded,
           Suspended, MayKeepWarm, modelVars, lockVars, Inside, Outside, Stages
    <2>4. ResidentIsCurrent'
      BY <1>2, <2>0, GoToFacts, ArbiterAssumption DEF EnsureEnter, ResidentIsCurrent, StageInv, LockInv, TypeOK, NoneLoaded,
           Suspended, modelVars, lockVars, Inside, Outside, Stages
    <2>5. WarmInv'
      BY <1>2, <2>0, GoToFacts, ArbiterAssumption DEF EnsureEnter, WarmInv, StageInv, TypeOK, ResidentIsCurrent, NoneLoaded, Suspended,
           modelVars
    <2>6. PoolIsBounded'
      BY <1>2, <2>0, GoToFacts DEF EnsureEnter, PoolIsBounded, modelVars
    <2> QED BY <2>1, <2>2, <2>3, <2>4, <2>5, <2>6
  <1>3. CASE current \notin {call[c].target, NoBackend} /\ GoTo(c, "unload")
    <2>0. holder = c /\ "unload" \in Stages
      BY DEF EnsureEnter, Suspended, Stages, Inside
    <2>1. TypeOK'
      BY <1>3, <2>0, GoToFacts DEF EnsureEnter, TypeOK, StageInv, Suspended, modelVars, lockVars
    <2>2. LockInv'
      BY <1>3, <2>0, GoToFacts
    <2>3. StageInv'
      BY <1>3, <2>0, GoToFacts, ArbiterAssumption DEF EnsureEnter, StageInv, LockInv, TypeOK, ResidentIsCurrent, WarmInv, NoneLoaded,
           Suspended, MayKeepWarm, modelVars, lockVars, Inside, Outside, Stages
    <2>4. ResidentIsCurrent'
      BY <1>3, <2>0, GoToFacts, ArbiterAssumption DEF EnsureEnter, ResidentIsCurrent, StageInv, LockInv, TypeOK, NoneLoaded,
           Suspended, modelVars, lockVars, Inside, Outside, Stages
    <2>5. WarmInv'
      BY <1>3, <2>0, GoToFacts, ArbiterAssumption DEF EnsureEnter, WarmInv, StageInv, TypeOK, ResidentIsCurrent, NoneLoaded, Suspended,
           modelVars
    <2>6. PoolIsBounded'
      BY <1>3, <2>0, GoToFacts DEF EnsureEnter, PoolIsBounded, modelVars
    <2> QED BY <2>1, <2>2, <2>3, <2>4, <2>5, <2>6
  <1>4. CASE /\ current \in {call[c].target, NoBackend}
             /\ ~(current = call[c].target /\ loaded[current]) /\ GoTo(c, "check")
    <2>0. holder = c /\ "check" \in Stages
      BY DEF EnsureEnter, Suspended, Stages, Inside
    <2>1. TypeOK'
      BY <1>4, <2>0, GoToFacts DEF EnsureEnter, TypeOK, StageInv, Suspended, modelVars, lockVars
    <2>2. LockInv'
      BY <1>4, <2>0, GoToFacts
    <2>3. StageInv'
      BY <1>4, <2>0, GoToFacts, ArbiterAssumption DEF EnsureEnter, StageInv, LockInv, TypeOK, ResidentIsCurrent, WarmInv, NoneLoaded,
           Suspended, MayKeepWarm, modelVars, lockVars, Inside, Outside, Stages
    <2>4. ResidentIsCurrent'
      BY <1>4, <2>0, GoToFacts, ArbiterAssumption DEF EnsureEnter, ResidentIsCurrent, StageInv, LockInv, TypeOK, NoneLoaded,
           Suspended, modelVars, lockVars, Inside, Outside, Stages
    <2>5. WarmInv'
      BY <1>4, <2>0, GoToFacts, ArbiterAssumption DEF EnsureEnter, WarmInv, StageInv, TypeOK, ResidentIsCurrent, NoneLoaded, Suspended,
           modelVars
    <2>6. PoolIsBounded'
      BY <1>4, <2>0, GoToFacts DEF EnsureEnter, PoolIsBounded, modelVars
    <2> QED BY <2>1, <2>2, <2>3, <2>4, <2>5, <2>6
  <1> QED BY <1>1, <1>2, <1>3, <1>4 DEF EnsureEnter

LEMMA ParkDoneStep ==
  ASSUME ArbiterInv, NEW c \in Callers, ParkDone(c)
  PROVE  ArbiterInv'
  <1> USE DEF ArbiterInv
  <1>0. /\ holder = c /\ "check" \in Stages
        /\ GoTo(c, "check")
    BY DEF ParkDone, Suspended, Stages, Inside
  <1>1. TypeOK'
    BY <1>0, GoToFacts DEF ParkDone, TypeOK, StageInv, Suspended, modelVars, lockVars
  <1>2. LockInv'
    BY <1>0, GoToFacts
  <1>3. StageInv'
    BY <1>0, GoToFacts, ArbiterAssumption DEF ParkDone, StageInv, LockInv, TypeOK, ResidentIsCurrent, WarmInv, NoneLoaded,
         Suspended, MayKeepWarm, modelVars, lockVars, Inside, Outside, Stages
  <1>4. ResidentIsCurrent'
    BY <1>0, GoToFacts, ArbiterAssumption DEF ParkDone, ResidentIsCurrent, StageInv, LockInv, TypeOK, NoneLoaded,
         Suspended, modelVars, lockVars, Inside, Outside, Stages
  <1>5. WarmInv'
    BY <1>0, GoToFacts, ArbiterAssumption DEF ParkDone, WarmInv, StageInv, TypeOK, ResidentIsCurrent, NoneLoaded, Suspended,
         modelVars
  <1>6. PoolIsBounded'
    <2>1. MayKeepWarm(current) /\ current \in Backends
      BY DEF ParkDone, Suspended, StageInv
    <2> QED BY <2>1, LargerPool DEF ParkDone
  <1> QED BY <1>1, <1>2, <1>3, <1>4, <1>5, <1>6 DEF ArbiterInv


LEMMA ParkFailsStep ==
  ASSUME ArbiterInv, NEW c \in Callers, ParkFails(c)
  PROVE  ArbiterInv'
  <1> USE DEF ArbiterInv
  <1>0. /\ holder = c /\ "failed" \in Outside
        /\ Leave(c, "failed")
    BY DEF ParkFails, Suspended, Outside
  <1>1. TypeOK'
    BY <1>0, LeaveFacts DEF ParkFails, TypeOK, StageInv, Suspended, modelVars, lockVars
  <1>2. LockInv'
    BY <1>0, LeaveFacts
  <1>3. StageInv'
    BY <1>0, LeaveFacts, ArbiterAssumption DEF ParkFails, StageInv, LockInv, TypeOK, ResidentIsCurrent, WarmInv, NoneLoaded,
         Suspended, MayKeepWarm, modelVars, lockVars, Inside, Outside, Stages
  <1>4. ResidentIsCurrent'
    BY <1>0, LeaveFacts, ArbiterAssumption DEF ParkFails, ResidentIsCurrent, StageInv, LockInv, TypeOK, NoneLoaded,
         Suspended, modelVars, lockVars, Inside, Outside, Stages
  <1>5. WarmInv'
    BY <1>0, LeaveFacts, ArbiterAssumption DEF ParkFails, WarmInv, StageInv, TypeOK, ResidentIsCurrent, NoneLoaded, Suspended,
         modelVars
  <1>6. PoolIsBounded'
    BY <1>0, LeaveFacts DEF ParkFails, PoolIsBounded, modelVars
  <1> QED BY <1>1, <1>2, <1>3, <1>4, <1>5, <1>6 DEF ArbiterInv


LEMMA EnsureCheckStep ==
  ASSUME ArbiterInv, NEW c \in Callers, EnsureCheck(c)
  PROVE  ArbiterInv'
  <1> USE DEF ArbiterInv
  <1>1. CASE GoTo(c, "load") /\ UNCHANGED modelVars
    <2>0. holder = c /\ "load" \in Stages
      BY DEF EnsureCheck, Suspended, Stages, Inside
    <2>1. TypeOK'
      BY <1>1, <2>0, GoToFacts DEF EnsureCheck, TypeOK, StageInv, Suspended, modelVars, lockVars
    <2>2. LockInv'
      BY <1>1, <2>0, GoToFacts
    <2>3. StageInv'
      BY <1>1, <2>0, GoToFacts, ArbiterAssumption DEF EnsureCheck, StageInv, LockInv, TypeOK, ResidentIsCurrent, WarmInv, NoneLoaded,
           Suspended, MayKeepWarm, modelVars, lockVars, Inside, Outside, Stages
    <2>4. ResidentIsCurrent'
      BY <1>1, <2>0, GoToFacts, ArbiterAssumption DEF EnsureCheck, ResidentIsCurrent, StageInv, LockInv, TypeOK, NoneLoaded,
           Suspended, modelVars, lockVars, Inside, Outside, Stages
    <2>5. WarmInv'
      BY <1>1, <2>0, GoToFacts, ArbiterAssumption DEF EnsureCheck, WarmInv, StageInv, TypeOK, ResidentIsCurrent, NoneLoaded, Suspended,
           modelVars
    <2>6. PoolIsBounded'
      BY <1>1, <2>0, GoToFacts DEF EnsureCheck, PoolIsBounded, modelVars
    <2> QED BY <2>1, <2>2, <2>3, <2>4, <2>5, <2>6
  <1>2. CASE GoTo(c, "evict") /\ UNCHANGED modelVars
    <2>0. holder = c /\ "evict" \in Stages
      BY DEF EnsureCheck, Suspended, Stages, Inside
    <2>1. TypeOK'
      BY <1>2, <2>0, GoToFacts DEF EnsureCheck, TypeOK, StageInv, Suspended, modelVars, lockVars
    <2>2. LockInv'
      BY <1>2, <2>0, GoToFacts
    <2>3. StageInv'
      BY <1>2, <2>0, GoToFacts, ArbiterAssumption DEF EnsureCheck, StageInv, LockInv, TypeOK, ResidentIsCurrent, WarmInv, NoneLoaded,
           Suspended, MayKeepWarm, modelVars, lockVars, Inside, Outside, Stages
    <2>4. ResidentIsCurrent'
      BY <1>2, <2>0, GoToFacts, ArbiterAssumption DEF EnsureCheck, ResidentIsCurrent, StageInv, LockInv, TypeOK, NoneLoaded,
           Suspended, modelVars, lockVars, Inside, Outside, Stages
    <2>5. WarmInv'
      BY <1>2, <2>0, GoToFacts, ArbiterAssumption DEF EnsureCheck, WarmInv, StageInv, TypeOK, ResidentIsCurrent, NoneLoaded, Suspended,
           modelVars
    <2>6. PoolIsBounded'
      BY <1>2, <2>0, GoToFacts DEF EnsureCheck, PoolIsBounded, modelVars
    <2> QED BY <2>1, <2>2, <2>3, <2>4, <2>5, <2>6
  <1>3. CASE Leave(c, "failed") /\ UNCHANGED modelVars
    <2>0. holder = c /\ "failed" \in Outside
      BY DEF EnsureCheck, Suspended, Outside
    <2>1. TypeOK'
      BY <1>3, <2>0, LeaveFacts DEF EnsureCheck, TypeOK, StageInv, Suspended, modelVars, lockVars
    <2>2. LockInv'
      BY <1>3, <2>0, LeaveFacts
    <2>3. StageInv'
      BY <1>3, <2>0, LeaveFacts, ArbiterAssumption DEF EnsureCheck, StageInv, LockInv, TypeOK, ResidentIsCurrent, WarmInv, NoneLoaded,
           Suspended, MayKeepWarm, modelVars, lockVars, Inside, Outside, Stages
    <2>4. ResidentIsCurrent'
      BY <1>3, <2>0, LeaveFacts, ArbiterAssumption DEF EnsureCheck, ResidentIsCurrent, StageInv, LockInv, TypeOK, NoneLoaded,
           Suspended, modelVars, lockVars, Inside, Outside, Stages
    <2>5. WarmInv'
      BY <1>3, <2>0, LeaveFacts, ArbiterAssumption DEF EnsureCheck, WarmInv, StageInv, TypeOK, ResidentIsCurrent, NoneLoaded, Suspended,
           modelVars
    <2>6. PoolIsBounded'
      BY <1>3, <2>0, LeaveFacts DEF EnsureCheck, PoolIsBounded, modelVars
    <2> QED BY <2>1, <2>2, <2>3, <2>4, <2>5, <2>6
  <1>4. ~loaded[call[c].target]
    BY DEF EnsureCheck, Suspended, StageInv, NoneLoaded
  <1> QED BY <1>1, <1>2, <1>3, <1>4 DEF EnsureCheck

LEMMA LoadDoneStep ==
  ASSUME ArbiterInv, NEW c \in Callers, LoadDone(c)
  PROVE  ArbiterInv'
  <1> USE DEF ArbiterInv
  <1>0. /\ holder = c /\ "profile" \in Stages
        /\ GoTo(c, "profile")
    BY DEF LoadDone, Suspended, Stages, Inside
  <1>1. TypeOK'
    BY <1>0, GoToFacts DEF LoadDone, TypeOK, StageInv, Suspended, modelVars, lockVars
  <1>2. LockInv'
    BY <1>0, GoToFacts
  <1>3. StageInv'
    BY <1>0, GoToFacts, ArbiterAssumption DEF LoadDone, StageInv, LockInv, TypeOK, ResidentIsCurrent, WarmInv, NoneLoaded,
         Suspended, MayKeepWarm, modelVars, lockVars, Inside, Outside, Stages
  <1>4. ResidentIsCurrent'
    BY <1>0, GoToFacts, ArbiterAssumption DEF LoadDone, ResidentIsCurrent, StageInv, LockInv, TypeOK, NoneLoaded,
         Suspended, modelVars, lockVars, Inside, Outside, Stages
  <1>5. WarmInv'
    BY <1>0, GoToFacts, ArbiterAssumption DEF LoadDone, WarmInv, StageInv, TypeOK, ResidentIsCurrent, NoneLoaded, Suspended,
         modelVars
  <1>6. PoolIsBounded'
    BY <1>0, GoToFacts DEF LoadDone, PoolIsBounded, modelVars
  <1> QED BY <1>1, <1>2, <1>3, <1>4, <1>5, <1>6 DEF ArbiterInv


LEMMA LoadFailsStep ==
  ASSUME ArbiterInv, NEW c \in Callers, LoadFails(c)
  PROVE  ArbiterInv'
  <1> USE DEF ArbiterInv
  <1>0. /\ holder = c /\ "failed" \in Outside
        /\ Leave(c, "failed")
    BY DEF LoadFails, Suspended, Outside
  <1>1. TypeOK'
    BY <1>0, LeaveFacts DEF LoadFails, TypeOK, StageInv, Suspended, modelVars, lockVars
  <1>2. LockInv'
    BY <1>0, LeaveFacts
  <1>3. StageInv'
    BY <1>0, LeaveFacts, ArbiterAssumption DEF LoadFails, StageInv, LockInv, TypeOK, ResidentIsCurrent, WarmInv, NoneLoaded,
         Suspended, MayKeepWarm, modelVars, lockVars, Inside, Outside, Stages
  <1>4. ResidentIsCurrent'
    BY <1>0, LeaveFacts, ArbiterAssumption DEF LoadFails, ResidentIsCurrent, StageInv, LockInv, TypeOK, NoneLoaded,
         Suspended, modelVars, lockVars, Inside, Outside, Stages
  <1>5. WarmInv'
    BY <1>0, LeaveFacts, ArbiterAssumption DEF LoadFails, WarmInv, StageInv, TypeOK, ResidentIsCurrent, NoneLoaded, Suspended,
         modelVars
  <1>6. PoolIsBounded'
    BY <1>0, LeaveFacts DEF LoadFails, PoolIsBounded, modelVars
  <1> QED BY <1>1, <1>2, <1>3, <1>4, <1>5, <1>6 DEF ArbiterInv


LEMMA EnsureDoneStep ==
  ASSUME ArbiterInv, NEW c \in Callers, EnsureDone(c)
  PROVE  ArbiterInv'
  <1> USE DEF ArbiterInv
  <1>0. /\ holder = c /\ "returned" \in Outside
        /\ Leave(c, "returned")
    BY DEF EnsureDone, Suspended, Outside
  <1>1. TypeOK'
    BY <1>0, LeaveFacts DEF EnsureDone, TypeOK, StageInv, Suspended, modelVars, lockVars
  <1>2. LockInv'
    BY <1>0, LeaveFacts
  <1>3. StageInv'
    BY <1>0, LeaveFacts, ArbiterAssumption DEF EnsureDone, StageInv, LockInv, TypeOK, ResidentIsCurrent, WarmInv, NoneLoaded,
         Suspended, MayKeepWarm, modelVars, lockVars, Inside, Outside, Stages
  <1>4. ResidentIsCurrent'
    BY <1>0, LeaveFacts, ArbiterAssumption DEF EnsureDone, ResidentIsCurrent, StageInv, LockInv, TypeOK, NoneLoaded,
         Suspended, modelVars, lockVars, Inside, Outside, Stages
  <1>5. WarmInv'
    BY <1>0, LeaveFacts, ArbiterAssumption DEF EnsureDone, WarmInv, StageInv, TypeOK, ResidentIsCurrent, NoneLoaded, Suspended,
         modelVars
  <1>6. PoolIsBounded'
    BY SmallerPool DEF EnsureDone
  <1> QED BY <1>1, <1>2, <1>3, <1>4, <1>5, <1>6 DEF ArbiterInv


LEMMA FreeCallStep ==
  ASSUME ArbiterInv, NEW c \in Callers, FreeCall(c)
  PROVE  ArbiterInv'
  <1> USE DEF ArbiterInv
  <1>0. /\ call[c].stage \in Outside /\ Acquire(c)
        /\ call' = [call EXCEPT ![c] = [op |-> "free", target |-> NoBackend, stage |-> "queued"]]
        /\ UNCHANGED modelVars
    BY DEF FreeCall
  <1>a. /\ call' \in [Callers -> Call]
        /\ call'[c] = [op |-> "free", target |-> NoBackend, stage |-> "queued"]
        /\ \A d \in Callers \ {c} : call'[d] = call[d]
        /\ holder' \in Callers \union {NoCaller} /\ waiters' \in Seq(Callers)
        /\ holder # NoCaller => holder' = holder
        /\ LockInv'
    BY <1>0, CallFacts
  <1>1. TypeOK'
    BY <1>0, <1>a DEF FreeCall, TypeOK, StageInv, Suspended, modelVars, lockVars
  <1>2. LockInv'
    BY <1>0, <1>a
  <1>3. StageInv'
    BY <1>0, <1>a, ArbiterAssumption DEF FreeCall, StageInv, LockInv, TypeOK, ResidentIsCurrent, WarmInv, NoneLoaded,
         Suspended, MayKeepWarm, modelVars, lockVars, Inside, Outside, Stages
  <1>4. ResidentIsCurrent'
    BY <1>0, <1>a, ArbiterAssumption DEF FreeCall, ResidentIsCurrent, StageInv, LockInv, TypeOK, NoneLoaded,
         Suspended, modelVars, lockVars, Inside, Outside, Stages
  <1>5. WarmInv'
    BY <1>0, <1>a, ArbiterAssumption DEF FreeCall, WarmInv, StageInv, TypeOK, ResidentIsCurrent, NoneLoaded, Suspended,
         modelVars
  <1>6. PoolIsBounded'
    BY <1>0, <1>a DEF FreeCall, PoolIsBounded, modelVars
  <1> QED BY <1>1, <1>2, <1>3, <1>4, <1>5, <1>6 DEF ArbiterInv


LEMMA FreeEnterStep ==
  ASSUME ArbiterInv, NEW c \in Callers, FreeEnter(c)
  PROVE  ArbiterInv'
  <1> USE DEF ArbiterInv
  <1>1. CASE current = NoBackend /\ GoTo(c, "drain")
    <2>0. holder = c /\ "drain" \in Stages
      BY DEF FreeEnter, Suspended, Stages, Inside
    <2>1. TypeOK'
      BY <1>1, <2>0, GoToFacts DEF FreeEnter, TypeOK, StageInv, Suspended, modelVars, lockVars
    <2>2. LockInv'
      BY <1>1, <2>0, GoToFacts
    <2>3. StageInv'
      BY <1>1, <2>0, GoToFacts, ArbiterAssumption DEF FreeEnter, StageInv, LockInv, TypeOK, ResidentIsCurrent, WarmInv, NoneLoaded,
           Suspended, MayKeepWarm, modelVars, lockVars, Inside, Outside, Stages
    <2>4. ResidentIsCurrent'
      BY <1>1, <2>0, GoToFacts, ArbiterAssumption DEF FreeEnter, ResidentIsCurrent, StageInv, LockInv, TypeOK, NoneLoaded,
           Suspended, modelVars, lockVars, Inside, Outside, Stages
    <2>5. WarmInv'
      BY <1>1, <2>0, GoToFacts, ArbiterAssumption DEF FreeEnter, WarmInv, StageInv, TypeOK, ResidentIsCurrent, NoneLoaded, Suspended,
           modelVars
    <2>6. PoolIsBounded'
      BY <1>1, <2>0, GoToFacts DEF FreeEnter, PoolIsBounded, modelVars
    <2> QED BY <2>1, <2>2, <2>3, <2>4, <2>5, <2>6
  <1>2. CASE current # NoBackend /\ GoTo(c, "unload")
    <2>0. holder = c /\ "unload" \in Stages
      BY DEF FreeEnter, Suspended, Stages, Inside
    <2>1. TypeOK'
      BY <1>2, <2>0, GoToFacts DEF FreeEnter, TypeOK, StageInv, Suspended, modelVars, lockVars
    <2>2. LockInv'
      BY <1>2, <2>0, GoToFacts
    <2>3. StageInv'
      BY <1>2, <2>0, GoToFacts, ArbiterAssumption DEF FreeEnter, StageInv, LockInv, TypeOK, ResidentIsCurrent, WarmInv, NoneLoaded,
           Suspended, MayKeepWarm, modelVars, lockVars, Inside, Outside, Stages
    <2>4. ResidentIsCurrent'
      BY <1>2, <2>0, GoToFacts, ArbiterAssumption DEF FreeEnter, ResidentIsCurrent, StageInv, LockInv, TypeOK, NoneLoaded,
           Suspended, modelVars, lockVars, Inside, Outside, Stages
    <2>5. WarmInv'
      BY <1>2, <2>0, GoToFacts, ArbiterAssumption DEF FreeEnter, WarmInv, StageInv, TypeOK, ResidentIsCurrent, NoneLoaded, Suspended,
           modelVars
    <2>6. PoolIsBounded'
      BY <1>2, <2>0, GoToFacts DEF FreeEnter, PoolIsBounded, modelVars
    <2> QED BY <2>1, <2>2, <2>3, <2>4, <2>5, <2>6
  <1> QED BY <1>1, <1>2 DEF FreeEnter

LEMMA UnloadDoneStep ==
  ASSUME ArbiterInv, NEW c \in Callers, UnloadDone(c)
  PROVE  ArbiterInv'
  <1> USE DEF ArbiterInv
  <1>1. CASE call[c].op = "ensure" /\ GoTo(c, "check")
    <2>0. holder = c /\ "check" \in Stages
      BY DEF UnloadDone, Suspended, Stages, Inside
    <2>1. TypeOK'
      BY <1>1, <2>0, GoToFacts DEF UnloadDone, TypeOK, StageInv, Suspended, modelVars, lockVars, Cleared, Call
    <2>2. LockInv'
      BY <1>1, <2>0, GoToFacts
    <2>3. StageInv'
      BY <1>1, <2>0, GoToFacts, ArbiterAssumption DEF UnloadDone, StageInv, LockInv, TypeOK, ResidentIsCurrent, WarmInv, NoneLoaded,
           Suspended, MayKeepWarm, modelVars, lockVars, Inside, Outside, Stages, Cleared, Call
    <2>4. ResidentIsCurrent'
      BY <1>1, <2>0, GoToFacts, ArbiterAssumption DEF UnloadDone, ResidentIsCurrent, StageInv, LockInv, TypeOK, NoneLoaded,
           Suspended, modelVars, lockVars, Inside, Outside, Stages, Cleared, Call
    <2>5. WarmInv'
      BY <1>1, <2>0, GoToFacts, ArbiterAssumption DEF UnloadDone, WarmInv, StageInv, TypeOK, ResidentIsCurrent, NoneLoaded, Suspended,
           modelVars, Cleared, Call
    <2>6. PoolIsBounded'
      BY SmallerPool DEF UnloadDone
    <2> QED BY <2>1, <2>2, <2>3, <2>4, <2>5, <2>6
  <1>2. CASE call[c].op # "ensure" /\ GoTo(c, "drain")
    <2>0. holder = c /\ "drain" \in Stages
      BY DEF UnloadDone, Suspended, Stages, Inside
    <2>1. TypeOK'
      BY <1>2, <2>0, GoToFacts DEF UnloadDone, TypeOK, StageInv, Suspended, modelVars, lockVars, Cleared, Call
    <2>2. LockInv'
      BY <1>2, <2>0, GoToFacts
    <2>3. StageInv'
      BY <1>2, <2>0, GoToFacts, ArbiterAssumption DEF UnloadDone, StageInv, LockInv, TypeOK, ResidentIsCurrent, WarmInv, NoneLoaded,
           Suspended, MayKeepWarm, modelVars, lockVars, Inside, Outside, Stages, Cleared, Call
    <2>4. ResidentIsCurrent'
      BY <1>2, <2>0, GoToFacts, ArbiterAssumption DEF UnloadDone, ResidentIsCurrent, StageInv, LockInv, TypeOK, NoneLoaded,
           Suspended, modelVars, lockVars, Inside, Outside, Stages, Cleared, Call
    <2>5. WarmInv'
      BY <1>2, <2>0, GoToFacts, ArbiterAssumption DEF UnloadDone, WarmInv, StageInv, TypeOK, ResidentIsCurrent, NoneLoaded, Suspended,
           modelVars, Cleared, Call
    <2>6. PoolIsBounded'
      BY SmallerPool DEF UnloadDone
    <2> QED BY <2>1, <2>2, <2>3, <2>4, <2>5, <2>6
  <1> QED BY <1>1, <1>2 DEF UnloadDone

LEMMA UnloadFailsStep ==
  ASSUME ArbiterInv, NEW c \in Callers, UnloadFails(c)
  PROVE  ArbiterInv'
  <1> USE DEF ArbiterInv
  <1>0. /\ holder = c /\ "failed" \in Outside
        /\ Leave(c, "failed")
    BY DEF UnloadFails, Suspended, Outside
  <1>1. TypeOK'
    BY <1>0, LeaveFacts DEF UnloadFails, TypeOK, StageInv, Suspended, modelVars, lockVars, Cleared
  <1>2. LockInv'
    BY <1>0, LeaveFacts
  <1>3. StageInv'
    BY <1>0, LeaveFacts, ArbiterAssumption DEF UnloadFails, StageInv, LockInv, TypeOK, ResidentIsCurrent, WarmInv, NoneLoaded,
         Suspended, MayKeepWarm, modelVars, lockVars, Inside, Outside, Stages, Cleared
  <1>4. ResidentIsCurrent'
    BY <1>0, LeaveFacts, ArbiterAssumption DEF UnloadFails, ResidentIsCurrent, StageInv, LockInv, TypeOK, NoneLoaded,
         Suspended, modelVars, lockVars, Inside, Outside, Stages, Cleared
  <1>5. WarmInv'
    BY <1>0, LeaveFacts, ArbiterAssumption DEF UnloadFails, WarmInv, StageInv, TypeOK, ResidentIsCurrent, NoneLoaded, Suspended,
         modelVars, Cleared
  <1>6. PoolIsBounded'
    BY <1>0, LeaveFacts DEF UnloadFails, PoolIsBounded, modelVars
  <1> QED BY <1>1, <1>2, <1>3, <1>4, <1>5, <1>6 DEF ArbiterInv


LEMMA UnloadWarmDoneStep ==
  ASSUME ArbiterInv, NEW c \in Callers, UnloadWarmDone(c)
  PROVE  ArbiterInv'
  <1> USE DEF ArbiterInv
  <1>1. CASE call[c].stage = "evict" /\ GoTo(c, "check")
    <2>0. holder = c /\ "check" \in Stages
      BY DEF UnloadWarmDone, Suspended, Stages, Inside
    <2>1. TypeOK'
      BY <1>1, <2>0, GoToFacts DEF UnloadWarmDone, TypeOK, StageInv, Suspended, modelVars, lockVars, Cleared, Victims
    <2>2. LockInv'
      BY <1>1, <2>0, GoToFacts
    <2>3. StageInv'
      BY <1>1, <2>0, GoToFacts, ArbiterAssumption DEF UnloadWarmDone, StageInv, LockInv, TypeOK, ResidentIsCurrent, WarmInv, NoneLoaded,
           Suspended, MayKeepWarm, modelVars, lockVars, Inside, Outside, Stages, Cleared, Victims
    <2>4. ResidentIsCurrent'
      BY <1>1, <2>0, GoToFacts, ArbiterAssumption DEF UnloadWarmDone, ResidentIsCurrent, StageInv, LockInv, TypeOK, NoneLoaded,
           Suspended, modelVars, lockVars, Inside, Outside, Stages, Cleared, Victims
    <2>5. WarmInv'
      BY <1>1, <2>0, GoToFacts, ArbiterAssumption DEF UnloadWarmDone, WarmInv, StageInv, TypeOK, ResidentIsCurrent, NoneLoaded, Suspended,
           modelVars, Cleared, Victims
    <2>6. PoolIsBounded'
      BY SmallerPool DEF UnloadWarmDone
    <2> QED BY <2>1, <2>2, <2>3, <2>4, <2>5, <2>6
  <1>2. CASE call[c].stage = "drain" /\ GoTo(c, "drain")
    <2>0. holder = c /\ "drain" \in Stages
      BY DEF UnloadWarmDone, Suspended, Stages, Inside
    <2>1. TypeOK'
      BY <1>2, <2>0, GoToFacts DEF UnloadWarmDone, TypeOK, StageInv, Suspended, modelVars, lockVars, Cleared, Victims
    <2>2. LockInv'
      BY <1>2, <2>0, GoToFacts
    <2>3. StageInv'
      BY <1>2, <2>0, GoToFacts, ArbiterAssumption DEF UnloadWarmDone, StageInv, LockInv, TypeOK, ResidentIsCurrent, WarmInv, NoneLoaded,
           Suspended, MayKeepWarm, modelVars, lockVars, Inside, Outside, Stages, Cleared, Victims
    <2>4. ResidentIsCurrent'
      BY <1>2, <2>0, GoToFacts, ArbiterAssumption DEF UnloadWarmDone, ResidentIsCurrent, StageInv, LockInv, TypeOK, NoneLoaded,
           Suspended, modelVars, lockVars, Inside, Outside, Stages, Cleared, Victims
    <2>5. WarmInv'
      BY <1>2, <2>0, GoToFacts, ArbiterAssumption DEF UnloadWarmDone, WarmInv, StageInv, TypeOK, ResidentIsCurrent, NoneLoaded, Suspended,
           modelVars, Cleared, Victims
    <2>6. PoolIsBounded'
      BY SmallerPool DEF UnloadWarmDone
    <2> QED BY <2>1, <2>2, <2>3, <2>4, <2>5, <2>6
  <1> QED BY <1>1, <1>2 DEF UnloadWarmDone, Suspended

LEMMA UnloadWarmFailsStep ==
  ASSUME ArbiterInv, NEW c \in Callers, UnloadWarmFails(c)
  PROVE  ArbiterInv'
  <1> USE DEF ArbiterInv
  <1>0. /\ holder = c /\ "failed" \in Outside
        /\ Leave(c, "failed")
    BY DEF UnloadWarmFails, Suspended, Outside
  <1>1. TypeOK'
    BY <1>0, LeaveFacts DEF UnloadWarmFails, TypeOK, StageInv, Suspended, modelVars, lockVars, Cleared, Victims
  <1>2. LockInv'
    BY <1>0, LeaveFacts
  <1>3. StageInv'
    BY <1>0, LeaveFacts, ArbiterAssumption DEF UnloadWarmFails, StageInv, LockInv, TypeOK, ResidentIsCurrent, WarmInv, NoneLoaded,
         Suspended, MayKeepWarm, modelVars, lockVars, Inside, Outside, Stages, Cleared, Victims
  <1>4. ResidentIsCurrent'
    BY <1>0, LeaveFacts, ArbiterAssumption DEF UnloadWarmFails, ResidentIsCurrent, StageInv, LockInv, TypeOK, NoneLoaded,
         Suspended, modelVars, lockVars, Inside, Outside, Stages, Cleared, Victims
  <1>5. WarmInv'
    BY <1>0, LeaveFacts, ArbiterAssumption DEF UnloadWarmFails, WarmInv, StageInv, TypeOK, ResidentIsCurrent, NoneLoaded, Suspended,
         modelVars, Cleared, Victims
  <1>6. PoolIsBounded'
    BY <1>0, LeaveFacts DEF UnloadWarmFails, PoolIsBounded, modelVars
  <1> QED BY <1>1, <1>2, <1>3, <1>4, <1>5, <1>6 DEF ArbiterInv


LEMMA FreeDoneStep ==
  ASSUME ArbiterInv, NEW c \in Callers, FreeDone(c)
  PROVE  ArbiterInv'
  <1> USE DEF ArbiterInv
  <1>0. /\ holder = c /\ "returned" \in Outside
        /\ Leave(c, "returned")
    BY DEF FreeDone, Suspended, Outside
  <1>1. TypeOK'
    BY <1>0, LeaveFacts DEF FreeDone, TypeOK, StageInv, Suspended, modelVars, lockVars
  <1>2. LockInv'
    BY <1>0, LeaveFacts
  <1>3. StageInv'
    BY <1>0, LeaveFacts, ArbiterAssumption DEF FreeDone, StageInv, LockInv, TypeOK, ResidentIsCurrent, WarmInv, NoneLoaded,
         Suspended, MayKeepWarm, modelVars, lockVars, Inside, Outside, Stages
  <1>4. ResidentIsCurrent'
    BY <1>0, LeaveFacts, ArbiterAssumption DEF FreeDone, ResidentIsCurrent, StageInv, LockInv, TypeOK, NoneLoaded,
         Suspended, modelVars, lockVars, Inside, Outside, Stages
  <1>5. WarmInv'
    BY <1>0, LeaveFacts, ArbiterAssumption DEF FreeDone, WarmInv, StageInv, TypeOK, ResidentIsCurrent, NoneLoaded, Suspended,
         modelVars
  <1>6. PoolIsBounded'
    BY <1>0, LeaveFacts DEF FreeDone, PoolIsBounded, modelVars
  <1> QED BY <1>1, <1>2, <1>3, <1>4, <1>5, <1>6 DEF ArbiterInv


------------------------------------------------------------------------------
(* The theorems *)

LEMMA InitInv == ArbiterInit => ArbiterInv
  <1> SUFFICES ASSUME ArbiterInit PROVE ArbiterInv
    OBVIOUS
  <1>1. TypeOK
    BY DEF ArbiterInit, TypeOK, Call, Stages, Outside
  <1>2. LockInv /\ StageInv
    BY DEF ArbiterInit, LockInv, StageInv, Inside
  <1>3. ResidentIsCurrent /\ WarmInv
    BY DEF ArbiterInit, ResidentIsCurrent, WarmInv
  <1>4. PoolIsBounded
    BY FS_EmptySet, ArbiterAssumption DEF ArbiterInit, PoolIsBounded
  <1> QED BY <1>1, <1>2, <1>3, <1>4 DEF ArbiterInv

LEMMA NextInv == ArbiterInv /\ [ArbiterNext]_arbiterVars => ArbiterInv'
  <1> SUFFICES ASSUME ArbiterInv, [ArbiterNext]_arbiterVars PROVE ArbiterInv'
    OBVIOUS
  <1>1. ASSUME NEW c \in Callers, NEW b \in Backends, EnsureCall(c, b) PROVE ArbiterInv'
    BY <1>1, EnsureCallStep
  <1>2. ASSUME NEW c \in Callers, FreeCall(c) PROVE ArbiterInv'
    BY <1>2, FreeCallStep
  <1>3. ASSUME NEW c \in Callers, Progress(c) PROVE ArbiterInv'
    BY <1>3, EnsureEnterStep, ParkDoneStep, ParkFailsStep, EnsureCheckStep, LoadDoneStep,
       LoadFailsStep, EnsureDoneStep, FreeEnterStep, UnloadDoneStep, UnloadFailsStep,
       UnloadWarmDoneStep, UnloadWarmFailsStep, FreeDoneStep DEF Progress
  <1>4. CASE UNCHANGED arbiterVars
    BY <1>4 DEF ArbiterInv, TypeOK, LockInv, StageInv, ResidentIsCurrent, WarmInv, PoolIsBounded,
       NoneLoaded, MayKeepWarm, Suspended, arbiterVars, modelVars, lockVars
  <1> QED BY <1>1, <1>2, <1>3, <1>4 DEF ArbiterNext

LEMMA Invariance == ArbiterSpec => []ArbiterInv
  BY InitInv, NextInv, PTL DEF ArbiterSpec

LEMMA OneResidentInv == ArbiterInv => OneResident
  BY ArbiterAssumption DEF ArbiterInv, OneResident, ResidentIsCurrent, StageInv, LockInv, TypeOK,
     Suspended, Inside

\* The variables keep their types.
THEOREM TypeCorrect == ArbiterSpec => []TypeOK
  BY Invariance, PTL DEF ArbiterInv

\* At most one backend is loaded, whatever calls interleave and whatever fails.
THEOREM AtMostOneResident == ArbiterSpec => []OneResident
  BY OneResidentInv, Invariance, PTL

\* The arbiter always knows what is on the GPU.
THEOREM ResidentIsKnown == ArbiterSpec => []ResidentIsCurrent
  BY Invariance, PTL DEF ArbiterInv

\* Every load starts on an empty GPU.
THEOREM LoadsStartClean == ArbiterSpec => []CleanBaseline
  <1>1. ArbiterInv => CleanBaseline
    BY DEF ArbiterInv, CleanBaseline, StageInv, NoneLoaded, Suspended
  <1> QED BY <1>1, Invariance, PTL

\* Every parked model can be evicted.
THEOREM NoWarmLeak == ArbiterSpec => []WarmIsPooled
  <1>1. ArbiterInv => WarmIsPooled
    BY DEF ArbiterInv, WarmInv, WarmIsPooled
  <1> QED BY <1>1, Invariance, PTL

\* The warm pool respects its limit.
THEOREM PoolBound == ArbiterSpec => []PoolIsBounded
  BY Invariance, PTL DEF ArbiterInv

\* When ensure returns, its backend is the sole resident and loaded.
THEOREM EnsureIsSound == ArbiterSpec => EnsureGuarantee
  <1> DEFINE Guarantee(c) ==
        Returns(c) /\ call[c].op = "ensure" =>
          /\ current' = call[c].target
          /\ \A b \in Backends : loaded'[b] <=> b = call[c].target
  <1>1. ASSUME ArbiterInv, [ArbiterNext]_arbiterVars
        PROVE  [\A c \in Callers : Guarantee(c)]_arbiterVars
    <2> USE <1>1 DEF ArbiterInv
    <2> SUFFICES ASSUME NEW c \in Callers, Returns(c), call[c].op = "ensure", ArbiterNext
                 PROVE  /\ current' = call[c].target
                        /\ \A b \in Backends : loaded'[b] <=> b = call[c].target
      BY DEF arbiterVars, Returns
    <2>1. PICK d \in Callers : \/ \E b \in Backends : EnsureCall(d, b)
                              \/ FreeCall(d)
                              \/ Progress(d)
      BY DEF ArbiterNext
    <2>2. d = c
      BY <2>1 DEF Progress, EnsureCall, FreeCall, EnsureEnter, ParkDone, ParkFails, EnsureCheck, LoadDone,
         LoadFails, EnsureDone, FreeEnter, UnloadDone, UnloadFails, UnloadWarmDone, UnloadWarmFails,
         FreeDone, GoTo, Leave, Returns, TypeOK, Call
    <2>3. CASE EnsureEnter(c)
      BY <2>3 DEF EnsureEnter, Suspended, GoTo, Leave, Returns, TypeOK, Call, ResidentIsCurrent, LockInv,
         Inside, modelVars
    <2>4. CASE EnsureDone(c)
      BY <2>4 DEF EnsureDone, Suspended, StageInv
    <2>5. ~loaded[call[c].target] \/ ~EnsureCheck(c)
      BY DEF EnsureCheck, Suspended, StageInv, NoneLoaded
    <2>6. ~\E b \in Backends : EnsureCall(c, b)
      BY DEF EnsureCall, Returns, TypeOK, Call
    <2>7. ~FreeCall(c)
      BY DEF FreeCall, Returns, TypeOK, Call
    <2>8. EnsureEnter(c) \/ EnsureDone(c)
      BY <2>1, <2>2, <2>5, <2>6, <2>7 DEF Progress, ParkDone, ParkFails, EnsureCheck, LoadDone,
         LoadFails, FreeEnter, UnloadDone, UnloadFails, UnloadWarmDone, UnloadWarmFails,
         FreeDone, GoTo, Leave, Returns, TypeOK, Call, Suspended, StageInv
    <2> QED BY <2>3, <2>4, <2>8
  <1> QED BY <1>1, Invariance, PTL DEF ArbiterSpec, EnsureGuarantee

\* When free_all returns, the GPU and the warm pool are empty.
THEOREM FreeIsSound == ArbiterSpec => FreeGuarantee
  <1> DEFINE Guarantee(c) ==
        Returns(c) /\ call[c].op = "free" =>
          /\ current' = NoBackend /\ warmPool' = {}
          /\ \A b \in Backends : ~loaded'[b] /\ ~warm'[b]
  <1>1. ASSUME ArbiterInv, [ArbiterNext]_arbiterVars
        PROVE  [\A c \in Callers : Guarantee(c)]_arbiterVars
    <2> USE <1>1 DEF ArbiterInv
    <2> SUFFICES ASSUME NEW c \in Callers, Returns(c), call[c].op = "free", ArbiterNext
                 PROVE  /\ current' = NoBackend /\ warmPool' = {}
                        /\ \A b \in Backends : ~loaded'[b] /\ ~warm'[b]
      BY DEF arbiterVars, Returns
    <2>1. PICK d \in Callers : \/ \E b \in Backends : EnsureCall(d, b)
                              \/ FreeCall(d)
                              \/ Progress(d)
      BY DEF ArbiterNext
    <2>2. d = c
      BY <2>1 DEF Progress, EnsureCall, FreeCall, EnsureEnter, ParkDone, ParkFails, EnsureCheck, LoadDone,
         LoadFails, EnsureDone, FreeEnter, UnloadDone, UnloadFails, UnloadWarmDone, UnloadWarmFails,
         FreeDone, GoTo, Leave, Returns, TypeOK, Call
    <2>3. FreeDone(c)
      BY <2>1, <2>2 DEF Progress, EnsureCall, FreeCall, EnsureEnter, ParkDone, ParkFails, EnsureCheck,
         LoadDone, LoadFails, EnsureDone, FreeEnter, UnloadDone, UnloadFails, UnloadWarmDone,
         UnloadWarmFails, GoTo, Leave, Returns, TypeOK, Call, Suspended, StageInv
    <2> QED BY <2>3 DEF FreeDone, Suspended, StageInv, NoneLoaded, WarmInv, modelVars
  <1> QED BY <1>1, Invariance, PTL DEF ArbiterSpec, FreeGuarantee

------------------------------------------------------------------------------
(* The arbiter implements ModelSlots *)

LEMMA ResidentIs ==
  ASSUME OneResident, NEW b \in Backends, loaded[b]
  PROVE  Resident = b
  BY DEF OneResident, Resident

LEMMA ResidentIsNone ==
  ASSUME NoneLoaded
  PROVE  Resident = NoBackend
  BY DEF NoneLoaded, Resident

\* What is current but not loaded holds nothing, in VRAM or in RAM.
LEMMA UnloadOfCurrent ==
  ASSUME ArbiterInv, ArbiterInv', current \in Backends, Cleared(current),
         \A c \in Callers : Suspended(c, "profile") => FALSE
  PROVE  Slots!Unload \/ UNCHANGED <<Resident, Parked>>
  <1>1. ~warm[current]
    BY DEF ArbiterInv, WarmInv
  <1>2. Parked' = Parked
    BY <1>1 DEF Parked, Cleared, ArbiterInv, TypeOK
  <1>3. NoneLoaded'
    BY DEF ArbiterInv, ResidentIsCurrent, NoneLoaded, Cleared, TypeOK
  <1>4. Resident' = NoBackend
    BY <1>3 DEF Resident, NoneLoaded
  <1>5. CASE loaded[current]
    BY <1>2, <1>4, <1>5, OneResidentInv, ResidentIs, ArbiterAssumption DEF Slots!Unload
  <1>6. CASE ~loaded[current]
    <2>1. NoneLoaded
      BY <1>6 DEF ArbiterInv, ResidentIsCurrent, NoneLoaded
    <2> QED BY <2>1, <1>2, <1>4, ResidentIsNone
  <1> QED BY <1>5, <1>6

LEMMA UnloadOfWarm ==
  ASSUME ArbiterInv, NoneLoaded, NEW b \in Backends, Cleared(b)
  PROVE  Slots!Evict(b) \/ UNCHANGED <<Resident, Parked>>
  <1>1. NoneLoaded' /\ Parked' = Parked \ {b}
    BY DEF NoneLoaded, Parked, Cleared, ArbiterInv, TypeOK
  <1>2. Resident = NoBackend /\ Resident' = NoBackend
    BY <1>1 DEF Resident, NoneLoaded
  <1> QED BY <1>1, <1>2 DEF Slots!Evict

\* Every step of the arbiter is a step of the slot, or does not move a model.
LEMMA SlotStep ==
  ASSUME ArbiterInv, ArbiterInv', [ArbiterNext]_arbiterVars
  PROVE  [Slots!Next]_<<Resident, Parked>>
  <1> USE DEF ArbiterInv
  <1>1. CASE UNCHANGED <<loaded, warm>>
    BY <1>1 DEF Resident, Parked
  <1>2. ASSUME NEW c \in Callers, ParkDone(c) PROVE Slots!Park
    <2>1. current \in Backends /\ loaded[current] /\ Resident = current
      BY <1>2, OneResidentInv, ResidentIs DEF ParkDone, Suspended, StageInv
    <2>2. NoneLoaded'
      BY <1>2, <2>1, OneResidentInv DEF ParkDone, NoneLoaded, OneResident, TypeOK
    <2>3. Resident' = NoBackend /\ Parked' = Parked \union {current}
      BY <1>2, <2>1, <2>2 DEF ParkDone, Resident, Parked, NoneLoaded, TypeOK
    <2>4. IsFiniteSet(warmPool') /\ Parked' \subseteq warmPool'
      BY ArbiterAssumption, FS_Subset DEF TypeOK, WarmInv, Parked
    <2>5. Cardinality(Parked') <= Cardinality(warmPool')
      BY <2>4, FS_Subset
    <2>6. Cardinality(Parked') \in Nat /\ Cardinality(warmPool') \in Nat
      BY <2>4, FS_Subset, FS_CardinalityType
    <2>7. Cardinality(Parked') <= MaxWarm
      BY <2>5, <2>6, ArbiterAssumption DEF PoolIsBounded
    <2>8. Resident # NoBackend
      BY <2>1, ArbiterAssumption
    <2>9. Parked' = Parked \union {Resident}
      BY <2>1, <2>3
    <2>10. Slots!Cardinality(Parked') <= MaxWarm
      BY <2>7 DEF Slots!Cardinality, Cardinality
    <2> QED BY <2>3, <2>8, <2>9, <2>10 DEF Slots!Park
  <1>3. ASSUME NEW c \in Callers, LoadDone(c)
        PROVE  \E b \in Backends : Slots!Load(b)
    <2>1. call[c].target \in Backends /\ NoneLoaded
      BY <1>3 DEF LoadDone, Suspended, StageInv
    <2>2. loaded'[call[c].target] /\ Parked' = Parked \ {call[c].target}
      BY <1>3, <2>1 DEF LoadDone, Parked, TypeOK
    <2>3. OneResident'
      BY <1>3, <2>1 DEF LoadDone, OneResident, NoneLoaded, TypeOK
    <2>4. Resident' = call[c].target
      BY <2>1, <2>2, <2>3 DEF OneResident, Resident
    <2> QED BY <2>1, <2>2, <2>4, ResidentIsNone DEF Slots!Load
  <1>4. ASSUME NEW c \in Callers, UnloadDone(c) \/ UnloadFails(c)
        PROVE  Slots!Unload \/ UNCHANGED <<Resident, Parked>>
    BY <1>4, UnloadOfCurrent DEF UnloadDone, UnloadFails, Suspended, StageInv
  <1>5. ASSUME NEW c \in Callers, UnloadWarmDone(c) \/ UnloadWarmFails(c)
        PROVE  (\E b \in Backends : Slots!Evict(b)) \/ UNCHANGED <<Resident, Parked>>
    <2>1. PICK b \in Backends : Cleared(b)
      BY <1>5 DEF UnloadWarmDone, UnloadWarmFails, Victims, TypeOK
    <2>2. NoneLoaded
      BY <1>5 DEF UnloadWarmDone, UnloadWarmFails, Suspended, StageInv
    <2> QED BY <2>1, <2>2, UnloadOfWarm
  <1>6. \/ UNCHANGED <<loaded, warm>>
        \/ \E c \in Callers : \/ ParkDone(c) \/ LoadDone(c)
                              \/ UnloadDone(c) \/ UnloadFails(c)
                              \/ UnloadWarmDone(c) \/ UnloadWarmFails(c)
    BY DEF ArbiterNext, Progress, EnsureCall, FreeCall, EnsureEnter, ParkFails, EnsureCheck, LoadFails,
       EnsureDone, FreeEnter, FreeDone, modelVars, arbiterVars
  <1> QED BY <1>1, <1>2, <1>3, <1>4, <1>5, <1>6 DEF Slots!Next

\* GpuArbiter implements ModelSlots: swaps pass through the empty slot, and the
\* parked models stay within the limit.
THEOREM ArbiterImplementsSlots == ArbiterSpec => SlotSpec
  <1>1. ArbiterInit => Slots!Init
    <2> SUFFICES ASSUME ArbiterInit PROVE Slots!Init
      OBVIOUS
    <2>1. NoneLoaded /\ Parked = {}
      BY DEF ArbiterInit, NoneLoaded, Parked
    <2> QED BY <2>1, ResidentIsNone DEF Slots!Init
  <1> QED BY <1>1, SlotStep, Invariance, PTL DEF ArbiterSpec, SlotSpec, Slots!Spec

\* _current, the warm pool and the flags of the backends agree after every step of
\* ensure and free_all, those that raise included.
THEOREM BookkeepingAgrees == ArbiterSpec => []BooksAgree
  BY TypeCorrect, ResidentIsKnown, NoWarmLeak, PTL DEF BooksAgree

\* What ensure and free_all promise when they return.
THEOREM CallsAreSound == ArbiterSpec => CallsDeliver
  BY EnsureIsSound, FreeIsSound DEF CallsDeliver
=============================================================================
