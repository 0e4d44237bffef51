---------------------------- MODULE MCBrowserTab ----------------------------
(* BrowserTab with one caller of the arbiter, one image model and one LLM. It *)
(* is looked at with two pairs of eyes, of which part picks one: the arbiter  *)
(* works and the job list changes once, or the arbiter rests and the list     *)
(* changes as often as MaxChanges allows.                                    *)
EXTENDS BrowserTab
CONSTANTS sdxl, llama, worker

MCBackends == {sdxl, llama}
MCImageBackends == {sdxl}
MCCallers == {worker}

VARIABLE part

TabInit == part \in {"status", "list"} /\ Init

TabNext ==
  /\ UNCHANGED part
  /\ \/ part = "status" /\ Next /\ jobsRev' <= 1
     \/ part = "list" /\ Next /\ UNCHANGED arbiterVars

TabSpec == TabInit /\ [][TabNext]_<<vars, part>>
=============================================================================
