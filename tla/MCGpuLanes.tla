----------------------------- MODULE MCGpuLanes -----------------------------
(* GpuLanes with two image models, one LLM, the worker and up to two clients *)
EXTENDS GpuLanes, TLC
CONSTANTS sdxl, flux, llama, worker, c1, c2

MCBackends == {sdxl, flux, llama}
MCImageBackends == {sdxl, flux}
OneClient == {worker, c1}
TwoClients == {worker, c1, c2}
TwoJobs == {1, 2}
ThreeJobs == {1, 2, 3}
ImageJobs == [j \in Jobs |-> IF j = 2 THEN flux ELSE sdxl]
ChatFirst == [j \in Jobs |-> IF j = 1 THEN llama ELSE sdxl]
Symmetry == Permutations({c1, c2})
=============================================================================
