---------------------------- MODULE MCGpuArbiter ----------------------------
(* GpuArbiter with two image models, one LLM and three callers.             *)
EXTENDS GpuArbiter, TLC
CONSTANTS sdxl, flux, llama, c1, c2, c3

MCBackends == {sdxl, flux, llama}
MCImageBackends == {sdxl, flux}
ThreeCallers == {c1, c2, c3}
Symmetry == Permutations(ThreeCallers) \union Permutations(MCImageBackends)
=============================================================================
