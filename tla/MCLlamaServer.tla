--------------------------- MODULE MCLlamaServer ---------------------------
(* LlamaServer with two LLMs, three processes, and two kills of the backend.   *)
EXTENDS LlamaServer, TLC
CONSTANTS l1, l2, p1, p2, p3

MCLLMs == {l1, l2}
MCPids == {p1, p2, p3}
=============================================================================
