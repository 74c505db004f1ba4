----------------------------- MODULE MCPipeline -----------------------------
(* Pipeline with one created stream beside house, two pipelines for it (a    *)
(* torn-down one and its successor), an audio listener, an SSE subscriber    *)
(* and one delete at a time.                                                 *)
EXTENDS Pipeline, TLC

CONSTANTS s1, p1, p2, a1, e1, d1

Symmetry == Permutations({p1, p2})
=============================================================================
