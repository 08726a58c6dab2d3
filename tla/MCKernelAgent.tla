--------------------------- MODULE MCKernelAgent ---------------------------
(* Small instances of the agent in an arbitrary environment. *)
EXTENDS KernelAgent
=============================================================================
