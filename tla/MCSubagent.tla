----------------------------- MODULE MCSubagent -----------------------------
(* Constants of the model-checking instances of Subagent.                  *)
EXTENDS Subagent

CONSTANTS t1, t2, t3, plan, search

=============================================================================
