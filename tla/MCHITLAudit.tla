---------------------------- MODULE MCHITLAudit ----------------------------
(* Constants of the model-checking instances of HITLAudit.                 *)
EXTENDS HITLAudit

CONSTANTS l1, l2, t1
=============================================================================
