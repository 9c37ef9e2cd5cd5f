--------------------------- MODULE MCExitSession ---------------------------
(***************************************************************************)
(* Instances of ExitSession: one or two flow IDs, two or three FLOW_OPENs, *)
(* so that an ID is reused while the pump of its first flow still runs.    *)
(***************************************************************************)
EXTENDS ExitSession, TLC

CONSTANTS f1, f2

OneFlow == {f1}
=============================================================================
