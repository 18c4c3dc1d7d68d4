------------------------- MODULE MCPipelineControl -------------------------
(***************************************************************************)
(* The dashboard's pipeline job in two halves, one in each behaviour:      *)
(*   runs:     two start requests, a stop request and the auto-compress    *)
(*             encoder                                                     *)
(*   policy:   two start requests while a retention policy is saved        *)
(***************************************************************************)
EXTENDS PipelineControl

VARIABLE half

HalfInit == half \in {"runs", "policy"} /\ Init
HalfNext ==
    /\ Next /\ UNCHANGED half
    /\ half = "runs" => UNCHANGED zpc
    /\ half = "policy" => UNCHANGED <<auto, spc>>
HalfSpec == HalfInit /\ [][HalfNext]_<<vars, half>> /\ Fairness
=============================================================================
