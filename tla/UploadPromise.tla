---------------------------- MODULE UploadPromise ----------------------------
(***************************************************************************)
(* What the phone's upload promises its user, whatever the network, the    *)
(* server and the phone do: it ends; what arrives in the server's folder   *)
(* is the file, whole and undamaged; and it is reported as done only after *)
(* that arrived.  It may arrive although the upload is reported as failed, *)
(* and more than once.  A chunk stored while the server finishes the same  *)
(* upload excuses what arrives from then on, and nothing else.             *)
(***************************************************************************)
CONSTANT Whole           \* the content of the file

VARIABLES
    landed,              \* the contents that arrived in the upload folder
    outcome,             \* what the user is told
    excused              \* a chunk was stored while the upload was finished

vars == <<landed, outcome, excused>>

Init == landed = {} /\ outcome = "pending" /\ excused = FALSE

Land ==
    /\ landed \subseteq landed' /\ (excused \/ landed' = {Whole})
    /\ UNCHANGED <<outcome, excused>>
Succeed ==
    /\ outcome = "pending" /\ landed # {} /\ (excused \/ landed = {Whole})
    /\ outcome' = "succeeded" /\ UNCHANGED <<landed, excused>>
GiveUp ==
    /\ outcome = "pending" /\ outcome' \in {"failed", "cancelled"}
    /\ UNCHANGED <<landed, excused>>
Excuse == excused' = TRUE /\ UNCHANGED <<landed, outcome>>

Next == Land \/ Succeed \/ GiveUp \/ Excuse

Safety == Init /\ [][Next]_vars
Spec   == Safety /\ WF_vars(Succeed \/ GiveUp)
=============================================================================
