----------------------------- MODULE MCProgress -----------------------------
(* The instance for progress. Works are submitted up to block SubmitBy, and   *)
(* MaxBlock leaves each of them the blocks that all its rounds can take.      *)
EXTENDS MCMiniJam

CONSTANT SubmitBy

ProgressNext == MCNext /\ (now > SubmitBy => DOMAIN works' = DOMAIN works)

ProgressSpec == Init /\ [][ProgressNext]_vars /\ WF_vars(Hooks)
=============================================================================
