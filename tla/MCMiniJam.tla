----------------------------- MODULE MCMiniJam ------------------------------
(* Instances of the two pallets for TLC. *)
EXTENDS MiniJamProperties, TLC

LOCAL INSTANCE Functions

CONSTANTS a1, a2, a3, relay, p1, p2, p3

OneWorker == <<<<a1, 4>>>>
TwoWorkers == <<<<a1, 4>>, <<a2, 4>>>>
ThreeWorkers == <<<<a1, 4>>, <<a2, 4>>, <<a3, 4>>>>

Rich == [a \in Accounts |-> 8]
OneWork == {0}
TwoWorks == {0, 1}
ThreeWorks == {0, 1, 2}
OneRound == {0}
TwoRounds == {0, 1}

(* Packages are interchangeable *)
PackageSymmetry == Permutations(Packages)

(* The modelled chain ends at MaxBlock *)
Horizon == now = MaxBlock /\ Dispatching /\ UNCHANGED vars

MCNext == Next \/ Horizon

MCSpec == Init /\ [][MCNext]_vars
-----------------------------------------------------------------------------
(* Money *)

TotalIssuance == SumFunction(free) + SumFunction(stakeHold) + SumFunction(depositHold)
                 + SumFunction(bondHold) + pool

(* No call and no hook creates or destroys money: every slash reaches the     *)
(* reward pool and every reward comes out of it, roll backs included.         *)
IssuancePreserved == [][TotalIssuance' = TotalIssuance]_vars
=============================================================================
