--------------------------- MODULE GatewayProgram ---------------------------
(* The formal RPC gateway next to other programs of a node, under names of    *)
(* its own. MCClients checks it with small values of the constants,           *)
(* GatewayProofs proves the properties for all.                               *)

CONSTANTS
    None,
    WorkRequests, StatusRequests, DeployRequests, Packages, Codes, OneWriter,
    GatewayFaults, MaxConcurrency, MaxPolls, MaxGatewayFaults

VARIABLES
    rpcPc, rpcReq, tmp, final, files, writes, block, works, imported,
    opNonce, opCache, late, ops, receipts, services, preimages, provided, rpcFaults

Gateway == INSTANCE FormalRpc WITH
    pc <- rpcPc, req <- rpcReq, faults <- rpcFaults,
    Faults <- GatewayFaults, MaxFaults <- MaxGatewayFaults

(* get_bundle serves the bundle of every work that submit_work submitted, no  *)
(* crash leaves a part of one in the place of the whole, and no permit is     *)
(* lost on the way.                                                           *)
BundlesServed == Gateway!BundlePublished /\ Gateway!NoBrokenBundle /\ Gateway!AdmissionBounded

(* A service that create_service reports is there, with its code, at the      *)
(* block of the reported context, and no two deployments report the same one. *)
DeploymentsReady == Gateway!DeploymentReady /\ Gateway!DeploymentsDistinct
=============================================================================
