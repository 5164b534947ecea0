---------------------------- MODULE DaemonProgram ---------------------------
(* The worker daemons next to other programs of a node, under names of their  *)
(* own. MCClients checks them with small values of the constants,             *)
(* DaemonProofs proves the properties for all.                                *)

CONSTANTS
    NoTask, Torn,
    Daemons, Proposers, Voters, Works, Assignments, BadBundle, Unrefinable,
    Lanes, DaemonFaults, MaxDaemonFaults, MaxRounds, MaxVersion

VARIABLES
    tasks, version, accountNonce, extrinsics, outcomes,
    daemonPc, local, statuses, file, ready, registered, signed, daemonFaults

Daemon == INSTANCE WorkerDaemon WITH
    None <- NoTask,
    works <- tasks, pool <- extrinsics, pc <- daemonPc, faults <- daemonFaults,
    Faults <- DaemonFaults, MaxFaults <- MaxDaemonFaults

(* A pass submits its candidates by work id, whatever lane finishes first,    *)
(* and each is the report of its package at a final anchor.                   *)
ReportsExact == Daemon!LanesKeepOrder /\ Daemon!CandidatesExact

(* A daemon never signs two different votes for a round, and supports exactly *)
(* the reports that it would have computed.                                   *)
VotesSound == Daemon!NoEquivocation /\ Daemon!VerdictsExact
=============================================================================
