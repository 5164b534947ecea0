---------------------------- MODULE ChainLedgers ----------------------------
(* What the chain answers for, side by side: the escrow of the bridge pallet  *)
(* and what the node's RPC methods tell of finalized blocks. They share no    *)
(* state. MCChain checks them with small values of the constants,             *)
(* LedgerProofs proves the properties for all.                                *)

CONSTANTS
    Users, EscrowAccount, Transfers, OutboundNonces, MaxInboundNonce,       \* Bridge
    Endowment, EscrowEndowments, ED,
    MaxForks, Subjects                                                      \* NodeRpc

VARIABLES
    free, escrowHeld, nextInboundNonce, inboundRecords,                     \* Bridge
    processedOutboundNonces, outboundRecords,
    parent, state, best, finalized, context, known                          \* NodeRpc

Escrow == INSTANCE Bridge WITH
    Accounts <- Users, Escrow <- EscrowAccount, Amounts <- Transfers, held <- escrowHeld

Reads == INSTANCE NodeRpc WITH MaxBlocks <- MaxForks
-----------------------------------------------------------------------------
(* pallet-minijam-bridge implements the ledger of minijam-bridge-engine, and  *)
(* what it holds can be released.                                             *)
PoolLedger == Escrow!PoolLedger /\ []Escrow!HeldReleasable

(* What was read at a finalized block stays true, whichever fork wins *)
FinalAnswersKept == Reads!FinalAnswersKept
=============================================================================
