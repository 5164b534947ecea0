---------------------------- MODULE BridgeLedger ----------------------------
(* minijam-bridge-engine: the ledger of what each account has bridged in. It  *)
(* is what pallet-minijam-bridge is compared with (module Bridge).            *)
EXTENDS Integers

CONSTANTS
    Accounts, Amounts, OutboundNonces,
    MaxInboundNonce,        \* u64::MAX
    MaxBalance              \* u128::MAX

VARIABLES next_inbound_nonce, escrow, consumed_outbound

ledger == <<next_inbound_nonce, escrow, consumed_outbound>>

Init ==
    /\ next_inbound_nonce = 0
    /\ escrow = [a \in Accounts |-> 0]
    /\ consumed_outbound = {}

PrepareInbound(account, amount) ==
    /\ amount > 0
    /\ next_inbound_nonce < MaxInboundNonce
    /\ escrow[account] + amount <= MaxBalance
    /\ next_inbound_nonce' = next_inbound_nonce + 1
    /\ escrow' = [escrow EXCEPT ![account] = @ + amount]
    /\ UNCHANGED consumed_outbound

ApplyOutbound(nonce, account, amount) ==
    /\ amount > 0
    /\ nonce \notin consumed_outbound
    /\ escrow[account] >= amount
    /\ escrow' = [escrow EXCEPT ![account] = @ - amount]
    /\ consumed_outbound' = consumed_outbound \cup {nonce}
    /\ UNCHANGED next_inbound_nonce

Next ==
    \/ \E a \in Accounts, amount \in Amounts : PrepareInbound(a, amount)
    \/ \E n \in OutboundNonces, a \in Accounts, amount \in Amounts : ApplyOutbound(n, a, amount)

Spec == Init /\ [][Next]_ledger
=============================================================================
