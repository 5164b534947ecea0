------------------------------- MODULE Bridge -------------------------------
(* pallet-minijam-bridge over the balances of a fungible currency. Both calls *)
(* are transactional: a step of this module is a call that succeeded.         *)
EXTENDS StorageMap, FiniteSets, Functions

CONSTANTS
    Accounts, Escrow,       \* users; the escrow account
    Amounts, OutboundNonces,
    MaxInboundNonce,        \* u64::MAX
    Endowment,              \* of every user at genesis
    EscrowEndowments,       \* of the escrow account at genesis, one of these
    ED                      \* existential deposit

(* What the constants are assumed to be *)
Assumption ==
    /\ IsFiniteSet(Accounts) /\ Escrow \notin Accounts
    /\ Endowment >= ED          \* an account below it does not exist
    /\ Amounts \cup EscrowEndowments \cup {MaxInboundNonce, Endowment, ED} \subseteq Nat

VARIABLES
    free, held,             \* balances; BridgeEscrow hold on the escrow account
    nextInboundNonce, inboundRecords,
    processedOutboundNonces, outboundRecords

vars == <<free, held, nextInboundNonce, inboundRecords, processedOutboundNonces, outboundRecords>>

(* Currency::transfer with Preservation::Preserve: the payer stays alive and  *)
(* the payee comes to life.                                                   *)
CanTransfer(balances, from, to, amount) ==
    /\ balances[from] - amount >= ED
    /\ balances[to] + amount >= ED

Transfer(balances, from, to, amount) ==
    IF from = to THEN balances
    ELSE [balances EXCEPT ![from] = @ - amount, ![to] = @ + amount]

(* Faulty CanHold: the account may be emptied *)
CanHoldAll(balances, amount) == balances[Escrow] >= amount

(* MutateHold::hold leaves the existential deposit free *)
CanHold(balances, amount) == balances[Escrow] - amount >= ED

BridgeIn(account, service, amount) ==
    LET paid == Transfer(free, account, Escrow, amount)
    IN  /\ amount > 0
        /\ nextInboundNonce < MaxInboundNonce
        /\ CanTransfer(free, account, Escrow, amount)
        /\ CanHold(paid, amount)
        /\ free' = [paid EXCEPT ![Escrow] = @ - amount]
        /\ held' = held + amount
        /\ inboundRecords' = Insert(inboundRecords, nextInboundNonce,
                                    [account |-> account, service |-> service, amount |-> amount])
        /\ nextInboundNonce' = nextInboundNonce + 1
        /\ UNCHANGED <<processedOutboundNonces, outboundRecords>>

(* Faulty ReleaseOutbound: the nonce is not marked as processed *)
ReleaseOutboundUnmarked(nonce, account, service, amount) ==
    /\ amount > 0
    /\ nonce \notin processedOutboundNonces
    /\ held >= amount
    /\ held' = held - amount
    /\ free' = [free EXCEPT ![account] = @ + amount]
    /\ outboundRecords' = Insert(outboundRecords, nonce,
                                 [account |-> account, service |-> service, amount |-> amount])
    /\ UNCHANGED <<nextInboundNonce, inboundRecords, processedOutboundNonces>>

(* release_outbound, by root *)
ReleaseOutbound(nonce, account, service, amount) ==
    LET released == [free EXCEPT ![Escrow] = @ + amount]
    IN  /\ amount > 0
        /\ nonce \notin processedOutboundNonces
        /\ held >= amount
        /\ CanTransfer(released, Escrow, account, amount)
        /\ held' = held - amount
        /\ free' = Transfer(released, Escrow, account, amount)
        /\ processedOutboundNonces' = processedOutboundNonces \cup {nonce}
        /\ outboundRecords' = Insert(outboundRecords, nonce,
                                     [account |-> account, service |-> service, amount |-> amount])
        /\ UNCHANGED <<nextInboundNonce, inboundRecords>>

Init ==
    /\ \E e \in EscrowEndowments :
          free = [a \in Accounts \cup {Escrow} |-> IF a = Escrow THEN e ELSE Endowment]
    /\ held = 0
    /\ nextInboundNonce = 0 /\ inboundRecords = <<>>
    /\ processedOutboundNonces = {} /\ outboundRecords = <<>>

Service == 7

Next ==
    \/ \E a \in Accounts, amount \in Amounts : BridgeIn(a, Service, amount)
    \/ \E n \in OutboundNonces, a \in Accounts, amount \in Amounts :
          ReleaseOutbound(n, a, Service, amount)

Spec == Init /\ [][Next]_vars
-----------------------------------------------------------------------------
Total(records, account) ==
    SumFunctionOnSet([n \in DOMAIN records |-> records[n].amount],
                     {n \in DOMAIN records : records[n].account = account})

(* The pallet seen as a ledger with one account: everything that is held *)
Pool == INSTANCE BridgeLedger WITH
    Accounts <- {Escrow}, MaxBalance <- 2 * Endowment * Cardinality(Accounts),
    next_inbound_nonce <- nextInboundNonce,
    escrow <- [a \in {Escrow} |-> held],
    consumed_outbound <- processedOutboundNonces

(* ... and as the ledger of every account's own escrow *)
PerAccount == INSTANCE BridgeLedger WITH
    MaxBalance <- 2 * Endowment * Cardinality(Accounts),
    next_inbound_nonce <- nextInboundNonce,
    escrow <- [a \in Accounts |-> Total(inboundRecords, a) - Total(outboundRecords, a)],
    consumed_outbound <- processedOutboundNonces

(* The pallet implements the ledger of the bridge engine for the pooled       *)
(* escrow: inbound nonces are contiguous, an outbound nonce is paid once, and *)
(* no more is paid than is held.                                              *)
PoolLedger == Pool!Spec

(* Escrow per account: nobody is paid more than what it has bridged in. Not   *)
(* kept: there is one escrow account (README, Disagreements).                 *)
AccountLedger == PerAccount!Spec

(* The records tell what is held, and whatever is held can be released:       *)
(* moving it out never needs the existential deposit of the escrow account,   *)
(* nor does a release that fails leave anything behind.                       *)
HeldReleasable ==
    /\ held = SumFunction([a \in Accounts |-> Total(inboundRecords, a) - Total(outboundRecords, a)])
    /\ held > 0 => \A a \in Accounts :
          CanTransfer([free EXCEPT ![Escrow] = @ + held], Escrow, a, held)
=============================================================================
