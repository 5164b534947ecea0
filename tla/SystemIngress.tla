--------------------------- MODULE SystemIngress ----------------------------
(* pallet-minijam: system operations, preimages, allocations and service      *)
(* fuel, from the call that queues them to execute_block_stf, which hands     *)
(* them to the executor in on_finalize. Service 0, the guest program that     *)
(* applies system operations, is the operator Accumulate.                     *)
(*                                                                            *)
(* A call and on_finalize are one step each. The life of works is in module   *)
(* MiniJam; here `reports' counts the due items of the execution queue, which *)
(* matter because they share the batch with the other inputs.                 *)
EXTENDS StorageMap, FiniteSets, SequencesExt

CONSTANTS
    Relayers,                   \* accounts that root makes relayers (naturals above 0)
    GenesisRelayer,
    Codes,                      \* service code, by hash
    BadCodes,                   \* code whose creation traps the executor
    AllocationIds,
    Directly,                   \* allocation ids that the relayer also sends as an operation
    Targets,                    \* services that allocations and preimages name
    MaxPendingSystemOps, MaxPendingPreimages, MaxPendingAllocations,
    MaxSystemOps,               \* the bound of SystemOpBatch
    Outcomes,                   \* what the executor may answer (see Answers)
    HostResults,                \* how NEW and TRANSFER of Service 0 may end
    MemoGas,                    \* min_memo_gas of services that other services create
    RootCalls,
    Funds,                      \* balance of the account that funds services
    MaxNonce, MaxReports, MaxServices   \* bounds of the model

VARIABLES
    ingressRelayer, allocationRelayer,
    pendingOps, pendingOpKeys, quarantinedOps, opNonces,
    pendingPreimages, pendingPreimageKeys, quarantinedPreimages,
    pendingAllocations, processedAllocations, pendingAllocationCount, allocationReceipts,
    opsPaused, preimagesPaused, reportsPaused,
    reports,                    \* due items of the execution queue
    jam,                        \* ProtocolState, as far as these inputs concern it
    fuel, totalFuel, escrow, funder,
    halted,                     \* on_finalize panicked: no block can be built
    consumed, dropped, lost     \* history: where the operations that left went

relayerVars == <<ingressRelayer, allocationRelayer>>
opVars == <<pendingOps, pendingOpKeys, quarantinedOps, opNonces, consumed, dropped, lost>>
preimageVars == <<pendingPreimages, pendingPreimageKeys, quarantinedPreimages>>
allocationVars == <<pendingAllocations, processedAllocations, pendingAllocationCount,
                    allocationReceipts>>
pauseVars == <<opsPaused, preimagesPaused, reportsPaused>>
fuelVars == <<fuel, totalFuel, escrow, funder>>
vars == <<relayerVars, opVars, preimageVars, allocationVars, pauseVars, reports, jam, fuelVars,
          halted>>

(* ALLOCATION_SYSTEM_SENDER, which no account hashes to *)
AllocationSender == 0

(* AllocationRelayer is not set *)
NoRelayer == 0

CreateService(code) == [kind |-> "CreateService", code |-> code]
ApplyAllocation(id, target) == [kind |-> "ApplyAllocation", id |-> id, target |-> target]
Commands == {CreateService(c) : c \in Codes}
                \cup {ApplyAllocation(id, t) : id \in Directly, t \in Targets \ {0}}

(* An operation is its own request id, which hashes all its fields *)
SystemOp(submitter, nonce, command) ==
    [submitter |-> submitter, nonce |-> nonce, command |-> command]

(* A preimage is its own key: requester, hash and length *)
Preimages == [requester : Targets, code : Codes]

(* What the constants are assumed to be *)
Assumption ==
    /\ Relayers \subseteq Nat \ {0} /\ GenesisRelayer \in Relayers
    /\ BadCodes \subseteq Codes /\ Directly \subseteq AllocationIds
    /\ AllocationIds \subseteq Nat \ {0} /\ Targets \subseteq Nat
    /\ {MaxPendingSystemOps, MaxPendingPreimages, MaxPendingAllocations, MaxSystemOps,
        Funds, MaxNonce, MaxReports, MaxServices} \subseteq Nat
    /\ Outcomes \subseteq {"Ok", "Execution", "Refused", "State"}
    /\ HostResults \subseteq {"done", "new failed", "transfer failed"}
    /\ MemoGas \subseteq {0, 1}
    /\ RootCalls \subseteq {"pause", "quarantine", "drop", "retry", "clear", "relayers"}
-----------------------------------------------------------------------------
(* Service 0. The executor is not part of this repository; what it does with  *)
(* the batch is modelled from service.c and from how the pallet uses it.      *)

NextService(s) == Cardinality(DOMAIN s.services)

(* Faulty nonce_is_fresh: does not look at the stored nonce *)
NonceUnchecked(s, op) == op.nonce >= 0

(* nonce_is_fresh *)
NonceIsFresh(s, op) ==
    op.submitter \in DOMAIN s.lastNonce => op.nonce > s.lastNonce[op.submitter]

WriteNonce(s, op) == [s EXCEPT !.lastNonce = Insert(@, op.submitter, op.nonce)]

WriteRejected(s, op) ==
    [s EXCEPT !.receipts = Insert(@, op, [status |-> "Rejected", service |-> 0])]

(* NEW; a service that Service 0 creates has min_memo_gas above 0 *)
HostNew(s, op) ==
    [s EXCEPT !.services = Insert(@, NextService(s), [code |-> op.command.code, memoGas |-> 1])]

CreateServiceOp(s, op, host) ==
    CASE ~NonceIsFresh(s, op)      -> WriteRejected(s, op)
      [] host = "new failed"       -> WriteRejected(s, op)
      [] host = "transfer failed"  -> WriteRejected(HostNew(s, op), op)
      [] OTHER ->
            WriteNonce([HostNew(s, op) EXCEPT !.receipts = Insert(@, op,
                           [status |-> "ServiceCreated", service |-> NextService(s)])],
                       op)

(* apply_allocation writes the receipt of the allocation; the accumulator     *)
(* moves the balance afterwards.                                              *)
ApplyAllocationOp(s, op) ==
    WriteNonce([s EXCEPT !.credited[op.command.id] = @ + 1,
                         !.written = @ \cup {op.command.id}], op)

(* MINIJAM_ACCUMULATE on the whole batch; written holds the allocations whose *)
(* receipt key is among the changes.                                          *)
Accumulate(s, batch, host) ==
    FoldLeft(LAMBDA t, op : IF op.command.kind = "CreateService"
                            THEN CreateServiceOp(t, op, host)
                            ELSE ApplyAllocationOp(t, op),
             [s EXCEPT !.written = {}], batch)
-----------------------------------------------------------------------------
(* Calls of the relayers *)

SubmitSystemOp(a, command) ==
    LET op == SystemOp(a, opNonces[a], command)
    IN  /\ a = ingressRelayer
        /\ opNonces[a] < MaxNonce
        /\ op \notin pendingOpKeys
        /\ Len(pendingOps) < MaxPendingSystemOps
        /\ pendingOps' = Append(pendingOps, op)
        /\ pendingOpKeys' = pendingOpKeys \cup {op}
        /\ opNonces' = [opNonces EXCEPT ![a] = @ + 1]
        /\ UNCHANGED <<relayerVars, quarantinedOps, consumed, dropped, lost, preimageVars,
                       allocationVars, pauseVars, reports, jam, fuelVars, halted>>

(* The executor's validate_preimage_submission wants a requester that exists  *)
(* and has not been given this preimage.                                      *)
ValidPreimage(p) ==
    /\ p.requester \in DOMAIN jam.services
    /\ p \notin jam.preimages

(* From the ingress relayer *)
SubmitPreimage(p) ==
    /\ ValidPreimage(p)
    /\ p \notin pendingPreimageKeys
    /\ Len(pendingPreimages) < MaxPendingPreimages
    /\ pendingPreimages' = Append(pendingPreimages, p)
    /\ pendingPreimageKeys' = pendingPreimageKeys \cup {p}
    /\ UNCHANGED <<relayerVars, opVars, quarantinedPreimages, allocationVars, pauseVars, reports,
                   jam, fuelVars, halted>>

(* allocation_relayer_account: falls back to the ingress relayer *)
AllocationRelayerAccount ==
    IF allocationRelayer # NoRelayer THEN allocationRelayer ELSE ingressRelayer

(* Faulty SubmitAllocation: does not ask whether the target exists *)
SubmitAllocationAnywhere(a, id, target) ==
    /\ a = AllocationRelayerAccount
    /\ id \notin processedAllocations
    /\ id \notin DOMAIN pendingAllocations
    /\ pendingAllocationCount < MaxPendingAllocations
    /\ pendingAllocations' = Insert(pendingAllocations, id, target)
    /\ pendingAllocationCount' = pendingAllocationCount + 1
    /\ allocationReceipts' = Insert(allocationReceipts, id,
                                [target |-> target, status |-> "Pending"])
    /\ UNCHANGED <<relayerVars, opVars, preimageVars, processedAllocations, pauseVars, reports,
                   jam, fuelVars, halted>>

SubmitAllocation(a, id, target) ==
    /\ a = AllocationRelayerAccount
    /\ target \in DOMAIN jam.services
    /\ id \notin processedAllocations
    /\ id \notin DOMAIN pendingAllocations
    /\ pendingAllocationCount < MaxPendingAllocations
    /\ pendingAllocations' = Insert(pendingAllocations, id, target)
    /\ pendingAllocationCount' = pendingAllocationCount + 1
    /\ allocationReceipts' = Insert(allocationReceipts, id,
                                [target |-> target, status |-> "Pending"])
    /\ UNCHANGED <<relayerVars, opVars, preimageVars, processedAllocations, pauseVars, reports,
                   jam, fuelVars, halted>>

(* Faulty FundService: leaves the total alone *)
FundServiceOnly(service) ==
    /\ service \in DOMAIN jam.services
    /\ funder > 0
    /\ funder' = funder - 1
    /\ escrow' = escrow + 1
    /\ fuel' = Insert(fuel, service, (IF service \in DOMAIN fuel THEN fuel[service] ELSE 0) + 1)
    /\ UNCHANGED <<relayerVars, opVars, preimageVars, allocationVars, pauseVars, reports, jam,
                   totalFuel, halted>>

(* One unit; the balance of the funder is what Preservation::Preserve allows  *)
(* it to spend.                                                               *)
FundService(service) ==
    /\ service \in DOMAIN jam.services
    /\ funder > 0
    /\ funder' = funder - 1
    /\ escrow' = escrow + 1
    /\ fuel' = Insert(fuel, service, (IF service \in DOMAIN fuel THEN fuel[service] ELSE 0) + 1)
    /\ totalFuel' = totalFuel + 1
    /\ escrow' >= totalFuel'
    /\ UNCHANGED <<relayerVars, opVars, preimageVars, allocationVars, pauseVars, reports, jam,
                   halted>>
-----------------------------------------------------------------------------
(* Calls of root *)

DropQuarantinedSystemOp(op) ==
    /\ "drop" \in RootCalls
    /\ op \in Elements(quarantinedOps)
    /\ quarantinedOps' = SwapRemove(quarantinedOps, op)
    /\ dropped' = dropped \cup {op}
    /\ UNCHANGED <<relayerVars, pendingOps, pendingOpKeys, opNonces, consumed, lost, preimageVars,
                   allocationVars, pauseVars, reports, jam, fuelVars, halted>>

(* Faulty RetryQuarantinedSystemOp: copies the operation out of quarantine *)
RetryCopies(op) ==
    /\ "retry" \in RootCalls
    /\ op \notin pendingOpKeys
    /\ op \in Elements(quarantinedOps)
    /\ Len(pendingOps) < MaxPendingSystemOps
    /\ pendingOps' = Append(pendingOps, op)
    /\ pendingOpKeys' = pendingOpKeys \cup {op}
    /\ UNCHANGED <<relayerVars, quarantinedOps, opNonces, consumed, dropped, lost, preimageVars,
                   allocationVars, pauseVars, reports, jam, fuelVars, halted>>

RetryQuarantinedSystemOp(op) ==
    /\ "retry" \in RootCalls
    /\ op \notin pendingOpKeys
    /\ op \in Elements(quarantinedOps)
    /\ Len(pendingOps) < MaxPendingSystemOps
    /\ quarantinedOps' = SwapRemove(quarantinedOps, op)
    /\ pendingOps' = Append(pendingOps, op)
    /\ pendingOpKeys' = pendingOpKeys \cup {op}
    /\ UNCHANGED <<relayerVars, opNonces, consumed, dropped, lost, preimageVars, allocationVars,
                   pauseVars, reports, jam, fuelVars, halted>>

ClearQuarantinedSystemOps ==
    /\ "clear" \in RootCalls
    /\ quarantinedOps' = <<>>
    /\ dropped' = dropped \cup Elements(quarantinedOps)
    /\ UNCHANGED <<relayerVars, pendingOps, pendingOpKeys, opNonces, consumed, lost, preimageVars,
                   allocationVars, pauseVars, reports, jam, fuelVars, halted>>

PauseExecution(paused) ==
    /\ "pause" \in RootCalls
    /\ opsPaused' = paused
    /\ preimagesPaused' = paused
    /\ reportsPaused' = paused
    /\ UNCHANGED <<relayerVars, opVars, preimageVars, allocationVars, reports, jam, fuelVars,
                   halted>>

(* Takes the execution queue; module MiniJam has what becomes of the works *)
QuarantinePending ==
    /\ "quarantine" \in RootCalls
    /\ reports' = 0
    /\ UNCHANGED <<relayerVars, opVars, preimageVars, allocationVars, pauseVars, jam, fuelVars,
                   halted>>

SetIngressRelayer(a) ==
    /\ "relayers" \in RootCalls
    /\ ingressRelayer' = a
    /\ UNCHANGED <<allocationRelayer, opVars, preimageVars, allocationVars, pauseVars, reports,
                   jam, fuelVars, halted>>

SetAllocationRelayer(a) ==
    /\ "relayers" \in RootCalls
    /\ allocationRelayer' = a
    /\ UNCHANGED <<ingressRelayer, opVars, preimageVars, allocationVars, pauseVars, reports, jam,
                   fuelVars, halted>>
-----------------------------------------------------------------------------
(* on_finalize: execute_block_stf *)

Before(x, y) == x.submitter < y.submitter \/ (x.submitter = y.submitter /\ x.nonce < y.nonce)

(* Faulty AllocationOps: Service 0 is not a target, as for operations *)
AllocationOpsToOthers ==
    LET op(id) == SystemOp(AllocationSender, id, ApplyAllocation(id, pendingAllocations[id]))
    IN  SetToSortSeq({op(id) : id \in {i \in DOMAIN pendingAllocations :
                                            pendingAllocations[i] # 0}}, Before)

(* allocation_system_op, for the pending allocations in the order of their ids *)
AllocationOps ==
    LET op(id) == SystemOp(AllocationSender, id, ApplyAllocation(id, pendingAllocations[id]))
    IN  SetToSortSeq({op(id) : id \in DOMAIN pendingAllocations}, Before)

SystemOpBatch ==
    IF opsPaused THEN <<>> ELSE SetToSortSeq(Elements(pendingOps), Before) \o AllocationOps

(* Faulty PreimageBatch: does not know of the pause *)
PreimagesAlways == Elements(pendingPreimages)

PreimageBatch == IF preimagesPaused THEN {} ELSE Elements(pendingPreimages)
ReportBatch == IF reportsPaused THEN 0 ELSE reports

(* pending_system_ops_batch is Fatal for more operations than fit and for an  *)
(* allocation to a service that is gone or has no min_memo_gas.               *)
BatchBuilds ==
    \/ opsPaused
    \/ /\ Len(SystemOpBatch) <= MaxSystemOps
       /\ \A id \in DOMAIN pendingAllocations :
            /\ pendingAllocations[id] \in DOMAIN jam.services
            /\ jam.services[pendingAllocations[id]].memoGas > 0

(* "Execution" is an error of guest code, which runs for reports and           *)
(* operations only. "Refused" is an Input error, or output that               *)
(* validate_execution_output refuses: map_validation_error treats it alike.   *)
(* "State" stands for every answer that is Fatal whatever the batch was.      *)
Answers(outcome) == ~halted /\ BatchBuilds /\ outcome \in Outcomes

(* The only batch for which refused input is not Fatal *)
OnlyPreimages == ReportBatch = 0 /\ PreimageBatch # {} /\ SystemOpBatch = <<>>

(* Faulty Sweep: moves on after swap_remove, past the element moved in *)
SweepSkips(s, K) ==
    FoldLeft(LAMBDA t, i : IF i <= Len(t) /\ t[i] \in K THEN SwapRemove(t, t[i]) ELSE t,
             s, [i \in DOMAIN s |-> i])

(* The loops of consume_preimages and consume_system_ops: swap_remove the     *)
(* first element of K until there is none.                                    *)
Sweep(s, K) ==
    LET first(t) == t[CHOOSE i \in DOMAIN t : t[i] \in K /\ \A j \in 1..(i - 1) : t[j] \notin K]
    IN  FoldLeft(LAMBDA t, x : IF Elements(t) \cap K = {} THEN t ELSE SwapRemove(t, first(t)),
                 s, s)

(* Faulty KeysLeft: keeps the keys of what left the queue *)
KeysKept(keys, before, after) == keys

(* The keys of what was taken from a queue are removed with it *)
KeysLeft(keys, before, after) == keys \ (Elements(before) \ Elements(after))

(* What the executor returns: every operation of the batch applied, some of   *)
(* the preimages provided, and, through the reports, maybe a service created  *)
(* by another service.                                                        *)
Executed(host, provided, guest) ==
    LET ran == Accumulate(jam, SystemOpBatch, host)
    IN  [ran EXCEPT !.preimages = @ \cup provided,
                    !.services = IF guest = {} THEN @
                                 ELSE Insert(@, NextService(ran),
                                             [code |-> CHOOSE c \in Codes : TRUE,
                                              memoGas |-> CHOOSE g \in guest : TRUE])]

(* Faulty ConsumesAllocations: the counter stays *)
ConsumesUncounted(written) ==
    LET done == written \cap DOMAIN pendingAllocations
    IN  /\ pendingAllocations' = RemoveAll(pendingAllocations, done)
        /\ processedAllocations' = processedAllocations \cup done
        /\ pendingAllocationCount' = pendingAllocationCount
        /\ allocationReceipts' = [id \in DOMAIN allocationReceipts |->
                IF id \in done THEN [allocationReceipts[id] EXCEPT !.status = "Processed"]
                               ELSE allocationReceipts[id]]

(* Faulty ConsumesAllocations: waits for the next block *)
ConsumesNone(written) ==
    written \subseteq AllocationIds /\ UNCHANGED allocationVars

(* consume_successful_allocations *)
ConsumesAllocations(written) ==
    LET done == written \cap DOMAIN pendingAllocations
    IN  /\ pendingAllocations' = RemoveAll(pendingAllocations, done)
        /\ processedAllocations' = processedAllocations \cup done
        /\ pendingAllocationCount' = Max2(pendingAllocationCount - Cardinality(done), 0)
        /\ allocationReceipts' = [id \in DOMAIN allocationReceipts |->
                IF id \in done THEN [allocationReceipts[id] EXCEPT !.status = "Processed"]
                               ELSE allocationReceipts[id]]

(* Fatal if an allocation that is consumed was already processed *)
ExecuteBlockStf(host, provided, guest) ==
    LET batch == Elements(SystemOpBatch)
        output == Executed(host, provided, guest)
    IN  /\ Answers("Ok")
        /\ \A op \in batch : op.command.kind = "CreateService" => op.command.code \notin BadCodes
        /\ provided \subseteq PreimageBatch
        /\ guest # {} => ReportBatch > 0 /\ NextService(output) <= MaxServices
        /\ jam' = [output EXCEPT !.written = {}]
        /\ ConsumesAllocations(output.written)
        /\ pendingPreimages' = Sweep(pendingPreimages, provided)
        /\ pendingPreimageKeys' = KeysLeft(pendingPreimageKeys, pendingPreimages, pendingPreimages')
        /\ pendingOps' = Sweep(pendingOps, batch)
        /\ pendingOpKeys' = KeysLeft(pendingOpKeys, pendingOps, pendingOps')
        /\ consumed' = consumed \cup (Elements(pendingOps) \ Elements(pendingOps'))
        /\ reports' = reports - ReportBatch
        /\ halted' = (output.written \cap DOMAIN pendingAllocations \cap processedAllocations # {})
        /\ UNCHANGED <<relayerVars, quarantinedOps, opNonces, dropped, lost,
                       quarantinedPreimages, pauseVars, fuelVars>>

(* Yielded: a batch with reports is rolled back and tried again *)
YieldBlockStf ==
    /\ Answers("Execution")
    /\ ReportBatch > 0
    /\ UNCHANGED vars

(* Faulty Fitting: the quarantine is not bounded *)
FittingAll(queue, bound) == queue

(* What of a quarantine and the queue moved into it the bound leaves room for *)
Fitting(queue, bound) == SubSeq(queue, 1, Min2(Len(queue), bound))

(* Faulty Overflows: nothing happens when the quarantine is full *)
OverflowIgnored(queue, bound) == FALSE

Overflows(queue, bound) == Len(queue) > bound

(* quarantine_pending_system_ops; what does not fit is lost *)
QuarantinePendingSystemOps ==
    LET both == quarantinedOps \o pendingOps
    IN  /\ Answers("Execution")
        /\ ReportBatch = 0
        /\ SystemOpBatch # <<>>
        /\ pendingOps' = <<>>
        /\ pendingOpKeys' = KeysLeft(pendingOpKeys, pendingOps, <<>>)
        /\ quarantinedOps' = Fitting(both, MaxPendingSystemOps)
        /\ lost' = lost \cup (Elements(both) \ Elements(quarantinedOps'))
        /\ opsPaused' = (opsPaused \/ Overflows(both, MaxPendingSystemOps))
        /\ UNCHANGED <<relayerVars, opNonces, consumed, dropped, preimageVars, allocationVars,
                       preimagesPaused, reportsPaused, reports, jam, fuelVars, halted>>

(* quarantine_pending_preimages *)
QuarantinePendingPreimages ==
    LET both == quarantinedPreimages \o pendingPreimages
    IN  /\ Answers("Refused")
        /\ OnlyPreimages
        /\ pendingPreimages' = <<>>
        /\ pendingPreimageKeys' = KeysLeft(pendingPreimageKeys, pendingPreimages, <<>>)
        /\ quarantinedPreimages' = Fitting(both, MaxPendingPreimages)
        /\ preimagesPaused' = (preimagesPaused \/ Overflows(both, MaxPendingPreimages))
        /\ UNCHANGED <<relayerVars, opVars, allocationVars, opsPaused, reportsPaused, reports,
                       jam, fuelVars, halted>>

(* panic!("fatal MiniJam execution error") *)
FatalBlockStf ==
    /\ ~halted
    /\ \/ ~BatchBuilds
       \/ Answers("State")
       \/ /\ Answers("Refused")
          /\ ReportBatch > 0 \/ PreimageBatch # {} \/ SystemOpBatch # <<>>
          /\ ~OnlyPreimages
    /\ halted' = TRUE
    /\ UNCHANGED <<relayerVars, opVars, preimageVars, allocationVars, pauseVars, reports, jam,
                   fuelVars>>

(* accept_candidate of module MiniJam adds an item to the execution queue *)
ReportAccepted ==
    /\ reports < MaxReports
    /\ reports' = reports + 1
    /\ UNCHANGED <<relayerVars, opVars, preimageVars, allocationVars, pauseVars, jam, fuelVars,
                   halted>>
-----------------------------------------------------------------------------
Init ==
    /\ ingressRelayer = GenesisRelayer
    /\ allocationRelayer = GenesisRelayer
    /\ pendingOps = <<>> /\ pendingOpKeys = {} /\ quarantinedOps = <<>>
    /\ opNonces = [a \in Relayers |-> 0]
    /\ pendingPreimages = <<>> /\ pendingPreimageKeys = {} /\ quarantinedPreimages = <<>>
    /\ pendingAllocations = <<>> /\ processedAllocations = {} /\ pendingAllocationCount = 0
    /\ allocationReceipts = <<>>
    /\ opsPaused = FALSE /\ preimagesPaused = FALSE /\ reportsPaused = FALSE
    /\ reports = 0
    /\ jam = [services |-> 0 :> [code |-> "system", memoGas |-> 1], lastNonce |-> <<>>,
              receipts |-> <<>>, credited |-> [id \in AllocationIds |-> 0], written |-> {},
              preimages |-> {}]
    /\ fuel = <<>> /\ totalFuel = 0 /\ escrow = 0 /\ funder = Funds
    /\ halted = FALSE
    /\ consumed = {} /\ dropped = {} /\ lost = {}

RelayerCall ==
    \/ \E a \in Relayers, command \in Commands : SubmitSystemOp(a, command)
    \/ \E p \in Preimages : SubmitPreimage(p)
    \/ \E a \in Relayers, id \in AllocationIds, target \in Targets :
            SubmitAllocation(a, id, target)
    \/ \E service \in Targets : FundService(service)

RootCall ==
    \/ \E op \in Elements(quarantinedOps) : DropQuarantinedSystemOp(op)
    \/ \E op \in Elements(quarantinedOps) : RetryQuarantinedSystemOp(op)
    \/ ClearQuarantinedSystemOps
    \/ \E paused \in BOOLEAN : PauseExecution(paused)
    \/ QuarantinePending
    \/ \E a \in Relayers : SetIngressRelayer(a)
    \/ \E a \in Relayers : SetAllocationRelayer(a)

OnFinalize ==
    \/ \E host \in HostResults, provided \in SUBSET Elements(pendingPreimages),
            guest \in {{}} \cup {{g} : g \in MemoGas} : ExecuteBlockStf(host, provided, guest)
    \/ YieldBlockStf
    \/ QuarantinePendingSystemOps
    \/ QuarantinePendingPreimages
    \/ FatalBlockStf

Next == ~halted /\ (RelayerCall \/ RootCall \/ ReportAccepted \/ OnFinalize)

Spec == Init /\ [][Next]_vars
-----------------------------------------------------------------------------
(* What the ingress side of pallet-minijam promises.                          *)

SumOver(f) == FoldFunction(LAMBDA x, y : x + y, 0, f)

Statuses == {"Pending", "Processed"}
OpIn(op) == op.submitter \in Relayers /\ op.nonce \in 0..(MaxNonce - 1) /\ op.command \in Commands

(* Types and bounds of the storage of pallet-minijam that this module models: *)
(* every bounded vector keeps its bound.                                      *)
TypeOK ==
    /\ ingressRelayer \in Relayers /\ allocationRelayer \in Relayers \cup {NoRelayer}
    /\ \A op \in Elements(pendingOps) \cup Elements(quarantinedOps) : OpIn(op)
    /\ Len(pendingOps) <= MaxPendingSystemOps /\ Len(quarantinedOps) <= MaxPendingSystemOps
    /\ Elements(pendingPreimages) \cup Elements(quarantinedPreimages) \subseteq Preimages
    /\ Len(pendingPreimages) <= MaxPendingPreimages
    /\ Len(quarantinedPreimages) <= MaxPendingPreimages
    /\ IsMap(pendingAllocations, AllocationIds, Targets)
    /\ IsMap(allocationReceipts, AllocationIds, [target : Targets, status : Statuses])
    /\ {opsPaused, preimagesPaused, reportsPaused, halted} \subseteq BOOLEAN
    /\ jam.written = {}

(* The key sets that submit_preimage, submit_system_op and retry consult say  *)
(* exactly what is queued, after any sequence of consumption and quarantine;  *)
(* a stale key would refuse an operation for ever, a missing one queue it     *)
(* twice.                                                                     *)
KeysExact ==
    /\ Distinct(pendingOps) /\ pendingOpKeys = Elements(pendingOps)
    /\ Distinct(pendingPreimages) /\ pendingPreimageKeys = Elements(pendingPreimages)

(* Every operation that submit_system_op accepted is in one place: queued,    *)
(* quarantined, consumed by the executor, dropped by root or lost to a full   *)
(* quarantine. None is duplicated by a retry or forgotten by a failed block.  *)
OpsAccounted ==
    LET places == <<Elements(pendingOps), Elements(quarantinedOps), consumed, dropped, lost>>
        all == UNION Elements(places)
    IN  /\ Distinct(quarantinedOps)
        /\ \A i, j \in DOMAIN places : i # j => places[i] \cap places[j] = {}
        /\ \A a \in Relayers : \A n \in 0..(MaxNonce - 1) :
               Cardinality({op \in all : op.submitter = a /\ op.nonce = n})
                    = IF n < opNonces[a] THEN 1 ELSE 0

(* The receipt a client polls for (get_system_receipt) is final: no later     *)
(* block, and no retry of a quarantined operation, replaces or removes it.    *)
ReceiptStable ==
    \A op \in DOMAIN jam.receipts :
        op \in DOMAIN jam'.receipts /\ jam'.receipts[op] = jam.receipts[op]

(* A ServiceCreated receipt names a service of the code that was asked for,   *)
(* no two receipts name the same one, and the services of a sender were       *)
(* created in the order of its nonces even when root retried some of them.    *)
ServicesInNonceOrder ==
    LET created == {op \in DOMAIN jam.receipts : jam.receipts[op].status = "ServiceCreated"}
        service(op) == jam.receipts[op].service
    IN  /\ \A op \in created :
              /\ service(op) \in DOMAIN jam.services
              /\ jam.services[service(op)].code = op.command.code
        /\ \A x, y \in created :
              x.submitter = y.submitter /\ x.nonce < y.nonce => service(x) < service(y)

(* An operation is only ever lost together with a pause of system operations, *)
(* so that root learns of it before another one is taken.                     *)
LossPauses == lost' # lost => opsPaused'

(* The allocation ledger of the pallet agrees with itself: the counter is the *)
(* number of pending allocations, none is pending and processed, and the      *)
(* receipts tell which it is.                                                 *)
AllocationsExact ==
    /\ pendingAllocationCount = Cardinality(DOMAIN pendingAllocations)
    /\ DOMAIN pendingAllocations \cap processedAllocations = {}
    /\ DOMAIN allocationReceipts = DOMAIN pendingAllocations \cup processedAllocations
    /\ \A id \in DOMAIN allocationReceipts :
          allocationReceipts[id].status
              = IF id \in processedAllocations THEN "Processed" ELSE "Pending"

(* An allocation is credited when it is processed, not before and not twice,  *)
(* through blocks that fail, pauses and retries.                              *)
CreditedWhenProcessed ==
    \A id \in AllocationIds :
        jam.credited[id] = IF id \in processedAllocations THEN 1 ELSE 0

(* pending/processed replay protection: no allocation id is credited twice,   *)
(* whichever way it reaches Service 0. Not kept when the id also comes in a   *)
(* system operation (README, Disagreements).                                  *)
AllocationCreditedOnce == \A id \in AllocationIds : jam.credited[id] <= 1

(* on_finalize does not panic as long as the executor answers Ok or with an   *)
(* execution error, and a batch has room for both queues when they are full.  *)
IngressNeverHalts == ~halted

(* A preimage that the executor refuses is quarantined without a panic. Not   *)
(* kept when the block holds another input (README, Disagreements).           *)
RefusedPreimageContained == [][PreimageBatch # {} => ~halted']_vars

(* A quarantined operation, which the pallet marks retryable, can still be    *)
(* applied by Service 0 when root retries it. Not kept: the nonce may have    *)
(* been passed by then (README, Disagreements).                               *)
RetryableCanSucceed ==
    \A op \in Elements(quarantinedOps) :
        op.command.kind = "CreateService" => NonceIsFresh(jam, op)

(* pause_execution holds back every input: while an input is paused nothing   *)
(* of it reaches the protocol state, and none of it leaves its queue in       *)
(* on_finalize.                                                               *)
PausedUntouched ==
    /\ opsPaused => /\ jam'.receipts = jam.receipts
                    /\ jam'.credited = jam.credited
                    /\ Elements(pendingOps) \subseteq Elements(pendingOps')
    /\ preimagesPaused => /\ jam'.preimages = jam.preimages
                          /\ Elements(pendingPreimages) \subseteq Elements(pendingPreimages')

(* The fuel recorded for the services is what was paid into the escrow *)
FuelBacked == totalFuel = SumOver(fuel) /\ escrow = totalFuel /\ escrow + funder = Funds
-----------------------------------------------------------------------------
(* Blocks are produced, and a batch that holds no failing operation is        *)
(* executed in the end.                                                       *)
Fairness ==
    /\ WF_vars(ExecuteBlockStf("done", {}, {}))
    /\ WF_vars(QuarantinePendingSystemOps)

FairSpec == Spec /\ Fairness

(* A failing operation cannot hold up the allocations it shares its blocks    *)
(* with: it goes to quarantine and they are processed, unless the quarantine  *)
(* overflows, which pauses operations and allocations alike until root acts.  *)
AllocationsSettle ==
    \A id \in AllocationIds :
        id \in DOMAIN pendingAllocations ~> id \in processedAllocations \/ opsPaused
=============================================================================
