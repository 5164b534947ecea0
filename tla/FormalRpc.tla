------------------------------ MODULE FormalRpc -----------------------------
(* The formal RPC gateway: minijam_submitWorkV1, minijam_getWorkStatusV1 and  *)
(* minijam_createServiceV1 requests served at once, its bundle directory, and *)
(* a crash of the process at any point.                                       *)
(*                                                                            *)
(* The chain is what the gateway reads of it: facts of finalized blocks, each *)
(* with the block that brought it. A submission through MiniJamChainClient    *)
(* (module ChainClient) is one step here, with the outcomes it has there.     *)
EXTENDS StorageMap, FiniteSets

CONSTANTS
    WorkRequests, StatusRequests, DeployRequests,
    Packages,           \* what submit_work builds: one package, one bundle, one content hash
    Codes,              \* service blobs, by hash
    Faults,             \* see Assumption
    OneWriter,          \* requests for the same package do not overlap
    MaxConcurrency,     \* MAX_RPC_CONCURRENCY
    MaxPolls,           \* 120 in the code
    MaxFaults,
    None

Requests == WorkRequests \cup StatusRequests \cup DeployRequests

(* What the constants are assumed to be *)
Assumption ==
    /\ {MaxConcurrency, MaxPolls, MaxFaults} \subseteq Nat
    /\ OneWriter \in BOOLEAN /\ None \notin Nat \cup WorkRequests
    /\ IsFiniteSet(Requests)
    /\ WorkRequests \cap DeployRequests = {} /\ StatusRequests \cap (WorkRequests \cup DeployRequests) = {}
    /\ Faults \subseteq {"crash", "stale", "refused", "late", "dispatch", "rejected", "quarantine"}

VARIABLES
    pc, req,                        \* per request: next step, local variables
    tmp, final,                     \* directory: package |-> file, None when there is none
    files,                          \* file |-> [last: who truncated it last, whole]
    writes,                         \* request |-> the file it writes
    block,                          \* number of finalized blocks
    works,                          \* package |-> block that brought the work
    imported,                       \* package |-> block that imported it
    opNonce, opCache, late,         \* SystemOpNonces, the client's cache, operations in the pool
    ops, receipts, services,
    preimages, provided,            \* services: preimage queued, block that provided it
    faults

fileVars == <<tmp, final, files, writes>>
opVars == <<opNonce, opCache, late, ops, preimages>>
chainVars == <<block, works, imported, receipts, services, provided>>
vars == <<pc, req, fileVars, opVars, chainVars, faults>>

Fault(f) == f \in Faults /\ faults < MaxFaults /\ faults' = faults + 1

At(r, step) == pc[r] = step
Goto(r, step) == pc' = [pc EXCEPT ![r] = step]

(* A request ends with an answer or an error; its permit is dropped *)
Ends(r, how) == Goto(r, how)
Finished == {"new", "ok", "error", "busy", "gone"}
Active == {r \in Requests : pc[r] \notin Finished}
-----------------------------------------------------------------------------
(* json_rpc: admission *)

FirstStep(r) ==
    CASE r \in WorkRequests -> "save" [] r \in StatusRequests -> "context" [] OTHER -> "create"

(* Faulty Admit: without the semaphore *)
AdmitAlways(r, p, c) ==
    /\ At(r, "new")
    /\ req' = [req EXCEPT ![r].package = p, ![r].code = c]
    /\ Goto(r, FirstStep(r))
    /\ UNCHANGED <<fileVars, opVars, chainVars, faults>>

(* submit_work with a context that is no longer the finalized one, or whose   *)
(* service or code hash does not match, ends before anything is stored.       *)
Admit(r, p, c) ==
    /\ At(r, "new")
    /\ Cardinality(Active) < MaxConcurrency
    /\ OneWriter /\ r \in WorkRequests =>
            ~\E other \in Active \cap WorkRequests : req[other].package = p
    /\ req' = [req EXCEPT ![r].package = p, ![r].code = c]
    /\ \/ Goto(r, FirstStep(r)) /\ faults' = faults
       \/ r \in WorkRequests /\ Fault("stale") /\ Ends(r, "error")
    /\ UNCHANGED <<fileVars, opVars, chainVars>>

Busy(r) ==
    /\ At(r, "new")
    /\ Cardinality(Active) >= MaxConcurrency
    /\ Ends(r, "busy")
    /\ UNCHANGED <<req, fileVars, opVars, chainVars, faults>>
-----------------------------------------------------------------------------
(* save_bundle_to_dir *)

Package(r) == req[r].package

(* A bundle that is there is compared with the bytes, not written again *)
BundleExists(r) ==
    /\ At(r, "save")
    /\ final[Package(r)] # None
    /\ IF files[final[Package(r)]].whole THEN Goto(r, "submit") ELSE Ends(r, "error")
    /\ UNCHANGED <<req, fileVars, opVars, chainVars, faults>>

BundleMissing(r) ==
    /\ At(r, "save")
    /\ final[Package(r)] = None
    /\ Goto(r, "open")
    /\ UNCHANGED <<req, fileVars, opVars, chainVars, faults>>

(* Faulty OpenTemporary: the bundle is written under its final name *)
OpenInPlace(r) ==
    /\ At(r, "open")
    /\ final' = [final EXCEPT ![Package(r)] = r]
    /\ files' = [files EXCEPT ![r] = [last |-> r, whole |-> FALSE]]
    /\ writes' = [writes EXCEPT ![r] = r]
    /\ Goto(r, "write")
    /\ UNCHANGED <<req, tmp, opVars, chainVars, faults>>

(* fs::write opens the temporary file, creating or truncating it *)
OpenTemporary(r) ==
    LET file == IF tmp[Package(r)] # None THEN tmp[Package(r)] ELSE r
    IN  /\ At(r, "open")
        /\ tmp' = [tmp EXCEPT ![Package(r)] = file]
        /\ files' = [files EXCEPT ![file] = [last |-> r, whole |-> FALSE]]
        /\ writes' = [writes EXCEPT ![r] = file]
        /\ Goto(r, "write")
        /\ UNCHANGED <<req, final, opVars, chainVars, faults>>

(* ... and writes it; the content is whole once whoever truncated the file    *)
(* last has written it.                                                       *)
WriteTemporary(r) ==
    /\ At(r, "write")
    /\ files' = [files EXCEPT ![writes[r]].whole = @ \/ files[writes[r]].last = r]
    /\ Goto(r, "rename")
    /\ UNCHANGED <<req, tmp, final, writes, opVars, chainVars, faults>>

(* Faulty Rename: the bundle is announced before it has its name *)
RenameLater(r) ==
    /\ At(r, "rename")
    /\ Goto(r, "submit")
    /\ UNCHANGED <<req, fileVars, opVars, chainVars, faults>>

(* rename; NotFound when another request has renamed the file *)
Rename(r) ==
    /\ At(r, "rename")
    /\ IF tmp[Package(r)] = None
       THEN Ends(r, "error") /\ UNCHANGED <<tmp, final>>
       ELSE /\ final' = [final EXCEPT ![Package(r)] = tmp[Package(r)]]
            /\ tmp' = [tmp EXCEPT ![Package(r)] = None]
            /\ Goto(r, "submit")
    /\ UNCHANGED <<req, files, writes, opVars, chainVars, faults>>

(* chain.submit_work, watched to finality. A second work of the package is    *)
(* refused by the pallet; after an error the work may be there all the same.  *)
SubmitWork(r) ==
    /\ At(r, "submit")
    /\ block' = block + 1
    /\ \/ /\ Package(r) \notin DOMAIN works
          /\ works' = Insert(works, Package(r), block + 1)
          /\ \/ Ends(r, "ok") /\ faults' = faults
             \/ Ends(r, "error") /\ Fault("late")
       \/ /\ Package(r) \in DOMAIN works
          /\ Ends(r, "error")
          /\ UNCHANGED <<works, faults>>
       \/ /\ Fault("refused")
          /\ Ends(r, "error")
          /\ UNCHANGED works
    /\ UNCHANGED <<req, fileVars, opVars, imported, receipts, services, provided>>

(* get_bundle answers with the stored bytes if they have the hash *)
Served(p) == final[p] # None /\ files[final[p]].whole
-----------------------------------------------------------------------------
(* work_status: every read is of the block that is finalized at that moment *)

(* The pallet imports the report of a work (module MiniJam) *)
ImportWork(p) ==
    /\ p \in DOMAIN works \ DOMAIN imported
    /\ block' = block + 1
    /\ imported' = Insert(imported, p, block + 1)
    /\ UNCHANGED <<pc, req, fileVars, opVars, works, receipts, services, provided, faults>>

ReadContext(r) ==
    /\ At(r, "context")
    /\ req' = [req EXCEPT ![r].context = block]
    /\ Goto(r, "status")
    /\ UNCHANGED <<fileVars, opVars, chainVars, faults>>

ReadStatus(r) ==
    /\ At(r, "status")
    /\ IF Package(r) \notin DOMAIN works
       THEN Ends(r, "error") /\ UNCHANGED req
       ELSE /\ req' = [req EXCEPT ![r].status =
                          IF Package(r) \in DOMAIN imported THEN "Imported" ELSE "Pending"]
            /\ IF Package(r) \in DOMAIN imported THEN Goto(r, "receipt") ELSE Ends(r, "ok")
    /\ UNCHANGED <<fileVars, opVars, chainVars, faults>>

ReadReceipt(r) ==
    /\ At(r, "receipt")
    /\ Ends(r, "ok")
    /\ UNCHANGED <<req, fileVars, opVars, chainVars, faults>>
-----------------------------------------------------------------------------
(* create_service *)

SystemOp(nonce, code) == [nonce |-> nonce, code |-> code]

(* The nonce that the correlation is made with *)
Predicted == IF opCache # None THEN opCache ELSE opNonce

(* Faulty SubmitCreateService: the cached nonce is not advanced *)
SubmitCreateServiceSameNonce(r) ==
    /\ At(r, "create")
    /\ late = <<>>
    /\ req' = [req EXCEPT ![r].correlation = SystemOp(Predicted, req[r].code),
                          ![r].own = SystemOp(opNonce, req[r].code)]
    /\ opNonce' = opNonce + 1
    /\ opCache' = Predicted
    /\ ops' = ops \cup {SystemOp(opNonce, req[r].code)}
    /\ Goto(r, "poll_receipt")
    /\ UNCHANGED <<fileVars, late, preimages, chainVars, faults>>

(* submit_create_service: extrinsics left in the pool are included first *)
SubmitCreateService(r) ==
    LET actual == opNonce + Len(late)
        queue == late \o <<req[r].code>>
        new == {SystemOp(opNonce + i - 1, queue[i]) : i \in DOMAIN queue}
    IN  /\ At(r, "create")
        /\ req' = [req EXCEPT ![r].correlation = SystemOp(Predicted, req[r].code),
                              ![r].own = SystemOp(actual, req[r].code)]
        /\ opNonce' = actual + 1
        /\ opCache' = Predicted + 1
        /\ late' = <<>>
        /\ ops' = ops \cup new
        /\ Goto(r, "poll_receipt")
        /\ UNCHANGED <<fileVars, preimages, chainVars, faults>>

(* The operation failed in dispatch: the submission is Ok and says so, and    *)
(* create_service goes on as if it had succeeded.                             *)
SubmitCreateServiceFailed(r) ==
    /\ At(r, "create")
    /\ late = <<>>
    /\ Fault("dispatch")
    /\ req' = [req EXCEPT ![r].correlation = SystemOp(Predicted, req[r].code), ![r].own = None]
    /\ opCache' = None
    /\ Goto(r, "poll_receipt")
    /\ UNCHANGED <<fileVars, opNonce, late, ops, preimages, chainVars>>

(* The submission is an error; its extrinsic may stay in the pool *)
SubmitCreateServiceError(r) ==
    /\ At(r, "create")
    /\ \/ Fault("refused") /\ late' = late
       \/ Fault("late") /\ late' = Append(late, req[r].code)
    /\ opCache' = None
    /\ Ends(r, "error")
    /\ UNCHANGED <<req, fileVars, opNonce, ops, preimages, chainVars>>

(* Service 0 executes an operation, creates its service or rejects it, or the *)
(* pallet quarantines it (module SystemIngress).                              *)
ExecuteOp(op) ==
    LET id == Cardinality(DOMAIN services) + 1
    IN  /\ ops' = ops \ {op}
        /\ \/ /\ block' = block + 1
              /\ services' = Insert(services, id, [code |-> op.code, at |-> block + 1])
              /\ receipts' = Insert(receipts, op, id)
              /\ faults' = faults
           \/ /\ Fault("rejected")
              /\ block' = block + 1
              /\ receipts' = Insert(receipts, op, None)
              /\ UNCHANGED services
           \/ Fault("quarantine") /\ UNCHANGED <<block, services, receipts>>
        /\ UNCHANGED <<pc, req, fileVars, opNonce, opCache, late, preimages, works, imported,
                       provided>>

(* An extrinsic whose submission was an error is included after all *)
IncludeLate ==
    /\ late # <<>>
    /\ late' = Tail(late)
    /\ ops' = ops \cup {SystemOp(opNonce, Head(late))}
    /\ opNonce' = opNonce + 1
    /\ UNCHANGED <<pc, req, fileVars, opCache, preimages, chainVars, faults>>

Polled(r) == req' = [req EXCEPT ![r].polls = @ + 1]

(* Faulty PollReceipt: waits as long as it takes *)
PollReceiptForever(r) ==
    /\ At(r, "poll_receipt")
    /\ req[r].correlation \in DOMAIN receipts
    /\ receipts[req[r].correlation] # None
    /\ req' = [req EXCEPT ![r].service = receipts[req[r].correlation]]
    /\ Goto(r, "preimage")
    /\ UNCHANGED <<fileVars, opVars, chainVars, faults>>

(* wait_for_system_receipt *)
PollReceipt(r) ==
    /\ At(r, "poll_receipt")
    /\ IF req[r].correlation \in DOMAIN receipts
       THEN IF receipts[req[r].correlation] = None
            THEN Ends(r, "error") /\ UNCHANGED req
            ELSE /\ req' = [req EXCEPT ![r].service = receipts[req[r].correlation],
                                       ![r].polls = 0]
                 /\ Goto(r, "preimage")
       ELSE IF req[r].polls + 1 < MaxPolls THEN Polled(r) /\ UNCHANGED pc
            ELSE Ends(r, "error") /\ UNCHANGED req
    /\ UNCHANGED <<fileVars, opVars, chainVars, faults>>

(* submit_preimage_finalized; the pallet provides the preimage in a later     *)
(* block, or quarantines it.                                                  *)
SubmitPreimage(r) ==
    /\ At(r, "preimage")
    /\ \/ /\ Goto(r, "poll_ready")
          /\ preimages' = preimages \cup {req[r].service}
          /\ faults' = faults
       \/ /\ Fault("refused")
          /\ Ends(r, "error")
          /\ UNCHANGED preimages
    /\ UNCHANGED <<req, fileVars, opNonce, opCache, late, ops, chainVars>>

ProvidePreimage(service) ==
    /\ preimages' = preimages \ {service}
    /\ \/ /\ block' = block + 1
          /\ provided' = Insert(provided, service, block + 1)
          /\ faults' = faults
       \/ Fault("quarantine") /\ UNCHANGED <<block, provided>>
    /\ UNCHANGED <<pc, req, fileVars, opNonce, opCache, late, ops, works, imported, receipts,
                   services>>

(* Faulty ReadyAt: does not wait for the preimage *)
ReadyWithoutPreimage(r, context) ==
    services[req[r].service].at <= context /\ services[req[r].service].code = req[r].code

(* ServiceInfo with the code hash and the preimage, in one finalized block *)
ReadyAt(r, context) ==
    /\ services[req[r].service].at <= context
    /\ services[req[r].service].code = req[r].code
    /\ req[r].service \in DOMAIN provided
    /\ provided[req[r].service] <= context

(* wait_for_service_ready: the context is read first, the rest at its block *)
PollReadyContext(r) ==
    /\ At(r, "poll_ready")
    /\ req' = [req EXCEPT ![r].context = block]
    /\ Goto(r, "ready_at")
    /\ UNCHANGED <<fileVars, opVars, chainVars, faults>>

PollReady(r) ==
    /\ At(r, "ready_at")
    /\ IF ReadyAt(r, req[r].context)
       THEN Ends(r, "ok") /\ UNCHANGED req
       ELSE IF req[r].polls + 1 < MaxPolls THEN Polled(r) /\ Goto(r, "poll_ready")
            ELSE Ends(r, "error") /\ UNCHANGED req
    /\ UNCHANGED <<fileVars, opVars, chainVars, faults>>
-----------------------------------------------------------------------------
(* A read of the chain fails: the request ends with the error *)
ReadFails(r) ==
    /\ pc[r] \in {"context", "status", "receipt", "poll_receipt", "poll_ready", "ready_at"}
    /\ Fault("refused")
    /\ Ends(r, "error")
    /\ UNCHANGED <<req, fileVars, opVars, chainVars>>

(* The process dies and is started again: files stay, requests are gone and   *)
(* so is the client's cache; extrinsics in the pool and the chain go on.      *)
Crash ==
    /\ Fault("crash")
    /\ pc' = [r \in Requests |-> IF r \in Active THEN "gone" ELSE pc[r]]
    /\ opCache' = None
    /\ UNCHANGED <<req, fileVars, opNonce, late, ops, preimages, chainVars>>

NoRequest == [package |-> None, code |-> None, context |-> 0, status |-> None,
              correlation |-> None, own |-> None, service |-> None, polls |-> 0]

Init ==
    /\ pc = [r \in Requests |-> "new"]
    /\ req = [r \in Requests |-> NoRequest]
    /\ tmp = [p \in Packages |-> None] /\ final = [p \in Packages |-> None]
    /\ files = [r \in WorkRequests |-> [last |-> None, whole |-> FALSE]]
    /\ writes = [r \in WorkRequests |-> None]
    /\ block = 0 /\ works = <<>> /\ imported = <<>>
    /\ opNonce = 0 /\ opCache = None /\ late = <<>>
    /\ ops = {} /\ receipts = <<>> /\ services = <<>> /\ preimages = {} /\ provided = <<>>
    /\ faults = 0

Gateway ==
    \/ \E r \in WorkRequests \cup StatusRequests, p \in Packages : Admit(r, p, None)
    \/ \E r \in DeployRequests, c \in Codes : Admit(r, None, c)
    \/ \E r \in Requests : Busy(r) \/ ReadFails(r)
    \/ \E r \in WorkRequests :
          \/ BundleExists(r) \/ BundleMissing(r) \/ OpenTemporary(r) \/ WriteTemporary(r)
          \/ Rename(r) \/ SubmitWork(r)
    \/ \E r \in StatusRequests : ReadContext(r) \/ ReadStatus(r) \/ ReadReceipt(r)
    \/ \E r \in DeployRequests :
          \/ SubmitCreateService(r) \/ SubmitCreateServiceFailed(r) \/ SubmitCreateServiceError(r)
          \/ PollReceipt(r) \/ SubmitPreimage(r) \/ PollReadyContext(r) \/ PollReady(r)

Chain ==
    \/ \E p \in Packages : ImportWork(p)
    \/ \E op \in ops : ExecuteOp(op)
    \/ IncludeLate
    \/ \E service \in preimages : ProvidePreimage(service)

Next == Gateway \/ Chain \/ Crash

Spec == Init /\ [][Next]_vars
-----------------------------------------------------------------------------
(* What the formal RPC gateway promises its clients and the workers.          *)

(* "publish the bundle at the committed ContentRef": the gateway serves the   *)
(* bundle of every work it has submitted, from the block of the work on, so   *)
(* that the assigned workers can fetch it (save_bundle_to_dir, get_bundle).   *)
(* Kept with one writer of a package at a time (README, Disagreements).       *)
BundlePublished == \A p \in DOMAIN works : Served(p)

(* A bundle file never holds anything but the whole bundle: a crash between   *)
(* two steps of save_bundle_to_dir leaves a state that a later request for    *)
(* the same package can complete.                                             *)
NoBrokenBundle == \A p \in Packages : final[p] # None => files[final[p]].whole

(* At most MAX_RPC_CONCURRENCY requests are served at once, however they end, *)
(* and a request is refused only when as many are being served.               *)
AdmissionBounded ==
    /\ Cardinality(Active) <= MaxConcurrency
    /\ (\E r \in Requests : pc[r] = "busy") => Cardinality(Requests) > MaxConcurrency

Deployed == {r \in DeployRequests : pc[r] = "ok"}

(* A deployment that is reported as finalized is usable at the block of its   *)
(* context: the service is there with the code that was asked for, and its    *)
(* preimage has been provided.                                                *)
DeploymentReady ==
    \A r \in Deployed :
        LET s == req[r].service
        IN  /\ s \in DOMAIN services /\ s \in DOMAIN provided
            /\ services[s].code = req[r].code
            /\ services[s].at <= req[r].context /\ provided[s] <= req[r].context

(* Two deployments that are reported as created are two services, also when   *)
(* they have the same code, submissions time out or the gateway restarts.     *)
DeploymentsDistinct ==
    \A r1, r2 \in Deployed : r1 # r2 => req[r1].service # req[r2].service

(* "dispatch_outcome is authoritative": a deployment whose operation failed   *)
(* in dispatch is not reported as created. Not kept: create_service does not  *)
(* look at it (README, Disagreements).                                        *)
DispatchOutcomeAuthoritative == \A r \in Deployed : req[r].own # None

(* A terminal Work result is consumed alongside finalized Service state: a    *)
(* work reported Imported is imported in the block of the reported context.   *)
(* Not kept: these are two requests (README, Disagreements).                  *)
StatusAtContext ==
    \A r \in StatusRequests :
        pc[r] = "ok" /\ req[r].status = "Imported" => imported[req[r].package] <= req[r].context
-----------------------------------------------------------------------------
(* Requests are served; the chain owes nothing *)
FairSpec == Spec /\ WF_vars(Gateway)

(* Every request is answered, whatever becomes of its operation: no poll goes *)
(* on for ever.                                                               *)
RequestsEnd == \A r \in Requests : r \in Active ~> r \notin Active
=============================================================================
