----------------------------- MODULE WorkBundle -----------------------------
(* The way of a work bundle: build_work_package makes it with the reference   *)
(* that commits to it, submit_work admits the reference, a gateway delivers   *)
(* some bytes for it, and every worker verifies them by itself.               *)
(*                                                                            *)
(* Bytes are a record of what decoding finds in them. Equal hashes mean equal *)
(* bytes: the hash of a value is the value.                                   *)
EXTENDS StorageMap

CONSTANTS
    Workers,
    Packages,               \* canonical work packages
    Data,                   \* external_data of a bundle
    Sizes,                  \* of bundles
    MaxBundleBytes,         \* of the pallet and of the workers alike
    None

Version == 1
Bytes ==
    [encoding : BOOLEAN, trailing : BOOLEAN, version : {Version, Version + 1},
     package : Packages, hash : Packages, data : Data, size : Sizes]

(* What the constants are assumed to be *)
Assumption ==
    Sizes \subseteq Nat /\ MaxBundleBytes \in Nat /\ None \notin Bytes /\ None # "ok"

VARIABLES
    task,                   \* None, or the admitted work: its package and bundle_ref
    outcome,                \* worker |-> None or how its last attempt ended
    held,                   \* worker |-> None or the bytes it accepted then
    intact                  \* workers that got the bytes the reference commits to

vars == <<task, outcome, held, intact>>

(* A submitter may refer to anything *)
References == [cid : {"cid", ""}, hash : Bytes, size : Sizes \cup 0..(MaxBundleBytes + 1)]

(* build_work_package *)
BundleOf(package, data, size) ==
    [encoding |-> TRUE, trailing |-> FALSE, version |-> Version, package |-> package,
     hash |-> package, data |-> data, size |-> size]

(* content_ref *)
ContentRef(bytes) == [cid |-> "cid", hash |-> bytes, size |-> bytes.size]

Init ==
    /\ task = None
    /\ outcome = [w \in Workers |-> None]
    /\ held = [w \in Workers |-> None]
    /\ intact = {}

(* validate_content_ref of submit_work *)
ValidateContentRef(ref) == ref.cid # "" /\ ref.size > 0 /\ ref.size <= MaxBundleBytes

Submit(package, ref, built) ==
    /\ task = None
    /\ ValidateContentRef(ref)
    /\ task' = [package |-> package, ref |-> ref, built |-> built]
    /\ UNCHANGED <<outcome, held, intact>>

(* submit_work of the Formal RPC *)
SubmitBuilt(package, data, size) ==
    Submit(package, ContentRef(BundleOf(package, data, size)), TRUE)
-----------------------------------------------------------------------------
(* Faulty HashMatches: the size is enough *)
HashMatchesAny(ref, bytes) == TRUE

HashMatches(ref, bytes) == bytes = ref.hash

(* Faulty SizeAllowed: a bundle of the largest size is refused *)
SizeAllowedBelow(ref) == ref.size < MaxBundleBytes

SizeAllowed(ref) == ref.size <= MaxBundleBytes

(* verify_content_ref; the first check that fails is the error *)
VerifyContentRef(ref, bytes) ==
    IF ref.cid = "" THEN "EmptyCid"
    ELSE IF ~SizeAllowed(ref) THEN "SizeLimitExceeded"
    ELSE IF bytes.size # ref.size THEN "SizeMismatch"
    ELSE IF ~HashMatches(ref, bytes) THEN "HashMismatch" ELSE "ok"

(* MiniJamWorkBundleDecoder::decode *)
DecodeBundle(bytes) ==
    IF ~bytes.encoding THEN "InvalidEncoding"
    ELSE IF bytes.trailing THEN "TrailingBytes"
    ELSE IF bytes.version # Version THEN "UnsupportedVersion"
    ELSE IF bytes.hash # bytes.package THEN "PackageHashMismatch" ELSE "ok"

(* The package hash of the bundle is that of the work *)
Expected(bytes, package) == bytes.hash = package

(* verify_work_bundle *)
VerifyWorkBundle(ref, bytes, package) ==
    IF VerifyContentRef(ref, bytes) # "ok" THEN VerifyContentRef(ref, bytes)
    ELSE IF DecodeBundle(bytes) # "ok" THEN DecodeBundle(bytes)
    ELSE IF ~Expected(bytes, package) THEN "PackageHashMismatch" ELSE "ok"

(* prepare_bundle: fetch_verified_content, then verify_work_bundle. A gateway *)
(* may have the bytes, lack them, or answer with others.                      *)
PrepareBundle(w, bytes) ==
    LET result == IF bytes = None THEN "NotFound"
                  ELSE VerifyWorkBundle(task.ref, bytes, task.package)
    IN  /\ task # None
        /\ outcome' = [outcome EXCEPT ![w] = result]
        /\ held' = [held EXCEPT ![w] = IF result = "ok" THEN bytes ELSE None]
        /\ intact' = IF bytes = task.ref.hash THEN intact \cup {w} ELSE intact \ {w}
        /\ UNCHANGED task

Next ==
    \/ \E package \in Packages, data \in Data, size \in Sizes : SubmitBuilt(package, data, size)
    \/ task = None /\ \E package \in Packages, ref \in References : Submit(package, ref, FALSE)
    \/ \E w \in Workers, bytes \in Bytes \cup {None} : PrepareBundle(w, bytes)

Spec == Init /\ [][Next]_vars
-----------------------------------------------------------------------------
(* Workers that accept a bundle for a work refine the same bytes, and these   *)
(* hold the package that is on the chain, whoever submitted the reference and *)
(* whatever their gateways deliver. Otherwise honest workers would oppose     *)
(* each other.                                                                *)
AcceptedAgree ==
    \A w, v \in Workers :
        outcome[w] = "ok" =>
            /\ held[w].package = task.package
            /\ outcome[v] = "ok" => held[v] = held[w]

(* What the Formal RPC builds and the pallet admits is accepted by every      *)
(* worker that gets the bytes unchanged, up to the largest size.              *)
BuiltAccepted ==
    \A w \in intact : task.built => outcome[w] = "ok"

(* Both: prepare_bundle accepts exactly what keeps the workers of a work      *)
(* together.                                                                  *)
BundlesAgree == AcceptedAgree /\ BuiltAccepted
=============================================================================
