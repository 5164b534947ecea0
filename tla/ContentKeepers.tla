--------------------------- MODULE ContentKeepers ---------------------------
(* The components that keep contents, side by side: the overlay database of   *)
(* an execution, the host that it calls, the check of a work bundle and the   *)
(* bulletin simulator. They share no state. MCChain checks them with small    *)
(* values of the constants, ContentProofs proves the properties for all.      *)

CONSTANTS
    None, MaxFaults,
    Threads, StateKeys, OtherKeys, Values, MaxHead, MaxBatch, MaxCalls,     \* StateOverlay
    AddressSpace, Readable, Writable, Pointers, Lengths, HashLen, MaxSteps, HostNone, \* HostCalls
    Workers, Packages, Data, Sizes, MaxBundleBytes,                         \* WorkBundle
    Callers, Accounts, Contents, Size, Transactions, GrantBytes, MaxGrants, \* Bulletin
    Retention, MaxBlock

VARIABLES
    head, writes, deletes, call, answer, settled, callsLeft, faultsLeft,    \* StateOverlay
    memory, a0, storage, yielded, log, status, buffer, steps,               \* HostCalls
    task, outcome, held, intact,                                            \* WorkBundle
    block, nextIndex, authorizations, entries, locations, faults, blobs,    \* Bulletin
    writing, receipts, failed, storeFaults, grantsLeft

Overlay == INSTANCE StateOverlay
Host == INSTANCE HostCalls
Bundle == INSTANCE WorkBundle
Store == INSTANCE Bulletin WITH Bytes <- GrantBytes, faultsLeft <- storeFaults
-----------------------------------------------------------------------------
(* The two maps of the overlay database show the last write of every key, and *)
(* get answers the value of a key that nobody writes meanwhile.               *)
OverlayExact == Overlay!OverlayExact /\ Overlay!GetExact

(* A host call that traps leaves the host as it was, one that does not writes *)
(* to the writable part of its buffer and nowhere else, and a key that the    *)
(* guest has written is absent or has a value.                                *)
HostCallsContained ==
    /\ [][Host!HostCallsContained]_(Host!vars)
    /\ []Host!NoEmptyValue

(* Workers that accept a bundle refine the same bytes, and accept what the    *)
(* formal RPC builds and the pallet admits.                                   *)
BundlesAgree == Bundle!BundlesAgree

(* A receipt of store or renew is good until its retention ends, a content    *)
(* has one writer at a time, and every entry is filed where its receipt says. *)
ReceiptsGood == Store!ReceiptsGood
=============================================================================
