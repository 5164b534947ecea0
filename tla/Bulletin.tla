------------------------------ MODULE Bulletin ------------------------------
(* minijam-bulletin-simulator: a content store that answers a receipt for a   *)
(* content, keeps it until the receipt's retention ends and lets it be        *)
(* renewed. The state is in memory, behind a mutex; the contents are files.   *)
(* A store call writes its file after it has let go of the mutex, so two      *)
(* calls interleave there.                                                    *)
EXTENDS StorageMap, Integers

CONSTANTS
    Callers,                \* concurrent calls of store_with_cid_config
    Accounts, Contents,
    Size,                   \* bytes of a content
    Transactions, Bytes,    \* what one authorize grants
    MaxGrants,              \* bound on the calls of authorize
    Retention,              \* retention_period
    MaxBlock,               \* bound on block_number
    MaxFaults               \* bound on failing writes, injected faults and restarts

(* What the constants are assumed to be *)
Assumption ==
    {Size, Transactions, Bytes, MaxGrants, Retention, MaxBlock, MaxFaults} \subseteq Nat \ {0}

VARIABLES
    block, nextIndex, authorizations, entries, locations, faults,   \* struct State
    blobs,                  \* contents whose file is complete
    writing,                \* caller -> the receipt it will answer once its file is written
    receipts,               \* receipts answered since the simulator was started
    failed,                 \* contents of which a write failed since then
    faultsLeft, grantsLeft

state == <<block, nextIndex, authorizations, entries, locations, faults>>
vars == <<state, blobs, writing, receipts, failed, faultsLeft, grantsLeft>>

NewState ==
    /\ block' = 0 /\ nextIndex' = 0 /\ authorizations' = <<>>
    /\ entries' = <<>> /\ locations' = <<>> /\ faults' = <<>>

Init ==
    /\ block = 0 /\ nextIndex = 0 /\ authorizations = <<>>
    /\ entries = <<>> /\ locations = <<>> /\ faults = <<>>
    /\ blobs = {} /\ writing = <<>> /\ receipts = {} /\ failed = {}
    /\ faultsLeft = MaxFaults /\ grantsLeft = MaxGrants

(* Time only moves forward: a chain's block number never goes back *)
SetBlockNumber(b) ==
    /\ b \in block..MaxBlock
    /\ block' = b
    /\ UNCHANGED <<nextIndex, authorizations, entries, locations, faults,
                   blobs, writing, receipts, failed, faultsLeft, grantsLeft>>

AdvanceBlocks(n) ==
    /\ n > 0 /\ block + n <= MaxBlock
    /\ block' = block + n
    /\ nextIndex' = 0
    /\ UNCHANGED <<authorizations, entries, locations, faults,
                   blobs, writing, receipts, failed, faultsLeft, grantsLeft>>

Authorize(account, expires) ==
    /\ grantsLeft > 0 /\ grantsLeft' = grantsLeft - 1
    /\ authorizations' = Insert(authorizations, account,
                                [transactions |-> Transactions, bytes |-> Bytes, expires |-> expires])
    /\ UNCHANGED <<block, nextIndex, entries, locations, faults,
                   blobs, writing, receipts, failed, faultsLeft>>

InjectFault(c, fault) ==
    /\ faultsLeft > 0 /\ faultsLeft' = faultsLeft - 1
    /\ faults' = Insert(faults, c, fault)
    /\ UNCHANGED <<block, nextIndex, authorizations, entries, locations,
                   blobs, writing, receipts, failed, grantsLeft>>

ClearFault(c) ==
    /\ c \in DOMAIN faults
    /\ faults' = RemoveAll(faults, {c})
    /\ UNCHANGED <<block, nextIndex, authorizations, entries, locations,
                   blobs, writing, receipts, failed, faultsLeft, grantsLeft>>
-----------------------------------------------------------------------------
(* check_authorization when it succeeds; a call that it refuses changes nothing *)
CheckAuthorization(account, bytes) ==
    /\ account \in DOMAIN authorizations
    /\ block < authorizations[account].expires
    /\ authorizations[account].transactions > 0
    /\ authorizations[account].bytes >= bytes
    /\ authorizations' = [authorizations EXCEPT ![account].transactions = @ - 1,
                                                ![account].bytes = @ - bytes]

Here == <<block, nextIndex>>

Receipt(c) == [content |-> c, location |-> Here, until |-> block + Retention]

(* Faulty NewEntry: entry(..).or_insert, a second store keeps the old receipt *)
FirstEntry(c) == IF c \in DOMAIN entries THEN entries ELSE Insert(entries, c, Receipt(c))

NewEntry(c) == Insert(entries, c, Receipt(c))

(* Faulty ShouldWrite: the content is on disk when its file is there *)
ShouldWriteMissing(c) == c \notin blobs

ShouldWrite(c) == c \notin DOMAIN entries

(* store_with_cid_config up to the end of the locked section *)
Store(p, account, c) ==
    /\ p \notin DOMAIN writing
    /\ CheckAuthorization(account, Size)
    /\ nextIndex' = nextIndex + 1
    /\ locations' = Insert(locations, Here, c)
    /\ entries' = NewEntry(c)
    /\ IF ShouldWrite(c)
         THEN writing' = Insert(writing, p, Receipt(c)) /\ UNCHANGED receipts
         ELSE receipts' = receipts \cup {Receipt(c)} /\ UNCHANGED writing
    /\ UNCHANGED <<block, faults, blobs, failed, faultsLeft, grantsLeft>>

(* write_blob_atomic, then the answer: the temporary file is renamed into     *)
(* place, so the content's file appears at once or not at all                 *)
WriteBlob(p) ==
    /\ p \in DOMAIN writing
    /\ blobs' = blobs \cup {writing[p].content}
    /\ receipts' = receipts \cup {writing[p]}
    /\ writing' = RemoveAll(writing, {p})
    /\ UNCHANGED <<state, failed, faultsLeft, grantsLeft>>

(* ... or an I/O error, which takes the entry back. The quota stays spent. *)
WriteFails(p) ==
    /\ p \in DOMAIN writing
    /\ writing[p].content \notin blobs
    /\ faultsLeft > 0 /\ faultsLeft' = faultsLeft - 1
    /\ entries' = RemoveAll(entries, {writing[p].content})
    /\ locations' = RemoveAll(locations, {writing[p].location})
    /\ failed' = failed \cup {writing[p].content}
    /\ writing' = RemoveAll(writing, {p})
    /\ UNCHANGED <<block, nextIndex, authorizations, faults, blobs, receipts, grantsLeft>>

(* Faulty RenewLocations: the renewed content is not filed at its new location *)
RenewInPlace(c) == locations

RenewLocations(c) == Insert(locations, Here, c)

(* renew: locate_hash has found the content. The quota is spent, and an index *)
(* when the content was found, even where it has no entry.                    *)
Renew(account, c) ==
    /\ CheckAuthorization(account, 0)
    /\ nextIndex' = nextIndex + 1
    /\ IF c \in DOMAIN entries
         THEN /\ entries' = Insert(entries, c, Receipt(c))
              /\ locations' = RenewLocations(c)
              /\ receipts' = receipts \cup {Receipt(c)}
         ELSE UNCHANGED <<entries, locations, receipts>>
    /\ UNCHANGED <<block, faults, blobs, writing, failed, faultsLeft, grantsLeft>>

(* renew by a location that is not known: only the quota changes *)
RenewUnlocated(account) ==
    /\ CheckAuthorization(account, 0)
    /\ UNCHANGED <<block, nextIndex, entries, locations, faults,
                   blobs, writing, receipts, failed, faultsLeft, grantsLeft>>

(* A new simulator over the same directory: only the files survive *)
Restart ==
    /\ faultsLeft > 0 /\ faultsLeft' = faultsLeft - 1
    /\ NewState
    /\ writing' = <<>> /\ receipts' = {} /\ failed' = {}
    /\ UNCHANGED <<blobs, grantsLeft>>

Next ==
    \/ \E b \in 0..MaxBlock : SetBlockNumber(b)
    \/ \E n \in 0..MaxBlock : AdvanceBlocks(n)
    \/ \E a \in Accounts, e \in 1..MaxBlock : Authorize(a, e)
    \/ \E c \in Contents, f \in {"Missing", "Corrupt", "Timeout"} : InjectFault(c, f)
    \/ \E c \in Contents : ClearFault(c)
    \/ \E p \in Callers, a \in Accounts, c \in Contents : Store(p, a, c)
    \/ \E p \in Callers : WriteBlob(p) \/ WriteFails(p)
    \/ \E a \in Accounts, c \in Contents : Renew(a, c)
    \/ \E a \in Accounts, l \in DOMAIN locations : Renew(a, locations[l])
    \/ \E a \in Accounts : RenewUnlocated(a)
    \/ Restart

Spec == Init /\ [][Next]_vars
-----------------------------------------------------------------------------
(* fetch: what it answers *)
Fetch(c) ==
    IF c \in DOMAIN faults THEN faults[c]
    ELSE IF c \notin DOMAIN entries THEN "Missing"
    ELSE IF block >= entries[c].until THEN "Expired"
    ELSE IF c \notin blobs THEN "Missing"
    ELSE "Ok"

(* status: a content that is being written counts as available *)
Status(c) ==
    IF c \in DOMAIN faults /\ faults[c] = "Missing" THEN "Missing"
    ELSE IF c \notin DOMAIN entries THEN "Missing"
    ELSE IF block >= entries[c].until THEN "Expired"
    ELSE "Available"

Written(c) == c \notin failed /\ \A p \in DOMAIN writing : writing[p].content # c

(* A receipt that store or renew has answered is good until its retention     *)
(* ends, whatever was stored or renewed since: fetch answers the content, and *)
(* status that it is available, unless a fault is injected or a write of that *)
(* very content is under way or has failed.                                   *)
ReceiptGood ==
    \A r \in receipts :
        block < r.until /\ Written(r.content) /\ r.content \notin DOMAIN faults
            => Fetch(r.content) = "Ok" /\ Status(r.content) = "Available"

(* What a caller may expect after store has answered, with no condition on    *)
(* what other calls are doing. Not kept while another caller writes the       *)
(* content (README, Disagreements).                                           *)
StoredIsFetched ==
    \A r \in receipts :
        block < r.until /\ r.content \notin DOMAIN faults => Fetch(r.content) = "Ok"

(* A content is written by one caller at a time, though the mutex is not held *)
(* while the file is written: two writers would share one temporary file.     *)
OneWriter ==
    \A p, q \in DOMAIN writing : p # q => writing[p].content # writing[q].content

(* The location a receipt names leads renew back to its content: every entry  *)
(* is filed where its receipt says, through renewals and failed writes.       *)
EntriesLocated ==
    \A c \in DOMAIN entries :
        entries[c].location \in DOMAIN locations /\ locations[entries[c].location] = c

(* What the callers of store and renew rely on, together *)
ReceiptsGood == ReceiptGood /\ OneWriter /\ EntriesLocated
=============================================================================
