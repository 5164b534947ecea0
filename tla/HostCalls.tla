----------------------------- MODULE HostCalls ------------------------------
(* minijam-pvm-executor: a guest program runs on the PVM and calls the host   *)
(* of a workload through HostBridge::ecalli. Registers are wider than         *)
(* addresses: a pointer is cut to the address width, a length is not.         *)
EXTENDS StorageMap

CONSTANTS
    AddressSpace,           \* 2^32
    Readable, Writable,     \* addresses of the pages the guest may read, may write
    Pointers, Lengths,      \* register values that the guest passes
    HashLen,                \* 32: what yield takes and network_domain gives
    MaxSteps,               \* bound on host calls and stores of the guest
    HostNone                \* HOST_NONE

(* What the constants are assumed to be *)
Assumption ==
    /\ Writable \subseteq Readable /\ Readable \subseteq 0..(AddressSpace - 1)
    /\ Pointers \cup Lengths \subseteq Nat /\ {AddressSpace, HashLen} \subseteq Nat \ {0}

VARIABLES
    memory,                 \* address |-> byte, of the guest
    a0,                     \* result register
    storage, yielded, log,  \* the workload's Host
    status,                 \* running, or how execute ended
    buffer,                 \* addresses the last host call was given to write to
    steps

host == <<storage, yielded, log>>
vars == <<memory, a0, host, status, buffer, steps>>

Bytes == {0, 1}

(* What Host::fetch serves in the modes it knows *)
Items == {<<>>, <<1, 0>>}

(* Host::network_domain *)
Domain == [i \in 1..HashLen |-> 1]

Address(register) == register % AddressSpace
Range(ptr, n) == ptr..(ptr + n - 1)
ReadBytes(ptr, n) == [i \in 1..n |-> memory[ptr + i - 1]]
MayRead(ptr, n) == Range(ptr, n) \subseteq Readable
MayWrite(ptr, n) == Range(ptr, n) \subseteq Writable
Put(mem, ptr, bytes) ==
    [a \in DOMAIN mem |->
        IF a \in Range(ptr, Len(bytes)) THEN bytes[a - ptr + 1] ELSE mem[a]]

Init ==
    /\ memory \in [Readable -> Bytes]
    /\ a0 = 0
    /\ storage = <<>> /\ yielded = <<>> /\ log = <<>>
    /\ status = "running" /\ buffer = {} /\ steps = 0

Step == status = "running" /\ steps < MaxSteps /\ steps' = steps + 1

Returns(result) == a0' = result /\ status' = "running"

(* The host call ends in VmError::Panic, and execute in Error::Panic *)
Traps == status' = "Panic" /\ UNCHANGED <<a0, host>>
-----------------------------------------------------------------------------
(* One disjunct per MiniJamHostCall *)

Gas(gas) ==
    /\ Step
    /\ Returns(IF gas < 0 THEN 0 ELSE gas)
    /\ buffer' = {}
    /\ UNCHANGED <<memory, host>>

(* Faulty Copied: as long as the value is *)
CopiedWhole(bytes, capacity) == bytes

(* remaining[..copy_len] *)
Copied(bytes, capacity) ==
    IF Len(bytes) <= capacity THEN bytes ELSE SubSeq(bytes, 1, capacity)

(* A value for the guest: it is cut to the capacity, its full length returned *)
Delivers(ptr, capacity, bytes, full) ==
    /\ buffer' = Range(ptr, capacity)
    /\ IF MayWrite(ptr, Len(Copied(bytes, capacity)))
       THEN /\ memory' = Put(memory, ptr, Copied(bytes, capacity))
            /\ Returns(full)
            /\ UNCHANGED host
       ELSE Traps /\ UNCHANGED memory

Absent ==
    /\ Returns(HostNone)
    /\ buffer' = {}
    /\ UNCHANGED <<memory, host>>

Fetch(r7, offset, capacity) ==
    /\ Step
    /\ \/ Absent
       \/ \E item \in Items :
             Delivers(Address(r7), capacity, SubSeq(item, offset + 1, Len(item)), Len(item))

Read(r8, keyLen, r10, capacity) ==
    LET key == ReadBytes(Address(r8), keyLen)
    IN  /\ Step
        /\ IF ~MayRead(Address(r8), keyLen)
           THEN Traps /\ buffer' = {} /\ UNCHANGED memory
           ELSE IF key \notin DOMAIN storage THEN Absent
           ELSE Delivers(Address(r10), capacity, storage[key], Len(storage[key]))

(* Faulty Store: the empty value is stored *)
StoreEmpty(key, value) == Insert(storage, key, value)

(* An empty value deletes the key *)
Store(key, value) == IF value = <<>> THEN RemoveAll(storage, {key}) ELSE Insert(storage, key, value)

(* Faulty Write: the key is dropped before the value is read *)
WriteDropsFirst(r7, keyLen, r9, valueLen) ==
    LET key == ReadBytes(Address(r7), keyLen)
        value == ReadBytes(Address(r9), valueLen)
    IN  /\ Step
        /\ buffer' = {}
        /\ IF MayRead(Address(r7), keyLen) /\ MayRead(Address(r9), valueLen)
           THEN Returns(0) /\ storage' = Store(key, value) /\ UNCHANGED <<yielded, log>>
           ELSE /\ status' = "Panic"
                /\ storage' = IF MayRead(Address(r7), keyLen) THEN RemoveAll(storage, {key})
                              ELSE storage
                /\ UNCHANGED <<a0, yielded, log>>
        /\ UNCHANGED memory

Write(r7, keyLen, r9, valueLen) ==
    LET key == ReadBytes(Address(r7), keyLen)
        value == ReadBytes(Address(r9), valueLen)
    IN  /\ Step
        /\ buffer' = {}
        /\ IF MayRead(Address(r7), keyLen) /\ MayRead(Address(r9), valueLen)
           THEN Returns(0) /\ storage' = Store(key, value) /\ UNCHANGED <<yielded, log>>
           ELSE Traps
        /\ UNCHANGED memory

Yield(r7) ==
    /\ Step
    /\ buffer' = {}
    /\ IF MayRead(Address(r7), HashLen)
       THEN /\ Returns(0)
            /\ yielded' = ReadBytes(Address(r7), HashLen)
            /\ UNCHANGED <<storage, log>>
       ELSE Traps
    /\ UNCHANGED memory

(* The domain is written first, then its size: the guest may be left with one *)
(* of the two when the other traps. The size is a single byte here.           *)
NetworkDomain(r7, capacity, r9) ==
    LET written == Put(memory, Address(r7), Domain)
    IN  /\ Step
        /\ buffer' = Range(Address(r7), capacity) \cup {Address(r9)}
        /\ IF capacity < HashLen THEN Returns(1) /\ UNCHANGED <<memory, host>>
           ELSE IF ~MayWrite(Address(r7), HashLen) THEN Traps /\ UNCHANGED memory
           ELSE IF ~MayWrite(Address(r9), 1) THEN Traps /\ memory' = written
           ELSE Returns(0) /\ memory' = Put(written, Address(r9), <<HashLen>>) /\ UNCHANGED host

Log(r7, len) ==
    /\ Step
    /\ buffer' = {}
    /\ IF MayRead(Address(r7), len)
       THEN Returns(0) /\ log' = ReadBytes(Address(r7), len) /\ UNCHANGED <<storage, yielded>>
       ELSE Traps
    /\ UNCHANGED memory

(* New, Transfer, and any id that is no MiniJamHostCall *)
Unsupported ==
    /\ Step
    /\ buffer' = {}
    /\ Traps
    /\ UNCHANGED memory
-----------------------------------------------------------------------------
(* The program itself: it stores to its memory, ends, or runs out of gas.     *)
(* What the host has done by then stays done.                                 *)
Guest ==
    \/ /\ Step
       /\ \E a \in Writable, b \in Bytes : memory' = [memory EXCEPT ![a] = b]
       /\ buffer' = Writable
       /\ UNCHANGED <<a0, host, status>>
    \/ /\ status = "running"
       /\ status' \in {"Ok", "OutOfGas", "Panic"}
       /\ UNCHANGED <<memory, a0, host, buffer, steps>>

Ecalli ==
    \/ \E gas \in {-1, 1} : Gas(gas)
    \/ Unsupported
    \/ \E p \in Pointers :
          \/ Yield(p)
          \/ \E n \in Lengths : Log(p, n)
          \/ \E offset, n \in Lengths : Fetch(p, offset, n)
          \/ \E q \in Pointers, n \in Lengths : NetworkDomain(p, n, q)
          \/ \E q \in Pointers, m, n \in Lengths : Read(p, m, q, n) \/ Write(p, m, q, n)

Next == Ecalli \/ Guest

Spec == Init /\ [][Next]_vars
-----------------------------------------------------------------------------
(* A host call that traps has done nothing to the host: what the workload     *)
(* keeps after an error are the effects of whole calls, never of a part of    *)
(* one.                                                                       *)
TrapsLeaveHost == status' = "Panic" => UNCHANGED host

(* A host call writes only to pages the guest may write, and there only to    *)
(* the buffers that it was given, also when the value is longer than the      *)
(* buffer, starts at an offset past its end, or the call traps half way.      *)
BuffersKept == \A a \in Readable : memory'[a] # memory[a] => a \in buffer' \cap Writable

(* What a step may never do: a call affects the host as a whole or not at     *)
(* all, and the guest's memory in its buffers only.                           *)
HostCallsContained == TrapsLeaveHost /\ BuffersKept

(* The guest cannot tell an empty value from none: a key that was written is  *)
(* either absent or answers read with a length above zero.                    *)
NoEmptyValue == \A key \in DOMAIN storage : storage[key] # <<>>
=============================================================================
