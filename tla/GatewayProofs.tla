---------------------------- MODULE GatewayProofs ---------------------------
(* Proofs about the formal RPC gateway (module FormalRpc): its inductive      *)
(* invariants, one lemma per kind of step, and the theorems at the end.       *)
EXTENDS GatewayProgram, Integers, Sequences, FiniteSets, TLAPS

(* What the proofs use of finite sets: lemma FiniteSetsCount at the end *)
Counting ==
    /\ Cardinality({}) = 0
    /\ \A n \in Nat : Cardinality(1..n) = n
    /\ \A S : IsFiniteSet(S) =>
          /\ Cardinality(S) \in Nat
          /\ \A x : x \notin S => IsFiniteSet(S \cup {x})
                                 /\ Cardinality(S \cup {x}) = Cardinality(S) + 1
          /\ \A T \in SUBSET S : IsFiniteSet(T) /\ Cardinality(T) <= Cardinality(S)
-----------------------------------------------------------------------------
(* The formal RPC gateway (module FormalRpc) *)

(* The local variables of a request *)
IsReq(q) ==
    q = [package |-> q.package, code |-> q.code, context |-> q.context, status |-> q.status,
         correlation |-> q.correlation, own |-> q.own, service |-> q.service, polls |-> q.polls]
IsReqs(q) ==
    /\ q = [r \in Gateway!Requests |-> q[r]]
    /\ \A r \in Gateway!Requests : IsReq(q[r])

GatewayType ==
    /\ rpcPc = [r \in Gateway!Requests |-> rpcPc[r]]
    /\ IsReqs(rpcReq)

Writing(r) == rpcPc[r] \in {"save", "open", "write", "rename", "submit"}

(* The temporary files and the bundles are files of their own *)
FilesApart ==
    /\ \A p, q \in Packages : tmp[p] # None => final[q] # tmp[p] /\ (tmp[q] = tmp[p] => p = q)
    /\ \A r \in WorkRequests : rpcPc[r] \in {"new", "save", "open"} =>
          \A p \in Packages : tmp[p] # r /\ final[p] # r

(* What a request that writes a bundle has done of it *)
WriterInv(r) ==
    LET p == rpcReq[r].package
    IN  /\ Writing(r) => p \in Packages
        /\ rpcPc[r] = "write" => /\ tmp[p] # None /\ writes[r] = tmp[p]
                                 /\ files[tmp[p]].last = r
        /\ rpcPc[r] = "rename" => tmp[p] # None /\ files[tmp[p]].whole
        /\ rpcPc[r] = "submit" => final[p] # None

BundleInv ==
    /\ tmp \in [Packages -> WorkRequests \cup {None}]
    /\ final \in [Packages -> WorkRequests \cup {None}]
    /\ files \in [WorkRequests -> [last : WorkRequests \cup {None}, whole : BOOLEAN]]
    /\ writes \in [WorkRequests -> WorkRequests \cup {None}]
    /\ FilesApart
    /\ Gateway!NoBrokenBundle
    /\ \A r \in WorkRequests : WriterInv(r)
    /\ \A r, s \in WorkRequests :
          Writing(r) /\ Writing(s) /\ rpcReq[r].package = rpcReq[s].package => r = s
    /\ \A p \in DOMAIN works : p \in Packages /\ final[p] # None

(* A permit for every request that is served, and no more *)
AdmissionInv == Gateway!AdmissionBounded

IsOp(op) == op = Gateway!SystemOp(op.nonce, op.code) /\ op.nonce \in Nat

(* A deployment that has submitted its operation *)
Asked(r) == rpcPc[r] = "poll_receipt" \/ rpcReq[r].service # None

(* The nonces of correlations: each is below the nonce of the next operation, *)
(* on the chain and in the client's cache.                                    *)
NonceInv ==
    /\ opNonce \in Nat
    /\ opCache # None => opCache \in Nat /\ opCache <= opNonce
    /\ \A op \in ops \cup DOMAIN receipts : IsOp(op) /\ op.nonce < opNonce
    /\ ops \cap DOMAIN receipts = {}
    /\ \A r \in DeployRequests : Asked(r) =>
          LET n == rpcReq[r].correlation.nonce
          IN  n \in Nat /\ n < opNonce /\ (opCache # None => n < opCache)
    /\ \A r, s \in DeployRequests :
          Asked(r) /\ Asked(s) /\ rpcReq[r].correlation = rpcReq[s].correlation => r = s

(* A service is created by one operation *)
ReceiptInv ==
    /\ \E n \in Nat : DOMAIN services = 1..n
    /\ \A op \in DOMAIN receipts : receipts[op] # None => receipts[op] \in DOMAIN services
    /\ \A a, b \in DOMAIN receipts : receipts[a] # None /\ receipts[a] = receipts[b] => a = b
    /\ \A r \in DeployRequests : rpcReq[r].service # None =>
          rpcReq[r].correlation \in DOMAIN receipts
          /\ receipts[rpcReq[r].correlation] = rpcReq[r].service

(* A preimage is submitted by the deployment of its service, once *)
PreimageInv ==
    /\ preimages \cap DOMAIN provided = {}
    /\ \A s \in preimages \cup DOMAIN provided :
          s # None /\ \E r \in DeployRequests : rpcReq[r].service = s /\ rpcPc[r] # "preimage"

DeployInv ==
    /\ late \in Seq(Codes)
    /\ NonceInv /\ ReceiptInv /\ PreimageInv
    /\ \A r \in DeployRequests :
          /\ rpcPc[r] \in {"new", "create", "poll_receipt"} => rpcReq[r].service = None
          /\ rpcPc[r] = "create" => rpcReq[r].code \in Codes
          /\ rpcPc[r] \in {"preimage", "poll_ready", "ready_at", "ok"} => rpcReq[r].service # None
    /\ Gateway!DeploymentReady


(* Requests n are requests q but for request r *)
OthersKept(n, q, r) == \A x \in Gateway!Requests : x # r => n[x] = q[x]

(* A request gets a package. *)
WithPackage(q, r, v) == [q EXCEPT ![r].package = v]

(* Its other variables and the other requests stay as they are. *)
LEMMA SetPackage ==
    ASSUME NEW q, IsReqs(q), NEW r \in Gateway!Requests, NEW v, NEW n, n = WithPackage(q, r, v)
    PROVE  /\ IsReqs(n) /\ OthersKept(n, q, r) /\ n[r].package = v
           /\ n[r].code = q[r].code /\ n[r].context = q[r].context
           /\ n[r].status = q[r].status /\ n[r].correlation = q[r].correlation
           /\ n[r].own = q[r].own /\ n[r].service = q[r].service
           /\ n[r].polls = q[r].polls
<1>1. IsReq(q[r]) /\ n[r] = [q[r] EXCEPT !.package = v]
  BY DEF IsReqs, WithPackage
<1>2. n[r] = [package |-> v, code |-> q[r].code, context |-> q[r].context, status |-> q[r].status,
              correlation |-> q[r].correlation, own |-> q[r].own, service |-> q[r].service, polls |-> q[r].polls]
  BY <1>1 DEF IsReq
<1>3. OthersKept(n, q, r) /\ n = [x \in Gateway!Requests |-> n[x]]
  BY DEF IsReqs, OthersKept, WithPackage
<1>4. IsReq(n[r])
  BY <1>2 DEF IsReq
<1> QED BY <1>2, <1>3, <1>4 DEF IsReqs, OthersKept

(* A request gets a code. *)
WithCode(q, r, v) == [q EXCEPT ![r].code = v]

(* Its other variables and the other requests stay as they are. *)
LEMMA SetCode ==
    ASSUME NEW q, IsReqs(q), NEW r \in Gateway!Requests, NEW v, NEW n, n = WithCode(q, r, v)
    PROVE  /\ IsReqs(n) /\ OthersKept(n, q, r) /\ n[r].code = v
           /\ n[r].package = q[r].package /\ n[r].context = q[r].context
           /\ n[r].status = q[r].status /\ n[r].correlation = q[r].correlation
           /\ n[r].own = q[r].own /\ n[r].service = q[r].service
           /\ n[r].polls = q[r].polls
<1>1. IsReq(q[r]) /\ n[r] = [q[r] EXCEPT !.code = v]
  BY DEF IsReqs, WithCode
<1>2. n[r] = [package |-> q[r].package, code |-> v, context |-> q[r].context, status |-> q[r].status,
              correlation |-> q[r].correlation, own |-> q[r].own, service |-> q[r].service, polls |-> q[r].polls]
  BY <1>1 DEF IsReq
<1>3. OthersKept(n, q, r) /\ n = [x \in Gateway!Requests |-> n[x]]
  BY DEF IsReqs, OthersKept, WithCode
<1>4. IsReq(n[r])
  BY <1>2 DEF IsReq
<1> QED BY <1>2, <1>3, <1>4 DEF IsReqs, OthersKept

(* A request gets a context. *)
WithContext(q, r, v) == [q EXCEPT ![r].context = v]

(* Its other variables and the other requests stay as they are. *)
LEMMA SetContext ==
    ASSUME NEW q, IsReqs(q), NEW r \in Gateway!Requests, NEW v, NEW n, n = WithContext(q, r, v)
    PROVE  /\ IsReqs(n) /\ OthersKept(n, q, r) /\ n[r].context = v
           /\ n[r].package = q[r].package /\ n[r].code = q[r].code
           /\ n[r].status = q[r].status /\ n[r].correlation = q[r].correlation
           /\ n[r].own = q[r].own /\ n[r].service = q[r].service
           /\ n[r].polls = q[r].polls
<1>1. IsReq(q[r]) /\ n[r] = [q[r] EXCEPT !.context = v]
  BY DEF IsReqs, WithContext
<1>2. n[r] = [package |-> q[r].package, code |-> q[r].code, context |-> v, status |-> q[r].status,
              correlation |-> q[r].correlation, own |-> q[r].own, service |-> q[r].service, polls |-> q[r].polls]
  BY <1>1 DEF IsReq
<1>3. OthersKept(n, q, r) /\ n = [x \in Gateway!Requests |-> n[x]]
  BY DEF IsReqs, OthersKept, WithContext
<1>4. IsReq(n[r])
  BY <1>2 DEF IsReq
<1> QED BY <1>2, <1>3, <1>4 DEF IsReqs, OthersKept

(* A request gets a status. *)
WithStatus(q, r, v) == [q EXCEPT ![r].status = v]

(* Its other variables and the other requests stay as they are. *)
LEMMA SetStatus ==
    ASSUME NEW q, IsReqs(q), NEW r \in Gateway!Requests, NEW v, NEW n, n = WithStatus(q, r, v)
    PROVE  /\ IsReqs(n) /\ OthersKept(n, q, r) /\ n[r].status = v
           /\ n[r].package = q[r].package /\ n[r].code = q[r].code
           /\ n[r].context = q[r].context /\ n[r].correlation = q[r].correlation
           /\ n[r].own = q[r].own /\ n[r].service = q[r].service
           /\ n[r].polls = q[r].polls
<1>1. IsReq(q[r]) /\ n[r] = [q[r] EXCEPT !.status = v]
  BY DEF IsReqs, WithStatus
<1>2. n[r] = [package |-> q[r].package, code |-> q[r].code, context |-> q[r].context, status |-> v,
              correlation |-> q[r].correlation, own |-> q[r].own, service |-> q[r].service, polls |-> q[r].polls]
  BY <1>1 DEF IsReq
<1>3. OthersKept(n, q, r) /\ n = [x \in Gateway!Requests |-> n[x]]
  BY DEF IsReqs, OthersKept, WithStatus
<1>4. IsReq(n[r])
  BY <1>2 DEF IsReq
<1> QED BY <1>2, <1>3, <1>4 DEF IsReqs, OthersKept

(* A request gets a correlation. *)
WithCorrelation(q, r, v) == [q EXCEPT ![r].correlation = v]

(* Its other variables and the other requests stay as they are. *)
LEMMA SetCorrelation ==
    ASSUME NEW q, IsReqs(q), NEW r \in Gateway!Requests, NEW v, NEW n, n = WithCorrelation(q, r, v)
    PROVE  /\ IsReqs(n) /\ OthersKept(n, q, r) /\ n[r].correlation = v
           /\ n[r].package = q[r].package /\ n[r].code = q[r].code
           /\ n[r].context = q[r].context /\ n[r].status = q[r].status
           /\ n[r].own = q[r].own /\ n[r].service = q[r].service
           /\ n[r].polls = q[r].polls
<1>1. IsReq(q[r]) /\ n[r] = [q[r] EXCEPT !.correlation = v]
  BY DEF IsReqs, WithCorrelation
<1>2. n[r] = [package |-> q[r].package, code |-> q[r].code, context |-> q[r].context, status |-> q[r].status,
              correlation |-> v, own |-> q[r].own, service |-> q[r].service, polls |-> q[r].polls]
  BY <1>1 DEF IsReq
<1>3. OthersKept(n, q, r) /\ n = [x \in Gateway!Requests |-> n[x]]
  BY DEF IsReqs, OthersKept, WithCorrelation
<1>4. IsReq(n[r])
  BY <1>2 DEF IsReq
<1> QED BY <1>2, <1>3, <1>4 DEF IsReqs, OthersKept

(* A request gets an operation. *)
WithOwn(q, r, v) == [q EXCEPT ![r].own = v]

(* Its other variables and the other requests stay as they are. *)
LEMMA SetOwn ==
    ASSUME NEW q, IsReqs(q), NEW r \in Gateway!Requests, NEW v, NEW n, n = WithOwn(q, r, v)
    PROVE  /\ IsReqs(n) /\ OthersKept(n, q, r) /\ n[r].own = v
           /\ n[r].package = q[r].package /\ n[r].code = q[r].code
           /\ n[r].context = q[r].context /\ n[r].status = q[r].status
           /\ n[r].correlation = q[r].correlation /\ n[r].service = q[r].service
           /\ n[r].polls = q[r].polls
<1>1. IsReq(q[r]) /\ n[r] = [q[r] EXCEPT !.own = v]
  BY DEF IsReqs, WithOwn
<1>2. n[r] = [package |-> q[r].package, code |-> q[r].code, context |-> q[r].context, status |-> q[r].status,
              correlation |-> q[r].correlation, own |-> v, service |-> q[r].service, polls |-> q[r].polls]
  BY <1>1 DEF IsReq
<1>3. OthersKept(n, q, r) /\ n = [x \in Gateway!Requests |-> n[x]]
  BY DEF IsReqs, OthersKept, WithOwn
<1>4. IsReq(n[r])
  BY <1>2 DEF IsReq
<1> QED BY <1>2, <1>3, <1>4 DEF IsReqs, OthersKept

(* A request gets a service. *)
WithService(q, r, v) == [q EXCEPT ![r].service = v]

(* Its other variables and the other requests stay as they are. *)
LEMMA SetService ==
    ASSUME NEW q, IsReqs(q), NEW r \in Gateway!Requests, NEW v, NEW n, n = WithService(q, r, v)
    PROVE  /\ IsReqs(n) /\ OthersKept(n, q, r) /\ n[r].service = v
           /\ n[r].package = q[r].package /\ n[r].code = q[r].code
           /\ n[r].context = q[r].context /\ n[r].status = q[r].status
           /\ n[r].correlation = q[r].correlation /\ n[r].own = q[r].own
           /\ n[r].polls = q[r].polls
<1>1. IsReq(q[r]) /\ n[r] = [q[r] EXCEPT !.service = v]
  BY DEF IsReqs, WithService
<1>2. n[r] = [package |-> q[r].package, code |-> q[r].code, context |-> q[r].context, status |-> q[r].status,
              correlation |-> q[r].correlation, own |-> q[r].own, service |-> v, polls |-> q[r].polls]
  BY <1>1 DEF IsReq
<1>3. OthersKept(n, q, r) /\ n = [x \in Gateway!Requests |-> n[x]]
  BY DEF IsReqs, OthersKept, WithService
<1>4. IsReq(n[r])
  BY <1>2 DEF IsReq
<1> QED BY <1>2, <1>3, <1>4 DEF IsReqs, OthersKept

(* A request gets a number of polls. *)
WithPolls(q, r, v) == [q EXCEPT ![r].polls = v]

(* Its other variables and the other requests stay as they are. *)
LEMMA SetPolls ==
    ASSUME NEW q, IsReqs(q), NEW r \in Gateway!Requests, NEW v, NEW n, n = WithPolls(q, r, v)
    PROVE  /\ IsReqs(n) /\ OthersKept(n, q, r) /\ n[r].polls = v
           /\ n[r].package = q[r].package /\ n[r].code = q[r].code
           /\ n[r].context = q[r].context /\ n[r].status = q[r].status
           /\ n[r].correlation = q[r].correlation /\ n[r].own = q[r].own
           /\ n[r].service = q[r].service
<1>1. IsReq(q[r]) /\ n[r] = [q[r] EXCEPT !.polls = v]
  BY DEF IsReqs, WithPolls
<1>2. n[r] = [package |-> q[r].package, code |-> q[r].code, context |-> q[r].context, status |-> q[r].status,
              correlation |-> q[r].correlation, own |-> q[r].own, service |-> q[r].service, polls |-> v]
  BY <1>1 DEF IsReq
<1>3. OthersKept(n, q, r) /\ n = [x \in Gateway!Requests |-> n[x]]
  BY DEF IsReqs, OthersKept, WithPolls
<1>4. IsReq(n[r])
  BY <1>2 DEF IsReq
<1> QED BY <1>2, <1>3, <1>4 DEF IsReqs, OthersKept
-----------------------------------------------------------------------------
(* The bundle directory *)

Over == {"ok", "error", "busy", "gone"}

(* Requests that end, and what the others do, leave the bundles as they are. *)
LEMMA BundleQuiet ==
    ASSUME BundleInv, UNCHANGED <<tmp, final, files, writes, works>>,
           \A w \in WorkRequests :
               \/ rpcPc'[w] = rpcPc[w] /\ rpcReq'[w].package = rpcReq[w].package
               \/ rpcPc'[w] \in Over
    PROVE  BundleInv'
<1>1. \A w \in WorkRequests : Writing(w)' =>
         rpcPc'[w] = rpcPc[w] /\ rpcReq'[w].package = rpcReq[w].package /\ Writing(w)
  BY DEF Writing, Over
<1>2. ASSUME NEW w \in WorkRequests PROVE WriterInv(w)'
  <2>1. CASE Writing(w)'
    <3>1. rpcPc'[w] = rpcPc[w] /\ rpcReq'[w].package = rpcReq[w].package /\ WriterInv(w)
      BY <1>1, <2>1 DEF BundleInv
    <3> QED BY <3>1 DEF WriterInv, Writing
  <2>2. CASE ~Writing(w)'
    BY <2>2 DEF WriterInv, Writing
  <2> QED BY Zenon, <2>1, <2>2
<1>3. FilesApart'
  <2>1. \A r \in WorkRequests : rpcPc'[r] \in {"new", "save", "open"} => rpcPc'[r] = rpcPc[r]
    BY DEF Over
  <2> QED BY <2>1 DEF FilesApart, BundleInv
<1>4. \A r, s \in WorkRequests :
          Writing(r)' /\ Writing(s)' /\ rpcReq'[r].package = rpcReq'[s].package => r = s
  BY <1>1 DEF BundleInv
<1>5. Gateway!NoBrokenBundle'
  BY DEF BundleInv, Gateway!NoBrokenBundle
<1> QED BY <1>2, <1>3, <1>4, <1>5 DEF BundleInv

(* Request r takes a step of save_bundle_to_dir, and no other does. *)
WorkMoves(r, step) ==
    /\ rpcPc'[r] = step
    /\ \A w \in WorkRequests : w # r => rpcPc'[w] = rpcPc[w]
    /\ \A w \in WorkRequests : rpcReq'[w].package = rpcReq[w].package

(* A request is admitted when no other one writes its package. *)
LEMMA BundleAdmitted ==
    ASSUME BundleInv, NEW r \in WorkRequests, rpcPc[r] = "new", rpcPc'[r] = "save",
           UNCHANGED <<tmp, final, files, writes, works>>,
           \A w \in WorkRequests : w # r => rpcPc'[w] = rpcPc[w] /\ rpcReq'[w] = rpcReq[w],
           rpcReq'[r].package \in Packages,
           \A w \in WorkRequests : Writing(w) => rpcReq[w].package # rpcReq'[r].package
    PROVE  BundleInv'
<1>1. \A w \in WorkRequests : w # r => (Writing(w)' <=> Writing(w))
  BY DEF Writing
<1>2. ASSUME NEW w \in WorkRequests PROVE WriterInv(w)'
  <2>1. CASE w = r
    BY <2>1 DEF WriterInv, Writing
  <2>2. CASE w # r
    <3>1. rpcPc'[w] = rpcPc[w] /\ rpcReq'[w] = rpcReq[w] /\ WriterInv(w)
      BY <2>2 DEF BundleInv
    <3> QED BY <3>1 DEF WriterInv, Writing
  <2> QED BY <2>1, <2>2
<1>3. FilesApart'
  <2>1. \A w \in WorkRequests : rpcPc'[w] \in {"new", "save", "open"} => rpcPc[w] \in {"new", "save", "open"}
    OBVIOUS
  <2> QED BY <2>1 DEF FilesApart, BundleInv
<1>4. \A w, s \in WorkRequests :
          Writing(w)' /\ Writing(s)' /\ rpcReq'[w].package = rpcReq'[s].package => w = s
  <2> SUFFICES ASSUME NEW w \in WorkRequests, NEW s \in WorkRequests, Writing(w)', Writing(s)',
                      rpcReq'[w].package = rpcReq'[s].package, w # s
               PROVE  FALSE
    OBVIOUS
  <2>1. CASE w # r /\ s # r
    BY <2>1, <1>1 DEF BundleInv
  <2>2. CASE w = r
    BY <2>2, <1>1
  <2>3. CASE s = r
    BY <2>3, <1>1
  <2> QED BY <2>1, <2>2, <2>3
<1>5. Gateway!NoBrokenBundle'
  BY Zenon DEF BundleInv, Gateway!NoBrokenBundle
<1> QED BY <1>2, <1>3, <1>4, <1>5 DEF BundleInv

(* A step of a writer within save_bundle_to_dir: what is left to show is what *)
(* it makes of its package and of the files.                                  *)
LEMMA WriterMoves ==
    ASSUME BundleInv, NEW r \in WorkRequests, NEW step, Writing(r), WorkMoves(r, step),
           step \in {"open", "write", "rename", "submit"},
           tmp' \in [Packages -> WorkRequests \cup {None}],
           final' \in [Packages -> WorkRequests \cup {None}],
           files' \in [WorkRequests -> [last : WorkRequests \cup {None}, whole : BOOLEAN]],
           writes' \in [WorkRequests -> WorkRequests \cup {None}], works' = works,
           \A p \in Packages : p # rpcReq[r].package => tmp'[p] = tmp[p] /\ final'[p] = final[p],
           final[rpcReq[r].package] # None => final'[rpcReq[r].package] # None,
           \A p \in Packages : p # rpcReq[r].package =>
               /\ tmp[p] # None => files'[tmp[p]] = files[tmp[p]]
               /\ final[p] # None => files'[final[p]] = files[final[p]],
           \A w \in WorkRequests : w # r => writes'[w] = writes[w],
           FilesApart', WriterInv(r)',
           final'[rpcReq[r].package] # None => files'[final'[rpcReq[r].package]].whole
    PROVE  BundleInv'
<1> DEFINE p == rpcReq[r].package
<1>0. p \in Packages
  BY DEF BundleInv, WriterInv
<1>1. \A w \in WorkRequests : (Writing(w)' <=> Writing(w)) /\ rpcReq'[w].package = rpcReq[w].package
  BY DEF Writing, WorkMoves
<1>2. ASSUME NEW w \in WorkRequests PROVE WriterInv(w)'
  <2>1. CASE w = r
    BY Zenon, <2>1
  <2>2. CASE w # r /\ Writing(w)
    <3>1. /\ rpcPc'[w] = rpcPc[w] /\ rpcReq'[w].package = rpcReq[w].package /\ WriterInv(w)
          /\ rpcReq[w].package \in Packages /\ rpcReq[w].package # p
      BY <2>2, Zenon DEF BundleInv, WorkMoves, WriterInv
    <3> QED BY <3>1, <2>2 DEF WriterInv, Writing
  <2>3. CASE w # r /\ ~Writing(w)
    BY Zenon, <2>3, <1>1 DEF WriterInv, Writing
  <2> QED BY <2>1, <2>2, <2>3
<1>3. \A w, s \in WorkRequests :
          Writing(w)' /\ Writing(s)' /\ rpcReq'[w].package = rpcReq'[s].package => w = s
  BY <1>1 DEF BundleInv
<1>4. Gateway!NoBrokenBundle'
  <2> SUFFICES ASSUME NEW q \in Packages, final'[q] # None PROVE files'[final'[q]].whole
    BY DEF Gateway!NoBrokenBundle
  <2>1. CASE q = p
    BY Zenon, <2>1
  <2>2. CASE q # p
    BY <2>2 DEF BundleInv, Gateway!NoBrokenBundle
  <2> QED BY <2>1, <2>2
<1>5. \A q \in DOMAIN works' : q \in Packages /\ final'[q] # None
  BY DEF BundleInv
<1> QED BY Zenon, <1>2, <1>3, <1>4, <1>5 DEF BundleInv
(* A request goes on to its next step, and the others stay where they are. *)
LEMMA Goes ==
    ASSUME GatewayType, NEW r \in Gateway!Requests, NEW step, Gateway!Goto(r, step)
    PROVE  /\ rpcPc' = [x \in Gateway!Requests |-> rpcPc'[x]]
           /\ rpcPc'[r] = step
           /\ \A x \in Gateway!Requests : x # r => rpcPc'[x] = rpcPc[x]
BY DEF GatewayType, Gateway!Goto

(* ... a work request that keeps its local variables, too. *)
LEMMA WorkGoes ==
    ASSUME GatewayType, NEW r \in WorkRequests, NEW step, Gateway!Goto(r, step),
           UNCHANGED rpcReq
    PROVE  WorkMoves(r, step)
<1>1. r \in Gateway!Requests /\ WorkRequests \subseteq Gateway!Requests
  BY Zenon DEF Gateway!Requests
<1> QED BY <1>1, Goes DEF WorkMoves

(* A bundle that is there is the package's, so nothing is to be written. *)
LEMMA BundleExistsKeeps ==
    ASSUME GatewayType, BundleInv, NEW r \in WorkRequests, Gateway!BundleExists(r)
    PROVE  BundleInv'
<1> DEFINE p == rpcReq[r].package
<1>1. rpcPc[r] = "save" /\ Writing(r) /\ p \in Packages /\ final[p] # None
  BY DEF Gateway!BundleExists, Gateway!At, Gateway!Package, Writing, BundleInv, WriterInv
<1>2. files[final[p]].whole
  BY <1>1 DEF BundleInv, Gateway!NoBrokenBundle
<1>3. Gateway!Goto(r, "submit") /\ UNCHANGED <<rpcReq, tmp, final, files, writes, works>>
  BY <1>2 DEF Gateway!BundleExists, Gateway!Package, Gateway!fileVars, Gateway!chainVars
<1>4. WorkMoves(r, "submit")
  BY <1>3, WorkGoes
<1>5. FilesApart'
  BY Zenon, <1>3, <1>4 DEF FilesApart, BundleInv, WorkMoves
<1>6. WriterInv(r)'
  BY Zenon, <1>1, <1>3, <1>4 DEF WriterInv, Writing, WorkMoves
<1> QED
  <2> HIDE DEF p
  <2>1. files'[final'[p]].whole
    BY <1>2, <1>3 DEF p
  <2>2. /\ tmp' \in [Packages -> WorkRequests \cup {None}]
        /\ final' \in [Packages -> WorkRequests \cup {None}]
        /\ files' \in [WorkRequests -> [last : WorkRequests \cup {None}, whole : BOOLEAN]]
        /\ writes' \in [WorkRequests -> WorkRequests \cup {None}] /\ works' = works
    BY Zenon, <1>3 DEF BundleInv
  <2> QED BY <1>1, <1>3, <1>4, <1>5, <1>6, <2>1, <2>2, WriterMoves DEF p

(* A bundle that is missing is to be written. *)
LEMMA BundleMissingKeeps ==
    ASSUME GatewayType, BundleInv, NEW r \in WorkRequests, Gateway!BundleMissing(r)
    PROVE  BundleInv'
<1> DEFINE p == rpcReq[r].package
<1>1. rpcPc[r] = "save" /\ Writing(r) /\ p \in Packages /\ final[p] = None
  BY DEF Gateway!BundleMissing, Gateway!At, Gateway!Package, Writing, BundleInv, WriterInv
<1>3. Gateway!Goto(r, "open") /\ UNCHANGED <<rpcReq, tmp, final, files, writes, works>>
  BY DEF Gateway!BundleMissing, Gateway!Package, Gateway!fileVars, Gateway!chainVars
<1>4. WorkMoves(r, "open")
  BY <1>3, WorkGoes
<1>5. FilesApart'
  <2>1. \A w \in WorkRequests : rpcPc'[w] \in {"new", "save", "open"} => rpcPc[w] \in {"new", "save", "open"}
    BY <1>1, <1>4 DEF WorkMoves
  <2> QED BY <1>3, <2>1 DEF FilesApart, BundleInv
<1>6. WriterInv(r)'
  BY <1>1, <1>3, <1>4 DEF WriterInv, Writing, WorkMoves
<1>7. /\ tmp' \in [Packages -> WorkRequests \cup {None}]
      /\ final' \in [Packages -> WorkRequests \cup {None}]
      /\ files' \in [WorkRequests -> [last : WorkRequests \cup {None}, whole : BOOLEAN]]
      /\ writes' \in [WorkRequests -> WorkRequests \cup {None}] /\ works' = works
  BY Zenon, <1>3 DEF BundleInv
<1> QED BY Zenon, <1>1, <1>3, <1>4, <1>5, <1>6, <1>7, WriterMoves

(* The temporary file is created or truncated by the only writer there is. *)
LEMMA OpenTemporaryKeeps ==
    ASSUME Gateway!Assumption, GatewayType, BundleInv, NEW r \in WorkRequests, Gateway!OpenTemporary(r)
    PROVE  BundleInv'
<1> DEFINE p == rpcReq[r].package
           f == IF tmp[p] # None THEN tmp[p] ELSE r
<1>1. rpcPc[r] = "open" /\ Writing(r) /\ p \in Packages
  BY DEF Gateway!OpenTemporary, Gateway!At, Writing, BundleInv, WriterInv
<1>2. /\ tmp' = [tmp EXCEPT ![p] = f]
      /\ files' = [files EXCEPT ![f] = [last |-> r, whole |-> FALSE]]
      /\ writes' = [writes EXCEPT ![r] = f]
      /\ Gateway!Goto(r, "write")
      /\ UNCHANGED <<rpcReq, final, works>>
  BY DEF Gateway!OpenTemporary, Gateway!Package, Gateway!chainVars
<1>3. WorkMoves(r, "write")
  BY Zenon, <1>2, WorkGoes
<1>4. f \in WorkRequests /\ f # None
  BY <1>1 DEF BundleInv, Gateway!Assumption
<1>5. /\ tmp' \in [Packages -> WorkRequests \cup {None}]
      /\ final' \in [Packages -> WorkRequests \cup {None}]
      /\ files' \in [WorkRequests -> [last : WorkRequests \cup {None}, whole : BOOLEAN]]
      /\ writes' \in [WorkRequests -> WorkRequests \cup {None}] /\ works' = works
  <2> HIDE DEF f
  <2>1. [last |-> r, whole |-> FALSE] \in [last : WorkRequests \cup {None}, whole : BOOLEAN]
    OBVIOUS
  <2> QED BY <1>2, <1>4, <2>1, Zenon DEF BundleInv
<1>6. \A q \in Packages : final[q] # f /\ (q # p => tmp[q] # f)
  BY <1>1 DEF BundleInv, FilesApart
<1>7. tmp'[p] = f /\ files'[f] = [last |-> r, whole |-> FALSE] /\ writes'[r] = f
      /\ (\A q \in Packages : q # p => tmp'[q] = tmp[q])
      /\ (\A x \in WorkRequests : x # f => files'[x] = files[x])
      /\ (\A w \in WorkRequests : w # r => writes'[w] = writes[w])
  <2> HIDE DEF f
  <2> QED BY <1>1, <1>2, <1>4 DEF BundleInv
<1>8. \A w \in WorkRequests : rpcPc'[w] \in {"new", "save", "open"} => w # r /\ rpcPc[w] = rpcPc'[w]
  BY <1>3 DEF WorkMoves
<1>9. FilesApart'
  <2>1. \A w \in WorkRequests : rpcPc'[w] \in {"new", "save", "open"} => \A q \in Packages : tmp'[q] # w /\ final'[q] # w
    BY <1>1, <1>2, <1>7, <1>8, ZenonT(40) DEF BundleInv, FilesApart
  <2>2. \A a, b \in Packages : tmp'[a] # None => final'[b] # tmp'[a] /\ (tmp'[b] = tmp'[a] => a = b)
    <3> HIDE DEF f
    <3> QED BY <1>2, <1>6, <1>7 DEF BundleInv, FilesApart
  <2> QED BY <2>1, <2>2 DEF FilesApart
<1>10. WriterInv(r)'
  <2> HIDE DEF f
  <2> QED BY <1>1, <1>2, <1>3, <1>4, <1>7 DEF WriterInv, Writing, WorkMoves
<1> HIDE DEF f
<1>11. \A q \in Packages : q # p =>
          /\ tmp'[q] = tmp[q] /\ final'[q] = final[q]
          /\ (tmp[q] # None => files'[tmp[q]] = files[tmp[q]])
          /\ (final[q] # None => files'[final[q]] = files[final[q]])
  BY ONLY <1>2, <1>6, <1>7 DEF BundleInv
<1>12. final'[p] # None => files'[final'[p]].whole
  BY <1>1, <1>2, <1>6, <1>7 DEF BundleInv, Gateway!NoBrokenBundle
<1>13. final' = final
  BY <1>2
<1> HIDE DEF p
<1> QED BY ZenonT(40), <1>1, <1>3, <1>5, <1>7, <1>9, <1>11, <1>10, <1>12, <1>13, WriterMoves DEF p
(* The writer that truncated the temporary file last makes it whole. *)
LEMMA WriteTemporaryKeeps ==
    ASSUME Gateway!Assumption, GatewayType, BundleInv, NEW r \in WorkRequests,
           Gateway!WriteTemporary(r)
    PROVE  BundleInv'
<1> DEFINE p == rpcReq[r].package
           f == tmp[p]
<1>1. rpcPc[r] = "write" /\ Writing(r) /\ p \in Packages
  BY Zenon DEF Gateway!WriteTemporary, Gateway!At, Writing, BundleInv, WriterInv
<1>2. f # None /\ f \in WorkRequests /\ writes[r] = f /\ files[f].last = r
  BY <1>1 DEF BundleInv, WriterInv
<1>3. /\ files' = [files EXCEPT ![writes[r]].whole = @ \/ files[writes[r]].last = r]
      /\ Gateway!Goto(r, "rename")
      /\ UNCHANGED <<rpcReq, tmp, final, writes, works>>
  BY DEF Gateway!WriteTemporary, Gateway!chainVars
<1>4. WorkMoves(r, "rename")
  BY <1>3, WorkGoes
<1>5. /\ files' \in [WorkRequests -> [last : WorkRequests \cup {None}, whole : BOOLEAN]]
      /\ files'[f].whole
      /\ \A x \in WorkRequests : x # f => files'[x] = files[x]
  <2> HIDE DEF f
  <2> QED BY <1>2, <1>3, Zenon DEF BundleInv
<1>6. /\ tmp' \in [Packages -> WorkRequests \cup {None}]
      /\ final' \in [Packages -> WorkRequests \cup {None}]
      /\ writes' \in [WorkRequests -> WorkRequests \cup {None}] /\ works' = works
  BY <1>3 DEF BundleInv
<1>7. \A q \in Packages : final[q] # f /\ (q # p => tmp[q] # f)
  BY <1>1, <1>2 DEF BundleInv, FilesApart
<1>8. FilesApart'
  <2>1. \A w \in WorkRequests : rpcPc'[w] \in {"new", "save", "open"} => rpcPc[w] \in {"new", "save", "open"}
    BY <1>4 DEF WorkMoves
  <2> QED BY <1>3, <2>1 DEF FilesApart, BundleInv
<1>9. WriterInv(r)'
  BY <1>1, <1>2, <1>3, <1>4, <1>5, Zenon DEF WriterInv, Writing, WorkMoves
<1> HIDE DEF f
<1>10. \A q \in Packages : q # p =>
          /\ tmp'[q] = tmp[q] /\ final'[q] = final[q]
          /\ (tmp[q] # None => files'[tmp[q]] = files[tmp[q]])
          /\ (final[q] # None => files'[final[q]] = files[final[q]])
  BY <1>3, <1>5, <1>7 DEF BundleInv
<1>11. final'[p] # None => files'[final'[p]].whole
  BY <1>1, <1>3, <1>5, <1>7 DEF BundleInv, Gateway!NoBrokenBundle
<1>12. final' = final /\ writes' = writes
  BY <1>3
<1> HIDE DEF p
<1> QED BY <1>1, <1>4, <1>5, <1>6, <1>8, <1>9, <1>10, <1>11, <1>12, WriterMoves, Zenon DEF p

(* The whole file gets the name of the bundle. *)
LEMMA RenameKeeps ==
    ASSUME Gateway!Assumption, GatewayType, BundleInv, NEW r \in WorkRequests, Gateway!Rename(r)
    PROVE  BundleInv'
<1> DEFINE p == rpcReq[r].package
           f == tmp[p]
<1>1. rpcPc[r] = "rename" /\ Writing(r) /\ p \in Packages
  BY Zenon DEF Gateway!Rename, Gateway!At, Writing, BundleInv, WriterInv
<1>2. f # None /\ f \in WorkRequests /\ files[f].whole
  BY <1>1 DEF BundleInv, WriterInv
<1>3. /\ final' = [final EXCEPT ![p] = f]
      /\ tmp' = [tmp EXCEPT ![p] = None]
      /\ Gateway!Goto(r, "submit")
      /\ UNCHANGED <<rpcReq, files, writes, works>>
  BY <1>2 DEF Gateway!Rename, Gateway!Package, Gateway!chainVars
<1>4. WorkMoves(r, "submit")
  BY <1>3, WorkGoes
<1>5. /\ tmp' \in [Packages -> WorkRequests \cup {None}]
      /\ final' \in [Packages -> WorkRequests \cup {None}]
      /\ files' \in [WorkRequests -> [last : WorkRequests \cup {None}, whole : BOOLEAN]]
      /\ writes' \in [WorkRequests -> WorkRequests \cup {None}] /\ works' = works
      /\ files' = files /\ writes' = writes
  <2> HIDE DEF f
  <2> QED BY Zenon, <1>1, <1>2, <1>3 DEF BundleInv
<1>6. /\ final'[p] = f /\ tmp'[p] = None
      /\ \A q \in Packages : q # p => tmp'[q] = tmp[q] /\ final'[q] = final[q]
  <2> HIDE DEF f
  <2> QED BY Zenon, <1>1, <1>3 DEF BundleInv
<1>7. FilesApart'
  <2>1. \A w \in WorkRequests : rpcPc'[w] \in {"new", "save", "open"} => rpcPc[w] \in {"new", "save", "open"}
    BY <1>4 DEF WorkMoves
  <2>2. \A w \in WorkRequests : w # None
    BY Zenon DEF Gateway!Assumption
  <2> QED BY <1>1, <1>6, <2>1, <2>2 DEF FilesApart, BundleInv
<1>8. WriterInv(r)'
  BY <1>1, <1>2, <1>3, <1>4, <1>6 DEF WriterInv, Writing, WorkMoves
<1> HIDE DEF f, p
<1>9. files'[final'[p]].whole /\ final'[p] # None
  BY <1>2, <1>5, <1>6
<1> QED BY <1>1, <1>4, <1>5, <1>6, <1>7, <1>8, <1>9, WriterMoves, Zenon DEF p

(* A work is submitted when its bundle has its name. *)
LEMMA SubmitWorkKeeps ==
    ASSUME GatewayType, BundleInv, NEW r \in WorkRequests, Gateway!SubmitWork(r)
    PROVE  BundleInv'
<1> DEFINE p == rpcReq[r].package
<1>1. rpcPc[r] = "submit" /\ p \in Packages /\ final[p] # None
  BY Zenon DEF Gateway!SubmitWork, Gateway!At, Writing, BundleInv, WriterInv
<1>2. /\ UNCHANGED <<rpcReq, tmp, final, files, writes>>
      /\ Gateway!Goto(r, "ok") \/ Gateway!Goto(r, "error")
      /\ works' = works \/ works' = Gateway!Insert(works, p, block + 1)
  BY DEF Gateway!SubmitWork, Gateway!Package, Gateway!Ends, Gateway!fileVars
<1>3. DOMAIN works' \subseteq DOMAIN works \cup {p}
  BY <1>2 DEF Gateway!Insert
<1>4. WorkMoves(r, "ok") \/ WorkMoves(r, "error")
  BY <1>2, WorkGoes
<1> HIDE DEF p
<1>5. \A w \in WorkRequests :
          \/ rpcPc'[w] = rpcPc[w] /\ rpcReq'[w].package = rpcReq[w].package
          \/ rpcPc'[w] \in Over
  BY <1>4 DEF WorkMoves, Over
<1>6. \A w \in WorkRequests : Writing(w)' =>
         rpcPc'[w] = rpcPc[w] /\ rpcReq'[w].package = rpcReq[w].package /\ Writing(w)
  BY <1>5 DEF Writing, Over
<1>7. ASSUME NEW w \in WorkRequests PROVE WriterInv(w)'
  <2>1. CASE Writing(w)'
    <3>1. rpcPc'[w] = rpcPc[w] /\ rpcReq'[w].package = rpcReq[w].package /\ WriterInv(w)
      BY <1>6, <2>1 DEF BundleInv
    <3> QED BY Zenon, <3>1, <1>2 DEF WriterInv, Writing
  <2>2. CASE ~Writing(w)'
    BY Zenon, <2>2 DEF WriterInv, Writing
  <2> QED BY Zenon, <2>1, <2>2
<1>8. FilesApart'
  <2>1. \A w \in WorkRequests : rpcPc'[w] \in {"new", "save", "open"} => rpcPc'[w] = rpcPc[w]
    BY Zenon, <1>5 DEF Over
  <2> QED BY <1>2, <2>1 DEF FilesApart, BundleInv
<1>9. \A w, s \in WorkRequests :
          Writing(w)' /\ Writing(s)' /\ rpcReq'[w].package = rpcReq'[s].package => w = s
  BY <1>6 DEF BundleInv
<1>10. Gateway!NoBrokenBundle'
  BY Zenon, <1>2 DEF BundleInv, Gateway!NoBrokenBundle
<1>11. \A q \in DOMAIN works' : q \in Packages /\ final'[q] # None
  <2>1. \A q \in DOMAIN works : q \in Packages /\ final[q] # None
    BY Zenon DEF BundleInv
  <2>2. p \in Packages /\ final[p] # None
    BY <1>1 DEF p
  <2> QED BY <1>2, <1>3, <2>1, <2>2
<1> QED BY Zenon, <1>2, <1>7, <1>8, <1>9, <1>10, <1>11 DEF BundleInv
-----------------------------------------------------------------------------
(* Cardinality is the instance's own. *)
LEMMA GatewayCardinality == \A S : Gateway!Cardinality(S) = Cardinality(S)
BY Zenon DEF Gateway!Cardinality, Cardinality

(* ... and so is finiteness. *)
LEMMA GatewayFinite == \A S : Gateway!IsFiniteSet(S) <=> IsFiniteSet(S)
BY Zenon DEF Gateway!IsFiniteSet, IsFiniteSet
-----------------------------------------------------------------------------
(* What a step of a request leaves alone *)

(* A step of request r: the others wait *)
StepOf(r) ==
    /\ GatewayType'
    /\ \A x \in Gateway!Requests : x # r => rpcPc'[x] = rpcPc[x] /\ rpcReq'[x] = rpcReq[x]

(* A request that goes on without a change of its variables. *)
LEMMA StepKept ==
    ASSUME GatewayType, NEW r \in Gateway!Requests, NEW step, Gateway!Goto(r, step),
           UNCHANGED rpcReq
    PROVE  StepOf(r) /\ rpcPc'[r] = step
<1>1. IsReqs(rpcReq)'
  BY DEF GatewayType, IsReqs
<1> QED BY Goes, <1>1 DEF StepOf, GatewayType

(* ... and with one. *)
LEMMA StepSet ==
    ASSUME GatewayType, NEW r \in Gateway!Requests, NEW step, Gateway!Goto(r, step),
           IsReqs(rpcReq'), OthersKept(rpcReq', rpcReq, r)
    PROVE  StepOf(r) /\ rpcPc'[r] = step
<1>1. IsReqs(rpcReq)'
  BY Zenon DEF IsReqs, IsReq
<1> QED BY Goes, <1>1 DEF StepOf, GatewayType, OthersKept

(* A request records its operation and what it expects its receipt under. *)
LEMMA StepOperation ==
    ASSUME GatewayType, NEW r \in Gateway!Requests, NEW c, NEW own,
           rpcReq' = WithOwn(WithCorrelation(rpcReq, r, c), r, own),
           NEW step, Gateway!Goto(r, step)
    PROVE  /\ StepOf(r) /\ rpcPc'[r] = step /\ rpcReq'[r].correlation = c
           /\ rpcReq'[r].service = rpcReq[r].service
<1> DEFINE q == WithCorrelation(rpcReq, r, c)
<1>1. rpcReq' = WithOwn(q, r, own) /\ IsReqs(rpcReq)
  BY DEF GatewayType
<1>2. IsReqs(q) /\ OthersKept(q, rpcReq, r) /\ q[r].correlation = c /\ q[r].service = rpcReq[r].service
  BY <1>1, SetCorrelation
<1> HIDE DEF q
<1>3. IsReqs(rpcReq') /\ OthersKept(rpcReq', q, r) /\ rpcReq'[r].correlation = c
      /\ rpcReq'[r].service = rpcReq[r].service
  BY <1>1, <1>2, SetOwn
<1>4. OthersKept(rpcReq', rpcReq, r)
  BY Zenon, <1>2, <1>3 DEF OthersKept
<1> QED BY <1>3, <1>4, StepSet

(* A request records its service and starts to poll anew. *)
LEMMA StepService ==
    ASSUME GatewayType, NEW r \in Gateway!Requests, NEW s,
           rpcReq' = WithPolls(WithService(rpcReq, r, s), r, 0),
           NEW step, Gateway!Goto(r, step)
    PROVE  /\ StepOf(r) /\ rpcPc'[r] = step /\ rpcReq'[r].service = s
           /\ rpcReq'[r].correlation = rpcReq[r].correlation
<1> DEFINE q == WithService(rpcReq, r, s)
<1>1. rpcReq' = WithPolls(q, r, 0) /\ IsReqs(rpcReq)
  BY DEF GatewayType
<1>2. IsReqs(q) /\ OthersKept(q, rpcReq, r) /\ q[r].correlation = rpcReq[r].correlation /\ q[r].service = s
  BY <1>1, SetService
<1> HIDE DEF q
<1>3. IsReqs(rpcReq') /\ OthersKept(rpcReq', q, r) /\ rpcReq'[r].correlation = rpcReq[r].correlation
      /\ rpcReq'[r].service = s
  BY <1>1, <1>2, SetPolls
<1>4. OthersKept(rpcReq', rpcReq, r)
  BY Zenon, <1>2, <1>3 DEF OthersKept
<1> QED BY <1>3, <1>4, StepSet

(* A request polls once more. *)
LEMMA StepPolled ==
    ASSUME GatewayType, NEW r \in Gateway!Requests, Gateway!Polled(r),
           UNCHANGED rpcPc \/ Gateway!Goto(r, "poll_ready")
    PROVE  /\ StepOf(r)
           /\ rpcReq'[r].code = rpcReq[r].code /\ rpcReq'[r].context = rpcReq[r].context
           /\ rpcReq'[r].correlation = rpcReq[r].correlation /\ rpcReq'[r].service = rpcReq[r].service
<1>1. rpcReq' = WithPolls(rpcReq, r, rpcReq[r].polls + 1) /\ IsReqs(rpcReq)
  BY Zenon DEF Gateway!Polled, WithPolls, GatewayType
<1>2. /\ IsReqs(rpcReq') /\ OthersKept(rpcReq', rpcReq, r)
      /\ rpcReq'[r].code = rpcReq[r].code /\ rpcReq'[r].context = rpcReq[r].context
      /\ rpcReq'[r].correlation = rpcReq[r].correlation /\ rpcReq'[r].service = rpcReq[r].service
  BY <1>1, SetPolls
<1>3. CASE UNCHANGED rpcPc
  BY <1>2, <1>3 DEF StepOf, OthersKept, GatewayType, IsReqs, IsReq
<1>4. CASE Gateway!Goto(r, "poll_ready")
  BY <1>2, <1>4, StepSet, Zenon
<1> QED BY <1>2, <1>3, <1>4

(* The semaphore: a request that is served gives up its permit or keeps it. *)
LEMMA PermitsKept ==
    ASSUME Counting, Gateway!Assumption, AdmissionInv, Gateway!Active' \subseteq Gateway!Active,
           \A x \in Gateway!Requests : rpcPc'[x] = "busy" => rpcPc[x] = "busy"
    PROVE  AdmissionInv'
<1>1. IsFiniteSet(Gateway!Active) /\ IsFiniteSet(Gateway!Requests)
  <2>1. IsFiniteSet(Gateway!Requests)
    BY GatewayFinite DEF Gateway!Assumption
  <2> QED BY <2>1 DEF Counting, Gateway!Active
<1>2. Cardinality(Gateway!Active') <= Cardinality(Gateway!Active)
      /\ Cardinality(Gateway!Active) \in Nat /\ Cardinality(Gateway!Active') \in Nat
  BY <1>1 DEF Counting
<1>3. MaxConcurrency \in Nat
  BY DEF Gateway!Assumption
<1>4. Cardinality(Gateway!Active) <= MaxConcurrency
      /\ ((\E x \in Gateway!Requests : rpcPc[x] = "busy") =>
             Gateway!Cardinality(Gateway!Requests) > MaxConcurrency)
  BY GatewayCardinality DEF AdmissionInv, Gateway!AdmissionBounded
<1>5. Cardinality(Gateway!Active') <= MaxConcurrency
  BY <1>2, <1>3, <1>4
<1>6. Gateway!Requests' = Gateway!Requests
  BY DEF Gateway!Requests
<1>7. Gateway!Cardinality(Gateway!Active') <= MaxConcurrency
  BY <1>5, GatewayCardinality
<1> QED BY <1>4, <1>6, <1>7 DEF AdmissionInv, Gateway!AdmissionBounded

(* A step of a request that is being served. *)
LEMMA PermitsKeptBy ==
    ASSUME Counting, Gateway!Assumption, AdmissionInv, NEW r \in Gateway!Requests, StepOf(r),
           rpcPc[r] \notin Gateway!Finished, rpcPc'[r] # "busy"
    PROVE  AdmissionInv'
<1>1. Gateway!Active' \subseteq Gateway!Active
  BY DEF StepOf, Gateway!Active, Gateway!Finished, Gateway!Requests
<1>2. \A x \in Gateway!Requests : rpcPc'[x] = "busy" => rpcPc[x] = "busy"
  BY DEF StepOf
<1> QED BY <1>1, <1>2, PermitsKept

(* A request is admitted while there is a permit. *)
LEMMA PermitTaken ==
    ASSUME Counting, Gateway!Assumption, AdmissionInv, NEW r \in Gateway!Requests, StepOf(r),
           rpcPc[r] = "new", rpcPc'[r] # "busy",
           Gateway!Cardinality(Gateway!Active) < MaxConcurrency
    PROVE  AdmissionInv'
<1>1. IsFiniteSet(Gateway!Active)
  <2>1. IsFiniteSet(Gateway!Requests)
    BY GatewayFinite DEF Gateway!Assumption
  <2> QED BY Zenon, <2>1 DEF Counting, Gateway!Active
<1>2. Gateway!Active' \subseteq Gateway!Active \cup {r} /\ r \notin Gateway!Active
  BY DEF StepOf, Gateway!Active, Gateway!Finished, Gateway!Requests
<1>3. IsFiniteSet(Gateway!Active \cup {r})
      /\ Cardinality(Gateway!Active \cup {r}) = Cardinality(Gateway!Active) + 1
  BY <1>1, <1>2 DEF Counting
<1>4. Cardinality(Gateway!Active') <= Cardinality(Gateway!Active \cup {r})
      /\ Cardinality(Gateway!Active) \in Nat /\ Cardinality(Gateway!Active') \in Nat
  BY <1>1, <1>2, <1>3 DEF Counting
<1>5. MaxConcurrency \in Nat /\ Cardinality(Gateway!Active) < MaxConcurrency
  BY GatewayCardinality DEF Gateway!Assumption
<1>6. Cardinality(Gateway!Active') <= MaxConcurrency
  BY <1>3, <1>4, <1>5
<1>7. (\E x \in Gateway!Requests : rpcPc'[x] = "busy") =>
          Gateway!Cardinality(Gateway!Requests) > MaxConcurrency
  BY DEF AdmissionInv, Gateway!AdmissionBounded, StepOf
<1>8. Gateway!Requests' = Gateway!Requests
  BY DEF Gateway!Requests
<1>9. Gateway!Cardinality(Gateway!Active') <= MaxConcurrency
  BY <1>6, GatewayCardinality
<1> QED BY <1>7, <1>8, <1>9 DEF AdmissionInv, Gateway!AdmissionBounded

(* A request is refused when all permits are taken, by others. *)
LEMMA PermitRefused ==
    ASSUME Counting, Gateway!Assumption, GatewayType, AdmissionInv, NEW r \in Gateway!Requests,
           Gateway!Busy(r)
    PROVE  AdmissionInv'
<1>1. rpcPc[r] = "new" /\ rpcPc'[r] = "busy" /\ StepOf(r)
      /\ Gateway!Cardinality(Gateway!Active) >= MaxConcurrency
  BY StepKept DEF Gateway!Busy, Gateway!At, Gateway!Ends
<1>2. IsFiniteSet(Gateway!Requests) /\ IsFiniteSet(Gateway!Active)
  <2>1. IsFiniteSet(Gateway!Requests)
    BY GatewayFinite DEF Gateway!Assumption
  <2> QED BY <2>1 DEF Counting, Gateway!Active
<1>3. Gateway!Active' = Gateway!Active /\ r \notin Gateway!Active
      /\ Gateway!Active \cup {r} \subseteq Gateway!Requests
  BY <1>1 DEF StepOf, Gateway!Active, Gateway!Finished, Gateway!Requests
<1>4. IsFiniteSet(Gateway!Active \cup {r})
      /\ Cardinality(Gateway!Active \cup {r}) = Cardinality(Gateway!Active) + 1
  BY <1>2, <1>3 DEF Counting
<1>5. Cardinality(Gateway!Active \cup {r}) <= Cardinality(Gateway!Requests)
      /\ Cardinality(Gateway!Active) \in Nat /\ Cardinality(Gateway!Requests) \in Nat
  BY <1>2, <1>3 DEF Counting
<1>6. MaxConcurrency \in Nat /\ Cardinality(Gateway!Active) >= MaxConcurrency
  BY <1>1, GatewayCardinality DEF Gateway!Assumption
<1>7. Cardinality(Gateway!Requests) > MaxConcurrency
  BY <1>4, <1>5, <1>6
<1>8. Gateway!Requests' = Gateway!Requests
  BY DEF Gateway!Requests
<1>9. Gateway!Cardinality(Gateway!Requests) > MaxConcurrency
  BY <1>7, GatewayCardinality
<1>10. Gateway!Cardinality(Gateway!Active)' <= MaxConcurrency
  BY Zenon, <1>3 DEF AdmissionInv, Gateway!AdmissionBounded
<1> QED BY <1>3, <1>8, <1>9, <1>10 DEF AdmissionInv, Gateway!AdmissionBounded
-----------------------------------------------------------------------------
(* Deployments *)

(* A deployment that keeps its service and its operation, and ends or goes on *)
(* polling, or is admitted.                                                   *)
DeployRests(r) ==
    /\ rpcReq'[r].service = rpcReq[r].service /\ rpcReq'[r].correlation = rpcReq[r].correlation
    /\ \/ /\ rpcPc'[r] = rpcPc[r]
          /\ rpcReq'[r].code = rpcReq[r].code /\ rpcReq'[r].context = rpcReq[r].context
       \/ rpcPc'[r] \in {"error", "busy", "gone"}
       \/ {rpcPc[r], rpcPc'[r]} \subseteq {"poll_ready", "ready_at"}
       \/ rpcPc[r] = "new" /\ rpcPc'[r] = "create" /\ rpcReq'[r].code \in Codes

(* Deployments that rest, and a chain without news for them, change nothing. *)
LEMMA DeployQuiet ==
    ASSUME DeployInv, \A r \in DeployRequests : DeployRests(r),
           UNCHANGED <<opNonce, ops, receipts, services, preimages, provided>>,
           opCache' = opCache \/ opCache' = None, late' \in Seq(Codes)
    PROVE  DeployInv'
<1>1. \A r \in DeployRequests :
          /\ rpcReq'[r].service = rpcReq[r].service
          /\ rpcReq'[r].correlation = rpcReq[r].correlation
          /\ Asked(r)' => Asked(r)
          /\ rpcPc'[r] = "preimage" => rpcPc[r] = "preimage"
  BY Zenon DEF DeployRests, Asked
<1>2. NonceInv'
  <2>1. NonceInv
    BY DEF DeployInv
  <2>2. opNonce' \in Nat /\ (opCache' # None => opCache' \in Nat /\ opCache' <= opNonce')
    BY <2>1 DEF NonceInv
  <2>3. (\A op \in ops' \cup DOMAIN receipts' : IsOp(op) /\ op.nonce < opNonce')
        /\ ops' \cap DOMAIN receipts' = {}
    BY Zenon, <2>1 DEF NonceInv
  <2>4. ASSUME NEW r \in DeployRequests, Asked(r)'
        PROVE  rpcReq'[r].correlation.nonce \in Nat /\ rpcReq'[r].correlation.nonce < opNonce'
               /\ (opCache' # None => rpcReq'[r].correlation.nonce < opCache')
    BY Zenon, <1>1, <2>1, <2>4 DEF NonceInv
  <2>5. ASSUME NEW r \in DeployRequests, NEW s \in DeployRequests, Asked(r)', Asked(s)',
               rpcReq'[r].correlation = rpcReq'[s].correlation
        PROVE  r = s
    BY <1>1, <2>1, <2>5 DEF NonceInv
  <2> QED BY <2>2, <2>3, <2>4, <2>5 DEF NonceInv, IsOp
<1>3. ReceiptInv'
  BY <1>1, Zenon DEF ReceiptInv, DeployInv
<1>4. PreimageInv'
  <2>1. PreimageInv
    BY Zenon DEF DeployInv
  <2>2. ASSUME NEW s \in preimages \cup DOMAIN provided
        PROVE  s # None /\ \E r \in DeployRequests : rpcReq'[r].service = s /\ rpcPc'[r] # "preimage"
    <3>1. PICK r \in DeployRequests : rpcReq[r].service = s /\ rpcPc[r] # "preimage"
      BY ZenonT(40), <2>1 DEF PreimageInv
    <3> QED BY <1>1, <2>1, <3>1 DEF PreimageInv
  <2> QED BY <2>1, <2>2, Zenon DEF PreimageInv
<1>5. \A r \in DeployRequests :
          /\ rpcPc'[r] \in {"new", "create", "poll_receipt"} => rpcReq'[r].service = None
          /\ rpcPc'[r] = "create" => rpcReq'[r].code \in Codes
          /\ rpcPc'[r] \in {"preimage", "poll_ready", "ready_at", "ok"} => rpcReq'[r].service # None
  BY DEF DeployRests, DeployInv
<1>6. \A r \in DeployRequests : rpcPc'[r] = "ok" =>
          rpcPc[r] = "ok" /\ rpcReq'[r].code = rpcReq[r].code /\ rpcReq'[r].context = rpcReq[r].context
  BY Zenon DEF DeployRests
<1>7. Gateway!DeploymentReady'
  <2> SUFFICES ASSUME NEW r \in DeployRequests, rpcPc'[r] = "ok"
               PROVE  LET s == rpcReq'[r].service
                      IN  /\ s \in DOMAIN services /\ s \in DOMAIN provided
                          /\ services[s].code = rpcReq'[r].code
                          /\ services[s].at <= rpcReq'[r].context
                          /\ provided[s] <= rpcReq'[r].context
    BY Zenon DEF Gateway!DeploymentReady, Gateway!Deployed
  <2>1. r \in Gateway!Deployed
    BY Zenon, <1>6 DEF Gateway!Deployed
  <2> QED BY <1>1, <1>6, <2>1, ZenonT(40) DEF DeployInv, Gateway!DeploymentReady
<1> QED BY Zenon, <1>2, <1>3, <1>4, <1>5, <1>7 DEF DeployInv

(* A step of one deployment, and of none that is reported before: what is     *)
(* left to show.                                                              *)
LEMMA DeployMoves ==
    ASSUME DeployInv, NEW r \in DeployRequests, StepOf(r),
           rpcPc[r] # "ok", rpcPc'[r] # "ok", UNCHANGED <<services, provided>>,
           late' \in Seq(Codes), NonceInv', ReceiptInv', PreimageInv',
           rpcPc'[r] \in {"new", "create", "poll_receipt"} => rpcReq'[r].service = None,
           rpcPc'[r] # "create",
           rpcPc'[r] \in {"preimage", "poll_ready", "ready_at"} => rpcReq'[r].service # None
    PROVE  DeployInv'
<1>1. \A x \in DeployRequests : x # r => rpcPc'[x] = rpcPc[x] /\ rpcReq'[x] = rpcReq[x]
  BY Zenon DEF StepOf, Gateway!Requests
<1>2. Gateway!DeploymentReady'
  <2> SUFFICES ASSUME NEW x \in DeployRequests, rpcPc'[x] = "ok"
               PROVE  LET s == rpcReq'[x].service
                      IN  /\ s \in DOMAIN services /\ s \in DOMAIN provided
                          /\ services[s].code = rpcReq'[x].code
                          /\ services[s].at <= rpcReq'[x].context
                          /\ provided[s] <= rpcReq'[x].context
    BY Zenon DEF Gateway!DeploymentReady, Gateway!Deployed
  <2>1. x # r /\ x \in Gateway!Deployed
    BY <1>1, Zenon DEF Gateway!Deployed
  <2> QED BY <1>1, <2>1, Zenon DEF DeployInv, Gateway!DeploymentReady
<1>3. ASSUME NEW x \in DeployRequests
      PROVE  /\ rpcPc'[x] \in {"new", "create", "poll_receipt"} => rpcReq'[x].service = None
             /\ rpcPc'[x] = "create" => rpcReq'[x].code \in Codes
             /\ rpcPc'[x] \in {"preimage", "poll_ready", "ready_at", "ok"} => rpcReq'[x].service # None
  BY Zenon, <1>1 DEF DeployInv
<1> QED BY Zenon, <1>2, <1>3 DEF DeployInv
(* An operation is submitted: its correlation is new, whatever nonce the      *)
(* client predicted.                                                          *)
LEMMA CreateServiceKeeps ==
    ASSUME GatewayType, DeployInv, NEW r \in DeployRequests, Gateway!SubmitCreateService(r)
    PROVE  StepOf(r) /\ rpcPc'[r] = "poll_receipt" /\ rpcPc[r] = "create" /\ DeployInv'
<1> DEFINE actual == opNonce + Len(late)
           queue == late \o <<rpcReq[r].code>>
           new == {Gateway!SystemOp(opNonce + i - 1, queue[i]) : i \in DOMAIN queue}
           own == Gateway!SystemOp(actual, rpcReq[r].code)
           c == Gateway!SystemOp(Gateway!Predicted, rpcReq[r].code)
<1>0. rpcReq' = [rpcReq EXCEPT ![r].correlation = c, ![r].own = own]
  BY DEF Gateway!SubmitCreateService
<1>1. /\ rpcPc[r] = "create" /\ Gateway!Goto(r, "poll_receipt")
      /\ opNonce' = actual + 1 /\ opCache' = Gateway!Predicted + 1
      /\ late' = <<>> /\ ops' = ops \cup new
      /\ UNCHANGED <<receipts, services, preimages, provided>>
  BY DEF Gateway!SubmitCreateService, Gateway!At, Gateway!chainVars
<1>2. r \in Gateway!Requests /\ IsReqs(rpcReq) /\ DeployRequests \subseteq Gateway!Requests
  BY DEF Gateway!Requests, GatewayType
<1>3. /\ StepOf(r) /\ rpcPc'[r] = "poll_receipt"
      /\ rpcReq'[r].correlation = c /\ rpcReq'[r].service = rpcReq[r].service
  <2> HIDE DEF c, own
  <2>1. rpcReq' = WithOwn(WithCorrelation(rpcReq, r, c), r, own)
    BY <1>0, ZenonT(40) DEF WithOwn, WithCorrelation
  <2> QED BY <1>1, <1>2, <2>1, StepOperation, Zenon
<1>4. NonceInv /\ late \in Seq(Codes) /\ rpcReq[r].service = None /\ ~Asked(r)
  BY Zenon, <1>1 DEF DeployInv, Asked
<1>5. opNonce \in Nat /\ Len(late) \in Nat /\ Gateway!Predicted \in Nat /\ Gateway!Predicted <= opNonce
  BY <1>4 DEF NonceInv, Gateway!Predicted
<1>6. \A x \in DeployRequests : x # r => rpcReq'[x] = rpcReq[x] /\ (Asked(x)' <=> Asked(x))
                                         /\ rpcPc'[x] = rpcPc[x]
  BY <1>2, <1>3 DEF StepOf, Asked
<1>7. c.nonce = Gateway!Predicted
  BY DEF Gateway!SystemOp
<1>8. \A op \in new : IsOp(op) /\ op.nonce < opNonce' /\ op.nonce >= opNonce
  <2>1. DOMAIN queue = 1 .. (Len(late) + 1)
    BY <1>4
  <2>2. ASSUME NEW i \in DOMAIN queue
        PROVE  LET op == Gateway!SystemOp(opNonce + i - 1, queue[i])
               IN  IsOp(op) /\ op.nonce < opNonce' /\ op.nonce >= opNonce
    <3> DEFINE k == opNonce + i - 1
               v == queue[i]
    <3>1. k \in Nat /\ k < opNonce' /\ k >= opNonce
      BY <1>1, <1>5, <2>1
    <3> HIDE DEF k, v
    <3>2. IsOp(Gateway!SystemOp(k, v)) /\ Gateway!SystemOp(k, v).nonce = k
      BY Zenon, <3>1 DEF IsOp, Gateway!SystemOp
    <3> QED BY <3>1, <3>2, Zenon DEF k, v
  <2> QED BY <2>2, Zenon
<1> HIDE DEF c, own, new, queue
<1>9. NonceInv'
  <2>1. opNonce' \in Nat /\ opNonce' > opNonce /\ opCache' \in Nat /\ opCache' <= opNonce'
    BY <1>1, <1>5
  <2>2. \A op \in ops' \cup DOMAIN receipts' : IsOp(op) /\ op.nonce < opNonce'
    <3>1. \A op \in ops \cup DOMAIN receipts : IsOp(op) /\ op.nonce \in Nat /\ op.nonce < opNonce
      BY Zenon, <1>4 DEF NonceInv, IsOp
    <3>2. \A op \in ops \cup DOMAIN receipts : op.nonce < opNonce'
      BY <3>1, <2>1, <1>5
    <3> QED BY Zenon, <1>1, <1>8, <3>1, <3>2
  <2>3. ops' \cap DOMAIN receipts' = {}
    <3>1. \A op \in DOMAIN receipts : op.nonce \in Nat /\ op.nonce < opNonce
      BY <1>4 DEF NonceInv, IsOp
    <3>2. \A op \in new : op \notin DOMAIN receipts
      BY <1>5, <1>8, <3>1 DEF IsOp
    <3>3. ops \cap DOMAIN receipts = {}
      BY <1>4 DEF NonceInv
    <3> QED BY Zenon, <1>1, <3>2, <3>3
  <2>4. ASSUME NEW x \in DeployRequests, Asked(x)', x # r
        PROVE  rpcReq'[x].correlation.nonce \in Nat /\ rpcReq'[x].correlation.nonce < Gateway!Predicted
    <3>1. Asked(x) /\ rpcReq'[x] = rpcReq[x]
      BY Zenon, <1>6, <2>4
    <3>2. rpcReq[x].correlation.nonce \in Nat /\ rpcReq[x].correlation.nonce < opNonce
          /\ (opCache # None => rpcReq[x].correlation.nonce < opCache)
      BY Zenon, <1>4, <3>1 DEF NonceInv
    <3> QED BY <3>1, <3>2 DEF Gateway!Predicted
  <2>5. ASSUME NEW x \in DeployRequests, Asked(x)'
        PROVE  rpcReq'[x].correlation.nonce \in Nat /\ rpcReq'[x].correlation.nonce < opNonce'
               /\ rpcReq'[x].correlation.nonce < opCache'
    <3>1. CASE x = r
      BY <1>1, <1>3, <1>5, <1>7, <3>1
    <3>2. CASE x # r
      BY <1>1, <1>5, <2>4, <2>5, <3>2
    <3> QED BY Zenon, <3>1, <3>2
  <2>6. ASSUME NEW x \in DeployRequests, NEW y \in DeployRequests, Asked(x)', Asked(y)',
               rpcReq'[x].correlation = rpcReq'[y].correlation
        PROVE  x = y
    <3>1. CASE x # r /\ y # r
      BY Zenon, <1>4, <1>6, <2>6, <3>1 DEF NonceInv
    <3>2. CASE x = r /\ y # r
      BY <1>3, <1>5, <1>7, <2>4, <2>6, <3>2
    <3>3. CASE x # r /\ y = r
      BY <1>3, <1>5, <1>7, <2>4, <2>6, <3>3
    <3> QED BY Zenon, <3>1, <3>2, <3>3
  <2> QED BY <2>1, <2>2, <2>3, <2>5, <2>6 DEF NonceInv, IsOp
<1>10. \A x \in DeployRequests : rpcReq'[x].service # None => x # r
  BY <1>3, <1>4
<1>11. ReceiptInv'
  <2>1. ReceiptInv
    BY Zenon DEF DeployInv
  <2>2. ASSUME NEW x \in DeployRequests, rpcReq'[x].service # None
        PROVE  rpcReq'[x].correlation \in DOMAIN receipts /\ receipts[rpcReq'[x].correlation] = rpcReq'[x].service
    BY Zenon, <1>6, <1>10, <2>1, <2>2 DEF ReceiptInv
  <2> QED BY <1>1, <2>1, <2>2, Zenon DEF ReceiptInv
<1>12. PreimageInv'
  <2>1. PreimageInv
    BY DEF DeployInv
  <2>2. ASSUME NEW s \in preimages \cup DOMAIN provided
        PROVE  s # None /\ \E x \in DeployRequests : rpcReq'[x].service = s /\ rpcPc'[x] # "preimage"
    <3>1. s # None
      BY <2>1 DEF PreimageInv
    <3>2. PICK x \in DeployRequests : rpcReq[x].service = s /\ rpcPc[x] # "preimage"
      BY <2>1 DEF PreimageInv
    <3>3. x # r
      BY <1>4, <3>1, <3>2
    <3> QED BY Zenon, <1>6, <3>1, <3>2, <3>3
  <2> QED BY <1>1, <2>1, <2>2 DEF PreimageInv
<1>13. late' \in Seq(Codes) /\ UNCHANGED <<services, provided>>
  BY <1>1
<1>14. DeployInv'
  BY <1>1, <1>3, <1>4, <1>9, <1>11, <1>12, <1>13, DeployMoves
<1> QED BY <1>1, <1>3, <1>14, Zenon
(* wait_for_system_receipt: the receipt of the correlation gives the service, *)
(* which no other deployment has.                                             *)
LEMMA ReceiptKeeps ==
    ASSUME GatewayType, DeployInv, NEW r \in DeployRequests, Gateway!PollReceipt(r)
    PROVE  StepOf(r) /\ rpcPc[r] = "poll_receipt" /\ DeployInv'
           /\ rpcPc'[r] \in {"poll_receipt", "preimage", "error"}
<1> DEFINE c == rpcReq[r].correlation
           s == receipts[c]
<1>0. rpcPc[r] = "poll_receipt" /\ UNCHANGED <<opNonce, opCache, late, ops, preimages, receipts, services, provided>>
  BY DEF Gateway!PollReceipt, Gateway!At, Gateway!opVars, Gateway!chainVars
<1>1. r \in Gateway!Requests /\ IsReqs(rpcReq) /\ DeployRequests \subseteq Gateway!Requests
  BY DEF Gateway!Requests, GatewayType
<1>2. \/ UNCHANGED rpcReq /\ Gateway!Goto(r, "error")
      \/ Gateway!Polled(r) /\ UNCHANGED rpcPc
      \/ /\ c \in DOMAIN receipts /\ s # None /\ Gateway!Goto(r, "preimage")
         /\ rpcReq' = [rpcReq EXCEPT ![r].service = s, ![r].polls = 0]
  BY Zenon DEF Gateway!PollReceipt, Gateway!Ends
<1>3. late \in Seq(Codes)
  BY DEF DeployInv
<1>4. CASE UNCHANGED rpcReq /\ Gateway!Goto(r, "error")
  <2>1. StepOf(r) /\ rpcPc'[r] = "error"
    BY <1>1, <1>4, StepKept
  <2>2. \A x \in DeployRequests : DeployRests(x)
    BY Zenon, <1>1, <1>4, <2>1 DEF DeployRests, StepOf
  <2> QED BY <1>0, <1>3, <2>1, <2>2, DeployQuiet, Zenon
<1>5. CASE Gateway!Polled(r) /\ UNCHANGED rpcPc
  <2>2. /\ StepOf(r) /\ rpcPc'[r] = rpcPc[r]
        /\ rpcReq'[r].code = rpcReq[r].code /\ rpcReq'[r].context = rpcReq[r].context
        /\ rpcReq'[r].correlation = rpcReq[r].correlation /\ rpcReq'[r].service = rpcReq[r].service
    BY <1>1, <1>5, StepPolled, Zenon
  <2>4. \A x \in DeployRequests : DeployRests(x)
    BY <1>1, <2>2, Zenon DEF DeployRests, StepOf
  <2> QED BY <1>0, <1>3, <2>2, <2>4, DeployQuiet, Zenon
<1>6. CASE /\ c \in DOMAIN receipts /\ s # None /\ Gateway!Goto(r, "preimage")
           /\ rpcReq' = [rpcReq EXCEPT ![r].service = s, ![r].polls = 0]
  <2>0. c \in DOMAIN receipts /\ s # None /\ Gateway!Goto(r, "preimage")
    BY <1>6, Zenon
  <2>1. rpcReq' = WithPolls(WithService(rpcReq, r, s), r, 0)
    BY <1>6, Zenon DEF WithPolls, WithService
  <2> HIDE DEF s
  <2>2. rpcReq'[r].correlation = c /\ rpcReq'[r].service = s
    BY <1>1, <2>0, <2>1, StepService, Zenon
  <2>3. StepOf(r) /\ rpcPc'[r] = "preimage"
    BY <1>1, <2>0, <2>1, StepService, Zenon
  <2>4. \A x \in DeployRequests : x # r => rpcReq'[x] = rpcReq[x] /\ rpcPc'[x] = rpcPc[x]
    BY Zenon, <1>1, <2>3 DEF StepOf
  <2>5. NonceInv /\ ReceiptInv /\ PreimageInv /\ rpcReq[r].service = None /\ Asked(r)
    BY <1>0 DEF DeployInv, Asked
  <2>6. \A x \in DeployRequests : (Asked(x)' => Asked(x)) /\ rpcReq'[x].correlation = rpcReq[x].correlation
    BY <2>2, <2>4, <2>5 DEF Asked
  <2>7. NonceInv'
    BY <1>0, <2>5, <2>6, Zenon DEF NonceInv, IsOp
  <2>8. ReceiptInv'
    <3>1. ASSUME NEW x \in DeployRequests, rpcReq'[x].service # None
          PROVE  rpcReq'[x].correlation \in DOMAIN receipts /\ receipts[rpcReq'[x].correlation] = rpcReq'[x].service
      <4>1. CASE x = r
        BY <2>0, <2>2, <4>1 DEF s
      <4>2. CASE x # r
        BY <2>4, <2>5, <3>1, <4>2, Zenon DEF ReceiptInv
      <4> QED BY <4>1, <4>2
    <3> QED BY <1>0, <2>5, <3>1, Zenon DEF ReceiptInv
  <2>9. PreimageInv'
    <3>1. ASSUME NEW t \in preimages \cup DOMAIN provided
          PROVE  t # None /\ \E x \in DeployRequests : rpcReq'[x].service = t /\ rpcPc'[x] # "preimage"
      <4>1. t # None
        BY <2>5 DEF PreimageInv
      <4>2. PICK x \in DeployRequests : rpcReq[x].service = t /\ rpcPc[x] # "preimage"
        BY <2>5 DEF PreimageInv
      <4>3. x # r
        BY Zenon, <2>5, <4>1, <4>2
      <4> QED BY <2>4, <4>1, <4>2, <4>3, Zenon
    <3> QED BY <1>0, <2>5, <3>1, Zenon DEF PreimageInv
  <2>10. DeployInv'
    BY <1>0, <1>3, <2>0, <2>2, <2>3, <2>7, <2>8, <2>9, DeployMoves
  <2> QED BY <1>0, <2>3, <2>10, Zenon
<1> QED BY <1>2, <1>4, <1>5, <1>6, Zenon

(* submit_preimage_finalized: the preimage of a service is submitted by its   *)
(* own deployment only, so it has not been provided before.                   *)
LEMMA SubmitPreimageKeeps ==
    ASSUME GatewayType, DeployInv, NEW r \in DeployRequests, Gateway!SubmitPreimage(r)
    PROVE  StepOf(r) /\ rpcPc[r] = "preimage" /\ DeployInv' /\ rpcPc'[r] \in {"poll_ready", "error"}
<1> DEFINE s == rpcReq[r].service
<1>0. rpcPc[r] = "preimage" /\ UNCHANGED <<rpcReq, opNonce, opCache, late, ops, receipts, services, provided>>
  BY Zenon DEF Gateway!SubmitPreimage, Gateway!At, Gateway!chainVars
<1>1. r \in Gateway!Requests /\ DeployRequests \subseteq Gateway!Requests /\ late \in Seq(Codes)
  BY Zenon DEF Gateway!Requests, DeployInv
<1>2. \/ Gateway!Goto(r, "poll_ready") /\ preimages' = preimages \cup {s}
      \/ Gateway!Goto(r, "error") /\ UNCHANGED preimages
  BY Zenon DEF Gateway!SubmitPreimage, Gateway!Ends
<1>3. CASE Gateway!Goto(r, "error") /\ UNCHANGED preimages
  <2>1. StepOf(r) /\ rpcPc'[r] = "error"
    BY Zenon, <1>0, <1>1, <1>3, StepKept
  <2>2. \A x \in DeployRequests : DeployRests(x)
    BY <1>0, <1>1, <2>1 DEF DeployRests, StepOf
  <2> QED BY Zenon, <1>0, <1>1, <1>3, <2>1, <2>2, DeployQuiet
<1>4. CASE Gateway!Goto(r, "poll_ready") /\ preimages' = preimages \cup {s}
  <2>1. StepOf(r) /\ rpcPc'[r] = "poll_ready"
    BY Zenon, <1>0, <1>1, <1>4, StepKept
  <2>2. \A x \in DeployRequests : x # r => rpcPc'[x] = rpcPc[x]
    BY Zenon, <1>1, <2>1 DEF StepOf
  <2>3. NonceInv /\ ReceiptInv /\ PreimageInv /\ s # None
    BY Zenon, <1>0 DEF DeployInv
  <2>4. \A x \in DeployRequests : Asked(x)' => Asked(x)
    BY <1>0, <2>1, <2>2 DEF Asked
  <2>5. NonceInv'
    BY <1>0, <2>3, <2>4, Zenon DEF NonceInv, IsOp
  <2>6. ReceiptInv'
    BY <1>0, <2>3, Zenon DEF ReceiptInv
  <2>7. s \notin DOMAIN provided
    <3> SUFFICES ASSUME s \in DOMAIN provided PROVE FALSE
      OBVIOUS
    <3>1. PICK x \in DeployRequests : rpcReq[x].service = s /\ rpcPc[x] # "preimage"
      BY Zenon, <2>3 DEF PreimageInv
    <3>2. rpcReq[x].correlation = rpcReq[r].correlation
      BY Zenon, <2>3, <3>1 DEF ReceiptInv
    <3>3. x = r
      BY <2>3, <3>1, <3>2 DEF NonceInv, Asked
    <3> QED BY <1>0, <3>1, <3>3, Zenon
  <2>8. PreimageInv'
    <3>1. ASSUME NEW t \in preimages \cup DOMAIN provided
          PROVE  t # None /\ \E x \in DeployRequests : rpcReq[x].service = t /\ rpcPc'[x] # "preimage"
      <4>1. PICK x \in DeployRequests : rpcReq[x].service = t /\ rpcPc[x] # "preimage"
        BY <2>3 DEF PreimageInv
      <4>2. rpcPc'[x] # "preimage"
        BY <1>0, <2>2, <4>1
      <4> QED BY Zenon, <2>3, <4>1, <4>2 DEF PreimageInv
    <3>2. \E x \in DeployRequests : rpcReq[x].service = s /\ rpcPc'[x] # "preimage"
      BY <2>1
    <3>3. preimages' = preimages \cup {s} /\ provided' = provided /\ rpcReq' = rpcReq
      BY <1>0, <1>4
    <3> HIDE DEF s
    <3>4. preimages' \cap DOMAIN provided' = {}
      BY <2>3, <2>7, <3>3 DEF PreimageInv
    <3>5. \A t \in preimages' \cup DOMAIN provided' :
              t # None /\ \E x \in DeployRequests : rpcReq'[x].service = t /\ rpcPc'[x] # "preimage"
      BY Zenon, <2>3, <3>1, <3>2, <3>3
    <3> QED BY Zenon, <3>4, <3>5 DEF PreimageInv
  <2>9. rpcReq'[r].service # None
    BY <1>0, <2>3
  <2>10. DeployInv'
    BY <1>0, <1>1, <2>1, <2>5, <2>6, <2>8, <2>9, DeployMoves, Zenon
  <2> QED BY Zenon, <1>0, <2>1, <2>10
<1> QED BY <1>2, <1>3, <1>4, Zenon
(* wait_for_service_ready: the deployment is reported once its service and    *)
(* its preimage are there at the block of the context.                        *)
LEMMA ReadyKeeps ==
    ASSUME GatewayType, DeployInv, NEW r \in DeployRequests, Gateway!PollReady(r)
    PROVE  StepOf(r) /\ rpcPc[r] = "ready_at" /\ DeployInv' /\ rpcPc'[r] \in {"poll_ready", "ok", "error"}
<1> DEFINE s == rpcReq[r].service
<1>0. rpcPc[r] = "ready_at" /\ UNCHANGED <<opNonce, opCache, late, ops, preimages, receipts, services, provided>>
  BY DEF Gateway!PollReady, Gateway!At, Gateway!opVars, Gateway!chainVars
<1>1. /\ r \in Gateway!Requests /\ DeployRequests \subseteq Gateway!Requests
      /\ late \in Seq(Codes) /\ IsReqs(rpcReq)
  BY DEF Gateway!Requests, DeployInv, GatewayType
<1>2. \/ Gateway!ReadyAt(r, rpcReq[r].context) /\ Gateway!Goto(r, "ok") /\ UNCHANGED rpcReq
      \/ Gateway!Polled(r) /\ Gateway!Goto(r, "poll_ready")
      \/ Gateway!Goto(r, "error") /\ UNCHANGED rpcReq
  BY Zenon DEF Gateway!PollReady, Gateway!Ends
<1>3. CASE Gateway!Goto(r, "error") /\ UNCHANGED rpcReq
  <2>1. StepOf(r) /\ rpcPc'[r] = "error"
    BY Zenon, <1>1, <1>3, StepKept
  <2>2. \A x \in DeployRequests : DeployRests(x)
    BY Zenon, <1>1, <1>3, <2>1 DEF DeployRests, StepOf
  <2> QED BY <1>0, <1>1, <2>1, <2>2, DeployQuiet
<1>4. CASE Gateway!Polled(r) /\ Gateway!Goto(r, "poll_ready")
  <2>2. /\ StepOf(r)
        /\ rpcReq'[r].correlation = rpcReq[r].correlation /\ rpcReq'[r].service = rpcReq[r].service
    BY <1>1, <1>4, StepPolled
  <2>3. rpcPc'[r] = "poll_ready"
    BY <1>1, <1>4, Goes
  <2>4. \A x \in DeployRequests : DeployRests(x)
    BY <1>0, <1>1, <2>2, <2>3, Zenon DEF DeployRests, StepOf
  <2> QED BY Zenon, <1>0, <1>1, <2>2, <2>3, <2>4, DeployQuiet
<1>5. CASE Gateway!ReadyAt(r, rpcReq[r].context) /\ Gateway!Goto(r, "ok") /\ UNCHANGED rpcReq
  <2>1. StepOf(r) /\ rpcPc'[r] = "ok"
    BY <1>1, <1>5, StepKept
  <2>2. \A x \in DeployRequests : x # r => rpcPc'[x] = rpcPc[x]
    BY Zenon, <1>1, <2>1 DEF StepOf
  <2>3. NonceInv /\ ReceiptInv /\ PreimageInv /\ s # None
    BY Zenon, <1>0 DEF DeployInv
  <2>4. \A x \in DeployRequests : Asked(x)' => Asked(x)
    BY <1>5, <2>1, <2>2 DEF Asked
  <2>5. NonceInv'
    BY <1>0, <1>5, <2>3, <2>4, Zenon DEF NonceInv, IsOp
  <2>6. ReceiptInv'
    BY <1>0, <1>5, <2>3 DEF ReceiptInv
  <2>7. PreimageInv'
    <3>1. ASSUME NEW t \in preimages \cup DOMAIN provided
          PROVE  t # None /\ \E x \in DeployRequests : rpcReq[x].service = t /\ rpcPc'[x] # "preimage"
      <4>1. PICK x \in DeployRequests : rpcReq[x].service = t /\ rpcPc[x] # "preimage"
        BY <2>3 DEF PreimageInv
      <4>2. rpcPc'[x] # "preimage"
        BY Zenon, <2>1, <2>2, <4>1
      <4> QED BY <2>3, <4>1, <4>2 DEF PreimageInv
    <3> QED BY <1>0, <1>5, <2>3, <3>1, ZenonT(40) DEF PreimageInv
  <2>8. s \in DOMAIN services
    BY <2>3 DEF ReceiptInv
  <2>9. /\ s \in DOMAIN provided /\ services[s].code = rpcReq[r].code
        /\ services[s].at <= rpcReq[r].context /\ provided[s] <= rpcReq[r].context
    BY <1>5, Zenon DEF Gateway!ReadyAt
  <2>10. Gateway!DeploymentReady'
    <3> SUFFICES ASSUME NEW x \in DeployRequests, rpcPc'[x] = "ok"
                 PROVE  LET t == rpcReq[x].service
                        IN  /\ t \in DOMAIN services /\ t \in DOMAIN provided
                            /\ services[t].code = rpcReq[x].code
                            /\ services[t].at <= rpcReq[x].context
                            /\ provided[t] <= rpcReq[x].context
      BY <1>0, <1>5, Zenon DEF Gateway!DeploymentReady, Gateway!Deployed
    <3>1. CASE x = r
      BY <2>8, <2>9, <3>1, ZenonT(40)
    <3>2. CASE x # r
      <4>1. x \in Gateway!Deployed
        BY Zenon, <2>2, <3>2 DEF Gateway!Deployed
      <4> QED BY <4>1 DEF DeployInv, Gateway!DeploymentReady
    <3> QED BY <3>1, <3>2, Zenon
  <2>11. ASSUME NEW x \in DeployRequests
         PROVE  /\ rpcPc'[x] \in {"new", "create", "poll_receipt"} => rpcReq[x].service = None
                /\ rpcPc'[x] = "create" => rpcReq[x].code \in Codes
                /\ rpcPc'[x] \in {"preimage", "poll_ready", "ready_at", "ok"} => rpcReq[x].service # None
    BY <2>1, <2>2, <2>3 DEF DeployInv
  <2>12. DeployInv'
    BY <1>0, <1>1, <1>5, <2>5, <2>6, <2>7, <2>10, <2>11, Zenon DEF DeployInv
  <2> QED BY Zenon, <1>0, <2>1, <2>12
<1> QED BY <1>2, <1>3, <1>4, <1>5, Zenon

(* The deployments do not move, and what they hold of the chain stays. *)
LEMMA ChainMoves ==
    ASSUME DeployInv, UNCHANGED <<rpcPc, rpcReq>>, late' \in Seq(Codes),
           NonceInv', ReceiptInv', PreimageInv',
           \A s \in DOMAIN services : s \in DOMAIN services' /\ services'[s] = services[s],
           \A s \in DOMAIN provided : s \in DOMAIN provided' /\ provided'[s] = provided[s]
    PROVE  DeployInv'
<1>1. Gateway!DeploymentReady'
  <2> SUFFICES ASSUME NEW x \in DeployRequests, rpcPc[x] = "ok"
               PROVE  LET t == rpcReq[x].service
                      IN  /\ t \in DOMAIN services' /\ t \in DOMAIN provided'
                          /\ services'[t].code = rpcReq[x].code
                          /\ services'[t].at <= rpcReq[x].context
                          /\ provided'[t] <= rpcReq[x].context
    BY Zenon DEF Gateway!DeploymentReady, Gateway!Deployed
  <2>1. x \in Gateway!Deployed
    BY DEF Gateway!Deployed
  <2> QED BY Zenon, <2>1 DEF DeployInv, Gateway!DeploymentReady
<1> QED BY <1>1, Zenon DEF DeployInv

(* An extrinsic left in the pool takes the next nonce. *)
LEMMA IncludeLateKeeps ==
    ASSUME DeployInv, Gateway!IncludeLate
    PROVE  DeployInv'
<1> DEFINE op == Gateway!SystemOp(opNonce, Head(late))
<1>1. /\ late # <<>> /\ late' = Tail(late) /\ ops' = ops \cup {op} /\ opNonce' = opNonce + 1
      /\ UNCHANGED <<rpcPc, rpcReq, opCache, preimages, receipts, services, provided>>
  BY DEF Gateway!IncludeLate, Gateway!chainVars
<1>2. NonceInv /\ ReceiptInv /\ PreimageInv /\ late \in Seq(Codes) /\ opNonce \in Nat
  BY Zenon DEF DeployInv, NonceInv
<1>3. late' \in Seq(Codes)
  BY <1>1, <1>2
<1>4. IsOp(op) /\ op.nonce = opNonce
  BY <1>2 DEF IsOp, Gateway!SystemOp
<1> HIDE DEF op
<1>5. NonceInv'
  <2>1. \A o \in ops \cup DOMAIN receipts : IsOp(o) /\ o.nonce \in Nat /\ o.nonce < opNonce
    BY <1>2, Zenon DEF NonceInv, IsOp
  <2>2. \A o \in ops' \cup DOMAIN receipts' : IsOp(o) /\ o.nonce < opNonce'
    BY <1>1, <1>2, <1>4, <2>1
  <2>3. op \notin DOMAIN receipts
    BY <1>2, <1>4, <2>1
  <2>4. ops' \cap DOMAIN receipts' = {}
    BY Zenon, <1>1, <1>2, <2>3 DEF NonceInv
  <2>5. opNonce' \in Nat /\ (opCache' # None => opCache' \in Nat /\ opCache' <= opNonce')
    BY <1>1, <1>2 DEF NonceInv
  <2>6. ASSUME NEW r \in DeployRequests, Asked(r)
        PROVE  rpcReq[r].correlation.nonce \in Nat /\ rpcReq[r].correlation.nonce < opNonce'
               /\ (opCache # None => rpcReq[r].correlation.nonce < opCache)
    <3>1. rpcReq[r].correlation.nonce \in Nat /\ rpcReq[r].correlation.nonce < opNonce
          /\ (opCache # None => rpcReq[r].correlation.nonce < opCache)
      BY Zenon, <1>2, <2>6 DEF NonceInv
    <3> QED BY <1>1, <1>2, <3>1
  <2>7. \A r \in DeployRequests : Asked(r)' <=> Asked(r)
    BY <1>1 DEF Asked
  <2> QED BY <1>1, <1>2, <2>2, <2>4, <2>5, <2>6, <2>7, Zenon DEF NonceInv, IsOp
<1>6. ReceiptInv' /\ PreimageInv'
  BY <1>1, <1>2, Zenon DEF ReceiptInv, PreimageInv
<1> QED BY <1>1, <1>3, <1>5, <1>6, ChainMoves

(* The numbers up to the next one. *)
LEMMA NextNumber ==
    ASSUME NEW n \in Nat
    PROVE  (1..n) \cup {n + 1} = 1..(n + 1) /\ n + 1 \notin 1..n /\ n + 1 \in Nat
OBVIOUS

(* The number of a new service is one that no service has. *)
LEMMA NewService ==
    ASSUME Counting, NEW n \in Nat, NEW S, S = 1..n
    PROVE  Gateway!Cardinality(S) = n /\ S \cup {n + 1} = 1..(n + 1) /\ n + 1 \notin S
<1>1. Cardinality(S) = n
  <2>1. Cardinality(1..n) = IF 1 > n THEN 0 ELSE n - 1 + 1
    BY DEF Counting
  <2> QED BY <2>1
<1>2. Gateway!Cardinality(S) = n
  BY <1>1, GatewayCardinality
<1>3. S \cup {n + 1} = 1..(n + 1) /\ n + 1 \notin S
  BY Zenon, NextNumber
<1> QED BY <1>2, <1>3

(* Service 0 executes an operation: a receipt for it, and a service of its    *)
(* own when it is not rejected.                                               *)
LEMMA ExecuteOpKeeps ==
    ASSUME Counting, Gateway!Assumption, DeployInv, NEW op \in ops, Gateway!ExecuteOp(op)
    PROVE  DeployInv'
<1> DEFINE id == Gateway!Cardinality(DOMAIN services) + 1
           info == [code |-> op.code, at |-> block + 1]
<1>1. ops' = ops \ {op} /\ UNCHANGED <<rpcPc, rpcReq, opNonce, opCache, late, preimages, provided>>
  BY Zenon DEF Gateway!ExecuteOp
<1>2. \/ services' = Gateway!Insert(services, id, info) /\ receipts' = Gateway!Insert(receipts, op, id)
      \/ services' = services /\ receipts' = Gateway!Insert(receipts, op, None)
      \/ services' = services /\ receipts' = receipts
  BY Zenon DEF Gateway!ExecuteOp
<1>3. NonceInv /\ ReceiptInv /\ PreimageInv /\ late' \in Seq(Codes)
  BY <1>1, Zenon DEF DeployInv
<1>4. PICK n \in Nat : DOMAIN services = 1..n
  BY <1>3, Zenon DEF ReceiptInv
<1>5. id = n + 1 /\ DOMAIN services \cup {n + 1} = 1..(n + 1) /\ n + 1 \notin DOMAIN services
  BY <1>4, NewService, ZenonT(40)
<1>6. op \notin DOMAIN receipts
  BY <1>3 DEF NonceInv
<1>7. n + 1 # None
  <2>1. n + 1 \in Nat
    BY <1>4
  <2> QED BY <2>1 DEF Gateway!Assumption
<1> HIDE DEF id, info
<1>8. /\ DOMAIN receipts \subseteq DOMAIN receipts' /\ DOMAIN receipts' \subseteq DOMAIN receipts \cup {op}
      /\ \A o \in DOMAIN receipts : receipts'[o] = receipts[o]
      /\ op \in DOMAIN receipts' => \/ receipts'[op] = None
                                    \/ receipts'[op] = n + 1 /\ n + 1 \in DOMAIN services'
      /\ \A s \in DOMAIN services : s \in DOMAIN services' /\ services'[s] = services[s]
      /\ \E m \in Nat : DOMAIN services' = 1..m
  <2>1. CASE services' = Gateway!Insert(services, id, info) /\ receipts' = Gateway!Insert(receipts, op, id)
    <3>1. /\ DOMAIN receipts' = DOMAIN receipts \cup {op} /\ receipts'[op] = id
          /\ \A x \in DOMAIN receipts : x # op => receipts'[x] = receipts[x]
      BY Zenon, <2>1 DEF Gateway!Insert
    <3>2. /\ DOMAIN services' = DOMAIN services \cup {id}
          /\ \A x \in DOMAIN services : x # id => services'[x] = services[x]
      BY Zenon, <2>1 DEF Gateway!Insert
    <3>3. DOMAIN services' = 1..(n + 1) /\ n + 1 \in Nat
      BY Zenon, <1>4, <1>5, <3>2, NextNumber
    <3>4. \E m \in Nat : DOMAIN services' = 1..m
      BY <3>3
    <3> QED BY <1>5, <1>6, <3>1, <3>2, <3>4, Zenon
  <2>2. CASE services' = services /\ receipts' = Gateway!Insert(receipts, op, None)
    <3>1. /\ DOMAIN receipts' = DOMAIN receipts \cup {op} /\ receipts'[op] = None
          /\ \A x \in DOMAIN receipts : x # op => receipts'[x] = receipts[x]
      BY <2>2 DEF Gateway!Insert
    <3> QED BY Zenon, <1>4, <1>6, <2>2, <3>1
  <2>3. CASE services' = services /\ receipts' = receipts
    BY <1>4, <1>6, <2>3
  <2> QED BY <1>2, <2>1, <2>2, <2>3, Zenon
<1>9. NonceInv'
  <2>1. \A o \in ops' \cup DOMAIN receipts' : o \in ops \cup DOMAIN receipts
    BY <1>1, <1>8, Zenon
  <2>2. ops' \cap DOMAIN receipts' = {}
    BY <1>1, <1>3, <1>8, Zenon DEF NonceInv
  <2>3. \A r \in DeployRequests : Asked(r)' <=> Asked(r)
    BY <1>1 DEF Asked
  <2> QED BY <1>1, <1>3, <2>1, <2>2, <2>3, Zenon DEF NonceInv, IsOp
<1>10. ReceiptInv'
  <2>1. ASSUME NEW o \in DOMAIN receipts', receipts'[o] # None
        PROVE  receipts'[o] \in DOMAIN services'
    <3>1. CASE o = op
      BY <1>8, <2>1, <3>1, Zenon
    <3>2. CASE o # op
      BY <1>3, <1>8, <2>1, <3>2, Zenon DEF ReceiptInv
    <3> QED BY <3>1, <3>2
  <2>2. ASSUME NEW a \in DOMAIN receipts', NEW b \in DOMAIN receipts', receipts'[a] # None,
               receipts'[a] = receipts'[b]
        PROVE  a = b
    <3>1. \A o \in DOMAIN receipts : receipts[o] # None => receipts[o] # n + 1
      BY <1>3, <1>5, ZenonT(40) DEF ReceiptInv
    <3>2. CASE a # op /\ b # op
      BY <1>3, <1>8, <2>2, <3>2, Zenon DEF ReceiptInv
    <3>3. CASE a = op /\ b # op
      BY <1>8, <2>2, <3>1, <3>3, Zenon
    <3>4. CASE a # op /\ b = op
      BY <1>8, <2>2, <3>1, <3>4
    <3> QED BY <3>2, <3>3, <3>4
  <2>3. ASSUME NEW r \in DeployRequests, rpcReq[r].service # None
        PROVE  rpcReq[r].correlation \in DOMAIN receipts' /\ receipts'[rpcReq[r].correlation] = rpcReq[r].service
    BY <1>3, <1>8, <2>3, Zenon DEF ReceiptInv
  <2> QED BY Zenon, <1>1, <1>8, <2>1, <2>2, <2>3 DEF ReceiptInv
<1>11. PreimageInv'
  BY <1>1, <1>3, Zenon DEF PreimageInv
<1>12. \A s \in DOMAIN provided : s \in DOMAIN provided' /\ provided'[s] = provided[s]
  BY Zenon, <1>1
<1> QED BY Zenon, <1>1, <1>3, <1>8, <1>9, <1>10, <1>11, <1>12, ChainMoves

(* A preimage is provided, or quarantined. *)
LEMMA ProvidePreimageKeeps ==
    ASSUME DeployInv, NEW s \in preimages, Gateway!ProvidePreimage(s)
    PROVE  DeployInv'
<1>1. /\ preimages' = preimages \ {s}
      /\ UNCHANGED <<rpcPc, rpcReq, opNonce, opCache, late, ops, receipts, services>>
  BY DEF Gateway!ProvidePreimage
<1>2. provided' = provided \/ provided' = Gateway!Insert(provided, s, block + 1)
  BY Zenon DEF Gateway!ProvidePreimage
<1>3. NonceInv /\ ReceiptInv /\ PreimageInv /\ late' \in Seq(Codes)
  BY Zenon, <1>1 DEF DeployInv
<1>4. s \notin DOMAIN provided
  BY <1>3 DEF PreimageInv
<1>5. /\ DOMAIN provided' \subseteq DOMAIN provided \cup {s}
      /\ \A x \in DOMAIN provided : x \in DOMAIN provided' /\ provided'[x] = provided[x]
  BY <1>2, <1>4 DEF Gateway!Insert
<1>6. NonceInv'
  BY <1>1, <1>3, Zenon DEF NonceInv, IsOp, Asked
<1>7. ReceiptInv'
  BY <1>1, <1>3, Zenon DEF ReceiptInv
<1>8. PreimageInv'
  <2>1. preimages' \cap DOMAIN provided' = {}
    BY <1>1, <1>3, <1>5, Zenon DEF PreimageInv
  <2>2. \A t \in preimages' \cup DOMAIN provided' : t \in preimages \cup DOMAIN provided
    BY <1>1, <1>5
  <2> QED BY <1>1, <1>3, <2>1, <2>2, Zenon DEF PreimageInv
<1> QED BY Zenon, <1>1, <1>3, <1>5, <1>6, <1>7, <1>8, ChainMoves
-----------------------------------------------------------------------------
(* The steps of the gateway, request by request *)

(* A request is admitted, with what it asks for. *)
LEMMA AdmitStep ==
    ASSUME GatewayType, NEW r \in Gateway!Requests, NEW p, NEW c, Gateway!Admit(r, p, c)
    PROVE  /\ StepOf(r) /\ rpcPc[r] = "new" /\ rpcPc'[r] \in {Gateway!FirstStep(r), "error"}
           /\ rpcReq'[r].package = p /\ rpcReq'[r].code = c
           /\ rpcReq'[r].correlation = rpcReq[r].correlation /\ rpcReq'[r].service = rpcReq[r].service
           /\ Gateway!Cardinality(Gateway!Active) < MaxConcurrency
           /\ UNCHANGED <<Gateway!fileVars, Gateway!opVars, Gateway!chainVars>>
<1> DEFINE q == WithPackage(rpcReq, r, p)
<1>1. rpcReq' = WithCode(q, r, c) /\ IsReqs(rpcReq)
  <2>1. rpcReq' = [rpcReq EXCEPT ![r].package = p, ![r].code = c]
    BY Zenon DEF Gateway!Admit
  <2> QED BY <2>1, Zenon DEF WithCode, WithPackage, GatewayType
<1>2. /\ IsReqs(q) /\ OthersKept(q, rpcReq, r) /\ q[r].package = p
      /\ q[r].correlation = rpcReq[r].correlation /\ q[r].service = rpcReq[r].service
  BY <1>1, SetPackage
<1> HIDE DEF q
<1>3. /\ IsReqs(rpcReq') /\ OthersKept(rpcReq', q, r) /\ rpcReq'[r].package = p /\ rpcReq'[r].code = c
      /\ rpcReq'[r].correlation = rpcReq[r].correlation /\ rpcReq'[r].service = rpcReq[r].service
  BY <1>1, <1>2, SetCode
<1>4. OthersKept(rpcReq', rpcReq, r)
  BY <1>2, <1>3, Zenon DEF OthersKept
<1>5. /\ rpcPc[r] = "new" /\ (Gateway!Goto(r, Gateway!FirstStep(r)) \/ Gateway!Goto(r, "error"))
      /\ Gateway!Cardinality(Gateway!Active) < MaxConcurrency
      /\ UNCHANGED <<Gateway!fileVars, Gateway!opVars, Gateway!chainVars>>
  BY Zenon DEF Gateway!Admit, Gateway!At, Gateway!Ends
<1>6. StepOf(r) /\ rpcPc'[r] \in {Gateway!FirstStep(r), "error"}
  BY <1>3, <1>4, <1>5, StepSet, Zenon
<1> QED BY <1>3, <1>5, <1>6, Zenon

(* A step of a request that is being served, of the requests R *)
ServedStep(r) ==
    /\ StepOf(r) /\ rpcPc[r] \notin Gateway!Finished /\ rpcPc'[r] # "busy"

(* The steps of submit_work do not touch the deployments. *)
LEMMA WorkStep ==
    ASSUME GatewayType, NEW r \in WorkRequests,
           \/ Gateway!BundleExists(r) \/ Gateway!BundleMissing(r) \/ Gateway!OpenTemporary(r)
           \/ Gateway!WriteTemporary(r) \/ Gateway!Rename(r) \/ Gateway!SubmitWork(r)
    PROVE  /\ ServedStep(r)
           /\ UNCHANGED <<opNonce, opCache, late, ops, preimages, receipts, services, provided>>
<1>1. r \in Gateway!Requests
  BY DEF Gateway!Requests
<1>2. /\ UNCHANGED rpcReq /\ rpcPc[r] \notin Gateway!Finished
      /\ \E step \in {"submit", "error", "open", "write", "rename", "ok"} : Gateway!Goto(r, step)
      /\ UNCHANGED <<opNonce, opCache, late, ops, preimages, receipts, services, provided>>
  <2>1. CASE Gateway!BundleExists(r)
    BY <2>1, Zenon DEF Gateway!BundleExists, Gateway!At, Gateway!Ends, Gateway!Finished, Gateway!opVars, Gateway!chainVars
  <2>2. CASE Gateway!BundleMissing(r)
    BY <2>2 DEF Gateway!BundleMissing, Gateway!At, Gateway!Finished, Gateway!opVars, Gateway!chainVars
  <2>3. CASE Gateway!OpenTemporary(r)
    BY <2>3, Zenon DEF Gateway!OpenTemporary, Gateway!At, Gateway!Finished, Gateway!opVars, Gateway!chainVars
  <2>4. CASE Gateway!WriteTemporary(r)
    BY Zenon, <2>4 DEF Gateway!WriteTemporary, Gateway!At, Gateway!Finished, Gateway!opVars, Gateway!chainVars
  <2>5. CASE Gateway!Rename(r)
    BY <2>5 DEF Gateway!Rename, Gateway!At, Gateway!Ends, Gateway!Finished, Gateway!opVars, Gateway!chainVars
  <2>6. CASE Gateway!SubmitWork(r)
    BY <2>6, Zenon DEF Gateway!SubmitWork, Gateway!At, Gateway!Ends, Gateway!Finished, Gateway!opVars
  <2> QED BY <2>1, <2>2, <2>3, <2>4, <2>5, <2>6, Zenon
<1>3. PICK step \in {"submit", "error", "open", "write", "rename", "ok"} : Gateway!Goto(r, step)
  BY <1>2
<1>4. StepOf(r) /\ rpcPc'[r] = step
  BY <1>1, <1>2, <1>3, StepKept, Zenon
<1> QED BY <1>2, <1>4, Zenon DEF ServedStep

(* The steps of work_status touch neither the bundles nor the deployments. *)
LEMMA StatusStep ==
    ASSUME GatewayType, NEW r \in StatusRequests,
           Gateway!ReadContext(r) \/ Gateway!ReadStatus(r) \/ Gateway!ReadReceipt(r)
    PROVE  /\ ServedStep(r)
           /\ UNCHANGED <<Gateway!fileVars, Gateway!opVars, Gateway!chainVars>>
<1>1. r \in Gateway!Requests /\ IsReqs(rpcReq)
  BY Zenon DEF Gateway!Requests, GatewayType
<1>2. CASE Gateway!ReadContext(r)
  <2>1. rpcReq' = WithContext(rpcReq, r, block)
    BY Zenon, <1>2 DEF Gateway!ReadContext, WithContext
  <2>2. IsReqs(rpcReq') /\ OthersKept(rpcReq', rpcReq, r)
    BY <1>1, <2>1, SetContext
  <2>3. rpcPc[r] = "context" /\ Gateway!Goto(r, "status")
        /\ UNCHANGED <<Gateway!fileVars, Gateway!opVars, Gateway!chainVars>>
    BY <1>2, Zenon DEF Gateway!ReadContext, Gateway!At
  <2>4. StepOf(r) /\ rpcPc'[r] = "status"
    BY <1>1, <2>2, <2>3, StepSet, Zenon
  <2> QED BY <2>3, <2>4 DEF ServedStep, Gateway!Finished
<1>3. CASE Gateway!ReadStatus(r)
  <2>1. \/ UNCHANGED rpcReq /\ Gateway!Goto(r, "error")
        \/ (\E v : rpcReq' = WithStatus(rpcReq, r, v)) /\ (Gateway!Goto(r, "receipt") \/ Gateway!Goto(r, "ok"))
    BY <1>3, Zenon DEF Gateway!ReadStatus, Gateway!Ends, WithStatus
  <2>2. IsReqs(rpcReq') /\ OthersKept(rpcReq', rpcReq, r)
    <3>1. CASE UNCHANGED rpcReq
      BY Zenon, <1>1, <3>1 DEF OthersKept
    <3>2. CASE \E v : rpcReq' = WithStatus(rpcReq, r, v)
      <4>1. PICK v : rpcReq' = WithStatus(rpcReq, r, v)
        BY <3>2
      <4> QED BY <1>1, <4>1, SetStatus
    <3> QED BY <2>1, <3>1, <3>2
  <2>3. rpcPc[r] = "status" /\ UNCHANGED <<Gateway!fileVars, Gateway!opVars, Gateway!chainVars>>
    BY <1>3, Zenon DEF Gateway!ReadStatus, Gateway!At
  <2>4. StepOf(r) /\ rpcPc'[r] \in {"error", "receipt", "ok"}
    BY Zenon, <1>1, <2>1, <2>2, StepSet
  <2> QED BY <2>3, <2>4 DEF ServedStep, Gateway!Finished
<1>4. CASE Gateway!ReadReceipt(r)
  <2>1. rpcPc[r] = "receipt" /\ Gateway!Goto(r, "ok") /\ UNCHANGED rpcReq
        /\ UNCHANGED <<Gateway!fileVars, Gateway!opVars, Gateway!chainVars>>
    BY <1>4, Zenon DEF Gateway!ReadReceipt, Gateway!At, Gateway!Ends
  <2>2. StepOf(r) /\ rpcPc'[r] = "ok"
    BY <1>1, <2>1, StepKept
  <2> QED BY <2>1, <2>2 DEF ServedStep, Gateway!Finished
<1> QED BY <1>2, <1>3, <1>4
(* The steps of create_service do not touch the bundles. *)
LEMMA DeployStep ==
    ASSUME GatewayType, NEW r \in DeployRequests,
           \/ Gateway!SubmitCreateService(r) \/ Gateway!SubmitCreateServiceFailed(r)
           \/ Gateway!SubmitCreateServiceError(r) \/ Gateway!PollReceipt(r)
           \/ Gateway!SubmitPreimage(r) \/ Gateway!PollReadyContext(r) \/ Gateway!PollReady(r)
    PROVE  /\ ServedStep(r)
           /\ UNCHANGED <<tmp, final, files, writes, works>>
<1>1. r \in Gateway!Requests /\ IsReqs(rpcReq)
  BY DEF Gateway!Requests, GatewayType
<1>2. CASE Gateway!SubmitCreateService(r) \/ Gateway!SubmitCreateServiceFailed(r)
  <2>1. /\ rpcPc[r] = "create" /\ Gateway!Goto(r, "poll_receipt")
        /\ UNCHANGED <<Gateway!fileVars, Gateway!chainVars>>
    BY <1>2, Zenon DEF Gateway!SubmitCreateService, Gateway!SubmitCreateServiceFailed, Gateway!At
  <2>2. \E c, own : rpcReq' = WithOwn(WithCorrelation(rpcReq, r, c), r, own)
    BY <1>2, Zenon DEF Gateway!SubmitCreateService, Gateway!SubmitCreateServiceFailed, WithOwn,
       WithCorrelation
  <2>3. PICK c, own : rpcReq' = WithOwn(WithCorrelation(rpcReq, r, c), r, own)
    BY <2>2
  <2>4. StepOf(r) /\ rpcPc'[r] = "poll_receipt"
    BY <1>1, <2>1, <2>3, StepOperation, Zenon
  <2> QED BY Zenon, <2>1, <2>4 DEF ServedStep, Gateway!Finished, Gateway!fileVars, Gateway!chainVars
<1>3. CASE Gateway!SubmitCreateServiceError(r)
  <2>1. /\ rpcPc[r] = "create" /\ Gateway!Goto(r, "error") /\ UNCHANGED rpcReq
        /\ UNCHANGED <<Gateway!fileVars, Gateway!chainVars>>
    BY <1>3, Zenon DEF Gateway!SubmitCreateServiceError, Gateway!At, Gateway!Ends
  <2>2. StepOf(r) /\ rpcPc'[r] = "error"
    BY <1>1, <2>1, StepKept, Zenon
  <2> QED BY <2>1, <2>2, Zenon DEF ServedStep, Gateway!Finished, Gateway!fileVars, Gateway!chainVars
<1>4. CASE Gateway!PollReceipt(r)
  <2>1. rpcPc[r] = "poll_receipt" /\ UNCHANGED <<Gateway!fileVars, Gateway!chainVars>>
    BY <1>4, Zenon DEF Gateway!PollReceipt, Gateway!At
  <2>2. \/ UNCHANGED rpcReq /\ Gateway!Goto(r, "error")
        \/ Gateway!Polled(r) /\ UNCHANGED rpcPc
        \/ /\ Gateway!Goto(r, "preimage")
           /\ \E s : rpcReq' = WithPolls(WithService(rpcReq, r, s), r, 0)
    BY <1>4, Zenon DEF Gateway!PollReceipt, Gateway!Ends, WithPolls, WithService
  <2>3. CASE UNCHANGED rpcReq /\ Gateway!Goto(r, "error")
    <3>1. StepOf(r) /\ rpcPc'[r] = "error"
      BY Zenon, <1>1, <2>3, StepKept
    <3> QED BY <2>1, <3>1, Zenon DEF ServedStep, Gateway!Finished, Gateway!fileVars, Gateway!chainVars
  <2>4. CASE Gateway!Polled(r) /\ UNCHANGED rpcPc
    <3>1. StepOf(r)
      BY <1>1, <2>4, StepPolled, ZenonT(40)
    <3> QED BY <2>1, <2>4, <3>1 DEF ServedStep, Gateway!Finished, Gateway!fileVars, Gateway!chainVars
  <2>5. CASE /\ Gateway!Goto(r, "preimage")
             /\ \E s : rpcReq' = WithPolls(WithService(rpcReq, r, s), r, 0)
    <3>1. PICK s : rpcReq' = WithPolls(WithService(rpcReq, r, s), r, 0)
      BY <2>5
    <3>2. StepOf(r) /\ rpcPc'[r] = "preimage"
      BY <1>1, <2>5, <3>1, StepService, Zenon
    <3> QED BY <2>1, <3>2 DEF ServedStep, Gateway!Finished, Gateway!fileVars, Gateway!chainVars
  <2> QED BY <2>2, <2>3, <2>4, <2>5
<1>5. CASE Gateway!SubmitPreimage(r)
  <2>1. /\ rpcPc[r] = "preimage" /\ UNCHANGED <<Gateway!fileVars, Gateway!chainVars>> /\ UNCHANGED rpcReq
        /\ Gateway!Goto(r, "poll_ready") \/ Gateway!Goto(r, "error")
    BY <1>5, Zenon DEF Gateway!SubmitPreimage, Gateway!At, Gateway!Ends
  <2>2. StepOf(r) /\ rpcPc'[r] \in {"poll_ready", "error"}
    BY <1>1, <2>1, StepKept, Zenon
  <2> QED BY <2>1, <2>2, Zenon DEF ServedStep, Gateway!Finished, Gateway!fileVars, Gateway!chainVars
<1>6. CASE Gateway!PollReadyContext(r)
  <2>1. /\ rpcPc[r] = "poll_ready" /\ Gateway!Goto(r, "ready_at")
        /\ rpcReq' = WithContext(rpcReq, r, block)
        /\ UNCHANGED <<Gateway!fileVars, Gateway!chainVars>>
    BY <1>6, Zenon DEF Gateway!PollReadyContext, Gateway!At, WithContext
  <2>2. IsReqs(rpcReq') /\ OthersKept(rpcReq', rpcReq, r)
    BY <1>1, <2>1, SetContext, Zenon
  <2>3. StepOf(r) /\ rpcPc'[r] = "ready_at"
    BY <1>1, <2>1, <2>2, StepSet, Zenon
  <2> QED BY <2>1, <2>3, Zenon DEF ServedStep, Gateway!Finished, Gateway!fileVars, Gateway!chainVars
<1>7. CASE Gateway!PollReady(r)
  <2>1. rpcPc[r] = "ready_at" /\ UNCHANGED <<Gateway!fileVars, Gateway!chainVars>>
    BY <1>7, Zenon DEF Gateway!PollReady, Gateway!At
  <2>2. \/ UNCHANGED rpcReq /\ (Gateway!Goto(r, "error") \/ Gateway!Goto(r, "ok"))
        \/ Gateway!Polled(r) /\ Gateway!Goto(r, "poll_ready")
    BY <1>7, Zenon DEF Gateway!PollReady, Gateway!Ends
  <2>3. CASE UNCHANGED rpcReq /\ (Gateway!Goto(r, "error") \/ Gateway!Goto(r, "ok"))
    <3>1. StepOf(r) /\ rpcPc'[r] \in {"error", "ok"}
      BY <1>1, <2>3, StepKept
    <3> QED BY <2>1, <3>1, Zenon DEF ServedStep, Gateway!Finished, Gateway!fileVars, Gateway!chainVars
  <2>4. CASE Gateway!Polled(r) /\ Gateway!Goto(r, "poll_ready")
    <3>1. StepOf(r) /\ rpcPc'[r] = "poll_ready"
      BY <1>1, <2>4, StepPolled, Goes
    <3> QED BY <2>1, <3>1, Zenon DEF ServedStep, Gateway!Finished, Gateway!fileVars, Gateway!chainVars
  <2> QED BY <2>2, <2>3, <2>4
<1> QED BY <1>2, <1>3, <1>4, <1>5, <1>6, <1>7, Zenon

(* A request whose read of the chain fails ends. *)
LEMMA ReadFailsStep ==
    ASSUME GatewayType, NEW r \in Gateway!Requests, Gateway!ReadFails(r)
    PROVE  /\ ServedStep(r) /\ rpcPc'[r] = "error" /\ UNCHANGED rpcReq
           /\ UNCHANGED <<Gateway!fileVars, Gateway!opVars, Gateway!chainVars>>
<1>1. /\ rpcPc[r] \in {"context", "status", "receipt", "poll_receipt", "poll_ready", "ready_at"}
      /\ Gateway!Goto(r, "error") /\ UNCHANGED rpcReq
      /\ UNCHANGED <<Gateway!fileVars, Gateway!opVars, Gateway!chainVars>>
  BY Zenon DEF Gateway!ReadFails, Gateway!Ends
<1>2. StepOf(r) /\ rpcPc'[r] = "error"
  BY <1>1, StepKept, Zenon
<1>3. rpcPc[r] \notin Gateway!Finished
  BY <1>1 DEF Gateway!Finished
<1> QED BY <1>1, <1>2, <1>3, Zenon DEF ServedStep

(* A refused request has done nothing. *)
LEMMA BusyStep ==
    ASSUME GatewayType, NEW r \in Gateway!Requests, Gateway!Busy(r)
    PROVE  /\ StepOf(r) /\ rpcPc'[r] = "busy" /\ UNCHANGED rpcReq
           /\ UNCHANGED <<Gateway!fileVars, Gateway!opVars, Gateway!chainVars>>
<1>1. /\ Gateway!Goto(r, "busy") /\ UNCHANGED rpcReq
      /\ UNCHANGED <<Gateway!fileVars, Gateway!opVars, Gateway!chainVars>>
  BY Zenon DEF Gateway!Busy, Gateway!Ends
<1>2. StepOf(r) /\ rpcPc'[r] = "busy"
  BY <1>1, StepKept
<1> QED BY <1>1, <1>2, Zenon

(* A crash ends what is being served. *)
LEMMA CrashStep ==
    ASSUME GatewayType, Gateway!Crash
    PROVE  /\ GatewayType' /\ UNCHANGED rpcReq /\ opCache' = None
           /\ \A r \in Gateway!Requests : rpcPc'[r] = rpcPc[r] \/ rpcPc'[r] = "gone"
           /\ UNCHANGED <<tmp, final, files, writes, works, opNonce, late, ops, preimages,
                          receipts, services, provided>>
<1>1. /\ rpcPc' = [r \in Gateway!Requests |-> IF r \in Gateway!Active THEN "gone" ELSE rpcPc[r]]
      /\ UNCHANGED rpcReq /\ opCache' = None
      /\ UNCHANGED <<tmp, final, files, writes, works, opNonce, late, ops, preimages,
                     receipts, services, provided>>
  BY DEF Gateway!Crash, Gateway!fileVars, Gateway!chainVars
<1>2. IsReqs(rpcReq)'
  BY <1>1, Zenon DEF GatewayType, IsReqs, IsReq
<1>3. GatewayType'
  BY <1>1, <1>2 DEF GatewayType
<1> QED BY <1>1, <1>3
-----------------------------------------------------------------------------
(* The invariants of the gateway *)

(* A step of the chain leaves requests, bundles and works alone. *)
LEMMA ChainStep ==
    ASSUME Gateway!Chain
    PROVE  UNCHANGED <<rpcPc, rpcReq, tmp, final, files, writes, works>>
<1>1. ASSUME NEW p \in Packages, Gateway!ImportWork(p)
      PROVE  UNCHANGED <<rpcPc, rpcReq, tmp, final, files, writes, works>>
  BY <1>1 DEF Gateway!ImportWork, Gateway!fileVars
<1>2. ASSUME NEW op \in ops, Gateway!ExecuteOp(op)
      PROVE  UNCHANGED <<rpcPc, rpcReq, tmp, final, files, writes, works>>
  BY <1>2, Zenon DEF Gateway!ExecuteOp, Gateway!fileVars
<1>3. CASE Gateway!IncludeLate
  BY <1>3 DEF Gateway!IncludeLate, Gateway!fileVars, Gateway!chainVars
<1>4. ASSUME NEW s \in preimages, Gateway!ProvidePreimage(s)
      PROVE  UNCHANGED <<rpcPc, rpcReq, tmp, final, files, writes, works>>
  BY <1>4, Zenon DEF Gateway!ProvidePreimage, Gateway!fileVars
<1> QED BY <1>1, <1>2, <1>3, <1>4, Zenon DEF Gateway!Chain

(* The requests of the three methods *)
WorkAction(r) ==
    \/ Gateway!BundleExists(r) \/ Gateway!BundleMissing(r) \/ Gateway!OpenTemporary(r)
    \/ Gateway!WriteTemporary(r) \/ Gateway!Rename(r) \/ Gateway!SubmitWork(r)
StatusAction(r) == Gateway!ReadContext(r) \/ Gateway!ReadStatus(r) \/ Gateway!ReadReceipt(r)
DeployAction(r) ==
    \/ Gateway!SubmitCreateService(r) \/ Gateway!SubmitCreateServiceFailed(r)
    \/ Gateway!SubmitCreateServiceError(r) \/ Gateway!PollReceipt(r)
    \/ Gateway!SubmitPreimage(r) \/ Gateway!PollReadyContext(r) \/ Gateway!PollReady(r)

(* Whatever the gateway does is a step of one request. *)
LEMMA GatewayCases ==
    ASSUME Gateway!Gateway
    PROVE  \/ \E r \in WorkRequests \cup StatusRequests, p \in Packages : Gateway!Admit(r, p, None)
           \/ \E r \in DeployRequests, c \in Codes : Gateway!Admit(r, None, c)
           \/ \E r \in Gateway!Requests : Gateway!Busy(r)
           \/ \E r \in Gateway!Requests : Gateway!ReadFails(r)
           \/ \E r \in WorkRequests : WorkAction(r)
           \/ \E r \in StatusRequests : StatusAction(r)
           \/ \E r \in DeployRequests : DeployAction(r)
BY Zenon DEF Gateway!Gateway, WorkAction, StatusAction, DeployAction

(* The requests of the three methods are different ones. *)
LEMMA RequestsApart ==
    ASSUME Gateway!Assumption
    PROVE  /\ WorkRequests \subseteq Gateway!Requests /\ StatusRequests \subseteq Gateway!Requests
           /\ DeployRequests \subseteq Gateway!Requests
           /\ \A r \in WorkRequests : r \notin DeployRequests /\ r \notin StatusRequests
           /\ \A r \in StatusRequests : r \notin DeployRequests
BY DEF Gateway!Assumption, Gateway!Requests

(* The first step of a request is its method's. *)
LEMMA FirstSteps ==
    ASSUME Gateway!Assumption, NEW r \in Gateway!Requests
    PROVE  /\ r \in WorkRequests => Gateway!FirstStep(r) = "save"
           /\ r \in DeployRequests => Gateway!FirstStep(r) = "create"
<1>1. CASE r \in WorkRequests
  BY <1>1, RequestsApart DEF Gateway!FirstStep
<1>2. CASE r \in DeployRequests
  <2>1. r \notin WorkRequests /\ r \notin StatusRequests
    BY <1>2, RequestsApart
  <2> QED BY <1>2, <2>1 DEF Gateway!FirstStep
<1> QED BY <1>1, <1>2, RequestsApart

(* The local variables keep their shape, and no permit is lost or made up. *)
LEMMA PermitStep ==
    ASSUME Counting, Gateway!Assumption, GatewayType, AdmissionInv, [Gateway!Next]_(Gateway!vars)
    PROVE  GatewayType' /\ AdmissionInv'
<1>1. ASSUME NEW r \in Gateway!Requests, ServedStep(r) PROVE GatewayType' /\ AdmissionInv'
  BY Zenon, <1>1, PermitsKeptBy DEF ServedStep, StepOf
<1>2. ASSUME NEW r \in Gateway!Requests, NEW p, NEW c, Gateway!Admit(r, p, c)
      PROVE  GatewayType' /\ AdmissionInv'
  <2>1. /\ StepOf(r) /\ rpcPc[r] = "new" /\ rpcPc'[r] \in {Gateway!FirstStep(r), "error"}
        /\ Gateway!Cardinality(Gateway!Active) < MaxConcurrency
    BY <1>2, AdmitStep, Zenon
  <2>2. rpcPc'[r] # "busy"
    BY Zenon, <2>1 DEF Gateway!FirstStep
  <2> QED BY <2>1, <2>2, PermitTaken DEF StepOf
<1>3. ASSUME NEW r \in Gateway!Requests, Gateway!Busy(r) PROVE GatewayType' /\ AdmissionInv'
  BY Zenon, <1>3, BusyStep, PermitRefused DEF StepOf
<1>4. CASE Gateway!Gateway
  <2>1. CASE \E r \in WorkRequests \cup StatusRequests, p \in Packages : Gateway!Admit(r, p, None)
    BY <1>2, <2>1, RequestsApart
  <2>2. CASE \E r \in DeployRequests, c \in Codes : Gateway!Admit(r, None, c)
    BY <1>2, <2>2, RequestsApart
  <2>3. CASE \E r \in Gateway!Requests : Gateway!Busy(r)
    BY <1>3, <2>3
  <2>4. CASE \E r \in Gateway!Requests : Gateway!ReadFails(r)
    BY <1>1, <2>4, ReadFailsStep
  <2>5. CASE \E r \in WorkRequests : WorkAction(r)
    <3>1. PICK r \in WorkRequests : WorkAction(r)
      BY <2>5
    <3>2. ServedStep(r)
      BY <3>1, WorkStep DEF WorkAction
    <3> QED BY <1>1, <3>2, RequestsApart
  <2>6. CASE \E r \in StatusRequests : StatusAction(r)
    <3>1. PICK r \in StatusRequests : StatusAction(r)
      BY <2>6
    <3>2. ServedStep(r)
      BY <3>1, StatusStep DEF StatusAction
    <3> QED BY Zenon, <1>1, <3>2, RequestsApart
  <2>7. CASE \E r \in DeployRequests : DeployAction(r)
    <3>1. PICK r \in DeployRequests : DeployAction(r)
      BY <2>7
    <3>2. ServedStep(r)
      BY <3>1, DeployStep DEF DeployAction
    <3> QED BY Zenon, <1>1, <3>2, RequestsApart
  <2> QED BY Zenon, <1>4, GatewayCases, <2>1, <2>2, <2>3, <2>4, <2>5, <2>6, <2>7
<1>5. CASE UNCHANGED <<rpcPc, rpcReq>>
  <2>1. GatewayType'
    BY Zenon, <1>5 DEF GatewayType, IsReqs, IsReq, Gateway!Requests
  <2>2. Gateway!Active' \subseteq Gateway!Active
    BY <1>5 DEF Gateway!Active, Gateway!Requests, Gateway!Finished
  <2> QED BY ZenonT(40), <1>5, <2>1, <2>2, PermitsKept
<1>6. CASE Gateway!Crash
  <2>1. GatewayType' /\ \A r \in Gateway!Requests : rpcPc'[r] = rpcPc[r] \/ rpcPc'[r] = "gone"
    BY <1>6, CrashStep, Zenon
  <2>2. Gateway!Active' \subseteq Gateway!Active
    BY <2>1 DEF Gateway!Active, Gateway!Requests, Gateway!Finished
  <2> QED BY <2>1, <2>2, PermitsKept, Zenon
<1>7. CASE Gateway!Chain
  BY <1>5, <1>7, ChainStep
<1>8. CASE UNCHANGED Gateway!vars
  BY <1>5, <1>8 DEF Gateway!vars
<1> QED BY Zenon, <1>4, <1>6, <1>7, <1>8 DEF Gateway!Next

(* With one writer for a package at a time, the bundles stay whole. *)
LEMMA BundleStep ==
    ASSUME Gateway!Assumption, OneWriter, GatewayType, BundleInv, [Gateway!Next]_(Gateway!vars)
    PROVE  BundleInv'
<1>1. ASSUME NEW r \in Gateway!Requests, StepOf(r), r \notin WorkRequests \/ rpcPc'[r] \in Over,
             UNCHANGED <<tmp, final, files, writes, works>>
      PROVE  BundleInv'
  <2>1. \A w \in WorkRequests :
            \/ rpcPc'[w] = rpcPc[w] /\ rpcReq'[w].package = rpcReq[w].package
            \/ rpcPc'[w] \in Over
    BY <1>1, RequestsApart DEF StepOf
  <2> QED BY <1>1, <2>1, BundleQuiet, Zenon
<1>2. ASSUME NEW r \in Gateway!Requests, NEW p, NEW c, Gateway!Admit(r, p, c),
             r \in WorkRequests => p \in Packages
      PROVE  BundleInv'
  <2>1. /\ StepOf(r) /\ rpcPc[r] = "new" /\ rpcPc'[r] \in {Gateway!FirstStep(r), "error"}
        /\ rpcReq'[r].package = p
    BY <1>2, AdmitStep, Zenon
  <2>2. UNCHANGED <<Gateway!fileVars, Gateway!chainVars>>
    BY <1>2, Zenon DEF Gateway!Admit
  <2>3. UNCHANGED <<tmp, final, files, writes, works>>
    BY <2>2, Zenon DEF Gateway!fileVars, Gateway!chainVars
  <2>4. CASE r \notin WorkRequests \/ rpcPc'[r] = "error"
    BY <1>1, <2>1, <2>3, <2>4, Zenon DEF Over
  <2>5. CASE r \in WorkRequests /\ rpcPc'[r] # "error"
    <3>1. rpcPc'[r] = "save"
      BY <2>1, <2>5, FirstSteps, Zenon
    <3>2. \A w \in WorkRequests : w # r => rpcPc'[w] = rpcPc[w] /\ rpcReq'[w] = rpcReq[w]
      BY <2>1, RequestsApart, Zenon DEF StepOf
    <3>3. ~\E w \in Gateway!Active \cap WorkRequests : rpcReq[w].package = p
      BY <1>2, <2>5, Zenon DEF Gateway!Admit
    <3>4. \A w \in WorkRequests : Writing(w) => w \in Gateway!Active
      <4>1. WorkRequests \subseteq Gateway!Requests
        BY RequestsApart
      <4>2. \A w \in WorkRequests : Writing(w) => rpcPc[w] \notin Gateway!Finished
        BY Zenon DEF Writing, Gateway!Finished
      <4> QED BY <4>1, <4>2 DEF Gateway!Active
    <3>5. \A w \in WorkRequests : Writing(w) => rpcReq[w].package # rpcReq'[r].package
      BY Zenon, <2>1, <3>3, <3>4
    <3> QED BY <1>2, <2>1, <2>3, <2>5, <3>1, <3>2, <3>5, BundleAdmitted, Zenon
  <2> QED BY <2>4, <2>5
<1>3. CASE Gateway!Gateway
  <2>1. CASE \E r \in WorkRequests \cup StatusRequests, p \in Packages : Gateway!Admit(r, p, None)
    BY Zenon, <1>2, <2>1, RequestsApart
  <2>2. CASE \E r \in DeployRequests, c \in Codes : Gateway!Admit(r, None, c)
    BY <1>2, <2>2, RequestsApart
  <2>3. CASE \E r \in Gateway!Requests : Gateway!Busy(r)
    <3>1. PICK r \in Gateway!Requests : Gateway!Busy(r)
      BY <2>3
    <3>2. StepOf(r) /\ rpcPc'[r] = "busy" /\ UNCHANGED <<tmp, final, files, writes, works>>
      BY Zenon, <3>1, BusyStep DEF Gateway!fileVars, Gateway!chainVars
    <3> QED BY <1>1, <3>2 DEF Over
  <2>4. CASE \E r \in Gateway!Requests : Gateway!ReadFails(r)
    <3>1. PICK r \in Gateway!Requests : Gateway!ReadFails(r)
      BY <2>4
    <3>2. StepOf(r) /\ rpcPc'[r] = "error" /\ UNCHANGED <<tmp, final, files, writes, works>>
      BY Zenon, <3>1, ReadFailsStep DEF ServedStep, Gateway!fileVars, Gateway!chainVars
    <3> QED BY ZenonT(40), <1>1, <3>2 DEF Over
  <2>5. CASE \E r \in WorkRequests : WorkAction(r)
    BY Zenon, <2>5, BundleExistsKeeps, BundleMissingKeeps, OpenTemporaryKeeps, WriteTemporaryKeeps,
       RenameKeeps, SubmitWorkKeeps DEF WorkAction
  <2>6. CASE \E r \in StatusRequests : StatusAction(r)
    <3>1. PICK r \in StatusRequests : StatusAction(r)
      BY <2>6
    <3>2. StepOf(r) /\ UNCHANGED <<tmp, final, files, writes, works>>
      BY <3>1, StatusStep, Zenon DEF StatusAction, ServedStep, Gateway!fileVars, Gateway!chainVars
    <3> QED BY <1>1, <3>2, RequestsApart
  <2>7. CASE \E r \in DeployRequests : DeployAction(r)
    <3>1. PICK r \in DeployRequests : DeployAction(r)
      BY <2>7
    <3>2. StepOf(r) /\ UNCHANGED <<tmp, final, files, writes, works>>
      BY <3>1, DeployStep, Zenon DEF DeployAction, ServedStep
    <3> QED BY <1>1, <3>2, RequestsApart
  <2> QED BY Zenon, <1>3, GatewayCases, <2>1, <2>2, <2>3, <2>4, <2>5, <2>6, <2>7
<1>4. CASE Gateway!Chain
  BY <1>4, ChainStep, BundleQuiet, Zenon
<1>5. CASE Gateway!Crash
  <2>1. \A w \in WorkRequests : rpcReq'[w] = rpcReq[w] /\ (rpcPc'[w] = rpcPc[w] \/ rpcPc'[w] \in Over)
    BY <1>5, CrashStep, RequestsApart, ZenonT(40) DEF Over
  <2> QED BY <1>5, <2>1, CrashStep, BundleQuiet, Zenon
<1>6. CASE UNCHANGED Gateway!vars
  BY <1>6, BundleQuiet DEF Gateway!vars, Gateway!fileVars, Gateway!chainVars
<1> QED BY <1>3, <1>4, <1>5, <1>6 DEF Gateway!Next
(* Where no operation fails in dispatch, the deployments stay sound. *)
LEMMA DeploymentStep ==
    ASSUME Counting, Gateway!Assumption, "dispatch" \notin GatewayFaults, GatewayType, DeployInv,
           [Gateway!Next]_(Gateway!vars)
    PROVE  DeployInv'
<1>0. late \in Seq(Codes)
  BY DEF DeployInv
<1>1. ASSUME NEW r \in Gateway!Requests, StepOf(r),
             r \notin DeployRequests \/ (rpcPc'[r] \in {"error", "busy"} /\ UNCHANGED rpcReq),
             UNCHANGED <<opNonce, ops, receipts, services, preimages, provided>>,
             opCache' = opCache \/ opCache' = None, late' \in Seq(Codes)
      PROVE  DeployInv'
  <2>1. \A x \in DeployRequests : DeployRests(x)
    BY <1>1, RequestsApart, Zenon DEF StepOf, DeployRests
  <2> QED BY <1>1, <2>1, DeployQuiet
<1>2. ASSUME NEW r \in Gateway!Requests, NEW p, NEW c, Gateway!Admit(r, p, c),
             r \in DeployRequests => c \in Codes
      PROVE  DeployInv'
  <2>1. /\ StepOf(r) /\ rpcPc[r] = "new" /\ rpcPc'[r] \in {Gateway!FirstStep(r), "error"}
        /\ rpcReq'[r].code = c
        /\ rpcReq'[r].correlation = rpcReq[r].correlation /\ rpcReq'[r].service = rpcReq[r].service
    BY <1>2, AdmitStep
  <2>2. UNCHANGED <<opNonce, opCache, late, ops, receipts, services, preimages, provided>>
    BY <1>2, AdmitStep, Zenon DEF Gateway!opVars, Gateway!chainVars
  <2>3. r \in DeployRequests => DeployRests(r)
    BY <1>2, <2>1, FirstSteps, Zenon DEF DeployRests
  <2>4. \A x \in DeployRequests : x # r => DeployRests(x)
    BY <2>1, RequestsApart, Zenon DEF StepOf, DeployRests
  <2> QED BY ZenonT(40), <1>0, <2>2, <2>3, <2>4, DeployQuiet
<1>3. ASSUME NEW r \in DeployRequests, DeployAction(r) PROVE DeployInv'
  <2>1. CASE Gateway!SubmitCreateServiceFailed(r)
    BY <2>1, Zenon DEF Gateway!SubmitCreateServiceFailed, Gateway!Fault
  <2>2. CASE Gateway!SubmitCreateServiceError(r)
    <3>1. /\ StepOf(r) /\ rpcPc[r] = "create" /\ rpcPc'[r] = "error" /\ UNCHANGED rpcReq
          /\ UNCHANGED <<opNonce, ops, receipts, services, preimages, provided>>
          /\ opCache' = None /\ (late' = late \/ late' = Append(late, rpcReq[r].code))
      BY <2>2, RequestsApart, StepKept, Zenon
         DEF Gateway!SubmitCreateServiceError, Gateway!At, Gateway!Ends, Gateway!chainVars
    <3>2. rpcReq[r].code \in Codes
      BY <3>1, Zenon DEF DeployInv
    <3>3. late' \in Seq(Codes)
      BY <1>0, <3>1, <3>2
    <3> QED BY <1>1, <3>1, <3>3, RequestsApart, Zenon
  <2>3. CASE Gateway!PollReadyContext(r)
    <3>1. /\ rpcPc[r] = "poll_ready" /\ Gateway!Goto(r, "ready_at")
          /\ rpcReq' = WithContext(rpcReq, r, block)
          /\ UNCHANGED <<Gateway!opVars, Gateway!chainVars>>
      BY <2>3, Zenon DEF Gateway!PollReadyContext, Gateway!At, WithContext
    <3>2. /\ IsReqs(rpcReq') /\ OthersKept(rpcReq', rpcReq, r)
          /\ rpcReq'[r].correlation = rpcReq[r].correlation /\ rpcReq'[r].service = rpcReq[r].service
      BY <3>1, RequestsApart, SetContext DEF GatewayType
    <3>3. StepOf(r) /\ rpcPc'[r] = "ready_at"
      BY <3>1, <3>2, RequestsApart, StepSet, Zenon
    <3>4. \A x \in DeployRequests : DeployRests(x)
      BY <3>1, <3>2, <3>3, RequestsApart, Zenon DEF StepOf, DeployRests
    <3>5. UNCHANGED <<opNonce, opCache, late, ops, receipts, services, preimages, provided>>
      BY Zenon, <3>1 DEF Gateway!opVars, Gateway!chainVars
    <3> QED BY <1>0, <3>4, <3>5, DeployQuiet
  <2> QED BY <1>3, <2>1, <2>2, <2>3, CreateServiceKeeps, ReceiptKeeps, SubmitPreimageKeeps,
             ReadyKeeps, Zenon DEF DeployAction
<1>4. CASE Gateway!Gateway
  <2>1. CASE \E r \in WorkRequests \cup StatusRequests, p \in Packages : Gateway!Admit(r, p, None)
    BY <1>2, <2>1, RequestsApart
  <2>2. CASE \E r \in DeployRequests, c \in Codes : Gateway!Admit(r, None, c)
    BY Zenon, <1>2, <2>2, RequestsApart
  <2>3. CASE \E r \in Gateway!Requests : Gateway!Busy(r)
    <3>1. PICK r \in Gateway!Requests : Gateway!Busy(r)
      BY Zenon, <2>3
    <3>2. /\ StepOf(r) /\ rpcPc'[r] = "busy" /\ UNCHANGED rpcReq
          /\ UNCHANGED <<opNonce, opCache, late, ops, receipts, services, preimages, provided>>
      BY <3>1, BusyStep DEF Gateway!opVars, Gateway!chainVars
    <3> QED BY <1>0, <1>1, <3>2
  <2>4. CASE \E r \in Gateway!Requests : Gateway!ReadFails(r)
    <3>1. PICK r \in Gateway!Requests : Gateway!ReadFails(r)
      BY <2>4
    <3>2. /\ StepOf(r) /\ rpcPc'[r] = "error" /\ UNCHANGED rpcReq
          /\ UNCHANGED <<opNonce, opCache, late, ops, receipts, services, preimages, provided>>
      BY Zenon, <3>1, ReadFailsStep DEF ServedStep, Gateway!opVars, Gateway!chainVars
    <3> QED BY ZenonT(40), <1>0, <1>1, <3>2
  <2>5. CASE \E r \in WorkRequests : WorkAction(r)
    <3>1. PICK r \in WorkRequests : WorkAction(r)
      BY <2>5
    <3>2. /\ StepOf(r)
          /\ UNCHANGED <<opNonce, opCache, late, ops, receipts, services, preimages, provided>>
      BY <3>1, WorkStep, Zenon DEF WorkAction, ServedStep
    <3> QED BY <1>0, <1>1, <3>2, RequestsApart
  <2>6. CASE \E r \in StatusRequests : StatusAction(r)
    <3>1. PICK r \in StatusRequests : StatusAction(r)
      BY <2>6
    <3>2. /\ StepOf(r)
          /\ UNCHANGED <<opNonce, opCache, late, ops, receipts, services, preimages, provided>>
      BY <3>1, StatusStep, Zenon DEF StatusAction, ServedStep, Gateway!opVars, Gateway!chainVars
    <3> QED BY <1>0, <1>1, <3>2, RequestsApart
  <2>7. CASE \E r \in DeployRequests : DeployAction(r)
    BY Zenon, <1>3, <2>7
  <2> QED BY Zenon, <1>4, GatewayCases, <2>1, <2>2, <2>3, <2>4, <2>5, <2>6, <2>7
<1>5. ASSUME UNCHANGED <<rpcPc, rpcReq, opNonce, opCache, late, ops, receipts, services, preimages, provided>>
      PROVE  DeployInv'
  <2>1. \A x \in DeployRequests : DeployRests(x)
    BY <1>5, Zenon DEF DeployRests
  <2> QED BY <1>0, <1>5, <2>1, DeployQuiet
<1>6. CASE Gateway!Chain
  <2>1. ASSUME NEW p \in Packages, Gateway!ImportWork(p) PROVE DeployInv'
    BY <1>5, <2>1, Zenon DEF Gateway!ImportWork, Gateway!opVars
  <2> QED BY <1>6, <2>1, ExecuteOpKeeps, IncludeLateKeeps, ProvidePreimageKeeps DEF Gateway!Chain
<1>7. CASE Gateway!Crash
  <2>1. \A x \in DeployRequests : DeployRests(x)
    BY <1>7, CrashStep, RequestsApart, Zenon DEF DeployRests
  <2>2. /\ UNCHANGED <<opNonce, late, ops, receipts, services, preimages, provided>>
        /\ opCache' = None
    BY Zenon, <1>7, CrashStep
  <2> QED BY <1>0, <2>1, <2>2, DeployQuiet
<1>8. CASE UNCHANGED Gateway!vars
  BY <1>5, <1>8 DEF Gateway!vars, Gateway!opVars, Gateway!chainVars
<1> QED BY Zenon, <1>4, <1>6, <1>7, <1>8 DEF Gateway!Next

(* The gateway starts without requests, files or operations. *)
LEMMA GatewayInit ==
    ASSUME Counting, Gateway!Assumption, Gateway!Init
    PROVE  GatewayType /\ AdmissionInv /\ BundleInv /\ DeployInv
<1>0. WorkRequests \subseteq Gateway!Requests /\ DeployRequests \subseteq Gateway!Requests
  BY RequestsApart
<1>1. /\ rpcPc = [r \in Gateway!Requests |-> "new"]
      /\ rpcReq = [r \in Gateway!Requests |-> Gateway!NoRequest]
      /\ tmp = [p \in Packages |-> None] /\ final = [p \in Packages |-> None]
      /\ files = [r \in WorkRequests |-> [last |-> None, whole |-> FALSE]]
      /\ writes = [r \in WorkRequests |-> None] /\ works = <<>>
  BY Zenon DEF Gateway!Init
<1>2. /\ opNonce = 0 /\ opCache = None /\ late = <<>> /\ ops = {} /\ receipts = <<>>
      /\ services = <<>> /\ preimages = {} /\ provided = <<>>
  BY Zenon DEF Gateway!Init
<1>3. \A r \in Gateway!Requests : rpcPc[r] = "new" /\ rpcReq[r].service = None /\ IsReq(rpcReq[r])
  BY <1>1, Zenon DEF Gateway!NoRequest, IsReq
<1>4. GatewayType
  BY Zenon, <1>1, <1>3 DEF GatewayType, IsReqs
<1>5. AdmissionInv
  <2>1. Gateway!Active = {}
    BY Zenon, <1>3 DEF Gateway!Active, Gateway!Finished
  <2>2. Gateway!Cardinality(Gateway!Active) = 0
    BY <2>1, GatewayCardinality DEF Counting
  <2>3. MaxConcurrency \in Nat
    BY Zenon DEF Gateway!Assumption
  <2> QED BY <1>3, <2>2, <2>3 DEF AdmissionInv, Gateway!AdmissionBounded
<1>6. BundleInv
  <2>1. \A r \in WorkRequests : ~Writing(r)
    BY Zenon, <1>0, <1>3 DEF Writing
  <2>2. FilesApart
    <3>1. \A r \in WorkRequests : r # None
      BY Zenon DEF Gateway!Assumption
    <3> QED BY <1>1, <3>1 DEF FilesApart
  <2>3. Gateway!NoBrokenBundle
    BY <1>1 DEF Gateway!NoBrokenBundle
  <2>4. \A r \in WorkRequests : WriterInv(r)
    BY <2>1, Zenon DEF WriterInv, Writing
  <2>5. /\ tmp \in [Packages -> WorkRequests \cup {None}]
        /\ final \in [Packages -> WorkRequests \cup {None}]
        /\ writes \in [WorkRequests -> WorkRequests \cup {None}]
        /\ files \in [WorkRequests -> [last : WorkRequests \cup {None}, whole : BOOLEAN]]
    BY <1>1
  <2>6. DOMAIN works = {}
    BY <1>1
  <2> QED BY Zenon, <2>1, <2>2, <2>3, <2>4, <2>5, <2>6 DEF BundleInv
<1>7. DeployInv
  <2>1. \A r \in DeployRequests : rpcPc[r] = "new" /\ rpcReq[r].service = None /\ ~Asked(r)
    BY <1>0, <1>3, Zenon DEF Asked
  <2>2. DOMAIN receipts = {} /\ DOMAIN services = {} /\ DOMAIN provided = {}
    BY <1>2
  <2>3. NonceInv
    BY <1>2, <2>1, <2>2, Zenon DEF NonceInv
  <2>4. ReceiptInv
    <3>1. DOMAIN services = 1..0
      BY <2>2
    <3> QED BY <2>1, <2>2, <3>1, Zenon DEF ReceiptInv
  <2>5. PreimageInv
    BY ZenonT(40), <1>2, <2>2 DEF PreimageInv
  <2>6. Gateway!DeploymentReady
    BY <2>1 DEF Gateway!DeploymentReady, Gateway!Deployed
  <2>7. late \in Seq(Codes)
    BY <1>2
  <2> QED BY Zenon, <2>1, <2>3, <2>4, <2>5, <2>6, <2>7 DEF DeployInv
<1> QED BY <1>4, <1>5, <1>6, <1>7

(* What the invariants say of the bundles. *)
LEMMA BundlesFollow ==
    ASSUME AdmissionInv, BundleInv
    PROVE  BundlesServed
BY DEF AdmissionInv, BundleInv, BundlesServed, Gateway!BundlePublished, Gateway!Served,
       Gateway!NoBrokenBundle

(* ... and of the deployments: two of them that are reported have different   *)
(* correlations, hence different services.                                    *)
LEMMA DeploymentsFollow ==
    ASSUME DeployInv
    PROVE  DeploymentsReady
<1>1. Gateway!DeploymentsDistinct
  <2> SUFFICES ASSUME NEW a \in DeployRequests, NEW b \in DeployRequests, rpcPc[a] = "ok", rpcPc[b] = "ok",
                      rpcReq[a].service = rpcReq[b].service
               PROVE  a = b
    BY Zenon DEF Gateway!DeploymentsDistinct, Gateway!Deployed
  <2>1. NonceInv /\ ReceiptInv /\ rpcReq[a].service # None
    BY DEF DeployInv
  <2>2. rpcReq[a].correlation = rpcReq[b].correlation
    BY <2>1, ZenonT(40) DEF ReceiptInv
  <2> QED BY <2>1, <2>2, Zenon DEF NonceInv, Asked
<1> QED BY <1>1 DEF DeployInv, DeploymentsReady

-----------------------------------------------------------------------------
INSTANCE FiniteSetTheorems

(* Finite sets can be counted. *)
LEMMA FiniteSetsCount == Counting
<1>1. \A n \in Nat : Cardinality(1..n) = n
  BY ONLY FS_Interval
<1>2. ASSUME NEW S, IsFiniteSet(S)
      PROVE  /\ Cardinality(S) \in Nat
             /\ \A x : x \notin S => IsFiniteSet(S \cup {x})
                                    /\ Cardinality(S \cup {x}) = Cardinality(S) + 1
             /\ \A T \in SUBSET S : IsFiniteSet(T) /\ Cardinality(T) <= Cardinality(S)
  BY Zenon, <1>2, FS_CardinalityType, FS_AddElement, FS_Subset
<1> QED BY Zenon, <1>1, <1>2, FS_EmptySet DEF Counting

(* get_bundle serves the bundle of every work that was submitted, whatever    *)
(* crashes and failures come in between, where one request writes a package   *)
(* at a time; and no permit of the semaphore is lost (submit_work).           *)
THEOREM BundlesStayServed ==
    Gateway!Assumption /\ OneWriter => (Gateway!Spec => []BundlesServed)
<1> SUFFICES ASSUME Gateway!Assumption, OneWriter PROVE Gateway!Spec => []BundlesServed
  OBVIOUS
<1> DEFINE Inv == GatewayType /\ AdmissionInv /\ BundleInv
<1>1. Gateway!Init => Inv
  BY Zenon, FiniteSetsCount, GatewayInit
<1>2. Inv /\ [Gateway!Next]_(Gateway!vars) => Inv'
  BY Zenon, FiniteSetsCount, PermitStep, BundleStep
<1>3. Inv => BundlesServed
  BY BundlesFollow
<1> HIDE DEF Inv
<1> QED BY <1>1, <1>2, <1>3, PTL DEF Gateway!Spec

(* Every deployment that create_service reports is usable at its context, and *)
(* no two of them are the same service, across timeouts, restarts and lost    *)
(* cache, where no operation fails in dispatch.                               *)
THEOREM DeploymentsStayReady ==
    Gateway!Assumption /\ "dispatch" \notin GatewayFaults => (Gateway!Spec => []DeploymentsReady)
<1> SUFFICES ASSUME Gateway!Assumption, "dispatch" \notin GatewayFaults
             PROVE  Gateway!Spec => []DeploymentsReady
  OBVIOUS
<1> DEFINE Inv == GatewayType /\ AdmissionInv /\ DeployInv
<1>1. Gateway!Init => Inv
  BY Zenon, FiniteSetsCount, GatewayInit
<1>2. Inv /\ [Gateway!Next]_(Gateway!vars) => Inv'
  BY Zenon, FiniteSetsCount, PermitStep, DeploymentStep
<1>3. Inv => DeploymentsReady
  BY DeploymentsFollow
<1> HIDE DEF Inv
<1> QED BY <1>1, <1>2, <1>3, PTL DEF Gateway!Spec
=============================================================================
