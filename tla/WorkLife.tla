------------------------------ MODULE WorkLife ------------------------------
(* What the runtime promises to the submitter of a work package: a package is *)
(* taken once, is pending until it is accepted or failed, and is imported at  *)
(* most once, after acceptance. One deposit of its owner is locked exactly    *)
(* while it is pending. Nothing is said of workers, rounds, votes or blocks.  *)
EXTENDS Integers

CONSTANTS Packages, Accounts, Deposit

VARIABLES
    life,       \* [Packages -> Stages]
    owner,      \* the submitter of each package that is not unknown
    locked      \* deposits locked, for each account

lifeVars == <<life, owner, locked>>

Stages == {"unknown", "pending", "accepted", "imported", "failed"}

LifeInit ==
    /\ life = [p \in Packages |-> "unknown"]
    /\ owner = <<>>
    /\ locked = [a \in Accounts |-> 0]

Submit(p, a) ==
    /\ life[p] = "unknown"
    /\ life' = [life EXCEPT ![p] = "pending"]
    /\ owner' = [q \in DOMAIN owner \cup {p} |-> IF q = p THEN a ELSE owner[q]]
    /\ locked' = [locked EXCEPT ![a] = @ + Deposit]

Settle(p, stage) ==
    /\ life[p] = "pending"
    /\ life' = [life EXCEPT ![p] = stage]
    /\ locked' = [locked EXCEPT ![owner[p]] = @ - Deposit]
    /\ UNCHANGED owner

(* A block imports several packages at once *)
Import(P) ==
    /\ \A p \in P : life[p] = "accepted"
    /\ life' = [p \in Packages |-> IF p \in P THEN "imported" ELSE life[p]]
    /\ UNCHANGED <<owner, locked>>

LifeNext ==
    \/ \E p \in Packages, a \in Accounts : Submit(p, a)
    \/ \E p \in Packages, stage \in {"accepted", "failed"} : Settle(p, stage)
    \/ \E P \in SUBSET Packages : Import(P)

LifeSpec == LifeInit /\ [][LifeNext]_lifeVars
=============================================================================
