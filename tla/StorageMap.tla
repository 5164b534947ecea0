----------------------------- MODULE StorageMap -----------------------------
(* FRAME storage as the two pallets use it. A StorageMap is a function whose  *)
(* domain is the set of keys present (contains_key is k \in DOMAIN m), and a  *)
(* BoundedVec is a sequence.                                                  *)
EXTENDS Integers, Sequences

(* StorageMap::insert *)
Insert(m, k, v) == [x \in DOMAIN m \cup {k} |-> IF x = k THEN v ELSE m[x]]

(* StorageMap::remove, for every key of K *)
RemoveAll(m, K) == [x \in DOMAIN m \ K |-> m[x]]

(* m maps some of the keys K to values in V *)
IsMap(m, K, V) == DOMAIN m \subseteq K /\ \A k \in DOMAIN m : m[k] \in V

(* The values a BoundedVec holds *)
Elements(s) == {s[i] : i \in DOMAIN s}

(* No value twice *)
Distinct(s) == \A i, j \in DOMAIN s : s[i] = s[j] => i = j

(* Faulty SwapRemove: pops the last element whatever was to be removed *)
SwapRemovePops(s, v) == IF v \in Elements(s) THEN SubSeq(s, 1, Len(s) - 1) ELSE s

(* Faulty SwapRemove: takes position 0 for "not found" *)
SwapRemoveKeepsFirst(s, v) == IF s # <<>> /\ Head(s) = v THEN s ELSE SwapRemovePops(s, v)

(* vec.iter().position(|x| x == v) followed by vec.swap_remove(index): the    *)
(* last element takes the place of the removed one.                           *)
SwapRemove(s, v) ==
    IF v \in Elements(s)
    THEN LET index == CHOOSE i \in DOMAIN s : s[i] = v /\ \A j \in 1..(i - 1) : s[j] # v
         IN  [i \in 1..(Len(s) - 1) |-> IF i = index THEN s[Len(s)] ELSE s[i]]
    ELSE s

Min2(x, y) == IF x <= y THEN x ELSE y

Max2(x, y) == IF x >= y THEN x ELSE y
=============================================================================
