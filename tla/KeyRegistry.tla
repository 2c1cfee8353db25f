----------------------------- MODULE KeyRegistry -----------------------------
(***************************************************************************)
(* What the registry of egress keys promises (docs/warp-pool/feat/         *)
(* egress.md, pool.go:174-216): an instance holds one key at most, and a   *)
(* key passes from one instance to another only by being free in between.  *)
(***************************************************************************)
CONSTANTS Inst, Key, Nobody

VARIABLE holder  \* [Key -> Inst \cup {Nobody}]

Init == holder = [k \in Key |-> Nobody]

Without(i) == [k \in Key |-> IF holder[k] = i THEN Nobody ELSE holder[k]]

Claim(i, k) ==
  /\ holder[k] \in {Nobody, i}
  /\ holder' = [Without(i) EXCEPT ![k] = i]

Leave(i) == holder' = Without(i)

Next == \E i \in Inst : Leave(i) \/ \E k \in Key : Claim(i, k)

Spec == Init /\ [][Next]_holder
==============================================================================
