------------------------------- MODULE Cache -------------------------------
(***************************************************************************)
(* What a Db promises its clients: a partial map from keys to values.      *)
(* Storing a value may cost one other key, deleting removes its key, and   *)
(* nothing else changes what is stored; so a lookup that hits returns the  *)
(* value stored last.                                                      *)
(***************************************************************************)
CONSTANTS Keys, Values

VARIABLE stored     \* the value of each key that is present

CacheInit == DOMAIN stored = {}

\* k gets v; at most one other key goes, the rest keep their values.
Store(k, v) ==
  /\ k \in DOMAIN stored'
  /\ DOMAIN stored' \subseteq DOMAIN stored \cup {k}
  /\ \E lost \in Keys : DOMAIN stored \ {lost} \subseteq DOMAIN stored'
  /\ stored' = [j \in DOMAIN stored' |-> IF j = k THEN v ELSE stored[j]]

Forget(k) ==
  /\ k \in DOMAIN stored
  /\ stored' = [j \in DOMAIN stored \ {k} |-> stored[j]]

CacheNext == \E k \in Keys : Forget(k) \/ \E v \in Values : Store(k, v)

CacheSpec == CacheInit /\ [][CacheNext]_stored

=============================================================================
