---------------------------- MODULE MCDictTable ----------------------------
EXTENDS DictTable

CONSTANTS k1, k2, k3, k4, v, w

(* Two keys whose hashes agree, one that starts at the same slot and goes  *)
(* another way, and one that gets in their way.                            *)
MCHash == [k \in Key |-> CASE k = k1 -> 0 [] k = k2 -> 0 [] k = k3 -> 36 [] OTHER -> 1]
MCHashSpread == [k \in Key |-> CASE k = k1 -> 0 [] k = k2 -> 1 [] k = k3 -> 2 [] OTHER -> 3]

(* One key is stored under with two values, which is enough to replace one. *)
MCValues == [k \in Key |-> IF k = k1 THEN {v, w} ELSE {v}]
MCValuesOne == [k \in Key |-> {v}]
=============================================================================
