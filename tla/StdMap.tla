------------------------------- MODULE StdMap -------------------------------
(* std::map as a function from its keys.                                   *)

(* map[key] = value                                                        *)
Put(map, key, value) ==
  [k \in DOMAIN map \cup {key} |-> IF k = key THEN value ELSE map[k]]
=============================================================================
