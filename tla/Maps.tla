-------------------------------- MODULE Maps --------------------------------
(***************************************************************************)
(* std::collections::BTreeMap as a TLA+ function with a finite domain.     *)
(* The map's ordering is only visible through range(), which the users of  *)
(* this module write as a set comprehension over the domain.               *)
(***************************************************************************)

\* m is a map from some of the keys in K to values in V.
IsMap(m, K, V) == DOMAIN m \subseteq K /\ m \in [DOMAIN m -> V]

\* BTreeMap::new
EmptyMap == [k \in {} |-> k]

\* BTreeMap::insert: overwrites.
Insert(m, k, v) == [x \in DOMAIN m \cup {k} |-> IF x = k THEN v ELSE m[x]]

\* The entries of m whose key lies in K.
Keep(m, K) == [x \in DOMAIN m \cap K |-> m[x]]

\* BTreeMap::remove, for every key of K at once.
RemoveAll(m, K) == [x \in DOMAIN m \ K |-> m[x]]

\* BTreeMap::remove
Remove(m, k) == RemoveAll(m, {k})

\* BTreeMap::get, with none standing for Option::None.
Get(m, k, none) == IF k \in DOMAIN m THEN m[k] ELSE none

=============================================================================
