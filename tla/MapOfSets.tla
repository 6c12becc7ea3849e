----------------------------- MODULE MapOfSets -----------------------------
(***************************************************************************)
(* Maps from keys to non-empty sets, the way the engine's indexes use      *)
(* HashMap::entry: an absent key stands for the empty set.                 *)
(***************************************************************************)
EXTENDS Functions

EmptyMap == <<>>

\* remove(k)
Without(map, k) == Restrict(map, DOMAIN map \ {k})

\* get(k).unwrap_or_default()
EntryOf(map, k) == IF k \in DOMAIN map THEN map[k] ELSE {}

\* entry(k).or_default().insert(v)
AddTo(map, k, v) ==
  [x \in DOMAIN map \cup {k} |-> EntryOf(map, x) \cup (IF x = k THEN {v} ELSE {})]

\* take v out of the entry of k, and the entry with it once it is empty
TakeFrom(map, k, v) ==
  IF EntryOf(map, k) \subseteq {v} THEN Without(map, k) ELSE [map EXCEPT ![k] = @ \ {v}]
=============================================================================
