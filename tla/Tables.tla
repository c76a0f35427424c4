------------------------------- MODULE Tables -------------------------------
(* SQL's upsert, on tables that are functions from keys to rows. *)

Only(key, row) == [k \in {key} |-> row]

\* INSERT ... ON CONFLICT DO UPDATE: the rows replace those of the same keys.
Upserted(table, rows) ==
  [k \in DOMAIN table \cup DOMAIN rows |-> IF k \in DOMAIN rows THEN rows[k] ELSE table[k]]
=============================================================================
