-------------------------------- MODULE Rows --------------------------------
(***************************************************************************)
(* A table is a function from primary keys to rows.                        *)
(***************************************************************************)

Without(rows, key) == [k \in DOMAIN rows \ {key} |-> rows[k]]

With(rows, key, row) ==
    [k \in DOMAIN rows \cup {key} |-> IF k = key THEN row ELSE rows[k]]

=============================================================================
