---------------------------------- MODULE Dict ----------------------------------
(***************************************************************************)
(* A Python dict is a function on the keys it holds: d[k] = v adds or      *)
(* replaces a key, d.pop(k, None) removes it if it is there.               *)
(***************************************************************************)

Empty == [k \in {} |-> {}]

Put(d, k, v) == [x \in (DOMAIN d) \cup {k} |-> IF x = k THEN v ELSE d[x]]

Pop(d, k) == [x \in (DOMAIN d) \ {k} |-> d[x]]

=================================================================================
