-------------------------------- MODULE Dict --------------------------------
(***************************************************************************)
(* A dict of Python: a function whose domain grows.                        *)
(***************************************************************************)

Empty == [k \in {} |-> k]

\* dict[key] = value
Put(dict, key, value) ==
  [k \in {key} \cup DOMAIN dict |-> IF k = key THEN value ELSE dict[k]]

\* dict.pop(key, None)
Drop(dict, key) == [k \in DOMAIN dict \ {key} |-> dict[k]]
=============================================================================
