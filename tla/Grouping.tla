------------------------------ MODULE Grouping ------------------------------
(***************************************************************************)
(* The grouping of a payload by project that the exporters share: a map    *)
(* from keys to slices, to which everything in the payload is appended in  *)
(* turn under its own key.                                                 *)
(***************************************************************************)
EXTENDS Naturals, Sequences

(* groups[key] = append(groups[key], ...): the places of key in keys, as   *)
(* they are after n of the keys.                                           *)
PlacesUpTo(key, keys) ==
    LET places[n \in 0..Len(keys)] ==
            IF n = 0 THEN <<>>
            ELSE IF keys[n] = key THEN Append(places[n - 1], n) ELSE places[n - 1]
    IN  places
PlacesOf(key, keys) == PlacesUpTo(key, keys)[Len(keys)]
=============================================================================
