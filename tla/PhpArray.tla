------------------------------ MODULE PhpArray ------------------------------
(***************************************************************************)
(* The PHP arrays scripts hand to the extension and what include/utils.hpp *)
(* makes of them.  An array is a function on its keys; a scalar entry is a *)
(* string, or, under a key the code puts through atoi or atol, the number  *)
(* its digits spell.                                                       *)
(***************************************************************************)
EXTENDS Naturals

(* The keys of common.hpp whose value is an array of its own. *)
ArrayKey == {"metadata", "labels", "subset", "source_service"}

EmptyMap == [k \in {} |-> ""]

(* TransferToStdMap copies the scalar entries; what it copies for a nested *)
(* array is never looked at.                                               *)
TransferToStdMap(a) == [k \in DOMAIN a \ ArrayKey |-> a[k]]

(* params[Key] of a std::map<string, string>, and atoi of it: an absent    *)
(* key reads as the empty string, which atoi takes for 0.                  *)
Text(params, key)   == IF key \in DOMAIN params THEN params[key] ELSE ""
Number(params, key) == IF key \in DOMAIN params THEN params[key] ELSE 0
Flag(params, key)   == Text(params, key) = "true"

(* How many bytes beyond the key's name zend_hash_find is told to compare: *)
(* the terminating NUL, which the keys of a PHP 7 array do not include.    *)
getKeyLength == 1

Found(a, key) == key \in DOMAIN a /\ getKeyLength = 0

(* zend_hash_find and TransferToStdMap, for a nested array of strings.     *)
Nested(a, key) == IF Found(a, key) THEN TransferToStdMap(a[key]) ELSE EmptyMap

(* TransferMapToArray skips the empty key. *)
TransferMapToArray(m) == [k \in DOMAIN m \ {""} |-> m[k]]
=============================================================================
