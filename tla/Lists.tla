--------------------------------- MODULE Lists ---------------------------------
(***************************************************************************)
(* Lists from which the code erases what a condition names: std::erase_if,  *)
(* erase(std::remove_if(...)) and remove(...) of the standard library.      *)
(***************************************************************************)
EXTENDS Integers, Sequences

Entries(s) == {s[i] : i \in 1 .. Len(s)}

(* No element of s comes twice.                                           *)
Distinct(s) == \A i, j \in 1 .. Len(s) : s[i] = s[j] => i = j

(* What is left of s when only the elements of T are kept.                  *)
Keeping(s, T) ==
    LET kept[n \in 0 .. Len(s)] ==
            IF n = 0 THEN <<>>
            ELSE IF s[n] \in T THEN Append(kept[n - 1], s[n]) ELSE kept[n - 1]
    IN  kept[Len(s)]
=============================================================================
