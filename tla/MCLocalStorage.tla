-------------------------- MODULE MCLocalStorage --------------------------
(* Three uploads of two possible contents, two confirmations in a row.       *)
EXTENDS LocalStorage, TLC

CONSTANTS u1, u2, u3, f1, f2, a, b

MCUploads  == {u1, u2, u3}
MCFinals   == {f1, f2}
MCContents == {a, b}
MCSymmetry == Permutations(MCUploads) \cup Permutations(MCContents) \cup Permutations(MCFinals)
============================================================================
