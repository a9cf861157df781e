---------------------------- MODULE MCSessionLibrary ----------------------------
(* SessionLibrary for TLC: a folder and one below it; the sessions are alike. *)
EXTENDS SessionLibrary, TLC

CONSTANTS s1, s2, p1, p2, general, sessions

Nested == {<<>>, <<"a">>}
Alike  == Permutations(Ids)
================================================================================
