----------------------------- MODULE MCLoadTest -----------------------------
(* Small instances of LoadTest for TLC. *)
EXTENDS LoadTest

OneThenTwo == <<1, 2>>
=============================================================================
