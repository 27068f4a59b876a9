----------------------------- MODULE MCCLQueue -----------------------------
(* CLQueue for TLC. *)
EXTENDS CLQueue

BothFlags == {<<"MP", "MC">>, <<"SP", "SC">>}
MultiFlags == {<<"MP", "MC">>}
=============================================================================
