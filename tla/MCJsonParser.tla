---------------------------- MODULE MCJsonParser ----------------------------
(* Finite instances of JsonParser for TLC.                                 *)
EXTENDS JsonGrammar
=============================================================================
