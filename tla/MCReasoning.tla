----------------------------- MODULE MCReasoning -----------------------------
(* Markers that overlap themselves and each other, where a wrong tail shows. *)
EXTENDS Reasoning

MCStart == <<"a", "a", "b">>
MCEnd   == <<"a", "b", "a", "b">>
=============================================================================
