---------------------------- MODULE SpecWritesMC ----------------------------
(* A small instance of SpecWrites for TLC.  Requests, slugs and bodies are *)
(* only ever compared for equality, so each set may be permuted.           *)
EXTENDS SpecWrites, TLC

Symmetry == Permutations(Request) \cup Permutations(Slug) \cup Permutations(Body)
=============================================================================
