------------------------------ MODULE MCStateGC -----------------------------
(* Small instances of StateGC: handlers are interchangeable.                  *)
EXTENDS StateGC, TLC

Interchangeable == Permutations(Handlers)
=============================================================================
