----------------------------- MODULE MCSendGate -----------------------------
(* SendGate for TLC: calls are interchangeable, and so are contents.       *)
EXTENDS SendGate, TLC

Interchangeable == Permutations(Calls) \union Permutations(Contents)
=============================================================================
