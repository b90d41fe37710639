----------------------------- MODULE MCSafeSend -----------------------------
(* SafeSend for TLC: workers are interchangeable, and so are API requests *)
(* and the contents a draft can have.                                     *)
EXTENDS SafeSend, TLC

Symmetry == Permutations(Workers) \cup Permutations(Callers)
              \cup Permutations(Contents)
=============================================================================
