------------------------------ MODULE SeqKeep ------------------------------
(***************************************************************************)
(* The loops of the code that copy the wanted entries of a slice.          *)
(***************************************************************************)
EXTENDS Integers, Sequences

\* The entries of q that are in S, in their order: SelectSeq with a set, written
\* as a function so that it can be reasoned about.
Keep(q, S) ==
    LET kept[i \in 0..Len(q)] ==
          IF i = 0 THEN <<>>
          ELSE IF q[i] \in S THEN Append(kept[i - 1], q[i]) ELSE kept[i - 1]
    IN  kept[Len(q)]
=============================================================================
