------------------------------ MODULE SeqLoops ------------------------------
(***************************************************************************)
(* The operators on sequences that the execution graph needs, by the names *)
(* they have in SequencesExt.  The provers go through every definition in  *)
(* scope for every fact they are given, so the modules that are proved     *)
(* about take these few from here.                                         *)
(***************************************************************************)
EXTENDS Naturals, Sequences, FiniteSets

ToSet(q) == {q[i] : i \in DOMAIN q}

\* A loop over a sequence: op(acc, x) is the state after x.
FoldLeft(op(_, _), base, q) ==
    LET after[i \in 0 .. Len(q)] ==
            IF i = 0 THEN base ELSE op(after[i - 1], q[i])
    IN  after[Len(q)]

Concat(q, r) == q \o r

FlattenSeq(qs) == FoldLeft(Concat, <<>>, qs)
=============================================================================
