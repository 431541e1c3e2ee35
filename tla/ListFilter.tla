------------------------------ MODULE ListFilter ------------------------------
(***************************************************************************)
(* The lists and trees of the kernel that lose entries from their middle   *)
(* (retain, BTreeSet::remove) and gain them there (BTreeSet::insert).      *)
(* Kept is SelectSeq for a test given as a set: SelectSeq is built into    *)
(* the tools and hides its definition from a proof.                        *)
(***************************************************************************)
EXTENDS Integers, SequencesExt

\* The entries of q that are in S, in their order.
Kept(q, S) ==
    LET F[i \in 0..Len(q)] ==
          IF i = 0 THEN <<>>
          ELSE IF q[i] \in S THEN Append(F[i - 1], q[i]) ELSE F[i - 1]
    IN F[Len(q)]

\* x, put after the entries of q that are in S and before the others.
PutAfter(q, S, x) == Kept(q, S) \o <<x>> \o Kept(q, Range(q) \ S)

\* The entries of q that are not in S, each where it comes first.
Fresh(q, S) ==
    LET F[i \in 0..Len(q)] ==
          IF i = 0 THEN <<>>
          ELSE IF q[i] \in S \cup Range(F[i - 1]) THEN F[i - 1] ELSE Append(F[i - 1], q[i])
    IN F[Len(q)]
=============================================================================
