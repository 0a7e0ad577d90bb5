------------------------------- MODULE Merkle -------------------------------
(***************************************************************************)
(* The Merkle tree under the ledger's heads (src/src/merkle.rs) and the    *)
(* proofs the offline verifiers check.  An auditor keeps the root of one   *)
(* log and is shown the root of another; the behaviours build every pair   *)
(* of short logs, extensions and rewrites alike, and the invariants ask    *)
(* what the proofs over them show.                                         *)
(*                                                                         *)
(* Hashes are taken to be collision free: a hash is the term it is of.     *)
(* An Option is the set of what it holds.                                  *)
(***************************************************************************)
EXTENDS Naturals, SequencesExt

CONSTANTS
    Entry,      \* the bytes of log entries
    MaxKept,    \* bound on the log whose root the auditor keeps
    MaxSize     \* bound on the log shown to the auditor

VARIABLES kept, shown

merkleVars == <<kept, shown>>

MerkleInit == kept = <<>> /\ shown = <<>>

MerkleNext ==
    \E e \in Entry :
        \/ Len(kept) < MaxKept /\ kept' = Append(kept, e) /\ UNCHANGED shown
        \/ Len(shown) < MaxSize /\ shown' = Append(shown, e) /\ UNCHANGED kept

-----------------------------------------------------------------------------
LeafHash(entry)       == <<"leaf", entry>>
NodeHash(left, right) == <<"node", left, right>>
EmptyHash             == <<"empty">>

\* The largest power of two below n; split_point also answers 1 for n < 2.
SplitPoint(n) ==
    LET powers == {2 ^ i : i \in 0..n}
    IN  IF n < 2 THEN 1
        ELSE CHOOSE k \in powers : k < n /\ \A j \in powers : j < n => j <= k

Left(leaves, k)  == SubSeq(leaves, 1, k)
Right(leaves, k) == SubSeq(leaves, k + 1, Len(leaves))

RECURSIVE Root(_)
Root(leaves) ==
    CASE Len(leaves) = 0 -> EmptyHash
      [] Len(leaves) = 1 -> leaves[1]
      [] Len(leaves) > 1 -> LET k == SplitPoint(Len(leaves))
                            IN  NodeHash(Root(Left(leaves, k)), Root(Right(leaves, k)))

\* Mutant: sibling roots top-down.
RECURSIVE InclusionProofTopDown(_, _)
InclusionProofTopDown(leaves, index) ==
    LET k == SplitPoint(Len(leaves))
    IN  IF Len(leaves) <= 1 THEN <<>>
        ELSE IF index < k
          THEN <<Root(Right(leaves, k))>> \o InclusionProofTopDown(Left(leaves, k), index)
          ELSE <<Root(Left(leaves, k))>> \o InclusionProofTopDown(Right(leaves, k), index - k)

\* Sibling roots, bottom-up; indices count from 0.
RECURSIVE InclusionProof(_, _)
InclusionProof(leaves, index) ==
    LET k == SplitPoint(Len(leaves))
    IN  IF Len(leaves) <= 1 THEN <<>>
        ELSE IF index < k
          THEN Append(InclusionProof(Left(leaves, k), index), Root(Right(leaves, k)))
          ELSE Append(InclusionProof(Right(leaves, k), index - k), Root(Left(leaves, k)))

\* Mutant: an index past the end is not refused.
RECURSIVE RootFromInclusionUnbounded(_, _, _, _)
RootFromInclusionUnbounded(leaf, index, size, proof) ==
    LET k == SplitPoint(size)
    IN  IF size = 1 THEN {leaf : x \in {y \in {1} : proof = <<>>}}
        ELSE IF proof = <<>> THEN {}
        ELSE IF index < k
          THEN {NodeHash(h, Last(proof)) : h \in RootFromInclusionUnbounded(leaf, index, k, Front(proof))}
          ELSE {NodeHash(Last(proof), h) :
                    h \in RootFromInclusionUnbounded(leaf, index - k, size - k, Front(proof))}

RECURSIVE RootFromInclusion(_, _, _, _)
RootFromInclusion(leaf, index, size, proof) ==
    LET k == SplitPoint(size)
    IN  IF index >= size THEN {}
        ELSE IF size = 1 THEN IF proof = <<>> THEN {leaf} ELSE {}
        ELSE IF proof = <<>> THEN {}
        ELSE IF index < k
          THEN {NodeHash(h, Last(proof)) : h \in RootFromInclusion(leaf, index, k, Front(proof))}
          ELSE {NodeHash(Last(proof), h) :
                    h \in RootFromInclusion(leaf, index - k, size - k, Front(proof))}

VerifyInclusion(leaf, index, size, proof, root) ==
    RootFromInclusion(leaf, index, size, proof) = {root}

RECURSIVE Subproof(_, _, _)
Subproof(leaves, m, complete) ==
    LET n == Len(leaves)
        k == SplitPoint(n)
    IN  IF m = n THEN IF complete THEN <<>> ELSE <<Root(leaves)>>
        ELSE IF m <= k
          THEN Append(Subproof(Left(leaves, k), m, complete), Root(Right(leaves, k)))
          ELSE Append(Subproof(Right(leaves, k), m - k, FALSE), Root(Left(leaves, k)))

\* Ledger::consistency refuses every other m.
ConsistencyProof(leaves, m) == Subproof(leaves, m, TRUE)

\* The pair of roots, old and new, that a proof implies.
RECURSIVE RootsFromConsistency(_, _, _, _, _)
RootsFromConsistency(m, n, complete, proof, oldRoot) ==
    LET k == SplitPoint(n)
    IN  IF m = n
          THEN IF complete THEN IF proof = <<>> THEN {<<oldRoot, oldRoot>>} ELSE {}
               ELSE IF Len(proof) = 1 THEN {<<proof[1], proof[1]>>} ELSE {}
        ELSE IF proof = <<>> THEN {}
        ELSE IF m <= k
          THEN {<<r[1], NodeHash(r[2], Last(proof))>> :
                    r \in RootsFromConsistency(m, k, complete, Front(proof), oldRoot)}
          ELSE {<<NodeHash(Last(proof), r[1]), NodeHash(Last(proof), r[2])>> :
                    r \in RootsFromConsistency(m - k, n - k, FALSE, Front(proof), oldRoot)}

\* Mutant: only the new root is compared.
VerifyConsistencyNewOnly(m, n, oldRoot, newRoot, proof) ==
    IF m > n \/ m = 0 THEN m = n /\ oldRoot = newRoot /\ proof = <<>>
    ELSE \E r \in RootsFromConsistency(m, n, TRUE, proof, oldRoot) : r[2] = newRoot

VerifyConsistency(m, n, oldRoot, newRoot, proof) ==
    IF m > n \/ m = 0 THEN m = n /\ oldRoot = newRoot /\ proof = <<>>
    ELSE RootsFromConsistency(m, n, TRUE, proof, oldRoot) = {<<oldRoot, newRoot>>}

-----------------------------------------------------------------------------
(* Properties *)

Leaves(log) == [i \in DOMAIN log |-> LeafHash(log[i])]

RootOf(log) == Root(Leaves(log))

\* Every entry the ledger holds can be proved to it, and a log that extends the
\* one whose root was kept can prove that it does (Ledger::prove, Ledger::
\* consistency).
HonestProofsVerify ==
    /\ \A i \in DOMAIN shown :
          VerifyInclusion(LeafHash(shown[i]), i - 1, Len(shown),
                          InclusionProof(Leaves(shown), i - 1), RootOf(shown))
    /\ kept # <<>> /\ IsPrefix(kept, shown) =>
          VerifyConsistency(Len(kept), Len(shown), RootOf(kept), RootOf(shown),
                            ConsistencyProof(Leaves(shown), Len(kept)))

\* The hashes a forger can take from either log.
Hashes(log) == {Root(SubSeq(Leaves(log), i, j)) : <<i, j>> \in {<<a, b>> \in (DOMAIN log) \X (DOMAIN log) : a <= b}}

Known == Hashes(kept) \cup Hashes(shown)

\* A proof as it is, with one hash replaced, one dropped or one added.
Tampered(proof) ==
    {proof} \cup UNION {{[proof EXCEPT ![i] = h] : i \in DOMAIN proof} : h \in Known}
    \cup {RemoveAt(proof, i) : i \in DOMAIN proof}
    \cup UNION {{Append(proof, h), <<h>> \o proof} : h \in Known}

\* No proof, honest or tampered with, of any position shows an entry where the
\* log has another, or at a position past its end.
InclusionIsSound ==
    LET root == RootOf(shown)
    IN  \A j \in DOMAIN shown : \A proof \in Tampered(InclusionProof(Leaves(shown), j - 1)) :
            \A i \in 0..Len(shown), e \in Entry :
                VerifyInclusion(LeafHash(e), i, Len(shown), proof, root) =>
                    i < Len(shown) /\ shown[i + 1] = e

\* A log that rewrote an entry the kept root covers cannot: no proof built for
\* any size of either log, honest or tampered with, is accepted.
ConsistencyIsSound ==
    LET old == RootOf(kept)
        new == RootOf(shown)
    IN  \A log \in {kept, shown} : \A m \in DOMAIN log :
            \A proof \in Tampered(ConsistencyProof(Leaves(log), m)) :
                VerifyConsistency(Len(kept), Len(shown), old, new, proof) => IsPrefix(kept, shown)

=============================================================================
