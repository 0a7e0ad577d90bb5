----------------------------- MODULE Algorithms -----------------------------
(***************************************************************************)
(* The two pure algorithms of the system, which share no state: a          *)
(* behaviour builds a pair of logs, or a pair of texts.                    *)
(***************************************************************************)
EXTENDS Merkle, Glob

vars == <<merkleVars, globVars>>

Init == MerkleInit /\ GlobInit

Next ==
    \/ MerkleNext /\ GlobInit /\ UNCHANGED globVars
    \/ GlobNext /\ MerkleInit /\ UNCHANGED merkleVars

Spec == Init /\ [][Next]_vars

=============================================================================
