----------------------------- MODULE MCDurable -----------------------------
(* Instances of the durable tasks. *)
EXTENDS Durable

\* A ledger nothing has been appended to.
Nothing == <<>>

\* Processes, tasks and contents are only compared.
Alike == Permutations(Process) \cup Permutations(Task) \cup Permutations(Content)

=============================================================================
