---------------------------- MODULE AppendOnlyLog ----------------------------
(***************************************************************************)
(* What the evidence ledger promises a reader, with files, processes and   *)
(* kills left out: entries are only ever added at the end, and a signature *)
(* is always over the whole log as it stood when it was made, so `signed`, *)
(* the number of entries the newest signature covers, never goes back.     *)
(***************************************************************************)
EXTENDS Naturals, Sequences

CONSTANT Entry

VARIABLES log, signed

Init == log = <<>> /\ signed = 0

Add ==
    /\ Len(log') = Len(log) + 1
    /\ SubSeq(log', 1, Len(log)) = log
    /\ log'[Len(log')] \in Entry
    /\ UNCHANGED signed

Sign ==
    /\ signed < Len(log)
    /\ signed' = Len(log)
    /\ UNCHANGED log

Next == Add \/ Sign

Spec == Init /\ [][Next]_<<log, signed>>

=============================================================================
