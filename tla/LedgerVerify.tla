---------------------------- MODULE LedgerVerify ----------------------------
(***************************************************************************)
(* `trunnion ledger verify` over the files of Ledger, and what it must and *)
(* must not report while honest processes append, expire, anchor and die.  *)
(***************************************************************************)
EXTENDS Ledger

(* The faults verify_with_actor_keys_and_published reports.                *)

EntryUnparsed == \E i \in DOMAIN Entries : ~Parses(Entries[i])

ChainIntactAt(lines, i) ==
    IF i = 1 THEN lines[i][1].prev = <<>>
    ELSE /\ lines[i][1].prev # <<>>
         /\ lines[i][1].prev = LeafHash(lines[i - 1])

ChainDiverges ==
    \E i \in DOMAIN Entries : Parses(Entries[i]) /\ ~ChainIntactAt(Entries, i)

HeadUnparsed == \E k \in DOMAIN Heads : ~Parses(Heads[k])

\* The root recomputed over the first Len(head) lines is the signed one.
Covers(head, lines) ==
    /\ Len(head) <= Len(lines)
    /\ SubSeq(lines, 1, Len(head)) = head

Matches(head) == Covers(head, Entries)

\* The walk stops at the first parsed head that does not match the log.
Walked ==
    {k \in DOMAIN Heads : \A j \in 1..k : Parses(Heads[j]) => Matches(Heads[j][1])}

HeadDiverges == Walked # DOMAIN Heads

\* The size of the last head the walk accepted.
Covered ==
    LET good == {k \in Walked : Parses(Heads[k])}
    IN  IF good = {} THEN 0
        ELSE LET last == CHOOSE k \in good : \A j \in good : j <= k
             IN  Len(Heads[last][1])

TailUncovered == ~HeadUnparsed /\ ~HeadDiverges /\ Covered < Len(Entries)

Referenced == {e.subject : e \in EventsIn(Entries)}

-----------------------------------------------------------------------------
(* Properties *)

TypeOK ==
    /\ events \in File(Envelope)
    /\ heads \in File(TreeHead)
    /\ payload \in [Subject -> {"absent", "torn", "whole"}]
    /\ anchors \in [Dest -> TreeHead]
    /\ mem \in [Proc -> Seq(Line)]
    /\ pc \in [Proc -> {"down", "idle"} \cup Steps]
    /\ job \in [Proc -> Job]
    /\ crashes \in 0..MaxCrashes

\* Every process is between operations.
Quiet == \A p \in Proc : pc[p] \in {"down", "idle"}

\* No state an honest writer can leave on disk, mid-append or after a kill,
\* reads to verify as a rewritten log: every entry parses and chains to the
\* one before it, and every signed head is over a prefix of the entries.
NeverLooksRewritten ==
    ~EntryUnparsed /\ ~ChainDiverges /\ ~HeadUnparsed /\ ~HeadDiverges

\* The one trace a kill leaves in the log is entries no head covers yet, and
\* there are never more of them than kills and appends under way.
UncoveredTailIsBounded ==
    Len(Entries) - Covered <=
        crashes + Cardinality({p \in Proc : pc[p] \in {"newline", "head"}})

\* A payload an envelope refers to is gone only if an expiry naming it is in
\* the log: Ledger::expire records first and deletes second.
AbsentIsExpired ==
    \A s \in Referenced : payload[s] = "absent" =>
        \E e \in EventsIn(Entries) : e.kind = "retention.expire" /\ Names[e.subject] = s

\* A copy of a head taken outside the ledger stays consistent with the log
\* for ever: the anchored head is over a prefix of the entries.
AnchorsHold == \A d \in Dest : Matches(anchors[d])

\* What a process has in memory is what the log says, so the prev_hash and
\* the head it derives from memory are the right ones.
MemoryIsPrefix == \A p \in Proc : Matches(mem[p])

\* The log that resumes a killed run can be opened again.
LogStaysReadable == ~EntryUnparsed

-----------------------------------------------------------------------------
(* The ledger implements the append-only log.                              *)

Log == INSTANCE AppendOnlyLog WITH Entry <- Line, log <- Entries, signed <- Covered

AppendOnly == Log!Spec

=============================================================================
