---------------------------- MODULE LedgerProofs ----------------------------
(***************************************************************************)
(* Proofs about Ledger for every value of its constants: type correctness  *)
(* with any number of processes killed anywhere, and, for one process at a *)
(* time that is not killed between the two writes of a line, that verify   *)
(* never reads the log as rewritten, that anchored heads hold, that the    *)
(* files implement the append-only log with a bound on what no head        *)
(* covers, and that no payload goes without an expiry on the record.       *)
(***************************************************************************)
EXTENDS LedgerVerify, FiniteSetTheorems, SequenceTheorems, TLAPS

USE ConstantsAssumption

-----------------------------------------------------------------------------
(* Type correctness *)

\* Adding a newline to a file of lines, and reading it back, keep its type.
LEMMA LinesType ==
    ASSUME NEW Item, NEW file \in File(Item)
    PROVE  /\ Newline(file) \in File(Item)
           /\ Lines(file) \in Seq(Seq(Item))
BY DEF File, Newline, Lines

\* So does adding an item to its last line.
LEMMA WriteType ==
    ASSUME NEW Item, NEW file \in File(Item), NEW item \in Item
    PROVE  Write(file, item) \in File(Item)
<1>1. Append(file.tail, item) \in Seq(Item)
  BY DEF File
<1>2. QED
  BY <1>1 DEF File, Write

\* What is appended to a sequence is its last element.
LEMMA AppendedLast ==
    ASSUME NEW S, NEW s \in Seq(S), NEW x \in S
    PROVE  Append(s, x) # <<>> /\ Append(s, x)[Len(Append(s, x))] = x
OBVIOUS

\* The leaf hash of a line is the event sequence of the chain it ends.
LEMMA LeafType ==
    ASSUME NEW line \in Line
    PROVE  LeafHash(line) \in Leaf
<1>1. CASE Parses(line)
  <2>1. line[1] \in Envelope
    BY <1>1 DEF Line, Parses
  <2>2. QED
    BY <1>1, <2>1 DEF LeafHash, Envelope, Leaf
<1>2. CASE ~Parses(line)
  BY <1>2 DEF LeafHash, Leaf
<1>3. QED
  BY <1>1, <1>2

LEMMA LastLeafType ==
    ASSUME NEW lines \in Seq(Line)
    PROVE  LastLeaf(lines) \in Leaf
<1>1. CASE lines = <<>>
  BY <1>1 DEF LastLeaf, Leaf
<1>2. CASE lines # <<>>
  <2>1. lines[Len(lines)] \in Line
    BY <1>2
  <2>2. QED
    BY <1>2, <2>1, LeafType DEF LastLeaf
<1>3. QED
  BY <1>1, <1>2

\* What an appending process writes is an envelope.
LEMMA EnvelopeType ==
    ASSUME TypeOK, NEW p \in Proc, job[p].subject \in Subject
    PROVE  NewEnvelope(p) \in Envelope
<1>1. mem[p] \in Seq(Line) /\ job[p] \in Job
  BY DEF TypeOK
<1>2. LastLeaf(mem[p]) \in Leaf
  BY <1>1, LastLeafType
<1>3. QED
  BY <1>1, <1>2 DEF NewEnvelope, Envelope, Event, Job

\* The strengthening type correctness needs: a process in the middle of an
\* append has a subject to append, and one about to delete has a target.
JobOK ==
    /\ \A p \in Proc : pc[p] \in Steps => job[p].subject \in Subject
    /\ \A p \in Proc : pc[p] = "unlink" => job[p].target \in Subject

LEMMA TypeInit == Init => TypeOK /\ JobOK
<1> SUFFICES ASSUME Init PROVE TypeOK /\ JobOK
  OBVIOUS
<1>1. EmptyFile \in File(Envelope) /\ EmptyFile \in File(TreeHead)
  BY DEF EmptyFile, File
<1>2. NoHead \in TreeHead /\ <<>> \in Seq(Line)
  BY DEF NoHead, TreeHead
<1>3. NoJob \in Job
  BY DEF NoJob, Job, Kinds
<1>4. 0 \in 0..MaxCrashes
  OBVIOUS
<1>5. TypeOK
  BY <1>1, <1>2, <1>3, <1>4 DEF Init, TypeOK
<1>6. QED
  BY <1>5 DEF Init, JobOK, Steps

\* Starting an append keeps everything but the anchors well typed.
LEMMA StartAppendType ==
    ASSUME TypeOK, JobOK, NEW p \in Proc, NEW k \in Kinds, NEW s \in Subject,
           NEW t \in Subject \cup {NoSubject},
           StartAppend(p, k, s, t), anchors' \in [Dest -> TreeHead]
    PROVE  TypeOK' /\ JobOK'
<1>1. [kind |-> k, subject |-> s, target |-> t] \in Job
  BY DEF Job
<1>2. job' \in [Proc -> Job]
  BY <1>1 DEF StartAppend, TypeOK
<1>3. payload' \in [Subject -> {"absent", "torn", "whole"}]
  BY DEF StartAppend, TypeOK
<1>4. pc' \in [Proc -> {"down", "idle"} \cup Steps]
  BY DEF StartAppend, TypeOK, Goto, Steps
<1>5. TypeOK'
  BY <1>2, <1>3, <1>4 DEF StartAppend, TypeOK
<1>6. JobOK'
  BY DEF StartAppend, TypeOK, JobOK, Goto, Steps
<1>7. QED
  BY <1>5, <1>6

LEMMA TypeStep == TypeOK /\ JobOK /\ [Next]_vars => TypeOK' /\ JobOK'
<1> SUFFICES ASSUME TypeOK, JobOK, [Next]_vars PROVE TypeOK' /\ JobOK'
  OBVIOUS
<1>1. CASE UNCHANGED vars
  BY <1>1 DEF vars, TypeOK, JobOK
<1>2. ASSUME NEW p \in Proc, Open(p) PROVE TypeOK' /\ JobOK'
  <2>1. Entries \in Seq(Line)
    BY LinesType DEF TypeOK, Entries, Line
  <2>2. QED
    BY <1>2, <2>1 DEF Open, TypeOK, JobOK, Goto, Steps
<1>3. ASSUME NEW p \in Proc, Exit(p) PROVE TypeOK' /\ JobOK'
  <2>1. <<>> \in Seq(Line)
    OBVIOUS
  <2>2. QED
    BY <1>3, <2>1 DEF Exit, TypeOK, JobOK, Goto, Steps
<1>4. ASSUME NEW p \in Proc, NEW s \in Subject, AppendEvent(p, s)
      PROVE  TypeOK' /\ JobOK'
  BY <1>4, StartAppendType DEF AppendEvent, TypeOK, Kinds
<1>5. ASSUME NEW p \in Proc, NEW x \in Expiries, Expire(p, x[1], x[2])
      PROVE  TypeOK' /\ JobOK'
  <2>1. x[1] \in Subject /\ x[2] \in Subject
    OBVIOUS
  <2>2. StartAppend(p, "retention.expire", x[2], x[1]) /\ UNCHANGED anchors
    BY <1>5 DEF Expire
  <2>3. QED
    BY <2>1, <2>2, StartAppendType DEF TypeOK, Kinds
<1>6. ASSUME NEW p \in Proc, NEW d \in Dest, Anchor(p, d)
      PROVE  TypeOK' /\ JobOK'
  <2>1. Heads \in Seq(Seq(TreeHead))
    BY LinesType DEF TypeOK, Heads
  <2>2. Heads[Len(Heads)] \in Seq(TreeHead) /\ Len(Heads[Len(Heads)]) = 1
    BY <1>6, <2>1 DEF Anchor, Parses
  <2>3. Heads[Len(Heads)][1] \in TreeHead
    BY <2>2
  <2>4. anchors' \in [Dest -> TreeHead]
    BY <1>6, <2>3 DEF Anchor, TypeOK
  <2>5. d \in Subject /\ StartAppend(p, "ledger.anchor", d, NoSubject)
    BY <1>6 DEF Anchor
  <2>6. QED
    BY <2>4, <2>5, StartAppendType DEF Kinds
<1>7. ASSUME NEW p \in Proc, WritePayload(p) PROVE TypeOK' /\ JobOK'
  BY <1>7 DEF WritePayload, TypeOK, JobOK, Goto, Steps
<1>8. ASSUME NEW p \in Proc, WriteEntry(p) PROVE TypeOK' /\ JobOK'
  <2>1. NewEnvelope(p) \in Envelope
    BY <1>8, EnvelopeType DEF WriteEntry, JobOK, Steps
  <2>2. events' \in File(Envelope)
    BY <1>8, <2>1, WriteType DEF WriteEntry, TypeOK
  <2>3. QED
    BY <1>8, <2>2 DEF WriteEntry, TypeOK, JobOK, Goto, Steps
<1>9. ASSUME NEW p \in Proc, WriteNewline(p) PROVE TypeOK' /\ JobOK'
  <2>1. NewEnvelope(p) \in Envelope
    BY <1>9, EnvelopeType DEF WriteNewline, JobOK, Steps
  <2>2. events' \in File(Envelope)
    BY <1>9, LinesType DEF WriteNewline, TypeOK
  <2>3. Append(mem[p], <<NewEnvelope(p)>>) \in Seq(Line)
    BY <2>1 DEF TypeOK, Line
  <2>4. QED
    BY <1>9, <2>2, <2>3 DEF WriteNewline, TypeOK, JobOK, Goto, Steps
<1>10. ASSUME NEW p \in Proc, WriteHead(p) PROVE TypeOK' /\ JobOK'
  <2>1. heads' \in File(TreeHead)
    BY <1>10, WriteType DEF WriteHead, TypeOK, TreeHead
  <2>2. QED
    BY <1>10, <2>1 DEF WriteHead, TypeOK, JobOK, Goto, Steps
<1>11. ASSUME NEW p \in Proc, WriteHeadNewline(p) PROVE TypeOK' /\ JobOK'
  <2>1. heads' \in File(TreeHead)
    BY <1>11, LinesType DEF WriteHeadNewline, TypeOK
  <2>2. NoJob \in Job
    BY DEF NoJob, Job, Kinds
  <2>3. job[p] \in Job
    BY DEF TypeOK
  <2>4. CASE job[p].target = NoSubject
    <3>1. pc' = [pc EXCEPT ![p] = "idle"] /\ job' = [job EXCEPT ![p] = NoJob]
      BY <1>11, <2>4 DEF WriteHeadNewline, Goto
    <3>2. TypeOK'
      BY <1>11, <2>1, <2>2, <3>1 DEF WriteHeadNewline, TypeOK
    <3>3. QED
      BY <3>1, <3>2 DEF JobOK, TypeOK, Steps
  <2>5. CASE job[p].target # NoSubject
    <3>1. job[p].target \in Subject
      BY <2>3, <2>5 DEF Job
    <3>2. QED
      BY <1>11, <2>1, <2>5, <3>1 DEF WriteHeadNewline, TypeOK, JobOK, Goto, Steps
  <2>6. QED
    BY <2>4, <2>5
<1>12. ASSUME NEW p \in Proc, Unlink(p) PROVE TypeOK' /\ JobOK'
  <2>1. NoJob \in Job
    BY DEF NoJob, Job, Kinds
  <2>2. QED
    BY <1>12, <2>1 DEF Unlink, TypeOK, JobOK, Goto, Steps
<1>13. ASSUME NEW p \in Proc, Crash(p) PROVE TypeOK' /\ JobOK'
  <2>1. NoJob \in Job /\ <<>> \in Seq(Line)
    BY DEF NoJob, Job, Kinds
  <2>2. crashes' \in 0..MaxCrashes
    BY <1>13 DEF Crash, TypeOK
  <2>3. QED
    BY <1>13, <2>1, <2>2 DEF Crash, TypeOK, JobOK, Goto, Steps
<1>14. QED
  BY <1>1, <1>2, <1>3, <1>4, <1>5, <1>6, <1>7, <1>8, <1>9, <1>10, <1>11,
     <1>12, <1>13 DEF Next

\* Every reachable state of the files and of the processes is well typed,
\* whatever the number of processes and wherever they are killed.
THEOREM TypeCorrect == Spec => []TypeOK
<1>1. Spec => [](TypeOK /\ JobOK)
  BY TypeInit, TypeStep, PTL DEF Spec
<1>2. QED
  BY <1>1, PTL

-----------------------------------------------------------------------------
(* One process at a time, never killed between the two writes of a line *)

SingleWriter ==
    /\ \E w \in Proc : Proc = {w}
    /\ CrashPoints \cap {"newline", "headnl"} = {}

\* Lines that all parse and chain each to the one before it.
Chained(lines) ==
    \A i \in DOMAIN lines : Parses(lines[i]) /\ ChainIntactAt(lines, i)

\* The newest line is unterminated exactly while its writer is at the newline.
LogTail ==
    \A p \in Proc : events.tail = IF pc[p] = "newline" THEN <<NewEnvelope(p)>> ELSE <<>>

HeadTail ==
    \A p \in Proc : heads.tail = IF pc[p] = "headnl" THEN <<mem[p]>> ELSE <<>>

MemoryIsLog ==
    \A p \in Proc : mem[p] = IF pc[p] = "down" THEN <<>> ELSE events.done

HeadsCover ==
    \A k \in DOMAIN heads.done :
        Parses(heads.done[k]) /\ Covers(heads.done[k][1], events.done)

AnchorsCover == \A d \in Dest : Covers(anchors[d], events.done)

\* The inductive invariant: what verify checks, over the terminated lines,
\* and what the one process has in memory and under way.
IInv ==
    /\ TypeOK
    /\ JobOK
    /\ SingleWriter
    /\ Chained(events.done)
    /\ LogTail
    /\ HeadTail
    /\ MemoryIsLog
    /\ HeadsCover
    /\ AnchorsCover

\* The leaf hash of a line that parses is never taken for "no entry before".
LEMMA ParsedLeaf ==
    ASSUME NEW line \in Line, Parses(line)
    PROVE  LeafHash(line) # <<>>
<1>1. line[1] \in Envelope
  BY DEF Line, Parses
<1>2. line[1].prev \in Seq(Event) /\ line[1].ev \in Event
  BY <1>1 DEF Envelope, Leaf
<1>3. Append(line[1].prev, line[1].ev) # <<>>
  BY <1>2
<1>4. QED
  BY <1>3 DEF LeafHash

\* The first n items of a sequence.
LEMMA FirstItems ==
    ASSUME NEW S, NEW s \in Seq(S), NEW n \in 0..Len(s)
    PROVE  /\ SubSeq(s, 1, n) \in Seq(S)
           /\ Len(SubSeq(s, 1, n)) = n
           /\ \A i \in 1..n : SubSeq(s, 1, n)[i] = s[i]
<1>1. \A i \in 1..n : s[i] \in S
  OBVIOUS
<1>2. QED
  BY <1>1, SubSeqProperties

\* A head over a prefix of some lines stays one when a line is added.
LEMMA CoversAppend ==
    ASSUME NEW S, NEW s \in Seq(S), NEW h \in Seq(S), NEW x \in S, Covers(h, s)
    PROVE  Covers(h, Append(s, x))
<1>1. Len(h) \in 0..Len(s) /\ SubSeq(s, 1, Len(h)) = h
  BY DEF Covers
<1>2. PICK t : t = Append(s, x)
  OBVIOUS
<1>3. t \in Seq(S) /\ Len(t) = Len(s) + 1 /\ \A i \in 1..Len(s) : t[i] = s[i]
  BY <1>2
<1>4. Len(h) \in 0..Len(t)
  BY <1>1, <1>3
<1>5. /\ SubSeq(t, 1, Len(h)) \in Seq(S)
      /\ Len(SubSeq(t, 1, Len(h))) = Len(h)
      /\ \A i \in 1..Len(h) : SubSeq(t, 1, Len(h))[i] = t[i]
  BY <1>3, <1>4, FirstItems
<1>6. \A i \in 1..Len(h) : h[i] = s[i]
  BY <1>1, FirstItems
<1>7. \A i \in 1..Len(h) : SubSeq(t, 1, Len(h))[i] = h[i]
  BY <1>1, <1>3, <1>5, <1>6
<1>8. SubSeq(t, 1, Len(h)) = h
  BY <1>5, <1>7, SeqEqual
<1>9. QED
  BY <1>1, <1>2, <1>3, <1>8 DEF Covers

\* The head over all the lines covers them.
LEMMA CoversSelf ==
    ASSUME NEW S, NEW s \in Seq(S)
    PROVE  Covers(s, s)
BY SubSeqFull DEF Covers

\* An envelope chained to the last of some lines extends their chain.
LEMMA ChainedAppend ==
    ASSUME NEW lines \in Seq(Line), NEW env \in Envelope, Chained(lines),
           env.prev = LastLeaf(lines)
    PROVE  Chained(Append(lines, <<env>>))
<1> DEFINE new == Append(lines, <<env>>)
<1>1. Len(new) = Len(lines) + 1 /\ DOMAIN new = 1..Len(new)
  OBVIOUS
<1>2. \A i \in 1..Len(lines) : new[i] = lines[i]
  OBVIOUS
<1>3. new[Len(new)] = <<env>>
  OBVIOUS
<1>4. ASSUME NEW i \in DOMAIN new PROVE Parses(new[i]) /\ ChainIntactAt(new, i)
  <2>1. CASE i <= Len(lines)
    <3>1. i \in DOMAIN lines /\ new[i] = lines[i] /\ (i # 1 => new[i - 1] = lines[i - 1])
      BY <1>1, <1>2, <2>1
    <3>2. QED
      BY <3>1 DEF Chained, ChainIntactAt
  <2>2. CASE i = Len(new) /\ lines = <<>>
    BY <1>1, <1>3, <2>2 DEF ChainIntactAt, LastLeaf, Parses
  <2>3. CASE i = Len(new) /\ lines # <<>>
    <3>1. Len(lines) \in DOMAIN lines /\ lines[Len(lines)] \in Line
      BY <2>3
    <3>2. Parses(lines[Len(lines)])
      BY <3>1 DEF Chained
    <3>4. LeafHash(lines[Len(lines)]) # <<>>
      BY <3>1, <3>2, ParsedLeaf
    <3>5. env.prev = LeafHash(lines[Len(lines)])
      BY <2>3 DEF LastLeaf
    <3>6. i - 1 = Len(lines) /\ i # 1 /\ new[i - 1] = lines[Len(lines)] /\ new[i] = <<env>>
      BY <1>1, <1>2, <1>3, <2>3, <3>1
    <3>7. QED
      BY <3>4, <3>5, <3>6 DEF ChainIntactAt, Parses
  <2>4. QED
    BY <1>1, <2>1, <2>2, <2>3
<1>5. QED
  BY <1>4 DEF Chained

LEMMA IInvInit == Init /\ SingleWriter => IInv
<1> SUFFICES ASSUME Init, SingleWriter PROVE IInv
  OBVIOUS
<1>1. TypeOK /\ JobOK
  BY TypeInit
<1>2. events.done = <<>> /\ events.tail = <<>> /\ heads.done = <<>> /\ heads.tail = <<>>
  BY DEF Init, EmptyFile
<1>3. Chained(events.done) /\ HeadsCover
  BY <1>2 DEF Chained, HeadsCover
<1>4. LogTail /\ HeadTail /\ MemoryIsLog
  BY <1>2 DEF Init, LogTail, HeadTail, MemoryIsLog
<1>5. Covers(<<>>, <<>>)
  BY CoversSelf, EmptySeq
<1>6. AnchorsCover
  BY <1>2, <1>5 DEF Init, AnchorsCover, NoHead
<1>7. QED
  BY <1>1, <1>3, <1>4, <1>6 DEF IInv

\* With one process every other process is that one.
LEMMA OnlyOne ==
    ASSUME SingleWriter, NEW p \in Proc, NEW q \in Proc
    PROVE  p = q
BY DEF SingleWriter

LEMMA StartAppendIInv ==
    ASSUME IInv, NEW p \in Proc, NEW k \in Kinds, NEW s \in Subject,
           NEW t \in Subject \cup {NoSubject}, pc[p] = "idle",
           StartAppend(p, k, s, t), anchors' \in [Dest -> TreeHead], AnchorsCover'
    PROVE  IInv'
<1>1. TypeOK' /\ JobOK'
  BY StartAppendType DEF IInv
<1>2. pc' = [pc EXCEPT ![p] = "payload"] /\ UNCHANGED <<events, heads, mem>>
  BY DEF StartAppend, Goto
<1>3. \A q \in Proc : q = p
  BY OnlyOne DEF IInv
<1>4. events.tail = <<>> /\ heads.tail = <<>> /\ mem[p] = events.done
  BY DEF IInv, LogTail, HeadTail, MemoryIsLog
<1>5. pc'[p] = "payload"
  BY <1>2 DEF IInv, TypeOK
<1>6. LogTail' /\ HeadTail' /\ MemoryIsLog'
  BY <1>2, <1>3, <1>4, <1>5 DEF LogTail, HeadTail, MemoryIsLog
<1>7. Chained(events.done)' /\ HeadsCover'
  BY <1>2 DEF IInv, Chained, HeadsCover
<1>8. QED
  BY <1>1, <1>6, <1>7 DEF IInv, SingleWriter

\* What the log's tail is while the one process is anywhere but the newline,
\* and what is in memory.
LEMMA AtRest ==
    ASSUME IInv, NEW p \in Proc
    PROVE  /\ pc[p] # "newline" => events.tail = <<>> /\ Entries = events.done
           /\ pc[p] # "headnl" => heads.tail = <<>> /\ Heads = heads.done
           /\ pc[p] # "down" => mem[p] = events.done
BY DEF IInv, LogTail, HeadTail, MemoryIsLog, Entries, Heads, Lines

\* A step that moves the one process between points where neither file has an
\* unterminated line, and leaves both files alone, keeps the invariant.
LEMMA QuietStep ==
    ASSUME IInv, TypeOK', JobOK', NEW p \in Proc,
           pc[p] \notin {"newline", "headnl"}, pc'[p] \notin {"newline", "headnl"},
           UNCHANGED <<events, heads, anchors>>,
           mem'[p] = IF pc'[p] = "down" THEN <<>> ELSE events.done
    PROVE  IInv'
<1>1. \A q \in Proc : q = p
  BY OnlyOne DEF IInv
<1>2. events.tail = <<>> /\ heads.tail = <<>>
  BY AtRest
<1>3. LogTail' /\ HeadTail' /\ MemoryIsLog'
  BY <1>1, <1>2 DEF LogTail, HeadTail, MemoryIsLog
<1>4. Chained(events.done)' /\ HeadsCover' /\ AnchorsCover'
  BY DEF IInv, Chained, HeadsCover, AnchorsCover
<1>5. QED
  BY <1>3, <1>4 DEF IInv, SingleWriter

LEMMA IInvStep == IInv /\ [Next]_vars => IInv'
<1> SUFFICES ASSUME IInv, [Next]_vars PROVE IInv'
  OBVIOUS
<1>0. TypeOK /\ JobOK /\ TypeOK' /\ JobOK'
  BY TypeStep DEF IInv
<1>1. CASE UNCHANGED vars
  BY <1>0, <1>1 DEF vars, IInv, SingleWriter, Chained, LogTail, HeadTail, MemoryIsLog,
     HeadsCover, AnchorsCover, NewEnvelope
<1>2. ASSUME NEW p \in Proc, Open(p) PROVE IInv'
  <2>1. pc[p] = "down" /\ pc'[p] = "idle" /\ mem'[p] = events.done
    BY <1>0, <1>2, AtRest DEF Open, Goto, TypeOK
  <2>2. QED
    BY <1>0, <1>2, <2>1, QuietStep DEF Open
<1>3. ASSUME NEW p \in Proc, Exit(p) PROVE IInv'
  <2>1. pc[p] = "idle" /\ pc'[p] = "down" /\ mem'[p] = <<>>
    BY <1>0, <1>3 DEF Exit, Goto, TypeOK
  <2>2. QED
    BY <1>0, <1>3, <2>1, QuietStep DEF Exit
<1>4. ASSUME NEW p \in Proc, NEW s \in Subject, AppendEvent(p, s) PROVE IInv'
  <2>1. AnchorsCover' /\ anchors' \in [Dest -> TreeHead]
    BY <1>4, <1>0 DEF AppendEvent, StartAppend, IInv, AnchorsCover, TypeOK
  <2>2. QED
    BY <1>4, <2>1, StartAppendIInv DEF AppendEvent, Kinds
<1>5. ASSUME NEW p \in Proc, NEW x \in Expiries, Expire(p, x[1], x[2]) PROVE IInv'
  <2>1. x[1] \in Subject /\ x[2] \in Subject
    OBVIOUS
  <2>2. StartAppend(p, "retention.expire", x[2], x[1]) /\ UNCHANGED anchors /\ pc[p] = "idle"
    BY <1>5 DEF Expire
  <2>3. AnchorsCover' /\ anchors' \in [Dest -> TreeHead]
    BY <1>0, <2>2 DEF StartAppend, IInv, AnchorsCover, TypeOK
  <2>4. QED
    BY <2>1, <2>2, <2>3, StartAppendIInv DEF Kinds
<1>6. ASSUME NEW p \in Proc, NEW d \in Dest, Anchor(p, d) PROVE IInv'
  <2>1. Heads = heads.done /\ heads.done \in Seq(Seq(TreeHead))
    BY <1>0, <1>6, AtRest DEF Anchor, TypeOK, File
  <2>2. Len(heads.done) \in DOMAIN heads.done
    BY <1>6, <2>1 DEF Anchor
  <2>3. /\ Covers(heads.done[Len(heads.done)][1], events.done)
        /\ Parses(heads.done[Len(heads.done)])
        /\ heads.done[Len(heads.done)] \in Seq(TreeHead)
    BY <2>1, <2>2 DEF IInv, HeadsCover
  <2>4. heads.done[Len(heads.done)][1] \in TreeHead
    BY <2>3 DEF Parses
  <2>5. anchors' = [anchors EXCEPT ![d] = heads.done[Len(heads.done)][1]]
    BY <1>6, <2>1 DEF Anchor
  <2>6. anchors' \in [Dest -> TreeHead]
    BY <1>0, <2>4, <2>5 DEF TypeOK
  <2>7. events' = events
    BY <1>6 DEF Anchor, StartAppend
  <2>8. AnchorsCover'
    BY <1>0, <2>3, <2>5, <2>7 DEF AnchorsCover, IInv, TypeOK
  <2>9. d \in Subject /\ StartAppend(p, "ledger.anchor", d, NoSubject) /\ pc[p] = "idle"
    BY <1>6 DEF Anchor
  <2>10. QED
    BY <2>6, <2>8, <2>9, StartAppendIInv DEF Kinds
<1>7. ASSUME NEW p \in Proc, WritePayload(p) PROVE IInv'
  <2>1. pc[p] = "payload" /\ pc'[p] = "entry" /\ mem'[p] = events.done
    BY <1>0, <1>7, AtRest DEF WritePayload, Goto, TypeOK
  <2>2. QED
    BY <1>0, <1>7, <2>1, QuietStep DEF WritePayload
<1>8. ASSUME NEW p \in Proc, WriteEntry(p) PROVE IInv'
  <2>1. \A q \in Proc : q = p
    BY OnlyOne DEF IInv
  <2>2. /\ pc[p] = "entry" /\ pc'[p] = "newline" /\ events.tail = <<>>
        /\ heads.tail = <<>> /\ mem[p] = events.done
    BY <1>0, <1>8, AtRest DEF WriteEntry, Goto, TypeOK
  <2>3. events'.done = events.done /\ events'.tail = <<NewEnvelope(p)>>
    <3>1. events \in [done : Seq(Seq(Envelope)), tail : Seq(Envelope)]
      BY <1>0 DEF TypeOK, File
    <3>2. events' = [events EXCEPT !.tail = Append(<<>>, NewEnvelope(p))]
      BY <1>8, <2>2 DEF WriteEntry, Write
    <3>3. Append(<<>>, NewEnvelope(p)) = <<NewEnvelope(p)>>
      OBVIOUS
    <3>4. QED
      BY <3>1, <3>2, <3>3
  <2>4. UNCHANGED <<heads, payload, anchors, mem, job, crashes>>
    BY <1>8 DEF WriteEntry
  <2>5. NewEnvelope(p)' = NewEnvelope(p)
    BY <2>4 DEF NewEnvelope
  <2>6. LogTail' /\ HeadTail' /\ MemoryIsLog'
    BY <2>1, <2>2, <2>3, <2>4, <2>5 DEF LogTail, HeadTail, MemoryIsLog
  <2>7. Chained(events.done)' /\ HeadsCover' /\ AnchorsCover'
    BY <2>3, <2>4 DEF IInv, Chained, HeadsCover, AnchorsCover
  <2>8. QED
    BY <1>0, <2>6, <2>7 DEF IInv, SingleWriter
<1>9. ASSUME NEW p \in Proc, WriteNewline(p) PROVE IInv'
  <2> DEFINE line == <<NewEnvelope(p)>>
  <2>1. \A q \in Proc : q = p
    BY OnlyOne DEF IInv
  <2>2. /\ pc[p] = "newline" /\ pc'[p] = "head" /\ events.tail = line
        /\ heads.tail = <<>> /\ mem[p] = events.done
    BY <1>0, <1>9, AtRest DEF WriteNewline, Goto, TypeOK, IInv, LogTail
  <2>3. /\ events'.done = Append(events.done, line) /\ events'.tail = <<>>
        /\ mem'[p] = Append(events.done, line)
    BY <1>0, <1>9, <2>2 DEF WriteNewline, Newline, TypeOK
  <2>4. UNCHANGED <<heads, payload, anchors, job, crashes>>
    BY <1>9 DEF WriteNewline
  <2>5. LogTail' /\ HeadTail' /\ MemoryIsLog'
    BY <2>1, <2>2, <2>3, <2>4 DEF LogTail, HeadTail, MemoryIsLog
  <2>6. NewEnvelope(p) \in Envelope /\ NewEnvelope(p).prev = LastLeaf(events.done)
    <3>1. NewEnvelope(p) \in Envelope
      BY <1>0, <2>2, EnvelopeType DEF JobOK, Steps
    <3>2. QED
      BY <2>2, <3>1 DEF NewEnvelope
  <2>7. events.done \in Seq(Line) /\ line \in Line
    BY <1>0, <2>6 DEF TypeOK, File, Line
  <2>8. Chained(events.done)'
    BY <2>3, <2>6, <2>7, ChainedAppend DEF IInv
  <2>9. HeadsCover'
    <3> SUFFICES ASSUME NEW k \in DOMAIN heads.done
                 PROVE  Parses(heads.done[k]) /\ Covers(heads.done[k][1], events'.done)
      BY <2>4 DEF HeadsCover
    <3>1. Parses(heads.done[k]) /\ Covers(heads.done[k][1], events.done)
      BY DEF IInv, HeadsCover
    <3>2. heads.done \in Seq(Seq(TreeHead))
      BY <1>0 DEF TypeOK, File
    <3>3. heads.done[k] \in Seq(TreeHead)
      BY <3>2
    <3>4. heads.done[k][1] \in Seq(Line)
      BY <3>1, <3>3 DEF Parses, TreeHead
    <3>5. QED
      BY <2>3, <2>7, <3>1, <3>4, CoversAppend
  <2>10. AnchorsCover'
    <3> SUFFICES ASSUME NEW d \in Dest PROVE Covers(anchors[d], events'.done)
      BY <2>4 DEF AnchorsCover
    <3>1. Covers(anchors[d], events.done) /\ anchors[d] \in Seq(Line)
      BY <1>0 DEF IInv, AnchorsCover, TypeOK, TreeHead
    <3>2. QED
      BY <2>3, <2>7, <3>1, CoversAppend
  <2>11. QED
    BY <1>0, <2>5, <2>8, <2>9, <2>10 DEF IInv, SingleWriter
<1>10. ASSUME NEW p \in Proc, WriteHead(p) PROVE IInv'
  <2>1. \A q \in Proc : q = p
    BY OnlyOne DEF IInv
  <2>2. /\ pc[p] = "head" /\ pc'[p] = "headnl" /\ events.tail = <<>>
        /\ heads.tail = <<>> /\ mem[p] = events.done
    BY <1>0, <1>10, AtRest DEF WriteHead, Goto, TypeOK
  <2>3. heads'.done = heads.done /\ heads'.tail = <<mem[p]>>
    <3>1. heads \in [done : Seq(Seq(TreeHead)), tail : Seq(TreeHead)]
      BY <1>0 DEF TypeOK, File
    <3>2. heads' = [heads EXCEPT !.tail = Append(<<>>, mem[p])]
      BY <1>10, <2>2 DEF WriteHead, Write
    <3>3. Append(<<>>, mem[p]) = <<mem[p]>>
      OBVIOUS
    <3>4. QED
      BY <3>1, <3>2, <3>3
  <2>4. UNCHANGED <<events, payload, anchors, mem, job, crashes>>
    BY <1>10 DEF WriteHead
  <2>5. LogTail' /\ HeadTail' /\ MemoryIsLog'
    BY <2>1, <2>2, <2>3, <2>4 DEF LogTail, HeadTail, MemoryIsLog
  <2>6. Chained(events.done)' /\ HeadsCover' /\ AnchorsCover'
    BY <2>3, <2>4 DEF IInv, Chained, HeadsCover, AnchorsCover
  <2>7. QED
    BY <1>0, <2>5, <2>6 DEF IInv, SingleWriter
<1>11. ASSUME NEW p \in Proc, WriteHeadNewline(p) PROVE IInv'
  <2>1. \A q \in Proc : q = p
    BY OnlyOne DEF IInv
  <2>2. /\ pc[p] = "headnl" /\ pc'[p] \in {"idle", "unlink"} /\ events.tail = <<>>
        /\ heads.tail = <<mem[p]>> /\ mem[p] = events.done
    BY <1>0, <1>11, AtRest DEF WriteHeadNewline, Goto, TypeOK, IInv, HeadTail
  <2>3. heads'.done = Append(heads.done, <<events.done>>) /\ heads'.tail = <<>>
    BY <1>11, <2>2 DEF WriteHeadNewline, Newline
  <2>4. UNCHANGED <<events, payload, anchors, mem, crashes>>
    BY <1>11 DEF WriteHeadNewline
  <2>5. LogTail' /\ HeadTail' /\ MemoryIsLog'
    BY <2>1, <2>2, <2>3, <2>4 DEF LogTail, HeadTail, MemoryIsLog
  <2>6. events.done \in Seq(Line) /\ heads.done \in Seq(Seq(TreeHead))
    BY <1>0 DEF TypeOK, File, Line
  <2>7. HeadsCover'
    <3>1. Covers(events.done, events.done)
      BY <2>6, CoversSelf
    <3>2. Parses(<<events.done>>) /\ <<events.done>>[1] = events.done
      BY DEF Parses
    <3>3. ASSUME NEW k \in DOMAIN heads'.done
          PROVE  Parses(heads'.done[k]) /\ Covers(heads'.done[k][1], events.done)
      <4>1. CASE k \in DOMAIN heads.done
        <5>1. heads'.done[k] = heads.done[k]
          BY <2>3, <2>6, <4>1
        <5>2. QED
          BY <4>1, <5>1 DEF IInv, HeadsCover
      <4>2. CASE k \notin DOMAIN heads.done
        <5>1. heads'.done[k] = <<events.done>>
          BY <2>3, <2>6, <3>3, <4>2
        <5>2. QED
          BY <3>1, <3>2, <5>1
      <4>3. QED
        BY <4>1, <4>2
    <3>4. QED
      BY <2>4, <3>3 DEF HeadsCover
  <2>8. Chained(events.done)' /\ AnchorsCover'
    BY <2>4 DEF IInv, Chained, AnchorsCover
  <2>9. QED
    BY <1>0, <2>5, <2>7, <2>8 DEF IInv, SingleWriter
<1>12. ASSUME NEW p \in Proc, Unlink(p) PROVE IInv'
  <2>1. pc[p] = "unlink" /\ pc'[p] = "idle" /\ mem'[p] = events.done
    BY <1>0, <1>12, AtRest DEF Unlink, Goto, TypeOK
  <2>2. QED
    BY <1>0, <1>12, <2>1, QuietStep DEF Unlink
<1>13. ASSUME NEW p \in Proc, Crash(p) PROVE IInv'
  <2>1. pc[p] \notin {"newline", "headnl"} /\ pc'[p] = "down" /\ mem'[p] = <<>>
    BY <1>0, <1>13 DEF Crash, Goto, TypeOK, IInv, SingleWriter
  <2>2. QED
    BY <1>0, <1>13, <2>1, QuietStep DEF Crash
<1>14. QED
  BY <1>1, <1>2, <1>3, <1>4, <1>5, <1>6, <1>7, <1>8, <1>9, <1>10, <1>11,
     <1>12, <1>13 DEF Next

-----------------------------------------------------------------------------
(* What the invariant gives *)

\* The lines a reader sees, the unterminated one included, chain throughout.
LEMMA EntriesChained == IInv => Chained(Entries) /\ Entries \in Seq(Line)
<1> SUFFICES ASSUME IInv PROVE Chained(Entries) /\ Entries \in Seq(Line)
  OBVIOUS
<1>1. PICK p \in Proc : Proc = {p}
  BY DEF IInv, SingleWriter
<1>2. Entries \in Seq(Line)
  BY LinesType DEF IInv, TypeOK, Entries, Line
<1>3. CASE pc[p] # "newline"
  BY <1>2, <1>3, AtRest DEF IInv
<1>4. CASE pc[p] = "newline"
  <2>1. mem[p] = events.done /\ events.tail = <<NewEnvelope(p)>>
    BY <1>4, AtRest DEF IInv, LogTail
  <2>2. NewEnvelope(p) \in Envelope
    BY <1>4, EnvelopeType DEF IInv, JobOK, Steps
  <2>3. NewEnvelope(p).prev = LastLeaf(events.done)
    BY <2>1 DEF NewEnvelope
  <2>4. Entries = Append(events.done, <<NewEnvelope(p)>>)
    BY <2>1 DEF Entries, Lines
  <2>5. events.done \in Seq(Line)
    BY DEF IInv, TypeOK, File, Line
  <2>6. QED
    BY <1>2, <2>2, <2>3, <2>4, <2>5, ChainedAppend DEF IInv
<1>5. QED
  BY <1>3, <1>4

\* Whatever head is over a prefix of the terminated lines is over a prefix of
\* the lines a reader sees.
LEMMA CoversEntries ==
    ASSUME IInv, NEW h \in Seq(Line), Covers(h, events.done)
    PROVE  Matches(h)
<1>1. PICK p \in Proc : Proc = {p}
  BY DEF IInv, SingleWriter
<1>2. CASE pc[p] # "newline"
  BY <1>2, AtRest DEF Matches
<1>3. CASE pc[p] = "newline"
  <2>1. events.tail = <<NewEnvelope(p)>>
    BY <1>3 DEF IInv, LogTail
  <2>2. NewEnvelope(p) \in Envelope
    BY <1>3, EnvelopeType DEF IInv, JobOK, Steps
  <2>3. Entries = Append(events.done, <<NewEnvelope(p)>>)
    BY <2>1 DEF Entries, Lines
  <2>4. events.done \in Seq(Line) /\ <<NewEnvelope(p)>> \in Line
    BY <2>2 DEF IInv, TypeOK, File, Line
  <2>5. QED
    BY <2>3, <2>4, CoversAppend DEF Matches
<1>4. QED
  BY <1>2, <1>3

\* Every head a reader sees parses and is over a prefix of the entries.
LEMMA HeadsMatch ==
    ASSUME IInv, NEW k \in DOMAIN Heads
    PROVE  Parses(Heads[k]) /\ Matches(Heads[k][1])
<1>1. PICK p \in Proc : Proc = {p}
  BY DEF IInv, SingleWriter
<1>2. heads.done \in Seq(Seq(TreeHead)) /\ events.done \in Seq(Line) /\ mem[p] \in Seq(Line)
  BY DEF IInv, TypeOK, File, Line
<1>3. ASSUME NEW j \in DOMAIN heads.done
      PROVE  Parses(heads.done[j]) /\ Matches(heads.done[j][1])
  <2>1. Parses(heads.done[j]) /\ Covers(heads.done[j][1], events.done)
    BY DEF IInv, HeadsCover
  <2>2. heads.done[j] \in Seq(TreeHead)
    BY <1>2
  <2>3. heads.done[j][1] \in Seq(Line)
    BY <2>1, <2>2 DEF Parses, TreeHead
  <2>4. QED
    BY <2>1, <2>3, CoversEntries
<1>4. CASE pc[p] # "headnl"
  BY <1>3, <1>4, AtRest
<1>5. CASE pc[p] = "headnl"
  <2>1. heads.tail = <<mem[p]>> /\ mem[p] = events.done
    BY <1>5, AtRest DEF IInv, HeadTail
  <2>2. Heads = Append(heads.done, <<events.done>>)
    BY <2>1 DEF Heads, Lines
  <2>3. Matches(events.done)
    BY <1>2, CoversSelf, CoversEntries
  <2>4. CASE k \in DOMAIN heads.done
    <3>1. Heads[k] = heads.done[k]
      BY <1>2, <2>2, <2>4
    <3>2. QED
      BY <1>3, <2>4, <3>1
  <2>5. CASE k \notin DOMAIN heads.done
    <3>1. Heads[k] = <<events.done>>
      BY <1>2, <2>2, <2>5
    <3>2. QED
      BY <2>3, <3>1 DEF Parses
  <2>6. QED
    BY <2>4, <2>5
<1>6. QED
  BY <1>4, <1>5

LEMMA InvariantGives ==
    IInv => NeverLooksRewritten /\ AnchorsHold /\ MemoryIsPrefix
<1> SUFFICES ASSUME IInv PROVE NeverLooksRewritten /\ AnchorsHold /\ MemoryIsPrefix
  OBVIOUS
<1>1. ~EntryUnparsed /\ ~ChainDiverges
  BY EntriesChained DEF Chained, EntryUnparsed, ChainDiverges
<1>2. ~HeadUnparsed
  BY HeadsMatch DEF HeadUnparsed
<1>3. ~HeadDiverges
  <2>1. Heads \in Seq(Seq(TreeHead))
    BY LinesType DEF IInv, TypeOK, Heads
  <2>2. \A k \in DOMAIN Heads : \A j \in 1..k : j \in DOMAIN Heads
    BY <2>1
  <2>3. DOMAIN Heads \subseteq Walked
    BY <2>2, HeadsMatch DEF Walked
  <2>4. QED
    BY <2>3 DEF HeadDiverges, Walked
<1>4. AnchorsHold
  BY CoversEntries DEF IInv, AnchorsCover, AnchorsHold, TypeOK, TreeHead
<1>5. MemoryIsPrefix
  <2> SUFFICES ASSUME NEW p \in Proc PROVE Matches(mem[p])
    BY DEF MemoryIsPrefix
  <2>1. mem[p] \in Seq(Line) /\ events.done \in Seq(Line)
    BY DEF IInv, TypeOK, File, Line
  <2>2. CASE pc[p] # "down"
    BY <2>1, <2>2, AtRest, CoversSelf, CoversEntries
  <2>3. CASE pc[p] = "down"
    <3>1. mem[p] = <<>>
      BY <2>3 DEF IInv, MemoryIsLog
    <3>2. Covers(<<>>, events.done)
      BY <2>1, SubSeqEmpty DEF Covers
    <3>3. QED
      BY <2>1, <3>1, <3>2, CoversEntries
  <2>4. QED
    BY <2>2, <2>3
<1>6. QED
  BY <1>1, <1>2, <1>3, <1>4, <1>5 DEF NeverLooksRewritten

\* One process at a time, killed anywhere but between the two writes of a
\* line, never leaves a log that verify reads as rewritten.
THEOREM SingleWriterNeverLooksRewritten == SingleWriter /\ Spec => []NeverLooksRewritten
<1>1. IInv => NeverLooksRewritten
  BY InvariantGives
<1>2. QED
  BY <1>1, IInvInit, IInvStep, PTL DEF Spec

\* Under the same two conditions a head copied out of the ledger stays
\* consistent with every later state of the log.
THEOREM SingleWriterAnchorsHold == SingleWriter /\ Spec => []AnchorsHold
<1>1. IInv => AnchorsHold
  BY InvariantGives
<1>2. QED
  BY <1>1, IInvInit, IInvStep, PTL DEF Spec

\* And what the process has in memory is what the log holds.
THEOREM SingleWriterMemory == SingleWriter /\ Spec => []MemoryIsPrefix
<1>1. IInv => MemoryIsPrefix
  BY InvariantGives
<1>2. QED
  BY <1>1, IInvInit, IInvStep, PTL DEF Spec

-----------------------------------------------------------------------------
(* The size the walk over the heads arrives at *)

LEMMA HeadsType ==
    ASSUME IInv
    PROVE  /\ Heads \in Seq(Seq(TreeHead))
           /\ heads.done \in Seq(Seq(TreeHead))
           /\ events.done \in Seq(Line)
           /\ \A k \in DOMAIN Heads : Heads[k][1] \in Seq(Line)
<1>1. Heads \in Seq(Seq(TreeHead))
  BY LinesType DEF IInv, TypeOK, Heads
<1>2. ASSUME NEW k \in DOMAIN Heads PROVE Heads[k][1] \in Seq(Line)
  <2>1. Heads[k] \in Seq(TreeHead) /\ Len(Heads[k]) = 1
    BY <1>1, HeadsMatch DEF Parses
  <2>2. Heads[k][1] \in TreeHead
    BY <2>1
  <2>3. QED
    BY <2>2 DEF TreeHead
<1>3. QED
  BY <1>1, <1>2 DEF IInv, TypeOK, File, Line

\* Every head is walked, so what is covered is the size of the newest one.
CoveredIsNewest ==
    Covered = IF Heads = <<>> THEN 0 ELSE Len(Heads[Len(Heads)][1])

LEMMA CoveredIs == IInv => CoveredIsNewest
<1> SUFFICES ASSUME IInv
             PROVE  Covered = IF Heads = <<>> THEN 0 ELSE Len(Heads[Len(Heads)][1])
  BY DEF CoveredIsNewest
<1> DEFINE good == {k \in Walked : Parses(Heads[k])}
<1>1. Heads \in Seq(Seq(TreeHead))
  BY HeadsType
<1>2. Walked = DOMAIN Heads
  BY InvariantGives DEF NeverLooksRewritten, HeadDiverges
<1>3. good = 1..Len(Heads)
  BY <1>1, <1>2, HeadsMatch
<1>4. CASE Heads = <<>>
  BY <1>3, <1>4 DEF Covered
<1>5. CASE Heads # <<>>
  <2> DEFINE last == CHOOSE k \in good : \A j \in good : j <= k
  <2>1. Len(Heads) \in good /\ \A j \in good : j <= Len(Heads)
    BY <1>1, <1>3, <1>5
  <2>2. \A k \in good : (\A j \in good : j <= k) => k = Len(Heads)
    BY <1>1, <1>3, <2>1
  <2>3. last = Len(Heads)
    BY <2>1, <2>2
  <2>4. good # {}
    BY <2>1
  <2>5. Covered = Len(Heads[last][1])
    BY <2>4 DEF Covered
  <2> HIDE DEF last
  <2>6. QED
    BY <1>5, <2>3, <2>5
<1>6. QED
  BY <1>4, <1>5

\* What a reader sees, by where the one process is.
LEMMA Seen ==
    ASSUME IInv, NEW p \in Proc
    PROVE  /\ Entries \in Seq(Line)
           /\ Covered \in Nat
           /\ Covered <= Len(Entries)
           /\ pc[p] # "newline" => Entries = events.done
           /\ pc[p] = "newline" => Entries = Append(events.done, <<NewEnvelope(p)>>)
           /\ pc[p] # "headnl" => Heads = heads.done
           /\ pc[p] = "headnl" => Heads = Append(heads.done, <<events.done>>)
<1>1. Entries \in Seq(Line)
  BY EntriesChained
<1>2. Covered \in Nat /\ Covered <= Len(Entries)
  <2>1. CASE Heads = <<>>
    BY <1>1, <2>1, CoveredIs DEF CoveredIsNewest
  <2>2. CASE Heads # <<>>
    <3>1. Len(Heads) \in DOMAIN Heads
      BY <2>2, HeadsType
    <3>2. Heads[Len(Heads)][1] \in Seq(Line) /\ Matches(Heads[Len(Heads)][1])
      BY <3>1, HeadsType, HeadsMatch
    <3>3. QED
      BY <2>2, <3>2, CoveredIs DEF CoveredIsNewest, Matches, Covers
  <2>3. QED
    BY <2>1, <2>2
<1>3. pc[p] = "newline" => Entries = Append(events.done, <<NewEnvelope(p)>>)
  <2> SUFFICES ASSUME pc[p] = "newline"
               PROVE  Entries = Append(events.done, <<NewEnvelope(p)>>)
    OBVIOUS
  <2>1. events.tail = <<NewEnvelope(p)>>
    BY DEF IInv, LogTail
  <2>2. QED
    BY <2>1 DEF Entries, Lines
<1>4. pc[p] = "headnl" => Heads = Append(heads.done, <<events.done>>)
  <2> SUFFICES ASSUME pc[p] = "headnl" PROVE Heads = Append(heads.done, <<events.done>>)
    OBVIOUS
  <2>1. heads.tail = <<events.done>>
    BY AtRest DEF IInv, HeadTail
  <2>2. QED
    BY <2>1 DEF Heads, Lines
<1>5. QED
  BY <1>1, <1>2, <1>3, <1>4, AtRest

-----------------------------------------------------------------------------
(* The steps of Ledger as steps of the append-only log *)

\* When a head is about to be signed there is a newest line, and no head
\* covers it.
SomethingToSign ==
    \A p \in Proc : pc[p] = "head" =>
        /\ 0 < Len(events.done)
        /\ \A k \in DOMAIN heads.done : Len(heads.done[k][1]) < Len(events.done)

\* The log as seen by verify, unmoved.
Unmoved == UNCHANGED <<Entries, Covered>>

\* A step that leaves both files alone does not move the log.
LEMMA FilesAlone == UNCHANGED <<events, heads>> => Unmoved
BY DEF Unmoved, Entries, Heads, Covered, Walked, Matches

LEMMA SignInit == Init => SomethingToSign
BY DEF Init, SomethingToSign

\* Only the process that has just terminated a line is about to sign.
LEMMA SignStep == IInv /\ SomethingToSign /\ [Next]_vars => SomethingToSign'
<1> SUFFICES ASSUME IInv, SomethingToSign, [Next]_vars PROVE SomethingToSign'
  OBVIOUS
<1>0. TypeOK
  BY DEF IInv
<1>1. CASE UNCHANGED vars
  BY <1>1 DEF vars, SomethingToSign
<1>2. ASSUME NEW p \in Proc, pc'[p] # "head" PROVE SomethingToSign'
  BY <1>2, OnlyOne DEF IInv, SomethingToSign
<1>3. ASSUME NEW p \in Proc, WriteNewline(p) PROVE SomethingToSign'
  <2>1. /\ heads' = heads
        /\ Len(events'.done) = Len(events.done) + 1
        /\ Len(events.done) \in Nat
    BY <1>0, <1>3 DEF WriteNewline, Newline, TypeOK, File
  <2>2. ASSUME NEW k \in DOMAIN heads.done
        PROVE  Len(heads.done[k][1]) < Len(events.done) + 1
    <3>1. Parses(heads.done[k]) /\ Covers(heads.done[k][1], events.done)
      BY DEF IInv, HeadsCover
    <3>2. heads.done[k] \in Seq(TreeHead) /\ events.done \in Seq(Line)
      BY HeadsType
    <3>3. heads.done[k][1] \in Seq(Line)
      BY <3>1, <3>2 DEF Parses, TreeHead
    <3>4. QED
      BY <3>1, <3>2, <3>3 DEF Covers
  <2>3. QED
    BY <2>1, <2>2 DEF SomethingToSign
<1>4. ASSUME NEW p \in Proc, ~WriteNewline(p), pc'[p] = "head",
             \/ Open(p)
             \/ Exit(p)
             \/ \E s \in Subject : AppendEvent(p, s)
             \/ \E x \in Expiries : Expire(p, x[1], x[2])
             \/ \E d \in Dest : Anchor(p, d)
             \/ WritePayload(p)
             \/ WriteEntry(p)
             \/ WriteHead(p)
             \/ WriteHeadNewline(p)
             \/ Unlink(p)
             \/ Crash(p)
      PROVE  FALSE
  BY <1>0, <1>4 DEF TypeOK, Open, Exit, AppendEvent, Expire, Anchor, StartAppend,
     WritePayload, WriteEntry, WriteHead, WriteHeadNewline, Unlink, Crash, Goto
<1>5. QED
  BY <1>1, <1>2, <1>3, <1>4 DEF Next

\* Writing an entry adds one line to the log, and no head covers it.
LEMMA EntryAdded ==
    ASSUME IInv, IInv', NEW p \in Proc, WriteEntry(p)
    PROVE  /\ <<NewEnvelope(p)>> \in Line
           /\ Entries' = Append(Entries, <<NewEnvelope(p)>>)
           /\ Covered' = Covered
<1>0. TypeOK
  BY DEF IInv
<1>1. pc[p] = "entry" /\ pc'[p] = "newline" /\ heads' = heads /\ events'.done = events.done
  BY <1>0 DEF WriteEntry, Goto, TypeOK, Write, File
<1>2. NewEnvelope(p)' = NewEnvelope(p)
  BY DEF WriteEntry, NewEnvelope
<1>3. Entries = events.done /\ Entries' = Append(events.done, <<NewEnvelope(p)>>)
  <2>1. Entries = events.done
    BY <1>1, Seen
  <2>2. events'.tail = <<NewEnvelope(p)>>
    BY <1>1, <1>2 DEF IInv, LogTail
  <2>3. QED
    BY <1>1, <2>1, <2>2 DEF Entries, Lines
<1>4. <<NewEnvelope(p)>> \in Line
  BY <1>1, EnvelopeType DEF IInv, JobOK, Steps, Line
<1>5. Heads' = Heads
  BY <1>1 DEF Heads
<1>6. CoveredIsNewest /\ CoveredIsNewest'
  BY CoveredIs, PTL
<1>7. Covered' = Covered
  BY <1>5, <1>6 DEF CoveredIsNewest
<1>8. QED
  BY <1>3, <1>4, <1>7

\* Writing a head covers the whole log, which was not covered before.
LEMMA HeadSigned ==
    ASSUME IInv, IInv', SomethingToSign, NEW p \in Proc, WriteHead(p)
    PROVE  Entries' = Entries /\ Covered < Len(Entries) /\ Covered' = Len(Entries)
<1>0. TypeOK
  BY DEF IInv
<1>1. pc[p] = "head" /\ pc'[p] = "headnl" /\ events' = events /\ heads'.done = heads.done
  BY <1>0 DEF WriteHead, Goto, TypeOK, Write, File
<1>2. Entries = events.done /\ Heads = heads.done /\ mem[p] = events.done
  BY <1>1, Seen, AtRest
<1>3. Entries' = Entries
  BY <1>1 DEF Entries
<1>4. Heads' = Append(heads.done, <<events.done>>)
  <2>1. heads'.tail = <<events.done>>
    BY <1>1, <1>2 DEF WriteHead, IInv, HeadTail
  <2>2. QED
    BY <1>1, <2>1 DEF Heads, Lines
<1>5. Covered' = Len(events.done)
  <2>1. CoveredIsNewest'
    BY CoveredIs, PTL
  <2>2. Heads' # <<>> /\ Heads'[Len(Heads')] = <<events.done>>
    <3>1. <<events.done>> \in Seq(TreeHead)
      BY HeadsType DEF TreeHead
    <3>2. heads.done \in Seq(Seq(TreeHead))
      BY HeadsType
    <3>3. QED
      BY <1>4, <3>1, <3>2, AppendedLast
  <2>3. QED
    BY <2>1, <2>2 DEF CoveredIsNewest
<1>6. Covered < Len(events.done)
  <2>1. CASE Heads = <<>>
    BY <1>1, <2>1, CoveredIs DEF CoveredIsNewest, SomethingToSign
  <2>2. CASE Heads # <<>>
    <3>1. Len(Heads) \in DOMAIN heads.done
      BY <1>2, <2>2, HeadsType
    <3>2. QED
      BY <1>1, <1>2, <2>2, <3>1, CoveredIs DEF CoveredIsNewest, SomethingToSign
  <2>3. QED
    BY <2>1, <2>2
<1>7. QED
  BY <1>2, <1>3, <1>5, <1>6

\* Every other step leaves the log as verify sees it alone.
LEMMA StepOfLog ==
    ASSUME IInv, [Next]_vars
    PROVE  Unmoved \/ \E p \in Proc : WriteEntry(p) \/ WriteHead(p)
<1>1. CASE UNCHANGED <<events, heads>>
  BY <1>1, FilesAlone
<1>2. ASSUME NEW p \in Proc, WriteNewline(p) PROVE Unmoved
  <2>1. pc[p] = "newline" /\ events.tail = <<NewEnvelope(p)>> /\ heads' = heads
    BY <1>2 DEF WriteNewline, IInv, LogTail
  <2>2. events'.done = Append(events.done, events.tail) /\ events'.tail = <<>>
    BY <1>2 DEF WriteNewline, Newline
  <2>3. Entries' = Entries
    BY <2>1, <2>2 DEF Entries, Lines
  <2>4. QED
    BY <2>1, <2>3 DEF Unmoved, Heads, Covered, Walked, Matches
<1>3. ASSUME NEW p \in Proc, WriteHeadNewline(p) PROVE Unmoved
  <2>1. pc[p] = "headnl" /\ heads.tail = <<mem[p]>> /\ events' = events
    BY <1>3 DEF WriteHeadNewline, IInv, HeadTail
  <2>2. heads'.done = Append(heads.done, heads.tail) /\ heads'.tail = <<>>
    BY <1>3 DEF WriteHeadNewline, Newline
  <2>3. Heads' = Heads
    BY <2>1, <2>2 DEF Heads, Lines
  <2>4. QED
    BY <2>1, <2>3 DEF Unmoved, Entries, Covered, Walked, Matches
<1>4. QED
  BY <1>1, <1>2, <1>3 DEF Next, vars, Open, Exit, AppendEvent, Expire,
     Anchor, StartAppend, WritePayload, Unlink, Crash

LEMMA LogInit == IInv /\ Init => Log!Init
<1> SUFFICES ASSUME IInv, Init PROVE Entries = <<>> /\ Covered = 0
  BY DEF Log!Init
<1>1. Entries = <<>> /\ Heads = <<>>
  BY DEF Init, EmptyFile, Entries, Heads, Lines
<1>2. QED
  BY <1>1, CoveredIs DEF CoveredIsNewest

LEMMA LogStep ==
    IInv /\ IInv' /\ SomethingToSign /\ [Next]_vars => [Log!Next]_<<Entries, Covered>>
<1> SUFFICES ASSUME IInv, IInv', SomethingToSign, [Next]_vars
             PROVE  [Log!Next]_<<Entries, Covered>>
  OBVIOUS
<1>1. CASE Unmoved
  BY <1>1 DEF Unmoved
<1>2. ASSUME NEW line \in Line, Entries' = Append(Entries, line), Covered' = Covered
      PROVE  Log!Add
  <2>1. Entries \in Seq(Line)
    BY EntriesChained
  <2>2. PICK t : t = Append(Entries, line)
    OBVIOUS
  <2>3. /\ t \in Seq(Line) /\ Len(t) = Len(Entries) + 1 /\ t[Len(t)] = line
        /\ \A i \in 1..Len(Entries) : t[i] = Entries[i]
    BY <2>1, <2>2
  <2>4. SubSeq(t, 1, Len(Entries)) = Entries
    <3>1. Len(Entries) \in 0..Len(t)
      BY <2>1, <2>3
    <3>2. QED
      BY <2>1, <2>3, <3>1, FirstItems, SeqEqual
  <2>5. QED
    BY <1>2, <2>2, <2>3, <2>4 DEF Log!Add
<1>3. ASSUME Entries' = Entries, Covered < Len(Entries), Covered' = Len(Entries)
      PROVE  Log!Sign
  BY <1>3 DEF Log!Sign
<1>4. QED
  BY <1>1, <1>2, <1>3, StepOfLog, EntryAdded, HeadSigned DEF Log!Next

\* Under SingleWriter the files implement the append-only log: entries are only
\* ever added at the end, one at a time, and what verify takes as signed goes
\* from a prefix of the log to all of it and never back, through any kills.
THEOREM SingleWriterAppendOnly == SingleWriter /\ Spec => AppendOnly
<1>1. SingleWriter /\ Spec => [](IInv /\ SomethingToSign)
  BY IInvInit, IInvStep, SignInit, SignStep, PTL DEF Spec
<1>2. SingleWriter /\ Init => Log!Init
  BY IInvInit, LogInit
<1>3. QED
  BY <1>1, <1>2, LogStep, PTL DEF Spec, AppendOnly, Log!Spec

-----------------------------------------------------------------------------
(* What no head covers *)

\* How many of the processes are between an entry and its head, there being one.
LEMMA UnderWay ==
    ASSUME SingleWriter, NEW f, NEW p \in Proc
    PROVE  Cardinality({q \in Proc : f[q] \in {"newline", "head"}})
               = IF f[p] \in {"newline", "head"} THEN 1 ELSE 0
<1>1. Proc = {p}
  BY OnlyOne
<1>2. CASE f[p] \in {"newline", "head"}
  <2>1. {q \in Proc : f[q] \in {"newline", "head"}} = {p}
    BY <1>1, <1>2
  <2>2. QED
    BY <1>2, <2>1, FS_Singleton
<1>3. CASE f[p] \notin {"newline", "head"}
  <2>1. {q \in Proc : f[q] \in {"newline", "head"}} = {}
    BY <1>1, <1>3
  <2>2. QED
    BY <1>3, <2>1, FS_EmptySet
<1>4. QED
  BY <1>2, <1>3

\* A process enters the part of an append between an entry and its head by
\* writing the entry, and leaves it by writing the head or by being killed.
LEMMA PartsOfAppend ==
    ASSUME TypeOK, NEW p \in Proc, \A q \in Proc : q = p, [Next]_vars,
           ~WriteEntry(p), ~WriteHead(p)
    PROVE  \/ pc'[p] \in {"newline", "head"} /\ crashes' = crashes
           \/ pc[p] \notin {"newline", "head"} /\ crashes' = crashes
           \/ crashes' = crashes + 1
<1>1. CASE UNCHANGED vars
  BY <1>1 DEF vars
<1>2. CASE Crash(p)
  BY <1>2 DEF Crash
<1>3. CASE WriteNewline(p)
  BY <1>3 DEF WriteNewline, Goto, TypeOK
<1>4. CASE \/ Open(p)
           \/ Exit(p)
           \/ \E s \in Subject : AppendEvent(p, s)
           \/ \E x \in Expiries : Expire(p, x[1], x[2])
           \/ \E d \in Dest : Anchor(p, d)
           \/ WritePayload(p)
           \/ WriteHeadNewline(p)
           \/ Unlink(p)
  BY <1>4 DEF Open, Exit, AppendEvent, Expire, Anchor, StartAppend, WritePayload,
     WriteHeadNewline, Unlink
<1>5. QED
  BY <1>1, <1>2, <1>3, <1>4 DEF Next

LEMMA BoundInit == IInv /\ Init => UncoveredTailIsBounded
<1> SUFFICES ASSUME IInv, Init PROVE UncoveredTailIsBounded
  OBVIOUS
<1>1. PICK p \in Proc : TRUE
  BY ConstantsAssumption
<1>2. Entries = <<>> /\ Covered = 0 /\ crashes = 0
  BY LogInit DEF Log!Init, Init
<1>3. Cardinality({q \in Proc : pc[q] \in {"newline", "head"}}) \in {0, 1}
  BY UnderWay DEF IInv
<1>4. QED
  BY <1>2, <1>3 DEF UncoveredTailIsBounded

\* The arithmetic of a step that neither adds an entry nor signs a head: c and
\* u, before, and d and a, after, are the kills and the appends under way.
LEMMA BoundMoves ==
    ASSUME NEW e \in Nat, NEW n \in Nat, NEW c \in Nat, NEW d \in Nat,
           NEW u \in {0, 1}, NEW a \in {0, 1}, e - n <= c + u,
           (d = c /\ u <= a) \/ d = c + 1
    PROVE  e - n <= d + a
OBVIOUS

LEMMA BoundOfNone ==
    ASSUME NEW e \in Nat, NEW d \in Nat, NEW a \in {0, 1}
    PROVE  e - e <= d + a
OBVIOUS

LEMMA BoundStep ==
    IInv /\ IInv' /\ SomethingToSign /\ UncoveredTailIsBounded /\ [Next]_vars
        => UncoveredTailIsBounded'
<1> SUFFICES ASSUME IInv, IInv', SomethingToSign, UncoveredTailIsBounded, [Next]_vars
             PROVE  UncoveredTailIsBounded'
  OBVIOUS
<1>u. PICK under : under = Cardinality({q \in Proc : pc[q] \in {"newline", "head"}})
  OBVIOUS
<1>a. PICK after : after = Cardinality({q \in Proc : pc'[q] \in {"newline", "head"}})
  OBVIOUS
<1>1. PICK p \in Proc : \A q \in Proc : q = p
  BY OnlyOne DEF IInv, SingleWriter
<1>2. /\ under = IF pc[p] \in {"newline", "head"} THEN 1 ELSE 0
      /\ after = IF pc'[p] \in {"newline", "head"} THEN 1 ELSE 0
  BY <1>u, <1>a, UnderWay DEF IInv
<1>3. /\ TypeOK
      /\ crashes \in Nat /\ crashes' \in Nat
      /\ Len(Entries) \in Nat /\ Covered \in Nat
  BY Seen DEF IInv, TypeOK
<1>4. Len(Entries) - Covered <= crashes + under
  BY <1>u DEF UncoveredTailIsBounded
<1> SUFFICES Len(Entries') - Covered' <= crashes' + after
  BY <1>a DEF UncoveredTailIsBounded
<1>5. CASE WriteEntry(p)
  <2>1. crashes' = crashes /\ pc[p] = "entry" /\ pc'[p] = "newline"
    BY <1>3, <1>5 DEF WriteEntry, Goto, TypeOK
  <2>2. Len(Entries') = Len(Entries) + 1 /\ Covered' = Covered
    <3>1. /\ <<NewEnvelope(p)>> \in Line /\ Covered' = Covered
          /\ Entries' = Append(Entries, <<NewEnvelope(p)>>)
      BY <1>5, EntryAdded
    <3>2. Entries \in Seq(Line)
      BY EntriesChained
    <3>3. Len(Append(Entries, <<NewEnvelope(p)>>)) = Len(Entries) + 1
      BY <3>1, <3>2
    <3>4. QED
      BY <3>1, <3>3
  <2>3. QED
    BY <1>2, <1>3, <1>4, <2>1, <2>2
<1>6. CASE WriteHead(p)
  <2>1. Entries' = Entries /\ Covered' = Len(Entries)
    BY <1>6, HeadSigned
  <2>2. Len(Entries) - Len(Entries) <= crashes' + after
    BY <1>2, <1>3, BoundOfNone
  <2>3. QED
    BY <2>1, <2>2
<1>7. CASE ~WriteEntry(p) /\ ~WriteHead(p)
  <2>1. Entries' = Entries /\ Covered' = Covered
    BY <1>1, <1>7, StepOfLog DEF Unmoved
  <2>2. \/ pc'[p] \in {"newline", "head"} /\ crashes' = crashes
        \/ pc[p] \notin {"newline", "head"} /\ crashes' = crashes
        \/ crashes' = crashes + 1
    BY <1>1, <1>3, <1>7, PartsOfAppend
  <2>3. Len(Entries) - Covered <= crashes' + after
    BY <1>2, <1>3, <1>4, <2>2, BoundMoves
  <2>4. QED
    BY <2>1, <2>3
<1>8. QED
  BY <1>5, <1>6, <1>7

\* Under SingleWriter the entries no head covers are never more than the kills
\* so far and the one append under way.
THEOREM SingleWriterTailIsBounded == SingleWriter /\ Spec => []UncoveredTailIsBounded
<1>1. SingleWriter /\ Spec => [](IInv /\ SomethingToSign)
  BY IInvInit, IInvStep, SignInit, SignStep, PTL DEF Spec
<1>2. SingleWriter /\ Init => UncoveredTailIsBounded
  BY IInvInit, BoundInit
<1>3. QED
  BY <1>1, <1>2, BoundStep, PTL DEF Spec

-----------------------------------------------------------------------------
(* Nothing goes that no expiry names *)

\* What Ledger::expire leaves to its caller: the event submitted with a target
\* names that target.
ExpiriesName == \A x \in Expiries : Names[x[2]] = x[1]

Expired(s, lines) ==
    \E e \in EventsIn(lines) : e.kind = "retention.expire" /\ Names[e.subject] = s

\* The strengthening: an append that will delete is the expiry of what it will
\* delete, has that on the record once its entry is written, and nothing
\* deletes the payload of the entry being written.
DeletesWhatItNames ==
    \A p \in Proc : job[p].target # NoSubject =>
        job[p].kind = "retention.expire" /\ Names[job[p].subject] = job[p].target

RecordedFirst ==
    \A p \in Proc :
        pc[p] \in {"newline", "head", "headnl", "unlink"} /\ job[p].target # NoSubject
            => Expired(job[p].target, Entries)

PayloadBeforeEntry ==
    \A p \in Proc : pc[p] \in {"payload", "entry"} => payload[job[p].subject] # "absent"

RecordInv ==
    /\ ExpiriesName
    /\ DeletesWhatItNames
    /\ RecordedFirst
    /\ PayloadBeforeEntry
    /\ AbsentIsExpired

LEMMA EventsType ==
    ASSUME NEW lines \in Seq(Line)
    PROVE  EventsIn(lines) \subseteq Event
<1> SUFFICES ASSUME NEW i \in DOMAIN lines, Parses(lines[i])
             PROVE  lines[i][1].ev \in Event
  BY DEF EventsIn
<1>1. PICK line \in Seq(Envelope) : line = lines[i]
  BY DEF Line
<1>2. Len(line) = 1
  BY <1>1 DEF Parses
<1>3. line[1] \in Envelope
  BY <1>2
<1>4. QED
  BY <1>1, <1>3 DEF Envelope

\* A line added to some lines adds its event to theirs.
LEMMA EventsAppend ==
    ASSUME NEW lines \in Seq(Line), NEW env \in Envelope
    PROVE  EventsIn(Append(lines, <<env>>)) = EventsIn(lines) \cup {env.ev}
<1>1. PICK new : new = Append(lines, <<env>>)
  OBVIOUS
<1>2. <<env>> \in Line
  BY DEF Line
<1>3. /\ DOMAIN new = 1..(Len(lines) + 1) /\ DOMAIN lines = 1..Len(lines)
      /\ \A i \in DOMAIN lines : new[i] = lines[i]
      /\ new[Len(lines) + 1] = <<env>>
  BY <1>1, <1>2
<1>4. Parses(<<env>>) /\ <<env>>[1] = env
  BY DEF Parses
<1>5. EventsIn(new) \subseteq EventsIn(lines) \cup {env.ev}
  <2> SUFFICES ASSUME NEW i \in DOMAIN new, Parses(new[i])
               PROVE  new[i][1].ev \in EventsIn(lines) \cup {env.ev}
    BY DEF EventsIn
  <2>1. CASE i \in DOMAIN lines
    BY <1>3, <2>1 DEF EventsIn
  <2>2. CASE i = Len(lines) + 1
    BY <1>3, <1>4, <2>2
  <2>3. QED
    BY <1>3, <2>1, <2>2
<1>6. EventsIn(lines) \subseteq EventsIn(new)
  <2> SUFFICES ASSUME NEW i \in DOMAIN lines, Parses(lines[i])
               PROVE  lines[i][1].ev \in EventsIn(new)
    BY DEF EventsIn
  <2>1. i \in DOMAIN new /\ new[i] = lines[i]
    BY <1>3
  <2>2. QED
    BY <2>1 DEF EventsIn
<1>7. env.ev \in EventsIn(new)
  <2>1. Len(lines) + 1 \in DOMAIN new
    BY <1>3
  <2>2. QED
    BY <1>3, <1>4, <2>1 DEF EventsIn
<1>8. QED
  BY <1>1, <1>5, <1>6, <1>7

\* Every step but the writing of an entry leaves the entries alone.
LEMMA EntriesKept ==
    ASSUME IInv, IInv', SomethingToSign, [Next]_vars, \A p \in Proc : ~WriteEntry(p)
    PROVE  Entries' = Entries
BY StepOfLog, HeadSigned DEF Unmoved

LEMMA RecordInit == ExpiriesName /\ Init => RecordInv
<1> SUFFICES ASSUME ExpiriesName, Init PROVE RecordInv
  OBVIOUS
<1>1. Entries = <<>>
  BY DEF Init, EmptyFile, Entries, Lines
<1>2. Referenced = {}
  BY <1>1 DEF Referenced, EventsIn
<1>3. QED
  BY <1>2 DEF Init, NoJob, RecordInv, ExpiriesName, DeletesWhatItNames, RecordedFirst,
     PayloadBeforeEntry, AbsentIsExpired

\* A payload that was there before a step that keeps the entries is accounted
\* for after it if it is still there, or was deleted with its expiry recorded.
LEMMA StillAccounted ==
    ASSUME IInv, AbsentIsExpired, Entries' = Entries,
           \A s \in Subject : payload'[s] = "absent" =>
               payload[s] = "absent" \/ Expired(s, Entries)
    PROVE  AbsentIsExpired'
<1> SUFFICES ASSUME NEW s \in Referenced, payload'[s] = "absent"
             PROVE  Expired(s, Entries)
  BY DEF AbsentIsExpired, Referenced, Expired
<1>1. s \in Subject
  BY EntriesChained, EventsType DEF Referenced, Event
<1>2. QED
  BY <1>1 DEF AbsentIsExpired, Expired

LEMMA StartAppendRecord ==
    ASSUME IInv, RecordInv, Entries' = Entries, NEW p \in Proc, \A q \in Proc : q = p,
           NEW k \in Kinds, NEW s \in Subject, NEW t \in Subject \cup {NoSubject},
           StartAppend(p, k, s, t),
           t # NoSubject => k = "retention.expire" /\ Names[s] = t
    PROVE  RecordInv'
<1>1. TypeOK
  BY DEF IInv
<1>2. /\ job'[p] = [kind |-> k, subject |-> s, target |-> t]
      /\ pc'[p] = "payload"
      /\ payload' = [payload EXCEPT ![s] = "torn"]
      /\ payload'[s] = "torn"
  BY <1>1 DEF StartAppend, Goto, TypeOK
<1>3. DeletesWhatItNames' /\ RecordedFirst' /\ PayloadBeforeEntry'
  BY <1>2 DEF DeletesWhatItNames, RecordedFirst, PayloadBeforeEntry
<1>4. \A r \in Subject : payload'[r] = "absent" => payload[r] = "absent"
  BY <1>1, <1>2 DEF TypeOK
<1>5. AbsentIsExpired'
  BY <1>4, StillAccounted DEF RecordInv, ExpiriesName
<1>6. QED
  BY <1>3, <1>5 DEF RecordInv, ExpiriesName

LEMMA RecordStep ==
    IInv /\ IInv' /\ SomethingToSign /\ RecordInv /\ [Next]_vars => RecordInv'
<1> SUFFICES ASSUME IInv, IInv', SomethingToSign, RecordInv, [Next]_vars
             PROVE  RecordInv'
  OBVIOUS
<1>1. PICK p \in Proc : \A q \in Proc : q = p
  BY OnlyOne DEF IInv, SingleWriter
<1>2. /\ TypeOK /\ JobOK /\ ExpiriesName
      /\ DeletesWhatItNames /\ RecordedFirst /\ PayloadBeforeEntry /\ AbsentIsExpired
  BY DEF IInv, RecordInv
<1>3. CASE WriteEntry(p)
  <2>1. /\ pc[p] = "entry" /\ pc'[p] = "newline"
        /\ UNCHANGED <<payload, job>>
    BY <1>2, <1>3 DEF WriteEntry, Goto, TypeOK
  <2>2. NewEnvelope(p) \in Envelope /\ Entries \in Seq(Line)
    BY <1>2, <2>1, EnvelopeType, EntriesChained DEF JobOK, Steps
  <2>3. EventsIn(Entries') = EventsIn(Entries) \cup {NewEnvelope(p).ev}
    BY <1>3, <2>2, EntryAdded, EventsAppend
  <2>4. NewEnvelope(p).ev = [by |-> p, kind |-> job[p].kind, subject |-> job[p].subject]
    BY DEF NewEnvelope
  <2>5. DeletesWhatItNames' /\ PayloadBeforeEntry'
    BY <1>1, <1>2, <2>1 DEF DeletesWhatItNames, PayloadBeforeEntry
  <2>6. RecordedFirst'
    <3> SUFFICES ASSUME job[p].target # NoSubject
                 PROVE  Expired(job[p].target, Entries')
      BY <1>1, <2>1 DEF RecordedFirst
    <3>1. NewEnvelope(p).ev.kind = "retention.expire"
          /\ Names[NewEnvelope(p).ev.subject] = job[p].target
      BY <1>2, <2>4 DEF DeletesWhatItNames
    <3>2. QED
      BY <2>3, <3>1 DEF Expired
  <2>7. AbsentIsExpired'
    <3> SUFFICES ASSUME NEW e \in EventsIn(Entries'), payload[e.subject] = "absent"
                 PROVE  Expired(e.subject, Entries')
      BY <2>1 DEF AbsentIsExpired, Referenced, Expired
    <3>1. e # NewEnvelope(p).ev
      BY <1>2, <2>1, <2>4 DEF PayloadBeforeEntry
    <3>2. Expired(e.subject, Entries)
      BY <1>2, <2>3, <3>1 DEF AbsentIsExpired, Referenced, Expired
    <3>3. QED
      BY <2>3, <3>2 DEF Expired
  <2>8. QED
    BY <2>5, <2>6, <2>7 DEF RecordInv, ExpiriesName
<1>4. ASSUME ~WriteEntry(p) PROVE Entries' = Entries
  BY <1>1, <1>4, EntriesKept
<1>5. CASE UNCHANGED vars
  <2>1. Entries' = Entries
    BY <1>5 DEF vars, Entries
  <2>2. AbsentIsExpired'
    BY <1>2, <1>5, <2>1, StillAccounted DEF vars
  <2>3. QED
    BY <1>2, <1>5, <2>1, <2>2 DEF vars, RecordInv, ExpiriesName, DeletesWhatItNames, RecordedFirst,
       PayloadBeforeEntry
<1>6. ASSUME NEW s \in Subject, AppendEvent(p, s) PROVE RecordInv'
  <2>1. StartAppend(p, "event", s, NoSubject) /\ ~WriteEntry(p)
    BY <1>6 DEF AppendEvent, WriteEntry
  <2>2. QED
    BY <1>1, <1>4, <2>1, StartAppendRecord DEF Kinds
<1>7. ASSUME NEW x \in Expiries, Expire(p, x[1], x[2]) PROVE RecordInv'
  <2>1. StartAppend(p, "retention.expire", x[2], x[1]) /\ pc[p] = "idle"
    BY <1>7 DEF Expire
  <2>2. ~WriteEntry(p)
    BY <2>1 DEF WriteEntry
  <2>3. x[1] \in Subject /\ x[2] \in Subject /\ Names[x[2]] = x[1]
    BY <1>2, ConstantsAssumption DEF ExpiriesName
  <2>4. QED
    BY <1>1, <1>4, <2>1, <2>2, <2>3, StartAppendRecord DEF Kinds
<1>8. ASSUME NEW d \in Dest, Anchor(p, d) PROVE RecordInv'
  <2>1. StartAppend(p, "ledger.anchor", d, NoSubject) /\ pc[p] = "idle"
    BY <1>8 DEF Anchor
  <2>2. ~WriteEntry(p) /\ d \in Subject
    BY <2>1, ConstantsAssumption DEF WriteEntry
  <2>3. QED
    BY <1>1, <1>4, <2>1, <2>2, StartAppendRecord DEF Kinds
<1>9. CASE WritePayload(p)
  <2>1. /\ pc[p] = "payload" /\ pc'[p] = "entry" /\ job' = job
        /\ payload' = [payload EXCEPT ![job[p].subject] = "whole"]
        /\ job[p].subject \in Subject
    BY <1>2, <1>9 DEF WritePayload, Goto, TypeOK, JobOK, Steps
  <2>2. payload'[job[p].subject] = "whole"
    BY <1>2, <2>1 DEF TypeOK
  <2>3. Entries' = Entries
    BY <1>4, <2>1 DEF WriteEntry
  <2>4. \A r \in Subject : payload'[r] = "absent" => payload[r] = "absent"
    BY <1>2, <2>1 DEF TypeOK
  <2>5. AbsentIsExpired'
    BY <1>2, <2>3, <2>4, StillAccounted
  <2>6. DeletesWhatItNames' /\ RecordedFirst' /\ PayloadBeforeEntry'
    BY <1>1, <1>2, <2>1, <2>2 DEF DeletesWhatItNames, RecordedFirst, PayloadBeforeEntry
  <2>7. QED
    BY <2>5, <2>6 DEF RecordInv, ExpiriesName
<1>10. CASE Unlink(p)
  <2>1. /\ pc[p] = "unlink" /\ pc'[p] = "idle" /\ job'[p] = NoJob
        /\ payload' = [payload EXCEPT ![job[p].target] = "absent"]
        /\ job[p].target \in Subject
    BY <1>2, <1>10 DEF Unlink, Goto, TypeOK, JobOK
  <2>2. Entries' = Entries
    BY <1>4, <2>1 DEF WriteEntry
  <2>3. Expired(job[p].target, Entries)
    <3>1. job[p].target # NoSubject
      BY <2>1, ConstantsAssumption
    <3>2. QED
      BY <1>2, <2>1, <3>1 DEF RecordedFirst
  <2>4. \A r \in Subject : r # job[p].target => payload'[r] = payload[r]
    BY <1>2, <2>1 DEF TypeOK
  <2>5. AbsentIsExpired'
    BY <1>2, <2>2, <2>3, <2>4, StillAccounted
  <2>6. DeletesWhatItNames' /\ RecordedFirst' /\ PayloadBeforeEntry'
    BY <1>1, <2>1 DEF NoJob, DeletesWhatItNames, RecordedFirst, PayloadBeforeEntry
  <2>7. QED
    BY <2>5, <2>6 DEF RecordInv, ExpiriesName
<1>11. CASE \/ Open(p) \/ Exit(p) \/ WriteNewline(p) \/ WriteHead(p)
            \/ WriteHeadNewline(p) \/ Crash(p)
  <2>1. payload' = payload /\ pc'[p] \notin {"payload", "entry"}
    BY <1>2, <1>11 DEF Open, Exit, WriteNewline, WriteHead, WriteHeadNewline, Crash,
       Goto, TypeOK
  <2>2. job'[p] = NoJob \/ job' = job
    BY <1>2, <1>11 DEF Open, Exit, WriteNewline, WriteHead, WriteHeadNewline, Crash, TypeOK
  <2>3. CASE WriteEntry(p)
    BY <1>3, <2>3
  <2>4. CASE ~WriteEntry(p)
    <3>1. Entries' = Entries
      BY <1>4, <2>4
    <3>2. AbsentIsExpired'
      BY <1>2, <2>1, <3>1, StillAccounted
    <3>3. DeletesWhatItNames' /\ PayloadBeforeEntry'
      BY <1>1, <1>2, <2>1, <2>2 DEF NoJob, DeletesWhatItNames, PayloadBeforeEntry
    <3>4. \/ pc'[p] \in {"down", "idle"}
          \/ pc[p] \in {"newline", "head", "headnl", "unlink"}
      BY <1>2, <1>11 DEF Open, Exit, WriteNewline, WriteHead, WriteHeadNewline, Crash,
         Goto, TypeOK
    <3>5. RecordedFirst'
      BY <1>1, <1>2, <2>2, <3>1, <3>4 DEF NoJob, RecordedFirst
    <3>6. QED
      BY <3>2, <3>3, <3>5 DEF RecordInv, ExpiriesName
  <2>5. QED
    BY <2>3, <2>4
<1>12. QED
  BY <1>1, <1>3, <1>5, <1>6, <1>7, <1>8, <1>9, <1>10, <1>11 DEF Next

\* Under SingleWriter, when callers expire what their event names, a payload
\* an entry refers to is gone only if an expiry naming it is in the log: the
\* kills between recording and deleting never leave a deletion unrecorded.
THEOREM SingleWriterAbsentIsExpired ==
    SingleWriter /\ ExpiriesName /\ Spec => []AbsentIsExpired
<1>1. SingleWriter /\ Spec => [](IInv /\ SomethingToSign)
  BY IInvInit, IInvStep, SignInit, SignStep, PTL DEF Spec
<1>2. RecordInv => AbsentIsExpired
  BY DEF RecordInv, ExpiriesName
<1>3. QED
  BY <1>1, <1>2, RecordInit, RecordStep, PTL DEF Spec

=============================================================================
