# Trunnion in TLA+

Trunnion runs agent tool calls behind a policy and writes what happened to an
evidence ledger: a hash-chained, signed, append-only log that anyone can
verify offline. This directory models the parts that decide what may run, what
the ledger proves afterwards, and the commands and pages that read and write
around it; model-checks them with TLC on small instances; and proves the claims
that carry most weight with TLAPS for instances of every size.

Everything runs from this directory: `tlc -config <cfg> <module>.tla` for the
runs listed in `PROJECT.json`, `tlapm <module>.tla` for `Sums` and the
modules whose names end in `Proofs`.

## The system

| Component | Source (`src/src/`) | State | Operations | What makes it correct |
| --- | --- | --- | --- | --- |
| Evidence ledger | `ledger.rs`, `event.rs` | `events.jsonl`, `heads.jsonl`, `payloads/`, anchors; per process the lines in memory | init, open, append, expire, anchor, prove, verify | an honest log, however its writers died, never verifies as rewritten; a payload is missing only if its expiry is on record; anchored heads stay prefixes |
| Merkle tree | `merkle.rs` | none (pure) | root, inclusion and consistency proofs, their verifiers | complete for what is so, sound for what is not |
| Run log | `runlog.rs` | run id, next sequence number, signer | open, append, seal | events of a run are numbered in order; a seal is the last |
| Policy engine | `policy.rs` | none (pure) | validate, decide, gate table, globs, reachability, availability | one decision per call; a gate the rung demands is never skipped |
| Trust budget, orchestrator | `trust.rs` | none of its own: replayed from the ledger | step (sense, record, demote, promote) | rungs move one at a time, up only when earned and approved |
| Tool broker | `broker.rs` | registered tools, delegated scope, reviews owed, the call under way | open, register, delegate, call, seal | nothing runs that the ledger does not show cleared first; every request has an answer |
| Durable tasks | `durable.rs` | accumulated results, cursor | open, resume, checkpoint, seal | a resume loses nothing that was checkpointed; a sealed task is whole |
| Sensor bus | `sensor.rs` | whether a verdict blocked or was broken | load, try the controls, gate, repair, seal | a sensor that cannot fail is found out; a repair does not wash the seal clean |
| Model gateway | `gateway.rs` | calls and cost of the run | open, call, seal | each call is on record whether it succeeded or not, and the seal costs what they did |
| Drift scan | `drift.rs` | the reports to be written | walk, report, seal | every field is reported once, from readings made before the scan wrote |
| Scorer | `scorer.rs` | the card not yet recorded | score, record | a snapshot is the score of the events it names |
| Code graph | `graph.rs` | index file | build, query | an answer is current although the index is not |
| Skills | `skills.rs` | package, signature, key registry | sign, resolve, delegate, run | what resolves is what was signed; a run holds the intersection of grants |
| Templates | `main.rs`, `scan.rs` | files of the new harness | validate, init | there is no seed for a harness that is not complete |
| Project registry | `workspace.rs` | `workspace.json`, clone cache | add, remove, scan | the clone of a registered project is at the commit recorded |
| Console | `console.rs` | the connection being served | accept, read, parse, route, answer; pages | pages agree with the ledger and with the broker; a client that stops half way holds up no other for ever |
| Sandbox, secrets, audit scan, report, remediation | the files of those names | mostly none | isolation, substitution, text processing | beyond this model but for what is said below |

How they interact. Every command is a process of its own. It opens the ledger
by reading the whole log into memory, appends to the files and to its memory,
and exits. There is no lock: two processes share nothing but the files. The
broker asks the policy engine for a decision on the rung that the trust budget
replays from the events *in its memory*; the approver and the orchestrator
write the events that later brokers read. Durable tasks, sensors, the gateway,
the drift scan and skills write through the run log; the scorer, the drift scan
and the console read what all of them wrote. The console also reads the project
registry, which the project commands rewrite in place.

What is hard here: kills between any two file operations; processes that opened
the ledger at different times and act on what they read then; payloads that
expire under readers of the record; sequences of held, approved, refused and
retried calls; results, reviews and seals that must add up when a cleared call
fails; resumes after kills, and beside runs that still live; clones abandoned
half way; clients that stop in the middle of a request; tree shapes and glob
edges. `PROJECT.json` lists each hazard at its line, with the properties aimed
at it, or why there is none.

## Modules

| Module | Models |
| --- | --- |
| `Ledger` | the ledger directory one file operation at a time, with processes that die |
| `LedgerVerify` | `ledger verify` over those files, and the ledger's properties |
| `AppendOnlyLog` | what the ledger promises: a log that only grows, and a signed prefix of it that only grows; `Ledger` implements it |
| `EventLog` | the ledger as the runs above it use it: one log, a memory and a run id per process, payloads that expire |
| `Policy`, `Trust` | `decide_with_earned` and the gate table; replaying rungs |
| `Broker` | `BrokerRun` and `trunnion approve`, one append per step |
| `Orchestrator` | `orchestrate step`, one append per step |
| `Harness` | brokers, approvers and orchestrators on one ledger; their properties |
| `Console` | the pages of the console over that ledger; their properties |
| `Durable` | durable tasks |
| `Profile` | what the machine provides and the key a run signs with, asked for when a run opens |
| `Sensor`, `Gateway`, `Drift`, `Scorer`, `CodeGraph`, `Skill` | the commands of those names |
| `Template` | `template validate` and `template init` |
| `Bus` | the last seven and `Profile` side by side; their properties |
| `Workspace` | the project registry and the clone cache |
| `ConsoleServer` | the accept loop of the console, clients that stop where they like, and the project pages over `Workspace` |
| `Merkle`, `Glob`, `Algorithms` | the recursions of `merkle.rs` and the text matching of `policy.rs`; the instance that runs both |
| `LedgerProofs`, `HarnessProofs`, `RungProofs`, `ConsoleProofs`, `DurableProofs`, `BusProofs`, `ConsoleServerProofs`, and `Sums` | the theorems |
| `Sums` | what the provers need to know of sums over finite sets |
| `MCLedger`, `MCHarness`, `MCDurable`, `MCBus`, `MCWorkspace` | constants for TLC |

Definitions marked `Mutant:` are faulty versions of the definition they stand
next to. Nothing uses them; each shows that a property of a run notices the
fault.

### Ledger

`Ledger::append` writes a payload file, the entry's bytes, its newline, the
head's bytes and its newline, each with its own write. Those are the actions
`WritePayload`, `WriteEntry`, `WriteNewline`, `WriteHead`, `WriteHeadNewline`
(and `Unlink` for `expire`); `pc[p]` says which comes next for process p, and
`Crash` can stop p before any that `CrashPoints` names. `events` and `heads`
are files: the terminated lines and the bytes after the last newline. A line
is a sequence of values, because two writers killed at the wrong moment can
leave two values on one line. `mem[p]` is the `envelopes` and `leaves` of the
process. A leaf hash is the sequence of events on its chain and a root the
sequence of lines it covers, so equality of hashes is equality of what was
hashed. Signatures are taken as unforgeable and left out.

`LedgerVerify` defines the faults `verify` reports: an entry that does not
parse, a chain that diverges, a head that does not parse or does not cover a
prefix, and entries past the last good head.

### EventLog, Broker, Orchestrator, Harness, Console

The append is one step in these modules (`EventLog!Emit`), and a process can
be killed, or another can run, between two. `view[p]` is the process's memory:
every decision reads it and never `log`. `gone` is the set of payloads that
were expired; whoever reads the log no longer finds them in it. Whether
processes may run at once is `OneAtATime`. A request, an approval or a
checkpoint is named by run id and number, as in the code; a run id is the
millisecond the run opened in, and runs are taken to open in different ones.

`Broker` follows `BrokerRun::call` append by append: `Request`, then
`MakeDecision` (policy on the replayed rung, then the delegated scope), then by
verdict `Demote`/`Refuse`, `Block`/`UseGrant`, or `RefuseCredential`,
`Execute`, `FailToExecute`, `Finish`, and at last `SealBroker`. `executed` is a
history variable: the calls that really ran, which no log entry can fake.
`Answer` is `trunnion approve` down to `write_grant`, with its walk over older
ledgers whose decisions do not name their call. `Orchestrator` is
`Orchestrator::step`: `Sense`, `RecordClean` or `RecordFailure`, and then
`DemoteOnFailure` or `ApprovePromotion` and `Promote`. Text matching is
abstracted: a pattern is the set of calls it matches; `Glob` has the matching.

`Console` has no state. It defines the approvals inbox with its five states and
its own computation of what releases a call, the rows of the runs page, the
window of operations with its difference between none and not known, the trust,
policy and events pages, as functions of a log.

### Durable

A process runs `durable run` or `durable resume`. `job[p]` holds the task, the
length of the log read, the checkpoint restored from it, the cursor and the
accumulated results. `Kill` is the numeric crash-after, a step file that cannot
be read, or a real kill. A step's result depends on what its file holds when it
is read (`Content`), so a step done twice can be told from one that was
restored. `Expire` takes a checkpoint's payload away, and `last_checkpoint` then
sees an earlier one. The `after` of a `run.open` is the length of the log its
process read: in the code the envelope's `prev_hash` says it.

### Bus

Each of the seven commands has the ledger or files of its own as state and one
action per append or file operation. What people do around them is modelled
too: the artifact is edited (`Edit`), the pack and settings move (`MoveFiles`),
indexed files change (`Write`), packages and key registries are edited, and
somebody puts a file where `template init` will copy one (`PutFile`). A check of
a sensor is the set of texts it rejects, a file of the graph the set of its
words, a bundle the set of its files with those that a validator refuses. The
scorer reads the log as `events_with_subjects` gives it, computes
(`ScoreLedger`), and appends (`RecordScore`) later.

### Workspace and ConsoleServer

A project command loads the registry, may discard a leftover tree
(`DiscardSome`, `DiscardOrphan`), clone (`BeginClone`, `FinishClone`,
`FailClone`), read the commit (`Resolve`), and saves in two steps: the file is
truncated, then written (`Truncate`, `Write`). `Kill` may come between any two.
`registry` is `Torn` while the file does not parse. `saved` is a history
variable: what the last complete save wrote.

`ConsoleServer` reads a request in pieces: method, the two halves of the target,
version, headers, the empty line, the body. The head loop ends when the empty
line was read, when the client closed or was silent for the read timeout
(`Parse` on what there is), or when the cap is passed (`TooLong`, then `Drain`).
`Cut` says what route the first half of a target would name, so that serving a
cut request is visible. A connection that is closed with bytes unread loses its
answer to a reset, as TCP does. Reads have a timeout and writes have none: an
answer that the buffers of the socket do not hold (`Outgrows` names the routes
that have such pages) is written only once the client reads it (`ReadAnswer`) or
is gone (`HangUp`), and until then the loop is `Stuck`. The project list is rendered row by row while
commands change the registry and the trees.

### Merkle and Glob

Pure functions, translated recursion by recursion and compared with
independent definitions: the tree with the level-by-level pairing of the
reference, the matcher with the meaning of a glob as a way to cut the target
into pieces. The behaviours of these modules only enumerate inputs.

## Runs

| Run | Shows | Bounds, and why they are enough |
| --- | --- | --- |
| `ledger_single` | One writer at a time, killed between any two writes but those of a line: `verify` never sees a rewritten log, uncovered entries are bounded by kills and covered by the next append, payloads go missing only after their expiry is recorded, anchors hold, and the files implement `AppendOnlyLog` (`AppendOnly`) | 4 entries, 3 kills, an ordinary payload, one that expires it, an anchor: every operation follows and precedes every other, with up to three kills between |
| `grants` | A broker and an approver at once, killed at any append: what executed was cleared, a grant releases one call, the inbox agrees with the broker (`InboxAgreesWithBroker`) and names a command that answers the call it shows (`InboxCommandAnswers`) | starts from a push that was held, on this or an older ledger; three runs and room for an approval, a refusal, a second approval and two calls |
| `trust` | A broker and an orchestrator in turn: decisions are replayable from the log before them, changes move one rung, promotions are earned and approved, an answered denial has cost a rung, and the pages over the log agree (`PagesAgree`: the counts, and the history of a capability with the rung shown) | two clean runs earn a rung; three runs and fourteen events reach promotion, demotion from either side, and decisions on an earned rung |
| `calls` | One broker making every kind of call, delegated or not, killed anywhere: a delegated run runs nothing outside its grant, a sealed run adds up, and every request of a run still open is answered | four calls, three tools of which one is refused, one grant; eight events before the last operation is two calls and a retry |
| `durable` | Two tasks run by two processes at once, killed, resumed, restarted while files change and payloads expire, so that a task is also resumed beside the run that is doing it: restore points are complete, a resume carries its results over and repeats nothing it could read, seals are whole | three runs of which two are alive at a time, each opened, and each payload expired, while the log has fewer than five events, and then finished: a resume beside a living run after its first checkpoint, a resume of a resume, and a resume after an expiry; processes, tasks and contents are only compared, so they are symmetric |
| `bus` | Seals tell what their run's events add up to, drift observes others, snapshots agree with what they scored and never fall, a graph query answers for the files as they were during it, a seed comes last, a skill is what was signed | two runs of each kind and four events; a behaviour has one theme (sensor, gateway, drift, graph, skill or template), which keeps out only interleavings of commands that share no state but the log, except those the theme names (a sensor run beside the drift scan, the scorer and expiries beside sensor and gateway) |
| `workspace` | Registered trees are pinned, routed targets whole, refusals readable, lists complete, and whoever connects is answered, unless a client leaves for ever an answer that must be read | one operator's three commands (add, remove, add again or scan), two sources that want one id, one push; two clients before the first command and one later, five requests with and without headers and body, a cap of six pieces, one page that must be read |
| `algorithms` | Honest proofs verify and have the roots of the reference tree, forged ones do not; `glob_inner` decides what a glob means; `covers` is sound where the two gaps below do not apply | logs to six entries of two values (powers of two and both kinds of remainder), a kept root of up to four; patterns to length 4, targets to length 3 over five characters |
| `ledger_torn`, `refusal`, `expired_use`, `glob_covers` | the disagreements below | the smallest that show them |

`CHECK_DEADLOCK FALSE` stands where a behaviour may end: all processes have
exited and the bounds on runs, events and commands leave nothing to start.

### Where code and text disagree

* `ledger_torn`: an entry and its newline are two writes. Killed between them,
  the process leaves a good entry with no newline; the next process appends to
  the same line, and the log no longer opens. This is why the theorems about
  the ledger assume that a kill does not fall between the two writes of a line.
* `expired_use`: a grant is spent by the payload of an `approval.use`, and
  `ledger expire` takes any event. Once that payload is gone the grant, which
  the comment over `usable_grant` says releases one call and never a second,
  releases another.
* `refusal`: a request that was approved and then refused is still released,
  though `approve` has just told the operator that nothing releases it:
  `usable_grant` looks for an approval and never for a later refusal.
* `glob_covers`: `covers` matches the later pattern as if it were a target, so
  `?` covers `*`, and `*/x` covers `**/x` (which also matches `x`); its comment
  says a false positive is impossible, and `validate` refuses a reachable rule.

Of the same kind and not given a run: two processes that have the ledger open
at once fork the chain, and nothing stops a second from opening it; after a kill
between an entry and its head, `verify` blames removed heads for the uncovered
tail; when the payload of an expiry event is itself expired, `verify` reports
what it covered as missing; a `template init` that the key scan refuses leaves
the files it copied; a drift scan that cannot read the instruction pack is
refused before its first report; two project commands at once lose one's change;
a client that stays connected and reads nothing of an answer larger than the
buffers of its socket holds up the accept loop for as long as it stays.

## Fairness

Two properties need any. `EveryRequestIsAnswered` (`FairSpec` of `Harness`):
weak fairness of `CallStep(p)`, since a broker that has put a request on the log
takes the next step of `call`, a straight-line function that waits for nobody. A
kill is not excluded: the property speaks of runs still open.
`EveryClientIsAnswered` (`Spec` of `ConsoleServer`): weak fairness of
`ServerStep`, since the accept loop runs for as long as the console does and
each of its reads returns by its timeout. `Response::write_to` blocks without
one, so while the loop is `Stuck` no step of it is enabled and fairness says
nothing. The property is therefore conditional: if it is not stuck for ever
(`[]<>~Stuck`), whoever connects is answered. The condition is needed: without
it TLC stops at a page that a client never reads. Nothing else is assumed of a
client, who may stop anywhere while it sends, nor of the operator, nor of who
starts a process.

## Proofs

Each of the modules named after a component proves `Init => IInv`, that every
action keeps `IInv`, and that `IInv` implies the property; no bound on runs,
events, payloads, kills or sizes is used. `Sums` is the eighth: lemmas two of
them need. An assumption the code alone does not justify is a hypothesis of the
theorem, and named.

**`Sums`**: a sum over a finite set is a fold that takes the elements in the
order `CHOOSE` gives. `SumTakesAny` shows the order does not matter, by a set of
least size on which it would; from it `SumOfOneMore` (one number more adds
itself) and `SumOfParts` (the sizes of the parts of a set add up to its size).

**`LedgerProofs`**: `TypeCorrect` (`Spec => []TypeOK`), and, under
`SingleWriter` (one process; no kill between the two writes of a line),
`SingleWriterNeverLooksRewritten`, `SingleWriterAnchorsHold` and
`SingleWriterMemory`. None is inductive. That heads cover prefixes survives an
append only if the head about to be written does, which holds because the
process's memory is the log; that the memory is the log after the next append
holds only if the chain does. The invariant therefore ties the files to where
the process is in its append: which file has an unterminated line at each `pc`,
that the memory of an open process is exactly the log plus what it is writing,
that each entry chains to the one before, and that every head and anchor is a
prefix. `ledger_torn` shows that the second half of `SingleWriter` cannot be
dropped.

On the same invariant and the same `SingleWriter` it has
`SingleWriterAppendOnly` (the files implement `AppendOnlyLog`),
`SingleWriterTailIsBounded` and `SingleWriterAbsentIsExpired`. Every head parses
and matches, so `Covered` is the size of the newest one (`CoveredIs`); writing
an entry is then `Add`, writing a head is `Sign`, and every other step a stutter.
`Sign` needs something to sign: the process about to write a head has a line no
head covers (`SomethingToSign`). The bound follows, since a process leaves the
part of an append between entry and head by signing or by being killed. For the
last, an append that will delete is the expiry of its target and has its entry
in the log before it deletes (`RecordInv`). It assumes `ExpiriesName`: the event
submitted with a target names it. `Ledger::expire` checks the kind of that event
and that the target is known, but not that the one names the other; that stays
a hazard no property covers.

**`HarnessProofs`**: `TypeCorrect`, `RunsAreCleared`, `OneCallPerGrant`,
`DelegationHolds` and `SealsAccount`, for any policy that validates
(`PolicyAssumption`, `HarnessAssumption`) and any number of brokers, approvers
and orchestrators at once. All rest on `Base`: every event has the shape of its
kind, what a process has in memory is an event of the log or that event with its
subject nulled, and where a process is in its operation agrees with the last
events of its run. `CallsOnRecord` adds that a call under way has on the log the
events that led to its stage; an execution is then cleared because the stage
before it was. `GrantsOnce` says that an open broker has read of every spent
grant, that a call cleared on a grant has spent it and none ran on it before,
and that the grants calls ran on differ. It needs brokers that do not overlap
(commands one at a time, or a single broker beside any approvers and
orchestrators) and uses of grants that do not expire (`OneBroker`): two brokers
that opened before the use both find the grant unused, and so does one that
reads the use as nulls, which run `expired_use` shows. `ScopesKept` ties a broker's delegated scope to the record of it.
`Accounts` counts requests, decisions, results and reviews of a run against one
another; it assumes the seals earlier runs left are right
(`RecordedAccounts`), as an empty log's are.

**`RungProofs`**, on that invariant: `DecisionsReplay`, `ChangesAreOneRung`,
`PromotionsAreEarned` and `DenialsNarrow`. They are true only of commands run
one after another and of rung events that do not expire (`OneByOne`): a rung is
replayed from memory, so a second process's change is not seen, and a nulled
change replays as none. The invariant (`RungsInv`) says only one run is open
(`AllAlone`), that its memory replays to the rungs and clean counts of the log
(`Current`), and that every recorded decision and change stands against the log
before it (`RungsStand`). That replaying a log and one more event is replaying
the log and applying the event is a lemma over the fold (`Trust`). The log
earlier runs left must stand too (`RecordedRungs`).

**`ConsoleProofs`**, on `Base` and `ScopesKept`: `InboxAgrees`, with no further
hypothesis, and `InboxCommandsAnswer`. Both rest on what the walk over a log that
pairs decisions with calls makes of one event more (`WalkAdds`, `HoldsAdds`); the
walk is a fold, unfolded to the function on sets of indices it is defined by, and
compared from the first index on which two such functions differ. A broker
before a hold has in memory the decision that made it, so the inbox over that
memory lists the call (`HeldListed`), and its test of a usable grant is the
broker's (`ReleasesWhenUsable`). For the command: a request is held for one call
and rule (`HoldsAgree`), because the request a broker is deciding is numbered
above everything its run had held and no other run shares the run id
(`NumbersKept`); and approvals are a yes or a no, none of them by somebody
unpermitted after one by somebody permitted (`AnswersGiven`), which is what the
states "waiting" and "ineffective" lean on. What earlier runs left must be in
that order (`RecordedAnswers`); an empty log is (`NoAnswersRecorded`), and so are
the logs the runs start from, the older one included.

`PagesAgree` is proved in two parts, put together in `PagesTellOneStory`.
`CountsTellOneStory` (`CountsAgree`) holds of any number of processes at once and
has one hypothesis, that the log earlier runs left is in order (`RecordedPages`;
an empty one is, `NoPagesRecorded`). What the pages lean on is `PagesKept`: a
run is opened once and sealed once, every number of a run but 0 has the one
before it, every decision is one a rule makes or a denial without a rule, and a
run still open is unsealed and has its last number on the log. Each of the five
parts follows from it. `RowsAddUp`: the events of the rows and their denials are
`SumOfParts`, and the runs opened (sealed) are one for each event that says so.
`RulesAccount`: a rule that decides is one of the policy, the default's included
(`DecideRuled`). The numbering has no holes (`NoGaps`): the numbers of a run are
closed downwards. `WindowsNarrow`: a window is a subset. `PagingIsStable`: the
first page of a prefix of the log is the events of the whole log with fewer
matching ones before them than the page has (`FirstPageStands`).

`HistoriesLead` (`HistoryLeadsToRung`) is about the fold that replays a
capability's events: it moves exactly at the changes, each of which says where
it goes (`ChangesLead`), and by `RungsInv` every change starts from the rung the
log before it replays to. Its hypotheses are those of `RungProofs`,
and `PagesTellOneStory` takes them over.

**`DurableProofs`**: `CheckpointsRestoreAll`, `ResumesCarryOver`,
`SealedTasksAreWhole`, for any tasks, contents and number of steps, and for any
number of processes, also at once and also of one task; from a ledger that
starts empty (`Recorded = <<>>`) and a task of at least one step
(`DurableAssumption`; the command refuses an empty list of files). The seal
counts results held in memory, so the invariant says that what a job has in
memory is on the record: under its own run, or under the checkpoint it restored
(`JobRecorded`); that what it restored came before its `run.open`
(`JobOpening`, `JobWorking`); and that two processes never share a run id
(`RunsApart`), without which one's checkpoints would be the other's.

`NoStepsRepeat` has the same hypotheses. A task resumed beside a run still alive
does repeat what that run has not checkpointed yet, so the property is about
what the resuming process read: its `run.open` says where the log ended then
(`after`, in the code the entry its `prev_hash` names), and others may append
before it. A job is past the last checkpoint of its task that could be read
there (`JobAnew`), and it stays so on the record (`RecordAnew`): checkpoints
carry their run's id and the steps done, so no two have the same payload and
one that cannot be read was named by an expiry.

**`BusProofs`**, seven theorems about commands side by side, each for any number
of processes at once, killed anywhere.

* `SeedIsWrittenLast`, for any bundles, any strays and any number of attempts.
  The invariant follows the stage of the command: what is copied so far, that
  the scan found nothing, the policy first, the registry second, no seed of its
  own before it creates one.
* `AnswersAreCurrent`: while a query runs, what it may have seen of a file
  includes what the file holds now, and a file still to be visited is no hit.
* `SkillsAreSigned`, an action property: what is in memory between resolving and
  spawning, or between asking for a signature and writing it, is an invariant
  (`SkillInv`), since the package may change in between.
* `ScansObserveOthers`: the walk is in memory while others append. For a scan
  under way there is one point of the log, before any report of its own, that
  all its readings off the ledger are true of (`ReadBefore`); for a run on
  record likewise (`ToldOnce`). Run ids are the clock's, so no two processes
  share one (`Runs`). The scans on the log at the start must have told the same
  way (`RecordedReports`); none is enough (`NothingRecorded`).
* `EvidenceAddsUp`: a card in memory is the score of a prefix of the log, and so
  is each snapshot on it (`ScoreInv`). Evidence in a longer prefix includes that
  in a shorter (`SatisfiedStays`), so levels once reached stay reached. It holds
  of rules that do not use `in_unsealed_run` (`SealsTakeNothing`), which no rule
  of `config/scoring.json` does: a seal would take such evidence back.
* `SealsTellTheirRuns`: what a command tallies in memory is what its run's
  events on the log say, at every stage of it (`SealInv`): what a sensor gate
  found (`GatesSay`), the calls of a gateway run and what they cost (`BillsSay`,
  by `SumOfOneMore`), the reports of a scan (`ScansSay`) and the failed steps of
  a skill run (`SkillsSay`). Nobody else appends to the run meanwhile
  (`LogKept`), so the seal says the same. The seals on the log at the start must
  do so too (`RecordedSeals`).

**`ConsoleServerProofs`**: of the registry, `OneOperatorPins`, under
`SingleOperator` (one command at a time), for any targets and ids and any number
of commands killed anywhere.
The invariant needs that a clone is made under an id no project on file has
(`CloneIsApart`), that a complete clone is of its target (`CloneIsOfTarget`),
and that what a command is about to save is as good as what was saved
(`MemoryIsGood`). Two commands at once break it; nothing locks the registry.

Of the server, `TargetsAreWhole`, `RefusalsAreRead` and `ListsAreComplete`, with
no assumption but that requests have natural lengths (`ConsoleAssumption`); the
last for any number of project commands at once. The
invariants say where the server is in its read: the client it serves exists and
has sent what was read, draining comes only past the cap and with the refusal
made, and every project that stood on file while the list is rendered is among
the rows or still to come.

Only model-checked: the properties of `Merkle` and `Glob`, whose recursions are
`RECURSIVE` operators over data of any depth, which the prover cannot take, and
liveness under fairness (`EveryRequestIsAnswered`, `EveryClientIsAnswered`).
Every other property a passing run checks is stated by a theorem.

## Not modelled

* Secrets beyond the refusal of an undeclared handle, and the sandbox beyond
  which backend is active: what they do is done by the operating system.
* The audit scan, its report and the remediations: text in, text out, with no
  state from one run to the next. The key scan is modelled where `template init`
  relies on it.
* The network of the gateway: a reply is a count of tokens, or a failure.
* Canonical JSON (taken as injective), hashes (collision free) and signatures
  (unforgeable). `verify`'s check of actor attestations against a published key
  is left out with them.
* Characters of request targets, page layout and assets of the console, and its
  score, chain and proof pages, which print what the library returned.
* In the ledger: bundles of `prove`, a kill inside `init`, and what readers make
  of a payload torn by a rewrite; each is a hazard without a property.
* `ledger expire` while a run is open: `EventLog!Expire` waits until none is,
  though `Ledger::expire` checks nothing of the kind, so a payload never goes
  while a process has it in memory.
* Edits of a skill package or of the key registry between the moments a command
  loads the manifest, loads the keys, looks for the step files and records the
  resolution (`SkillResolve`, `BeginSkill`): the four are one step. The manifest
  and its signature are one file, read once. Between a run's steps edits are
  modelled.
* A skill whose `Read` is bound to a write effect: each step would owe a review,
  and `BrokerRun::seal` would write `complete-with-outstanding-review` where
  `SealSkillRun` writes `complete`. No read effect is reviewed after the call.
* The filters of the events page by run, actor and time; a rule of the scorer
  with two levels of one number; characters longer than a byte in globs, where
  `?` matches one byte. `graph build` reads its files one by one, and at one
  moment here; `HitsAreCurrent` speaks of one file at a time.
* The commands of `main.rs` that only print what the library returns.
