-------------------------------- MODULE Skill --------------------------------
(***************************************************************************)
(* Skill packages (src/src/skills.rs) and the commands that sign, resolve  *)
(* and run them (src/src/main.rs).  A package is a manifest, the signature *)
(* beside it and a file for each step; people edit all three, and the      *)
(* registry of keys, between and during commands.  A run of a skill goes   *)
(* through the broker of module Broker; of its calls only the result, and  *)
(* whether the delegated grant let it through, is told here.               *)
(***************************************************************************)
EXTENDS EventLog, Functions

CONSTANTS
    SkillRuns,      \* the processes that run a skill
    Manifests,      \* what a manifest may say: whether it is complete, its steps, its scope
    Keys,           \* signing keys
    Parent,         \* the capabilities a parent may hold: sets of them
    ReadCap         \* the capability that reads a step's file

ASSUME SkillAssumption == SkillRuns \subseteq Process

VARIABLES
    package,        \* the manifest, its signature or Null, the step files there are
    registry,       \* the registered keys, and whether every entry is sound
    signings,       \* history: what the holder of each key put a signature to
    task            \* task[p]: what p is running

skillVars == <<package, registry, signings, task>>

NoTask == [stage |-> "closed", steps |-> <<>>, granted |-> {}, failures |-> 0]

Step == UNION {Range(m.steps) : m \in Manifests}

SkillInit ==
    /\ package \in [manifest : Manifests, signature : {Null}, present : {Step}]
    /\ registry = [keys |-> {}, sound |-> TRUE]
    /\ signings = {}
    /\ task = [p \in SkillRuns |-> NoTask]

-----------------------------------------------------------------------------
\* Mutant: a signature nothing verifies counts for none.
SignatureStateDowngraded(keys) ==
    LET signature == package.signature
    IN  IF signature = Null THEN "unsigned"
        ELSE IF signature.of = package.manifest /\ signature.key \in keys THEN signature.key
        ELSE "unsigned"

\* verify_signature: of the manifest as it now is, by a registered key; one
\* that does not verify is refused, not taken for none.
SignatureState(keys) ==
    LET signature == package.signature
    IN  IF signature = Null THEN "unsigned"
        ELSE IF signature.of = package.manifest /\ signature.key \in keys THEN signature.key
        ELSE "refused"

\* SkillManifest::resolve and the subject of the event it leaves.
Resolved(keys) ==
    LET manifest == package.manifest
        state    == SignatureState(keys)
        Subject(verdict) == [verdict |-> verdict, signature |-> state, manifest |-> manifest]
    IN  IF /\ manifest.complete
           /\ manifest.steps # <<>>
           /\ Range(manifest.steps) \subseteq package.present
           /\ state # "refused"
        THEN Subject("resolved")
        ELSE [Subject("rejected") EXCEPT !.signature = "none"]

\* `trunnion skill resolve`: keys given with the command add to the registry's.
SkillResolve(extra) ==
    /\ registry.sound
    /\ Room
    /\ Record("skill.resolve", Resolved(registry.keys \cup extra))
    /\ UNCHANGED skillVars

\* skills::delegate refuses a scope the parent does not hold; what is granted
\* is the scope.
Delegable(parent, scope) == scope \subseteq parent

\* `trunnion skill run` up to its broker run: the resolution is recorded
\* whatever it is, and a rejected skill, or one whose scope is wider than its
\* parent's, runs nothing.  Loading, resolving and recording are one step.
BeginSkill(p, parent) ==
    LET outcome == Resolved(registry.keys)
        scope   == outcome.manifest.scope
    IN  /\ task[p].stage = "closed"
        /\ registry.sound
        /\ Room
        /\ Record("skill.resolve", outcome)
        /\ task' = IF outcome.verdict = "resolved" /\ Delegable(parent, scope)
                   THEN [task EXCEPT ![p] = [stage |-> "open", steps |-> outcome.manifest.steps,
                                             granted |-> scope, failures |-> 0]]
                   ELSE task
        /\ UNCHANGED <<package, registry, signings>>

\* open_broker and delegate_scope.
OpenSkillRun(p) ==
    /\ task[p].stage = "open"
    /\ OpenRun(p, <<"run.open", "subagent.spawn">>,
               [workload |-> "skill", granted |-> task[p].granted])
    /\ task' = [task EXCEPT ![p].stage = "steps"]
    /\ UNCHANGED <<package, registry, signings>>

\* One step: its file is read under the grant.
ReadStep(p) ==
    LET mine == task[p]
        next == Head(mine.steps)
        read == ReadCap \in mine.granted /\ next \in package.present
    IN  /\ mine.stage = "steps"
        /\ mine.steps # <<>>
        /\ Emit(p, "tool.result", [step |-> next, read |-> read])
        /\ task' = [task EXCEPT ![p] =
              [stage |-> "steps", steps |-> Tail(mine.steps), granted |-> mine.granted,
               failures |-> IF read THEN mine.failures ELSE mine.failures + 1]]
        /\ UNCHANGED <<package, registry, signings>>

\* ReadCap is taken to be bound to a read effect, which no gate reviews after
\* the call: no review is owed when the run seals.
SealSkillRun(p) ==
    /\ task[p].stage = "steps"
    /\ task[p].steps = <<>>
    /\ Depart(p, "run.seal",
              [outcome |-> IF task[p].failures = 0 THEN "complete" ELSE "failed"])
    /\ task' = [task EXCEPT ![p] = NoTask]
    /\ UNCHANGED <<package, registry, signings>>

KillSkillRun(p) ==
    /\ p \in Mortal
    /\ task[p].stage # "closed"
    /\ Leave(p)
    /\ task' = [task EXCEPT ![p] = NoTask]
    /\ UNCHANGED <<log, gone, package, registry, signings>>

-----------------------------------------------------------------------------
\* `trunnion skill sign`: any signature there was is replaced.
SkillSign(key) ==
    /\ package' = [package EXCEPT !.signature = [key |-> key, of |-> package.manifest]]
    /\ signings' = signings \cup {package'.signature}
    /\ UNCHANGED <<logVars, registry, task>>

\* Somebody edits the manifest and leaves the signature, takes the signature
\* off, or adds and removes step files.
EditPackage(manifest, keepSignature, present) ==
    /\ package' = [manifest |-> manifest,
                   signature |-> IF keepSignature THEN package.signature ELSE Null,
                   present |-> present]
    /\ package' # package
    /\ UNCHANGED <<logVars, registry, signings, task>>

\* Somebody edits the registry; one bad entry and none of it loads.
EditRegistry(keys, sound) ==
    /\ registry' = [keys |-> keys, sound |-> sound]
    /\ registry' # registry
    /\ UNCHANGED <<logVars, package, signings, task>>

SkillNext ==
    \/ \E extra \in SUBSET Keys : SkillResolve(extra)
    \/ \E p \in SkillRuns :
          \/ \E parent \in Parent : BeginSkill(p, parent)
          \/ OpenSkillRun(p)
          \/ ReadStep(p)
          \/ SealSkillRun(p)
          \/ KillSkillRun(p)
    \/ \E key \in Keys : SkillSign(key)
    \/ \E manifest \in Manifests, keep \in BOOLEAN, present \in SUBSET Step :
          EditPackage(manifest, keep, present)
    \/ \E keys \in SUBSET Keys, sound \in BOOLEAN : EditRegistry(keys, sound)

=============================================================================
