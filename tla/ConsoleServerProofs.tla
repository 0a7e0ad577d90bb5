------------------------ MODULE ConsoleServerProofs ------------------------
(***************************************************************************)
(* Proofs about the workspace registry and the console server.  With one   *)
(* command at a time, every project on file names the commit its clone is  *)
(* at, for any repositories and ids and wherever commands are killed; two  *)
(* at once can break it, as nothing locks the registry or the cache.  And  *)
(* what a client of the console is told, for any clients and requests, any *)
(* number of commands at work on the registry, and any caps on what is     *)
(* read: a target is routed whole or refused, a refusal leaves nothing     *)
(* unread, and the list of projects leaves none out.                       *)
(***************************************************************************)
EXTENDS ConsoleServer, TLAPS

-----------------------------------------------------------------------------
(* The registry *)

SingleOperator == \A p, q \in Command : p = q

Target == Url \cup Path

ProjectType == [id : Id, source : Target, rev : Nat, scanned : BOOLEAN]

Steps == {"idle", "discarding", "cloning", "fetching", "resolving", "scanning", "saving", "writing"}

RegistryType ==
    /\ cache \in [Id -> [source : Target \cup {"none"}, rev : Nat, whole : BOOLEAN]]
    /\ upstream \in [Url -> Nat]
    /\ step \in [Command -> Steps]
    /\ job \in [Command -> [target : Target \cup {"none"}, id : Id \cup {"none"},
                            projects : SUBSET ProjectType, todo : SUBSET Id]]
    /\ saved \in SUBSET ProjectType

\* What may be written to the registry.
Good(projects) ==
    /\ \A x \in projects : Pinned(x)
    /\ \A x, y \in projects : x.id = y.id => x = y

\* The file is the last complete save, or it does not parse.
RegistryIsSaved == registry = Torn \/ registry = saved

\* A clone is made under an id no project on file has, so discarding,
\* filling and dropping it disturbs none of them.
CloneIsApart ==
    \A p \in Command :
        step[p] \in {"discarding", "cloning", "fetching", "resolving"} =>
            /\ job[p].target \in Url
            /\ job[p].id = IdOf[job[p].target]
            /\ job[p].id \in Id \ Ids(saved)
            /\ job[p].projects = saved

CloneIsOfTarget ==
    \A p \in Command :
        /\ step[p] \in {"fetching", "resolving"} => cache[job[p].id].source = job[p].target
        /\ step[p] = "resolving" => cache[job[p].id].whole

MemoryIsGood ==
    \A p \in Command : step[p] \in {"scanning", "saving", "writing"} => Good(job[p].projects)

RegistryInv ==
    /\ SingleOperator
    /\ RegistryType
    /\ RegistryIsSaved
    /\ Good(saved)
    /\ CloneIsApart
    /\ CloneIsOfTarget
    /\ MemoryIsGood

-----------------------------------------------------------------------------
LEMMA InitIsGood == SingleOperator /\ WorkspaceInit => RegistryInv
  BY WorkspaceAssumption
     DEF WorkspaceInit, RegistryInv, RegistryType, RegistryIsSaved, Good, CloneIsApart, CloneIsOfTarget,
         MemoryIsGood, NoTree, NoJob, Steps, Target

\* A step that leaves the cache alone leaves what is good as it is.
LEMMA CacheStays ==
    ASSUME NEW projects, Good(projects), cache' = cache
    PROVE  Good(projects)'
  BY DEF Good, Pinned

\* A project under an id of its own may be added.
LEMMA AddedIsGood ==
    ASSUME NEW projects, NEW new, Good(projects), new.id \notin Ids(projects), Pinned(new)
    PROVE  Good(projects \cup {new})
<1>1. \A x \in projects : x.id # new.id
  BY DEF Ids
<1> QED
  BY <1>1 DEF Good

\* One may be replaced by another under its id at its commit.
LEMMA ReplacedIsGood ==
    ASSUME NEW projects, NEW old \in projects, NEW new, Good(projects),
           new.id = old.id, new.source = old.source, new.rev = old.rev
    PROVE  Good((projects \ {old}) \cup {new})
<1>1. Pinned(new)
  BY DEF Good, Pinned
<1>2. \A x \in projects \ {old} : x.id # new.id
  BY DEF Good
<1> QED
  BY <1>1, <1>2 DEF Good

LEMMA TargetHasId ==
    ASSUME NEW t \in Target
    PROVE  IdOf[t] \in Id
  BY DEF Target, Id

-----------------------------------------------------------------------------
\* project add begins: what it has in memory is what is on file.
LEMMA AddKeeps ==
    ASSUME RegistryInv, NEW p \in Command, NEW t \in Target, Add(p, t)
    PROVE  RegistryInv'
<1> USE DEF RegistryInv
<1>1. /\ registry = saved /\ IdOf[t] \notin Ids(saved) /\ IdOf[t] \in Id
      /\ UNCHANGED <<registry, cache, upstream, saved>>
      /\ step' = [step EXCEPT ![p] = IF t \in Path THEN "saving" ELSE "discarding"]
  BY TargetHasId DEF Add, Load, Goto, RegistryIsSaved
<1>2. job'[p] = [target |-> t, id |-> IdOf[t], todo |-> {},
                 projects |-> IF t \in Path THEN saved \cup {Project(t, 0)} ELSE saved]
  BY <1>1 DEF Add, RegistryType
<1>3. Project(t, 0) \in ProjectType /\ Project(t, 0).id = IdOf[t] /\ Project(t, 0).source = t
  BY <1>1 DEF Project, ProjectType, Target
<1>4. RegistryType'
  <2>1. job'[p] \in [target : Target \cup {"none"}, id : Id \cup {"none"},
                     projects : SUBSET ProjectType, todo : SUBSET Id]
    BY <1>1, <1>2, <1>3 DEF RegistryType
  <2>2. job' \in [Command -> [target : Target \cup {"none"}, id : Id \cup {"none"},
                              projects : SUBSET ProjectType, todo : SUBSET Id]]
    BY <2>1 DEF Add, RegistryType
  <2>3. step' \in [Command -> Steps]
    BY <1>1 DEF RegistryType, Steps
  <2> QED
    BY <1>1, <2>2, <2>3 DEF RegistryType
<1>5. RegistryIsSaved' /\ Good(saved)'
  BY <1>1, CacheStays DEF RegistryIsSaved
<1>6. CASE t \in Path
  <2>1. job'[p].projects = saved \cup {Project(t, 0)} /\ step'[p] = "saving"
    BY <1>1, <1>2, <1>6 DEF RegistryType
  <2>2. Good(job[p].projects)'
    <3>1. Pinned(Project(t, 0)) /\ Project(t, 0).id \notin Ids(saved)
      BY <1>1, <1>3, <1>6, WorkspaceAssumption DEF Pinned
    <3>2. Good(saved \cup {Project(t, 0)})
      BY <3>1, AddedIsGood
    <3> QED
      BY <1>1, <2>1, <3>2 DEF Good, Pinned
  <2> QED
    BY <1>4, <1>5, <2>1, <2>2 DEF SingleOperator, CloneIsApart, CloneIsOfTarget, MemoryIsGood
<1>7. CASE t \notin Path
  <2>1. job'[p].projects = saved /\ job'[p].target = t /\ job'[p].id = IdOf[t]
        /\ step'[p] = "discarding" /\ t \in Url
    BY <1>1, <1>2, <1>7 DEF RegistryType, Target
  <2> QED
    BY <1>1, <1>4, <1>5, <2>1 DEF SingleOperator, CloneIsApart, CloneIsOfTarget, MemoryIsGood
<1> QED
  BY <1>6, <1>7

\* Discarding, cloning and giving up touch one clone, which no project is at.
LEMMA CloneKeeps ==
    ASSUME RegistryInv, NEW p \in Command,
           DiscardSome(p) \/ DiscardOrphan(p) \/ BeginClone(p) \/ FinishClone(p) \/ FailClone(p)
    PROVE  RegistryInv'
<1> USE DEF RegistryInv
<1> DEFINE id == job[p].id
           Tree == [source : Target \cup {"none"}, rev : Nat, whole : BOOLEAN]
<1>1. /\ job[p].target \in Url /\ id \in Id \ Ids(saved) /\ job[p].projects = saved
      /\ id = IdOf[job[p].target]
      /\ UNCHANGED <<registry, upstream, saved>>
  BY DEF DiscardSome, DiscardOrphan, BeginClone, FinishClone, FailClone, CloneIsApart
<1>2. /\ \A other \in Id \ {id} : cache'[other] = cache[other]
      /\ cache' \in [Id -> Tree]
  <2>1. NoTree \in Tree
    BY DEF NoTree
  <2>2. /\ cache \in [Id -> Tree] /\ id \in Id
        /\ upstream[job[p].target] \in Nat /\ job[p].target \in Target
    BY <1>1 DEF RegistryType, Target
  <2> DEFINE Written(tree) == tree \in Tree /\ cache' = [cache EXCEPT ![id] = tree]
  <2>3. CASE DiscardSome(p)
    <3>1. Written([cache[id] EXCEPT !.whole = FALSE])
      BY <2>2, <2>3 DEF DiscardSome
    <3> QED
      BY <2>2, <3>1
  <2>4. CASE FinishClone(p)
    <3>1. Written([cache[id] EXCEPT !.whole = TRUE])
      BY <2>2, <2>4 DEF FinishClone
    <3> QED
      BY <2>2, <3>1
  <2>5. CASE DiscardOrphan(p) \/ FailClone(p)
    <3>1. Written(NoTree) \/ cache' = cache
      BY <2>1, <2>2, <2>5 DEF DiscardOrphan, FailClone
    <3> QED
      BY <2>2, <3>1
  <2>6. CASE BeginClone(p)
    <3>1. Written([source |-> job[p].target, rev |-> upstream[job[p].target], whole |-> FALSE])
      BY <2>2, <2>6 DEF BeginClone
    <3> QED
      BY <2>2, <3>1
  <2> QED
    BY <2>3, <2>4, <2>5, <2>6
<1>3. Good(saved)' /\ RegistryIsSaved'
  <2>1. \A x \in saved : x.id # id /\ x.id \in Id
    BY <1>1 DEF Ids, RegistryType, ProjectType
  <2>2. Good(saved)
    OBVIOUS
  <2>3. \A x \in saved : cache'[x.id] = cache[x.id]
    BY <1>2, <2>1
  <2>4. saved' = saved
    BY <1>1
  <2> HIDE DEF id
  <2> QED
    BY <1>1, <2>1, <2>2, <2>3, <2>4 DEF Good, Pinned, RegistryIsSaved
<1>4. CASE DiscardSome(p) \/ DiscardOrphan(p)
  <2>1. job' = job /\ step' \in [Command -> Steps] /\ step'[p] \in {"discarding", "cloning"}
    BY <1>4 DEF DiscardSome, DiscardOrphan, Goto, RegistryType, Steps
  <2>2. RegistryType'
    BY <1>1, <1>2, <2>1 DEF RegistryType
  <2> QED
    BY <1>1, <1>3, <2>1, <2>2 DEF SingleOperator, CloneIsApart, CloneIsOfTarget, MemoryIsGood
<1>5. CASE BeginClone(p)
  <2>1. job' = job /\ step' \in [Command -> Steps] /\ step'[p] = "fetching"
    BY <1>5 DEF BeginClone, Goto, RegistryType, Steps
  <2>2. cache'[id].source = job[p].target
    BY <1>1, <1>5 DEF BeginClone, RegistryType
  <2>3. RegistryType'
    BY <1>1, <1>2, <2>1 DEF RegistryType
  <2> QED
    BY <1>1, <1>3, <2>1, <2>2, <2>3 DEF SingleOperator, CloneIsApart, CloneIsOfTarget, MemoryIsGood
<1>6. CASE FinishClone(p)
  <2>1. job' = job /\ step' \in [Command -> Steps] /\ step'[p] = "resolving"
    BY <1>6 DEF FinishClone, Goto, RegistryType, Steps
  <2>2. cache'[id].source = job[p].target /\ cache'[id].whole
    BY <1>1, <1>6 DEF FinishClone, RegistryType, CloneIsOfTarget
  <2>3. RegistryType'
    BY <1>1, <1>2, <2>1 DEF RegistryType
  <2> QED
    BY <1>1, <1>3, <2>1, <2>2, <2>3 DEF SingleOperator, CloneIsApart, CloneIsOfTarget, MemoryIsGood
<1>7. CASE FailClone(p)
  <2>1. /\ job' = [job EXCEPT ![p] = NoJob]
        /\ step' \in [Command -> Steps] /\ step'[p] = "idle"
    BY <1>7 DEF FailClone, Goto, RegistryType, Steps
  <2>2. RegistryType'
    BY <1>1, <1>2, <2>1 DEF RegistryType, NoJob
  <2> QED
    BY <1>3, <2>1, <2>2 DEF SingleOperator, CloneIsApart, CloneIsOfTarget, MemoryIsGood
<1> QED
  BY <1>4, <1>5, <1>6, <1>7

\* head_rev: the project added is at the commit its clone is at.
LEMMA ResolveKeeps ==
    ASSUME RegistryInv, NEW p \in Command, Resolve(p)
    PROVE  RegistryInv'
<1> USE DEF RegistryInv
<1> DEFINE id == job[p].id
           new == Project(job[p].target, cache[id].rev)
<1>1. /\ job[p].target \in Url /\ id \in Id \ Ids(saved) /\ job[p].projects = saved
      /\ id = IdOf[job[p].target]
      /\ cache[id].source = job[p].target /\ cache[id].whole
      /\ UNCHANGED <<registry, cache, upstream, saved>>
  BY DEF Resolve, CloneIsApart, CloneIsOfTarget
<1>2. /\ new \in ProjectType /\ new.id = id /\ new.source = job[p].target
      /\ new.rev = cache[id].rev
  BY <1>1 DEF Project, ProjectType, Target, RegistryType
<1>3. cache[id] = [source |-> new.source, rev |-> new.rev, whole |-> TRUE]
  BY <1>1, <1>2 DEF RegistryType
<1>4. /\ job' = [job EXCEPT ![p].projects = @ \cup {new}]
      /\ step' = [step EXCEPT ![p] = "saving"]
  BY DEF Resolve, Goto
<1> HIDE DEF new
<1>5. job'[p].projects = saved \cup {new} /\ step'[p] = "saving"
  BY <1>1, <1>4 DEF RegistryType
<1>6. RegistryType'
  <2>1. step' \in [Command -> Steps]
    BY <1>4 DEF RegistryType, Steps
  <2>2. job' \in [Command -> [target : Target \cup {"none"}, id : Id \cup {"none"},
                              projects : SUBSET ProjectType, todo : SUBSET Id]]
    BY <1>2, <1>4 DEF RegistryType
  <2> QED
    BY <1>1, <2>1, <2>2 DEF RegistryType
<1>7. Good(saved)' /\ RegistryIsSaved'
  BY <1>1, CacheStays DEF RegistryIsSaved
<1>8. Good(job[p].projects)'
  <2>1. Pinned(new) /\ new.id \notin Ids(saved)
    BY <1>1, <1>2, <1>3 DEF Pinned
  <2>2. Good(saved \cup {new})
    BY <2>1, AddedIsGood
  <2> QED
    BY <1>1, <1>5, <2>2 DEF Good, Pinned
<1> QED
  BY <1>5, <1>6, <1>7, <1>8 DEF SingleOperator, CloneIsApart, CloneIsOfTarget, MemoryIsGood

-----------------------------------------------------------------------------
LEMMA RemoveKeeps ==
    ASSUME RegistryInv, NEW p \in Command, NEW id \in Id, Remove(p, id)
    PROVE  RegistryInv'
<1> USE DEF RegistryInv
<1>1. /\ registry = saved /\ UNCHANGED <<registry, cache, upstream, saved>>
      /\ step' = [step EXCEPT ![p] = "saving"]
      /\ job' = [job EXCEPT ![p] =
            [NoJob EXCEPT !.id = id, !.projects = {x \in saved : x.id # id}]]
  BY DEF Remove, Load, Goto, RegistryIsSaved
<1>2. job'[p].projects = {x \in saved : x.id # id} /\ step'[p] = "saving"
  BY <1>1 DEF RegistryType, NoJob
<1>3. RegistryType'
  <2>1. step' \in [Command -> Steps]
    BY <1>1 DEF RegistryType, Steps
  <2>2. [NoJob EXCEPT !.id = id, !.projects = {x \in saved : x.id # id}]
            \in [target : Target \cup {"none"}, id : Id \cup {"none"},
                 projects : SUBSET ProjectType, todo : SUBSET Id]
    BY DEF RegistryType, NoJob
  <2> QED
    BY <1>1, <2>1, <2>2 DEF RegistryType
<1>4. Good(saved)' /\ RegistryIsSaved'
  BY <1>1, CacheStays DEF RegistryIsSaved
<1>5. Good(job[p].projects)'
  BY <1>1, <1>2, <1>4 DEF Good, Pinned
<1> QED
  BY <1>2, <1>3, <1>4, <1>5 DEF SingleOperator, CloneIsApart, CloneIsOfTarget, MemoryIsGood

LEMMA ScanKeeps ==
    ASSUME RegistryInv, NEW p \in Command, NEW ids \in SUBSET Id, Scan(p, ids)
    PROVE  RegistryInv'
<1> USE DEF RegistryInv
<1>1. /\ registry = saved /\ UNCHANGED <<registry, cache, upstream, saved>>
      /\ step' = [step EXCEPT ![p] = "scanning"]
      /\ job' = [job EXCEPT ![p] = [NoJob EXCEPT !.projects = saved, !.todo = ids]]
  BY DEF Scan, Load, Goto, RegistryIsSaved
<1>2. job'[p].projects = saved /\ step'[p] = "scanning"
  BY <1>1 DEF RegistryType, NoJob
<1>3. RegistryType'
  <2>1. step' \in [Command -> Steps]
    BY <1>1 DEF RegistryType, Steps
  <2>2. [NoJob EXCEPT !.projects = saved, !.todo = ids]
            \in [target : Target \cup {"none"}, id : Id \cup {"none"},
                 projects : SUBSET ProjectType, todo : SUBSET Id]
    BY DEF RegistryType, NoJob
  <2> QED
    BY <1>1, <2>1, <2>2 DEF RegistryType
<1>4. Good(saved)' /\ RegistryIsSaved'
  BY <1>1, CacheStays DEF RegistryIsSaved
<1> QED
  BY <1>1, <1>2, <1>3, <1>4 DEF SingleOperator, CloneIsApart, CloneIsOfTarget, MemoryIsGood

\* A scan marks a project as scanned and changes nothing else of it.
LEMMA ScanOneKeeps ==
    ASSUME RegistryInv, NEW p \in Command, ScanOne(p)
    PROVE  RegistryInv'
<1> USE DEF RegistryInv
<1> DEFINE marked(x) == [x EXCEPT !.scanned = @ \/ Readable(x)]
<1>1. PICK x \in job[p].projects :
          job' = [job EXCEPT ![p].todo = @ \ {x.id}, ![p].projects = (@ \ {x}) \cup {marked(x)}]
  BY DEF ScanOne
<1>2. /\ UNCHANGED <<registry, cache, upstream, step, saved>>
      /\ step[p] = "scanning" /\ Good(job[p].projects)
  BY DEF ScanOne, MemoryIsGood
<1>3. x \in ProjectType
  BY <1>1 DEF RegistryType
<1>4. /\ marked(x) \in ProjectType
      /\ marked(x).id = x.id /\ marked(x).source = x.source /\ marked(x).rev = x.rev
  BY <1>3 DEF ProjectType
<1> HIDE DEF marked
<1>5. /\ job'[p].projects = (job[p].projects \ {x}) \cup {marked(x)}
      /\ job'[p].target = job[p].target /\ job'[p].id = job[p].id
      /\ job'[p].todo = job[p].todo \ {x.id}
  BY <1>1 DEF RegistryType
<1>6. RegistryType'
  <2>1. job'[p] \in [target : Target \cup {"none"}, id : Id \cup {"none"},
                     projects : SUBSET ProjectType, todo : SUBSET Id]
    BY <1>1, <1>4 DEF RegistryType
  <2>2. \A q \in Command : q = p
    BY DEF SingleOperator
  <2>3. job' \in [Command -> [target : Target \cup {"none"}, id : Id \cup {"none"},
                              projects : SUBSET ProjectType, todo : SUBSET Id]]
    BY <1>1, <2>1, <2>2 DEF RegistryType
  <2> QED
    BY <1>2, <2>3 DEF RegistryType
<1>7. Good(saved)' /\ RegistryIsSaved'
  BY <1>2, CacheStays DEF RegistryIsSaved
<1>8. Good(job[p].projects)'
  <2>1. Good((job[p].projects \ {x}) \cup {marked(x)})
    BY <1>2, <1>4, ReplacedIsGood
  <2> QED
    BY <1>2, <1>5, <2>1 DEF Good, Pinned
<1> QED
  BY <1>2, <1>6, <1>7, <1>8 DEF SingleOperator, CloneIsApart, CloneIsOfTarget, MemoryIsGood

\* The save, and the steps that change neither clones nor projects.
LEMMA SaveKeeps ==
    ASSUME RegistryInv, NEW p \in Command,
           EndScan(p) \/ Truncate(p) \/ Write(p) \/ Kill(p)
    PROVE  RegistryInv'
<1> USE DEF RegistryInv
<1>0. UNCHANGED <<cache, upstream>>
  BY DEF EndScan, Truncate, Write, Kill
<1>1. CASE EndScan(p) \/ Truncate(p)
  <2>1. /\ job' = job /\ saved' = saved /\ step' \in [Command -> Steps]
        /\ step[p] \in {"scanning", "saving"} /\ step'[p] \in {"saving", "writing"}
    BY <1>1 DEF EndScan, Truncate, Goto, RegistryType, Steps
  <2>2. Good(job[p].projects)' /\ Good(saved)'
    BY <1>0, <2>1 DEF MemoryIsGood, Good, Pinned
  <2>3. RegistryIsSaved'
    BY <1>1, <2>1 DEF EndScan, Truncate, RegistryIsSaved
  <2> QED
    BY <1>0, <2>1, <2>2, <2>3
       DEF RegistryType, SingleOperator, CloneIsApart, CloneIsOfTarget, MemoryIsGood
<1>2. CASE Write(p)
  <2>1. /\ registry' = job[p].projects /\ saved' = job[p].projects
        /\ job' = [job EXCEPT ![p] = NoJob]
        /\ step' \in [Command -> Steps] /\ step'[p] = "idle"
        /\ Good(job[p].projects)
    BY <1>2 DEF Write, Goto, RegistryType, Steps, MemoryIsGood
  <2>2. Good(saved)'
    BY <1>0, <2>1, CacheStays DEF Good, Pinned
  <2>3. RegistryType'
    BY <1>0, <2>1 DEF RegistryType, NoJob
  <2> QED
    BY <2>1, <2>2, <2>3
       DEF RegistryIsSaved, SingleOperator, CloneIsApart, CloneIsOfTarget, MemoryIsGood
<1>3. CASE Kill(p)
  <2>1. /\ UNCHANGED <<registry, saved>>
        /\ job' = [job EXCEPT ![p] = NoJob]
        /\ step' \in [Command -> Steps] /\ step'[p] = "idle"
    BY <1>3 DEF Kill, Goto, RegistryType, Steps
  <2>2. Good(saved)'
    BY <1>0, <2>1, CacheStays
  <2>3. RegistryType'
    BY <1>0, <2>1 DEF RegistryType, NoJob
  <2> QED
    BY <2>1, <2>2, <2>3
       DEF RegistryIsSaved, SingleOperator, CloneIsApart, CloneIsOfTarget, MemoryIsGood
<1> QED
  BY <1>1, <1>2, <1>3

\* What happens around the commands.  A torn file is only moved aside when no
\* command is at work.
LEMMA SurroundingsKeep ==
    ASSUME RegistryInv,
           MoveAside \/ (\E u \in Url : Push(u)) \/ (\E path \in Path : Vanish(path))
    PROVE  RegistryInv'
<1> USE DEF RegistryInv
<1>0. UNCHANGED <<cache, step, job>>
  BY DEF MoveAside, Push, Vanish
<1>1. upstream' \in [Url -> Nat]
  BY DEF MoveAside, Push, Vanish, RegistryType
<1>2. CASE MoveAside
  <2>1. registry' = {} /\ saved' = {} /\ \A p \in Command : step[p] = "idle"
    BY <1>2 DEF MoveAside
  <2> QED
    BY <1>0, <1>1, <2>1
       DEF RegistryType, RegistryIsSaved, Good, CloneIsApart, CloneIsOfTarget, MemoryIsGood
<1>3. CASE (\E u \in Url : Push(u)) \/ (\E path \in Path : Vanish(path))
  <2>1. UNCHANGED <<registry, saved>>
    BY <1>3 DEF Push, Vanish
  <2> QED
    BY <1>0, <1>1, <2>1
       DEF RegistryType, RegistryIsSaved, Good, Pinned, CloneIsApart, CloneIsOfTarget, MemoryIsGood
<1> QED
  BY <1>2, <1>3

LEMMA StepKeepsGood == RegistryInv /\ [WorkspaceNext]_workspaceVars => RegistryInv'
<1> SUFFICES ASSUME RegistryInv, [WorkspaceNext]_workspaceVars PROVE RegistryInv'
  OBVIOUS
<1>1. ASSUME NEW p \in Command, NEW t \in Target, Add(p, t) PROVE RegistryInv'
  BY <1>1, AddKeeps
<1>2. ASSUME NEW p \in Command,
             DiscardSome(p) \/ DiscardOrphan(p) \/ BeginClone(p) \/ FinishClone(p) \/ FailClone(p)
      PROVE RegistryInv'
  BY <1>2, CloneKeeps
<1>3. ASSUME NEW p \in Command, Resolve(p) PROVE RegistryInv'
  BY <1>3, ResolveKeeps
<1>4. ASSUME NEW p \in Command, NEW id \in Id, Remove(p, id) PROVE RegistryInv'
  BY <1>4, RemoveKeeps
<1>5. ASSUME NEW p \in Command, NEW ids \in SUBSET Id, Scan(p, ids) PROVE RegistryInv'
  BY <1>5, ScanKeeps
<1>6. ASSUME NEW p \in Command, ScanOne(p) PROVE RegistryInv'
  BY <1>6, ScanOneKeeps
<1>7. ASSUME NEW p \in Command, EndScan(p) \/ Truncate(p) \/ Write(p) \/ Kill(p) PROVE RegistryInv'
  BY <1>7, SaveKeeps
<1>8. CASE MoveAside \/ (\E u \in Url : Push(u)) \/ (\E path \in Path : Vanish(path))
  BY <1>8, SurroundingsKeep
<1>9. CASE UNCHANGED workspaceVars
  BY <1>9 DEF workspaceVars, RegistryInv, RegistryType, RegistryIsSaved, Good, Pinned, CloneIsApart,
              CloneIsOfTarget, MemoryIsGood
<1> QED
  BY <1>1, <1>2, <1>3, <1>4, <1>5, <1>6, <1>7, <1>8, <1>9 DEF WorkspaceNext, Target

-----------------------------------------------------------------------------
\* The registry's promise, "the scan of a git project is a scan of a named
\* commit", for an operator who runs one command at a time (Workspace::add,
\* clone, head_rev, save).
THEOREM OneOperatorPins == SingleOperator /\ WorkspaceSpec => []RegisteredTreeIsPinned
<1>1. RegistryInv => RegisteredTreeIsPinned
  BY DEF RegistryInv, Good, MemoryIsGood, RegisteredTreeIsPinned
<1> QED
  BY <1>1, InitIsGood, StepKeepsGood, PTL DEF WorkspaceSpec

-----------------------------------------------------------------------------
(* The connections *)

Phases == {"accepting", "reading", "draining", "routing", "rendering", "writing"}

TypeOK ==
    /\ request \in [Client -> Request \cup {NoRequest}]
    /\ sent \in [Client -> Nat]
    /\ backlog \in Seq(Client)
    /\ phase \in Phases
    /\ got \in Nat
    /\ head \in Nat
    /\ answer = [c \in Client |-> answer[c]]

\* A connection is only ever made with a request, which it keeps.
Queued == \A i \in 1..Len(backlog) : request[backlog[i]] # NoRequest

Served ==
    /\ phase = "accepting" => got = 0
    /\ phase # "accepting" =>
          /\ serving \in Client
          /\ request[serving] # NoRequest
          /\ got <= sent[serving]

SentOfRequest ==
    \A c \in Client :
        /\ sent[c] <= Length(request[c])
        /\ request[c] = NoRequest => sent[c] = 0

DrainedPastCap == phase = "draining" => head > MaxHead

\* The route that is answered is the one that was asked for.
RouteIsAsked ==
    phase \in {"draining", "routing", "rendering", "writing"} =>
        response.route \in {"none", request[serving].route}

Connections ==
    TypeOK /\ Queued /\ Served /\ SentOfRequest /\ DrainedPastCap /\ RouteIsAsked
           /\ RoutedTargetIsWhole

-----------------------------------------------------------------------------
(* Reading a request *)

LEMMA RequestType ==
    ASSUME NEW r \in Request \cup {NoRequest}
    PROVE  r.headers \in Nat /\ r.body \in Nat /\ HeadEnd(r) \in Nat /\ Length(r) \in Nat
  BY ConsoleAssumption DEF NoRequest, HeadEnd, Length, Version

LEMMA ConnectionsInit == Init => Connections
<1> SUFFICES ASSUME ServerInit PROVE Connections
  BY DEF Init
<1>1. TypeOK /\ Queued /\ Served /\ DrainedPastCap /\ RouteIsAsked /\ RoutedTargetIsWhole
  BY DEF ServerInit, TypeOK, Phases, Queued, Served, DrainedPastCap, RouteIsAsked,
         RoutedTargetIsWhole, NoResponse
<1>2. \A c \in Client : request[c] = NoRequest /\ sent[c] = 0
  BY DEF ServerInit
<1>3. SentOfRequest
  BY <1>2, RequestType DEF SentOfRequest
<1> QED
  BY <1>1, <1>3 DEF Connections

LEMMA ConnectKeeps ==
    ASSUME Connections, NEW c \in Client, NEW r \in Request, Connect(c, r)
    PROVE  Connections'
<1> USE DEF Connections, Connect
<1>1. /\ request' = [request EXCEPT ![c] = r] /\ backlog' = Append(backlog, c)
      /\ r # NoRequest /\ request[c] = NoRequest
      /\ UNCHANGED <<sent, serving, phase, got, head, response, answer>>
  BY ConsoleAssumption
<1>2. TypeOK'
  BY <1>1 DEF TypeOK
<1>3. \A d \in Client : request[d] # NoRequest => request'[d] = request[d]
  BY <1>1 DEF TypeOK
<1>4. Queued'
  BY <1>1, <1>3 DEF TypeOK, Queued
<1>5. Served' /\ DrainedPastCap' /\ RouteIsAsked'
  BY <1>1, <1>3 DEF TypeOK, Served, DrainedPastCap, RouteIsAsked, Phases
<1>6. SentOfRequest'
  <2>1. sent[c] = 0 /\ Length(r) \in Nat
    BY <1>1, RequestType DEF SentOfRequest
  <2> QED
    BY <1>1, <2>1 DEF SentOfRequest, TypeOK
<1>7. RoutedTargetIsWhole'
  BY <1>1 DEF RoutedTargetIsWhole, TypeOK, NoRequest
<1> QED
  BY <1>2, <1>4, <1>5, <1>6, <1>7

LEMMA SendKeeps ==
    ASSUME Connections, NEW c \in Client, Send(c)
    PROVE  Connections'
<1> USE DEF Connections, Send
<1>1. /\ sent' = [sent EXCEPT ![c] = @ + 1] /\ sent[c] < Length(request[c])
      /\ request[c] # NoRequest
      /\ UNCHANGED <<request, backlog, serving, phase, got, head, response, answer>>
  OBVIOUS
<1>2. TypeOK'
  BY <1>1 DEF TypeOK
<1>3. Queued' /\ DrainedPastCap' /\ RouteIsAsked' /\ RoutedTargetIsWhole'
  BY <1>1 DEF Queued, DrainedPastCap, RouteIsAsked, RoutedTargetIsWhole
<1>4. Served'
  BY <1>1 DEF Served, TypeOK
<1>5. SentOfRequest'
  <2>1. Length(request[c]) \in Nat
    BY RequestType DEF TypeOK
  <2> QED
    BY <1>1, <2>1 DEF SentOfRequest, TypeOK
<1> QED
  BY <1>2, <1>3, <1>4, <1>5

LEMMA AnswerTakenKeeps ==
    ASSUME Connections, NEW c \in Client, ReadAnswer(c) \/ HangUp(c)
    PROVE  Connections'
<1>1. UNCHANGED <<request, sent, backlog, serving, phase, got, head, response, answer>>
  BY DEF ReadAnswer, HangUp
<1> QED
  BY <1>1 DEF Connections, TypeOK, Queued, Served, SentOfRequest, DrainedPastCap, RouteIsAsked,
              RoutedTargetIsWhole

LEMMA AcceptKeeps ==
    ASSUME Connections, Accept
    PROVE  Connections'
<1> USE DEF Connections, Accept, Goes
<1>1. /\ backlog # <<>> /\ phase = "accepting" /\ got = 0
      /\ serving' = Head(backlog) /\ backlog' = Tail(backlog) /\ phase' = "reading"
      /\ UNCHANGED <<request, sent, got, head, response, answer>>
  BY DEF Served
<1>2. /\ Head(backlog) \in Client /\ request[Head(backlog)] # NoRequest
      /\ backlog' \in Seq(Client)
      /\ \A i \in 1..Len(backlog') : request[backlog'[i]] # NoRequest
  <2>1. /\ backlog \in Seq(Client) /\ Len(backlog) \in Nat /\ Len(backlog) >= 1
        /\ Head(backlog) = backlog[1]
    BY <1>1 DEF TypeOK
  <2>2. /\ Tail(backlog) \in Seq(Client) /\ Len(Tail(backlog)) = Len(backlog) - 1
        /\ \A i \in 1..Len(Tail(backlog)) : Tail(backlog)[i] = backlog[i + 1]
    BY <1>1, <2>1
  <2>3. \A i \in 1..Len(Tail(backlog)) : request[Tail(backlog)[i]] # NoRequest
    BY <2>1, <2>2 DEF Queued
  <2> QED
    BY <1>1, <2>1, <2>2, <2>3 DEF Queued
<1>3. TypeOK' /\ Queued' /\ SentOfRequest' /\ DrainedPastCap' /\ RouteIsAsked' /\ RoutedTargetIsWhole'
  BY <1>1, <1>2 DEF TypeOK, Phases, Queued, SentOfRequest, DrainedPastCap, RouteIsAsked,
                    RoutedTargetIsWhole
<1>4. Served'
  BY <1>1, <1>2 DEF Served, TypeOK
<1> QED
  BY <1>3, <1>4

\* The steps that take bytes off the connection, or stop doing so.
LEMMA ReadKeeps ==
    ASSUME Connections, Read \/ Drain \/ TooLong \/ DrainEnd
    PROVE  Connections'
<1> USE DEF Connections
<1>1. /\ phase \in {"reading", "draining"} /\ phase' \in {"reading", "draining", "writing"}
      /\ UNCHANGED <<request, sent, backlog, serving, answer>>
  BY DEF Read, Drain, TooLong, DrainEnd, Goes
<1>2. serving \in Client /\ request[serving] # NoRequest /\ got <= sent[serving]
      /\ got \in Nat /\ sent[serving] \in Nat /\ head \in Nat
  BY <1>1 DEF Served, TypeOK
<1>3. got' \in Nat /\ got' <= sent[serving] /\ head' \in Nat
  BY <1>2 DEF Read, Drain, TooLong, DrainEnd, Unread
<1>4. TypeOK' /\ Queued' /\ Served' /\ SentOfRequest' /\ RoutedTargetIsWhole'
  BY <1>1, <1>2, <1>3 DEF TypeOK, Phases, Queued, Served, SentOfRequest, RoutedTargetIsWhole
<1>5. DrainedPastCap'
  BY DEF Read, Drain, TooLong, DrainEnd, Goes, DrainedPastCap
<1>6. RouteIsAsked'
  BY <1>1 DEF Read, Drain, TooLong, DrainEnd, Goes, Respond, RouteIsAsked
<1> QED
  BY <1>4, <1>5, <1>6

\* A target is routed only if all of it was read.
LEMMA ParseKeeps ==
    ASSUME Connections, Parse
    PROVE  Connections'
<1> USE DEF Connections
<1>1. /\ phase = "reading" /\ phase' \in {"routing", "writing"} /\ head' = got
      /\ UNCHANGED <<request, sent, backlog, serving, got, answer>>
      /\ \/ TargetRead(got) /\ response'.route = RouteRead(request[serving], got)
         \/ response'.route = "none"
  BY DEF Parse, Goes, Respond
<1>2. TargetRead(got) => RouteRead(request[serving], got) = request[serving].route
  BY DEF TypeOK, TargetRead, RouteRead, Version
<1>3. TypeOK' /\ Queued' /\ Served' /\ SentOfRequest' /\ DrainedPastCap' /\ RoutedTargetIsWhole'
  BY <1>1 DEF TypeOK, Phases, Queued, Served, SentOfRequest, DrainedPastCap, RoutedTargetIsWhole
<1>4. RouteIsAsked'
  BY <1>1, <1>2 DEF RouteIsAsked
<1> QED
  BY <1>3, <1>4

LEMMA RouteKeeps ==
    ASSUME Connections, Static \/ LoadPage \/ RenderRow \/ EndPage
    PROVE  Connections'
<1> USE DEF Connections
<1>1. /\ phase \in {"routing", "rendering"} /\ phase' \in {"rendering", "writing"}
      /\ UNCHANGED <<request, sent, backlog, serving, got, head, answer>>
      /\ response'.route = response.route
  BY DEF Static, LoadPage, RenderRow, EndPage, Goes, Respond
<1>2. TypeOK' /\ Queued' /\ Served' /\ SentOfRequest' /\ DrainedPastCap' /\ RoutedTargetIsWhole'
  BY <1>1 DEF TypeOK, Phases, Queued, Served, SentOfRequest, DrainedPastCap, RoutedTargetIsWhole
<1>3. RouteIsAsked'
  BY <1>1 DEF RouteIsAsked
<1> QED
  BY <1>2, <1>3

LEMMA WriteResponseKeeps ==
    ASSUME Connections, WriteResponse
    PROVE  Connections'
<1> USE DEF Connections
<1>1. PICK received \in {response, Reset} :
          /\ answer' = [answer EXCEPT ![serving] = received]
          /\ sent' = [sent EXCEPT ![serving] = 0]
          /\ phase = "writing" /\ phase' = "accepting" /\ got' = 0 /\ head' = 0
          /\ UNCHANGED <<request, backlog>>
  BY DEF WriteResponse, Goes
<1>2. received.route \in {"none", request[serving].route} /\ serving \in Client
  BY <1>1 DEF RouteIsAsked, Served, Reset, NoResponse
<1>3. TypeOK' /\ Queued' /\ Served' /\ DrainedPastCap' /\ RouteIsAsked'
  BY <1>1, <1>2 DEF TypeOK, Phases, Queued, Served, DrainedPastCap, RouteIsAsked
<1>4. SentOfRequest'
  <2>1. Length(request[serving]) \in Nat
    BY <1>2, RequestType DEF TypeOK
  <2> QED
    BY <1>1, <1>2, <2>1 DEF SentOfRequest, TypeOK
<1>5. RoutedTargetIsWhole'
  BY <1>1, <1>2 DEF RoutedTargetIsWhole, TypeOK
<1> QED
  BY <1>3, <1>4, <1>5

LEMMA ConnectionsStep == Connections /\ [Next]_vars => Connections'
<1> SUFFICES ASSUME Connections, [Next]_vars PROVE Connections'
  OBVIOUS
<1>1. CASE OperatorStep \/ UNCHANGED vars
  <2>1. UNCHANGED <<request, sent, backlog, serving, phase, got, head, response, answer>>
    BY <1>1 DEF OperatorStep, vars, serverVars
  <2> QED
    BY <2>1 DEF Connections, TypeOK, Queued, Served, SentOfRequest, DrainedPastCap, RouteIsAsked,
                RoutedTargetIsWhole
<1>2. CASE ClientStep
  BY <1>2, ConnectKeeps, SendKeeps, AnswerTakenKeeps DEF ClientStep
<1>3. CASE ServerStep
  BY <1>3, AcceptKeeps, ReadKeeps, ParseKeeps, RouteKeeps, WriteResponseKeeps DEF ServerStep
<1> QED
  BY <1>1, <1>2, <1>3 DEF Next

\* Whatever is cut short is refused: no answer is to another target than the
\* one the client asked for (read_request, parse_target).
THEOREM TargetsAreWhole == Spec => []RoutedTargetIsWhole
<1>1. Connections => RoutedTargetIsWhole
  BY DEF Connections
<1> QED
  BY <1>1, ConnectionsInit, ConnectionsStep, PTL DEF Spec

-----------------------------------------------------------------------------
(* Refusing one *)

\* A refusal of a request no longer than what is drained leaves none of it
\* unread (read_request, drain).
THEOREM RefusalsAreRead == Spec => RefusalLeavesNothingUnread
<1> DEFINE Refused ==
        phase # "writing" /\ phase' = "writing" /\ response'.status \in {400, 405}
        /\ request[serving].body = 0 /\ Length(request[serving]) <= MaxHead + MaxDrain
        => got' = sent[serving]
<1>1. Connections /\ [Next]_vars => [Refused]_vars
  <2> SUFFICES ASSUME Connections, Next, phase # "writing", phase' = "writing",
                      response'.status \in {400, 405}, request[serving].body = 0,
                      Length(request[serving]) <= MaxHead + MaxDrain
               PROVE  got' = sent[serving]
    OBVIOUS
  <2>1. CASE Parse
    <3>1. /\ got' = got /\ got \in Nat /\ got <= sent[serving]
          /\ sent[serving] <= Length(request[serving]) /\ sent[serving] \in Nat
          /\ HeadEnd(request[serving]) \in Nat
          /\ got >= HeadEnd(request[serving]) \/ sent[serving] - got = 0
      BY <2>1, RequestType DEF Connections, TypeOK, Served, SentOfRequest, Parse, HeadRead, Unread
    <3>2. Length(request[serving]) = HeadEnd(request[serving])
      BY <3>1 DEF Length
    <3> QED
      BY <3>1, <3>2
  <2>2. CASE DrainEnd
    <3>1. /\ got' = got /\ got \in Nat /\ head \in Nat /\ head > MaxHead
          /\ got <= sent[serving] /\ sent[serving] <= Length(request[serving])
          /\ sent[serving] \in Nat /\ Length(request[serving]) \in Nat
          /\ got - head >= MaxDrain \/ sent[serving] - got = 0
      BY <2>2, RequestType DEF Connections, TypeOK, Served, SentOfRequest, DrainedPastCap,
                               DrainEnd, Unread
    <3> QED
      BY <3>1, ConsoleAssumption
  <2>3. ~(Static \/ LoadPage \/ EndPage)
    BY DEF Static, LoadPage, EndPage, Respond, Goes
  <2>4. ~(OperatorStep \/ ClientStep \/ Accept \/ Read \/ TooLong \/ Drain \/ RenderRow \/ WriteResponse)
    BY DEF OperatorStep, ClientStep, Connect, Send, ReadAnswer, HangUp, Accept, Read, TooLong, Drain, RenderRow,
           WriteResponse, Goes
  <2> QED
    BY <2>1, <2>2, <2>3, <2>4 DEF Next, ServerStep
<1> QED
  BY <1>1, ConnectionsInit, ConnectionsStep, PTL DEF Spec, RefusalLeavesNothingUnread

-----------------------------------------------------------------------------
(* Listing the projects *)

\* Every project that stood on file since the connection is still there.
StandingOnFile == standing \subseteq Ids(saved)

\* Until it is rendered, a project is to be.
NoneForgotten ==
    phase = "rendering" /\ response.route = "projects" =>
        \A id \in standing :
            (\E x \in page.todo : x.id = id) \/ (\E row \in page.rows : row.id = id)

Refusing == phase = "draining" => response.route = "none"

Listing ==
    RegistryIsSaved /\ StandingOnFile /\ NoneForgotten /\ Refusing /\ ListOmitsNoStandingProject

LEMMA ListingInit == Init => Listing
  BY DEF Init, WorkspaceInit, ServerInit, Listing, RegistryIsSaved, StandingOnFile,
         NoneForgotten, Refusing, ListOmitsNoStandingProject

LEMMA ListingStep == Listing /\ [Next]_vars => Listing'
<1> SUFFICES ASSUME Listing, [Next]_vars PROVE Listing'
  OBVIOUS
<1> USE DEF Listing
<1>1. CASE OperatorStep
  <2>1. /\ standing' = standing \cap Ids(saved') /\ WorkspaceNext
        /\ UNCHANGED <<phase, page, response>>
    BY <1>1 DEF OperatorStep
  <2>2. RegistryIsSaved'
    BY <2>1 DEF WorkspaceNext, Add, DiscardSome, DiscardOrphan, BeginClone, FinishClone, FailClone,
                Resolve, Remove, Scan, ScanOne, EndScan, Truncate, Write, Kill, MoveAside, Push,
                Vanish, RegistryIsSaved
  <2>3. StandingOnFile' /\ NoneForgotten' /\ Refusing' /\ ListOmitsNoStandingProject'
    BY <2>1 DEF StandingOnFile, NoneForgotten, Refusing, ListOmitsNoStandingProject, Ids
  <2> QED
    BY <2>2, <2>3
<1>2. CASE UNCHANGED workspaceVars /\ (ClientStep \/ ServerStep)
  <2>0. RegistryIsSaved' /\ saved' = saved
    BY <1>2 DEF workspaceVars, RegistryIsSaved
  <2>1. CASE ClientStep \/ Read \/ Drain
    <3>1. UNCHANGED <<standing, phase, page, response>>
      BY <2>1 DEF ClientStep, Connect, Send, ReadAnswer, HangUp, Read, Drain
    <3> QED
      BY <2>0, <3>1
         DEF StandingOnFile, NoneForgotten, Refusing, ListOmitsNoStandingProject, Ids
  <2>2. CASE Accept \/ WriteResponse
    <3>1. standing' \in {Ids(saved), {}} /\ phase' \in {"reading", "accepting"}
      BY <2>2 DEF Accept, WriteResponse, Goes
    <3> QED
      BY <2>0, <3>1
         DEF StandingOnFile, NoneForgotten, Refusing, ListOmitsNoStandingProject, Ids
  <2>3. CASE TooLong \/ DrainEnd \/ Parse \/ Static
    <3>1. /\ UNCHANGED standing /\ phase' \in {"draining", "writing", "routing"}
          /\ phase' = "draining" => response'.route = "none"
          /\ phase' = "writing" => response'.route = "none" \/ response'.route \in {"shell", "unknown"}
      BY <2>3 DEF TooLong, DrainEnd, Parse, Static, Goes, Respond, Refusing
    <3> QED
      BY <2>0, <3>1
         DEF StandingOnFile, NoneForgotten, Refusing, ListOmitsNoStandingProject, Ids
  <2>4. CASE LoadPage
    <3>1. /\ UNCHANGED standing
          /\ \/ phase' = "writing" /\ response'.status \in {404, 500}
             \/ /\ phase' = "rendering" /\ response' = response /\ registry # Torn
                /\ response.route = "projects" => page'.todo = registry
      BY <2>4 DEF LoadPage, OnFile, Goes, Respond
    <3> QED
      BY <2>0, <3>1 DEF RegistryIsSaved, StandingOnFile, NoneForgotten, Refusing,
                        ListOmitsNoStandingProject, Ids
  <2>5. CASE RenderRow
    <3>1. PICK x \in page.todo :
              page' = [todo |-> page.todo \ {x},
                       rows |-> page.rows \cup {[id |-> x.id, readable |-> Readable(x)]}]
      BY <2>5 DEF RenderRow
    <3>2. UNCHANGED <<standing, phase, response>> /\ phase = "rendering"
      BY <2>5 DEF RenderRow
    <3>3. NoneForgotten'
      <4>1. SUFFICES ASSUME response.route = "projects", NEW id \in standing
                     PROVE  \/ \E y \in page'.todo : y.id = id
                            \/ \E row \in page'.rows : row.id = id
        BY <3>2 DEF NoneForgotten
      <4>2. /\ page'.todo = page.todo \ {x}
            /\ page'.rows = page.rows \cup {[id |-> x.id, readable |-> Readable(x)]}
        BY <3>1
      <4>3. CASE x.id = id
        <5> DEFINE row == [id |-> x.id, readable |-> Readable(x)]
        <5>1. row.id = id
          BY <4>3
        <5>2. row \in page'.rows
          BY <4>2
        <5> HIDE DEF row
        <5> QED
          BY <5>1, <5>2
      <4>4. CASE x.id # id
        BY <3>2, <4>1, <4>2, <4>4 DEF NoneForgotten
      <4> QED
        BY <4>3, <4>4
    <3> QED
      BY <2>0, <3>2, <3>3 DEF StandingOnFile, Refusing, ListOmitsNoStandingProject, Ids
  <2>6. CASE EndPage
    <3>1. /\ UNCHANGED standing /\ phase = "rendering" /\ phase' = "writing" /\ page.todo = {}
          /\ response'.route = response.route
          /\ response.route = "projects" => response'.rows = page.rows
      BY <2>6 DEF EndPage, Goes, Respond
    <3> QED
      BY <2>0, <3>1
         DEF StandingOnFile, NoneForgotten, Refusing, ListOmitsNoStandingProject, Ids
  <2> QED
    BY <1>2, <2>1, <2>2, <2>3, <2>4, <2>5, <2>6 DEF ServerStep
<1>3. CASE UNCHANGED vars
  BY <1>3 DEF vars, serverVars, workspaceVars, RegistryIsSaved, StandingOnFile, NoneForgotten,
              Refusing, ListOmitsNoStandingProject, Ids
<1> QED
  BY <1>1, <1>2, <1>3 DEF Next

\* With any number of commands at work, and any of them killed in the middle of
\* a save, the list leaves out no project that was on file while it was made
\* (projects; Workspace::load refuses a file it cannot parse).
THEOREM ListsAreComplete == Spec => []ListOmitsNoStandingProject
<1>1. Listing => ListOmitsNoStandingProject
  BY DEF Listing
<1> QED
  BY <1>1, ListingInit, ListingStep, PTL DEF Spec

=============================================================================
