------------------------------ MODULE Workspace ------------------------------
(***************************************************************************)
(* The workspace registry (src/src/workspace.rs) as `trunnion project add, *)
(* remove and scan` change it (src/src/main.rs).  A command loads the      *)
(* registry, may clone a repository into the cache under the project's id, *)
(* and writes the registry back whole: the file is truncated, then written.*)
(* Nothing is locked, and a command may be killed between any two steps.   *)
(***************************************************************************)
EXTENDS Naturals, FiniteSets

CONSTANTS
    Command,        \* processes that run a command
    Mortal,         \* those that may be killed
    Url,            \* repositories that can be cloned
    Path,           \* local directories
    IdOf,           \* IdOf[t]: the id a target is registered under
    MaxRev,         \* bound on the commits of a repository
    MaxCommands,    \* bound on the commands of a behaviour
    Torn            \* a registry file that does not parse

ASSUME WorkspaceAssumption ==
    /\ Mortal \subseteq Command
    /\ Url \cap Path = {}
    /\ DOMAIN IdOf = Url \cup Path
    /\ MaxRev \in Nat
    /\ MaxCommands \in Nat

Id == {IdOf[t] : t \in Url \cup Path}

VARIABLES
    registry,   \* the projects on file, or Torn; none when there is no file
    cache,      \* cache[id]: the clone under the id
    upstream,   \* upstream[u]: the commit a clone of u gets
    present,    \* the local directories that exist
    step,       \* step[p]: where p is
    job,        \* job[p]: what p does, and the projects it has in memory
    saved,      \* history: the projects the last complete save wrote
    commands    \* commands started

workspaceVars == <<registry, cache, upstream, present, step, job, saved, commands>>

NoTree == [source |-> "none", rev |-> 0, whole |-> FALSE]

NoJob == [target |-> "none", id |-> "none", projects |-> {}, todo |-> {}]

WorkspaceInit ==
    /\ registry = {}
    /\ cache = [id \in Id |-> NoTree]
    /\ upstream = [u \in Url |-> 0]
    /\ present = Path
    /\ step = [p \in Command |-> "idle"]
    /\ job = [p \in Command |-> NoJob]
    /\ saved = {}
    /\ commands = 0

Project(target, rev) ==
    [id |-> IdOf[target], source |-> target, rev |-> rev, scanned |-> FALSE]

Ids(projects) == {x.id : x \in projects}

Goto(p, label) == step' = [step EXCEPT ![p] = label]

\* Workspace::load refuses a file it cannot parse, and the command with it.
Load(p) ==
    /\ step[p] = "idle"
    /\ commands < MaxCommands
    /\ registry # Torn
    /\ commands' = commands + 1

-----------------------------------------------------------------------------
(* project add *)

\* An id that is taken, or a directory that does not exist, is refused; a
\* directory is registered where it is, a repository is cloned first.
Add(p, target) ==
    /\ Load(p)
    /\ IdOf[target] \notin Ids(registry)
    /\ target \in Path => target \in present
    /\ job' = [job EXCEPT ![p] =
          [target |-> target, id |-> IdOf[target], todo |-> {},
           projects |-> IF target \in Path THEN registry \cup {Project(target, 0)} ELSE registry]]
    /\ Goto(p, IF target \in Path THEN "saving" ELSE "discarding")
    /\ UNCHANGED <<registry, cache, upstream, present, saved>>

\* discard_orphan deletes a leftover clone file by file.
DiscardSome(p) ==
    /\ step[p] = "discarding"
    /\ cache[job[p].id].whole
    /\ cache' = [cache EXCEPT ![job[p].id].whole = FALSE]
    /\ UNCHANGED <<registry, upstream, present, step, job, saved, commands>>

DiscardOrphan(p) ==
    /\ step[p] = "discarding"
    /\ cache' = [cache EXCEPT ![job[p].id] = NoTree]
    /\ Goto(p, "cloning")
    /\ UNCHANGED <<registry, upstream, present, job, saved, commands>>

\* git clone into a directory that must not exist.
BeginClone(p) ==
    /\ step[p] = "cloning"
    /\ cache[job[p].id] = NoTree
    /\ cache' = [cache EXCEPT ![job[p].id] =
          [source |-> job[p].target, rev |-> upstream[job[p].target], whole |-> FALSE]]
    /\ Goto(p, "fetching")
    /\ UNCHANGED <<registry, upstream, present, job, saved, commands>>

FinishClone(p) ==
    /\ step[p] = "fetching"
    /\ cache[job[p].id] # NoTree
    /\ cache' = [cache EXCEPT ![job[p].id].whole = TRUE]
    /\ Goto(p, "resolving")
    /\ UNCHANGED <<registry, upstream, present, job, saved, commands>>

\* git fails and takes what it wrote with it, or the directory is in its way.
FailClone(p) ==
    /\ step[p] \in {"cloning", "fetching"}
    /\ step[p] = "cloning" => cache[job[p].id] # NoTree
    /\ cache' = IF step[p] = "fetching" THEN [cache EXCEPT ![job[p].id] = NoTree] ELSE cache
    /\ job' = [job EXCEPT ![p] = NoJob]
    /\ Goto(p, "idle")
    /\ UNCHANGED <<registry, upstream, present, saved, commands>>

\* Mutant: the commit recorded is the one the repository is at by now.
ResolveUpstream(p) ==
    /\ step[p] = "resolving"
    /\ job' = [job EXCEPT ![p].projects =
          @ \cup {Project(job[p].target, upstream[job[p].target])}]
    /\ Goto(p, "saving")
    /\ UNCHANGED <<registry, cache, upstream, present, saved, commands>>

\* head_rev: the commit the clone is at pins the project.
Resolve(p) ==
    /\ step[p] = "resolving"
    /\ cache[job[p].id] # NoTree
    /\ job' = [job EXCEPT ![p].projects = @ \cup {Project(job[p].target, cache[job[p].id].rev)}]
    /\ Goto(p, "saving")
    /\ UNCHANGED <<registry, cache, upstream, present, saved, commands>>

-----------------------------------------------------------------------------
(* project remove, project scan, the save *)

\* The clone stays in the cache.
Remove(p, id) ==
    /\ Load(p)
    /\ id \in Ids(registry)
    /\ job' = [job EXCEPT ![p] =
          [NoJob EXCEPT !.id = id, !.projects = {x \in registry : x.id # id}]]
    /\ Goto(p, "saving")
    /\ UNCHANGED <<registry, cache, upstream, present, saved>>

\* One project or all of them.
Scan(p, ids) ==
    /\ Load(p)
    /\ ids # {}
    /\ ids = Ids(registry) \/ \E id \in Ids(registry) : ids = {id}
    /\ job' = [job EXCEPT ![p] = [NoJob EXCEPT !.projects = registry, !.todo = ids]]
    /\ Goto(p, "scanning")
    /\ UNCHANGED <<registry, cache, upstream, present, saved>>

\* RepoRead::open asks only for a directory.
Readable(project) ==
    IF project.source \in Path THEN project.source \in present ELSE cache[project.id] # NoTree

\* A project whose tree cannot be read is a gap in the sweep, not its end.
ScanOne(p) ==
    /\ step[p] = "scanning"
    /\ \E x \in job[p].projects :
          /\ x.id \in job[p].todo
          /\ job' = [job EXCEPT ![p].todo = @ \ {x.id},
                ![p].projects = (@ \ {x}) \cup {[x EXCEPT !.scanned = @ \/ Readable(x)]}]
    /\ UNCHANGED <<registry, cache, upstream, present, step, saved, commands>>

EndScan(p) ==
    /\ step[p] = "scanning"
    /\ job[p].todo = {}
    /\ Goto(p, "saving")
    /\ UNCHANGED <<registry, cache, upstream, present, job, saved, commands>>

\* Workspace::save: fs::write truncates the file and then writes it.
Truncate(p) ==
    /\ step[p] = "saving"
    /\ registry' = Torn
    /\ Goto(p, "writing")
    /\ UNCHANGED <<cache, upstream, present, job, saved, commands>>

Write(p) ==
    /\ step[p] = "writing"
    /\ registry' = job[p].projects
    /\ saved' = job[p].projects
    /\ job' = [job EXCEPT ![p] = NoJob]
    /\ Goto(p, "idle")
    /\ UNCHANGED <<cache, upstream, present, commands>>

Kill(p) ==
    /\ p \in Mortal
    /\ step[p] # "idle"
    /\ job' = [job EXCEPT ![p] = NoJob]
    /\ Goto(p, "idle")
    /\ UNCHANGED <<registry, cache, upstream, present, saved, commands>>

-----------------------------------------------------------------------------
(* What happens around the commands *)

\* The fix the fault names: the operator moves the torn file aside.
MoveAside ==
    /\ registry = Torn
    /\ \A p \in Command : step[p] = "idle"
    /\ registry' = {}
    /\ saved' = {}
    /\ UNCHANGED <<cache, upstream, present, step, job, commands>>

Push(url) ==
    /\ upstream[url] < MaxRev
    /\ upstream' = [upstream EXCEPT ![url] = @ + 1]
    /\ UNCHANGED <<registry, cache, present, step, job, saved, commands>>

Vanish(path) ==
    /\ path \in present
    /\ present' = present \ {path}
    /\ UNCHANGED <<registry, cache, upstream, step, job, saved, commands>>

WorkspaceNext ==
    \/ \E p \in Command :
          \/ \E t \in Url \cup Path : Add(p, t)
          \/ DiscardSome(p) \/ DiscardOrphan(p)
          \/ BeginClone(p) \/ FinishClone(p) \/ FailClone(p) \/ Resolve(p)
          \/ \E id \in Id : Remove(p, id)
          \/ \E ids \in SUBSET Id : Scan(p, ids)
          \/ ScanOne(p) \/ EndScan(p)
          \/ Truncate(p) \/ Write(p)
          \/ Kill(p)
    \/ MoveAside
    \/ \E u \in Url : Push(u)
    \/ \E path \in Path : Vanish(path)

WorkspaceSpec == WorkspaceInit /\ [][WorkspaceNext]_workspaceVars

-----------------------------------------------------------------------------
(* Properties *)

\* The tree a project is pinned to: a whole clone of its repository, at the
\* commit the registry names.
Pinned(project) ==
    project.source \in Url =>
        cache[project.id] = [source |-> project.source, rev |-> project.rev, whole |-> TRUE]

\* "The scan of a git project is a scan of a named commit": the clone under the
\* id of every project on file, and of every one a scan still has to read, is
\* whole and at the commit recorded for it, and no two projects share an id,
\* whatever was removed, added again, killed half way or cloned in vain.
RegisteredTreeIsPinned ==
    /\ \A x \in saved : Pinned(x)
    /\ \A x, y \in saved : x.id = y.id => x = y
    /\ \A p \in Command : step[p] = "scanning" => \A x \in job[p].projects : Pinned(x)

=============================================================================
