------------------------------ MODULE BusProofs ------------------------------
(***************************************************************************)
(* Proofs about the commands beside the broker, for any sensors, profiles, *)
(* files, rules and packages, any number of processes at once, killed      *)
(* anywhere, and whatever anybody edits meanwhile.                         *)
(***************************************************************************)
EXTENDS Bus, Sums

-----------------------------------------------------------------------------
(* A harness never has a seed unless everything else is in place *)


Contents == {"absent", "copied", "declares", "written", "empty", "theirs"}

Stages == {"idle", "copy", "declare", "register", "create", "seed"}

DestType ==
    /\ dest \in [Paths -> Contents]
    /\ init \in [stage : Stages, todo : SUBSET Paths]

\* What has been copied so far stays copied.
CopyUnderWay ==
    init.stage = "copy" =>
        /\ Validates(template)
        /\ init.todo \subseteq Plan(template)
        /\ \A path \in Plan(template) \ init.todo : dest[path] = "copied"

\* From the key scan on, all of it is there and none of it is a key.
CopyDone ==
    init.stage \in {"declare", "register", "create", "seed"} =>
        /\ Validates(template)
        /\ \A path \in Plan(template) \ {"policy"} : dest[path] = "copied"
        /\ Plan(template) \cap template.leaks = {}

\* The policy is what the copy left there, then what declares the key.
PolicyFirst ==
    /\ init.stage = "declare" => dest["policy"] = "copied"
    /\ init.stage \in {"register", "create", "seed"} => dest["policy"] = "declares"

RegistrySecond == init.stage \in {"create", "seed"} => dest["actor-keys"] = "written"

\* No seed of the command's own stands before it creates one.
NoSeedYet ==
    /\ init.stage \in {"copy", "declare", "register", "create"} => dest["seed"] \notin {"empty", "written"}
    /\ init.stage = "seed" => dest["seed"] = "empty"

SeedInv == DestType /\ CopyUnderWay /\ CopyDone /\ PolicyFirst /\ RegistrySecond /\ NoSeedYet /\ SeedComesLast

-----------------------------------------------------------------------------
\* What is copied is never what generate_actor_key writes (template_init keeps
\* the generated paths out of the plan), and always has the policy.
LEMMA PlanIsCopied ==
    \A bundle :
        /\ Plan(bundle) \subseteq Paths \ Generated
        /\ "policy" \in Plan(bundle)
  BY DEF Plan, Required, Paths, Generated, Always, Exemptions, Packs, SensorFiles

LEMMA InitIsSafe == TemplateInit => SeedInv
  BY DEF TemplateInit, SeedInv, DestType, CopyUnderWay, CopyDone, PolicyFirst, RegistrySecond,
         NoSeedYet, SeedComesLast, Idle, Contents, Stages, Paths, Generated

\* A file somebody else puts down disturbs nothing of the command's: whatever
\* the invariant names at a path is there already.
LEMMA StrayIsHarmless ==
    ASSUME SeedInv, NEW path \in Paths, PutFile(path)
    PROVE  SeedInv'
<1> USE DEF SeedInv, PutFile
<1>1. DestType'
  BY DEF DestType, Contents
<1>2. "policy" \in Paths /\ "seed" \in Paths /\ "actor-keys" \in Paths
  BY DEF Paths, Always, Generated
<1>3. Plan(template) \subseteq Paths
  BY PlanIsCopied
<1>4. \A q \in Paths : dest[q] # "absent" => dest'[q] = dest[q]
  BY DEF DestType
<1>5. \A q \in Paths : dest'[q] # dest[q] => dest'[q] = "theirs"
  BY DEF DestType
<1>6. (Validates(template) <=> Validates(template)') /\ Plan(template)' = Plan(template)
  BY DEF Validates, Plan, Required
<1>7. CopyUnderWay'
  BY <1>3, <1>4, <1>6 DEF CopyUnderWay
<1>8. CopyDone'
  BY <1>3, <1>4, <1>6 DEF CopyDone
<1>9. PolicyFirst' /\ RegistrySecond' /\ NoSeedYet'
  BY <1>2, <1>4, <1>5 DEF PolicyFirst, RegistrySecond, NoSeedYet
<1>10. SeedComesLast'
  BY <1>2, <1>3, <1>4, <1>5, <1>6 DEF SeedComesLast
<1> QED
  BY <1>1, <1>7, <1>8, <1>9, <1>10

LEMMA StepKeepsSafe == SeedInv /\ [TemplateNext]_templateVars => SeedInv'
<1> SUFFICES ASSUME SeedInv, [TemplateNext]_templateVars PROVE SeedInv'
  OBVIOUS
<1>p. /\ Plan(template) \subseteq Paths \ Generated
      /\ "policy" \in Plan(template)
      /\ {"policy", "seed", "actor-keys"} \subseteq Paths
      /\ "seed" \in Generated /\ "actor-keys" \in Generated
  BY PlanIsCopied DEF Paths, Always, Generated
<1>t. template' = template =>
        /\ (Validates(template)' <=> Validates(template))
        /\ Plan(template)' = Plan(template)
  BY DEF Validates, Plan, Required
<1> USE DEF SeedInv
<1>1. CASE BeginInit
  <2>1. init' = [stage |-> "copy", todo |-> Plan(template)] /\ UNCHANGED <<template, dest>>
    BY <1>1 DEF BeginInit
  <2>2. Validates(template) /\ dest["seed"] = "absent"
    BY <1>1, <1>p DEF BeginInit
  <2>3. DestType'
    BY <2>1, <1>p DEF DestType, Stages
  <2> QED
    BY <2>1, <2>2, <2>3, <1>t
       DEF CopyUnderWay, CopyDone, PolicyFirst, RegistrySecond, NoSeedYet, SeedComesLast
<1>2. CASE \E path \in Paths : CopyFile(path)
  <2>1. PICK path \in Paths : CopyFile(path)
    BY <1>2
  <2>2. /\ init.stage = "copy" /\ path \in init.todo /\ template' = template
        /\ dest' = [dest EXCEPT ![path] = "copied"]
        /\ init' = [init EXCEPT !.todo = @ \ {path}]
    BY <2>1 DEF CopyFile
  <2>3. DestType' /\ init'.stage = "copy" /\ init'.todo = init.todo \ {path}
    BY <2>2 DEF DestType, Contents
  <2>4. path \in Plan(template) /\ path # "seed"
    BY <2>2, <1>p DEF CopyUnderWay
  <2>5. CopyUnderWay'
    BY <2>2, <2>3, <2>4, <1>p, <1>t DEF CopyUnderWay, DestType
  <2>6. dest'["seed"] = dest["seed"] /\ dest["seed"] \notin {"empty", "written"}
    BY <2>2, <2>4, <1>p DEF NoSeedYet, DestType
  <2> QED
    BY <2>3, <2>5, <2>6
       DEF CopyDone, PolicyFirst, RegistrySecond, NoSeedYet, SeedComesLast
<1>3. CASE \E path \in Paths : PutFile(path)
  BY <1>3, StrayIsHarmless
<1>4. CASE KeyScan
  <2>1. /\ init.stage = "copy" /\ init.todo = {} /\ UNCHANGED <<template, dest>>
        /\ init' = Idle \/ init' = [stage |-> "declare", todo |-> {}]
    BY <1>4 DEF KeyScan
  <2>2. DestType'
    BY <2>1 DEF DestType, Idle, Stages
  <2>3. Validates(template) /\ \A path \in Plan(template) : dest[path] = "copied"
    BY <2>1 DEF CopyUnderWay
  <2>4. init'.stage = "declare" => Plan(template) \cap template.leaks = {}
    BY <1>4, <2>3 DEF KeyScan, Idle
  <2> QED
    BY <2>1, <2>2, <2>3, <2>4, <1>p, <1>t
       DEF CopyUnderWay, CopyDone, PolicyFirst, RegistrySecond, NoSeedYet, SeedComesLast, Idle
<1>5. CASE DeclareKey
  <2>1. /\ init.stage = "declare" /\ template' = template
        /\ dest' = [dest EXCEPT !["policy"] = "declares"]
        /\ init' = [init EXCEPT !.stage = "register"]
    BY <1>5 DEF DeclareKey
  <2>2. DestType' /\ init'.stage = "register"
    BY <2>1 DEF DestType, Contents, Stages
  <2>3. dest'["policy"] = "declares" /\ \A q \in Paths \ {"policy"} : dest'[q] = dest[q]
    BY <2>1, <1>p DEF DestType
  <2> QED
    BY <2>1, <2>2, <2>3, <1>p, <1>t
       DEF CopyUnderWay, CopyDone, PolicyFirst, RegistrySecond, NoSeedYet, SeedComesLast
<1>6. CASE RegisterKey
  <2>1. /\ init.stage = "register" /\ template' = template
        /\ dest' = [dest EXCEPT !["actor-keys"] = "written"]
        /\ init' = [init EXCEPT !.stage = "create"]
    BY <1>6 DEF RegisterKey
  <2>2. DestType' /\ init'.stage = "create"
    BY <2>1 DEF DestType, Contents, Stages
  <2>3. dest'["actor-keys"] = "written" /\ \A q \in Paths \ {"actor-keys"} : dest'[q] = dest[q]
    BY <2>1, <1>p DEF DestType
  <2> QED
    BY <2>1, <2>2, <2>3, <1>p, <1>t
       DEF CopyUnderWay, CopyDone, PolicyFirst, RegistrySecond, NoSeedYet, SeedComesLast
<1>7. CASE CreateSeed
  <2>1. init.stage = "create" /\ template' = template
    BY <1>7 DEF CreateSeed
  <2>2. CASE dest["seed"] = "absent"
    <3>1. dest' = [dest EXCEPT !["seed"] = "empty"] /\ init' = [init EXCEPT !.stage = "seed"]
      BY <1>7, <2>2 DEF CreateSeed
    <3>2. DestType' /\ init'.stage = "seed"
      BY <3>1 DEF DestType, Contents, Stages
    <3>3. dest'["seed"] = "empty" /\ \A q \in Paths \ {"seed"} : dest'[q] = dest[q]
      BY <3>1, <1>p DEF DestType
    <3> QED
      BY <2>1, <3>2, <3>3, <1>p, <1>t
         DEF CopyUnderWay, CopyDone, PolicyFirst, RegistrySecond, NoSeedYet, SeedComesLast
  <2>3. CASE dest["seed"] # "absent"
    <3>1. dest' = dest /\ init' = Idle
      BY <1>7, <2>3 DEF CreateSeed
    <3>2. DestType'
      BY <3>1 DEF DestType, Idle, Stages
    <3> QED
      BY <2>1, <3>1, <3>2, <1>t
         DEF CopyUnderWay, CopyDone, PolicyFirst, RegistrySecond, NoSeedYet, SeedComesLast, Idle
  <2> QED
    BY <2>2, <2>3
<1>8. CASE WriteSeed
  <2>1. /\ init.stage = "seed" /\ template' = template
        /\ dest' = [dest EXCEPT !["seed"] = "written"]
        /\ init' = Idle
    BY <1>8 DEF WriteSeed
  <2>2. DestType'
    BY <2>1 DEF DestType, Idle, Contents, Stages
  <2>3. \A q \in Paths \ {"seed"} : dest'[q] = dest[q]
    BY <2>1 DEF DestType
  <2> QED
    BY <2>1, <2>2, <2>3, <1>p, <1>t
       DEF CopyUnderWay, CopyDone, PolicyFirst, RegistrySecond, NoSeedYet, SeedComesLast, Idle
<1>9. CASE KillInit
  <2>1. init' = Idle /\ UNCHANGED <<template, dest>>
    BY <1>9 DEF KillInit
  <2>2. DestType'
    BY <2>1 DEF DestType, Idle, Stages
  <2> QED
    BY <2>1, <2>2, <1>t
       DEF CopyUnderWay, CopyDone, PolicyFirst, RegistrySecond, NoSeedYet, SeedComesLast, Idle
<1>10. CASE ClearDest
  <2>1. /\ init.stage = "idle" /\ dest' = [path \in Paths |-> "absent"]
        /\ UNCHANGED <<template, init>>
    BY <1>10 DEF ClearDest
  <2>2. DestType' /\ dest'["seed"] = "absent"
    BY <2>1, <1>p DEF DestType, Contents
  <2> QED
    BY <2>1, <2>2, <1>t
       DEF CopyUnderWay, CopyDone, PolicyFirst, RegistrySecond, NoSeedYet, SeedComesLast
<1>11. CASE UNCHANGED templateVars
  BY <1>11, <1>t DEF templateVars, DestType, CopyUnderWay, CopyDone, PolicyFirst, RegistrySecond,
                     NoSeedYet, SeedComesLast
<1> QED
  BY <1>1, <1>2, <1>3, <1>4, <1>5, <1>6, <1>7, <1>8, <1>9, <1>10, <1>11 DEF TemplateNext

-----------------------------------------------------------------------------
\* For any bundles and any stray files: the seed, whose presence lets a harness
\* sign, comes after everything that harness needs (template_init,
\* generate_actor_key).
THEOREM SeedIsWrittenLast == Spec => []SeedComesLast
<1>1. Init => SeedInv
  BY InitIsSafe DEF Init
<1>2. [Next]_vars => [TemplateNext]_templateVars
  BY DEF Next, vars, SensorStep, GatewayStep, DriftStep, ProfileStep, ScorerStep, GraphStep,
         SkillStep, TemplateStep, ExpireStep
<1>3. SeedInv /\ [TemplateNext]_templateVars => SeedInv'
  BY StepKeepsSafe
<1>4. SeedInv => SeedComesLast
  BY DEF SeedInv
<1> QED
  BY <1>1, <1>2, <1>3, <1>4, PTL DEF Spec

-----------------------------------------------------------------------------
(* An answer of the graph is current *)

FileState == Words \cup {Null}

QueryType == [symbol : (UNION Words) \cup {Null}, todo : SUBSET File, hits : SUBSET File,
              stale : SUBSET File]

GraphType ==
    /\ files \in [File -> FileState]
    /\ seen \in [File -> SUBSET FileState]
    /\ graph # Null => DOMAIN graph \subseteq File
    /\ query \in QueryType

\* What a query has seen of a file includes what the file holds now, and a file
\* still to be visited is no hit.
GraphInv ==
    /\ GraphType
    /\ Querying => /\ \A f \in File : files[f] \in seen[f]
                   /\ query.hits \cap query.todo = {}
    /\ HitsAreCurrent

LEMMA InitGraph == Init => GraphInv
<1> SUFFICES ASSUME Init PROVE GraphInv
  OBVIOUS
<1>1. /\ files \in [File -> Words] /\ graph = Null /\ query = NoQuery
      /\ seen = [f \in File |-> {}]
  BY DEF Init, GraphInit
<1> QED
  BY <1>1 DEF GraphInv, GraphType, FileState, QueryType, NoQuery, Querying, HitsAreCurrent

LEMMA StartKeepsGraph ==
    ASSUME GraphInv, NEW symbol \in UNION Words, StartQuery(symbol)
    PROVE  GraphInv'
<1>1. /\ ~Querying /\ graph # Null /\ files' = files /\ graph' = graph
      /\ query' = [symbol |-> symbol, todo |-> DOMAIN graph, hits |-> {}, stale |-> {}]
      /\ seen' = [f \in File |-> {files[f]}]
  BY DEF StartQuery
<1>2. GraphType'
  BY <1>1 DEF GraphInv, GraphType, FileState, QueryType
<1>3. \A f \in File : files'[f] \in seen'[f]
  BY <1>1
<1>4. query'.hits = {} /\ query'.todo = DOMAIN graph'
  BY <1>1
<1> QED
  BY <1>2, <1>3, <1>4 DEF GraphInv, HitsAreCurrent

LEMMA VisitKeepsGraph ==
    ASSUME GraphInv, NEW f \in File, Visit(f)
    PROVE  GraphInv'
<1> DEFINE indexed == query.symbol \in SymbolsIn(graph[f])
           moved   == files[f] # Null /\ files[f] # graph[f]
           hit     == IF moved THEN query.symbol \in files[f] ELSE indexed
<1>1. /\ f \in query.todo /\ files' = files /\ graph' = graph /\ seen' = seen
      /\ query' = [query EXCEPT !.todo = @ \ {f},
                                !.hits = IF hit THEN @ \cup {f} ELSE @,
                                !.stale = IF moved THEN @ \cup {f} ELSE @]
  BY DEF Visit
<1>2. hit <=> IF moved THEN query.symbol \in files[f] ELSE query.symbol \in graph[f] \cap Long
  BY DEF SymbolsIn
<1>3. moved <=> files[f] # Null /\ files[f] # graph[f]
  OBVIOUS
<1> HIDE DEF hit, moved, indexed
<1>4. query \in QueryType
  BY DEF GraphInv, GraphType
<1>5. /\ query'.symbol = query.symbol /\ query'.todo = query.todo \ {f}
      /\ query'.hits = IF hit THEN query.hits \cup {f} ELSE query.hits
      /\ query' \in QueryType
  <2>1. /\ query.todo \ {f} \in SUBSET File
        /\ (IF hit THEN query.hits \cup {f} ELSE query.hits) \in SUBSET File
        /\ (IF moved THEN query.stale \cup {f} ELSE query.stale) \in SUBSET File
    BY <1>4 DEF QueryType
  <2> QED
    BY <1>1, <1>4, <2>1 DEF QueryType
<1>6. GraphType'
  BY <1>1, <1>5 DEF GraphInv, GraphType
<1>7. Querying' <=> Querying
  BY <1>5 DEF Querying
<1>8. Querying' => /\ \A g \in File : files'[g] \in seen'[g]
                   /\ query'.hits \cap query'.todo = {}
  BY <1>1, <1>5, <1>7 DEF GraphInv
<1>9. HitsAreCurrent'
  <2> SUFFICES ASSUME NEW g \in File, Querying, query.symbol \in Long,
                      g \in DOMAIN graph \ (query.todo \ {f}), Null \notin seen[g]
               PROVE  /\ g \in query'.hits => \E words \in seen[g] : query.symbol \in words
                      /\ g \notin query'.hits => \E words \in seen[g] : query.symbol \notin words
    BY <1>1, <1>5, <1>7 DEF HitsAreCurrent
  <2>1. CASE g # f
    <3>1. g \in query'.hits <=> g \in query.hits
      BY <1>5, <2>1
    <3> QED
      BY <2>1, <3>1 DEF GraphInv, HitsAreCurrent
  <2>2. CASE g = f
    <3>1. files[f] \in seen[f] /\ f \notin query.hits
      BY <1>1 DEF GraphInv
    <3>2. f \in query'.hits <=> hit
      BY <1>5, <3>1
    <3>3. files[f] # Null
      BY <2>2, <3>1
    <3>4. hit <=> query.symbol \in files[f]
      BY <1>2, <1>3, <3>3
    <3> QED
      BY <2>2, <3>1, <3>2, <3>4
  <2> QED
    BY <2>1, <2>2
<1> QED
  BY <1>6, <1>8, <1>9 DEF GraphInv

LEMMA WriteKeepsGraph ==
    ASSUME GraphInv, NEW f \in File, NEW words \in Words \cup {Null}, Write(f, words)
    PROVE  GraphInv'
<1>1. /\ graph' = graph /\ query' = query /\ files' = [files EXCEPT ![f] = words]
      /\ seen' = IF Querying THEN [seen EXCEPT ![f] = @ \cup {words}] ELSE seen
  BY DEF Write
<1>2. files \in [File -> FileState] /\ seen \in [File -> SUBSET FileState] /\ words \in FileState
  BY DEF GraphInv, GraphType, FileState
<1>3. \A g \in File : seen[g] \subseteq seen'[g]
  BY <1>1, <1>2
<1>4. Querying => \A g \in File : files'[g] \in seen'[g]
  BY <1>1, <1>2 DEF GraphInv
<1>5. files' \in [File -> FileState] /\ seen' \in [File -> SUBSET FileState]
  BY <1>1, <1>2
<1>6. GraphType' /\ (Querying' <=> Querying)
  BY <1>1, <1>5 DEF GraphInv, GraphType, Querying
<1>7. HitsAreCurrent'
  <2> SUFFICES ASSUME NEW g \in File, Querying, query.symbol \in Long,
                      g \in DOMAIN graph \ query.todo, Null \notin seen'[g]
               PROVE  /\ g \in query.hits => \E w \in seen'[g] : query.symbol \in w
                      /\ g \notin query.hits => \E w \in seen'[g] : query.symbol \notin w
    BY <1>1, <1>6 DEF HitsAreCurrent
  <2>1. Null \notin seen[g]
    BY <1>3
  <2> QED
    BY <1>3, <2>1 DEF GraphInv, HitsAreCurrent
<1> QED
  BY <1>1, <1>4, <1>6, <1>7 DEF GraphInv

\* An index is built, or torn, only between queries.
LEMMA IndexKeepsGraph ==
    ASSUME GraphInv, ~Querying, UNCHANGED <<files, query, seen>>,
           graph' # Null => DOMAIN graph' \subseteq File
    PROVE  GraphInv'
  BY DEF GraphInv, GraphType, Querying, HitsAreCurrent

LEMMA StepKeepsGraph == GraphInv /\ [Next]_vars => GraphInv'
<1> SUFFICES ASSUME GraphInv, [Next]_vars PROVE GraphInv'
  OBVIOUS
<1>1. CASE GraphStep
  <2>1. CASE GraphTorn /\ ~Querying
    BY <2>1, IndexKeepsGraph DEF GraphTorn
  <2>2. ASSUME NEW paths \in SUBSET File, GraphBuild(paths), ~Querying PROVE GraphInv'
    BY <2>2, IndexKeepsGraph DEF GraphBuild
  <2>3. CASE FinishQuery
    <3>1. /\ query' = NoQuery /\ seen' = [f \in File |-> {}] /\ files' = files /\ graph' = graph
      BY <2>3 DEF FinishQuery
    <3>2. seen' \in [File -> SUBSET FileState] /\ query' \in QueryType /\ ~Querying'
      BY <3>1 DEF NoQuery, QueryType, Querying
    <3> QED
      BY <3>1, <3>2 DEF GraphInv, GraphType, HitsAreCurrent
  <2> QED
    BY <1>1, <2>1, <2>2, <2>3, StartKeepsGraph, VisitKeepsGraph, WriteKeepsGraph
       DEF GraphStep, GraphNext
<1>2. CASE UNCHANGED graphVars
  BY <1>2 DEF graphVars, GraphInv, GraphType, Querying, HitsAreCurrent
<1> QED
  BY <1>1, <1>2 DEF Next, vars, SensorStep, GatewayStep, DriftStep, ProfileStep, ScorerStep,
                    SkillStep, TemplateStep, ExpireStep

\* However often the indexed files are written, deleted and written back before
\* and during a query, the answer it builds is of the files as they were while
\* it ran (Graph::query).
THEOREM AnswersAreCurrent == Spec => []HitsAreCurrent
<1>1. GraphInv => HitsAreCurrent
  BY DEF GraphInv
<1> QED
  BY <1>1, InitGraph, StepKeepsGraph, PTL DEF Spec

-----------------------------------------------------------------------------
(* How the log grows *)

IsLog(s) == s \in Seq({s[i] : i \in DOMAIN s})

Grows(t, s) ==
    /\ IsLog(t)
    /\ Len(s) \in Nat /\ DOMAIN s = 1..Len(s)
    /\ Len(t) \in Nat /\ DOMAIN t = 1..Len(t)
    /\ Len(s) <= Len(t)
    /\ \A i \in DOMAIN s : t[i] = s[i]

\* The log grew by events of these kinds and no others.
GrewBy(kinds) ==
    /\ Grows(log', log)
    /\ \A i \in DOMAIN log' \ DOMAIN log : log'[i].kind \in kinds

LEMMA GrowsItself ==
    ASSUME NEW s, IsLog(s)
    PROVE  Grows(s, s)
  BY DEF IsLog, Grows

LEMMA AppendGrows ==
    ASSUME NEW s, IsLog(s), NEW e
    PROVE  /\ Grows(Append(s, e), s)
           /\ Len(Append(s, e)) = Len(s) + 1
           /\ Append(s, e)[Len(s) + 1] = e
<1>0. PICK t : t = Append(s, e)
  OBVIOUS
<1> DEFINE S == {s[i] : i \in DOMAIN s}
           T == S \cup {e}
<1>1. s \in Seq(S)
  BY DEF IsLog
<1>2. s \in Seq(T) /\ e \in T
  BY <1>1
<1> HIDE DEF S, T
<1>3. /\ t \in Seq(T) /\ Len(s) \in Nat /\ Len(t) = Len(s) + 1
      /\ DOMAIN s = 1..Len(s) /\ DOMAIN t = 1..(Len(s) + 1)
      /\ \A i \in 1..Len(s) : t[i] = s[i]
      /\ t[Len(s) + 1] = e
  BY <1>0, <1>2
<1>4. IsLog(t)
  <2>1. t \in Seq({t[i] : i \in DOMAIN t})
    BY <1>3
  <2> QED
    BY <2>1 DEF IsLog
<1>5. Grows(t, s)
  BY <1>3, <1>4 DEF Grows
<1> QED
  BY <1>0, <1>3, <1>5

LEMMA ConcatGrows ==
    ASSUME NEW s, IsLog(s), NEW r, IsLog(r)
    PROVE  /\ Grows(s \o r, s)
           /\ \A i \in DOMAIN (s \o r) \ DOMAIN s : \E j \in DOMAIN r : (s \o r)[i] = r[j]
<1>0. PICK t : t = s \o r
  OBVIOUS
<1> DEFINE T == {s[i] : i \in DOMAIN s} \cup {r[i] : i \in DOMAIN r}
<1>1. s \in Seq(T) /\ r \in Seq(T)
  BY DEF IsLog
<1> HIDE DEF T
<1>2. /\ t \in Seq(T) /\ Len(s) \in Nat /\ Len(r) \in Nat /\ Len(t) = Len(s) + Len(r)
      /\ DOMAIN s = 1..Len(s) /\ DOMAIN r = 1..Len(r) /\ DOMAIN t = 1..(Len(s) + Len(r))
      /\ \A i \in 1..(Len(s) + Len(r)) : t[i] = IF i <= Len(s) THEN s[i] ELSE r[i - Len(s)]
  BY <1>0, <1>1
<1>3. IsLog(t)
  <2>1. t \in Seq({t[i] : i \in DOMAIN t})
    BY <1>2
  <2> QED
    BY <2>1 DEF IsLog
<1>4. Grows(t, s)
  BY <1>2, <1>3 DEF Grows
<1>5. ASSUME NEW i \in DOMAIN t \ DOMAIN s
      PROVE  \E j \in DOMAIN r : t[i] = r[j]
  <2>1. i - Len(s) \in DOMAIN r /\ t[i] = r[i - Len(s)]
    BY <1>2
  <2> QED
    BY <2>1
<1> QED
  BY <1>0, <1>4, <1>5

LEMMA AppendGrowsBy ==
    ASSUME IsLog(log), NEW id, NEW n, NEW kind, NEW body,
           log' = Append(log, Stamped(id, n, kind, body))
    PROVE  GrewBy({kind})
<1> DEFINE e == Stamped(id, n, kind, body)
<1>1. e.kind = kind
  BY DEF Stamped
<1> HIDE DEF e
<1>2. /\ Grows(log', log) /\ Len(log') = Len(log) + 1 /\ log'[Len(log) + 1] = e
  BY AppendGrows DEF e
<1>3. \A i \in DOMAIN log' \ DOMAIN log : i = Len(log) + 1
  BY <1>2 DEF Grows
<1> QED
  BY <1>1, <1>2, <1>3 DEF GrewBy

LEMMA EmitGrows ==
    ASSUME IsLog(log), NEW p, NEW kind, NEW body,
           Emit(p, kind, body) \/ Depart(p, kind, body) \/ Record(kind, body)
    PROVE  GrewBy({kind})
  BY AppendGrowsBy DEF Emit, Depart, Record

LEMMA OpenGrows ==
    ASSUME IsLog(log), NEW p, NEW S, NEW kinds \in Seq(S), NEW body, OpenRun(p, kinds, body)
    PROVE  GrewBy(S)
<1> DEFINE first == [i \in DOMAIN kinds |-> Stamped(clock', i - 1, kinds[i], body)]
<1>1. log' = log \o first
  BY DEF OpenRun
<1>2. IsLog(first)
  <2>1. DOMAIN kinds = 1..Len(kinds) /\ Len(kinds) \in Nat
    OBVIOUS
  <2>2. first \in Seq({first[i] : i \in DOMAIN first})
    BY <2>1
  <2> QED
    BY <2>2 DEF IsLog
<1>3. \A i \in DOMAIN first : first[i].kind \in S
  BY DEF Stamped
<1> HIDE DEF first
<1>4. /\ Grows(log', log)
      /\ \A i \in DOMAIN log' \ DOMAIN log : \E j \in DOMAIN first : log'[i] = first[j]
  BY <1>1, <1>2, ConcatGrows
<1> QED
  BY <1>3, <1>4 DEF GrewBy

LEMMA StaysGrows ==
    ASSUME IsLog(log), log' = log
    PROVE  GrewBy({})
<1>1. Grows(log', log)
  BY GrowsItself
<1> QED
  BY <1>1 DEF GrewBy

LEMMA GrowsByMore ==
    ASSUME NEW few, NEW many, GrewBy(few), few \subseteq many
    PROVE  GrewBy(many)
  BY DEF GrewBy

LEMMA SensorGrows == IsLog(log) /\ SensorNext => GrewBy({"run.open", "sensor.verdict", "run.seal"})
<1> SUFFICES ASSUME IsLog(log), SensorNext PROVE GrewBy({"run.open", "sensor.verdict", "run.seal"})
  OBVIOUS
<1>1. CASE log' = log
  BY <1>1, StaysGrows, GrowsByMore
<1>2. ASSUME NEW p \in SensorRuns, NEW sensor, NEW repairs, OpenSensorRun(p, sensor, repairs)
      PROVE  GrewBy({"run.open"})
  <2>1. PICK body : OpenRun(p, <<"run.open">>, body)
    BY <1>2 DEF OpenSensorRun
  <2>2. <<"run.open">> \in Seq({"run.open"})
    OBVIOUS
  <2> QED
    BY <2>1, <2>2, OpenGrows
<1>3. ASSUME NEW p \in SensorRuns, Gate(p)
      PROVE  GrewBy({"sensor.verdict"})
  BY <1>3, EmitGrows DEF Gate
<1>4. ASSUME NEW p \in SensorRuns, SealSensorRun(p)
      PROVE  GrewBy({"run.seal"})
  BY <1>4, EmitGrows DEF SealSensorRun
<1>5. ASSUME NEW p \in SensorRuns,
             FailSensorRun(p) \/ KillSensorRun(p) \/ \E answer \in Text : RepairArtifact(p, answer)
      PROVE  log' = log
  BY <1>5 DEF FailSensorRun, KillSensorRun, RepairArtifact, Die, Exit, logVars
<1>6. ASSUME NEW text, Edit(text) PROVE log' = log
  BY <1>6 DEF Edit, logVars
<1> QED
  BY <1>1, <1>2, <1>3, <1>4, <1>5, <1>6, GrowsByMore DEF SensorNext

LEMMA GatewayGrows == IsLog(log) /\ GatewayNext => GrewBy({"run.open", "model.call", "run.seal"})
<1> SUFFICES ASSUME IsLog(log), NEW p \in GatewayRuns,
                    \/ OpenGatewayRun(p)
                    \/ \E tokens \in Usage : CallModel(p, tokens)
                    \/ FailModel(p)
                    \/ KeyUnset(p)
                    \/ SealGatewayRun(p)
                    \/ KillGatewayRun(p)
             PROVE  GrewBy({"run.open", "model.call", "run.seal"})
  BY DEF GatewayNext
<1>1. CASE OpenGatewayRun(p)
  <2>1. PICK body : OpenRun(p, <<"run.open">>, body)
    BY <1>1 DEF OpenGatewayRun
  <2>2. <<"run.open">> \in Seq({"run.open"})
    OBVIOUS
  <2>3. GrewBy({"run.open"})
    BY <2>1, <2>2, OpenGrows
  <2> QED
    BY <2>3, GrowsByMore
<1>2. CASE FailModel(p) \/ \E tokens \in Usage : CallModel(p, tokens)
  <2>1. GrewBy({"model.call"})
    BY <1>2, EmitGrows DEF CallModel, FailModel
  <2> QED
    BY <2>1, GrowsByMore
<1>3. CASE SealGatewayRun(p)
  <2>1. GrewBy({"run.seal"})
    BY <1>3, EmitGrows DEF SealGatewayRun
  <2> QED
    BY <2>1, GrowsByMore
<1>4. CASE KeyUnset(p) \/ KillGatewayRun(p)
  BY <1>4, StaysGrows, GrowsByMore DEF KeyUnset, KillGatewayRun, Die, Exit
<1> QED
  BY <1>1, <1>2, <1>3, <1>4

LEMMA DriftGrows == IsLog(log) /\ DriftNext => GrewBy({"drift.report", "run.seal"})
<1> SUFFICES ASSUME IsLog(log), DriftNext PROVE GrewBy({"drift.report", "run.seal"})
  OBVIOUS
<1>1. ASSUME NEW p \in DriftRuns, OpenDrift(p) PROVE GrewBy({})
  <2>1. <<>> \in Seq({})
    OBVIOUS
  <2>2. OpenRun(p, <<>>, <<>>)
    BY <1>1 DEF OpenDrift
  <2> QED
    BY <2>1, <2>2, OpenGrows
<1>2. ASSUME NEW p \in DriftRuns, AppendReport(p) PROVE GrewBy({"drift.report"})
  BY <1>2, EmitGrows DEF AppendReport
<1>3. ASSUME NEW p \in DriftRuns, SealDrift(p) PROVE GrewBy({"run.seal"})
  BY <1>3, EmitGrows DEF SealDrift
<1>4. ASSUME NEW p \in DriftRuns, KillDrift(p) PROVE GrewBy({})
  BY <1>4, StaysGrows DEF KillDrift, Die, Exit
<1>5. ASSUME NEW p, NEW s, MoveFiles(p, s) PROVE GrewBy({})
  BY <1>5, StaysGrows DEF MoveFiles, logVars
<1> QED
  BY <1>1, <1>2, <1>3, <1>4, <1>5, GrowsByMore DEF DriftNext

LEMMA ScorerGrows == IsLog(log) /\ ScorerNext => GrewBy({"score.snapshot"})
  BY EmitGrows, StaysGrows, GrowsByMore DEF ScorerNext, ScoreLedger, RecordScore, LoseScore, logVars

LEMMA GraphGrows == IsLog(log) /\ GraphNext => GrewBy({"graph.query"})
<1> SUFFICES ASSUME IsLog(log), GraphNext PROVE GrewBy({"graph.query"})
  OBVIOUS
<1>1. CASE FinishQuery
  BY <1>1, EmitGrows DEF FinishQuery
<1>2. CASE log' = log
  BY <1>2, StaysGrows, GrowsByMore
<1> QED
  BY <1>1, <1>2 DEF GraphNext, GraphTorn, GraphBuild, StartQuery, Visit, Write, logVars

LEMMA SkillGrows ==
    IsLog(log) /\ SkillNext =>
        GrewBy({"skill.resolve", "run.open", "subagent.spawn", "tool.result", "run.seal"})
<1> DEFINE kinds == {"skill.resolve", "run.open", "subagent.spawn", "tool.result", "run.seal"}
<1> SUFFICES ASSUME IsLog(log), SkillNext PROVE GrewBy(kinds)
  OBVIOUS
<1>1. ASSUME NEW extra, SkillResolve(extra) PROVE GrewBy({"skill.resolve"})
  BY <1>1, EmitGrows DEF SkillResolve
<1>2. ASSUME NEW p, NEW parent, BeginSkill(p, parent) PROVE GrewBy({"skill.resolve"})
  BY <1>2, EmitGrows DEF BeginSkill
<1>3. ASSUME NEW p, OpenSkillRun(p) PROVE GrewBy(kinds)
  <2> DEFINE first == <<"run.open", "subagent.spawn">>
  <2>1. PICK body : OpenRun(p, first, body)
    BY <1>3 DEF OpenSkillRun
  <2>2. first \in Seq(kinds)
    OBVIOUS
  <2> HIDE DEF first, kinds
  <2> QED
    BY <2>1, <2>2, OpenGrows
<1>4. ASSUME NEW p, ReadStep(p) PROVE GrewBy({"tool.result"})
  BY <1>4, EmitGrows DEF ReadStep
<1>5. ASSUME NEW p, SealSkillRun(p) PROVE GrewBy({"run.seal"})
  BY <1>5, EmitGrows DEF SealSkillRun
<1>6. ASSUME NEW p, KillSkillRun(p) PROVE GrewBy({})
  BY <1>6, StaysGrows DEF KillSkillRun
<1>7. ASSUME \/ \E key \in Keys : SkillSign(key)
             \/ \E manifest \in Manifests, keep \in BOOLEAN, present \in SUBSET Step :
                   EditPackage(manifest, keep, present)
             \/ \E keys \in SUBSET Keys, sound \in BOOLEAN : EditRegistry(keys, sound)
      PROVE  GrewBy({})
  BY <1>7, StaysGrows DEF SkillSign, EditPackage, EditRegistry, logVars
<1> HIDE DEF kinds
<1>8. {"skill.resolve"} \subseteq kinds /\ {"tool.result"} \subseteq kinds /\ {"run.seal"} \subseteq kinds
  BY DEF kinds
<1> QED
  BY <1>1, <1>2, <1>3, <1>4, <1>5, <1>6, <1>7, <1>8, GrowsByMore DEF SkillNext

LEMMA ExpireGrows ==
    IsLog(log) /\ (\E i \in DOMAIN log : Expire(i)) => GrewBy({"retention.expire"})
  BY AppendGrowsBy DEF Expire

\* The log only grows, and events of a kind come from the command of that kind.
LEMMA StepGrows ==
    ASSUME IsLog(log), [Next]_vars
    PROVE  /\ Grows(log', log)
           /\ \A i \in DOMAIN log' \ DOMAIN log :
                 /\ log'[i].kind \in {"skill.resolve", "subagent.spawn"} => SkillStep
                 /\ log'[i].kind = "drift.report" => DriftStep
                 /\ log'[i].kind = "score.snapshot" => ScorerStep
                 /\ log'[i].kind = "retention.expire" => ExpireStep
<1>1. CASE SensorStep
  BY <1>1, SensorGrows DEF SensorStep, GrewBy
<1>2. CASE GatewayStep
  BY <1>2, GatewayGrows DEF GatewayStep, GrewBy
<1>3. CASE DriftStep
  BY <1>3, DriftGrows DEF DriftStep, GrewBy
<1>4. CASE ScorerStep
  BY <1>4, ScorerGrows DEF ScorerStep, GrewBy
<1>5. CASE GraphStep
  BY <1>5, GraphGrows DEF GraphStep, GrewBy
<1>6. CASE SkillStep
  BY <1>6, SkillGrows DEF SkillStep, GrewBy
<1>7. CASE ExpireStep
  BY <1>7, ExpireGrows DEF ExpireStep, GrewBy
<1>8. CASE ProfileStep \/ TemplateStep \/ UNCHANGED vars
  <2>1. log' = log
    BY <1>8 DEF ProfileStep, ProfileNext, MachineChanges, TemplateStep, vars, logVars
  <2> QED
    BY <2>1, StaysGrows DEF GrewBy
<1> QED
  BY <1>1, <1>2, <1>3, <1>4, <1>5, <1>6, <1>7, <1>8 DEF Next

-----------------------------------------------------------------------------
(* A skill is what was signed, and holds what it was granted *)

IsPackage(x) == x = [manifest |-> x.manifest, signature |-> x.signature, present |-> x.present]

IsSignature(x) == x = [key |-> x.key, of |-> x.of]

IsTask(x) ==
    x = [stage |-> x.stage, steps |-> x.steps, granted |-> x.granted, failures |-> x.failures]

\* A grant is the scope of a manifest that resolved, and a parent held it.
Granted(granted, s) ==
    /\ \E parent \in Parent : granted \subseteq parent
    /\ \E r \in OfKind(s, "skill.resolve") :
          /\ s[r].body.verdict = "resolved"
          /\ s[r].body.manifest.scope = granted

\* Whatever signature the package carries, the holder of its key made; and what
\* a run is about to be given is on the record.
SkillInv ==
    /\ IsLog(log)
    /\ IsPackage(package)
    /\ package.signature # Null => IsSignature(package.signature) /\ package.signature \in signings
    /\ DOMAIN task = SkillRuns /\ task = [p \in SkillRuns |-> task[p]]
    /\ \A p \in SkillRuns : IsTask(task[p]) /\ (task[p].stage = "open" => Granted(task[p].granted, log))

\* What a step may put on the log.
SignedStep ==
    \A i \in DOMAIN log' \ DOMAIN log :
        LET event == log'[i]
            state == event.body.signature
        IN  /\ event.kind = "skill.resolve" /\ event.body.verdict = "resolved" =>
                  IF package.signature = Null THEN state = "unsigned"
                  ELSE [key |-> state, of |-> event.body.manifest] \in signings
            /\ event.kind = "subagent.spawn" =>
                  /\ \E parent \in Parent : event.body.granted \subseteq parent
                  /\ \E r \in OfKind(log, "skill.resolve") :
                        /\ log[r].body.verdict = "resolved"
                        /\ log[r].body.manifest.scope = event.body.granted

LEMMA InitSkill == Init => SkillInv
<1> SUFFICES ASSUME Init PROVE SkillInv
  OBVIOUS
<1>1. /\ log = Recorded /\ signings = {} /\ task = [p \in SkillRuns |-> NoTask]
      /\ package \in [manifest : Manifests, signature : {Null}, present : {Step}]
  BY DEF Init, LogInit, SkillInit
<1>2. IsLog(log)
  BY <1>1, BusAssumption DEF IsLog
<1>3. IsPackage(package) /\ package.signature = Null
  BY <1>1 DEF IsPackage
<1>4. IsTask(NoTask) /\ NoTask.stage # "open"
  BY DEF IsTask, NoTask
<1> QED
  BY <1>1, <1>2, <1>3, <1>4 DEF SkillInv

LEMMA GrantStays ==
    ASSUME NEW s, NEW t, Grows(t, s), NEW granted, Granted(granted, s)
    PROVE  Granted(granted, t)
<1>1. \A i \in DOMAIN s : i \in DOMAIN t /\ t[i] = s[i]
  BY DEF Grows
<1> QED
  BY <1>1 DEF Granted, OfKind

\* Commands that leave skills alone keep what is so of them.
LEMMA OtherStepsKeepSkill ==
    ASSUME SkillInv, Grows(log', log), UNCHANGED skillVars
    PROVE  SkillInv'
<1>1. package' = package /\ signings' = signings /\ task' = task
  BY DEF skillVars
<1>2. IsLog(log')
  BY DEF Grows
<1> QED
  BY <1>1, <1>2, GrantStays DEF SkillInv

\* A package that resolves resolves as signed.
LEMMA ResolvedAsSigned ==
    ASSUME SkillInv, NEW keys, Resolved(keys).verdict = "resolved"
    PROVE  /\ Resolved(keys).manifest = package.manifest
           /\ IF package.signature = Null THEN Resolved(keys).signature = "unsigned"
              ELSE [key |-> Resolved(keys).signature, of |-> package.manifest] \in signings
<1> DEFINE state == SignatureState(keys)
<1>1. state # "refused" /\ Resolved(keys) = [verdict |-> "resolved", signature |-> state,
                                             manifest |-> package.manifest]
  BY DEF Resolved
<1>2. IF package.signature = Null THEN state = "unsigned"
      ELSE state = package.signature.key /\ package.signature.of = package.manifest
  BY <1>1 DEF SignatureState
<1>3. package.signature # Null =>
          package.signature = [key |-> package.signature.key, of |-> package.signature.of]
          /\ package.signature \in signings
  BY DEF SkillInv, IsSignature
<1> HIDE DEF state
<1> QED
  BY <1>1, <1>2, <1>3

\* What a resolution leaves on the log.
LEMMA ResolveRecords ==
    ASSUME SkillInv, NEW keys, Record("skill.resolve", Resolved(keys))
    PROVE  /\ SignedStep
           /\ Grows(log', log)
           /\ Resolved(keys).verdict = "resolved" =>
                 \E r \in OfKind(log', "skill.resolve") :
                     /\ log'[r].body.verdict = "resolved"
                     /\ log'[r].body.manifest.scope = Resolved(keys).manifest.scope
<1> DEFINE e == Stamped(NoRun, 0, "skill.resolve", Resolved(keys))
<1>1. e.kind = "skill.resolve" /\ e.body = Resolved(keys)
  BY DEF Stamped
<1>2. log' = Append(log, e)
  BY DEF Record
<1> HIDE DEF e
<1>3. Grows(log', log) /\ Len(log') = Len(log) + 1 /\ log'[Len(log) + 1] = e
  BY <1>2, AppendGrows DEF SkillInv
<1>4. /\ \A i \in DOMAIN log' \ DOMAIN log : log'[i] = e
      /\ Len(log) + 1 \in DOMAIN log'
  BY <1>3 DEF Grows
<1>5. SignedStep
  BY <1>1, <1>4, ResolvedAsSigned DEF SignedStep
<1> QED
  BY <1>1, <1>3, <1>4, <1>5 DEF OfKind

LEMMA BeginKeepsSkill ==
    ASSUME SkillInv, NEW p \in SkillRuns, NEW parent \in Parent, BeginSkill(p, parent)
    PROVE  SkillInv' /\ SignedStep
<1> DEFINE outcome == Resolved(registry.keys)
           begun == [stage |-> "open", steps |-> outcome.manifest.steps,
                     granted |-> outcome.manifest.scope, failures |-> 0]
<1>1. /\ Record("skill.resolve", outcome)
      /\ package' = package /\ signings' = signings
      /\ task' = IF outcome.verdict = "resolved" /\ outcome.manifest.scope \subseteq parent
                 THEN [task EXCEPT ![p] = begun] ELSE task
  BY DEF BeginSkill, Delegable
<1>2. IsTask(begun) /\ begun.granted = outcome.manifest.scope
  BY DEF IsTask
<1> HIDE DEF begun
<1>3. /\ SignedStep
      /\ Grows(log', log)
      /\ outcome.verdict = "resolved" =>
            \E r \in OfKind(log', "skill.resolve") :
                /\ log'[r].body.verdict = "resolved"
                /\ log'[r].body.manifest.scope = outcome.manifest.scope
  BY <1>1, ResolveRecords
<1> HIDE DEF outcome
<1>4. CASE task' = task
  <2>1. \A q \in SkillRuns :
            IsTask(task'[q]) /\ (task'[q].stage = "open" => Granted(task'[q].granted, log'))
    BY <1>3, <1>4, GrantStays DEF SkillInv
  <2>2. IsLog(log')
    BY <1>3 DEF Grows
  <2>3. DOMAIN task' = SkillRuns /\ task' = [q \in SkillRuns |-> task'[q]]
    BY <1>4 DEF SkillInv
  <2> QED
    BY <1>1, <1>3, <2>1, <2>2, <2>3 DEF SkillInv
<1>5. CASE task' = [task EXCEPT ![p] = begun] /\ outcome.verdict = "resolved"
           /\ outcome.manifest.scope \subseteq parent
  <2>1. Granted(begun.granted, log')
    BY <1>2, <1>3, <1>5 DEF Granted
  <2>2. \A q \in SkillRuns : task'[q] = IF q = p THEN begun ELSE task[q]
    BY <1>5 DEF SkillInv
  <2>3. \A q \in SkillRuns : IsTask(task'[q]) /\ (task'[q].stage = "open" => Granted(task'[q].granted, log'))
    BY <1>2, <1>3, <2>1, <2>2, GrantStays DEF SkillInv
  <2>4. DOMAIN task' = SkillRuns /\ task' = [q \in SkillRuns |-> task'[q]]
    BY <1>5 DEF SkillInv
  <2>5. IsLog(log')
    BY <1>3 DEF Grows
  <2> QED
    BY <1>1, <1>3, <2>3, <2>4, <2>5 DEF SkillInv
<1> QED
  BY <1>1, <1>4, <1>5

\* A run moves on, or ends, and asks for nothing more.
LEMMA TaskMovesOn ==
    ASSUME SkillInv, NEW p \in SkillRuns, NEW x, IsTask(x), x.stage # "open",
           task' = [task EXCEPT ![p] = x], Grows(log', log),
           package' = package, signings' = signings
    PROVE  SkillInv'
<1>1. \A q \in SkillRuns : task'[q] = IF q = p THEN x ELSE task[q]
  BY DEF SkillInv
<1>2. \A q \in SkillRuns : IsTask(task'[q]) /\ (task'[q].stage = "open" => Granted(task'[q].granted, log'))
  BY <1>1, GrantStays DEF SkillInv
<1>3. DOMAIN task' = SkillRuns /\ task' = [q \in SkillRuns |-> task'[q]]
  BY DEF SkillInv
<1>4. IsLog(log')
  BY DEF Grows
<1> QED
  BY <1>2, <1>3, <1>4 DEF SkillInv

LEMMA RunKeepsSkill ==
    ASSUME SkillInv, NEW p \in SkillRuns,
           OpenSkillRun(p) \/ ReadStep(p) \/ SealSkillRun(p) \/ KillSkillRun(p)
    PROVE  SkillInv' /\ SignedStep
<1>0. /\ IsLog(log) /\ IsTask(task[p])
      /\ task[p].stage = "open" => Granted(task[p].granted, log)
  BY DEF SkillInv
<1>1. CASE OpenSkillRun(p)
  <2> DEFINE kinds == <<"run.open", "subagent.spawn">>
             body  == [workload |-> "skill", granted |-> task[p].granted]
             first == [i \in DOMAIN kinds |-> Stamped(clock', i - 1, kinds[i], body)]
             x     == [task[p] EXCEPT !.stage = "steps"]
  <2>1. /\ log' = log \o first /\ task[p].stage = "open"
        /\ task' = [task EXCEPT ![p].stage = "steps"] /\ package' = package /\ signings' = signings
    BY <1>1 DEF OpenSkillRun, OpenRun
  <2>2. IsLog(first)
    <3>1. first \in Seq({first[i] : i \in DOMAIN first})
      OBVIOUS
    <3> QED
      BY <3>1 DEF IsLog
  <2>3. \A i \in DOMAIN first : first[i].kind # "skill.resolve" /\ first[i].body = body
    BY DEF Stamped
  <2> HIDE DEF first
  <2>4. /\ Grows(log', log)
        /\ \A i \in DOMAIN log' \ DOMAIN log : \E j \in DOMAIN first : log'[i] = first[j]
    BY <1>0, <2>1, <2>2, ConcatGrows
  <2>5. body.granted = task[p].granted
    OBVIOUS
  <2> HIDE DEF body
  <2>6. SignedStep
    BY <1>0, <2>1, <2>3, <2>4, <2>5 DEF SignedStep, Granted
  <2>7. IsTask(x) /\ x.stage # "open"
    BY <1>0 DEF IsTask
  <2>8. task' = [task EXCEPT ![p] = x]
    BY <2>1
  <2> HIDE DEF x
  <2> QED
    BY <2>1, <2>4, <2>6, <2>7, <2>8, TaskMovesOn
<1>2. ASSUME ReadStep(p) \/ SealSkillRun(p) \/ KillSkillRun(p)
      PROVE  GrewBy({"tool.result", "run.seal"}) /\ package' = package /\ signings' = signings
  <2>1. CASE ReadStep(p)
    <3>1. GrewBy({"tool.result"})
      BY <1>0, <2>1, EmitGrows DEF ReadStep
    <3> QED
      BY <2>1, <3>1, GrowsByMore DEF ReadStep
  <2>2. CASE SealSkillRun(p)
    <3>1. GrewBy({"run.seal"})
      BY <1>0, <2>2, EmitGrows DEF SealSkillRun
    <3> QED
      BY <2>2, <3>1, GrowsByMore DEF SealSkillRun
  <2>3. CASE KillSkillRun(p)
    <3>1. GrewBy({})
      BY <1>0, <2>3, StaysGrows DEF KillSkillRun
    <3> QED
      BY <2>3, <3>1, GrowsByMore DEF KillSkillRun
  <2> QED
    BY <1>2, <2>1, <2>2, <2>3
<1>3. ASSUME GrewBy({"tool.result", "run.seal"}) PROVE SignedStep /\ Grows(log', log)
  BY <1>3 DEF GrewBy, SignedStep
<1>4. CASE ReadStep(p)
  <2>1. PICK steps, granted, failures :
            task' = [task EXCEPT ![p] = [stage |-> "steps", steps |-> steps, granted |-> granted,
                                         failures |-> failures]]
    BY <1>4 DEF ReadStep
  <2>2. PICK x : x = [stage |-> "steps", steps |-> steps, granted |-> granted,
                      failures |-> failures]
    OBVIOUS
  <2>3. IsTask(x) /\ x.stage # "open" /\ task' = [task EXCEPT ![p] = x]
    BY <2>1, <2>2 DEF IsTask
  <2> QED
    BY <1>2, <1>3, <1>4, <2>3, TaskMovesOn
<1>5. CASE SealSkillRun(p) \/ KillSkillRun(p)
  <2>1. task' = [task EXCEPT ![p] = NoTask]
    BY <1>5 DEF SealSkillRun, KillSkillRun
  <2>2. IsTask(NoTask) /\ NoTask.stage # "open"
    BY DEF IsTask, NoTask
  <2> QED
    BY <1>2, <1>3, <1>5, <2>1, <2>2, TaskMovesOn
<1> QED
  BY <1>1, <1>4, <1>5

\* People sign and edit; nothing goes on the log.
LEMMA EditsKeepSkill ==
    ASSUME SkillInv,
           \/ \E key \in Keys : SkillSign(key)
           \/ \E manifest \in Manifests, keep \in BOOLEAN, present \in SUBSET Step :
                 EditPackage(manifest, keep, present)
           \/ \E keys \in SUBSET Keys, sound \in BOOLEAN : EditRegistry(keys, sound)
    PROVE  SkillInv' /\ SignedStep
<1>1. log' = log /\ task' = task /\ SignedStep
  BY DEF SkillSign, EditPackage, EditRegistry, logVars, SignedStep
<1>2. /\ IsPackage(package')
      /\ package'.signature # Null =>
            IsSignature(package'.signature) /\ package'.signature \in signings'
  <2>1. ASSUME NEW key \in Keys, SkillSign(key) PROVE <1>2!:
    <3>1. PICK x : x = [key |-> key, of |-> package.manifest]
      OBVIOUS
    <3>2. package' = [package EXCEPT !.signature = x] /\ signings' = signings \cup {package'.signature}
      BY <2>1, <3>1 DEF SkillSign
    <3>3. IsPackage(package') /\ package'.signature = x
      BY <3>2 DEF SkillInv, IsPackage
    <3>4. IsSignature(x)
      BY <3>1 DEF IsSignature
    <3> QED
      BY <3>2, <3>3, <3>4
  <2>2. ASSUME NEW manifest \in Manifests, NEW keep \in BOOLEAN, NEW present \in SUBSET Step,
               EditPackage(manifest, keep, present)
        PROVE  <1>2!:
    <3>1. /\ package' = [manifest |-> manifest,
                         signature |-> IF keep THEN package.signature ELSE Null,
                         present |-> present]
          /\ signings' = signings
      BY <2>2 DEF EditPackage
    <3>2. IsPackage(package') /\ package'.signature \in {package.signature, Null}
      BY <3>1 DEF IsPackage
    <3> QED
      BY <3>1, <3>2 DEF SkillInv
  <2>3. ASSUME NEW keys, NEW sound, EditRegistry(keys, sound) PROVE <1>2!:
    BY <2>3 DEF EditRegistry, SkillInv
  <2> QED
    BY <2>1, <2>2, <2>3
<1> QED
  BY <1>1, <1>2 DEF SkillInv

LEMMA StepKeepsSkill == SkillInv /\ [Next]_vars => SkillInv' /\ [SignedStep]_vars
<1> SUFFICES ASSUME SkillInv, [Next]_vars PROVE SkillInv' /\ [SignedStep]_vars
  OBVIOUS
<1>1. CASE SkillStep
  <2>1. ASSUME NEW extra, SkillResolve(extra) PROVE SkillInv' /\ SignedStep
    BY <2>1, ResolveRecords, OtherStepsKeepSkill DEF SkillResolve
  <2> QED
    BY <1>1, <2>1, BeginKeepsSkill, RunKeepsSkill, EditsKeepSkill DEF SkillStep, SkillNext
<1>2. CASE ~SkillStep
  <2>1. UNCHANGED skillVars
    BY <1>2 DEF Next, vars, SensorStep, GatewayStep, DriftStep, ProfileStep, ScorerStep, GraphStep,
                TemplateStep, ExpireStep
  <2>2. /\ Grows(log', log)
        /\ \A i \in DOMAIN log' \ DOMAIN log :
              log'[i].kind \notin {"skill.resolve", "subagent.spawn"}
    BY <1>2, StepGrows DEF SkillInv
  <2>3. SignedStep
    BY <2>2 DEF SignedStep
  <2> QED
    BY <2>1, <2>2, <2>3, OtherStepsKeepSkill
<1> QED
  BY <1>1, <1>2

\* However packages, signatures and registries are edited between and during
\* commands, by whomever, and whatever keys a command is given: a signature
\* counts only for the manifest its key's holder signed, and one that does not
\* verify resolves nothing (verify_signature, resolve, delegate).
THEOREM SkillsAreSigned == Spec => SkillIsWhatWasSigned
<1>1. SkillInv /\ [Next]_vars => SkillInv' /\ [SignedStep]_vars
  BY StepKeepsSkill
<1> QED
  BY <1>1, InitSkill, PTL DEF Spec, SkillIsWhatWasSigned, SignedStep

-----------------------------------------------------------------------------
(* A drift scan does not observe itself *)

\* Every run has an id of its own.
Runs ==
    /\ clock \in Nat
    /\ run \in [Process -> Nat]
    /\ seq \in [Process -> Nat]
    /\ \A p \in Process : run[p] <= clock
    /\ \A p, q \in Process : p # q /\ run[p] = run[q] => run[p] = NoRun

\* A step that opens or closes runs of these processes and of no others.
Moved(S) ==
    /\ Runs'
    /\ clock <= clock'
    /\ \A q \in Process \ S : run'[q] = run[q]

LEMMA NobodyMoves ==
    ASSUME Runs, UNCHANGED <<run, seq, clock>>, NEW S
    PROVE  Moved(S)
  BY DEF Runs, Moved

LEMMA EmitMoves ==
    ASSUME Runs, NEW p \in Process, NEW kind, NEW body, Emit(p, kind, body), NEW S
    PROVE  Moved(S)
<1>1. run' = run /\ clock' = clock /\ seq' = [seq EXCEPT ![p] = @ + 1]
  BY DEF Emit
<1>2. seq' \in [Process -> Nat]
  BY <1>1 DEF Runs
<1> QED
  BY <1>1, <1>2 DEF Runs, Moved

LEMMA LeaveMoves ==
    ASSUME Runs, NEW p \in Process, Leave(p)
    PROVE  Moved({p}) /\ run'[p] = NoRun
<1>1. /\ run' = [run EXCEPT ![p] = NoRun] /\ clock' = clock /\ seq' = [seq EXCEPT ![p] = 0]
  BY DEF Leave
<1> QED
  BY <1>1 DEF Runs, Moved, NoRun

LEMMA OpenMoves ==
    ASSUME Runs, NEW p \in Process, NEW S, NEW kinds \in Seq(S), NEW body, OpenRun(p, kinds, body)
    PROVE  Moved({p}) /\ run'[p] = clock + 1 /\ clock' = clock + 1
<1>1. /\ clock' = clock + 1 /\ run' = [run EXCEPT ![p] = clock + 1]
      /\ seq' = [seq EXCEPT ![p] = Len(kinds)] /\ Len(kinds) \in Nat
  BY DEF OpenRun
<1>2. run' \in [Process -> Nat] /\ seq' \in [Process -> Nat] /\ clock' \in Nat
  BY <1>1 DEF Runs
<1>3. \A q \in Process : run'[q] = IF q = p THEN clock + 1 ELSE run[q]
  BY <1>1 DEF Runs
<1>4. \A q \in Process : run'[q] <= clock'
  BY <1>1, <1>3 DEF Runs
<1>5. \A q, r \in Process : q # r /\ run'[q] = run'[r] => run'[q] = NoRun
  BY <1>3 DEF Runs, NoRun
<1> QED
  BY <1>1, <1>2, <1>3, <1>4, <1>5 DEF Runs, Moved

LEMMA MovesOne ==
    ASSUME NEW S, NEW p \in S, Moved({p})
    PROVE  Moved(S)
  BY DEF Moved

LEMMA SensorMoves == Runs /\ SensorNext => Moved(SensorRuns)
<1> SUFFICES ASSUME Runs, SensorNext PROVE Moved(SensorRuns)
  OBVIOUS
<1>1. ASSUME NEW p \in SensorRuns, NEW sensor, NEW repairs, OpenSensorRun(p, sensor, repairs)
      PROVE  Moved(SensorRuns)
  <2>1. PICK body : OpenRun(p, <<"run.open">>, body)
    BY <1>1 DEF OpenSensorRun
  <2>2. <<"run.open">> \in Seq({"run.open"}) /\ p \in Process
    BY SensorAssumption
  <2>3. Moved({p})
    BY <2>1, <2>2, OpenMoves
  <2> QED
    BY <2>3, MovesOne
<1>2. ASSUME NEW p \in SensorRuns, Gate(p) PROVE Moved(SensorRuns)
  BY <1>2, EmitMoves, SensorAssumption DEF Gate
<1>3. ASSUME NEW p \in SensorRuns, SealSensorRun(p) \/ FailSensorRun(p) \/ KillSensorRun(p)
      PROVE  Moved(SensorRuns)
  <2>1. Leave(p) /\ p \in Process
    BY <1>3, SensorAssumption DEF SealSensorRun, FailSensorRun, KillSensorRun, Depart, Die, Exit
  <2> QED
    BY <2>1, LeaveMoves, MovesOne
<1>4. ASSUME UNCHANGED logVars PROVE Moved(SensorRuns)
  BY <1>4, NobodyMoves DEF logVars
<1> QED
  BY <1>1, <1>2, <1>3, <1>4 DEF SensorNext, RepairArtifact, Edit

LEMMA GatewayMoves == Runs /\ GatewayNext => Moved(GatewayRuns)
<1> SUFFICES ASSUME Runs, NEW p \in GatewayRuns,
                    \/ OpenGatewayRun(p)
                    \/ \E tokens \in Usage : CallModel(p, tokens)
                    \/ FailModel(p)
                    \/ KeyUnset(p)
                    \/ SealGatewayRun(p)
                    \/ KillGatewayRun(p)
             PROVE  Moved(GatewayRuns)
  BY DEF GatewayNext
<1>0. p \in Process
  BY GatewayAssumption
<1>1. CASE OpenGatewayRun(p)
  <2>1. PICK body : OpenRun(p, <<"run.open">>, body)
    BY <1>1 DEF OpenGatewayRun
  <2>2. <<"run.open">> \in Seq({"run.open"})
    OBVIOUS
  <2>3. Moved({p})
    BY <1>0, <2>1, <2>2, OpenMoves
  <2> QED
    BY <2>3, MovesOne
<1>2. CASE \E tokens \in Usage : CallModel(p, tokens)
  BY <1>0, <1>2, EmitMoves DEF CallModel
<1>3. CASE FailModel(p) \/ KeyUnset(p) \/ SealGatewayRun(p) \/ KillGatewayRun(p)
  <2>1. Leave(p)
    BY <1>3 DEF FailModel, KeyUnset, SealGatewayRun, KillGatewayRun, Depart, Die, Exit
  <2> QED
    BY <1>0, <2>1, LeaveMoves, MovesOne
<1> QED
  BY <1>1, <1>2, <1>3

LEMMA SkillMoves == Runs /\ SkillNext => Moved(SkillRuns)
<1> SUFFICES ASSUME Runs, SkillNext PROVE Moved(SkillRuns)
  OBVIOUS
<1>1. ASSUME NEW p \in SkillRuns, OpenSkillRun(p) PROVE Moved(SkillRuns)
  <2> DEFINE first == <<"run.open", "subagent.spawn">>
  <2>1. PICK body : OpenRun(p, first, body)
    BY <1>1 DEF OpenSkillRun
  <2>2. first \in Seq({"run.open", "subagent.spawn"})
    OBVIOUS
  <2>3. p \in Process
    BY SkillAssumption
  <2> HIDE DEF first
  <2>4. Moved({p})
    BY <2>1, <2>2, <2>3, OpenMoves
  <2> QED
    BY <2>4, MovesOne
<1>2. ASSUME NEW p \in SkillRuns, ReadStep(p) PROVE Moved(SkillRuns)
  BY <1>2, EmitMoves, SkillAssumption DEF ReadStep
<1>3. ASSUME NEW p \in SkillRuns, SealSkillRun(p) \/ KillSkillRun(p) PROVE Moved(SkillRuns)
  <2>1. Leave(p) /\ p \in Process
    BY <1>3, SkillAssumption DEF SealSkillRun, KillSkillRun, Depart
  <2> QED
    BY <2>1, LeaveMoves, MovesOne
<1>4. ASSUME UNCHANGED <<run, seq, clock>> PROVE Moved(SkillRuns)
  BY <1>4, NobodyMoves
<1> QED
  BY <1>1, <1>2, <1>3, <1>4
     DEF SkillNext, SkillResolve, BeginSkill, SkillSign, EditPackage, EditRegistry, Record, logVars

\* No command but a drift scan opens or closes the run of one.
LEMMA OthersMove ==
    ASSUME Runs, [Next]_vars, ~DriftStep
    PROVE  Moved(Process \ DriftRuns)
<1>1. ASSUME NEW S, S \subseteq Process \ DriftRuns, Moved(S)
      PROVE  Moved(Process \ DriftRuns)
  BY <1>1 DEF Moved
<1>2. CASE SensorStep
  <2>1. Moved(SensorRuns)
    BY <1>2, SensorMoves DEF SensorStep
  <2> QED
    BY <1>1, <2>1, SensorAssumption, BusAssumption
<1>3. CASE GatewayStep
  <2>1. Moved(GatewayRuns)
    BY <1>3, GatewayMoves DEF GatewayStep
  <2> QED
    BY <1>1, <2>1, GatewayAssumption, BusAssumption
<1>4. CASE SkillStep
  <2>1. Moved(SkillRuns)
    BY <1>4, SkillMoves DEF SkillStep
  <2> QED
    BY <1>1, <2>1, SkillAssumption, BusAssumption
<1>5. CASE ScorerStep
  BY <1>5, NobodyMoves DEF ScorerStep, ScorerNext, ScoreLedger, RecordScore, LoseScore, Record, logVars
<1>6. CASE GraphStep
  BY <1>6, NobodyMoves DEF GraphStep, GraphNext, GraphTorn, GraphBuild, StartQuery, Visit, Write,
                           FinishQuery, Record, logVars
<1>7. CASE ProfileStep \/ TemplateStep \/ ExpireStep \/ UNCHANGED vars
  BY <1>7, NobodyMoves DEF ProfileStep, ProfileNext, MachineChanges, TemplateStep, ExpireStep, Expire,
                           vars, logVars
<1> QED
  BY <1>2, <1>3, <1>4, <1>5, <1>6, <1>7 DEF Next

\* What drift::read makes of these events, for a reading off the ledger.
LedgerReading(source, events) ==
    IF Len(events) = 0 THEN Null
    ELSE IF source = "ledger.head" THEN "local_file"
    ELSE IF source = "gateway.identity_source" THEN "local"
    ELSE IF Attested(events, Len(events)) THEN SigningKey ELSE "unsigned"

AsRead(report, events) ==
    report.source \in OffLedger /\ report.observed # Null =>
        report.observed = LedgerReading(report.source, events)

\* What a run reported is what the first n events, all before it, said.
ToldAt(s, id, n) ==
    \A r \in OfKind(s, "drift.report") :
        s[r].run = id => n < r /\ AsRead(s[r].body, SubSeq(s, 1, n))

ToldOnce(s) == \A id : \E n \in 0..Len(s) : ToldAt(s, id, n)

\* A scan under way has read no event of its own.
ReadBefore(walked, s, id) ==
    /\ Len(walked) \in Nat /\ DOMAIN walked = 1..Len(walked)
    /\ \E n \in 0..Len(s) :
          /\ \A k \in DOMAIN walked : AsRead(walked[k], SubSeq(s, 1, n))
          /\ ToldAt(s, id, n)

DriftInv ==
    /\ IsLog(log)
    /\ Runs
    /\ \A i \in OfKind(log, "drift.report") : log[i].run \in Nat /\ log[i].run <= clock
    /\ DOMAIN reports = DriftRuns /\ reports = [p \in DriftRuns |-> reports[p]]
    /\ \A p \in DriftRuns : IsOpen(p) => ReadBefore(reports[p], log, run[p])
    /\ ToldOnce(log)

LEMMA LedgerReadingIs ==
    ASSUME NEW source \in OffLedger, NEW events
    PROVE  Read(source, events) = LedgerReading(source, events)
  BY DEF OffLedger, Read, LedgerReading

LEMMA WalkIsAsRead ==
    ASSUME NEW events
    PROVE  /\ Len(Walk(events)) \in Nat /\ DOMAIN Walk(events) = 1..Len(Walk(events))
           /\ \A k \in DOMAIN Walk(events) : AsRead(Walk(events)[k], events)
<1>1. DOMAIN Fields = 1..Len(Fields) /\ Len(Fields) \in Nat
  BY DriftAssumption
<1>2. DOMAIN Walk(events) = 1..Len(Fields) /\ Len(Walk(events)) = Len(Fields)
  BY <1>1 DEF Walk
<1>3. ASSUME NEW k \in DOMAIN Fields PROVE AsRead(Report(Fields[k], events), events)
  <2>1. /\ Report(Fields[k], events).source = Fields[k].source
        /\ Report(Fields[k], events).observed \in {Null, Read(Fields[k].source, events)}
    BY DEF Report
  <2> QED
    BY <2>1, LedgerReadingIs DEF AsRead
<1>4. \A k \in DOMAIN Walk(events) : Walk(events)[k] = Report(Fields[k], events)
  BY <1>1, <1>2 DEF Walk
<1> QED
  BY <1>1, <1>2, <1>3, <1>4

LEMMA FirstEvents ==
    ASSUME NEW s, IsLog(s), NEW n \in Nat, n <= Len(s)
    PROVE  SubSeq(s, 1, n) = [i \in 1..n |-> s[i]]
<1> DEFINE S == {s[i] : i \in DOMAIN s}
<1>1. s \in Seq(S)
  BY DEF IsLog
<1> HIDE DEF S
<1>2. PICK t : t = SubSeq(s, 1, n)
  OBVIOUS
<1>3. t \in Seq(S) /\ Len(t) = n /\ DOMAIN t = 1..n /\ \A i \in 1..n : t[i] = s[i]
  BY <1>1, <1>2
<1>4. t = [i \in DOMAIN t |-> t[i]]
  BY <1>3
<1> QED
  BY <1>2, <1>3, <1>4

LEMMA PrefixStays ==
    ASSUME NEW s, NEW t, IsLog(s), Grows(t, s), NEW n \in 0..Len(s)
    PROVE  SubSeq(t, 1, n) = SubSeq(s, 1, n)
<1>1. /\ Len(s) \in Nat /\ DOMAIN s = 1..Len(s) /\ Len(t) \in Nat /\ Len(s) <= Len(t)
      /\ \A i \in DOMAIN s : t[i] = s[i]
  BY DEF Grows
<1>2. SubSeq(s, 1, n) = [i \in 1..n |-> s[i]]
  BY <1>1, FirstEvents
<1>3. SubSeq(t, 1, n) = [i \in 1..n |-> t[i]]
  BY <1>1, FirstEvents DEF Grows
<1> QED
  BY <1>1, <1>2, <1>3

LEMMA WholePrefix ==
    ASSUME NEW s, IsLog(s)
    PROVE  SubSeq(s, 1, Len(s)) = s
<1>1. Len(s) \in Nat /\ DOMAIN s = 1..Len(s) /\ s = [i \in 1..Len(s) |-> s[i]]
  BY DEF IsLog
<1> QED
  BY <1>1, FirstEvents

\* What was told stays so, whatever others append.
LEMMA ToldStays ==
    ASSUME NEW s, NEW t, IsLog(s), Grows(t, s), NEW id, NEW n \in 0..Len(s), ToldAt(s, id, n),
           \A i \in DOMAIN t \ DOMAIN s : t[i].kind = "drift.report" => t[i].run # id
    PROVE  n \in 0..Len(t) /\ ToldAt(t, id, n)
<1>1. SubSeq(t, 1, n) = SubSeq(s, 1, n)
  BY PrefixStays
<1>2. \A i \in DOMAIN s : t[i] = s[i]
  BY DEF Grows
<1>3. Len(s) <= Len(t) /\ Len(s) \in Nat /\ Len(t) \in Nat
  BY DEF Grows
<1>4. ASSUME NEW r \in OfKind(t, "drift.report"), t[r].run = id
      PROVE  r \in OfKind(s, "drift.report") /\ t[r] = s[r]
  BY <1>2, <1>4 DEF OfKind
<1>5. ToldAt(t, id, n)
  BY <1>1, <1>4 DEF ToldAt
<1> QED
  BY <1>3, <1>5

LEMMA ReadStays ==
    ASSUME NEW s, NEW t, IsLog(s), Grows(t, s), NEW id, NEW walked, ReadBefore(walked, s, id),
           \A i \in DOMAIN t \ DOMAIN s : t[i].kind = "drift.report" => t[i].run # id
    PROVE  ReadBefore(walked, t, id)
<1>1. PICK n \in 0..Len(s) :
          /\ \A k \in DOMAIN walked : AsRead(walked[k], SubSeq(s, 1, n))
          /\ ToldAt(s, id, n)
  BY DEF ReadBefore
<1>2. SubSeq(t, 1, n) = SubSeq(s, 1, n)
  BY PrefixStays
<1>3. n \in 0..Len(t) /\ ToldAt(t, id, n)
  BY <1>1, ToldStays
<1> QED
  BY <1>1, <1>2, <1>3 DEF ReadBefore

\* A step that reports nothing and touches no scan that goes on.
LEMMA QuietKeepsDrift ==
    ASSUME DriftInv, Grows(log', log), NEW S, Moved(S),
           \A i \in DOMAIN log' \ DOMAIN log : log'[i].kind # "drift.report",
           DOMAIN reports' = DriftRuns /\ reports' = [p \in DriftRuns |-> reports'[p]],
           \A p \in DriftRuns :
               run'[p] # NoRun => \/ run'[p] = run[p] /\ reports'[p] = reports[p]
                                  \/ ReadBefore(reports'[p], log', run'[p])
    PROVE  DriftInv'
<1>1. IsLog(log') /\ Runs'
  BY DEF Grows, Moved
<1>2. \A i \in OfKind(log', "drift.report") : log'[i].run \in Nat /\ log'[i].run <= clock'
  <2> SUFFICES ASSUME NEW i \in OfKind(log', "drift.report")
               PROVE  log'[i].run \in Nat /\ log'[i].run <= clock'
    OBVIOUS
  <2>1. i \in DOMAIN log /\ log'[i] = log[i] /\ i \in OfKind(log, "drift.report")
    BY DEF OfKind, Grows
  <2>2. log[i].run \in Nat /\ log[i].run <= clock
    BY <2>1 DEF DriftInv
  <2> QED
    BY <2>1, <2>2 DEF DriftInv, Moved, Runs
<1>3. ASSUME NEW p \in DriftRuns, IsOpen(p)' PROVE ReadBefore(reports'[p], log', run'[p])
  BY <1>3, ReadStays DEF DriftInv, IsOpen
<1>4. ToldOnce(log')
  BY ToldStays DEF DriftInv, ToldOnce
<1> QED
  BY <1>1, <1>2, <1>3, <1>4 DEF DriftInv

\* The scan that reports, of what it read before any report of its own.
LEMMA ReportKeepsDrift ==
    ASSUME DriftInv, NEW p \in DriftRuns, AppendReport(p)
    PROVE  DriftInv'
<1>0. p \in Process /\ DriftRuns \subseteq Process
  BY DriftAssumption
<1> DEFINE body == reports[p][seq[p] + 1]
           new  == Len(log) + 1
<1>1. /\ IsOpen(p) /\ Emit(p, "drift.report", body) /\ reports' = reports
      /\ seq[p] < Len(reports[p])
  BY DEF AppendReport, driftVars
<1>2. seq[p] \in Nat /\ run[p] \in Nat /\ run[p] <= clock /\ run' = run /\ clock' = clock
  BY <1>0, <1>1 DEF DriftInv, Runs, Emit
<1>3. PICK n \in 0..Len(log) :
          /\ \A k \in DOMAIN reports[p] : AsRead(reports[p][k], SubSeq(log, 1, n))
          /\ ToldAt(log, run[p], n)
  BY <1>1 DEF DriftInv, ReadBefore
<1>4. AsRead(body, SubSeq(log, 1, n))
  <2>1. /\ Len(reports[p]) \in Nat /\ DOMAIN reports[p] = 1..Len(reports[p])
    BY <1>1 DEF DriftInv, ReadBefore
  <2>2. seq[p] + 1 \in DOMAIN reports[p]
    BY <1>1, <1>2, <2>1
  <2> QED
    BY <1>3, <2>2
<1> HIDE DEF body
<1>5. /\ Grows(log', log) /\ Len(log') = new
      /\ log'[new].kind = "drift.report" /\ log'[new].run = run[p] /\ log'[new].body = body
  <2>1. log' = Append(log, Stamped(run[p], seq[p], "drift.report", body))
    BY <1>1 DEF Emit
  <2>2. IsLog(log)
    BY DEF DriftInv
  <2> QED
    BY <2>1, <2>2, AppendGrows DEF Stamped
<1>6. IsLog(log) /\ Len(log) \in Nat /\ \A i \in DOMAIN log' \ DOMAIN log : i = new
  BY <1>5 DEF DriftInv, Grows
<1> HIDE DEF new
<1>7. \A i \in OfKind(log', "drift.report") :
          i # new => i \in OfKind(log, "drift.report") /\ log'[i] = log[i]
  BY <1>5, <1>6 DEF OfKind, Grows
<1>8. n \in 0..Len(log') /\ ToldAt(log', run[p], n)
  <2>1. SubSeq(log', 1, n) = SubSeq(log, 1, n)
    BY <1>5, <1>6, PrefixStays
  <2>2. n < new /\ n \in 0..Len(log')
    BY <1>5, <1>6 DEF new
  <2>3. \A r \in OfKind(log', "drift.report") :
            log'[r].run = run[p] => n < r /\ AsRead(log'[r].body, SubSeq(log, 1, n))
    BY <1>3, <1>4, <1>5, <1>7, <2>2 DEF ToldAt
  <2> QED
    BY <2>1, <2>2, <2>3 DEF ToldAt
<1>9. \A i \in OfKind(log', "drift.report") : log'[i].run \in Nat /\ log'[i].run <= clock'
  BY <1>2, <1>5, <1>7 DEF DriftInv
<1>10. Moved({p})
  BY <1>0, <1>1, EmitMoves DEF DriftInv
<1>11. ASSUME NEW q \in DriftRuns, IsOpen(q)' PROVE ReadBefore(reports'[q], log', run'[q])
  <2>1. IsOpen(q) /\ run'[q] = run[q] /\ reports'[q] = reports[q]
    BY <1>1, <1>2, <1>11 DEF IsOpen
  <2>2. CASE q = p
    <3>1. \A k \in DOMAIN reports[p] : AsRead(reports[p][k], SubSeq(log', 1, n))
      BY <1>3, <1>5, <1>6, PrefixStays
    <3>2. Len(reports[p]) \in Nat /\ DOMAIN reports[p] = 1..Len(reports[p])
      BY <1>1 DEF DriftInv, ReadBefore
    <3> QED
      BY <1>8, <2>1, <2>2, <3>1, <3>2 DEF ReadBefore
  <2>3. CASE q # p
    <3>1. run[q] # run[p]
      BY <1>0, <2>1, <2>3 DEF DriftInv, Runs, IsOpen
    <3>2. \A i \in DOMAIN log' \ DOMAIN log : log'[i].run # run[q]
      BY <1>5, <1>6, <3>1
    <3>3. ReadBefore(reports[q], log, run[q])
      BY <2>1 DEF DriftInv
    <3>4. ReadBefore(reports[q], log', run[q])
      BY <1>5, <1>6, <3>2, <3>3, ReadStays
    <3> QED
      BY <2>1, <3>4
  <2> QED
    BY <2>2, <2>3
<1>12. ASSUME NEW id PROVE \E m \in 0..Len(log') : ToldAt(log', id, m)
  <2>1. CASE id = run[p]
    BY <1>8, <2>1
  <2>2. CASE id # run[p]
    <3>1. PICK m \in 0..Len(log) : ToldAt(log, id, m)
      BY DEF DriftInv, ToldOnce
    <3>2. \A i \in DOMAIN log' \ DOMAIN log : log'[i].run # id
      BY <1>5, <1>6, <2>2
    <3>3. m \in 0..Len(log') /\ ToldAt(log', id, m)
      BY <1>5, <1>6, <3>1, <3>2, ToldStays
    <3> QED
      BY <3>3
  <2> QED
    BY <2>1, <2>2
<1>13. IsLog(log') /\ Runs'
  BY <1>5, <1>10 DEF Grows, Moved
<1>14. ToldOnce(log')
  BY <1>12 DEF ToldOnce
<1>15. DOMAIN reports' = DriftRuns /\ reports' = [q \in DriftRuns |-> reports'[q]]
  BY <1>1 DEF DriftInv
<1> QED
  BY <1>9, <1>11, <1>13, <1>14, <1>15 DEF DriftInv

\* The scan that opens has read what is there, and its id is new.
LEMMA OpenKeepsDrift ==
    ASSUME DriftInv, NEW p \in DriftRuns, OpenDrift(p)
    PROVE  DriftInv'
<1>0. p \in Process
  BY DriftAssumption
<1>1. OpenRun(p, <<>>, <<>>) /\ reports' = [reports EXCEPT ![p] = Walk(log)]
  BY DEF OpenDrift
<1>2. <<>> \in Seq({})
  OBVIOUS
<1>3. GrewBy({})
  BY <1>1, <1>2, OpenGrows DEF DriftInv
<1>4. Moved({p}) /\ run'[p] = clock + 1
  BY <1>0, <1>1, <1>2, OpenMoves DEF DriftInv
<1>5. IsLog(log) /\ Grows(log', log) /\ Len(log) \in 0..Len(log)
  BY <1>3 DEF DriftInv, GrewBy, Grows
<1>6. /\ reports'[p] = Walk(log) /\ DOMAIN reports' = DriftRuns
      /\ \A q \in DriftRuns \ {p} : reports'[q] = reports[q]
      /\ reports' = [q \in DriftRuns |-> reports'[q]]
  BY <1>1 DEF DriftInv
<1>7. ToldAt(log, clock + 1, Len(log))
  <2>1. \A r \in OfKind(log, "drift.report") : log[r].run # clock + 1
    BY DEF DriftInv, Runs
  <2> QED
    BY <2>1 DEF ToldAt
<1>8. ReadBefore(Walk(log), log, clock + 1)
  <2>1. SubSeq(log, 1, Len(log)) = log
    BY <1>5, WholePrefix
  <2> QED
    BY <1>5, <1>7, <2>1, WalkIsAsRead DEF ReadBefore
<1>9. ReadBefore(reports'[p], log', run'[p])
  <2>1. ReadBefore(Walk(log), log', clock + 1)
    BY <1>3, <1>5, <1>8, ReadStays DEF GrewBy
  <2> QED
    BY <1>4, <1>6, <2>1
<1>10. \A q \in DriftRuns :
           run'[q] # NoRun => \/ run'[q] = run[q] /\ reports'[q] = reports[q]
                              \/ ReadBefore(reports'[q], log', run'[q])
  BY <1>4, <1>6, <1>9, DriftAssumption DEF Moved
<1>11. \A i \in DOMAIN log' \ DOMAIN log : log'[i].kind # "drift.report"
  BY <1>3 DEF GrewBy
<1> QED
  BY <1>4, <1>5, <1>6, <1>10, <1>11, QuietKeepsDrift

LEMMA EndKeepsDrift ==
    ASSUME DriftInv, NEW p \in DriftRuns, SealDrift(p) \/ KillDrift(p)
    PROVE  DriftInv'
<1>0. p \in Process
  BY DriftAssumption
<1>1. Leave(p) /\ reports' = [reports EXCEPT ![p] = <<>>]
  BY DEF SealDrift, KillDrift, Depart, Die, Exit
<1>2. Moved({p}) /\ run'[p] = NoRun
  BY <1>0, <1>1, LeaveMoves DEF DriftInv
<1>3. GrewBy({"run.seal"})
  <2>1. CASE SealDrift(p)
    BY <2>1, EmitGrows DEF SealDrift, DriftInv
  <2>2. CASE KillDrift(p)
    BY <2>2, StaysGrows, GrowsByMore DEF KillDrift, Die, Exit, DriftInv
  <2> QED
    BY <2>1, <2>2
<1>4. /\ DOMAIN reports' = DriftRuns /\ reports' = [q \in DriftRuns |-> reports'[q]]
      /\ \A q \in DriftRuns \ {p} : reports'[q] = reports[q]
  BY <1>1 DEF DriftInv
<1>5. \A q \in DriftRuns :
          run'[q] # NoRun => run'[q] = run[q] /\ reports'[q] = reports[q]
  BY <1>2, <1>4, DriftAssumption DEF Moved
<1> QED
  BY <1>2, <1>3, <1>4, <1>5, QuietKeepsDrift DEF GrewBy

LEMMA StepKeepsDrift == DriftInv /\ [Next]_vars => DriftInv'
<1> SUFFICES ASSUME DriftInv, [Next]_vars PROVE DriftInv'
  OBVIOUS
<1>1. CASE DriftStep
  <2>1. ASSUME NEW p, NEW s, MoveFiles(p, s) PROVE DriftInv'
    <3>1. /\ log' = log /\ run' = run /\ seq' = seq /\ clock' = clock /\ reports' = reports
      BY <2>1 DEF MoveFiles, logVars
    <3>2. GrewBy({}) /\ Moved({})
      BY <3>1, StaysGrows, NobodyMoves DEF DriftInv
    <3>3. \A i \in DOMAIN log' \ DOMAIN log : log'[i].kind # "drift.report"
      BY <3>1
    <3>4. DOMAIN reports' = DriftRuns /\ reports' = [q \in DriftRuns |-> reports'[q]]
      BY <3>1 DEF DriftInv
    <3> QED
      BY <3>1, <3>2, <3>3, <3>4, QuietKeepsDrift DEF GrewBy
  <2> QED
    BY <1>1, <2>1, OpenKeepsDrift, ReportKeepsDrift, EndKeepsDrift DEF DriftStep, DriftNext
<1>2. CASE ~DriftStep
  <2>1. Moved(Process \ DriftRuns)
    BY <1>2, OthersMove DEF DriftInv
  <2>2. /\ Grows(log', log)
        /\ \A i \in DOMAIN log' \ DOMAIN log : log'[i].kind # "drift.report"
    BY <1>2, StepGrows DEF DriftInv
  <2>3. reports' = reports
    BY <1>2 DEF Next, SensorStep, GatewayStep, ProfileStep, ScorerStep, GraphStep, SkillStep,
                TemplateStep, ExpireStep, vars, driftVars
  <2>4. \A q \in DriftRuns : run'[q] = run[q] /\ reports'[q] = reports[q]
    BY <2>1, <2>3, DriftAssumption DEF Moved
  <2>5. DOMAIN reports' = DriftRuns /\ reports' = [q \in DriftRuns |-> reports'[q]]
    BY <2>3 DEF DriftInv
  <2> QED
    BY <2>1, <2>2, <2>4, <2>5, QuietKeepsDrift
<1> QED
  BY <1>1, <1>2

\* The log earlier runs left has what the scans among them told.
RecordedReports ==
    /\ \A i \in OfKind(Recorded, "drift.report") : Recorded[i].run \in Nat
    /\ ToldOnce(Recorded)

\* A harness without a scan behind it is one.
LEMMA NothingRecorded == Recorded = <<>> => RecordedReports
<1> SUFFICES ASSUME Recorded = <<>> PROVE RecordedReports
  OBVIOUS
<1>1. Len(Recorded) = 0 /\ DOMAIN Recorded = {}
  OBVIOUS
<1>2. OfKind(Recorded, "drift.report") = {}
  BY <1>1 DEF OfKind
<1>3. ASSUME NEW id PROVE 0 \in 0..Len(Recorded) /\ ToldAt(Recorded, id, 0)
  BY <1>1, <1>2 DEF ToldAt
<1> QED
  BY <1>2, <1>3 DEF RecordedReports, ToldOnce

LEMMA InitDrift == RecordedReports /\ Init => DriftInv
<1> SUFFICES ASSUME RecordedReports, Init PROVE DriftInv
  OBVIOUS
<1>1. /\ log = Recorded /\ clock \in 0..MaxRuns
      /\ run = [p \in Process |-> NoRun] /\ seq = [p \in Process |-> 0]
      /\ \A i \in DOMAIN Recorded : Recorded[i].run <= clock
      /\ reports = [p \in DriftRuns |-> <<>>]
  BY DEF Init, LogInit, DriftInit
<1>2. Runs
  BY <1>1, EventLogAssumption DEF Runs, NoRun
<1>3. IsLog(log)
  BY <1>1, BusAssumption DEF IsLog
<1>4. \A p \in Process : ~IsOpen(p)
  BY <1>1 DEF IsOpen
<1>5. \A i \in OfKind(log, "drift.report") : log[i].run \in Nat /\ log[i].run <= clock
  BY <1>1 DEF RecordedReports, OfKind
<1> QED
  BY <1>1, <1>2, <1>3, <1>4, <1>5, DriftAssumption DEF DriftInv, RecordedReports

LEMMA ToldIsObserved == DriftInv => DriftObservesOthers
<1> SUFFICES ASSUME DriftInv, NEW first \in OfKind(log, "drift.report")
             PROVE  \E n \in 0..(first - 1) :
                        \A r \in OfRun(log, log[first].run, "drift.report") :
                            log[r].body.source \in OffLedger /\ log[r].body.observed # Null
                                => log[r].body.observed = Read(log[r].body.source, SubSeq(log, 1, n))
  BY DEF DriftObservesOthers
<1>1. PICK n \in 0..Len(log) : ToldAt(log, log[first].run, n)
  BY DEF DriftInv, ToldOnce
<1>2. n < first /\ first \in Nat /\ n \in Nat
  <2>1. DOMAIN log = 1..Len(log) /\ Len(log) \in Nat
    BY DEF DriftInv, IsLog
  <2> QED
    BY <1>1, <2>1 DEF ToldAt, OfKind
<1>3. n \in 0..(first - 1)
  BY <1>2
<1>4. ASSUME NEW r \in OfRun(log, log[first].run, "drift.report"),
             log[r].body.source \in OffLedger, log[r].body.observed # Null
      PROVE  log[r].body.observed = Read(log[r].body.source, SubSeq(log, 1, n))
  <2>1. log[r].body.observed = LedgerReading(log[r].body.source, SubSeq(log, 1, n))
    BY <1>1, <1>4 DEF OfRun, ToldAt, AsRead
  <2> QED
    BY <1>4, <2>1, LedgerReadingIs
<1> QED
  BY <1>3, <1>4

\* However many scans and other commands run at once, killed anywhere: what one
\* reports of the ledger, the ledger said at one moment before its first report
\* (drift Running, "would be observing itself").
THEOREM ScansObserveOthers == RecordedReports /\ Spec => []DriftObservesOthers
<1>1. RecordedReports /\ Init => DriftInv
  BY InitDrift
<1>2. DriftInv /\ [Next]_vars => DriftInv'
  BY StepKeepsDrift
<1>3. DriftInv => DriftObservesOthers
  BY ToldIsObserved
<1>4. CASE RecordedReports
  BY <1>1, <1>2, <1>3, <1>4, PTL DEF Spec
<1>5. CASE ~RecordedReports
  BY <1>5
<1> QED
  BY <1>4, <1>5

-----------------------------------------------------------------------------
(* The snapshots of a record agree *)

\* A number over a set of numbers: it has a greatest.
LEMMA MaxIsGreatest ==
    ASSUME NEW I, I \subseteq Nat, I # {}, NEW n \in Nat, \A i \in I : i <= n
    PROVE  Max(I) \in I /\ \A i \in I : i <= Max(I)
<1> DEFINE J == {n - i : i \in I}
<1>1. J \subseteq Nat /\ J # {}
  <2>1. \A i \in I : i \in Nat /\ i <= n
    OBVIOUS
  <2>2. \A i \in Nat : i <= n => n - i \in Nat
    OBVIOUS
  <2> QED
    BY <2>1, <2>2
<1>2. PICK j \in J : \A k \in J : j <= k
  BY <1>1, HasLeast
<1>3. PICK x \in I : j = n - x
  BY <1>2
<1>4. \A i \in I : n - x <= n - i
  BY <1>2, <1>3
<1> HIDE DEF J
<1>5. \A i \in I : x >= i
  BY <1>4
<1> QED
  BY <1>5 DEF Max

\* No rule counts the runs never sealed, which a seal takes back: those of
\* config/scoring.json do not.
SealsTakeNothing ==
    \A rule \in ScoreRules :
        /\ ~rule.base.unsealed
        /\ \A level \in rule.levels : \A pred \in level.requires : ~pred.unsealed

\* ScoreOf's two levels by name.
Climbed(rule, events) ==
    {level \in rule.levels :
        \A lower \in rule.levels :
            lower.level <= level.level => \A pred \in lower.requires : Satisfied(pred, events)}

Reached(rule, events) == {0} \cup {level.level : level \in Climbed(rule, events)}

LEMMA ScoreIsReached ==
    ASSUME NEW rule, NEW events
    PROVE  ScoreOf(rule, events) =
               IF Satisfied(rule.base, events) THEN Max(Reached(rule, events)) ELSE Null
  BY DEF ScoreOf, Reached, Climbed

\* More events, no less evidence.
LEMMA SatisfiedStays ==
    ASSUME NEW s, IsLog(s), NEW m \in 0..Len(s), NEW n \in 0..Len(s), m <= n,
           NEW pred, ~pred.unsealed, pred.min \in Nat, Satisfied(pred, SubSeq(s, 1, m))
    PROVE  Satisfied(pred, SubSeq(s, 1, n))
<1> DEFINE early == SubSeq(s, 1, m)
           late  == SubSeq(s, 1, n)
<1>1. Len(s) \in Nat
  BY DEF IsLog
<1>2. early = [i \in 1..m |-> s[i]] /\ late = [i \in 1..n |-> s[i]]
  BY <1>1, FirstEvents
<1> HIDE DEF early, late
<1>3. Evidence(pred, early) \subseteq Evidence(pred, late)
  <2>1. 1..m \subseteq 1..n
    BY <1>1
  <2> QED
    BY <1>2, <2>1 DEF Evidence, OfKind
<1>4. IsFiniteSet(Evidence(pred, late))
  <2>1. Evidence(pred, late) \subseteq 1..n
    BY <1>2 DEF Evidence, OfKind
  <2>2. IsFiniteSet(1..n)
    BY <1>1, FS_Interval
  <2> QED
    BY <2>1, <2>2, FS_Subset
<1>5. /\ IsFiniteSet(Evidence(pred, early))
      /\ Cardinality(Evidence(pred, early)) <= Cardinality(Evidence(pred, late))
  BY <1>3, <1>4, FS_Subset
<1>6. /\ Cardinality(Evidence(pred, early)) \in Nat
      /\ Cardinality(Evidence(pred, late)) \in Nat
  BY <1>4, <1>5, FS_CardinalityType
<1>7. Cardinality(Evidence(pred, early)) >= pred.min
  BY DEF Satisfied, early
<1>8. Cardinality(Evidence(pred, late)) >= pred.min
  BY <1>5, <1>6, <1>7
<1> QED
  BY <1>8 DEF Satisfied, late

LEMMA ScoreRises ==
    ASSUME SealsTakeNothing, NEW s, IsLog(s), NEW m \in 0..Len(s), NEW n \in 0..Len(s), m <= n,
           NEW rule \in ScoreRules, ScoreOf(rule, SubSeq(s, 1, m)) # Null
    PROVE  /\ ScoreOf(rule, SubSeq(s, 1, n)) # Null
           /\ ScoreOf(rule, SubSeq(s, 1, n)) >= ScoreOf(rule, SubSeq(s, 1, m))
<1> DEFINE early == SubSeq(s, 1, m)
           late  == SubSeq(s, 1, n)
<1>1. Satisfied(rule.base, early)
  BY ScoreIsReached
<1>2. Satisfied(rule.base, late)
  BY <1>1, SatisfiedStays, ScorerAssumption DEF SealsTakeNothing
<1>3. \A level \in rule.levels : \A pred \in level.requires :
          Satisfied(pred, early) => Satisfied(pred, late)
  BY SatisfiedStays, ScorerAssumption DEF SealsTakeNothing
<1>4. /\ ScoreOf(rule, early) = Max(Reached(rule, early))
      /\ ScoreOf(rule, late) = Max(Reached(rule, late))
  BY <1>1, <1>2, ScoreIsReached
<1> HIDE DEF early, late
<1>5. Reached(rule, early) \subseteq Reached(rule, late)
  BY <1>3 DEF Reached, Climbed
<1>6. \A events :
          /\ Reached(rule, events) \subseteq Nat /\ Reached(rule, events) # {}
          /\ \A i \in Reached(rule, events) : i <= 255
  <2>1. ASSUME NEW events, NEW i \in Reached(rule, events) PROVE i \in Nat /\ i <= 255
    <3>1. CASE i = 0
      BY <3>1
    <3>2. CASE i # 0
      <4>1. PICK level \in rule.levels : i = level.level
        BY <3>2 DEF Reached, Climbed
      <4>2. level.level \in 0..255
        BY ScorerAssumption
      <4>3. \A k \in 0..255 : k \in Nat /\ k <= 255
        OBVIOUS
      <4>4. i \in 0..255
        BY <4>1, <4>2
      <4> QED
        BY <4>3, <4>4
    <3> QED
      BY <3>1, <3>2
  <2>2. \A events : Reached(rule, events) # {}
    BY DEF Reached
  <2> QED
    BY <2>1, <2>2
<1>7. \A events : /\ Max(Reached(rule, events)) \in Reached(rule, events)
                  /\ \A i \in Reached(rule, events) : i <= Max(Reached(rule, events))
  BY <1>6, MaxIsGreatest
<1>8. /\ Max(Reached(rule, early)) \in Nat /\ Max(Reached(rule, late)) \in Nat
      /\ Max(Reached(rule, early)) <= Max(Reached(rule, late))
  BY <1>5, <1>6, <1>7
<1> QED
  BY <1>4, <1>8, ScorerAssumption DEF early, late

\* The card of a log, when it was that long.
ScoredBy(snapshot, s, n) == snapshot.scored \in 0..n /\ snapshot = Score(SubSeq(s, 1, snapshot.scored))

AllScored(s) == \A i \in OfKind(s, "score.snapshot") : ScoredBy(s[i].body, s, i - 1)

ScoreInv ==
    /\ IsLog(log)
    /\ OfKind(log, "retention.expire") = {} =>
          /\ gone = {}
          /\ card # Null => ScoredBy(card, log, Len(log))
          /\ AllScored(log)

LEMMA ScoredStays ==
    ASSUME NEW s, NEW t, IsLog(s), Grows(t, s), NEW n \in 0..Len(s), NEW snapshot,
           ScoredBy(snapshot, s, n)
    PROVE  ScoredBy(snapshot, t, n)
<1>1. Len(s) \in Nat
  BY DEF IsLog
<1>2. snapshot.scored \in 0..Len(s)
  BY <1>1 DEF ScoredBy
<1>3. SubSeq(t, 1, snapshot.scored) = SubSeq(s, 1, snapshot.scored)
  BY <1>2, PrefixStays
<1> QED
  BY <1>3 DEF ScoredBy

LEMMA AllStayScored ==
    ASSUME NEW s, NEW t, IsLog(s), Grows(t, s), AllScored(s),
           \A i \in DOMAIN t \ DOMAIN s : t[i].kind = "score.snapshot" => ScoredBy(t[i].body, t, i - 1)
    PROVE  AllScored(t)
<1>1. Len(s) \in Nat /\ DOMAIN s = 1..Len(s)
  BY DEF IsLog
<1>2. ASSUME NEW i \in OfKind(t, "score.snapshot"), i \in DOMAIN s
      PROVE  ScoredBy(t[i].body, t, i - 1)
  <2>1. t[i] = s[i] /\ i \in OfKind(s, "score.snapshot")
    BY <1>2 DEF Grows, OfKind
  <2>2. ScoredBy(s[i].body, s, i - 1) /\ i - 1 \in 0..Len(s)
    BY <1>1, <1>2, <2>1 DEF AllScored
  <2> QED
    BY <2>1, <2>2, ScoredStays
<1> QED
  BY <1>2 DEF AllScored, OfKind

\* Only an expiry takes a payload away.
LEMMA OthersTakeNothing ==
    ASSUME [Next]_vars, ~ExpireStep
    PROVE  gone' \subseteq gone
<1>1. ASSUME NEW p, NEW kind, NEW body, Emit(p, kind, body) \/ Depart(p, kind, body) \/ Record(kind, body)
      PROVE  gone' \subseteq gone
  BY <1>1 DEF Emit, Depart, Record
<1>2. ASSUME NEW p, NEW kinds, NEW body, OpenRun(p, kinds, body) PROVE gone' \subseteq gone
  BY <1>2 DEF OpenRun
<1>3. ASSUME NEW p, Die(p) \/ Exit(p) PROVE gone' \subseteq gone
  BY <1>3 DEF Die, Exit
<1>4. CASE SensorStep
  BY <1>1, <1>2, <1>3, <1>4 DEF SensorStep, SensorNext, OpenSensorRun, Gate, SealSensorRun,
     FailSensorRun, KillSensorRun, RepairArtifact, Edit, logVars
<1>5. CASE GatewayStep
  BY <1>1, <1>2, <1>3, <1>5 DEF GatewayStep, GatewayNext, OpenGatewayRun, CallModel, FailModel,
     KeyUnset, SealGatewayRun, KillGatewayRun
<1>6. CASE DriftStep
  BY <1>1, <1>2, <1>3, <1>6 DEF DriftStep, DriftNext, OpenDrift, AppendReport, SealDrift, KillDrift,
     MoveFiles, logVars
<1>7. CASE ScorerStep
  BY <1>1, <1>7 DEF ScorerStep, ScorerNext, ScoreLedger, RecordScore, LoseScore, logVars
<1>8. CASE GraphStep
  BY <1>1, <1>8 DEF GraphStep, GraphNext, GraphTorn, GraphBuild, StartQuery, Visit, Write,
     FinishQuery, logVars
<1>9. CASE SkillStep
  BY <1>1, <1>2, <1>3, <1>9 DEF SkillStep, SkillNext, OpenSkillRun, ReadStep, SealSkillRun,
     KillSkillRun, SkillResolve, BeginSkill, SkillSign, EditPackage, EditRegistry, logVars
<1>10. CASE ProfileStep \/ TemplateStep \/ UNCHANGED vars
  BY <1>10 DEF ProfileStep, ProfileNext, MachineChanges, TemplateStep, vars, logVars
<1> QED
  BY <1>4, <1>5, <1>6, <1>7, <1>8, <1>9, <1>10 DEF Next

LEMMA ScorerKeepsScores ==
    ASSUME ScoreInv, ScorerNext
    PROVE  ScoreInv'
<1>1. IsLog(log) /\ Len(log) \in Nat
  BY DEF ScoreInv, IsLog
<1>2. CASE ScoreLedger
  <2>1. log' = log /\ gone' = gone /\ card' = Score(Readable(log))
    BY <1>2 DEF ScoreLedger, logVars
  <2>2. ASSUME gone = {} PROVE ScoredBy(Score(Readable(log)), log, Len(log))
    <3>1. log = [i \in DOMAIN log |-> log[i]]
      BY DEF ScoreInv, IsLog
    <3>2. Readable(log) = [i \in DOMAIN log |-> log[i]]
      BY <2>2 DEF Readable
    <3>3. Score(log).scored = Len(log)
      BY DEF Score
    <3>4. SubSeq(log, 1, Len(log)) = log
      BY <1>1, WholePrefix
    <3>5. Readable(log) = log
      BY <3>1, <3>2
    <3>6. ScoredBy(Score(log), log, Len(log))
      <4>1. Score(log).scored \in 0..Len(log)
        BY <1>1, <3>3
      <4>2. Score(SubSeq(log, 1, Score(log).scored)) = Score(log)
        BY <3>3, <3>4, Zenon
      <4> QED
        BY <4>1, <4>2 DEF ScoredBy
    <3> QED
      BY <3>5, <3>6
  <2> QED
    BY <2>1, <2>2 DEF ScoreInv
<1>3. CASE RecordScore
  <2>1. /\ card # Null /\ card' = Null /\ Record("score.snapshot", card)
    BY <1>3 DEF RecordScore
  <2>2. /\ log' = Append(log, Stamped(NoRun, 0, "score.snapshot", card)) /\ gone' = gone \ {card}
    BY <2>1 DEF Record
  <2>3. /\ Grows(log', log) /\ Len(log') = Len(log) + 1
        /\ log'[Len(log) + 1].kind = "score.snapshot" /\ log'[Len(log) + 1].body = card
    BY <1>1, <2>2, AppendGrows DEF Stamped
  <2>4. \A i \in DOMAIN log' \ DOMAIN log : i = Len(log) + 1
    BY <1>1, <2>3 DEF Grows
  <2>5. ASSUME OfKind(log', "retention.expire") = {}
        PROVE  gone' = {} /\ AllScored(log')
    <3>1. OfKind(log, "retention.expire") = {}
      BY <2>3, <2>5 DEF OfKind, Grows
    <3>2. gone = {} /\ ScoredBy(card, log, Len(log)) /\ AllScored(log)
      BY <2>1, <3>1 DEF ScoreInv
    <3>3. ScoredBy(card, log', Len(log))
      BY <1>1, <2>3, <3>2, ScoredStays
    <3>4. (Len(log) + 1) - 1 = Len(log)
      BY <1>1
    <3>5. \A i \in DOMAIN log' \ DOMAIN log : ScoredBy(log'[i].body, log', i - 1)
      BY <2>3, <2>4, <3>3, <3>4
    <3>6. AllScored(log')
      BY <1>1, <2>3, <3>2, <3>5, AllStayScored
    <3> QED
      BY <2>2, <3>2, <3>6
  <2> QED
    BY <2>1, <2>3, <2>5 DEF ScoreInv, Grows
<1>4. CASE LoseScore
  BY <1>4 DEF LoseScore, logVars, ScoreInv
<1> QED
  BY <1>2, <1>3, <1>4 DEF ScorerNext

LEMMA StepKeepsScores == ScoreInv /\ [Next]_vars => ScoreInv'
<1> SUFFICES ASSUME ScoreInv, [Next]_vars PROVE ScoreInv'
  OBVIOUS
<1>1. CASE ScorerStep
  BY <1>1, ScorerKeepsScores DEF ScorerStep
<1>2. CASE ~ScorerStep
  <2>1. /\ IsLog(log) /\ Grows(log', log)
        /\ \A i \in DOMAIN log' \ DOMAIN log :
              /\ log'[i].kind # "score.snapshot"
              /\ log'[i].kind = "retention.expire" => ExpireStep
    BY <1>2, StepGrows DEF ScoreInv
  <2>2. card' = card
    BY <1>2 DEF Next, SensorStep, GatewayStep, DriftStep, ProfileStep, GraphStep, SkillStep,
                TemplateStep, ExpireStep, vars
  <2>3. ASSUME OfKind(log', "retention.expire") = {}
        PROVE  /\ gone' = {}
               /\ card' # Null => ScoredBy(card', log', Len(log'))
               /\ AllScored(log')
    <3>1. OfKind(log, "retention.expire") = {}
      BY <2>1, <2>3 DEF OfKind, Grows
    <3>2. ~ExpireStep
      <4> SUFFICES ASSUME ExpireStep PROVE FALSE
        OBVIOUS
      <4>1. PICK i \in DOMAIN log : Expire(i)
        BY DEF ExpireStep
      <4> DEFINE e == Stamped(NoRun, 0, "retention.expire", [event |-> i])
      <4>2. log' = Append(log, e)
        BY <4>1 DEF Expire
      <4>3. e.kind = "retention.expire"
        BY DEF Stamped
      <4> HIDE DEF e
      <4>4. Len(log') = Len(log) + 1 /\ log'[Len(log) + 1] = e
        BY <2>1, <4>2, AppendGrows
      <4>5. Len(log) + 1 \in OfKind(log', "retention.expire")
        BY <2>1, <4>3, <4>4 DEF Grows, OfKind
      <4> QED
        BY <2>3, <4>5
    <3>3. gone' = {}
      BY <3>1, <3>2, OthersTakeNothing DEF ScoreInv
    <3>4. ASSUME card # Null PROVE ScoredBy(card, log', Len(log'))
      <4>1. ScoredBy(card, log, Len(log)) /\ Len(log) \in 0..Len(log)
        BY <2>1, <3>1, <3>4 DEF ScoreInv, Grows
      <4>2. ScoredBy(card, log', Len(log))
        BY <2>1, <4>1, ScoredStays
      <4> QED
        BY <2>1, <4>2 DEF ScoredBy, Grows
    <3>5. AllScored(log')
      BY <2>1, <3>1, AllStayScored DEF ScoreInv
    <3> QED
      BY <2>2, <3>3, <3>4, <3>5
  <2> QED
    BY <2>1, <2>3 DEF ScoreInv, Grows
<1> QED
  BY <1>1, <1>2

\* The snapshots earlier runs left agree with their log, or a payload expired.
RecordedScores == OfKind(Recorded, "retention.expire") = {} => AllScored(Recorded)

LEMMA NothingScored == Recorded = <<>> => RecordedScores
<1>1. Recorded = <<>> => DOMAIN Recorded = {}
  OBVIOUS
<1> QED
  BY <1>1 DEF RecordedScores, AllScored, OfKind

LEMMA InitScores == RecordedScores /\ Init => ScoreInv
  BY BusAssumption DEF RecordedScores, Init, LogInit, ScorerInit, ScoreInv, IsLog

LEMMA ScoredAgree == SealsTakeNothing /\ ScoreInv => SnapshotsAgree
<1> SUFFICES ASSUME SealsTakeNothing, ScoreInv, OfKind(log, "retention.expire") = {},
                    NEW i \in OfKind(log, "score.snapshot")
             PROVE  /\ log[i].body.scored < i
                    /\ log[i].body = Score(SubSeq(log, 1, log[i].body.scored))
                    /\ \A j \in OfKind(log, "score.snapshot") :
                          log[i].body.scored <= log[j].body.scored =>
                              \A primitive \in DOMAIN log[i].body.scores :
                                  LET earlier == log[i].body.scores[primitive]
                                      later   == log[j].body.scores[primitive]
                                  IN  earlier # Null => later # Null /\ later >= earlier
  BY DEF SnapshotsAgree
<1>1. IsLog(log) /\ Len(log) \in Nat /\ DOMAIN log = 1..Len(log)
  BY DEF ScoreInv, IsLog
<1>2. \A k \in OfKind(log, "score.snapshot") :
          /\ k \in 1..Len(log) /\ log[k].body.scored \in 0..(k - 1)
          /\ log[k].body = Score(SubSeq(log, 1, log[k].body.scored))
  BY <1>1 DEF ScoreInv, AllScored, ScoredBy, OfKind
<1>3. ASSUME NEW j \in OfKind(log, "score.snapshot"), log[i].body.scored <= log[j].body.scored,
             NEW primitive \in DOMAIN log[i].body.scores, log[i].body.scores[primitive] # Null
      PROVE  /\ log[j].body.scores[primitive] # Null
             /\ log[j].body.scores[primitive] >= log[i].body.scores[primitive]
  <2> DEFINE rule == CHOOSE rule \in ScoreRules : rule.primitive = primitive
  <2>1. \A events : /\ DOMAIN Score(events).scores = {r.primitive : r \in ScoreRules}
                    /\ primitive \in {r.primitive : r \in ScoreRules} =>
                           Score(events).scores[primitive] = ScoreOf(rule, events)
    BY DEF Score
  <2>2. log[i].body = Score(SubSeq(log, 1, log[i].body.scored))
    BY <1>2
  <2>3. log[j].body = Score(SubSeq(log, 1, log[j].body.scored))
    BY <1>2
  <2>4. primitive \in {r.primitive : r \in ScoreRules}
    BY <1>3, <2>1, <2>2
  <2>5. rule \in ScoreRules
    BY <2>4
  <2> HIDE DEF rule
  <2>6. /\ log[i].body.scores[primitive] = ScoreOf(rule, SubSeq(log, 1, log[i].body.scored))
        /\ log[j].body.scores[primitive] = ScoreOf(rule, SubSeq(log, 1, log[j].body.scored))
    BY <2>1, <2>2, <2>3, <2>4
  <2>7. log[i].body.scored \in 0..Len(log) /\ log[j].body.scored \in 0..Len(log)
    BY <1>1, <1>2
  <2> QED
    BY <1>1, <1>3, <2>5, <2>6, <2>7, ScoreRises
<1>4. log[i].body.scored < i
  BY <1>2
<1> QED
  BY <1>2, <1>3, <1>4

\* Whatever is appended between the scoring and the recording, and by however
\* many commands: a snapshot is the score of the events it names, and a later
\* one scores no primitive lower, unless a payload expired (score, "Record the
\* score on the ledger it scored").
THEOREM EvidenceAddsUp == SealsTakeNothing /\ RecordedScores /\ Spec => []SnapshotsAgree
<1>1. RecordedScores /\ Init => ScoreInv
  BY InitScores
<1>2. ScoreInv /\ [Next]_vars => ScoreInv'
  BY StepKeepsScores
<1>3. SealsTakeNothing /\ ScoreInv => SnapshotsAgree
  BY ScoredAgree
<1>4. CASE SealsTakeNothing /\ RecordedScores
  BY <1>1, <1>2, <1>3, <1>4, PTL DEF Spec
<1>5. CASE ~(SealsTakeNothing /\ RecordedScores)
  BY <1>5
<1> QED
  BY <1>4, <1>5

-----------------------------------------------------------------------------
(* A seal tells what its run did *)

\* The kinds a seal answers for, and the seal itself.
Told == {"sensor.verdict", "model.call", "drift.report", "tool.result", "run.seal"}

NoneBut(events, id, kind) == \A other \in Told \ {kind} : OfRun(events, id, other) = {}

\* What a gate remembers of its run is what the run recorded, and so for the
\* calls of a gateway run, the reports of a scan and the steps of a skill.
GateSays(events, id, g) ==
    LET verdicts == OfRun(events, id, "sensor.verdict")
    IN  /\ NoneBut(events, id, "sensor.verdict")
        /\ g.sensor \in Sensors
        /\ g.blocked <=> \E j \in verdicts : events[j].body.blocked
        /\ g.broken <=> \E j \in verdicts : events[j].body.verdict = "broken"

BillSays(events, id, b) ==
    LET calls == OfRun(events, id, "model.call")
        known == {c \in calls : events[c].body.cost # Null}
    IN  /\ NoneBut(events, id, "model.call")
        /\ Cardinality(calls) = b.calls
        /\ \A c \in calls : events[c].body.outcome = "ok" /\ events[c].body.cost \in Nat \cup {Null}
        /\ b.cost = SumFunction([c \in known |-> events[c].body.cost])

WalkSays(events, id, walked, n) ==
    LET told == OfRun(events, id, "drift.report")
    IN  /\ NoneBut(events, id, "drift.report")
        /\ DOMAIN walked = 1..Len(Fields)
        /\ Len(walked) = Len(Fields)
        /\ \A i \in DOMAIN walked : walked[i].field = Fields[i].name
        /\ n <= Len(Fields)
        /\ Cardinality(told) = n
        /\ \A r \in told :
              events[r].body.field = Fields[Cardinality({q \in told : q <= r})].name
        /\ \A outcome :
              Cardinality({r \in told : events[r].body.outcome = outcome}) =
                  Cardinality({i \in 1..n : walked[i].outcome = outcome})

StepsSay(events, id, t) ==
    LET results == OfRun(events, id, "tool.result")
    IN  /\ NoneBut(events, id, "tool.result")
        /\ t.failures = 0 <=> \A j \in results : events[j].body.read

IsGate(g) ==
    /\ g = [sensor |-> g.sensor, repairs |-> g.repairs, stage |-> g.stage,
            blocked |-> g.blocked, broken |-> g.broken]
    /\ g.blocked \in BOOLEAN
    /\ g.broken \in BOOLEAN

IsBill(b) == b \in [calls : Nat, cost : Nat]

\* Each command with a run open says so; one without remembers nothing.
GatesSay ==
    /\ gate = [p \in SensorRuns |-> gate[p]]
    /\ \A p \in SensorRuns :
          /\ IsGate(gate[p])
          /\ IF IsOpen(p) THEN GateSays(log, run[p], gate[p]) ELSE gate[p] = NoGate

BillsSay ==
    /\ bill = [p \in GatewayRuns |-> bill[p]]
    /\ \A p \in GatewayRuns :
          /\ IsBill(bill[p])
          /\ IF IsOpen(p) THEN BillSays(log, run[p], bill[p]) ELSE bill[p] = NoBill

ScansSay ==
    /\ reports = [p \in DriftRuns |-> reports[p]]
    /\ \A p \in DriftRuns : IsOpen(p) => WalkSays(log, run[p], reports[p], seq[p])

SkillsSay ==
    /\ task = [p \in SkillRuns |-> task[p]]
    /\ \A p \in SkillRuns :
          /\ IsTask(task[p])
          /\ task[p].failures \in Nat
          /\ task[p].stage = "open" => task[p].failures = 0
          /\ IsOpen(p) <=> task[p].stage = "steps"
          /\ IsOpen(p) => StepsSay(log, run[p], task[p])

\* What every step keeps of the log: each event is of a run there has been, and
\* a run is sealed once, at its end.
LogKept ==
    /\ IsLog(log)
    /\ Runs
    /\ \A i \in DOMAIN log : log[i].run \in Nat /\ log[i].run <= clock
    /\ \A p \in Process : IsOpen(p) => OfRun(log, run[p], "run.seal") = {}

SealInv ==
    /\ LogKept
    /\ GatesSay
    /\ BillsSay
    /\ ScansSay
    /\ SkillsSay
    /\ SealTellsItsRun

-----------------------------------------------------------------------------
\* What a run has on the log, when others append.
LEMMA OwnStays ==
    ASSUME NEW s, NEW t, Grows(t, s), NEW id, NEW kind,
           \A i \in DOMAIN t \ DOMAIN s : t[i].kind = kind => t[i].run # id
    PROVE  /\ OfRun(t, id, kind) = OfRun(s, id, kind)
           /\ \A j \in OfRun(s, id, kind) : t[j] = s[j]
<1>1. \A j \in OfRun(s, id, kind) : j \in DOMAIN s /\ t[j] = s[j]
  BY DEF OfRun, OfKind, Grows
<1>2. OfRun(s, id, kind) \subseteq OfRun(t, id, kind)
  BY <1>1 DEF OfRun, OfKind, Grows
<1>3. OfRun(t, id, kind) \subseteq OfRun(s, id, kind)
  <2> SUFFICES ASSUME NEW j \in OfRun(t, id, kind) PROVE j \in OfRun(s, id, kind)
    OBVIOUS
  <2>1. j \in DOMAIN t /\ t[j].kind = kind /\ t[j].run = id
    BY DEF OfRun, OfKind
  <2>2. j \in DOMAIN s
    BY <2>1
  <2>3. t[j] = s[j]
    BY <2>2 DEF Grows
  <2> QED
    BY <2>1, <2>2, <2>3 DEF OfRun, OfKind
<1> QED
  BY <1>1, <1>2, <1>3

\* And when it appends.
LEMMA OwnAdds ==
    ASSUME IsLog(log), NEW e, log' = Append(log, e)
    PROVE  /\ Grows(log', log)
           /\ Len(log) \in Nat
           /\ Len(log) + 1 \notin OfRun(log, e.run, e.kind)
           /\ OfRun(log', e.run, e.kind) = OfRun(log, e.run, e.kind) \cup {Len(log) + 1}
           /\ log'[Len(log) + 1] = e
           /\ \A j \in OfRun(log, e.run, e.kind) : log'[j] = log[j] /\ j \in Nat /\ j <= Len(log)
           /\ \A i \in DOMAIN log' \ DOMAIN log : log'[i] = e
<1> DEFINE new == Len(log) + 1
<1>1. Grows(log', log) /\ Len(log') = new /\ log'[new] = e
  BY AppendGrows
<1>2. /\ Len(log) \in Nat /\ DOMAIN log = 1..Len(log) /\ DOMAIN log' = 1..new
      /\ \A i \in DOMAIN log : log'[i] = log[i]
  BY <1>1 DEF Grows
<1>3. new \notin DOMAIN log /\ new \in DOMAIN log' /\ \A i \in DOMAIN log' : i = new \/ i \in DOMAIN log
  BY <1>2
<1>4. \A i \in DOMAIN log' \ DOMAIN log : log'[i] = e
  BY <1>1, <1>3
<1>5. \A j \in OfRun(log, e.run, e.kind) :
          j \in DOMAIN log /\ log'[j] = log[j] /\ j \in Nat /\ j <= Len(log)
  BY <1>2 DEF OfRun, OfKind
<1> HIDE DEF new
<1>6. OfRun(log', e.run, e.kind) \subseteq OfRun(log, e.run, e.kind) \cup {new}
  BY <1>2, <1>3 DEF OfRun, OfKind
<1>7. OfRun(log, e.run, e.kind) \cup {new} \subseteq OfRun(log', e.run, e.kind)
  BY <1>1, <1>2, <1>3, <1>5 DEF OfRun, OfKind
<1>8. OfRun(log', e.run, e.kind) = OfRun(log, e.run, e.kind) \cup {new}
  BY <1>6, <1>7
<1>9. new \notin OfRun(log, e.run, e.kind)
  BY <1>3, <1>5
<1> QED
  BY <1>1, <1>2, <1>4, <1>5, <1>8, <1>9 DEF new

LEMMA OwnFinite ==
    ASSUME NEW s, IsLog(s), NEW id, NEW kind
    PROVE  IsFiniteSet(OfRun(s, id, kind)) /\ OfRun(s, id, kind) \subseteq 1..Len(s)
<1>1. Len(s) \in Nat /\ DOMAIN s = 1..Len(s)
  BY DEF IsLog
<1>2. OfRun(s, id, kind) \subseteq 1..Len(s)
  BY <1>1 DEF OfRun, OfKind
<1>3. IsFiniteSet(1..Len(s))
  BY <1>1, FS_Interval
<1> QED
  BY <1>2, <1>3, FS_Subset

\* A step that adds to what seals answer for only in the run of this id.
Adds(id) ==
    /\ Grows(log', log)
    /\ \A i \in DOMAIN log' \ DOMAIN log : log'[i].kind \in Told => log'[i].run = id

LEMMA OwnSame ==
    ASSUME Grows(log', log), NEW id, NEW kind,
           \A i \in DOMAIN log' \ DOMAIN log : log'[i].kind = kind => log'[i].run # id
    PROVE  /\ OfRun(log', id, kind) = OfRun(log, id, kind)
           /\ \A j \in OfRun(log, id, kind) : log'[j] = log[j]
  BY OwnStays

LEMMA AddsNone ==
    ASSUME NEW id, NEW other, other # id, Adds(id), NEW kind \in Told
    PROVE  /\ OfRun(log', other, kind) = OfRun(log, other, kind)
           /\ \A j \in OfRun(log, other, kind) : log'[j] = log[j]
<1>1. Grows(log', log) /\ \A i \in DOMAIN log' \ DOMAIN log : log'[i].kind = kind => log'[i].run # other
  BY DEF Adds
<1> QED
  BY <1>1, OwnStays

LEMMA NoneButStays ==
    ASSUME NEW id, NEW other, other # id, Adds(id), NEW kind
    PROVE  NoneBut(log', other, kind) <=> NoneBut(log, other, kind)
  BY AddsNone DEF NoneBut

\* A run that records nothing has said nothing else.
LEMMA OthersSay ==
    ASSUME NEW id, NEW other, other # id, Adds(id), NEW n, NEW x
    PROVE  /\ GateSays(log, other, x) => GateSays(log', other, x)
           /\ BillSays(log, other, x) => BillSays(log', other, x)
           /\ WalkSays(log, other, x, n) => WalkSays(log', other, x, n)
           /\ StepsSay(log, other, x) => StepsSay(log', other, x)
<1> DEFINE Same(kind) == /\ OfRun(log', other, kind) = OfRun(log, other, kind)
                         /\ \A j \in OfRun(log, other, kind) : log'[j] = log[j]
                         /\ NoneBut(log', other, kind) <=> NoneBut(log, other, kind)
<1>1. /\ Same("sensor.verdict") /\ Same("model.call")
      /\ Same("drift.report") /\ Same("tool.result")
  BY AddsNone, NoneButStays DEF Told
<1>2. GateSays(log, other, x) => GateSays(log', other, x)
  BY <1>1 DEF GateSays
<1>3. BillSays(log, other, x) => BillSays(log', other, x)
  <2> DEFINE calls == OfRun(log, other, "model.call")
             known == {c \in calls : log[c].body.cost # Null}
             known2 == {c \in calls : log'[c].body.cost # Null}
  <2>1. known2 = known
    BY <1>1
  <2>2. [c \in known2 |-> log'[c].body.cost] = [c \in known |-> log[c].body.cost]
    BY <1>1, <2>1
  <2> QED
    BY <1>1, <2>2 DEF BillSays
<1>4. WalkSays(log, other, x, n) => WalkSays(log', other, x, n)
  <2> DEFINE told == OfRun(log, other, "drift.report")
  <2>1. \A outcome : {r \in told : log'[r].body.outcome = outcome}
                        = {r \in told : log[r].body.outcome = outcome}
    BY <1>1
  <2>2. \A r \in told : log'[r].body.field = log[r].body.field
    BY <1>1
  <2>3. OfRun(log', other, "drift.report") = told
        /\ (NoneBut(log', other, "drift.report") <=> NoneBut(log, other, "drift.report"))
    BY <1>1
  <2> HIDE DEF told, Same
  <2> QED
    BY <2>1, <2>2, <2>3 DEF WalkSays, told
<1>5. StepsSay(log, other, x) => StepsSay(log', other, x)
  BY <1>1 DEF StepsSay
<1> QED
  BY <1>2, <1>3, <1>4, <1>5

\* A seal of another run still tells what that run did.
LEMMA OthersTold ==
    ASSUME NEW id, NEW seal, seal.run # id, Adds(id), SealTold(log, seal)
    PROVE  SealTold(log', seal)
<1> DEFINE own(s, kind) == OfRun(s, seal.run, kind)
           Same(kind) == own(log', kind) = own(log, kind) /\ \A j \in own(log, kind) : log'[j] = log[j]
<1>1. /\ Same("sensor.verdict") /\ Same("model.call")
      /\ Same("drift.report") /\ Same("tool.result")
  BY AddsNone DEF Told
<1>2. GateTold(log', seal)
  <2>1. {log'[j].body : j \in own(log, "sensor.verdict")} = {log[j].body : j \in own(log, "sensor.verdict")}
    BY <1>1
  <2> QED
    BY <1>1, <2>1 DEF SealTold, GateTold
<1>3. BillTold(log', seal)
  <2> DEFINE calls == own(log, "model.call")
             known == {c \in calls : log[c].body.cost # Null}
             known2 == {c \in calls : log'[c].body.cost # Null}
  <2>1. known2 = known
    BY <1>1
  <2>2. [c \in known2 |-> log'[c].body.cost] = [c \in known |-> log[c].body.cost]
    BY <1>1, <2>1
  <2> QED
    BY <1>1, <2>2 DEF SealTold, BillTold
<1>4. ScanTold(log', seal)
  <2> DEFINE told == own(log, "drift.report")
  <2>1. \A outcome : {r \in told : log'[r].body.outcome = outcome}
                        = {r \in told : log[r].body.outcome = outcome}
    BY <1>1
  <2>2. \A r \in told : log'[r].body.field = log[r].body.field
    BY <1>1
  <2>3. own(log', "drift.report") = told
    BY <1>1
  <2>4. ScanTold(log, seal)
    BY DEF SealTold
  <2> HIDE DEF Same
  <2> QED
    BY <2>1, <2>2, <2>3, <2>4 DEF ScanTold
<1>5. SkillTold(log', seal)
  BY <1>1 DEF SealTold, SkillTold
<1> QED
  BY <1>2, <1>3, <1>4, <1>5 DEF SealTold

\* A step in which no process but these opens, closes or appends to a run, and
\* whatever is appended is of this run.
Turn(P, id) ==
    /\ Runs'
    /\ clock <= clock'
    /\ \A q \in Process \ P : /\ run'[q] = run[q] /\ seq'[q] = seq[q]
                              /\ run[q] # NoRun => run[q] # id
    /\ Adds(id)
    /\ \A s \in OfKind(log, "run.seal") : log[s].run # id
    /\ \A i \in DOMAIN log' \ DOMAIN log : log'[i].run \in Nat /\ log'[i].run <= clock'

\* Nothing has the id of the next run to open.
LEMMA NextIsNew ==
    ASSUME LogKept
    PROVE  /\ \A q \in Process : run[q] # clock + 1
           /\ \A i \in DOMAIN log : log[i].run # clock + 1
           /\ \A kind : OfRun(log, clock + 1, kind) = {}
<1>1. \A q \in Process : run[q] # clock + 1
  BY DEF LogKept, Runs
<1>2. \A i \in DOMAIN log : log[i].run # clock + 1
  BY DEF LogKept, Runs
<1> QED
  BY <1>1, <1>2 DEF OfRun, OfKind

\* An open run is its process's and is not sealed.
LEMMA OpenIsOwn ==
    ASSUME LogKept, NEW p \in Process, IsOpen(p)
    PROVE  /\ run[p] \in Nat /\ run[p] <= clock
           /\ \A q \in Process \ {p} : run[q] # run[p]
           /\ \A s \in OfKind(log, "run.seal") : log[s].run # run[p]
<1>1. run[p] \in Nat /\ run[p] <= clock /\ \A q \in Process \ {p} : run[q] # run[p]
  BY DEF LogKept, Runs, IsOpen
<1> QED
  BY <1>1 DEF LogKept, OfRun

LEMMA EmitTurn ==
    ASSUME LogKept, NEW p \in Process, IsOpen(p), NEW kind, NEW body, Emit(p, kind, body)
    PROVE  /\ Turn({p}, run[p]) /\ run'[p] = run[p] /\ seq'[p] = seq[p] + 1
           /\ log' = Append(log, Stamped(run[p], seq[p], kind, body))
<1>0. PICK event : event = Stamped(run[p], seq[p], kind, body)
  OBVIOUS
<1>1. /\ log' = Append(log, event) /\ run' = run /\ clock' = clock
      /\ seq' = [seq EXCEPT ![p] = @ + 1]
  BY <1>0 DEF Emit
<1>2. event.run = run[p]
  BY <1>0 DEF Stamped
<1>3. Grows(log', log) /\ \A i \in DOMAIN log' \ DOMAIN log : log'[i] = event
  <2>1. IsLog(log) /\ log' = Append(log, event)
    BY <1>1 DEF LogKept
  <2> QED
    BY <2>1, OwnAdds
<1>4. Runs'
  BY EmitMoves DEF Moved, LogKept
<1>5. seq \in [Process -> Nat] /\ clock \in Nat
  BY DEF LogKept, Runs
<1>6. Adds(run[p])
  BY <1>2, <1>3 DEF Adds
<1>7. \A q \in Process \ {p} : run'[q] = run[q] /\ seq'[q] = seq[q] /\ run[q] # run[p]
  BY <1>1, <1>5, OpenIsOwn
<1>8. \A i \in DOMAIN log' \ DOMAIN log : log'[i].run \in Nat /\ log'[i].run <= clock'
  BY <1>1, <1>2, <1>3, OpenIsOwn
<1>9. \A s \in OfKind(log, "run.seal") : log[s].run # run[p]
  BY OpenIsOwn
<1>10. run'[p] = run[p] /\ seq'[p] = seq[p] + 1 /\ clock <= clock'
  BY <1>1, <1>5
<1>11. Turn({p}, run[p])
  BY <1>4, <1>6, <1>7, <1>8, <1>9, <1>10 DEF Turn
<1> QED
  BY <1>0, <1>1, <1>10, <1>11

LEMMA DepartTurn ==
    ASSUME LogKept, NEW p \in Process, IsOpen(p), NEW kind, NEW body, Depart(p, kind, body)
    PROVE  /\ Turn({p}, run[p]) /\ run'[p] = NoRun
           /\ log' = Append(log, Stamped(run[p], seq[p], kind, body))
<1>0. PICK event : event = Stamped(run[p], seq[p], kind, body)
  OBVIOUS
<1>1. /\ log' = Append(log, event) /\ run' = [run EXCEPT ![p] = NoRun] /\ clock' = clock
      /\ seq' = [seq EXCEPT ![p] = 0] /\ Leave(p)
  BY <1>0 DEF Depart, Leave
<1>2. event.run = run[p]
  BY <1>0 DEF Stamped
<1>3. Grows(log', log) /\ \A i \in DOMAIN log' \ DOMAIN log : log'[i] = event
  <2>1. IsLog(log) /\ log' = Append(log, event)
    BY <1>1 DEF LogKept
  <2> QED
    BY <2>1, OwnAdds
<1>4. Runs' /\ run'[p] = NoRun
  BY <1>1, LeaveMoves DEF Moved, LogKept
<1>5. seq \in [Process -> Nat] /\ clock \in Nat /\ run \in [Process -> Nat]
  BY DEF LogKept, Runs
<1>6. Adds(run[p])
  BY <1>2, <1>3 DEF Adds
<1>7. \A q \in Process \ {p} : run'[q] = run[q] /\ seq'[q] = seq[q] /\ run[q] # run[p]
  BY <1>1, <1>5, OpenIsOwn
<1>8. \A i \in DOMAIN log' \ DOMAIN log : log'[i].run \in Nat /\ log'[i].run <= clock'
  BY <1>1, <1>2, <1>3, OpenIsOwn
<1>9. \A s \in OfKind(log, "run.seal") : log[s].run # run[p]
  BY OpenIsOwn
<1>10. clock <= clock'
  BY <1>1, <1>5
<1>11. Turn({p}, run[p])
  BY <1>4, <1>6, <1>7, <1>8, <1>9, <1>10 DEF Turn
<1> QED
  BY <1>0, <1>1, <1>4, <1>11

\* A run ends with nothing on the log to show for it.
LEMMA LeaveTurn ==
    ASSUME LogKept, NEW p \in Process, Leave(p), log' = log
    PROVE  Turn({p}, clock + 1) /\ run'[p] = NoRun
<1>1. /\ run' = [run EXCEPT ![p] = NoRun] /\ clock' = clock /\ seq' = [seq EXCEPT ![p] = 0]
  BY DEF Leave
<1>2. Runs' /\ run'[p] = NoRun
  BY LeaveMoves DEF Moved, LogKept
<1>3. seq \in [Process -> Nat] /\ clock \in Nat /\ run \in [Process -> Nat]
  BY DEF LogKept, Runs
<1>4. Adds(clock + 1) /\ \A i \in DOMAIN log' \ DOMAIN log : FALSE
  BY GrowsItself DEF Adds, LogKept
<1>5. \A q \in Process \ {p} : run'[q] = run[q] /\ seq'[q] = seq[q] /\ run[q] # clock + 1
  BY <1>1, <1>3, NextIsNew
<1>6. \A s \in OfKind(log, "run.seal") : log[s].run # clock + 1
  BY NextIsNew DEF OfKind
<1>7. clock <= clock'
  BY <1>1, <1>3
<1> QED
  BY <1>2, <1>4, <1>5, <1>6, <1>7 DEF Turn

\* What nobody's run appends is of no kind a seal answers for.
LEMMA QuietTurn ==
    ASSUME LogKept, UNCHANGED <<run, seq, clock>>, NEW kinds, kinds \cap Told = {}, GrewBy(kinds),
           \A i \in DOMAIN log' \ DOMAIN log : log'[i].run = NoRun
    PROVE  Turn({}, clock + 1)
<1>1. Runs' /\ clock \in Nat
  BY DEF LogKept, Runs
<1>2. Adds(clock + 1)
  BY DEF Adds, GrewBy
<1>3. \A q \in Process : run'[q] = run[q] /\ seq'[q] = seq[q] /\ run[q] # clock + 1
  BY NextIsNew
<1>4. \A s \in OfKind(log, "run.seal") : log[s].run # clock + 1
  BY NextIsNew DEF OfKind
<1> QED
  BY <1>1, <1>2, <1>3, <1>4 DEF Turn, NoRun

LEMMA OpenTurn ==
    ASSUME LogKept, NEW p \in Process, NEW S, S \cap Told = {}, NEW kinds \in Seq(S), NEW body,
           OpenRun(p, kinds, body)
    PROVE  /\ Turn({p}, clock + 1) /\ run'[p] = clock + 1 /\ seq'[p] = Len(kinds)
           /\ run'[p] # NoRun
           /\ \A kind \in Told : OfRun(log', clock + 1, kind) = {}
<1> DEFINE first == [i \in DOMAIN kinds |-> Stamped(clock', i - 1, kinds[i], body)]
<1>1. /\ clock' = clock + 1 /\ run' = [run EXCEPT ![p] = clock + 1]
      /\ seq' = [seq EXCEPT ![p] = Len(kinds)]
      /\ log' = log \o first
  BY DEF OpenRun
<1>2. GrewBy(S)
  BY OpenGrows DEF LogKept
<1>3. Runs' /\ run'[p] = clock + 1
  BY OpenMoves DEF Moved, LogKept
<1>4. seq \in [Process -> Nat] /\ clock \in Nat /\ run \in [Process -> Nat]
  BY DEF LogKept, Runs
<1>5. \A i \in DOMAIN log' \ DOMAIN log : log'[i].run = clock + 1
  <2>1. DOMAIN kinds = 1..Len(kinds) /\ Len(kinds) \in Nat
    OBVIOUS
  <2>2. IsLog(first)
    <3>1. first \in Seq({first[i] : i \in DOMAIN first})
      BY <2>1
    <3> QED
      BY <3>1 DEF IsLog
  <2>3. \A j \in DOMAIN first : first[j].run = clock + 1
    BY <1>1 DEF Stamped
  <2> HIDE DEF first
  <2>4. \A i \in DOMAIN log' \ DOMAIN log : \E j \in DOMAIN first : log'[i] = first[j]
    BY <1>1, <2>2, ConcatGrows DEF LogKept
  <2> QED
    BY <2>3, <2>4
<1>6. Adds(clock + 1)
  BY <1>2, <1>5 DEF Adds, GrewBy
<1>7. \A q \in Process \ {p} : run'[q] = run[q] /\ seq'[q] = seq[q] /\ run[q] # clock + 1
  BY <1>1, <1>4, NextIsNew
<1>8. \A s \in OfKind(log, "run.seal") : log[s].run # clock + 1
  BY NextIsNew DEF OfKind
<1>9. \A i \in DOMAIN log' \ DOMAIN log : log'[i].run \in Nat /\ log'[i].run <= clock'
  <2>1. clock' \in Nat /\ clock' = clock + 1
    BY <1>1, <1>4
  <2> QED
    BY <1>5, <2>1
<1>10. Turn({p}, clock + 1)
  <2>1. clock <= clock'
    BY <1>1, <1>4
  <2> QED
    BY <1>3, <1>6, <1>7, <1>8, <1>9, <2>1 DEF Turn
<1>11. \A kind \in Told : OfRun(log', clock + 1, kind) = {}
  <2> SUFFICES ASSUME NEW kind \in Told, NEW j \in OfRun(log', clock + 1, kind) PROVE FALSE
    OBVIOUS
  <2>1. j \in DOMAIN log' /\ log'[j].kind = kind /\ log'[j].run = clock + 1
    BY DEF OfRun, OfKind
  <2>2. j \in DOMAIN log
    BY <1>2, <2>1 DEF GrewBy
  <2>3. log'[j] = log[j]
    BY <1>2, <2>2 DEF GrewBy, Grows
  <2> QED
    BY <2>1, <2>2, <2>3, NextIsNew
<1> QED
  BY <1>1, <1>3, <1>4, <1>10, <1>11 DEF NoRun

-----------------------------------------------------------------------------
\* What a turn leaves as it was.
LEMMA TurnKeepsLog ==
    ASSUME LogKept, NEW P, NEW id, Turn(P, id),
           \A p \in P : run'[p] # NoRun => OfRun(log', run'[p], "run.seal") = {}
    PROVE  LogKept'
<1>1. Grows(log', log)
  BY DEF Turn, Adds
<1>2. \A i \in DOMAIN log' : log'[i].run \in Nat /\ log'[i].run <= clock'
  <2>1. clock \in Nat /\ clock' \in Nat /\ clock <= clock'
    BY DEF LogKept, Turn, Runs
  <2>2. \A i \in DOMAIN log : log'[i] = log[i] /\ log[i].run \in Nat /\ log[i].run <= clock
    BY <1>1 DEF Grows, LogKept
  <2>3. \A i \in DOMAIN log : log'[i].run \in Nat /\ log'[i].run <= clock'
    BY <2>1, <2>2
  <2> QED
    BY <2>3 DEF Turn
<1>3. ASSUME NEW p \in Process, run'[p] # NoRun PROVE OfRun(log', run'[p], "run.seal") = {}
  <2> SUFFICES ASSUME p \notin P PROVE OfRun(log', run'[p], "run.seal") = {}
    BY <1>3
  <2>1. run'[p] = run[p] /\ run[p] # NoRun /\ run[p] # id
    BY <1>3 DEF Turn
  <2>2. OfRun(log, run[p], "run.seal") = {}
    BY <2>1 DEF LogKept, IsOpen
  <2>3. Adds(id) /\ "run.seal" \in Told
    BY DEF Turn, Told
  <2>4. OfRun(log', run[p], "run.seal") = OfRun(log, run[p], "run.seal")
    BY <2>1, <2>3, AddsNone
  <2> QED
    BY <2>1, <2>2, <2>4
<1> QED
  BY <1>1, <1>2, <1>3 DEF LogKept, Turn, Grows, IsOpen

LEMMA TurnKeepsSeals ==
    ASSUME SealTellsItsRun, NEW P, NEW id, Turn(P, id),
           \A s \in OfKind(log', "run.seal") \ DOMAIN log : SealTold(log', log'[s])
    PROVE  SealTellsItsRun'
<1> SUFFICES ASSUME NEW s \in OfKind(log', "run.seal"), s \in DOMAIN log
             PROVE  SealTold(log', log'[s])
  BY DEF SealTellsItsRun
<1>1. log'[s] = log[s]
  BY DEF Turn, Adds, Grows
<1>2. s \in OfKind(log, "run.seal")
  BY <1>1 DEF OfKind
<1>3. log[s].run # id /\ Adds(id)
  BY <1>2 DEF Turn
<1>4. SealTold(log, log[s])
  BY <1>2 DEF SealTellsItsRun
<1> QED
  BY <1>1, <1>3, <1>4, OthersTold

LEMMA TurnKeepsGates ==
    ASSUME GatesSay, NEW P, NEW id, Turn(P, id), gate' = [p \in SensorRuns |-> gate'[p]],
           \A p \in SensorRuns \ P : gate'[p] = gate[p],
           \A p \in SensorRuns \cap P :
               /\ IsGate(gate'[p])
               /\ run'[p] # NoRun => GateSays(log', run'[p], gate'[p])
               /\ run'[p] = NoRun => gate'[p] = NoGate
    PROVE  GatesSay'
<1> SUFFICES ASSUME NEW p \in SensorRuns
             PROVE  /\ IsGate(gate'[p])
                    /\ run'[p] # NoRun => GateSays(log', run'[p], gate'[p])
                    /\ run'[p] = NoRun => gate'[p] = NoGate
  BY DEF GatesSay, IsOpen
<1> SUFFICES ASSUME p \notin P
             PROVE  /\ IsGate(gate'[p])
                    /\ run'[p] # NoRun => GateSays(log', run'[p], gate'[p])
                    /\ run'[p] = NoRun => gate'[p] = NoGate
  OBVIOUS
<1>1. run'[p] = run[p] /\ gate'[p] = gate[p] /\ (run[p] # NoRun => run[p] # id) /\ Adds(id)
  BY SensorAssumption DEF Turn
<1>2. GateSays(log, run[p], gate[p]) /\ run[p] # NoRun => GateSays(log', run[p], gate[p])
  BY <1>1, OthersSay
<1> QED
  BY <1>1, <1>2 DEF GatesSay, IsOpen

LEMMA TurnKeepsBills ==
    ASSUME BillsSay, NEW P, NEW id, Turn(P, id), bill' = [p \in GatewayRuns |-> bill'[p]],
           \A p \in GatewayRuns \ P : bill'[p] = bill[p],
           \A p \in GatewayRuns \cap P :
               /\ IsBill(bill'[p])
               /\ run'[p] # NoRun => BillSays(log', run'[p], bill'[p])
               /\ run'[p] = NoRun => bill'[p] = NoBill
    PROVE  BillsSay'
<1> SUFFICES ASSUME NEW p \in GatewayRuns
             PROVE  /\ IsBill(bill'[p])
                    /\ run'[p] # NoRun => BillSays(log', run'[p], bill'[p])
                    /\ run'[p] = NoRun => bill'[p] = NoBill
  BY DEF BillsSay, IsOpen
<1> SUFFICES ASSUME p \notin P
             PROVE  /\ IsBill(bill'[p])
                    /\ run'[p] # NoRun => BillSays(log', run'[p], bill'[p])
                    /\ run'[p] = NoRun => bill'[p] = NoBill
  OBVIOUS
<1>1. run'[p] = run[p] /\ bill'[p] = bill[p] /\ (run[p] # NoRun => run[p] # id) /\ Adds(id)
  BY GatewayAssumption DEF Turn
<1>2. BillSays(log, run[p], bill[p]) /\ run[p] # NoRun => BillSays(log', run[p], bill[p])
  BY <1>1, OthersSay
<1> QED
  BY <1>1, <1>2 DEF BillsSay, IsOpen

LEMMA TurnKeepsScans ==
    ASSUME ScansSay, NEW P, NEW id, Turn(P, id), reports' = [p \in DriftRuns |-> reports'[p]],
           \A p \in DriftRuns \ P : reports'[p] = reports[p],
           \A p \in DriftRuns \cap P :
               run'[p] # NoRun => WalkSays(log', run'[p], reports'[p], seq'[p])
    PROVE  ScansSay'
<1> SUFFICES ASSUME NEW p \in DriftRuns, run'[p] # NoRun
             PROVE  WalkSays(log', run'[p], reports'[p], seq'[p])
  BY DEF ScansSay, IsOpen
<1> SUFFICES ASSUME p \notin P PROVE WalkSays(log', run'[p], reports'[p], seq'[p])
  OBVIOUS
<1>1. /\ run'[p] = run[p] /\ reports'[p] = reports[p] /\ seq'[p] = seq[p]
      /\ run[p] # NoRun /\ run[p] # id /\ Adds(id)
  BY DriftAssumption DEF Turn
<1>2. WalkSays(log, run[p], reports[p], seq[p])
  BY <1>1 DEF ScansSay, IsOpen
<1>3. WalkSays(log', run[p], reports[p], seq[p])
  BY <1>1, <1>2, OthersSay
<1> QED
  BY <1>1, <1>3

LEMMA TurnKeepsSkills ==
    ASSUME SkillsSay, NEW P, NEW id, Turn(P, id), task' = [p \in SkillRuns |-> task'[p]],
           \A p \in SkillRuns \ P : task'[p] = task[p],
           \A p \in SkillRuns \cap P :
               /\ IsTask(task'[p]) /\ task'[p].failures \in Nat
               /\ task'[p].stage = "open" => task'[p].failures = 0
               /\ run'[p] # NoRun <=> task'[p].stage = "steps"
               /\ run'[p] # NoRun => StepsSay(log', run'[p], task'[p])
    PROVE  SkillsSay'
<1> SUFFICES ASSUME NEW p \in SkillRuns
             PROVE  /\ IsTask(task'[p]) /\ task'[p].failures \in Nat
                    /\ task'[p].stage = "open" => task'[p].failures = 0
                    /\ run'[p] # NoRun <=> task'[p].stage = "steps"
                    /\ run'[p] # NoRun => StepsSay(log', run'[p], task'[p])
  BY DEF SkillsSay, IsOpen
<1> SUFFICES ASSUME p \notin P
             PROVE  /\ IsTask(task'[p]) /\ task'[p].failures \in Nat
                    /\ task'[p].stage = "open" => task'[p].failures = 0
                    /\ run'[p] # NoRun <=> task'[p].stage = "steps"
                    /\ run'[p] # NoRun => StepsSay(log', run'[p], task'[p])
  OBVIOUS
<1>1. run'[p] = run[p] /\ task'[p] = task[p] /\ (run[p] # NoRun => run[p] # id) /\ Adds(id)
  BY SkillAssumption DEF Turn
<1>2. StepsSay(log, run[p], task[p]) /\ run[p] # NoRun => StepsSay(log', run[p], task[p])
  BY <1>1, OthersSay
<1> QED
  BY <1>1, <1>2 DEF SkillsSay, IsOpen

\* A command whose processes a turn leaves alone says what it said.
LEMMA OthersKeepSaying ==
    ASSUME SealInv, NEW P, NEW id, Turn(P, id)
    PROVE  /\ P \cap SensorRuns = {} /\ gate' = gate => GatesSay'
           /\ P \cap GatewayRuns = {} /\ bill' = bill => BillsSay'
           /\ P \cap DriftRuns = {} /\ reports' = reports => ScansSay'
           /\ P \cap SkillRuns = {} /\ task' = task => SkillsSay'
<1>1. ASSUME P \cap SensorRuns = {}, gate' = gate PROVE GatesSay'
  <2>1. GatesSay /\ gate' = [p \in SensorRuns |-> gate'[p]]
    BY <1>1 DEF SealInv, GatesSay
  <2>2. (\A p \in SensorRuns \ P : gate'[p] = gate[p]) /\ SensorRuns \cap P = {}
    BY <1>1
  <2> QED
    BY <2>1, <2>2, TurnKeepsGates
<1>2. ASSUME P \cap GatewayRuns = {}, bill' = bill PROVE BillsSay'
  <2>1. BillsSay /\ bill' = [p \in GatewayRuns |-> bill'[p]]
    BY <1>2 DEF SealInv, BillsSay
  <2>2. (\A p \in GatewayRuns \ P : bill'[p] = bill[p]) /\ GatewayRuns \cap P = {}
    BY <1>2
  <2> QED
    BY <2>1, <2>2, TurnKeepsBills
<1>3. ASSUME P \cap DriftRuns = {}, reports' = reports PROVE ScansSay'
  <2>1. ScansSay /\ reports' = [p \in DriftRuns |-> reports'[p]]
    BY <1>3 DEF SealInv, ScansSay
  <2>2. (\A p \in DriftRuns \ P : reports'[p] = reports[p]) /\ DriftRuns \cap P = {}
    BY <1>3
  <2> QED
    BY <2>1, <2>2, TurnKeepsScans
<1>4. ASSUME P \cap SkillRuns = {}, task' = task PROVE SkillsSay'
  <2>1. SkillsSay /\ task' = [p \in SkillRuns |-> task'[p]]
    BY <1>4 DEF SealInv, SkillsSay
  <2>2. (\A p \in SkillRuns \ P : task'[p] = task[p]) /\ SkillRuns \cap P = {}
    BY <1>4
  <2> QED
    BY <2>1, <2>2, TurnKeepsSkills
<1> QED
  BY <1>1, <1>2, <1>3, <1>4

-----------------------------------------------------------------------------
\* What it appends of one kind it does not append of another.
LEMMA OwnMore ==
    ASSUME IsLog(log), NEW e, log' = Append(log, e)
    PROVE  /\ \A other : other # e.kind =>
                 /\ OfRun(log', e.run, other) = OfRun(log, e.run, other)
                 /\ \A j \in OfRun(log, e.run, other) : log'[j] = log[j]
           /\ NoneBut(log, e.run, e.kind) => NoneBut(log', e.run, e.kind)
<1>1. Grows(log', log) /\ \A i \in DOMAIN log' \ DOMAIN log : log'[i] = e
  BY OwnAdds
<1>2. ASSUME NEW other, other # e.kind
      PROVE  /\ OfRun(log', e.run, other) = OfRun(log, e.run, other)
             /\ \A j \in OfRun(log, e.run, other) : log'[j] = log[j]
  <2>1. PICK id : id = e.run
    OBVIOUS
  <2>2. Grows(log', log)
        /\ \A i \in DOMAIN log' \ DOMAIN log : log'[i].kind = other => log'[i].run # id
    BY <1>1, <1>2, <2>1
  <2>3. /\ OfRun(log', id, other) = OfRun(log, id, other)
        /\ \A j \in OfRun(log, id, other) : log'[j] = log[j]
    BY <2>2, OwnSame
  <2> QED
    BY <2>1, <2>3
<1>3. NoneBut(log, e.run, e.kind) => NoneBut(log', e.run, e.kind)
  BY <1>2 DEF NoneBut
<1> QED
  BY <1>2, <1>3

\* The seal of a run is the only one the step adds, and the run has on the log
\* what it had.
LEMMA SealAdds ==
    ASSUME LogKept, NEW p \in Process, IsOpen(p), NEW body, Depart(p, "run.seal", body)
    PROVE  /\ \A s \in OfKind(log', "run.seal") \ DOMAIN log :
                 log'[s].run = run[p] /\ log'[s].body = body
           /\ \A kind \in Told \ {"run.seal"} :
                 /\ OfRun(log', run[p], kind) = OfRun(log, run[p], kind)
                 /\ \A j \in OfRun(log, run[p], kind) : log'[j] = log[j]
<1>1. PICK e : e = Stamped(run[p], seq[p], "run.seal", body)
  OBVIOUS
<1>2. e.run = run[p] /\ e.kind = "run.seal" /\ e.body = body
  BY <1>1 DEF Stamped
<1>3. log' = Append(log, e) /\ IsLog(log)
  BY <1>1 DEF Depart, LogKept
<1>4. \A s \in OfKind(log', "run.seal") \ DOMAIN log : log'[s] = e
  BY <1>3, OwnAdds DEF OfKind
<1>5. \A other : other # e.kind =>
          /\ OfRun(log', e.run, other) = OfRun(log, e.run, other)
          /\ \A j \in OfRun(log, e.run, other) : log'[j] = log[j]
  BY <1>3, OwnMore
<1> QED
  BY <1>2, <1>4, <1>5

\* A run that has appended nothing a seal answers for.
LEMMA NothingSaid ==
    ASSUME NEW s, NEW id, \A kind \in Told : OfRun(s, id, kind) = {}
    PROVE  \A kind : NoneBut(s, id, kind)
  BY DEF NoneBut

-----------------------------------------------------------------------------
\* The sensor bus seals what its gate remembers.
LEMMA SensorTurn ==
    ASSUME SealInv, UNCHANGED <<bill, reports, task>>, NEW p \in SensorRuns, NEW id, Turn({p}, id),
           NEW g, gate' = [gate EXCEPT ![p] = g], IsGate(g),
           run'[p] # NoRun => GateSays(log', run'[p], g),
           run'[p] = NoRun => g = NoGate,
           \A s \in OfKind(log', "run.seal") \ DOMAIN log : SealTold(log', log'[s])
    PROVE  SealInv'
<1>1. LogKept'
  <2>1. run'[p] # NoRun => OfRun(log', run'[p], "run.seal") = {}
    BY DEF GateSays, NoneBut, Told
  <2> QED
    BY <2>1, TurnKeepsLog DEF SealInv
<1>2. SealTellsItsRun'
  BY TurnKeepsSeals DEF SealInv
<1>3. GatesSay'
  <2>1. /\ gate' = [q \in SensorRuns |-> gate'[q]] /\ gate'[p] = g
        /\ \A q \in SensorRuns \ {p} : gate'[q] = gate[q]
    BY DEF SealInv, GatesSay
  <2>2. /\ IsGate(gate'[p])
        /\ run'[p] # NoRun => GateSays(log', run'[p], gate'[p])
        /\ run'[p] = NoRun => gate'[p] = NoGate
    BY <2>1
  <2>3. GatesSay
    BY DEF SealInv
  <2> QED
    BY <2>1, <2>2, <2>3, TurnKeepsGates
<1>4. BillsSay' /\ ScansSay' /\ SkillsSay'
  <2>1. {p} \cap GatewayRuns = {} /\ {p} \cap DriftRuns = {} /\ {p} \cap SkillRuns = {}
    BY BusAssumption
  <2> QED
    BY <2>1, OthersKeepSaying
<1> QED
  BY <1>1, <1>2, <1>3, <1>4 DEF SealInv

\* A gate's fields, changed one at a time.
Gates(sensor, repairs, stage, blocked, broken) ==
    [sensor |-> sensor, repairs |-> repairs, stage |-> stage, blocked |-> blocked,
     broken |-> broken]

LEMMA NewGate ==
    ASSUME NEW r, NEW s, NEW g, g = [NoGate EXCEPT !.sensor = r, !.repairs = s, !.stage = "first"]
    PROVE  g = Gates(r, s, "first", FALSE, FALSE)
<1>0. PICK f : f = FALSE
  OBVIOUS
<1>a. PICK x : x = NoGate
  OBVIOUS
<1>b. x = Gates("none", f, "closed", f, f)
  BY <1>0, <1>a DEF NoGate, NoSensor, Gates
<1>1. [x EXCEPT !.sensor = r] = Gates(r, f, "closed", f, f)
  BY <1>b DEF Gates
<1>2. [Gates(r, f, "closed", f, f) EXCEPT !.repairs = s] = Gates(r, s, "closed", f, f)
  BY DEF Gates
<1>3. [Gates(r, s, "closed", f, f) EXCEPT !.stage = "first"] = Gates(r, s, "first", f, f)
  BY DEF Gates
<1>4. [x EXCEPT !.sensor = r, !.repairs = s, !.stage = "first"]
          = [[[x EXCEPT !.sensor = r] EXCEPT !.repairs = s] EXCEPT !.stage = "first"]
  OBVIOUS
<1>5. g = [x EXCEPT !.sensor = r, !.repairs = s, !.stage = "first"]
  BY <1>a
<1> QED
  BY <1>0, <1>1, <1>2, <1>3, <1>4, <1>5

LEMMA MovedGate ==
    ASSUME NEW x, IsGate(x), NEW b, NEW c, NEW d, NEW g,
           g = [x EXCEPT !.blocked = b, !.broken = c, !.stage = d]
    PROVE  g = Gates(x.sensor, x.repairs, d, b, c)
<1>1. [x EXCEPT !.blocked = b] = Gates(x.sensor, x.repairs, x.stage, b, x.broken)
  BY DEF Gates, IsGate
<1>2. [Gates(x.sensor, x.repairs, x.stage, b, x.broken) EXCEPT !.broken = c]
          = Gates(x.sensor, x.repairs, x.stage, b, c)
  BY DEF Gates
<1>3. [Gates(x.sensor, x.repairs, x.stage, b, c) EXCEPT !.stage = d]
          = Gates(x.sensor, x.repairs, d, b, c)
  BY DEF Gates
<1>4. [x EXCEPT !.blocked = b, !.broken = c, !.stage = d]
          = [[[x EXCEPT !.blocked = b] EXCEPT !.broken = c] EXCEPT !.stage = d]
  OBVIOUS
<1> QED
  BY <1>1, <1>2, <1>3, <1>4

LEMMA OpenSensorSays ==
    ASSUME SealInv, UNCHANGED <<bill, reports, task>>, NEW p \in SensorRuns,
           NEW sensor \in Sensors, NEW repairs \in BOOLEAN, OpenSensorRun(p, sensor, repairs)
    PROVE  SealInv'
<1>0. p \in Process /\ LogKept
  BY SensorAssumption DEF SealInv
<1>1. PICK body : OpenRun(p, <<"run.open">>, body)
  BY DEF OpenSensorRun
<1>2. <<"run.open">> \in Seq({"run.open"}) /\ {"run.open"} \cap Told = {}
  BY DEF Told
<1>3. /\ Turn({p}, clock + 1) /\ run'[p] = clock + 1 /\ run'[p] # NoRun
      /\ \A kind \in Told : OfRun(log', clock + 1, kind) = {}
  BY <1>0, <1>1, <1>2, OpenTurn
<1>4. PICK g : g = [NoGate EXCEPT !.sensor = sensor, !.repairs = repairs, !.stage = "first"]
  OBVIOUS
<1>5. gate' = [gate EXCEPT ![p] = g]
  BY <1>4 DEF OpenSensorRun
<1>a. g = Gates(sensor, repairs, "first", FALSE, FALSE)
  BY <1>4, NewGate
<1>6. IsGate(g) /\ g.sensor \in Sensors /\ ~g.blocked /\ ~g.broken
  BY <1>a DEF IsGate, Gates
<1>7. GateSays(log', run'[p], g)
  BY <1>3, <1>6, NothingSaid DEF GateSays, Told
<1>8. OfKind(log', "run.seal") \ DOMAIN log = {}
  <2>1. GrewBy({"run.open"})
    BY <1>0, <1>1, <1>2, OpenGrows DEF LogKept
  <2> QED
    BY <2>1 DEF GrewBy, OfKind
<1> QED
  BY <1>3, <1>5, <1>6, <1>7, <1>8, SensorTurn

LEMMA GateSaysMore ==
    ASSUME SealInv, UNCHANGED <<bill, reports, task>>, NEW p \in SensorRuns, Gate(p)
    PROVE  SealInv'
<1> DEFINE old == gate[p]
           stage == IF old.stage = "first" /\ old.repairs
                       /\ Evaluate(old.sensor, artifact).verdict = "fail"
                       /\ Evaluate(old.sensor, artifact).blocked
                    THEN "repair" ELSE "seal"
<1>0. p \in Process /\ LogKept /\ IsGate(old)
  BY SensorAssumption DEF SealInv, GatesSay
<1>1. IsOpen(p) /\ GateSays(log, run[p], old)
  BY DEF SealInv, GatesSay, Gate, NoGate
<1>2. PICK verdict : verdict = Evaluate(old.sensor, artifact)
  OBVIOUS
<1>3. verdict.blocked \in BOOLEAN
  BY <1>1, <1>2, SensorAssumption DEF GateSays, Evaluate
<1>4. Emit(p, "sensor.verdict", verdict)
  BY <1>2 DEF Gate
<1>5. /\ Turn({p}, run[p]) /\ run'[p] = run[p]
      /\ log' = Append(log, Stamped(run[p], seq[p], "sensor.verdict", verdict))
  BY <1>0, <1>1, <1>4, EmitTurn
<1>6. PICK x, b, c, d : /\ x = old /\ d = stage
                        /\ b = (old.blocked \/ verdict.blocked)
                        /\ c = (old.broken \/ verdict.verdict = "broken")
  OBVIOUS
<1>a. PICK g : g = [x EXCEPT !.blocked = b, !.broken = c, !.stage = d]
  OBVIOUS
<1>7. gate' = [gate EXCEPT ![p] = g]
  BY <1>2, <1>6, <1>a DEF Gate
<1>b. g = Gates(x.sensor, x.repairs, d, b, c)
  <2>1. IsGate(x)
    BY <1>0, <1>6
  <2> QED
    BY <1>a, <2>1, MovedGate
<1>c. b \in BOOLEAN /\ c \in BOOLEAN
  BY <1>6
<1>8. IsGate(g)
  BY <1>b, <1>c DEF IsGate, Gates
<1>9. GateSays(log', run[p], g)
  <2>1. PICK e, new : /\ e = Stamped(run[p], seq[p], "sensor.verdict", verdict)
                      /\ new = Len(log) + 1
    OBVIOUS
  <2>a. /\ e.run = run[p] /\ e.kind = "sensor.verdict" /\ e.body = verdict
        /\ log' = Append(log, e) /\ IsLog(log)
    BY <1>0, <1>5, <2>1 DEF Stamped, LogKept
  <2>b. /\ OfRun(log', e.run, e.kind) = OfRun(log, e.run, e.kind) \cup {new}
        /\ log'[new] = e
        /\ \A j \in OfRun(log, e.run, e.kind) : log'[j] = log[j]
    BY <2>1, <2>a, OwnAdds
  <2>c. NoneBut(log, e.run, e.kind) => NoneBut(log', e.run, e.kind)
    BY <2>a, OwnMore
  <2>2. /\ OfRun(log', run[p], "sensor.verdict") = OfRun(log, run[p], "sensor.verdict") \cup {new}
        /\ log'[new].body = verdict
        /\ \A j \in OfRun(log, run[p], "sensor.verdict") : log'[j] = log[j]
        /\ NoneBut(log, run[p], "sensor.verdict") => NoneBut(log', run[p], "sensor.verdict")
    BY <2>a, <2>b, <2>c
  <2>3. g.sensor = old.sensor
    BY <1>6, <1>b DEF Gates
  <2>4. g.blocked <=> (old.blocked \/ verdict.blocked)
    BY <1>6, <1>b DEF Gates
  <2>5. g.broken <=> (old.broken \/ verdict.verdict = "broken")
    BY <1>6, <1>b DEF Gates
  <2> QED
    BY <1>1, <2>2, <2>3, <2>4, <2>5 DEF GateSays
<1>10. OfKind(log', "run.seal") \ DOMAIN log = {}
  <2>1. GrewBy({"sensor.verdict"})
    BY <1>0, <1>4, EmitGrows DEF LogKept
  <2> QED
    BY <2>1 DEF GrewBy, OfKind
<1>11. run'[p] # NoRun
  BY <1>1, <1>5 DEF IsOpen
<1> QED
  BY <1>5, <1>7, <1>8, <1>9, <1>10, <1>11, SensorTurn

LEMMA SealSensorSays ==
    ASSUME SealInv, UNCHANGED <<bill, reports, task>>, NEW p \in SensorRuns, SealSensorRun(p)
    PROVE  SealInv'
<1> DEFINE outcome == IF gate[p].broken THEN "sealed-with-broken-sensor"
                      ELSE IF gate[p].blocked THEN "sealed-with-blocking-failure"
                      ELSE "clean"
<1>0. p \in Process /\ LogKept
  BY SensorAssumption DEF SealInv
<1>1. IsOpen(p) /\ GateSays(log, run[p], gate[p]) /\ IsGate(gate[p])
  BY DEF SealInv, GatesSay, SealSensorRun, NoGate
<1>2. PICK body : body = [outcome |-> outcome]
  OBVIOUS
<1>3. Depart(p, "run.seal", body) /\ gate' = [gate EXCEPT ![p] = NoGate]
  BY <1>2 DEF SealSensorRun
<1>4. Turn({p}, run[p]) /\ run'[p] = NoRun
  BY <1>0, <1>1, <1>3, DepartTurn
<1>5. ASSUME NEW s \in OfKind(log', "run.seal") \ DOMAIN log
      PROVE  SealTold(log', log'[s])
  <2>1. log'[s].run = run[p] /\ log'[s].body = body
    BY <1>0, <1>1, <1>3, SealAdds
  <2>2. \A kind \in Told \ {"run.seal"} :
            /\ OfRun(log', run[p], kind) = OfRun(log, run[p], kind)
            /\ \A j \in OfRun(log, run[p], kind) : log'[j] = log[j]
    BY <1>0, <1>1, <1>3, SealAdds
  <2>3. OfRun(log', run[p], "model.call") = {} /\ OfRun(log', run[p], "tool.result") = {}
    BY <1>1, <2>2 DEF GateSays, NoneBut, Told
  <2>4. BillTold(log', log'[s]) /\ SkillTold(log', log'[s])
    BY <2>1, <2>3 DEF BillTold, SkillTold
  <2>5. ScanTold(log', log'[s])
    BY <1>2, <2>1 DEF ScanTold
  <2>6. GateTold(log', log'[s])
    <3>1. PICK own : own = OfRun(log, run[p], "sensor.verdict")
      OBVIOUS
    <3>2. OfRun(log', run[p], "sensor.verdict") = own /\ \A j \in own : log'[j] = log[j]
      BY <2>2, <3>1 DEF Told
    <3>3. /\ gate[p].blocked <=> \E j \in own : log'[j].body.blocked
          /\ gate[p].broken <=> \E j \in own : log'[j].body.verdict = "broken"
      BY <1>1, <3>1, <3>2 DEF GateSays
    <3>4. /\ body.outcome = "clean" <=> ~gate[p].blocked /\ ~gate[p].broken
          /\ body.outcome = "sealed-with-broken-sensor" <=> gate[p].broken
      BY <1>2
    <3> QED
      BY <2>1, <3>2, <3>3, <3>4 DEF GateTold
  <2> QED
    BY <2>4, <2>5, <2>6 DEF SealTold
<1>6. IsGate(NoGate)
  BY DEF IsGate, NoGate
<1> QED
  BY <1>3, <1>4, <1>5, <1>6, SensorTurn

LEMMA SensorKeepsSeals ==
    ASSUME SealInv, UNCHANGED <<bill, reports, task>>, SensorNext
    PROVE  SealInv'
<1>0. LogKept
  BY DEF SealInv
<1>1. ASSUME NEW p \in SensorRuns, FailSensorRun(p) \/ KillSensorRun(p) PROVE SealInv'
  <2>1. Leave(p) /\ log' = log /\ gate' = [gate EXCEPT ![p] = NoGate] /\ p \in Process
    BY <1>1, SensorAssumption DEF FailSensorRun, KillSensorRun, Die, Exit
  <2>2. Turn({p}, clock + 1) /\ run'[p] = NoRun
    BY <1>0, <2>1, LeaveTurn
  <2>3. OfKind(log', "run.seal") \ DOMAIN log = {} /\ IsGate(NoGate)
    BY <2>1 DEF OfKind, IsGate, NoGate
  <2> QED
    BY <2>1, <2>2, <2>3, SensorTurn
<1>2. ASSUME NEW p \in SensorRuns, NEW answer \in Text, RepairArtifact(p, answer) PROVE SealInv'
  <2>1. PICK g : g = [gate[p] EXCEPT !.stage = "second"]
    OBVIOUS
  <2>2. gate' = [gate EXCEPT ![p] = g] /\ log' = log /\ UNCHANGED <<run, seq, clock>>
    BY <1>2, <2>1 DEF RepairArtifact, logVars
  <2>3. IsGate(gate[p]) /\ IsOpen(p) /\ GateSays(log, run[p], gate[p])
    BY <1>2 DEF RepairArtifact, SealInv, GatesSay, NoGate
  <2>4. /\ g.sensor = gate[p].sensor /\ g.blocked = gate[p].blocked /\ g.broken = gate[p].broken
        /\ IsGate(g)
    BY <2>1, <2>3 DEF IsGate
  <2>5. GateSays(log', run'[p], g) /\ run'[p] # NoRun
    BY <2>2, <2>3, <2>4 DEF GateSays, IsOpen
  <2>6. Turn({}, clock + 1)
    <3>1. GrewBy({}) /\ {} \cap Told = {}
      BY <1>0, <2>2, StaysGrows DEF LogKept
    <3>2. \A i \in DOMAIN log' \ DOMAIN log : log'[i].run = NoRun
      BY <2>2
    <3> QED
      BY <1>0, <2>2, <3>1, <3>2, QuietTurn
  <2>7. Turn({p}, clock + 1)
    BY <2>6 DEF Turn
  <2>8. OfKind(log', "run.seal") \ DOMAIN log = {}
    BY <2>2 DEF OfKind
  <2> QED
    BY <2>2, <2>4, <2>5, <2>7, <2>8, SensorTurn
<1>3. ASSUME UNCHANGED <<logVars, gate>> PROVE SealInv'
  <2>1. UNCHANGED <<log, run, seq, clock, gate, bill, reports, task>>
    BY <1>3 DEF logVars
  <2> QED
    BY <2>1 DEF SealInv, LogKept, Runs, GatesSay, BillsSay, ScansSay, SkillsSay, SealTellsItsRun, IsOpen
<1> QED
  BY <1>1, <1>2, <1>3, OpenSensorSays, GateSaysMore, SealSensorSays DEF SensorNext, Edit

-----------------------------------------------------------------------------
\* The gateway seals what its calls cost.
LEMMA GatewayTurn ==
    ASSUME SealInv, UNCHANGED <<gate, reports, task>>, NEW p \in GatewayRuns, NEW id, Turn({p}, id),
           NEW b, bill' = [bill EXCEPT ![p] = b], IsBill(b),
           run'[p] # NoRun => BillSays(log', run'[p], b),
           run'[p] = NoRun => b = NoBill,
           \A s \in OfKind(log', "run.seal") \ DOMAIN log : SealTold(log', log'[s])
    PROVE  SealInv'
<1>1. LogKept'
  <2>1. run'[p] # NoRun => OfRun(log', run'[p], "run.seal") = {}
    BY DEF BillSays, NoneBut, Told
  <2> QED
    BY <2>1, TurnKeepsLog DEF SealInv
<1>2. SealTellsItsRun'
  BY TurnKeepsSeals DEF SealInv
<1>3. BillsSay'
  <2>1. /\ bill' = [q \in GatewayRuns |-> bill'[q]] /\ bill'[p] = b
        /\ \A q \in GatewayRuns \ {p} : bill'[q] = bill[q]
    BY DEF SealInv, BillsSay
  <2>2. /\ IsBill(bill'[p])
        /\ run'[p] # NoRun => BillSays(log', run'[p], bill'[p])
        /\ run'[p] = NoRun => bill'[p] = NoBill
    BY <2>1
  <2>3. BillsSay
    BY DEF SealInv
  <2> QED
    BY <2>1, <2>2, <2>3, TurnKeepsBills
<1>4. GatesSay' /\ ScansSay' /\ SkillsSay'
  <2>1. {p} \cap SensorRuns = {} /\ {p} \cap DriftRuns = {} /\ {p} \cap SkillRuns = {}
    BY BusAssumption
  <2> QED
    BY <2>1, OthersKeepSaying
<1> QED
  BY <1>1, <1>2, <1>3, <1>4 DEF SealInv

LEMMA OpenGatewaySays ==
    ASSUME SealInv, UNCHANGED <<gate, reports, task>>, NEW p \in GatewayRuns, OpenGatewayRun(p)
    PROVE  SealInv'
<1>0. p \in Process /\ LogKept
  BY GatewayAssumption DEF SealInv
<1>1. PICK body : OpenRun(p, <<"run.open">>, body)
  BY DEF OpenGatewayRun
<1>2. <<"run.open">> \in Seq({"run.open"}) /\ {"run.open"} \cap Told = {}
  BY DEF Told
<1>3. /\ Turn({p}, clock + 1) /\ run'[p] = clock + 1 /\ run'[p] # NoRun
      /\ \A kind \in Told : OfRun(log', clock + 1, kind) = {}
  BY <1>0, <1>1, <1>2, OpenTurn
<1>4. ~IsOpen(p) /\ bill[p] = NoBill /\ bill' = bill /\ IsBill(NoBill)
  BY <1>1 DEF OpenGatewayRun, OpenRun, SealInv, BillsSay, IsBill, NoBill
<1>5. bill' = [bill EXCEPT ![p] = NoBill]
  <2>1. bill = [q \in GatewayRuns |-> bill[q]]
    BY DEF SealInv, BillsSay
  <2> QED
    BY <1>4, <2>1
<1>6. BillSays(log', run'[p], NoBill)
  <2> DEFINE none == [c \in {} |-> log'[c].body.cost]
  <2>1. OfRun(log', run'[p], "model.call") = {}
    BY <1>3 DEF Told
  <2>2. SumFunction(none) = 0
    BY SumOfNone
  <2>3. Cardinality({}) = 0
    BY FS_EmptySet
  <2>4. NoneBut(log', run'[p], "model.call")
    BY <1>3, NothingSaid
  <2>5. {c \in {} : log'[c].body.cost # Null} = {}
    OBVIOUS
  <2>6. NoBill.calls = 0 /\ NoBill.cost = 0
    BY DEF NoBill
  <2> QED
    BY <2>1, <2>2, <2>3, <2>4, <2>5, <2>6 DEF BillSays
<1>7. OfKind(log', "run.seal") \ DOMAIN log = {}
  <2>1. GrewBy({"run.open"})
    BY <1>0, <1>1, <1>2, OpenGrows DEF LogKept
  <2> QED
    BY <2>1 DEF GrewBy, OfKind
<1> QED
  BY <1>3, <1>4, <1>5, <1>6, <1>7, GatewayTurn

LEMMA CallSays ==
    ASSUME SealInv, UNCHANGED <<gate, reports, task>>, NEW p \in GatewayRuns,
           NEW tokens \in Usage, CallModel(p, tokens)
    PROVE  SealInv'
<1> DEFINE old == bill[p]
<1>0. p \in Process /\ LogKept
  BY GatewayAssumption DEF SealInv
<1>1. IsOpen(p) /\ BillSays(log, run[p], old) /\ old \in [calls : Nat, cost : Nat]
  BY DEF SealInv, BillsSay, CallModel, IsBill
<1>2. PICK e, new, id : /\ e = Stamped(run[p], seq[p], "model.call", ModelCall("ok", tokens))
                        /\ new = Len(log) + 1
                        /\ id = run[p]
  OBVIOUS
<1>3. Emit(p, "model.call", ModelCall("ok", tokens))
  BY DEF CallModel
<1>4. Turn({p}, id) /\ run'[p] = id /\ log' = Append(log, e)
  BY <1>0, <1>1, <1>2, <1>3, EmitTurn
<1>5. /\ e.run = id /\ e.kind = "model.call" /\ e.body.outcome = "ok" /\ e.body.cost = tokens
      /\ IsLog(log)
  BY <1>0, <1>2 DEF Stamped, ModelCall, LogKept
<1>6. PICK calls : calls = OfRun(log, id, "model.call")
  OBVIOUS
<1>7. /\ OfRun(log', id, "model.call") = calls \cup {new} /\ new \notin calls
      /\ log'[new] = e
      /\ \A j \in calls : log'[j] = log[j]
  <2>1. /\ OfRun(log', e.run, e.kind) = OfRun(log, e.run, e.kind) \cup {Len(log) + 1}
        /\ Len(log) + 1 \notin OfRun(log, e.run, e.kind)
        /\ log'[Len(log) + 1] = e
        /\ \A j \in OfRun(log, e.run, e.kind) : log'[j] = log[j]
    BY <1>4, <1>5, OwnAdds
  <2> QED
    BY <1>2, <1>5, <1>6, <2>1
<1>8. NoneBut(log, id, "model.call") => NoneBut(log', id, "model.call")
  BY <1>4, <1>5, OwnMore
<1>9. IsFiniteSet(calls)
  BY <1>5, <1>6, OwnFinite
<1>10. /\ NoneBut(log, id, "model.call")
       /\ Cardinality(calls) = old.calls
       /\ \A c \in calls : log[c].body.outcome = "ok" /\ log[c].body.cost \in Nat \cup {Null}
       /\ old.cost = SumFunction([c \in {d \in calls : log[d].body.cost # Null} |-> log[c].body.cost])
  BY <1>1, <1>2, <1>6 DEF BillSays
<1>11. tokens \in Nat \cup {Null}
  BY GatewayAssumption
<1> DEFINE known == {c \in calls : log[c].body.cost # Null}
           known2 == {c \in calls \cup {new} : log'[c].body.cost # Null}
           f == [c \in known |-> log[c].body.cost]
           f2 == [c \in known2 |-> log'[c].body.cost]
<1>12. PICK cost : cost = IF tokens = Null THEN old.cost ELSE old.cost + tokens
  OBVIOUS
<1>13. cost \in Nat /\ cost = SumFunction(f2)
  <2>1. CASE tokens = Null
    <3>1. known2 = known
      BY <1>5, <1>7, <2>1
    <3>2. f2 = f
      BY <1>7, <3>1
    <3> QED
      BY <1>1, <1>10, <1>12, <2>1, <3>2
  <2>2. CASE tokens # Null
    <3>1. known2 = known \cup {new} /\ new \notin known
      BY <1>5, <1>7, <2>2
    <3>2. IsFiniteSet(DOMAIN f) /\ \A c \in DOMAIN f : f[c] \in Nat
      <4>1. IsFiniteSet(known)
        BY <1>9, FS_Subset
      <4> QED
        BY <1>10, <4>1
    <3>3. /\ DOMAIN f2 = DOMAIN f \cup {new} /\ new \notin DOMAIN f
          /\ \A c \in DOMAIN f : f2[c] = f[c]
          /\ f2[new] = tokens /\ tokens \in Nat
      BY <1>5, <1>7, <1>11, <2>2, <3>1
    <3>4. old.cost = SumFunction(f)
      BY <1>10
    <3> HIDE DEF f, f2
    <3>5. SumFunction(f2) = SumFunction(f) + f2[new]
      BY <3>2, <3>3, SumOfOneMore
    <3> QED
      BY <1>1, <1>12, <2>2, <3>3, <3>4, <3>5
  <2> QED
    BY <2>1, <2>2
<1>14. Cardinality(calls \cup {new}) = old.calls + 1
  BY <1>7, <1>9, <1>10, FS_AddElement
<1>15. PICK b : b = [old EXCEPT !.calls = @ + 1, !.cost = cost]
  OBVIOUS
<1>16. bill' = [bill EXCEPT ![p] = b]
  BY <1>12, <1>15 DEF CallModel
<1>17. b.calls = old.calls + 1 /\ b.cost = cost /\ IsBill(b)
  <2>1. b = [[old EXCEPT !.calls = @ + 1] EXCEPT !.cost = cost]
    BY <1>15
  <2>2. [old EXCEPT !.calls = @ + 1] = [calls |-> old.calls + 1, cost |-> old.cost]
    BY <1>1
  <2>3. b = [calls |-> old.calls + 1, cost |-> cost]
    BY <2>1, <2>2
  <2> QED
    BY <1>1, <1>13, <2>3 DEF IsBill
<1>18. BillSays(log', id, b)
  <2>1. \A c \in calls \cup {new} :
            log'[c].body.outcome = "ok" /\ log'[c].body.cost \in Nat \cup {Null}
    BY <1>5, <1>7, <1>10, <1>11
  <2> QED
    BY <1>7, <1>8, <1>10, <1>13, <1>14, <1>17, <2>1 DEF BillSays
<1>19. OfKind(log', "run.seal") \ DOMAIN log = {}
  <2>1. GrewBy({"model.call"})
    BY <1>0, <1>3, EmitGrows DEF LogKept
  <2> QED
    BY <2>1 DEF GrewBy, OfKind
<1>20. run'[p] # NoRun
  BY <1>1, <1>2, <1>4 DEF IsOpen
<1> QED
  BY <1>4, <1>16, <1>17, <1>18, <1>19, <1>20, GatewayTurn

LEMMA SealGatewaySays ==
    ASSUME SealInv, UNCHANGED <<gate, reports, task>>, NEW p \in GatewayRuns, SealGatewayRun(p)
    PROVE  SealInv'
<1>0. p \in Process /\ LogKept /\ IsOpen(p)
  BY GatewayAssumption DEF SealInv, SealGatewayRun
<1>1. BillSays(log, run[p], bill[p]) /\ bill[p].calls = Turns
  BY <1>0 DEF SealInv, BillsSay, SealGatewayRun
<1>2. PICK body : body = [outcome |-> "complete", cost |-> bill[p].cost]
  OBVIOUS
<1>3. Depart(p, "run.seal", body) /\ bill' = [bill EXCEPT ![p] = NoBill]
  BY <1>2 DEF SealGatewayRun
<1>4. Turn({p}, run[p]) /\ run'[p] = NoRun
  BY <1>0, <1>3, DepartTurn
<1>5. ASSUME NEW s \in OfKind(log', "run.seal") \ DOMAIN log
      PROVE  SealTold(log', log'[s])
  <2>1. log'[s].run = run[p] /\ log'[s].body = body
    BY <1>0, <1>3, SealAdds
  <2>2. \A kind \in Told \ {"run.seal"} :
            /\ OfRun(log', run[p], kind) = OfRun(log, run[p], kind)
            /\ \A j \in OfRun(log, run[p], kind) : log'[j] = log[j]
    BY <1>0, <1>3, SealAdds
  <2>3. OfRun(log', run[p], "sensor.verdict") = {} /\ OfRun(log', run[p], "tool.result") = {}
    BY <1>1, <2>2 DEF BillSays, NoneBut, Told
  <2>4. GateTold(log', log'[s]) /\ SkillTold(log', log'[s])
    BY <2>1, <2>3 DEF GateTold, SkillTold
  <2>5. ScanTold(log', log'[s])
    BY <1>2, <2>1 DEF ScanTold
  <2>6. BillTold(log', log'[s])
    <3>1. PICK calls : calls = OfRun(log, run[p], "model.call")
      OBVIOUS
    <3>2. OfRun(log', run[p], "model.call") = calls /\ \A j \in calls : log'[j] = log[j]
      BY <2>2, <3>1 DEF Told
    <3>3. {c \in calls : log'[c].body.cost # Null} = {c \in calls : log[c].body.cost # Null}
      BY <3>2
    <3>4. [c \in {d \in calls : log'[d].body.cost # Null} |-> log'[c].body.cost]
              = [c \in {d \in calls : log[d].body.cost # Null} |-> log[c].body.cost]
      BY <3>2, <3>3
    <3>5. /\ Cardinality(calls) = Turns
          /\ \A c \in calls : log'[c].body.outcome = "ok"
          /\ body.cost = SumFunction([c \in {d \in calls : log'[d].body.cost # Null}
                                          |-> log'[c].body.cost])
      BY <1>1, <1>2, <3>1, <3>2, <3>4 DEF BillSays
    <3> QED
      BY <2>1, <3>2, <3>5 DEF BillTold
  <2> QED
    BY <2>4, <2>5, <2>6 DEF SealTold
<1>6. IsBill(NoBill)
  BY DEF IsBill, NoBill
<1> QED
  BY <1>3, <1>4, <1>5, <1>6, GatewayTurn

LEMMA GatewayKeepsSeals ==
    ASSUME SealInv, UNCHANGED <<gate, reports, task>>, GatewayNext
    PROVE  SealInv'
<1>0. LogKept /\ IsBill(NoBill)
  BY DEF SealInv, IsBill, NoBill
<1>1. ASSUME NEW p \in GatewayRuns, KeyUnset(p) \/ KillGatewayRun(p) PROVE SealInv'
  <2>1. Leave(p) /\ log' = log /\ bill' = [bill EXCEPT ![p] = NoBill] /\ p \in Process
    BY <1>1, GatewayAssumption DEF KeyUnset, KillGatewayRun, Die, Exit
  <2>2. Turn({p}, clock + 1) /\ run'[p] = NoRun
    BY <1>0, <2>1, LeaveTurn
  <2>3. OfKind(log', "run.seal") \ DOMAIN log = {}
    BY <2>1 DEF OfKind
  <2> QED
    BY <1>0, <2>1, <2>2, <2>3, GatewayTurn
<1>2. ASSUME NEW p \in GatewayRuns, FailModel(p) PROVE SealInv'
  <2>1. /\ Depart(p, "model.call", ModelCall("error", Null)) /\ IsOpen(p)
        /\ bill' = [bill EXCEPT ![p] = NoBill] /\ p \in Process
    BY <1>2, GatewayAssumption DEF FailModel
  <2>2. Turn({p}, run[p]) /\ run'[p] = NoRun
    BY <1>0, <2>1, DepartTurn
  <2>3. OfKind(log', "run.seal") \ DOMAIN log = {}
    <3>1. GrewBy({"model.call"})
      BY <1>0, <2>1, EmitGrows DEF LogKept
    <3> QED
      BY <3>1 DEF GrewBy, OfKind
  <2> QED
    BY <1>0, <2>1, <2>2, <2>3, GatewayTurn
<1> QED
  BY <1>1, <1>2, OpenGatewaySays, CallSays, SealGatewaySays DEF GatewayNext

-----------------------------------------------------------------------------
\* A scan seals the count of what it reported.
LEMMA DriftTurn ==
    ASSUME SealInv, UNCHANGED <<gate, bill, task>>, NEW p \in DriftRuns, NEW id, Turn({p}, id),
           NEW w, reports' = [reports EXCEPT ![p] = w],
           run'[p] # NoRun => WalkSays(log', run'[p], w, seq'[p]),
           \A s \in OfKind(log', "run.seal") \ DOMAIN log : SealTold(log', log'[s])
    PROVE  SealInv'
<1>1. LogKept'
  <2>1. run'[p] # NoRun => OfRun(log', run'[p], "run.seal") = {}
    BY DEF WalkSays, NoneBut, Told
  <2> QED
    BY <2>1, TurnKeepsLog DEF SealInv
<1>2. SealTellsItsRun'
  BY TurnKeepsSeals DEF SealInv
<1>3. ScansSay'
  <2>1. /\ reports' = [q \in DriftRuns |-> reports'[q]] /\ reports'[p] = w
        /\ \A q \in DriftRuns \ {p} : reports'[q] = reports[q]
    BY DEF SealInv, ScansSay
  <2>2. run'[p] # NoRun => WalkSays(log', run'[p], reports'[p], seq'[p])
    BY <2>1
  <2>3. ScansSay
    BY DEF SealInv
  <2> QED
    BY <2>1, <2>2, <2>3, TurnKeepsScans
<1>4. GatesSay' /\ BillsSay' /\ SkillsSay'
  <2>1. {p} \cap SensorRuns = {} /\ {p} \cap GatewayRuns = {} /\ {p} \cap SkillRuns = {}
    BY BusAssumption
  <2> QED
    BY <2>1, OthersKeepSaying
<1> QED
  BY <1>1, <1>2, <1>3, <1>4 DEF SealInv

LEMMA WalkIsWhole ==
    ASSUME NEW s
    PROVE  /\ Len(Fields) \in Nat
           /\ DOMAIN Walk(s) = 1..Len(Fields)
           /\ Len(Walk(s)) = Len(Fields)
           /\ \A i \in DOMAIN Walk(s) : Walk(s)[i].field = Fields[i].name
<1>1. Len(Fields) \in Nat /\ DOMAIN Fields = 1..Len(Fields)
  BY DriftAssumption
<1>2. DOMAIN Walk(s) = 1..Len(Fields) /\ \A i \in DOMAIN Walk(s) : Walk(s)[i] = Report(Fields[i], s)
  BY <1>1 DEF Walk
<1>3. \A field : Report(field, s).field = field.name
  BY DEF Report
<1>4. Len(Walk(s)) = Len(Fields)
  <2>1. Walk(s) \in Seq({Walk(s)[i] : i \in 1..Len(Fields)})
    BY <1>1, <1>2 DEF Walk
  <2> QED
    BY <1>1, <1>2, <2>1
<1> QED
  BY <1>1, <1>2, <1>3, <1>4

LEMMA OpenDriftSays ==
    ASSUME SealInv, UNCHANGED <<gate, bill, task>>, NEW p \in DriftRuns, OpenDrift(p)
    PROVE  SealInv'
<1>0. p \in Process /\ LogKept
  BY DriftAssumption DEF SealInv
<1>1. OpenRun(p, <<>>, <<>>) /\ reports' = [reports EXCEPT ![p] = Walk(log)]
  BY DEF OpenDrift
<1>2. <<>> \in Seq({}) /\ {} \cap Told = {} /\ Len(<<>>) = 0
  OBVIOUS
<1>3. /\ Turn({p}, clock + 1) /\ run'[p] = clock + 1 /\ run'[p] # NoRun /\ seq'[p] = 0
      /\ \A kind \in Told : OfRun(log', clock + 1, kind) = {}
  BY <1>0, <1>1, <1>2, OpenTurn
<1>4. WalkSays(log', run'[p], Walk(log), 0)
  <2>1. OfRun(log', run'[p], "drift.report") = {} /\ NoneBut(log', run'[p], "drift.report")
    BY <1>3, NothingSaid DEF Told
  <2>2. Cardinality({}) = 0
    BY FS_EmptySet
  <2>3. \A outcome : /\ {r \in {} : log'[r].body.outcome = outcome} = {}
                     /\ {i \in 1..0 : Walk(log)[i].outcome = outcome} = {}
    OBVIOUS
  <2>4. 0 <= Len(Fields)
    BY WalkIsWhole
  <2> QED
    BY <2>1, <2>2, <2>3, <2>4, WalkIsWhole DEF WalkSays
<1>5. OfKind(log', "run.seal") \ DOMAIN log = {}
  <2>1. GrewBy({})
    BY <1>0, <1>1, <1>2, OpenGrows DEF LogKept
  <2> QED
    BY <2>1 DEF GrewBy, OfKind
<1>6. WalkSays(log', run'[p], Walk(log), seq'[p])
  BY <1>3, <1>4
<1> QED
  BY <1>1, <1>3, <1>5, <1>6, DriftTurn

\* The next report is of the next field, and is counted with its like.
LEMMA WalkGoesOn ==
    ASSUME NEW s, NEW t, NEW id, NEW walked, NEW n \in Nat, n < Len(Fields), Len(Fields) \in Nat,
           WalkSays(s, id, walked, n), IsLog(s), NEW new,
           \A r \in OfRun(s, id, "drift.report") : t[r] = s[r] /\ r \in Nat /\ r < new,
           new \in Nat, OfRun(t, id, "drift.report") = OfRun(s, id, "drift.report") \cup {new},
           t[new].body = walked[n + 1], NoneBut(t, id, "drift.report")
    PROVE  WalkSays(t, id, walked, n + 1)
<1> DEFINE told == OfRun(s, id, "drift.report")
           more == told \cup {new}
<1>1. /\ DOMAIN walked = 1..Len(Fields) /\ Len(walked) = Len(Fields)
      /\ \A i \in DOMAIN walked : walked[i].field = Fields[i].name
      /\ Cardinality(told) = n
      /\ \A r \in told : s[r].body.field = Fields[Cardinality({q \in told : q <= r})].name
      /\ \A outcome : Cardinality({r \in told : s[r].body.outcome = outcome}) =
                          Cardinality({i \in 1..n : walked[i].outcome = outcome})
  BY DEF WalkSays
<1>2. IsFiniteSet(told)
  BY OwnFinite
<1>3. /\ \A r \in told : t[r] = s[r] /\ r \in Nat /\ r < new
      /\ OfRun(t, id, "drift.report") = more
      /\ t[new].body = walked[n + 1]
  OBVIOUS
<1>4. new \notin told
  BY <1>3
<1> HIDE DEF told
<1>5. Cardinality(more) = n + 1
  BY <1>1, <1>2, <1>4, FS_AddElement
<1>6. \A r \in more : t[r].body.field = Fields[Cardinality({q \in more : q <= r})].name
  <2>1. ASSUME NEW r \in told
        PROVE  t[r].body.field = Fields[Cardinality({q \in more : q <= r})].name
    <3>1. {q \in more : q <= r} = {q \in told : q <= r}
      BY <1>3
    <3> QED
      BY <1>1, <1>3, <3>1
  <2>2. t[new].body.field = Fields[Cardinality({q \in more : q <= new})].name
    <3>1. {q \in more : q <= new} = more
      BY <1>3
    <3>2. n + 1 \in DOMAIN walked
      BY <1>1
    <3> QED
      BY <1>1, <1>3, <1>5, <3>1, <3>2
  <2> QED
    BY <2>1, <2>2
<1>7. ASSUME NEW outcome
      PROVE  Cardinality({r \in more : t[r].body.outcome = outcome}) =
                 Cardinality({i \in 1..(n + 1) : walked[i].outcome = outcome})
  <2> DEFINE of == {r \in told : s[r].body.outcome = outcome}
             at == {i \in 1..n : walked[i].outcome = outcome}
             of2 == {r \in more : t[r].body.outcome = outcome}
             at2 == {i \in 1..(n + 1) : walked[i].outcome = outcome}
  <2>1. Cardinality(of) = Cardinality(at)
    BY <1>1
  <2>2. IsFiniteSet(of) /\ IsFiniteSet(at)
    <3>1. IsFiniteSet(1..n)
      BY FS_Interval
    <3> QED
      BY <1>2, <3>1, FS_Subset
  <2>3. \A i \in 1..(n + 1) : i \in 1..n \/ i = n + 1
    OBVIOUS
  <2>4. n + 1 \in 1..(n + 1) /\ n + 1 \notin 1..n /\ 1..n \subseteq 1..(n + 1)
    OBVIOUS
  <2>5. CASE walked[n + 1].outcome = outcome
    <3>1. of2 = of \cup {new} /\ new \notin of
      BY <1>3, <1>4, <2>5
    <3>2. at2 = at \cup {n + 1} /\ n + 1 \notin at
      BY <2>3, <2>4, <2>5
    <3> HIDE DEF of, at, of2, at2
    <3>3. Cardinality(of2) = Cardinality(of) + 1 /\ Cardinality(at2) = Cardinality(at) + 1
      BY <2>2, <3>1, <3>2, FS_AddElement
    <3> QED
      BY <2>1, <3>3 DEF of2, at2
  <2>6. CASE walked[n + 1].outcome # outcome
    <3>1. of2 = of
      BY <1>3, <1>4, <2>6
    <3>2. at2 = at
      BY <2>3, <2>4, <2>6
    <3> QED
      BY <2>1, <3>1, <3>2
  <2> QED
    BY <2>5, <2>6
<1>8. n + 1 <= Len(Fields)
  OBVIOUS
<1> QED
  BY <1>1, <1>3, <1>5, <1>6, <1>7, <1>8 DEF WalkSays

LEMMA ReportSays ==
    ASSUME SealInv, UNCHANGED <<gate, bill, task>>, NEW p \in DriftRuns, AppendReport(p)
    PROVE  SealInv'
<1>0. p \in Process /\ LogKept /\ IsOpen(p) /\ seq[p] \in Nat
  BY DriftAssumption DEF SealInv, AppendReport, LogKept, Runs
<1>1. PICK w, n, id : w = reports[p] /\ n = seq[p] /\ id = run[p]
  OBVIOUS
<1>2. WalkSays(log, id, w, n) /\ n < Len(w) /\ n \in Nat
  BY <1>0, <1>1 DEF SealInv, ScansSay, AppendReport
<1>3. Emit(p, "drift.report", w[n + 1]) /\ reports' = reports
  BY <1>1 DEF AppendReport, driftVars
<1>4. PICK e, new : e = Stamped(id, n, "drift.report", w[n + 1]) /\ new = Len(log) + 1
  OBVIOUS
<1>5. Turn({p}, id) /\ run'[p] = id /\ seq'[p] = n + 1 /\ log' = Append(log, e)
  BY <1>0, <1>1, <1>3, <1>4, EmitTurn
<1>6. e.run = id /\ e.kind = "drift.report" /\ e.body = w[n + 1] /\ IsLog(log)
  BY <1>0, <1>4 DEF Stamped, LogKept
<1>7. /\ OfRun(log', id, "drift.report") = OfRun(log, id, "drift.report") \cup {new}
      /\ log'[new].body = w[n + 1] /\ new \in Nat
      /\ \A j \in OfRun(log, id, "drift.report") : log'[j] = log[j] /\ j \in Nat /\ j < new
  <2>1. /\ OfRun(log', e.run, e.kind) = OfRun(log, e.run, e.kind) \cup {Len(log) + 1}
        /\ log'[Len(log) + 1] = e /\ Len(log) \in Nat
        /\ \A j \in OfRun(log, e.run, e.kind) : log'[j] = log[j] /\ j \in Nat /\ j <= Len(log)
    BY <1>5, <1>6, OwnAdds
  <2> QED
    BY <1>4, <1>6, <2>1
<1>8. NoneBut(log', id, "drift.report")
  <2>1. NoneBut(log, e.run, e.kind) => NoneBut(log', e.run, e.kind)
    BY <1>5, <1>6, OwnMore
  <2> QED
    BY <1>2, <1>6, <2>1 DEF WalkSays
<1>9. Len(Fields) \in Nat /\ n < Len(Fields)
  BY <1>2, WalkIsWhole DEF WalkSays
<1>10. WalkSays(log', id, w, n + 1)
  BY <1>2, <1>6, <1>7, <1>8, <1>9, WalkGoesOn
<1>11. reports' = [reports EXCEPT ![p] = w]
  <2>1. reports = [q \in DriftRuns |-> reports[q]]
    BY DEF SealInv, ScansSay
  <2> QED
    BY <1>1, <1>3, <2>1
<1>12. OfKind(log', "run.seal") \ DOMAIN log = {}
  <2>1. GrewBy({"drift.report"})
    BY <1>0, <1>3, EmitGrows DEF LogKept
  <2> QED
    BY <2>1 DEF GrewBy, OfKind
<1>13. WalkSays(log', run'[p], w, seq'[p])
  BY <1>5, <1>10
<1> QED
  BY <1>5, <1>11, <1>12, <1>13, DriftTurn

LEMMA SealDriftSays ==
    ASSUME SealInv, UNCHANGED <<gate, bill, task>>, NEW p \in DriftRuns, SealDrift(p)
    PROVE  SealInv'
<1>0. p \in Process /\ LogKept /\ IsOpen(p)
  BY DriftAssumption DEF SealInv, SealDrift
<1>1. PICK w : w = reports[p]
  OBVIOUS
<1>2. WalkSays(log, run[p], w, Len(Fields))
  <2>1. WalkSays(log, run[p], w, seq[p]) /\ seq[p] = Len(w)
    BY <1>0, <1>1 DEF SealInv, ScansSay, SealDrift
  <2>2. Len(w) = Len(Fields)
    BY <2>1 DEF WalkSays
  <2> QED
    BY <2>1, <2>2
<1>3. PICK body : body = [outcome |-> "complete", drift |-> Tally(w)]
  OBVIOUS
<1>4. Depart(p, "run.seal", body) /\ reports' = [reports EXCEPT ![p] = <<>>]
  BY <1>1, <1>3 DEF SealDrift
<1>5. Turn({p}, run[p]) /\ run'[p] = NoRun
  BY <1>0, <1>4, DepartTurn
<1>6. ASSUME NEW s \in OfKind(log', "run.seal") \ DOMAIN log
      PROVE  SealTold(log', log'[s])
  <2>1. log'[s].run = run[p] /\ log'[s].body = body
    BY <1>0, <1>4, SealAdds
  <2>2. \A kind \in Told \ {"run.seal"} :
            /\ OfRun(log', run[p], kind) = OfRun(log, run[p], kind)
            /\ \A j \in OfRun(log, run[p], kind) : log'[j] = log[j]
    BY <1>0, <1>4, SealAdds
  <2>3. /\ OfRun(log', run[p], "sensor.verdict") = {} /\ OfRun(log', run[p], "tool.result") = {}
        /\ OfRun(log', run[p], "model.call") = {}
    BY <1>2, <2>2 DEF WalkSays, NoneBut, Told
  <2>4. GateTold(log', log'[s]) /\ SkillTold(log', log'[s]) /\ BillTold(log', log'[s])
    BY <2>1, <2>3 DEF GateTold, SkillTold, BillTold
  <2>5. ScanTold(log', log'[s])
    <3>1. PICK told : told = OfRun(log, run[p], "drift.report")
      OBVIOUS
    <3>2. OfRun(log', run[p], "drift.report") = told /\ \A r \in told : log'[r] = log[r]
      BY <2>2, <3>1 DEF Told
    <3>3. /\ DOMAIN w = 1..Len(Fields)
          /\ Cardinality(told) = Len(Fields)
          /\ \A r \in told : log[r].body.field = Fields[Cardinality({q \in told : q <= r})].name
          /\ \A outcome : Cardinality({r \in told : log[r].body.outcome = outcome}) =
                              Cardinality({i \in 1..Len(Fields) : w[i].outcome = outcome})
      BY <1>2, <3>1 DEF WalkSays
    <3>4. ASSUME NEW outcome \in {"match", "divergence", "unobservable"}
          PROVE  body.drift[outcome] = Cardinality({r \in told : log'[r].body.outcome = outcome})
      <4>1. body.drift[outcome] = Cardinality({i \in 1..Len(Fields) : w[i].outcome = outcome})
        BY <1>3, <3>3 DEF Tally
      <4>2. {r \in told : log'[r].body.outcome = outcome}
                = {r \in told : log[r].body.outcome = outcome}
        BY <3>2
      <4> QED
        BY <3>3, <4>1, <4>2
    <3>5. \A r \in told : log'[r].body.field = Fields[Cardinality({q \in told : q <= r})].name
      BY <3>2, <3>3
    <3> QED
      BY <2>1, <3>2, <3>3, <3>4, <3>5 DEF ScanTold
  <2> QED
    BY <2>4, <2>5 DEF SealTold
<1> QED
  BY <1>4, <1>5, <1>6, DriftTurn

LEMMA DriftKeepsSeals ==
    ASSUME SealInv, UNCHANGED <<gate, bill, task>>, DriftNext
    PROVE  SealInv'
<1>1. ASSUME NEW p \in DriftRuns, KillDrift(p) PROVE SealInv'
  <2>1. Leave(p) /\ log' = log /\ reports' = [reports EXCEPT ![p] = <<>>] /\ p \in Process /\ LogKept
    BY <1>1, DriftAssumption DEF KillDrift, Die, Exit, SealInv
  <2>2. Turn({p}, clock + 1) /\ run'[p] = NoRun
    BY <2>1, LeaveTurn
  <2>3. OfKind(log', "run.seal") \ DOMAIN log = {}
    BY <2>1 DEF OfKind
  <2> QED
    BY <2>1, <2>2, <2>3, DriftTurn
<1>2. ASSUME UNCHANGED <<logVars, reports>> PROVE SealInv'
  <2>1. UNCHANGED <<log, run, seq, clock, gate, bill, reports, task>>
    BY <1>2 DEF logVars
  <2> QED
    BY <2>1 DEF SealInv, LogKept, Runs, GatesSay, BillsSay, ScansSay, SkillsSay, SealTellsItsRun, IsOpen
<1> QED
  BY <1>1, <1>2, OpenDriftSays, ReportSays, SealDriftSays DEF DriftNext, MoveFiles

-----------------------------------------------------------------------------
\* A skill's run seals whether every step was read.
LEMMA SkillTurn ==
    ASSUME SealInv, UNCHANGED <<gate, bill, reports>>, NEW p \in SkillRuns, NEW id, Turn({p}, id),
           NEW t, task' = [task EXCEPT ![p] = t], IsTask(t), t.failures \in Nat,
           t.stage = "open" => t.failures = 0,
           run'[p] # NoRun <=> t.stage = "steps",
           run'[p] # NoRun => StepsSay(log', run'[p], t),
           \A s \in OfKind(log', "run.seal") \ DOMAIN log : SealTold(log', log'[s])
    PROVE  SealInv'
<1>1. LogKept'
  <2>1. run'[p] # NoRun => OfRun(log', run'[p], "run.seal") = {}
    BY DEF StepsSay, NoneBut, Told
  <2> QED
    BY <2>1, TurnKeepsLog DEF SealInv
<1>2. SealTellsItsRun'
  BY TurnKeepsSeals DEF SealInv
<1>3. SkillsSay'
  <2>1. /\ task' = [q \in SkillRuns |-> task'[q]] /\ task'[p] = t
        /\ \A q \in SkillRuns \ {p} : task'[q] = task[q]
    BY DEF SealInv, SkillsSay
  <2>2. /\ IsTask(task'[p]) /\ task'[p].failures \in Nat
        /\ task'[p].stage = "open" => task'[p].failures = 0
        /\ run'[p] # NoRun <=> task'[p].stage = "steps"
        /\ run'[p] # NoRun => StepsSay(log', run'[p], task'[p])
    BY <2>1
  <2>3. SkillsSay
    BY DEF SealInv
  <2> QED
    BY <2>1, <2>2, <2>3, TurnKeepsSkills
<1>4. GatesSay' /\ BillsSay' /\ ScansSay'
  <2>1. {p} \cap SensorRuns = {} /\ {p} \cap GatewayRuns = {} /\ {p} \cap DriftRuns = {}
    BY BusAssumption
  <2> QED
    BY <2>1, OthersKeepSaying
<1> QED
  BY <1>1, <1>2, <1>3, <1>4 DEF SealInv

\* A resolution is of no run.
LEMMA RecordTurn ==
    ASSUME LogKept, NEW kind, kind \notin Told, NEW body, Record(kind, body)
    PROVE  /\ Turn({}, clock + 1)
           /\ OfKind(log', "run.seal") \ DOMAIN log = {}
           /\ run' = run
<1>1. UNCHANGED <<run, seq, clock>> /\ log' = Append(log, Stamped(NoRun, 0, kind, body))
  BY DEF Record
<1>2. GrewBy({kind}) /\ {kind} \cap Told = {}
  BY EmitGrows DEF LogKept
<1>3. \A i \in DOMAIN log' \ DOMAIN log : log'[i].run = NoRun
  <2>1. PICK e : e = Stamped(NoRun, 0, kind, body)
    OBVIOUS
  <2>2. e.run = NoRun
    BY <2>1 DEF Stamped
  <2>3. log' = Append(log, e) /\ IsLog(log)
    BY <1>1, <2>1 DEF LogKept
  <2> QED
    BY <2>2, <2>3, OwnAdds
<1>4. Turn({}, clock + 1)
  BY <1>1, <1>2, <1>3, QuietTurn
<1>5. OfKind(log', "run.seal") \ DOMAIN log = {}
  BY <1>2 DEF GrewBy, OfKind, Told
<1> QED
  BY <1>1, <1>4, <1>5

LEMMA BeginSays ==
    ASSUME SealInv, UNCHANGED <<gate, bill, reports>>, NEW p \in SkillRuns, NEW parent \in Parent,
           BeginSkill(p, parent)
    PROVE  SealInv'
<1> DEFINE outcome == Resolved(registry.keys)
<1>0. p \in Process /\ LogKept
  BY SkillAssumption DEF SealInv
<1>1. Record("skill.resolve", outcome) /\ task[p].stage = "closed"
  BY DEF BeginSkill
<1>2. Turn({}, clock + 1) /\ OfKind(log', "run.seal") \ DOMAIN log = {} /\ run' = run
  BY <1>0, <1>1, RecordTurn DEF Told
<1>3. Turn({p}, clock + 1)
  BY <1>2 DEF Turn
<1>4. /\ task = [q \in SkillRuns |-> task[q]] /\ IsTask(task[p]) /\ task[p].failures \in Nat
      /\ run[p] = NoRun
  BY <1>1 DEF SealInv, SkillsSay, IsOpen
<1>5. PICK begun : begun = [stage |-> "open", steps |-> outcome.manifest.steps,
                            granted |-> outcome.manifest.scope, failures |-> 0]
  OBVIOUS
<1>6. task' = task \/ task' = [task EXCEPT ![p] = begun]
  BY <1>5 DEF BeginSkill
<1>7. PICK t : t \in {task[p], begun} /\ task' = [task EXCEPT ![p] = t]
  <2>1. task = [task EXCEPT ![p] = task[p]]
    BY <1>4
  <2> QED
    BY <1>6, <2>1
<1>8. IsTask(begun) /\ begun.failures = 0 /\ begun.stage = "open"
  BY <1>5 DEF IsTask
<1>9. IsTask(t) /\ t.failures \in Nat /\ (t.stage = "open" => t.failures = 0) /\ t.stage # "steps"
  BY <1>1, <1>4, <1>7, <1>8
<1>10. run'[p] = NoRun
  BY <1>2, <1>4
<1> QED
  BY <1>2, <1>3, <1>7, <1>9, <1>10, SkillTurn

LEMMA OpenSkillSays ==
    ASSUME SealInv, UNCHANGED <<gate, bill, reports>>, NEW p \in SkillRuns, OpenSkillRun(p)
    PROVE  SealInv'
<1>0. p \in Process /\ LogKept
  BY SkillAssumption DEF SealInv
<1>1. PICK kinds, body : kinds = <<"run.open", "subagent.spawn">> /\ OpenRun(p, kinds, body)
  BY DEF OpenSkillRun
<1>2. kinds \in Seq({"run.open", "subagent.spawn"}) /\ {"run.open", "subagent.spawn"} \cap Told = {}
  BY <1>1 DEF Told
<1>3. /\ Turn({p}, clock + 1) /\ run'[p] = clock + 1 /\ run'[p] # NoRun
      /\ \A kind \in Told : OfRun(log', clock + 1, kind) = {}
  BY <1>0, <1>1, <1>2, OpenTurn
<1>4. IsTask(task[p]) /\ task[p].failures = 0
  BY DEF SealInv, SkillsSay, OpenSkillRun
<1>5. PICK t : t = [task[p] EXCEPT !.stage = "steps"]
  OBVIOUS
<1>6. task' = [task EXCEPT ![p] = t]
  BY <1>5 DEF OpenSkillRun
<1>7. IsTask(t) /\ t.failures = 0 /\ t.stage = "steps"
  BY <1>4, <1>5 DEF IsTask
<1>8. StepsSay(log', run'[p], t)
  BY <1>3, <1>7, NothingSaid DEF StepsSay, Told
<1>9. OfKind(log', "run.seal") \ DOMAIN log = {}
  <2>1. GrewBy({"run.open", "subagent.spawn"})
    BY <1>0, <1>1, <1>2, OpenGrows DEF LogKept
  <2> QED
    BY <2>1 DEF GrewBy, OfKind
<1>10. t.failures \in Nat
  BY <1>7
<1> QED
  BY <1>3, <1>6, <1>7, <1>8, <1>9, <1>10, SkillTurn

LEMMA ReadSays ==
    ASSUME SealInv, UNCHANGED <<gate, bill, reports>>, NEW p \in SkillRuns, ReadStep(p)
    PROVE  SealInv'
<1> DEFINE next == Head(task[p].steps)
<1>0. p \in Process /\ LogKept
  BY SkillAssumption DEF SealInv
<1>1. IsOpen(p) /\ StepsSay(log, run[p], task[p]) /\ IsTask(task[p]) /\ task[p].failures \in Nat
  BY DEF SealInv, SkillsSay, ReadStep
<1>2. PICK read : read = (ReadCap \in task[p].granted /\ next \in package.present)
  OBVIOUS
<1>3. PICK body : body = [step |-> next, read |-> read]
  OBVIOUS
<1>4. Emit(p, "tool.result", body)
  BY <1>2, <1>3 DEF ReadStep
<1>5. PICK e, new : e = Stamped(run[p], seq[p], "tool.result", body) /\ new = Len(log) + 1
  OBVIOUS
<1>6. Turn({p}, run[p]) /\ run'[p] = run[p] /\ log' = Append(log, e)
  BY <1>0, <1>1, <1>4, <1>5, EmitTurn
<1>7. e.run = run[p] /\ e.kind = "tool.result" /\ e.body.read = read /\ IsLog(log)
  BY <1>0, <1>3, <1>5 DEF Stamped, LogKept
<1>8. /\ OfRun(log', run[p], "tool.result") = OfRun(log, run[p], "tool.result") \cup {new}
      /\ log'[new].body.read = read
      /\ \A j \in OfRun(log, run[p], "tool.result") : log'[j] = log[j]
  <2>1. /\ OfRun(log', e.run, e.kind) = OfRun(log, e.run, e.kind) \cup {Len(log) + 1}
        /\ log'[Len(log) + 1] = e
        /\ \A j \in OfRun(log, e.run, e.kind) : log'[j] = log[j]
    BY <1>6, <1>7, OwnAdds
  <2> QED
    BY <1>5, <1>7, <2>1
<1>9. NoneBut(log', run[p], "tool.result")
  <2>1. NoneBut(log, e.run, e.kind) => NoneBut(log', e.run, e.kind)
    BY <1>6, <1>7, OwnMore
  <2> QED
    BY <1>1, <1>7, <2>1 DEF StepsSay
<1>10. PICK t : t = [stage |-> "steps", steps |-> Tail(task[p].steps), granted |-> task[p].granted,
                     failures |-> IF read THEN task[p].failures ELSE task[p].failures + 1]
  OBVIOUS
<1>11. task' = [task EXCEPT ![p] = t]
  BY <1>2, <1>10 DEF ReadStep
<1>12. /\ IsTask(t) /\ t.stage = "steps" /\ t.failures \in Nat
       /\ t.failures = 0 <=> task[p].failures = 0 /\ read
  BY <1>1, <1>10 DEF IsTask
<1>13. StepsSay(log', run[p], t)
  BY <1>1, <1>8, <1>9, <1>12 DEF StepsSay
<1>14. OfKind(log', "run.seal") \ DOMAIN log = {}
  <2>1. GrewBy({"tool.result"})
    BY <1>0, <1>4, EmitGrows DEF LogKept
  <2> QED
    BY <2>1 DEF GrewBy, OfKind
<1>15. run'[p] # NoRun
  BY <1>1, <1>6 DEF IsOpen
<1> QED
  BY <1>6, <1>11, <1>12, <1>13, <1>14, <1>15, SkillTurn

LEMMA SealSkillSays ==
    ASSUME SealInv, UNCHANGED <<gate, bill, reports>>, NEW p \in SkillRuns, SealSkillRun(p)
    PROVE  SealInv'
<1>0. p \in Process /\ LogKept
  BY SkillAssumption DEF SealInv
<1>1. IsOpen(p) /\ StepsSay(log, run[p], task[p])
  BY DEF SealInv, SkillsSay, SealSkillRun
<1>2. PICK body : body = [outcome |-> IF task[p].failures = 0 THEN "complete" ELSE "failed"]
  OBVIOUS
<1>3. Depart(p, "run.seal", body) /\ task' = [task EXCEPT ![p] = NoTask]
  BY <1>2 DEF SealSkillRun
<1>4. Turn({p}, run[p]) /\ run'[p] = NoRun
  BY <1>0, <1>1, <1>3, DepartTurn
<1>5. ASSUME NEW s \in OfKind(log', "run.seal") \ DOMAIN log
      PROVE  SealTold(log', log'[s])
  <2>1. log'[s].run = run[p] /\ log'[s].body = body
    BY <1>0, <1>1, <1>3, SealAdds
  <2>2. \A kind \in Told \ {"run.seal"} :
            /\ OfRun(log', run[p], kind) = OfRun(log, run[p], kind)
            /\ \A j \in OfRun(log, run[p], kind) : log'[j] = log[j]
    BY <1>0, <1>1, <1>3, SealAdds
  <2>3. OfRun(log', run[p], "sensor.verdict") = {} /\ OfRun(log', run[p], "model.call") = {}
    BY <1>1, <2>2 DEF StepsSay, NoneBut, Told
  <2>4. GateTold(log', log'[s]) /\ BillTold(log', log'[s])
    BY <2>1, <2>3 DEF GateTold, BillTold
  <2>5. ScanTold(log', log'[s])
    BY <1>2, <2>1 DEF ScanTold
  <2>6. SkillTold(log', log'[s])
    <3>1. PICK own : own = OfRun(log, run[p], "tool.result")
      OBVIOUS
    <3>2. OfRun(log', run[p], "tool.result") = own /\ \A j \in own : log'[j] = log[j]
      BY <2>2, <3>1 DEF Told
    <3>3. task[p].failures = 0 <=> \A j \in own : log'[j].body.read
      BY <1>1, <3>1, <3>2 DEF StepsSay
    <3>4. body.outcome = "complete" <=> task[p].failures = 0
      BY <1>2
    <3> QED
      BY <2>1, <3>2, <3>3, <3>4 DEF SkillTold
  <2> QED
    BY <2>4, <2>5, <2>6 DEF SealTold
<1>6. IsTask(NoTask) /\ NoTask.failures = 0 /\ NoTask.stage = "closed"
  BY DEF IsTask, NoTask
<1>7. NoTask.failures \in Nat /\ NoTask.stage # "open" /\ NoTask.stage # "steps"
  BY <1>6
<1> QED
  BY <1>3, <1>4, <1>5, <1>6, <1>7, SkillTurn

\* What leaves the log, the runs and what the commands remember alone.
LEMMA NothingMoves ==
    ASSUME SealInv, UNCHANGED <<log, run, seq, clock, gate, bill, reports, task>>
    PROVE  SealInv'
  BY DEF SealInv, LogKept, Runs, GatesSay, BillsSay, ScansSay, SkillsSay, SealTellsItsRun, IsOpen

\* Nor does an event of no run, of a kind no seal answers for.
LEMMA RecordKeepsSeals ==
    ASSUME SealInv, UNCHANGED <<gate, bill, reports, task>>, NEW kind, kind \notin Told, NEW body,
           log' = Append(log, Stamped(NoRun, 0, kind, body)), UNCHANGED <<run, seq, clock>>
    PROVE  SealInv'
<1>1. PICK e : e = Stamped(NoRun, 0, kind, body)
  OBVIOUS
<1>2. e.run = NoRun /\ e.kind = kind /\ log' = Append(log, e) /\ IsLog(log) /\ LogKept
  BY <1>1 DEF Stamped, SealInv, LogKept
<1>3. Grows(log', log) /\ \A i \in DOMAIN log' \ DOMAIN log : log'[i] = e
  BY <1>2, OwnAdds
<1>4. GrewBy({kind}) /\ {kind} \cap Told = {}
  BY <1>2, <1>3 DEF GrewBy
<1>5. Turn({}, clock + 1)
  BY <1>2, <1>3, <1>4, QuietTurn
<1>6. \A s \in OfKind(log', "run.seal") \ DOMAIN log : SealTold(log', log'[s])
  BY <1>4 DEF GrewBy, OfKind, Told
<1>7. LogKept' /\ SealTellsItsRun'
  <2>1. \A p \in {} : run'[p] # NoRun => OfRun(log', run'[p], "run.seal") = {}
    OBVIOUS
  <2>2. LogKept'
    BY <1>2, <1>5, <2>1, TurnKeepsLog
  <2>3. SealTellsItsRun
    BY DEF SealInv
  <2>4. SealTellsItsRun'
    BY <1>5, <1>6, <2>3, TurnKeepsSeals
  <2> QED
    BY <2>2, <2>4
<1>8. GatesSay' /\ BillsSay' /\ ScansSay' /\ SkillsSay'
  BY <1>5, OthersKeepSaying
<1> QED
  BY <1>7, <1>8 DEF SealInv

LEMMA SkillKeepsSeals ==
    ASSUME SealInv, UNCHANGED <<gate, bill, reports>>, SkillNext
    PROVE  SealInv'
<1>1. ASSUME NEW p \in SkillRuns, KillSkillRun(p) PROVE SealInv'
  <2>1. Leave(p) /\ log' = log /\ task' = [task EXCEPT ![p] = NoTask] /\ p \in Process /\ LogKept
    BY <1>1, SkillAssumption DEF KillSkillRun, SealInv
  <2>2. Turn({p}, clock + 1) /\ run'[p] = NoRun
    BY <2>1, LeaveTurn
  <2>3. OfKind(log', "run.seal") \ DOMAIN log = {}
    BY <2>1 DEF OfKind
  <2>4. IsTask(NoTask) /\ NoTask.failures = 0 /\ NoTask.stage = "closed"
    BY DEF IsTask, NoTask
  <2>5. NoTask.failures \in Nat /\ NoTask.stage # "open" /\ NoTask.stage # "steps"
    BY <2>4
  <2> QED
    BY <2>1, <2>2, <2>3, <2>4, <2>5, SkillTurn
<1>2. ASSUME NEW extra, SkillResolve(extra) PROVE SealInv'
  <2>1. PICK body : Record("skill.resolve", body) /\ task' = task
    BY <1>2 DEF SkillResolve, skillVars
  <2>2. /\ log' = Append(log, Stamped(NoRun, 0, "skill.resolve", body))
        /\ UNCHANGED <<run, seq, clock>> /\ "skill.resolve" \notin Told
    BY <2>1 DEF Record, Told
  <2> QED
    BY <2>1, <2>2, RecordKeepsSeals
<1>3. ASSUME UNCHANGED <<logVars, task>> PROVE SealInv'
  BY <1>3, NothingMoves DEF logVars
<1> QED
  BY <1>1, <1>2, <1>3, BeginSays, OpenSkillSays, ReadSays, SealSkillSays
     DEF SkillNext, SkillSign, EditPackage, EditRegistry

LEMMA StepKeepsSeals == SealInv /\ [Next]_vars => SealInv'
<1> SUFFICES ASSUME SealInv, [Next]_vars PROVE SealInv'
  OBVIOUS
<1>1. CASE SensorStep
  BY <1>1, SensorKeepsSeals DEF SensorStep, gatewayVars, driftVars, skillVars
<1>2. CASE GatewayStep
  BY <1>2, GatewayKeepsSeals DEF GatewayStep, sensorVars, driftVars, skillVars
<1>3. CASE DriftStep
  BY <1>3, DriftKeepsSeals DEF DriftStep, sensorVars, gatewayVars, skillVars
<1>4. CASE SkillStep
  BY <1>4, SkillKeepsSeals DEF SkillStep, sensorVars, gatewayVars, driftVars
<1>5. ASSUME UNCHANGED <<gate, bill, reports, task>>, NEW kind, kind \notin Told, NEW body,
             Record(kind, body)
      PROVE  SealInv'
  BY <1>5, RecordKeepsSeals DEF Record
<1>6. CASE ScorerStep
  <2>1. UNCHANGED <<gate, bill, reports, task>>
    BY <1>6 DEF ScorerStep, sensorVars, gatewayVars, driftVars, skillVars
  <2>2. CASE RecordScore
    BY <1>5, <2>1, <2>2 DEF RecordScore, Told
  <2>3. CASE ScoreLedger \/ LoseScore
    BY <2>1, <2>3, NothingMoves DEF ScoreLedger, LoseScore, logVars
  <2> QED
    BY <1>6, <2>2, <2>3 DEF ScorerStep, ScorerNext
<1>7. CASE GraphStep
  <2>1. UNCHANGED <<gate, bill, reports, task>>
    BY <1>7 DEF GraphStep, sensorVars, gatewayVars, driftVars, skillVars
  <2>2. CASE FinishQuery
    BY <1>5, <2>1, <2>2 DEF FinishQuery, Told
  <2>3. CASE UNCHANGED logVars
    BY <2>1, <2>3, NothingMoves DEF logVars
  <2> QED
    BY <1>7, <2>2, <2>3 DEF GraphStep, GraphNext, GraphTorn, GraphBuild, StartQuery, Visit, Write
<1>8. CASE ExpireStep
  <2>1. PICK body : log' = Append(log, Stamped(NoRun, 0, "retention.expire", body))
    BY <1>8 DEF ExpireStep, Expire
  <2>2. UNCHANGED <<gate, bill, reports, task, run, seq, clock>>
    BY <1>8 DEF ExpireStep, Expire, sensorVars, gatewayVars, driftVars, skillVars
  <2>3. "retention.expire" \notin Told
    BY DEF Told
  <2> QED
    BY <2>1, <2>2, <2>3, RecordKeepsSeals
<1>9. CASE ProfileStep \/ TemplateStep \/ UNCHANGED vars
  BY <1>9, NothingMoves DEF ProfileStep, ProfileNext, MachineChanges, TemplateStep, vars, logVars,
                            sensorVars, gatewayVars, driftVars, skillVars
<1> QED
  BY <1>1, <1>2, <1>3, <1>4, <1>6, <1>7, <1>8, <1>9 DEF Next

\* The log earlier runs left has seals that tell their runs.
RecordedSeals ==
    /\ \A i \in DOMAIN Recorded : Recorded[i].run \in Nat
    /\ \A s \in OfKind(Recorded, "run.seal") : SealTold(Recorded, Recorded[s])

\* A harness nothing has run in is one.
LEMMA NothingSealed == Recorded = <<>> => RecordedSeals
<1> SUFFICES ASSUME Recorded = <<>> PROVE RecordedSeals
  OBVIOUS
<1>1. DOMAIN Recorded = {}
  OBVIOUS
<1> QED
  BY <1>1 DEF RecordedSeals, OfKind

LEMMA InitSeals == RecordedSeals /\ Init => SealInv
<1> SUFFICES ASSUME RecordedSeals, Init PROVE SealInv
  OBVIOUS
<1>1. /\ log = Recorded /\ clock \in 0..MaxRuns
      /\ run = [p \in Process |-> NoRun] /\ seq = [p \in Process |-> 0]
      /\ \A i \in DOMAIN Recorded : Recorded[i].run <= clock
      /\ gate = [p \in SensorRuns |-> NoGate]
      /\ bill = [p \in GatewayRuns |-> NoBill]
      /\ reports = [p \in DriftRuns |-> <<>>]
      /\ task = [p \in SkillRuns |-> NoTask]
  BY DEF Init, LogInit, SensorInit, GatewayInit, DriftInit, SkillInit
<1>2. Runs /\ \A p \in Process : ~IsOpen(p)
  BY <1>1, EventLogAssumption DEF Runs, NoRun, IsOpen
<1>3. LogKept
  BY <1>1, <1>2, BusAssumption DEF LogKept, IsLog, RecordedSeals
<1>4. GatesSay
  <2>1. IsGate(NoGate)
    BY DEF IsGate, NoGate
  <2> QED
    BY <1>1, <1>2, <2>1, SensorAssumption DEF GatesSay
<1>5. BillsSay
  <2>1. IsBill(NoBill)
    BY DEF IsBill, NoBill
  <2> QED
    BY <1>1, <1>2, <2>1, GatewayAssumption DEF BillsSay
<1>6. ScansSay
  BY <1>1, <1>2, DriftAssumption DEF ScansSay
<1>7. SkillsSay
  <2>1. IsTask(NoTask) /\ NoTask.failures = 0 /\ NoTask.stage = "closed"
    BY DEF IsTask, NoTask
  <2> QED
    BY <1>1, <1>2, <2>1, SkillAssumption DEF SkillsSay
<1>8. SealTellsItsRun
  BY <1>1 DEF SealTellsItsRun, RecordedSeals
<1> QED
  BY <1>3, <1>4, <1>5, <1>6, <1>7, <1>8 DEF SealInv

\* The seal of every sensor, gateway, drift and skill run says what the events
\* of that run on the ledger add up to: clean only if no verdict blocked, the
\* cost of the calls that have one, a count of the reports there are, complete
\* only if every step was read; whatever runs are killed, and whatever others
\* append in between (SensorRun::seal, GatewayRun::seal, drift_scan, skill_run).
THEOREM SealsTellTheirRuns == RecordedSeals /\ Spec => []SealTellsItsRun
<1>1. RecordedSeals /\ Init => SealInv
  BY InitSeals
<1>2. SealInv /\ [Next]_vars => SealInv'
  BY StepKeepsSeals
<1>3. SealInv => SealTellsItsRun
  BY DEF SealInv
<1> QED
  BY <1>1, <1>2, <1>3, PTL DEF Spec

=============================================================================
