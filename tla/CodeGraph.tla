------------------------------ MODULE CodeGraph ------------------------------
(***************************************************************************)
(* The corpus graph (src/src/graph.rs) and the commands over it            *)
(* (src/src/main.rs): an index of the symbols of some files, queried with  *)
(* a check of every indexed file, while others edit those files.           *)
(***************************************************************************)
EXTENDS EventLog

CONSTANTS
    File,
    Words,      \* what a file may hold: sets of words
    Long        \* the words of four characters or more, which are the symbols

VARIABLES
    files,      \* what each file holds, Null when it is not there
    graph,      \* the index: what each indexed file held, or Null
    query,      \* the query under way: its symbol, files to visit, hits, stale ones
    seen        \* history: what each file held since the query began

graphVars == <<files, graph, query, seen>>

NoQuery == [symbol |-> Null, todo |-> {}, hits |-> {}, stale |-> {}]

GraphInit ==
    /\ files \in [File -> Words]
    /\ graph = Null
    /\ query = NoQuery
    /\ seen = [f \in File |-> {}]

Querying == query.symbol # Null

\* symbols_in.
SymbolsIn(words) == words \cap Long

\* Graph::build and save: every file is read, or the build is refused.  A hash
\* stands for what a file held.  The files are read at one moment here and one
\* by one in the code; no property compares what the index says of two files.
GraphBuild(paths) ==
    /\ \A f \in paths : files[f] # Null
    /\ graph' = [f \in paths |-> files[f]]
    /\ UNCHANGED <<logVars, files, query, seen>>

\* Killed while the index is written over: it does not load.
GraphTorn ==
    /\ graph # Null
    /\ graph' = Null
    /\ UNCHANGED <<logVars, files, query, seen>>

\* Graph::load of `trunnion graph query`: the index is in memory from here.
\* The index on disk may be built again meanwhile; one query is under way at a
\* time, and builds wait for it.
StartQuery(symbol) ==
    /\ ~Querying
    /\ graph # Null
    /\ Room
    /\ query' = [symbol |-> symbol, todo |-> DOMAIN graph, hits |-> {}, stale |-> {}]
    /\ seen' = [f \in File |-> {files[f]}]
    /\ UNCHANGED <<logVars, files, graph>>

\* Mutant: a stale file may gain the hit and never loses it.
VisitKeeping(f) ==
    /\ f \in query.todo
    /\ LET indexed == query.symbol \in SymbolsIn(graph[f])
           moved   == files[f] # Null /\ files[f] # graph[f]
           hit     == indexed \/ (moved /\ query.symbol \in files[f])
       IN  query' = [query EXCEPT !.todo = @ \ {f},
                                  !.hits = IF hit THEN @ \cup {f} ELSE @,
                                  !.stale = IF moved THEN @ \cup {f} ELSE @]
    /\ UNCHANGED <<logVars, files, graph, seen>>

\* Graph::query at one node: the index answers, unless the file can be read and
\* is another than the one indexed; then its words do.
Visit(f) ==
    /\ f \in query.todo
    /\ LET indexed == query.symbol \in SymbolsIn(graph[f])
           moved   == files[f] # Null /\ files[f] # graph[f]
           hit     == IF moved THEN query.symbol \in files[f] ELSE indexed
       IN  query' = [query EXCEPT !.todo = @ \ {f},
                                  !.hits = IF hit THEN @ \cup {f} ELSE @,
                                  !.stale = IF moved THEN @ \cup {f} ELSE @]
    /\ UNCHANGED <<logVars, files, graph, seen>>

\* The retrieval goes on the ledger.
FinishQuery ==
    /\ Querying
    /\ query.todo = {}
    /\ Record("graph.query", [symbol |-> query.symbol, hits |-> query.hits, stale |-> query.stale])
    /\ query' = NoQuery
    /\ seen' = [f \in File |-> {}]
    /\ UNCHANGED <<files, graph>>

\* Somebody writes a file, or deletes it.
Write(f, words) ==
    /\ files[f] # words
    /\ files' = [files EXCEPT ![f] = words]
    /\ seen' = IF Querying THEN [seen EXCEPT ![f] = @ \cup {words}] ELSE seen
    /\ UNCHANGED <<logVars, graph, query>>

GraphNext ==
    \/ ~Querying /\ (GraphTorn \/ \E paths \in SUBSET File \ {{}} : GraphBuild(paths))
    \/ \E symbol \in UNION Words : StartQuery(symbol)
    \/ \E f \in File : Visit(f) \/ \E words \in Words \cup {Null} : Write(f, words)
    \/ FinishQuery

=============================================================================
