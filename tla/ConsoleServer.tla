---------------------------- MODULE ConsoleServer ----------------------------
(***************************************************************************)
(* The accept loop of the console (src/src/console.rs): one connection at  *)
(* a time, read up to the end of its head, parsed, routed and answered,    *)
(* while the operator's commands change the registry the project pages     *)
(* are made from.  A client sends its request piece by piece, stops at any *)
(* of them, and may send more than a head.  An answer that outgrows the    *)
(* buffers of its socket is written only once the client reads it.         *)
(*                                                                         *)
(* Pieces: 1 is the method, 2 and 3 are the target, 4 is the version; then *)
(* come the headers, the empty line that ends the head, and the body.      *)
(***************************************************************************)
EXTENDS Workspace, Sequences

CONSTANTS
    Client,
    Request,    \* records [method, route, headers, body]; headers, body in pieces
    Cut,        \* Cut[r]: the route that the first half of a target to r names
    Outgrows,   \* the routes whose pages the buffers of a socket do not hold
    MaxHead,    \* MAX_REQUEST_BYTES, in pieces
    MaxDrain    \* MAX_DRAIN_BYTES, in pieces

VARIABLES
    request,    \* request[c]: what c is sending
    sent,       \* sent[c]: pieces sent on an open connection
    backlog,    \* connections not accepted yet, oldest first
    serving,    \* the connection being served, or Nobody
    phase,      \* accepting, reading, draining, routing, rendering, writing
    got,        \* pieces read off the connection being served
    head,       \* how many of them are in the request's buffer
    page,       \* the projects still to render, and the rows rendered
    response,   \* the response being made
    peer,       \* what the client does about one that must be read: idle, reads, gone
    answer,     \* answer[c]: what c received
    standing    \* history: the ids on file ever since the connection was accepted

serverVars == <<request, sent, backlog, serving, phase, got, head, page, response, peer, answer, standing>>

vars == <<workspaceVars, serverVars>>

Nobody     == "nobody"
NoPage     == [todo |-> {}, rows |-> {}]
NoResponse == [status |-> 0, route |-> "none", rows |-> {}]
NoRequest  == [method |-> "none", route |-> "none", headers |-> 0, body |-> 0]

\* The connection was closed with bytes unread, and reset under its answer.
Reset == [NoResponse EXCEPT !.status = 1]

Version    == 4
HeadEnd(r) == Version + r.headers + 1
Length(r)  == HeadEnd(r) + r.body

ASSUME ConsoleAssumption ==
    /\ \A r \in Request : r.headers \in Nat /\ r.body \in Nat
    /\ NoRequest \notin Request
    /\ MaxHead \in Nat
    /\ MaxDrain \in Nat

ServerInit ==
    /\ request = [c \in Client |-> NoRequest]
    /\ sent = [c \in Client |-> 0]
    /\ backlog = <<>>
    /\ serving = Nobody
    /\ phase = "accepting"
    /\ got = 0
    /\ head = 0
    /\ page = NoPage
    /\ response = NoResponse
    /\ peer = "idle"
    /\ answer = [c \in Client |-> NoResponse]
    /\ standing = {}

Init == WorkspaceInit /\ ServerInit

-----------------------------------------------------------------------------
(* Clients *)

Connect(c, r) ==
    /\ request[c] = NoRequest
    /\ request' = [request EXCEPT ![c] = r]
    /\ backlog' = Append(backlog, c)
    /\ UNCHANGED <<sent, serving, phase, got, head, page, response, peer, answer, standing>>

Send(c) ==
    /\ request[c] # NoRequest
    /\ answer[c] = NoResponse
    /\ ~(serving = c /\ peer = "gone")
    /\ sent[c] < Length(request[c])
    /\ sent' = [sent EXCEPT ![c] = @ + 1]
    /\ UNCHANGED <<request, backlog, serving, phase, got, head, page, response, peer, answer, standing>>

\* The answer is in the socket's buffers whether or not the client reads.
Fits == ~(response.status = 200 /\ response.route \in Outgrows)

\* The loop waits for the client it is serving: reads have a timeout, and
\* writes have none.
Stuck == phase = "writing" /\ ~Fits /\ peer = "idle"

ReadAnswer(c) ==
    /\ Stuck
    /\ serving = c
    /\ peer' = "reads"
    /\ UNCHANGED <<request, sent, backlog, serving, phase, got, head, page, response, answer, standing>>

HangUp(c) ==
    /\ Stuck
    /\ serving = c
    /\ peer' = "gone"
    /\ UNCHANGED <<request, sent, backlog, serving, phase, got, head, page, response, answer, standing>>

-----------------------------------------------------------------------------
(* The server: serve_on, read_request *)

Goes(to) == phase' = to

Respond(status, route, rows) == response' = [status |-> status, route |-> route, rows |-> rows]

Accept ==
    /\ phase = "accepting"
    /\ backlog # <<>>
    /\ serving' = Head(backlog)
    /\ backlog' = Tail(backlog)
    /\ standing' = Ids(saved)
    /\ Goes("reading")
    /\ UNCHANGED <<request, sent, got, head, page, response, peer, answer>>

HeadRead == got >= HeadEnd(request[serving])

Unread == sent[serving] - got

\* A read takes some of what has arrived, past the end of the head perhaps.
Read ==
    /\ phase = "reading"
    /\ ~HeadRead
    /\ got <= MaxHead
    /\ \E n \in 1..Unread : got' = got + n
    /\ UNCHANGED <<request, sent, backlog, serving, phase, head, page, response, peer, answer, standing>>

\* Mutant: the refusal is written with the rest of the head unread.
TooLongUndrained ==
    /\ phase = "reading"
    /\ ~HeadRead
    /\ got > MaxHead
    /\ head' = got
    /\ Respond(400, "none", {})
    /\ Goes("writing")
    /\ UNCHANGED <<request, sent, backlog, serving, got, page, peer, answer, standing>>

\* A head over the cap is refused, never cut to it.
TooLong ==
    /\ phase = "reading"
    /\ ~HeadRead
    /\ got > MaxHead
    /\ head' = got
    /\ Respond(400, "none", {})
    /\ Goes("draining")
    /\ UNCHANGED <<request, sent, backlog, serving, got, page, peer, answer, standing>>

Drain ==
    /\ phase = "draining"
    /\ got - head < MaxDrain
    /\ \E n \in 1..Unread : got' = got + n
    /\ UNCHANGED <<request, sent, backlog, serving, phase, head, page, response, peer, answer, standing>>

\* Enough was discarded, or nothing came for a while.
DrainEnd ==
    /\ phase = "draining"
    /\ got - head >= MaxDrain \/ Unread = 0
    /\ Goes("writing")
    /\ UNCHANGED <<request, sent, backlog, serving, got, head, page, response, peer, answer, standing>>

\* Mutant: the version may be missing.
TargetReadEarly(n) == n >= 2

\* METHOD TARGET VERSION: three parts, so the space after the target was read.
TargetRead(n) == n >= Version

\* The target as far as it was read.
RouteRead(r, n) == IF n >= 3 THEN r.route ELSE Cut[r.route]

\* Mutant: the head is waited for.
ParseWhole ==
    LET r == request[serving]
    IN  /\ phase = "reading"
        /\ HeadRead
        /\ head' = got
        /\ IF TargetRead(got) /\ r.method = "GET"
             THEN Respond(0, RouteRead(r, got), {}) /\ Goes("routing")
             ELSE Respond(IF TargetRead(got) THEN 405 ELSE 400, "none", {}) /\ Goes("writing")
        /\ UNCHANGED <<request, sent, backlog, serving, got, page, peer, answer, standing>>

\* The head is complete, or the client closed or was silent for READ_TIMEOUT:
\* the request line is taken from what there is.
Parse ==
    LET r == request[serving]
    IN  /\ phase = "reading"
        /\ HeadRead \/ (Unread = 0 /\ got <= MaxHead)
        /\ head' = got
        /\ IF TargetRead(got) /\ r.method = "GET"
             THEN Respond(0, RouteRead(r, got), {}) /\ Goes("routing")
             ELSE Respond(IF TargetRead(got) THEN 405 ELSE 400, "none", {}) /\ Goes("writing")
        /\ UNCHANGED <<request, sent, backlog, serving, got, page, peer, answer, standing>>

-----------------------------------------------------------------------------
(* respond, api, projects, project_route: a route is "shell", "unknown",   *)
(* "projects", or the id of the project to scan                            *)

Static ==
    /\ phase = "routing"
    /\ response.route \in {"shell", "unknown"}
    /\ Respond(IF response.route = "shell" THEN 200 ELSE 404, response.route, {})
    /\ Goes("writing")
    /\ UNCHANGED <<request, sent, backlog, serving, got, head, page, peer, answer, standing>>

\* Mutant: a registry that does not parse is taken for an empty one.
OnFileOrNothing == IF registry = Torn THEN {{}} ELSE {registry}

\* Workspace::load, as the set of what it returns: a fault returns nothing.
OnFile == IF registry = Torn THEN {} ELSE {registry}

LoadPage ==
    /\ phase = "routing"
    /\ response.route \notin {"shell", "unknown"}
    /\ LET wanted(projects) == IF response.route = "projects" THEN projects
                               ELSE {x \in projects : x.id = response.route}
           missing(projects) == response.route # "projects" /\ wanted(projects) = {}
       IN  \/ /\ OnFile = {}
              /\ Respond(500, response.route, {}) /\ Goes("writing")
              /\ UNCHANGED page
           \/ \E projects \in OnFile :
                 IF missing(projects)
                   THEN Respond(404, response.route, {}) /\ Goes("writing") /\ UNCHANGED page
                   ELSE /\ page' = [todo |-> wanted(projects), rows |-> {}]
                        /\ Goes("rendering")
                        /\ UNCHANGED response
    /\ UNCHANGED <<request, sent, backlog, serving, got, head, peer, answer, standing>>

\* One tree is scanned at a time, as it is by then.
RenderRow ==
    /\ phase = "rendering"
    /\ \E x \in page.todo :
          page' = [todo |-> page.todo \ {x},
                   rows |-> page.rows \cup {[id |-> x.id, readable |-> Readable(x)]}]
    /\ UNCHANGED <<request, sent, backlog, serving, phase, got, head, response, peer, answer, standing>>

\* A tree that cannot be read is a row of the list, and a failed scan page.
EndPage ==
    /\ phase = "rendering"
    /\ page.todo = {}
    /\ LET failed == response.route # "projects" /\ \E row \in page.rows : ~row.readable
       IN  Respond(IF failed THEN 500 ELSE 200, response.route, IF failed THEN {} ELSE page.rows)
    /\ page' = NoPage
    /\ Goes("writing")
    /\ UNCHANGED <<request, sent, backlog, serving, got, head, peer, answer, standing>>

\* Response::write_to, and the close when the stream is dropped.  The write
\* returns when the client has taken what the buffers do not hold, or is gone.
WriteResponse ==
    /\ phase = "writing"
    /\ ~Stuck
    /\ \E received \in {response, Reset} :
          /\ received = Reset => Unread > 0 \/ peer = "gone"
          /\ peer = "gone" => received = Reset
          /\ answer' = [answer EXCEPT ![serving] = received]
    /\ peer' = "idle"
    /\ sent' = [sent EXCEPT ![serving] = 0]
    /\ serving' = Nobody
    /\ got' = 0
    /\ head' = 0
    /\ standing' = {}
    /\ response' = NoResponse
    /\ Goes("accepting")
    /\ UNCHANGED <<request, backlog, page>>

ServerStep ==
    \/ Accept \/ Read \/ TooLong \/ Drain \/ DrainEnd \/ Parse
    \/ Static \/ LoadPage \/ RenderRow \/ EndPage \/ WriteResponse

ClientStep ==
    \E c \in Client : Send(c) \/ ReadAnswer(c) \/ HangUp(c) \/ \E r \in Request : Connect(c, r)

OperatorStep ==
    /\ WorkspaceNext
    /\ standing' = standing \cap Ids(saved')
    /\ UNCHANGED <<request, sent, backlog, serving, phase, got, head, page, response, peer, answer>>

Next ==
    \/ OperatorStep
    \/ (ClientStep \/ ServerStep) /\ UNCHANGED workspaceVars

\* The loop runs for as long as the console does, except while it is Stuck; no
\* client and no operator has to do anything.
Spec == Init /\ [][Next]_vars /\ WF_vars(ServerStep /\ UNCHANGED workspaceVars)

-----------------------------------------------------------------------------
(* Properties *)

\* A target cut short by a silent client or by the cap is refused, never
\* "truncated into a shorter query that means something else" (read_request).
RoutedTargetIsWhole ==
    \A c \in Client : answer[c].route \in {"none", request[c].route}

\* A refused client gets to read why, "instead of being lost to a connection
\* reset" (drain): a refusal is written with nothing that arrived left unread,
\* as long as the request has no body and is no longer than what is drained.
RefusalLeavesNothingUnread ==
    [][/\ phase # "writing" /\ phase' = "writing"
       /\ response'.status \in {400, 405}
       /\ request[serving].body = 0
       /\ Length(request[serving]) <= MaxHead + MaxDrain
       => got' = sent[serving]]_vars

\* A project that was on file all the while is on the list, readable or not:
\* neither a save in progress nor "a stale path on one project" hides it.
ListOmitsNoStandingProject ==
    phase = "writing" /\ response.status = 200 /\ response.route = "projects" =>
        \A id \in standing : \E row \in response.rows : row.id = id

\* Whoever connects is answered, though the clients before it stop half way
\* through a request and keep the connection open (read_request), as long as
\* none of them leaves for ever an answer that must be read (write_to).
EveryClientIsAnswered ==
    []<>~Stuck => \A c \in Client : request[c] # NoRequest ~> answer[c] # NoResponse

=============================================================================
