----------------------------- MODULE MCWorkspace -----------------------------
(* Instances of the registry and the console that reads it. *)
EXTENDS ConsoleServer, TLC

\* Two targets that ask for one id.
IdOfTarget == [t \in {"repo", "dir", "fork"} |-> IF t = "dir" THEN "d" ELSE "r"]

Ask(method, route, headers, body) ==
    [method |-> method, route |-> route, headers |-> headers, body |-> body]

Pages == {Ask("GET", "projects", 0, 0), Ask("GET", "r", 0, 0)}

Requests == Pages \cup {Ask("GET", "r", 4, 0), Ask("POST", "shell", 0, 1), Ask("GET", "unknown", 0, 0)}

\* To keep the product small, a behaviour has two clients and every request
\* before the first command, one client that asks for pages from then on, and
\* none after the last.
Focus ==
    /\ request["c2"] \in Pages \cup {NoRequest}
    /\ commands > 0 => request["c1"] = NoRequest
    /\ commands = MaxCommands => \A c \in Client : request[c] = NoRequest
    /\ step["p"] # "idle" => sent["c2"] \in {0, HeadEnd(request["c2"])}

MCNext == Next /\ Focus'

MCSpec == Init /\ [][MCNext]_vars /\ WF_vars(ServerStep /\ UNCHANGED workspaceVars)

\* "/api/pro", "/", "/api/projects".
CutRoute == ("projects" :> "unknown") @@ ("shell" :> "shell") @@ ("unknown" :> "shell")
            @@ ("r" :> "projects")

=============================================================================
