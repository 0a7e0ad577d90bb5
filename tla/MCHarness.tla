----------------------------- MODULE MCHarness -----------------------------
EXTENDS Console

CONSTANTS
    read,       \* a read, allowed at every rung but led
    push,       \* a shared write: held until its capability is autonomous
    force,      \* a shared write the rules deny outright
    leak,       \* a read with a credential handle its capability does not declare
    stray,      \* a call no capability declares
    readTool, shell, junk,
    alice       \* a permitted approver

\* "git" can be rolled back, so at autonomous its writes pass and owe a review.
Capabilities(gitRung) ==
    <<[id |-> "fs", calls |-> {read, leak} \cap Call, effect |-> "read", rung |-> "assisted",
       rollback |-> FALSE],
      [id |-> "git", calls |-> {push, force} \cap Call, effect |-> "write.shared", rung |-> gitRung,
       rollback |-> TRUE]>>

GitAssisted   == Capabilities("assisted")
GitAutonomous == Capabilities("autonomous")

MCRule ==
    <<[id |-> "r-force", cap |-> "git", calls |-> {force} \cap Call, everyTarget |-> FALSE,
       applies |-> TRUE, action |-> "deny"],
      [id |-> "r-git", cap |-> "git", calls |-> {}, everyTarget |-> TRUE,
       applies |-> TRUE, action |-> "allow"],
      [id |-> "r-other", cap |-> "fs", calls |-> {}, everyTarget |-> TRUE,
       applies |-> FALSE, action |-> "deny"],
      [id |-> "r-fs", cap |-> "fs", calls |-> {}, everyTarget |-> TRUE,
       applies |-> TRUE, action |-> "allow"],
      [id |-> "r-default", cap |-> NoCap, calls |-> {}, everyTarget |-> TRUE,
       applies |-> TRUE, action |-> "deny"]>>

MCToolOf == [c \in Call |-> IF c \in {read, leak} THEN readTool ELSE shell]

NoScopes  == {}
GitScope  == {{"fs"}}

Nothing == <<>>

\* A ledger on which a push was held.
Held ==
    LET request == <<1, 2>>
        Ev(n, kind, body) == [kind |-> kind, run |-> 1, seq |-> n, body |-> body]
    IN  <<Ev(0, "run.open", [workload |-> "broker"]),
          Ev(1, "tool.register", [tool |-> shell, verdict |-> "registered"]),
          Ev(2, "tool.request", [request |-> request, call |-> push]),
          Ev(3, "policy.decision",
             [request |-> request, call |-> push, cap |-> "git", verdict |-> "hold",
              rule |-> "r-git", obligation |-> "approval"]),
          Ev(4, "tool.result", [request |-> request, outcome |-> "blocked"]),
          Ev(5, "run.seal", [outcome |-> "complete", reviews |-> 0])>>

\* The same of an older ledger, whose decisions do not name their call, and
\* somebody who is no approver has put an approval there.
HeldLongAgo ==
    [Held EXCEPT ![4].body.request = NoId, ![4].body.call = "none"] \o
    <<[kind |-> "approval", run |-> 2, seq |-> 0,
       body |-> Approval(<<2, 0>>, "approve", push, "r-git", "nobody", <<1, 2>>)]>>

\* And alice has approved it.
HeldAndApproved ==
    Held \o
    <<[kind |-> "approval", run |-> 2, seq |-> 0,
       body |-> Approval(<<2, 0>>, "approve", push, "r-git", alice, <<1, 2>>)],
      [kind |-> "run.seal", run |-> 2, seq |-> 1, body |-> [outcome |-> "complete", reviews |-> 0]]>>

AllTriggers == {"sensor.fail", "policy.deny"}

=============================================================================
