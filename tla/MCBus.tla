-------------------------------- MODULE MCBus --------------------------------
(* Instances of the commands beside the broker. *)
EXTENDS Bus, TLC

\* To keep the product small a behaviour has a theme, the parts that move in it.
Nothing == <<>>

VARIABLE theme

Sensor(id, blocking, rejects, negative, positive) ==
    [id |-> id, fix |-> TRUE, targeted |-> TRUE, blocking |-> blocking, rejects |-> rejects,
     negative |-> negative, positive |-> positive]

\* Sound ones, blocking or advisory; one that cannot fail, one that always does,
\* and one that does not load.
MCSensors ==
    {Sensor("no-private-key", TRUE, {"bad"}, {"bad"}, {"good"}),
     Sensor("advice", FALSE, {"bad"}, {"bad"}, {}),
     Sensor("instruction-lifecycle", TRUE, {}, {"bad"}, {}),
     Sensor("narrow", FALSE, {"good", "bad"}, {"bad"}, {"good"}),
     Sensor("dead", TRUE, {"bad"}, {}, {})}

Field(name, source, declared) == [name |-> name, source |-> source, declared |-> declared]

MCRequirements ==
    [isolation |-> "per_run_confinement", identity |-> "local", anchoring |-> "none",
     key_custody |-> "software", attestation |-> "ed25519", key_id |-> "k1"]

MCFields ==
    <<Field("isolation", "sandbox.active_backend", "per_run_confinement"),
      Field("egress", "sandbox.egress_allow", "allowlist"),
      Field("identity", "gateway.identity_source", "local"),
      Field("instruction_pack", "gateway.instruction_hash", "v1"),
      Field("host_permissions", "hook.settings_hash", "v2"),
      Field("attestation", "event.attestation.key_id", "k1")>>

Pred(kind, min, test, field, value) ==
    [kind |-> kind, min |-> min, test |-> test, field |-> field, value |-> value, unsealed |-> FALSE]

Level(level, requires) == [level |-> level, requires |-> requires]

\* Rules of config/scoring.json for the kinds recorded here, and one with the
\* forms it uses for the others.
MCScoreRules ==
    {[primitive |-> 1, base |-> Pred("run.open", 1, "any", "", ""),
      levels |-> {Level(3, {Pred("run.open", 1, "present", "workload", "")}),
                  Level(4, {Pred("sensor.verdict", 1, "equals", "sensor", "instruction-lifecycle")})}],
     [primitive |-> 3, base |-> Pred("model.call", 1, "any", "", ""),
      levels |-> {Level(2, {Pred("model.call", 1, "present", "tokens", "")}),
                  Level(3, {Pred("graph.query", 1, "present", "stale", "")})}],
     [primitive |-> 10, base |-> Pred("sensor.verdict", 1, "any", "", ""),
      levels |-> {Level(3, {Pred("sensor.verdict", 1, "any", "", "")}),
                  Level(4, {Pred("sensor.verdict", 1, "equals", "verdict", "broken")})}],
     [primitive |-> 5, base |-> Pred("run.open", 1, "any", "", ""),
      levels |-> {Level(4, {Pred("run.open", 2, "not_equals", "workload", "sensor")})}]}

Manifest(complete, steps, scope) == [complete |-> complete, steps |-> steps, scope |-> scope]

MCManifests ==
    {Manifest(TRUE, <<"s1">>, {"read"}), Manifest(TRUE, <<"s1", "s2">>, {"shell"}),
     Manifest(FALSE, <<"s1">>, {"read"})}

MCParent == {{"read"}, {"read", "shell"}}

MCWords == {{}, {"long", "abc"}}

Bundle(ships, broken, reviewed, leaks) ==
    [ships |-> ships, broken |-> broken, headers |-> {"key-sensor"}, gated |-> {"lifecycle-sensor"},
     reviewed |-> reviewed, leaks |-> leaks]

Whole == Always \cup Exemptions \cup Packs \cup SensorFiles \cup {"reviews", "skill-keys"}

\* A whole bundle and a bare one; one with key material, with a pack nobody
\* reviewed, with a sensor that does not load, without the scanner exemption.
MCTemplates ==
    {Bundle(Whole, {}, Packs, {}), Bundle(Always, {}, {}, {}), Bundle(Always, {}, {}, {"pack"}),
     Bundle(Whole, {}, {"pack"}, {}), Bundle(Whole, {"key-sensor"}, Packs, {}),
     Bundle(Whole \ {"gitleaks"}, {}, Packs, {})}

MCInit ==
    /\ Init
    /\ theme \in {"sensor", "gateway", "drift", "graph", "skill", "template"}
    /\ theme # "sensor" => artifact = "bad"
    /\ theme # "drift" => pack = "v1" /\ settings = Null
    /\ theme \notin {"drift", "gateway"} => machine = [backend |-> "landlock-v4", key |-> "k1"]
    /\ theme # "graph" => files = [f \in File |-> {}]
    /\ theme # "skill" => package.manifest = Manifest(TRUE, <<"s1">>, {"read"})
    /\ theme # "template" => template = Bundle(Always, {}, {}, {})

\* What is read only when a run opens moves between runs.
Still == \A p \in Process : ~IsOpen(p)

\* A graph is queried once, a package signed and resolved once.
MCNext ==
    /\ UNCHANGED theme
    /\ \/ theme = "sensor" /\ (SensorStep \/ ScorerStep \/ ExpireStep)
       \/ theme = "gateway" /\ (GatewayStep \/ (Still /\ ProfileStep) \/ ScorerStep \/ ExpireStep)
       \/ /\ theme = "drift"
          /\ DriftStep \/ ProfileStep \/ (SensorStep /\ UNCHANGED artifact /\ ~gate'["sensor"].repairs)
          /\ Still \/ UNCHANGED <<machine, pack, settings>>
       \/ theme = "graph" /\ log = <<>> /\ GraphStep
       \/ /\ theme = "skill"
          /\ SkillStep
          /\ Cardinality(signings') < 2
          /\ Cardinality(OfKind(log', "skill.resolve")) < 2
       \/ theme = "template" /\ TemplateStep

MCSpec == MCInit /\ [][MCNext]_<<vars, theme>>

=============================================================================
