------------------------------ MODULE Template ------------------------------
(***************************************************************************)
(* Harness templates (src/src/main.rs, template_validate, template_init,   *)
(* generate_actor_key; src/src/scan.rs, scan_keys): a bundle is validated  *)
(* as a whole, copied file by file into a directory, searched for key      *)
(* material, and given a key of its own, whose seed is written last.  The  *)
(* command may be killed between any two of those steps.                   *)
(***************************************************************************)

CONSTANT Templates
    \* ships: the files of the bundle; broken: those their validator refuses;
    \* headers, gated: the sensors that hold a private key header, that read the
    \* review record; reviewed: the packs it has a row for; leaks: the files
    \* that hold a key long enough to be one
CONSTANT Strays     \* the paths somebody else may put a file at

VARIABLES
    template,       \* the bundle
    dest,           \* what stands at each path of the harness
    init            \* where the command is, and the files it has yet to copy

templateVars == <<template, dest, init>>

Always == {"policy", "providers", "scoring", "pack", "gitignore"}

Exemptions == {"gitleaks", "secret-scanning"}

Packs == {"pack", "audit-pack"}

SensorFiles == {"key-sensor", "lifecycle-sensor"}

Generated == {"actor-keys", "seed"}

Paths == Always \cup Exemptions \cup Packs \cup SensorFiles \cup {"reviews", "skill-keys"} \cup Generated

Idle == [stage |-> "idle", todo |-> {}]

TemplateInit ==
    /\ template \in Templates
    /\ dest = [path \in Paths |-> "absent"]
    /\ init = Idle

-----------------------------------------------------------------------------
\* What the bundle must hold: the exemptions where a sensor carries a key
\* header, the review record where one reads it.
Required(bundle) ==
    Always \cup (IF bundle.headers \cap bundle.ships # {} THEN Exemptions ELSE {})
           \cup (IF bundle.gated \cap bundle.ships # {} THEN {"reviews"} ELSE {})

\* The files to copy: what it must hold, and every pack, sensor and key registry.
Plan(bundle) == Required(bundle) \cup (bundle.ships \cap (Packs \cup SensorFiles \cup {"skill-keys"}))

\* template_validate.
Validates(bundle) ==
    /\ Required(bundle) \subseteq bundle.ships
    /\ Plan(bundle) \cap bundle.broken = {}
    /\ bundle.gated \cap bundle.ships # {} => bundle.ships \cap Packs \subseteq bundle.reviewed

\* The command starts: no path it will write may exist.
BeginInit ==
    /\ init.stage = "idle"
    /\ Validates(template)
    /\ \A path \in Plan(template) \cup Generated : dest[path] = "absent"
    /\ init' = [stage |-> "copy", todo |-> Plan(template)]
    /\ UNCHANGED <<template, dest>>

CopyFile(path) ==
    /\ init.stage = "copy"
    /\ path \in init.todo
    /\ dest' = [dest EXCEPT ![path] = "copied"]
    /\ init' = [init EXCEPT !.todo = @ \ {path}]
    /\ UNCHANGED template

\* Mutant: what was there before the copy is not searched, nor is the copy.
KeyScanSkipped ==
    /\ init.stage = "copy"
    /\ init.todo = {}
    /\ init' = [stage |-> "declare", todo |-> {}]
    /\ UNCHANGED <<template, dest>>

\* scan_keys over the whole directory: real key material refuses the harness,
\* and leaves what was copied where it is.
KeyScan ==
    /\ init.stage = "copy"
    /\ init.todo = {}
    /\ init' = IF \E path \in template.leaks : dest[path] = "copied" THEN Idle
               ELSE [stage |-> "declare", todo |-> {}]
    /\ UNCHANGED <<template, dest>>

\* The policy is rewritten to declare the key, and must load again.
DeclareKey ==
    /\ init.stage = "declare"
    /\ dest' = [dest EXCEPT !["policy"] = "declares"]
    /\ init' = [init EXCEPT !.stage = "register"]
    /\ UNCHANGED template

RegisterKey ==
    /\ init.stage = "register"
    /\ dest' = [dest EXCEPT !["actor-keys"] = "written"]
    /\ init' = [init EXCEPT !.stage = "create"]
    /\ UNCHANGED template

\* The seed's file must be new; one that has appeared meanwhile is kept.
CreateSeed ==
    /\ init.stage = "create"
    /\ dest' = IF dest["seed"] = "absent" THEN [dest EXCEPT !["seed"] = "empty"] ELSE dest
    /\ init' = IF dest["seed"] = "absent" THEN [init EXCEPT !.stage = "seed"] ELSE Idle
    /\ UNCHANGED template

WriteSeed ==
    /\ init.stage = "seed"
    /\ dest' = [dest EXCEPT !["seed"] = "written"]
    /\ init' = Idle
    /\ UNCHANGED template

\* Killed, or a write failed.
KillInit ==
    /\ init.stage # "idle"
    /\ init' = Idle
    /\ UNCHANGED <<template, dest>>

\* Somebody puts a file of their own there, or clears the directory to retry.
PutFile(path) ==
    /\ path \in Strays
    /\ dest[path] = "absent"
    /\ dest' = [dest EXCEPT ![path] = "theirs"]
    /\ UNCHANGED <<template, init>>

ClearDest ==
    /\ init.stage = "idle"
    /\ dest' = [path \in Paths |-> "absent"]
    /\ UNCHANGED <<template, init>>

TemplateNext ==
    \/ BeginInit
    \/ \E path \in Paths : CopyFile(path) \/ PutFile(path)
    \/ KeyScan
    \/ DeclareKey
    \/ RegisterKey
    \/ CreateSeed
    \/ WriteSeed
    \/ KillInit
    \/ ClearDest

TemplateSpec == TemplateInit /\ [][TemplateNext]_templateVars

-----------------------------------------------------------------------------
(* Properties *)

\* A harness has a seed only when everything else is in place: a policy that
\* declares its key, the registry that names it, every file of a bundle that
\* validates, and no other key material (generate_actor_key, "Writing the seed
\* last means any earlier failure leaves a harness that refuses to run").
SeedComesLast ==
    dest["seed"] \in {"empty", "written"} =>
        /\ dest["policy"] = "declares"
        /\ dest["actor-keys"] = "written"
        /\ \A path \in Plan(template) \ {"policy"} : dest[path] = "copied"
        /\ Plan(template) \cap template.leaks = {}
        /\ Validates(template)

=============================================================================
