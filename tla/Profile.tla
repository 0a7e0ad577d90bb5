------------------------------- MODULE Profile -------------------------------
(***************************************************************************)
(* What a profile declares and what the machine under it provides: the     *)
(* backends a run needs (src/src/policy.rs, availability_check) and the    *)
(* key its events are signed under (src/src/runlog.rs, ActorSigner).  The  *)
(* machine changes between runs; each run asks again when it opens.        *)
(***************************************************************************)
EXTENDS EventLog

CONSTANTS
    Requirements,   \* profile_requirements: what each field declares, Null for nothing
    OnUnavailable,  \* what on_unavailable says
    Laptop,         \* whether this is the laptop profile
    Published,      \* the keys whose seed is published
    Backends,       \* what may confine a run on this machine
    Seeds           \* the keys its seed file may produce, Null when it has none

VARIABLE machine    \* its sandbox backend and the key its seed produces

profileVars == <<machine>>

ProfileInit == machine \in [backend : Backends, key : Seeds]

\* confines_filesystem_and_network: the backends that hold both halves.
Confining == {"seatbelt", "landlock-v4"}

\* Providable::for_this_build, by the field it answers for.
Providable(backend) ==
    [isolation   |-> {backend, "none"} \cup IF backend \in Confining
                                            THEN {"per_run_confinement"} ELSE {},
     identity    |-> {"local", "none"},
     anchoring   |-> {"none"},
     key_custody |-> {"software"}]

\* unavailable_requirements: a field that declares nothing asks for nothing.
Shortfalls(backend) ==
    {field \in DOMAIN Providable(backend) :
        Requirements[field] \notin Providable(backend)[field] \cup {Null}}

\* availability_check: whether a run opens, and what its run.open admits to.
Available ==
    \/ OnUnavailable = "degrade"
    \/ OnUnavailable = "refuse" /\ Shortfalls(machine.backend) = {}

\* ActorSigner::declared: a declared key is the one the seed produces, and one
\* anybody could sign under is for a laptop; otherwise the run is refused.
SignerLoads ==
    \/ Requirements.attestation \in {Null, "none"}
    \/ /\ Requirements.attestation = "ed25519"
       /\ machine.key = Requirements.key_id
       /\ Laptop \/ machine.key \notin Published

\* The key the events of a run that has a signer carry.
SigningKey == IF Requirements.attestation = "ed25519" THEN Requirements.key_id ELSE "unsigned"

\* The machine is another, or somebody replaces its seed.
MachineChanges(backend, key) ==
    /\ machine' = [backend |-> backend, key |-> key]
    /\ machine' # machine
    /\ UNCHANGED logVars

ProfileNext == \E backend \in Backends, key \in Seeds : MachineChanges(backend, key)

=============================================================================
