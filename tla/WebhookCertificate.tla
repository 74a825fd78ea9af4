-------------------------- MODULE WebhookCertificate --------------------------
(***************************************************************************)
(* How the apiserver comes to trust the admission webhook.  Every          *)
(* controller process makes a CA of its own (internal/webhook/certs.go),   *)
(* and the elected one writes it into the one                              *)
(* ValidatingWebhookConfiguration (setup.go) by a Get and an Update.       *)
(*                                                                         *)
(* A process is a start of the controller, so that its number also names   *)
(* its CA.  A rollout starts the next process before it stops the last;    *)
(* the lease is free some time after its holder has ended, and an Update   *)
(* that was sent may reach the apiserver later still.  Others edit the     *)
(* configuration, or delete and create it again.                           *)
(***************************************************************************)
EXTENDS Naturals, FiniteSets

CONSTANTS
    Webhooks,       \* entries of the configuration
    Orderly,        \* whether the configuration is created once, and before an
                    \* elected controller looks for it
    MaxStarts,      \* bound: processes
    MaxDisruptions  \* bound: processes stopped, calls that fail, changes by others

Processes == 1..MaxStarts

ASSUME ConstantsAssumption ==
    /\ Orderly \in BOOLEAN
    /\ MaxStarts \in Nat \ {0} /\ MaxDisruptions \in Nat

VARIABLES
    phase,    \* process -> how far the start of its runnables has come
    lease,    \* who holds the leader lease, 0 for nobody
    config,   \* the configuration: version 0 when there is none, and each entry's
              \* caBundle, 0 when it is empty
    requests, \* the Updates on their way to the apiserver
    disruptions,
    terms     \* history: process -> the how-manieth leader it became, 0 for never

vars == <<phase, lease, config, requests, disruptions, terms>>

Versions == 0..(MaxStarts + MaxDisruptions)
Bundles == [Webhooks -> 0..MaxStarts]
Configs == [version : Versions, bundle : Bundles]
Updates == [from : Processes, version : Versions]

TypeOK ==
    /\ phase \in [Processes -> {"unborn", "serving", "elected", "updating", "settled", "ended"}]
    /\ lease \in 0..MaxStarts
    /\ config \in Configs
    /\ requests \subseteq Updates
    /\ disruptions \in 0..MaxDisruptions
    /\ terms \in [Processes -> 0..MaxStarts]
    /\ \A p \in Processes : phase[p] \in {"elected", "updating"} => lease = p

Empty == [w \in Webhooks |-> 0]

Init ==
    /\ phase = [p \in Processes |-> "unborn"]
    /\ lease = 0
    /\ config = [version |-> 0, bundle |-> Empty]
    /\ requests = {}
    /\ disruptions = 0
    /\ terms = [p \in Processes |-> 0]

Alive == {p \in Processes : phase[p] \notin {"unborn", "ended"}}

Disrupt == disruptions < MaxDisruptions /\ disruptions' = disruptions + 1

-----------------------------------------------------------------------------
(* The controller process. *)

\* GenerateCerts: no two processes have the same CA, nor is one ever renewed.
CA(p) == p

\* run: the CA is generated, the manager started and the webhook served, by every
\* process; a rollout has two of them for a while.
Start(p) ==
    /\ phase[p] = "unborn" /\ \A q \in Processes : q < p => phase[q] # "unborn"
    /\ Cardinality(Alive) < 2
    /\ phase' = [phase EXCEPT ![p] = "serving"]
    /\ UNCHANGED <<lease, config, requests, disruptions, terms>>

\* Mutant of NeedLeaderElection: once served, the CA is published.
NoLeaderElection(p) == lease' = p

\* caBundleInjector runs on the elected leader only.
NeedLeaderElection(p) == lease = 0 /\ lease' = p

Elect(p) ==
    /\ phase[p] = "serving"
    /\ NeedLeaderElection(p)
    /\ phase' = [phase EXCEPT ![p] = "elected"]
    /\ terms' = [terms EXCEPT ![p] = 1 + Cardinality({q \in Processes : terms[q] # 0})]
    /\ UNCHANGED <<config, requests, disruptions>>

\* The injector's Get and what it makes of it: nothing when there is no such
\* configuration, or nothing to change, else an Update is sent.
Inject(p) ==
    /\ phase[p] = "elected"
    /\ IF config.version = 0 \/ \A w \in Webhooks : config.bundle[w] = CA(p)
       THEN /\ phase' = [phase EXCEPT ![p] = "settled"]
            /\ UNCHANGED requests
       ELSE /\ phase' = [phase EXCEPT ![p] = "updating"]
            /\ requests' = requests \cup {[from |-> p, version |-> config.version]}
    /\ UNCHANGED <<lease, config, disruptions, terms>>

\* The process ends: Start returned an error, or it was stopped.
Ended(p) == phase' = [phase EXCEPT ![p] = "ended"]

\* Mutant of UpdateIsCurrent: a patch, which carries no version.
UpdatePatched(r) == config.version # 0

\* The object sent has the resourceVersion it was read with.
UpdateIsCurrent(r) == config.version = r.version

\* Mutant of Bundled: the first entry alone.
FirstBundled(p) ==
    LET first == CHOOSE w \in Webhooks : TRUE
    IN [config.bundle EXCEPT ![first] = CA(p)]

\* Every entry gets the process's CA.
Bundled(p) == [w \in Webhooks |-> CA(p)]

\* An Update gets to the apiserver, though its sender may have ended, and the
\* answer to the sender: a conflict ends the manager.
Land(r) ==
    /\ requests' = requests \ {r}
    /\ IF UpdateIsCurrent(r)
       THEN /\ config' = [version |-> config.version + 1, bundle |-> Bundled(r.from)]
            /\ phase' = [phase EXCEPT ![r.from] = IF @ = "updating" THEN "settled" ELSE @]
       ELSE /\ Ended(r.from)
            /\ UNCHANGED config
    /\ UNCHANGED <<lease, disruptions, terms>>

\* The Get, or the Update for all the injector can tell, has failed.
CallFails(p) ==
    /\ phase[p] \in {"elected", "updating"}
    /\ Disrupt
    /\ Ended(p)
    /\ UNCHANGED <<lease, config, requests, terms>>

-----------------------------------------------------------------------------
(* Around the process. *)

\* SIGTERM at the end of a rollout, or a crash.
Stop(p) ==
    /\ p \in Alive
    /\ Disrupt
    /\ Ended(p)
    /\ UNCHANGED <<lease, config, requests, terms>>

\* A holder stops to renew before the lease is over.
Expire ==
    /\ lease # 0 /\ phase[lease] = "ended"
    /\ lease' = 0
    /\ UNCHANGED <<phase, config, requests, disruptions, terms>>

\* helm upgrade or kubectl edit; the caBundle is none of theirs.
EditConfig ==
    /\ config.version # 0
    /\ Disrupt
    /\ config' = [config EXCEPT !.version = @ + 1]
    /\ UNCHANGED <<phase, lease, requests, terms>>

\* The configuration is created, or deleted and created again, its caBundle empty.
Install ==
    /\ Orderly => config.version = 0 /\ \A p \in Processes : phase[p] # "settled"
    /\ Disrupt
    /\ config' = [version |-> config.version + 1, bundle |-> Empty]
    /\ UNCHANGED <<phase, lease, requests, terms>>

-----------------------------------------------------------------------------
Controller ==
    \/ \E p \in Processes : Start(p) \/ Elect(p) \/ Inject(p) \/ CallFails(p)
    \/ \E r \in requests : Land(r)

Cluster == (\E p \in Processes : Stop(p)) \/ Expire \/ EditConfig \/ Install

Next == Controller \/ Cluster

Spec == Init /\ [][Next]_vars

\* A Deployment starts what it lacks, somebody is elected, calls are answered.
FairSpec ==
    /\ Spec
    /\ WF_vars(\E p \in Processes : Start(p))
    /\ WF_vars(\E p \in Processes : Elect(p))
    /\ WF_vars(\E p \in Processes : Inject(p))
    /\ WF_vars(\E r \in requests : Land(r))
    /\ WF_vars(Expire)

-----------------------------------------------------------------------------
(* Properties. *)

Trusted(p) == \A w \in Webhooks : config.bundle[w] = CA(p)

\* From term to term the CA moves forward, entry by entry: what replaces one is a later
\* leader's.  No Update of a leader before it comes in late and puts a dead CA back
\* (setup.go:58).
NeverAnEarlierCA ==
    [][\A w \in Webhooks : config'.bundle[w] \notin {0, config.bundle[w]} /\ config.bundle[w] # 0 =>
          terms[config'.bundle[w]] > terms[config.bundle[w]]]_vars

\* What the leader is left with once it is done is trust in its own CA, and no Update
\* still on its way, edit or conflict takes that from it: the injector looks once and
\* never again (setup.go:37-64).
SettledIsTrusted ==
    Orderly => \A p \in Processes : phase[p] = "settled" /\ config.version # 0 => Trusted(p)

\* Through crashes, rollouts, edits and conflicts, which end a process each: at last
\* a leader is there whose CA is the one published.
EventuallyTrusted ==
    <>[](config.version # 0 => lease # 0 /\ phase[lease] = "settled" /\ Trusted(lease))

\* The window that docs/architecture/admission-webhook.md:38-42 speaks of clears: the
\* configuration, created with an empty caBundle, gets a controller's CA.
WindowCloses ==
    config.version = 1 /\ config.bundle = Empty ~> config.bundle # Empty
=============================================================================
