--------------------- MODULE WebhookCertificate_proofs ---------------------
(***************************************************************************)
(* Proofs about WebhookCertificate, for any number of entries, processes   *)
(* and disruptions, and whether or not the configuration is created in     *)
(* good order.                                                             *)
(*                                                                         *)
(* The argument: an Update that the apiserver will accept was computed     *)
(* from the configuration that is there, by the leader of then, so that    *)
(* no CA in it is of a later leader.  The bound on versions is counted: a  *)
(* process sends one Update at most.                                       *)
(***************************************************************************)
EXTENDS WebhookCertificate, FiniteSetTheorems, TLAPS

Led == {p \in Processes : terms[p] # 0}
Sent == {p \in Led : phase[p] # "elected"}

\* Terms are handed out in order, to one process each.
TermsInv ==
    /\ \A p \in Processes : terms[p] <= Cardinality(Led)
    /\ \A p, q \in Processes : p # q /\ terms[p] = terms[q] => terms[p] = 0
    /\ \A p \in Processes : phase[p] \in {"unborn", "serving"} => terms[p] = 0

\* Whoever has the lease leads last.
LeaseInv == lease # 0 => /\ terms[lease] # 0
                         /\ \A p \in Processes : terms[p] <= terms[lease]

\* Every CA published is that of a process that has led.
BundleInv == \A w \in Webhooks : config.bundle[w] # 0 => terms[config.bundle[w]] # 0

\* An Update that will be accepted replaces no later leader's CA.
RequestInv ==
    \A r \in requests :
        /\ r.from \in Sent
        /\ r.version <= config.version
        /\ r.version = config.version =>
              \A w \in Webhooks : config.bundle[w] # 0 => terms[config.bundle[w]] <= terms[r.from]

\* A version is an Update that landed or a disruption.
CountInv ==
    /\ IsFiniteSet(requests)
    /\ config.version + Cardinality(requests) <= Cardinality(Sent) + disruptions

IInv == TypeOK /\ TermsInv /\ LeaseInv /\ BundleInv /\ RequestInv /\ CountInv

-----------------------------------------------------------------------------
(* Counting. *)

LEMMA ProcessesAreNumbers ==
    /\ Processes \subseteq Nat \ {0}
    /\ IsFiniteSet(Processes) /\ Cardinality(Processes) = MaxStarts
BY ConstantsAssumption, FS_Interval DEF Processes

LEMMA SomeProcesses ==
    ASSUME NEW S \in SUBSET Processes
    PROVE  IsFiniteSet(S) /\ Cardinality(S) \in 0..MaxStarts
<1>1. IsFiniteSet(S) /\ Cardinality(S) <= MaxStarts
  BY ProcessesAreNumbers, FS_Subset
<1>. QED BY <1>1, FS_CardinalityType, ConstantsAssumption

LEMMA LedAndSent ==
    /\ IsFiniteSet(Led) /\ Cardinality(Led) \in 0..MaxStarts
    /\ IsFiniteSet(Sent) /\ Cardinality(Sent) \in 0..MaxStarts
BY SomeProcesses DEF Led, Sent

LEMMA LedAndSentLater ==
    /\ IsFiniteSet(Led') /\ Cardinality(Led') \in 0..MaxStarts
    /\ IsFiniteSet(Sent') /\ Cardinality(Sent') \in 0..MaxStarts
<1>1. Led' \in SUBSET Processes /\ Sent' \in SUBSET Processes
  BY DEF Led, Sent
<1>. QED BY <1>1, SomeProcesses

\* What a step that adds at most a version, a request or both has to show.
LEMMA Counting ==
    ASSUME TypeOK, CountInv, requests' \subseteq Updates,
           config'.version \in Nat, disruptions' \in 0..MaxDisruptions,
           Sent \subseteq Sent', IsFiniteSet(requests'),
           config'.version + Cardinality(requests') - config.version - Cardinality(requests)
               <= Cardinality(Sent') - Cardinality(Sent) + disruptions' - disruptions
    PROVE  CountInv' /\ config'.version \in Versions
<1>1. /\ Cardinality(requests) \in Nat /\ Cardinality(requests') \in Nat
  BY FS_CardinalityType DEF CountInv
<1>2. Cardinality(Sent) \in 0..MaxStarts /\ Cardinality(Sent') \in 0..MaxStarts
  BY LedAndSent, LedAndSentLater
<1>3. config.version \in Nat /\ disruptions \in Nat
  BY ConstantsAssumption DEF TypeOK, Configs, Versions
<1>4. CountInv'
  BY <1>1, <1>2, <1>3 DEF CountInv
<1>. QED BY <1>1, <1>2, <1>4, ConstantsAssumption DEF CountInv, Versions

LEMMA SentGrows ==
    ASSUME Sent \subseteq Sent' PROVE Cardinality(Sent) <= Cardinality(Sent')
BY LedAndSent, LedAndSentLater, FS_Subset

-----------------------------------------------------------------------------
(* The invariant. *)

LEMMA InitInv == Init => IInv
<1>. SUFFICES ASSUME Init PROVE IInv
  OBVIOUS
<1>. USE DEF Init
<1>1. TypeOK
  BY ConstantsAssumption DEF TypeOK, Configs, Versions, Bundles, Empty, Processes
<1>2. Led = {} /\ Sent = {}
  BY DEF Led, Sent
<1>3. TermsInv
  BY <1>2, FS_EmptySet DEF TermsInv
<1>4. LeaseInv /\ BundleInv /\ RequestInv
  BY DEF LeaseInv, BundleInv, RequestInv, Empty
<1>5. CountInv
  BY <1>2, FS_EmptySet DEF CountInv
<1>. QED BY <1>1, <1>3, <1>4, <1>5 DEF IInv

\* A step of one process that hands out no term and sends and publishes nothing.
LEMMA PhaseMoves ==
    ASSUME IInv, NEW p \in Processes, NEW to \in {"serving", "settled", "ended"},
           phase' = [phase EXCEPT ![p] = to],
           to = "serving" => phase[p] = "unborn",
           phase[p] = "unborn" => to = "serving",
           to = "settled" => phase[p] \in {"elected", "updating"},
           UNCHANGED <<lease, config, requests, terms>>,
           disruptions' \in {disruptions, disruptions + 1}, disruptions' \in 0..MaxDisruptions
    PROVE  IInv'
<1>. USE DEF IInv
<1>. phase[p] \in {"unborn", "serving", "elected", "updating", "settled", "ended"}
  BY DEF TypeOK
<1>1. Led' = Led /\ Sent \subseteq Sent'
  BY DEF Led, Sent, TypeOK, TermsInv
<1>2. TermsInv'
  BY <1>1 DEF TermsInv, TypeOK
<1>3. LeaseInv' /\ BundleInv'
  BY DEF LeaseInv, BundleInv
<1>4. RequestInv'
  BY <1>1 DEF RequestInv
<1>5. CountInv'
  <2>1. Cardinality(Sent) <= Cardinality(Sent') /\ disruptions <= disruptions'
    BY <1>1, SentGrows DEF TypeOK
  <2>2. /\ Cardinality(Sent) \in Nat /\ Cardinality(Sent') \in Nat
        /\ Cardinality(requests) \in Nat
        /\ config.version \in Nat /\ disruptions \in Nat
    BY LedAndSent, LedAndSentLater, FS_CardinalityType, ConstantsAssumption
       DEF CountInv, TypeOK, Configs, Versions
  <2>. QED BY <2>1, <2>2 DEF CountInv
<1>6. TypeOK'
  BY DEF TypeOK
<1>. QED BY <1>2, <1>3, <1>4, <1>5, <1>6

LEMMA ElectInv ==
    ASSUME IInv, NEW p \in Processes, Elect(p) PROVE IInv'
<1>. USE DEF IInv
<1>. DEFINE n == Cardinality(Led)
<1>1. /\ phase[p] = "serving" /\ terms[p] = 0 /\ lease = 0 /\ lease' = p
      /\ phase' = [phase EXCEPT ![p] = "elected"]
      /\ terms' = [terms EXCEPT ![p] = 1 + n]
      /\ UNCHANGED <<config, requests, disruptions>>
  BY DEF Elect, NeedLeaderElection, TermsInv, Led
<1>2. n \in Nat /\ p \notin Led
  BY <1>1, LedAndSent DEF Led
<1>3. terms'[p] = n + 1 /\ \A q \in Processes \ {p} : terms'[q] = terms[q]
  BY <1>1, <1>2 DEF TypeOK
<1>4. Led' = Led \cup {p} /\ Cardinality(Led') = n + 1
  <2>1. Led' = Led \cup {p}
    BY <1>2, <1>3 DEF Led
  <2>. QED BY <2>1, <1>2, LedAndSent, FS_AddElement
<1>5. n + 1 <= MaxStarts
  BY <1>4, LedAndSentLater, ConstantsAssumption
<1>6. Sent' = Sent
  BY <1>1, <1>3, <1>4 DEF Sent, Led, TypeOK
<1>7. TypeOK'
  <2>1. terms' \in [Processes -> 0..MaxStarts]
    BY <1>1, <1>2, <1>5, ConstantsAssumption DEF TypeOK
  <2>2. \A q \in Processes : phase'[q] \in {"elected", "updating"} => q = p
    BY <1>1, ProcessesAreNumbers DEF TypeOK
  <2>3. p \in 0..MaxStarts
    BY DEF Processes
  <2>. QED BY <1>1, <2>1, <2>2, <2>3 DEF TypeOK
<1>8. \A q \in Processes : terms[q] \in Nat /\ terms[q] <= n
  BY ConstantsAssumption DEF TypeOK, TermsInv
<1>9. TermsInv'
  <2>1. \A q \in Processes : terms'[q] <= n + 1
    BY <1>2, <1>3, <1>8
  <2>2. \A q, r \in Processes : q # r /\ terms'[q] = terms'[r] => terms'[q] = 0
    <3>. SUFFICES ASSUME NEW q \in Processes, NEW r \in Processes, q # r, terms'[q] = terms'[r]
                  PROVE  terms'[q] = 0
      OBVIOUS
    <3>1. q # p /\ r # p
      BY <1>2, <1>3, <1>8
    <3>. QED BY <1>3, <3>1 DEF TermsInv
  <2>3. \A q \in Processes : phase'[q] \in {"unborn", "serving"} => terms'[q] = 0
    BY <1>1, <1>3 DEF TermsInv, TypeOK
  <2>. QED BY <1>4, <2>1, <2>2, <2>3 DEF TermsInv
<1>10. LeaseInv'
  BY <1>1, <1>2, <1>3, <1>8 DEF LeaseInv
<1>11. \A q \in Processes : terms[q] # 0 => terms'[q] = terms[q]
  BY <1>1, <1>3
<1>12. BundleInv' /\ RequestInv'
  <2>1. \A w \in Webhooks : config.bundle[w] \in 0..MaxStarts
    BY DEF TypeOK, Configs, Bundles
  <2>2. \A w \in Webhooks : config.bundle[w] # 0 =>
            terms[config.bundle[w]] # 0 /\ terms'[config.bundle[w]] = terms[config.bundle[w]]
    BY <1>11, <2>1, ConstantsAssumption DEF BundleInv, Processes
  <2>3. \A r \in requests : terms'[r.from] = terms[r.from]
    BY <1>11 DEF RequestInv, Sent, Led
  <2>. QED BY <1>1, <1>6, <2>2, <2>3 DEF BundleInv, RequestInv
<1>13. CountInv'
  BY <1>1, <1>6 DEF CountInv
<1>. QED BY <1>7, <1>9, <1>10, <1>12, <1>13

LEMMA InjectInv ==
    ASSUME IInv, NEW p \in Processes, Inject(p) PROVE IInv'
<1>. USE DEF IInv
<1>1. CASE phase' = [phase EXCEPT ![p] = "settled"] /\ UNCHANGED requests
  <2>1. phase[p] = "elected" /\ UNCHANGED <<lease, config, disruptions, terms>>
    BY DEF Inject
  <2>. QED BY <1>1, <2>1, PhaseMoves DEF TypeOK
<1>2. CASE /\ phase' = [phase EXCEPT ![p] = "updating"]
           /\ requests' = requests \cup {[from |-> p, version |-> config.version]}
  <2>. DEFINE new == [from |-> p, version |-> config.version]
  <2>1. phase[p] = "elected" /\ UNCHANGED <<lease, config, disruptions, terms>>
    BY DEF Inject
  <2>2. lease = p /\ terms[p] # 0 /\ \A q \in Processes : terms[q] <= terms[p]
    <3>1. lease = p
      BY <2>1 DEF TypeOK
    <3>. QED BY <3>1, ProcessesAreNumbers DEF LeaseInv
  <2>3. Led' = Led /\ Sent' = Sent \cup {p} /\ p \notin Sent
    BY <1>2, <2>1, <2>2 DEF Led, Sent, TypeOK
  <2>4. Cardinality(Sent') = Cardinality(Sent) + 1 /\ Cardinality(Sent) \in Nat
    <3>1. IsFiniteSet(Sent) /\ Cardinality(Sent) \in Nat
      BY LedAndSent
    <3>2. Cardinality(Sent \cup {p}) = Cardinality(Sent) + 1
      BY <2>3, <3>1, FS_AddElement
    <3>. QED BY <2>3, <3>1, <3>2
  <2>5. TypeOK'
    <3>1. new \in Updates
      BY DEF TypeOK, Configs, Updates
    <3>. QED BY <1>2, <2>1, <2>2, <3>1 DEF TypeOK
  <2>6. TermsInv' /\ LeaseInv' /\ BundleInv'
    BY <1>2, <2>1, <2>2, <2>3 DEF TermsInv, LeaseInv, BundleInv, TypeOK
  <2>7. RequestInv'
    <3>1. \A w \in Webhooks : config.bundle[w] # 0 => terms[config.bundle[w]] <= terms[p]
      BY <2>2, ConstantsAssumption DEF TypeOK, Configs, Bundles, Processes
    <3>2. config.version <= config.version
      BY ConstantsAssumption DEF TypeOK, Configs, Versions
    <3>3. \A r \in requests' : r \in requests \/ (r.from = p /\ r.version = config.version)
      BY <1>2
    <3>. QED BY <2>1, <2>3, <3>1, <3>2, <3>3 DEF RequestInv
  <2>8. CountInv'
    <3>1. /\ IsFiniteSet(requests') /\ Cardinality(requests') <= Cardinality(requests) + 1
          /\ Cardinality(requests) \in Nat /\ Cardinality(requests') \in Nat
      <4>1. requests' = requests \cup {new}
        BY <1>2
      <4>2. IsFiniteSet(requests) /\ Cardinality(requests) \in Nat
        BY FS_CardinalityType DEF CountInv
      <4>. HIDE DEF new
      <4>3. IsFiniteSet(requests \cup {new})
            /\ Cardinality(requests \cup {new}) \in {Cardinality(requests), Cardinality(requests) + 1}
        BY <4>2, FS_AddElement
      <4>. QED BY <4>1, <4>2, <4>3
    <3>2. config.version \in Nat /\ disruptions \in Nat
      BY ConstantsAssumption DEF TypeOK, Configs, Versions
    <3>. QED BY <2>1, <2>4, <3>1, <3>2 DEF CountInv
  <2>. QED BY <2>5, <2>6, <2>7, <2>8
<1>. QED BY <1>1, <1>2 DEF Inject

\* The configuration gets a version more, and only CAs that it had, that are empty,
\* or one process's that has led.
LEMMA ConfigMoves ==
    ASSUME IInv, TypeOK', UNCHANGED <<lease, terms>>, Sent \subseteq Sent', CountInv',
           TermsInv',
           config'.version = config.version + 1, requests' \subseteq requests,
           \A w \in Webhooks : \/ config'.bundle[w] \in {0, config.bundle[w]}
                               \/ config'.bundle[w] \in Led
    PROVE  IInv'
<1>. USE DEF IInv
<1>1. LeaseInv'
  BY DEF LeaseInv
<1>2. BundleInv'
  BY DEF BundleInv, Led
<1>3. RequestInv'
  <2>1. config.version \in Nat /\ \A r \in requests : r.version \in Nat
    BY ConstantsAssumption DEF TypeOK, Configs, Updates, Versions
  <2>2. \A r \in requests' : r.from \in Sent' /\ r.version <= config.version
    BY DEF RequestInv
  <2>. QED BY <2>1, <2>2 DEF RequestInv
<1>. QED BY <1>1, <1>2, <1>3

LEMMA LandInv ==
    ASSUME IInv, NEW r \in requests, Land(r) PROVE IInv'
<1>. USE DEF IInv
<1>. DEFINE p == r.from
<1>1. /\ p \in Processes /\ p \in Sent /\ p \in Led /\ terms[p] # 0 /\ phase[p] # "elected"
      /\ requests' = requests \ {r} /\ UNCHANGED <<lease, disruptions, terms>>
  BY DEF RequestInv, Sent, Led, Land
<1>2. /\ IsFiniteSet(requests') /\ Cardinality(requests') = Cardinality(requests) - 1
      /\ Cardinality(requests) \in Nat /\ Cardinality(requests') \in Nat
  BY <1>1, FS_RemoveElement, FS_CardinalityType DEF CountInv
<1>3. config.version \in Nat /\ disruptions \in 0..MaxDisruptions /\ disruptions \in Nat
  BY ConstantsAssumption DEF TypeOK, Configs, Versions
<1>4. phase[p] \in {"updating", "settled", "ended"}
  BY <1>1 DEF TypeOK, TermsInv
<1>5. ASSUME NEW to \in {"settled", "ended"}, phase' = [phase EXCEPT ![p] = to]
      PROVE  /\ Led' = Led /\ Sent' = Sent /\ TermsInv'
             /\ phase' \in [Processes -> {"unborn", "serving", "elected", "updating", "settled", "ended"}]
             /\ \A q \in Processes : phase'[q] \in {"elected", "updating"} => lease' = q
  <2>1. Led' = Led /\ Sent' = Sent
    BY <1>1, <1>5 DEF Led, Sent, TypeOK
  <2>2. TermsInv'
    BY <1>1, <1>5, <2>1 DEF TermsInv, TypeOK
  <2>. QED BY <1>1, <1>5, <2>1, <2>2 DEF TypeOK
<1>6. CASE UpdateIsCurrent(r)
  <2>1. /\ config' = [version |-> config.version + 1, bundle |-> Bundled(p)]
        /\ \E to \in {"settled", "ended"} : phase' = [phase EXCEPT ![p] = to]
    BY <1>4, <1>6 DEF Land
  <2>2. /\ Led' = Led /\ Sent' = Sent /\ TermsInv'
        /\ phase' \in [Processes -> {"unborn", "serving", "elected", "updating", "settled", "ended"}]
        /\ \A q \in Processes : phase'[q] \in {"elected", "updating"} => lease' = q
    BY <1>5, <2>1
  <2>3. CountInv' /\ config'.version \in Versions
    <3>1. requests' \subseteq Updates
      BY <1>1 DEF TypeOK
    <3>2. Cardinality(Sent) \in Nat
      BY LedAndSent
    <3>. QED BY <1>1, <1>2, <1>3, <2>1, <2>2, <3>1, <3>2, Counting
  <2>4. Bundled(p) \in Bundles /\ \A w \in Webhooks : Bundled(p)[w] = p
    BY <1>1 DEF Bundled, Bundles, CA, Processes
  <2>5. TypeOK'
    BY <1>1, <2>1, <2>2, <2>3, <2>4 DEF TypeOK, Configs
  <2>. QED BY <1>1, <2>1, <2>2, <2>3, <2>4, <2>5, ConfigMoves
<1>7. CASE ~UpdateIsCurrent(r)
  <2>1. phase' = [phase EXCEPT ![p] = "ended"] /\ UNCHANGED config
    BY <1>7 DEF Land, Ended
  <2>2. /\ Led' = Led /\ Sent' = Sent /\ TermsInv'
        /\ phase' \in [Processes -> {"unborn", "serving", "elected", "updating", "settled", "ended"}]
        /\ \A q \in Processes : phase'[q] \in {"elected", "updating"} => lease' = q
    BY <1>5, <2>1
  <2>3. TypeOK'
    BY <1>1, <2>1, <2>2 DEF TypeOK
  <2>4. LeaseInv' /\ BundleInv' /\ RequestInv'
    BY <1>1, <2>1, <2>2 DEF LeaseInv, BundleInv, RequestInv
  <2>5. CountInv'
    <3>1. Cardinality(Sent) \in Nat
      BY LedAndSent
    <3>. QED BY <1>1, <1>2, <1>3, <2>1, <2>2, <3>1 DEF CountInv
  <2>. QED BY <2>2, <2>3, <2>4, <2>5
<1>. QED BY <1>6, <1>7

LEMMA ClusterInv ==
    ASSUME IInv, Expire \/ EditConfig \/ Install PROVE IInv'
<1>. USE DEF IInv
<1>1. CASE Expire
  <2>1. /\ phase[lease] = "ended" /\ lease' = 0 /\ lease # 0
        /\ UNCHANGED <<phase, config, requests, disruptions, terms>>
    BY <1>1 DEF Expire
  <2>2. Led' = Led /\ Sent' = Sent
    BY <2>1 DEF Led, Sent
  <2>3. TypeOK'
    BY <2>1, ConstantsAssumption DEF TypeOK
  <2>. QED BY <2>1, <2>2, <2>3 DEF TermsInv, LeaseInv, BundleInv, RequestInv, CountInv
<1>2. CASE EditConfig \/ Install
  <2>1. /\ UNCHANGED <<phase, lease, requests, terms>>
        /\ disruptions' = disruptions + 1 /\ disruptions < MaxDisruptions
    BY <1>2 DEF EditConfig, Install, Disrupt
  <2>2. Led' = Led /\ Sent' = Sent
    BY <2>1 DEF Led, Sent
  <2>3. \/ config' = [config EXCEPT !.version = @ + 1]
        \/ config' = [version |-> config.version + 1, bundle |-> Empty]
    BY <1>2 DEF EditConfig, Install
  <2>4. /\ config'.version = config.version + 1 /\ config'.bundle \in {config.bundle, Empty}
        /\ config' = [version |-> config'.version, bundle |-> config'.bundle]
    BY <2>3 DEF TypeOK, Configs
  <2>5. disruptions' \in 0..MaxDisruptions /\ config.version \in Nat /\ disruptions \in Nat
    BY <2>1, ConstantsAssumption DEF TypeOK, Configs, Versions
  <2>6. CountInv' /\ config'.version \in Versions
    <3>1. Cardinality(Sent) \in Nat /\ Cardinality(requests) \in Nat /\ IsFiniteSet(requests)
      BY LedAndSent, FS_CardinalityType DEF CountInv
    <3>2. requests' \subseteq Updates
      BY <2>1 DEF TypeOK
    <3>. QED BY <2>1, <2>2, <2>4, <2>5, <3>1, <3>2, Counting
  <2>7. Empty \in Bundles /\ \A w \in Webhooks : Empty[w] = 0
    BY ConstantsAssumption DEF Empty, Bundles
  <2>8. TypeOK'
    BY <2>1, <2>4, <2>5, <2>6, <2>7 DEF TypeOK, Configs
  <2>9. TermsInv'
    BY <2>1, <2>2 DEF TermsInv
  <2>. QED BY <2>1, <2>2, <2>4, <2>6, <2>7, <2>8, <2>9, ConfigMoves
<1>. QED BY <1>1, <1>2

LEMMA StepInv == IInv /\ [Next]_vars => IInv'
<1>. SUFFICES ASSUME IInv, [Next]_vars PROVE IInv'
  OBVIOUS
<1>1. ASSUME NEW p \in Processes, Start(p) PROVE IInv'
  BY <1>1, PhaseMoves DEF Start, IInv, TypeOK
<1>2. ASSUME NEW p \in Processes, CallFails(p) \/ Stop(p) PROVE IInv'
  <2>1. phase[p] # "unborn" /\ phase' = [phase EXCEPT ![p] = "ended"]
    BY <1>2 DEF CallFails, Stop, Alive, Ended
  <2>2. /\ UNCHANGED <<lease, config, requests, terms>>
        /\ disruptions' = disruptions + 1 /\ disruptions' \in 0..MaxDisruptions
    BY <1>2, ConstantsAssumption DEF CallFails, Stop, Disrupt, IInv, TypeOK
  <2>. QED BY <2>1, <2>2, PhaseMoves
<1>3. CASE UNCHANGED vars
  <2>1. Led' = Led /\ Sent' = Sent
    BY <1>3 DEF Led, Sent, vars
  <2>. QED BY <1>3, <2>1 DEF IInv, TypeOK, TermsInv, LeaseInv, BundleInv, RequestInv, CountInv, vars
<1>. QED BY <1>1, <1>2, <1>3, ElectInv, InjectInv, LandInv, ClusterInv DEF Next, Controller, Cluster

-----------------------------------------------------------------------------
(* Once the leader is done. *)

\* Whoever is done has the lease, its CA is in every entry, and what is on its way
\* is too old to be accepted.
DoneInv(p) ==
    /\ lease = p
    /\ Orderly /\ config.version # 0 =>
          \A w \in Webhooks : /\ config.bundle[w] = CA(p)
                              /\ \A r \in requests : r.version # config.version

\* No CA is published before its process has sent it.
SettledInv ==
    /\ \A w \in Webhooks : config.bundle[w] # 0 => config.bundle[w] \in Sent
    /\ \A r \in requests : r.version # 0
    /\ \A p \in Processes : phase[p] = "settled" => DoneInv(p)

LEMMA SettledParts ==
    ASSUME IInv
    PROVE  /\ Sent \subseteq Processes /\ 0 \notin Processes
           /\ config.version \in Nat
           /\ \A r \in requests : /\ r.version \in Nat /\ r.version <= config.version
                                  /\ r.from \in Processes /\ r.from \in Sent
           /\ \A p \in Processes : phase[p] \in {"elected", "updating"} => lease = p
BY ProcessesAreNumbers, ConstantsAssumption
   DEF IInv, TypeOK, Configs, Updates, Versions, RequestInv, Sent, Led

\* Who has led and is past its Get stays so.
LEMMA SentStays ==
    ASSUME TypeOK, terms' = terms, \A p \in Processes : phase[p] # "elected" => phase'[p] # "elected"
    PROVE  Sent \subseteq Sent'
BY DEF Sent, Led

\* A step at whose end nobody is done who was not before, and nothing is published or sent.
LEMMA SettledKept ==
    ASSUME SettledInv, Sent \subseteq Sent', UNCHANGED <<config, requests>>,
           \A p \in Processes : phase'[p] = "settled" => phase[p] = "settled" /\ lease' = p
    PROVE  SettledInv'
BY DEF SettledInv, DoneInv

LEMMA ElectSettled == ASSUME IInv, SettledInv, NEW p \in Processes, Elect(p) PROVE SettledInv'
<1>1. /\ lease = 0 /\ phase[p] = "serving" /\ phase' = [phase EXCEPT ![p] = "elected"]
      /\ UNCHANGED <<config, requests>> /\ phase \in [Processes -> {"unborn", "serving", "elected", "updating", "settled", "ended"}]
      /\ terms' = [terms EXCEPT ![p] = 1 + Cardinality({q \in Processes : terms[q] # 0})]
      /\ terms \in [Processes -> 0..MaxStarts] /\ terms[p] = 0
  BY DEF Elect, NeedLeaderElection, IInv, TypeOK, TermsInv
<1>2. \A q \in Processes : phase[q] # "settled"
  BY <1>1, SettledParts DEF SettledInv, DoneInv
<1>3. Sent \subseteq Sent'
  BY <1>1 DEF Sent, Led
<1>. QED BY <1>1, <1>2, <1>3, SettledKept

LEMMA InjectSettled == ASSUME IInv, SettledInv, NEW p \in Processes, Inject(p) PROVE SettledInv'
<1>1. /\ phase[p] = "elected" /\ lease = p /\ UNCHANGED <<lease, config, terms>> /\ p \notin Sent
      /\ phase \in [Processes -> {"unborn", "serving", "elected", "updating", "settled", "ended"}]
  BY DEF Inject, IInv, TypeOK, Sent
<1>2. \A q \in Processes : phase[q] # "settled"
  BY <1>1 DEF SettledInv, DoneInv
<1>3. CASE /\ phase' = [phase EXCEPT ![p] = "settled"] /\ UNCHANGED requests
           /\ config.version = 0 \/ \A w \in Webhooks : config.bundle[w] = CA(p)
  <2>1. Sent \subseteq Sent'
    BY <1>1, <1>3, SentStays DEF IInv
  <2>2. config.version # 0 => Webhooks = {}
    BY <1>1, <1>3, SettledParts DEF SettledInv, CA
  <2>. QED BY <1>1, <1>2, <1>3, <2>1, <2>2 DEF SettledInv, DoneInv
<1>4. CASE /\ phase' = [phase EXCEPT ![p] = "updating"] /\ config.version # 0
           /\ requests' = requests \cup {[from |-> p, version |-> config.version]}
  <2>1. Sent \subseteq Sent'
    BY <1>1, <1>4, SentStays DEF IInv
  <2>. QED BY <1>1, <1>2, <1>4, <2>1 DEF SettledInv, DoneInv
<1>. QED BY <1>3, <1>4 DEF Inject

\* An Update of an earlier leader finds a newer version once this one's has landed.
LEMMA LandSettled == ASSUME IInv, SettledInv, NEW r \in requests, Land(r) PROVE SettledInv'
<1>. DEFINE p == r.from
<1>1. /\ requests' = requests \ {r} /\ UNCHANGED <<lease, terms>>
      /\ phase \in [Processes -> {"unborn", "serving", "elected", "updating", "settled", "ended"}]
      /\ p \in Processes /\ p \in Sent /\ phase[p] # "elected"
  BY SettledParts DEF Land, IInv, TypeOK, Sent
<1>2. CASE ~UpdateIsCurrent(r)
  <2>1. phase' = [phase EXCEPT ![p] = "ended"] /\ UNCHANGED config
    BY <1>2 DEF Land, Ended
  <2>2. Sent \subseteq Sent'
    BY <1>1, <2>1, SentStays DEF IInv
  <2>. QED BY <1>1, <2>1, <2>2 DEF SettledInv, DoneInv
<1>3. CASE UpdateIsCurrent(r)
  <2>1. /\ r.version = config.version
        /\ config'.version = config.version + 1 /\ \A w \in Webhooks : config'.bundle[w] = p
        /\ phase' = [phase EXCEPT ![p] = IF @ = "updating" THEN "settled" ELSE @]
    BY <1>3 DEF Land, UpdateIsCurrent, Bundled, CA
  <2>2. Sent \subseteq Sent'
    BY <1>1, <2>1, SentStays DEF IInv
  <2>3. \A s \in requests' : s.version # config'.version
    BY <1>1, <2>1, SettledParts
  <2>4. ASSUME NEW q \in Processes, phase'[q] = "settled" PROVE DoneInv(q)'
    <3>1. CASE phase[q] = "updating"
      <4>1. q = p /\ lease = p
        BY <1>1, <2>1, <2>4, <3>1, SettledParts
      <4>. QED BY <1>1, <2>1, <2>3, <4>1 DEF DoneInv, CA
    <3>2. CASE phase[q] = "settled"
      <4>1. lease = q /\ (Orderly /\ config.version # 0 => Webhooks = {})
        BY <2>1, <3>2 DEF SettledInv, DoneInv
      <4>2. config.version # 0
        BY <2>1 DEF SettledInv
      <4>. QED BY <1>1, <4>1, <4>2 DEF DoneInv
    <3>. QED BY <1>1, <2>1, <2>4, <3>1, <3>2
  <2>5. \A w \in Webhooks : config'.bundle[w] # 0 => config'.bundle[w] \in Sent'
    BY <1>1, <2>1, <2>2
  <2>. QED BY <1>1, <2>4, <2>5 DEF SettledInv
<1>. QED BY <1>2, <1>3

LEMMA ClusterSettled ==
    ASSUME IInv, SettledInv, Expire \/ EditConfig \/ Install PROVE SettledInv'
<1>1. UNCHANGED <<phase, requests, terms>>
  BY DEF Expire, EditConfig, Install
<1>2. Sent' = Sent
  BY <1>1 DEF Sent, Led
<1>3. CASE Expire
  <2>1. UNCHANGED config /\ \A p \in Processes : phase[p] # "settled"
    BY <1>3 DEF Expire, SettledInv, DoneInv
  <2>. QED BY <1>1, <1>2, <2>1, SettledKept
<1>4. CASE EditConfig
  <2>1. /\ config'.version = config.version + 1 /\ config'.bundle = config.bundle
        /\ UNCHANGED lease /\ config.version # 0
    BY <1>4 DEF EditConfig, IInv, TypeOK, Configs
  <2>2. \A r \in requests' : r.version # config'.version
    BY <1>1, <2>1, SettledParts
  <2>. QED BY <1>1, <1>2, <2>1, <2>2 DEF SettledInv, DoneInv
<1>5. CASE Install
  <2>1. /\ \A w \in Webhooks : config'.bundle[w] = 0
        /\ UNCHANGED lease /\ (Orderly => \A p \in Processes : phase[p] # "settled")
    BY <1>5 DEF Install, Empty
  <2>. QED BY <1>1, <1>2, <2>1 DEF SettledInv, DoneInv
<1>. QED BY <1>3, <1>4, <1>5

LEMMA InitSettled == Init => SettledInv
BY DEF Init, Empty, SettledInv

LEMMA StepSettled == IInv /\ SettledInv /\ [Next]_vars => SettledInv'
<1>. SUFFICES ASSUME IInv, SettledInv, [Next]_vars PROVE SettledInv'
  OBVIOUS
<1>1. ASSUME NEW p \in Processes, Start(p) \/ CallFails(p) \/ Stop(p) PROVE SettledInv'
  <2>1. /\ \E to \in {"serving", "ended"} : phase' = [phase EXCEPT ![p] = to]
        /\ UNCHANGED <<lease, config, requests, terms>>
    BY <1>1 DEF Start, CallFails, Stop, Ended
  <2>2. Sent \subseteq Sent'
    BY <2>1, SentStays DEF IInv, TypeOK
  <2>3. \A q \in Processes : phase'[q] = "settled" => phase[q] = "settled" /\ lease = q
    BY <2>1 DEF IInv, TypeOK, SettledInv, DoneInv
  <2>. QED BY <2>1, <2>2, <2>3, SettledKept
<1>2. CASE UNCHANGED vars
  <2>1. Sent' = Sent
    BY <1>2 DEF Sent, Led, vars
  <2>. QED BY <1>2, <2>1 DEF SettledInv, DoneInv, vars
<1>. QED BY <1>1, <1>2, ElectSettled, InjectSettled, LandSettled, ClusterSettled
     DEF Next, Controller, Cluster

-----------------------------------------------------------------------------
(* Nobody waits in vain. *)

\* Nobody waits for what will not come: as long as no leader is done, a call is to be
\* made or answered, a lease to expire, a process to start or to be elected, unless the
\* processes have run out.
SomethingIsDue ==
    \/ lease # 0 /\ phase[lease] \in {"elected", "settled", "ended"}
    \/ lease # 0 /\ phase[lease] = "updating" /\ \E r \in requests : r.from = lease
    \/ lease = 0 /\ \E p \in Processes : phase[p] = "serving"
    \/ lease = 0 /\ Alive = {}

\* Whoever waits for an answer has an Update on its way.
AnswerInv == \A p \in Processes : phase[p] = "updating" => \E r \in requests : r.from = p

LEMMA StepAnswer == IInv /\ AnswerInv /\ [Next]_vars => AnswerInv'
<1>. SUFFICES ASSUME IInv, AnswerInv, [Next]_vars PROVE AnswerInv'
  OBVIOUS
<1>. phase \in [Processes -> {"unborn", "serving", "elected", "updating", "settled", "ended"}]
  BY DEF IInv, TypeOK
<1>1. ASSUME UNCHANGED requests,
             \A p \in Processes : phase'[p] = "updating" => phase[p] = "updating"
      PROVE  AnswerInv'
  BY <1>1 DEF AnswerInv
<1>2. ASSUME NEW p \in Processes, Start(p) \/ Elect(p) \/ CallFails(p) \/ Stop(p)
      PROVE  AnswerInv'
  <2>1. /\ \E to \in {"serving", "elected", "ended"} : phase' = [phase EXCEPT ![p] = to]
        /\ UNCHANGED requests
    BY <1>2 DEF Start, Elect, CallFails, Stop, Ended
  <2>. QED BY <1>1, <2>1
<1>3. ASSUME NEW p \in Processes, Inject(p) PROVE AnswerInv'
  <2>1. CASE phase' = [phase EXCEPT ![p] = "settled"] /\ UNCHANGED requests
    BY <1>1, <2>1
  <2>. DEFINE new == [from |-> p, version |-> config.version]
  <2>2. CASE phase' = [phase EXCEPT ![p] = "updating"] /\ requests' = requests \cup {new}
    <3>1. new.from = p
      OBVIOUS
    <3>. HIDE DEF new
    <3>2. new \in requests' /\ requests \subseteq requests'
      BY <2>2
    <3>3. \A q \in Processes \ {p} : phase'[q] = phase[q]
      BY <2>2
    <3>. QED BY <3>1, <3>2, <3>3 DEF AnswerInv
  <2>. QED BY <1>3, <2>1, <2>2 DEF Inject
<1>4. ASSUME NEW r \in requests, Land(r) PROVE AnswerInv'
  <2>1. r.from \in Processes /\ requests' = requests \ {r}
    BY <1>4, SettledParts DEF Land
  <2>2. \E to \in {phase[r.from], "settled", "ended"} :
            to # "updating" /\ phase' = [phase EXCEPT ![r.from] = to]
    BY <1>4, <2>1 DEF Land, Ended
  <2>3. \A p \in Processes : phase'[p] = "updating" => phase[p] = "updating" /\ p # r.from
    BY <2>1, <2>2
  <2>. QED BY <2>1, <2>3 DEF AnswerInv
<1>5. CASE Expire \/ EditConfig \/ Install \/ UNCHANGED vars
  BY <1>1, <1>5 DEF Expire, EditConfig, Install, vars
<1>. QED BY <1>2, <1>3, <1>4, <1>5 DEF Next, Controller, Cluster

-----------------------------------------------------------------------------
(* Theorems. *)

\* In every reachable state the terms are in order, whoever holds the lease leads
\* last, and an Update in flight is too old or replaces no later leader's CA.
THEOREM CertificateInvariant == Spec => []IInv
BY InitInv, StepInv, PTL DEF Spec

\* Every variable keeps its type, and the versions their bound.
THEOREM CertificateTypes == Spec => []TypeOK
<1>1. IInv => TypeOK
  BY DEF IInv
<1>. QED BY <1>1, CertificateInvariant, PTL

\* However processes overlap, crash and are late: a CA is replaced by a later
\* leader's only.
THEOREM NoDeadCAReturns == Spec => NeverAnEarlierCA
<1>1. ASSUME IInv, [Next]_vars, NEW w \in Webhooks,
             config'.bundle[w] \notin {0, config.bundle[w]}, config.bundle[w] # 0
      PROVE  terms[config'.bundle[w]] > terms[config.bundle[w]]
  <2>. USE DEF IInv
  <2>1. PICK r \in requests : Land(r) /\ UpdateIsCurrent(r)
    <3>1. ASSUME EditConfig \/ Install PROVE FALSE
      <4>1. config' = [config EXCEPT !.version = @ + 1]
            \/ config' = [version |-> config.version + 1, bundle |-> Empty]
        BY <3>1 DEF EditConfig, Install
      <4>2. config'.bundle \in {config.bundle, Empty}
        BY <1>1, <4>1 DEF TypeOK, Configs
      <4>. QED BY <1>1, <4>2 DEF Empty
    <3>2. config' # config
      BY <1>1
    <3>. QED BY <1>1, <3>1, <3>2 DEF Next, Controller, Cluster, Start, Elect, Inject, Land,
                CallFails, Stop, Expire, vars
  <2>2. config'.bundle[w] = r.from
    BY <2>1 DEF Land, Bundled, CA
  <2>3. terms[config.bundle[w]] <= terms[r.from] /\ terms[config.bundle[w]] # 0
    BY <1>1, <2>1 DEF RequestInv, BundleInv, UpdateIsCurrent
  <2>4. r.from \in Processes /\ config.bundle[w] \in Processes
    BY <1>1 DEF TypeOK, Configs, Bundles, Processes, RequestInv, Sent, Led
  <2>5. terms[r.from] # terms[config.bundle[w]]
    BY <1>1, <2>2, <2>3, <2>4 DEF TermsInv
  <2>. QED BY <2>2, <2>3, <2>4, <2>5, <1>1, ConstantsAssumption DEF TypeOK
<1>2. IInv /\ [Next]_vars =>
          [\A w \in Webhooks : config'.bundle[w] \notin {0, config.bundle[w]} /\ config.bundle[w] # 0 =>
              terms[config'.bundle[w]] > terms[config.bundle[w]]]_vars
  BY <1>1
<1>. QED BY <1>2, CertificateInvariant, PTL DEF Spec, NeverAnEarlierCA

\* Once the leader is done its CA is the one published, and stays so as long as it
\* leads, whatever an Update of an earlier leader, an edit or a conflict does (setup.go).
THEOREM LeaderStaysTrusted == Spec => []SettledIsTrusted
<1>1. SettledInv => SettledIsTrusted
  BY DEF SettledInv, DoneInv, SettledIsTrusted, Trusted
<1>. QED BY <1>1, InitSettled, StepSettled, CertificateInvariant, PTL DEF Spec

\* The lease, the calls and the processes never wait on each other: until a leader is
\* done there is a step that somebody is to take (setup.go, and the leader election
\* around it).
THEOREM NobodyWaitsInVain == Spec => []SomethingIsDue
<1>1. Init => AnswerInv
  BY DEF Init, AnswerInv
<1>2. IInv /\ SettledInv /\ AnswerInv => SomethingIsDue
  <2>. SUFFICES ASSUME IInv, SettledInv, AnswerInv PROVE SomethingIsDue
    OBVIOUS
  <2>. phase \in [Processes -> {"unborn", "serving", "elected", "updating", "settled", "ended"}]
    BY DEF IInv, TypeOK
  <2>1. CASE lease # 0
    <3>1. lease \in Processes /\ terms[lease] # 0
      BY <2>1, ConstantsAssumption DEF IInv, TypeOK, LeaseInv, Processes
    <3>2. phase[lease] \in {"elected", "updating", "settled", "ended"}
      BY <3>1 DEF IInv, TermsInv
    <3>. QED BY <2>1, <3>1, <3>2 DEF SomethingIsDue, AnswerInv
  <2>2. CASE lease = 0
    <3>1. \A p \in Processes : phase[p] \in {"unborn", "serving", "ended"}
      BY <2>2, SettledParts DEF SettledInv, DoneInv
    <3>. QED BY <2>2, <3>1 DEF SomethingIsDue, Alive
  <2>. QED BY <2>1, <2>2
<1>. QED BY <1>1, <1>2, InitSettled, StepSettled, StepAnswer, CertificateInvariant, PTL DEF Spec

=============================================================================
