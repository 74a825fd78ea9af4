----------------------------- MODULE MetricsAuth -----------------------------
(***************************************************************************)
(* internal/metricsauth: who may scrape the controller's /metrics.  A      *)
(* request is answered from the cache of allowed ones, or by a TokenReview *)
(* and then a SubjectAccessReview of the apiserver, two calls under one    *)
(* deadline; what both allow is remembered for a while.  Requests overlap, *)
(* and rights change between any two steps of theirs.                      *)
(*                                                                         *)
(* A caller is a token with a verb and a path, what the cache is keyed by. *)
(* Time passes in ticks; the cache keeps what is left of an entry's time,  *)
(* and an entry at 0 has expired.  An answer of the apiserver counts as of *)
(* when it decides, and may arrive until the deadline.                     *)
(***************************************************************************)
EXTENDS Naturals, FiniteSets

CONSTANTS
    Callers,
    Slots,           \* requests at once
    cacheTTL,        \* ticks
    reviewTimeout,   \* ticks
    maxCacheEntries

ASSUME ConstantsAssumption ==
    /\ cacheTTL \in Nat \ {0}
    /\ reviewTimeout \in Nat
    /\ maxCacheEntries \in Nat \ {0}

None == "none"

ASSUME CallersAssumption == IsFiniteSet(Callers) /\ None \notin Callers

\* When a right that is gone must be honoured no longer.
Window == cacheTTL + reviewTimeout
\* Ticks since a right was last there, counted no further than it matters.
Ages == 0..Window

VARIABLES
    authenticated, \* caller -> ticks since its token was last good
    permitted,     \* caller -> ticks since its user was last allowed
    rights,        \* the callers that are authenticated, and those permitted, now
    left,          \* cached caller -> ticks left
    requests       \* slot -> the request: where it is, whose, for how long under
                   \* review, whether it has been without a right meanwhile, and
                   \* whether a review of it failed

vars == <<authenticated, permitted, rights, left, requests>>

Cached == UNION {[S -> 0..cacheTTL] : S \in SUBSET Callers}
Phases == {"idle", "token", "access", "allowed", "denied", "ok", "unauthorized", "forbidden"}
Requests == [phase : Phases, caller : Callers \cup {None}, age : 0..reviewTimeout,
             lacked : BOOLEAN, failed : BOOLEAN]
NoRequest == [phase |-> "idle", caller |-> None, age |-> 0, lacked |-> FALSE, failed |-> FALSE]

UnderReview(r) == r.phase \in {"token", "access", "allowed", "denied"}

TypeOK ==
    /\ authenticated \in [Callers -> Ages]
    /\ permitted \in [Callers -> Ages]
    /\ rights \in [authenticated : SUBSET Callers, permitted : SUBSET Callers]
    /\ left \in Cached
    /\ requests \in [Slots -> Requests]

Init ==
    /\ rights \in [authenticated : SUBSET Callers, permitted : SUBSET Callers]
    /\ authenticated = [k \in Callers |-> IF k \in rights.authenticated THEN 0 ELSE Window]
    /\ permitted = [k \in Callers |-> IF k \in rights.permitted THEN 0 ELSE Window]
    /\ left = [k \in {} |-> 0]
    /\ requests = [s \in Slots |-> NoRequest]

HasRights(k) == k \in rights.authenticated /\ k \in rights.permitted

-----------------------------------------------------------------------------
(* The reviewer. *)

Without(k) == [j \in DOMAIN left \ {k} |-> left[j]]

\* Mutant of Fresh: what has expired is served for another tick.
FreshAtExpiry(k) == k \in DOMAIN left

\* now.Before(exp).
Fresh(k) == k \in DOMAIN left /\ left[k] > 0

Move(s, to) == requests' = [requests EXCEPT ![s].phase = to]

\* authorize looks in the cache, which drops what has expired.
Arrive(s, k) ==
    /\ requests[s] = NoRequest
    /\ requests' = [requests EXCEPT ![s] = [phase |-> IF Fresh(k) THEN "ok" ELSE "token", caller |-> k,
                                            age |-> 0, lacked |-> ~HasRights(k), failed |-> FALSE]]
    /\ left' = IF Fresh(k) THEN left ELSE Without(k)
    /\ UNCHANGED <<authenticated, permitted, rights>>

\* The apiserver decides the TokenReview.
TokenReview(s) ==
    /\ requests[s].phase = "token"
    /\ Move(s, IF requests[s].caller \in rights.authenticated THEN "access" ELSE "unauthorized")
    /\ UNCHANGED <<authenticated, permitted, rights, left>>

\* Mutant of Subject: kept in the reviewer, where a later request replaces it.
SubjectShared(s) == CHOOSE k \in Callers : \E r \in Slots : requests[r].caller = k

\* The user that the TokenReview of this request named.
Subject(s) == requests[s].caller

\* It decides the SubjectAccessReview.
SubjectAccessReview(s) ==
    /\ requests[s].phase = "access"
    /\ Move(s, IF Subject(s) \in rights.permitted THEN "allowed" ELSE "denied")
    /\ UNCHANGED <<authenticated, permitted, rights, left>>

\* Mutant of Room: what has expired stays, and an entry more than the limit.
NoRoom(k) == left

\* At the limit what has expired goes, and everything when that is not enough.
Room(k) ==
    LET live == {j \in DOMAIN left : left[j] > 0}
    IN IF Cardinality(DOMAIN left) < maxCacheEntries THEN left
       ELSE IF Cardinality(live) < maxCacheEntries THEN [j \in live |-> left[j]]
       ELSE [j \in {} |-> 0]

\* Mutant of Lifetime: added to what is left of an entry that is there.
LifetimeExtended(k) == cacheTTL + (IF k \in DOMAIN left THEN left[k] ELSE 0)

\* now.Add(ttl), whenever the entry before it expires.
Lifetime(k) == cacheTTL

remember(k) ==
    left' = [j \in DOMAIN Room(k) \cup {k} |-> IF j = k THEN Lifetime(k) ELSE Room(k)[j]]

\* Denials are never cached.
Remembered(phase) == phase = "allowed"

\* The answer to the second review is in.
Answer(s) ==
    /\ requests[s].phase \in {"allowed", "denied"}
    /\ Move(s, IF requests[s].phase = "allowed" THEN "ok" ELSE "forbidden")
    /\ IF Remembered(requests[s].phase) THEN remember(requests[s].caller) ELSE UNCHANGED left
    /\ UNCHANGED <<authenticated, permitted, rights>>

\* A review fails, at the deadline at the latest, or its answer is lost: the request
\* is refused, 401 for the first review and 403 for the second.
ReviewFails(s) ==
    /\ UnderReview(requests[s])
    /\ requests' = [requests EXCEPT
          ![s].phase = IF requests[s].phase = "token" THEN "unauthorized" ELSE "forbidden",
          ![s].failed = TRUE]
    /\ UNCHANGED <<authenticated, permitted, rights, left>>

\* The response is written.
Done(s) ==
    /\ requests[s].phase \in {"ok", "unauthorized", "forbidden"}
    /\ requests' = [requests EXCEPT ![s] = NoRequest]
    /\ UNCHANGED <<authenticated, permitted, rights, left>>

-----------------------------------------------------------------------------
(* The cluster and time. *)

\* A token is issued, expires or is deleted; a role is bound or unbound.
ChangeRights(k) ==
    /\ \E right \in {"authenticated", "permitted"} :
          rights' = [rights EXCEPT ![right] = IF k \in @ THEN @ \ {k} ELSE @ \cup {k}]
    /\ authenticated' = [authenticated EXCEPT ![k] = IF k \in rights'.authenticated THEN 0 ELSE @]
    /\ permitted' = [permitted EXCEPT ![k] = IF k \in rights'.permitted THEN 0 ELSE @]
    /\ requests' = [s \in Slots |->
                       [requests[s] EXCEPT !.lacked = @ \/ (requests[s].caller = k /\ ~(HasRights(k)'))]]
    /\ UNCHANGED left

Older(ages, now) ==
    [k \in Callers |-> IF k \in now THEN 0 ELSE IF ages[k] = Window THEN Window ELSE ages[k] + 1]

\* A tick.  No review outlasts its deadline, and what has been decided is answered.
Tick ==
    /\ \A s \in Slots : /\ UnderReview(requests[s]) => requests[s].age < reviewTimeout
                        /\ requests[s].phase \notin {"ok", "unauthorized", "forbidden"}
    /\ authenticated' = Older(authenticated, rights.authenticated)
    /\ permitted' = Older(permitted, rights.permitted)
    /\ left' = [k \in DOMAIN left |-> IF left[k] = 0 THEN 0 ELSE left[k] - 1]
    /\ requests' = [s \in Slots |->
                       [requests[s] EXCEPT !.age = IF UnderReview(requests[s]) THEN @ + 1 ELSE @]]
    /\ UNCHANGED rights

\* The controller starts anew.
Restart ==
    /\ left' = [k \in {} |-> 0]
    /\ requests' = [s \in Slots |-> NoRequest]
    /\ UNCHANGED <<authenticated, permitted, rights>>

-----------------------------------------------------------------------------
authorize(s) ==
    \/ \E k \in Callers : Arrive(s, k)
    \/ TokenReview(s) \/ SubjectAccessReview(s) \/ Answer(s) \/ ReviewFails(s) \/ Done(s)

Next ==
    \/ \E s \in Slots : authorize(s)
    \/ \E k \in Callers : ChangeRights(k)
    \/ Tick \/ Restart

Spec == Init /\ [][Next]_vars

-----------------------------------------------------------------------------
(* Properties. *)

\* A revoked token or role is honoured for the cache's time and the reviews' deadline,
\* not longer: a review that was slow, or that several requests had at once, does
\* not add up with the cache (metricsauth.go:29-38).
RevokedSoonRefused ==
    \A s \in Slots :
        requests[s].phase = "ok" => /\ authenticated[requests[s].caller] < Window
                                    /\ permitted[requests[s].caller] < Window

\* A refusal has its cause in its own time: whoever had every right while the
\* request was reviewed is refused only if a review of this very request failed.  No
\* denial and no failure is cached, and none is another request's
\* (metricsauth.go:31, 83).
RefusedForCause ==
    \A s \in Slots : requests[s].phase \in {"unauthorized", "forbidden"} =>
                         requests[s].lacked \/ requests[s].failed

\* Many requests at once, each of which finds room: the cache stays within its limit.
CacheIsBounded == Cardinality(DOMAIN left) <= maxCacheEntries

=============================================================================
