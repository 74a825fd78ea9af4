------------------------- MODULE MetricsAuth_proofs -------------------------
(***************************************************************************)
(* Proofs about MetricsAuth, for any callers, requests, times and limit.   *)
(*                                                                         *)
(* The invariant says how old a right can be wherever the reviewer relies  *)
(* on it: no older than the review of a request, and no older than what    *)
(* the cache has used up of its time and the deadline.                     *)
(***************************************************************************)
EXTENDS MetricsAuth, FiniteSetTheorems, TLAPS

\* A right that is there is of now.
RightsAreNow ==
    \A k \in Callers : /\ k \in rights.authenticated => authenticated[k] = 0
                       /\ k \in rights.permitted => permitted[k] = 0

\* What is so of a request: what it has been granted was there while it was
\* reviewed, and whatever it lacks has been noted.
Sound(r) ==
    /\ r.phase # "idle" => r.caller \in Callers
    /\ r.phase \in {"access", "allowed"} => authenticated[r.caller] <= r.age
    /\ r.phase = "allowed" => permitted[r.caller] <= r.age
    /\ r.phase = "ok" => authenticated[r.caller] < Window /\ permitted[r.caller] < Window
    /\ r.phase # "idle" /\ ~HasRights(r.caller) => r.lacked
    /\ r.phase = "denied" => r.lacked
    /\ r.phase \in {"unauthorized", "forbidden"} => r.lacked \/ r.failed

RequestsAreSound == \A s \in Slots : Sound(requests[s])

\* What is cached was so when it was allowed.
CacheIsRecent ==
    \A k \in DOMAIN left :
        left[k] > 0 => /\ authenticated[k] + left[k] <= Window
                       /\ permitted[k] + left[k] <= Window

IInv == TypeOK /\ RightsAreNow /\ RequestsAreSound /\ CacheIsRecent /\ CacheIsBounded

USE DEF None

-----------------------------------------------------------------------------
(* The cache as a function. *)

LEMMA CacheOf ==
    ASSUME left \in Cached
    PROVE  /\ DOMAIN left \subseteq Callers
           /\ \A k \in DOMAIN left : left[k] \in 0..cacheTTL
           /\ left = [k \in DOMAIN left |-> left[k]]
           /\ IsFiniteSet(DOMAIN left)
<1>1. PICK S \in SUBSET Callers : left \in [S -> 0..cacheTTL] BY DEF Cached
<1>2. DOMAIN left = S BY <1>1
<1>3. IsFiniteSet(S) BY CallersAssumption, FS_Subset
<1> QED BY <1>1, <1>2, <1>3

LEMMA CacheFrom ==
    ASSUME NEW S \in SUBSET Callers, NEW f \in [S -> 0..cacheTTL]
    PROVE  f \in Cached
BY DEF Cached

\* What Room leaves is part of the cache and leaves room for one more.
LEMMA RoomIsLeft ==
    ASSUME left \in Cached, CacheIsBounded, NEW k \in Callers
    PROVE  /\ DOMAIN Room(k) \subseteq DOMAIN left
           /\ \A j \in DOMAIN Room(k) : Room(k)[j] = left[j]
           /\ IsFiniteSet(DOMAIN Room(k)) /\ Cardinality(DOMAIN Room(k)) < maxCacheEntries
<1> DEFINE live == {j \in DOMAIN left : left[j] > 0}
<1>1. IsFiniteSet(DOMAIN left) /\ IsFiniteSet(live) BY CacheOf, FS_Subset
<1>2. CASE Cardinality(DOMAIN left) < maxCacheEntries BY <1>1, <1>2 DEF Room
<1>3. CASE ~(Cardinality(DOMAIN left) < maxCacheEntries) /\ Cardinality(live) < maxCacheEntries
  <2>1. Room(k) = [j \in live |-> left[j]] BY <1>3 DEF Room
  <2> QED BY <2>1, <1>1, <1>3
<1>4. CASE ~(Cardinality(DOMAIN left) < maxCacheEntries) /\ ~(Cardinality(live) < maxCacheEntries)
  <2>1. Room(k) = [j \in {} |-> 0] BY <1>4 DEF Room
  <2>2. IsFiniteSet({}) /\ Cardinality({}) = 0 BY FS_EmptySet
  <2> QED BY <2>1, <2>2, ConstantsAssumption
<1> QED BY <1>2, <1>3, <1>4

LEMMA WindowIsNat == Window \in Nat /\ reviewTimeout < Window /\ cacheTTL <= Window
BY ConstantsAssumption DEF Window

-----------------------------------------------------------------------------
(* The initial states. *)

LEMMA InitHolds == Init => IInv
<1> SUFFICES ASSUME Init PROVE IInv OBVIOUS
<1> USE DEF Init
<1>1. left = [k \in {} |-> 0] OBVIOUS
<1>2. left \in [{} -> 0..cacheTTL] BY <1>1
<1>3. left \in Cached BY <1>2, CacheFrom
<1>4. DOMAIN left = {} BY <1>1
<1>5. TypeOK
  <2>1. NoRequest \in Requests BY ConstantsAssumption DEF NoRequest, Requests, Phases
  <2> QED BY <1>3, <2>1, WindowIsNat DEF TypeOK, Ages
<1>6. \A s \in Slots : requests[s].phase = "idle" BY DEF NoRequest
<1>7. RightsAreNow /\ RequestsAreSound
  BY <1>6 DEF RightsAreNow, RequestsAreSound, Sound
<1>8. CacheIsRecent BY <1>4 DEF CacheIsRecent
<1>9. CacheIsBounded BY <1>4, FS_EmptySet, ConstantsAssumption DEF CacheIsBounded
<1> QED BY <1>5, <1>7, <1>8, <1>9 DEF IInv

-----------------------------------------------------------------------------
(* What a step leaves alone. *)

\* A step of one request leaves the others as they are.
LEMMA OneRequest ==
    ASSUME IInv, NEW s \in Slots, NEW r \in Requests, Sound(r),
           requests' = [requests EXCEPT ![s] = r],
           UNCHANGED <<authenticated, permitted, rights>>
    PROVE  /\ authenticated' \in [Callers -> Ages] /\ permitted' \in [Callers -> Ages]
           /\ rights' \in [authenticated : SUBSET Callers, permitted : SUBSET Callers]
           /\ requests' \in [Slots -> Requests]
           /\ RightsAreNow' /\ RequestsAreSound'
<1>1. requests' \in [Slots -> Requests] BY DEF IInv, TypeOK
<1>2. RightsAreNow' BY DEF IInv, RightsAreNow
<1>3. ASSUME NEW q \in Slots PROVE Sound(requests[q])'
  <2>1. requests'[q] = IF q = s THEN r ELSE requests[q] BY DEF IInv, TypeOK
  <2>2. Sound(requests'[q]) BY <2>1 DEF IInv, RequestsAreSound
  <2> QED BY <2>2 DEF Sound, HasRights
<1> QED BY <1>1, <1>2, <1>3 DEF RequestsAreSound, IInv, TypeOK

LEMMA SameCache ==
    ASSUME IInv, UNCHANGED <<left, authenticated, permitted>>
    PROVE  left' \in Cached /\ CacheIsRecent' /\ CacheIsBounded'
BY DEF IInv, TypeOK, CacheIsRecent, CacheIsBounded

\* A cache of nothing but entries that were there already.
LEMMA SmallerCache ==
    ASSUME IInv, NEW S \in SUBSET (DOMAIN left), left' = [k \in S |-> left[k]],
           UNCHANGED <<authenticated, permitted>>
    PROVE  left' \in Cached /\ CacheIsRecent' /\ CacheIsBounded'
<1>1. left \in Cached BY DEF IInv, TypeOK
<1>2. S \in SUBSET Callers /\ \A k \in S : left[k] \in 0..cacheTTL BY <1>1, CacheOf
<1>3. left' \in [S -> 0..cacheTTL] BY <1>2
<1>4. left' \in Cached BY <1>2, <1>3 DEF Cached
<1>5. CacheIsRecent' BY <1>2 DEF IInv, CacheIsRecent
<1>6. CacheIsBounded'
  <2>1. IsFiniteSet(DOMAIN left) BY <1>1, CacheOf
  <2>2. Cardinality(S) <= Cardinality(DOMAIN left) BY <2>1, FS_Subset
  <2>3. Cardinality(S) \in Nat /\ Cardinality(DOMAIN left) \in Nat
    BY <2>1, FS_Subset, FS_CardinalityType
  <2>4. DOMAIN left' = S OBVIOUS
  <2>5. Cardinality(DOMAIN left) <= maxCacheEntries BY DEF IInv, CacheIsBounded
  <2> QED BY <2>2, <2>3, <2>4, <2>5, ConstantsAssumption DEF CacheIsBounded
<1> QED BY <1>4, <1>5, <1>6

\* A caller that has a right now has had it within any time.
LEMMA HasIsRecent ==
    ASSUME IInv, NEW k \in Callers
    PROVE  /\ authenticated[k] \in Nat /\ permitted[k] \in Nat
           /\ k \in rights.authenticated => authenticated[k] = 0
           /\ k \in rights.permitted => permitted[k] = 0
BY WindowIsNat DEF IInv, TypeOK, RightsAreNow, Ages

LEMMA RequestIs ==
    ASSUME IInv, NEW s \in Slots
    PROVE  /\ requests[s] \in Requests /\ Sound(requests[s])
           /\ requests[s].phase \in Phases /\ requests[s].lacked \in BOOLEAN
           /\ requests[s].age \in 0..reviewTimeout
           /\ requests[s].phase # "idle" => requests[s].caller \in Callers
BY DEF IInv, TypeOK, RequestsAreSound, Requests, Sound

LEMMA NoRequestIsSound == NoRequest \in Requests /\ Sound(NoRequest)
BY ConstantsAssumption DEF NoRequest, Requests, Phases, Sound

-----------------------------------------------------------------------------
(* The steps of a request. *)

LEMMA ArriveHolds == ASSUME IInv, NEW s \in Slots, NEW k \in Callers, Arrive(s, k) PROVE IInv'
<1> DEFINE r == [phase |-> IF Fresh(k) THEN "ok" ELSE "token", caller |-> k,
                 age |-> 0, lacked |-> ~HasRights(k), failed |-> FALSE]
<1>1. /\ requests' = [requests EXCEPT ![s] = r]
      /\ UNCHANGED <<authenticated, permitted, rights>>
  BY DEF Arrive
<1>2. left \in Cached BY DEF IInv, TypeOK
<1>3. r \in Requests BY ConstantsAssumption DEF Requests, Phases, HasRights
<1>4. Fresh(k) => authenticated[k] < Window /\ permitted[k] < Window
  <2> SUFFICES ASSUME Fresh(k) PROVE authenticated[k] < Window /\ permitted[k] < Window OBVIOUS
  <2>1. k \in DOMAIN left /\ left[k] > 0 /\ left[k] \in 0..cacheTTL BY <1>2, CacheOf DEF Fresh
  <2>2. authenticated[k] + left[k] <= Window /\ permitted[k] + left[k] <= Window
    BY <2>1 DEF IInv, CacheIsRecent
  <2> QED BY <2>1, <2>2, HasIsRecent, WindowIsNat, ConstantsAssumption
<1>5. Sound(r) BY <1>4 DEF Sound
<1> HIDE DEF r
<1>6. left' \in Cached /\ CacheIsRecent' /\ CacheIsBounded'
  <2>1. CASE Fresh(k) BY <2>1, <1>1, SameCache DEF Arrive
  <2>2. CASE ~Fresh(k)
    <3>1. left' = [j \in DOMAIN left \ {k} |-> left[j]] BY <2>2 DEF Arrive, Without
    <3> QED BY <3>1, <1>1, SmallerCache
  <2> QED BY <2>1, <2>2
<1> QED BY <1>1, <1>3, <1>5, <1>6, OneRequest DEF IInv, TypeOK

LEMMA TokenReviewHolds == ASSUME IInv, NEW s \in Slots, TokenReview(s) PROVE IInv'
<1> DEFINE r == [requests[s] EXCEPT !.phase =
                    IF requests[s].caller \in rights.authenticated THEN "access" ELSE "unauthorized"]
<1>1. requests' = [requests EXCEPT ![s] = r] BY DEF TokenReview, Move, IInv, TypeOK
<1>2. UNCHANGED <<authenticated, permitted, rights, left>> BY DEF TokenReview
<1>3. requests[s].phase = "token" BY DEF TokenReview
<1>4. r \in Requests BY RequestIs DEF Requests, Phases
<1>5. Sound(r)
  <2>1. /\ r.caller = requests[s].caller /\ r.lacked = requests[s].lacked
        /\ r.age = requests[s].age
        /\ r.phase = IF requests[s].caller \in rights.authenticated THEN "access" ELSE "unauthorized"
    BY RequestIs DEF Requests
  <2>2. r.caller \in Callers BY <2>1, <1>3, RequestIs
  <2>3. requests[s].caller \notin rights.authenticated => requests[s].lacked
    BY <1>3, RequestIs DEF Sound, HasRights
  <2>4. ~HasRights(r.caller) => r.lacked BY <2>1, <1>3, RequestIs DEF Sound
  <2>5. r.caller \in rights.authenticated => authenticated[r.caller] <= r.age
    BY <2>1, <2>2, HasIsRecent, RequestIs, ConstantsAssumption
  <2> HIDE DEF r
  <2> QED BY <2>1, <2>2, <2>3, <2>4, <2>5 DEF Sound
<1> HIDE DEF r
<1> QED BY <1>1, <1>2, <1>4, <1>5, OneRequest, SameCache DEF IInv, TypeOK

LEMMA SubjectAccessReviewHolds ==
    ASSUME IInv, NEW s \in Slots, SubjectAccessReview(s) PROVE IInv'
<1> DEFINE r == [requests[s] EXCEPT !.phase =
                    IF requests[s].caller \in rights.permitted THEN "allowed" ELSE "denied"]
<1>1. requests' = [requests EXCEPT ![s] = r]
  BY DEF SubjectAccessReview, Subject, Move, IInv, TypeOK
<1>2. UNCHANGED <<authenticated, permitted, rights, left>> BY DEF SubjectAccessReview
<1>3. requests[s].phase = "access" BY DEF SubjectAccessReview
<1>4. r \in Requests BY RequestIs DEF Requests, Phases
<1>5. Sound(r)
  <2>1. /\ r.caller = requests[s].caller /\ r.lacked = requests[s].lacked
        /\ r.age = requests[s].age
        /\ r.phase = IF requests[s].caller \in rights.permitted THEN "allowed" ELSE "denied"
    BY RequestIs DEF Requests
  <2>2. r.caller \in Callers BY <2>1, <1>3, RequestIs
  <2>3. requests[s].caller \notin rights.permitted => requests[s].lacked
    BY <1>3, RequestIs DEF Sound, HasRights
  <2>4. ~HasRights(r.caller) => r.lacked BY <2>1, <1>3, RequestIs DEF Sound
  <2>5. r.caller \in rights.permitted => permitted[r.caller] <= r.age
    BY <2>1, <2>2, HasIsRecent, RequestIs, ConstantsAssumption
  <2>6. authenticated[r.caller] <= r.age BY <2>1, <1>3, RequestIs DEF Sound
  <2> HIDE DEF r
  <2> QED BY <2>1, <2>2, <2>3, <2>4, <2>5, <2>6 DEF Sound
<1> HIDE DEF r
<1> QED BY <1>1, <1>2, <1>4, <1>5, OneRequest, SameCache DEF IInv, TypeOK

\* What is remembered is as recent as its review, and finds room.
LEMMA RememberHolds ==
    ASSUME IInv, NEW k \in Callers, remember(k), UNCHANGED <<authenticated, permitted>>,
           authenticated[k] <= reviewTimeout, permitted[k] <= reviewTimeout
    PROVE  left' \in Cached /\ CacheIsRecent' /\ CacheIsBounded'
<1> DEFINE room == Room(k)
<1>1. left \in Cached /\ CacheIsBounded BY DEF IInv, TypeOK
<1>2. /\ DOMAIN room \subseteq DOMAIN left
      /\ \A j \in DOMAIN room : room[j] = left[j]
      /\ IsFiniteSet(DOMAIN room) /\ Cardinality(DOMAIN room) < maxCacheEntries
  BY <1>1, RoomIsLeft
<1>3. left' = [j \in DOMAIN room \cup {k} |-> IF j = k THEN cacheTTL ELSE room[j]]
  BY DEF remember, Lifetime
<1> HIDE DEF room
<1>4. DOMAIN left \subseteq Callers /\ \A j \in DOMAIN left : left[j] \in 0..cacheTTL
  BY <1>1, CacheOf
<1>5. DOMAIN room \cup {k} \in SUBSET Callers BY <1>2, <1>4
<1>6. left' \in [DOMAIN room \cup {k} -> 0..cacheTTL] BY <1>2, <1>3, <1>4, ConstantsAssumption
<1>7. left' \in Cached BY <1>5, <1>6 DEF Cached
<1>8. CacheIsRecent'
  <2> SUFFICES ASSUME NEW j \in DOMAIN left', left'[j] > 0
               PROVE authenticated[j] + left'[j] <= Window /\ permitted[j] + left'[j] <= Window
    BY DEF CacheIsRecent
  <2>1. CASE j = k
    <3>1. left'[j] = cacheTTL BY <1>3, <2>1
    <3> QED BY <3>1, <2>1, HasIsRecent, ConstantsAssumption DEF Window
  <2>2. CASE j # k
    <3>1. j \in DOMAIN left /\ left'[j] = left[j] BY <1>2, <1>3, <2>2
    <3> QED BY <3>1 DEF IInv, CacheIsRecent
  <2> QED BY <2>1, <2>2
<1>9. CacheIsBounded'
  <2>1. Cardinality(DOMAIN room) \in Nat BY <1>2, FS_CardinalityType
  <2>2. Cardinality(DOMAIN room \cup {k}) <= Cardinality(DOMAIN room) + 1
    <3> DEFINE n == Cardinality(DOMAIN room)
    <3>1. Cardinality(DOMAIN room \cup {k}) \in {n, n + 1} BY <1>2, FS_AddElement
    <3>2. n \in Nat BY <2>1
    <3> HIDE DEF n
    <3>3. \A m \in {n, n + 1} : m <= n + 1 BY <3>2
    <3> QED BY <3>1, <3>3 DEF n
  <2>3. IsFiniteSet(DOMAIN room \cup {k}) BY <1>2, FS_AddElement
  <2>4. Cardinality(DOMAIN room \cup {k}) \in Nat BY <2>3, FS_CardinalityType
  <2>5. DOMAIN left' = DOMAIN room \cup {k} BY <1>3
  <2> QED BY <1>2, <2>1, <2>2, <2>4, <2>5, ConstantsAssumption DEF CacheIsBounded
<1> QED BY <1>7, <1>8, <1>9

LEMMA AnswerHolds == ASSUME IInv, NEW s \in Slots, Answer(s) PROVE IInv'
<1> DEFINE r == [requests[s] EXCEPT !.phase =
                    IF requests[s].phase = "allowed" THEN "ok" ELSE "forbidden"]
<1>1. requests' = [requests EXCEPT ![s] = r] BY DEF Answer, Move, IInv, TypeOK
<1>2. UNCHANGED <<authenticated, permitted, rights>> BY DEF Answer
<1>3. requests[s].phase \in {"allowed", "denied"} BY DEF Answer
<1>4. r \in Requests BY RequestIs DEF Requests, Phases
<1>5. requests[s].caller \in Callers BY <1>3, RequestIs
<1>6. requests[s].phase = "allowed" =>
         /\ authenticated[requests[s].caller] <= reviewTimeout
         /\ permitted[requests[s].caller] <= reviewTimeout
  <2>1. requests[s].age \in 0..reviewTimeout BY RequestIs
  <2>2. requests[s].phase = "allowed" =>
           /\ authenticated[requests[s].caller] <= requests[s].age
           /\ permitted[requests[s].caller] <= requests[s].age
    BY RequestIs DEF Sound
  <2> QED BY <2>1, <2>2, <1>5, HasIsRecent, ConstantsAssumption
<1>7. Sound(r)
  <2>1. /\ r.caller = requests[s].caller /\ r.lacked = requests[s].lacked
        /\ r.phase = IF requests[s].phase = "allowed" THEN "ok" ELSE "forbidden"
    BY RequestIs DEF Requests
  <2>2. r.phase = "ok" => authenticated[r.caller] < Window /\ permitted[r.caller] < Window
    BY <2>1, <1>5, <1>6, HasIsRecent, WindowIsNat, ConstantsAssumption
  <2>3. r.phase = "forbidden" => r.lacked BY <2>1, <1>3, RequestIs DEF Sound
  <2>4. ~HasRights(r.caller) => r.lacked BY <2>1, <1>3, RequestIs DEF Sound
  <2>5. r.phase \in {"ok", "forbidden"} /\ r.caller \in Callers BY <2>1, <1>5
  <2> HIDE DEF r
  <2> QED BY <2>2, <2>3, <2>4, <2>5 DEF Sound
<1> HIDE DEF r
<1>8. left' \in Cached /\ CacheIsRecent' /\ CacheIsBounded'
  <2>1. CASE requests[s].phase = "allowed"
    <3>1. remember(requests[s].caller) BY <2>1 DEF Answer, Remembered
    <3> QED BY <3>1, <2>1, <1>2, <1>5, <1>6, RememberHolds
  <2>2. CASE requests[s].phase # "allowed"
    <3>1. UNCHANGED left BY <2>2 DEF Answer, Remembered
    <3> QED BY <3>1, <1>2, SameCache
  <2> QED BY <2>1, <2>2
<1> QED BY <1>1, <1>2, <1>4, <1>7, <1>8, OneRequest DEF IInv, TypeOK

LEMMA ReviewFailsHolds == ASSUME IInv, NEW s \in Slots, ReviewFails(s) PROVE IInv'
<1> DEFINE r == [requests[s] EXCEPT
                    !.phase = IF requests[s].phase = "token" THEN "unauthorized" ELSE "forbidden",
                    !.failed = TRUE]
<1>1. requests' = [requests EXCEPT ![s] = r] BY DEF ReviewFails, IInv, TypeOK
<1>2. UNCHANGED <<authenticated, permitted, rights, left>> BY DEF ReviewFails
<1>3. requests[s].phase # "idle" BY DEF ReviewFails, UnderReview
<1>4. r \in Requests BY RequestIs DEF Requests, Phases
<1>5. Sound(r)
  <2>1. /\ r.caller = requests[s].caller /\ r.lacked = requests[s].lacked
        /\ r.phase \in {"unauthorized", "forbidden"} /\ r.failed
    BY RequestIs DEF Requests
  <2>2. r.caller \in Callers BY <2>1, <1>3, RequestIs
  <2>3. ~HasRights(r.caller) => r.lacked BY <2>1, <1>3, RequestIs DEF Sound
  <2> HIDE DEF r
  <2> QED BY <2>1, <2>2, <2>3 DEF Sound
<1> HIDE DEF r
<1> QED BY <1>1, <1>2, <1>4, <1>5, OneRequest, SameCache DEF IInv, TypeOK

LEMMA DoneHolds == ASSUME IInv, NEW s \in Slots, Done(s) PROVE IInv'
<1>1. /\ requests' = [requests EXCEPT ![s] = NoRequest]
      /\ UNCHANGED <<authenticated, permitted, rights, left>>
  BY DEF Done
<1> QED BY <1>1, NoRequestIsSound, OneRequest, SameCache DEF IInv, TypeOK

-----------------------------------------------------------------------------
(* The steps of the cluster and of time. *)

LEMMA ChangeRightsHolds == ASSUME IInv, NEW k \in Callers, ChangeRights(k) PROVE IInv'
<1>1. PICK right \in {"authenticated", "permitted"} :
         rights' = [rights EXCEPT ![right] = IF k \in @ THEN @ \ {k} ELSE @ \cup {k}]
  BY DEF ChangeRights
<1>2. /\ authenticated' = [authenticated EXCEPT ![k] = IF k \in rights'.authenticated THEN 0 ELSE @]
      /\ permitted' = [permitted EXCEPT ![k] = IF k \in rights'.permitted THEN 0 ELSE @]
      /\ requests' = [s \in Slots |->
                        [requests[s] EXCEPT !.lacked =
                            @ \/ (requests[s].caller = k /\ ~(HasRights(k)'))]]
      /\ UNCHANGED left
  BY DEF ChangeRights
<1>3. /\ rights \in [authenticated : SUBSET Callers, permitted : SUBSET Callers]
      /\ authenticated \in [Callers -> Ages] /\ permitted \in [Callers -> Ages]
      /\ left \in Cached
  BY DEF IInv, TypeOK
<1>4. rights' \in [authenticated : SUBSET Callers, permitted : SUBSET Callers] BY <1>1, <1>3
<1>5. \A j \in Callers : j # k => /\ j \in rights'.authenticated <=> j \in rights.authenticated
                                  /\ j \in rights'.permitted <=> j \in rights.permitted
  BY <1>1, <1>3
<1>6. 0 \in Ages BY WindowIsNat DEF Ages
<1>7. authenticated' \in [Callers -> Ages] /\ permitted' \in [Callers -> Ages]
  BY <1>2, <1>3, <1>6
<1>8. \A j \in Callers : /\ authenticated'[j] <= authenticated[j] /\ permitted'[j] <= permitted[j]
                         /\ authenticated'[j] \in Nat /\ permitted'[j] \in Nat
                         /\ authenticated[j] \in Nat /\ permitted[j] \in Nat
  BY <1>2, <1>3, WindowIsNat DEF Ages
<1>9. RightsAreNow'
  <2> SUFFICES ASSUME NEW j \in Callers
               PROVE /\ j \in rights'.authenticated => authenticated'[j] = 0
                     /\ j \in rights'.permitted => permitted'[j] = 0
    BY DEF RightsAreNow
  <2>1. CASE j = k BY <2>1, <1>2, <1>3
  <2>2. CASE j # k
    <3>1. authenticated'[j] = authenticated[j] /\ permitted'[j] = permitted[j]
      BY <2>2, <1>2, <1>3
    <3> QED BY <3>1, <2>2, <1>5, HasIsRecent
  <2> QED BY <2>1, <2>2
<1>10. CacheIsRecent'
  <2> SUFFICES ASSUME NEW j \in DOMAIN left, left[j] > 0
               PROVE authenticated'[j] + left[j] <= Window /\ permitted'[j] + left[j] <= Window
    BY <1>2 DEF CacheIsRecent
  <2>1. j \in Callers /\ left[j] \in 0..cacheTTL BY <1>3, CacheOf
  <2>2. authenticated[j] + left[j] <= Window /\ permitted[j] + left[j] <= Window
    BY DEF IInv, CacheIsRecent
  <2> QED BY <2>1, <2>2, <1>8, WindowIsNat, ConstantsAssumption
<1>11. CacheIsBounded' BY <1>2 DEF IInv, CacheIsBounded
<1>12. ASSUME NEW s \in Slots PROVE requests'[s] \in Requests /\ Sound(requests[s])'
  <2>1. /\ requests[s] \in Requests /\ requests[s].lacked \in BOOLEAN
        /\ requests[s].age \in 0..reviewTimeout
    BY RequestIs
  <2>2. requests'[s] = [requests[s] EXCEPT !.lacked =
                           @ \/ (requests[s].caller = k /\ ~(HasRights(k)'))]
    BY <1>2
  <2>3. /\ requests'[s] \in Requests
        /\ requests'[s].phase = requests[s].phase /\ requests'[s].caller = requests[s].caller
        /\ requests'[s].age = requests[s].age /\ requests'[s].failed = requests[s].failed
    BY <2>1, <2>2 DEF Requests
  <2>4. requests'[s].lacked = (requests[s].lacked \/ (requests[s].caller = k /\ ~(HasRights(k)')))
    BY <2>1, <2>2 DEF Requests
  <2>5. CASE requests[s].phase = "idle" BY <2>3, <2>5 DEF Sound
  <2>6. CASE requests[s].phase # "idle"
    <3> DEFINE c == requests[s].caller
    <3>1. c \in Callers BY <2>6, RequestIs
    <3>2. /\ authenticated'[c] <= authenticated[c] /\ permitted'[c] <= permitted[c]
          /\ authenticated'[c] \in Nat /\ permitted'[c] \in Nat
          /\ authenticated[c] \in Nat /\ permitted[c] \in Nat
      BY <3>1, <1>8
    <3>3. requests[s].phase \in {"access", "allowed"} => authenticated'[c] <= requests[s].age
      BY <3>2, <2>1, RequestIs, ConstantsAssumption DEF Sound
    <3>4. requests[s].phase = "allowed" => permitted'[c] <= requests[s].age
      BY <3>2, <2>1, RequestIs, ConstantsAssumption DEF Sound
    <3>5. requests[s].phase = "ok" => authenticated'[c] < Window /\ permitted'[c] < Window
      BY <3>2, WindowIsNat, RequestIs DEF Sound
    <3>6. ~(c \in rights'.authenticated /\ c \in rights'.permitted) => requests'[s].lacked
      <4>1. CASE c = k BY <4>1, <2>4 DEF HasRights
      <4>2. CASE c # k BY <4>2, <3>1, <1>5, <2>4, <2>6, RequestIs DEF Sound, HasRights
      <4> QED BY <4>1, <4>2
    <3>7. /\ requests[s].phase = "denied" => requests'[s].lacked
          /\ requests[s].phase \in {"unauthorized", "forbidden"} =>
                requests'[s].lacked \/ requests'[s].failed
      BY <2>3, <2>4, RequestIs DEF Sound
    <3> QED BY <3>1, <3>3, <3>4, <3>5, <3>6, <3>7, <2>3 DEF Sound, HasRights
  <2> QED BY <2>3, <2>5, <2>6
<1>13. requests' \in [Slots -> Requests] BY <1>2, <1>12
<1> QED BY <1>2, <1>3, <1>4, <1>7, <1>9, <1>10, <1>11, <1>12, <1>13
        DEF IInv, TypeOK, RequestsAreSound

\* A tick makes a right that is gone a tick older, at most.
LEMMA OlderBy ==
    ASSUME NEW ages \in [Callers -> Ages], NEW now \in SUBSET Callers, NEW k \in Callers
    PROVE  /\ Older(ages, now) \in [Callers -> Ages]
           /\ Older(ages, now)[k] <= ages[k] + 1
           /\ k \in now => Older(ages, now)[k] = 0
BY WindowIsNat DEF Older, Ages

LEMMA TickHolds == ASSUME IInv, Tick PROVE IInv'
<1>1. /\ authenticated' = Older(authenticated, rights.authenticated)
      /\ permitted' = Older(permitted, rights.permitted)
      /\ left' = [k \in DOMAIN left |-> IF left[k] = 0 THEN 0 ELSE left[k] - 1]
      /\ requests' = [s \in Slots |->
                        [requests[s] EXCEPT !.age = IF UnderReview(requests[s]) THEN @ + 1 ELSE @]]
      /\ UNCHANGED rights
  BY DEF Tick
<1>2. /\ rights.authenticated \in SUBSET Callers /\ rights.permitted \in SUBSET Callers
      /\ authenticated \in [Callers -> Ages] /\ permitted \in [Callers -> Ages]
      /\ left \in Cached
  BY DEF IInv, TypeOK
<1>3. authenticated' \in [Callers -> Ages] /\ permitted' \in [Callers -> Ages]
  BY <1>1, <1>2, WindowIsNat DEF Older, Ages
<1>4. \A k \in Callers : /\ authenticated'[k] <= authenticated[k] + 1
                         /\ permitted'[k] <= permitted[k] + 1
                         /\ k \in rights.authenticated => authenticated'[k] = 0
                         /\ k \in rights.permitted => permitted'[k] = 0
  BY <1>1, <1>2, OlderBy
<1>5. \A k \in Callers : /\ authenticated[k] \in Nat /\ permitted[k] \in Nat
                         /\ authenticated'[k] \in Nat /\ permitted'[k] \in Nat
  BY <1>2, <1>3, WindowIsNat DEF Ages
<1>6. RightsAreNow' BY <1>1, <1>4 DEF RightsAreNow
<1>7. DOMAIN left \subseteq Callers /\ \A k \in DOMAIN left : left[k] \in 0..cacheTTL
  BY <1>2, CacheOf
<1>8. left' \in Cached
  <2>1. left' \in [DOMAIN left -> 0..cacheTTL] BY <1>1, <1>7, ConstantsAssumption
  <2> QED BY <2>1, <1>7 DEF Cached
<1>9. CacheIsRecent'
  <2> SUFFICES ASSUME NEW k \in DOMAIN left, left'[k] > 0
               PROVE authenticated'[k] + left'[k] <= Window /\ permitted'[k] + left'[k] <= Window
    BY <1>1 DEF CacheIsRecent
  <2>1. k \in Callers /\ left[k] \in Nat BY <1>7, ConstantsAssumption
  <2>2. left[k] > 0 /\ left'[k] = left[k] - 1 BY <1>1, <2>1
  <2>3. authenticated[k] + left[k] <= Window /\ permitted[k] + left[k] <= Window
    BY <2>2 DEF IInv, CacheIsRecent
  <2> QED BY <2>1, <2>2, <2>3, <1>4, <1>5, WindowIsNat
<1>10. CacheIsBounded' BY <1>1 DEF IInv, CacheIsBounded
<1>11. ASSUME NEW s \in Slots PROVE requests'[s] \in Requests /\ Sound(requests[s])'
  <2>1. /\ requests[s] \in Requests /\ requests[s].age \in 0..reviewTimeout
        /\ requests[s].phase \in Phases
    BY RequestIs
  <2>2. /\ UnderReview(requests[s]) => requests[s].age < reviewTimeout
        /\ requests[s].phase \notin {"ok", "unauthorized", "forbidden"}
    BY DEF Tick
  <2>3. requests'[s] = [requests[s] EXCEPT !.age =
                           IF UnderReview(requests[s]) THEN @ + 1 ELSE @]
    BY <1>1
  <2>4. /\ requests'[s].phase = requests[s].phase /\ requests'[s].caller = requests[s].caller
        /\ requests'[s].lacked = requests[s].lacked
        /\ requests'[s].age = IF UnderReview(requests[s]) THEN requests[s].age + 1
                              ELSE requests[s].age
    BY <2>1, <2>3 DEF Requests
  <2>5. requests'[s].age \in 0..reviewTimeout BY <2>1, <2>2, <2>4, ConstantsAssumption
  <2>6. requests'[s] \in Requests BY <2>1, <2>3, <2>4, <2>5 DEF Requests
  <2>7. CASE requests[s].phase = "idle" BY <2>4, <2>6, <2>7 DEF Sound
  <2>8. CASE requests[s].phase # "idle"
    <3> DEFINE c == requests[s].caller
    <3>1. c \in Callers BY <2>8, RequestIs
    <3>2. UnderReview(requests[s]) BY <2>1, <2>2, <2>8 DEF UnderReview, Phases
    <3>3. requests[s].phase \in {"access", "allowed"} => authenticated'[c] <= requests'[s].age
      BY <3>1, <3>2, <2>1, <2>4, <1>4, <1>5, RequestIs, ConstantsAssumption DEF Sound
    <3>4. requests[s].phase = "allowed" => permitted'[c] <= requests'[s].age
      BY <3>1, <3>2, <2>1, <2>4, <1>4, <1>5, RequestIs, ConstantsAssumption DEF Sound
    <3>5. ~(c \in rights'.authenticated /\ c \in rights'.permitted) => requests'[s].lacked
      BY <2>4, <2>8, <1>1, RequestIs DEF Sound, HasRights
    <3>6. requests[s].phase = "denied" => requests'[s].lacked BY <2>4, RequestIs DEF Sound
    <3> QED BY <3>1, <3>3, <3>4, <3>5, <3>6, <2>2, <2>4, <2>6 DEF Sound, HasRights
  <2> QED BY <2>6, <2>7, <2>8
<1>12. requests' \in [Slots -> Requests] BY <1>1, <1>11
<1> QED BY <1>1, <1>3, <1>6, <1>8, <1>9, <1>10, <1>11, <1>12 DEF IInv, TypeOK, RequestsAreSound

LEMMA RestartHolds == ASSUME IInv, Restart PROVE IInv'
<1>1. /\ left' = [k \in {} |-> left[k]] /\ requests' = [s \in Slots |-> NoRequest]
      /\ UNCHANGED <<authenticated, permitted, rights>>
  BY DEF Restart
<1>2. left' \in Cached /\ CacheIsRecent' /\ CacheIsBounded' BY <1>1, SmallerCache
<1>3. requests' \in [Slots -> Requests] BY <1>1, NoRequestIsSound
<1>4. \A s \in Slots : Sound(requests[s])'
  <2> SUFFICES ASSUME NEW s \in Slots PROVE Sound(requests[s])' OBVIOUS
  <2>1. requests'[s].phase = "idle" BY <1>1 DEF NoRequest
  <2> QED BY <2>1 DEF Sound
<1>5. RightsAreNow' BY <1>1 DEF IInv, RightsAreNow
<1> QED BY <1>1, <1>2, <1>3, <1>4, <1>5 DEF IInv, TypeOK, RequestsAreSound

-----------------------------------------------------------------------------
(* The theorems. *)

LEMMA StepHolds == IInv /\ [Next]_vars => IInv'
<1> SUFFICES ASSUME IInv, [Next]_vars PROVE IInv' OBVIOUS
<1>1. CASE UNCHANGED vars
  BY <1>1 DEF vars, IInv, TypeOK, RightsAreNow, RequestsAreSound, Sound, HasRights, CacheIsRecent,
              CacheIsBounded
<1>2. ASSUME NEW s \in Slots, authorize(s) PROVE IInv'
  BY <1>2, ArriveHolds, TokenReviewHolds, SubjectAccessReviewHolds, AnswerHolds,
     ReviewFailsHolds, DoneHolds DEF authorize
<1>3. ASSUME NEW k \in Callers, ChangeRights(k) PROVE IInv' BY <1>3, ChangeRightsHolds
<1>4. CASE Tick BY <1>4, TickHolds
<1>5. CASE Restart BY <1>5, RestartHolds
<1> QED BY <1>1, <1>2, <1>3, <1>4, <1>5 DEF Next

\* Every right that is relied on is as recent as it should be, at any moment.
THEOREM ReviewerInvariant == Spec => []IInv
BY InitHolds, StepHolds, PTL DEF Spec

\* Requests, the cache and the rights have their types.
THEOREM ReviewerTypes == Spec => []TypeOK
<1>1. IInv => TypeOK BY DEF IInv
<1> QED BY <1>1, ReviewerInvariant, PTL

\* A token or role that is gone is honoured no longer than a cached entry lives and
\* a review takes, whichever requests overlap (authorize, remember).
THEOREM RevocationIsBounded == Spec => []RevokedSoonRefused
<1>1. IInv => RevokedSoonRefused
  BY DEF IInv, RequestsAreSound, Sound, RevokedSoonRefused
<1> QED BY <1>1, ReviewerInvariant, PTL

\* Who had every right while its request was reviewed is refused only when a review
\* of that request failed (authorize).
THEOREM RefusalsHaveCause == Spec => []RefusedForCause
<1>1. IInv => RefusedForCause
  BY DEF IInv, RequestsAreSound, Sound, RefusedForCause
<1> QED BY <1>1, ReviewerInvariant, PTL

\* The cache stays within its limit (remember).
THEOREM CacheStaysBounded == Spec => []CacheIsBounded
<1>1. IInv => CacheIsBounded BY DEF IInv
<1> QED BY <1>1, ReviewerInvariant, PTL

=============================================================================
