---------------------------- MODULE HealthCacheProofs ----------------------------
(****************************************************************************)
(* Proofs about HealthCache, for any number of concurrent requests, any     *)
(* cache life and any probe timeout.                                        *)
(****************************************************************************)
EXTENDS HealthCache, TLAPS

Evidence == TypeOK /\ CacheEvidence

------------------------------------------------------------------------------

\* Nothing is cached, nobody probes.
LEMMA EvidenceInit == Init => Evidence
<1> SUFFICES ASSUME Init
             PROVE  Evidence
  OBVIOUS
<1>1. req \in [Requests -> Request] /\ answer \in Answer
  BY DEF Init, Request, IdleRequest, Answer
<1>2. \A r \in Requests : req[r].pc = "idle"
  BY DEF Init, IdleRequest
<1>3. TypeOK
  BY <1>1 DEF Init, TypeOK
<1> QED  BY <1>2, <1>3, HealthAssumption DEF Init, Evidence, CacheEvidence

\* The steps of the requests: each changes its own record, and only Store the
\* cache, of which the record says since when Koku was seen up.
LEMMA EvidenceRequest ==
  ASSUME Evidence, NEW r \in Requests,
         \/ Hit(r) \/ Miss(r) \/ KokuAnswers(r)
         \/ ProbeReturns(r) \/ ProbeFails(r) \/ Store(r)
  PROVE  Evidence'
<1> USE HealthAssumption DEF Evidence, TypeOK, CacheEvidence, LastUp
<1>1. req[r] \in Request /\ \A q \in Requests : req[q] \in Request
  OBVIOUS
<1>2. CASE Hit(r)
  <2>1. answer' \in Answer
    BY <1>2 DEF Hit, Reply, Answer
  <2> QED  BY <1>2, <2>1 DEF Hit
<1>3. CASE Miss(r)
  <2>1. req' \in [Requests -> Request]
    BY <1>1, <1>3 DEF Miss, Request
  <2>2. /\ req'[r].pc = "probing" /\ req'[r].start = now
        /\ \A q \in Requests \ {r} : req'[q] = req[q]
    BY <1>1, <1>3 DEF Miss, Request
  <2> QED  BY <1>3, <2>1, <2>2 DEF Miss
<1>4. CASE KokuAnswers(r)
  <2>1. req' \in [Requests -> Request]
    BY <1>1, <1>4 DEF KokuAnswers, Request
  <2>2. /\ req'[r].pc = "answered" /\ req'[r].start = req[r].start /\ req'[r].ok = up
        /\ req[r].pc # "idle"
        /\ \A q \in Requests \ {r} : req'[q] = req[q]
    BY <1>1, <1>4 DEF KokuAnswers, Request
  <2> QED  BY <1>4, <2>1, <2>2 DEF KokuAnswers
<1>5. CASE ProbeReturns(r)
  <2>1. req' \in [Requests -> Request]
    BY <1>1, <1>5 DEF ProbeReturns, Request
  <2>2. /\ req'[r].pc = "store" /\ req'[r].start = req[r].start /\ req'[r].ok = req[r].ok
        /\ req[r].pc = "answered"
        /\ \A q \in Requests \ {r} : req'[q] = req[q]
    BY <1>1, <1>5 DEF ProbeReturns, Request
  <2> QED  BY <1>5, <2>1, <2>2 DEF ProbeReturns
<1>6. CASE ProbeFails(r)
  <2>1. req' \in [Requests -> Request]
    BY <1>1, <1>6 DEF ProbeFails, Request
  <2>2. /\ req'[r].start = req[r].start /\ req'[r].ok = FALSE
        /\ req[r].pc # "idle"
        /\ \A q \in Requests \ {r} : req'[q] = req[q]
    BY <1>1, <1>6 DEF ProbeFails, Request
  <2> QED  BY <1>6, <2>1, <2>2 DEF ProbeFails
<1>7. CASE Store(r)
  <2>1. req' \in [Requests -> Request]
    BY <1>1, <1>7 DEF Store, Request, IdleRequest
  <2>2. /\ req'[r].pc = "idle"
        /\ \A q \in Requests \ {r} : req'[q] = req[q]
    BY <1>1, <1>7 DEF Store, IdleRequest
  <2>3. answer' \in Answer
    BY <1>1, <1>7 DEF Store, Reply, Answer, Request
  <2>4. req[r].ok => LastUp >= now - ProbeTimeout
    BY <1>1, <1>7 DEF Store, Request
  <2> QED  BY <1>1, <1>7, <2>1, <2>2, <2>3, <2>4 DEF Store, Request
<1> QED  BY <1>2, <1>3, <1>4, <1>5, <1>6, <1>7

\* Time passes only while no probe is at its timeout; when Koku goes down, it was
\* up a moment ago.
LEMMA EvidenceStep == Evidence /\ [Next]_vars => Evidence'
<1> SUFFICES ASSUME Evidence, [Next]_vars
             PROVE  Evidence'
  OBVIOUS
<1> USE HealthAssumption
<1>1. CASE Tick
  <2>1. \A q \in Requests : req[q] \in Request
    BY DEF Evidence, TypeOK
  <2>2. \A q \in Requests : req[q].pc # "idle" => now - req[q].start < ProbeTimeout
    BY <1>1, <2>1 DEF Tick, MayWait, Probing, Request
  <2>3. LastUp' >= LastUp
    BY <1>1 DEF Tick, LastUp, Evidence, TypeOK
  <2>4. TypeOK'
    BY <1>1 DEF Tick, Evidence, TypeOK
  <2>5. wentDown' <= now' /\ cachedAt' <= now'
    BY <1>1 DEF Tick, Evidence, TypeOK, CacheEvidence
  <2>6. cached' /\ cachedOK' => LastUp' >= cachedAt' - ProbeTimeout
    BY <1>1, <2>3 DEF Tick, Evidence, TypeOK, CacheEvidence, LastUp
  <2>7. \A q \in Requests :
          req[q].pc # "idle" => req[q].start <= now' /\ now' - req[q].start <= ProbeTimeout
    BY <1>1, <2>1, <2>2 DEF Tick, Evidence, TypeOK, CacheEvidence, Request
  <2>8. \A q \in Requests :
          req[q].pc \in {"answered", "store"} /\ req[q].ok => LastUp' >= req[q].start
    BY <1>1, <2>1, <2>3 DEF Tick, Evidence, TypeOK, CacheEvidence, LastUp, Request
  <2>9. req' = req
    BY <1>1 DEF Tick
  <2> QED  BY <2>4, <2>5, <2>6, <2>7, <2>8, <2>9 DEF Evidence, CacheEvidence
<1>2. CASE KokuChanges
  <2>1. LastUp' >= LastUp
    BY <1>2 DEF KokuChanges, LastUp, Evidence, TypeOK, CacheEvidence
  <2>2. TypeOK'
    BY <1>2 DEF KokuChanges, Evidence, TypeOK
  <2>3. LastUp \in Nat /\ LastUp' \in Nat /\ wentDown' <= now'
    BY <1>2 DEF KokuChanges, LastUp, Evidence, TypeOK, CacheEvidence
  <2>4. \A q \in Requests : req[q] \in Request
    BY DEF Evidence, TypeOK
  <2> QED  BY <1>2, <2>1, <2>2, <2>3, <2>4
           DEF KokuChanges, Evidence, TypeOK, CacheEvidence, Request
<1>3. CASE UNCHANGED vars
  BY <1>3 DEF vars, Evidence, TypeOK, CacheEvidence, LastUp
<1> QED  BY <1>1, <1>2, <1>3, EvidenceRequest DEF Next

\* An answer is made from the cache, at most one life old, or from a probe of
\* its own; either way from what Evidence says.
LEMMA RecentStep ==
  ASSUME Evidence, HealthyIsRecent, [Next]_vars
  PROVE  HealthyIsRecent'
<1> USE HealthAssumption DEF Evidence, TypeOK
<1>1. CASE answer' = answer
  BY <1>1 DEF HealthyIsRecent
<1>2. ASSUME NEW r \in Requests, Hit(r)
      PROVE  HealthyIsRecent'
  BY <1>2 DEF Hit, Fresh, Reply, CacheEvidence, HealthyIsRecent, LastUp
<1>3. ASSUME NEW r \in Requests, Store(r)
      PROVE  HealthyIsRecent'
  <2>1. req[r] \in Request
    OBVIOUS
  <2> QED  BY <1>3, <2>1 DEF Store, Reply, CacheEvidence, HealthyIsRecent, LastUp, Request
<1> QED  BY <1>1, <1>2, <1>3
         DEF Next, vars, Miss, KokuAnswers, ProbeReturns, ProbeFails, Tick, KokuChanges

------------------------------------------------------------------------------

\* The cache and the probes under way tell the truth about when Koku was last
\* up, in whatever order overlapping probes store (health.go:63-80).
THEOREM EvidenceAlways == Spec => []CacheEvidence
<1>1. Evidence => CacheEvidence
  BY DEF Evidence
<1> QED  BY <1>1, EvidenceInit, EvidenceStep, PTL DEF Spec

\* "healthy" rests on a sign of life younger than one life of the cache and one
\* probe, whatever the number of requests (health.go:46-80).
THEOREM RecentAlways == Spec => []HealthyIsRecent
<1>1. Init => HealthyIsRecent
  BY DEF Init, HealthyIsRecent
<1>2. Evidence /\ HealthyIsRecent /\ [Next]_vars => HealthyIsRecent'
  BY RecentStep
<1> QED  BY <1>1, <1>2, EvidenceInit, EvidenceStep, PTL DEF Spec
================================================================================
