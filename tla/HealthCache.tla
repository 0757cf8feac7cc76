------------------------------- MODULE HealthCache ------------------------------
(****************************************************************************)
(* internal/health: the cached probe of Koku behind GET .../health, used by *)
(* concurrent requests.  The cache is read under a read lock and written    *)
(* under the write lock, but no lock is held while a request probes: several*)
(* probe at once, and their results are stored in any order.                *)
(*                                                                          *)
(* Time is in units of the model's choice.  A request that is not waiting   *)
(* for Koku takes no time.                                                  *)
(****************************************************************************)
EXTENDS Integers

CONSTANTS Requests,      \* concurrent health requests
          CacheTTL,      \* cacheTTL
          ProbeTimeout,  \* httpClient.Timeout
          MaxTime        \* bound: end of the clock

ASSUME HealthAssumption == /\ CacheTTL \in Nat \ {0}
                           /\ ProbeTimeout \in Nat
                           /\ MaxTime \in Nat

VARIABLES now,       \* the clock
          up,        \* Koku's status endpoint answers, below 500
          wentDown,  \* the last time it was up, when it is not
          cached,    \* cachedAt is not the zero time
          cachedAt, cachedOK,
          req,       \* each request: where it is, since when it probes, result
          answer     \* the last answer given, its time, when Koku was last up

vars == <<now, up, wentDown, cached, cachedAt, cachedOK, req, answer>>

Request == [pc : {"idle", "probing", "answered", "store"}, start : Nat, ok : BOOLEAN]
IdleRequest == [pc |-> "idle", start |-> 0, ok |-> FALSE]
Answer  == [ok : BOOLEAN, at : Nat, lastUp : Nat]

Init == /\ now = 0
        /\ up \in BOOLEAN
        /\ wentDown = 0
        /\ cached = FALSE
        /\ cachedAt = 0
        /\ cachedOK = FALSE
        /\ req = [r \in Requests |-> IdleRequest]
        /\ answer = [ok |-> FALSE, at |-> 0, lastUp |-> 0]

\* The last time Koku was up.
LastUp == IF up THEN now ELSE wentDown

Reply(ok) == answer' = [ok |-> ok, at |-> now, lastUp |-> LastUp]

\* Bug: the age is compared with the wrong duration.
FreshTooLong == cached /\ now - cachedAt < CacheTTL + ProbeTimeout

\* The cached result is young enough to be used.
Fresh == cached /\ now - cachedAt < CacheTTL

Hit(r) == /\ req[r].pc = "idle"
          /\ Fresh
          /\ Reply(cachedOK)
          /\ UNCHANGED <<now, up, wentDown, cached, cachedAt, cachedOK, req>>

Miss(r) == /\ req[r].pc = "idle"
           /\ ~Fresh
           /\ req' = [req EXCEPT ![r].pc = "probing", ![r].start = now]
           /\ UNCHANGED <<now, up, wentDown, cached, cachedAt, cachedOK, answer>>

\* Koku evaluates its status; its answer is on the way.
KokuAnswers(r) ==
  /\ req[r].pc = "probing"
  /\ req' = [req EXCEPT ![r].pc = "answered", ![r].ok = up]
  /\ UNCHANGED <<now, up, wentDown, cached, cachedAt, cachedOK, answer>>

\* The answer arrives.
ProbeReturns(r) ==
  /\ req[r].pc = "answered"
  /\ req' = [req EXCEPT ![r].pc = "store"]
  /\ UNCHANGED <<now, up, wentDown, cached, cachedAt, cachedOK, answer>>

\* No connection, or no answer in time: not healthy.
ProbeFails(r) ==
  /\ req[r].pc \in {"probing", "answered"}
  /\ req' = [req EXCEPT ![r].pc = "store", ![r].ok = FALSE]
  /\ UNCHANGED <<now, up, wentDown, cached, cachedAt, cachedOK, answer>>

\* Under the write lock, whatever other probes have stored in the meantime.
Store(r) == /\ req[r].pc = "store"
            /\ cached' = TRUE
            /\ cachedAt' = now
            /\ cachedOK' = req[r].ok
            /\ Reply(req[r].ok)
            /\ req' = [req EXCEPT ![r] = IdleRequest]
            /\ UNCHANGED <<now, up, wentDown>>

Probing(r) == req[r].pc \in {"probing", "answered"}

\* Bug: a client without a timeout.
MayWaitForEver(r) == TRUE

\* The HTTP client gives a probe up at its timeout.
MayWait(r) == Probing(r) => now - req[r].start < ProbeTimeout

Tick == /\ now < MaxTime
        /\ \A r \in Requests : MayWait(r) /\ req[r].pc # "store"
        /\ now' = now + 1
        /\ UNCHANGED <<up, wentDown, cached, cachedAt, cachedOK, req, answer>>

KokuChanges == /\ up' = ~up
               /\ wentDown' = IF up THEN now ELSE wentDown
               /\ UNCHANGED <<now, cached, cachedAt, cachedOK, req, answer>>

Next == \/ \E r \in Requests : \/ Hit(r) \/ Miss(r) \/ KokuAnswers(r)
                               \/ ProbeReturns(r) \/ ProbeFails(r) \/ Store(r)
        \/ Tick
        \/ KokuChanges

Spec == Init /\ [][Next]_vars

------------------------------------------------------------------------------

TypeOK == /\ now \in Nat /\ wentDown \in Nat /\ cachedAt \in Nat
          /\ up \in BOOLEAN /\ cached \in BOOLEAN /\ cachedOK \in BOOLEAN
          /\ req \in [Requests -> Request]
          /\ answer \in Answer

\* "healthy" is never answered on older evidence than one life of the cache
\* and one probe, although probes overlap and a slow one overwrites the result
\* of a later, quicker one with a new cachedAt (health.go:63-80).
HealthyIsRecent == answer.ok => answer.at - answer.lastUp < CacheTTL + ProbeTimeout

\* Why: a probe under way that saw Koku up saw it after its start, and the
\* cache was written at most one probe after that.
CacheEvidence ==
  /\ wentDown <= now
  /\ cachedAt <= now
  /\ cached /\ cachedOK => LastUp >= cachedAt - ProbeTimeout
  /\ \A r \in Requests :
       /\ req[r].pc # "idle" => req[r].start <= now /\ now - req[r].start <= ProbeTimeout
       /\ req[r].pc \in {"answered", "store"} /\ req[r].ok => LastUp >= req[r].start
================================================================================
