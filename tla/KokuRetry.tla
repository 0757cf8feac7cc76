-------------------------------- MODULE KokuRetry -------------------------------
(****************************************************************************)
(* internal/koku: one call of doWithRetry, with time.  A time is a number   *)
(* of seconds since the call; deadline is when the caller's context is done *)
(* (the request's, or the reconciler's 30 s per row): late if it never is.  *)
(*                                                                          *)
(* Clients share nothing but the connection pool, so one call is modelled.  *)
(****************************************************************************)
EXTENDS Naturals

CONSTANTS MaxRetries,      \* maxRetries
          InitialBackoff,  \* initialBackoff
          AttemptTimeout,  \* http.Client.Timeout
          Deadlines,       \* when the context may be done
          Durations        \* bound: how long an attempt or an answer may take

ASSUME RetryAssumption ==
  /\ MaxRetries \in Nat \ {0}
  /\ InitialBackoff \in Nat
  /\ AttemptTimeout \in Nat
  /\ Deadlines \subseteq Nat
  /\ Durations \subseteq 0 .. AttemptTimeout

VARIABLES deadline,    \* of the context
          pc,          \* "ready" to send, "sent", in "backoff", "done"
          attempt,     \* the loop variable
          now,         \* the clock
          wake,        \* when the backoff's timer fires
          executed,    \* Koku has executed this attempt
          executions,  \* and how many attempts in all
          result

vars == <<deadline, pc, attempt, now, wake, executed, executions, result>>

Init == /\ deadline \in Deadlines
        /\ pc = "ready"
        /\ attempt = 0
        /\ now = 0
        /\ wake = 0
        /\ executed = FALSE
        /\ executions = 0
        /\ result = "pending"

CtxDone == now >= deadline

Earlier(s, t) == IF s <= t THEN s ELSE t

Return(r) == pc' = "done" /\ result' = r

\* client.Do with a live context puts the request on the wire.
Send == /\ pc = "ready"
        /\ ~CtxDone
        /\ pc' = "sent"
        /\ executed' = FALSE
        /\ UNCHANGED <<deadline, attempt, now, wake, executions, result>>

\* With a context that is done it sends nothing; the loop returns the error.
SendCancelled == /\ pc = "ready"
                 /\ CtxDone
                 /\ Return("failed")
                 /\ UNCHANGED <<deadline, attempt, now, wake, executed, executions>>

KokuExecutes == /\ pc = "sent"
                /\ ~executed
                /\ executed' = TRUE
                /\ executions' = executions + 1
                /\ UNCHANGED <<deadline, pc, attempt, now, wake, result>>

\* An answer below 500 ends the call, a success or a 4xx alike (no retry).  A
\* success whose body breaks off, is too long or does not decode is a failure.
Answered == /\ pc = "sent"
            /\ \E d \in Durations : now + d <= deadline /\ now' = now + d
            /\ \/ executed /\ Return("ok")
               \/ executed /\ Return("failed")
               \/ ~executed /\ Return("rejected")
            /\ UNCHANGED <<deadline, attempt, wake, executed, executions>>

\* InitialBackoff * 2^attempt.
Backoff == InitialBackoff * 2 ^ attempt

\* A 5xx, a refused or broken connection, or the client's own timeout, before
\* or after Koku executed the request: back off, after the last attempt too.
AttemptFailed == /\ pc = "sent"
                 /\ \E d \in Durations : now + d < deadline /\ now' = now + d
                 /\ wake' = now' + Backoff
                 /\ pc' = "backoff"
                 /\ UNCHANGED <<deadline, attempt, executed, executions, result>>

\* The context is done while the request is in flight.
DeadlineInFlight == /\ pc = "sent"
                    /\ deadline <= now + AttemptTimeout
                    /\ now' = deadline
                    /\ Return("failed")
                    /\ UNCHANGED <<deadline, attempt, wake, executed, executions>>

\* Bug: time.Sleep in place of a wait that the context ends.
WokenBySleep == wake

\* defaultBackoff returns at the timer or when the context is done.
Woken == Earlier(wake, deadline)

\* Bug: one attempt more.
AgainOffByOne == attempt + 1 <= MaxRetries

\* Another iteration of the loop remains.
Again == attempt + 1 < MaxRetries

BackoffEnds == /\ pc = "backoff"
               /\ now' = Woken
               /\ attempt' = attempt + 1
               /\ IF Again THEN pc' = "ready" /\ UNCHANGED result
                           ELSE Return("failed")
               /\ UNCHANGED <<deadline, wake, executed, executions>>

Next == \/ Send \/ SendCancelled \/ KokuExecutes \/ Answered \/ AttemptFailed
        \/ DeadlineInFlight \/ BackoffEnds
        \/ pc = "done" /\ UNCHANGED vars

Spec == Init /\ [][Next]_vars

------------------------------------------------------------------------------

TypeOK == /\ deadline \in Deadlines
          /\ pc \in {"ready", "sent", "backoff", "done"}
          /\ attempt \in 0 .. MaxRetries
          /\ now \in Nat /\ wake \in Nat
          /\ executed \in BOOLEAN
          /\ executions \in 0 .. MaxRetries
          /\ result \in {"pending", "ok", "rejected", "failed"}
          /\ (pc = "done") <=> (result # "pending")

\* "Respect context.Context cancellation during backoff" (ADR 004 line 17): a
\* call never outlives its context, whatever attempts and backoffs it strings
\* together (client.go:98-101, 48-55).
EndsByDeadline == now <= deadline

\* At most three attempts of at most AttemptTimeout and the three backoffs: a
\* call without a deadline still ends, and by then (client.go:94-112).  With the
\* client's constants that is 97 s, not the 10 s of ADR 004 line 22, which counts
\* the backoffs alone.
EndsInTime == pc = "done" =>
  now <= MaxRetries * AttemptTimeout + InitialBackoff * (2 ^ MaxRetries - 1)

\* The call, retries and time left out, is one KokuCall.
Call == INSTANCE KokuCall WITH
  MaxRetries <- MaxRetries, executions <- executions, result <- result
ImplementsKokuCall == Call!Spec
================================================================================
