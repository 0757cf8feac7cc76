------------------------------ MODULE ServerLifecycle ------------------------------
(****************************************************************************)
(* One life of the process: cmd/koku-cost-provider loads its configuration, *)
(* listens, opens the database and starts the HTTP server                   *)
(* (internal/apiserver), which probes its own health endpoint and, once it  *)
(* answers, starts the registrar (internal/registration) and the            *)
(* reconciler; on a signal the server is shut down and the reconciler       *)
(* drained.  Probing is what ties the start to Koku: the health handler     *)
(* itself calls Koku when its cache is cold (internal/health).              *)
(*                                                                          *)
(* Time is kept in timers that count down; a unit is a second.  What is due *)
(* happens before time passes; things due together happen in any order, as  *)
(* select may choose.  The prober's 50 ms ticker is always due, and the     *)
(* cache, good for 10 s, outlives the 5 s of probing.                       *)
(****************************************************************************)
EXTENDS Integers

CONSTANTS OpenLatencies,    \* how long the database and NATS may take to open
          ReadyTimeout,     \* readinessProbeTimeout
          ClientTimeout,    \* of the prober's HTTP client
          KokuLatencies,    \* how long Koku's status endpoint may take; the
                            \* health checker's client gives up at the largest
          ShutdownTimeout,  \* SP_SERVER_SHUTDOWN_TIMEOUT
          DrainTimeout,     \* main's wait for the reconciler
          InitialBackoff,   \* SP_REGISTRATION_INITIAL_BACKOFF
          MaxBackoff,       \* SP_REGISTRATION_MAX_BACKOFF
          MaxOutages        \* bound: attempts to register that fail

ASSUME TimesAssumption ==
  /\ {ReadyTimeout, ShutdownTimeout, DrainTimeout, InitialBackoff, MaxBackoff,
      MaxOutages} \subseteq Nat
  /\ ClientTimeout \in Nat \ {0}
  /\ KokuLatencies \subseteq Nat /\ OpenLatencies \subseteq Nat

VARIABLES main,       \* "loading", "opening", "probing", "ready",
                      \* "serving", "shutdown", "draining", "exited"
          serving,    \* neither the start nor Serve has failed
          stopping,   \* the signal's context is done
          exitIn,     \* history: how long main may still take, once stopping
          prober,     \* waitForReady: "send", "wait", "select", "over"
          readyIn,    \* its deadline
          giveUpIn,   \* when its HTTP client gives up on the request
          answerIn,   \* when the handler of that request answers
          pending,    \* when the handlers that still wait for Koku store
          cached,     \* the health checker has a result
          reg,        \* the registrar's goroutine
          backoff, wakeIn, outages,
          registered, \* DCM has recorded the provider
          recon,      \* the reconciler: "off", "running", "done"
          dueIn       \* when the opening is over, or the shutdown or the drain
                      \* is cut short

stop    == <<serving, stopping, exitIn>>
request == <<giveUpIn, answerIn>>
probe   == <<prober, readyIn, request, pending, cached>>
regVars == <<reg, backoff, wakeIn, outages, registered>>
vars    == <<main, stop, prober, readyIn, request, pending, cached, regVars,
             recon, dueIn>>

\* The exit of the process ends its goroutines.
Alive == main # "exited"

Init == /\ main = "loading"
        /\ serving = TRUE
        /\ stopping = FALSE /\ exitIn = 0
        /\ prober = "send" /\ readyIn = 0 /\ giveUpIn = 0 /\ answerIn = 0
        /\ pending = {} /\ cached = FALSE
        /\ reg = "off" /\ backoff = InitialBackoff /\ wakeIn = 0 /\ outages = 0
        /\ registered = FALSE
        /\ recon = "off"
        /\ dueIn = 0

------------------------------------------------------------------------------
(* The start of the process *)

others == <<exitIn, probe, regVars, recon>>

\* The configuration is sound and its address is free.  Until now a signal kills.
\* SQLite may be locked and NATS far away: main waits for the one, then the other.
Load == /\ main = "loading"
        /\ main' = "opening" /\ dueIn' \in OpenLatencies
        /\ UNCHANGED <<serving, stopping, others>>

\* The database is open and DCM's URL parses; without NATS no events are sent.  A
\* signal has only been noted.  Run starts to serve and to probe.
Open == /\ main = "opening"
        /\ dueIn = 0
        /\ main' = "probing" /\ readyIn' = ReadyTimeout
        /\ UNCHANGED <<stop, prober, request, pending, cached, regVars, recon, dueIn>>

StartFails == /\ main \in {"loading", "opening"}
              /\ main' = "exited" /\ serving' = FALSE
              /\ UNCHANGED <<stopping, others, dueIn>>

------------------------------------------------------------------------------
(* waitForReady *)

\* Bug: the probes do not carry the signal's context.
CancelledNever == FALSE

\* The context of the probes is done.
Cancelled == stopping

\* Bug: the health checker does not use its cache.
FreshNever == FALSE

Fresh == cached

\* A request with a live context reaches a handler, which answers from the cache
\* or when its own call to Koku ends; with a dead one, or with no server, it
\* fails at once.
SendProbe ==
  /\ main = "probing"
  /\ prober = "send"
  /\ IF Cancelled \/ ~serving
     THEN prober' = "select" /\ UNCHANGED <<request, pending>>
     ELSE /\ prober' = "wait"
          /\ giveUpIn' = ClientTimeout
          /\ IF Fresh
             THEN answerIn' = 0 /\ UNCHANGED pending
             ELSE \E l \in KokuLatencies : /\ answerIn' = l
                                           /\ pending' = pending \cup {l}
  /\ UNCHANGED <<main, stop, readyIn, cached, regVars, recon, dueIn>>

EndRequest == giveUpIn' = 0 /\ answerIn' = 0

\* Healthy or not, the endpoint answers 200; the handler has stored before.
Answered ==
  /\ prober = "wait"
  /\ answerIn = 0 /\ 0 \notin pending
  /\ prober' = "over"
  /\ main' = "ready"
  /\ EndRequest
  /\ UNCHANGED <<stop, readyIn, pending, cached, regVars, recon, dueIn>>

\* The client times out, or the context is done; the handler goes on.
Unanswered ==
  /\ prober = "wait"
  /\ giveUpIn = 0 \/ Cancelled
  /\ prober' = "select"
  /\ EndRequest
  /\ UNCHANGED <<main, stop, readyIn, pending, cached, regVars, recon, dueIn>>

ProbeAgain ==
  /\ prober = "select"
  /\ prober' = "send"
  /\ UNCHANGED <<main, stop, readyIn, request, pending, cached, regVars, recon, dueIn>>

\* Bug: the callback runs whatever the probe's outcome.
CallbackAlways(ready) == TRUE

\* onReady runs only after a successful probe.
Callback(ready) == ready

\* Bug: the reconciler is forgotten.
StartRegistrar(ready) ==
  /\ main' = "serving"
  /\ IF Callback(ready) THEN reg' = "calling" /\ UNCHANGED recon
                        ELSE UNCHANGED <<reg, recon>>

\* Run goes on to serve; the callback starts the registrar and the reconciler.
Start(ready) ==
  /\ main' = "serving"
  /\ IF Callback(ready) THEN reg' = "calling" /\ recon' = "running"
                        ELSE UNCHANGED <<reg, recon>>

GiveUp ==
  /\ prober = "select"
  /\ Cancelled \/ readyIn = 0
  /\ prober' = "over"
  /\ Start(FALSE)
  /\ UNCHANGED <<stop, readyIn, request, pending, cached, backoff, wakeIn,
                 outages, registered, dueIn>>

OnReady ==
  /\ main = "ready"
  /\ Start(TRUE)
  /\ UNCHANGED <<stop, prober, readyIn, request, pending, cached, backoff, wakeIn,
                 outages, registered, dueIn>>

\* A health handler's call to Koku ends and it fills the cache.
StoreHealth ==
  /\ Alive
  /\ 0 \in pending
  /\ pending' = pending \ {0}
  /\ cached' = TRUE
  /\ UNCHANGED <<main, stop, prober, readyIn, request, regVars, recon, dueIn>>

------------------------------------------------------------------------------
(* The registrar *)

\* DCM gave no usable answer, or one that is neither 200, 201 nor 4xx.
Retryable(answer) == answer \in {"none", "other"}

\* One call to DCM, which may record the provider although it does not say so.
\* It carries the signal's context, and has no timeout of its own.
Register ==
  /\ Alive
  /\ reg = "calling"
  /\ \E answer \in {"accepted", "refused", "other", "none"} :
       /\ answer \in {"other", "none"} =>
            \/ outages < MaxOutages /\ outages' = outages + 1
            \/ answer = "none" /\ stopping /\ UNCHANGED outages
       /\ answer \in {"accepted", "refused"} => UNCHANGED outages
       /\ registered' \in CASE answer = "accepted" -> {TRUE}
                           [] answer = "refused"  -> {registered}
                           [] OTHER               -> {registered, TRUE}
       /\ IF Retryable(answer)
          THEN reg' = "backoff" /\ wakeIn' = backoff
          ELSE /\ reg' = IF answer = "accepted" THEN "registered" ELSE "rejected"
               /\ UNCHANGED wakeIn
  /\ UNCHANGED <<main, stop, probe, backoff, recon, dueIn>>

\* The timer fires, or the context is done first.
BackoffEnds ==
  /\ Alive
  /\ reg = "backoff"
  /\ \/ /\ wakeIn = 0
        /\ reg' = "calling"
        /\ backoff' = IF 2 * backoff > MaxBackoff THEN MaxBackoff ELSE 2 * backoff
     \/ /\ stopping
        /\ reg' = "cancelled"
        /\ UNCHANGED backoff
  /\ UNCHANGED <<main, stop, probe, wakeIn, outages, registered, recon, dueIn>>

------------------------------------------------------------------------------
(* Serving and stopping *)

\* SIGTERM or SIGINT: the context of main is done, once main has asked for that.
\* From then on there are the rest of the opening, the shutdown and the drain.
Signal ==
  /\ Alive
  /\ ~stopping
  /\ stopping' = TRUE
  /\ main' = IF main = "loading" THEN "exited" ELSE main
  /\ exitIn' = (IF main = "opening" THEN dueIn ELSE 0) + ShutdownTimeout + DrainTimeout
  /\ UNCHANGED <<serving, probe, regVars, recon, dueIn>>

\* The listener breaks: Serve returns, the handlers under way go on.
ServeFails ==
  /\ main \in {"probing", "ready", "serving"}
  /\ serving
  /\ serving' = FALSE
  /\ UNCHANGED <<main, stopping, exitIn, probe, regVars, recon, dueIn>>

\* Run's select: the signal starts a shutdown, the error returns at once.
StopServing ==
  /\ main = "serving"
  /\ \/ stopping /\ main' = "shutdown" /\ dueIn' = ShutdownTimeout
     \/ ~serving /\ main' = "draining" /\ dueIn' = DrainTimeout
  /\ UNCHANGED <<stop, probe, regVars, recon>>

\* Shutdown waits for the handlers under way: other requests at most until the
\* timeout, and those of the health endpoint that still wait for Koku.
ShutdownEnds ==
  /\ main = "shutdown"
  /\ pending = {} \/ dueIn = 0
  /\ main' = "draining" /\ dueIn' = DrainTimeout
  /\ UNCHANGED <<stop, probe, regVars, recon>>

\* The reconciler is between two steps, or its call to Koku is cancelled.
ReconcilerStops ==
  /\ Alive
  /\ recon = "running"
  /\ stopping
  /\ recon' = "done"
  /\ UNCHANGED <<main, stop, probe, regVars, dueIn>>

\* Bug: main waits for the reconciler alone.
DrainedOnly == recon = "done"

\* The reconciler's loop has ended, or main has waited long enough.  One that
\* was never started never ends.
Drained == recon = "done" \/ dueIn = 0

Exit == /\ main = "draining"
        /\ Drained
        /\ main' = "exited"
        /\ UNCHANGED <<stop, probe, regVars, recon, dueIn>>

\* Nothing is due.  A prober without a server waits for its ticker.
Idle == /\ 0 \notin pending
        /\ \/ prober = "over" \/ main = "opening"
           \/ prober = "wait" /\ giveUpIn > 0 /\ answerIn > 0 /\ ~Cancelled
           \/ prober = "select" /\ ~serving /\ readyIn > 0 /\ ~Cancelled
        /\ main \notin {"loading", "ready"}
        /\ main = "serving" => serving /\ ~stopping
        /\ main \in {"opening", "shutdown", "draining"} => dueIn > 0
        /\ reg = "backoff" => wakeIn > 0 /\ ~stopping

Less(t) == IF t = 0 THEN 0 ELSE t - 1

\* A second passes.
Tick == /\ Alive
        /\ Idle
        /\ readyIn' = Less(readyIn) /\ giveUpIn' = Less(giveUpIn)
        /\ answerIn' = Less(answerIn) /\ pending' = {t - 1 : t \in pending}
        /\ wakeIn' = Less(wakeIn) /\ dueIn' = Less(dueIn)
        /\ exitIn' = IF stopping THEN exitIn - 1 ELSE exitIn
        /\ UNCHANGED <<main, serving, stopping, prober, cached, reg, backoff,
                       outages, registered, recon>>

------------------------------------------------------------------------------

Prober == SendProbe \/ Answered \/ Unanswered \/ ProbeAgain \/ GiveUp

Main == Load \/ Open \/ StartFails \/ OnReady \/ StopServing \/ ShutdownEnds \/ Exit

Next == \/ Prober \/ Main \/ StoreHealth \/ Register \/ BackoffEnds
        \/ ReconcilerStops \/ Signal \/ ServeFails \/ Tick

Spec == Init /\ [][Next]_vars

\* The goroutines run and time passes, DCM answers or the connection breaks
\* (the registrar's client has no timeout that would make it so), and select,
\* which picks among what is due at random, does not skip the due deadline for
\* ever.  Nothing obliges the signal to come or the reconciler to hurry.
FairSpec == /\ Spec
            /\ WF_vars(Prober) /\ SF_vars(GiveUp)
            /\ WF_vars(Main)
            /\ WF_vars(Register) /\ WF_vars(BackoffEnds)
            /\ WF_vars(StoreHealth)
            /\ SF_vars(Tick)

------------------------------------------------------------------------------

TypeOK ==
  /\ main \in {"loading", "opening", "probing", "ready", "serving", "shutdown",
               "draining", "exited"}
  /\ prober \in {"send", "wait", "select", "over"}
  /\ main = "probing" => prober # "over"
  /\ main \in {"ready", "serving", "shutdown", "draining"} => prober = "over"
  /\ reg \in {"off", "calling", "backoff", "registered", "rejected", "cancelled"}
  /\ recon \in {"off", "running", "done"}
  /\ reg = "off" <=> recon = "off"
  /\ {serving, stopping, cached, registered} \subseteq BOOLEAN
  /\ pending \subseteq Nat
  /\ exitIn \in Int
  /\ {readyIn, giveUpIn, answerIn, backoff, wakeIn, outages, dueIn} \subseteq Nat

\* DCM is not told of a provider that does not answer: whatever the probe, the
\* signal and a failing server do to each other, the registrar starts only once
\* the health endpoint has answered (server.go:136-148, main.go:108).  By then a
\* health handler has stored a result.
RegisteredOnceAnswering == registered => cached

\* After the signal the process is gone within the two timeouts, and what was
\* left of the opening when it came: wherever the signal finds the prober, the
\* server, the registrar and the reconciler, none of them makes main wait for
\* more (main.go:60-90 and 115-121, server.go:111-113 and 159-166).
ExitsInTime == stopping /\ main # "exited" => exitIn >= 0

\* A signal or a broken listener ends the process, although nobody closes the
\* channel of a reconciler that was never started (main.go:115-121).
Exits == (stopping \/ ~serving) ~> main = "exited"

\* "The provider registers with DCM's SPM on startup", design document line
\* 311, and then reconciles: unless it is stopped, DCM records it or refuses it,
\* after as many retries as it takes.
StartsUp == <>(\/ stopping \/ ~serving
               \/ reg \in {"registered", "rejected"} /\ recon = "running")
================================================================================
