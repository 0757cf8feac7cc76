---------------------------- MODULE ServerLifecycleProofs ----------------------------
(****************************************************************************)
(* Safety of ServerLifecycle, for every timeout, backoff and latency: DCM   *)
(* is told only of a provider that answers, and a signal ends the process   *)
(* within the two timeouts, after what was left of the opening.             *)
(****************************************************************************)
EXTENDS ServerLifecycle, TLAPS

\* Nothing is probed before the server runs or after waitForReady has returned.
PhaseInv ==
  /\ main \in {"loading", "opening"} => prober = "send"
  /\ prober \in {"wait", "select"} => main = "probing"

\* A probe that waits, waits for a handler that will store or for a cached result;
\* what comes after an answer finds the cache filled.
ProbeInv ==
  /\ prober = "wait" => cached \/ answerIn \in pending
  /\ main = "ready" \/ reg # "off" => cached
  /\ registered => reg # "off"

\* What main may still take once it is stopping, against what it still does: the
\* rest of the opening, the shutdown and the drain.
StopInv ==
  /\ main = "loading" => ~stopping
  /\ main = "opening" /\ stopping => exitIn >= dueIn + ShutdownTimeout + DrainTimeout
  /\ main \in {"probing", "ready", "serving"} /\ stopping =>
        exitIn >= ShutdownTimeout + DrainTimeout
  /\ main = "shutdown" => stopping /\ exitIn >= dueIn + DrainTimeout
  /\ main = "draining" => /\ dueIn <= DrainTimeout
                          /\ stopping => exitIn >= dueIn

LifeInv == TypeOK /\ PhaseInv /\ ProbeInv /\ StopInv

------------------------------------------------------------------------------
\* The process starts with nothing stored, told or due.
LEMMA LifeInit == Init => LifeInv
<1> SUFFICES ASSUME Init
             PROVE  LifeInv
  OBVIOUS
<1>1. {serving, stopping, cached, registered} \subseteq BOOLEAN
  BY Zenon DEF Init
<1>2. TypeOK
  BY <1>1, TimesAssumption DEF Init, TypeOK
<1>3. PhaseInv /\ ProbeInv
  BY DEF Init, PhaseInv, ProbeInv
<1>4. StopInv
  BY DEF Init, StopInv
<1> QED  BY <1>2, <1>3, <1>4 DEF LifeInv

------------------------------------------------------------------------------
(* Types *)

\* Flags stay flags.
LEMMA FlagsStep ==
  ASSUME TypeOK, [Next]_vars
  PROVE  {serving, stopping, cached, registered}' \subseteq BOOLEAN
<1>1. {serving, stopping, cached, registered} \subseteq BOOLEAN
  BY DEF TypeOK
<1>2. serving' = serving \/ serving' = FALSE
  BY DEF Next, vars, stop, others, Prober, Main, SendProbe, Answered, Unanswered,
     ProbeAgain, GiveUp, Load, Open, StartFails, OnReady, StopServing, ShutdownEnds,
     Exit, StoreHealth, Register, BackoffEnds, ReconcilerStops, Signal, ServeFails, Tick
<1>3. stopping' = stopping \/ stopping' = TRUE
  BY DEF Next, vars, stop, others, Prober, Main, SendProbe, Answered, Unanswered,
     ProbeAgain, GiveUp, Load, Open, StartFails, OnReady, StopServing, ShutdownEnds,
     Exit, StoreHealth, Register, BackoffEnds, ReconcilerStops, Signal, ServeFails, Tick
<1>4. cached' = cached \/ cached' = TRUE
  BY DEF Next, vars, probe, others, Prober, Main, SendProbe, Answered, Unanswered,
     ProbeAgain, GiveUp, Load, Open, StartFails, OnReady, StopServing, ShutdownEnds,
     Exit, StoreHealth, Register, BackoffEnds, ReconcilerStops, Signal, ServeFails, Tick
<1>5. registered' = registered \/ registered' = TRUE
  BY DEF Next, vars, regVars, others, Prober, Main, SendProbe, Answered, Unanswered,
     ProbeAgain, GiveUp, Load, Open, StartFails, OnReady, StopServing, ShutdownEnds,
     Exit, StoreHealth, Register, BackoffEnds, ReconcilerStops, Signal, ServeFails, Tick
<1> QED  BY <1>1, <1>2, <1>3, <1>4, <1>5, Zenon

\* No step leaves the types.
LEMMA TypeStep ==
  ASSUME TypeOK, PhaseInv, [Next]_vars
  PROVE  TypeOK'
<1>1. {serving, stopping, cached, registered}' \subseteq BOOLEAN
  BY FlagsStep
<1> USE <1>1, TimesAssumption DEF TypeOK, PhaseInv
<1>2. CASE Load
  BY <1>2 DEF Load, others, probe, request, regVars
<1>3. CASE Open
  BY <1>3 DEF Open, stop, request, regVars
<1>4. CASE StartFails
  BY <1>4 DEF StartFails, others, probe, request, regVars
<1>5. CASE SendProbe
  <2>1. pending' \subseteq Nat /\ {giveUpIn, answerIn}' \subseteq Nat
    <3>1. CASE \E l \in KokuLatencies : /\ giveUpIn' = ClientTimeout
                                         /\ answerIn' = l
                                         /\ pending' = pending \cup {l}
      BY <3>1
    <3>2. CASE giveUpIn' = ClientTimeout /\ answerIn' = 0 /\ pending' = pending
      BY <3>2
    <3>3. CASE UNCHANGED <<giveUpIn, answerIn, pending>>
      BY <3>3
    <3> QED  BY <1>5, <3>1, <3>2, <3>3 DEF SendProbe, request
  <2> QED  BY <1>5, <2>1 DEF SendProbe, stop, regVars
<1>6. CASE Answered
  BY <1>6 DEF Answered, stop, regVars, EndRequest
<1>7. CASE Unanswered
  BY <1>7 DEF Unanswered, stop, regVars, EndRequest, Cancelled
<1>8. CASE ProbeAgain
  BY <1>8 DEF ProbeAgain, stop, request, regVars
<1>9. CASE GiveUp
  BY <1>9 DEF GiveUp, stop, request, Cancelled, Start, Callback
<1>10. CASE OnReady
  BY <1>10 DEF OnReady, stop, request, Start, Callback
<1>11. CASE StoreHealth
  BY <1>11 DEF StoreHealth, Alive, stop, request, regVars
<1>12. CASE Register
  BY <1>12 DEF Register, Alive, stop, probe, request, Retryable
<1>13. CASE BackoffEnds
  BY <1>13 DEF BackoffEnds, Alive, stop, probe, request
<1>14. CASE Signal
  BY <1>14 DEF Signal, Alive, probe, request, regVars
<1>15. CASE ServeFails
  BY <1>15 DEF ServeFails, probe, request, regVars
<1>16. CASE StopServing
  BY <1>16 DEF StopServing, stop, probe, request, regVars
<1>17. CASE ShutdownEnds
  BY <1>17 DEF ShutdownEnds, stop, probe, request, regVars
<1>18. CASE ReconcilerStops
  BY <1>18 DEF ReconcilerStops, Alive, stop, probe, request, regVars
<1>19. CASE Exit
  BY <1>19 DEF Exit, stop, probe, request, regVars, Drained
<1>20. CASE Tick
  BY <1>20 DEF Tick, Alive, Idle, Less, Cancelled
<1>21. CASE UNCHANGED vars
  BY <1>21 DEF vars, stop, request, regVars
<1> QED  BY <1>2, <1>3, <1>4, <1>5, <1>6, <1>7, <1>8, <1>9, <1>10, <1>11, <1>12, <1>13, <1>14, <1>15, <1>16, <1>17, <1>18, <1>19, <1>20, <1>21 DEF Next, Prober, Main

\* Every step keeps the probes within waitForReady.
LEMMA PhaseStep ==
  ASSUME LifeInv, [Next]_vars
  PROVE  PhaseInv'
<1> USE TimesAssumption DEF LifeInv, TypeOK, PhaseInv, PhaseInv
<1>1. CASE Load
  BY <1>1 DEF Load, others, probe, request, regVars
<1>2. CASE Open
  BY <1>2 DEF Open, stop, request, regVars
<1>3. CASE StartFails
  BY <1>3 DEF StartFails, others, probe, request, regVars
<1>4. CASE SendProbe
  BY <1>4 DEF SendProbe, stop, regVars, request, Cancelled, Fresh
<1>5. CASE Answered
  BY <1>5 DEF Answered, stop, regVars, EndRequest
<1>6. CASE Unanswered
  BY <1>6 DEF Unanswered, stop, regVars, EndRequest, Cancelled
<1>7. CASE ProbeAgain
  BY <1>7 DEF ProbeAgain, stop, request, regVars
<1>8. CASE GiveUp
  BY <1>8 DEF GiveUp, stop, request, Cancelled, Start, Callback
<1>9. CASE OnReady
  BY <1>9 DEF OnReady, stop, request, Start, Callback
<1>10. CASE StoreHealth
  BY <1>10 DEF StoreHealth, Alive, stop, request, regVars
<1>11. CASE Register
  BY <1>11 DEF Register, Alive, stop, probe, request, Retryable
<1>12. CASE BackoffEnds
  BY <1>12 DEF BackoffEnds, Alive, stop, probe, request
<1>13. CASE Signal
  BY <1>13 DEF Signal, Alive, probe, request, regVars
<1>14. CASE ServeFails
  BY <1>14 DEF ServeFails, probe, request, regVars
<1>15. CASE StopServing
  BY <1>15 DEF StopServing, stop, probe, request, regVars
<1>16. CASE ShutdownEnds
  BY <1>16 DEF ShutdownEnds, stop, probe, request, regVars
<1>17. CASE ReconcilerStops
  BY <1>17 DEF ReconcilerStops, Alive, stop, probe, request, regVars
<1>18. CASE Exit
  BY <1>18 DEF Exit, stop, probe, request, regVars, Drained
<1>19. CASE Tick
  BY <1>19 DEF Tick, Alive, Idle, Less, Cancelled
<1>20. CASE UNCHANGED vars
  BY <1>20 DEF vars, stop, request, regVars
<1> QED  BY <1>1, <1>2, <1>3, <1>4, <1>5, <1>6, <1>7, <1>8, <1>9, <1>10, <1>11, <1>12, <1>13, <1>14, <1>15, <1>16, <1>17, <1>18, <1>19, <1>20 DEF Next, Prober, Main

\* No step registers a provider whose health was never stored.
LEMMA ProbeStep ==
  ASSUME LifeInv, [Next]_vars
  PROVE  ProbeInv'
<1> USE TimesAssumption DEF LifeInv, TypeOK, PhaseInv, ProbeInv
<1>1. CASE Load
  BY <1>1 DEF Load, others, probe, request, regVars
<1>2. CASE Open
  BY <1>2 DEF Open, stop, request, regVars
<1>3. CASE StartFails
  BY <1>3 DEF StartFails, others, probe, request, regVars
<1>4. CASE SendProbe
  BY <1>4 DEF SendProbe, stop, regVars, request, Cancelled, Fresh
<1>5. CASE Answered
  BY <1>5 DEF Answered, stop, regVars, EndRequest
<1>6. CASE Unanswered
  BY <1>6 DEF Unanswered, stop, regVars, EndRequest, Cancelled
<1>7. CASE ProbeAgain
  BY <1>7 DEF ProbeAgain, stop, request, regVars
<1>8. CASE GiveUp
  BY <1>8 DEF GiveUp, stop, request, Cancelled, Start, Callback
<1>9. CASE OnReady
  BY <1>9 DEF OnReady, stop, request, Start, Callback
<1>10. CASE StoreHealth
  BY <1>10 DEF StoreHealth, Alive, stop, request, regVars
<1>11. CASE Register
  BY <1>11 DEF Register, Alive, stop, probe, request, Retryable
<1>12. CASE BackoffEnds
  BY <1>12 DEF BackoffEnds, Alive, stop, probe, request
<1>13. CASE Signal
  BY <1>13 DEF Signal, Alive, probe, request, regVars
<1>14. CASE ServeFails
  BY <1>14 DEF ServeFails, probe, request, regVars
<1>15. CASE StopServing
  BY <1>15 DEF StopServing, stop, probe, request, regVars
<1>16. CASE ShutdownEnds
  BY <1>16 DEF ShutdownEnds, stop, probe, request, regVars
<1>17. CASE ReconcilerStops
  BY <1>17 DEF ReconcilerStops, Alive, stop, probe, request, regVars
<1>18. CASE Exit
  BY <1>18 DEF Exit, stop, probe, request, regVars, Drained
<1>19. CASE Tick
  BY <1>19 DEF Tick, Alive, Idle, Less, Cancelled
<1>20. CASE UNCHANGED vars
  BY <1>20 DEF vars, stop, request, regVars
<1> QED  BY <1>1, <1>2, <1>3, <1>4, <1>5, <1>6, <1>7, <1>8, <1>9, <1>10, <1>11, <1>12, <1>13, <1>14, <1>15, <1>16, <1>17, <1>18, <1>19, <1>20 DEF Next, Prober, Main

\* Every step keeps the account of the time to the exit.
LEMMA StopStep ==
  ASSUME LifeInv, [Next]_vars
  PROVE  StopInv'
<1> USE TimesAssumption DEF LifeInv, TypeOK, PhaseInv, StopInv
<1>1. CASE Load
  BY <1>1 DEF Load, others, probe, request, regVars
<1>2. CASE Open
  BY <1>2 DEF Open, stop, request, regVars
<1>3. CASE StartFails
  BY <1>3 DEF StartFails, others, probe, request, regVars
<1>4. CASE SendProbe
  BY <1>4 DEF SendProbe, stop, regVars, request, Cancelled, Fresh
<1>5. CASE Answered
  BY <1>5 DEF Answered, stop, regVars, EndRequest
<1>6. CASE Unanswered
  BY <1>6 DEF Unanswered, stop, regVars, EndRequest, Cancelled
<1>7. CASE ProbeAgain
  BY <1>7 DEF ProbeAgain, stop, request, regVars
<1>8. CASE GiveUp
  BY <1>8 DEF GiveUp, stop, request, Cancelled, Start, Callback
<1>9. CASE OnReady
  BY <1>9 DEF OnReady, stop, request, Start, Callback
<1>10. CASE StoreHealth
  BY <1>10 DEF StoreHealth, Alive, stop, request, regVars
<1>11. CASE Register
  BY <1>11 DEF Register, Alive, stop, probe, request, Retryable
<1>12. CASE BackoffEnds
  BY <1>12 DEF BackoffEnds, Alive, stop, probe, request
<1>13. CASE Signal
  BY <1>13 DEF Signal, Alive, probe, request, regVars
<1>14. CASE ServeFails
  BY <1>14 DEF ServeFails, probe, request, regVars
<1>15. CASE StopServing
  BY <1>15 DEF StopServing, stop, probe, request, regVars
<1>16. CASE ShutdownEnds
  BY <1>16 DEF ShutdownEnds, stop, probe, request, regVars
<1>17. CASE ReconcilerStops
  BY <1>17 DEF ReconcilerStops, Alive, stop, probe, request, regVars
<1>18. CASE Exit
  BY <1>18 DEF Exit, stop, probe, request, regVars, Drained
<1>19. CASE Tick
  BY <1>19 DEF Tick, Alive, Idle, Less, Cancelled
<1>20. CASE UNCHANGED vars
  BY <1>20 DEF vars, stop, request, regVars
<1> QED  BY <1>1, <1>2, <1>3, <1>4, <1>5, <1>6, <1>7, <1>8, <1>9, <1>10, <1>11, <1>12, <1>13, <1>14, <1>15, <1>16, <1>17, <1>18, <1>19, <1>20 DEF Next, Prober, Main

------------------------------------------------------------------------------
\* The strengthening holds throughout a life of the process.
LEMMA LifeAlways == Spec => []LifeInv
<1>1. LifeInv /\ [Next]_vars => LifeInv'
  BY TypeStep, PhaseStep, ProbeStep, StopStep DEF LifeInv
<1> QED  BY <1>1, LifeInit, PTL DEF Spec

\* Every variable holds what the code can put there, whatever order the start,
\* the probes, the registrar, the signal and the shutdown take.
THEOREM LifeTypes == Spec => []TypeOK
<1>1. LifeInv => TypeOK
  BY DEF LifeInv
<1> QED  BY <1>1, LifeAlways, PTL

\* DCM is told only of a provider whose health endpoint has answered
\* (server.go:136-148, main.go:108).
THEOREM ToldOnceAnswering == Spec => []RegisteredOnceAnswering
<1>1. LifeInv => RegisteredOnceAnswering
  BY DEF LifeInv, ProbeInv, RegisteredOnceAnswering
<1> QED  BY <1>1, LifeAlways, PTL

\* The signal ends the process within the shutdown and the drain, and what was
\* left of the opening of the database and NATS if it came during that, wherever
\* it finds the goroutines (main.go:60-90, 115-121, server.go:159-166).
THEOREM GoneInTime == Spec => []ExitsInTime
<1>1. LifeInv => ExitsInTime
  BY TimesAssumption DEF LifeInv, TypeOK, StopInv, ExitsInTime
<1> QED  BY <1>1, LifeAlways, PTL
================================================================================
