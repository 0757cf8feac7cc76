------------------------------ MODULE KokuRetryProofs ------------------------------
(****************************************************************************)
(* KokuRetry implements KokuCall and never outlives its context, for every  *)
(* number of attempts, every backoff, timeout and deadline.  The argument   *)
(* counts executions: one per attempt at most, the present one included.    *)
(* Without a deadline a call ends by itself: the time spent is bounded      *)
(* attempt by attempt, with 2 ^ n as the number of subsets of a set of n.   *)
(****************************************************************************)
EXTENDS KokuRetry, FiniteSetTheorems, TLAPS

\* The attempt that may be under way, as an execution.
Present == IF pc = "sent" /\ ~executed THEN 0 ELSE 1

\* No attempt is made twice, and the result is told when the loop is left.
CountInv ==
  /\ deadline \in Nat
  /\ pc \in {"ready", "sent", "backoff", "done"}
  /\ attempt \in Nat /\ executions \in Nat /\ executed \in BOOLEAN
  /\ pc # "done" => attempt < MaxRetries
  /\ pc = "ready" => executions <= attempt
  /\ pc \in {"sent", "backoff"} => executions <= attempt + Present
  /\ pc = "sent" /\ executed => executions > 0
  /\ pc = "done" <=> result # "pending"
  /\ now <= deadline

------------------------------------------------------------------------------
\* A call starts with its first attempt ahead of it.
LEMMA CountInit == Init => CountInv
<1> SUFFICES ASSUME Init
             PROVE  CountInv
  OBVIOUS
<1>1. deadline \in Nat /\ now <= deadline /\ attempt < MaxRetries
  BY RetryAssumption DEF Init
<1>2. executed \in BOOLEAN /\ pc = "ready" /\ executions = 0 /\ attempt = 0
      /\ result = "pending"
  BY Zenon DEF Init
<1> QED  BY <1>1, <1>2 DEF CountInv

\* Each step keeps the count.
LEMMA CountStep == CountInv /\ [Next]_vars => CountInv'
<1> SUFFICES ASSUME CountInv, [Next]_vars
             PROVE  CountInv'
  OBVIOUS
<1> USE RetryAssumption DEF CountInv, Present
<1>1. CASE Send
  <2>1. executed' \in BOOLEAN /\ ~executed'
    BY <1>1, Zenon DEF Send
  <2>2. /\ pc = "ready" /\ pc' = "sent"
        /\ UNCHANGED <<deadline, attempt, now, executions, result>>
    BY <1>1 DEF Send
  <2> QED  BY <2>1, <2>2
<1>2. CASE SendCancelled
  BY <1>2 DEF SendCancelled, Return
<1>3. CASE KokuExecutes
  BY <1>3 DEF KokuExecutes
<1>4. CASE Answered
  BY <1>4 DEF Answered, Return
<1>5. CASE AttemptFailed
  <2>1. now' <= deadline
    BY <1>5 DEF AttemptFailed
  <2> QED  BY <1>5, <2>1 DEF AttemptFailed
<1>6. CASE DeadlineInFlight
  BY <1>6 DEF DeadlineInFlight, Return
<1>7. CASE BackoffEnds
  <2>1. now' <= deadline
    BY <1>7 DEF BackoffEnds, Woken, Earlier
  <2>2. attempt + 1 < MaxRetries => pc' = "ready" /\ UNCHANGED result
    BY <1>7 DEF BackoffEnds, Again
  <2>3. ~(attempt + 1 < MaxRetries) => pc' = "done" /\ result' = "failed"
    BY <1>7 DEF BackoffEnds, Again, Return
  <2> QED  BY <1>7, <2>1, <2>2, <2>3 DEF BackoffEnds
<1>8. CASE UNCHANGED vars
  BY <1>8 DEF vars
<1> QED  BY <1>1, <1>2, <1>3, <1>4, <1>5, <1>6, <1>7, <1>8 DEF Next

\* The count holds throughout a call.
LEMMA CountAlways == Spec => []CountInv
  BY CountInit, CountStep, PTL DEF Spec

\* However attempts and backoffs follow each other, a call is over when its
\* context is done (client.go:48-55 and 94-112).
THEOREM NeverOutlivesContext == Spec => []EndsByDeadline
<1>1. CountInv => EndsByDeadline
  BY DEF CountInv, EndsByDeadline
<1> QED  BY <1>1, CountAlways, PTL

------------------------------------------------------------------------------
\* What a step is to the caller and to Koku.
LEMMA CallStep == CountInv /\ [Next]_vars => [Call!Next]_Call!callVars
<1> SUFFICES ASSUME CountInv, [Next]_vars
             PROVE  Call!Next \/ UNCHANGED <<executions, result>>
  BY DEF Call!callVars
<1> USE DEF Call!Next
<1>1. CASE KokuExecutes
  <2>1. executions < MaxRetries /\ result = "pending"
    BY <1>1, RetryAssumption DEF KokuExecutes, CountInv, Present
  <2> QED  BY <1>1, <2>1 DEF KokuExecutes, Call!Execute
<1>2. CASE SendCancelled
  BY <1>2 DEF SendCancelled, Return, CountInv, Call!Fail
<1>3. CASE Answered
  <2>1. result = "pending" /\ (executed => executions > 0)
    BY <1>3 DEF Answered, CountInv
  <2> QED  BY <1>3, <2>1 DEF Answered, Return, Call!Succeed, Call!Fail
<1>4. CASE DeadlineInFlight
  BY <1>4 DEF DeadlineInFlight, Return, CountInv, Call!Fail
<1>5. CASE BackoffEnds
  BY <1>5 DEF BackoffEnds, Return, CountInv, Call!Fail
<1>6. CASE Send \/ AttemptFailed \/ UNCHANGED vars
  BY <1>6 DEF Send, AttemptFailed, vars
<1> QED  BY <1>1, <1>2, <1>3, <1>4, <1>5, <1>6 DEF Next

\* The retry loop keeps the promise that CreateSource and CreateCostModel rely
\* on: at most MaxRetries executions, one end, and no success without an
\* execution (client.go:94-112).
THEOREM RetryImplementsCall == Spec => ImplementsKokuCall
<1>1. Init => Call!Init
  BY DEF Init, Call!Init
<1> QED  BY <1>1, CallStep, CountAlways, PTL
         DEF Spec, ImplementsKokuCall, Call!Spec
------------------------------------------------------------------------------
(* Powers of two, as the numbers of subsets. *)

\* A set of n elements has 2 ^ n subsets.
LEMMA Subsets ==
  ASSUME NEW n \in Nat
  PROVE  /\ IsFiniteSet(SUBSET (1 .. n))
         /\ Cardinality(SUBSET (1 .. n)) = 2 ^ n
<1>1. IsFiniteSet(1 .. n) /\ Cardinality(1 .. n) = n
  BY FS_Interval
<1> QED  BY <1>1, FS_SUBSET

\* math.Pow(2, attempt) is a number, one at least (client.go:116).
LEMMA PowerType ==
  ASSUME NEW n \in Nat
  PROVE  2 ^ n \in Nat /\ 2 ^ n >= 1
<1> DEFINE P == SUBSET (1 .. n)
<1>1. IsFiniteSet(P) /\ Cardinality(P) = 2 ^ n
  BY Subsets
<1>2. Cardinality(P) \in Nat /\ Cardinality(P) # 0
  <2>1. P # {}
    OBVIOUS
  <2> HIDE DEF P
  <2> QED  BY <1>1, <2>1, FS_CardinalityType, FS_EmptySet
<1> QED  BY <1>1, <1>2

\* It grows with the attempt.
LEMMA PowerGrows ==
  ASSUME NEW n \in Nat, NEW m \in Nat, n <= m
  PROVE  2 ^ n <= 2 ^ m
<1>1. SUBSET (1 .. n) \in SUBSET (SUBSET (1 .. m))
  OBVIOUS
<1>2. Cardinality(SUBSET (1 .. n)) <= Cardinality(SUBSET (1 .. m))
  BY <1>1, Subsets, FS_Subset
<1> QED  BY <1>2, Subsets

\* It doubles: half of the subsets lack the new element, half have it.
LEMMA PowerDoubles ==
  ASSUME NEW n \in Nat
  PROVE  2 ^ (n + 1) = 2 ^ n + 2 ^ n
<1> DEFINE P == SUBSET (1 .. n)
           Q == {A \cup {n + 1} : A \in P}
           f == [A \in P |-> A \cup {n + 1}]
<1>1. \A A \in P : n + 1 \notin A
  OBVIOUS
<1>2. SUBSET (1 .. n + 1) = P \cup Q
  <2>1. \A B \in SUBSET (1 .. n + 1) : n + 1 \notin B => B \in P
    OBVIOUS
  <2>2. ASSUME NEW B \in SUBSET (1 .. n + 1), n + 1 \in B
        PROVE  B \in Q
    <3>1. B \ {n + 1} \in P
      OBVIOUS
    <3>2. B = (B \ {n + 1}) \cup {n + 1}
      BY <2>2
    <3> QED  BY <3>1, <3>2
  <2>3. \A B \in P \cup Q : B \in SUBSET (1 .. n + 1)
    OBVIOUS
  <2> HIDE DEF P, Q
  <2> QED  BY <2>1, <2>2, <2>3
<1>3. P \cap Q = {}
  BY <1>1
<1>4. ExistsBijection(P, Q)
  <2>1. f \in [P -> Q]
    OBVIOUS
  <2>2. \A A, B \in P : f[A] = f[B] => A = B
    <3> SUFFICES ASSUME NEW A \in P, NEW B \in P, A \cup {n + 1} = B \cup {n + 1}
                 PROVE  A = B
      OBVIOUS
    <3>1. n + 1 \notin A /\ n + 1 \notin B
      BY <1>1
    <3> QED  BY <3>1
  <2>3. \A B \in Q : \E A \in P : f[A] = B
    OBVIOUS
  <2> HIDE DEF f, P, Q
  <2>4. f \in Bijection(P, Q)
    BY <2>1, <2>2, <2>3 DEF Bijection, Injection, Surjection, IsInjective
  <2> QED  BY <2>4 DEF ExistsBijection
<1>5. IsFiniteSet(P) /\ Cardinality(P) = 2 ^ n
  BY Subsets
<1>6. Cardinality(SUBSET (1 .. n + 1)) = 2 ^ (n + 1)
  BY Subsets
<1> HIDE DEF P, Q
<1>7. IsFiniteSet(Q) /\ Cardinality(Q) = 2 ^ n
  BY <1>4, <1>5, FS_Bijection
<1>8. Cardinality(P \cup Q) = 2 ^ n + 2 ^ n - Cardinality({})
  BY <1>3, <1>5, <1>7, FS_Union
<1>9. 2 ^ n \in Nat /\ Cardinality({}) = 0
  BY PowerType, FS_EmptySet
<1>10. 2 ^ (n + 1) = 2 ^ n + 2 ^ n - Cardinality({})
  BY <1>2, <1>6, <1>8
<1> QED  BY <1>9, <1>10

------------------------------------------------------------------------------
(* Time *)

\* The time by which k attempts and their backoffs are over: the backoffs are
\* the sum of a geometric series.
OverBy(k) == k * AttemptTimeout + InitialBackoff * (2 ^ k - 1)

\* Each attempt adds its timeout and its backoff.
LEMMA OverByNext ==
  ASSUME NEW k \in Nat
  PROVE  /\ OverBy(k) \in Nat
         /\ OverBy(k + 1) = OverBy(k) + AttemptTimeout + InitialBackoff * 2 ^ k
<1>1. 2 ^ k \in Nat /\ 2 ^ k >= 1 /\ 2 ^ (k + 1) = 2 ^ k + 2 ^ k
  BY PowerType, PowerDoubles
<1> DEFINE p == 2 ^ k
           q == 2 ^ (k + 1)
<1>2. p \in Nat /\ p >= 1 /\ q = p + p
  BY <1>1
<1>3. OverBy(k) = k * AttemptTimeout + InitialBackoff * (p - 1)
  BY DEF OverBy
<1>4. OverBy(k + 1) = (k + 1) * AttemptTimeout + InitialBackoff * (q - 1)
  BY DEF OverBy
<1> HIDE DEF p, q
<1>5. AttemptTimeout \in Nat /\ InitialBackoff \in Nat
  BY RetryAssumption
<1>6. k * AttemptTimeout \in Nat /\ InitialBackoff * (p - 1) \in Nat
  BY <1>2, <1>5
<1>7. (k + 1) * AttemptTimeout = k * AttemptTimeout + AttemptTimeout
  BY <1>5
<1>8. InitialBackoff * (q - 1) = InitialBackoff * (p - 1) + InitialBackoff * p
  BY <1>2, <1>5
<1>9. InitialBackoff * p \in Nat
  BY <1>2, <1>5
<1> DEFINE a == k * AttemptTimeout
           b == InitialBackoff * (p - 1)
           c == InitialBackoff * p
<1>10. /\ a \in Nat /\ b \in Nat /\ c \in Nat
       /\ OverBy(k) = a + b
       /\ OverBy(k + 1) = (a + AttemptTimeout) + (b + c)
  BY <1>3, <1>4, <1>6, <1>7, <1>8, <1>9
<1>11. c = InitialBackoff * 2 ^ k
  BY DEF p
<1> HIDE DEF a, b, c
<1>12. OverBy(k) \in Nat /\ OverBy(k + 1) = OverBy(k) + AttemptTimeout + c
  BY <1>5, <1>10
<1> QED  BY <1>11, <1>12

\* Fewer attempts are over sooner.
LEMMA OverByGrows ==
  ASSUME NEW k \in Nat, NEW m \in Nat, k <= m
  PROVE  OverBy(k) <= OverBy(m)
<1>1. 2 ^ k \in Nat /\ 2 ^ m \in Nat /\ 2 ^ k >= 1 /\ 2 ^ k <= 2 ^ m
  BY PowerType, PowerGrows
<1> DEFINE p == 2 ^ k
           q == 2 ^ m
<1>2. p \in Nat /\ q \in Nat /\ p >= 1 /\ p <= q
  BY <1>1
<1>3. OverBy(k) = k * AttemptTimeout + InitialBackoff * (p - 1)
  BY DEF OverBy
<1>4. OverBy(m) = m * AttemptTimeout + InitialBackoff * (q - 1)
  BY DEF OverBy
<1> HIDE DEF p, q
<1>5. AttemptTimeout \in Nat /\ InitialBackoff \in Nat
  BY RetryAssumption
<1>6. k * AttemptTimeout <= m * AttemptTimeout
  BY <1>5
<1>7. InitialBackoff * (p - 1) <= InitialBackoff * (q - 1)
  BY <1>2, <1>5
<1>8. /\ k * AttemptTimeout \in Nat /\ m * AttemptTimeout \in Nat
      /\ InitialBackoff * (p - 1) \in Nat /\ InitialBackoff * (q - 1) \in Nat
  BY <1>2, <1>5
<1> QED  BY <1>3, <1>4, <1>6, <1>7, <1>8

\* The clock, or the timer, against the attempts made so far.
TimeInv == /\ TypeOK
           /\ pc \in {"ready", "sent"} => now <= OverBy(attempt)
           /\ pc = "backoff" => wake <= OverBy(attempt + 1)
           /\ pc = "done" => now <= OverBy(MaxRetries)

\* A call starts at time zero.
LEMMA TimeInit == Init => TimeInv
<1> SUFFICES ASSUME Init
             PROVE  TimeInv
  OBVIOUS
<1>1. executed \in BOOLEAN
  BY Zenon DEF Init
<1>2. TypeOK
  BY <1>1, RetryAssumption DEF Init, TypeOK
<1>3. pc = "ready" /\ now <= OverBy(attempt)
  BY OverByNext DEF Init
<1> QED  BY <1>2, <1>3 DEF TimeInv

\* Every variable keeps what the code can put there; the attempts are counted
\* up to MaxRetries and Koku executes no more (client.go:94-112).
LEMMA RetryTypeStep == CountInv /\ TypeOK /\ [Next]_vars => TypeOK'
<1> SUFFICES ASSUME CountInv, TypeOK, [Next]_vars
             PROVE  TypeOK'
  OBVIOUS
<1> USE RetryAssumption DEF TypeOK
<1>1. \A d \in Durations : d \in Nat
  OBVIOUS
<1>2. CASE Send
  <2>1. executed' \in BOOLEAN
    BY <1>2, Zenon DEF Send
  <2> QED  BY <1>2, <2>1 DEF Send
<1>3. CASE SendCancelled
  BY <1>3 DEF SendCancelled, Return
<1>4. CASE KokuExecutes
  <2>1. executed' \in BOOLEAN
    BY <1>4, Zenon DEF KokuExecutes
  <2>2. executions + 1 \in 0 .. MaxRetries
    BY <1>4 DEF KokuExecutes, CountInv, Present
  <2> QED  BY <1>4, <2>1, <2>2 DEF KokuExecutes
<1>5. CASE Answered
  <2>1. now' \in Nat
    BY <1>1, <1>5 DEF Answered
  <2>2. pc = "sent" /\ pc' = "done" /\ result' \in {"ok", "failed", "rejected"}
    BY <1>5 DEF Answered, Return
  <2>3. UNCHANGED <<deadline, attempt, wake, executed, executions>>
    BY <1>5 DEF Answered
  <2> QED  BY <2>1, <2>2, <2>3
<1>6. CASE AttemptFailed
  <2>1. now' \in Nat
    BY <1>1, <1>6 DEF AttemptFailed
  <2>2. attempt \in Nat /\ 2 ^ attempt \in Nat
    BY PowerType
  <2>3. Backoff \in Nat
    BY <2>2 DEF Backoff
  <2>4. wake' \in Nat
    BY <1>6, <2>1, <2>3 DEF AttemptFailed
  <2> QED  BY <1>6, <2>1, <2>4 DEF AttemptFailed
<1>7. CASE DeadlineInFlight
  BY <1>7 DEF DeadlineInFlight, Return
<1>8. CASE BackoffEnds
  <2>1. now' \in Nat
    BY <1>8 DEF BackoffEnds, Woken, Earlier
  <2>2. attempt' \in 0 .. MaxRetries
    BY <1>8 DEF BackoffEnds, CountInv
  <2>3. \/ pc' = "ready" /\ UNCHANGED result
        \/ pc' = "done" /\ result' = "failed"
    BY <1>8 DEF BackoffEnds, Return
  <2> QED  BY <1>8, <2>1, <2>2, <2>3 DEF BackoffEnds
<1>9. CASE UNCHANGED vars
  BY <1>9 DEF vars
<1> QED  BY <1>2, <1>3, <1>4, <1>5, <1>6, <1>7, <1>8, <1>9 DEF Next

\* Each step spends no more than its share of the time.
LEMMA TimeStep == CountInv /\ TimeInv /\ [Next]_vars => TimeInv'
<1> SUFFICES ASSUME CountInv, TimeInv, [Next]_vars
             PROVE  TimeInv'
  OBVIOUS
<1>1. TypeOK /\ TypeOK'
  BY RetryTypeStep DEF TimeInv
<1>2. /\ MaxRetries \in Nat /\ AttemptTimeout \in Nat /\ InitialBackoff \in Nat
      /\ attempt \in Nat /\ now \in Nat /\ wake \in Nat /\ deadline \in Nat
      /\ \A d \in Durations : d \in Nat /\ d <= AttemptTimeout
  BY <1>1, RetryAssumption DEF TypeOK
<1> DEFINE b == OverBy(attempt)
           c == OverBy(attempt + 1)
           m == OverBy(MaxRetries)
           x == InitialBackoff * 2 ^ attempt
<1>3. b \in Nat /\ c \in Nat /\ m \in Nat /\ x \in Nat /\ c = b + AttemptTimeout + x
  <2>1. 2 ^ attempt \in Nat
    BY <1>2, PowerType
  <2>2. x \in Nat
    BY <1>2, <2>1
  <2>3. attempt + 1 \in Nat
    BY <1>2
  <2> HIDE DEF x
  <2> QED  BY <1>2, <2>2, <2>3, OverByNext DEF x
<1>4. pc # "done" => b <= m /\ c <= m
  <2> SUFFICES ASSUME pc # "done"
               PROVE  b <= m /\ c <= m
    OBVIOUS
  <2>1. attempt + 1 \in Nat /\ attempt + 1 <= MaxRetries /\ attempt <= MaxRetries
    BY <1>2 DEF CountInv
  <2> QED  BY <1>2, <2>1, OverByGrows
<1>5. /\ pc \in {"ready", "sent"} => now <= b
      /\ pc = "backoff" => wake <= c
      /\ pc = "done" => now <= m
  BY DEF TimeInv
<1>6. wake' = now' + x => wake' = now' + Backoff
  BY DEF Backoff
<1> HIDE DEF b, c, m, x
<1>7. CASE Send
  <2>1. pc' = "sent" /\ now' = now /\ attempt' = attempt /\ now <= b
    BY <1>5, <1>7 DEF Send
  <2> QED  BY <1>1, <2>1 DEF TimeInv, b
<1>8. CASE SendCancelled
  <2>1. pc' = "done" /\ now' = now /\ now <= b /\ b <= m
    BY <1>4, <1>5, <1>8 DEF SendCancelled, Return
  <2>2. now' <= m
    BY <1>2, <1>3, <2>1
  <2> QED  BY <1>1, <2>1, <2>2 DEF TimeInv, m
<1>9. CASE KokuExecutes
  <2>1. pc = "sent" /\ pc' = pc /\ now' = now /\ attempt' = attempt /\ now <= b
    BY <1>5, <1>9 DEF KokuExecutes
  <2> QED  BY <1>1, <2>1 DEF TimeInv, b
<1>10. CASE Answered \/ DeadlineInFlight
  <2>1. pc = "sent" /\ pc' = "done" /\ now <= b /\ c <= m
    BY <1>4, <1>5, <1>10 DEF Answered, DeadlineInFlight, Return
  <2>2. now' <= now + AttemptTimeout
    BY <1>2, <1>10 DEF Answered, DeadlineInFlight
  <2>3. now' \in Nat
    BY <1>1 DEF TypeOK
  <2>4. now' <= m
    BY <1>2, <1>3, <2>1, <2>2, <2>3
  <2> QED  BY <1>1, <2>1, <2>4 DEF TimeInv, m
<1>11. CASE AttemptFailed
  <2>1. pc = "sent" /\ pc' = "backoff" /\ attempt' = attempt /\ now <= b
    BY <1>5, <1>11 DEF AttemptFailed
  <2>2. wake' = now' + x
    BY <1>11 DEF AttemptFailed, Backoff, x
  <2>3. now' \in Nat /\ now' <= now + AttemptTimeout
    BY <1>2, <1>11 DEF AttemptFailed
  <2>4. now \in Nat /\ AttemptTimeout \in Nat
    BY <1>2
  <2>5. now' <= b + AttemptTimeout
    BY <1>3, <2>1, <2>3, <2>4
  <2>6. now' + x <= (b + AttemptTimeout) + x
    <3>1. now' \in Nat /\ x \in Nat /\ b + AttemptTimeout \in Nat
      BY <1>3, <2>3, <2>4
    <3> QED  BY <2>5, <3>1
  <2>7. wake' <= c
    BY <1>3, <2>2, <2>6
  <2> QED  BY <1>1, <2>1, <2>7 DEF TimeInv, c
<1>12. CASE BackoffEnds
  <2>1. pc = "backoff" /\ attempt' = attempt + 1 /\ wake <= c /\ c <= m
    BY <1>4, <1>5, <1>12 DEF BackoffEnds
  <2>2. now' <= wake /\ now' \in Nat
    BY <1>2, <1>12 DEF BackoffEnds, Woken, Earlier
  <2>3. now' <= c /\ now' <= m
    BY <1>2, <1>3, <2>1, <2>2
  <2>4. pc' \in {"ready", "done"}
    BY <1>12 DEF BackoffEnds, Return
  <2> QED  BY <1>1, <2>1, <2>3, <2>4 DEF TimeInv, c, m
<1>13. CASE UNCHANGED vars
  BY <1>1, <1>13 DEF vars, TimeInv
<1> QED  BY <1>7, <1>8, <1>9, <1>10, <1>11, <1>12, <1>13 DEF Next

\* Both hold throughout a call.
LEMMA TimeAlways == Spec => []TimeInv
  BY TimeInit, TimeStep, CountAlways, PTL DEF Spec

\* A call's memory is what the loop can put there: at most MaxRetries attempts,
\* each executed at most once, and a result exactly when it is over
\* (client.go:92-113).
THEOREM RetryTypeCorrect == Spec => []TypeOK
<1>1. TimeInv => TypeOK
  BY DEF TimeInv
<1> QED  BY <1>1, TimeAlways, PTL

\* Without a deadline a call still ends, by MaxRetries timeouts and the sum of
\* as many doubling backoffs (client.go:94-118).
THEOREM EndsByItself == Spec => []EndsInTime
<1>1. TimeInv => EndsInTime
  BY DEF TimeInv, EndsInTime, OverBy
<1> QED  BY <1>1, TimeAlways, PTL

================================================================================
