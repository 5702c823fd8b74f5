------------------------- MODULE SingleFlight_proofs -------------------------
(***************************************************************************)
(* Proofs about SingleFlight, for any results, any finite number of        *)
(* callers, any life of an entry and any number of failures.               *)
(***************************************************************************)
EXTENDS SingleFlight, FiniteSetTheorems, TLAPS

Rejected(x) == IF x \in failed THEN 1 ELSE 0
Promised(x) == IF x \in inFlight THEN 1 ELSE 0

\* A promise is kept exactly from the beginning of a making until its result is
\* cached or its failure forgotten: one promise for one making.
OnePromiseEach == \A x \in Result : making[x] + made[x] + Rejected(x) = Promised(x)

\* Nothing is made while a good entry is there: an entry does not come back.
NotWhileCached == \A x \in inFlight : cached[x] = 0

IInv ==
    /\ FlightTypeOK
    /\ OnePromiseEach
    /\ NotWhileCached

-----------------------------------------------------------------------------

LEMMA SomeCaller ==
    ASSUME NEW r \in Caller
    PROVE  1 \in 0 .. Cardinality(Caller)
<1>1. Cardinality(Caller) \in Nat
  BY FlightAssumption, FS_CardinalityType
<1>2. Cardinality(Caller) # 0
  BY FlightAssumption, FS_EmptySet
<1>3. QED
  BY <1>1, <1>2

\* The sum has one summand at most, which tells in which state a promise is.
LEMMA PromiseStates ==
    ASSUME IInv, NEW x \in Result
    PROVE  /\ making[x] \in Nat /\ made[x] \in Nat
           /\ x \in inFlight \/ (making[x] = 0 /\ made[x] = 0 /\ x \notin failed)
           /\ making[x] > 0 => x \in inFlight /\ making[x] = 1 /\ made[x] = 0 /\ x \notin failed
           /\ made[x] > 0 => x \in inFlight /\ making[x] = 0 /\ made[x] = 1 /\ x \notin failed
           /\ x \in failed => x \in inFlight /\ making[x] = 0 /\ made[x] = 0
<1>1. making[x] \in Nat /\ made[x] \in Nat
  BY FlightAssumption, FS_CardinalityType DEF IInv, FlightTypeOK
<1>2. making[x] + made[x] + Rejected(x) = Promised(x)
  BY DEF IInv, OnePromiseEach
<1>3. QED
  BY <1>1, <1>2 DEF Rejected, Promised

\* A step that is about one result leaves the promises of the others.
LEMMA OthersStay ==
    ASSUME IInv, NEW x \in Result,
           \A y \in Result \ {x} :
               /\ making'[y] = making[y] /\ made'[y] = made[y]
               /\ y \in failed' <=> y \in failed
               /\ y \in inFlight' <=> y \in inFlight
               /\ cached'[y] = cached[y],
           making'[x] + made'[x] + Rejected(x)' = Promised(x)',
           x \in inFlight' => cached'[x] = 0,
           inFlight' \subseteq Result
    PROVE  OnePromiseEach' /\ NotWhileCached'
<1>1. OnePromiseEach'
  BY DEF IInv, OnePromiseEach, Rejected, Promised
<1>2. NotWhileCached'
  BY DEF IInv, NotWhileCached
<1>3. QED
  BY <1>1, <1>2

LEMMA InitIInv == FlightInit => IInv
<1> SUFFICES ASSUME FlightInit PROVE IInv
  OBVIOUS
<1>1. Cardinality(Caller) \in Nat
  BY FlightAssumption, FS_CardinalityType
<1>2. FlightTypeOK
  BY <1>1, FlightAssumption DEF FlightInit, FlightTypeOK
<1>3. QED
  BY <1>2 DEF FlightInit, OnePromiseEach, NotWhileCached, Rejected, Promised, IInv

\* Whoever settles a promise makes all who wait for it idle, and only them.
LEMMA HeardType ==
    ASSUME FlightTypeOK, NEW x \in Result, Heard(x), inFlight' = inFlight \ {x}
    PROVE  asks' \in [Caller -> inFlight' \cup {NoResult}]
BY DEF FlightTypeOK, Heard

LEMMA FailureSpent ==
    ASSUME FlightTypeOK, FlightMayFail
    PROVE  flightFailures' \in 0 .. MaxFlightFailures
BY FlightAssumption DEF FlightTypeOK, FlightMayFail

LEMMA AskForIInv ==
    ASSUME IInv, NEW r \in Caller, NEW x \in Result, AskFor(r, x)
    PROVE  IInv'
<1>1. CASE x \in inFlight
  BY <1>1 DEF AskFor, IInv, FlightTypeOK, OnePromiseEach, NotWhileCached, Rejected, Promised
<1>2. CASE x \notin inFlight
  <2>1. /\ inFlight' = inFlight \cup {x}
        /\ UNCHANGED <<cached, made, failed, flightFailures>>
        /\ cached[x] = 0
    BY <1>2 DEF AskFor, KeptPromises
  <2>2. making[x] = 0 /\ made[x] = 0 /\ x \notin failed
    BY <1>2, PromiseStates
  <2>3. making' = [making EXCEPT ![x] = 1]
    BY <1>2, <2>2 DEF AskFor
  <2>4. /\ making' \in [Result -> 0 .. Cardinality(Caller)]
        /\ making'[x] = 1
        /\ \A y \in Result \ {x} : making'[y] = making[y]
    BY <2>3, SomeCaller DEF IInv, FlightTypeOK
  <2>5. asks' \in [Caller -> inFlight' \cup {NoResult}]
    BY <2>1 DEF AskFor, IInv, FlightTypeOK
  <2>6. FlightTypeOK'
    BY <2>1, <2>4, <2>5 DEF IInv, FlightTypeOK
  <2>7. making'[x] + made'[x] + Rejected(x)' = Promised(x)'
    BY <2>1, <2>2, <2>4 DEF Rejected, Promised
  <2>8. inFlight' \subseteq Result
    BY <2>6 DEF FlightTypeOK
  <2>9. OnePromiseEach' /\ NotWhileCached'
    BY <2>1, <2>4, <2>7, <2>8, OthersStay
  <2>10. QED
    BY <2>6, <2>9 DEF IInv
<1>3. QED
  BY <1>1, <1>2

\* A making that succeeds hands its promise on to the caching.
LEMMA MakingEndsIInv ==
    ASSUME IInv, NEW x \in Result, MakingEnds(x)
    PROVE  IInv'
<1>1. /\ inFlight' = inFlight
      /\ UNCHANGED <<cached, failed, asks, flightFailures>>
      /\ making[x] > 0
  BY DEF MakingEnds, KeptUntilCached
<1>2. x \in inFlight /\ making[x] = 1 /\ made[x] = 0 /\ x \notin failed
  BY <1>1, PromiseStates
<1>3. making' = [making EXCEPT ![x] = 0] /\ made' = [made EXCEPT ![x] = 1]
  BY <1>2 DEF MakingEnds
<1>4. {0, 1} \subseteq 0 .. Cardinality(Caller)
  <2>1. Cardinality(Caller) \in Nat
    BY FlightAssumption, FS_CardinalityType
  <2>2. 1 \in 0 .. Cardinality(Caller)
    BY <1>2 DEF IInv, FlightTypeOK
  <2>3. QED
    BY <2>1, <2>2
<1>5. /\ making' \in [Result -> 0 .. Cardinality(Caller)]
      /\ made' \in [Result -> 0 .. Cardinality(Caller)]
      /\ making'[x] = 0 /\ made'[x] = 1
      /\ \A y \in Result \ {x} : making'[y] = making[y] /\ made'[y] = made[y]
  BY <1>3, <1>4 DEF IInv, FlightTypeOK
<1>6. FlightTypeOK'
  BY <1>1, <1>5 DEF IInv, FlightTypeOK
<1>7. making'[x] + made'[x] + Rejected(x)' = Promised(x)'
  BY <1>1, <1>2, <1>5 DEF Rejected, Promised
<1>8. /\ inFlight' \subseteq Result
      /\ x \in inFlight' => cached'[x] = 0
  BY <1>1, <1>2, <1>6 DEF FlightTypeOK, IInv, NotWhileCached
<1>9. OnePromiseEach' /\ NotWhileCached'
  BY <1>1, <1>5, <1>7, <1>8, OthersStay
<1>10. QED
  BY <1>6, <1>9 DEF IInv

LEMMA CacheResultIInv ==
    ASSUME IInv, NEW x \in Result, CacheResult(x)
    PROVE  IInv'
<1>1. /\ inFlight' = inFlight \ {x} /\ Heard(x)
      /\ cached' = [cached EXCEPT ![x] = USAGE_CACHE_TTL]
      /\ UNCHANGED <<making, failed, flightFailures>>
      /\ made[x] > 0
  BY DEF CacheResult
<1>2. x \in inFlight /\ making[x] = 0 /\ made[x] = 1 /\ x \notin failed
  BY <1>1, PromiseStates
<1>3. made' = [made EXCEPT ![x] = 0]
  BY <1>2 DEF CacheResult
<1>4. Cardinality(Caller) \in Nat
  BY FlightAssumption, FS_CardinalityType
<1>5. /\ made' \in [Result -> 0 .. Cardinality(Caller)]
      /\ made'[x] = 0
      /\ \A y \in Result \ {x} : made'[y] = made[y]
  BY <1>3, <1>4 DEF IInv, FlightTypeOK
<1>6. cached' \in [Result -> 0 .. USAGE_CACHE_TTL]
      /\ \A y \in Result \ {x} : cached'[y] = cached[y]
  BY <1>1, FlightAssumption DEF IInv, FlightTypeOK
<1>7. FlightTypeOK'
  BY <1>1, <1>2, <1>5, <1>6, HeardType DEF IInv, FlightTypeOK
<1>8. making'[x] + made'[x] + Rejected(x)' = Promised(x)'
  BY <1>1, <1>2, <1>5 DEF Rejected, Promised
<1>9. inFlight' \subseteq Result /\ x \notin inFlight'
  BY <1>1, <1>7 DEF FlightTypeOK
<1>10. OnePromiseEach' /\ NotWhileCached'
  BY <1>1, <1>5, <1>6, <1>8, <1>9, OthersStay
<1>11. QED
  BY <1>7, <1>10 DEF IInv

LEMMA MakingFailsIInv ==
    ASSUME IInv, NEW x \in Result, MakingFails(x)
    PROVE  IInv'
<1>1. /\ failed' = failed \cup {x}
      /\ UNCHANGED <<cached, inFlight, made, asks>>
      /\ making[x] > 0
  BY DEF MakingFails
<1>2. x \in inFlight /\ making[x] = 1 /\ made[x] = 0 /\ x \notin failed
  BY <1>1, PromiseStates
<1>3. making' = [making EXCEPT ![x] = 0]
  BY <1>2 DEF MakingFails
<1>4. Cardinality(Caller) \in Nat
  BY FlightAssumption, FS_CardinalityType
<1>5. /\ making' \in [Result -> 0 .. Cardinality(Caller)]
      /\ making'[x] = 0
      /\ \A y \in Result \ {x} : making'[y] = making[y]
  BY <1>3, <1>4 DEF IInv, FlightTypeOK
<1>6. flightFailures' \in 0 .. MaxFlightFailures
  BY FailureSpent DEF MakingFails, IInv
<1>7. FlightTypeOK'
  BY <1>1, <1>2, <1>5, <1>6 DEF IInv, FlightTypeOK
<1>8. making'[x] + made'[x] + Rejected(x)' = Promised(x)'
  BY <1>1, <1>2, <1>5 DEF Rejected, Promised
<1>9. /\ inFlight' \subseteq Result
      /\ x \in inFlight' => cached'[x] = 0
  BY <1>1, <1>2, <1>7 DEF FlightTypeOK, IInv, NotWhileCached
<1>10. OnePromiseEach' /\ NotWhileCached'
  BY <1>1, <1>5, <1>8, <1>9, OthersStay
<1>11. QED
  BY <1>7, <1>10 DEF IInv

LEMMA ForgetFailedIInv ==
    ASSUME IInv, NEW x \in Result, ForgetFailed(x)
    PROVE  IInv'
<1>1. /\ inFlight' = inFlight \ {x} /\ Heard(x)
      /\ UNCHANGED <<cached, making, made, flightFailures>>
      /\ x \in failed
  BY DEF ForgetFailed, ForgottenAfterFailure
<1>2. failed' = failed \ {x}
  BY <1>1 DEF ForgetFailed, IInv, FlightTypeOK
<1>3. making[x] = 0 /\ made[x] = 0
  BY <1>1, PromiseStates
<1>4. FlightTypeOK'
  BY <1>1, <1>2, HeardType DEF IInv, FlightTypeOK
<1>5. making'[x] + made'[x] + Rejected(x)' = Promised(x)'
  BY <1>1, <1>2, <1>3 DEF Rejected, Promised
<1>6. inFlight' \subseteq Result /\ x \notin inFlight'
  BY <1>1, <1>4 DEF FlightTypeOK
<1>7. OnePromiseEach' /\ NotWhileCached'
  BY <1>1, <1>2, <1>5, <1>6, OthersStay
<1>8. QED
  BY <1>4, <1>7 DEF IInv

\* What is not there does not come back by growing older.
LEMMA EntriesAgeIInv == ASSUME IInv, EntriesAge PROVE IInv'
<1>1. UNCHANGED <<inFlight, making, made, failed, asks, flightFailures>>
  BY DEF EntriesAge
<1>2. /\ cached' \in [Result -> 0 .. USAGE_CACHE_TTL]
      /\ \A x \in Result : cached[x] = 0 => cached'[x] = 0
  BY FlightAssumption DEF EntriesAge, IInv, FlightTypeOK
<1>3. FlightTypeOK' /\ NotWhileCached'
  BY <1>1, <1>2 DEF IInv, FlightTypeOK, NotWhileCached
<1>4. OnePromiseEach'
  BY <1>1 DEF IInv, OnePromiseEach, Rejected, Promised
<1>5. QED
  BY <1>3, <1>4 DEF IInv

LEMMA RestartIInv == ASSUME IInv, RestartOfFlights PROVE IInv'
<1>1. flightFailures' \in 0 .. MaxFlightFailures
  BY FailureSpent DEF RestartOfFlights, IInv
<1>2. Cardinality(Caller) \in Nat
  BY FlightAssumption, FS_CardinalityType
<1>3. FlightTypeOK'
  BY <1>1, <1>2, FlightAssumption DEF RestartOfFlights, FlightTypeOK
<1>4. OnePromiseEach' /\ NotWhileCached'
  BY DEF RestartOfFlights, OnePromiseEach, NotWhileCached, Rejected, Promised
<1>5. QED
  BY <1>3, <1>4 DEF IInv

LEMMA NextIInv == IInv /\ [FlightNext]_flightVars => IInv'
<1> SUFFICES ASSUME IInv, [FlightNext]_flightVars PROVE IInv'
  OBVIOUS
<1>1. ASSUME NEW r \in Caller, NEW x \in Result, AskFor(r, x) PROVE IInv'
  BY <1>1, AskForIInv
<1>2. ASSUME NEW x \in Result, MakingEnds(x) PROVE IInv'
  BY <1>2, MakingEndsIInv
<1>3. ASSUME NEW x \in Result, CacheResult(x) PROVE IInv'
  BY <1>3, CacheResultIInv
<1>4. ASSUME NEW x \in Result, MakingFails(x) PROVE IInv'
  BY <1>4, MakingFailsIInv
<1>5. ASSUME NEW x \in Result, ForgetFailed(x) PROVE IInv'
  BY <1>5, ForgetFailedIInv
<1>6. CASE EntriesAge
  BY <1>6, EntriesAgeIInv
<1>7. CASE RestartOfFlights
  BY <1>7, RestartIInv
<1>8. CASE UNCHANGED flightVars
  BY <1>8 DEF flightVars, IInv, FlightTypeOK, OnePromiseEach, NotWhileCached,
              Rejected, Promised
<1>9. QED
  BY <1>1, <1>2, <1>3, <1>4, <1>5, <1>6, <1>7, <1>8 DEF FlightNext

-----------------------------------------------------------------------------

\* Every variable keeps its type; in particular whoever waits, waits for a
\* promise that is kept, and will hear of it.
THEOREM TypeCorrect == FlightSpec => []FlightTypeOK
<1>1. IInv => FlightTypeOK
  BY DEF IInv
<1>2. QED
  BY InitIInv, NextIInv, <1>1, PTL DEF FlightSpec

\* However many callers ask for a result, and however often its making failed
\* or the process restarted, it is rendered or fetched once at a time, and never
\* while a good one is cached or about to be.
THEOREM MadeOnceAtATime == FlightSpec => []OneMakingAtATime
<1>1. ASSUME IInv, NEW x \in Result
      PROVE  making[x] + made[x] + (IF cached[x] > 0 THEN 1 ELSE 0) <= 1
  <2>1. CASE x \in inFlight
    <3>1. ~(cached[x] > 0)
      BY <1>1, <2>1 DEF IInv, NotWhileCached
    <3>2. making[x] + made[x] <= 1 /\ making[x] \in Nat /\ made[x] \in Nat
      BY <1>1, PromiseStates
    <3>3. QED
      BY <3>1, <3>2
  <2>2. CASE x \notin inFlight
    BY <1>1, <2>2, PromiseStates
  <2>3. QED
    BY <2>1, <2>2
<1>2. IInv => OneMakingAtATime
  BY <1>1 DEF OneMakingAtATime
<1>3. QED
  BY InitIInv, NextIInv, <1>2, PTL DEF FlightSpec

=============================================================================
