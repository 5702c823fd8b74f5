---------------------------- MODULE SingleFlight ----------------------------
(***************************************************************************)
(* Results that are slow to make and shared by everyone who asks for them: *)
(* rendered QR codes (QrService.getOrRender, a map by format and slug,     *)
(* never expiring) and Cloudinary's usage (CloudinaryService.getUsage, one *)
(* entry for a minute).  Both keep a promise while the result is made, so  *)
(* that concurrent callers wait for one making instead of starting their   *)
(* own, and forget it when it settles.  A promise that is kept may have    *)
(* settled already: what follows it (then, finally, the code after the     *)
(* await) runs in a later step, and whoever asks in between joins it.      *)
(***************************************************************************)
EXTENDS Naturals, FiniteSets

CONSTANTS
    Result,             \* cache keys of QR codes, and the usage
    Expiring,           \* those whose entry expires: the usage
    Caller,             \* requests that may wait at once
    NoResult,           \* no result
    USAGE_CACHE_TTL,    \* the minute in ticks
    MaxFlightFailures   \* bound: makings that fail, and restarts

ASSUME FlightAssumption ==
    /\ Expiring \subseteq Result
    /\ IsFiniteSet(Caller)
    /\ NoResult \notin Result
    /\ USAGE_CACHE_TTL \in Nat \ {0}
    /\ MaxFlightFailures \in Nat

VARIABLES
    cached,     \* ticks each entry is still good for, 0 without one
    inFlight,   \* results whose promise is kept
    making,     \* how often each result is being rendered or fetched right now
    made,       \* how often each was made but is not cached yet
    failed,     \* results whose kept promise has rejected
    asks,       \* the result each waiting request asked for
    flightFailures  \* what may still fail

flightVars == <<cached, inFlight, making, made, failed, asks, flightFailures>>

FlightTypeOK ==
    /\ cached \in [Result -> 0 .. USAGE_CACHE_TTL]
    /\ inFlight \subseteq Result
    /\ making \in [Result -> 0 .. Cardinality(Caller)]
    /\ made \in [Result -> 0 .. Cardinality(Caller)]
    /\ failed \subseteq inFlight
    /\ asks \in [Caller -> inFlight \cup {NoResult}]
    /\ flightFailures \in 0 .. MaxFlightFailures

FlightInit ==
    /\ cached = [x \in Result |-> 0]
    /\ inFlight = {}
    /\ making = [x \in Result |-> 0]
    /\ made = [x \in Result |-> 0]
    /\ failed = {}
    /\ asks = [r \in Caller |-> NoResult]
    /\ flightFailures = MaxFlightFailures

FlightMayFail ==
    /\ flightFailures > 0
    /\ flightFailures' = flightFailures - 1

\* Mutants: the promise is not kept, or one promise serves all results.
KeptPromises_None(x) == inFlight
KeptPromises_Last(x) == {x}

KeptPromises(x) == inFlight \cup {x}

\* A good entry is answered at once.  Otherwise the caller waits for the promise
\* that is kept, settled or not, or starts the making and keeps its own.
AskFor(r, x) ==
    /\ asks[r] = NoResult
    /\ cached[x] = 0
    /\ asks' = [asks EXCEPT ![r] = x]
    /\ IF x \in inFlight
       THEN UNCHANGED <<inFlight, making>>
       ELSE /\ inFlight' = KeptPromises(x)
            /\ making' = [making EXCEPT ![x] = @ + 1]
    /\ UNCHANGED <<cached, made, failed, flightFailures>>

\* Everyone who waits for x hears of it.
Heard(x) == asks' = [r \in Caller |-> IF asks[r] = x THEN NoResult ELSE asks[r]]

\* Mutant: the promise is forgotten before the result is cached.
KeptUntilCached_No(x) == inFlight \ {x}

\* The promise stays until the result is cached.
KeptUntilCached(x) == inFlight

\* A rendering or a fetch succeeds.
MakingEnds(x) ==
    /\ making[x] > 0
    /\ making' = [making EXCEPT ![x] = @ - 1]
    /\ made' = [made EXCEPT ![x] = @ + 1]
    /\ inFlight' = KeptUntilCached(x)
    /\ UNCHANGED <<cached, failed, asks, flightFailures>>

\* The result is cached, its promise forgotten, and all waiters have it.
CacheResult(x) ==
    /\ made[x] > 0
    /\ made' = [made EXCEPT ![x] = @ - 1]
    /\ cached' = [cached EXCEPT ![x] = USAGE_CACHE_TTL]
    /\ inFlight' = inFlight \ {x}
    /\ Heard(x)
    /\ UNCHANGED <<making, failed, flightFailures>>

\* The kept promise rejects.
MakingFails(x) ==
    /\ making[x] > 0
    /\ FlightMayFail
    /\ making' = [making EXCEPT ![x] = @ - 1]
    /\ failed' = failed \cup {x}
    /\ UNCHANGED <<cached, inFlight, made, asks>>

\* Mutant: a rejected promise stays, and rejects whoever asks next.
ForgottenAfterFailure_No(x) == inFlight

\* finally
ForgottenAfterFailure(x) == inFlight \ {x}

\* All who joined the rejected promise fail with it; it is forgotten, and the next
\* caller starts anew.
ForgetFailed(x) ==
    /\ x \in failed
    /\ inFlight' = ForgottenAfterFailure(x)
    /\ failed' = failed \cap inFlight'
    /\ Heard(x)
    /\ UNCHANGED <<cached, making, made, flightFailures>>

\* expiresAt comes nearer.
EntriesAge ==
    /\ \E x \in Expiring : cached[x] > 0
    /\ cached' = [x \in Result |->
          IF x \in Expiring /\ cached[x] > 0 THEN cached[x] - 1 ELSE cached[x]]
    /\ UNCHANGED <<inFlight, making, made, failed, asks, flightFailures>>

\* The process restarts, with nobody waiting.
RestartOfFlights ==
    /\ FlightMayFail
    /\ cached' = [x \in Result |-> 0]
    /\ inFlight' = {}
    /\ making' = [x \in Result |-> 0]
    /\ made' = [x \in Result |-> 0]
    /\ failed' = {}
    /\ asks' = [r \in Caller |-> NoResult]

FlightNext ==
    \/ \E r \in Caller, x \in Result : AskFor(r, x)
    \/ \E x \in Result :
          MakingEnds(x) \/ CacheResult(x) \/ MakingFails(x) \/ ForgetFailed(x)
    \/ EntriesAge \/ RestartOfFlights

FlightSpec == FlightInit /\ [][FlightNext]_flightVars

-----------------------------------------------------------------------------

\* However many ask at once, and whatever failed or expired before, a result is
\* made once at a time, and not while a good one is cached or about to be.
OneMakingAtATime ==
    \A x \in Result : making[x] + made[x] + (IF cached[x] > 0 THEN 1 ELSE 0) <= 1

\* A result that is asked for again and again is made: a failure is told to those
\* who wait for it and is not served to those who ask later.
AskedForIsMade ==
    \A x \in Result : []<>(\E r \in Caller : asks[r] = x) => []<>(cached[x] > 0)

=============================================================================
