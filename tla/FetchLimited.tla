----------------------------- MODULE FetchLimited -----------------------------
(***************************************************************************)
(* FetchSchemeData of internal/services/mfapi_client.go on top of the      *)
(* limiter: a caller acquires, sends its request some time later, and      *)
(* waits for an answer before it acquires again.  The API sees a request   *)
(* when it arrives, not when it was granted.  Whatever the answer, nothing *)
(* of it reaches the limiter.  This is one life of the process, from its   *)
(* start; what a restart does to the limiter is part of RateLimiter.       *)
(***************************************************************************)
EXTENDS RateLimiter

VARIABLES
  flight,  \* the request of a caller
  arrived  \* history: arrived[k][w], requests the API got in that window

fetch   == <<flight, arrived>>
allVars == <<vars, fetch>>

\* "429": the answer was 429 and FetchSchemeData is about to return.
Flight == {"none", "granted", "sent", "429"}

\* Slip: the next call does not wait for the answer to this one.
FreeAlways(c) == TRUE

Free(c) == flight[c] = "none"

\* A call of Acquire that is not granted: FetchSchemeData returns its error, or
\* sleeps on.
Wait(c) ==
  /\ Free(c)
  /\ Throttle(c) \/ Exceed(c) \/ BlockedAgain(c) \/ StopWaiting(c) \/ WaitUntilAvailable(c)
  /\ UNCHANGED fetch

Go(c) ==
  /\ Free(c)
  /\ Grant(c)
  /\ flight' = [flight EXCEPT ![c] = "granted"]
  /\ UNCHANGED arrived

\* Slip: the client sends the request once more when it gets no answer.
AfterSendingAgain == {"sent", "granted"}

AfterSending == {"sent"}

Send(c) ==
  /\ flight[c] = "granted"
  /\ \E next \in AfterSending : flight' = [flight EXCEPT ![c] = next]
  /\ arrived' = [k \in Tier |-> [arrived[k] EXCEPT ![Truncate(k, now)] = @ + 1]]
  /\ UNCHANGED vars

\* Any other answer, an error of the connection or the client's timeout; or the
\* return of ErrRateLimitExceeded after a 429, which only logs.
FetchReturns(c) ==
  /\ flight[c] # "none"
  /\ flight' = [flight EXCEPT ![c] = "none"]
  /\ UNCHANGED <<vars, arrived>>

\* 429 Too Many Requests
TooManyRequests(c) ==
  /\ flight[c] = "sent"
  /\ flight' = [flight EXCEPT ![c] = "429"]
  /\ UNCHANGED <<vars, arrived>>

FetchSchemeData(c) == Wait(c) \/ Go(c) \/ Send(c) \/ FetchReturns(c) \/ TooManyRequests(c)

\* What goes on beside the callers.
Background ==
  /\ \/ \E j \in jobs : PersistCounts(j)
     \/ \E t \in blockJobs : SetBlocked(t)
     \/ GetStatus
     \/ Cleanup
     \/ Tick
     \/ Start
     \/ LoadState
     \/ LoadFails
  /\ UNCHANGED fetch

FetchInit ==
  /\ Init
  /\ flight = [c \in Callers |-> "none"]
  /\ arrived = [k \in Tier |-> [w \in Time |-> 0]]

FetchNext == (\E c \in Callers : FetchSchemeData(c)) \/ Background

FetchSpec == FetchInit /\ [][FetchNext]_allVars

-----------------------------------------------------------------------------
(* Properties *)

\* Every variable has its type, and a caller that has a request out does not
\* sleep in the limiter.
FetchTypeOK ==
  /\ \A c \in Callers : flight[c] # "none" => pc[c] = "idle"
  /\ flight \in [Callers -> Flight]
  /\ arrived \in [Tier -> [Time -> Nat]]

\* What the API gets in a window is within the limit, but for one request of
\* each caller: one that was granted in an earlier window and arrived late, or,
\* in a second, one that was granted after a sleep (FetchSchemeData).
ArrivalsBounded ==
  \A k \in Tier, w \in Time : arrived[k][w] <= Limit[k] + Cardinality(Callers)

\* "received 429 from MFAPI, triggering block" says the client's log: when
\* FetchSchemeData returns after a 429, the limiter is blocked.
TooManyRequestsBlocks ==
  [][\A c \in Callers :
       flight[c] = "429" /\ flight'[c] = "none" /\ phase' = "up"
         => now < blockedUntil']_allVars
=============================================================================
