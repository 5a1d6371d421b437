------------------------------ MODULE ApiCalls ------------------------------
(***************************************************************************)
(* Calls to things that fail: the bounded retries of one API call, in       *)
(* yapit/gateway/document/processors/gemini.py and openai_compat.py and in  *)
(* yapit/gateway/openai_tts_adapter.py, and the unbounded backoff of a      *)
(* background loop (yapit/gateway/backoff.py).  The openai and tts clients  *)
(* are AsyncOpenAI with its default retries: below the loop the SDK itself  *)
(* waits and repeats a request twice, which is modelled from the 2.29.0     *)
(* that uv.lock pins.  The gemini client repeats nothing by itself.         *)
(*                                                                         *)
(* Delays of the loops are in seconds, those of the SDK in half seconds,    *)
(* without their jitter.  The header x-should-retry, by which a server may  *)
(* overrule what the SDK makes of a status, is left out.                    *)
(***************************************************************************)
EXTENDS Integers

CONSTANTS
    ApiMaxRetries, ApiBaseDelay, ApiMaxDelay,  \* API_MAX_RETRIES, ... of backoff.py
    LoopBaseDelay, LoopMaxDelay,               \* a loop's own Backoff
    MaxFailures   \* bound on the failures in a row of a loop that are told apart

ASSUME ApiCallsAssumption ==
    /\ ApiMaxRetries \in Nat \ {0}
    /\ ApiBaseDelay \in Nat \ {0} /\ ApiMaxDelay >= ApiBaseDelay
    /\ LoopBaseDelay \in Nat \ {0} /\ LoopMaxDelay >= LoopBaseDelay

Clients == {"gemini", "openai", "tts"}

\* Status codes 429, 500/503/504, 408/409/502 and the like, any other; connection and
\* timeout; anything else
CallErrors == {"rate limit", "unavailable", "conflict", "refused", "network", "odd"}

SdkMaxRetries == 2       \* DEFAULT_MAX_RETRIES of the openai package
MaxRetryAfter == 120     \* the longest Retry-After it waits out, 60 s

VARIABLES
    client,       \* whose call it is
    attempt,      \* of its loop
    call,         \* "calling", "sleeping", "answered" or "raised"
    error,        \* last_error
    tries,        \* repetitions by the SDK in this iteration of the loop
    slept,        \* history: seconds the loop slept so far
    waited,       \* history: half seconds the SDK waited in this iteration
    requests,     \* history: requests of this call so far
    loopAttempt,  \* Backoff.attempt
    failures,     \* history: the loop's failures since it last succeeded
    loopDelay     \* history: its last sleep

callVars == <<client, attempt, call, error, tries, slept, waited, requests, loopAttempt,
              failures, loopDelay>>
oneCall == <<client, attempt, call, error, tries, slept, waited, requests>>
loopState == <<loopAttempt, failures, loopDelay>>

CallInit ==
    /\ client = "gemini" /\ attempt = 0 /\ call = "answered" /\ error = "none"
    /\ tries = 0 /\ slept = 0 /\ waited = 0 /\ requests = 0
    /\ loopAttempt = 0 /\ failures = 0 /\ loopDelay = 0

delay_for(n, base, max) == IF base * 2 ^ n > max THEN max ELSE base * 2 ^ n

StartCall(c) ==
    /\ call \in {"answered", "raised"}
    /\ client' = c
    /\ call' = "calling" /\ attempt' = 0 /\ error' = "none" /\ slept' = 0
    /\ tries' = 0 /\ waited' = 0 /\ requests' = 1
    /\ UNCHANGED loopState

Answered ==
    /\ call = "calling"
    /\ call' = "answered"
    /\ UNCHANGED <<client, attempt, error, tries, slept, waited, requests, loopState>>

\* AsyncOpenAI: 408, 409, 429, 5xx, a timeout and a broken connection
SdkRetried(e) == client # "gemini" /\ e \notin {"refused", "odd"}

\* A request fails and the SDK repeats it, after its own backoff or the server's
\* Retry-After; the loop does not hear of it
SdkRepeats(e) ==
    /\ call = "calling" /\ SdkRetried(e) /\ tries < SdkMaxRetries
    /\ tries' = tries + 1
    /\ requests' = requests + 1
    /\ \/ waited' = waited + delay_for(tries, 1, 16)
       \/ e # "network" /\ waited' = waited + MaxRetryAfter
    /\ UNCHANGED <<client, attempt, call, error, slept, loopState>>


\* The extractors retry any exception that is not a status of the server; the
\* TTS adapter only those of the connection
Retried(c, e) == e \in {"rate limit", "unavailable", "network"} \/ (e = "odd" /\ c # "tts")

SleepsAfter(n) == n < ApiMaxRetries - 1

\* One iteration of _call_with_retry that fails
CallFailed(e) ==
    /\ call = "calling"
    /\ SdkRetried(e) => tries = SdkMaxRetries
    /\ error' = e
    /\ IF Retried(client, e)
       THEN call' = "sleeping"
            /\ slept' = slept + IF SleepsAfter(attempt)
                                THEN delay_for(attempt, ApiBaseDelay, ApiMaxDelay) ELSE 0
       ELSE call' = "raised" /\ UNCHANGED slept
    /\ UNCHANGED <<client, attempt, tries, waited, requests, loopState>>

\* After the sleep the next attempt; after the last one, the last error
NextAttempt ==
    /\ call = "sleeping"
    /\ IF attempt = ApiMaxRetries - 1
       THEN call' = "raised" /\ UNCHANGED <<attempt, tries, waited, requests>>
       ELSE /\ call' = "calling" /\ attempt' = attempt + 1
            /\ requests' = requests + 1 /\ tries' = 0 /\ waited' = 0
    /\ UNCHANGED <<client, error, slept, loopState>>

-----------------------------------------------------------------------------
\* Backoff.reset
LoopSucceeds ==
    /\ failures > 0
    /\ loopAttempt' = 0
    /\ failures' = 0
    /\ UNCHANGED <<loopDelay, oneCall>>

\* Backoff.sleep
LoopFails ==
    /\ failures < MaxFailures
    /\ loopDelay' = delay_for(loopAttempt, LoopBaseDelay, LoopMaxDelay)
    /\ loopAttempt' = loopAttempt + 1
    /\ failures' = failures + 1
    /\ UNCHANGED oneCall

CallNext ==
    \/ \E c \in Clients : StartCall(c)
    \/ Answered \/ NextAttempt \/ LoopSucceeds \/ LoopFails
    \/ \E e \in CallErrors : SdkRepeats(e) \/ CallFailed(e)

-----------------------------------------------------------------------------
=============================================================================
