---------------------------- MODULE TtsConnection ----------------------------
(***************************************************************************)
(* The WebSockets of one user on one document (yapit/gateway/api/v1/ws.py): *)
(* the message loop, the rate limit in front of synthesis, and the listener *)
(* that carries block statuses from Redis pub/sub.                          *)
(*                                                                         *)
(* What the handler does with the blocks it accepts is in TTSPipeline; here *)
(* they are one block in synthesis, whose status is published once.        *)
(***************************************************************************)
EXTENDS Integers, FiniteSets

CONSTANTS
    Conns,        \* open connections (tabs)
    Batches,      \* numbers of blocks a request may ask for
    RateLimit,    \* MAX_TTS_BLOCKS_PER_MINUTE
    RateWindow,   \* the 60 s of the window, in ticks
    MaxBreaks     \* bound on Redis faults and gateway deaths

ASSUME TtsConnectionAssumption ==
    /\ Batches \subseteq Nat
    /\ RateLimit \in Nat /\ RateWindow \in Nat \ {0} /\ MaxBreaks \in Nat

NoKey == -1                        \* the counter does not exist
NoTtl == -1
\* Bound on the counter: one batch more than the limit is as good as any number
CountCap == RateLimit + 1

VARIABLES
    count,        \* ratelimit:tts:{user}, or NoKey
    ttl,          \* its time to live, or NoTtl
    granted,      \* history: blocks let through since the key came
    cpc,          \* [Conns -> where the message loop of the connection is]
    asks,         \* [Conns -> blocks of the message in hand]
    subscribed, listening, \* [Conns -> BOOLEAN]: subscribed_docs, the Redis link
    waits,        \* [Conns -> a block of it is in synthesis]
    synthesis,    \* a block is in synthesis
    deaf,         \* history: its link was down when the status was published
    breaks,
    unlimited     \* history: an EXPIRE was never sent

connVars == <<count, ttl, granted, cpc, asks, subscribed, listening, waits, synthesis,
              deaf, breaks, unlimited>>
rateVars == <<count, ttl, granted>>
linkVars == <<subscribed, listening, waits, synthesis, deaf>>

ConnInit ==
    /\ count = NoKey /\ ttl = NoTtl /\ granted = 0 /\ synthesis = FALSE
    /\ cpc = [c \in Conns |-> "receive"]
    /\ asks = [c \in Conns |-> 0]
    /\ subscribed = [c \in Conns |-> FALSE]
    /\ listening = [c \in Conns |-> FALSE]
    /\ waits = [c \in Conns |-> FALSE]
    /\ deaf = [c \in Conns |-> FALSE]
    /\ breaks = 0 /\ unlimited = FALSE

Goto(c, pc) == cpc' = [cpc EXCEPT ![c] = pc]

\* tts_websocket: one message at a time
Receive(c, n) ==
    /\ cpc[c] = "receive"
    /\ asks' = [asks EXCEPT ![c] = n]
    /\ Goto(c, "subscribe")
    /\ UNCHANGED <<rateVars, linkVars, breaks, unlimited>>

\* ensure_doc_subscribed; the listener starts with the first subscription
Subscribe(c) ==
    /\ cpc[c] = "subscribe"
    /\ subscribed' = [subscribed EXCEPT ![c] = TRUE]
    /\ listening' = [listening EXCEPT ![c] = @ \/ ~subscribed[c]]
    /\ Goto(c, "limit")
    /\ UNCHANGED <<rateVars, asks, waits, synthesis, deaf, breaks, unlimited>>

Counted == IF count = NoKey THEN 0 ELSE count

LetThrough(c) == Counted + asks[c] <= RateLimit

\* Mutant of StartsWindow: every request starts the window again
StartsWindowAlways(c) == TRUE

\* count == len(block_indices): the request is the first of its window
StartsWindow(c) == Counted = 0

\* INCRBY, and what follows from its reply
Count(c) ==
    /\ cpc[c] = "limit"
    /\ count' = IF Counted + asks[c] > CountCap THEN CountCap ELSE Counted + asks[c]
    /\ granted' = granted + IF LetThrough(c) THEN asks[c] ELSE 0
    /\ Goto(c, IF StartsWindow(c) THEN IF LetThrough(c) THEN "expire" ELSE "expire, refuse"
               ELSE IF LetThrough(c) THEN "enqueue" ELSE "receive")
    /\ UNCHANGED <<ttl, asks, linkVars, breaks, unlimited>>

\* EXPIRE: nothing to do on a key that is not there
Expire(c) ==
    /\ cpc[c] \in {"expire", "expire, refuse"}
    /\ ttl' = IF count = NoKey THEN NoTtl ELSE RateWindow
    /\ Goto(c, IF cpc[c] = "expire" THEN "enqueue" ELSE "receive")
    /\ UNCHANGED <<count, granted, asks, linkVars, breaks, unlimited>>

\* A second of the window; at its end the key goes
Tick ==
    /\ ttl > 0
    /\ ttl' = IF ttl = 1 THEN NoTtl ELSE ttl - 1
    /\ IF ttl = 1 THEN count' = NoKey /\ granted' = 0 ELSE UNCHANGED <<count, granted>>
    /\ UNCHANGED <<cpc, asks, linkVars, breaks, unlimited>>

\* The rest of _handle_synthesize: blocks go into synthesis, or none of them does
\* (document, model, voice or index refused; all cached; no allowance)
Enqueue(c) ==
    /\ cpc[c] = "enqueue"
    /\ \/ /\ asks[c] > 0 /\ synthesis' = TRUE
          /\ waits' = [waits EXCEPT ![c] = TRUE]
          /\ deaf' = [deaf EXCEPT ![c] = FALSE]
       \/ UNCHANGED <<waits, synthesis, deaf>>
    /\ Goto(c, "receive")
    /\ UNCHANGED <<rateVars, asks, subscribed, listening, breaks, unlimited>>

\* The result consumer publishes; nobody keeps what no link takes
Publish ==
    /\ synthesis
    /\ synthesis' = FALSE
    /\ waits' = [c \in Conns |-> waits[c] /\ ~listening[c]]
    /\ deaf' = [c \in Conns |-> waits[c] /\ subscribed[c] /\ ~listening[c]]
    /\ UNCHANGED <<rateVars, cpc, asks, subscribed, listening, breaks, unlimited>>

-----------------------------------------------------------------------------
\* Redis fails under a handler: the message is answered with an error. A gateway
\* that dies leaves the same in Redis, and its connections come again.
HandlerFails(c) ==
    /\ breaks < MaxBreaks
    /\ cpc[c] # "receive"
    /\ breaks' = breaks + 1
    /\ unlimited' = (unlimited \/ cpc[c] \in {"expire", "expire, refuse"})
    /\ Goto(c, "receive")
    /\ UNCHANGED <<rateVars, asks, linkVars>>

LinkBreaks(c) ==
    /\ breaks < MaxBreaks
    /\ listening[c]
    /\ breaks' = breaks + 1
    /\ listening' = [listening EXCEPT ![c] = FALSE]
    /\ UNCHANGED <<rateVars, cpc, asks, subscribed, waits, synthesis, deaf, unlimited>>

\* _pubsub_listener sleeps its backoff; listen connects and subscribes again
LinkBack(c) ==
    /\ subscribed[c] /\ ~listening[c]
    /\ listening' = [listening EXCEPT ![c] = TRUE]
    /\ UNCHANGED <<rateVars, cpc, asks, subscribed, waits, synthesis, deaf, breaks, unlimited>>

\* finally: the listener is cancelled and the subscription closed; the tab that
\* comes back is a new connection
Disconnect(c) ==
    /\ cpc[c] = "receive" /\ subscribed[c]
    /\ subscribed' = [subscribed EXCEPT ![c] = FALSE]
    /\ listening' = [listening EXCEPT ![c] = FALSE]
    /\ waits' = [waits EXCEPT ![c] = FALSE]
    /\ deaf' = [deaf EXCEPT ![c] = FALSE]
    /\ UNCHANGED <<rateVars, cpc, asks, synthesis, breaks, unlimited>>

Handle(c) == Subscribe(c) \/ Count(c) \/ Expire(c) \/ Enqueue(c)

ConnNext ==
    \/ \E c \in Conns :
         \/ \E n \in Batches : Receive(c, n)
         \/ Handle(c) \/ HandlerFails(c) \/ LinkBreaks(c) \/ LinkBack(c) \/ Disconnect(c)
    \/ Tick \/ Publish

-----------------------------------------------------------------------------
\* ws: whatever the tabs of a user send at once, no more than RateLimit blocks are
\* let through in the life of one counter.
LimitHolds == granted <= RateLimit

\* ws: a user who was refused gets through again, however often the client tries
\* meanwhile, unless a handler ended between INCRBY and EXPIRE.
WindowEnds == (count > RateLimit) ~> (count = NoKey \/ unlimited)

\* ws: pub/sub keeps nothing, so a connection must listen before its block can be
\* done: a status is missed only while the link to Redis is down.
NothingMissed == \A c \in Conns : waits[c] /\ ~synthesis => deaf[c]

\* Tabs are neither let through beyond the limit nor locked out, and hear of what
\* they wait for.
ConnectionsServed == []LimitHolds /\ []NothingMissed /\ WindowEnds
=============================================================================
