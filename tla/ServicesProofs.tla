--------------------------- MODULE ServicesProofs ---------------------------
(***************************************************************************)
(* Safety of the parts of Services for any loops, events, connections,     *)
(* voices and bounds. A step of the whole is a step of one part, or leaves *)
(* that part alone, so each part has an inductive invariant of its own.    *)
(***************************************************************************)
EXTENDS Services, FiniteSetTheorems, TLAPS

-----------------------------------------------------------------------------
(* GatewayProcess: whatever was logged is in the table, in the writer's     *)
(* hands or among the drops, at every moment of the process's life.         *)

EventRecords ==
    {Heartbeat} \cup {Died(l) : l \in Loops} \cup {Logged(e) : e \in Events}
        \cup [kind : {"warning"}, recovery : Nat]

ProcessTypeOK ==
    /\ phase \in {"serving", "cancelling", "last write", "flush", "stopped", "aborted"}
    /\ unsent \in Seq(EventRecords) /\ pending \in Seq(EventRecords)
    /\ dropped \in Nat /\ told \in Nat /\ recoveries \in Nat
    /\ IsFiniteSet(logged)

\* The events that are in the table, or where a later step will write them from
Held == table \cup
    CASE phase \in {"serving", "cancelling", "last write"} -> SeqItems(pending) \cup SeqItems(unsent)
      [] phase = "flush" -> SeqItems(unsent)
      [] phase \in {"stopped", "aborted"} -> {}

Missed == logged \ Held

MissedAreCounted == stopFault \/ Cardinality(Missed) <= dropped + told

\* A write of the shutdown is all that sets stopFault
FaultAtStop == phase \in {"serving", "cancelling", "last write"} => ~stopFault

ProcessInv == ProcessTypeOK /\ MissedAreCounted /\ FaultAtStop

-----------------------------------------------------------------------------
(* StripeSetup: while nobody edits, the steps behind the run hold.          *)

Version == [fixed : 1 .. 2, currency : 1 .. 2, text : 1 .. 3, active : BOOLEAN]

SetupTypeOK ==
    /\ config \in [Resources -> Version]
    /\ account \in [Resources -> Version \cup {Missing}]
    /\ step \in 0 .. 10

\* The validations so far saw what there was to see
Validated ==
    ~touched =>
        /\ step \in 1 .. 3 => (drifted <=> \E r \in Immutable : Drifted(r))
        /\ step \in {2, 3} /\ validate_prices => driftSeen
        /\ step = 3 /\ validate_coupons => driftSeen
        /\ step > 3 => ~drifted
        /\ step > 3 \/ done => \A r \in Immutable : ~Drifted(r)

\* What the step of phase 2 for r leaves behind
Agrees(r) ==
    /\ account[r] # Missing
    /\ r \in {"product", "coupon", "webhook"} => account[r].text = config[r].text
    /\ r \in Prices \cup {"product", "promo"} => account[r].active = config[r].active

AppliedSoFar ==
    ~touched =>
        /\ step > 4 \/ done => Agrees("product")
        /\ step > 5 \/ done => Agrees("monthly")
        /\ step > 6 \/ done => Agrees("yearly")
        /\ step > 7 \/ done => Agrees("coupon")
        /\ step > 8 \/ done => Agrees("promo")
        /\ step > 9 \/ done => portal = <<Offered>>
        /\ done /\ live => Agrees("webhook")

SetupInv == SetupTypeOK /\ Validated /\ AppliedSoFar /\ (done => step = 0)

-----------------------------------------------------------------------------
(* Seeding: the states a start may be broken off in.                        *)

SeedTypeOK ==
    /\ version \in {"none", "parent", "head"} /\ tables \in {"none", "legacy", "current"}
    /\ kokoro \in BOOLEAN
    /\ plans \in [Tiers -> {"none", "seeded", "migrated", "edited"}]
    /\ server_model \in {"none", "active", "inactive"}
    /\ voices \in [ServerVoices -> {"none", "active", "inactive"}]
    /\ settings \in [db_drop_and_recreate : BOOLEAN, base_url : BOOLEAN, voices : SUBSET ServerVoices]
    /\ server \subseteq ServerVoices
    /\ start \in {"stopped", "recreate", "stamp", "upgrade", "seed", "sync", "activate", "serving"}
    /\ withdrawn \subseteq ServerVoices /\ edited \subseteq Tiers /\ asked \subseteq ServerVoices

\* The schema is that of the code once its migrations ran
SchemaCurrent ==
    version = "head" \/ start \in {"seed", "sync", "activate", "serving"} => tables = "current"

\* The rows a commit of seed_database leaves, which no later step takes away
Seeded ==
    /\ server_model # "none" => kokoro
    /\ start \in {"sync", "activate", "serving"} => kokoro /\ \A t \in Tiers : plans[t] # "none"

\* A row is inactive because its voice was withdrawn; the last sync decides the rest
VoicesFollow ==
    /\ \A v \in ServerVoices : voices[v] = "inactive" => v \in withdrawn
    /\ start \in {"activate", "serving"} /\ asked # {} =>
           /\ settings.base_url /\ server_model # "none"
           /\ \A v \in ServerVoices :
                  /\ voices[v] = "active" => v \in asked
                  /\ v \in asked => voices[v] # "none"
    /\ start = "serving" => (server_model = "active" => settings.base_url)
                            /\ (asked # {} => server_model = "active")

SeedInv == SeedTypeOK /\ SchemaCurrent /\ Seeded /\ VoicesFollow /\ PlansKept

-----------------------------------------------------------------------------
(* TtsConnection: the counter covers what it let through, and a connection  *)
(* subscribes before it asks.                                               *)

ConnTypeOK ==
    /\ count \in {NoKey} \cup Nat /\ ttl \in {NoTtl} \cup Nat /\ granted \in Nat
    /\ cpc \in [Conns -> {"receive", "subscribe", "limit", "expire", "expire, refuse", "enqueue"}]
    /\ asks \in [Conns -> Nat]
    /\ subscribed \in [Conns -> BOOLEAN] /\ listening \in [Conns -> BOOLEAN]
    /\ waits \in [Conns -> BOOLEAN] /\ deaf \in [Conns -> BOOLEAN]
    /\ synthesis \in BOOLEAN

GrantsCounted == granted <= Counted /\ LimitHolds

SubscribedFirst ==
    \A c \in Conns :
        waits[c] \/ cpc[c] \in {"limit", "expire", "expire, refuse", "enqueue"} => subscribed[c]

ConnInv == ConnTypeOK /\ GrantsCounted /\ SubscribedFirst /\ NothingMissed

-----------------------------------------------------------------------------
\* Authentication: the verdicts are those of the request
AuthInv ==
    /\ request \in Requests
    /\ verdicts \in {<<>>, <<authenticate, authenticate_optional, authenticate_ws>>}

ServicesKept == ProcessInv /\ SetupInv /\ SeedInv /\ ConnInv /\ AuthInv

LEMMA StepOfPart ==
    ASSUME [ServicesNext]_servicesVars
    PROVE  /\ [ProcessNext]_processVars /\ [SetupNext]_setupVars /\ [SeedNext]_seedVars
           /\ [ConnNext]_connVars /\ [AuthNext]_authVars
BY DEF ServicesNext, servicesVars, Yolo, Process, Connection, Setup, Seed, Calls, Auth

-----------------------------------------------------------------------------
(* Authentication                                                           *)

LEMMA AuthStep == AuthInv /\ [AuthNext]_authVars => AuthInv'
<1> SUFFICES ASSUME AuthInv, [AuthNext]_authVars
             PROVE  AuthInv'
    OBVIOUS
<1>1. request' = request
      BY DEF AuthNext, Authenticate, authVars
<1>2. /\ authenticate' = authenticate /\ authenticate_optional' = authenticate_optional
      /\ authenticate_ws' = authenticate_ws
      BY <1>1 DEF authenticate, authenticate_optional, authenticate_ws, TokenVerdict, get_me,
          stack_auth_request, Guest, verify_anonymous_token
<1>3. verdicts' = verdicts \/ verdicts' = <<authenticate, authenticate_optional, authenticate_ws>>
      BY DEF AuthNext, Authenticate, authVars
<1>4. QED
      BY <1>1, <1>2, <1>3 DEF AuthInv

\* What the entry points make of one request, for every request
LEMMA VerdictsAgree ==
    ASSUME request \in Requests
    PROVE  /\ request.service \notin {"broken", "reset"} =>
                  /\ authenticate_ws = authenticate
                  /\ authenticate_optional = authenticate
                     \/ (authenticate_optional = "no user" /\ request.token = "none" /\ request.guest = "none")
           /\ Asked /\ request.service = "unreachable" =>
                  \A v \in {authenticate, authenticate_optional, authenticate_ws} : v = "try later"
           /\ Asked /\ request.service \in {"broken", "reset"} =>
                  authenticate = "failed" /\ authenticate_optional = "failed"
           /\ \A v \in {authenticate, authenticate_optional, authenticate_ws} : Earned(v)
           /\ authenticate # "no user" /\ authenticate_ws # "no user"
<1>1. /\ request.token \in {"none", "valid", "expired"} /\ request.guest \in {"none", "signed", "forged"}
      /\ request.service \in StackAuthStates /\ request.auth_enabled \in BOOLEAN
      BY DEF Requests
<1> USE DEF StackAuthStates, Asked, Earned
<1>2. CASE ~request.auth_enabled
      BY <1>1, <1>2 DEF authenticate, authenticate_optional, authenticate_ws
<1>3. CASE request.auth_enabled /\ request.token # "none"
      BY <1>1, <1>3 DEF authenticate, authenticate_optional, authenticate_ws, TokenVerdict, get_me,
          stack_auth_request
<1>4. CASE request.auth_enabled /\ request.token = "none"
      BY <1>1, <1>4 DEF authenticate, authenticate_optional, authenticate_ws, Guest,
          verify_anonymous_token
<1>5. QED
      BY <1>1, <1>2, <1>3, <1>4

\* Whatever credentials a request carries and however Stack Auth or the network fails
\* (auth.py, stack_auth/users.py): no entry takes it for somebody it is not; the entries
\* agree on it unless Stack Auth answers with an error or breaks the connection off; over
\* HTTP no failure reads as a bad token, on the WebSocket no timeout or refused connection.
THEOREM CredentialsReadAlike == ServicesSpec => []EntriesAgree
<1>1. ServicesInit => AuthInv
      BY DEF ServicesInit, AuthInit, AuthInv
<1>2. AuthInv /\ [ServicesNext]_servicesVars => AuthInv'
      BY StepOfPart, AuthStep
<1>3. AuthInv => EntriesAgree
  <2> SUFFICES ASSUME AuthInv
               PROVE  EntriesAgree
      OBVIOUS
  <2>1. CASE verdicts = <<>>
        BY <2>1 DEF EntriesAgree, SidesAgree, OutageIsNoRefusal, NobodyElse
  <2>2. CASE verdicts # <<>>
    <3>1. /\ verdicts[1] = authenticate /\ verdicts[2] = authenticate_optional
          /\ verdicts[3] = authenticate_ws /\ request \in Requests
          BY <2>2 DEF AuthInv
    <3>2. SidesAgree
          BY <3>1, VerdictsAgree DEF SidesAgree
    <3>3. OutageIsNoRefusal
          BY <3>1, VerdictsAgree DEF OutageIsNoRefusal, Outages
    <3>4. NobodyElse
      <4>1. Earned(verdicts[1]) /\ Earned(verdicts[2]) /\ Earned(verdicts[3])
            BY <3>1, VerdictsAgree
      <4>2. \A i \in 1 .. 3 : Earned(verdicts[i])
            BY <4>1
      <4>3. QED
            BY <3>1, <4>2, VerdictsAgree DEF NobodyElse
    <3>5. QED
          BY <3>2, <3>3, <3>4 DEF EntriesAgree
  <2>3. QED
        BY <2>1, <2>2
<1>4. QED
      BY <1>1, <1>2, <1>3, PTL DEF ServicesSpec

-----------------------------------------------------------------------------
(* Seeding                                                                  *)

LEMMA SeedStep == SeedInv /\ [SeedNext]_seedVars => SeedInv'
<1> SUFFICES ASSUME SeedInv, [SeedNext]_seedVars
             PROVE  SeedInv'
    OBVIOUS
<1> USE DEF SeedInv, SeedTypeOK, SchemaCurrent, Seeded, VoicesFollow, PlansKept, schemaVars,
        catalogVars, outsideVars
<1>1. CASE Begin
      BY <1>1 DEF Begin
<1>2. CASE Recreate
      BY <1>2 DEF Recreate
<1>3. CASE Stamp
      BY <1>3 DEF Stamp, StampedAt
<1>4. CASE Upgrade
      BY <1>4 DEF Upgrade
<1>5. CASE SeedModelsAndPlans
      BY <1>5 DEF SeedModelsAndPlans, WithPlans
<1>6. CASE SyncVoices
      BY <1>6 DEF SyncVoices, VoiceNames, Stale
<1>7. CASE ActivateModels
      BY <1>7 DEF ActivateModels
<1>8. CASE Stop
      BY <1>8 DEF Stop
<1>9. CASE ChangeSettings
      BY <1>9 DEF ChangeSettings, FromOutside
<1>10. ASSUME NEW t \in Tiers, EditPlan(t)
       PROVE  SeedInv'
      BY <1>10 DEF EditPlan, FromOutside
<1>11. CASE UNCHANGED seedVars
      BY <1>11 DEF seedVars
<1>12. QED
      BY <1>1, <1>2, <1>3, <1>4, <1>5, <1>6, <1>7, <1>8, <1>9, <1>10, <1>11 DEF SeedNext

\* However often a start breaks off, and whatever the settings, the server's voices and
\* the plan rows become in between (db.py, seed.py): a gateway that serves has its
\* schema, Kokoro and a row per plan, offers the server's voices and no others, and
\* leaves an operator's plan rows alone.
THEOREM StartsAlwaysConverge == ServicesSpec => []StartsConverge
<1>1. ServicesInit => SeedInv
  <2> SUFFICES ASSUME SeedInit
               PROVE  SeedInv
      BY DEF ServicesInit
  <2>1. SeedTypeOK
    <3>1. version \in {"none", "head"} /\ plans \in [Tiers -> {"none", "migrated"}]
          BY DEF SeedInit
    <3>2. QED
          BY <3>1 DEF SeedInit, SeedTypeOK
  <2>2. SchemaCurrent /\ Seeded
        BY DEF SeedInit, SchemaCurrent, Seeded
  <2>3. VoicesFollow /\ PlansKept
        BY DEF SeedInit, VoicesFollow, PlansKept
  <2>4. QED
        BY <2>1, <2>2, <2>3 DEF SeedInv
<1>2. SeedInv /\ [ServicesNext]_servicesVars => SeedInv'
      BY StepOfPart, SeedStep
<1>3. SeedInv => StartsConverge
      BY DEF SeedInv, SeedTypeOK, SchemaCurrent, Seeded, VoicesFollow, StartsConverge, ServesOnHead,
          OffersServerVoices, Selectable, PlansKept
<1>4. QED
      BY <1>1, <1>2, <1>3, PTL DEF ServicesSpec

-----------------------------------------------------------------------------
(* TtsConnection                                                            *)

LEMMA ConnStep == ConnInv /\ [ConnNext]_connVars => ConnInv'
<1> SUFFICES ASSUME ConnInv, [ConnNext]_connVars
             PROVE  ConnInv'
    OBVIOUS
<1> USE TtsConnectionAssumption
        DEF ConnInv, ConnTypeOK, GrantsCounted, SubscribedFirst, NothingMissed, LimitHolds, Goto,
            rateVars, linkVars
<1>1. ASSUME NEW c \in Conns, NEW n \in Batches, Receive(c, n)
      PROVE  ConnInv'
      BY <1>1 DEF Receive, Counted
<1>2. ASSUME NEW c \in Conns, Subscribe(c)
      PROVE  ConnInv'
      BY <1>2 DEF Subscribe, Counted
<1>3. ASSUME NEW c \in Conns, Count(c)
      PROVE  ConnInv'
  <2>1. /\ Counted \in Nat /\ asks[c] \in Nat /\ CountCap = RateLimit + 1
        /\ granted \in Nat /\ granted <= Counted /\ granted <= RateLimit
        BY DEF Counted, CountCap
  <2>2. /\ count' = IF Counted + asks[c] > CountCap THEN CountCap ELSE Counted + asks[c]
        /\ granted' = granted + IF LetThrough(c) THEN asks[c] ELSE 0
        BY <1>3 DEF Count
  <2>3. count' \in Nat /\ Counted' = count'
    <3> HIDE DEF ConnInv
    <3>1. count' \in Nat
          BY <2>1, <2>2
    <3>2. QED
          BY <3>1 DEF Counted, NoKey
  <2>4. GrantsCounted' /\ granted' \in Nat
    <3> HIDE DEF ConnInv
    <3>1. LetThrough(c) => granted' = granted + asks[c] /\ Counted + asks[c] <= RateLimit
          BY <2>2 DEF LetThrough
    <3>2. ~LetThrough(c) => granted' = granted
          BY <2>1, <2>2
    <3>3. granted' \in Nat /\ granted' <= count' /\ granted' <= RateLimit
          BY <2>1, <2>2, <3>1, <3>2
    <3>4. QED
          BY <2>3, <3>3
  <2>5. /\ cpc[c] = "limit" /\ UNCHANGED <<ttl, asks, subscribed, listening, waits, synthesis, deaf>>
        /\ \E pc \in {"expire", "expire, refuse", "enqueue", "receive"} : cpc' = [cpc EXCEPT ![c] = pc]
        BY <1>3 DEF Count
  <2>6. QED
        BY <2>3, <2>4, <2>5
<1>4. ASSUME NEW c \in Conns, Expire(c)
      PROVE  ConnInv'
      BY <1>4 DEF Expire, Counted
<1>5. ASSUME NEW c \in Conns, Enqueue(c)
      PROVE  ConnInv'
      BY <1>5 DEF Enqueue, Counted
<1>6. ASSUME NEW c \in Conns, HandlerFails(c)
      PROVE  ConnInv'
      BY <1>6 DEF HandlerFails, Counted
<1>7. ASSUME NEW c \in Conns, LinkBreaks(c) \/ LinkBack(c)
      PROVE  ConnInv'
      BY <1>7 DEF LinkBreaks, LinkBack, Counted
<1>8. ASSUME NEW c \in Conns, Disconnect(c)
      PROVE  ConnInv'
      BY <1>8 DEF Disconnect, Counted
<1>9. CASE Tick
  <2>1. /\ ttl' \in {NoTtl} \cup Nat
        /\ (count' = NoKey /\ granted' = 0) \/ UNCHANGED <<count, granted>>
        /\ UNCHANGED <<cpc, asks, subscribed, listening, waits, synthesis, deaf>>
    <3>1. ttl \in {NoTtl} \cup Nat
          OBVIOUS
    <3> HIDE DEF ConnInv
    <3>2. ttl > 0 /\ ttl' = IF ttl = 1 THEN NoTtl ELSE ttl - 1
          BY <1>9 DEF Tick
    <3>3. ttl' \in {NoTtl} \cup Nat
          BY <3>1, <3>2 DEF NoTtl
    <3>4. QED
          BY <1>9, <3>3 DEF Tick
  <2>2. count' \in {NoKey} \cup Nat /\ granted' \in Nat /\ GrantsCounted'
    <3>1. CASE count' = NoKey /\ granted' = 0
      <4>1. Counted' = 0
            BY <3>1 DEF Counted
      <4> HIDE DEF ConnInv
      <4>2. QED
            BY <3>1, <4>1
    <3>2. CASE UNCHANGED <<count, granted>>
          BY <3>2 DEF Counted
    <3>3. QED
          BY <2>1, <3>1, <3>2
  <2>3. QED
        BY <2>1, <2>2
<1>10. CASE Publish
      BY <1>10 DEF Publish, Counted
<1>11. CASE UNCHANGED connVars
      BY <1>11 DEF connVars, Counted
<1>12. QED
      BY <1>1, <1>2, <1>3, <1>4, <1>5, <1>6, <1>7, <1>8, <1>9, <1>10, <1>11 DEF ConnNext, Handle

\* However many tabs a user has and whatever they send at once (ws.py): no more than
\* RateLimit blocks pass in the life of one counter, and a status is missed only by a
\* tab whose link to Redis was down.
THEOREM LimitHoldsForAllTabs == ServicesSpec => [](LimitHolds /\ NothingMissed)
<1>1. ServicesInit => ConnInv
  <2> SUFFICES ASSUME ConnInit
               PROVE  ConnInv
      BY DEF ServicesInit
  <2>1. ConnTypeOK
        BY DEF ConnInit, ConnTypeOK
  <2>2. GrantsCounted
        BY TtsConnectionAssumption DEF ConnInit, GrantsCounted, LimitHolds, Counted
  <2>3. SubscribedFirst /\ NothingMissed
        BY DEF ConnInit, SubscribedFirst, NothingMissed
  <2>4. QED
        BY <2>1, <2>2, <2>3 DEF ConnInv
<1>2. ConnInv /\ [ServicesNext]_servicesVars => ConnInv'
      BY StepOfPart, ConnStep
<1>3. ConnInv => LimitHolds /\ NothingMissed
      BY DEF ConnInv, GrantsCounted
<1>4. QED
      BY <1>1, <1>2, <1>3, PTL DEF ServicesSpec

-----------------------------------------------------------------------------
(* StripeSetup                                                              *)

\* A resource is created as configured, or brought to agree in what can change
LEMMA UpsertedAgrees ==
    ASSUME SetupTypeOK, NEW r \in Resources
    PROVE  /\ Upserted(r) \in Version
           /\ r \in {"product", "coupon", "webhook"} => Upserted(r).text = config[r].text
           /\ r \in Prices \cup {"product", "promo"} => Upserted(r).active = config[r].active
           /\ Upserted(r).fixed = (IF account[r] = Missing THEN config[r] ELSE account[r]).fixed
<1> USE DEF Version, Prices
<1>1. /\ config[r] \in Version
      /\ account[r] # Missing => account[r] \in Version
      BY DEF SetupTypeOK
<1>2. CASE account[r] = Missing
      BY <1>1, <1>2 DEF Upserted
<1>3. ASSUME account[r] # Missing, r = "product"
      PROVE  /\ Upserted(r) \in Version /\ Upserted(r).text = config[r].text
             /\ Upserted(r).active = config[r].active /\ Upserted(r).fixed = account[r].fixed
      BY <1>1, <1>3 DEF Upserted, upsert_product
<1>4. ASSUME account[r] # Missing, r \in Prices
      PROVE  /\ Upserted(r) \in Version
             /\ Upserted(r).active = config[r].active /\ Upserted(r).fixed = account[r].fixed
  <2>1. Upserted(r) = upsert_price(r)
        BY <1>4 DEF Upserted
  <2>2. QED
        BY <1>1, <1>4, <2>1 DEF upsert_price
<1>5. ASSUME account[r] # Missing, r = "coupon"
      PROVE  /\ Upserted(r) \in Version
             /\ Upserted(r).text = config[r].text /\ Upserted(r).fixed = account[r].fixed
      BY <1>1, <1>5 DEF Upserted, upsert_coupon
<1>6. ASSUME account[r] # Missing, r = "promo"
      PROVE  /\ Upserted(r) \in Version
             /\ Upserted(r).active = config[r].active /\ Upserted(r).fixed = account[r].fixed
      BY <1>1, <1>6 DEF Upserted, upsert_promo_code
<1>7. ASSUME account[r] # Missing, r = "webhook"
      PROVE  /\ Upserted(r) \in Version
             /\ Upserted(r).text = config[r].text /\ Upserted(r).fixed = account[r].fixed
      BY <1>1, <1>7 DEF Upserted, upsert_webhook
<1>8. QED
      BY <1>2, <1>3, <1>4, <1>5, <1>6, <1>7 DEF Resources

LEMMA PlanIs ==
    /\ Plan[1] = "check prices" /\ Plan[2] = "check coupons" /\ Plan[3] = "check promos"
    /\ Plan[4] = "product" /\ Plan[5] = "monthly" /\ Plan[6] = "yearly" /\ Plan[7] = "coupon"
    /\ Plan[8] = "promo" /\ Plan[9] = "portal" /\ Plan[10] = "webhook" /\ Len(Plan) = 10
BY DEF Plan

\* Phase 2 writes the resource of its step, and nothing else
LEMMA WriteApplies ==
    ASSUME SetupTypeOK, step \in 4 .. 10, Write
    PROVE  /\ account' \in [Resources -> Version \cup {Missing}]
           /\ \A r \in Resources : account'[r] = account[r] \/ (r = Plan[step] /\ account'[r] = Upserted(r))
           /\ Plan[step] # "portal" /\ (Plan[step] # "webhook" \/ live) =>
                  account'[Plan[step]] = Upserted(Plan[step])
           /\ IF Plan[step] = "portal" THEN portal' = <<Offered>> ELSE portal' = portal
<1>1. CASE Plan[step] = "portal"
      BY <1>1 DEF Write, upsert_portal_config, SetupTypeOK
<1>2. CASE Plan[step] # "portal"
  <2>1. portal' = portal /\ account \in [Resources -> Version \cup {Missing}]
        BY <1>2 DEF Write, SetupTypeOK
  <2>2. Plan[step] \in Resources
    <3>1. step # 9
          BY <1>2, PlanIs
    <3>2. step = 4 \/ step = 5 \/ step = 6 \/ step = 7 \/ step = 8 \/ step = 10
          BY <3>1
    <3>3. QED
          BY <3>2, PlanIs DEF Resources, Prices
  <2>3. CASE Plan[step] = "webhook" /\ ~live
        BY <1>2, <2>1, <2>3 DEF Write
  <2>4. CASE ~(Plan[step] = "webhook" /\ ~live)
    <3>1. account' = [account EXCEPT ![Plan[step]] = Upserted(Plan[step])]
          BY <1>2, <2>4 DEF Write
    <3>2. Upserted(Plan[step]) \in Version
          BY <2>2, UpsertedAgrees
    <3>3. QED
          BY <1>2, <2>1, <2>2, <2>4, <3>1, <3>2
  <2>5. QED
        BY <2>3, <2>4
<1>3. QED
      BY <1>1, <1>2

\* The next check of phase 1, which goes on to phase 2 only from a clean third
LEMMA ValidateMoves ==
    ASSUME Validate
    PROVE  /\ step \in 1 .. 3
           /\ UNCHANGED <<config, account, portal, live, drifted, touched, done>>
           /\ step = 1 => step' = 2 /\ (driftSeen' <=> driftSeen \/ validate_prices)
           /\ step = 2 => step' = 3 /\ (driftSeen' <=> driftSeen \/ validate_coupons)
           /\ step = 3 => /\ driftSeen' <=> driftSeen \/ validate_promo_codes
                          /\ step' = IF driftSeen' THEN 0 ELSE 4
<1>1. step \in 1 .. 3 /\ UNCHANGED <<config, account, portal, live, drifted, touched, done>>
      BY DEF Validate
<1>2. step' = IF step = 3 /\ driftSeen' THEN 0 ELSE step + 1
      BY DEF Validate
<1>3. step = 1 => (driftSeen' <=> driftSeen \/ validate_prices)
      BY PlanIs DEF Validate
<1>4. step = 2 => (driftSeen' <=> driftSeen \/ validate_coupons)
      BY PlanIs DEF Validate
<1>5. step = 3 => (driftSeen' <=> driftSeen \/ validate_promo_codes)
      BY PlanIs DEF Validate
<1>6. /\ step = 1 => step' = 2
      /\ step = 2 => step' = 3
      /\ step = 3 => step' = IF driftSeen' THEN 0 ELSE 4
      BY <1>1, <1>2
<1>7. QED
      BY <1>1, <1>3, <1>4, <1>5, <1>6

LEMMA SetupTypeStep == SetupTypeOK /\ [SetupNext]_setupVars => SetupTypeOK'
<1> SUFFICES ASSUME SetupTypeOK, [SetupNext]_setupVars
             PROVE  SetupTypeOK'
    OBVIOUS
<1> USE DEF SetupTypeOK
<1>1. CASE StartRun
      BY <1>1 DEF StartRun
<1>2. CASE Validate
      BY <1>2, ValidateMoves
<1>3. CASE Apply \/ CallFails
  <2>1. account' \in [Resources -> Version \cup {Missing}]
        BY <1>3, WriteApplies DEF Apply, CallFails
  <2>2. step' \in 0 .. 10 /\ config' = config
    <3>1. step' = 0 \/ (step' = step + 1 /\ step # 10)
          BY <1>3, PlanIs DEF Apply, CallFails
    <3>2. config' = config
          BY <1>3 DEF Apply, CallFails
    <3>3. QED
          BY <3>1, <3>2
  <2>3. QED
        BY <2>1, <2>2
<1>4. ASSUME NEW r \in Resources, EditConfig(r)
      PROVE  SetupTypeOK'
  <2>1. config[r] \in Version /\ UNCHANGED <<account, step>>
        BY <1>4 DEF EditConfig
  <2>2. PICK v \in Version : config' = [config EXCEPT ![r] = v]
    <3>1. CASE config' = [config EXCEPT ![r].fixed = 2]
      <4>1. [config[r] EXCEPT !.fixed = 2] \in Version
            BY <2>1 DEF Version
      <4>2. config' = [config EXCEPT ![r] = [config[r] EXCEPT !.fixed = 2]]
            BY <3>1
      <4>3. QED
            BY <4>1, <4>2
    <3>2. CASE config' = [config EXCEPT ![r].currency = 2]
      <4>1. [config[r] EXCEPT !.currency = 2] \in Version
            BY <2>1 DEF Version
      <4>2. config' = [config EXCEPT ![r] = [config[r] EXCEPT !.currency = 2]]
            BY <3>2
      <4>3. QED
            BY <4>1, <4>2
    <3>3. CASE config' = [config EXCEPT ![r].text = 2]
      <4>1. [config[r] EXCEPT !.text = 2] \in Version
            BY <2>1 DEF Version
      <4>2. config' = [config EXCEPT ![r] = [config[r] EXCEPT !.text = 2]]
            BY <3>3
      <4>3. QED
            BY <4>1, <4>2
    <3>4. CASE config' = [config EXCEPT ![r].active = ~@]
          BY <2>1, <3>4 DEF Version
    <3>5. QED
          BY <1>4, <3>1, <3>2, <3>3, <3>4 DEF EditConfig
  <2>3. QED
        BY <2>1, <2>2
<1>5. ASSUME NEW r \in Resources, EditAccount(r)
      PROVE  SetupTypeOK'
  <2>1. account[r] \in Version /\ UNCHANGED <<config, step>>
        BY <1>5 DEF EditAccount
  <2>2. PICK v \in Version \cup {Missing} : account' = [account EXCEPT ![r] = v]
    <3>1. CASE account' = [account EXCEPT ![r].text = 3]
      <4>1. [account[r] EXCEPT !.text = 3] \in Version
            BY <2>1 DEF Version
      <4>2. account' = [account EXCEPT ![r] = [account[r] EXCEPT !.text = 3]]
            BY <3>1
      <4>3. QED
            BY <4>1, <4>2
    <3>2. CASE account' = [account EXCEPT ![r].active = ~@]
          BY <2>1, <3>2 DEF Version
    <3>3. CASE account' = [account EXCEPT ![r] = Missing]
          BY <3>3
    <3>4. QED
          BY <1>5, <3>1, <3>2, <3>3 DEF EditAccount
  <2>3. QED
        BY <2>1, <2>2
<1>6. CASE UNCHANGED setupVars
      BY <1>6 DEF setupVars
<1>7. QED
      BY <1>1, <1>2, <1>3, <1>4, <1>5, <1>6 DEF SetupNext

\* A write of phase 2 brings its resource to agree, takes no agreement away and
\* makes no drift
LEMMA WriteKeeps ==
    ASSUME SetupTypeOK, step \in 4 .. 10, Write, UNCHANGED <<config, live>>
    PROVE  /\ \A r \in Resources : ~Drifted(r) => ~Drifted(r)'
           /\ \A r \in Resources : Agrees(r) => Agrees(r)'
           /\ \A r \in Resources : r = Plan[step] /\ (r # "webhook" \/ live) => Agrees(r)'
           /\ Offered' = Offered
           /\ portal' = IF Plan[step] = "portal" THEN <<Offered>> ELSE portal
<1>1. ASSUME NEW r \in Resources, account'[r] = Upserted(r)
      PROVE  Agrees(r)' /\ (~Drifted(r) => ~Drifted(r)')
  <2>1. Upserted(r) # Missing
        BY UpsertedAgrees, StripeSetupAssumption DEF Version
  <2>2. Agrees(r)'
        BY <1>1, <2>1, UpsertedAgrees DEF Agrees
  <2>3. ~Drifted(r) => ~Drifted(r)'
        BY <1>1, UpsertedAgrees DEF Drifted
  <2>4. QED
        BY <2>2, <2>3
<1>2. ASSUME NEW r \in Resources, account'[r] = account[r]
      PROVE  (Agrees(r) => Agrees(r)') /\ (~Drifted(r) => ~Drifted(r)')
      BY <1>2 DEF Agrees, Drifted
<1>3. \A r \in Resources : account'[r] = account[r] \/ account'[r] = Upserted(r)
      BY WriteApplies
<1>4. ASSUME NEW r \in Resources, r = Plan[step], r # "webhook" \/ live
      PROVE  Agrees(r)'
  <2>1. r # "portal"
        BY DEF Resources, Prices
  <2>2. account'[r] = Upserted(r)
        BY <1>4, <2>1, WriteApplies
  <2>3. QED
        BY <1>1, <2>2
<1>5. Offered' = Offered
      BY DEF Offered
<1>6. portal' = IF Plan[step] = "portal" THEN <<Offered>> ELSE portal
      BY WriteApplies
<1>7. QED
      BY <1>1, <1>2, <1>3, <1>4, <1>5, <1>6

\* While nobody edits, what is behind the run stays as the run left it
LEMMA SetupStep == SetupInv /\ [SetupNext]_setupVars => SetupInv'
<1> SUFFICES ASSUME SetupInv, [SetupNext]_setupVars
             PROVE  SetupInv'
    OBVIOUS
<1>1. SetupTypeOK' /\ SetupTypeOK
      BY SetupTypeStep DEF SetupInv
<1>2. ASSUME UNCHANGED <<config, account, portal, live>>
      PROVE  /\ \A r \in Resources : (Drifted(r)' <=> Drifted(r)) /\ (Agrees(r)' <=> Agrees(r))
             /\ Offered' = Offered
             /\ (validate_prices' <=> validate_prices) /\ (validate_coupons' <=> validate_coupons)
      BY <1>2 DEF Drifted, Agrees, Offered, validate_prices, validate_coupons
<1>3. CASE StartRun
  <2>1. /\ UNCHANGED <<config, account, portal, live>> /\ step' = 1 /\ ~done'
        /\ drifted' <=> \E r \in Immutable : Drifted(r)
        BY <1>3 DEF StartRun
  <2>2. Validated'
        BY <1>2, <2>1 DEF Validated, Immutable, Resources
  <2>3. AppliedSoFar'
        BY <2>1 DEF AppliedSoFar
  <2>4. QED
        BY <1>1, <2>1, <2>2, <2>3 DEF SetupInv
<1>4. CASE Validate
  <2>1. UNCHANGED <<config, account, portal, live, drifted, touched, done>> /\ step \in 1 .. 3 /\ ~done
        BY <1>4, ValidateMoves DEF SetupInv
  <2>2. step' \in {0, 2, 3, 4}
        BY <1>4, ValidateMoves
  <2>3. AppliedSoFar'
        BY <2>1, <2>2 DEF AppliedSoFar
  <2>4. ASSUME step = 1, ~touched
        PROVE  Validated'
    <3>1. step' = 2 /\ (driftSeen' <=> driftSeen \/ validate_prices)
          BY <1>4, <2>4, ValidateMoves
    <3>2. \A r \in Immutable : Drifted(r)' <=> Drifted(r)
          BY <1>2, <2>1 DEF Immutable, Resources
    <3>3. QED
          BY <1>2, <2>1, <2>4, <3>1, <3>2 DEF SetupInv, Validated
  <2>5. ASSUME step = 2, ~touched
        PROVE  Validated'
    <3>1. step' = 3 /\ (driftSeen' <=> driftSeen \/ validate_coupons)
          BY <1>4, <2>5, ValidateMoves
    <3>2. \A r \in Immutable : Drifted(r)' <=> Drifted(r)
          BY <1>2, <2>1 DEF Immutable, Resources
    <3>3. QED
          BY <1>2, <2>1, <2>5, <3>1, <3>2 DEF SetupInv, Validated
  <2>6. ASSUME step = 3, ~touched
        PROVE  /\ step' = 0 \/ step' = 4
               /\ step' = 4 => ~drifted /\ \A r \in Immutable : ~Drifted(r)
    <3>1. step' = 0 \/ (step' = 4 /\ ~driftSeen /\ ~validate_promo_codes)
          BY <1>4, <2>6, ValidateMoves
    <3>2. /\ drifted <=> \E r \in Immutable : Drifted(r)
          /\ validate_prices \/ validate_coupons => driftSeen
          BY <2>6 DEF SetupInv, Validated
    <3>3. QED
          BY <3>1, <3>2 DEF validate_prices, validate_coupons, validate_promo_codes, Immutable, Prices
  <2>7. Validated'
    <3>1. CASE step \in {1, 2}
          BY <1>2, <1>4, <2>1, <2>4, <2>5, <3>1 DEF Validated
    <3>2. CASE step = 3
          BY <1>2, <2>1, <2>6, <3>2 DEF Validated, Immutable, Resources
    <3>3. QED
          BY <2>1, <3>1, <3>2
  <2>8. QED
        BY <1>1, <2>1, <2>3, <2>7 DEF SetupInv
<1>5. CASE Apply
  <2>1. /\ step \in 4 .. 10 /\ UNCHANGED <<config, live, drifted, touched>> /\ Write
        /\ step' = (IF step = 10 THEN 0 ELSE step + 1) /\ (done' <=> step = 10)
    <3>1. step > 3 /\ step \in 0 .. 10
          BY <1>1, <1>5 DEF Apply, SetupTypeOK
    <3>2. UNCHANGED <<config, live, drifted, touched>> /\ Write
          BY <1>5 DEF Apply
    <3>3. step' = (IF step = 10 THEN 0 ELSE step + 1) /\ (done' <=> step = 10)
          BY <1>5, PlanIs DEF Apply
    <3>4. QED
          BY <3>1, <3>2, <3>3
  <2>2. \A r \in Resources : (~Drifted(r) => ~Drifted(r)') /\ (Agrees(r) => Agrees(r)')
        BY <1>1, <2>1, WriteKeeps
  <2>3. Validated'
        BY <2>1, <2>2 DEF SetupInv, Validated, Immutable, Resources
  <2>4. ASSUME ~touched
        PROVE  AppliedSoFar'
    <3>1. \A r \in Resources : r = Plan[step] /\ (r # "webhook" \/ live) => Agrees(r)'
          BY <1>1, <2>1, WriteKeeps
    <3>2. /\ (step = 4 => Agrees("product")') /\ (step = 5 => Agrees("monthly")')
          /\ (step = 6 => Agrees("yearly")') /\ (step = 7 => Agrees("coupon")')
          /\ (step = 8 => Agrees("promo")') /\ (step = 10 /\ live => Agrees("webhook")')
          BY <3>1, PlanIs DEF Resources, Prices
    <3>3. Offered' = Offered /\ portal' = IF step = 9 THEN <<Offered>> ELSE portal
      <4>1. CASE step = 9
            BY <1>1, <2>1, <4>1, WriteKeeps, PlanIs
      <4>2. CASE step # 9
        <5>1. step = 4 \/ step = 5 \/ step = 6 \/ step = 7 \/ step = 8 \/ step = 10
              BY <2>1, <4>2
        <5>2. Plan[step] # "portal"
              BY <5>1, PlanIs
        <5>3. QED
              BY <1>1, <2>1, <4>2, <5>2, WriteKeeps
      <4>3. QED
            BY <4>1, <4>2
    <3>4. /\ (step > 4 => Agrees("product")) /\ (step > 5 => Agrees("monthly"))
          /\ (step > 6 => Agrees("yearly")) /\ (step > 7 => Agrees("coupon"))
          /\ (step > 8 => Agrees("promo")) /\ (step > 9 => portal = <<Offered>>)
          BY <2>4 DEF SetupInv, AppliedSoFar
    <3>5. {"product", "monthly", "yearly", "coupon", "promo", "webhook"} \subseteq Resources
          BY DEF Resources, Prices
    <3>6. /\ (step' > 4 \/ done' => Agrees("product")')
          /\ (step' > 5 \/ done' => Agrees("monthly")')
          /\ (step' > 6 \/ done' => Agrees("yearly")')
          /\ (step' > 7 \/ done' => Agrees("coupon")')
          /\ (step' > 8 \/ done' => Agrees("promo")')
          BY <2>1, <2>2, <3>2, <3>4, <3>5
    <3>7. /\ (step' > 9 \/ done' => portal' = <<Offered'>>)
          /\ (done' /\ live' => Agrees("webhook")')
      <4>1. step' > 9 \/ done' => step = 9 \/ step = 10
            BY <2>1
      <4>2. step = 9 \/ step = 10 => portal' = <<Offered>>
            BY <3>3, <3>4
      <4>3. QED
            BY <2>1, <3>2, <3>3, <4>1, <4>2
    <3>8. QED
          BY <3>6, <3>7 DEF AppliedSoFar
  <2>5. AppliedSoFar'
        BY <2>1, <2>4 DEF AppliedSoFar
  <2>6. QED
        BY <1>1, <2>1, <2>3, <2>5 DEF SetupInv
<1>6. CASE CallFails
  <2>1. step' = 0 /\ UNCHANGED <<touched, done>> /\ ~done
        BY <1>6 DEF CallFails, SetupInv
  <2>2. QED
        BY <1>1, <2>1 DEF SetupInv, Validated, AppliedSoFar
<1>7. ASSUME NEW r \in Resources, EditConfig(r) \/ EditAccount(r)
      PROVE  SetupInv'
  <2>1. touched' /\ ~done'
        BY <1>7 DEF EditConfig, EditAccount, Changed
  <2>2. QED
        BY <1>1, <2>1 DEF SetupInv, Validated, AppliedSoFar
<1>8. CASE UNCHANGED setupVars
  <2>1. UNCHANGED <<config, account, portal, live, step, driftSeen, drifted, touched, done>>
        BY <1>8 DEF setupVars
  <2>2. Validated'
        BY <1>2, <2>1 DEF SetupInv, Validated, Immutable, Resources
  <2>3. AppliedSoFar'
        BY <1>2, <2>1 DEF SetupInv, AppliedSoFar, Resources, Prices
  <2>4. QED
        BY <1>1, <2>1, <2>2, <2>3 DEF SetupInv
<1>9. QED
      BY <1>3, <1>4, <1>5, <1>6, <1>7, <1>8 DEF SetupNext

\* However the script's runs break off and whatever is edited between them
\* (scripts/stripe_setup.py): a run that reaches its end has made the account what
\* the file says in every field the script compares or updates, and one that began
\* with a drift of a compared field (a currency is none) has written nothing.
THEOREM SetupConvergesOrRefuses == ServicesSpec => []SetupAllOrNothing
<1>1. ServicesInit => SetupInv
  <2> SUFFICES ASSUME SetupInit
               PROVE  SetupInv
      BY DEF ServicesInit
  <2>1. SetupTypeOK
        BY DEF SetupInit, SetupTypeOK, Version
  <2>2. QED
        BY <2>1 DEF SetupInit, SetupInv, Validated, AppliedSoFar
<1>2. SetupInv /\ [ServicesNext]_servicesVars => SetupInv'
      BY StepOfPart, SetupStep
<1>3. SetupInv => SetupAllOrNothing
  <2> SUFFICES ASSUME SetupInv
               PROVE  SetupAllOrNothing
      OBVIOUS
  <2>1. FailFast
        BY DEF SetupInv, SetupTypeOK, Validated, FailFast
  <2>2. ASSUME done, ~touched
        PROVE  /\ \A r \in Resources \ {"webhook"} : Agrees(r)
               /\ live => Agrees("webhook")
               /\ \A r \in Immutable : ~Drifted(r)
               /\ portal = <<Offered>>
    <3>1. /\ Agrees("product") /\ Agrees("monthly") /\ Agrees("yearly") /\ Agrees("coupon")
          /\ Agrees("promo") /\ (live => Agrees("webhook")) /\ portal = <<Offered>>
          BY <2>2 DEF SetupInv, AppliedSoFar
    <3>2. \A r \in Immutable : ~Drifted(r)
          BY <2>2 DEF SetupInv, Validated
    <3>3. QED
          BY <3>1, <3>2 DEF Resources, Prices
  <2>3. ASSUME done, ~touched
        PROVE  /\ \A r \in Resources \ {"webhook"} : account[r] # Missing
               /\ \A r \in Immutable : account[r].fixed = config[r].fixed
               /\ \A r \in {"product", "coupon"} : account[r].text = config[r].text
               /\ \A r \in Prices \cup {"product", "promo"} : account[r].active = config[r].active
               /\ live => account["webhook"] # Missing /\ account["webhook"].text = config["webhook"].text
        BY <2>2, <2>3 DEF Agrees, Drifted, Immutable, Resources, Prices
  <2>4. ASSUME done, ~touched, NEW p \in portal[1]
        PROVE  account[p].active /\ account["product"].active
    <3>1. p \in Offered
          BY <2>2, <2>4
    <3>2. p \in Prices /\ config[p].active /\ config["product"].active
          BY <3>1 DEF Offered
    <3>3. QED
          BY <2>3, <2>4, <3>2
  <2>5. done /\ ~touched => portal # <<>>
        BY <2>2
  <2>6. AgreesWhenDone
        BY <2>3, <2>4, <2>5 DEF AgreesWhenDone
  <2>7. QED
        BY <2>1, <2>6 DEF SetupAllOrNothing
<1>4. QED
      BY <1>1, <1>2, <1>3, PTL DEF ServicesSpec

-----------------------------------------------------------------------------
(* GatewayProcess                                                           *)

LEMMA ItemsOfAppend ==
    ASSUME NEW S, NEW s \in Seq(S), NEW e \in S
    PROVE  Append(s, e) \in Seq(S) /\ SeqItems(Append(s, e)) = SeqItems(s) \cup {e}
<1> DEFINE t == Append(s, e)
<1>1. t \in Seq(S) /\ Len(t) = Len(s) + 1 /\ Len(s) \in Nat
      OBVIOUS
<1>2. \A i \in 1 .. Len(s) : t[i] = s[i]
      OBVIOUS
<1>3. t[Len(s) + 1] = e
      OBVIOUS
<1> HIDE DEF t
<1>4. SeqItems(t) = SeqItems(s) \cup {e}
  <2>1. ASSUME NEW x \in SeqItems(t)
        PROVE  x \in SeqItems(s) \cup {e}
    <3>1. PICK i \in 1 .. Len(s) + 1 : x = t[i]
          BY <1>1, <2>1 DEF SeqItems
    <3>2. i \in 1 .. Len(s) \/ i = Len(s) + 1
          BY <1>1
    <3>3. QED
          BY <1>2, <1>3, <3>1, <3>2 DEF SeqItems
  <2>2. ASSUME NEW x \in SeqItems(s)
        PROVE  x \in SeqItems(t)
    <3>1. PICK i \in 1 .. Len(s) : x = s[i]
          BY <2>2 DEF SeqItems
    <3>2. i \in 1 .. Len(t) /\ x = t[i]
          BY <1>1, <1>2, <3>1
    <3>3. QED
          BY <3>2 DEF SeqItems
  <2>3. e \in SeqItems(t)
    <3>1. Len(s) + 1 \in 1 .. Len(t)
          BY <1>1
    <3>2. QED
          BY <1>3, <3>1 DEF SeqItems
  <2>4. QED
        BY <2>1, <2>2, <2>3
<1>5. QED
      BY <1>1, <1>4 DEF t

LEMMA ItemsOfConcat ==
    ASSUME NEW S, NEW s \in Seq(S), NEW t \in Seq(S)
    PROVE  s \o t \in Seq(S) /\ SeqItems(s) \cup SeqItems(t) \subseteq SeqItems(s \o t)
<1> DEFINE u == s \o t
<1>1. /\ u \in Seq(S) /\ Len(u) = Len(s) + Len(t) /\ Len(s) \in Nat /\ Len(t) \in Nat
      /\ \A i \in 1 .. Len(s) : u[i] = s[i]
      /\ \A i \in 1 .. Len(t) : u[i + Len(s)] = t[i]
      OBVIOUS
<1> HIDE DEF u
<1>2. ASSUME NEW x \in SeqItems(s)
      PROVE  x \in SeqItems(u)
  <2>1. PICK i \in 1 .. Len(s) : x = s[i]
        BY <1>2 DEF SeqItems
  <2>2. i \in 1 .. Len(u) /\ x = u[i]
        BY <1>1, <2>1
  <2>3. QED
        BY <2>2 DEF SeqItems
<1>3. ASSUME NEW x \in SeqItems(t)
      PROVE  x \in SeqItems(u)
  <2>1. PICK i \in 1 .. Len(t) : x = t[i]
        BY <1>3 DEF SeqItems
  <2>2. i + Len(s) \in 1 .. Len(u) /\ x = u[i + Len(s)]
        BY <1>1, <2>1
  <2>3. QED
        BY <2>2 DEF SeqItems
<1>4. QED
      BY <1>1, <1>2, <1>3 DEF u

\* deque(maxlen) loses the oldest, no more of them than PushedOut counts
LEMMA PushedOutCounts ==
    ASSUME NEW S, NEW s \in Seq(S)
    PROVE  /\ Kept(s) \in Seq(S) /\ PushedOut(s) \in Nat
           /\ \E X : /\ IsFiniteSet(X) /\ Cardinality(X) <= PushedOut(s)
                     /\ SeqItems(s) \subseteq SeqItems(Kept(s)) \cup X
<1>1. MaxPending \in Nat \ {0} /\ Len(s) \in Nat
      BY GatewayProcessAssumption
<1>2. PICK n \in Nat : /\ n = PushedOut(s) /\ n <= Len(s)
                       /\ Kept(s) = SubSeq(s, n + 1, Len(s))
  <2>1. CASE Len(s) > MaxPending
    <3>1. /\ PushedOut(s) = Len(s) - MaxPending
          /\ Kept(s) = SubSeq(s, Len(s) - MaxPending + 1, Len(s))
          BY <2>1 DEF PushedOut, Kept
    <3>2. Len(s) - MaxPending \in Nat /\ Len(s) - MaxPending <= Len(s)
          BY <1>1, <2>1
    <3>3. QED
          BY <3>1, <3>2
  <2>2. CASE ~(Len(s) > MaxPending)
    <3>1. PushedOut(s) = 0 /\ Kept(s) = SubSeq(s, 0 + 1, Len(s))
          BY <2>2 DEF PushedOut, Kept
    <3>2. QED
          BY <1>1, <3>1
  <2>3. QED
        BY <2>1, <2>2
<1>3. PICK k : k = Kept(s)
      OBVIOUS
<1>4. /\ k \in Seq(S) /\ Len(k) = Len(s) - n
      /\ \A i \in 1 .. Len(s) - n : k[i] = s[n + i]
  <2>1. \A i \in n + 1 .. Len(s) : s[i] \in S
        BY <1>1, <1>2
  <2>2. QED
        BY <1>1, <1>2, <1>3, <2>1
<1>5. PICK f : f = [i \in 1 .. n |-> s[i]]
      OBVIOUS
<1>6. PICK X : X = {s[i] : i \in 1 .. n}
      OBVIOUS
<1>7. IsFiniteSet(X) /\ Cardinality(X) <= n
  <2>1. IsFiniteSet(1 .. n) /\ Cardinality(1 .. n) = n
        BY <1>2, FS_Interval
  <2>2. f \in Surjection(1 .. n, X)
        BY <1>5, <1>6 DEF Surjection
  <2>3. QED
        BY <2>1, <2>2, FS_Surjection
<1>8. ASSUME NEW x \in SeqItems(s)
      PROVE  x \in SeqItems(k) \cup X
  <2>1. PICK i \in 1 .. Len(s) : x = s[i]
        BY <1>8 DEF SeqItems
  <2>2. CASE i <= n
        BY <1>2, <1>6, <2>1, <2>2
  <2>3. CASE i > n
    <3>1. i - n \in 1 .. Len(k) /\ k[i - n] = s[n + (i - n)] /\ n + (i - n) = i
          BY <1>1, <1>2, <1>4, <2>3
    <3>2. x = k[i - n]
          BY <2>1, <3>1
    <3>3. QED
          BY <3>1, <3>2 DEF SeqItems
  <2>4. QED
        BY <1>1, <1>2, <2>2, <2>3
<1>9. QED
      BY <1>2, <1>3, <1>4, <1>7, <1>8

LEMMA FewMoreMissed ==
    ASSUME NEW A, NEW B, NEW X, NEW m \in Nat, NEW n \in Nat,
           IsFiniteSet(A), Cardinality(A) <= m, IsFiniteSet(X), Cardinality(X) <= n,
           B \subseteq A \cup X
    PROVE  IsFiniteSet(B) /\ Cardinality(B) <= m + n
<1>1. IsFiniteSet(A \cup X) /\ IsFiniteSet(A \cap X)
      /\ Cardinality(A \cup X) = Cardinality(A) + Cardinality(X) - Cardinality(A \cap X)
      BY FS_Union, FS_Intersection
<1>2. IsFiniteSet(B) /\ Cardinality(B) <= Cardinality(A \cup X)
      BY <1>1, FS_Subset
<1>3. /\ Cardinality(A) \in Nat /\ Cardinality(X) \in Nat /\ Cardinality(A \cap X) \in Nat
      /\ Cardinality(B) \in Nat /\ Cardinality(A \cup X) \in Nat
      BY <1>1, <1>2, FS_CardinalityType
<1>4. QED
      BY <1>1, <1>2, <1>3

\* Nothing is missed that was not, and the count does not go down
LEMMA NoMoreMissed ==
    ASSUME ProcessInv, Missed' \subseteq Missed, dropped' + told' = dropped + told,
           stopFault' \/ ~stopFault, IsFiniteSet(logged')
    PROVE  MissedAreCounted'
<1>1. CASE stopFault'
      BY <1>1 DEF MissedAreCounted
<1>2. CASE ~stopFault'
  <2>1. Cardinality(Missed) <= dropped + told
        BY <1>2 DEF ProcessInv, MissedAreCounted
  <2>2. IsFiniteSet(Missed)
        BY FS_Subset DEF ProcessInv, ProcessTypeOK, Missed
  <2>3. dropped + told \in Nat
    <3>1. dropped \in Nat /\ told \in Nat
          BY DEF ProcessInv, ProcessTypeOK
    <3>2. QED
          BY <3>1
  <2>4. Cardinality(Missed') <= Cardinality(Missed)
        BY <2>2, FS_Subset
  <2>5. Cardinality(Missed) \in Nat /\ Cardinality(Missed') \in Nat
        BY <2>2, FS_Subset, FS_CardinalityType
  <2>6. QED
        BY <2>1, <2>3, <2>4, <2>5 DEF MissedAreCounted
<1>3. QED
      BY <1>1, <1>2

LEMMA PutKeeps ==
    ASSUME ProcessTypeOK, NEW e \in EventRecords, Put(e)
    PROVE  /\ unsent' \in Seq(EventRecords) /\ IsFiniteSet(logged')
           /\ SeqItems(unsent') = SeqItems(unsent) \cup {e} /\ logged' = logged \cup {e}
<1>1. unsent \in Seq(EventRecords) /\ IsFiniteSet(logged)
      BY DEF ProcessTypeOK
<1>2. unsent' = Append(unsent, e) /\ logged' = logged \cup {e}
      BY DEF Put
<1>3. QED
      BY <1>1, <1>2, ItemsOfAppend, FS_AddElement

LEMMA ProcessStep == ProcessInv /\ [ProcessNext]_processVars => ProcessInv'
<1> SUFFICES ASSUME ProcessInv, [ProcessNext]_processVars
             PROVE  ProcessInv'
    OBVIOUS
<1> DEFINE Running == {"serving", "cancelling"}
<1>1. ProcessTypeOK /\ FaultAtStop
      BY DEF ProcessInv
<1> dropped \in Nat /\ told \in Nat /\ recoveries \in Nat
      BY <1>1 DEF ProcessTypeOK
<1>2. phase \in Running \cup {"last write"} => Held = table \cup SeqItems(pending) \cup SeqItems(unsent)
      BY DEF Held
<1>3. ASSUME NEW e \in EventRecords, phase \in Running, Put(e),
             UNCHANGED <<phase, table, pending, dropped, told, recoveries, stopFault>>
      PROVE  ProcessInv'
  <2>1. /\ unsent' \in Seq(EventRecords) /\ IsFiniteSet(logged')
        /\ SeqItems(unsent') = SeqItems(unsent) \cup {e} /\ logged' = logged \cup {e}
        BY <1>1, <1>3, PutKeeps
  <2>2. ProcessTypeOK' /\ FaultAtStop'
        BY <1>1, <1>3, <2>1 DEF ProcessTypeOK, FaultAtStop
  <2>3. Held' = table \cup SeqItems(pending) \cup SeqItems(unsent')
        BY <1>3 DEF Held, SeqItems
  <2>4. Missed' \subseteq Missed
        BY <1>2, <1>3, <2>1, <2>3 DEF Missed
  <2>5. MissedAreCounted'
        BY <1>3, <2>1, <2>4, NoMoreMissed
  <2>6. QED
        BY <2>2, <2>5 DEF ProcessInv
<1>4. ASSUME NEW e \in Events, LogEvent(e)
      PROVE  ProcessInv'
  <2>1. Logged(e) \in EventRecords /\ phase \in Running /\ Put(Logged(e))
        BY <1>4 DEF EventRecords, LogEvent
  <2>2. UNCHANGED <<phase, table, pending, dropped, told, recoveries, stopFault>>
        BY <1>4 DEF LogEvent, writerVars
  <2>3. QED
        BY <1>3, <2>1, <2>2
<1>5. ASSUME NEW l \in Loops, LoopDies(l)
      PROVE  ProcessInv'
  <2>1. Died(l) \in EventRecords /\ phase \in Running /\ Put(Died(l))
        BY <1>5 DEF EventRecords, LoopDies
  <2>2. UNCHANGED <<phase, table, pending, dropped, told, recoveries, stopFault>>
        BY <1>5 DEF LoopDies, writerVars
  <2>3. QED
        BY <1>3, <2>1, <2>2
<1>6. CASE phase \in Running /\ WriterRound
  <2>1. PICK all : all = pending \o unsent
        OBVIOUS
  <2>2. /\ all \in Seq(EventRecords)
        /\ SeqItems(pending) \cup SeqItems(unsent) \subseteq SeqItems(all)
        BY <1>1, <2>1, ItemsOfConcat DEF ProcessTypeOK
  <2>3. PICK n, X : /\ n \in Nat /\ n = PushedOut(all) /\ IsFiniteSet(X) /\ Cardinality(X) <= n
                      /\ Kept(all) \in Seq(EventRecords)
                      /\ SeqItems(all) \subseteq SeqItems(Kept(all)) \cup X
        BY <2>2, PushedOutCounts
  <2>4. /\ pending' = Beat(Kept(all)) /\ dropped' = dropped + n /\ unsent' = <<>>
        /\ UNCHANGED <<phase, table, recoveries, logged, told, stopFault>>
        BY <1>6, <2>1, <2>3 DEF WriterRound
  <2>5. pending' \in Seq(EventRecords) /\ SeqItems(Kept(all)) \subseteq SeqItems(pending')
    <3>1. CASE pending' = Kept(all)
          BY <2>3, <3>1
    <3>2. CASE Kept(all) = <<>> /\ pending' = <<Heartbeat>>
      <4>1. Heartbeat \in EventRecords
            BY DEF EventRecords
      <4>2. SeqItems(Kept(all)) = {}
            BY <3>2 DEF SeqItems
      <4>3. QED
            BY <3>2, <4>1, <4>2
    <3>3. QED
          BY <2>4, <3>1, <3>2 DEF Beat
  <2>6. ProcessTypeOK' /\ FaultAtStop'
    <3>1. dropped' \in Nat /\ unsent' \in Seq(EventRecords)
          BY <2>3, <2>4
    <3>2. QED
          BY <1>1, <2>4, <2>5, <3>1 DEF ProcessTypeOK, FaultAtStop
  <2>7. Missed' \subseteq Missed \cup X
    <3>1. table \cup SeqItems(pending') \subseteq Held'
          BY <1>6, <2>4 DEF Held
    <3>2. Held \subseteq table \cup SeqItems(pending') \cup X
          BY <1>2, <1>6, <2>2, <2>3, <2>5
    <3>3. QED
          BY <2>4, <3>1, <3>2 DEF Missed
  <2>8. MissedAreCounted'
    <3>1. ~stopFault
          BY <1>1, <1>6 DEF FaultAtStop
    <3>2. Cardinality(Missed) <= dropped + told /\ IsFiniteSet(Missed)
          BY <3>1, FS_Subset DEF ProcessInv, MissedAreCounted, ProcessTypeOK, Missed
    <3> dropped + told \in Nat
          OBVIOUS
    <3>3. Cardinality(Missed') <= (dropped + told) + n
          BY <2>3, <2>7, <3>2, FewMoreMissed
    <3>4. dropped' + told' = (dropped + told) + n
      <4>1. dropped \in Nat /\ told \in Nat /\ n \in Nat
            BY <1>1, <2>3 DEF ProcessTypeOK
      <4>2. QED
            BY <2>4, <4>1
    <3>5. QED
          BY <3>3, <3>4 DEF MissedAreCounted
  <2>9. QED
        BY <2>6, <2>8 DEF ProcessInv
<1>7. ASSUME ProcessTypeOK', FaultAtStop', logged' = logged, stopFault' \/ Held \subseteq Held',
             dropped' = dropped, told' = told, stopFault => stopFault'
      PROVE  ProcessInv'
  <2>1. CASE stopFault'
        BY <1>7, <2>1 DEF ProcessInv, MissedAreCounted
  <2>2. CASE ~stopFault'
    <3>1. Missed' \subseteq Missed
          BY <1>7, <2>2 DEF Missed
    <3>2. IsFiniteSet(logged') /\ dropped' + told' = dropped + told
          BY <1>7 DEF ProcessTypeOK
    <3>3. MissedAreCounted'
          BY <1>7, <2>2, <3>1, <3>2, NoMoreMissed
    <3>4. QED
          BY <1>7, <3>3 DEF ProcessInv
  <2>3. QED
        BY <2>1, <2>2
<1>8. CASE phase \in Running /\ WriteDone
  <2>1. /\ table' = table \cup SeqItems(pending) /\ pending' = <<>>
        /\ UNCHANGED <<phase, stopFault>>
        BY <1>8 DEF WriteDone
  <2>2. ProcessTypeOK' /\ Missed' \subseteq Missed /\ dropped' + told' = dropped + told
    <3>1. CASE outage
      <4>1. PICK e \in EventRecords : Put(e)
        <5>1. recoveries \in Nat
              BY <1>1 DEF ProcessTypeOK
        <5>2. Recovered(recoveries) \in EventRecords
              BY <5>1 DEF EventRecords, Recovered
        <5>3. QED
              BY <1>8, <3>1, <5>2 DEF WriteDone
      <4>2. recoveries' = recoveries + 1 /\ told' = told + dropped /\ dropped' = 0
            BY <1>8, <3>1 DEF WriteDone
      <4>3. /\ unsent' \in Seq(EventRecords) /\ IsFiniteSet(logged')
            /\ SeqItems(unsent') = SeqItems(unsent) \cup {e} /\ logged' = logged \cup {e}
            BY <1>1, <4>1, PutKeeps
      <4>4. ProcessTypeOK' /\ dropped' + told' = dropped + told
        <5>1. /\ dropped' \in Nat /\ told' \in Nat /\ recoveries' \in Nat
              /\ dropped' + told' = dropped + told
              BY <4>2
        <5>2. pending' \in Seq(EventRecords)
              BY <2>1
        <5>3. QED
              BY <1>1, <2>1, <4>3, <5>1, <5>2 DEF ProcessTypeOK
      <4>5. table' \cup SeqItems(unsent') \subseteq Held'
            BY <1>8, <2>1 DEF Held
      <4>6. QED
            BY <1>2, <1>8, <2>1, <4>3, <4>4, <4>5 DEF Missed
    <3>2. CASE ~outage
      <4>1. UNCHANGED <<unsent, logged, recoveries, told, dropped>>
            BY <1>8, <3>2 DEF WriteDone
      <4>2. ProcessTypeOK'
        <5>1. pending' \in Seq(EventRecords)
              BY <2>1
        <5>2. QED
              BY <1>1, <2>1, <4>1, <5>1 DEF ProcessTypeOK
      <4>3. table' \cup SeqItems(unsent') \subseteq Held'
            BY <1>8, <2>1 DEF Held
      <4>4. QED
            BY <1>2, <1>8, <2>1, <4>1, <4>2, <4>3 DEF Missed
    <3>3. QED
          BY <3>1, <3>2
  <2>3. MissedAreCounted' /\ FaultAtStop'
    <3>1. FaultAtStop' /\ (stopFault' \/ ~stopFault) /\ IsFiniteSet(logged')
          BY <1>1, <2>1, <2>2 DEF FaultAtStop, ProcessTypeOK
    <3>2. QED
          BY <2>2, <3>1, NoMoreMissed
  <2>4. QED
        BY <2>2, <2>3 DEF ProcessInv
<1>9. CASE phase \in Running /\ (WriteFails \/ ReplyLost)
  <2>1. /\ UNCHANGED <<phase, unsent, pending, dropped, recoveries, logged, told, stopFault>>
        /\ table \subseteq table'
        BY <1>9 DEF WriteFails, ReplyLost
  <2>2. ProcessTypeOK' /\ FaultAtStop'
        BY <1>1, <2>1 DEF ProcessTypeOK, FaultAtStop
  <2>3. Held' = table' \cup SeqItems(pending) \cup SeqItems(unsent)
        BY <1>9, <2>1 DEF Held
  <2>4. Held \subseteq Held'
        BY <1>2, <1>9, <2>1, <2>3
  <2>5. QED
        BY <1>7, <2>1, <2>2, <2>4
<1>10. CASE \/ HourPasses \/ DatabaseFails \/ DatabaseBack \/ (\E l \in Loops : LoopEnds(l))
            \/ UNCHANGED processVars
  <2>1. UNCHANGED <<phase, table, unsent, pending, dropped, recoveries, logged, told, stopFault>>
    <3>1. CASE HourPasses
          BY <3>1 DEF HourPasses
    <3>2. CASE DatabaseFails \/ DatabaseBack
          BY <3>2 DEF DatabaseFails, DatabaseBack, writerVars
    <3>3. CASE \E l \in Loops : LoopEnds(l)
          BY <3>3 DEF LoopEnds, writerVars
    <3>4. CASE UNCHANGED processVars
          BY <3>4 DEF processVars
    <3>5. QED
          BY <1>10, <3>1, <3>2, <3>3, <3>4
  <2>2. ProcessTypeOK' /\ FaultAtStop'
        BY <1>1, <2>1 DEF ProcessTypeOK, FaultAtStop
  <2>3. Held' = Held
        BY <2>1 DEF Held, SeqItems
  <2>4. QED
        BY <1>7, <2>1, <2>2, <2>3
<1>11. CASE StopServing \/ CancelWriter
  <2>1. /\ phase \in Running /\ phase' \in {"cancelling", "last write"}
        /\ UNCHANGED <<table, unsent, pending, dropped, recoveries, logged, told, stopFault>>
        BY <1>11 DEF StopServing, CancelWriter, writerVars
  <2>2. ProcessTypeOK' /\ FaultAtStop'
        BY <1>1, <2>1 DEF ProcessTypeOK, FaultAtStop
  <2>3. Held' = table \cup SeqItems(pending) \cup SeqItems(unsent)
        BY <2>1 DEF Held
  <2>4. Held \subseteq Held'
        BY <1>2, <2>1, <2>3
  <2>5. QED
        BY <1>7, <2>1, <2>2, <2>4
<1>12. CASE LastWrite
  <2>1. /\ phase = "last write" /\ phase' = "flush" /\ table \subseteq table'
        /\ UNCHANGED <<unsent, pending, dropped, recoveries, logged, told>>
        BY <1>12 DEF LastWrite
  <2>2. stopFault' \/ SeqItems(pending) \subseteq table'
    <3>1. CASE pending = <<>>
          BY <3>1 DEF SeqItems
    <3>2. CASE pending # <<>>
          BY <1>12, <3>2 DEF LastWrite
    <3>3. QED
          BY <3>1, <3>2
  <2>3. ~stopFault
        BY <1>1, <2>1 DEF FaultAtStop
  <2>4. ProcessTypeOK' /\ FaultAtStop'
        BY <1>1, <2>1 DEF ProcessTypeOK, FaultAtStop
  <2>5. Held' = table' \cup SeqItems(unsent)
        BY <2>1 DEF Held
  <2>6. stopFault' \/ Held \subseteq Held'
        BY <1>2, <2>1, <2>2, <2>5
  <2>7. QED
        BY <1>7, <2>1, <2>3, <2>4, <2>6
<1>13. CASE FlushQueue
  <2>1. /\ phase = "flush" /\ phase' \in {"stopped", "aborted"} /\ table \subseteq table'
        /\ UNCHANGED <<unsent, pending, dropped, recoveries, logged, told>>
        BY <1>13 DEF FlushQueue
  <2>2. (stopFault => stopFault') /\ (stopFault' \/ SeqItems(unsent) \subseteq table')
    <3>1. CASE unsent = <<>>
          BY <1>13, <3>1 DEF FlushQueue, SeqItems
    <3>2. CASE unsent # <<>>
          BY <1>13, <3>2 DEF FlushQueue
    <3>3. QED
          BY <3>1, <3>2
  <2>3. ProcessTypeOK' /\ FaultAtStop'
        BY <1>1, <2>1 DEF ProcessTypeOK, FaultAtStop
  <2>4. Held = table \cup SeqItems(unsent) /\ Held' = table'
        BY <2>1 DEF Held
  <2>5. stopFault' \/ Held \subseteq Held'
        BY <2>1, <2>2, <2>4
  <2>6. QED
        BY <1>7, <2>1, <2>2, <2>3, <2>5
<1>14. QED
  <2> HIDE DEF Running
  <2>1. \/ \E e \in Events : LogEvent(e)
        \/ \E l \in Loops : LoopDies(l)
        \/ phase \in Running /\ (WriterRound \/ WriteDone \/ WriteFails \/ ReplyLost)
        \/ HourPasses \/ DatabaseFails \/ DatabaseBack \/ StopServing
        \/ (\E l \in Loops : LoopEnds(l)) \/ CancelWriter \/ LastWrite \/ FlushQueue
        \/ UNCHANGED processVars
        BY DEF ProcessNext, WriterStep, Shutdown, Running
  <2>2. QED
        BY <1>4, <1>5, <1>6, <1>8, <1>9, <1>10, <1>11, <1>12, <1>13, <2>1

\* Whatever is logged and however the database fares (metrics.py, lifespan): at every
\* moment the writer's count of drops covers what the table will never have, until a
\* write of the shutdown itself fails.
THEOREM LossesAreCounted == ServicesSpec => []EventsAccounted
<1>1. ServicesInit => ProcessInv
  <2> SUFFICES ASSUME ProcessIdle
               PROVE  ProcessInv
      BY DEF ServicesInit
  <2>1. ProcessTypeOK /\ FaultAtStop
        BY FS_EmptySet DEF ProcessIdle, ProcessTypeOK, FaultAtStop
  <2>2. Missed = {} /\ dropped + told = 0
        BY DEF ProcessIdle, Missed
  <2>3. QED
        BY <2>1, <2>2, FS_EmptySet DEF ProcessInv, MissedAreCounted
<1>2. ProcessInv /\ [ServicesNext]_servicesVars => ProcessInv'
      BY StepOfPart, ProcessStep
<1>3. ProcessInv => EventsAccounted
  <2> SUFFICES ASSUME ProcessInv
               PROVE  EventsAccounted
      OBVIOUS
  <2>1. ASSUME phase = "stopped", ~stopFault
        PROVE  Cardinality(logged \ table) <= dropped + told
    <3>1. Missed = logged \ table
          BY <2>1 DEF Missed, Held
    <3>2. QED
          BY <2>1, <3>1 DEF ProcessInv, MissedAreCounted
  <2>2. ASSUME phase \in {"serving", "cancelling"}
        PROVE  Cardinality(logged \ (table \cup SeqItems(pending) \cup SeqItems(unsent))) <= dropped + told
    <3>1. Missed = logged \ (table \cup SeqItems(pending) \cup SeqItems(unsent))
          BY <2>2 DEF Missed, Held
    <3>2. QED
          BY <2>2, <3>1 DEF ProcessInv, MissedAreCounted, FaultAtStop
  <2>3. QED
        BY <2>1, <2>2 DEF EventsAccounted, EventsWrittenAtStop, LossNeverUnderstated
<1>4. QED
      BY <1>1, <1>2, <1>3, PTL DEF ServicesSpec
=============================================================================
