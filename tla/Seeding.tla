------------------------------- MODULE Seeding -------------------------------
(***************************************************************************)
(* What a starting gateway does to its database before it serves:           *)
(* prepare_database (yapit/gateway/db.py) brings the schema to head, and    *)
(* seed_database (yapit/gateway/seed.py) adds models and plans and follows  *)
(* the voices of an OpenAI-compatible TTS server.                          *)
(*                                                                         *)
(* DB_SEED is set.  One container starts at a time and may die after any    *)
(* commit; between starts the settings, the server's voices and the plan    *)
(* rows may change.                                                         *)
(***************************************************************************)
EXTENDS Integers, FiniteSets

CONSTANTS
    ServerVoices, \* voices an OpenAI-compatible server may have
    MaxStarts,    \* bound on starts
    MaxDbChanges  \* bound on changes from outside

ASSUME SeedingAssumption == MaxStarts \in Nat /\ MaxDbChanges \in Nat

Tiers == {"free", "voice", "basic"}
MigratedTiers == {"voice"}         \* plan rows that migration b1c2d3e4f5a6 inserts

VARIABLES
    version,      \* alembic_version: "none", "parent" of the baseline or "head"
    tables,       \* "none", "legacy" (create_all of an old release) or "current"
    kokoro,       \* the Kokoro model and its voices are there
    plans,        \* [Tiers -> "none", "seeded", "migrated" or "edited"]
    server_model, \* the openai-tts model: "none", "active" or "inactive"
    voices,       \* its voices: [ServerVoices -> "none", "active" or "inactive"]
    settings,     \* what the process reads from its environment
    server,       \* the voices GET /audio/voices lists; {} when it does not answer
    start,        \* where the start is
    starts, dbChanges,
    withdrawn,    \* history: voices ever deactivated
    edited,       \* history: plan rows an operator edited
    asked         \* history: the voices the sync of this start went by

seedVars == <<version, tables, kokoro, plans, server_model, voices, settings, server,
              start, starts, dbChanges, withdrawn, edited, asked>>
schemaVars == <<version, tables>>
catalogVars == <<kokoro, plans, server_model, voices>>
outsideVars == <<settings, server, starts, dbChanges>>

SeedInit ==
    /\ \/ version = "none" /\ tables \in {"none", "legacy"}
       \/ version = "head" /\ tables = "current"
    /\ kokoro = FALSE
    /\ plans = [t \in Tiers |-> IF version = "head" /\ t \in MigratedTiers THEN "migrated" ELSE "none"]
    /\ server_model = "none"
    /\ voices = [v \in ServerVoices |-> "none"]
    /\ settings = [db_drop_and_recreate |-> FALSE, base_url |-> TRUE, voices |-> {}]
    /\ server = ServerVoices
    /\ start = "stopped" /\ starts = 0 /\ dbChanges = 0
    /\ withdrawn = {} /\ edited = {} /\ asked = {}

-----------------------------------------------------------------------------
\* prepare_database
Begin ==
    /\ start = "stopped" /\ starts < MaxStarts
    /\ starts' = starts + 1
    /\ start' = IF settings.db_drop_and_recreate THEN "recreate"
                ELSE IF version = "none" /\ tables # "none" THEN "stamp" ELSE "upgrade"
    /\ asked' = {}
    /\ UNCHANGED <<schemaVars, catalogVars, settings, server, dbChanges, withdrawn, edited>>

\* drop_all and create_all in one transaction; alembic_version is not one of ours
Recreate ==
    /\ start = "recreate"
    /\ tables' = "current"
    /\ kokoro' = FALSE
    /\ plans' = [t \in Tiers |-> "none"]
    /\ server_model' = "none"
    /\ voices' = [v \in ServerVoices |-> "none"]
    /\ withdrawn' = {} /\ edited' = {}
    /\ start' = "seed"
    /\ UNCHANGED <<version, outsideVars, asked>>

StampedAt == "parent"

Stamp ==
    /\ start = "stamp"
    /\ version' = StampedAt
    /\ start' = "upgrade"
    /\ UNCHANGED <<tables, catalogVars, outsideVars, withdrawn, edited, asked>>

\* alembic upgrade head: from nothing, or by the idempotent baseline
Upgrade ==
    /\ start = "upgrade"
    /\ version' = "head"
    /\ tables' = IF version = "head" THEN tables ELSE "current"
    /\ plans' = [t \in Tiers |-> IF version # "head" /\ t \in MigratedTiers /\ plans[t] = "none"
                                 THEN "migrated" ELSE plans[t]]
    /\ start' = "seed"
    /\ UNCHANGED <<kokoro, server_model, voices, outsideVars, withdrawn, edited, asked>>

-----------------------------------------------------------------------------
\* "only missing tiers are inserted"
WithPlans == [t \in Tiers |-> IF plans[t] = "none" THEN "seeded" ELSE plans[t]]

\* seed_database up to its commit
SeedModelsAndPlans ==
    /\ start = "seed"
    /\ kokoro' = (kokoro \/ server_model = "none")
    /\ plans' = WithPlans
    /\ start' = "sync"
    /\ UNCHANGED <<schemaVars, server_model, voices, outsideVars, withdrawn, edited, asked>>

\* Discovered voices, or those of the settings when there are none
VoiceNames == IF server # {} THEN server ELSE settings.voices

\* Mutant of Stale: voices that are gone stay selectable
StaleNever(names) == {}

Stale(names) == {v \in ServerVoices \ names : voices[v] # "none"}

\* sync_openai_tts_voices: one transaction. Rows that exist are not inserted
\* again, and stay as they are
SyncVoices ==
    /\ start = "sync"
    /\ start' = "activate"
    /\ asked' = IF settings.base_url THEN VoiceNames ELSE {}
    /\ IF asked' = {}
       THEN UNCHANGED <<server_model, voices, withdrawn>>
       ELSE /\ server_model' = IF server_model = "none" THEN "active" ELSE server_model
            /\ voices' = [v \in ServerVoices |->
                            IF v \in Stale(asked') THEN "inactive"
                            ELSE IF v \in asked' /\ voices[v] = "none" THEN "active" ELSE voices[v]]
            /\ withdrawn' = withdrawn \cup Stale(asked')
    /\ UNCHANGED <<schemaVars, kokoro, plans, outsideVars, edited>>

\* _deactivate_unconfigured_models
ActivateModels ==
    /\ start = "activate"
    /\ server_model' = IF server_model = "none" THEN "none"
                       ELSE IF settings.base_url THEN "active" ELSE "inactive"
    /\ start' = "serving"
    /\ UNCHANGED <<schemaVars, kokoro, plans, voices, outsideVars, withdrawn, edited, asked>>

Stop ==
    /\ start # "stopped"
    /\ start' = "stopped"
    /\ UNCHANGED <<schemaVars, catalogVars, outsideVars, withdrawn, edited, asked>>

-----------------------------------------------------------------------------
FromOutside == dbChanges < MaxDbChanges /\ dbChanges' = dbChanges + 1

ChangeSettings ==
    /\ start = "stopped" /\ FromOutside
    /\ \/ settings' = [settings EXCEPT !.base_url = ~@] /\ UNCHANGED server
       \/ settings' = [settings EXCEPT !.db_drop_and_recreate = ~@] /\ UNCHANGED server
       \/ \E vs \in SUBSET ServerVoices : settings' = [settings EXCEPT !.voices = vs] /\ UNCHANGED server
       \/ \E vs \in SUBSET ServerVoices : server' = vs /\ UNCHANGED settings
    /\ UNCHANGED <<schemaVars, catalogVars, start, starts, withdrawn, edited, asked>>

\* An operator sets price ids or limits of a plan row
EditPlan(t) ==
    /\ plans[t] # "none" /\ FromOutside
    /\ plans' = [plans EXCEPT ![t] = "edited"]
    /\ edited' = edited \cup {t}
    /\ UNCHANGED <<schemaVars, kokoro, server_model, voices, settings, server, start, starts,
                   withdrawn, asked>>

SeedNext ==
    \/ Begin \/ Recreate \/ Stamp \/ Upgrade \/ SeedModelsAndPlans \/ SyncVoices
    \/ ActivateModels \/ Stop \/ ChangeSettings
    \/ \E t \in Tiers : EditPlan(t)

-----------------------------------------------------------------------------
\* The voices list_voices shows and get_model, get_voice accept
Selectable == IF server_model = "active" THEN {v \in ServerVoices : voices[v] = "active"} ELSE {}

\* db: whatever a start before it left behind, a gateway that serves has the schema
\* of its code, Kokoro, and a row for every plan.
ServesOnHead ==
    start = "serving" => tables = "current" /\ kokoro /\ \A t \in Tiers : plans[t] # "none"

\* seed: after a start no voice is on offer that the server lacks, none without a
\* server, and every voice it has is on offer that was not withdrawn before.
OffersServerVoices ==
    start = "serving" =>
        /\ ~settings.base_url => Selectable = {}
        /\ asked # {} => Selectable \subseteq asked /\ asked \ withdrawn \subseteq Selectable

\* seed: "existing rows are never modified": what an operator set in a plan row stays
\* through every start.
PlansKept == \A t \in edited : plans[t] = "edited"

\* A gateway that serves has everything its code and its server offer, whatever
\* starts broke off before it, and leaves alone what is not its own.
StartsConverge == ServesOnHead /\ OffersServerVoices /\ PlansKept
=============================================================================
