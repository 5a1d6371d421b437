------------------------------ MODULE Services ------------------------------
(***************************************************************************)
(* The parts of the system that meet the core only at its edges, checked in *)
(* one specification.  They share no state and never wait for each other,   *)
(* so the behaviours of the whole are those of its parts interleaved, and   *)
(* what a part promises does not depend on when the others move: part picks *)
(* the one that runs, and the others rest in an initial state.             *)
(***************************************************************************)
EXTENDS YoloDetection, GatewayProcess, TtsConnection, StripeSetup, Seeding, ApiCalls,
        Authentication

VARIABLE part     \* the part that runs

servicesVars == <<part, yoloVars, processVars, connVars, setupVars, seedVars, callVars, authVars>>

Resting ==
    /\ part # "process" => dbUp
    /\ due = (part = "process")
    /\ part # "stripe setup" => live
    /\ part # "seeding" => version = "none" /\ tables = "none"
    /\ part # "authentication" =>
         request = [token |-> "none", guest |-> "none", service |-> "up", auth_enabled |-> FALSE]

ServicesInit ==
    /\ part \in {"yolo", "process", "connection", "stripe setup", "seeding", "calls",
                 "authentication"}
    /\ YoloInit /\ ProcessIdle /\ ConnInit /\ SetupInit /\ SeedInit /\ CallInit /\ AuthInit
    /\ Resting

\* Each variable of a part that does not run keeps its value
Yolo == part = "yolo" /\ YoloNext
        /\ UNCHANGED <<part, processVars, connVars, setupVars, seedVars, callVars, authVars>>
Process == part = "process" /\ ProcessNext
        /\ UNCHANGED <<part, yoloVars, connVars, setupVars, seedVars, callVars, authVars>>
Connection == part = "connection" /\ ConnNext
        /\ UNCHANGED <<part, yoloVars, processVars, setupVars, seedVars, callVars, authVars>>
Setup == part = "stripe setup" /\ SetupNext
        /\ UNCHANGED <<part, yoloVars, processVars, connVars, seedVars, callVars, authVars>>
Seed == part = "seeding" /\ SeedNext
        /\ UNCHANGED <<part, yoloVars, processVars, connVars, setupVars, callVars, authVars>>
Calls == part = "calls" /\ CallNext
        /\ UNCHANGED <<part, yoloVars, processVars, connVars, setupVars, seedVars, authVars>>
Auth == part = "authentication" /\ AuthNext
        /\ UNCHANGED <<part, yoloVars, processVars, connVars, setupVars, seedVars, callVars>>

ServicesNext == Yolo \/ Process \/ Connection \/ Setup \/ Seed \/ Calls \/ Auth

\* Worker and scanner loops run for the life of their process, and a scan visits
\* every key; Redis expires keys; a page that pushed a job goes on to wait for it.
YoloFairness ==
    /\ \A w \in Workers : WF_yoloVars(part = "yolo" /\ WorkerLoop(w))
    /\ \A s \in Scanners :
         /\ WF_yoloVars(part = "yolo" /\ ScannerLoop(s))
         /\ \A k \in Workers :
              SF_yoloVars(part = "yolo" /\ ScanKey(s, k, Tracked(k)) /\ UNCHANGED listVars)
    /\ \A j \in Jobs : /\ WF_yoloVars(part = "yolo" /\ BeginWait(j))
                       /\ WF_yoloVars(part = "yolo" /\ TakeAnswer(j))
                       /\ WF_yoloVars(part = "yolo" /\ Lapse(j))

\* The writer's loop waits at most 5 s, the shutdown awaits its tasks one after the
\* other, and the database is repaired.
ProcessFairness ==
    /\ WF_processVars(part = "process" /\ WriterStep)
    /\ WF_processVars(part = "process" /\ DatabaseBack)
    /\ WF_processVars(part = "process" /\ Shutdown)

\* A handler runs to its end, and Redis counts the time to live down.
ConnFairness ==
    /\ \A c \in Conns : WF_connVars(part = "connection" /\ Handle(c))
    /\ WF_connVars(part = "connection" /\ Tick)

ServicesSpec == ServicesInit /\ [][ServicesNext]_servicesVars
FairServicesSpec == ServicesSpec /\ YoloFairness /\ ProcessFairness /\ ConnFairness
=============================================================================
