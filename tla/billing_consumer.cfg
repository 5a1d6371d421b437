CONSTANTS
    job1 = job1
    job2 = job2
    alice = alice
    bob = bob
    g1 = g1
    g2 = g2
    NumEntries = 4
    Events = {job1, job2}
    Users = {alice, bob}
    EventOf <- MCEventOf
    UserOf <- MCUserOf
    Poison = {1, 2}
    Consumers = {g1, g2}
    MaxBatch = 2
    MaxFaults = 2
SPECIFICATION FairSpec
INVARIANTS BillingInv
PROPERTIES ImplementsLedger EveryEventBilledUnlessFailed
CHECK_DEADLOCK FALSE
