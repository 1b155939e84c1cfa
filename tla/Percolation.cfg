SPECIFICATION FairSpec
CONSTANTS
    line = line
    product = product
    alice = alice
    bob = bob
    None = None
    Items = {line, product}
    Entities = {alice, bob}
    Table <- Tables
    Owner <- ShopOwners
    Near = {line}
    Options <- DaemonOptions
    Cleanup = TRUE
    MaxChanges = 3
    MaxCrashes = 1
INVARIANTS
    TypeOK
    NobodyMissed
PROPERTIES
    KeepsWork
    DeletedRowsArchived
    DeferredWorkEnds
    SignalObeyed
CHECK_DEADLOCK FALSE
