CONSTANTS
    Replica = {r1, r2}
    Launch <- Launches
    Module = {"iam", "catalog"}
    Registry <- Releases
    Numeral <- Numerals
    None = None
SPECIFICATION FairSpec
INVARIANTS
    TypeOK
    RunsAsConfigured
    ServesMigrated
    ReplicasStartTogether
PROPERTIES
    AppliesInOrder
    MigratingEnds
    DrainingEnds
    ProbesAreAnswered
