SPECIFICATION FairSpec
CONSTANTS
    Migrations = {m1, m2, m3}
    None = None
INVARIANT TypeOK
INVARIANT CommitIsOwn
INVARIANT RestoredOnce
PROPERTY NoImageAfterRestore
PROPERTY MigrationsMoveOn
CHECK_DEADLOCK FALSE
