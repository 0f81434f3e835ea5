CONSTANTS
    Providers = {p1}
    Latest = {l1}
    Backfill = {b1}
    MaxArticle = 4
    BatchSize = 2
    Date <- MCDate
    Cutoffs = {0, 4}
    MaxEvents = 1
SPECIFICATION FairSpec
INVARIANTS
    TypeOK
    NothingSkipped
PROPERTIES
    EveryArticleHandled
CHECK_DEADLOCK FALSE
