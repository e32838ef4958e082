CONSTANTS
    Request = {"r1", "r2", "r3", "r4"}
    Valid = {"r1", "r2", "r4"}
    Weight <- MCWeight
    max_items_weight_in_batch = 2
    max_concurrent_batches = 2
    QUEUE_BATCH_LIMIT = 1
    InnerMayFail = TRUE
SPECIFICATION FairSpec
INVARIANTS
    AnswersAreOwn
    PermitsAreConserved
PROPERTIES
    CallsAreAnswered
CHECK_DEADLOCK FALSE
