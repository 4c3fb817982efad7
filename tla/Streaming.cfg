SPECIFICATION FairSpec
CONSTANTS
    Consumer = consumer
    Canceller = {canceller}
    Grpc = grpc
    MaxResp = 2
INVARIANTS
    StatusOnce
    InnerFirst
PROPERTIES
    RecordIsFinal
    StreamIsRecorded
    WaitIdleReturns
CHECK_DEADLOCK FALSE
