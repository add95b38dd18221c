CONSTANTS
    a = a
    b = b
    None = None
    Senders <- MCSenders
    Jobs <- MCJobs
    JobsOf <- MCJobsOf
    NumWorkers = 2
    BUFFER_SIZE = 1
SPECIFICATION Spec
INVARIANTS TypeOK QueueSizeExact EachJobInOnePlace LoadBalanced
PROPERTIES EveryTestReported JobPoolSpec
