\* Four images, so that two can wait while two pipelines run; two handlers and the destructor terminate.
CONSTANTS
    i1 = i1
    i2 = i2
    i3 = i3
    i4 = i4
    t1 = t1
    t2 = t2
    Images <- FourImages
    Terminators = {t1, t2}
    Destructor = dtor
    MaxPipelines = 2
SPECIFICATION FairSpec
CHECK_DEADLOCK FALSE
INVARIANTS
    WorkerBound
    EachImageOnce
    NoWorkerOutlives
PROPERTIES
    ImplementsImagePipeline
    TerminateReturns
