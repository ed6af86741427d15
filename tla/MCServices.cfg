CONSTANTS
    Assignment = {assignment1, assignment2}
    NoTask = NoTask
    MaxProgress = 1
    MaxLinks = 2
    MaxReconnect = 1
    Faults = {"drop", "raise", "encode", "unpack", "stop"}
    Backend = {"local", "s3"}
    Name = {"plain", "empty", "dot", "lines", "metadata"}
    StorageFaults = {"io", "crash", "delete"}
    Feature = {"mongodb", "storage"}
    Required = {"mongodb"}
    Feasible = {"ok", "error"}
    Token = {"right", "wrong"}
    WorkerToken = "right"
    Window = 1
    Day = 3
    MaxTime = 6
    MaxSkew = 2
    Request = {request1, request2}
    Queue = {"configured", "other"}
    Configured = {"configured"}
    ServerFaults = {"io", "leave"}
SPECIFICATION ServicesSpec
INVARIANTS ServicesTypeOK WireIsOrdered ServedIsUploaded HealthIsWorst SignedIsAccepted ServerIsWhole
PROPERTIES WorkerReleasesTask
\* A worker that was released, a request that was answered and an exited process stop.
CHECK_DEADLOCK FALSE
