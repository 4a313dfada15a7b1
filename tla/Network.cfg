SPECIFICATION ServicesSpec
CONSTANTS
    Conns = {c1}
    Reconnecting = {c1}
    Timing = {c1}
    MaxAttempts = 1
    MaxSends = 3
    MaxReceived = 1
    Requests = {r1, r2}
    Streaming = {r1}
    UploadSize = 1
    MaxChunks = 2
    Size = 1
    Nodes = {"n1", "n2", "n3"}
    DeviceOf <- MCDeviceOf
    NameOf <- MCNameOf
    FilterNames = {"f"}
    Totals = {3}
    Room = 2
    Backlog = 1
    MaxEvents = 2
    MaxCalls = 3
INVARIANT ConnectionsMapped
INVARIANT EndsOnce
INVARIANT SentInOrder
INVARIANT AudioTold
PROPERTY CloseEnds
PROPERTY ChunksArrive
PROPERTY VoicesEnd
CHECK_DEADLOCK FALSE
