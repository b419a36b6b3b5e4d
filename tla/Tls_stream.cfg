CONSTANTS
    MAX_INBUF = 8
    TLS_MAX_OUTBUF = 2
    Counts = {1, 3}
    MaxConns = 2
    MaxRecords = 3
    MaxWrites = 2
    Window = 4
    DataSizes = {1, 4}
    ServerMay = {"warning", "fatal", "long", "cut", "reset"}
    AfterDeath = {"handshake", "write"}
SPECIFICATION FairSpec
INVARIANTS TypeOK BufferSpace NothingInClear
PROPERTIES PlainDescriptor ReadReturns
CHECK_DEADLOCK FALSE
