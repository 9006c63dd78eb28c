SPECIFICATION FlashSpec
CONSTANTS
    Socket = {"s1", "s2", "s3"}
    Bad = {"s2"}
    Dropped <- AllEvents
    Opera = TRUE
    Movies = 1
    MaxSockets = 1
    MaxMessages = 3
    MaxSends = 2
    Listener = {"l1", "l2", "l3"}
    Handler = {"h1", "h2"}
    Stopping = {"l2"}
    Preventing = {"l3"}
    MaxAdds = 3
    Bridge = {"b1", "b2"}
    Removable = {"b1"}
    RootFails = FALSE
    MaxDepth = 8
    Document <- Movies3
    Reports = 2
    Func = {"f1", "f2", "f3", "f4"}
    InitFunc = {"g", "h"}
    Name = {"other", "socket", "socket2"}
    Longer <- LongerNames
    Width = 4
    Object = {"root", "socket", "open", "close", "message"}
    Event = {"open", "close", "message"}
    Type = {"Main", "WebSocket", "State", "Data"}
    TypeOf <- TypesOfObjects
    Listeners = 1
    MaxRefs = 2
INVARIANTS
    TypeOK
    CreatedOnce NoRecursion Attached ObjectsKept
PROPERTIES ImplementsLife HandlerKept CallReaches
CHECK_DEADLOCK FALSE
