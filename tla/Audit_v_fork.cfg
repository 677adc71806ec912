SPECIFICATION Spec
CONSTANTS
    w1 = w1
    w2 = w2
    w3 = w3
    serve = serve
    command = command
    main = main
    stream = stream
    other = other
    Loops = {main, stream, other}
    Loop <- WithFillStream
    Genesis = Genesis
    Nobody = Nobody
    Writers = {w1, w2}
    Processes = {serve}
    Home <- HomeOf
    Shapes <- AllShapes
    MaxTxns = 2
    SlowDisk = FALSE
CHECK_DEADLOCK FALSE
INVARIANTS
    ChainIntact
