\* One gateway process, three sockets, two streams.
CONSTANTS
    c1 = c1
    c2 = c2
    c3 = c3
    t1 = t1
    t2 = t2
    g1 = g1
    g2 = g2
    chat = chat
    like = like
    pin = pin
    NULL = NULL
    Conns <- MC_Conns
    Streams <- MC_Streams
    Kinds <- MC_Kinds
    Instances = {g1}
    Home <- MC_OneProcess
    MaxEvents = 4
    MaxCrashes = 1
SPECIFICATION Spec
SYMMETRY MC_Symmetry
\* Every socket may disconnect and the event budget end: the server then idles.
CHECK_DEADLOCK FALSE
INVARIANTS
    TypeOK
    AccurateViewerCount
