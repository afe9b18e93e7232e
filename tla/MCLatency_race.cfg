\* Two measuring tasks running update_latency concurrently, as the
\* rendezvous tests of several hosts do.
CONSTANTS
    Threads = {t1, t2}
    Hosts = {"h1", "h2"}
    Latencies = {0, 10, 20}
    NoLatency = NoLatency
    MaxOps = 2
    Serials = {3, 4}
    Exe = ""
    Custom = ""
    Prod = ""
    ServersOpt <- MCServersOpt
    Dotted <- MCDotted
    Ported = {}
    BuiltIn <- MCBuiltIn
SPECIFICATION Spec
INVARIANTS BestStoredWhenQuiet
