\* Spec 4.7 lookup order of get_rendezvous_server after set_serial(4),
\* with one measuring task.
CONSTANTS
    Threads = {t1}
    Hosts = {"h1", "h2"}
    Latencies = {0, 10, 20}
    NoLatency = NoLatency
    MaxOps = 4
    Serials = {3, 4}
    Exe = ""
    Custom = ""
    Prod = ""
    ServersOpt <- MCServersOpt
    Dotted <- MCDotted
    Ported = {}
    BuiltIn <- MCBuiltIn
SPECIFICATION Spec
INVARIANTS LookupOrder
