\* Two pids, two programs of which nginx serves TLS, and three sockets.
SPECIFICATION Spec
CONSTANTS
    Pid = {1, 2}
    Program = {"nginx", "monit"}
    IPv6 = {"::", "::1"}
    Socket <- MCSockets
    Local = {"localhost", "::1", "::", "0.0.0.0"}
    UserOf <- MCUserOf
    ServesTLS = {"nginx"}
    HostKeys = {"rsa"}
    keyAlgos <- MCKeyAlgos
    MaxFaults = 2
    Nobody = "nobody"
INVARIANTS TypeOK TrueOfWhatStayed
PROPERTY Ends
