\* One process with one socket: what becomes of a TLS scan that fails.
SPECIFICATION Spec
CONSTANTS
    Pid = {1}
    Program = {"nginx"}
    IPv6 = {"::", "::1"}
    Socket <- MCOne
    Local = {"localhost", "::1", "::", "0.0.0.0"}
    UserOf <- MCUserOf
    ServesTLS = {"nginx"}
    HostKeys = {"rsa"}
    keyAlgos <- MCKeyAlgos
    MaxFaults = 1
    Nobody = "nobody"
PROPERTY TlsErrorsRecorded
