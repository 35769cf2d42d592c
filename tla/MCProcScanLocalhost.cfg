\* One number listened on by two programs, at an address of the network and on
\* localhost, on a machine where nothing changes and nothing fails.
SPECIFICATION Spec
CONSTANTS
    Pid = {1, 2}
    Program = {"nginx", "monit"}
    IPv6 = {"::", "::1"}
    Socket <- MCNetworkAndLoopback
    Local = {"localhost", "::1", "::", "0.0.0.0"}
    UserOf <- MCUserOf
    ServesTLS = {"nginx"}
    HostKeys = {"rsa"}
    keyAlgos <- MCKeyAlgos
    MaxFaults = 0
    Nobody = "nobody"
INVARIANT TlsIsOfTheProcess
