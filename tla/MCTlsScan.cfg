\* Four tasks, two at a time.
SPECIFICATION Spec
CONSTANTS
    Version = {"TLS11", "TLS12"}
    Suite = {"rsa", "ecdhe"}
    Serves = {"TLS11", "TLS12"}
    Accepts <- MCAccepts
    MaxInFlight = 2
INVARIANTS
    TypeOK TasksAccounted NoPanic ResultsExact
PROPERTY AllEnd
