SPECIFICATION Spec
CONSTANTS
    tls11 = tls11
    tls12 = tls12
    Version <- MCVersion
    Negotiates <- MCNegotiates
    Serves <- MCServes
    Requests <- MCRequests
INVARIANTS
    TypeOK
    SupportedIsServed
    AnswerIsNegotiation
    OneConnection
PROPERTY
    AllEnd
