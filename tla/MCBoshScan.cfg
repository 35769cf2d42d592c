\* Two deployments and three machines.
SPECIFICATION Spec
CONSTANTS
    Deployment = {"cf", "mysql"}
    VM = {"router", "cell", "db"}
    VMsOf <- MCVMsOf
    NoOne = NoOne
INVARIANTS
    TypeOK NoPanic SessionsUnderAccount ReportIsScan NothingForgotten
PROPERTIES ImplementsCommand OthersSaved Ends
