\* One query that fails after it began.
SPECIFICATION ReportsSpec
CONSTANTS
    Command = {"bosh-scan"}
    Batch <- MCOne
    NoPath = ""
    NoTLS = NoTLS
    AsNumber <- MCAsNumber
    HostName <- MCHostName
    PortColumns <- MCPortColumns
    UserColumn <- MCUserColumn
    Internal = {"127.0.0.1"}
    JobsFiles = {"/var/vcap/data/jobs/conf"}
    WorldReadable = {"/var/vcap/data/jobs/conf", "/bin/sh"}
    Recommended = {"ecdhe"}
    MaxReadErrors = 1
INVARIANT ViolationsFail
