\* Two commands on the same file with four reports, and the report command.
SPECIFICATION ReportsSpec
CONSTANTS
    Command = {"bosh-scan", "direct-scan"}
    Batch <- MCBatch
    NoPath = ""
    NoTLS = NoTLS
    AsNumber <- MCAsNumber
    HostName <- MCHostName
    PortColumns <- MCPortColumns
    UserColumn <- MCUserColumn
    Internal = {"127.0.0.1"}
    JobsFiles = {"/var/vcap/data/jobs/conf"}
    WorldReadable = {"/var/vcap/data/jobs/conf", "/bin/sh"}
    Recommended = {"ecdhe"}
    MaxReadErrors = 1
INVARIANTS
    ReportsTypeOK ReportsWhole OpenedComplete OneWriter CleanMeansClean
PROPERTIES SavedStays ShowsTheSaved
