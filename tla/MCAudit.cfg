\* Up to two processes on up to two hosts, against hand-written and generated manifests.
SPECIFICATION Spec
CONSTANTS
    Scans <- MCScans
    Manifests <- MCManifests
    HasPrefix <- MCHasPrefix
    Like <- MCLike
    NoManifest = NoManifest
    MaxReadErrors = 1
INVARIANTS
    TypeOK OKMeansConforming NoHostSkipped GeneratedPasses DriftDetected
