\* What README.md says of unexpected ports, where a query may break off.
SPECIFICATION Spec
CONSTANTS
    Scans <- MCServerScans
    Manifests <- MCManifests
    HasPrefix <- MCHasPrefix
    Like <- MCLike
    NoManifest = NoManifest
    MaxReadErrors = 1
INVARIANTS
    UnexpectedPortsFlagged
