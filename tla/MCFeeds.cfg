CONSTANTS
    Jobs <- MCJobs
    Scans <- MCScans
SPECIFICATION FeedsSpec
INVARIANTS PathsAreWhole SnapshotIsTheFeed VerdictIsDeserved StatsMatchEmission
PROPERTIES EveryParseEnds ParseAdvances
