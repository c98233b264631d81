CONSTANTS
    fetch = fetch
    drop = drop
    monday = monday
    tuesday = tuesday
    file = file
    other = other
    Absent = Absent
    Fetches = {fetch}
    Drops = {drop}
    Editions = {monday, tuesday}
    LengthOf <- MCLengthOf
    Undated = {tuesday}
    Closing = 2
    MaxBlocks = 3
    Files = {file, other}
    MaxEdits = 2
    MaxTampers = 1
    MaxCrashes = 1
SPECIFICATION Spec
INVARIANTS ShelfHoldsWholeFeeds SuccessIsOwnFeed PartsHaveCause
SYMMETRY SourceFiles
