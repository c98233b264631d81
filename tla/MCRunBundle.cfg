SPECIFICATION Spec
CONSTANTS
    Sorted <- MCSorted
    SealName = "seal"
    Stray = "stray"
    Alien = Alien
    Exposed = {"proposals", "seal", "stray"}
    MaxEdits = 2
    Nobody = Nobody
    NoRule = NoRule
    NoPrice = NoPrice
    NoTarget = NoTarget
    wide = wide
    mixed = mixed
    formula = formula
    torn = torn
    twice = twice
    k1 = k1
    k2 = k2
    approved = approved
    open = open
    wrong = wrong
    leaky = leaky
    st = st
    dash = dash
    line = line
    long = long
    Feeds = {wide, mixed, formula, torn, twice}
    ItemsOf <- MCItemsOf
    Catalogs = {k1, k2}
    ListedIn <- MCListedIn
    Profiles = {approved, open, wrong, leaky}
    ProfileOf <- MCProfileOf
    States = {st}
    Matched <- MCMatched
    Formulas = {dash}
    Torn = {line}
    TooLong <- MCTooLong
    Absent = Absent
    AskedFor <- MCAskedFor
    Moving <- MCMoving
    MaxMoves = 1
INVARIANTS
    PassMeansIntact
    PassMeansReproducible
    FailedForAReason
    ReadyPricesAreApproved
    EveryItemIsAccountedFor
