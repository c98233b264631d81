SPECIFICATION Spec
CONSTANTS
    b0 = b0
    b1 = b1
    b2 = b2
    b3 = b3
    r1 = r1
    r2 = r2
    electrozone = electrozone
    netlab = netlab
    Batches = {b1, b2}
    Suppliers = {electrozone}
    Order <- One
    Roots = {r1, r2}
    RootOf <- MCRootOf
    RunNames <- Tasks
    RunNameOf <- MCRunNameOf
    RunIds <- MCRunIds
    RunIdOf <- NewCatalog
    Artifacts <- MCArtifacts
    ArtifactOf <- MCArtifactOf
    Installing = {b1, b2}
    NoRun = NoRun
    NoFile = NoFile
    MaxBatches = 2
    MaxCrashes = 0
INVARIANT ApprovalNamedByRunId
