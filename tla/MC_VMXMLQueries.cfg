CONSTANTS
    a = a
    b = b
    vda = vda
    vdb = vdb
    NoValue = NoValue
    None <- NoValue
    Names <- MCNames
    Devs <- MCDevs
    NumaModes <- MCNumaModes
    Nodesets <- MCNodesets
    MaxDisks = 2
    DistinctTargets = TRUE
    ToolFaults = TRUE
SPECIFICATION Spec
SYMMETRY Symmetry
INVARIANT TypeOK
PROPERTY DiskCountCountsDisks
