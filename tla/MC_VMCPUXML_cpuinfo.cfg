CONSTANTS
    f1 = f1
    f2 = f2
    NoValue = NoValue
    None <- NoValue
    FeatureNames <- MCFeatureNames
    Indices <- MCIndices
    LineLengths <- MCLineLengths
    MaxFeatures = 3
    MaxLines = 2
SPECIFICATION Spec
SYMMETRY Symmetry
PROPERTY CheckFeatureNameMatchesCpuinfo
