SPECIFICATION UpdateSpec
CONSTANTS
    MaxVersion = 2
    MaxFiles = 2
    NoFile = NoFile
    PolicyOf <- MCPolicyOf
    Missing = Missing
    Custom = Custom
    NoRelease = NoRelease
    MaxEdits = 1
INVARIANTS Recoverable ApprovedIsShown CompleteMeansInstalled PolicyInstalledTruthful
PROPERTY ImplementsReplacement
CONSTRAINT Bound
