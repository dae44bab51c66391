CONSTANTS
    MaxDiagnostics = 8
    Counts <- MCCounts
SPECIFICATION Spec
INVARIANT DiagnosticsBounded
INVARIANT MarkerIffOmitted
INVARIANT ErrorsOutrankWarnings
INVARIANT ScanShare
INVARIANT IdentityReported
PROPERTY PriorityCostsOne
