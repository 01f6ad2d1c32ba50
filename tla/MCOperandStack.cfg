SPECIFICATION Spec
CONSTANTS
    Kinds <- AllKinds
    MaxStack = 4
    MaxLocals = 2
    MaxLive <- TwoOfSome
    Signatures <- SomeSignatures
    Avoided <- KnownDrift
INVARIANTS
    InterpMatches
    EmitMatches
    VerifierMatches
