\* Keys that equals and hashKey agree on.
SPECIFICATION MapSpec
CONSTANTS
    Object <- PlainKeys
    Value = {v, w}
    Null = Null
    IntegerClass = "Integer"
    Wrappers <- Boxes
    OwnEquals <- Dates
SYMMETRY Values
INVARIANTS
    BuffersAgree
PROPERTIES
    ImplementsJavaMap
