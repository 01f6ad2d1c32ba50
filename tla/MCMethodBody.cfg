\* Bodies whose handlers follow a goto and are straight code.
SPECIFICATION Spec
CONSTANTS
    Bodies <- PlainBodies
    Exc <- MCExc
    Supers <- CatchTypes
    Arith <- MCArith
    Throwable <- MCThrowable
INVARIANTS
    
    EmitFollows
    VerifierSees
CHECK_DEADLOCK FALSE
