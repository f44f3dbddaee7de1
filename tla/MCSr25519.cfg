CONSTANTS
    Caller = {c1, c2}
    Key = {k1}
    Context = {x1}
    Message = {m1, m2}
    Random = {r1, r2}
SYMMETRY Symmetry
SPECIFICATION Spec
INVARIANTS
    SrTypeOK
    WitnessOnce
    SignatureVerifies
