SPECIFICATION Spec
CONSTANTS
    Key = {k1, k2, k3, k4}
    Value = {v1, v2}
    Nothing = Nothing
    NoElement = NoElement
    ProbeLength = 2
    InitialCapacity = 2
    MaxCapacity = 8
INVARIANTS TypeOK MapExact SizeExact GrowthFits
SYMMETRY Symmetry
