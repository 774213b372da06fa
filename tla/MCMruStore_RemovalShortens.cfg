SPECIFICATION Spec
CONSTANTS
    Instance = {i1, i2}
    Item = {a, b, c}
    Freed = freed
    Size = 2
SYMMETRY Symmetry
PROPERTY RemovalShortens
