SPECIFICATION Spec
CONSTANTS
    Names <- MCNames
    Writes <- MCWrites
    Fold <- MCFold
    Env = {"lose"}
    MaxDepth = 3
PROPERTY AllOrNothing
