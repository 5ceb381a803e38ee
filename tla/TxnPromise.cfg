SPECIFICATION Spec
CONSTANTS
    Names <- MCNames
    Writes <- MCWrites
    Fold <- MCFold
    Env = {}
    MaxDepth = 4
PROPERTIES AllOrNothing Promised
