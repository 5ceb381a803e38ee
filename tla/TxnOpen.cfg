SPECIFICATION Spec
CONSTANTS
    Names <- MCNames
    Writes <- MCWrites
    Fold <- MCFold
    Env = {"refuse"}
    MaxDepth = 4
INVARIANT OpenIsPinned
