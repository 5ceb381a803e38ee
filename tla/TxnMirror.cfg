SPECIFICATION Spec
CONSTANTS
    Names <- MCNames
    Writes <- MCWrites
    Fold <- MCFold
    Env = {"refuse", "lose", "away", "mix"}
    MaxDepth = 4
INVARIANTS TypeOK Mirror PlanAccepted
