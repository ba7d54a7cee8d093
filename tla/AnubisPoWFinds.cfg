CONSTANTS
    Workers = 2
    MaxNonce = 2
SPECIFICATION Spec
INVARIANTS
    FindsNonce
