SPECIFICATION Spec
CONSTANTS
    Creators = {c1}
    Verifiers = {v1, v2}
INVARIANT ConsumesNonce
