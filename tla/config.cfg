SPECIFICATION Spec
CONSTANTS
    PDBS_CONFIG_ARRAY_LEN = 3
    Configs = {c1, c2}
    Erased = Erased
    MaxLosses = 3
INVARIANTS ReadsLastWritten OneValid WritesErased
PROPERTY RegisterSpec
