SPECIFICATION Spec
CONSTANTS
    Configs <- MCConfigs
    Sizes = {1, 64, 16777217, 20000001}
    PageSize = 4096
    FieldMax = 19999999
    MaxSpans = 2
INVARIANTS BlocksHold HeaderTells VerdictRight ConfigWorks
