SPECIFICATION MCSpec
CONSTANTS
    Retries = {k1, k2, k3, k4}
    Nobody = Nobody
    Exports = {e1, e2}
    Workers = {w1, w2}
    MaxFaults = 3
    Runners = {r1, r2}
    MaxGen = 2
    Images <- MCImages
SYMMETRY MCSymmetry
INVARIANT OncePerLapse
INVARIANT SameAnswer
INVARIANT ExportsComeOut
PROPERTY SettlesOnce
INVARIANT MigratedOnce
