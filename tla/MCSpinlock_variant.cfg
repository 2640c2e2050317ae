\* ctx->lock, always taken with irqlNthrVariant: TLC finds a release using the other variant.
CONSTANTS
    c1 = c1  c2 = c2  c3 = c3
    CPUs <- MCCPUs
    Variants = {TRUE}
    MaxRounds = 2
SPECIFICATION Spec
SYMMETRY CPUSymmetry
INVARIANT ReleaseUsesOwnVariant
