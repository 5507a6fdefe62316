CONSTANTS
    m = m
    e = e
    n = n
    Number = n
    None = None
    Words <- MCWords
    Commands <- MCCommands
    Modules <- MCSettingModules

SPECIFICATION FairSpec

INVARIANTS
    VerifiedExitsZero

