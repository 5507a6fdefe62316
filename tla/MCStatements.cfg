CONSTANTS
    x = x
    p = p
    y = y
    i = i
    Names <- MCNames
    Expressions <- MCExpressions
    Lists <- MCLists
    Height <- MCHeight
    Size <- MCSize
    MaxSize = 12
    Parameters <- MCParameters
    Valuations <- MCValuations
    SuccessSort = "Int"
    ErrorTags = {"E"}
    EffectSources <- MCEffectSources
    Sources <- MCSources

SPECIFICATION Spec

INVARIANTS
    PathsAgree

\* A rejected source is not run, and a call ends.
CHECK_DEADLOCK FALSE
