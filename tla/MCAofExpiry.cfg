CONSTANTS
    k1 = k1
    k2 = k2
    a = a
    b = b
    Nil = Nil
    EmptyName = ""
    Keys <- MCKeys
    StrVals <- MCStrVals
    Names <- PlainNames
    Scores <- ExactScores
    TtlArgs <- DueTtl
    MaxWorks <- MCMaxWorks
    MaxTime <- MCMaxTime
    MaxLog <- MCMaxLog
    MaxRewrites <- NoRewrite
SPECIFICATION Spec
INVARIANTS
    ReplayReproducesStore
