CONSTANTS
    k1 = k1
    k2 = k2
    a = a
    b = b
    Nil = Nil
    EmptyName = ""
    Keys <- MCKeys
    StrVals <- MCStrVals
    Names <- WithEmptyName
    Scores <- InexactScores
    TtlArgs <- NoTtl
    MaxWorks <- MCMaxWorks
    MaxTime <- MCMaxTime
    MaxLog <- MCMaxLog
    MaxRewrites <- TwoRewrites
SPECIFICATION Spec
PROPERTIES
    RewriteReproducesStore
