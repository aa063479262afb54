CONSTANTS
    k1 = k1
    k2 = k2
    a = a
    b = b
    Nil = Nil
    EmptyName = ""
    Keys <- MCKeys
    StrVals <- OneVal
    Names <- PlainNames
    Scores <- ExactScores
    TtlArgs <- ShortTtl
    MaxWorks <- MCMaxWorks
    MaxTime <- MCMaxTime
    MaxLog <- ShortLog
    MaxRewrites <- OneRewrite
SPECIFICATION Spec
PROPERTIES
    RewriteKeepsTtl
