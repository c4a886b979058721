SPECIFICATION Spec
CONSTANTS
    r1 = r1
    r2 = r2
    n1 = n1
    n2 = n2
    Requests <- MCRequests
    Names <- MCNames
    Outputs <- MCOutputs
    Recognizers = 2
    None = None
    Empty = Empty
    Torn = Torn
\* Every request ends and no other comes.
CHECK_DEADLOCK FALSE
INVARIANTS TypeOK OwnAudio FilesKept EnsembleFaithful AnswerClean
PROPERTIES RequestsEnd
