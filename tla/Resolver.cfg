\* One name asked for by two, which may turn out to be an alias of another name, of
\* itself or of one that cannot be asked for; addresses of both types.
SPECIFICATION FairSpec
CONSTANTS
    Ctx = {q1, q2}
    Name = {a, b, bad}
    Wanted = {a}
    Malformed = {bad}
    Type = {A, AAAA}
    MaxRecursion = 1
    MaxQueries = 3
INVARIANTS WaitersAreListed ResendIsTimed AnswersAreOfOneQuery
PROPERTIES AskersEnd
CHECK_DEADLOCK FALSE
