CONSTANTS
    Visits <- MCVisits
    CookieName <- MCName
    MaxTime = 2
SPECIFICATION VisitorSpec
CHECK_DEADLOCK FALSE
INVARIANTS LastValueWins QueryCarries
PROPERTIES SameVisitor RequestAnswered
