CONSTANTS
    a = a
    x = x
    Names <- MCNames
    MaxDepth = 3
    Data = {x, Empty}
    Empty = Empty
    Torn = Torn
    Large = {x}
    TextNames = {a}
    Policies <- MCPolicies
    Trees <- MCTrees
    MaxOps = 2
    MaxFaults = 1
    NoMatch = NoMatch
SPECIFICATION Spec
INVARIANTS
    LinksNotFollowed
PROPERTIES
    AnswerTells
    FilesSafe
    
CHECK_DEADLOCK FALSE
