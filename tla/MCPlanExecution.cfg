SPECIFICATION Spec
CONSTANTS
    Cases <- MCCases
    Budget = 9
    Openers = 2
    Turns = 2
    Ahead = 2
    Attempts = 2
    Hops = 3
INVARIANTS
    SearchedAsAsked DepartBeforeSearch ReturnSparesDepart
PROPERTIES
    PlanEnds
