CONSTANTS
    Requests <- MCRequests
    RulePool <- MCRulePool
    MaxRules = 3
    ObjectLimit = 2
    DayLength = 3
    None = None
SPECIFICATION Spec
INVARIANTS TypeOK WindowMeetsReference EvaluateMeetsReference UnattendedMutation
PROPERTY PoliciesOnlyRestrict
