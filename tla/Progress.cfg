\* Every component under the fairness of its threads; a service may be stopped for good.
SPECIFICATION Spec
CONSTANTS
    None = None
    c1 = c1
PROPERTIES
    RequestsAreServed
    NewsIsActedOn
    WorkersEnd
CHECK_DEADLOCK FALSE
