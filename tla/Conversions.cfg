SPECIFICATION Spec
INVARIANTS FiltersAgree QueriesAgree PipelinesAgree DatesAgree ReportsAgree
CHECK_DEADLOCK FALSE
