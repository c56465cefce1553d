CONSTANTS
    Forms = {"quoted"}
    Kinds = {"template", "for", "foreach", "sort"}
    ForSorts = 2
    MaxStatements = 4
SPECIFICATION Spec
INVARIANTS SortKeysInOrder
CHECK_DEADLOCK FALSE
