CONSTANTS
    Forms = {"quoted", "block", "two", "ternary", "default"}
    Kinds = {"comment", "import", "template", "main", "var", "param", "varblock", "expr",
             "element", "if", "elseif", "else", "foreach", "for", "sort", "call", "with",
             "message", "trace"}
    ForSorts = 1
    MaxStatements = 4
SPECIFICATION Spec
INVARIANTS StatementsReadBack Scoped ImportsFirst
CHECK_DEADLOCK FALSE
