CONSTANTS
    SD_BUF_FUDGE = 6
    SD_BUF_INCR = 12
    XI_BUFSIZ = 10
    XI_BUFSIZ_COPY_WHEN = 7
    XI_BUFSIZ_MIN = 4
    MaxTokens = 5
    Libraries <- MCLibraries
    PrefixLinks <- MCPrefixLinks
    Environment <- MCEnvironment
    BuiltinDir = "lib"
    SlaxUri = "slax"
    Scripts <- MCScripts
    Directories = {"d", "other"}
    OneLetter = {"d"}
    Space = 32
    Percent = 37
    Zero = 48
    Suffix = 1
    MaxCalls = 5
SPECIFICATION MCSpec
INVARIANTS TokensAsWhole OutputReadsBack StackIsPath EnableNests JsonReadsBack YamlNests
PROPERTIES LexedAsWhole TextCovered TokensAdvance ScriptsArrive
CHECK_DEADLOCK FALSE
