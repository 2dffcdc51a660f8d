CONSTANTS
    Configs <- MCGroupConfigs
    Firsts <- MCGroupConfigs
    Archives <- MCArchives
    Hosts <- MCHosts
    Ids = {1}
    Nil = Nil
    MaxNodes = 2
SPECIFICATION RootfsSpec
INVARIANT ServedIsAsked
CHECK_DEADLOCK FALSE
