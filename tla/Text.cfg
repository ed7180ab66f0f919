SPECIFICATION MCSpec
CONSTANTS
    Starts <- MCStarts
    Groups = 4
    Octets = 2
    KeyLen = 4
    HostLen = 4
    Max32 = 99
    WG_KEY_LEN = 2
INVARIANTS
    SpansTile
    FieldsInSection
    ValuesExact
    
CHECK_DEADLOCK FALSE
