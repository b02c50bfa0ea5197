SPECIFICATION Spec
CONSTANTS
    Email = {here, there}
    Registration = {join}
    Edit = {edit}
    Reset = {reset}
    Login = {l1}
    SetsPassword = {}
    Fails = {reset, join}
    Profile = {plain}
    Bootstrap = Bootstrap
    FirstEmail = here
    FirstProfile = plain
    MaxStamp = 1
    MaxCalls = 3
    Gap = 1
    Absent = Absent
    Unknown = Unknown
INVARIANTS
    
    TokenKeepsOwner

    
    
CHECK_DEADLOCK FALSE
