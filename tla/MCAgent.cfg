CONSTANTS
    MaxTap = 4
SPECIFICATION FairSpec
INVARIANTS
    FormWhenOut
    OneAgent
    NilOnlyAfterLogout
PROPERTIES
    LoginAnswered
