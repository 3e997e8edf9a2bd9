SPECIFICATION Spec
CONSTANTS
    c1 = c1
    c2 = c2
    c3 = c3
    p1 = p1
    p2 = p2
    empty = empty
    Calls <- MCCalls
    Spellings <- MCSpellings
    Strip <- MCStrip
    Lower <- MCLower
    Length <- MCLength
    Passwords <- MCPasswords
    EmptyPassword = empty
    Requests <- MCRequests
CHECK_DEADLOCK FALSE
INVARIANTS
    UserTypeOK
    OneAccountPerMailbox
    LoginIsTheWinners
    TakenHasACause
