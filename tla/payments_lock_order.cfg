CONSTANTS
    req1 = req1
    req2 = req2
    pay1 = pay1
    key1 = key1
    None = None
    Requests <- RequestSet
    PaymentIds <- PaymentSet
    Keys <- KeySet
SPECIFICATION Spec
INVARIANT LockHeldUntilCommit
