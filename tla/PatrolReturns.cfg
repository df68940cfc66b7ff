CONSTANTS
    a1 = a1  a2 = a2  a3 = a3  b1 = b1  r1 = r1  r2 = r2  ivan = ivan  phone = phone
    shift1 = shift1  shift2 = shift2
    Assignments = {a1, a2}
    Requests = {r1}
    Employees = {ivan}
    Accounts = {phone}
    t1 = t1  t2 = t2
    Txs = {t1, t2}
    RequestOf <- MCRequestOf
    EmployeeOf <- MCEmployeeOf
    ShiftOf <- MCShiftOf
    HolderOf <- MCHolderOf
    Bound <- MCBound
    BatchLimit = 2
    MaxLock = 3
SPECIFICATION Spec
SYMMETRY MCSymmetry
INVARIANT RequestMirrors
CHECK_DEADLOCK FALSE
