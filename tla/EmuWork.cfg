CONSTANTS
    one = one  two = two  anna = anna  boris = boris  web = web  phone = phone
    Sessions = {one, two}
    Employees = {anna, boris}
    Slots = {web, phone}
    MaxVersion = 3
    MaxChanges = 3
    MaxRows = 3
SPECIFICATION Spec
SYMMETRY Symmetric
INVARIANT TypeOK
INVARIANT OneWorkAtATime
INVARIANT CompletedIsClosed
INVARIANT OneOpenInterval
CHECK_DEADLOCK FALSE
