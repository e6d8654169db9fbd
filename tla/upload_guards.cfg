SPECIFICATION Spec
SYMMETRY Symmetry
CONSTANTS
    Admins = {a1, a2}
    Captcha = TRUE
    Exts = {exe, gz}
    Amounts = {1, 2}
    DefaultAmount = 1
    Null = Null
    MaxChanges = 2
INVARIANTS
    RulesHold
    RefusedForAReason
    ListAsAnswered
