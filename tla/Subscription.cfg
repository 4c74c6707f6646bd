SPECIFICATION Spec
CONSTANTS
    Events = {e1, e2}
    Deliveries = {d1, d2}
    Tabs = {t1, t2}
    MaxCustomers = 2
INVARIANTS
    EventsFindTheirAccount
    NewestRules
    AnsweredMeansLanded
    ReadersAgree
SYMMETRY Identities
