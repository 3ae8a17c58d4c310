\* Mongo: concurrent checkouts of one assignment; two of them, three changes by others.
SPECIFICATION Spec
CONSTANTS
    p1 = p1
    p2 = p2
    tw = tw
    Proxies = {p1, p2}
    Domains = {shop}
    Callers = {c1, c2}
    Rotators = {}
    Watched = {}
    Countries = {tw}
    FirstCountry <- OneAbroad
    NoCountry = NoCountry
    Nil = Nil
    IsMongo = TRUE
    SilentErrors = FALSE
    MaxChanges = 3
PROPERTIES
    AssignmentsSettle
