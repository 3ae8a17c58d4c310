\* Postgres: two proxies, one of them in the country asked for, two
\* concurrent checkouts, two changes made by others.
SPECIFICATION Spec
CONSTANTS
    p1 = p1
    p2 = p2
    tw = tw
    Proxies = {p1, p2}
    Domains = {shop}
    Callers = {c1, c2}
    Rotators = {c1}
    Watched = {c1}
    Countries = {tw}
    FirstCountry <- OneAbroad
    NoCountry = NoCountry
    Nil = Nil
    IsMongo = FALSE
    SilentErrors = FALSE
    MaxChanges = 2
CONSTRAINT LastPicksOfCountries
INVARIANTS
    HandedOutWasEligible
    RefusedOnlyWithoutEligible
    CountryPreferred
    StickyWhileEligible
