----------------------------- MODULE MCCheckout -----------------------------
(* Instances of Checkout for TLC.                                          *)
EXTENDS Checkout, TLC

CONSTANTS p1, p2, tw

\* One proxy in the country that is asked for, one without a country.
OneAbroad == p1 :> tw @@ p2 :> NoCountry

\* Bound: last picks are followed for the country asked for only. A rotating
\* call without one is checked up to its answer, and not continued from there.
LastPicksOfCountries == lastPicked[NoCountry] = Nil
=============================================================================
