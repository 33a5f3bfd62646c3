------------------------------- MODULE MCFeed -------------------------------
(* Instances of Feed for TLC: what the exchange lists *)
EXTENDS Feed

Windows == [g \in 1..4 |-> CASE g = 1 -> 15 [] g = 2 -> 60 [] g = 3 -> 120 [] g = 4 -> None]
Quarter(dead) ==
  [ticker |-> 1, series |-> "m15", gen |-> 1, strike |-> None, settles |-> TRUE, dead |-> dead]
Rung(t, g, k, dead) ==
  [ticker |-> t, series |-> "hourly", gen |-> g, strike |-> k, settles |-> TRUE, dead |-> dead]
Listing(markets, hour) == [markets |-> markets, window |-> Windows, hour |-> hour]

Hundreds(g) == { Rung(10 * g + i, g, 100 * i, FALSE) : i \in 0..2 }
Fifties(g) == { Rung(10 * g + i, g, 250 * i, FALSE) : i \in 0..2 }

\* one generation; two with different steps, selected either way; the special hour; a
\* generation settled in part; one without a readable window; dead or missing legs
OneOf == { Listing({Quarter(FALSE)} \cup Hundreds(2), "plain") }
AllOf == OneOf \cup
  { Listing({Quarter(FALSE)} \cup Hundreds(2) \cup Fifties(3), "plain"),
    Listing({Quarter(FALSE)} \cup Fifties(2) \cup Hundreds(3), "plain"),
    Listing({Quarter(FALSE)} \cup Fifties(2) \cup Hundreds(3), "special"),
    Listing({Quarter(FALSE)} \cup Hundreds(4) \cup Fifties(3), "special"),
    Listing({Quarter(FALSE), Rung(20, 2, 0, TRUE), Rung(21, 2, 100, FALSE), Rung(22, 2, 300, FALSE)}, "plain"),
    Listing({Quarter(FALSE), Rung(20, 2, None, FALSE), Rung(21, 2, 100, FALSE)}, "plain"),
    Listing({Quarter(FALSE), Rung(20, 2, 0, TRUE)} \cup Hundreds(3), "plain"),
    Listing({Quarter(TRUE)} \cup Hundreds(2), "plain"),
    Listing({Quarter(FALSE)}, "plain"),
    Listing({Quarter(FALSE), Rung(21, 2, None, FALSE)}, "plain") }
=============================================================================
