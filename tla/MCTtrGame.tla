----------------------------- MODULE MCTtrGame ------------------------------
(***************************************************************************)
(* A board of three cities: a double route, a tunnel and a ferry.          *)
(***************************************************************************)
EXTENDS TtrGame

MCColours == {"Red", "Blue"}
MCCities  == {"A", "B", "C"}

route(x, y, colour, len, tun, loc, pr) ==
  [a |-> x, b |-> y, color |-> colour, length |-> len, tunnel |-> tun, locos |-> loc, pair |-> pr]

MCRoute ==
  << route("A", "B", "Red",  1, FALSE, 0, 2),
     route("B", "A", Gray,   1, FALSE, 0, 1),
     route("B", "C", Gray,   1, TRUE,  0, NoRoute),
     route("A", "C", Gray,   2, FALSE, 1, NoRoute) >>

ticket(x, y, pts, lng) == [a |-> x, b |-> y, points |-> pts, long |-> lng]

MCTicket ==
  << ticket("A", "C", 8, TRUE), ticket("B", "C", 6, TRUE),
     ticket("A", "B", 2, FALSE), ticket("C", "B", 3, FALSE), ticket("A", "C", 4, FALSE),
     ticket("A", "B", 1, FALSE) >>

MCDeck == [c \in {"Red", "Blue", Loco} |-> CASE c = "Red" -> 3 [] c = "Blue" -> 2 [] OTHER -> 2]

MCTicketShuffles == {<<3, 4, 5, 6>>}
MCLongShuffles   == {<<1, 2>>}

=============================================================================
