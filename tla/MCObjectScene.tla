--------------------------- MODULE MCObjectScene ---------------------------
\* An instance of ObjectScene with both kinds of stream: of dynamic objects
\* only, which falls silent, and with a static role beside them. A quantum has
\* any objects that three slots can hold, in every order, or is one request of
\* every kind that is refused.
EXTENDS ObjectScene

MCIds == 1 .. 4
MCServed == UNION {{ids \in [1 .. n -> MCIds] : Distinct(ids)} : n \in 0 .. 3}
MCRequests == MCServed \cup {<<Free>>, <<1, Free>>, <<2, 2>>, <<4, 3, 2, 1>>}
=============================================================================
