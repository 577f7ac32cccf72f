---------------------------- MODULE MCRestaurant ----------------------------
EXTENDS Restaurant

CONSTANTS k1, k2, c1, c2   \* threads, as model values

TwoCooks == {k1, k2}

TwoClients == {c1, c2}
=============================================================================
