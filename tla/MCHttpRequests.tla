--------------------------- MODULE MCHttpRequests ---------------------------
\* An instance of HttpRequests for TLC: one weak pair and one other.
EXTENDS HttpRequests

MCWeak == {<<"admin", "admin">>}
MCPosted == MCWeak \cup {<<"admin", "secret">>}
=============================================================================
