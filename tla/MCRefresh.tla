----------------------------- MODULE MCRefresh -----------------------------
EXTENDS Refresh, TLC

CONSTANTS u, v, p, q

\* One player of two has linked his account, and there is one more.
MCLinked == p :> u @@ q :> Nobody
=============================================================================
