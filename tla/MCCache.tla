------------------------------ MODULE MCCache ------------------------------
\* Instances of module Cache for TLC: TLC's configurations hold no negative
\* number.
EXTENDS Cache

Timeouts == {-1, 0, 1}
=============================================================================
