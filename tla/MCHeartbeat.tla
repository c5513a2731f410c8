------------------------------ MODULE MCHeartbeat ------------------------------
\* Heartbeat on small instances; the identifiers are model values.
EXTENDS Heartbeat
=============================================================================
