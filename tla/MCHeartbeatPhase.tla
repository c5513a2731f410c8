--------------------------- MODULE MCHeartbeatPhase ---------------------------
\* HeartbeatPhase on a short clock.
EXTENDS HeartbeatPhase
=============================================================================
