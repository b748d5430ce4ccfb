--------------------------- MODULE MCFaultLabPage ---------------------------
EXTENDS FaultLabPage

\* Bound: what goes wrong goes wrong after a clear has been written, not while
\* it is between its check and its write nor before.
ClearsBeforeMishaps == (\E r \in requests : r.at = "checked") => used.mishaps = 0
=============================================================================
