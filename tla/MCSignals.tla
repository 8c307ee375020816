------------------------------ MODULE MCSignals ------------------------------
EXTENDS Signals
\* The text of an event matches one pattern or two, or none.
FewPatterns == {t \in SUBSET Patterns : Cardinality(t) <= 2}
=============================================================================
