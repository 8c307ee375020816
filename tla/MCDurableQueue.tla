--------------------------- MODULE MCDurableQueue ---------------------------
EXTENDS DurableQueue, TLC
\* The jobs that nothing tells apart.
PlainJobs == Jobs \ (Retries \cup Deletable \cup Readable)
PlainSymmetry == Permutations(PlainJobs)
\* A bound: one POST at a time.
OnePost == Cardinality({j \in Jobs : submit[j] \in {"count", "insert", "commit", "inserted",
                                                    "commit known", "found"}}) <= 1
=============================================================================
