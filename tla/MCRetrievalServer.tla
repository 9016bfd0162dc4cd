-------------------------- MODULE MCRetrievalServer --------------------------
\* Calls, threads and contents are interchangeable.
EXTENDS RetrievalServer, TLC

Alike == Permutations(Call) \cup Permutations(Worker) \cup Permutations(Text)
=============================================================================
