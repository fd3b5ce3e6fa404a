---------------------------- MODULE MCLifecycle ----------------------------
\* Instances of Lifecycle.
EXTENDS Lifecycle, TLC

\* Neither the fairness nor a liveness property names a migrator.
Interchangeable == Permutations(Migrator)
=============================================================================
