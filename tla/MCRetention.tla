---------------------------- MODULE MCRetention ----------------------------
\* Instances of Retention.
EXTENDS Retention

MCMaxRoles == [t \in Tenant |-> IF t = 1 THEN 2 ELSE 1]

MCOffered == {[from |-> 0, to |-> 1], [from |-> 1, to |-> 3]}

\* A role for a school year, given in the middle of it.
MCBackdated == {[from |-> 0, to |-> 5]}
=============================================================================
