--------------------------- MODULE MCOutboxTimely ---------------------------
(* The instance on which the hypothesis of BatchInLease holds.             *)
EXTENDS MCOutboxPublisher

\* Every instance is prompt, and the rounds of a batch fit in the lease.
ASSUME TimelyAssumption == Timely
=============================================================================
