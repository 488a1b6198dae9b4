--------------------------- MODULE MCInboundSync ---------------------------
(* Bounded instances of InboundSync for TLC. *)
EXTENDS InboundSync

\* Every chat already has its topic: reconcile has nothing to create.
MappedInit == Init /\ inbound = [c \in Chats |-> "enabled"]
MappedSpec == MappedInit /\ [][Next]_vars
MappedFairSpec == MappedSpec /\ Fairness
=============================================================================
