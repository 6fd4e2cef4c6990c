----------------------------- MODULE MCDelivery -----------------------------
(***************************************************************************)
(* Small instances of Delivery.                                            *)
(***************************************************************************)
EXTENDS DeliveryInvariant, TLC

\* Every campaign has a job.
Spread == CHOOSE f \in [Jobs -> Campaigns] : \A c \in Campaigns : \E j \in Jobs : f[j] = c

\* Tasks, and requests, are interchangeable.
Interchangeable == Permutations(Tasks) \cup Permutations(Requests)
=============================================================================
