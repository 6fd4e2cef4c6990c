---------------------------- MODULE MCThrottle ----------------------------
(***************************************************************************)
(* Small instances of Throttle: one or two senders, hours and days of a    *)
(* few minutes.                                                            *)
(***************************************************************************)
EXTENDS Throttle, TLC

CONSTANTS a, b  \* senders

InOrder == [s \in Senders |-> IF s = a THEN 0 ELSE 1]

One == [s \in Senders |-> 1]
Two == [s \in Senders |-> 2]
Three == [s \in Senders |-> 3]
Many == [s \in Senders |-> 9]

\* Every sender is being warmed up, by one mail on the first day.
OneAtFirst == [s \in Senders |-> <<1>>]
NoWarmup == [s \in Senders |-> <<>>]

AllToA == [m \in Mails |-> a]

Interchangeable == Permutations(Tasks) \cup Permutations(Mails)
=============================================================================
