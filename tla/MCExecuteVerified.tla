-------------------------- MODULE MCExecuteVerified --------------------------
(***************************************************************************)
(* Small instances of ExecuteVerified for TLC.                             *)
(***************************************************************************)
EXTENDS ExecuteVerified

CONSTANTS first, second, third

\* One operation, created at time 0, executed by all the clients.
OneOperation ==
    [c \in Clients |-> [id |-> "refund", arguments |-> "500 cents", created_at |-> 0]]

\* The second client reuses the key for another amount.
Conflicting ==
    [c \in Clients |-> [id |-> "refund", created_at |-> 0, arguments |->
                          IF c = second THEN "900 cents" ELSE "500 cents"]]

OnTime == [c \in Clients |-> 0]
SecondBehind == [c \in Clients |-> IF c = second THEN 1 ELSE 0]
=============================================================================
