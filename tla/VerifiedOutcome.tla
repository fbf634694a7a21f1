--------------------------- MODULE VerifiedOutcome ---------------------------
(***************************************************************************)
(* What execute_verified promises, without the protocol: each operation    *)
(* key meets its fate at most once, and a caller is told a definite        *)
(* outcome of its request only when that is the fate it met.  A failure    *)
(* is the service's word: it does not promise that nothing was done.       *)
(* Telling "unknown" or "pending" is always allowed.                       *)
(***************************************************************************)
CONSTANTS Clients, Ids, Key, Arguments

VARIABLES fate, told

Definite == {"confirmed_success", "confirmed_failure", "partial", "contract_violation"}

\* The fates a definite outcome stands for.
Supports(f, verdict) ==
    CASE verdict = "confirmed_success" ->
            f.status = "succeeded" /\ f.amount = "full" /\ f.effects = 1
      [] verdict = "contract_violation" ->
            f.status = "succeeded" /\ (f.amount # "full" \/ f.effects # 1)
      [] verdict = "confirmed_failure" -> f.status = "failed"
      [] verdict = "partial" -> f.status = "partial" /\ f.effects = 1
      [] OTHER -> TRUE

Init ==
    /\ \A i \in Ids : fate[i].status = "not_found" /\ fate[i].effects = 0
    /\ told = [c \in Clients |-> "open"]

\* A key meets its fate, or a pending one is settled; a fate is final.
Meet(i) ==
    /\ fate[i].status \in {"not_found", "pending"}
    /\ fate'[i].status # "not_found"
    /\ fate[i].status = "pending" => fate'[i].arguments = fate[i].arguments
    /\ fate'[i].effects \in {0, 1}
    /\ \A j \in Ids \ {i} : fate'[j] = fate[j]
    /\ UNCHANGED told

Tell(c, verdict) ==
    /\ told[c] = "open"
    /\ verdict \in Definite =>
          /\ fate[Key[c]].arguments = Arguments[c]
          /\ Supports(fate[Key[c]], verdict)
    /\ told' = [told EXCEPT ![c] = verdict]
    /\ UNCHANGED fate

Next == \/ \E i \in Ids : Meet(i)
        \/ \E c \in Clients, verdict \in Definite \cup {"pending", "unknown"} :
              Tell(c, verdict)

Spec == Init /\ [][Next]_<<fate, told>>
=============================================================================
