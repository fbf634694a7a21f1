----------------------------- MODULE MCReports -----------------------------
(***************************************************************************)
(* A suite of a base case and a variant, run whole, one case of it run     *)
(* twice, a case that does not exist, and a look without a run.            *)
(***************************************************************************)
EXTENDS Reports

Suite == <<"refund", "refund/already_refunded">>
Every == {"jsonl", "json", "junit", "text"}

Asking(only, repeat, asked, mode) ==
    [cases |-> Suite, only |-> only, repeat |-> repeat, asked |-> asked, mode |-> mode]

MCCommands ==
    {Asking("all", 1, Every, "run"), Asking("refund", 2, {"jsonl", "junit"}, "run"),
     Asking("refund", 1, {}, "run"), Asking("absent", 1, Every, "run"),
     Asking("all", 1, {"json"}, "validate"), Asking("refund", 1, {}, "list")}
=============================================================================
