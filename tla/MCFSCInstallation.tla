-------------------------- MODULE MCFSCInstallation --------------------------
(***************************************************************************)
(* The FSCInstallations of a namespace for TLC: either two installations   *)
(* while nothing fails, or one installation with failures, restarts and    *)
(* changes behind the operator's back.                                     *)
(***************************************************************************)
EXTENDS FSCInstallation

CONSTANTS g1

\* Specifications without a gateway, with one, and with one that is set up otherwise.
FewSpecs ==
    {[gateways |-> {}, mode |-> "Self"],
     [gateways |-> {g1}, mode |-> "Self"],
     [gateways |-> {g1}, mode |-> "External"]}

Others(o) == {n \in Names \ {1} : o[n] # Gone}

\* Without ties in age the names are interchangeable, and the first to be created is 1.
MCNext ==
    /\ Next
    /\ events' > 0 \/ prereqs' = "missing" => Others(obj') \cup Others(seen') = {}
    /\ ~Ties /\ changes' = 1 => Others(obj') = {}

MCSpec == Init /\ [][MCNext]_vars /\ Fairness
=============================================================================
