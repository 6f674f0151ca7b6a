----------------------------- MODULE MCAccounts -----------------------------
(***************************************************************************)
(* Accounts on small instances; ids are interchangeable.  Two parts, to    *)
(* keep each small: one driver, whose application goes through everything, *)
(* beside operators; and several drivers, who apply for nothing, and the   *)
(* codes they are given.                                                   *)
(***************************************************************************)
EXTENDS Accounts, TLC

VARIABLE part

Symmetry == Permutations(Drivers) \cup Permutations(Phones) \cup Permutations(Codes)
              \cup Permutations(Slots)

Alone  == \A d, e \in Drivers : d # e => "NONE" \in {user[d].status, user[e].status}
Coded  == /\ \A o \in Operators : user[o].status = "NONE"
          /\ \A d \in Drivers : /\ app[d].status \in {"NONE", "DRAFT", "APPROVED"}
                                /\ app[d].parts \subseteq {"data"} /\ d \notin stripped \cup trip
          /\ \A s \in Slots : req[s].pc \notin {"patch", "document"}

MCInit == Init /\ part \in {"application", "codes"}
MCNext == Next /\ UNCHANGED part /\ IF part = "application" THEN Alone' ELSE Coded'
MCSpec == MCInit /\ [][MCNext]_<<vars, part>>
=============================================================================
