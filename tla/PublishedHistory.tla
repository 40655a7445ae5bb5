-------------------------- MODULE PublishedHistory --------------------------
(***************************************************************************)
(* What ADR-0037 promises of a policy: published versions form a history   *)
(* that only grows, each version names one document for good, the version  *)
(* in force is the last one published, and its number the largest.  It may *)
(* be more than one larger than the number before it: drafts that were     *)
(* discarded leave a gap.                                                  *)
(***************************************************************************)
EXTENDS Naturals

CONSTANTS Publishable, Seed     \* the documents that may be published; version 1

VARIABLES history, inForce      \* version |-> document; the version in force

vars == <<history, inForce>>

Init == history = [v \in {1} |-> Seed] /\ inForce = 1

Publish(d) ==
    /\ inForce' \in Nat /\ inForce' > inForce
    /\ history' = [v \in DOMAIN history \cup {inForce'} |->
                     IF v = inForce' THEN d ELSE history[v]]

Next == \E d \in Publishable : Publish(d)

Spec == Init /\ [][Next]_vars
=============================================================================
