----------------------------- MODULE DecideOnce -----------------------------
(***************************************************************************)
(* What this system promises of everything it decides once and for all: an *)
(* open case gets one outcome, and keeps it.  A file request and the       *)
(* admin's answer, an application and its review, a quotation request and  *)
(* its first contact are such cases (BUSINESS_RULES.md, rule 5).           *)
(***************************************************************************)
CONSTANTS Cases, Outcomes, Open

VARIABLE decision

Init == decision = [c \in Cases |-> Open]

Decide(c, o) == /\ decision[c] = Open
                /\ decision' = [decision EXCEPT ![c] = o]

Next == \E c \in Cases, o \in Outcomes : Decide(c, o)

Spec == Init /\ [][Next]_decision
=============================================================================
