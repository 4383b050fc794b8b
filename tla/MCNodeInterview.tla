-------------------------- MODULE MCNodeInterview --------------------------
(* Instances of NodeInterview for TLC. *)
EXTENDS NodeInterview

\* Everything listed has a rule.
AllKnown == [e \in Endpoints |-> {"AttributeList", "OnOff"}]

\* The first endpoint lists an attribute without one.
FirstUnknown == [e \in Endpoints |-> {"AttributeList", "OnOff"} \cup IF e = 0 THEN {"EventList"} ELSE {}]
=============================================================================
