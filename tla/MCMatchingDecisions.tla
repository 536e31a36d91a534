------------------------ MODULE MCMatchingDecisions ------------------------
(***************************************************************************)
(* The two endpoints decide, in either order.                              *)
(***************************************************************************)
EXTENDS MCMatching

VARIABLES
    situation,    \* what the applications ask for
    decided       \* the decisions made so far, by endpoint
matchingVars == <<situation, decided>>

Init == situation \in Situations /\ decided = [e \in {} |-> e]
Decide(e, decisions) ==
    /\ e \notin DOMAIN decided
    /\ \E d \in decisions : decided' = decided @@ e :> d
    /\ UNCHANGED situation
Next ==
    \/ Decide("writer", WriterDecision(situation))
    \/ Decide("reader", ReaderDecision(situation))
Spec == Init /\ [][Next]_matchingVars

\* A Writer takes a Reader only if the QoS it offers complies with the QoS the
\* Reader was created with, by the rules in the comments of
\* compliance_failure_wrt_impl, and a Reader a Writer.
MatchedComplies ==
    \A e \in DOMAIN decided :
        decided[e] = <<>> => Complies(writer_qos(situation), reader_qos(situation))
=============================================================================
