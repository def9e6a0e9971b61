---------------------------- MODULE MCRouteGate ----------------------------
(***************************************************************************)
(* Small instances of RouteGate: one upstream target and what its calls    *)
(* may report.                                                             *)
(***************************************************************************)
EXTENDS RouteGate

CONSTANTS a1, a2

OneTarget == {[deployment |-> "d", credential |-> "c", model |-> "m", provider |-> "p"]}

Refused(reason) == [reason |-> reason, answered |-> TRUE, retryAfter |-> 0]
NoAnswer == [reason |-> "", answered |-> FALSE, retryAfter |-> 0]
BadAnswer == [reason |-> "", answered |-> TRUE, retryAfter |-> 0]

\* A quota refusal that names its own window, and a credential refusal.
LongRefusals == {[Refused("subscription_quota_exhausted") EXCEPT !.retryAfter = 14400],
                 Refused("invalid_credential")}
Outages == {NoAnswer, BadAnswer}
=============================================================================
