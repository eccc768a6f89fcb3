--------------------------- MODULE MCVerification ---------------------------
(* Small instances of Verification: two claims and two checks. *)
EXTENDS Verification, TLC

CONSTANTS c1, c2, k1, k2, q1, q2, q3

\* k1 speaks for both claims whatever the configuration, k2 for the second.
Specs ==
  k1 :> [claims |-> {c1, c2}, dependencies |-> {"CANDIDATE_SNAPSHOT"},
         mechanism |-> "COMMAND", type |-> "BROAD"]
  @@ k2 :> [claims |-> {c2}, dependencies |-> {"CANDIDATE_SNAPSHOT", "CONFIG_DIGEST"},
            mechanism |-> "JSON_ASSERTION", type |-> "POST_INTEGRATION"]

\* The first claim is established by checks alone, the second by a review too.
Kinds == c1 :> {"CHECK_RESULT"} @@ c2 :> {"CHECK_RESULT", "REVIEW"}

Requires(mode, claims, threshold, allow) ==
  [mode |-> mode, claims |-> claims, threshold |-> threshold, allow_waiver |-> allow]
AllOfTwo == q1 :> Requires("ALL", {c1, c2}, 0, FALSE)
EveryMode ==
  AllOfTwo @@ q2 :> Requires("ANY", {c1, c2}, 0, TRUE)
           @@ q3 :> Requires("THRESHOLD", {c1, c2}, 2, TRUE)

Reviews == { [claim |-> c2, kind |-> "REVIEW"] }
\* A waiver of the user, of a criterion, for one candidate and a time.
UserWaiver == { [scope |-> q2, bound |-> 0, expires |-> 1, issuer |-> "USER"] }
=============================================================================
