------------------------- MODULE MC_RequestSession -------------------------
(* Instances of RequestSession for TLC. *)
EXTENDS RequestSession

\* Below, at and above the two bytes kept, in one chunk and in several.
MCLogs == {<< >>, << <<1>>, <<2>> >>, << <<1>>, <<2, 3>> >>}

MCTimeouts == {None, 2}

Absent == [held |-> FALSE, verifies |-> FALSE, groups |-> {}]
Unverified == [Absent EXCEPT !.held = TRUE]
Verified(groups) == [held |-> TRUE, verifies |-> TRUE, groups |-> groups]

\* No token; an expired ID token before a good access token; a user before an admin.
MCHeaders == {<<Absent, Absent, Absent>>, <<Unverified, Verified({"/cluster-admins"}), Absent>>,
              <<Verified({"users"}), Absent, Verified({"cluster-admins"})>>}

MCTokenReviews ==
  [error: {FALSE}, authenticated: BOOLEAN, audience: BOOLEAN, username: {TRUE}]
  \cup {[error |-> TRUE, authenticated |-> FALSE, audience |-> FALSE, username |-> FALSE]}

MCAccessReviews == [error: BOOLEAN, allowed: BOOLEAN, evaluationError: BOOLEAN]
=============================================================================
