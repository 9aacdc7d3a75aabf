----------------------------- MODULE MCProfiles -----------------------------
\* Logins, pages and a probe that names its scanner.
EXTENDS Profiles

CONSTANTS p, q
Kind(auth, path, agent) == [auth |-> auth, path |-> path, agent |-> agent]
MCKinds == {Kind(TRUE, NoPath, FALSE), Kind(FALSE, p, FALSE),
            Kind(FALSE, q, FALSE), Kind(FALSE, p, TRUE)}
MCGaps == {0, 30}
=============================================================================
