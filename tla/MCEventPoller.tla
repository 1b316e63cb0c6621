--------------------------- MODULE MCEventPoller ---------------------------
(***************************************************************************)
(* Instances of EventPoller for TLC: the sources of the application.       *)
(***************************************************************************)
EXTENDS EventPoller, TLC

CONSTANTS core, contact, mail, u1, u2, u3

\* The contact and the mail source depend on the core source.
Dependencies == [s \in Source |-> IF s = core THEN {} ELSE {core}]

\* Core and account subscriber on core, the mail subscriber on mail; the
\* subscriber of the contact source is gone.
Subscribers ==
  [s \in Source |-> CASE s = core -> <<u1, u2>> [] s = mail -> <<u3>> [] OTHER -> << >>]

Changes == [s \in Source |-> CASE s = core -> 2 [] s = mail -> 1 [] OTHER -> 0]
=============================================================================
