--------------------------- MODULE MCEventManager ---------------------------
(***************************************************************************)
(* Instances of EventManager for TLC.                                      *)
(***************************************************************************)
EXTENDS EventManager, TLC

CONSTANTS core, mail, a, b

\* The mail source depends on the core source; a and b on each other.
Dependencies == (core :> {}) @@ (mail :> {core}) @@ (a :> {b}) @@ (b :> {a})
=============================================================================
