----------------------------- MODULE SignInFlow -----------------------------
(***************************************************************************)
(* What one press of "sign in with Google" promises, without Redis keys,   *)
(* tables, browsers or concurrent requests (docs/basic_design/03_auth.md,  *)
(* the OAuth sequence): a start is answered at most once, gives at most    *)
(* one hand-off code, and ends in at most one credential.                  *)
(***************************************************************************)
CONSTANT Start

VARIABLE phase

Follows(p) ==
  CASE p = "unused"     -> {"open"}
    [] p = "open"       -> {"working", "over"}
    [] p = "working"    -> {"handed", "granted", "over"}
    [] p = "handed"     -> {"exchanging", "over"}
    [] p = "exchanging" -> {"granted", "over"}
    [] p = "granted"    -> {"over"}
    [] OTHER            -> {}

Init == phase = [s \in Start |-> "unused"]

\* Deactivating a user ends every sign-in of that user at once
Next ==
  /\ DOMAIN phase' = Start
  /\ \A s \in Start : phase'[s] \in Follows(phase[s]) \cup {phase[s]}

Spec == Init /\ [][Next]_phase
=============================================================================
