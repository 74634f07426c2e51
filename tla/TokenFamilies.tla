---------------------------- MODULE TokenFamilies ----------------------------
(***************************************************************************)
(* What refresh-token rotation promises (docs/detailed_design/auth/        *)
(* 02_jwt_auth.md, the state diagram of a token family), without Redis     *)
(* keys, clocks or concurrent requests: a login opens a family with one    *)
(* usable token, a refresh replaces that token by a new one of the same    *)
(* family, and a family that has lost its token never gets another.        *)
(***************************************************************************)
CONSTANTS Token, Family, NoFamily

VARIABLES
  fam,    \* the family each token was issued in, NoFamily before that
  usable  \* the tokens a refresh would accept

vars == <<fam, usable>>

Fresh(t)  == fam[t] = NoFamily
Opened(f) == \E t \in Token : fam[t] = f

Init ==
  /\ fam = [t \in Token |-> NoFamily]
  /\ usable = {}

\* login
Open(f, t) ==
  /\ ~Opened(f)
  /\ Fresh(t)
  /\ fam' = [fam EXCEPT ![t] = f]
  /\ usable' = usable \cup {t}

\* refresh
Advance(t, n) ==
  /\ t \in usable
  /\ Fresh(n)
  /\ fam' = [fam EXCEPT ![n] = fam[t]]
  /\ usable' = (usable \ {t}) \cup {n}

\* logout, expiry, reuse detection, revocation of everything a user has
Close(S) ==
  /\ usable' = usable \ S
  /\ UNCHANGED fam

Next ==
  \/ \E f \in Family, t \in Token : Open(f, t)
  \/ \E t, n \in Token : Advance(t, n)
  \/ \E S \in SUBSET usable : Close(S)

Spec == Init /\ [][Next]_vars
=============================================================================
