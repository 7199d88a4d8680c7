------------------------------- MODULE Session -------------------------------
(***************************************************************************)
(* What a Twitch IRC client session promises to the program that holds it, *)
(* without streams, buffers or timers.  A session is dialled once and may  *)
(* then be redialled any number of times.  It is linked only between a     *)
(* completed dial or redial and the moment a later redial has replaced the *)
(* connection.  A redial makes at most MaxTries attempts, and it reports   *)
(* that it ran out of attempts only when it did.                           *)
(*                                                                         *)
(* Client.tla implements this specification (see Client!Promise).          *)
(***************************************************************************)
EXTENDS Naturals

CONSTANTS
  MaxTries,    \* Backoff::max_tries: a number, or Unlimited
  Unlimited,   \* the value that stands for Option::None
  AttemptCap   \* bound: the count of attempts saturates here

VARIABLES
  stage,    \* "absent", "connecting", "held" or "reconnecting"
  linked,   \* the handshake was completed on the present connection
  spent,    \* attempts the present or latest redial has made
  verdict   \* how the latest dial or redial ended, "none" since or before then

sessionVars == <<stage, linked, spent, verdict>>

Saturate(n) == IF n < AttemptCap THEN n + 1 ELSE n

-----------------------------------------------------------------------------

SessionInit ==
  /\ stage = "absent"
  /\ linked = FALSE
  /\ spent = 0
  /\ verdict = "none"

Dial ==
  /\ stage = "absent"
  /\ stage' = "connecting"
  /\ verdict' = "none"
  /\ UNCHANGED <<linked, spent>>

(* A dial that fails leaves no session behind. *)
DialFails ==
  /\ stage \in {"absent", "connecting"}
  /\ stage' = "absent"
  /\ linked' = FALSE
  /\ verdict' \in {"exhausted", "refused", "dropped"}
  /\ UNCHANGED spent

(* The only way to become linked: from an unlinked session, and during a   *)
(* redial only in one of its attempts.                                     *)
Link ==
  /\ ~linked
  /\ \/ stage = "connecting"
     \/ stage = "reconnecting" /\ spent > 0
  /\ stage' = "held"
  /\ linked' = TRUE
  /\ verdict' = "linked"
  /\ UNCHANGED spent

Redial ==
  /\ stage = "held"
  /\ MaxTries # 0
  /\ stage' = "reconnecting"
  /\ spent' = 0
  /\ verdict' = "none"
  /\ UNCHANGED linked

(* A redial that is allowed no attempt is refused on the spot. *)
Refuse ==
  /\ stage = "held"
  /\ MaxTries = 0
  /\ spent' = 0
  /\ verdict' = "refused"
  /\ UNCHANGED <<stage, linked>>

Attempt ==
  /\ stage = "reconnecting"
  /\ MaxTries # Unlimited => spent < MaxTries
  /\ spent' = Saturate(spent)
  /\ UNCHANGED <<stage, linked, verdict>>

(* The new connection replaces the old one before it is linked. *)
Unlink ==
  /\ stage = "reconnecting"
  /\ spent > 0
  /\ linked' = FALSE
  /\ UNCHANGED <<stage, spent, verdict>>

GiveUp ==
  /\ stage = "reconnecting"
  /\ \/ verdict' = "exhausted" /\ spent = MaxTries
     \/ verdict' = "refused" /\ spent > 0
     \/ verdict' = "dropped"
  /\ stage' = "held"
  /\ UNCHANGED <<linked, spent>>

(* Sending or receiving: the verdict on the last dial is no longer shown. *)
Use ==
  /\ stage = "held"
  /\ verdict' = "none"
  /\ UNCHANGED <<stage, linked, spent>>

SessionNext ==
  \/ Dial \/ DialFails \/ Link
  \/ Redial \/ Refuse \/ Attempt \/ Unlink \/ GiveUp
  \/ Use

SessionSpec == SessionInit /\ [][SessionNext]_sessionVars
=============================================================================
