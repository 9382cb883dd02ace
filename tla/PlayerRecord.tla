---------------------------- MODULE PlayerRecord ----------------------------
(***************************************************************************)
(* What storage promises of one player's data, without storage nodes,      *)
(* calls, quorums or permissions: the data are a register.  Sessions enter *)
(* one after the other; each begins with data, or is refused; makes others *)
(* of them, or not; and saves what it has then.  A session never begins    *)
(* with data older than the last save that was answered with success       *)
(* before it entered, nor older than what an earlier session began with,   *)
(* and only with data that were saved.                                     *)
(* UserStorage implements it when the saves come in turn.                  *)
(***************************************************************************)
EXTENDS Integers

CONSTANT
  NSessions   \* bound: the number of sessions

Sessions == 1..NSessions
None     == -4

VARIABLES
  stage,      \* of a session
  base,       \* of a session: the version its game began with
  saved,      \* of a session: the version it saved, or has asked to be saved
  latest,     \* the version of the last save that was answered with success
  expected    \* of a session: latest when its player entered

vars == <<stage, base, saved, latest, expected>>

Init ==
  /\ stage = [a \in Sessions |-> "none"]
  /\ base = [a \in Sessions |-> None]
  /\ saved = [a \in Sessions |-> None]
  /\ latest = 0
  /\ expected = [a \in Sessions |-> 0]

\* The session goes from one stage to another.
Goes(a, from, to) == stage[a] = from /\ stage' = [stage EXCEPT ![a] = to]

\* A session is appointed when the one before has begun or was refused.
Appoint(a) ==
  /\ Goes(a, "none", "appointed")
  /\ a - 1 \in Sessions => stage[a - 1] \notin {"none", "appointed", "reading"}
  /\ UNCHANGED <<base, saved, latest, expected>>

Enter(a) ==
  /\ Goes(a, "appointed", "reading")
  /\ expected' = [expected EXCEPT ![a] = latest]
  /\ UNCHANGED <<base, saved, latest>>

\* The versions that were saved before session a, or there in the beginning.
Known(a) == {0} \cup {saved[b] : b \in {b \in Sessions : b < a /\ saved[b] # None}}

Begin(a) ==
  /\ Goes(a, "reading", "playing")
  /\ \E v \in Known(a) :
       /\ v >= expected[a]
       /\ \A b \in Sessions : b < a => v >= base[b]
       /\ base' = [base EXCEPT ![a] = v]
  /\ UNCHANGED <<saved, latest, expected>>

\* What is saved is what the session began with, or its own version.
Save(a) ==
  /\ Goes(a, "playing", "saving")
  /\ \E v \in {base[a], a} : saved' = [saved EXCEPT ![a] = v]
  /\ UNCHANGED <<base, latest, expected>>

\* The data cannot be had, or are not approved.
Fail(a) ==
  /\ Goes(a, "reading", "failed") \/ Goes(a, "playing", "failed")
  /\ UNCHANGED <<base, saved, latest, expected>>

\* The save is answered, with success or not: others may still see what it saved.
End(a) ==
  /\ Goes(a, "saving", "over")
  /\ latest' \in {latest, saved[a]}
  /\ UNCHANGED <<base, saved, expected>>

Next == \E a \in Sessions :
  Appoint(a) \/ Enter(a) \/ Begin(a) \/ Save(a) \/ Fail(a) \/ End(a)

Spec == Init /\ [][Next]_vars
=============================================================================
