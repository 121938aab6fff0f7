-------------------------- MODULE AnsweredStopList --------------------------
(***************************************************************************)
(* What the admin API promises of the stop-list: a set of terms in which   *)
(* every update happens at one instant between its request and its answer, *)
(* the answer tells what happened at that instant, and an error means that *)
(* nothing did.  A crash takes all answers that are not written yet, those *)
(* of updates that are made, too; of the updates under way one may have    *)
(* been made, and the others are lost.                                     *)
(***************************************************************************)
CONSTANTS Term, Admin

VARIABLES
  terms,   \* the set
  asked,   \* asked[p]: the update p waits for
  owed,    \* owed[p]: what p will be told
  answer   \* what the last step answered

NoUpdate == [op |-> "none"]

Update == [op : {"add", "remove"}, term : Term]

\* The set after an update.
Effect(u) ==
  CASE u.op = "add"    -> terms \cup {u.term}
    [] u.op = "remove" -> terms \ {u.term}
    [] u.op = "none"   -> terms

Silent == [code |-> "none"]

Idle(p) == asked[p] = NoUpdate /\ owed[p] = Silent

Ask(p) ==
  /\ Idle(p)
  /\ \E u \in Update : asked' = [asked EXCEPT ![p] = u]
  /\ answer' = Silent
  /\ UNCHANGED <<terms, owed>>

\* What p will be told is settled.
Settle(p, a) ==
  /\ asked' = [asked EXCEPT ![p] = NoUpdate]
  /\ owed' = [owed EXCEPT ![p] = a]
  /\ answer' = Silent

\* The update happens; the answer will say whether it changed anything.
Do(p) ==
  LET u == asked[p]
      changed == Effect(u) # terms
  IN  /\ u # NoUpdate
      /\ terms' = Effect(u)
      /\ Settle(p, [to |-> p, code |-> IF changed /\ u.op = "add" THEN "Created" ELSE "OK",
                    term |-> u.term, changed |-> changed])

Fail(p) ==
  /\ asked[p] # NoUpdate
  /\ Settle(p, [to |-> p, code |-> "InternalServerError"])
  /\ UNCHANGED terms

List(p) ==
  /\ Idle(p)
  /\ Settle(p, [to |-> p, code |-> "OK", terms |-> terms])
  /\ UNCHANGED terms

Tell(p) ==
  /\ owed[p] # Silent
  /\ answer' = owed[p]
  /\ owed' = [owed EXCEPT ![p] = Silent]
  /\ UNCHANGED <<terms, asked>>

Refuse(p) ==
  /\ Idle(p)
  /\ \E code \in {"BadRequest", "Unauthorized", "Forbidden", "InternalServerError"} :
       answer' = [to |-> p, code |-> code]
  /\ UNCHANGED <<terms, asked, owed>>

Crash ==
  /\ terms' \in {terms} \cup {Effect(asked[p]) : p \in Admin}
  /\ asked' = [p \in Admin |-> NoUpdate]
  /\ owed' = [p \in Admin |-> Silent]
  /\ answer' = Silent

\* Nothing happens that an administrator sees.
Work == answer' = Silent /\ UNCHANGED <<terms, asked, owed>>

Init ==
  /\ terms = {}
  /\ asked = [p \in Admin |-> NoUpdate]
  /\ owed = [p \in Admin |-> Silent]
  /\ answer = Silent

Next ==
  \/ \E p \in Admin : Ask(p) \/ Do(p) \/ Fail(p) \/ List(p) \/ Tell(p) \/ Refuse(p)
  \/ Crash \/ Work

Spec == Init /\ [][Next]_<<terms, asked, owed, answer>>
=============================================================================
