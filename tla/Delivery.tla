------------------------------ MODULE Delivery ------------------------------
(***************************************************************************)
(* What a webhook of OpenWA is promised for each event: the abstract side  *)
(* of WebhookDelivery.  A delivery is one event for one webhook.           *)
(*                                                                         *)
(* It is tried a bounded number of times; it counts as sent only when the  *)
(* receiver said so and as failed only when its attempts are used up; once *)
(* queued it is not lost; and a receiver that has said yes is not asked    *)
(* again, unless the process or its database failed meanwhile.             *)
(***************************************************************************)
EXTENDS Integers

CONSTANTS Deliveries, Attempts,
          Repeats   \* tries more, at most, for a delivery whose process failed

VARIABLE ledger   \* by delivery

Fates == {"new", "skipped", "due", "queued", "sent", "failed", "lost"}
Open == {"due", "queued"}
Entry == [fate : Fates, tries : Nat, answers : Nat, upset : BOOLEAN]
Fresh == [fate |-> "new", tries |-> 0, answers |-> 0, upset |-> FALSE]

Init == ledger = [d \in Deliveries |-> Fresh]

\* One delivery from one state to the next.
Accept(e, f)  == e.fate = "new" /\ f \in {[e EXCEPT !.fate = a] : a \in {"due", "skipped"}}
\* The queue has the delivery, though its answer may be lost.
Enqueue(e, f) ==
  e.fate = "due" /\ f \in {[e EXCEPT !.fate = "queued", !.upset = u] : u \in {e.upset, TRUE}}
Try(e, f) ==
  /\ e.fate \in Open
  /\ e.tries < Attempts + (IF e.upset THEN Repeats ELSE 0)
  /\ e.answers > 0 => e.upset
  /\ f \in {[e EXCEPT !.tries = @ + 1, !.answers = @ + yes] : yes \in {0, 1}}
Drop(e, f) == e.fate = "due" /\ e.tries = 0 /\ f = [e EXCEPT !.fate = "skipped"]
Lose(e, f) == e.fate = "due" /\ f = [e EXCEPT !.fate = "lost", !.upset = TRUE]
Succeed(e, f) == e.fate \in Open /\ e.answers > 0 /\ f = [e EXCEPT !.fate = "sent"]
Fail(e, f) ==
  /\ e.fate \in Open
  /\ f.fate = "failed" /\ f = [e EXCEPT !.fate = "failed", !.upset = f.upset]
  /\ e.upset => f.upset
  /\ (e.tries >= Attempts /\ e.answers = 0) \/ f.upset
\* The last try is the one that fails.
TryAndFail(e, f) == \E m \in {[e EXCEPT !.tries = @ + 1]} : Try(e, m) /\ Fail(m, f)
Suffer(e, f) == e.fate \in Open /\ f = [e EXCEPT !.upset = TRUE]

Move(e, f) ==
  \/ Accept(e, f) \/ Enqueue(e, f) \/ Try(e, f) \/ Drop(e, f) \/ Lose(e, f)
  \/ Succeed(e, f) \/ Fail(e, f) \/ TryAndFail(e, f) \/ Suffer(e, f)

Next ==
  /\ ledger' \in [Deliveries -> Entry]
  /\ \A d \in Deliveries : ledger'[d] = ledger[d] \/ Move(ledger[d], ledger'[d])

Spec == Init /\ [][Next]_ledger

(***************************************************************************)
(* What a receiver can conclude from it.                                   *)
(***************************************************************************)
\* What became of a delivery is what the receiver said: sent is an answer,
\* failed is every attempt refused, and nothing is tried once too often, asked
\* again after a yes or given up, but where the process failed.
Honest == \A d \in Deliveries : LET e == ledger[d] IN
  /\ e.fate \in {"new", "skipped"} => e.tries = 0
  /\ e.fate = "sent" => e.answers > 0
  /\ e.fate = "failed" => e.upset \/ (e.tries >= Attempts /\ e.answers = 0)
  /\ e.fate = "lost" => e.upset
  /\ e.tries <= Attempts + (IF e.upset THEN Repeats ELSE 0)
  /\ e.answers <= e.tries /\ (e.answers > 1 => e.upset)

\* A delivery that has come to its end is never taken up again.
EndIsTheEnd ==
  [][\A d \in Deliveries : ledger[d].fate \in {"skipped", "sent", "failed", "lost"}
       => ledger'[d] = ledger[d]]_ledger
=============================================================================
