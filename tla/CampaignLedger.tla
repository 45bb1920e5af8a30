--------------------------- MODULE CampaignLedger ---------------------------
(***************************************************************************)
(* What a campaign promises the tenant, with no queue, worker, request or  *)
(* crash in sight: recipients are enrolled, never dropped, and each of     *)
(* them receives at most the copies that were allowed.  A copy is allowed  *)
(* by enrolling, and one more by every retry asked for and every run of    *)
(* the job that was cut short.  Campaign implements this.                  *)
(***************************************************************************)
EXTENDS Naturals

CONSTANT Contacts

VARIABLES
  enrolled,   \* recipients of the campaign
  copies,     \* messages the engine accepted for each recipient
  allowed     \* copies each recipient may receive

Init ==
  /\ enrolled = {}
  /\ copies = [c \in Contacts |-> 0]
  /\ allowed = [c \in Contacts |-> 1]

\* New recipients, never one twice.
Enrol(S) ==
  /\ S \cap enrolled = {}
  /\ enrolled' = enrolled \cup S
  /\ UNCHANGED <<copies, allowed>>

\* One more copy for each contact of S.
Allow(S) ==
  /\ allowed' = [c \in Contacts |-> IF c \in S THEN allowed[c] + 1 ELSE allowed[c]]
  /\ UNCHANGED <<enrolled, copies>>

Deliver(c) ==
  /\ c \in enrolled /\ copies[c] < allowed[c]
  /\ copies' = [copies EXCEPT ![c] = @ + 1]
  /\ UNCHANGED <<enrolled, allowed>>

Next ==
  \/ \E S \in SUBSET Contacts : Enrol(S) \/ Allow(S)
  \/ \E c \in Contacts : Deliver(c)

Spec == Init /\ [][Next]_<<enrolled, copies, allowed>>

(***************************************************************************)
(* What the tenant can conclude from it.                                   *)
(***************************************************************************)
\* Only recipients get a message, and none more copies than were allowed.
Honoured == \A c \in Contacts :
  copies[c] <= allowed[c] /\ (copies[c] > 0 => c \in enrolled)

\* No recipient is dropped, and no message is taken back.
NeverDropped ==
  [][enrolled \subseteq enrolled' /\ \A c \in Contacts : copies[c] <= copies'[c]]_<<enrolled, copies, allowed>>
=============================================================================
