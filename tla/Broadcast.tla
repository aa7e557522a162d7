----------------------------- MODULE Broadcast -----------------------------
(***************************************************************************)
(* One email broadcast to the users of a segment: the draft, the guarded   *)
(* send, and the drains that hand its recipients to Mailgun in batches.    *)
(*                                                                         *)
(* Each replica (pod) runs at most one drain of the broadcast, which its   *)
(* in-process registry enforces; nothing but the claim of a batch keeps    *)
(* the drains of two pods apart.  A drain is split at every await that     *)
(* lets another writer in.  A pod may die at any point.                    *)
(*                                                                         *)
(* The stored sent/failed/skipped counters are copies of what the rows say *)
(* and are left out; so are rendering, pacing and the audit trail.         *)
(***************************************************************************)
EXTENDS Integers, FiniteSetsExt

CONSTANTS
    Pods,         \* replicas of the backend
    LastUser,     \* the users are 1 .. LastUser, in the order of their rows
    BatchSize,    \* broadcast_batch_size
    MaxAttempts,  \* broadcast_max_attempts
    MaxUsers,     \* broadcast_max_recipients
    Events        \* delivery statuses Mailgun reports

VARIABLES
    broadcast,   \* status of the broadcast row, "absent" if there is none
    dryRun,      \* dry_run_sent_at is set
    recipient,   \* the materialized rows, one per user of the segment
    targetable,  \* users that are active and verified now
    queued,      \* history: how often Mailgun took a message for the user
    ask,         \* per pod: the admin request in progress
    segment,     \* per pod: the segment as that request's transaction saw it
    drain        \* per pod: the drain of the broadcast

broadcastVars ==
    <<broadcast, dryRun, recipient, targetable, queued, ask, segment, drain>>

Users == 1 .. LastUser

Undelivered == "none"
Deliveries  == {"bounced_temporary", "delivered", "bounced_permanent",
                "complained"}

Rank(s) ==
    CASE s = Undelivered         -> 0
      [] s = "bounced_temporary" -> 1
      [] s = "delivered"         -> 2
      [] s = "bounced_permanent" -> 3
      [] s = "complained"        -> 4

BroadcastAssumption ==
    LastUser \in Nat /\ MaxAttempts \in Nat /\ Events \subseteq Deliveries

\* "none": the segment had no such user when it was materialized.
RecipientRow == [status : {"none", "pending", "sent", "failed", "skipped"},
                 attempts : Nat, delivery : Deliveries \cup {Undelivered}]

NoRecipient == [status |-> "none", attempts |-> 0, delivery |-> Undelivered]
NewRecipient == [NoRecipient EXCEPT !.status = "pending"]

\* retry: a resume.  todo and batch: the rows of the batch to re-check and
\* those that passed.  was: their status when they were selected.
Idle == [pc |-> "idle", retry |-> FALSE, seen |-> {}, todo |-> {},
         batch |-> {}, was |-> [u \in Users |-> "none"], outcome |-> "none"]

\* Back to the top of the loop: only the mode and the seen rows are kept.
NextBatch(d) == [Idle EXCEPT !.pc = "select", !.retry = d.retry, !.seen = d.seen]

Dispositions == {"accepted", "rejected", "indeterminate"}

-----------------------------------------------------------------------------
(* The admin endpoints. *)

CreateBroadcast ==
    /\ broadcast = "absent"
    /\ broadcast' = "draft"
    /\ UNCHANGED <<dryRun, recipient, targetable, queued, ask, segment, drain>>

\* The test email reached the caller's own inbox.  The draft check is not
\* repeated when the stamp is written, but a broadcast past its draft has its
\* stamp already.
DryRun ==
    /\ broadcast = "draft"
    /\ dryRun' = TRUE
    /\ UNCHANGED <<broadcast, recipient, targetable, queued, ask, segment, drain>>

\* The checks of send_broadcast, up to the count the operator typed.
SendBroadcastChecks(p) ==
    /\ ask[p] = "idle"
    /\ broadcast = "draft"
    /\ dryRun
    /\ Cardinality(targetable) <= MaxUsers
    /\ ask' = [ask EXCEPT ![p] = "send"]
    /\ segment' = [segment EXCEPT ![p] = targetable]
    /\ UNCHANGED <<broadcast, dryRun, recipient, targetable, queued, drain>>

\* Mutant: the status is not tested again by the write.
StillDraftUnchecked == TRUE

StillDraft == broadcast = "draft"

\* draft -> sending by compare and set, the recipients in the same transaction.
SendBroadcast(p) ==
    /\ ask[p] = "send"
    /\ IF StillDraft
       THEN /\ broadcast' = "sending"
            /\ recipient' = [u \in Users |->
                  IF u \in segment[p] THEN NewRecipient ELSE NoRecipient]
            /\ ask' = [ask EXCEPT ![p] = "launch"]
       ELSE /\ ask' = [ask EXCEPT ![p] = "idle"]
            /\ UNCHANGED <<broadcast, recipient>>
    /\ segment' = [segment EXCEPT ![p] = {}]
    /\ UNCHANGED <<dryRun, targetable, queued, drain>>

\* _launch: a second drain of the broadcast in one process is a no-op.
Launch(p, retry) ==
    drain' = IF drain[p].pc = "idle"
             THEN [drain EXCEPT ![p] = [Idle EXCEPT !.pc = "select",
                                                    !.retry = retry]]
             ELSE drain

LaunchDrain(p) ==
    /\ ask[p] = "launch"
    /\ Launch(p, FALSE)
    /\ ask' = [ask EXCEPT ![p] = "idle"]
    /\ UNCHANGED <<broadcast, dryRun, recipient, targetable, queued, segment>>

ResumeBroadcast(p) ==
    /\ broadcast \notin {"absent", "draft"}
    /\ Launch(p, TRUE)
    /\ UNCHANGED <<broadcast, dryRun, recipient, targetable, queued, ask, segment>>

DeleteBroadcastChecks(p) ==
    /\ ask[p] = "idle"
    /\ broadcast = "draft"
    /\ ask' = [ask EXCEPT ![p] = "delete"]
    /\ UNCHANGED <<broadcast, dryRun, recipient, targetable, queued, segment, drain>>

\* The delete is scoped to status = 'draft'; the recipients would cascade.
DeleteBroadcast(p) ==
    /\ ask[p] = "delete"
    /\ IF StillDraft
       THEN /\ broadcast' = "absent"
            /\ dryRun' = FALSE
            /\ recipient' = [u \in Users |-> NoRecipient]
       ELSE UNCHANGED <<broadcast, dryRun, recipient>>
    /\ ask' = [ask EXCEPT ![p] = "idle"]
    /\ UNCHANGED <<targetable, queued, segment, drain>>

-----------------------------------------------------------------------------
(* _run_drain_loop. *)

Eligible(u, retry) ==
    /\ recipient[u].delivery = Undelivered
    /\ IF retry
       THEN /\ recipient[u].status \in {"pending", "failed"}
            /\ recipient[u].attempts < MaxAttempts
       ELSE recipient[u].status = "pending"

\* The first n of the set S of row ids.
FirstRows(S, n) == {u \in S : Cardinality({v \in S : v < u}) < n}

\* Select the next batch, or leave the loop.
SelectBatch(p) ==
    LET d    == drain[p]
        rows == FirstRows({u \in Users \ d.seen : Eligible(u, d.retry)}, BatchSize)
    IN  /\ d.pc = "select"
        /\ drain' = [drain EXCEPT ![p] =
              IF rows = {} THEN [Idle EXCEPT !.pc = "recount"]
              ELSE [d EXCEPT !.pc = "recheck", !.todo = rows, !.batch = {},
                             !.was = [u \in Users |-> IF u \in rows
                                        THEN recipient[u].status ELSE "none"]]]
        /\ UNCHANGED <<broadcast, dryRun, recipient, targetable, queued, ask,
                       segment>>

\* _user_still_targetable for the next row: keep it, or mark it skipped if its
\* status is still the one that was read.
RecheckRow(p) ==
    LET d == drain[p]
        u == Min(d.todo)
    IN  /\ d.pc = "recheck"
        /\ d.todo # {}
        /\ drain' = [drain EXCEPT ![p].todo = @ \ {u},
                                  ![p].seen = @ \cup {u},
                                  ![p].batch = IF u \in targetable
                                               THEN @ \cup {u} ELSE @]
        /\ recipient' = IF u \notin targetable /\ recipient[u].status = d.was[u]
                        THEN [recipient EXCEPT ![u].status = "skipped"]
                        ELSE recipient
        /\ UNCHANGED <<broadcast, dryRun, targetable, queued, ask, segment>>

\* A batch of lapsed users only is not sent.
DropEmptyBatch(p) ==
    /\ drain[p].pc = "recheck"
    /\ drain[p].todo = {}
    /\ drain[p].batch = {}
    /\ drain' = [drain EXCEPT ![p] = NextBatch(@)]
    /\ UNCHANGED <<broadcast, dryRun, recipient, targetable, queued, ask, segment>>

\* Mutant: the claim trusts the attempts the select saw.
ClaimableAnyAttempts(u, retry) ==
    /\ recipient[u].delivery = Undelivered
    /\ recipient[u].status \in IF retry THEN {"pending", "failed"} ELSE {"pending"}

\* Mutant: the claim trusts the status the select saw.
ClaimableAnyStatus(u, retry) ==
    /\ recipient[u].delivery = Undelivered
    /\ recipient[u].attempts < MaxAttempts

\* The where clause of the claim, evaluated on the rows as they are now.
Claimable(u, retry) ==
    /\ recipient[u].delivery = Undelivered
    /\ recipient[u].status \in IF retry THEN {"pending", "failed"} ELSE {"pending"}
    /\ recipient[u].attempts < MaxAttempts

\* The row count of the claim equals the size of the batch.
ClaimedAll(batch, claimed) == claimed = batch

\* Claim the batch before it is sent, all of it or nothing.
ClaimBatch(p) ==
    LET d       == drain[p]
        claimed == {u \in d.batch : Claimable(u, d.retry)}
    IN  /\ d.pc = "recheck"
        /\ d.todo = {}
        /\ d.batch # {}
        /\ IF ClaimedAll(d.batch, claimed)
           THEN /\ recipient' = [u \in Users |->
                      IF u \in claimed
                      THEN [recipient[u] EXCEPT !.status = "sent", !.attempts = @ + 1]
                      ELSE recipient[u]]
                /\ drain' = [drain EXCEPT ![p] = [@ EXCEPT !.pc = "send",
                                                !.was = Idle.was]]
           ELSE /\ drain' = [drain EXCEPT ![p] = NextBatch(@)]
                /\ UNCHANGED recipient
        /\ UNCHANGED <<broadcast, dryRun, targetable, queued, ask, segment>>

\* Mutant: a lost answer is taken for a refusal.
LostIsRejected(took) == IF took THEN {"accepted", "rejected"} ELSE {"rejected"}

\* What the drain may be told of a batch: a 2xx only if Mailgun took it, a 4xx
\* or a failed connection only if it did not, and anything else in both cases.
SendBatchResult(took) ==
    IF took THEN {"accepted", "indeterminate"} ELSE {"rejected", "indeterminate"}

\* One send_batch call: Mailgun takes the batch or not, and the answer comes,
\* is refused, or gets lost.
SendBatch(p, took, outcome) ==
    /\ drain[p].pc = "send"
    /\ outcome \in SendBatchResult(took)
    /\ queued' = [u \in Users |->
          IF took /\ u \in drain[p].batch THEN queued[u] + 1 ELSE queued[u]]
    /\ drain' = [drain EXCEPT ![p].pc = "answer", ![p].outcome = outcome]
    /\ UNCHANGED <<broadcast, dryRun, recipient, targetable, ask, segment>>

\* Only a rejected batch goes back to failed.
RecordOutcome(p) ==
    LET d == drain[p]
    IN  /\ d.pc = "answer"
        /\ recipient' = [u \in Users |->
              IF d.outcome = "rejected" /\ u \in d.batch /\ recipient[u].status = "sent"
              THEN [recipient[u] EXCEPT !.status = "failed"] ELSE recipient[u]]
        /\ drain' = [drain EXCEPT ![p] = NextBatch(@)]
        /\ UNCHANGED <<broadcast, dryRun, targetable, queued, ask, segment>>

\* Mutant: whoever leaves the loop believes that everything was sent.
NothingPendingAssumed == TRUE

NothingPending == \A u \in Users : recipient[u].status # "pending"

\* _recompute_broadcast_counters says how many rows are still pending.
Recount(p) ==
    /\ drain[p].pc = "recount"
    /\ drain' = [drain EXCEPT ![p] = IF NothingPending
                                     THEN [@ EXCEPT !.pc = "complete"] ELSE Idle]
    /\ UNCHANGED <<broadcast, dryRun, recipient, targetable, queued, ask, segment>>

Complete(p) ==
    /\ drain[p].pc = "complete"
    /\ broadcast' = "completed"
    /\ drain' = [drain EXCEPT ![p] = Idle]
    /\ UNCHANGED <<dryRun, recipient, targetable, queued, ask, segment>>

\* _drain_with_wrapper: an unexpected error ends the drain; the status is set
\* to failed if that write goes through.
DrainFails(p, flips) ==
    /\ drain[p].pc # "idle"
    /\ broadcast' = IF flips THEN "failed" ELSE broadcast
    /\ drain' = [drain EXCEPT ![p] = Idle]
    /\ UNCHANGED <<dryRun, recipient, targetable, queued, ask, segment>>

-----------------------------------------------------------------------------
(* The world around the drains. *)

\* The pod restarts: its requests, its registry and its drain are gone.
PodCrashes(p) ==
    /\ ask[p] # "idle" \/ drain[p].pc # "idle"
    /\ ask' = [ask EXCEPT ![p] = "idle"]
    /\ segment' = [segment EXCEPT ![p] = {}]
    /\ drain' = [drain EXCEPT ![p] = Idle]
    /\ UNCHANGED <<broadcast, dryRun, recipient, targetable, queued>>

\* A user is deactivated, or loses the verified address.
UserLapses(u) ==
    /\ u \in targetable
    /\ targetable' = targetable \ {u}
    /\ UNCHANGED <<broadcast, dryRun, recipient, queued, ask, segment, drain>>

\* Mutant: the latest event wins.
Supersedes(new, old) == TRUE

\* Precedence of delivery events.
Outranks(new, old) == Rank(new) > Rank(old)

\* A delivery event for a message Mailgun has: late, repeated or out of order.
DeliveryEvent(u, s) ==
    /\ queued[u] > 0
    /\ recipient[u].status # "none"
    /\ Outranks(s, recipient[u].delivery)
    /\ recipient' = [recipient EXCEPT ![u].delivery = s]
    /\ UNCHANGED <<broadcast, dryRun, targetable, queued, ask, segment, drain>>

-----------------------------------------------------------------------------
BroadcastInit ==
    /\ broadcast = "absent"
    /\ dryRun = FALSE
    /\ recipient = [u \in Users |-> NoRecipient]
    /\ targetable = Users
    /\ queued = [u \in Users |-> 0]
    /\ ask = [p \in Pods |-> "idle"]
    /\ segment = [p \in Pods |-> {}]
    /\ drain = [p \in Pods |-> Idle]

\* The steps a running drain takes by itself.
DrainStep(p) ==
    \/ SelectBatch(p)
    \/ RecheckRow(p)
    \/ DropEmptyBatch(p)
    \/ ClaimBatch(p)
    \/ \E took \in BOOLEAN, outcome \in Dispositions : SendBatch(p, took, outcome)
    \/ RecordOutcome(p)
    \/ Recount(p)
    \/ Complete(p)

BroadcastNext ==
    \/ CreateBroadcast
    \/ DryRun
    \/ \E p \in Pods :
          \/ SendBroadcastChecks(p)
          \/ SendBroadcast(p)
          \/ LaunchDrain(p)
          \/ ResumeBroadcast(p)
          \/ DeleteBroadcastChecks(p)
          \/ DeleteBroadcast(p)
          \/ DrainStep(p)
          \/ \E flips \in BOOLEAN : DrainFails(p, flips)
          \/ PodCrashes(p)
    \/ \E u \in Users : UserLapses(u)
    \/ \E u \in Users, s \in Events : DeliveryEvent(u, s)

BroadcastSpec == BroadcastInit /\ [][BroadcastNext]_broadcastVars

-----------------------------------------------------------------------------
(* Properties. *)

\* The rows have the columns of EmailBroadcast and EmailBroadcastRecipient, and
\* a row is claimed at most broadcast_max_attempts times, also when two resumes
\* have selected it.
BroadcastTypeOK ==
    /\ broadcast \in {"absent", "draft", "sending", "completed", "failed"}
    /\ dryRun \in BOOLEAN
    /\ recipient \in [Users -> RecipientRow]
    /\ \A u \in Users : recipient[u].attempts <= MaxAttempts
    /\ targetable \subseteq Users
    /\ queued \in [Users -> Nat]
    /\ ask \in [Pods -> {"idle", "send", "launch", "delete"}]
    /\ segment \in [Pods -> SUBSET Users]
    /\ DOMAIN drain = Pods

\* "Never double-send": across drains, resumes, crashes and lost answers
\* Mailgun takes at most one message per recipient.
NeverDoubleSend == \A u \in Users : queued[u] <= 1

\* "failed is an assertion that Mailgun did not accept the message": a row that
\* may be sent (again), or was skipped, is one Mailgun has no message for.
UnsentMeansNotQueued ==
    \A u \in Users : recipient[u].status # "sent" => queued[u] = 0

\* A broadcast that mailed somebody is never erased by a delete that raced with
\* its send, nor reported completed while a recipient still waits.
HistoryKept ==
    /\ broadcast = "absent" => \A u \in Users : queued[u] = 0
    /\ broadcast = "completed" => \A u \in Users : recipient[u].status # "pending"

\* A delivery event that comes late or twice never takes back a worse one: a
\* complaint stays a complaint.
DeliveryOnlyWorsens ==
    \A u \in Users : Rank(recipient'[u].delivery) >= Rank(recipient[u].delivery)
=============================================================================
