----------------------------- MODULE SharedData -----------------------------
(***************************************************************************)
(* What organisations share: the dictionary of tag names, which counts the *)
(* organisations that contributed a name, and the votes on the merchant    *)
(* dictionary.  A request reads a snapshot, takes the row of the setting   *)
(* when it is about to contribute, and commits; turning sharing off takes  *)
(* the same row, withdraws what was contributed and commits.               *)
(***************************************************************************)
EXTENDS Integers, FiniteSets

CONSTANTS
    Orgs,             \* organisations
    Names,            \* tag names
    Eligible,         \* those that are eligible for the dictionary
    Merchants,        \* entries of the merchant dictionary
    ShareReqs,        \* requests
    MinContributors,  \* SHARED_DICTIONARY_MIN_CONTRIBUTORS
    Absent            \* stands for the row of a name that has none

VARIABLES
    share,     \* org -> kind of data -> whether it is shared
    tags,      \* org -> its tags
    entry,     \* name -> contributor_org_count of its row, or Absent
    contrib,   \* name -> orgs with a contributor row
    votes,     \* merchant -> orgs with a vote
    voteCount, \* merchant -> vote_count
    ruled,     \* org -> merchants it has a rule for
    aged,      \* orgs of at least SHARED_DICTIONARY_MIN_ORG_AGE_DAYS
    sreq       \* per request: what it does and what it has read

sharedVars == <<share, tags, entry, contrib, votes, voteCount, ruled, aged, sreq>>

SharedKinds == {"tag", "merchant"}

\* What the proofs ask of the constants.
SharedAssumption ==
    IsFiniteSet(Orgs) /\ MinContributors \in Int /\ Absent \notin Int

\* The tags of organisations, the rows of the dictionary with the count each
\* keeps, and the rows of its contributors.
TagRows == [Orgs -> SUBSET Names]
DictionaryRows == [Names -> Int \cup {Absent}]
ContributorRows == [Names -> SUBSET Orgs]

NoShareReq == [pc |-> "idle", org |-> "none", op |-> "none", names |-> {},
               gives |-> FALSE, entry |-> [n \in Names |-> Absent],
               contrib |-> [n \in Names |-> {}], count |-> [m \in Merchants |-> 0]]

\* The kind of data a request holds the setting's row of, while it is "locked".
KindOf(op) == IF op \in {"create", "tagOff"} THEN "tag" ELSE "merchant"
Held(o, kind) == \E r \in ShareReqs :
    sreq[r].pc = "locked" /\ sreq[r].org = o /\ KindOf(sreq[r].op) = kind

Start(r, o, op, N, pc) ==
    /\ sreq[r].pc = "idle"
    /\ sreq' = [sreq EXCEPT ![r] =
          [pc |-> pc, org |-> o, op |-> op, names |-> N, gives |-> FALSE,
           entry |-> entry, contrib |-> contrib, count |-> voteCount]]

End(r) == sreq' = [sreq EXCEPT ![r] = NoShareReq]

-----------------------------------------------------------------------------
(* Tags and the dictionary. *)

\* create_tag, and set_transaction_tags for the names that are new: without
\* sharing nothing is locked.
CreateTags(r, o, N) ==
    /\ N \cap tags[o] = {}
    /\ Start(r, o, "create", N, IF share[o]["tag"] THEN "asks" ELSE "commits")
    /\ UNCHANGED <<share, tags, entry, contrib, votes, voteCount, ruled, aged>>

\* Mutant: the flag is read without a lock, as it was when the request began.
EnabledAsRead(r) == TRUE

\* _share_tag_data_still_enabled and share_merchant_data_still_enabled: the
\* current value, under the row's lock.
StillEnabled(r) == share[sreq[r].org][KindOf(sreq[r].op)]

\* Mutant: the lock is not waited for.
LockWithoutWaiting(r) ==
    /\ sreq[r].pc = "asks"
    /\ sreq' = [sreq EXCEPT ![r].pc = "locked", ![r].gives = StillEnabled(r)]
    /\ UNCHANGED <<share, tags, entry, contrib, votes, voteCount, ruled, aged>>

LockShare(r) ==
    /\ sreq[r].pc = "asks"
    /\ ~ Held(sreq[r].org, KindOf(sreq[r].op))
    /\ sreq' = [sreq EXCEPT ![r].pc = "locked", ![r].gives = StillEnabled(r)]
    /\ UNCHANGED <<share, tags, entry, contrib, votes, voteCount, ruled, aged>>

\* _try_insert_contributor: the row is neither in the snapshot nor there by now.
IsNewContributor(r, n) == sreq[r].org \notin sreq[r].contrib[n] \cup contrib[n]

\* The count the request adds to: the one of its snapshot; of the row by now,
\* read under its lock, if the insert of the row collided; or of a new row.
CountRead(r, n) ==
    IF sreq[r].entry[n] # Absent THEN sreq[r].entry[n]
    ELSE IF entry[n] # Absent THEN entry[n] ELSE 0

\* _record_dictionary_contribution for every name, and the commit.  A tag of
\* the name that is there by now breaks the unique key.
CommitTags(r) ==
    LET q   == sreq[r]
        N   == IF q.gives THEN q.names \cap Eligible ELSE {}
        new == {n \in N : IsNewContributor(r, n)}
    IN  /\ q.op = "create"
        /\ q.pc \in {"commits", "locked"}
        /\ IF q.names \cap tags[q.org] # {}
           THEN UNCHANGED <<tags, entry, contrib>>
           ELSE /\ tags' = [tags EXCEPT ![q.org] = @ \cup q.names]
                /\ entry' = [n \in Names |->
                      IF n \in new THEN CountRead(r, n) + 1
                      ELSE IF n \in N /\ entry[n] = Absent THEN 0 ELSE entry[n]]
                /\ contrib' = [n \in Names |->
                      IF n \in new THEN contrib[n] \cup {q.org} ELSE contrib[n]]
        /\ End(r)
        /\ UNCHANGED <<share, votes, voteCount, ruled, aged>>

\* withdraw_dictionary_contributions: the rows are read under their locks and
\* the counts are decremented in the database.
Withdraw(o, N) ==
    /\ entry' = [n \in Names |->
          IF n \in N /\ o \in contrib[n] THEN entry[n] - 1 ELSE entry[n]]
    /\ contrib' = [n \in Names |-> IF n \in N THEN contrib[n] \ {o} ELSE contrib[n]]

DeleteTag(o, n) ==
    /\ n \in tags[o]
    /\ tags' = [tags EXCEPT ![o] = @ \ {n}]
    /\ Withdraw(o, {n})
    /\ UNCHANGED <<share, votes, voteCount, ruled, aged, sreq>>

\* The new name is not contributed.
RenameTag(o, n, new) ==
    /\ n \in tags[o]
    /\ new \notin tags[o]
    /\ tags' = [tags EXCEPT ![o] = (@ \ {n}) \cup {new}]
    /\ Withdraw(o, {n})
    /\ UNCHANGED <<share, votes, voteCount, ruled, aged, sreq>>

-----------------------------------------------------------------------------
(* Votes on merchants. *)

\* A chunk of an import reads the setting, then locks it.
BeginChunk(r, o, m) ==
    /\ Start(r, o, "chunk", {m}, IF share[o]["merchant"] THEN "asks" ELSE "commits")
    /\ UNCHANGED <<share, tags, entry, contrib, votes, voteCount, ruled, aged>>

\* infer_category: a rule of the organisation comes before the dictionary.
InferSource(o, m) == IF m \in ruled[o] THEN "org_rule" ELSE "shared_dictionary"

\* Mutant: the count is written from the row as it was read.
CountFromSnapshot(r, m) == sreq[r].count[m] + 1

\* The increment is made in the database.
Incremented(r, m) == voteCount[m] + 1

\* record_shared_vote, when the category is the one suggested, then
\* learn_from_choice; the rest of the chunk is the import's.
CommitChunk(r, agrees) ==
    LET q == sreq[r]
        new == {m \in q.names : /\ q.gives
                                /\ agrees
                                /\ InferSource(q.org, m) = "shared_dictionary"
                                /\ q.org \notin votes[m]}
    IN  /\ q.op = "chunk"
        /\ q.pc \in {"commits", "locked"}
        /\ votes' = [m \in Merchants |->
              IF m \in new THEN votes[m] \cup {q.org} ELSE votes[m]]
        /\ voteCount' = [m \in Merchants |->
              IF m \in new THEN Incremented(r, m) ELSE voteCount[m]]
        /\ ruled' = [ruled EXCEPT ![q.org] = @ \cup q.names]
        /\ End(r)
        /\ UNCHANGED <<share, tags, entry, contrib, aged>>

\* Deleting a category drops its rules.
DropRule(o, m) ==
    /\ m \in ruled[o]
    /\ ruled' = [ruled EXCEPT ![o] = @ \ {m}]
    /\ UNCHANGED <<share, tags, entry, contrib, votes, voteCount, aged, sreq>>

WithdrawVotes(o) ==
    /\ votes' = [m \in Merchants |-> votes[m] \ {o}]
    /\ voteCount' = [m \in Merchants |->
          IF o \notin votes[m] THEN voteCount[m]
          ELSE IF voteCount[m] > 0 THEN voteCount[m] - 1 ELSE 0]

-----------------------------------------------------------------------------
(* The setting, the reset and time. *)

TurnOn(o, kind) ==
    /\ ~ share[o][kind]
    /\ ~ Held(o, kind)
    /\ share' = [share EXCEPT ![o][kind] = TRUE]
    /\ UNCHANGED <<tags, entry, contrib, votes, voteCount, ruled, aged, sreq>>

\* upsert_setting and delete_setting: the write is flushed, which takes the
\* row, before the withdrawal reads.
FlushOff(r, o, kind) ==
    /\ share[o][kind]
    /\ ~ Held(o, kind)
    /\ Start(r, o, IF kind = "tag" THEN "tagOff" ELSE "merchantOff", {}, "locked")
    /\ UNCHANGED <<share, tags, entry, contrib, votes, voteCount, ruled, aged>>

CommitOff(r) ==
    LET q == sreq[r]
    IN  /\ q.op \in {"tagOff", "merchantOff"}
        /\ share' = [share EXCEPT ![q.org][KindOf(q.op)] = FALSE]
        /\ IF q.op = "tagOff"
           THEN Withdraw(q.org, Names) /\ UNCHANGED <<votes, voteCount>>
           ELSE WithdrawVotes(q.org) /\ UNCHANGED <<entry, contrib>>
        /\ End(r)
        /\ UNCHANGED <<tags, ruled, aged>>

\* The tail of reset_org_data, one transaction.
ResetShared(o) ==
    /\ tags' = [tags EXCEPT ![o] = {}]
    /\ ruled' = [ruled EXCEPT ![o] = {}]
    /\ Withdraw(o, Names)
    /\ WithdrawVotes(o)
    /\ UNCHANGED <<share, aged, sreq>>

\* A request that fails, or is refused by a limit, leaves nothing.
FailShare(r) ==
    /\ sreq[r].pc # "idle"
    /\ End(r)
    /\ UNCHANGED <<share, tags, entry, contrib, votes, voteCount, ruled, aged>>

Grow(o) ==
    /\ o \notin aged
    /\ aged' = aged \cup {o}
    /\ UNCHANGED <<share, tags, entry, contrib, votes, voteCount, ruled, sreq>>

\* Mutant: the count of the row is enough.
FloorByCount(n) == entry[n] # Absent /\ entry[n] >= MinContributors

\* The floor under which suggest_tags does not show a name of the dictionary.
FloorMet(n) ==
    /\ entry[n] # Absent
    /\ entry[n] >= MinContributors
    /\ Cardinality(contrib[n] \cap aged) >= MinContributors

-----------------------------------------------------------------------------
SharedInit ==
    /\ share = [o \in Orgs |-> [k \in SharedKinds |-> FALSE]]
    /\ tags = [o \in Orgs |-> {}]
    /\ entry = [n \in Names |-> Absent]
    /\ contrib = [n \in Names |-> {}]
    /\ votes = [m \in Merchants |-> {}]
    /\ voteCount = [m \in Merchants |-> 0]
    /\ ruled = [o \in Orgs |-> {}]
    /\ aged = {}
    /\ sreq = [r \in ShareReqs |-> NoShareReq]

TagNext ==
    \/ \E r \in ShareReqs, o \in Orgs :
          \/ \E N \in SUBSET Names \ {{}} : CreateTags(r, o, N)
          \/ FlushOff(r, o, "tag")
    \/ \E r \in ShareReqs : LockShare(r) \/ CommitTags(r) \/ CommitOff(r) \/ FailShare(r)
    \/ \E o \in Orgs :
          \/ TurnOn(o, "tag")
          \/ ResetShared(o)
          \/ Grow(o)
          \/ \E n \in Names : DeleteTag(o, n)
          \/ \E n, new \in Names : RenameTag(o, n, new)

VoteNext ==
    \/ \E r \in ShareReqs, o \in Orgs :
          \/ \E m \in Merchants : BeginChunk(r, o, m)
          \/ FlushOff(r, o, "merchant")
    \/ \E r \in ShareReqs :
          \/ LockShare(r)
          \/ \E agrees \in BOOLEAN : CommitChunk(r, agrees)
          \/ CommitOff(r)
          \/ FailShare(r)
    \/ \E o \in Orgs :
          \/ TurnOn(o, "merchant")
          \/ ResetShared(o)
          \/ \E m \in Merchants : DropRule(o, m)

-----------------------------------------------------------------------------
(* Properties. *)

\* A contributor row has a dictionary row, counts are numbers, and at most one
\* request holds the row of a setting.
SharedTypeOK ==
    /\ tags \in TagRows /\ entry \in DictionaryRows /\ contrib \in ContributorRows
    /\ \A n \in Names : contrib[n] # {} => entry[n] # Absent
    /\ \A m \in Merchants : voteCount[m] \in Nat
    /\ \A q, r \in ShareReqs :
          q # r /\ sreq[q].pc = "locked" /\ sreq[r].pc = "locked" /\ sreq[q].org = sreq[r].org
            => KindOf(sreq[q].op) # KindOf(sreq[r].op)

\* A contribution lasts only while the organisation shares and has a tag of the
\* name, a vote only while it shares, also when sharing is turned off while a
\* tag is being created or rows are being imported.
ContributionIsCurrent ==
    /\ \A n \in Names : \A o \in contrib[n] : share[o]["tag"] /\ n \in tags[o]
    /\ \A m \in Merchants : \A o \in votes[m] : share[o]["merchant"]

\* A name is suggested to others only while enough grown organisations share it
\* and have it, although the count of its row may have drifted.
KAnonymity ==
    \A n \in Names : FloorMet(n) =>
        Cardinality({o \in aged : share[o]["tag"] /\ n \in tags[o]}) >= MinContributors

\* vote_count is the number of votes, under any overlap of imports, withdrawals
\* and resets.
VotesExact == \A m \in Merchants : voteCount[m] = Cardinality(votes[m])
=============================================================================
