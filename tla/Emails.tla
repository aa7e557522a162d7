------------------------------- MODULE Emails -------------------------------
(***************************************************************************)
(* The address and the password of accounts: registration, sign-up by a    *)
(* mailed link, verification, changes of the address by the user or an     *)
(* administrator, resets and changes of the password, Google sign-in and   *)
(* the step-up proofs Google gives.  A person is the owner of an address:  *)
(* who reads its mail and signs in with Google as it.  Requests overlap: a *)
(* request reads the account, answers from what it read and writes later   *)
(* the columns it changed.                                                 *)
(***************************************************************************)
EXTENDS Integers, FiniteSets

CONSTANTS
    Persons,    \* the owner of each address, and the address
    Users,      \* accounts
    Reqs,       \* requests
    MaxNumber   \* bound: numbers of letters and proofs

\* What the module asks of its constants.
MailAssumption == MaxNumber \in Nat

VARIABLES
    account,  \* account -> its row, or NoAccount
    letters,  \* what was mailed
    spent,    \* numbers claimed: PASSWORD_RESET_SCOPE, SIGNUP_JTI_SCOPE
    number,   \* the last number of a letter or proof
    req,      \* per request: what it does and what it read
    provers,  \* account -> who showed they own an address of it
    uses      \* number -> changes made on the strength of it

mailVars == <<account, letters, spent, number, req, provers, uses>>

Nobody == "nobody"
NoAccount == [there |-> FALSE]
StepupActions == {"email_change", "password_set"}
NoProof == [n |-> 0, action |-> "none"]
Idle == [pc |-> "idle"]

\* The columns of users that this module is about.
AccountRow ==
    [there : {TRUE}, email : Persons, verified : BOOLEAN, pending : Persons \cup {Nobody},
     by : Persons \cup {Nobody}, changes : Nat,
     proof : [n : 0..MaxNumber, action : StepupActions \cup {"none"}]]

Present == {u \in Users : account[u].there}
Named(a) == {u \in Present : account[u].email = a}
Letter(kind, u, to, n) ==
    [kind |-> kind, user |-> u, to |-> to, admin |-> FALSE, at |-> 0, n |-> n]
\* It names the address it verifies; it has no number, so it may be used again.
VerifyLetter(u, to) == Letter("verify", u, to, 0)

\* A new row: email_verified, and the password of who.
NewAccount(a, verified, who) ==
    [there |-> TRUE, email |-> a, verified |-> verified, pending |-> Nobody,
     by |-> who, changes |-> 0, proof |-> NoProof]

\* password_set
PasswordSet(row) == row.by # Nobody

Begins(r, q) == req[r] = Idle /\ req' = [req EXCEPT ![r] = q]
Ends(r) == req' = [req EXCEPT ![r] = Idle]
Proved(u, who) == provers' = [provers EXCEPT ![u] = @ \cup {who}]
Used(n) == uses' = [uses EXCEPT ![n] = @ + 1]

\* A row inserted and not committed holds its address: others wait.
Held(u, a) == \E q \in Reqs : req[q].pc = "flushed" /\ (req[q].u = u \/ req[q].l.to = a)

-----------------------------------------------------------------------------
(* Accounts and the letters about them. *)

\* register, after the first user: the address is not verified.
Register(u, a, who) ==
    /\ u \notin Present
    /\ Named(a) = {}
    /\ ~ Held(u, a)
    /\ account' = [account EXCEPT ![u] = NewAccount(a, FALSE, who)]
    /\ letters' = letters \cup {VerifyLetter(u, a)}
    /\ UNCHANGED <<spent, number, req, provers, uses>>

\* plan_start; also resend_verification and resend_verification_public.
SignupStart(a) ==
    LET new == Named(a) = {}
    IN  /\ \A u \in Named(a) : ~ account[u].verified
        /\ new => number < MaxNumber
        /\ number' = IF new THEN number + 1 ELSE number
        /\ letters' = letters \cup
              (IF new THEN {Letter("signup", Nobody, a, number + 1)}
               ELSE {VerifyLetter(u, a) : u \in Named(a)})
        /\ UNCHANGED <<account, spent, req, provers, uses>>

\* forgot_password
ForgotPassword(u) ==
    /\ u \in Present
    /\ number < MaxNumber
    /\ number' = number + 1
    /\ letters' = letters \cup
          {[Letter("reset", u, account[u].email, number + 1) EXCEPT !.at = account[u].changes]}
    /\ UNCHANGED <<account, spent, req, provers, uses>>

\* What a claim finds: mutant, it is the first whatever was claimed.
AlwaysFirst(n) == TRUE

\* claim_token
FirstUse(n) == n \notin spent

-----------------------------------------------------------------------------
(* Signing up with the mailed link. *)

\* signup_complete up to the claim.  An insert of the same address that is not
\* committed makes it wait; the claim is committed alone.
SignupFlush(r, l, u) ==
    /\ l.kind = "signup"
    /\ Named(l.to) = {}
    /\ u \notin Present
    /\ ~ Held(u, l.to)
    /\ FirstUse(l.n)
    /\ spent' = spent \cup {l.n}
    /\ Begins(r, [pc |-> "flushed", l |-> l, u |-> u])
    /\ UNCHANGED <<account, letters, number, provers, uses>>

SignupCommit(r) ==
    LET l == req[r].l
        u == req[r].u
    IN  /\ req[r].pc = "flushed"
        /\ account' = [account EXCEPT ![u] = NewAccount(l.to, TRUE, l.to)]
        /\ Used(l.n)
        /\ Proved(u, l.to)
        /\ Ends(r)
        /\ UNCHANGED <<letters, spent, number>>

-----------------------------------------------------------------------------
(* Verification and changes of the address. *)

\* Mutant: the letter alone verifies.
PasswordUnasked(row, who) == TRUE

\* An address that is not verified yet needs the password too.
PasswordKnown(row, who) == row.verified \/ row.by = who

\* verify_email up to the write.  Who reads the mail presents the letter.
VerifyRead(r, l) ==
    LET row == account[l.user]
    IN  /\ l.kind = "verify"
        /\ l.to \in {row.email, row.pending}
        /\ PasswordKnown(row, l.to)
        /\ Begins(r, [pc |-> "verifies", l |-> l, row |-> row])
        /\ UNCHANGED <<account, letters, spent, number, provers, uses>>

Confirmed(row) == [row EXCEPT !.verified = TRUE]

VerifyCommit(r) ==
    LET l == req[r].l
    IN  /\ req[r].pc = "verifies"
        /\ l.to # req[r].row.pending
        /\ account' = [account EXCEPT ![l.user] = Confirmed(@)]
        /\ Proved(l.user, l.to)
        /\ Ends(r)
        /\ UNCHANGED <<letters, spent, number, uses>>

Abandoned(row) == [row EXCEPT !.pending = Nobody]
Promoted(row, a) == [row EXCEPT !.email = a, !.pending = Nobody, !.verified = TRUE]

\* Mutant: the address is not unique.
Anywhere(u, a) == TRUE

\* No other account has the address, which is unique.
NotTaken(u, a) == Named(a) \subseteq {u}

\* _promote_pending_email.  A change by an administrator is dropped when the
\* account was verified.
PromoteCommit(r) ==
    LET l == req[r].l
        moves == ~ (l.admin /\ req[r].row.verified) /\ NotTaken(l.user, l.to)
    IN  /\ req[r].pc = "verifies"
        /\ l.to = req[r].row.pending
        /\ ~ Held(Nobody, l.to)
        /\ account' = [account EXCEPT ![l.user] = IF moves THEN Promoted(@, l.to) ELSE Abandoned(@)]
        /\ IF moves THEN Proved(l.user, l.to) ELSE UNCHANGED provers
        /\ Ends(r)
        /\ UNCHANGED <<letters, spent, number, uses>>

\* cancel_pending_email, cancel_admin_pending_email, and update_profile with the
\* current address.
CancelPending(u) ==
    /\ u \in Present
    /\ account[u].pending # Nobody
    /\ account' = [account EXCEPT ![u] = Abandoned(@)]
    /\ UNCHANGED <<letters, spent, number, req, provers, uses>>

\* trigger_email_change up to the write.
AdminRead(r, u, a) ==
    /\ u \in Present
    /\ ~ account[u].verified
    /\ a # account[u].email
    /\ Named(a) = {}
    /\ Begins(r, [pc |-> "triggers", u |-> u, a |-> a])
    /\ UNCHANGED <<account, letters, spent, number, provers, uses>>

AdminCommit(r) ==
    LET u == req[r].u
    IN  /\ req[r].pc = "triggers"
        /\ account' = [account EXCEPT ![u].pending = req[r].a]
        /\ letters' = letters \cup {[VerifyLetter(u, req[r].a) EXCEPT !.admin = TRUE]}
        /\ Ends(r)
        /\ UNCHANGED <<spent, number, provers, uses>>

-----------------------------------------------------------------------------
(* Step-up proofs, and what a signed-in person changes. *)

\* sso_stepup_callback: Google names the owner of the account's address.  A new
\* proof replaces the last.
IssueStepup(u, action) ==
    /\ u \in Present
    /\ account[u].verified
    /\ number < MaxNumber
    /\ number' = number + 1
    /\ account' = [account EXCEPT ![u].proof = [n |-> number + 1, action |-> action]]
    /\ Proved(u, account[u].email)
    /\ UNCHANGED <<letters, spent, req, uses>>

\* stepup_valid, of the proof the person holds
StepupValid(row, action) == row.proof # NoProof /\ row.proof.action = action

\* reauth_password, or stepup_valid where no password is set.  Only the owner of
\* the address was given the proof.
Authorised(row, who, action) ==
    /\ row.verified
    /\ IF PasswordSet(row) THEN row.by = who
       ELSE StepupValid(row, action) /\ row.email = who

\* update_profile and change_password up to the write.
ChangeRead(r, u, who, action, a) ==
    /\ u \in Present
    /\ Authorised(account[u], who, action)
    /\ IF action = "email_change" THEN a # account[u].email /\ Named(a) = {} ELSE a = who
    /\ Begins(r, [pc |-> "changes", u |-> u, who |-> who, action |-> action, a |-> a,
                  row |-> account[u]])
    /\ UNCHANGED <<account, letters, spent, number, provers, uses>>

\* Mutant: the proof is not compared again when it is spent.
AsRead(row, now) == TRUE

\* consume_stepup: the row still has the proof that was read.
ProofUnspent(row, now) == PasswordSet(row) \/ now.proof = row.proof

\* Mutant: the new address takes effect before its letter is opened.
ChangedAtOnce(row, q) == IF q.action = "email_change" THEN [row EXCEPT !.email = q.a] ELSE row

\* change_password: the first password of an account spends its proof, a later
\* one needed the password before it.
PasswordChanged(row, q) ==
    [row EXCEPT !.by = q.who, !.changes = @ + 1, !.proof = IF PasswordSet(q.row) THEN @ ELSE NoProof]

Changed(row, q) ==
    IF q.action = "password_set" THEN PasswordChanged(row, q)
    ELSE [row EXCEPT !.pending = q.a, !.proof = IF PasswordSet(q.row) THEN @ ELSE NoProof]

ChangeCommit(r) ==
    LET q == req[r]
        ok == ProofUnspent(q.row, account[q.u])
    IN  /\ q.pc = "changes"
        /\ IF ok THEN account' = [account EXCEPT ![q.u] = Changed(@, q)] ELSE UNCHANGED account
        /\ IF ok /\ q.action = "email_change"
           THEN letters' = letters \cup {VerifyLetter(q.u, q.a)} ELSE UNCHANGED letters
        /\ IF ok /\ ~ PasswordSet(q.row) THEN Used(q.row.proof.n) ELSE UNCHANGED uses
        /\ Ends(r)
        /\ UNCHANGED <<spent, number, provers>>

-----------------------------------------------------------------------------
(* Resets, and Google. *)

\* email_digest, and the token's time against password_changed_at.
StillDated(l, row) == l.to = row.email /\ l.at = row.changes

\* reset_password up to the claim
ResetClaim(r, l) ==
    /\ l.kind = "reset"
    /\ StillDated(l, account[l.user])
    /\ FirstUse(l.n)
    /\ spent' = spent \cup {l.n}
    /\ Begins(r, [pc |-> "resets", l |-> l])
    /\ UNCHANGED <<account, letters, number, provers, uses>>

ResetCommit(r) ==
    LET l == req[r].l
    IN  /\ req[r].pc = "resets"
        /\ account' = [account EXCEPT ![l.user].by = l.to, ![l.user].changes = @ + 1]
        /\ Proved(l.user, l.to)
        /\ Used(l.n)
        /\ Ends(r)
        /\ UNCHANGED <<letters, spent, number>>

\* google_callback reads the account of the address, if there is one.
GoogleRead(r, u, a) ==
    /\ IF Named(a) = {} THEN u \notin Present ELSE u \in Named(a)
    /\ Begins(r, [pc |-> "links", u |-> u, a |-> a, row |-> account[u]])
    /\ UNCHANGED <<account, letters, spent, number, provers, uses>>

\* Mutant: the password someone registered with stays.
Linked(row) == [row EXCEPT !.verified = TRUE]

\* An address that was not verified takes a password nobody knows.
LinkedByGoogle(row) == [row EXCEPT !.verified = TRUE, !.by = Nobody]

\* It creates the account, verified and without a password, or verifies it.
GoogleCommit(r) ==
    LET q == req[r]
        new == ~ q.row.there
        ok  == new => q.u \notin Present /\ NotTaken(q.u, q.a)
    IN  /\ q.pc = "links"
        /\ new => ~ Held(q.u, q.a)
        /\ IF ok
           THEN /\ account' = [account EXCEPT ![q.u] =
                      IF new THEN NewAccount(q.a, TRUE, Nobody)
                      ELSE IF q.row.verified THEN @ ELSE LinkedByGoogle(@)]
                /\ Proved(q.u, q.a)
           ELSE UNCHANGED <<account, provers>>
        /\ Ends(r)
        /\ UNCHANGED <<letters, spent, number, uses>>

\* The server dies: what was claimed stays claimed.
DropRequest(r) ==
    /\ req[r] # Idle
    /\ Ends(r)
    /\ UNCHANGED <<account, letters, spent, number, provers, uses>>

-----------------------------------------------------------------------------
MailInit ==
    /\ account = [u \in Users |-> NoAccount]
    /\ letters = {}
    /\ spent = {}
    /\ number = 0
    /\ req = [r \in Reqs |-> Idle]
    /\ provers = [u \in Users |-> {}]
    /\ uses = [n \in 1..MaxNumber |-> 0]

MailNext ==
    \/ \E u \in Users, a, who \in Persons : Register(u, a, who)
    \/ \E a \in Persons : SignupStart(a)
    \/ \E u \in Users : ForgotPassword(u) \/ CancelPending(u)
    \/ \E u \in Users, action \in StepupActions : IssueStepup(u, action)
    \/ \E r \in Reqs, l \in letters :
          \/ \E u \in Users : SignupFlush(r, l, u)
          \/ VerifyRead(r, l)
          \/ ResetClaim(r, l)
    \/ \E r \in Reqs, u \in Users, a \in Persons :
          \/ AdminRead(r, u, a)
          \/ GoogleRead(r, u, a)
          \/ \E who \in Persons, action \in StepupActions : ChangeRead(r, u, who, action, a)
    \/ \E r \in Reqs :
          \/ SignupCommit(r) \/ VerifyCommit(r) \/ PromoteCommit(r) \/ AdminCommit(r)
          \/ ChangeCommit(r) \/ ResetCommit(r) \/ GoogleCommit(r) \/ DropRequest(r)

-----------------------------------------------------------------------------
(* Properties. *)

\* An address belongs to one account.  A claimed number was given out.
MailTypeOK ==
    /\ \A u \in Present : account[u] \in AccountRow
    /\ \A u, v \in Present : account[u].email = account[v].email => u = v
    /\ spent \subseteq 1..number
    /\ \A l \in letters : l.user # Nobody => l.user \in Present

\* The address of a verified account was shown to be the owner's, by a letter
\* sent there or by Google, whatever overlaps.
AddressProven == \A u \in Present : account[u].verified => account[u].email \in provers[u]

\* On a verified account the password, if there is one, is the owner's of an
\* address the account has had: never that of someone who registered with an
\* address that is not theirs.
PasswordProven ==
    \A u \in Present : account[u].verified /\ PasswordSet(account[u]) => account[u].by \in provers[u]

\* A reset letter, a sign-up letter and a step-up proof are each good for one
\* change, whatever overlaps or dies.
NumberOnce == \A n \in 1..MaxNumber : uses[n] <= 1
=============================================================================
