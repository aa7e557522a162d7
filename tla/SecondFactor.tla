---------------------------- MODULE SecondFactor ----------------------------
(***************************************************************************)
(* The second factor of one user: sign-in challenges answered with a TOTP  *)
(* code, a recovery code or a mailed code, the settings that ask for one,  *)
(* and the windows that count failures.  Requests overlap: each reads the  *)
(* user, checks what was given against claims that are committed on their  *)
(* own, and only then commits; an update of the user's row holds it until  *)
(* the commit.  Claims outlive what they refer to, so they never end here. *)
(***************************************************************************)
EXTENDS Integers, FiniteSets

CONSTANTS
    Tries,       \* requests
    Challenges,  \* sign-in challenges: the jti of their tokens
    MailCodes,   \* codes sent by mail: the jti of their tokens
    MaxStep,     \* bound: the last TOTP step
    MaxGen,      \* bound: generations of recovery codes
    UserLimit,   \* MFA_FAILURES_PER_USER
    ChalLimit    \* MFA_FAILURES_PER_CHALLENGE

\* What the module asks of its constants: a failure may be counted, a user may
\* have recovery codes, and requests and challenges have names of their own.
MfaAssumption ==
    /\ {UserLimit, ChalLimit, MaxGen} \subseteq Nat \ {0}
    /\ MaxStep \in Nat
    /\ IsFiniteSet(Tries)
    /\ "free" \notin Tries /\ "none" \notin Challenges

VARIABLES
    mfa,       \* the user's row: on, secret, codes, fallback
    gen,       \* generations of recovery codes made
    paused,    \* a password reset closed the mail fallback for a time
    challenge, \* challenge -> "none", "live", "cut"
    mailed,    \* mailed codes
    step,      \* the current TOTP step
    claims,    \* claimed tokens: steps, mailed codes, challenges
    fails,     \* failures in the user's window
    chalFails, \* challenge -> failures
    row,       \* the request that holds the user's row, or none
    try,       \* per request: what it does and what it has read
    \* what happened
    accepted,  \* what was accepted, as <<given, request count>>
    opened,    \* challenge -> sessions issued from it
    burnt      \* the last step whose acceptance was completed

mfaVars == <<mfa, gen, paused, challenge, mailed, step, claims, fails, chalFails,
             row, try, accepted, opened, burnt>>
history == <<accepted, opened, burnt>>

Free == "free"
Codes(g) == {<<"code", g, i>> : i \in 1..2}
Steps == {<<"step", s>> : s \in 0..MaxStep}
Mails == {<<"mail", m>> : m \in MailCodes}
Wrong == <<"wrong", 0>>
Given == Steps \cup Mails \cup {Wrong} \cup UNION {Codes(g) : g \in 1..MaxGen}
LoginKinds == {"totp", "recovery", "mail"}

NoTry == [pc |-> "idle", op |-> "none", j |-> "none", kind |-> "none",
          given |-> Wrong, seen |-> {}]

-----------------------------------------------------------------------------
(* Windows of failures. *)

\* Mutant: the window counts and refuses nothing.
AlwaysOpen(j) == TRUE

\* mfa_user_retry_after and mfa_challenge_exhausted.
WindowOpen(j) ==
    /\ fails < UserLimit
    /\ j \in Challenges => chalFails[j] < ChalLimit

\* record_mfa_failure, the challenge first: a full one is claimed.
FailChallenge(t) ==
    LET j == try[t].j
    IN  /\ try[t].pc = "fails"
        /\ IF j \in Challenges
           THEN /\ chalFails' = [chalFails EXCEPT ![j] = @ + 1]
                /\ claims' = IF chalFails'[j] = ChalLimit
                             THEN claims \cup {<<"challenge", j>>} ELSE claims
           ELSE UNCHANGED <<chalFails, claims>>
        /\ try' = [try EXCEPT ![t].pc = "failsUser"]
        /\ UNCHANGED <<mfa, gen, paused, challenge, mailed, step, fails, row, history>>

FailUser(t) ==
    /\ try[t].pc = "failsUser"
    /\ fails' = fails + 1
    /\ try' = [try EXCEPT ![t] = NoTry]
    /\ UNCHANGED <<mfa, gen, paused, challenge, mailed, step, claims, chalFails, row, history>>

\* FAILURE_WINDOW_SECONDS after its first failure the window is over.  A
\* challenge does not live that long.
WindowEnds ==
    /\ fails > 0
    /\ fails' = 0
    /\ UNCHANGED <<mfa, gen, paused, challenge, mailed, step, claims, chalFails, row, try, history>>

-----------------------------------------------------------------------------
(* Challenges and codes are made. *)

\* login and google_callback, the password having been right.
Challenge(j) ==
    /\ mfa.on
    /\ challenge[j] = "none"
    /\ challenge' = [challenge EXCEPT ![j] = "live"]
    /\ UNCHANGED <<mfa, gen, paused, mailed, step, claims, fails, chalFails, row, try, history>>

\* reset_password and the other changes that move the cutoff: older challenges
\* are void, and a reset pauses the mail fallback.
MoveCutoff(reset) ==
    /\ row = Free
    /\ challenge' = [j \in Challenges |-> IF challenge[j] = "live" THEN "cut" ELSE challenge[j]]
    /\ paused' = (paused \/ reset)
    /\ UNCHANGED <<mfa, gen, mailed, step, claims, fails, chalFails, row, try, history>>

\* _require_email_fallback.
MailAllowed == ~ mfa.secret \/ (mfa.fallback /\ ~ paused)

\* _resolve_mfa_user.
Resolves(j) == challenge[j] = "live" /\ mfa.on /\ WindowOpen(j)

\* mfa_email_code
MailCode(j, m) ==
    /\ Resolves(j)
    /\ MailAllowed
    /\ m \notin mailed
    /\ mailed' = mailed \cup {m}
    /\ UNCHANGED <<mfa, gen, paused, challenge, step, claims, fails, chalFails, row, try, history>>

NextStep ==
    /\ step < MaxStep - 1
    /\ step' = step + 1
    /\ UNCHANGED <<mfa, gen, paused, challenge, mailed, claims, fails, chalFails, row, try, history>>

-----------------------------------------------------------------------------
(* A code is checked. *)

Begin(t, op, j, kind, given) ==
    /\ try[t].pc = "idle"
    /\ try' = [try EXCEPT ![t] = [pc |-> "checks", op |-> op, j |-> j, kind |-> kind,
                                  given |-> given, seen |-> mfa.codes]]
    /\ UNCHANGED <<mfa, gen, paused, challenge, mailed, step, claims, fails, chalFails, row, history>>

\* mfa_verify, mfa_recovery and mfa_email_verify up to the check.
Answer(t, j, kind, given) ==
    /\ Resolves(j)
    /\ kind = "totp" => mfa.secret
    /\ kind = "recovery" => mfa.codes # {}
    /\ kind = "mail" => MailAllowed
    /\ Begin(t, "login", j, kind, given)

\* mfa_disable, mfa_regenerate_codes and mfa_email_fallback, the password having
\* been right: require_second_factor.
AskSettings(t, op, kind, given) ==
    /\ mfa.on
    /\ WindowOpen("none")
    /\ Begin(t, op, "none", kind, given)

\* mfa_enable: a code of the secret that mfa_setup stored, outside the windows.
AskEnable(t, given) ==
    /\ ~ mfa.on
    /\ mfa.secret
    /\ Begin(t, "enable", "none", "totp", given)

Fails(t) == [try EXCEPT ![t] = IF try[t].op = "enable" THEN NoTry ELSE [@ EXCEPT !.pc = "fails"]]

\* Mutant: a step is accepted although it is claimed.
StepAnyTime(s) == s \in step - 1 .. step + 1

\* match_totp_step and the claim of the step.
StepFresh(s) == s \in step - 1 .. step + 1 /\ <<"step", s>> \notin claims

\* verify_totp_once up to the claim.
CheckTotp(t) ==
    LET g == try[t].given
    IN  /\ try[t].pc = "checks"
        /\ try[t].kind = "totp"
        /\ IF g \in Steps /\ StepFresh(g[2])
           THEN /\ claims' = claims \cup {g}
                /\ try' = [try EXCEPT ![t].pc = "burns"]
           ELSE /\ try' = Fails(t)
                /\ UNCHANGED claims
        /\ UNCHANGED <<mfa, gen, paused, challenge, mailed, step, fails, chalFails, row, history>>

\* Mutant: one older step.
OneOlder(s) == {s - 1}

Older(s) == {s - 1, s - 2}

\* verify_totp_once after the claim: older steps are claimed too.
BurnOlder(t) ==
    LET s == try[t].given[2]
    IN  /\ try[t].pc = "burns"
        /\ claims' = claims \cup {<<"step", o>> : o \in Older(s)}
        /\ burnt' = IF s > burnt THEN s ELSE burnt
        /\ try' = [try EXCEPT ![t].pc = "passes"]
        /\ UNCHANGED <<mfa, gen, paused, challenge, mailed, step, fails, chalFails, row,
                       accepted, opened>>

\* Mutant: the list is overwritten without comparing it.
InListAsRead(t) == try[t].given \in try[t].seen

\* The update of consume_recovery_code finds the list as it was read.
StillInList(t) == try[t].given \in try[t].seen /\ mfa.codes = try[t].seen

\* consume_recovery_code: it waits for the row, and keeps it when it succeeds.
CheckRecovery(t) ==
    /\ try[t].pc = "checks"
    /\ try[t].kind = "recovery"
    /\ row = Free
    /\ IF StillInList(t)
       THEN /\ row' = t
            /\ try' = [try EXCEPT ![t].pc = "passes"]
       ELSE try' = Fails(t) /\ UNCHANGED row
    /\ UNCHANGED <<mfa, gen, paused, challenge, mailed, step, claims, fails, chalFails, history>>

\* mfa_email_verify: a code that was used is refused and not counted.
CheckMail(t) ==
    LET g == try[t].given
    IN  /\ try[t].pc = "checks"
        /\ try[t].kind = "mail"
        /\ IF g \notin {<<"mail", m>> : m \in mailed}
           THEN try' = Fails(t) /\ UNCHANGED claims
           ELSE /\ try' = [try EXCEPT ![t] = IF g \in claims THEN NoTry ELSE [@ EXCEPT !.pc = "passes"]]
                /\ claims' = claims \cup {g}
        /\ UNCHANGED <<mfa, gen, paused, challenge, mailed, step, fails, chalFails, row, history>>

\* Mutant: a request that ends early keeps the row.
StillLocked(t) == row

Unlocked(t) == IF row = t THEN Free ELSE row

\* Mutant: a challenge is not spent by a success.
ClaimNothing(j) == {}

\* claim_mfa_challenge
ChallengeClaim(j) == {<<"challenge", j>>}

\* _second_factor_passed: a challenge that is spent or burned gives nothing back
\* and the code is not spent; a success empties the window.
PassLogin(t) ==
    LET c == ChallengeClaim(try[t].j)
    IN  /\ try[t].pc = "passes"
        /\ try[t].op = "login"
        /\ IF c # {} /\ c \subseteq claims
           THEN /\ try' = [try EXCEPT ![t] = NoTry]
                /\ row' = Unlocked(t)
                /\ UNCHANGED <<claims, fails>>
           ELSE /\ claims' = claims \cup c
                /\ fails' = 0
                /\ try' = [try EXCEPT ![t].pc = "commits"]
                /\ UNCHANGED row
        /\ UNCHANGED <<mfa, gen, paused, challenge, mailed, step, chalFails, history>>

PassSettings(t) ==
    /\ try[t].pc = "passes"
    /\ try[t].op # "login"
    /\ fails' = IF try[t].op = "enable" THEN fails ELSE 0
    /\ try' = [try EXCEPT ![t].pc = "commits"]
    /\ UNCHANGED <<mfa, gen, paused, challenge, mailed, step, claims, chalFails, row, history>>

-----------------------------------------------------------------------------
(* Commits. *)

\* Mutant: the list written is the list read.
SpentAsRead(t) == try[t].seen \ {try[t].given}

\* The row after the request: a code it spent is gone.
Spent(t) == mfa.codes \ {try[t].given}

\* What mfa_enable and mfa_regenerate_codes leave: new codes, none of the old.
FreshCodes(on) == [mfa EXCEPT !.on = on, !.codes = Codes(gen + 1)]

NewRow(t) ==
    LET op == try[t].op
    IN  CASE op = "disable"  -> [on |-> FALSE, secret |-> FALSE, codes |-> {}, fallback |-> FALSE]
          [] op = "enable"     -> FreshCodes(TRUE)
          [] op = "regenerate" -> FreshCodes(mfa.on)
          [] op = "fallback" -> [mfa EXCEPT !.codes = Spent(t), !.fallback = TRUE]
          [] OTHER           -> [mfa EXCEPT !.codes = Spent(t)]

\* The session is issued, or the change made, and the code is spent.
CommitMfa(t) ==
    /\ try[t].pc = "commits"
    /\ row \in {Free, t}
    /\ try[t].op \in {"regenerate", "enable"} => gen < MaxGen
    /\ mfa' = NewRow(t)
    /\ gen' = IF try[t].op \in {"regenerate", "enable"} THEN gen + 1 ELSE gen
    /\ accepted' = accepted \cup
          {<<try[t].given, Cardinality({a \in accepted : a[1] = try[t].given}) + 1>>}
    /\ opened' = [j \in Challenges |->
          opened[j] + (IF try[t].op = "login" /\ j = try[t].j THEN 1 ELSE 0)]
    /\ row' = Free
    /\ try' = [try EXCEPT ![t] = NoTry]
    /\ UNCHANGED <<paused, challenge, mailed, step, claims, fails, chalFails, burnt>>

\* The server dies, or the request fails: its transaction is rolled back, what
\* it claimed stays claimed.
Crash(t) ==
    /\ try[t].pc # "idle"
    /\ try' = [try EXCEPT ![t] = NoTry]
    /\ row' = Unlocked(t)
    /\ UNCHANGED <<mfa, gen, paused, challenge, mailed, step, claims, fails, chalFails, history>>

\* mfa_setup: a new secret while MFA is off.
SetupMfa ==
    /\ ~ mfa.on
    /\ row = Free
    /\ mfa' = [mfa EXCEPT !.secret = TRUE]
    /\ UNCHANGED <<gen, paused, challenge, mailed, step, claims, fails, chalFails, row, try, history>>

-----------------------------------------------------------------------------
MfaInit ==
    /\ mfa \in {[on |-> FALSE, secret |-> FALSE, codes |-> {}, fallback |-> FALSE],
                [on |-> TRUE, secret |-> TRUE, codes |-> Codes(1), fallback |-> TRUE]}
    /\ gen = IF mfa.on THEN 1 ELSE 0
    /\ paused = FALSE
    /\ challenge = [j \in Challenges |-> "none"]
    /\ mailed = {}
    /\ step = 1
    /\ claims = {}
    /\ fails = 0
    /\ chalFails = [j \in Challenges |-> 0]
    /\ row = Free
    /\ try = [t \in Tries |-> NoTry]
    /\ accepted = {}
    /\ opened = [j \in Challenges |-> 0]
    /\ burnt = -1

MfaNext ==
    \/ \E j \in Challenges : Challenge(j) \/ \E m \in MailCodes : MailCode(j, m)
    \/ \E reset \in BOOLEAN : MoveCutoff(reset)
    \/ NextStep \/ WindowEnds \/ SetupMfa
    \/ \E t \in Tries, g \in Given :
          \/ \E j \in Challenges, kind \in LoginKinds : Answer(t, j, kind, g)
          \/ \E op \in {"disable", "regenerate", "fallback"}, kind \in {"totp", "recovery"} :
                AskSettings(t, op, kind, g)
          \/ AskEnable(t, g)
    \/ \E t \in Tries :
          \/ CheckTotp(t) \/ BurnOlder(t) \/ CheckRecovery(t) \/ CheckMail(t)
          \/ FailChallenge(t) \/ FailUser(t) \/ PassLogin(t) \/ PassSettings(t)
          \/ CommitMfa(t) \/ Crash(t)

-----------------------------------------------------------------------------
(* Properties. *)

\* The row is held by a request that spends a recovery code; a challenge has
\* failures only when it was issued.
MfaTypeOK ==
    /\ mfa.codes \subseteq UNION {Codes(g) : g \in 1..MaxGen}
    /\ row # Free => try[row].kind = "recovery" /\ try[row].pc \in {"passes", "commits"}
    /\ \A j \in Challenges : challenge[j] = "none" => chalFails[j] = 0 /\ opened[j] = 0

\* A TOTP code, a recovery code and a mailed code are each accepted once, by
\* sign-in or settings, whatever overlaps or crashes.
CodeOnce == \A a \in accepted : a[2] = 1

\* A challenge opens one session at most, also when several factors are given
\* at once.
ChallengeOnce == \A j \in Challenges : opened[j] <= 1

\* Wrong guesses answered in one window of the user, or on one challenge, are
\* at most the limit and one for every request that was already under way.
BudgetHeld ==
    /\ fails <= UserLimit + Cardinality(Tries) - 1
    /\ \A j \in Challenges : chalFails[j] <= ChalLimit + Cardinality(Tries) - 1

\* A recovery code of the current generation is in the list or was accepted: a
\* request that loses a race, is refused or crashes does not spend one.
NoCodeLost ==
    mfa.on => \A c \in Codes(gen) : c \in mfa.codes \/ \E a \in accepted : a[1] = c

\* Once a code was accepted and older steps are claimed, no older code is.
StepsForward ==
    \A t \in Tries : try[t].pc = "checks" /\ try'[t].pc = "burns"
        => try[t].given[2] > burnt
=============================================================================
