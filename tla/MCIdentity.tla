----------------------------- MODULE MCIdentity -----------------------------
(* Who may act: second factors, addresses and passwords, members of an        *)
(* organisation, sign-in and step-up through Google, and grants to agents, on *)
(* small instances.  The parts meet in the session, which Sessions models; a  *)
(* behaviour exercises one part, its focus, and the variables of the others   *)
(* are Off.                                                                   *)
EXTENDS Integers, Sequences, FiniteSets, TLC

CONSTANTS
    Requests,   \* of every part
    Ids,        \* identities of accounts and of invitations
    Challenges, MailCodes, MaxStep, MaxGen, UserLimit, ChalLimit,
    MaxAsked, MaxDisturbed,
    MaxNumber, MaxLetterSteps,
    People, Founder, MaxUsers, MaxPending, MaxMemberSteps,
    Browsers, Tabs, BrowserOf, Visitors, Deactivated, WithMfa, SignInActions,
    MaxRounds, MaxOpened,
    Rows, Clients, MaxLive, MaxSerial, MaxClock, MaxGrantsAsked

VARIABLES
    focus,   \* the part that is exercised
    count,   \* bound: steps of Emails and Members, requests of the others
    mfa, gen, paused, challenge, mailed, step, claims, fails, chalFails, row, try,
    accepted, opened, burnt, offered, disturbed,
    account, letters, spent, number, req, provers, uses,
    member, invite, report, orgLock, call, single, taken, admitted,
    rounds, jar, tab, stored, codes, accounts, sessioned, proof, audits, done, copied,
    token, clients, clock, cutoff, asking, pending, honoured

M == INSTANCE MCSecondFactor WITH Tries <- Requests, asked <- count
E == INSTANCE Emails WITH Persons <- People \ {Founder}, Users <- Ids, Reqs <- Requests
O == INSTANCE Members WITH Invites <- Ids, Calls <- Requests
I == INSTANCE SignIn
     WITH StepupActions <- SignInActions, Persons <- Visitors, spent <- codes,
          opened <- copied
G == INSTANCE MCGrants
     WITH Calls <- Requests, MaxAsked <- MaxGrantsAsked, asked <- count, call <- asking

\* What the parts ask of their constants.
ASSUME IdentityAssumption ==
    /\ M!MfaAssumption /\ E!MailAssumption /\ O!MembersAssumption
    /\ I!SignAssumption /\ G!GrantAssumption

Off == "off"
mfaVars == <<mfa, gen, paused, challenge, mailed, step, claims, fails, chalFails, row,
             try, accepted, opened, burnt, offered, disturbed>>
mailVars == <<account, letters, spent, number, req, provers, uses>>
orgVars == <<member, invite, report, orgLock, call, single, taken, admitted>>
signVars == <<rounds, jar, tab, stored, codes, accounts, sessioned, proof, audits, done,
              copied>>
grantVars == <<token, clients, clock, cutoff, asking, pending, honoured>>
identityVars == <<focus, count, mfaVars, mailVars, orgVars, signVars, grantVars>>

-----------------------------------------------------------------------------
(* The instances. *)

\* Two tabs of one browser and one of another.
SomeTabs == {"a1", "a2", "b1"}
TheirBrowser == [t \in SomeTabs |-> IF t = "b1" THEN "b" ELSE "a"]

\* Those with a second factor have an account; the others make one.
Known == WithMfa

-----------------------------------------------------------------------------
(* One part at a time. *)

NoMfa == /\ mfa = Off /\ gen = Off /\ paused = Off /\ challenge = Off /\ mailed = Off
         /\ step = Off /\ claims = Off /\ fails = Off /\ chalFails = Off /\ row = Off
         /\ try = Off /\ accepted = Off /\ opened = Off /\ burnt = Off /\ offered = Off
         /\ disturbed = Off
NoMail == /\ account = Off /\ letters = Off /\ spent = Off /\ number = Off /\ req = Off
          /\ provers = Off /\ uses = Off
NoOrg == /\ member = Off /\ invite = Off /\ report = Off /\ orgLock = Off /\ call = Off
         /\ single = Off /\ taken = Off /\ admitted = Off
NoSignIn == /\ rounds = Off /\ jar = Off /\ tab = Off /\ stored = Off /\ codes = Off
            /\ accounts = Off /\ sessioned = Off /\ proof = Off /\ audits = Off
            /\ done = Off /\ copied = Off
NoGrants == /\ token = Off /\ clients = Off /\ clock = Off /\ cutoff = Off
            /\ asking = Off /\ pending = Off /\ honoured = Off

GrantFoci == {"consent", "endpoint", "agent"}

Init ==
    /\ focus \in {"mfa", "mail", "members", "signin"} \cup GrantFoci
    /\ count = 0
    /\ IF focus = "mfa" THEN M!Init ELSE NoMfa
    /\ IF focus = "mail" THEN E!MailInit ELSE NoMail
    /\ IF focus = "members" THEN O!OrgInit /\ member[Founder] # O!NoMember ELSE NoOrg
    /\ IF focus = "signin" THEN I!SignInit(Known) ELSE NoSignIn
    /\ IF focus \in GrantFoci THEN G!Init ELSE NoGrants

MfaStep ==
    focus = "mfa" /\ M!Next /\ UNCHANGED <<focus, mailVars, orgVars, signVars, grantVars>>

\* Bounds: letters and members are followed for some steps.
MailStep ==
    /\ focus = "mail" /\ count < MaxLetterSteps /\ E!MailNext /\ count' = count + 1
    /\ UNCHANGED <<focus, mfaVars, orgVars, signVars, grantVars>>

MemberStep ==
    /\ focus = "members" /\ count < MaxMemberSteps /\ O!OrgNext /\ count' = count + 1
    /\ UNCHANGED <<focus, mfaVars, mailVars, signVars, grantVars>>

\* Bound: the first proof that is asked for is for a token; the actions are
\* interchangeable.
SignInStep ==
    /\ focus = "signin" /\ I!SignNext
    /\ rounds' # <<>> => rounds'[1].action # "email_change"
    /\ UNCHANGED <<focus, count, mfaVars, mailVars, orgVars, grantVars>>

GrantStep ==
    focus \in GrantFoci /\ G!Next /\ UNCHANGED <<mfaVars, mailVars, orgVars, signVars>>

Next == MfaStep \/ MailStep \/ MemberStep \/ SignInStep \/ GrantStep
Spec == Init /\ [][Next]_identityVars

\* Requests and identities are interchangeable, and so are those who join later.
Symmetry ==
    Permutations(Requests) \cup Permutations(Ids) \cup Permutations(People \ {Founder})

-----------------------------------------------------------------------------
(* What holds.  Each of these names the invariants of one module, which       *)
(* explains them.                                                             *)

\* Second factors: a code, a challenge and a budget of failures are used once,
\* whatever requests overlap, and no code is lost (mfa_service).
MfaSafe ==
    focus = "mfa" =>
        M!MfaTypeOK /\ M!CodeOnce /\ M!ChallengeOnce /\ M!BudgetHeld /\ M!NoCodeLost

\* Addresses: an account reads an address or takes a password only by a proof of
\* its own, and each letter or proof serves once (auth, users).
MailSafe ==
    focus = "mail" =>
        E!MailTypeOK /\ E!AddressProven /\ E!PasswordProven /\ E!NumberOnce

\* Members: an invitation admits one account and an owner remains
\* (invitation_service, org_members).
MembersSafe ==
    focus = "members" => O!MembersTypeOK /\ O!InviteTakenOnce /\ O!OwnerRemains

\* Sign-in: sessions, accounts and step-up proofs come from round trips of the
\* same browser and person (auth_google, stepup).
SignInSafe ==
    focus = "signin" =>
        /\ I!SignTypeOK /\ I!OnlyOwnRounds /\ I!ProofsAndTabsBound
        /\ I!AccountHasSession(Known)

\* Grants: a refresh token is answered once, the cap on live tokens holds, a
\* logout wins and staged actions go with their token (agent_oauth).
GrantsSafe ==
    focus \in GrantFoci =>
        /\ G!GrantTypeOK /\ G!AnsweredOnce /\ G!CapHeld /\ G!LogoutWins
        /\ G!StagedFollowToken

\* A TOTP step is accepted only after every step accepted before it, and a
\* grant's scope never widens.
StepsAndScopesOrdered ==
    [][ /\ focus = "mfa" => M!StepsForward
        /\ focus \in GrantFoci => G!GrantNeverWidens ]_identityVars
=============================================================================
