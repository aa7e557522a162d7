---- MODULE SignIn ----
\* Signing in with Google and the step-up round trips (routers/auth.py, the
\* page the callback returns to): browsers with their cookies, tabs with their
\* storage, round trips that overlap, addresses opened a second time or in
\* another tab, and callbacks that wait for Google while other tabs go on.
\* A person is the owner of a Google account and of the address it confirms.
EXTENDS Naturals, Sequences, FiniteSets
CONSTANTS Browsers, Tabs, BrowserOf, Persons,
          Deactivated, WithMfa,   \* accounts that may not sign in, that need a second factor
          StepupActions,          \* STEPUP_ACTIONS
          MaxRounds, MaxOpened
VARIABLES rounds,    \* the round trips begun, numbered: a number stands for the random state and nonce
          jar,       \* per browser: oauth_state of both flows, oauth_nonce, whom the refresh cookie names
          tab,       \* what each tab shows or waits for
          stored,    \* the nonce in the sessionStorage of each tab
          spent,     \* codes Google has exchanged
          accounts,  \* committed rows of users
          sessioned, \* users the session store has held a session for
          proof,     \* users.stepup_token
          audits,    \* failures written to audit_events: the browser and the round
          done,      \* what round trips brought about
          opened
signVars == <<rounds, jar, tab, stored, spent, accounts, sessioned, proof, audits, done, opened>>
Nobody == "nobody"
\* What the module asks of its constants.
SignAssumption == BrowserOf \in [Tabs -> Browsers] /\ Nobody \notin Persons /\ WithMfa \subseteq Persons
Site == [at |-> "site"]
NoProof == [n |-> 0, action |-> "none"]
EmptyJar == [login |-> 0, stepup |-> 0, nonce |-> 0, who |-> Nobody]
Url(n, by) == [at |-> "callback", n |-> n, by |-> by]
Jar(t) == jar[BrowserOf[t]]
SetJar(t, j) == jar' = [jar EXCEPT ![BrowserOf[t]] = j]
Show(t, page) == tab' = [tab EXCEPT ![t] = page]
Kind(n) == rounds[n].kind

\* Both flows begin with a fresh state in a cookie of their own; the page that
\* begins a sign-in keeps the nonce too.
Round(t, kind, u, a) == [kind |-> kind, tab |-> t, user |-> u, action |-> a]
Begun(t, kind, u, a) ==
    /\ Len(rounds) < MaxRounds
    /\ tab[t].at \in {"site", "in"}
    /\ rounds' = Append(rounds, Round(t, kind, u, a))
    /\ Show(t, [at |-> "google", n |-> Len(rounds) + 1])
GoogleLogin(t) ==
    LET n == Len(rounds) + 1
    IN  /\ Begun(t, "login", Nobody, "sign_in")
        /\ SetJar(t, [Jar(t) EXCEPT !.login = n, !.nonce = n])
        /\ stored' = [stored EXCEPT ![t] = n]
        /\ UNCHANGED <<spent, accounts, sessioned, proof, audits, done, opened>>
StepupInitiate(t, a) ==
    /\ Jar(t).who # Nobody
    /\ Begun(t, "stepup", Jar(t).who, a)
    /\ SetJar(t, [Jar(t) EXCEPT !.stepup = Len(rounds) + 1])
    /\ UNCHANGED <<stored, spent, accounts, sessioned, proof, audits, done, opened>>
\* At Google whoever sits there picks an account, or gives up.
Consent(t) ==
    /\ tab[t].at = "google"
    /\ \E by \in Persons \union {Nobody} : Show(t, Url(tab[t].n, by))
    /\ UNCHANGED <<rounds, jar, stored, spent, accounts, sessioned, proof, audits, done, opened>>

\* The state of the address is the one in the cookie.
AnyState(t, n) == TRUE
StateOk(t, n) == IF Kind(n) = "login" THEN Jar(t).login = n ELSE Jar(t).stepup = n
Cleared(t, n) ==
    IF Kind(n) = "login" THEN [Jar(t) EXCEPT !.login = 0, !.nonce = 0] ELSE [Jar(t) EXCEPT !.stepup = 0]
Audited(t, n) == [browser |-> BrowserOf[t], n |-> n]
\* A failure clears the cookies of its flow, also those of a newer round trip;
\* it is written down only when the state came round.
Fails(t, n, ok) ==
    /\ SetJar(t, Cleared(t, n))
    /\ audits' = IF ok THEN audits \union {Audited(t, n)} ELSE audits
    /\ Show(t, Site)
    /\ UNCHANGED <<rounds, stored, spent, accounts, sessioned, proof, done, opened>>
Refuse(t) ==
    /\ tab[t].at = "callback"
    /\ LET n == tab[t].n
           known == Kind(n) = "login" \/ rounds[n].user \in accounts
       IN  /\ tab[t].by = Nobody \/ ~StateOk(t, n) \/ ~known
           /\ Fails(t, n, StateOk(t, n) /\ (tab[t].by = Nobody \/ known))
\* The code is exchanged once; the request keeps the nonce it came with.
Exchange(t) ==
    /\ tab[t].at = "callback"
    /\ LET n == tab[t].n IN
         /\ tab[t].by # Nobody
         /\ StateOk(t, n)
         /\ Kind(n) = "stepup" => rounds[n].user \in accounts
         /\ Show(t, [at |-> "exchange", n |-> n, by |-> tab[t].by, nonce |-> Jar(t).nonce,
                     fresh |-> <<n, tab[t].by>> \notin spent])
         /\ spent' = spent \union {<<n, tab[t].by>>}
    /\ UNCHANGED <<rounds, jar, stored, accounts, sessioned, proof, audits, done, opened>>
\* Google is late, refuses, or names no verified address; or the account may
\* not sign in, or is not the one the step-up was begun for.
AnyAddress(t) == TRUE
SameAddress(t) == tab[t].by = rounds[tab[t].n].user
ExchangeFails(t) ==
    /\ tab[t].at = "exchange"
    /\ Fails(t, tab[t].n, TRUE)

\* Sign-in: a new account is flushed and holds its address until the commit.
Holder(p, t) == \E q \in Tabs \ {t} : tab[q].at \in {"issue", "commit"} /\ tab[q].by = p /\ tab[q].created
LookUp(t) ==
    /\ tab[t].at = "exchange"
    /\ Kind(tab[t].n) = "login"
    /\ tab[t].fresh
    /\ tab[t].by \notin Deactivated
    /\ Show(t, [at |-> "prepare", n |-> tab[t].n, by |-> tab[t].by, nonce |-> tab[t].nonce, created |-> tab[t].by \notin accounts])
    /\ UNCHANGED <<rounds, jar, stored, spent, accounts, sessioned, proof, audits, done, opened>>
CommittedAlready(t) == accounts
CommittedFirst(t) == accounts \union {tab[t].by}
Flushed(t) == CommittedAlready(t)
Prepare(t) ==
    /\ tab[t].at = "prepare"
    /\ tab[t].created => ~Holder(tab[t].by, t)
    /\ accounts' = Flushed(t)
    /\ Show(t, IF tab[t].created /\ tab[t].by \in accounts THEN Site ELSE [tab[t] EXCEPT !.at = "issue"])
    /\ UNCHANGED <<rounds, jar, stored, spent, sessioned, proof, audits, done, opened>>
\* An account with a second factor gets a challenge and no session.
Challenge(t) ==
    /\ tab[t].at = "issue"
    /\ tab[t].by \in WithMfa /\ ~tab[t].created
    /\ SetJar(t, Cleared(t, tab[t].n))
    /\ Show(t, [at |-> "landing", n |-> tab[t].n, by |-> tab[t].by, nonce |-> tab[t].nonce, created |-> FALSE])
    /\ UNCHANGED <<rounds, stored, spent, accounts, sessioned, proof, audits, done, opened>>
\* The session is written to the store before the account is committed.
Issue(t) ==
    /\ tab[t].at = "issue"
    /\ tab[t].created \/ tab[t].by \notin WithMfa
    /\ sessioned' = sessioned \union {tab[t].by}
    /\ Show(t, [tab[t] EXCEPT !.at = "commit"])
    /\ UNCHANGED <<rounds, jar, stored, spent, accounts, proof, audits, done, opened>>
\* The sign-in is written down, and whether it made the account.
LoggedIn(t) ==
    [kind |-> "session", browser |-> BrowserOf[t], n |-> tab[t].n, by |-> tab[t].by, as |-> tab[t].by,
     action |-> IF tab[t].created THEN "created_user" ELSE "sign_in"]
Commit(t) ==
    /\ tab[t].at = "commit"
    /\ accounts' = accounts \union {tab[t].by}
    /\ SetJar(t, [Cleared(t, tab[t].n) EXCEPT !.who = tab[t].by])
    /\ done' = done \union {LoggedIn(t)}
    /\ Show(t, [tab[t] EXCEPT !.at = "landing"])
    /\ UNCHANGED <<rounds, stored, spent, sessioned, proof, audits, opened>>
\* The store is down or the server stops: the transaction is rolled back.
Lost(t) ==
    /\ tab[t].at \in {"exchange", "prepare", "issue", "commit"}
    /\ Show(t, Site)
    /\ UNCHANGED <<rounds, jar, stored, spent, accounts, sessioned, proof, audits, done, opened>>
\* The page takes the token only with the nonce its own tab kept, and spends
\* the nonce whatever the address holds.
NonceUnread(t) == TRUE
NonceOk(t) == stored[t] # 0 /\ tab[t].nonce = stored[t]
NonceTaken(t) == [stored EXCEPT ![t] = 0]
Land(t) ==
    /\ tab[t].at = "landing"
    /\ stored' = NonceTaken(t)
    /\ Show(t, IF NonceOk(t) THEN [at |-> "in", n |-> tab[t].n, as |-> tab[t].by] ELSE Site)
    /\ UNCHANGED <<rounds, jar, spent, accounts, sessioned, proof, audits, done, opened>>

Issued(n) == [n |-> n, action |-> rounds[n].action]
\* A proof for one action, written on the row of the user it was begun for.
IssueStepup(t) ==
    /\ tab[t].at = "exchange"
    /\ Kind(tab[t].n) = "stepup"
    /\ tab[t].fresh
    /\ SameAddress(t)
    /\ LET n == tab[t].n
           u == rounds[n].user
       IN  /\ proof' = [proof EXCEPT ![u] = Issued(n)]
           /\ done' = done \union {[kind |-> "proof", browser |-> BrowserOf[t], n |-> n, by |-> tab[t].by, as |-> u, action |-> rounds[n].action]}
           /\ SetJar(t, Cleared(t, n))
           /\ Show(t, [at |-> "proved", n |-> n, action |-> rounds[n].action])
    /\ UNCHANGED <<rounds, stored, spent, accounts, sessioned, audits, opened>>
\* The page presents it for the action it asks for, as whoever is signed in.
HoldsAny(u, n, a) == proof[u].n = n
Holds(u, n, a) == proof[u] = [n |-> n, action |-> a]
ConsumeStepup(t, a) ==
    /\ tab[t].at = "proved"
    /\ Jar(t).who # Nobody
    /\ LET u == Jar(t).who
           ok == Holds(u, tab[t].n, a)
       IN  /\ proof' = IF ok THEN [proof EXCEPT ![u] = NoProof] ELSE proof
           /\ done' = IF ok THEN done \union {[kind |-> "use", browser |-> BrowserOf[t], n |-> tab[t].n, by |-> u, as |-> u, action |-> a]}
                      ELSE done
    /\ Show(t, Site)
    /\ UNCHANGED <<rounds, jar, stored, spent, accounts, sessioned, audits, opened>>
Login(t, u) ==
    /\ tab[t].at = "site"
    /\ u \in accounts \ (Deactivated \union WithMfa)
    /\ Jar(t).who # u
    /\ sessioned' = sessioned \union {u}
    /\ SetJar(t, [Jar(t) EXCEPT !.who = u])
    /\ UNCHANGED <<rounds, tab, stored, spent, accounts, proof, audits, done, opened>>
\* An address is opened again, in this tab, another or another browser.
Open(t, q) ==
    /\ opened < MaxOpened
    /\ tab[q].at \in {"site", "in"} \/ t = q
    /\ \/ tab[t].at \in {"callback", "exchange", "prepare", "issue", "commit"} /\ Show(q, Url(tab[t].n, tab[t].by))
       \/ tab[t].at \in {"landing", "proved"} /\ t # q /\ Show(q, tab[t])
       \/ tab[t].at = "in" /\ Show(q, Url(tab[t].n, tab[t].as))
    /\ opened' = opened + 1
    /\ UNCHANGED <<rounds, jar, stored, spent, accounts, sessioned, proof, audits, done>>
SignNext ==
    \E t \in Tabs :
      \/ GoogleLogin(t) \/ Consent(t) \/ Refuse(t) \/ Exchange(t) \/ ExchangeFails(t)
      \/ LookUp(t) \/ Prepare(t) \/ Challenge(t) \/ Issue(t) \/ Commit(t) \/ Lost(t) \/ Land(t)
      \/ IssueStepup(t)
      \/ \E a \in StepupActions : StepupInitiate(t, a) \/ ConsumeStepup(t, a)
      \/ \E u \in Persons : Login(t, u)
      \/ \E q \in Tabs : Open(t, q)
SignInit(known) ==
    /\ rounds = <<>>
    /\ jar = [b \in Browsers |-> EmptyJar]
    /\ tab = [t \in Tabs |-> Site]
    /\ stored = [t \in Tabs |-> 0]
    /\ spent = {}
    /\ accounts = known
    /\ sessioned = {}
    /\ proof = [u \in Persons |-> NoProof]
    /\ audits = {}
    /\ done = {}
    /\ opened = 0

SignTypeOK ==
    /\ \A b \in Browsers : {jar[b].login, jar[b].stepup, jar[b].nonce} \subseteq 0..Len(rounds)
    /\ \A t \in Tabs : stored[t] \in 0..Len(rounds)
    /\ \A b \in Browsers : jar[b].who = Nobody \/ jar[b].who \in accounts
    /\ \A u \in Persons : proof[u] # NoProof => u \in accounts
\* Sessions, proofs and failures written down come only from round trips begun
\* in the same browser, with the person who consented: whatever tabs overlap,
\* whatever address is opened twice or elsewhere, and whoever signs in
\* meanwhile.
OnlyOwnRounds ==
    /\ \A d \in done : d.kind \in {"session", "proof"} =>
         /\ BrowserOf[rounds[d.n].tab] = d.browser
         /\ d.by = d.as
         /\ d.kind = "proof" => d.as = rounds[d.n].user
    /\ \A a \in audits : BrowserOf[rounds[a.n].tab] = a.browser
\* A proof is spent for the action and by the user it was begun for, and a tab
\* is signed in only by a sign-in it began itself.
ProofsAndTabsBound ==
    /\ \A d \in done : d.kind = "use" => d.as = rounds[d.n].user /\ d.action = rounds[d.n].action
    /\ \A t \in Tabs : tab[t].at = "in" => rounds[tab[t].n].tab = t
\* Nobody is left with an account made by a sign-in that no session was
\* issued for: the first sign-in that succeeds is the one that is told so.
AccountHasSession(known) == accounts \ known \subseteq sessioned
====
