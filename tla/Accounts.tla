------------------------------- MODULE Accounts -------------------------------
(***************************************************************************)
(* How an account comes to be: a registration waits in Redis until the     *)
(* code mailed to its address is presented (routers/auth.py,               *)
(* pending_registration.py), or Google vouches for the address             *)
(* (routers/oauth.py).  Every request runs in a thread; each of its Redis  *)
(* commands, and its commit, is a step of its own.                         *)
(* Codes are numbered as they are generated: no two are the same.          *)
(***************************************************************************)
EXTENDS Integers, Sequences

CONSTANTS
    Email,
    Subject,        \* Google identities
    SignInThread,
    CodeLife,       \* otp_expire_minutes, in ticks
    KeyLife,        \* _KEY_TTL_SECONDS, in ticks
    Cooldown,       \* _OTP_RESEND_COOLDOWN_SECONDS, in ticks
    MaxRegs,        \* bound: registrations
    MaxCodes,       \* bound: codes generated
    MaxAccounts,    \* bound: rows of users
    EndTime         \* bound: ticks

ASSUME AccountsAssumption ==
    /\ {CodeLife, KeyLife, Cooldown, MaxRegs, MaxCodes, MaxAccounts, EndTime} \subseteq Nat
    /\ CodeLife < KeyLife

VARIABLES
    time,
    pending,        \* pending_registration:* in Redis, by registration
    users,          \* rows of users
    signin,         \* each thread's request and locals
    codes,          \* the last code generated
    mailed          \* history: the codes that reached an inbox, with their address

accountVars == <<time, pending, users, signin, codes, mailed>>

NoSubject == "no subject"
NotPending == [email |-> "no email", code |-> 0, expires |-> 0, sent |-> 0, dies |-> 0]
NoSignIn == [phase |-> "none"]

Regs == DOMAIN pending
Registered(e) == \E u \in DOMAIN users : users[u].email = e
Known(s) == \E u \in DOMAIN users : users[u].subject = s
UserOf(e) == CHOOSE u \in DOMAIN users : users[u].email = e

AccountsInit ==
    /\ time = 0
    /\ pending = <<>>
    /\ users = <<>>
    /\ signin = [t \in SignInThread |-> NoSignIn]
    /\ codes = 0
    /\ mailed = {}

\* What SETEX writes: a code generated at a time, the cooldown's and the key's start.
Stored(email, code, made) ==
    [email |-> email, code |-> code, expires |-> made + CodeLife, sent |-> time,
     dies |-> time + KeyLife]

\* A mail may not arrive, and nobody is told.
Mail(email, code, made) ==
    \E arrived \in {{}, {[email |-> email, code |-> code, made |-> made]}} :
        mailed' = mailed \cup arrived

Begin(t, request) == signin[t] = NoSignIn /\ signin' = [signin EXCEPT ![t] = request]
Proceed(t, phase) == signin' = [signin EXCEPT ![t].phase = phase]
Finish(t) == signin' = [signin EXCEPT ![t] = NoSignIn]

\* register: nothing is written to the table, and the registration's id is new.
Register(email) ==
    /\ ~Registered(email)
    /\ Len(pending) < MaxRegs /\ codes < MaxCodes
    /\ codes' = codes + 1
    /\ pending' = Append(pending, Stored(email, codes', time))
    /\ Mail(email, codes', time)
    /\ UNCHANGED <<time, users, signin>>

-----------------------------------------------------------------------------
\* verify_otp: read the registration and check the code; insert and commit, or find
\* the address taken; delete the registration either way.

\* A wrong Accepts: an expired code is still good while its key is there.
AcceptsWhileStored(r, code) == pending[r] # NotPending /\ code = pending[r].code
Accepts(r, code) ==
    pending[r] # NotPending /\ time <= pending[r].expires /\ code = pending[r].code

Verify(t, r, code) ==
    /\ Accepts(r, code)
    /\ Begin(t, [phase |-> "verified", reg |-> r, email |-> pending[r].email,
                 code |-> code, at |-> time])
    /\ UNCHANGED <<time, pending, users, codes, mailed>>

\* A wrong Inserts: the column is not unique.
InsertsAlways(row) == users' = Append(users, row)
\* The columns email and oauth_subject are unique: the row is inserted, or nothing.
Inserts(row) ==
    users' = IF Registered(row.email) \/ (row.subject # NoSubject /\ Known(row.subject))
             THEN users ELSE Append(users, row)

CommitVerified(t) ==
    /\ signin[t].phase = "verified"
    /\ Len(users) < MaxAccounts
    /\ Inserts([email |-> signin[t].email, subject |-> NoSubject, provider |-> "password",
                reg |-> signin[t].reg, code |-> signin[t].code, at |-> signin[t].at])
    /\ Proceed(t, "consumed")
    /\ UNCHANGED <<time, pending, codes, mailed>>

DeletePending(t) ==
    /\ signin[t].phase = "consumed"
    /\ pending' = [pending EXCEPT ![signin[t].reg] = NotPending]
    /\ Finish(t)
    /\ UNCHANGED <<time, users, codes, mailed>>

-----------------------------------------------------------------------------
\* resend_otp: GET for the cooldown, GET again for the update, SETEX the whole value
\* unless it was gone by then, and mail the code whether it was or not.

Resend(t, r) ==
    /\ pending[r] # NotPending
    /\ time - pending[r].sent >= Cooldown
    /\ codes < MaxCodes
    /\ codes' = codes + 1
    /\ Begin(t, [phase |-> "resending", reg |-> r, email |-> pending[r].email,
                 code |-> codes', made |-> time])
    /\ UNCHANGED <<time, pending, users, mailed>>

Reload(t) ==
    /\ signin[t].phase = "resending"
    /\ Proceed(t, IF pending[signin[t].reg] = NotPending THEN "mailing" ELSE "storing")
    /\ UNCHANGED <<time, pending, users, codes, mailed>>

StoreCode(t) ==
    /\ signin[t].phase = "storing"
    /\ pending' = [pending EXCEPT ![signin[t].reg] = 
                   Stored(signin[t].email, signin[t].code, signin[t].made)]
    /\ Proceed(t, "mailing")
    /\ UNCHANGED <<time, users, codes, mailed>>

MailCode(t) ==
    /\ signin[t].phase = "mailing"
    /\ Mail(signin[t].email, signin[t].code, signin[t].made)
    /\ Finish(t)
    /\ UNCHANGED <<time, pending, users, codes>>

-----------------------------------------------------------------------------
\* google_sign_in: Google says which address an identity has.  An identity that is
\* known just signs in; an address that is known is linked; else a row is inserted.
\* A commit that breaks a unique column is a 500 and leaves nothing.

GoogleSignIn(t, s, email) ==
    /\ Begin(t, IF Known(s) THEN [phase |-> "answered"]
                ELSE IF Registered(email)
                THEN [phase |-> "linking", subject |-> s, user |-> UserOf(email)]
                ELSE [phase |-> "joining", subject |-> s, email |-> email])
    /\ UNCHANGED <<time, pending, users, codes, mailed>>

Link(t) ==
    /\ signin[t].phase = "linking"
    /\ users' = IF Known(signin[t].subject) THEN users
                ELSE [users EXCEPT ![signin[t].user].subject = signin[t].subject,
                                   ![signin[t].user].provider = "google"]
    /\ Finish(t)
    /\ UNCHANGED <<time, pending, codes, mailed>>

Join(t) ==
    /\ signin[t].phase = "joining"
    /\ Len(users) < MaxAccounts
    /\ Inserts([email |-> signin[t].email, subject |-> signin[t].subject, provider |-> "google",
                reg |-> 0, code |-> 0, at |-> time])
    /\ Finish(t)
    /\ UNCHANGED <<time, pending, codes, mailed>>

\* login only reads; whatever it finds, the caller gets an answer.
Login(t) ==
    /\ Begin(t, [phase |-> "answered"])
    /\ UNCHANGED <<time, pending, users, codes, mailed>>

\* The answer is sent, or the process dies under a request.
Drop(t) ==
    /\ signin[t] # NoSignIn
    /\ Finish(t)
    /\ UNCHANGED <<time, pending, users, codes, mailed>>

\* Redis drops the keys that have lived long enough.
TimePasses ==
    /\ time < EndTime
    /\ time' = time + 1
    /\ pending' = [r \in Regs |-> IF pending[r].dies <= time' THEN NotPending ELSE pending[r]]
    /\ UNCHANGED <<users, signin, codes, mailed>>

AccountsNext ==
    \/ \E e \in Email : Register(e)
    \/ \E t \in SignInThread, r \in Regs : Resend(t, r) \/ \E mail \in mailed : Verify(t, r, mail.code)
    \/ \E t \in SignInThread, s \in Subject, e \in Email : GoogleSignIn(t, s, e)
    \/ \E t \in SignInThread : \/ CommitVerified(t) \/ DeletePending(t)
                               \/ Reload(t) \/ StoreCode(t) \/ MailCode(t)
                               \/ Link(t) \/ Join(t) \/ Login(t) \/ Drop(t)
    \/ TimePasses

AccountsSpec == AccountsInit /\ [][AccountsNext]_accountVars

-----------------------------------------------------------------------------
\* Every account was vouched for: by Google, or by a code that reached the account's
\* own address no longer ago than a code lives, whatever resends, late deletions and
\* expiring keys did to the registration meanwhile (auth.py:82-104).
AccountsAreProven ==
    \A u \in DOMAIN users :
        \/ users[u].provider = "google" /\ users[u].reg = 0
        \/ \E mail \in mailed : /\ mail.email = users[u].email
                              /\ mail.code = users[u].code
                              /\ users[u].at <= mail.made + CodeLife

\* No address, no identity and no registration has two accounts: not by two sign-ins
\* at once, nor by a registration that an overlapping resend stored again after its
\* verification deleted it (auth.py:105-113, oauth.py:23-51).
OneAccountEach ==
    \A u, v \in DOMAIN users : u # v =>
        /\ users[u].email # users[v].email
        /\ users[u].subject # NoSubject => users[u].subject # users[v].subject
        /\ users[u].reg # 0 => users[u].reg # users[v].reg

=============================================================================
