---------------------------- MODULE AccountsProofs ----------------------------
(***************************************************************************)
(* What holds of accounts for any number of requests, registrations and    *)
(* codes: nobody is in the table twice, and everybody was vouched for.     *)
(***************************************************************************)
EXTENDS Accounts, TLAPS

PendingRow == [email : Email, code : Nat, expires : Nat, sent : Nat, dies : Nat]

UserRow == [email : Email, subject : Subject \cup {NoSubject}, provider : {"password", "google"},
            reg : Nat, code : Nat, at : Nat]

MailRow == [email : Email, code : Nat, made : Nat]

VerifyHand == [phase : {"verified", "consumed"}, reg : Nat \ {0}, email : Email, code : Nat, at : Nat]
ResendHand == [phase : {"resending", "storing", "mailing"}, reg : Nat \ {0}, email : Email,
               code : Nat, made : Nat]
LinkHand == [phase : {"linking"}, subject : Subject, user : Nat]
JoinHand == [phase : {"joining"}, subject : Subject, email : Email]
Hand == [phase : {"none", "answered"}] \cup VerifyHand \cup ResendHand \cup LinkHand \cup JoinHand

AccountsTypeOK ==
    /\ time \in Nat /\ codes \in Nat
    /\ pending \in Seq(PendingRow \cup {NotPending})
    /\ users \in Seq(UserRow)
    /\ signin \in [SignInThread -> Hand]
    /\ mailed \subseteq MailRow
    /\ \A t \in SignInThread :
          /\ signin[t] \in VerifyHand \cup ResendHand => signin[t].reg \in Regs
          /\ signin[t] \in LinkHand => signin[t].user \in DOMAIN users

-----------------------------------------------------------------------------
\* Where a registration's address is written: in Redis, in a request's hands, in the table.
InRedis(r, e) == r \in Regs /\ pending[r] # NotPending /\ pending[r].email = e
InHand(r, e) ==
    \E t \in SignInThread : /\ signin[t] \in VerifyHand \cup ResendHand
                            /\ signin[t].reg = r /\ signin[t].email = e
InTable(r, e) == \E u \in DOMAIN users : users[u].reg = r /\ users[u].email = e
Says(r, e) == InRedis(r, e) \/ InHand(r, e) \/ InTable(r, e)

\* A registration that is known by an address exists, and it has one address only, though
\* it may be deleted and stored again.
OneName ==
    \A r \in Nat \ {0}, e \in Email :
        Says(r, e) => r \in Regs /\ \A f \in Email : Says(r, f) => e = f

Unique ==
    \A u, v \in DOMAIN users : u # v =>
        /\ users[u].email # users[v].email
        /\ users[u].subject # NoSubject => users[u].subject # users[v].subject

NameInv == AccountsTypeOK /\ OneName /\ Unique

\* Two accounts of one registration have its one address.
LEMMA NamesSuffice == NameInv => OneAccountEach
<1> SUFFICES ASSUME NameInv, NEW u \in DOMAIN users, NEW v \in DOMAIN users, u # v,
                    users[u].reg # 0, users[u].reg = users[v].reg
             PROVE  FALSE
  BY DEF NameInv, Unique, OneAccountEach
<1>1. users[u] \in UserRow /\ users[v] \in UserRow
  BY DEF NameInv, AccountsTypeOK
<1>2. InTable(users[u].reg, users[u].email) /\ InTable(users[u].reg, users[v].email)
  BY DEF InTable
<1>3. users[u].email = users[v].email
  BY <1>1, <1>2 DEF NameInv, OneName, Says, UserRow
<1> QED BY <1>3 DEF NameInv, Unique

\* A step that writes no address of a registration anywhere new keeps the invariant.
LEMMA NothingSaid ==
    ASSUME NameInv, AccountsTypeOK', Unique', Regs \subseteq Regs',
           \A r \in Nat \ {0}, e \in Email : Says(r, e)' => Says(r, e)
    PROVE  NameInv'
BY DEF NameInv, OneName

\* Nobody is registered.
THEOREM NamesStart == AccountsInit => NameInv
<1> SUFFICES ASSUME AccountsInit PROVE NameInv
  OBVIOUS
<1>1. AccountsTypeOK
  BY DEF AccountsInit, AccountsTypeOK, Hand, VerifyHand, ResendHand, LinkHand, NoSignIn
<1>2. Unique /\ OneName
  BY DEF AccountsInit, Unique, OneName, Says, InRedis, InHand, InTable, VerifyHand, ResendHand,
         NoSignIn
<1> QED BY <1>1, <1>2 DEF NameInv

-----------------------------------------------------------------------------
\* The table after an insert: what was there, and at most the new row.
LEMMA InsertKeeps ==
    ASSUME NameInv, NEW row \in UserRow, Inserts(row)
    PROVE  /\ users' \in Seq(UserRow) /\ DOMAIN users \subseteq DOMAIN users' /\ Unique'
           /\ \A u \in DOMAIN users' : \/ u \in DOMAIN users /\ users'[u] = users[u]
                                       \/ users'[u] = row
<1>1. users \in Seq(UserRow) /\ Unique
  BY DEF NameInv, AccountsTypeOK
<1>2. CASE users' = users
  BY <1>1, <1>2 DEF Unique
<1>3. CASE users' # users
  <2>1. /\ users' = Append(users, row) /\ ~Registered(row.email)
        /\ row.subject # NoSubject => ~Known(row.subject)
    BY <1>3 DEF Inserts
  <2>2. /\ Len(users) \in Nat /\ DOMAIN users = 1..Len(users)
        /\ DOMAIN users' = 1..(Len(users) + 1) /\ users'[Len(users) + 1] = row
        /\ \A u \in DOMAIN users : users'[u] = users[u]
        /\ users' \in Seq(UserRow)
    BY <1>1, <2>1
  <2>3. \A u \in DOMAIN users : /\ users[u].email # row.email
                                /\ row.subject # NoSubject => users[u].subject # row.subject
    BY <2>1 DEF Registered, Known
  <2>4. \A u \in DOMAIN users' : u \in DOMAIN users \/ u = Len(users) + 1
    BY <2>2
  <2>5. Unique'
    BY <1>1, <2>2, <2>3, <2>4 DEF Unique
  <2> QED BY <2>2, <2>4, <2>5
<1> QED BY <1>2, <1>3

\* A step in which one request goes on, writing only addresses that its registrations
\* are known by, keeps the invariant.
LEMMA HandChanges ==
    ASSUME NameInv, NEW t \in SignInThread, NEW new \in Hand,
           signin' = [signin EXCEPT ![t] = new],
           time' \in Nat, codes' \in Nat, mailed' \subseteq MailRow,
           pending' \in Seq(PendingRow \cup {NotPending}), Regs' = Regs,
           \A r \in Regs : pending'[r] # NotPending => Says(r, pending'[r].email),
           users' \in Seq(UserRow), DOMAIN users \subseteq DOMAIN users', Unique',
           \A u \in DOMAIN users' :
               users'[u].reg = 0 \/ Says(users'[u].reg, users'[u].email),
           new \in VerifyHand \cup ResendHand => new.reg \in Regs /\ Says(new.reg, new.email),
           new \in LinkHand => new.user \in DOMAIN users
    PROVE  NameInv'
<1>1. \A s \in SignInThread : signin'[s] = IF s = t THEN new ELSE signin[s]
  BY DEF NameInv, AccountsTypeOK
<1>2. signin' \in [SignInThread -> Hand]
  BY DEF NameInv, AccountsTypeOK
<1>3. \A s \in SignInThread :
         /\ signin'[s] \in VerifyHand \cup ResendHand => signin'[s].reg \in Regs
         /\ signin'[s] \in LinkHand => signin'[s].user \in DOMAIN users'
  BY <1>1 DEF NameInv, AccountsTypeOK
<1>4. AccountsTypeOK'
  BY <1>2, <1>3 DEF AccountsTypeOK
<1>5. ASSUME NEW r \in Nat \ {0}, NEW e \in Email, Says(r, e)' PROVE Says(r, e)
  <2>1. CASE InRedis(r, e)'
    BY <2>1 DEF InRedis
  <2>2. CASE InHand(r, e)'
    <3>1. PICK s \in SignInThread : /\ signin'[s] \in VerifyHand \cup ResendHand
                                    /\ signin'[s].reg = r /\ signin'[s].email = e
      BY <2>2 DEF InHand
    <3>2. CASE s = t
      BY <1>1, <3>1, <3>2
    <3>3. CASE s # t
      BY <1>1, <3>1, <3>3 DEF Says, InHand
    <3> QED BY <3>2, <3>3
  <2>3. CASE InTable(r, e)'
    BY <2>3 DEF InTable
  <2> QED BY <1>5, <2>1, <2>2, <2>3 DEF Says
<1> QED BY <1>4, <1>5, NothingSaid

\* No step gives a registration a second address, or a column a value twice.
THEOREM NamesStep == NameInv /\ [AccountsNext]_accountVars => NameInv'
<1> SUFFICES ASSUME NameInv, [AccountsNext]_accountVars PROVE NameInv'
  OBVIOUS
<1> USE AccountsAssumption DEF Regs
<1>types. AccountsTypeOK /\ Unique
  BY DEF NameInv
<1>said. /\ \A r \in Regs : pending[r] # NotPending => Says(r, pending[r].email)
         /\ \A u \in DOMAIN users : users[u].reg = 0 \/ Says(users[u].reg, users[u].email)
         /\ \A t \in SignInThread : signin[t] \in VerifyHand \cup ResendHand =>
               signin[t].reg \in Regs /\ Says(signin[t].reg, signin[t].email)
  BY <1>types DEF Says, InRedis, InHand, InTable, AccountsTypeOK
<1>idle. NoSignIn \in Hand /\ NoSignIn \notin VerifyHand \cup ResendHand \cup LinkHand
  BY DEF NoSignIn, Hand, VerifyHand, ResendHand, LinkHand
<1>1. ASSUME NEW e \in Email, Register(e) PROVE NameInv'
  <2>1. /\ pending' = Append(pending, Stored(e, codes', time)) /\ codes' = codes + 1
        /\ time' = time /\ users' = users /\ signin' = signin
        /\ Mail(e, codes', time)
    BY <1>1 DEF Register
  <2>2. Stored(e, codes', time) \in PendingRow /\ Stored(e, codes', time).email = e
    BY <1>types, <2>1 DEF Stored, PendingRow, AccountsTypeOK
  <2>3. mailed' \subseteq MailRow
    BY <1>types, <2>1 DEF Mail, MailRow, AccountsTypeOK
  <2>4. /\ Len(pending) \in Nat /\ Regs = 1..Len(pending) /\ Regs' = 1..(Len(pending) + 1)
        /\ pending' \in Seq(PendingRow \cup {NotPending})
        /\ \A r \in Regs : pending'[r] = pending[r]
        /\ pending'[Len(pending) + 1] = Stored(e, codes', time)
    BY <1>types, <2>1, <2>2 DEF AccountsTypeOK
  <2>5. AccountsTypeOK'
    BY <1>types, <2>1, <2>3, <2>4 DEF AccountsTypeOK
  <2>6. Unique'
    BY <1>types, <2>1 DEF Unique
  <2>7. ASSUME NEW r \in Nat \ {0}, NEW f \in Email, Says(r, f)'
        PROVE  Says(r, f) \/ (r = Len(pending) + 1 /\ f = e)
    BY <2>1, <2>2, <2>4, <2>7 DEF Says, InRedis, InHand, InTable
  <2>8. ASSUME NEW f \in Email PROVE ~Says(Len(pending) + 1, f)
    BY <2>4, <2>8 DEF NameInv, OneName
  <2>9. OneName'
    BY <2>4, <2>7, <2>8 DEF NameInv, OneName
  <2> QED BY <2>5, <2>6, <2>9 DEF NameInv
<1>2. ASSUME NEW t \in SignInThread, NEW r \in Regs, NEW mail \in mailed, Verify(t, r, mail.code)
      PROVE  NameInv'
  <2> DEFINE new == [phase |-> "verified", reg |-> r, email |-> pending[r].email,
                     code |-> mail.code, at |-> time]
  <2>1. pending[r] \in PendingRow /\ mail.code \in Nat /\ time \in Nat /\ r \in Nat \ {0}
    BY <1>2, <1>types DEF Verify, Accepts, AccountsTypeOK, MailRow
  <2>2. new \in VerifyHand /\ new.reg = r /\ new.email = pending[r].email
    BY <2>1 DEF VerifyHand, PendingRow
  <2>3. /\ signin' = [signin EXCEPT ![t] = new] /\ pending[r] # NotPending
        /\ UNCHANGED <<time, pending, users, codes, mailed>>
    BY <1>2 DEF Verify, Accepts, Begin
  <2>4. new \in Hand /\ new \notin LinkHand
    BY <2>2 DEF Hand, VerifyHand, LinkHand
  <2> HIDE DEF new
  <2>5. Unique'
    BY <2>3, <1>types DEF Unique
  <2> QED BY <2>2, <2>3, <2>4, <2>5, <1>types, <1>said, HandChanges DEF AccountsTypeOK
<1>3. ASSUME NEW t \in SignInThread, CommitVerified(t) PROVE NameInv'
  <2> DEFINE new == [signin[t] EXCEPT !.phase = "consumed"]
             row == [email |-> signin[t].email, subject |-> NoSubject, provider |-> "password",
                     reg |-> signin[t].reg, code |-> signin[t].code, at |-> signin[t].at]
  <2>1. signin[t] \in VerifyHand
    BY <1>3, <1>types DEF CommitVerified, AccountsTypeOK, Hand, VerifyHand, ResendHand, LinkHand,
       JoinHand
  <2>2. /\ new \in VerifyHand /\ new.reg = signin[t].reg /\ new.email = signin[t].email
        /\ row \in UserRow /\ row.reg = signin[t].reg /\ row.email = signin[t].email
    BY <2>1 DEF VerifyHand, UserRow
  <2>3. /\ signin' = [signin EXCEPT ![t] = new] /\ Inserts(row)
        /\ UNCHANGED <<time, pending, codes, mailed>>
    BY <1>3 DEF CommitVerified, Proceed
  <2>4. new \in Hand /\ new \notin LinkHand
    BY <2>2 DEF Hand, VerifyHand, LinkHand
  <2> HIDE DEF new, row
  <2>5. /\ users' \in Seq(UserRow) /\ DOMAIN users \subseteq DOMAIN users' /\ Unique'
        /\ \A u \in DOMAIN users' : (u \in DOMAIN users /\ users'[u] = users[u]) \/ users'[u] = row
    BY <2>2, <2>3, InsertKeeps
  <2>6. signin[t].reg \in Regs /\ Says(signin[t].reg, signin[t].email)
    BY <2>1, <1>said
  <2>7. \A u \in DOMAIN users' : users'[u].reg = 0 \/ Says(users'[u].reg, users'[u].email)
    BY <2>2, <2>5, <2>6, <1>said
  <2> QED BY <2>2, <2>3, <2>4, <2>5, <2>6, <2>7, <1>types, <1>said, HandChanges DEF AccountsTypeOK
<1>4. ASSUME NEW t \in SignInThread, DeletePending(t) PROVE NameInv'
  <2>1. /\ signin' = [signin EXCEPT ![t] = NoSignIn]
        /\ pending' = [pending EXCEPT ![signin[t].reg] = NotPending]
        /\ UNCHANGED <<time, users, codes, mailed>>
    BY <1>4 DEF DeletePending, Finish
  <2>2. /\ pending' \in Seq(PendingRow \cup {NotPending}) /\ Regs' = Regs
        /\ \A r \in Regs : pending'[r] # NotPending => pending'[r] = pending[r]
    <3>1. signin[t] \in VerifyHand
      BY <1>4, <1>types DEF DeletePending, AccountsTypeOK, Hand, VerifyHand, ResendHand, LinkHand,
         JoinHand
    <3>2. signin[t].reg \in DOMAIN pending
      BY <3>1, <1>said
    <3>3. NotPending \in PendingRow \cup {NotPending}
      OBVIOUS
    <3> QED BY <2>1, <3>2, <3>3, <1>types DEF AccountsTypeOK
  <2>3. Unique'
    BY <2>1, <1>types DEF Unique
  <2> QED BY <2>1, <2>2, <2>3, <1>types, <1>said, <1>idle, HandChanges DEF AccountsTypeOK
<1>5. ASSUME NEW t \in SignInThread, NEW r \in Regs, Resend(t, r) PROVE NameInv'
  <2> DEFINE new == [phase |-> "resending", reg |-> r, email |-> pending[r].email,
                     code |-> codes', made |-> time]
  <2>1. /\ signin' = [signin EXCEPT ![t] = new] /\ pending[r] # NotPending /\ codes' = codes + 1
        /\ UNCHANGED <<time, pending, users, mailed>>
    BY <1>5 DEF Resend, Begin
  <2>2. pending[r] \in PendingRow /\ codes' \in Nat /\ time \in Nat /\ r \in Nat \ {0}
    BY <2>1, <1>types DEF AccountsTypeOK
  <2>3. new \in ResendHand /\ new.reg = r /\ new.email = pending[r].email
    BY <2>2 DEF ResendHand, PendingRow
  <2>4. new \in Hand /\ new \notin LinkHand
    BY <2>3 DEF Hand, ResendHand, LinkHand
  <2> HIDE DEF new
  <2>5. Unique'
    BY <2>1, <1>types DEF Unique
  <2> QED BY <2>1, <2>2, <2>3, <2>4, <2>5, <1>types, <1>said, HandChanges DEF AccountsTypeOK
<1>6. ASSUME NEW t \in SignInThread, Reload(t) \/ StoreCode(t) PROVE NameInv'
  <2>1. PICK phase \in {"storing", "mailing"} :
          signin' = [signin EXCEPT ![t] = [signin[t] EXCEPT !.phase = phase]]
    BY <1>6 DEF Reload, StoreCode, Proceed
  <2> DEFINE new == [signin[t] EXCEPT !.phase = phase]
  <2>2. signin[t] \in ResendHand
    BY <1>6, <1>types DEF Reload, StoreCode, AccountsTypeOK, Hand, VerifyHand, ResendHand, LinkHand,
       JoinHand
  <2>3. new \in ResendHand /\ new.reg = signin[t].reg /\ new.email = signin[t].email
    BY <2>2 DEF ResendHand
  <2>4. new \in Hand /\ new \notin LinkHand
    BY <2>3 DEF Hand, ResendHand, LinkHand
  <2>5. signin' = [signin EXCEPT ![t] = new]
    BY <2>1
  <2> HIDE DEF new
  <2>6. /\ pending' \in Seq(PendingRow \cup {NotPending}) /\ Regs' = Regs
        /\ \A r \in Regs : pending'[r] # NotPending => Says(r, pending'[r].email)
    <3>1. CASE pending' = pending
      BY <3>1, <1>types, <1>said DEF AccountsTypeOK
    <3>2. CASE pending' # pending
      <4> DEFINE row == Stored(signin[t].email, signin[t].code, signin[t].made)
      <4>1. pending' = [pending EXCEPT ![signin[t].reg] = row]
        BY <1>6, <3>2 DEF Reload, StoreCode
      <4>2. row \in PendingRow /\ row.email = signin[t].email
        BY <2>2, <1>types, SMTT(20) DEF Stored, PendingRow, ResendHand, AccountsTypeOK
      <4>3. signin[t].reg \in Regs /\ Says(signin[t].reg, signin[t].email)
        BY <2>2, <1>said
      <4> HIDE DEF row
      <4>4. pending' \in Seq(PendingRow \cup {NotPending}) /\ Regs' = Regs
            /\ \A r \in Regs : pending'[r] = IF r = signin[t].reg THEN row ELSE pending[r]
        BY <4>1, <4>2, <4>3, <1>types DEF AccountsTypeOK
      <4> QED BY <4>2, <4>3, <4>4, <1>said
    <3> QED BY <3>1, <3>2
  <2>7. UNCHANGED <<time, users, codes, mailed>>
    BY <1>6 DEF Reload, StoreCode
  <2>8. Unique'
    BY <2>7, <1>types DEF Unique
  <2> QED BY <2>2, <2>3, <2>4, <2>5, <2>6, <2>7, <2>8, <1>types, <1>said, HandChanges
          DEF AccountsTypeOK
<1>7. ASSUME NEW t \in SignInThread, MailCode(t) PROVE NameInv'
  <2>1. /\ signin' = [signin EXCEPT ![t] = NoSignIn]
        /\ Mail(signin[t].email, signin[t].code, signin[t].made)
        /\ UNCHANGED <<time, pending, users, codes>>
    BY <1>7 DEF MailCode, Finish
  <2>2. signin[t] \in ResendHand
    BY <1>7, <1>types DEF MailCode, AccountsTypeOK, Hand, VerifyHand, ResendHand, LinkHand, JoinHand
  <2>3. mailed' \subseteq MailRow
    BY <2>1, <2>2, <1>types DEF Mail, MailRow, ResendHand, AccountsTypeOK
  <2>4. Unique'
    BY <2>1, <1>types DEF Unique
  <2> QED BY <2>1, <2>3, <2>4, <1>types, <1>said, <1>idle, HandChanges DEF AccountsTypeOK
<1>8. ASSUME NEW t \in SignInThread, NEW s \in Subject, NEW e \in Email, GoogleSignIn(t, s, e)
      PROVE  NameInv'
  <2>1. PICK new : /\ signin' = [signin EXCEPT ![t] = new]
                   /\ \/ new = [phase |-> "answered"]
                      \/ Registered(e) /\ new = [phase |-> "linking", subject |-> s, user |-> UserOf(e)]
                      \/ new = [phase |-> "joining", subject |-> s, email |-> e]
    BY <1>8 DEF GoogleSignIn, Begin
  <2>2. UNCHANGED <<time, pending, users, codes, mailed>>
    BY <1>8 DEF GoogleSignIn
  <2>3. Registered(e) => UserOf(e) \in DOMAIN users /\ UserOf(e) \in Nat
    BY <1>types DEF Registered, UserOf, AccountsTypeOK
  <2>4. /\ new \in Hand /\ new \notin VerifyHand \cup ResendHand
        /\ new \in LinkHand => new.user \in DOMAIN users
    BY <2>1, <2>3 DEF Hand, VerifyHand, ResendHand, LinkHand, JoinHand
  <2>5. Unique'
    BY <2>2, <1>types DEF Unique
  <2> QED BY <2>1, <2>2, <2>4, <2>5, <1>types, <1>said, HandChanges DEF AccountsTypeOK
<1>9. ASSUME NEW t \in SignInThread, Link(t) PROVE NameInv'
  <2>1. signin[t] \in LinkHand
    BY <1>9, <1>types DEF Link, AccountsTypeOK, Hand, VerifyHand, ResendHand, LinkHand, JoinHand
  <2> DEFINE s == signin[t].subject
             w == signin[t].user
  <2>2. s \in Subject /\ w \in DOMAIN users
    BY <2>1, <1>types DEF LinkHand, AccountsTypeOK
  <2>3. /\ signin' = [signin EXCEPT ![t] = NoSignIn]
        /\ UNCHANGED <<time, pending, codes, mailed>>
        /\ users' = IF Known(s) THEN users
                    ELSE [users EXCEPT ![w].subject = s, ![w].provider = "google"]
    BY <1>9 DEF Link, Finish
  <2> HIDE DEF s, w
  <2>4. /\ users' \in Seq(UserRow) /\ DOMAIN users' = DOMAIN users /\ Unique'
        /\ \A u \in DOMAIN users : /\ users'[u].reg = users[u].reg
                                   /\ users'[u].email = users[u].email
    <3>1. CASE users' = users
      BY <3>1, <1>types DEF Unique, AccountsTypeOK
    <3>2. CASE users' # users
      <4> DEFINE row == [users[w] EXCEPT !.subject = s, !.provider = "google"]
      <4>1. ~Known(s) /\ users' = [users EXCEPT ![w] = row]
        BY <2>2, <2>3, <3>2, <1>types DEF AccountsTypeOK
      <4>2. row \in UserRow /\ row.subject = s /\ row.reg = users[w].reg
            /\ row.email = users[w].email
        <5>1. users[w] \in UserRow
          BY <2>2, <1>types DEF AccountsTypeOK
        <5> QED BY <2>2, <5>1 DEF UserRow
      <4> HIDE DEF row
      <4>3. users' \in Seq(UserRow) /\ DOMAIN users' = DOMAIN users
            /\ \A u \in DOMAIN users : users'[u] = IF u = w THEN row ELSE users[u]
        BY <2>2, <4>1, <4>2, <1>types DEF AccountsTypeOK
      <4>4. \A u \in DOMAIN users : users[u].subject # s
        BY <4>1 DEF Known
      <4>5. Unique'
        BY <4>2, <4>3, <4>4, <1>types DEF Unique
      <4> QED BY <4>2, <4>3, <4>5
    <3> QED BY <3>1, <3>2
  <2> QED BY <2>3, <2>4, <1>types, <1>said, <1>idle, HandChanges, ZenonT(30) DEF AccountsTypeOK
<1>10. ASSUME NEW t \in SignInThread, Join(t) PROVE NameInv'
  <2> DEFINE row == [email |-> signin[t].email, subject |-> signin[t].subject,
                     provider |-> "google", reg |-> 0, code |-> 0, at |-> time]
  <2>1. signin[t] \in JoinHand
    BY <1>10, <1>types DEF Join, AccountsTypeOK, Hand, VerifyHand, ResendHand, LinkHand, JoinHand
  <2>2. row \in UserRow /\ row.reg = 0
    BY <2>1, <1>types DEF JoinHand, UserRow, AccountsTypeOK
  <2>3. /\ signin' = [signin EXCEPT ![t] = NoSignIn] /\ Inserts(row)
        /\ UNCHANGED <<time, pending, codes, mailed>>
    BY <1>10 DEF Join, Finish
  <2> HIDE DEF row
  <2>4. /\ users' \in Seq(UserRow) /\ DOMAIN users \subseteq DOMAIN users' /\ Unique'
        /\ \A u \in DOMAIN users' : (u \in DOMAIN users /\ users'[u] = users[u]) \/ users'[u] = row
    BY <2>2, <2>3, InsertKeeps
  <2>5. \A u \in DOMAIN users' : users'[u].reg = 0 \/ Says(users'[u].reg, users'[u].email)
    BY <2>2, <2>4, <1>said
  <2> QED BY <2>3, <2>4, <2>5, <1>types, <1>said, <1>idle, HandChanges DEF AccountsTypeOK
<1>11. ASSUME NEW t \in SignInThread, Login(t) \/ Drop(t) PROVE NameInv'
  <2>1. PICK new : /\ signin' = [signin EXCEPT ![t] = new]
                   /\ new = NoSignIn \/ new = [phase |-> "answered"]
    BY <1>11 DEF Login, Drop, Begin, Finish
  <2>2. UNCHANGED <<time, pending, users, codes, mailed>>
    BY <1>11 DEF Login, Drop
  <2>3. new \in Hand /\ new \notin VerifyHand \cup ResendHand \cup LinkHand
    BY <2>1, <1>idle DEF Hand, VerifyHand, ResendHand, LinkHand
  <2>4. Unique'
    BY <2>2, <1>types DEF Unique
  <2> QED BY <2>1, <2>2, <2>3, <2>4, <1>types, <1>said, HandChanges DEF AccountsTypeOK
<1>12. CASE TimePasses
  <2>1. /\ time' = time + 1 /\ UNCHANGED <<users, signin, codes, mailed>>
        /\ pending' = [r \in Regs |-> IF pending[r].dies <= time' THEN NotPending ELSE pending[r]]
    BY <1>12 DEF TimePasses
  <2>2. /\ pending' \in Seq(PendingRow \cup {NotPending}) /\ Regs' = Regs
        /\ \A r \in Regs : pending'[r] = NotPending \/ pending'[r] = pending[r]
    BY <2>1, <1>types DEF AccountsTypeOK
  <2>3. AccountsTypeOK'
    BY <2>1, <2>2, <1>types DEF AccountsTypeOK
  <2>4. Unique'
    BY <2>1, <1>types DEF Unique
  <2>5. ASSUME NEW r \in Nat \ {0}, NEW e \in Email, Says(r, e)' PROVE Says(r, e)
    BY <2>1, <2>2, <2>5 DEF Says, InRedis, InHand, InTable
  <2> QED BY <2>2, <2>3, <2>4, <2>5, NothingSaid
<1>13. CASE UNCHANGED accountVars
  <2>1. UNCHANGED <<time, pending, users, signin, codes, mailed>>
    BY <1>13 DEF accountVars
  <2>2. AccountsTypeOK' /\ Unique'
    BY <2>1, <1>types DEF AccountsTypeOK, Unique
  <2>3. \A r \in Nat \ {0}, e \in Email : Says(r, e)' => Says(r, e)
    BY <2>1 DEF Says, InRedis, InHand, InTable
  <2> QED BY <2>1, <2>2, <2>3, NothingSaid
<1> QED BY <1>1, <1>2, <1>3, <1>4, <1>5, <1>6, <1>7, <1>8, <1>9, <1>10, <1>11, <1>12, <1>13
        DEF AccountsNext

\* Two sign-ins at once, or a registration that a late resend stored again, never make
\* two accounts of one address, identity or registration.
THEOREM AccountsAreUnique == AccountsSpec => []OneAccountEach
BY NamesStart, NamesStep, NamesSuffice, PTL DEF AccountsSpec

-----------------------------------------------------------------------------
\* Where it is written which address a code was made for, and when: in Redis, in the hands
\* of a resend, in a mail.
StoredFor(c, e, m) ==
    \E r \in Regs : /\ pending[r] # NotPending
                    /\ pending[r].code = c /\ pending[r].email = e
                    /\ pending[r].expires = m + CodeLife
HeldFor(c, e, m) ==
    \E t \in SignInThread : /\ signin[t] \in ResendHand
                            /\ signin[t].code = c /\ signin[t].email = e /\ signin[t].made = m
MailedFor(c, e, m) ==
    \E mail \in mailed : mail.code = c /\ mail.email = e /\ mail.made = m
MadeFor(c, e, m) == StoredFor(c, e, m) \/ HeldFor(c, e, m) \/ MailedFor(c, e, m)

\* A code was generated, once, for one address at one time.
OneOrigin ==
    \A c \in Nat, e \in Email, m \in Int :
        MadeFor(c, e, m) =>
            c <= codes /\ \A f \in Email, n \in Int : MadeFor(c, f, n) => e = f /\ m = n

\* A code for an address, presented at a time, had reached it and was still alive.
Presented(e, c, at) ==
    \E mail \in mailed : mail.email = e /\ mail.code = c /\ at <= mail.made + CodeLife

HandsArePresented ==
    \A t \in SignInThread :
        signin[t] \in VerifyHand => Presented(signin[t].email, signin[t].code, signin[t].at)

ProvenInv == NameInv /\ OneOrigin /\ HandsArePresented /\ AccountsAreProven

\* A step that generates at most one code, for one address, keeps the origins apart.
LEMMA OriginsStay ==
    ASSUME ProvenInv, NEW e0 \in Email, NEW m0 \in Int, codes' = codes \/ codes' = codes + 1,
           \A c \in Nat, e \in Email, m \in Int :
               MadeFor(c, e, m)' => \/ MadeFor(c, e, m)
                                    \/ codes' = codes + 1 /\ c = codes + 1 /\ e = e0 /\ m = m0
    PROVE  OneOrigin'
<1>1. codes \in Nat
  BY DEF ProvenInv, NameInv, AccountsTypeOK
<1>2. \A c \in Nat, e \in Email, m \in Int : MadeFor(c, e, m) => c # codes + 1
  BY <1>1 DEF ProvenInv, OneOrigin
<1>3. \A c \in Nat, e \in Email, m \in Int : MadeFor(c, e, m) => c <= codes'
  BY <1>1 DEF ProvenInv, OneOrigin
<1> QED BY <1>1, <1>2, <1>3 DEF ProvenInv, OneOrigin

\* A step in which one request goes on, and no code is generated, keeps the invariant if
\* what it writes was made for the same address before.
LEMMA HandProceeds ==
    ASSUME ProvenInv, NameInv', NEW t \in SignInThread, NEW new \in Hand,
           signin' = [signin EXCEPT ![t] = new], codes' = codes, mailed \subseteq mailed',
           \A r \in Regs' : pending'[r] # NotPending =>
               \A m \in Int : pending'[r].expires = m + CodeLife =>
                   MadeFor(pending'[r].code, pending'[r].email, m),
           \A mail \in mailed' : MadeFor(mail.code, mail.email, mail.made),
           new \in ResendHand => MadeFor(new.code, new.email, new.made),
           new \in VerifyHand => Presented(new.email, new.code, new.at),
           \A u \in DOMAIN users' :
               \/ users'[u].provider = "google" /\ users'[u].reg = 0
               \/ Presented(users'[u].email, users'[u].code, users'[u].at)
    PROVE  ProvenInv'
<1>1. \A s \in SignInThread : signin'[s] = IF s = t THEN new ELSE signin[s]
  BY DEF ProvenInv, NameInv, AccountsTypeOK
<1>2. ASSUME NEW c \in Nat, NEW e \in Email, NEW m \in Int, MadeFor(c, e, m)'
      PROVE  MadeFor(c, e, m)
  <2>1. CASE StoredFor(c, e, m)'
    BY <2>1 DEF StoredFor
  <2>2. CASE HeldFor(c, e, m)'
    <3>1. PICK s \in SignInThread : /\ signin'[s] \in ResendHand /\ signin'[s].code = c
                                    /\ signin'[s].email = e /\ signin'[s].made = m
      BY <2>2 DEF HeldFor
    <3>2. CASE s = t
      BY <1>1, <3>1, <3>2
    <3>3. CASE s # t
      BY <1>1, <3>1, <3>3 DEF MadeFor, HeldFor
    <3> QED BY <3>2, <3>3
  <2>3. CASE MailedFor(c, e, m)'
    BY <2>3 DEF MailedFor
  <2> QED BY <1>2, <2>1, <2>2, <2>3 DEF MadeFor
<1>3. OneOrigin'
  BY <1>2 DEF ProvenInv, OneOrigin
<1>4. \A e, c, at : Presented(e, c, at) => Presented(e, c, at)'
  BY DEF Presented
<1>5. HandsArePresented'
  BY <1>1, <1>4 DEF ProvenInv, HandsArePresented
<1>6. AccountsAreProven'
  BY <1>4 DEF AccountsAreProven, Presented
<1> QED BY <1>3, <1>5, <1>6 DEF ProvenInv

\* No code was generated.
THEOREM ProofsStart == AccountsInit => ProvenInv
<1> SUFFICES ASSUME AccountsInit PROVE ProvenInv
  OBVIOUS
<1>1. NameInv
  BY NamesStart
<1>2. OneOrigin /\ HandsArePresented /\ AccountsAreProven
  BY DEF AccountsInit, OneOrigin, MadeFor, StoredFor, HeldFor, MailedFor, HandsArePresented,
         AccountsAreProven, VerifyHand, ResendHand, NoSignIn, Regs
<1> QED BY <1>1, <1>2 DEF ProvenInv

\* No step gives a code a second origin, or accepts one that did not reach its address.
THEOREM ProofsStep == ProvenInv /\ [AccountsNext]_accountVars => ProvenInv'
<1> SUFFICES ASSUME ProvenInv, [AccountsNext]_accountVars PROVE ProvenInv'
  OBVIOUS
<1> USE AccountsAssumption DEF Regs
<1>names. NameInv'
  BY NamesStep DEF ProvenInv
<1>types. AccountsTypeOK
  BY DEF ProvenInv, NameInv
<1>made. /\ \A r \in Regs : pending[r] # NotPending =>
               \A m \in Int : pending[r].expires = m + CodeLife =>
                   MadeFor(pending[r].code, pending[r].email, m)
         /\ \A mail \in mailed : MadeFor(mail.code, mail.email, mail.made)
         /\ \A t \in SignInThread : signin[t] \in ResendHand =>
               MadeFor(signin[t].code, signin[t].email, signin[t].made)
  BY DEF MadeFor, StoredFor, HeldFor, MailedFor
<1>shown. /\ \A u \in DOMAIN users : \/ users[u].provider = "google" /\ users[u].reg = 0
                                     \/ Presented(users[u].email, users[u].code, users[u].at)
          /\ \A t \in SignInThread : signin[t] \in VerifyHand =>
                Presented(signin[t].email, signin[t].code, signin[t].at)
  BY DEF ProvenInv, HandsArePresented, AccountsAreProven, Presented
<1>idle. NoSignIn \in Hand /\ NoSignIn \notin VerifyHand \cup ResendHand
  BY DEF NoSignIn, Hand, VerifyHand, ResendHand
<1>1. ASSUME NEW e \in Email, Register(e) PROVE ProvenInv'
  <2>1. /\ pending' = Append(pending, Stored(e, codes', time)) /\ codes' = codes + 1
        /\ users' = users /\ signin' = signin /\ Mail(e, codes', time)
    BY <1>1 DEF Register
  <2>2. /\ codes \in Nat /\ time \in Nat /\ CodeLife \in Nat
        /\ Stored(e, codes', time).email = e /\ Stored(e, codes', time).code = codes + 1
        /\ Stored(e, codes', time).expires = time + CodeLife
    BY <1>types, <2>1 DEF Stored, AccountsTypeOK
  <2>3. /\ Len(pending) \in Nat /\ Regs' = 1..(Len(pending) + 1) /\ Regs = 1..Len(pending)
        /\ \A r \in Regs : pending'[r] = pending[r]
        /\ pending'[Len(pending) + 1] = Stored(e, codes', time)
    BY <1>types, <2>1 DEF AccountsTypeOK
  <2>4. /\ mailed \subseteq mailed'
        /\ \A mail \in mailed' : \/ mail \in mailed
                                 \/ mail.email = e /\ mail.code = codes + 1 /\ mail.made = time
    BY <2>1 DEF Mail
  <2>5. ASSUME NEW c \in Nat, NEW f \in Email, NEW m \in Int, MadeFor(c, f, m)'
        PROVE  MadeFor(c, f, m) \/ (codes' = codes + 1 /\ c = codes + 1 /\ f = e /\ m = time)
    <3>1. CASE StoredFor(c, f, m)'
      <4>1. PICK r \in Regs' : /\ pending'[r] # NotPending /\ pending'[r].code = c
                               /\ pending'[r].email = f /\ pending'[r].expires = m + CodeLife
        BY <3>1 DEF StoredFor
      <4>2. CASE r \in Regs
        BY <2>3, <4>1, <4>2 DEF MadeFor, StoredFor
      <4>3. CASE r = Len(pending) + 1
        BY <2>1, <2>2, <2>3, <4>1, <4>3
      <4> QED BY <2>3, <4>2, <4>3
    <3>2. CASE HeldFor(c, f, m)'
      BY <2>1, <3>2 DEF MadeFor, HeldFor
    <3>3. CASE MailedFor(c, f, m)'
      BY <2>1, <2>4, <3>3 DEF MadeFor, MailedFor
    <3> QED BY <2>5, <3>1, <3>2, <3>3 DEF MadeFor
  <2>6. OneOrigin'
    <3>1. time \in Int /\ (codes' = codes \/ codes' = codes + 1)
      BY <2>1, <2>2
    <3>2. \A c \in Nat, f \in Email, m \in Int :
             MadeFor(c, f, m)' =>
               MadeFor(c, f, m) \/ (codes' = codes + 1 /\ c = codes + 1 /\ f = e /\ m = time)
      BY <2>5
    <3> QED BY <3>1, <3>2, OriginsStay, Zenon
  <2>7. \A f, c, at : Presented(f, c, at) => Presented(f, c, at)'
    BY <2>4 DEF Presented
  <2>8. HandsArePresented' /\ AccountsAreProven'
    <3>1. HandsArePresented'
      BY <2>1, <2>7, <1>shown DEF HandsArePresented
    <3>2. AccountsAreProven'
      BY <2>1, <2>4 DEF ProvenInv, AccountsAreProven
    <3> QED BY <3>1, <3>2
  <2> QED BY <2>6, <2>8, <1>names DEF ProvenInv
<1>2. ASSUME NEW t \in SignInThread, NEW r \in Regs, NEW mail \in mailed, Verify(t, r, mail.code)
      PROVE  ProvenInv'
  <2> DEFINE new == [phase |-> "verified", reg |-> r, email |-> pending[r].email,
                     code |-> mail.code, at |-> time]
  <2>1. /\ pending[r] # NotPending /\ time <= pending[r].expires /\ mail.code = pending[r].code
        /\ signin' = [signin EXCEPT ![t] = new]
        /\ UNCHANGED <<time, pending, users, codes, mailed>>
    BY <1>2 DEF Verify, Accepts, Begin
  <2>2. /\ pending[r] \in PendingRow /\ mail \in MailRow /\ time \in Nat /\ r \in Nat \ {0}
        /\ CodeLife \in Nat
    BY <2>1, <1>types DEF AccountsTypeOK
  <2> DEFINE m == pending[r].expires - CodeLife
  <2>3. m \in Int /\ pending[r].expires = m + CodeLife
    BY <2>2 DEF PendingRow
  <2>4. MadeFor(pending[r].code, pending[r].email, m) /\ MadeFor(mail.code, mail.email, mail.made)
    BY <2>1, <2>3, <1>made
  <2> HIDE DEF m
  <2>5. mail.email = pending[r].email /\ mail.made = m
    BY <2>1, <2>2, <2>3, <2>4 DEF ProvenInv, OneOrigin, PendingRow, MailRow
  <2>6. Presented(pending[r].email, mail.code, time)
    BY <2>1, <2>3, <2>5 DEF Presented
  <2>7. /\ new \in VerifyHand /\ new.email = pending[r].email /\ new.code = mail.code
        /\ new.at = time
    BY <2>2 DEF VerifyHand, PendingRow, MailRow
  <2>8. new \in Hand /\ new \notin ResendHand
    BY <2>7 DEF Hand, VerifyHand, ResendHand
  <2> HIDE DEF new
  <2> QED BY <2>1, <2>6, <2>7, <2>8, <1>names, <1>made, <1>shown, HandProceeds
<1>3. ASSUME NEW t \in SignInThread, CommitVerified(t) PROVE ProvenInv'
  <2> DEFINE new == [signin[t] EXCEPT !.phase = "consumed"]
             row == [email |-> signin[t].email, subject |-> NoSubject, provider |-> "password",
                     reg |-> signin[t].reg, code |-> signin[t].code, at |-> signin[t].at]
  <2>1. signin[t] \in VerifyHand
    BY <1>3, <1>types DEF CommitVerified, AccountsTypeOK, Hand, VerifyHand, ResendHand, LinkHand,
       JoinHand
  <2>2. /\ new \in VerifyHand /\ new.email = signin[t].email
        /\ new.code = signin[t].code /\ new.at = signin[t].at
        /\ row \in UserRow /\ row.email = signin[t].email /\ row.code = signin[t].code
        /\ row.at = signin[t].at
    BY <2>1 DEF VerifyHand, UserRow
  <2>3. /\ signin' = [signin EXCEPT ![t] = new] /\ Inserts(row)
        /\ UNCHANGED <<time, pending, codes, mailed>>
    BY <1>3 DEF CommitVerified, Proceed
  <2>4. new \in Hand /\ new \notin ResendHand
    BY <2>2 DEF Hand, VerifyHand, ResendHand
  <2> HIDE DEF new, row
  <2>5. \A u \in DOMAIN users' : (u \in DOMAIN users /\ users'[u] = users[u]) \/ users'[u] = row
    BY <2>2, <2>3, InsertKeeps DEF ProvenInv
  <2>6. Presented(signin[t].email, signin[t].code, signin[t].at)
    BY <2>1, <1>shown
  <2> QED BY <2>2, <2>3, <2>4, <2>5, <2>6, <1>names, <1>made, <1>shown, HandProceeds
<1>4. ASSUME NEW t \in SignInThread, DeletePending(t) PROVE ProvenInv'
  <2>1. /\ signin' = [signin EXCEPT ![t] = NoSignIn]
        /\ pending' = [pending EXCEPT ![signin[t].reg] = NotPending]
        /\ UNCHANGED <<time, users, codes, mailed>>
    BY <1>4 DEF DeletePending, Finish
  <2>2. Regs' = Regs /\ \A r \in Regs : pending'[r] # NotPending => pending'[r] = pending[r]
    BY <2>1, <1>types DEF AccountsTypeOK
  <2> QED BY <2>1, <2>2, <1>names, <1>made, <1>shown, <1>idle, HandProceeds
<1>5. ASSUME NEW t \in SignInThread, NEW r \in Regs, Resend(t, r) PROVE ProvenInv'
  <2> DEFINE new == [phase |-> "resending", reg |-> r, email |-> pending[r].email,
                     code |-> codes', made |-> time]
  <2>1. /\ signin' = [signin EXCEPT ![t] = new] /\ pending[r] # NotPending /\ codes' = codes + 1
        /\ UNCHANGED <<time, pending, users, mailed>>
    BY <1>5 DEF Resend, Begin
  <2>2. pending[r] \in PendingRow /\ codes' \in Nat /\ time \in Nat /\ r \in Nat \ {0}
    BY <2>1, <1>types DEF AccountsTypeOK
  <2>3. /\ new \in ResendHand /\ new.code = codes' /\ new.email = pending[r].email
        /\ new.made = time /\ pending[r].email \in Email /\ new.phase = "resending"
    BY <2>2 DEF ResendHand, PendingRow
  <2>4. new \notin VerifyHand
    BY <2>3 DEF VerifyHand
  <2> HIDE DEF new
  <2>5. \A s \in SignInThread : signin'[s] = IF s = t THEN new ELSE signin[s]
    BY <2>1, <1>types DEF AccountsTypeOK
  <2>6. ASSUME NEW c \in Nat, NEW f \in Email, NEW m \in Int, MadeFor(c, f, m)'
        PROVE  \/ MadeFor(c, f, m)
               \/ codes' = codes + 1 /\ c = codes + 1 /\ f = pending[r].email /\ m = time
    <3>1. CASE StoredFor(c, f, m)'
      BY <2>1, <3>1 DEF MadeFor, StoredFor
    <3>2. CASE HeldFor(c, f, m)'
      <4>1. PICK s \in SignInThread : /\ signin'[s] \in ResendHand /\ signin'[s].code = c
                                      /\ signin'[s].email = f /\ signin'[s].made = m
        BY <3>2 DEF HeldFor
      <4>2. CASE s = t
        BY <2>1, <2>3, <2>5, <4>1, <4>2
      <4>3. CASE s # t
        BY <2>5, <4>1, <4>3 DEF MadeFor, HeldFor
      <4> QED BY <4>2, <4>3
    <3>3. CASE MailedFor(c, f, m)'
      BY <2>1, <3>3 DEF MadeFor, MailedFor
    <3> QED BY <2>6, <3>1, <3>2, <3>3 DEF MadeFor
  <2>7. OneOrigin'
    <3>1. pending[r].email \in Email /\ time \in Int /\ (codes' = codes \/ codes' = codes + 1)
      BY <2>1, <2>2, <2>3
    <3>2. \A c \in Nat, f \in Email, m \in Int :
             MadeFor(c, f, m)' =>
               \/ MadeFor(c, f, m)
               \/ codes' = codes + 1 /\ c = codes + 1 /\ f = pending[r].email /\ m = time
      BY <2>6
    <3> QED BY <3>1, <3>2, OriginsStay, Zenon
  <2>8. HandsArePresented'
    BY <2>1, <2>4, <2>5, <1>shown DEF HandsArePresented, Presented
  <2>9. AccountsAreProven'
    BY <2>1 DEF ProvenInv, AccountsAreProven
  <2> QED BY <2>7, <2>8, <2>9, <1>names DEF ProvenInv
<1>6. ASSUME NEW t \in SignInThread, Reload(t) \/ StoreCode(t) PROVE ProvenInv'
  <2>1. PICK phase \in {"storing", "mailing"} :
          signin' = [signin EXCEPT ![t] = [signin[t] EXCEPT !.phase = phase]]
    BY <1>6 DEF Reload, StoreCode, Proceed
  <2> DEFINE new == [signin[t] EXCEPT !.phase = phase]
  <2>2. signin[t] \in ResendHand
    BY <1>6, <1>types DEF Reload, StoreCode, AccountsTypeOK, Hand, VerifyHand, ResendHand, LinkHand,
       JoinHand
  <2>3. /\ new \in ResendHand /\ new.code = signin[t].code /\ new.email = signin[t].email
        /\ new.made = signin[t].made /\ signin[t].made \in Nat
    BY <2>2 DEF ResendHand
  <2>4. new \in Hand /\ new \notin VerifyHand
    BY <2>3 DEF Hand, VerifyHand, ResendHand
  <2>5. signin' = [signin EXCEPT ![t] = new]
    BY <2>1
  <2> HIDE DEF new
  <2>6. MadeFor(signin[t].code, signin[t].email, signin[t].made)
    BY <2>2, <1>made
  <2>7. \A r \in Regs' : pending'[r] # NotPending =>
            \A m \in Int : pending'[r].expires = m + CodeLife =>
                MadeFor(pending'[r].code, pending'[r].email, m)
    <3>1. CASE pending' = pending
      BY <3>1, <1>made
    <3>2. CASE pending' # pending
      <4> DEFINE row == Stored(signin[t].email, signin[t].code, signin[t].made)
      <4>1. pending' = [pending EXCEPT ![signin[t].reg] = row]
        BY <1>6, <3>2 DEF Reload, StoreCode
      <4>2. /\ row.email = signin[t].email /\ row.code = signin[t].code
            /\ row.expires = signin[t].made + CodeLife
        BY DEF Stored
      <4> HIDE DEF row
      <4>3. Regs' = Regs /\ \A r \in Regs : pending'[r] = row \/ pending'[r] = pending[r]
        BY <4>1, <1>types DEF AccountsTypeOK
      <4>4. \A m \in Int : row.expires = m + CodeLife => m = signin[t].made
        BY <2>3, <4>2
      <4> QED BY <2>6, <4>2, <4>3, <4>4, <1>made
    <3> QED BY <3>1, <3>2
  <2>8. UNCHANGED <<time, users, codes, mailed>>
    BY <1>6 DEF Reload, StoreCode
  <2> QED BY <2>3, <2>4, <2>5, <2>6, <2>7, <2>8, <1>names, <1>made, <1>shown, HandProceeds
<1>7. ASSUME NEW t \in SignInThread, MailCode(t) PROVE ProvenInv'
  <2>1. /\ signin' = [signin EXCEPT ![t] = NoSignIn]
        /\ Mail(signin[t].email, signin[t].code, signin[t].made)
        /\ UNCHANGED <<time, pending, users, codes>>
    BY <1>7 DEF MailCode, Finish
  <2>2. signin[t] \in ResendHand
    BY <1>7, <1>types DEF MailCode, AccountsTypeOK, Hand, VerifyHand, ResendHand, LinkHand, JoinHand
  <2>3. MadeFor(signin[t].code, signin[t].email, signin[t].made)
    BY <2>2, <1>made
  <2>4. /\ mailed \subseteq mailed'
        /\ \A mail \in mailed' : \/ mail \in mailed
                                 \/ /\ mail.email = signin[t].email /\ mail.code = signin[t].code
                                    /\ mail.made = signin[t].made
    BY <2>1 DEF Mail
  <2>5. \A mail \in mailed' : MadeFor(mail.code, mail.email, mail.made)
    BY <2>3, <2>4, <1>made
  <2> QED BY <2>1, <2>4, <2>5, <1>names, <1>made, <1>shown, <1>idle, HandProceeds
<1>8. ASSUME NEW t \in SignInThread, NEW s \in Subject, NEW e \in Email, GoogleSignIn(t, s, e)
      PROVE  ProvenInv'
  <2>1. PICK new : /\ signin' = [signin EXCEPT ![t] = new]
                   /\ \/ new = [phase |-> "answered"]
                      \/ Registered(e) /\ new = [phase |-> "linking", subject |-> s, user |-> UserOf(e)]
                      \/ new = [phase |-> "joining", subject |-> s, email |-> e]
    BY <1>8 DEF GoogleSignIn, Begin
  <2>2. UNCHANGED <<time, pending, users, codes, mailed>>
    BY <1>8 DEF GoogleSignIn
  <2>3. Registered(e) => UserOf(e) \in Nat
    BY <1>types DEF Registered, UserOf, AccountsTypeOK
  <2>4. new \in Hand /\ new \notin VerifyHand \cup ResendHand
    BY <2>1, <2>3 DEF Hand, VerifyHand, ResendHand, LinkHand, JoinHand
  <2> QED BY <2>1, <2>2, <2>4, <1>names, <1>made, <1>shown, HandProceeds
<1>9. ASSUME NEW t \in SignInThread, Link(t) PROVE ProvenInv'
  <2>1. /\ signin' = [signin EXCEPT ![t] = NoSignIn]
        /\ UNCHANGED <<time, pending, codes, mailed>>
        /\ \/ users' = users
           \/ users' = [users EXCEPT ![signin[t].user].subject = signin[t].subject,
                                     ![signin[t].user].provider = "google"]
    BY <1>9 DEF Link, Finish
  <2>2. \A u \in DOMAIN users' :
           /\ u \in DOMAIN users
           /\ users'[u].email = users[u].email /\ users'[u].code = users[u].code
           /\ users'[u].at = users[u].at /\ users'[u].reg = users[u].reg
           /\ users[u].provider = "google" => users'[u].provider = "google"
    <3>1. \A u \in DOMAIN users : users[u] \in UserRow
      BY <1>types DEF AccountsTypeOK
    <3>2. CASE users' = users
      BY <3>2
    <3>3. CASE users' # users
      <4> DEFINE row == [users[signin[t].user] EXCEPT !.subject = signin[t].subject,
                                                      !.provider = "google"]
      <4>1. signin[t] \in LinkHand
        BY <1>9, <1>types DEF Link, AccountsTypeOK, Hand, VerifyHand, ResendHand, LinkHand, JoinHand
      <4>2. signin[t].user \in DOMAIN users
        BY <4>1, <1>types DEF AccountsTypeOK
      <4>3. users' = [users EXCEPT ![signin[t].user] = row]
        BY <2>1, <3>3, <4>2, <1>types DEF AccountsTypeOK
      <4>4. /\ row.email = users[signin[t].user].email /\ row.code = users[signin[t].user].code
            /\ row.at = users[signin[t].user].at /\ row.reg = users[signin[t].user].reg
            /\ row.provider = "google"
        BY <3>1, <4>2 DEF UserRow
      <4> HIDE DEF row
      <4>5. /\ DOMAIN users' = DOMAIN users
            /\ \A u \in DOMAIN users : users'[u] = IF u = signin[t].user THEN row ELSE users[u]
        BY <4>2, <4>3, <1>types DEF AccountsTypeOK
      <4> QED BY <4>4, <4>5
    <3> QED BY <3>2, <3>3
  <2>3. \A u \in DOMAIN users' :
           \/ users'[u].provider = "google" /\ users'[u].reg = 0
           \/ Presented(users'[u].email, users'[u].code, users'[u].at)
    BY <2>2, <1>shown
  <2> QED BY <2>1, <2>3, <1>names, <1>made, <1>shown, <1>idle, HandProceeds
<1>10. ASSUME NEW t \in SignInThread, Join(t) PROVE ProvenInv'
  <2> DEFINE row == [email |-> signin[t].email, subject |-> signin[t].subject,
                     provider |-> "google", reg |-> 0, code |-> 0, at |-> time]
  <2>1. signin[t] \in JoinHand
    BY <1>10, <1>types DEF Join, AccountsTypeOK, Hand, VerifyHand, ResendHand, LinkHand, JoinHand
  <2>2. row \in UserRow /\ row.reg = 0 /\ row.provider = "google"
    BY <2>1, <1>types DEF JoinHand, UserRow, AccountsTypeOK
  <2>3. /\ signin' = [signin EXCEPT ![t] = NoSignIn] /\ Inserts(row)
        /\ UNCHANGED <<time, pending, codes, mailed>>
    BY <1>10 DEF Join, Finish
  <2> HIDE DEF row
  <2>4. \A u \in DOMAIN users' : (u \in DOMAIN users /\ users'[u] = users[u]) \/ users'[u] = row
    BY <2>2, <2>3, InsertKeeps DEF ProvenInv
  <2> QED BY <2>2, <2>3, <2>4, <1>names, <1>made, <1>shown, <1>idle, HandProceeds
<1>11. ASSUME NEW t \in SignInThread, Login(t) \/ Drop(t) PROVE ProvenInv'
  <2>1. PICK new : /\ signin' = [signin EXCEPT ![t] = new]
                   /\ new = NoSignIn \/ new = [phase |-> "answered"]
    BY <1>11 DEF Login, Drop, Begin, Finish
  <2>2. UNCHANGED <<time, pending, users, codes, mailed>>
    BY <1>11 DEF Login, Drop
  <2>3. new \in Hand /\ new \notin VerifyHand \cup ResendHand
    BY <2>1, <1>idle DEF Hand, VerifyHand, ResendHand
  <2> QED BY <2>1, <2>2, <2>3, <1>names, <1>made, <1>shown, HandProceeds
<1>12. ASSUME TimePasses \/ UNCHANGED accountVars PROVE ProvenInv'
  <2>1. UNCHANGED <<users, signin, codes, mailed>>
    BY <1>12 DEF TimePasses, accountVars
  <2>2. Regs' = Regs /\ \A r \in Regs : pending'[r] = NotPending \/ pending'[r] = pending[r]
    BY <1>12, <1>types DEF TimePasses, accountVars, AccountsTypeOK
  <2>3. ASSUME NEW c \in Nat, NEW e \in Email, NEW m \in Int, MadeFor(c, e, m)'
        PROVE  MadeFor(c, e, m)
    BY <2>1, <2>2, <2>3 DEF MadeFor, StoredFor, HeldFor, MailedFor
  <2>4. OneOrigin'
    BY <2>1, <2>3 DEF ProvenInv, OneOrigin
  <2>5. HandsArePresented' /\ AccountsAreProven'
    BY <2>1 DEF ProvenInv, HandsArePresented, AccountsAreProven, Presented
  <2> QED BY <2>4, <2>5, <1>names DEF ProvenInv
<1> QED BY <1>1, <1>2, <1>3, <1>4, <1>5, <1>6, <1>7, <1>8, <1>9, <1>10, <1>11, <1>12
        DEF AccountsNext

\* Google or a code that reached the account's own address in time vouched for every
\* account, whatever was resent, deleted late or stored again.
THEOREM AccountsAreVouchedFor == AccountsSpec => []AccountsAreProven
<1>1. ProvenInv => AccountsAreProven
  BY DEF ProvenInv
<1> QED BY ProofsStart, ProofsStep, <1>1, PTL DEF AccountsSpec

=============================================================================
