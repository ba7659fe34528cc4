--------------------------- MODULE AccountsProofs ---------------------------
(***************************************************************************)
(* Theorems about accounts and sessions.                                   *)
(***************************************************************************)
EXTENDS Accounts, FiniteSetTheorems, SequenceTheorems, TLAPS

Claim   == [uid : 1..MaxUsers, name : Names, role : Roles]
UserRow == [name : Names, hash : Fit \cup {NoHash}, role : Roles]
Entry   == [action : {"LOGIN_FAILURE", "LOGIN_SUCCESS", "CREATE_USER"}, uid : 0..MaxUsers, name : Names]

-----------------------------------------------------------------------------
(* What the steps do to the table and to the log *)

UsersOK == /\ DOMAIN users \subseteq 1..nextUid - 1 /\ nextUid \in 1..MaxUsers + 1
           /\ \A i \in DOMAIN users : users[i] \in UserRow

\* No id is used a second time, and no account changes its name.
NamesKept == /\ nextUid' >= nextUid
             /\ \A i \in DOMAIN users' : i < nextUid => i \in DOMAIN users /\ users'[i].name = users[i].name

\* createUserLocked keeps the table sound, and every earlier account where it was.
LEMMA CreatedFacts ==
  ASSUME UsersOK, NEW n \in Names, NEW p \in Fit, NEW role \in Roles, Created(n, p, role)
  PROVE  /\ UsersOK' /\ NamesKept
         /\ \A i \in DOMAIN users : i \in DOMAIN users' /\ users'[i] = users[i]
<1>1. nextUid \in Nat /\ nextUid <= MaxUsers /\ nextUid' = nextUid + 1 /\ MaxUsers \in Nat
  BY BoundsAssumption DEF UsersOK, Created
<1>2. [name |-> n, hash |-> p, role |-> role] \in UserRow
  BY DEF UserRow
<1>3. users' = [i \in DOMAIN users \cup {nextUid} |->
                  IF i = nextUid THEN [name |-> n, hash |-> p, role |-> role] ELSE users[i]]
  BY DEF Created, NewUid
<1>4. nextUid \notin DOMAIN users
  BY <1>1 DEF UsersOK
<1>5. UsersOK'
  BY <1>1, <1>2, <1>3 DEF UsersOK
<1>6. /\ DOMAIN users' = DOMAIN users \cup {nextUid}
      /\ \A i \in DOMAIN users : users'[i] = users[i]
  BY <1>3, <1>4
<1>7. NamesKept
  BY <1>1, <1>6 DEF UsersOK, NamesKept
<1> QED
  BY <1>5, <1>6, <1>7

\* A row that gets another hash or another role.
LEMMA ChangedFacts ==
  ASSUME UsersOK, NEW i \in DOMAIN users, NEW row \in UserRow, row.name = users[i].name,
         users' = [users EXCEPT ![i] = row], UNCHANGED nextUid
  PROVE  UsersOK' /\ NamesKept
<1>1. nextUid \in Nat
  BY BoundsAssumption DEF UsersOK
<1>2. UsersOK'
  BY DEF UsersOK
<1>3. DOMAIN users' = DOMAIN users /\ \A j \in DOMAIN users : users'[j].name = users[j].name
  OBVIOUS
<1> QED
  BY <1>1, <1>2, <1>3 DEF NamesKept

\* A step that leaves the table alone keeps it sound.
LEMMA SameFacts == UsersOK /\ UNCHANGED <<users, nextUid>> => UsersOK' /\ NamesKept
BY BoundsAssumption DEF UsersOK, NamesKept

\* An entry that is written, or lost.
LEMMA LoggedFacts ==
  ASSUME audit \in Seq(Entry), NEW e \in Entry, Logged(e.action, e.uid, e.name)
  PROVE  /\ audit' \in Seq(Entry)
         /\ \A n \in DOMAIN audit' : audit'[n] = e \/ (n \in DOMAIN audit /\ audit'[n] = audit[n])
<1>1. e = [action |-> e.action, uid |-> e.uid, name |-> e.name]
  BY DEF Entry
<1>2. audit' = Append(audit, e) \/ audit' = audit
  BY <1>1 DEF Logged
<1>3. CASE audit' = audit
  BY <1>3
<1>4. CASE audit' = Append(audit, e)
  <2>1. /\ audit' \in Seq(Entry) /\ Len(audit') = Len(audit) + 1 /\ Len(audit) \in Nat
        /\ \A n \in 1..Len(audit) : audit'[n] = audit[n]
        /\ audit'[Len(audit) + 1] = e
    BY <1>4, AppendProperties
  <2>2. DOMAIN audit' = 1..Len(audit') /\ DOMAIN audit = 1..Len(audit)
    BY <2>1
  <2> QED
    <3> SUFFICES ASSUME NEW n \in DOMAIN audit', audit'[n] # e
                 PROVE  n \in DOMAIN audit /\ audit'[n] = audit[n]
      BY <2>1
    <3>1. n \in 1..Len(audit) + 1 /\ n # Len(audit) + 1
      BY <2>1, <2>2
    <3>2. n \in 1..Len(audit)
      BY <2>1, <3>1
    <3> QED
      BY <2>1, <2>2, <3>2
<1> QED
  BY <1>2, <1>3, <1>4

-----------------------------------------------------------------------------
(* Types and identities *)

\* Whoever is named by id is that person, or gone; the id was given out.
Known(c) == c.uid < nextUid /\ (c.uid \in DOMAIN users => users[c.uid].name = c.name)

\* What a browser holds, and what a login under way has read.
Held(h) == h = {} \/ \E c \in Claim : h = {c} /\ Known(c)

AccountsInv ==
  /\ UsersOK
  /\ cookie \in [Browsers -> SUBSET Claim] /\ pending \in [Browsers -> SUBSET Claim]
  /\ \A b \in Browsers : Held(cookie[b]) /\ Held(pending[b])
  /\ audit \in Seq(Entry) /\ \A n \in DOMAIN audit : Known(audit[n])

\* The seeded state satisfies the invariant.
LEMMA AccountsInit == Init => AccountsInv
<1> SUFFICES ASSUME Init PROVE AccountsInv
  OBVIOUS
<1>1. /\ DOMAIN users = {1} /\ users[1] = [name |-> Admin0, hash |-> Password0, role |-> "admin"]
      /\ nextUid = 2
  BY DEF Init
<1>2. [name |-> Admin0, hash |-> Password0, role |-> "admin"] \in UserRow
  BY NamesAssumption, PasswordsAssumption, RolesAssumption DEF UserRow
<1>3. UsersOK
  BY <1>1, <1>2, BoundsAssumption DEF UsersOK
<1> QED
  BY <1>3 DEF Init, AccountsInv, Held

\* Those who are known stay known.
LEMMA KnownKept ==
  ASSUME UsersOK, NamesKept, nextUid' \in Nat, NEW c, c.uid \in Nat, Known(c)
  PROVE  Known(c)'
BY BoundsAssumption DEF UsersOK, NamesKept, Known

\* A token or an audit entry that named an account still names it afterwards.
LEMMA ClaimsKept ==
  ASSUME UsersOK, UsersOK', NamesKept
  PROVE  /\ \A c \in Claim : Known(c) => Known(c)'
         /\ \A e \in Entry : Known(e) => Known(e)'
<1>1. UsersOK /\ nextUid' \in Nat
  BY BoundsAssumption DEF UsersOK
<1>2. (\A c \in Claim : c.uid \in Nat) /\ \A e \in Entry : e.uid \in Nat
  BY DEF Claim, Entry
<1>3. ASSUME NEW c, c.uid \in Nat, Known(c)
      PROVE  c.uid < nextUid' /\ (c.uid \in DOMAIN users' => users'[c.uid].name = c.name)
  BY <1>1, <1>3, KnownKept DEF Known
<1> QED
  BY <1>2, <1>3 DEF Known

\* Every operation on accounts, sessions and the audit log keeps the invariant.
LEMMA AccountsStep == AccountsInv /\ [Next]_vars => AccountsInv'
<1> SUFFICES ASSUME AccountsInv, [Next]_vars PROVE AccountsInv'
  OBVIOUS
<1>0. /\ UsersOK /\ cookie \in [Browsers -> SUBSET Claim] /\ pending \in [Browsers -> SUBSET Claim]
      /\ audit \in Seq(Entry) /\ nextUid \in Nat
      /\ \A b \in Browsers : Held(cookie[b]) /\ Held(pending[b])
  BY BoundsAssumption DEF AccountsInv, UsersOK
\* Each part of the invariant, by what a step does.
<1> DEFINE CookieOK  == cookie \in [Browsers -> SUBSET Claim] /\ \A b \in Browsers : Held(cookie[b])
           PendingOK == pending \in [Browsers -> SUBSET Claim] /\ \A b \in Browsers : Held(pending[b])
           AuditOK   == audit \in Seq(Entry) /\ \A n \in DOMAIN audit : Known(audit[n])
<1>1. ASSUME UsersOK', CookieOK', PendingOK', AuditOK' PROVE AccountsInv'
  BY <1>1 DEF AccountsInv
<1>2. ASSUME UNCHANGED cookie, UsersOK', NamesKept PROVE CookieOK'
  BY <1>0, <1>2, ClaimsKept DEF Held
<1>3. ASSUME UNCHANGED pending, UsersOK', NamesKept PROVE PendingOK'
  BY <1>0, <1>3, ClaimsKept DEF Held
<1>4. ASSUME UNCHANGED audit, UsersOK', NamesKept PROVE AuditOK'
  <2>1. \A n \in DOMAIN audit : audit[n] \in Entry /\ Known(audit[n])
    BY <1>0, ElementOfSeq DEF AccountsInv
  <2> QED
    BY <1>0, <1>4, <2>1, ClaimsKept
<1>5. ASSUME UsersOK', NamesKept, NEW e \in Entry, Known(e), Known(e)', Logged(e.action, e.uid, e.name)
      PROVE  AuditOK'
  <2>1. \A n \in DOMAIN audit : audit[n] \in Entry /\ Known(audit[n])
    BY <1>0, ElementOfSeq DEF AccountsInv
  <2>2. /\ audit' \in Seq(Entry)
        /\ \A n \in DOMAIN audit' : audit'[n] = e \/ (n \in DOMAIN audit /\ audit'[n] = audit[n])
    BY <1>0, <1>5, LoggedFacts
  <2> QED
    BY <1>0, <1>5, <2>1, <2>2, ClaimsKept
<1>6. ASSUME NEW b \in Browsers, cookie' = [cookie EXCEPT ![b] = {}] PROVE
        UNCHANGED <<users, nextUid>> => CookieOK'
  BY <1>0, <1>6 DEF Held, Known
<1>7. UNCHANGED <<users, nextUid>> => UsersOK' /\ NamesKept
  BY <1>0, SameFacts
<1>8. ASSUME UsersOK', NamesKept, UNCHANGED <<cookie, pending, audit>> PROVE AccountsInv'
  BY <1>1, <1>2, <1>3, <1>4, <1>8
<1> HIDE DEF CookieOK, PendingOK, AuditOK
<1>9. CASE UNCHANGED vars
  BY <1>7, <1>8, <1>9 DEF vars
<1>10. ASSUME NEW b \in Browsers, NEW n \in Names, NEW p \in Passwords, Lookup(b, n, p) PROVE AccountsInv'
  <2>1. PICK i \in DOMAIN users :
          /\ users[i].name = n
          /\ pending' = [pending EXCEPT ![b] = {[uid |-> i, name |-> n, role |-> users[i].role]}]
    BY <1>10 DEF Lookup
  <2> DEFINE u == [uid |-> i, name |-> n, role |-> users[i].role]
  <2>2. i \in 1..MaxUsers /\ i < nextUid /\ users[i].role \in Roles
    BY <1>0, BoundsAssumption DEF UsersOK, UserRow
  <2>3. u \in Claim /\ u.uid = i /\ u.name = n
    BY <2>2 DEF Claim
  <2> HIDE DEF u
  <2>4. UNCHANGED <<users, nextUid, cookie, audit>>
    BY <1>10 DEF Lookup
  <2>5. pending' = [pending EXCEPT ![b] = {u}]
    BY <2>1 DEF u
  <2>6. PendingOK'
    BY <1>0, <2>1, <2>2, <2>3, <2>4, <2>5 DEF PendingOK, Held, Known
  <2> QED
    BY <1>1, <1>2, <1>4, <1>7, <2>4, <2>6
<1>11. ASSUME NEW b \in Browsers, NEW n \in Names, LoginFails(b, n) PROVE AccountsInv'
  <2> DEFINE e == [action |-> "LOGIN_FAILURE", uid |-> 0, name |-> n]
  <2>1. e \in Entry /\ e.uid = 0 /\ Logged(e.action, e.uid, e.name)
    BY <1>11, BoundsAssumption DEF LoginFails, Entry
  <2>2. UNCHANGED <<users, nextUid, cookie, pending>>
    BY <1>11 DEF LoginFails
  <2> HIDE DEF e
  <2>3. 0 < nextUid /\ 0 \notin DOMAIN users
    BY <1>0, BoundsAssumption DEF UsersOK
  <2>4. Known(e) /\ Known(e)'
    BY <2>1, <2>2, <2>3 DEF Known
  <2> QED
    BY <1>1, <1>2, <1>3, <1>5, <1>7, <2>1, <2>2, <2>4
<1>12. ASSUME NEW b \in Browsers, Grant(b) PROVE AccountsInv'
  <2>1. PICK u \in pending[b] :
          cookie' = [cookie EXCEPT ![b] = {u}] /\ Logged("LOGIN_SUCCESS", 0, u.name)
    BY <1>12 DEF Grant
  <2>2. pending' = [pending EXCEPT ![b] = {}] /\ UNCHANGED <<users, nextUid>>
    BY <1>12 DEF Grant
  <2>3. u \in Claim /\ Known(u) /\ u.name \in Names
    BY <1>0 DEF Held, Claim
  <2> DEFINE e == [action |-> "LOGIN_SUCCESS", uid |-> 0, name |-> u.name]
  <2>4. e \in Entry /\ e.uid = 0 /\ Logged(e.action, e.uid, e.name)
    BY <2>1, <2>3, BoundsAssumption DEF Entry
  <2> HIDE DEF e
  <2>5. 0 < nextUid /\ 0 \notin DOMAIN users
    BY <1>0, BoundsAssumption DEF UsersOK
  <2>6. Known(e) /\ Known(e)'
    BY <2>2, <2>4, <2>5 DEF Known
  <2>7. CookieOK' /\ PendingOK'
    BY <1>0, <2>1, <2>2, <2>3 DEF CookieOK, PendingOK, Held, Known
  <2> QED
    BY <1>1, <1>5, <1>7, <2>2, <2>4, <2>6, <2>7
<1>13. ASSUME NEW b \in Browsers, Logout(b) \/ Expire(b) PROVE AccountsInv'
  BY <1>1, <1>3, <1>4, <1>6, <1>7, <1>13 DEF Logout, Expire
<1>14. ASSUME NEW b \in Browsers, NEW n \in Names, NEW p \in Passwords, NEW role \in Roles,
              CreateUser(b, n, p, role)
       PROVE  AccountsInv'
  <2>1. PICK c \in cookie[b] : Logged("CREATE_USER", c.uid, c.name)
    BY <1>14 DEF CreateUser, Claims
  <2>2. UsersOK' /\ NamesKept
    BY <1>0, <1>14, CreatedFacts DEF CreateUser
  <2>3. c \in Claim /\ Known(c)
    BY <1>0 DEF Held
  <2> DEFINE e == [action |-> "CREATE_USER", uid |-> c.uid, name |-> c.name]
  <2>4. e \in Entry /\ e.uid = c.uid /\ e.name = c.name /\ Logged(e.action, e.uid, e.name)
    BY <2>1, <2>3, BoundsAssumption DEF Entry, Claim
  <2> HIDE DEF e
  <2>5. Known(c)'
    BY <1>0, <2>2, <2>3, ClaimsKept
  <2>6. Known(e) /\ Known(e)'
    BY <2>3, <2>4, <2>5 DEF Known
  <2> QED
    BY <1>1, <1>2, <1>3, <1>5, <1>14, <2>2, <2>4, <2>6 DEF CreateUser
<1>15. ASSUME NEW b \in Browsers, NEW i \in 1..MaxUsers, NEW role \in Roles, ChangeRole(b, i, role)
       PROVE  AccountsInv'
  <2> DEFINE row == [users[i] EXCEPT !.role = role]
  <2>1. i \in DOMAIN users /\ users[i] \in UserRow
    BY <1>0, <1>15 DEF ChangeRole, UsersOK
  <2>2. row \in UserRow /\ row.name = users[i].name
    BY <2>1 DEF UserRow
  <2>3. users' = [users EXCEPT ![i] = row] /\ UNCHANGED <<nextUid, cookie, pending, audit>>
    BY <1>15 DEF ChangeRole
  <2> HIDE DEF row
  <2> QED
    BY <1>0, <1>8, <2>1, <2>2, <2>3, ChangedFacts
<1>16. ASSUME NEW b \in Browsers, NEW i \in 1..MaxUsers, DeleteUser(b, i) PROVE AccountsInv'
  <2>1. users' = [j \in DOMAIN users \ {i} |-> users[j]] /\ UNCHANGED <<nextUid, cookie, pending, audit>>
    BY <1>16 DEF DeleteUser
  <2>2. UsersOK' /\ NamesKept
    BY <1>0, <2>1 DEF UsersOK, NamesKept
  <2> QED
    BY <1>8, <2>1, <2>2
<1>17. ASSUME NEW b \in Browsers, NEW i \in 1..MaxUsers, NEW p \in Passwords, ResetPassword(b, i, p)
       PROVE  AccountsInv'
  <2> DEFINE row == [users[i] EXCEPT !.hash = HashOf(p)]
  <2>1. i \in DOMAIN users /\ users[i] \in UserRow
    BY <1>0, <1>17 DEF ResetPassword, UsersOK
  <2>2. HashOf(p) \in Fit \cup {NoHash}
    BY <1>17 DEF ResetPassword, HashOf, Passwords
  <2>3. row \in UserRow /\ row.name = users[i].name
    BY <2>1, <2>2 DEF UserRow
  <2>4. /\ users' = [users EXCEPT ![i] = row] \/ users' = users
        /\ UNCHANGED <<nextUid, cookie, pending, audit>>
    BY <1>17 DEF ResetPassword
  <2> HIDE DEF row
  <2> QED
    BY <1>0, <1>7, <1>8, <2>1, <2>3, <2>4, ChangedFacts
<1>18. CASE Restart
  <2>1. Created(Admin0, Password0, "admin") \/ UNCHANGED <<users, nextUid>>
    BY <1>18 DEF Restart
  <2>2. UsersOK' /\ NamesKept
    BY <1>0, <1>7, <2>1, CreatedFacts, NamesAssumption, PasswordsAssumption, RolesAssumption
  <2>3. PendingOK'
    BY <1>18 DEF Restart, PendingOK, Held
  <2> QED
    BY <1>1, <1>2, <1>4, <1>18, <2>2, <2>3 DEF Restart
<1> QED
  BY <1>9, <1>10, <1>11, <1>12, <1>13, <1>14, <1>15, <1>16, <1>17, <1>18 DEF Next, AdminRequest

-----------------------------------------------------------------------------
(* Theorems *)

\* The specification keeps to its types: no account ever has a password that a form
\* would have refused, no browser more than one token.
THEOREM TypesHold == Spec => []TypeOK
<1>1. AccountsInv => TypeOK
  <2> SUFFICES ASSUME AccountsInv PROVE TypeOK
    OBVIOUS
  <2>1. ASSUME NEW h, Held(h) PROVE Cardinality(h) <= 1
    <3>1. CASE h = {}
      BY <3>1, FS_EmptySet
    <3>2. ASSUME NEW c, h = {c} PROVE Cardinality(h) = 1
      BY <3>2, FS_Singleton
    <3> QED
      BY <2>1, <3>1, <3>2 DEF Held
  <2> QED
    BY <2>1 DEF AccountsInv, UsersOK, UserRow, Claim, Entry, ClaimSets, TypeOK
<1> QED
  BY <1>1, AccountsInit, AccountsStep, PTL DEF Spec

\* Whoever a token, a login under way or an audit entry names is that person, or gone:
\* an id is never passed on, so an old token never stands for somebody else.
THEOREM IdentitiesKept == Spec => []SessionKeepsIdentity
<1>1. AccountsInv => SessionKeepsIdentity
  <2> SUFFICES ASSUME AccountsInv PROVE SessionKeepsIdentity
    OBVIOUS
  <2> DEFINE Named == UNION {cookie[b] \cup pending[b] : b \in Browsers}
  <2>1. \A c \in ToSet(audit) : Known(c)
    BY DEF AccountsInv, ToSet
  <2>2. \A c \in Named : \E b \in Browsers : c \in cookie[b] \/ c \in pending[b]
    OBVIOUS
  <2>3. \A c \in Named : Known(c)
    BY <2>2 DEF AccountsInv, Held
  <2> HIDE DEF Named
  <2>4. \A c \in Named \cup ToSet(audit) : c.uid \in DOMAIN users => users[c.uid].name = c.name
    BY <2>1, <2>3 DEF Known
  <2> QED
    BY <2>4, Zenon DEF SessionKeepsIdentity, Named
<1> QED
  BY <1>1, AccountsInit, AccountsStep, PTL DEF Spec

\* The last admin is only lost to a session that has outlived its rights.
THEOREM LastAdminIsKept == Spec => LastAdminKept
<1> DEFINE Kept == Admins # {} /\ Admins' = {} => \E b \in Browsers : \E c \in Claims(b) : c.uid \notin Admins
<1>1. AccountsInv /\ [Next]_vars => [Kept]_vars
  <2> SUFFICES ASSUME AccountsInv, Next, \A b \in Browsers : \A c \in Claims(b) : c.uid \in Admins,
                      NEW a \in Admins
               PROVE  Admins' # {}
    BY DEF Admins
  <2>1. CASE UNCHANGED users
    BY <2>1 DEF Admins
  <2>2. ASSUME \A i \in DOMAIN users : i \in DOMAIN users' /\ users'[i].role = users[i].role
        PROVE  Admins' # {}
    BY <2>2 DEF Admins
  <2>3. ASSUME NEW b \in Browsers, NEW n \in Names, NEW p \in Passwords, NEW role \in Roles,
               CreateUser(b, n, p, role)
        PROVE  Admins' # {}
    BY <2>2, <2>3, CreatedFacts DEF AccountsInv, CreateUser
  <2>4. ASSUME NEW b \in Browsers, NEW i, NEW role, ChangeRole(b, i, role) \/ DeleteUser(b, i)
        PROVE  Admins' # {}
    <3>1. PICK c \in Claims(b) : i # c.uid /\ \/ users' = [users EXCEPT ![i].role = role]
                                               \/ users' = [j \in DOMAIN users \ {i} |-> users[j]]
      BY <2>4 DEF ChangeRole, DeleteUser
    <3>2. c.uid \in DOMAIN users /\ users[c.uid].role = "admin"
      BY DEF Admins
    <3>3. c.uid \in DOMAIN users' /\ users'[c.uid] = users[c.uid]
      BY <3>1, <3>2
    <3> QED
      BY <3>2, <3>3 DEF Admins
  <2>5. ASSUME NEW b \in Browsers, NEW i, NEW p, ResetPassword(b, i, p) PROVE Admins' # {}
    <3>1. i \in DOMAIN users /\ (users' = users \/ users' = [users EXCEPT ![i].hash = HashOf(p)])
      BY <2>5 DEF ResetPassword
    <3>2. \A j \in DOMAIN users : users[j] \in UserRow
      BY DEF AccountsInv, UsersOK
    <3> QED
      BY <2>2, <3>1, <3>2 DEF UserRow
  <2>6. CASE Restart
    BY <2>1, <2>2, <2>6, CreatedFacts, NamesAssumption, PasswordsAssumption, RolesAssumption
    DEF AccountsInv, Restart
  <2> QED
    BY <2>1, <2>3, <2>4, <2>5, <2>6 DEF Next, AdminRequest, Lookup, LoginFails, Grant, Logout, Expire
<1> QED
  BY <1>1, AccountsInit, AccountsStep, PTL DEF Spec, LastAdminKept
=============================================================================
