------------------------------ MODULE Accounts ------------------------------
(***************************************************************************)
(* Accounts and sessions: userstore.Store (a table), auth.Service (signed  *)
(* tokens that a browser keeps as a cookie, valid on their own), the login *)
(* and logout handlers, the admin's user handlers, the audit log they      *)
(* write to, and the seeding of a default admin when the process starts.   *)
(*                                                                         *)
(* Nobody but the browser holds a token: what a request may do is decided  *)
(* by the claims in its cookie, which were read from the table at login.   *)
(* A name stands for its case-folded form, since the column is NOCASE.     *)
(***************************************************************************)
EXTENDS Integers, Sequences, FiniteSets, SequencesExt

CONSTANTS
  Browsers,
  Names, Admin0,          \* user names; the name of the default admin
  Short, Fit, Long,       \* passwords of under 8 bytes, of 8 to 72, of more: bcrypt refuses those
  Password0,              \* the password of the default admin
  NoHash,                 \* the empty string in the place of a hash
  Roles,                  \* the roles in use, of "user", "editor" and "admin"
  WritesMayFail,          \* a statement whose error the code does not look at may fail
  MaxUsers, MaxEvents     \* bounds: rows ever created, events kept in the log

ASSUME NamesAssumption == Admin0 \in Names
ASSUME PasswordsAssumption ==
  /\ Short \cap Fit = {} /\ Short \cap Long = {} /\ Fit \cap Long = {}
  /\ Password0 \in Fit /\ NoHash \notin Short \cup Fit \cup Long
ASSUME BoundsAssumption == MaxUsers \in Nat \ {0} /\ MaxEvents \in Nat /\ WritesMayFail \in BOOLEAN
ASSUME RolesAssumption == Roles \subseteq {"user", "editor", "admin"} /\ "admin" \in Roles

Passwords == Short \cup Fit \cup Long

VARIABLES
  users,    \* the table: [name, hash, role] by id; a hash stands for the password it is of
  nextUid,  \* the AUTOINCREMENT sequence of users
  cookie,   \* the claims of each browser's token: a set of one, or of none
  pending,  \* the row each running login has read and checked: a set of one, or of none
  audit     \* the audit log: [action, uid, name]; uid is 0 where the code sets none

vars == <<users, nextUid, cookie, pending, audit>>

Init ==  \* the first start has seeded the default admin
  /\ users = [i \in {1} |-> [name |-> Admin0, hash |-> Password0, role |-> "admin"]]
  /\ nextUid = 2
  /\ cookie = [b \in Browsers |-> {}] /\ pending = [b \in Browsers |-> {}]
  /\ audit = <<>>

-----------------------------------------------------------------------------
(* userstore and audit *)

\* Variant: no AUTOINCREMENT, SQLite then takes the largest rowid plus one.
NextRowid == IF DOMAIN users = {} THEN 1 ELSE 1 + Max(DOMAIN users)

NewUid == nextUid

\* UNIQUE COLLATE NOCASE
Taken(n) == \E i \in DOMAIN users : users[i].name = n

\* Create fails on a name that is taken.
Created(n, p, role) ==
  /\ nextUid <= MaxUsers /\ ~Taken(n)
  /\ users' = [i \in DOMAIN users \cup {NewUid} |->
                 IF i = NewUid THEN [name |-> n, hash |-> p, role |-> role] ELSE users[i]]
  /\ nextUid' = nextUid + 1

\* Log; an error is not looked at.
Logged(action, uid, name) ==
  \/ Len(audit) < MaxEvents /\ audit' = Append(audit, [action |-> action, uid |-> uid, name |-> name])
  \/ WritesMayFail /\ UNCHANGED audit

\* HashPassword: bcrypt hashes at most 72 bytes; an error comes with no hash.
HashOf(p) == IF p \in Long THEN NoHash ELSE p

-----------------------------------------------------------------------------
(* login and logout *)

\* login up to the check of the password, which takes its time.
Lookup(b, n, p) ==
  /\ pending[b] = {}
  /\ \E i \in DOMAIN users :
       /\ users[i].name = n /\ users[i].hash = p
       /\ pending' = [pending EXCEPT ![b] = {[uid |-> i, name |-> n, role |-> users[i].role]}]
  /\ UNCHANGED <<users, nextUid, cookie, audit>>

\* Unknown name, other password, or the table cannot be read.
LoginFails(b, n) ==
  /\ pending[b] = {}
  /\ Logged("LOGIN_FAILURE", 0, n)
  /\ UNCHANGED <<users, nextUid, cookie, pending>>

\* IssueToken with the row read before, SetCookie.
Grant(b) == \E u \in pending[b] :
  /\ cookie' = [cookie EXCEPT ![b] = {u}]
  /\ pending' = [pending EXCEPT ![b] = {}]
  /\ Logged("LOGIN_SUCCESS", 0, u.name)
  /\ UNCHANGED <<users, nextUid>>

\* logout is a public route: no middleware has put claims in its context, and
\* without claims nothing is logged.
Logout(b) ==
  /\ cookie[b] # {}
  /\ cookie' = [cookie EXCEPT ![b] = {}]
  /\ UNCHANGED <<users, nextUid, pending, audit>>

\* The token has passed its 24 hours.
Expire(b) ==
  /\ cookie[b] # {}
  /\ cookie' = [cookie EXCEPT ![b] = {}]
  /\ UNCHANGED <<users, nextUid, pending, audit>>

-----------------------------------------------------------------------------
(* The handlers behind RequireRole("admin"), for the claims they are given *)

Level == [user |-> 1, editor |-> 2, admin |-> 3]
HasMinRole(role, min) == Level[role] >= Level[min]
Claims(b) == {c \in cookie[b] : HasMinRole(c.role, "admin")}

\* A password that is too short or too long is refused.
CreateUser(b, n, p, role) == \E c \in Claims(b) :
  /\ p \in Fit
  /\ Created(n, p, role)
  /\ Logged("CREATE_USER", c.uid, c.name)
  /\ UNCHANGED <<cookie, pending>>

\* Variant: no look at whose role it is.
ChangeAnyRole(b, i, role) == \E c \in Claims(b) :
  /\ i \in DOMAIN users
  /\ users' = [users EXCEPT ![i].role = role]
  /\ UNCHANGED <<nextUid, cookie, pending, audit>>

\* The column's CHECK refuses other roles, an id that is gone changes nothing.
ChangeRole(b, i, role) == \E c \in Claims(b) :
  /\ i # c.uid
  /\ i \in DOMAIN users
  /\ users' = [users EXCEPT ![i].role = role]
  /\ UNCHANGED <<nextUid, cookie, pending, audit>>

DeleteUser(b, i) == \E c \in Claims(b) :
  /\ i # c.uid
  /\ users' = [j \in DOMAIN users \ {i} |-> users[j]]
  /\ UNCHANGED <<nextUid, cookie, pending, audit>>

\* The errors of the hash and of the update are not looked at.
ResetPassword(b, i, p) ==
  /\ Claims(b) # {}
  /\ p \notin Short
  /\ i \in DOMAIN users
  /\ \/ users' = [users EXCEPT ![i].hash = HashOf(p)]
     \/ WritesMayFail /\ UNCHANGED users
  /\ UNCHANGED <<nextUid, cookie, pending, audit>>

\* main: a start that counts no user, or fails to count, creates the default admin;
\* an error of Create is not looked at.  Logins under way are lost, cookies are not.
Restart ==
  /\ pending' = [b \in Browsers |-> {}]
  /\ \/ /\ DOMAIN users = {} \/ WritesMayFail
        /\ Created(Admin0, Password0, "admin")
     \/ /\ DOMAIN users # {} \/ WritesMayFail \/ nextUid > MaxUsers
        /\ UNCHANGED <<users, nextUid>>
  /\ UNCHANGED <<cookie, audit>>

AdminRequest(b) ==
  \/ \E n \in Names, p \in Passwords, role \in Roles : CreateUser(b, n, p, role)
  \/ \E i \in 1..MaxUsers : \/ \E role \in Roles : ChangeRole(b, i, role)
                            \/ DeleteUser(b, i)
                            \/ \E p \in Passwords : ResetPassword(b, i, p)

Next ==
  \/ \E b \in Browsers :
       \/ \E n \in Names, p \in Passwords : Lookup(b, n, p)
       \/ \E n \in Names : LoginFails(b, n)
       \/ Grant(b) \/ Logout(b) \/ Expire(b) \/ AdminRequest(b)
  \/ Restart

Spec == Init /\ [][Next]_vars
-----------------------------------------------------------------------------
(* Properties *)

ClaimSets == SUBSET [uid : 1..MaxUsers, name : Names, role : Roles]

\* The types; ids in use were given out, and no account can be entered with a
\* password that a form would have refused.
TypeOK ==
  /\ DOMAIN users \subseteq 1..nextUid - 1
  /\ \A i \in DOMAIN users :
       users[i] \in [name : Names, hash : Fit \cup {NoHash}, role : Roles]
  /\ nextUid \in 1..MaxUsers + 1
  /\ cookie \in [Browsers -> ClaimSets] /\ pending \in [Browsers -> ClaimSets]
  /\ \A b \in Browsers : Cardinality(cookie[b]) <= 1 /\ Cardinality(pending[b]) <= 1
  /\ audit \in Seq([action : {"LOGIN_FAILURE", "LOGIN_SUCCESS", "CREATE_USER"},
                    uid : 0..MaxUsers, name : Names])

\* Whoever a session, a login under way or an audit entry names by id is still
\* that person, or gone: an id is never passed on to another account, so the
\* claims of an old token never stand for somebody else.
SessionKeepsIdentity ==
  \A c \in (UNION {cookie[b] \cup pending[b] : b \in Browsers}) \cup ToSet(audit) :
    c.uid \in DOMAIN users => users[c.uid].name = c.name

Admins == {i \in DOMAIN users : users[i].role = "admin"}

\* The last admin is only ever lost to a session that has outlived the rights it
\* claims: "cannot delete yourself" and "cannot change your own role" are enough
\* as long as every admin session is of a present admin.
LastAdminKept ==
  [][Admins # {} /\ Admins' = {} => \E b \in Browsers : \E c \in Claims(b) : c.uid \notin Admins]_vars

\* "Role changes take effect on the user's next request" (templates/admin.html):
\* the role a request is judged by is the one in the table.
RoleTakesEffect ==
  \A b \in Browsers : \A c \in cookie[b] : c.uid \in DOMAIN users => users[c.uid].role = c.role
=============================================================================
