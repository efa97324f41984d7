------------------------------ MODULE Accounts ------------------------------
(***************************************************************************)
(* AuthService and the parts of UsersService and OrganizationsService it   *)
(* calls: registration with its organization, login, token refresh and the *)
(* two halves of the password reset.  As in the invoice handlers, each     *)
(* awaited call is a step, and nothing joins two of them.                  *)
(***************************************************************************)
EXTENDS FiniteSets

CONSTANTS
  Emails, Users, Orgs,   \* addresses; primary keys of users, organizations
  TaxIds,                \* the generated PAN and GSTIN pairs
  Hashes,                \* bcrypt results: every call salts afresh
  Requests,              \* request slots
  Removals,              \* may organizations be removed
  Failures               \* may an awaited call fail, or the process die

ASSUME SwitchesAreBoolean == Removals \in BOOLEAN /\ Failures \in BOOLEAN

VARIABLES
  orgs,      \* the organizations table
  users,     \* the users table
  resets,    \* the password reset tokens issued: user and password fingerprint
  resetBy,   \* history: the tokens some confirmation was answered with success for
  twice,     \* history: the tokens that was so for more than once
  sessions,  \* the users refresh tokens were issued to; they are never revoked
  disturbed, \* history: "overlap" once requests overlapped, "failure" once one failed
  req        \* the request in each slot

vars == <<orgs, users, resets, resetBy, twice, sessions, disturbed, req>>

OrgRow   == [id : Orgs, tax : TaxIds]
UserRow  == [id : Users, email : Emails, org : Orgs, hash : Hashes]
ResetTok == [sub : Users, pwd : Hashes]

Idle == [pc |-> "idle"]
Registering == [pc : {"createOrg", "createUser"}, id : Users, email : Emails,
                org : Orgs, hash : Hashes]
Issuing     == [pc : {"issue"}, user : UserRow]
Confirming  == [pc : {"findUser", "setPassword"}, token : ResetTok, hash : Hashes]

Init ==
  /\ orgs = {} /\ users = {} /\ resets = {} /\ resetBy = {} /\ twice = {}
  /\ sessions = {} /\ disturbed = {}
  /\ req = [r \in Requests |-> Idle]

\* A step of the handlers in R (of one without a slot, if R is empty).
NoteOverlap(R) ==
  disturbed' = IF \A q \in Requests \ R : req[q] = Idle
               THEN disturbed ELSE disturbed \cup {"overlap"}

At(r, stage)   == req[r].pc = stage
Goto(r, state) == req' = [req EXCEPT ![r] = state] /\ NoteOverlap({r})

InRegister(r) == req[r].pc \in {"createOrg", "createUser"}
InConfirm(r)  == req[r].pc \in {"findUser", "setPassword"}

\* Identifiers nothing has yet.  A handler's are picked when it starts: nobody
\* can tell, and the finite sets then bound how many handlers start.
FreshHash(h) ==
  /\ \A u \in users : u.hash # h
  /\ \A t \in resets : t.pwd # h
  /\ \A r \in Requests : InRegister(r) \/ InConfirm(r) => req[r].hash # h

FreshUser(u) ==
  /\ \A row \in users : row.id # u
  /\ u \notin sessions /\ \A t \in resets : t.sub # u
  /\ \A r \in Requests : /\ InRegister(r) => req[r].id # u
                         /\ At(r, "issue") => req[r].user.id # u

FreshOrg(o) ==
  /\ \A g \in orgs : g.id # o
  /\ \A r \in Requests : InRegister(r) => req[r].org # o

\* Mutant: the organization is taken on the handler's word.
RefusedAddress(e, o) == \E u \in users : u.email = e /\ u.org = o

\* The foreign key and the unique (email, organizationId).
UserIsRefused(e, o) ==
  \/ \A g \in orgs : g.id # o
  \/ \E u \in users : u.email = e /\ u.org = o

-----------------------------------------------------------------------------
\* Mutant: the address is not looked up.
RegisterUnchecked(r, e, o, own, u, h) ==
  /\ req[r] = Idle /\ FreshHash(h) /\ FreshUser(u) /\ (own => FreshOrg(o))
  /\ Goto(r, [pc |-> IF own THEN "createOrg" ELSE "createUser",
              id |-> u, email |-> e, org |-> o, hash |-> h])
  /\ UNCHANGED <<orgs, users, resets, resetBy, twice, sessions>>

\* register: findByEmail, then the hash, which touches nothing shared.  The DTO
\* names the organization, or it gets one of its own.
RegisterFind(r, e, o, own, u, h) ==
  /\ req[r] = Idle /\ FreshHash(h) /\ FreshUser(u) /\ (own => FreshOrg(o))
  /\ \A row \in users : row.email # e
  /\ Goto(r, [pc |-> IF own THEN "createOrg" ELSE "createUser",
              id |-> u, email |-> e, org |-> o, hash |-> h])
  /\ UNCHANGED <<orgs, users, resets, resetBy, twice, sessions>>

\* organizationsService.create with generated tax numbers, which are unique
\* columns: a number drawn before fails the registration.
RegisterCreateOrg(r, x) ==
  /\ At(r, "createOrg")
  /\ IF \E g \in orgs : g.tax = x
     THEN orgs' = orgs /\ Goto(r, Idle)
     ELSE /\ orgs' = orgs \cup {[id |-> req[r].org, tax |-> x]}
          /\ Goto(r, [req[r] EXCEPT !.pc = "createUser"])
  /\ UNCHANGED <<users, resets, resetBy, twice, sessions>>

\* Mutant: register stops after its organization.
CreateNoUser(r) ==
  /\ At(r, "createUser")
  /\ Goto(r, Idle)
  /\ UNCHANGED <<orgs, users, resets, resetBy, twice, sessions>>

\* usersService.createUser; the tokens are for the saved entity.
RegisterCreateUser(r) ==
  LET row == [id |-> req[r].id, email |-> req[r].email,
              org |-> req[r].org, hash |-> req[r].hash]
  IN  /\ At(r, "createUser")
      /\ IF UserIsRefused(row.email, row.org)
         THEN users' = users /\ Goto(r, Idle)
         ELSE users' = users \cup {row} /\ Goto(r, [pc |-> "issue", user |-> row])
      /\ UNCHANGED <<orgs, resets, resetBy, twice, sessions>>

\* login: findByEmail gives some user of that address, whose password must be
\* the one presented; a client presents the password that hash h was made of.
Login(r, e, h) ==
  /\ req[r] = Idle
  /\ \E u \in users : /\ u.email = e /\ u.hash = h
                      /\ Goto(r, [pc |-> "issue", user |-> u])
  /\ UNCHANGED <<orgs, users, resets, resetBy, twice, sessions>>

\* refresh: the token is stateless, only its user must still exist.
Refresh(r, s) ==
  /\ req[r] = Idle
  /\ \E u \in users : u.id = s /\ Goto(r, [pc |-> "issue", user |-> u])
  /\ UNCHANGED <<orgs, users, resets, resetBy, twice, sessions>>

\* issueTokens waits for the organization, then signs for the user it was given.
IssueTokens(r) ==
  /\ At(r, "issue")
  /\ sessions' = sessions \cup {req[r].user.id}
  /\ Goto(r, Idle)
  /\ UNCHANGED <<orgs, users, resets, resetBy, twice>>

-----------------------------------------------------------------------------
\* Mutant: the token carries the address where the fingerprint belongs.
RequestForAddress(e) ==
  /\ \E u \in users : /\ u.email = e
                      /\ resets' = resets \cup {[sub |-> u.id, pwd |-> u.email]}
  /\ NoteOverlap({})
  /\ UNCHANGED <<orgs, users, resetBy, twice, sessions, req>>

\* requestPasswordReset: stateless, the token is signed and handed out.
RequestPasswordReset(e) ==
  /\ \E u \in users : /\ u.email = e
                      /\ resets' = resets \cup {[sub |-> u.id, pwd |-> u.hash]}
  /\ NoteOverlap({})
  /\ UNCHANGED <<orgs, users, resetBy, twice, sessions, req>>

\* Mutant: the fingerprint in the token is not compared.
ConfirmAnyFingerprint(r, t, h) ==
  /\ req[r] = Idle /\ FreshHash(h)
  /\ \E u \in users : u.id = t.sub
  /\ Goto(r, [pc |-> "findUser", token |-> t, hash |-> h])
  /\ UNCHANGED <<orgs, users, resets, resetBy, twice, sessions>>

\* confirmPasswordReset up to the hash: the token's fingerprint must be that of
\* the password the user has now.
ConfirmFind(r, t, h) ==
  /\ req[r] = Idle /\ FreshHash(h)
  /\ \E u \in users : u.id = t.sub /\ u.hash = t.pwd
  /\ Goto(r, [pc |-> "findUser", token |-> t, hash |-> h])
  /\ UNCHANGED <<orgs, users, resets, resetBy, twice, sessions>>

\* The confirmation is answered with success.
Spend(r) ==
  /\ resetBy' = resetBy \cup {req[r].token}
  /\ twice' = twice \cup (resetBy \cap {req[r].token})
  /\ Goto(r, Idle)

\* updatePassword reads the user again; one that is gone by then is answered with
\* success all the same.
UpdatePassword(r) ==
  /\ At(r, "findUser")
  /\ IF \E u \in users : u.id = req[r].token.sub
     THEN Goto(r, [req[r] EXCEPT !.pc = "setPassword"]) /\ UNCHANGED <<resetBy, twice>>
     ELSE Spend(r)
  /\ UNCHANGED <<orgs, users, resets, sessions>>

\* Mutant: the token is spent, the password is not written.
SpendOnly(r) ==
  /\ At(r, "setPassword")
  /\ Spend(r)
  /\ UNCHANGED <<orgs, users, resets, sessions>>

\* save overwrites the password.  For a user that is gone it inserts, which the
\* missing organization refuses, or, having seen the row, writes to none.
SavePassword(r) ==
  LET s == req[r].token.sub
  IN  /\ At(r, "setPassword")
      /\ users' = {IF u.id = s THEN [u EXCEPT !.hash = req[r].hash] ELSE u : u \in users}
      /\ \/ Spend(r)
         \/ /\ \A u \in users : u.id # s
            /\ Goto(r, Idle)
            /\ UNCHANGED <<resetBy, twice>>
      /\ UNCHANGED <<orgs, resets, sessions>>

\* organizationsService.remove: the users go with their organization.  A removal
\* the database refuses rolls back and changes nothing.
RemoveOrg(o) ==
  /\ Removals /\ \E g \in orgs : g.id = o
  /\ orgs' = {g \in orgs : g.id # o}
  /\ users' = {u \in users : u.org # o}
  /\ NoteOverlap({})
  /\ UNCHANGED <<resets, resetBy, twice, sessions, req>>

\* A call fails or the process dies: what the handler stored so far stays.
Abort(r) ==
  /\ Failures /\ req[r] # Idle
  /\ req' = [req EXCEPT ![r] = Idle]
  /\ disturbed' = disturbed \cup {"failure"}
  /\ UNCHANGED <<orgs, users, resets, resetBy, twice, sessions>>

Next ==
  \/ \E r \in Requests :
       \/ \E e \in Emails, o \in Orgs, own \in BOOLEAN, u \in Users, h \in Hashes :
            RegisterFind(r, e, o, own, u, h)
       \/ \E x \in TaxIds : RegisterCreateOrg(r, x)
       \/ RegisterCreateUser(r)
       \/ \E e \in Emails, h \in Hashes : Login(r, e, h)
       \/ \E s \in sessions : Refresh(r, s)
       \/ IssueTokens(r)
       \/ \E t \in resets, h \in Hashes : ConfirmFind(r, t, h)
       \/ UpdatePassword(r) \/ SavePassword(r)
       \/ Abort(r)
  \/ \E e \in Emails : RequestPasswordReset(e)
  \/ \E o \in Orgs : RemoveOrg(o)

Spec == Init /\ [][Next]_vars

-----------------------------------------------------------------------------
\* Rows, tokens and handlers have the declared shape.
TypeOK ==
  /\ orgs \subseteq OrgRow /\ users \subseteq UserRow
  /\ resets \subseteq ResetTok /\ resetBy \subseteq ResetTok /\ twice \subseteq ResetTok
  /\ sessions \subseteq Users /\ disturbed \subseteq {"overlap", "failure"}
  /\ req \in [Requests -> {Idle} \cup Registering \cup Issuing \cup Confirming]

Quiet == \A r \in Requests : req[r] = Idle

\* Whatever overlaps, fails or is removed: a token that confirmed a reset no
\* longer carries the fingerprint of its user's password, and neither does any
\* other token issued for the same password.
SpentTokensAreDead ==
  \A t \in resetBy : \A u \in users : u.id = t.sub => u.hash # t.pwd

\* Whatever overlaps, fails or is removed: every user has its organization, also
\* one registered into an organization that is being removed meanwhile.
UsersHaveTheirOrg == \A u \in users : \E g \in orgs : g.id = u.org

\* While requests do not overlap, whatever fails or is removed: an address
\* identifies its user, so login and reset find the account that was registered
\* with it ('Email already registered').
EmailIsUnique ==
  "overlap" \notin disturbed => \A u, v \in users : u.email = v.email => u = v

\* auth.service.ts: 'Password reset token has already been used or invalidated'.
\* No token is answered with success for two confirmations.
TokenWorksOnce == twice = {}

\* While requests do not overlap, whatever fails or is removed: the same.
TokenWorksOnceAlone == "overlap" \notin disturbed => TokenWorksOnce

\* While requests neither overlap nor fail: register leaves no organization
\* without its user.
NoOrphanOrgs ==
  disturbed = {} /\ Quiet => \A g \in orgs : \E u \in users : u.org = g.id
=============================================================================
