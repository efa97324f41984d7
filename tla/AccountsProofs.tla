--------------------------- MODULE AccountsProofs ---------------------------
(***************************************************************************)
(* Theorems about Accounts, for every set of users, organizations and      *)
(* tokens, any number of overlapping requests, removals and failures.      *)
(***************************************************************************)
EXTENDS Accounts, TLAPS

States == {Idle} \cup Registering \cup Issuing \cup Confirming

\* What a handler holds at each stage.
LEMMA Held ==
  ASSUME TypeOK, NEW r \in Requests
  PROVE  /\ InRegister(r) => req[r] \in Registering
         /\ At(r, "issue") => req[r] \in Issuing
         /\ InConfirm(r) => req[r] \in Confirming
BY DEF TypeOK, At, InRegister, InConfirm, Idle, Registering, Issuing, Confirming

\* A handler that goes on, or ends, leaves the other slots as they are.
LEMMA GotoType ==
  ASSUME TypeOK, NEW r \in Requests, NEW state \in States, Goto(r, state)
  PROVE  /\ req' \in [Requests -> States] /\ disturbed' \subseteq {"overlap", "failure"}
         /\ req'[r] = state /\ \A q \in Requests \ {r} : req'[q] = req[q]
BY DEF TypeOK, Goto, NoteOverlap, States

-----------------------------------------------------------------------------
\* The confirmation that is answered with success spends a token that was issued.
LEMMA SpendType ==
  ASSUME TypeOK, NEW r \in Requests, InConfirm(r), Spend(r)
  PROVE  /\ req' \in [Requests -> States] /\ disturbed' \subseteq {"overlap", "failure"}
         /\ resetBy' \subseteq ResetTok /\ twice' \subseteq ResetTok
<1>1. req[r].token \in ResetTok
  BY Held DEF Confirming
<1>2. Goto(r, Idle) /\ Idle \in States
  BY DEF Spend, States
<1>. QED  BY <1>1, <1>2, GotoType DEF Spend, TypeOK

LEMMA TypeStep ==
  ASSUME TypeOK, [Next]_vars
  PROVE  TypeOK'
<1>1. CASE UNCHANGED vars
  BY <1>1 DEF TypeOK, vars
<1>2. CASE Next
  <2>1. ASSUME NEW r \in Requests, NEW e \in Emails, NEW o \in Orgs, NEW own \in BOOLEAN,
               NEW u \in Users, NEW h \in Hashes, RegisterFind(r, e, o, own, u, h)
        PROVE  TypeOK'
    <3> DEFINE s == [pc |-> IF own THEN "createOrg" ELSE "createUser",
                     id |-> u, email |-> e, org |-> o, hash |-> h]
    <3>1. s \in States /\ Goto(r, s)
      BY <2>1 DEF RegisterFind, States, Registering
    <3> HIDE DEF s
    <3>2. req' \in [Requests -> States] /\ disturbed' \subseteq {"overlap", "failure"}
      BY <3>1, GotoType
    <3>. QED  BY <2>1, <3>2 DEF RegisterFind, TypeOK, States
  <2>2. ASSUME NEW r \in Requests, NEW x \in TaxIds, RegisterCreateOrg(r, x)
        PROVE  TypeOK'
    <3> DEFINE s == [req[r] EXCEPT !.pc = "createUser"]
    <3>1. req[r] \in Registering
      BY <2>2, Held DEF RegisterCreateOrg, At, InRegister
    <3>2. s \in States /\ Idle \in States /\ [id |-> req[r].org, tax |-> x] \in OrgRow
      BY <3>1 DEF Registering, States, OrgRow
    <3>3. Goto(r, s) \/ Goto(r, Idle)
      BY <2>2 DEF RegisterCreateOrg
    <3> HIDE DEF s
    <3>4. req' \in [Requests -> States] /\ disturbed' \subseteq {"overlap", "failure"}
      BY <3>2, <3>3, GotoType
    <3>. QED  BY <2>2, <3>2, <3>4 DEF RegisterCreateOrg, TypeOK, States
  <2>3. ASSUME NEW r \in Requests, RegisterCreateUser(r)
        PROVE  TypeOK'
    <3> DEFINE row == [id |-> req[r].id, email |-> req[r].email,
                       org |-> req[r].org, hash |-> req[r].hash]
               s == [pc |-> "issue", user |-> row]
    <3>1. req[r] \in Registering
      BY <2>3, Held DEF RegisterCreateUser, At, InRegister
    <3>2. row \in UserRow
      BY <3>1 DEF Registering, UserRow
    <3>3. s \in States /\ Idle \in States
      <4> HIDE DEF row
      <4>. QED  BY <3>2 DEF Issuing, States
    <3>4. /\ Goto(r, s) \/ Goto(r, Idle)
          /\ users' = users \/ users' = users \cup {row}
      BY <2>3 DEF RegisterCreateUser
    <3> HIDE DEF s, row
    <3>5. req' \in [Requests -> States] /\ disturbed' \subseteq {"overlap", "failure"}
      BY <3>3, <3>4, GotoType
    <3>. QED  BY <2>3, <3>2, <3>4, <3>5 DEF RegisterCreateUser, TypeOK, States
  <2>4. ASSUME NEW r \in Requests,
               (\E e \in Emails, h \in Hashes : Login(r, e, h))
                 \/ (\E s \in sessions : Refresh(r, s)) \/ IssueTokens(r)
        PROVE  TypeOK'
    <3>1. CASE IssueTokens(r)
      <4>1. req[r] \in Issuing /\ Goto(r, Idle) /\ Idle \in States
        BY <3>1, Held DEF IssueTokens, States
      <4>2. req[r].user.id \in Users
        BY <4>1 DEF Issuing, UserRow
      <4>3. req' \in [Requests -> States] /\ disturbed' \subseteq {"overlap", "failure"}
        BY <4>1, GotoType
      <4>. QED  BY <3>1, <4>2, <4>3 DEF IssueTokens, TypeOK, States
    <3>2. CASE ~IssueTokens(r)
      <4>1. PICK u \in users : Goto(r, [pc |-> "issue", user |-> u])
        BY <2>4, <3>2 DEF Login, Refresh
      <4> DEFINE s == [pc |-> "issue", user |-> u]
      <4>2. s \in States /\ Goto(r, s)
        BY <4>1 DEF TypeOK, States, Issuing
      <4> HIDE DEF s
      <4>3. req' \in [Requests -> States] /\ disturbed' \subseteq {"overlap", "failure"}
        BY <4>2, GotoType
      <4>. QED  BY <2>4, <3>2, <4>3 DEF Login, Refresh, TypeOK, States
    <3>. QED  BY <3>1, <3>2
  <2>5. ASSUME NEW r \in Requests, NEW t \in resets, NEW h \in Hashes, ConfirmFind(r, t, h)
        PROVE  TypeOK'
    <3> DEFINE s == [pc |-> "findUser", token |-> t, hash |-> h]
    <3>1. s \in States /\ Goto(r, s)
      BY <2>5 DEF ConfirmFind, States, Confirming, TypeOK
    <3> HIDE DEF s
    <3>2. req' \in [Requests -> States] /\ disturbed' \subseteq {"overlap", "failure"}
      BY <3>1, GotoType
    <3>. QED  BY <2>5, <3>2 DEF ConfirmFind, TypeOK, States
  <2>6. ASSUME NEW r \in Requests, UpdatePassword(r)
        PROVE  TypeOK'
    <3>1. InConfirm(r)
      BY <2>6 DEF UpdatePassword, At, InConfirm
    <3>2. CASE Spend(r)
      BY <2>6, <3>1, <3>2, SpendType DEF UpdatePassword, TypeOK, States
    <3>3. CASE ~Spend(r)
      <4> DEFINE s == [req[r] EXCEPT !.pc = "setPassword"]
      <4>1. Goto(r, s) /\ UNCHANGED <<resetBy, twice>>
        BY <2>6, <3>3 DEF UpdatePassword
      <4>2. s \in States
        BY <3>1, Held DEF Confirming, States
      <4> HIDE DEF s
      <4>3. req' \in [Requests -> States] /\ disturbed' \subseteq {"overlap", "failure"}
        BY <4>1, <4>2, GotoType
      <4>. QED  BY <2>6, <4>1, <4>3 DEF UpdatePassword, TypeOK, States
    <3>. QED  BY <3>2, <3>3
  <2>7. ASSUME NEW r \in Requests, SavePassword(r)
        PROVE  TypeOK'
    <3>1. InConfirm(r) /\ req[r] \in Confirming
      BY <2>7, Held DEF SavePassword, At, InConfirm
    <3>2. users' \subseteq UserRow
      BY <2>7, <3>1 DEF SavePassword, TypeOK, UserRow, Confirming
    <3>3. CASE Spend(r)
      BY <2>7, <3>1, <3>2, <3>3, SpendType DEF SavePassword, TypeOK, States
    <3>4. CASE ~Spend(r)
      <4>1. Goto(r, Idle) /\ Idle \in States /\ UNCHANGED <<resetBy, twice>>
        BY <2>7, <3>4 DEF SavePassword, States
      <4>2. req' \in [Requests -> States] /\ disturbed' \subseteq {"overlap", "failure"}
        BY <4>1, GotoType
      <4>. QED  BY <2>7, <3>2, <4>1, <4>2 DEF SavePassword, TypeOK, States
    <3>. QED  BY <3>3, <3>4
  <2>8. ASSUME NEW r \in Requests, Abort(r) PROVE TypeOK'
    BY <2>8 DEF Abort, TypeOK
  <2>9. ASSUME NEW e \in Emails, RequestPasswordReset(e) PROVE TypeOK'
    BY <2>9 DEF RequestPasswordReset, NoteOverlap, TypeOK, UserRow, ResetTok
  <2>10. ASSUME NEW o \in Orgs, RemoveOrg(o) PROVE TypeOK'
    BY <2>10 DEF RemoveOrg, NoteOverlap, TypeOK
  <2> HIDE DEF TypeOK
  <2>. QED  BY <1>2, <2>1, <2>2, <2>3, <2>4, <2>5, <2>6, <2>7, <2>8, <2>9, <2>10 DEF Next
<1>. QED  BY <1>1, <1>2

\* Rows, tokens and handlers keep their shape, whatever overlaps or fails.
THEOREM TypeCorrect == Spec => []TypeOK
<1>1. Init => TypeOK
  BY DEF Init, TypeOK
<1>2. TypeOK /\ [Next]_vars => TypeOK'
  BY TypeStep
<1>. QED  BY <1>1, <1>2, PTL DEF Spec

-----------------------------------------------------------------------------
\* The steps that leave the tables and the tokens as they are and take no
\* handler to a stage of the registration or of the confirmation.
Signs(r) ==
  (\E e \in Emails, h \in Hashes : Login(r, e, h))
    \/ (\E s \in sessions : Refresh(r, s)) \/ IssueTokens(r)

LEMMA SignsKeeps ==
  ASSUME TypeOK, NEW r \in Requests, Signs(r)
  PROVE  /\ UNCHANGED <<orgs, users, resets, resetBy, twice>>
         /\ req'[r] = Idle \/ req'[r].pc = "issue"
         /\ ~InRegister(r) /\ ~InRegister(r)' /\ ~InConfirm(r)'
         /\ \A q \in Requests \ {r} : req'[q] = req[q]
BY DEF TypeOK, Signs, Login, Refresh, IssueTokens, Goto, At, InRegister, InConfirm, Idle

\* Every step, by what it does to the tables.
LEMMA NextCases ==
  ASSUME [Next]_vars
  PROVE  \/ UNCHANGED vars
         \/ \E r \in Requests :
              \/ \E e \in Emails, o \in Orgs, own \in BOOLEAN, u \in Users, h \in Hashes :
                   RegisterFind(r, e, o, own, u, h)
              \/ \E x \in TaxIds : RegisterCreateOrg(r, x)
              \/ RegisterCreateUser(r)
              \/ Signs(r)
              \/ \E t \in resets, h \in Hashes : ConfirmFind(r, t, h)
              \/ UpdatePassword(r) \/ SavePassword(r) \/ Abort(r)
         \/ \E e \in Emails : RequestPasswordReset(e)
         \/ \E o \in Orgs : RemoveOrg(o)
BY DEF Next, Signs

LEMMA OrgStep ==
  ASSUME TypeOK, UsersHaveTheirOrg, [Next]_vars
  PROVE  UsersHaveTheirOrg'
<1>1. CASE \E r \in Requests : RegisterCreateUser(r)
  BY <1>1 DEF RegisterCreateUser, UserIsRefused, UsersHaveTheirOrg
<1>2. CASE \E r \in Requests, x \in TaxIds : RegisterCreateOrg(r, x)
  BY <1>2 DEF RegisterCreateOrg, UsersHaveTheirOrg
<1>3. CASE \E r \in Requests : SavePassword(r)
  <2>1. PICK r \in Requests : SavePassword(r)
    BY <1>3
  <2>2. \A v \in users' : \E u \in users : v.org = u.org
    BY <2>1 DEF SavePassword, TypeOK, UserRow
  <2>. QED  BY <2>1, <2>2 DEF SavePassword, UsersHaveTheirOrg
<1>4. CASE \E o \in Orgs : RemoveOrg(o)
  BY <1>4 DEF RemoveOrg, UsersHaveTheirOrg
<1>5. CASE UNCHANGED <<orgs, users>>
  BY <1>5 DEF UsersHaveTheirOrg
<1>. QED
  BY <1>1, <1>2, <1>3, <1>4, <1>5, NextCases, SignsKeeps
     DEF RegisterFind, ConfirmFind, UpdatePassword, Abort, RequestPasswordReset, vars

\* No user without its organization, also when that is removed while a
\* registration into it is under way.
THEOREM UsersKeepTheirOrg == Spec => []UsersHaveTheirOrg
<1>1. Init => UsersHaveTheirOrg
  BY DEF Init, UsersHaveTheirOrg
<1>2. TypeOK /\ UsersHaveTheirOrg /\ [Next]_vars => UsersHaveTheirOrg'
  BY OrgStep
<1>. QED  BY <1>1, <1>2, TypeCorrect, PTL DEF Spec

-----------------------------------------------------------------------------
(***************************************************************************)
(* A hash is made once.  A registration or a confirmation holds one that   *)
(* no user has, no token carries and no other handler holds, until its     *)
(* write gives it to a user: so no fingerprint in an issued token can come *)
(* true again once the password it was taken from is overwritten.          *)
(***************************************************************************)
Holds(r) == InRegister(r) \/ InConfirm(r)

HashIsFresh(r) ==
  /\ \A u \in users : u.hash # req[r].hash
  /\ \A t \in resets : t.pwd # req[r].hash
  /\ \A q \in Requests \ {r} : Holds(q) => req[q].hash # req[r].hash

HashInv ==
  /\ resetBy \subseteq resets
  /\ \A r \in Requests : InConfirm(r) => req[r].token \in resets
  /\ \A r \in Requests : Holds(r) => HashIsFresh(r)
  /\ SpentTokensAreDead

\* A handler that starts with a fresh hash, or that ends or goes on with the one
\* it has, while users, resets and what was spent stay as they are.
LEMMA HashQuiet ==
  ASSUME TypeOK, HashInv, NEW r \in Requests,
         \A q \in Requests \ {r} : req'[q] = req[q],
         UNCHANGED <<users, resets, resetBy>>,
         InConfirm(r)' => req'[r].token \in resets,
         Holds(r)' => FreshHash(req'[r].hash) \/ (Holds(r) /\ req'[r].hash = req[r].hash)
  PROVE  HashInv'
<1>1. ASSUME NEW q \in Requests, Holds(q)' PROVE HashIsFresh(q)'
  <2>1. ASSUME NEW p \in Requests, p # q, Holds(p)' PROVE req'[p].hash # req'[q].hash
    BY <1>1, <2>1 DEF HashInv, HashIsFresh, Holds, FreshHash, InRegister, InConfirm
  <2>2. /\ \A u \in users : u.hash # req'[q].hash
        /\ \A t \in resets : t.pwd # req'[q].hash
    BY <1>1 DEF HashInv, HashIsFresh, Holds, FreshHash, InRegister, InConfirm
  <2>. QED  BY <2>1, <2>2 DEF HashIsFresh
<1>2. \A q \in Requests : InConfirm(q)' => req'[q].token \in resets
  BY DEF HashInv, InConfirm
<1>. QED  BY <1>1, <1>2 DEF HashInv, SpentTokensAreDead

\* The hash a registration holds goes to the user it creates.
LEMMA HashCreateUser ==
  ASSUME TypeOK, HashInv, NEW r \in Requests, RegisterCreateUser(r)
  PROVE  HashInv'
<1> DEFINE row == [id |-> req[r].id, email |-> req[r].email,
                   org |-> req[r].org, hash |-> req[r].hash]
<1>1. /\ users' = users \/ users' = users \cup {row}
      /\ row.hash = req[r].hash /\ row.id = req[r].id
      /\ UNCHANGED <<resets, resetBy>> /\ InRegister(r)
  BY DEF RegisterCreateUser, At, InRegister
<1>2. /\ ~Holds(r)' /\ ~InConfirm(r)'
      /\ \A q \in Requests \ {r} : req'[q] = req[q]
  BY DEF TypeOK, RegisterCreateUser, Goto, Holds, InRegister, InConfirm, Idle
<1> HIDE DEF row
<1>3. HashIsFresh(r)
  BY <1>1 DEF HashInv, Holds
<1>4. ASSUME NEW q \in Requests, Holds(q)' PROVE HashIsFresh(q)'
  <2>1. q # r /\ Holds(q) /\ HashIsFresh(q) /\ req'[q] = req[q]
    BY <1>2, <1>4 DEF HashInv, Holds, InRegister, InConfirm
  <2>2. \A p \in Requests \ {q} : Holds(p)' => req'[p].hash # req'[q].hash
    BY <1>2, <2>1 DEF HashIsFresh, Holds, InRegister, InConfirm
  <2>3. \A u \in users' : u.hash # req'[q].hash
    BY <1>1, <1>3, <2>1 DEF HashIsFresh
  <2>. QED  BY <1>1, <2>1, <2>2, <2>3 DEF HashIsFresh
<1>5. \A q \in Requests : InConfirm(q)' => req'[q].token \in resets
  BY <1>2 DEF HashInv, InConfirm
<1>6. SpentTokensAreDead'
  BY <1>1, <1>3 DEF HashInv, HashIsFresh, SpentTokensAreDead
<1>. QED  BY <1>1, <1>4, <1>5, <1>6 DEF HashInv

\* The hash a confirmation holds replaces that of its user, and spends the token.
LEMMA HashSavePassword ==
  ASSUME TypeOK, HashInv, NEW r \in Requests, SavePassword(r)
  PROVE  HashInv'
<1>1. InConfirm(r) /\ HashIsFresh(r) /\ req[r].token \in resets
  BY DEF SavePassword, At, InConfirm, HashInv, Holds
<1>2. ASSUME NEW v \in users'
      PROVE  \E u \in users : /\ v.id = u.id
                             /\ v.hash = IF u.id = req[r].token.sub THEN req[r].hash ELSE u.hash
  BY <1>2 DEF SavePassword, TypeOK, UserRow
<1>3. /\ UNCHANGED resets
      /\ resetBy' = resetBy \/ resetBy' = resetBy \cup {req[r].token}
  BY DEF SavePassword, Spend
<1>4. ~Holds(r)' /\ ~InConfirm(r)' /\ \A q \in Requests \ {r} : req'[q] = req[q]
  BY DEF TypeOK, SavePassword, Spend, Goto, Holds, InRegister, InConfirm, Idle
<1>5. ASSUME NEW q \in Requests, Holds(q)' PROVE HashIsFresh(q)'
  <2>1. q # r /\ Holds(q) /\ HashIsFresh(q) /\ req'[q] = req[q]
    BY <1>4, <1>5 DEF HashInv, Holds, InRegister, InConfirm
  <2>2. req[r].hash # req[q].hash
    BY <1>1, <2>1 DEF HashIsFresh, Holds
  <2>3. \A p \in Requests \ {q} : Holds(p)' => req'[p].hash # req'[q].hash
    BY <1>4, <2>1 DEF HashIsFresh, Holds, InRegister, InConfirm
  <2>4. \A u \in users' : u.hash # req'[q].hash
    BY <1>2, <2>1, <2>2 DEF HashIsFresh
  <2>. QED  BY <1>3, <2>1, <2>3, <2>4 DEF HashIsFresh
<1>6. \A q \in Requests : InConfirm(q)' => req'[q].token \in resets
  BY <1>4 DEF HashInv, InConfirm
<1>7. ASSUME NEW t \in resetBy', NEW v \in users', v.id = t.sub PROVE v.hash # t.pwd
  <2>1. t \in resets /\ t.pwd # req[r].hash
    BY <1>1, <1>3 DEF HashInv, HashIsFresh
  <2>2. PICK u \in users : /\ v.id = u.id
                           /\ v.hash = IF u.id = req[r].token.sub THEN req[r].hash ELSE u.hash
    BY <1>2
  <2>3. CASE u.id = req[r].token.sub
    BY <2>1, <2>2, <2>3
  <2>4. CASE u.id # req[r].token.sub
    BY <1>3, <1>7, <2>2, <2>4 DEF HashInv, SpentTokensAreDead
  <2>. QED  BY <2>3, <2>4
<1>. QED  BY <1>1, <1>3, <1>5, <1>6, <1>7 DEF HashInv, SpentTokensAreDead

LEMMA HashStep ==
  ASSUME TypeOK, HashInv, [Next]_vars
  PROVE  HashInv'
<1>1. CASE UNCHANGED vars
  BY <1>1 DEF HashInv, HashIsFresh, Holds, InRegister, InConfirm, SpentTokensAreDead, vars
<1>2. ASSUME NEW r \in Requests, NEW e \in Emails, NEW o \in Orgs, NEW own \in BOOLEAN,
             NEW u \in Users, NEW h \in Hashes, RegisterFind(r, e, o, own, u, h)
      PROVE  HashInv'
  <2>1. /\ req'[r].hash = h /\ FreshHash(h) /\ ~InConfirm(r)'
        /\ \A q \in Requests \ {r} : req'[q] = req[q]
    BY <1>2 DEF TypeOK, RegisterFind, Goto, InConfirm
  <2>. QED  BY <1>2, <2>1, HashQuiet DEF RegisterFind
<1>3. ASSUME NEW r \in Requests, NEW x \in TaxIds, RegisterCreateOrg(r, x)
      PROVE  HashInv'
  <2>1. req[r] \in Registering /\ InRegister(r)
    BY <1>3, Held DEF RegisterCreateOrg, At, InRegister
  <2>2. /\ ~InConfirm(r)'
        /\ Holds(r)' => req'[r].hash = req[r].hash
        /\ \A q \in Requests \ {r} : req'[q] = req[q]
    BY <1>3, <2>1 DEF TypeOK, RegisterCreateOrg, Goto, Holds, InRegister, InConfirm, Idle,
                      Registering
  <2>. QED  BY <1>3, <2>1, <2>2, HashQuiet DEF RegisterCreateOrg, Holds
<1>4. ASSUME NEW r \in Requests, Signs(r) PROVE HashInv'
  <2>1. /\ ~Holds(r)' /\ ~InConfirm(r)' /\ UNCHANGED <<users, resets, resetBy>>
        /\ \A q \in Requests \ {r} : req'[q] = req[q]
    BY <1>4, SignsKeeps DEF Holds
  <2>. QED  BY <2>1, HashQuiet
<1>5. ASSUME NEW r \in Requests, NEW t \in resets, NEW h \in Hashes, ConfirmFind(r, t, h)
      PROVE  HashInv'
  <2>1. /\ req'[r].hash = h /\ FreshHash(h) /\ req'[r].token = t
        /\ \A q \in Requests \ {r} : req'[q] = req[q]
    BY <1>5 DEF TypeOK, ConfirmFind, Goto
  <2>. QED  BY <1>5, <2>1, HashQuiet DEF ConfirmFind
<1>6. ASSUME NEW r \in Requests, UpdatePassword(r) PROVE HashInv'
  <2>1. req[r] \in Confirming /\ InConfirm(r) /\ req[r].token \in resets
    BY <1>6, Held DEF UpdatePassword, At, InConfirm, HashInv
  <2>2. CASE Spend(r)
    <3>1. /\ \A u \in users : u.id # req[r].token.sub
          /\ resetBy' = resetBy \cup {req[r].token} /\ UNCHANGED <<users, resets>>
          /\ req'[r] = Idle /\ \A q \in Requests \ {r} : req'[q] = req[q]
      BY <1>6, <2>1, <2>2 DEF UpdatePassword, Spend, Goto, TypeOK, Idle, Confirming
    <3>2. SpentTokensAreDead' /\ resetBy' \subseteq resets'
      BY <2>1, <3>1 DEF HashInv, SpentTokensAreDead
    <3>3. ASSUME NEW q \in Requests, Holds(q)' PROVE HashIsFresh(q)'
      <4>1. q # r /\ Holds(q) /\ HashIsFresh(q) /\ req'[q] = req[q]
        BY <3>1, <3>3 DEF HashInv, Holds, InRegister, InConfirm, Idle
      <4>. QED  BY <3>1, <4>1 DEF HashIsFresh, Holds, InRegister, InConfirm, Idle
    <3>4. \A q \in Requests : InConfirm(q)' => req'[q].token \in resets'
      BY <3>1 DEF HashInv, InConfirm, Idle
    <3>. QED  BY <3>2, <3>3, <3>4 DEF HashInv
  <2>3. CASE ~Spend(r)
    <3>1. /\ req'[r] = [req[r] EXCEPT !.pc = "setPassword"]
          /\ \A q \in Requests \ {r} : req'[q] = req[q]
          /\ UNCHANGED <<users, resets, resetBy>>
      BY <1>6, <2>3 DEF UpdatePassword, Goto, TypeOK
    <3>2. req'[r].hash = req[r].hash /\ req'[r].token = req[r].token
      BY <2>1, <3>1 DEF Confirming
    <3>. QED  BY <2>1, <3>1, <3>2, HashQuiet DEF Holds
  <2>. QED  BY <2>2, <2>3
<1>7. ASSUME NEW r \in Requests, Abort(r) PROVE HashInv'
  <2>1. /\ ~Holds(r)' /\ ~InConfirm(r)' /\ \A q \in Requests \ {r} : req'[q] = req[q]
        /\ UNCHANGED <<users, resets, resetBy>>
    BY <1>7 DEF Abort, TypeOK, Holds, InRegister, InConfirm, Idle
  <2>. QED  BY <2>1, HashQuiet
<1>8. ASSUME NEW e \in Emails, RequestPasswordReset(e) PROVE HashInv'
  <2>1. /\ UNCHANGED <<users, resetBy, req>> /\ resets \subseteq resets'
        /\ \A t \in resets' \ resets : \E u \in users : t.pwd = u.hash
    BY <1>8 DEF RequestPasswordReset
  <2>2. ASSUME NEW r \in Requests, Holds(r)' PROVE HashIsFresh(r)'
    BY <2>1, <2>2 DEF HashInv, HashIsFresh, Holds, InRegister, InConfirm
  <2>. QED  BY <2>1, <2>2 DEF HashInv, InConfirm, SpentTokensAreDead
<1>9. ASSUME NEW o \in Orgs, RemoveOrg(o) PROVE HashInv'
  BY <1>9 DEF RemoveOrg, HashInv, HashIsFresh, Holds, InRegister, InConfirm,
              SpentTokensAreDead
<1> HIDE DEF HashInv
<1>. QED
  BY <1>1, <1>2, <1>3, <1>4, <1>5, <1>6, <1>7, <1>8, <1>9, NextCases,
     HashCreateUser, HashSavePassword

LEMMA HashesStayFresh == Spec => []HashInv
<1>1. Init => HashInv
  BY DEF Init, HashInv, Holds, InRegister, InConfirm, Idle, SpentTokensAreDead
<1>2. TypeOK /\ HashInv /\ [Next]_vars => HashInv'
  BY HashStep
<1>. QED  BY <1>1, <1>2, TypeCorrect, PTL DEF Spec

\* Whatever overlaps, fails or is removed, no token works again after it, or
\* another one issued for the same password, has confirmed a reset.
THEOREM SpentTokensStayDead == Spec => []SpentTokensAreDead
<1>1. HashInv => SpentTokensAreDead
  BY DEF HashInv
<1>. QED  BY <1>1, HashesStayFresh, PTL

-----------------------------------------------------------------------------
(***************************************************************************)
(* While requests do not overlap, what a handler looked up still holds:    *)
(* nobody has the address it registers, the token it confirms is unspent,  *)
(* and an organization without users is the one it is about to fill.       *)
(***************************************************************************)
LooksUpTrue(r) ==
  /\ InRegister(r) => \A u \in users : u.email # req[r].email
  /\ InConfirm(r) => req[r].token \notin resetBy

Filled(g) ==
  \/ \E u \in users : u.org = g.id
  \/ \E r \in Requests : At(r, "createUser") /\ req[r].org = g.id

AloneInv ==
  /\ "overlap" \notin disturbed => \A r \in Requests : LooksUpTrue(r)
  /\ EmailIsUnique /\ TokenWorksOnceAlone
  /\ disturbed = {} => \A g \in orgs : Filled(g)

\* A step that notes no overlap is taken while the other slots are idle.
LEMMA AloneInStep ==
  ASSUME NEW r \in Requests, NEW state, Goto(r, state), "overlap" \notin disturbed'
  PROVE  disturbed' = disturbed /\ \A q \in Requests \ {r} : req[q] = Idle
BY DEF Goto, NoteOverlap

LEMMA AloneCreateUser ==
  ASSUME TypeOK, AloneInv, NEW r \in Requests, RegisterCreateUser(r)
  PROVE  AloneInv'
<1> DEFINE row == [id |-> req[r].id, email |-> req[r].email,
                   org |-> req[r].org, hash |-> req[r].hash]
<1>1. /\ \/ users' = users /\ UserIsRefused(req[r].email, req[r].org)
         \/ users' = users \cup {row}
      /\ row.email = req[r].email /\ row.org = req[r].org
      /\ UNCHANGED <<orgs, resets, resetBy, twice>> /\ InRegister(r) /\ At(r, "createUser")
      /\ \E state \in {Idle, [pc |-> "issue", user |-> row]} : Goto(r, state)
  BY DEF RegisterCreateUser, At, InRegister
<1>2. /\ ~InRegister(r)' /\ ~InConfirm(r)'
      /\ \A q \in Requests \ {r} : req'[q] = req[q]
  BY DEF TypeOK, RegisterCreateUser, Goto, InRegister, InConfirm, Idle
<1> HIDE DEF row
<1>3. ASSUME "overlap" \notin disturbed'
      PROVE  disturbed' = disturbed /\ \A q \in Requests \ {r} : req[q] = Idle
  BY <1>1, <1>3, AloneInStep
<1>4. ASSUME "overlap" \notin disturbed', NEW q \in Requests PROVE LooksUpTrue(q)'
  BY <1>2, <1>3, <1>4 DEF LooksUpTrue, InRegister, InConfirm, Idle
<1>5. EmailIsUnique'
  <2> SUFFICES ASSUME "overlap" \notin disturbed' PROVE \A u, v \in users' : u.email = v.email => u = v
    BY DEF EmailIsUnique
  <2>1. "overlap" \notin disturbed
    BY <1>3
  <2>2. \A u \in users : u.email # req[r].email
    BY <1>1, <2>1 DEF AloneInv, LooksUpTrue
  <2>. QED  BY <1>1, <2>1, <2>2 DEF AloneInv, EmailIsUnique
<1>6. TokenWorksOnceAlone'
  BY <1>1, <1>3 DEF AloneInv, TokenWorksOnceAlone, TokenWorksOnce
<1>7. ASSUME disturbed' = {}, NEW g \in orgs' PROVE Filled(g)'
  <2>1. disturbed = {} /\ \A q \in Requests \ {r} : req[q] = Idle
    BY <1>3, <1>7
  <2>2. g \in orgs /\ Filled(g)
    BY <1>1, <1>7, <2>1 DEF AloneInv
  <2>3. CASE \E u \in users : u.org = g.id
    BY <1>1, <2>3 DEF Filled
  <2>4. CASE \E q \in Requests : At(q, "createUser") /\ req[q].org = g.id
    <3>1. req[r].org = g.id
      BY <2>1, <2>4 DEF At, Idle
    <3>2. \E u \in users' : u.org = g.id
      BY <1>1, <2>2, <3>1 DEF UserIsRefused
    <3>. QED  BY <3>2 DEF Filled
  <2>. QED  BY <2>2, <2>3, <2>4 DEF Filled
<1>. QED  BY <1>4, <1>5, <1>6, <1>7 DEF AloneInv

\* The confirmation is answered: its token was not spent before.
LEMMA AloneSpend ==
  ASSUME TypeOK, AloneInv, NEW r \in Requests, InConfirm(r), Spend(r)
  PROVE  /\ TokenWorksOnceAlone'
         /\ "overlap" \notin disturbed' => \A q \in Requests : req'[q] = Idle
<1>1. Goto(r, Idle) /\ req'[r] = Idle /\ \A q \in Requests \ {r} : req'[q] = req[q]
  BY DEF Spend, Goto, TypeOK
<1>2. "overlap" \notin disturbed' =>
        disturbed' = disturbed /\ \A q \in Requests \ {r} : req[q] = Idle
  BY <1>1, AloneInStep
<1>3. "overlap" \notin disturbed => req[r].token \notin resetBy /\ twice = {}
  BY DEF AloneInv, LooksUpTrue, TokenWorksOnceAlone, TokenWorksOnce
<1>4. TokenWorksOnceAlone'
  BY <1>2, <1>3 DEF Spend, TokenWorksOnceAlone, TokenWorksOnce
<1>. QED  BY <1>1, <1>2, <1>4

\* A step that leaves the users and the organizations as they are and ends no
\* registration half-way: the slot's own look-up is all there is to show.
LEMMA AloneQuiet ==
  ASSUME TypeOK, AloneInv, NEW r \in Requests, NEW state, Goto(r, state),
         UNCHANGED <<orgs, users>>, resetBy \subseteq resetBy', TokenWorksOnceAlone',
         ~At(r, "createUser"),
         "overlap" \notin disturbed' => LooksUpTrue(r)'
  PROVE  AloneInv'
<1>1. /\ "overlap" \notin disturbed' =>
            disturbed' = disturbed /\ \A q \in Requests \ {r} : req[q] = Idle
      /\ \A q \in Requests \ {r} : req'[q] = req[q]
  BY AloneInStep DEF Goto, TypeOK
<1>2. ASSUME "overlap" \notin disturbed', NEW q \in Requests PROVE LooksUpTrue(q)'
  BY <1>1, <1>2 DEF LooksUpTrue, InRegister, InConfirm, Idle
<1>3. EmailIsUnique'
  BY <1>1 DEF AloneInv, EmailIsUnique
<1>4. ASSUME disturbed' = {}, NEW g \in orgs' PROVE Filled(g)'
  <2>1. Filled(g) /\ \A q \in Requests \ {r} : req[q] = Idle
    BY <1>1, <1>4 DEF AloneInv
  <2>. QED  BY <2>1 DEF Filled, At, Idle
<1>. QED  BY <1>2, <1>3, <1>4 DEF AloneInv

LEMMA AloneStep ==
  ASSUME TypeOK, HashInv, AloneInv, [Next]_vars
  PROVE  AloneInv'
<1>1. CASE UNCHANGED vars
  BY <1>1 DEF AloneInv, LooksUpTrue, Filled, At, InRegister, InConfirm, EmailIsUnique,
              TokenWorksOnceAlone, TokenWorksOnce, vars
<1> DEFINE Same == UNCHANGED <<resetBy, twice>>
<1>2. ASSUME NEW r \in Requests, NEW state, Goto(r, state), Same PROVE TokenWorksOnceAlone'
  BY <1>2, AloneInStep DEF AloneInv, TokenWorksOnceAlone, TokenWorksOnce
<1>3. ASSUME NEW r \in Requests, NEW e \in Emails, NEW o \in Orgs, NEW own \in BOOLEAN,
             NEW u \in Users, NEW h \in Hashes, RegisterFind(r, e, o, own, u, h)
      PROVE  AloneInv'
  <2> DEFINE s == [pc |-> IF own THEN "createOrg" ELSE "createUser",
                   id |-> u, email |-> e, org |-> o, hash |-> h]
  <2>1. /\ Goto(r, s) /\ s.email = e /\ s.pc \in {"createOrg", "createUser"}
        /\ UNCHANGED <<orgs, users, resetBy, twice>>
        /\ \A row \in users : row.email # e
        /\ ~At(r, "createUser")
    BY <1>3 DEF RegisterFind, At, Idle
  <2> HIDE DEF s
  <2>2. req'[r] = s
    BY <2>1 DEF Goto, TypeOK
  <2>3. LooksUpTrue(r)'
    BY <2>1, <2>2 DEF LooksUpTrue, InRegister, InConfirm
  <2>. QED  BY <1>2, <2>1, <2>3, AloneQuiet
<1>4. ASSUME NEW r \in Requests, NEW x \in TaxIds, RegisterCreateOrg(r, x)
      PROVE  AloneInv'
  <2>1. req[r] \in Registering /\ InRegister(r) /\ At(r, "createOrg")
    BY <1>4, Held DEF RegisterCreateOrg, At, InRegister
  <2>2. CASE orgs' = orgs /\ Goto(r, Idle)
    <3>1. LooksUpTrue(r)' /\ ~At(r, "createUser")
      BY <2>1, <2>2 DEF Goto, TypeOK, LooksUpTrue, InRegister, InConfirm, Idle, At
    <3>2. UNCHANGED <<users, resetBy, twice>>
      BY <1>4 DEF RegisterCreateOrg
    <3>. QED  BY <1>2, <2>2, <3>1, <3>2, AloneQuiet
  <2>3. CASE ~(orgs' = orgs /\ Goto(r, Idle))
    <3> DEFINE s == [req[r] EXCEPT !.pc = "createUser"]
    <3>1. /\ orgs' = orgs \cup {[id |-> req[r].org, tax |-> x]} /\ Goto(r, s)
          /\ UNCHANGED <<users, resets, resetBy, twice>>
      BY <1>4, <2>3 DEF RegisterCreateOrg
    <3>2. s.pc = "createUser" /\ s.email = req[r].email /\ s.org = req[r].org
      BY <2>1 DEF Registering
    <3> HIDE DEF s
    <3>3. req'[r] = s /\ \A q \in Requests \ {r} : req'[q] = req[q]
      BY <3>1 DEF Goto, TypeOK
    <3>4. "overlap" \notin disturbed' =>
            disturbed' = disturbed /\ \A q \in Requests \ {r} : req[q] = Idle
      BY <3>1, AloneInStep
    <3>5. ASSUME "overlap" \notin disturbed', NEW q \in Requests PROVE LooksUpTrue(q)'
      BY <2>1, <3>1, <3>2, <3>3, <3>4, <3>5
         DEF AloneInv, LooksUpTrue, InRegister, InConfirm, Idle
    <3>6. EmailIsUnique'
      BY <3>1, <3>4 DEF AloneInv, EmailIsUnique
    <3>7. ASSUME disturbed' = {}, NEW g \in orgs' PROVE Filled(g)'
      <4>1. disturbed = {} /\ \A q \in Requests \ {r} : req[q] = Idle
        BY <3>4, <3>7
      <4>2. CASE g \in orgs
        <5>1. \E v \in users : v.org = g.id
          BY <2>1, <4>1, <4>2 DEF AloneInv, Filled, At, Idle
        <5>. QED  BY <3>1, <5>1 DEF Filled
      <4>3. CASE g = [id |-> req[r].org, tax |-> x]
        BY <3>2, <3>3, <4>3 DEF Filled, At
      <4>. QED  BY <3>1, <4>2, <4>3
    <3>8. TokenWorksOnceAlone'
      BY <1>2, <3>1
    <3>. QED  BY <3>5, <3>6, <3>7, <3>8 DEF AloneInv
  <2>. QED  BY <2>2, <2>3
<1>5. ASSUME NEW r \in Requests, Signs(r) PROVE AloneInv'
  <2>1. \E state : Goto(r, state)
    BY <1>5 DEF Signs, Login, Refresh, IssueTokens
  <2>2. LooksUpTrue(r)' /\ ~At(r, "createUser") /\ UNCHANGED <<orgs, users, resetBy, twice>>
    BY <1>5, SignsKeeps DEF LooksUpTrue, At, InRegister
  <2>. QED  BY <1>2, <2>1, <2>2, AloneQuiet
<1>6. ASSUME NEW r \in Requests, NEW t \in resets, NEW h \in Hashes, ConfirmFind(r, t, h)
      PROVE  AloneInv'
  <2> DEFINE s == [pc |-> "findUser", token |-> t, hash |-> h]
  <2>1. /\ Goto(r, s) /\ s.token = t /\ s.pc = "findUser"
        /\ UNCHANGED <<orgs, users, resetBy, twice>>
        /\ ~At(r, "createUser")
    BY <1>6 DEF ConfirmFind, At, Idle
  <2>2. t \notin resetBy
    BY <1>6 DEF ConfirmFind, HashInv, SpentTokensAreDead
  <2> HIDE DEF s
  <2>3. req'[r] = s
    BY <2>1 DEF Goto, TypeOK
  <2>4. LooksUpTrue(r)'
    BY <2>1, <2>2, <2>3 DEF LooksUpTrue, InRegister, InConfirm
  <2>. QED  BY <1>2, <2>1, <2>4, AloneQuiet
<1>7. ASSUME NEW r \in Requests, UpdatePassword(r) PROVE AloneInv'
  <2>1. /\ req[r] \in Confirming /\ InConfirm(r) /\ ~At(r, "createUser")
        /\ UNCHANGED <<orgs, users>>
    BY <1>7, Held DEF UpdatePassword, At, InConfirm
  <2>2. CASE Spend(r)
    <3>1. TokenWorksOnceAlone' /\ Goto(r, Idle) /\ resetBy \subseteq resetBy'
      BY <2>1, <2>2, AloneSpend DEF Spend
    <3>2. LooksUpTrue(r)'
      BY <3>1 DEF Goto, TypeOK, LooksUpTrue, InRegister, InConfirm, Idle
    <3>. QED  BY <2>1, <3>1, <3>2, AloneQuiet
  <2>3. CASE ~Spend(r)
    <3> DEFINE s == [req[r] EXCEPT !.pc = "setPassword"]
    <3>1. Goto(r, s) /\ Same
      BY <1>7, <2>3 DEF UpdatePassword
    <3>2. s.pc = "setPassword" /\ s.token = req[r].token
      BY <2>1 DEF Confirming
    <3> HIDE DEF s
    <3>3. "overlap" \notin disturbed' => LooksUpTrue(r)'
      BY <2>1, <3>1, <3>2, AloneInStep
         DEF AloneInv, Goto, TypeOK, LooksUpTrue, InRegister, InConfirm
    <3>. QED  BY <1>2, <2>1, <3>1, <3>3, AloneQuiet
  <2>. QED  BY <2>2, <2>3
<1>8. ASSUME NEW r \in Requests, SavePassword(r) PROVE AloneInv'
  <2>1. InConfirm(r) /\ Goto(r, Idle) /\ UNCHANGED orgs
    BY <1>8 DEF SavePassword, Spend, At, InConfirm
  <2>2. /\ req'[r] = Idle /\ \A q \in Requests \ {r} : req'[q] = req[q]
        /\ "overlap" \notin disturbed' =>
              disturbed' = disturbed /\ \A q \in Requests \ {r} : req[q] = Idle
    BY <2>1, AloneInStep DEF Goto, TypeOK
  <2>3. TokenWorksOnceAlone'
    BY <1>2, <1>8, <2>1, AloneSpend DEF SavePassword
  <2>4. /\ users' = {IF u.id = req[r].token.sub THEN [u EXCEPT !.hash = req[r].hash] ELSE u
                      : u \in users}
        /\ users \subseteq UserRow
    BY <1>8 DEF SavePassword, TypeOK
  <2>5. EmailIsUnique'
    BY <2>2, <2>4 DEF AloneInv, EmailIsUnique, UserRow
  <2>6. ASSUME "overlap" \notin disturbed', NEW q \in Requests PROVE LooksUpTrue(q)'
    BY <2>2, <2>6 DEF LooksUpTrue, InRegister, InConfirm, Idle
  <2>7. ASSUME disturbed' = {}, NEW g \in orgs' PROVE Filled(g)'
    <3>1. \E u \in users : u.org = g.id
      BY <2>1, <2>2, <2>7 DEF AloneInv, Filled, At, Idle, InConfirm
    <3>2. ASSUME NEW u \in users PROVE \E v \in users' : v.org = u.org
      <4> DEFINE v == IF u.id = req[r].token.sub THEN [u EXCEPT !.hash = req[r].hash] ELSE u
      <4>1. v \in users' /\ v.org = u.org
        BY <2>4 DEF UserRow
      <4>. QED  BY <4>1
    <3>. QED  BY <3>1, <3>2 DEF Filled
  <2>. QED  BY <2>3, <2>5, <2>6, <2>7 DEF AloneInv
<1>9. ASSUME NEW r \in Requests, Abort(r) PROVE AloneInv'
  <2>1. /\ "overlap" \notin disturbed' => "overlap" \notin disturbed
        /\ req'[r] = Idle /\ \A q \in Requests \ {r} : req'[q] = req[q]
        /\ UNCHANGED <<users, resetBy, twice>>
    BY <1>9 DEF Abort, TypeOK
  <2>2. disturbed' # {}
    BY <1>9 DEF Abort
  <2>3. ASSUME "overlap" \notin disturbed', NEW q \in Requests PROVE LooksUpTrue(q)'
    BY <1>9, <2>1, <2>3 DEF Abort, AloneInv, LooksUpTrue, InRegister, InConfirm, Idle
  <2>4. EmailIsUnique' /\ TokenWorksOnceAlone'
    BY <1>9 DEF Abort, AloneInv, EmailIsUnique, TokenWorksOnceAlone, TokenWorksOnce
  <2>. QED  BY <2>2, <2>3, <2>4 DEF AloneInv
<1>10. ASSUME NEW e \in Emails, RequestPasswordReset(e) PROVE AloneInv'
  <2>1. /\ disturbed' = disturbed \/ "overlap" \in disturbed'
        /\ UNCHANGED <<orgs, users, resetBy, twice, req>>
    BY <1>10 DEF RequestPasswordReset, NoteOverlap
  <2>2. ASSUME "overlap" \notin disturbed', NEW q \in Requests PROVE LooksUpTrue(q)'
    BY <2>1, <2>2 DEF AloneInv, LooksUpTrue, InRegister, InConfirm
  <2>3. EmailIsUnique' /\ TokenWorksOnceAlone'
    BY <2>1 DEF AloneInv, EmailIsUnique, TokenWorksOnceAlone, TokenWorksOnce
  <2>4. ASSUME disturbed' = {}, NEW g \in orgs' PROVE Filled(g)'
    BY <2>1, <2>4 DEF AloneInv, Filled, At
  <2>. QED  BY <2>2, <2>3, <2>4 DEF AloneInv
<1>11. ASSUME NEW o \in Orgs, RemoveOrg(o) PROVE AloneInv'
  <2>1. /\ "overlap" \notin disturbed' =>
              disturbed' = disturbed /\ \A q \in Requests : req[q] = Idle
        /\ orgs' = {g \in orgs : g.id # o} /\ users' = {u \in users : u.org # o}
        /\ UNCHANGED <<resetBy, twice, req>>
    BY <1>11 DEF RemoveOrg, NoteOverlap
  <2>2. ASSUME "overlap" \notin disturbed', NEW q \in Requests PROVE LooksUpTrue(q)'
    BY <2>1, <2>2 DEF LooksUpTrue, InRegister, InConfirm, Idle
  <2>3. EmailIsUnique' /\ TokenWorksOnceAlone'
    BY <2>1 DEF AloneInv, EmailIsUnique, TokenWorksOnceAlone, TokenWorksOnce
  <2>4. ASSUME disturbed' = {}, NEW g \in orgs' PROVE Filled(g)'
    <3>1. \E u \in users : u.org = g.id
      BY <2>1, <2>4 DEF AloneInv, Filled, At, Idle
    <3>. QED  BY <2>1, <2>4, <3>1 DEF Filled
  <2>. QED  BY <2>2, <2>3, <2>4 DEF AloneInv
<1> HIDE DEF AloneInv, Same
<1>. QED
  BY <1>1, <1>3, <1>4, <1>5, <1>6, <1>7, <1>8, <1>9, <1>10, <1>11, NextCases, AloneCreateUser

LEMMA AloneHolds == Spec => []AloneInv
<1>1. Init => AloneInv
  BY DEF Init, AloneInv, LooksUpTrue, InRegister, InConfirm, Idle, EmailIsUnique,
         TokenWorksOnceAlone, TokenWorksOnce
<1>2. TypeOK /\ HashInv /\ AloneInv /\ [Next]_vars => AloneInv'
  BY AloneStep
<1>. QED  BY <1>1, <1>2, TypeCorrect, HashesStayFresh, PTL DEF Spec

\* A client that waits for its answers finds one account per address, whatever
\* fails or is removed in between.
THEOREM OneUserPerEmail == Spec => []EmailIsUnique
<1>1. AloneInv => EmailIsUnique
  BY DEF AloneInv
<1>. QED  BY <1>1, AloneHolds, PTL

\* And no token is answered with success for two confirmations of that client.
THEOREM TokensWorkOnceAlone == Spec => []TokenWorksOnceAlone
<1>1. AloneInv => TokenWorksOnceAlone
  BY DEF AloneInv
<1>. QED  BY <1>1, AloneHolds, PTL

\* And, as long as nothing fails, no registration leaves an organization behind
\* without its user.
THEOREM OrgsHaveUsers == Spec => []NoOrphanOrgs
<1>1. AloneInv => NoOrphanOrgs
  BY DEF AloneInv, Filled, NoOrphanOrgs, Quiet, At, Idle
<1>. QED  BY <1>1, AloneHolds, PTL
=============================================================================
