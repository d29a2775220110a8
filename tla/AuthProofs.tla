----------------------------- MODULE AuthProofs -----------------------------
(***************************************************************************)
(* Proofs about Auth, for any requests, keys, identities, addresses and    *)
(* bounds: a key the issuer took back is refused in time, and an identity  *)
(* is one account.                                                         *)
(***************************************************************************)
EXTENDS Auth, TLAPS

\* A request has a token from the moment it is verified, one with a sub once it is,
\* and none while authentication is disabled.
Identified ==
    \A r \in Requests :
        /\ pc[r] = "new" => token[r] = NoToken
        /\ pc[r] \in {"check", "asking", "answered"} => ~disabled /\ token[r] \in Tokens
        /\ pc[r] \in {"lookup", "insert"} =>
               IF disabled THEN token[r] = NoToken
                           ELSE token[r] \in Tokens /\ token[r].sub \in Identities

\* No key in the cache, or on its way into it, is dated later than a fetch after the
\* issuer last served it.
KeysDated ==
    /\ \A k \in keys : fetchedAt <= LastServed(k) + FetchTicks
    /\ \A r \in Requests :
           /\ pc[r] \in {"asking", "answered"} => begun[r] <= now /\ now <= begun[r] + FetchTicks
           /\ pc[r] = "answered" => \A k \in answer[r] : begun[r] <= LastServed(k)

\* The unique columns tell the rows apart, the dev user is the only one without a sub,
\* and a served request has found or made a row of its sub.
RowsApart ==
    /\ \A u, v \in users : u.email = v.email \/ u.sub = v.sub => u = v
    /\ \A u \in users : u.sub = Nobody => u.email = Dev
    /\ \A r \in Requests : pc[r] = "served" =>
           \E row \in users : actsAs[r] = {row} /\ (token[r] # NoToken => row.sub = token[r].sub)

\* The inductive invariant.
IInv == TypeOK /\ Identified /\ KeysDated /\ RowsApart
-----------------------------------------------------------------------------
\* What a request would insert is a row.
LEMMA NewRowIsRow ==
  ASSUME TypeOK, Identified, NEW r \in Requests, pc[r] = "insert"
  PROVE  /\ NewRow(r) \in Rows
         /\ NewRow(r).sub = Nobody => NewRow(r).email = Dev
         /\ token[r] # NoToken => NewRow(r).sub = token[r].sub
  BY AuthConstants DEF TypeOK, Identified, NewRow, Rows

\* The initial states satisfy the invariant.
LEMMA InitInv == Init => IInv
  BY AuthConstants
     DEF Init, IInv, TypeOK, Identified, KeysDated, RowsApart, Clock, States, LastServed

\* Every step keeps the types.
LEMMA TypeNext == TypeOK /\ Identified /\ [Next]_vars => TypeOK'
<1> USE AuthConstants DEF Clock, Rows, Final, States
<1> SUFFICES ASSUME TypeOK, Identified, [Next]_vars PROVE TypeOK'
  OBVIOUS
<1>0. CASE UNCHANGED vars
  BY <1>0 DEF TypeOK, vars
<1>1. ASSUME NEW r \in Requests, Begin(r) PROVE TypeOK'
  BY <1>1 DEF TypeOK, Begin, Fail, Goto, issuer, cache, local, fetch
<1>2. ASSUME NEW r \in Requests, CheckToken(r) PROVE TypeOK'
  BY <1>2 DEF TypeOK, CheckToken, Verify, Fail, Goto, issuer, cache
<1>3. ASSUME NEW r \in Requests, AskIssuer(r) PROVE TypeOK'
  BY <1>3 DEF TypeOK, AskIssuer, Goto, issuer, cache
<1>4. ASSUME NEW r \in Requests, IssuerAnswers(r) PROVE TypeOK'
  BY <1>4 DEF TypeOK, IssuerAnswers, Goto, issuer, cache
<1>5. ASSUME NEW r \in Requests, FetchFails(r) PROVE TypeOK'
  BY <1>5 DEF TypeOK, FetchFails, Fail, Goto, issuer, cache
<1>6. ASSUME NEW r \in Requests, ReceiveKeys(r) PROVE TypeOK'
  BY <1>6 DEF TypeOK, ReceiveKeys, Verify, Fail, Goto, issuer
<1>7. ASSUME NEW r \in Requests, LookUp(r) PROVE TypeOK'
  <2>1. Own(r) \in SUBSET Rows
    BY DEF Own, TypeOK
  <2> QED
    BY <1>7, <2>1 DEF TypeOK, LookUp, Goto, issuer, cache, fetch
<1>8. ASSUME NEW r \in Requests, Provision(r) PROVE TypeOK'
  <2>1. NewRow(r) \in Rows
    BY <1>8, NewRowIsRow DEF Provision, Goto
  <2> QED
    BY <1>8, <2>1 DEF TypeOK, Provision, Goto, issuer, cache, fetch
<1>9. ASSUME NEW r \in Requests, ProvisionFails(r) PROVE TypeOK'
  BY <1>9 DEF TypeOK, ProvisionFails, Fail, Goto, issuer, cache
<1>10. CASE Tick
  BY <1>10 DEF TypeOK, Tick, issuer, cache, fetch
<1>11. ASSUME NEW k \in Kids, Withdraw(k) PROVE TypeOK'
  BY <1>11 DEF TypeOK, Withdraw, cache, fetch
<1>12. CASE Restart
  BY <1>12 DEF TypeOK, Restart, issuer, Final
<1> QED
  BY <1>0, <1>1, <1>2, <1>3, <1>4, <1>5, <1>6, <1>7, <1>8, <1>9, <1>10, <1>11, <1>12 DEF Next

\* Every step keeps who presents what.
LEMMA IdentifiedNext == TypeOK /\ Identified /\ [Next]_vars => Identified'
<1> USE AuthConstants DEF TypeOK, States, Final
<1> SUFFICES ASSUME TypeOK, Identified, [Next]_vars PROVE Identified'
  OBVIOUS
<1>0. CASE UNCHANGED vars
  BY <1>0 DEF Identified, vars
<1>1. ASSUME NEW r \in Requests, Begin(r) PROVE Identified'
  BY <1>1 DEF Identified, Begin, Fail, Goto, issuer, cache, local, fetch
<1>2. ASSUME NEW r \in Requests, CheckToken(r) PROVE Identified'
  BY <1>2 DEF Identified, Verified, CheckToken, Verify, Fail, Goto, issuer, cache
<1>3. ASSUME NEW r \in Requests, AskIssuer(r) PROVE Identified'
  BY <1>3 DEF Identified, AskIssuer, Goto, issuer, cache
<1>4. ASSUME NEW r \in Requests, IssuerAnswers(r) PROVE Identified'
  BY <1>4 DEF Identified, IssuerAnswers, Goto, issuer, cache
<1>5. ASSUME NEW r \in Requests, FetchFails(r) PROVE Identified'
  BY <1>5 DEF Identified, FetchFails, Fail, Goto, issuer, cache
<1>6. ASSUME NEW r \in Requests, ReceiveKeys(r) PROVE Identified'
  BY <1>6 DEF Identified, Verified, ReceiveKeys, Verify, Fail, Goto, issuer
<1>7. ASSUME NEW r \in Requests, LookUp(r) PROVE Identified'
  BY <1>7 DEF Identified, LookUp, Goto, issuer, cache, fetch
<1>8. ASSUME NEW r \in Requests, Provision(r) PROVE Identified'
  BY <1>8 DEF Identified, Provision, Goto, issuer, cache, fetch
<1>9. ASSUME NEW r \in Requests, ProvisionFails(r) PROVE Identified'
  BY <1>9 DEF Identified, ProvisionFails, Fail, Goto, issuer, cache
<1>10. CASE Tick
  BY <1>10 DEF Identified, Tick, issuer, cache, fetch
<1>11. ASSUME NEW k \in Kids, Withdraw(k) PROVE Identified'
  BY <1>11 DEF Identified, Withdraw, cache, fetch
<1>12. CASE Restart
  BY <1>12 DEF Identified, Restart, issuer, Final
<1> QED
  BY <1>0, <1>1, <1>2, <1>3, <1>4, <1>5, <1>6, <1>7, <1>8, <1>9, <1>10, <1>11, <1>12 DEF Next

\* The clock and the issuer's last service of a key never move back.
LEMMA ServedLater ==
  ASSUME TypeOK, [Next]_vars
  PROVE  /\ now <= now' /\ now \in Int /\ now' \in Int
         /\ \A k \in Kids : /\ LastServed(k) \in Int /\ LastServed(k)' \in Int
                            /\ LastServed(k) <= LastServed(k)'
<1> USE DEF LastServed, TypeOK, Clock
<1> SUFFICES now' \in Int /\ now <= now' /\ \A k \in Kids :
                 /\ LastServed(k)' \in Int
                 /\ LastServed(k) <= LastServed(k)'
  BY AuthConstants
<1>1. ASSUME published' = published, withdrawn' = withdrawn, now' \in {now, now + 1}
      PROVE  now' \in Int /\ now <= now' /\ \A k \in Kids :
                 LastServed(k)' \in Int /\ LastServed(k) <= LastServed(k)'
  BY <1>1, AuthConstants
<1>2. ASSUME NEW k \in Kids, Withdraw(k)
      PROVE  now' \in Int /\ now <= now' /\ \A q \in Kids :
                 LastServed(q)' \in Int /\ LastServed(q) <= LastServed(q)'
  BY <1>2, AuthConstants DEF Withdraw
<1>3. \/ published' = published /\ withdrawn' = withdrawn /\ now' \in {now, now + 1}
      \/ \E k \in Kids : Withdraw(k)
  BY DEF Next, Begin, CheckToken, AskIssuer, IssuerAnswers, FetchFails, ReceiveKeys, LookUp,
         Provision, ProvisionFails, Tick, Restart, vars, issuer
<1> QED
  BY <1>1, <1>2, <1>3

\* Every step keeps the keys dated.
LEMMA KeysNext == TypeOK /\ TypeOK' /\ KeysDated /\ [Next]_vars => KeysDated'
<1> USE AuthConstants DEF TypeOK, Clock
<1> SUFFICES ASSUME TypeOK, TypeOK', KeysDated, [Next]_vars PROVE KeysDated'
  OBVIOUS
<1>l. /\ now <= now'
      /\ \A k \in Kids : /\ LastServed(k) \in Int /\ LastServed(k)' \in Int
                         /\ LastServed(k) <= LastServed(k)'
  BY ServedLater
<1>0. CASE UNCHANGED vars
  BY <1>0, <1>l DEF KeysDated, vars
<1>1. ASSUME NEW r \in Requests, Begin(r) PROVE KeysDated'
  BY <1>1, <1>l DEF KeysDated, Begin, Fail, Goto, issuer, cache, local, fetch
<1>2. ASSUME NEW r \in Requests, CheckToken(r) PROVE KeysDated'
  BY <1>2, <1>l DEF KeysDated, CheckToken, Verify, Fail, Goto, issuer, cache
<1>3. ASSUME NEW r \in Requests, AskIssuer(r) PROVE KeysDated'
  BY <1>3, <1>l DEF KeysDated, AskIssuer, Goto, issuer, cache, LastServed
<1>4. ASSUME NEW r \in Requests, IssuerAnswers(r) PROVE KeysDated'
  BY <1>4, <1>l DEF KeysDated, IssuerAnswers, Goto, issuer, cache, LastServed
<1>5. ASSUME NEW r \in Requests, FetchFails(r) PROVE KeysDated'
  BY <1>5, <1>l DEF KeysDated, FetchFails, Fail, Goto, issuer, cache
<1>6. ASSUME NEW r \in Requests, ReceiveKeys(r) PROVE KeysDated'
  BY <1>6, <1>l DEF KeysDated, ReceiveKeys, Verify, Fail, Goto, issuer, LastServed
<1>7. ASSUME NEW r \in Requests, LookUp(r) PROVE KeysDated'
  BY <1>7, <1>l DEF KeysDated, LookUp, Goto, issuer, cache, fetch
<1>8. ASSUME NEW r \in Requests, Provision(r) PROVE KeysDated'
  BY <1>8, <1>l DEF KeysDated, Provision, Goto, issuer, cache, fetch
<1>9. ASSUME NEW r \in Requests, ProvisionFails(r) PROVE KeysDated'
  BY <1>9, <1>l DEF KeysDated, ProvisionFails, Fail, Goto, issuer, cache
<1>10. CASE Tick
  BY <1>10, <1>l DEF KeysDated, Tick, issuer, cache, fetch
<1>11. ASSUME NEW k \in Kids, Withdraw(k) PROVE KeysDated'
  BY <1>11, <1>l DEF KeysDated, Withdraw, cache, fetch
<1>12. CASE Restart
  BY <1>12, <1>l DEF KeysDated, Restart, issuer, Final
<1> QED
  BY <1>0, <1>1, <1>2, <1>3, <1>4, <1>5, <1>6, <1>7, <1>8, <1>9, <1>10, <1>11, <1>12 DEF Next

\* Every step keeps the rows apart and the served requests on them.
LEMMA RowsNext == TypeOK /\ Identified /\ RowsApart /\ [Next]_vars => RowsApart'
<1> USE AuthConstants DEF TypeOK
<1> SUFFICES ASSUME TypeOK, Identified, RowsApart, [Next]_vars PROVE RowsApart'
  OBVIOUS
<1>0. CASE UNCHANGED vars
  BY <1>0 DEF RowsApart, vars
<1>1. ASSUME NEW r \in Requests, Begin(r) PROVE RowsApart'
  BY <1>1 DEF RowsApart, Begin, Fail, Goto, issuer, cache, local, fetch
<1>2. ASSUME NEW r \in Requests, CheckToken(r) PROVE RowsApart'
  BY <1>2 DEF RowsApart, CheckToken, Verify, Fail, Goto, issuer, cache
<1>3. ASSUME NEW r \in Requests, AskIssuer(r) PROVE RowsApart'
  BY <1>3 DEF RowsApart, AskIssuer, Goto, issuer, cache
<1>4. ASSUME NEW r \in Requests, IssuerAnswers(r) PROVE RowsApart'
  BY <1>4 DEF RowsApart, IssuerAnswers, Goto, issuer, cache
<1>5. ASSUME NEW r \in Requests, FetchFails(r) PROVE RowsApart'
  BY <1>5 DEF RowsApart, FetchFails, Fail, Goto, issuer, cache
<1>6. ASSUME NEW r \in Requests, ReceiveKeys(r) PROVE RowsApart'
  BY <1>6 DEF RowsApart, ReceiveKeys, Verify, Fail, Goto, issuer
<1>7. ASSUME NEW r \in Requests, LookUp(r) PROVE RowsApart'
  <2>1. users' = users /\ token' = token
    BY <1>7 DEF LookUp, local
  <2>2. \A q \in Requests \ {r} : pc'[q] = pc[q] /\ actsAs'[q] = actsAs[q]
    BY <1>7 DEF LookUp, Goto
  <2>3. ASSUME pc'[r] = "served"
        PROVE  \E row \in users : actsAs'[r] = {row} /\ (token[r] # NoToken => row.sub = token[r].sub)
    <3>1. pc[r] = "lookup" /\ Own(r) # {} /\ actsAs'[r] = Own(r)
      BY <1>7, <2>3 DEF LookUp, Goto
    <3>2. PICK row \in Own(r) : TRUE
      BY <3>1
    <3>3. Own(r) = {row} /\ row \in users
      BY <3>2 DEF Own, RowsApart
    <3>4. token[r] # NoToken => row.sub = token[r].sub
      BY <3>1, <3>2 DEF Own, Identified
    <3> QED
      BY <3>1, <3>3, <3>4
  <2> QED
    BY <2>1, <2>2, <2>3 DEF RowsApart
<1>8. ASSUME NEW r \in Requests, Provision(r) PROVE RowsApart'
  <2> DEFINE row == NewRow(r)
  <2>1. /\ pc[r] = "insert" /\ users' = users \cup {row} /\ token' = token /\ ~Clashes(row)
        /\ actsAs'[r] = {row}
        /\ \A q \in Requests \ {r} : pc'[q] = pc[q] /\ actsAs'[q] = actsAs[q]
    BY <1>8 DEF Provision, Goto
  <2>2. /\ row.sub = Nobody => row.email = Dev
        /\ token[r] # NoToken => row.sub = token[r].sub
    BY <2>1, NewRowIsRow
  <2>3. \A u \in users : u.email # row.email /\ u.sub # row.sub
    BY <2>1, <2>2 DEF Clashes, RowsApart
  <2> HIDE DEF row
  <2>4. /\ \A u, v \in users' : u.email = v.email \/ u.sub = v.sub => u = v
        /\ \A u \in users' : u.sub = Nobody => u.email = Dev
    BY <2>1, <2>2, <2>3 DEF RowsApart
  <2>5. \A q \in Requests : pc'[q] = "served" =>
           \E u \in users' : actsAs'[q] = {u} /\ (token'[q] # NoToken => u.sub = token'[q].sub)
    BY <2>1, <2>2 DEF RowsApart
  <2> QED
    BY <2>4, <2>5 DEF RowsApart
<1>9. ASSUME NEW r \in Requests, ProvisionFails(r) PROVE RowsApart'
  BY <1>9 DEF RowsApart, ProvisionFails, Fail, Goto, issuer, cache
<1>10. CASE Tick
  BY <1>10 DEF RowsApart, Tick, issuer, cache, fetch
<1>11. ASSUME NEW k \in Kids, Withdraw(k) PROVE RowsApart'
  BY <1>11 DEF RowsApart, Withdraw, cache, fetch
<1>12. CASE Restart
  BY <1>12 DEF RowsApart, Restart, issuer, Final
<1> QED
  BY <1>0, <1>1, <1>2, <1>3, <1>4, <1>5, <1>6, <1>7, <1>8, <1>9, <1>10, <1>11, <1>12 DEF Next

\* The invariant is one.
LEMMA Invariant == Spec => []IInv
<1>1. IInv /\ [Next]_vars => IInv'
  BY TypeNext, IdentifiedNext, KeysNext, RowsNext DEF IInv
<1> QED
  BY InitInv, <1>1, PTL DEF Spec
-----------------------------------------------------------------------------
\* Accounts are one each (core/auth.py get_current_user): every served request acts as
\* the only row of its identity, for any number of racing requests.
THEOREM AccountsHold == Spec => []AccountInv
<1>1. IInv => AccountInv
  <2> SUFFICES ASSUME IInv, NEW r \in Requests, pc[r] = "served"
               PROVE  \E row \in users :
                          /\ actsAs[r] = {row}
                          /\ token[r] # NoToken => row.sub = token[r].sub
                          /\ \A u \in users \ {row} : u.email # row.email /\ u.sub # row.sub
    BY DEF AccountInv, OneAccountEach, IInv
  <2> QED
    BY DEF IInv, RowsApart
<1> QED
  BY Invariant, <1>1, PTL

\* A signing key the issuer took back is refused once the TTL and one fetch have passed
\* (core/auth.py JWKSCache), for any TTL and however fetches overtake each other.
THEOREM RevocationHolds == Spec => RevokedKeyExpires
<1> DEFINE Fresh(r) == now <= LastServed(token[r].kid) + Ttl + FetchTicks
<1>1. ASSUME IInv, [Next]_vars, NEW r \in Requests,
             pc[r] \in {"check", "answered"}, pc'[r] = "lookup"
      PROVE  Fresh(r)
  <2> USE AuthConstants, <1>1 DEF IInv, TypeOK, Clock
  <2>1. CASE CheckToken(r)
    <3>1. token[r].kid \in keys /\ now - fetchedAt <= Ttl
      BY <2>1 DEF CheckToken, Usable, Verify, Fail, Goto
    <3>2. fetchedAt <= LastServed(token[r].kid) + FetchTicks
      BY <3>1 DEF KeysDated
    <3> QED
      BY <3>1, <3>2, ServedLater
  <2>2. CASE ReceiveKeys(r)
    <3>1. token[r].kid \in answer[r] /\ pc[r] = "answered"
      BY <2>2 DEF ReceiveKeys, Verify, Verified, Fail, Goto
    <3>2. begun[r] <= LastServed(token[r].kid) /\ now <= begun[r] + FetchTicks
      BY <3>1 DEF KeysDated
    <3>3. token[r].kid \in Kids
      BY <3>1
    <3> QED
      BY <3>2, <3>3, ServedLater
  <2>3. CheckToken(r) \/ ReceiveKeys(r)
    BY DEF Next, Begin, CheckToken, AskIssuer, IssuerAnswers, FetchFails, ReceiveKeys,
                LookUp, Provision, ProvisionFails, Verify, Fail, Goto, Tick, Withdraw,
                Restart, vars, Final
  <2> QED
    BY <2>1, <2>2, <2>3
<1>2. IInv /\ [Next]_vars =>
        [\A r \in Requests : pc[r] \in {"check", "answered"} /\ pc'[r] = "lookup" => Fresh(r)]_vars
  BY <1>1
<1> QED
  BY Invariant, <1>2, PTL DEF Spec, RevokedKeyExpires
=============================================================================
