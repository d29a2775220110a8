-------------------------------- MODULE Auth --------------------------------
(***************************************************************************)
(* Who is calling (backend/core/auth.py): a bearer token is verified with  *)
(* a signing key from the in-process cache of the issuer's key set, and    *)
(* the first verified token of an identity creates its user row.  Requests *)
(* interleave at every await: several may be fetching the key set, or      *)
(* creating a row, at once.  With authentication disabled every request    *)
(* acts as the one dev user.                                               *)
(***************************************************************************)
EXTENDS Integers, FiniteSets

CONSTANTS Requests,
          Kids,          \* the issuer's signing keys, as kid's
          Forged,        \* a kid the issuer never had
          Identities,    \* the tokens' sub claims
          Nobody,        \* no sub claim; external_auth_id is NULL
          Addresses,     \* e-mail addresses
          Email,         \* the email claim of an identity, or its stand-in
          Dev,           \* _DEV_USER_EMAIL
          Tokens,        \* the tokens callers present
          NoToken,       \* no token read yet
          Ttl,           \* _JWKS_TTL_SECONDS
          FetchTicks,    \* bound: the longest a fetch of the key set takes
          LastTick       \* bound: how long the clock runs

ASSUME AuthConstants ==
    /\ Ttl \in Nat /\ FetchTicks \in Nat /\ LastTick \in Nat
    /\ Email \in [Identities -> Addresses]
    /\ Dev \notin Addresses
    /\ Nobody \notin Identities
    /\ Forged \notin Kids
    /\ Tokens \subseteq [kid : Kids \cup {Forged}, genuine : BOOLEAN,
                         sub : Identities \cup {Nobody}]
    /\ NoToken \notin Tokens

VARIABLES disabled,    \* settings.auth_mode = "disabled"
          now,         \* time.monotonic()
          published,   \* the keys the issuer serves
          withdrawn,   \* history: when the issuer last served a key it serves no more
          keys,        \* _jwks._keys
          fetchedAt,   \* _jwks._fetched_at
          users,       \* the committed rows
          pc,
          token,       \* what the request presented
          begun,       \* when its fetch of the key set began
          answer,      \* the key set the issuer answered it with
          actsAs       \* current user, {} before there is one

issuer == <<published, withdrawn>>
cache  == <<keys, fetchedAt>>
fetch  == <<begun, answer>>
local  == <<token, begun, answer, actsAs>>
vars   == <<disabled, now, published, withdrawn, keys, fetchedAt, users,
            pc, token, begun, answer, actsAs>>

Clock  == 0 .. LastTick
Rows   == [sub : Identities \cup {Nobody}, email : Addresses \cup {Dev}, plan : {"free", "pro"}]
Final  == {"served", "rejected", "error", "lost"}
States == {"new", "check", "asking", "answered", "lookup", "insert"} \cup Final

TypeOK == /\ disabled \in BOOLEAN
          /\ now \in Clock
          /\ published \subseteq Kids
          /\ withdrawn \in [Kids -> Clock]
          /\ keys \subseteq Kids
          /\ fetchedAt \in Clock
          /\ users \subseteq Rows
          /\ pc \in [Requests -> States]
          /\ token \in [Requests -> Tokens \cup {NoToken}]
          /\ begun \in [Requests -> Clock]
          /\ answer \in [Requests -> SUBSET Kids]
          /\ actsAs \in [Requests -> SUBSET Rows]

Init == /\ disabled \in BOOLEAN
        /\ now = 0
        /\ published \in SUBSET Kids
        /\ withdrawn = [k \in Kids |-> 0]
        /\ keys = {} /\ fetchedAt = 0
        /\ users = {}
        /\ pc = [r \in Requests |-> "new"]
        /\ token = [r \in Requests |-> NoToken]
        /\ begun = [r \in Requests |-> 0]
        /\ answer = [r \in Requests |-> {}]
        /\ actsAs = [r \in Requests |-> {}]

Goto(r, from, to) == pc[r] = from /\ pc' = [pc EXCEPT ![r] = to]

\* The row this request would insert.
NewRow(r) ==
    IF disabled THEN [sub |-> Nobody, email |-> Dev, plan |-> "pro"]
                ELSE [sub |-> token[r].sub, email |-> Email[token[r].sub], plan |-> "free"]

\* Plausible bugs, each a variant of the operator that follows it.
Usable_NoTtl(kid) == kid \in keys
Own_ByEmail(r)    == {u \in users : u.email = NewRow(r).email}

\* get_key serves from the cache a kid that is there and not older than the TTL.
Usable(kid) == kid \in keys /\ now - fetchedAt <= Ttl

\* The user the request is: found by the sub claim, the dev user by its address.
Own(r) == {u \in users : IF disabled THEN u.email = Dev ELSE u.sub = token[r].sub}

\* Both columns are unique; NULLs never clash.
Clashes(row) == \E u \in users : u.email = row.email \/ (u.sub = row.sub /\ row.sub # Nobody)

\* A request answered with an error leaves nothing behind.
Fail(r, from, to) ==
    /\ Goto(r, from, to)
    /\ token' = [token EXCEPT ![r] = NoToken]
    /\ begun' = [begun EXCEPT ![r] = 0]
    /\ answer' = [answer EXCEPT ![r] = {}]
    /\ UNCHANGED actsAs
-----------------------------------------------------------------------------
(* The token.                                                              *)

\* The Authorization header is read, or there is no bearer token in it: 401.
Begin(r) ==
    /\ \/ disabled /\ Goto(r, "new", "lookup") /\ UNCHANGED local
       \/ /\ ~disabled /\ Goto(r, "new", "check")
          /\ \E t \in Tokens : token' = [token EXCEPT ![r] = t]
          /\ UNCHANGED <<fetch, actsAs>>
       \/ ~disabled /\ Fail(r, "new", "rejected")
    /\ UNCHANGED <<disabled, now, issuer, cache, users>>

\* Signature, expiry, issuer, party and subject, against the keys in ks.
Verified(r, ks) == token[r].kid \in ks /\ token[r].genuine /\ token[r].sub # Nobody

\* With the keys then in the cache: no await until the session is asked.
Verify(r, from, ks) ==
    /\ pc[r] = from
    /\ \/ /\ Verified(r, ks)
          /\ Goto(r, from, "lookup")
          /\ begun' = [begun EXCEPT ![r] = 0]
          /\ answer' = [answer EXCEPT ![r] = {}]
          /\ UNCHANGED <<token, actsAs>>
       \/ ~Verified(r, ks) /\ Fail(r, from, "rejected")

CheckToken(r) ==
    /\ Verify(r, "check", keys)
    /\ Usable(token[r].kid)
    /\ UNCHANGED <<disabled, now, issuer, cache, users>>

\* An unknown kid or an old cache: _refresh asks the issuer, whoever else is asking.
AskIssuer(r) ==
    /\ Goto(r, "check", "asking")
    /\ ~Usable(token[r].kid)
    /\ begun' = [begun EXCEPT ![r] = now]
    /\ UNCHANGED <<disabled, now, issuer, cache, users, token, answer, actsAs>>

IssuerAnswers(r) ==
    /\ Goto(r, "asking", "answered")
    /\ answer' = [answer EXCEPT ![r] = published]
    /\ UNCHANGED <<disabled, now, issuer, cache, users, token, begun, actsAs>>

\* Timeout, refused connection or error status: only PyJWTError and HTTPException
\* are handled, so it is a 500, also when the cache holds the key.
FetchFails(r) ==
    /\ Fail(r, "asking", "error")
    /\ UNCHANGED <<disabled, now, issuer, cache, users>>

\* The answer replaces the cache, dated now, also one that a later answer overtook.
ReceiveKeys(r) ==
    /\ Verify(r, "answered", answer[r])
    /\ keys' = answer[r]
    /\ fetchedAt' = now
    /\ UNCHANGED <<disabled, now, issuer, users>>
-----------------------------------------------------------------------------
(* The user row.                                                           *)

LookUp(r) ==
    /\ \E to \in {"insert", "served"} : Goto(r, "lookup", to) /\ (to = "insert" <=> Own(r) = {})
    /\ actsAs' = [actsAs EXCEPT ![r] = Own(r)]
    /\ UNCHANGED <<disabled, now, issuer, cache, users, token, fetch>>

\* INSERT and COMMIT.
Provision(r) ==
    /\ Goto(r, "insert", "served")
    /\ ~Clashes(NewRow(r))
    /\ users' = users \cup {NewRow(r)}
    /\ actsAs' = [actsAs EXCEPT ![r] = {NewRow(r)}]
    /\ UNCHANGED <<disabled, now, issuer, cache, token, fetch>>

\* IntegrityError, not caught: another request inserted the row meanwhile, or
\* another identity has the address.
ProvisionFails(r) ==
    /\ Fail(r, "insert", "error")
    /\ Clashes(NewRow(r))
    /\ UNCHANGED <<disabled, now, issuer, cache, users>>
-----------------------------------------------------------------------------
(* The rest of the world.                                                  *)

\* A fetch never outlives its bound.
Tick ==
    /\ now < LastTick
    /\ \A r \in Requests : pc[r] \in {"asking", "answered"} => now < begun[r] + FetchTicks
    /\ now' = now + 1
    /\ UNCHANGED <<disabled, issuer, cache, users, pc, token, fetch, actsAs>>

\* The issuer rotates its keys; a kid is never used again.
Withdraw(k) ==
    /\ k \in published
    /\ published' = published \ {k}
    /\ withdrawn' = [withdrawn EXCEPT ![k] = now]
    /\ UNCHANGED <<disabled, now, cache, users, pc, token, fetch, actsAs>>

\* The process restarts, perhaps in the other mode: the cache starts empty, the
\* open requests are lost, the rows stay.
Restart ==
    /\ disabled' \in BOOLEAN
    /\ keys' = {} /\ fetchedAt' = 0
    /\ pc' = [r \in Requests |-> IF pc[r] \in Final \cup {"new"} THEN pc[r] ELSE "lost"]
    /\ token' = [r \in Requests |-> IF pc[r] = "served" THEN token[r] ELSE NoToken]
    /\ begun' = [r \in Requests |-> 0]
    /\ answer' = [r \in Requests |-> {}]
    /\ UNCHANGED <<now, issuer, users, actsAs>>

Next == \/ \E r \in Requests :
               \/ Begin(r) \/ CheckToken(r)
               \/ AskIssuer(r) \/ IssuerAnswers(r) \/ FetchFails(r) \/ ReceiveKeys(r)
               \/ LookUp(r) \/ Provision(r) \/ ProvisionFails(r)
        \/ \E k \in Kids : Withdraw(k)
        \/ Tick \/ Restart

Spec == Init /\ [][Next]_vars
-----------------------------------------------------------------------------
(* Properties.                                                             *)

LastServed(k) == IF k \in published THEN now ELSE withdrawn[k]

\* A key the issuer took back is refused once the TTL and one fetch have passed,
\* however the fetches of concurrent requests overtake each other: when a signature
\* is accepted, the issuer has served its key that recently.
RevokedKeyExpires ==
    [][\A r \in Requests : pc[r] \in {"check", "answered"} /\ pc'[r] = "lookup" =>
           now <= LastServed(token[r].kid) + Ttl + FetchTicks]_vars

\* One identity is one account, and two identities are two: whatever races to
\* create the row, a served request acts as the only committed row of its own
\* sub, committed before the request goes on ("tools and the SSE stream read
\* through their own sessions").
OneAccountEach ==
    \A r \in Requests : pc[r] = "served" =>
        \E row \in users :
            /\ actsAs[r] = {row}
            /\ token[r] # NoToken => row.sub = token[r].sub
            /\ \A u \in users \ {row} : u.email # row.email /\ u.sub # row.sub

\* Cache, requests and accounts are well formed, and accounts are one each.
AccountInv == TypeOK /\ OneAccountEach
=============================================================================
