--------------------------- MODULE AccountsProofs ---------------------------
(***************************************************************************)
(* The properties of Accounts and of the sessions in it, for any number of *)
(* users, addresses and requests and any budget.                           *)
(***************************************************************************)
EXTENDS Accounts, TLAPS

Busy(r) == pc[r] \notin {"idle", "done"}

\* A user that exists or has been deleted: ids are not used twice.
Known(u) == user[u] # None \/ u \in gone

\* A code made for u was delivered.
Reached(u) == \E r \in mailed : who[r] = u

\* The request has a copy of a user document that it will sign.
Holds(r) == pc[r] \in {"rotate", "issue"} \/ (pc[r] = "social_write" /\ doc[r] # None)

\* A password that went with version v of u: an earlier version, or the present password.
Went(v, password, u) ==
  user[u] # None =>
    \/ v < user[u].version
    \/ v = user[u].version /\ password = user[u].password

-----------------------------------------------------------------------------
\* What a request holds at each of its awaits.
Contexts ==
  \A r \in Requests :
    /\ Busy(r) => who[r] \in Users
    /\ pc[r] = "insert_user" => who[r] = r /\ doc[r] \in UserDoc /\ doc[r] = Draft(r, doc[r].address)
    /\ pc[r] = "social_write" => who[r] \in Social /\ session[r] # None /\ spent[r] = None
    /\ pc[r] \in {"rotate", "issue"} => doc[r] # None /\ session[r] # None
    /\ pc[r] = "read_user" => session[r] # None
    /\ pc[r] \in {"read_user", "rotate", "expire"} => spent[r] # None

\* A token, a mail or an account bears the name of a request that has made it.
Names ==
  /\ \A t \in Requests : token[t] # None => pc[t] = "done"
  /\ \A t \in Requests : token[t] # None /\ token[t].parent # None => pc[token[t].parent] = "done"
  /\ \A r \in Requests : spent[r] # None => pc[spent[r]] = "done"
  /\ \A r \in mailed : pc[r] = "done"
  /\ \A r \in Requests : Known(r) => pc[r] \notin {"idle", "insert_user"}
  /\ \A u \in Users : user[u] # None =>
       \A r \in Requests : r \in {user[u].password, user[u].code, user[u].recovery}
         => who[r] = u /\ pc[r] # "idle"

\* Spending comes before issuing; a request that is alone exchanges a token that
\* has no successor.
Unexchanged(t) == \A s \in Requests : token[s] # None => token[s].parent # t
Spending ==
  /\ ExchangedTokensAreDead
  /\ \A r \in Requests : pc[r] = "issue" /\ spent[r] # None => ~Live(spent[r])
  /\ "overlap" \notin faults =>
       \A r \in Requests : pc[r] \in {"read_user", "rotate", "issue"} /\ spent[r] # None => Unexchanged(spent[r])

\* Sessions are of users that exist or have existed.
Referents ==
  /\ \A a \in access : Known(a.user)
  /\ \A t \in Requests : token[t] # None => Known(token[t].user)
  /\ \A r \in Requests :
       Holds(r) \/ pc[r] \in {"read_user", "delete_tokens", "delete_stores", "delete_user"} => Known(who[r])

\* No two passwords have gone with one version.
Versions ==
  /\ \A a \in access : Went(a.version, a.password, a.user)
  /\ \A r \in Requests : Holds(r) => Went(doc[r].version, doc[r].password, who[r])

\* Whoever is verified, or has a session, has received a code.
Evidence ==
  /\ \A u \in Requests : user[u] # None /\ user[u].verified => Reached(u)
  /\ \A r \in Requests :
       pc[r] \in {"read_user", "rotate", "issue", "write_verified"} /\ who[r] \in Requests => Reached(who[r])
  /\ \A a \in access : a.user \in Requests => Reached(a.user)
  /\ \A t \in Requests : token[t] # None /\ token[t].user \in Requests => Reached(token[t].user)

\* One request at a time, if requests do not overlap.
Alone == "overlap" \notin faults => \A q, r \in Requests : Busy(q) /\ Busy(r) => q = r

\* ... so nothing is added to what a deletion has deleted.
Purges ==
  "overlap" \notin faults =>
    /\ \A t \in Requests : token[t] # None => token[t].user \notin gone
    /\ owners \cap gone = {}
    /\ \A u \in Users : user[u] # None => u \notin gone
    /\ \A r \in Requests :
         pc[r] \in {"social_write", "read_user", "rotate", "issue", "insert_store"} => who[r] \notin gone
    /\ \A r \in Requests : pc[r] \in {"delete_stores", "delete_user"} =>
         \A t \in Requests : token[t] # None => token[t].user # who[r]
    /\ \A r \in Requests : pc[r] = "delete_user" => who[r] \notin owners

\* ... and, if they do not fail either, a session goes on with the password that opened it.
Resets ==
  faults = {} =>
    /\ ResetEndsSessions
    /\ \A r \in Requests : pc[r] \in {"read_user", "rotate", "issue"} /\ who[r] \in Local /\ user[who[r]] # None
         => session[r] = user[who[r]].password

IInv ==
  /\ TypeOK /\ Contexts /\ Names /\ Spending /\ Referents /\ Versions /\ Evidence
  /\ OneAccountPerAddress /\ Alone /\ Purges /\ Resets

-----------------------------------------------------------------------------
\* What a request that begins may hold.
Fits(r, u, d, t, opened, label) ==
  /\ label \in {"insert_user", "store_email_code", "write_verified", "social_write", "issue", "read_user",
                "expire", "revoke_family", "store_code", "change_password", "insert_store", "delete_tokens"}
  /\ label = "insert_user" => u = r /\ d \in UserDoc /\ d = Draft(r, d.address)
  /\ label = "social_write" => u \in Social /\ d = user[u] /\ t = None /\ opened # None
  /\ label = "issue" => d = user[u] /\ d # None /\ t = None /\ opened # None
  /\ label = "read_user" => opened # None
  /\ label \in {"read_user", "expire"} => t # None
  /\ label = "read_user" => Live(t)
  /\ t # None => pc[t] = "done"
  /\ label \in {"issue", "read_user", "delete_tokens"} => Known(u)
  /\ label \in {"issue", "read_user", "write_verified"} /\ u \in Requests => Reached(u)
  /\ "overlap" \notin faults /\ label \in {"social_write", "issue", "read_user", "insert_store"} => u \notin gone
  /\ faults = {} /\ label \in {"issue", "read_user"} /\ u \in Local /\ user[u] # None
       => opened = user[u].password

\* A request that begins with what it may hold keeps the invariant.
LEMMA BeginKeeps ==
  ASSUME IInv, UNCHANGED owners,
         NEW r \in Requests, NEW u \in Users, NEW d \in UserDoc \cup {None}, NEW t \in Requests \cup {None},
         NEW opened \in Passwords \cup {None}, NEW label, Fits(r, u, d, t, opened, label),
         Begin(r, u, d, t, opened, label)
  PROVE  IInv'
<1> USE SessionsAssumption
<1>1. /\ pc[r] = "idle"
      /\ pc' = [pc EXCEPT ![r] = label]
      /\ who' = [who EXCEPT ![r] = u]
      /\ doc' = [doc EXCEPT ![r] = d]
      /\ spent' = [spent EXCEPT ![r] = t]
      /\ session' = [session EXCEPT ![r] = opened]
      /\ UNCHANGED <<faults, user, gone, token, mailed, access, owners>>
      /\ label \in PC \ {"idle", "done", "rotate", "delete_stores", "delete_user", "revoke_sessions"}
  BY DEF Begin, Idle, Goto, database, Fits, PC
<1>2. TypeOK
  BY DEF IInv
<1>3. TypeOK'
  BY <1>1, <1>2 DEF TypeOK
<1>4. Contexts'
  BY <1>1, <1>2 DEF IInv, TypeOK, Contexts, Busy, Fits
<1>5. Names'
  BY <1>1, <1>2 DEF IInv, TypeOK, Names, Known, Fits
<1>6. Spending'
  BY <1>1, <1>2 DEF IInv, TypeOK, Spending, Unexchanged, ExchangedTokensAreDead, Live, Fits
<1>7. Referents'
  BY <1>1, <1>2 DEF IInv, TypeOK, Referents, Holds, Known, Fits
<1>8. Versions'
  BY <1>1, <1>2 DEF IInv, TypeOK, Versions, Holds, Went, Fits
<1>9. \A w : Reached(w) => Reached(w)'
  BY <1>1, <1>2 DEF IInv, TypeOK, Reached, Names
<1>10. Evidence'
  BY <1>1, <1>2, <1>9 DEF IInv, TypeOK, Evidence, Fits
<1>11. OneAccountPerAddress'
  BY <1>1 DEF IInv, OneAccountPerAddress
<1>12. Alone'
  BY <1>1 DEF IInv, TypeOK, Alone, Busy, Begin, Idle
<1>13. Purges'
  BY <1>1, <1>2 DEF IInv, TypeOK, Purges, Fits
<1>14. Resets'
  BY <1>1, <1>2 DEF IInv, TypeOK, Resets, ResetEndsSessions, LiveOf, Live, Fits
<1> QED
  BY <1>3, <1>4, <1>5, <1>6, <1>7, <1>8, <1>10, <1>11, <1>12, <1>13, <1>14 DEF IInv

-----------------------------------------------------------------------------
\* Tokens only fade: they are revoked, expire or disappear.
Fade ==
  /\ token' \in [Requests -> Token \cup {None}]
  /\ \A t \in Requests : token'[t] # None =>
       /\ token[t] # None
       /\ token'[t].user = token[t].user
       /\ token'[t].parent = token[t].parent
       /\ token'[t].session = token[t].session
       /\ token[t].revoked => token'[t].revoked

\* A token that is revoked or expires keeps the rest.
LEMMA FadedToken ==
  ASSUME NEW k \in Token, NEW f \in {[k EXCEPT !.revoked = TRUE], [k EXCEPT !.expired = TRUE]}
  PROVE  /\ f \in Token /\ f # None
         /\ f.user = k.user /\ f.parent = k.parent /\ f.session = k.session
         /\ k.revoked => f.revoked
BY SessionsAssumption DEF Token

\* Some tokens are revoked, expire or disappear.
LEMMA SomeFade ==
  ASSUME TypeOK,
         token' = [t \in Requests |-> token'[t]],
         \A t \in Requests : token'[t] # token[t] =>
           /\ token[t] # None
           /\ token'[t] \in {None, [token[t] EXCEPT !.revoked = TRUE], [token[t] EXCEPT !.expired = TRUE]}
  PROVE  Fade
<1>1. ASSUME NEW t \in Requests, token'[t] # None
      PROVE  /\ token'[t] \in Token /\ token[t] # None
             /\ token'[t].user = token[t].user
             /\ token'[t].parent = token[t].parent
             /\ token'[t].session = token[t].session
             /\ token[t].revoked => token'[t].revoked
  <2>1. CASE token'[t] = token[t]
    BY <1>1, <2>1 DEF TypeOK
  <2>2. CASE token'[t] # token[t]
    <3>1. token[t] \in Token
      BY <2>2 DEF TypeOK
    <3>2. token'[t] \in {[token[t] EXCEPT !.revoked = TRUE], [token[t] EXCEPT !.expired = TRUE]}
      BY <1>1, <2>2
    <3> QED
      BY <2>2, <3>1, <3>2, FadedToken
  <2> QED
    BY <2>1, <2>2
<1>2. token' \in [Requests -> Token \cup {None}]
  BY <1>1
<1> QED
  BY <1>1, <1>2 DEF Fade

\* How a request goes on that signs nothing and writes no user: tokens fade, a mail
\* is delivered, a store comes or goes.
GoesOn(r, label) ==
  \/ label = pc[r] /\ UNCHANGED <<mailed, owners>>
  \/ /\ Busy(r) /\ label = "done" /\ mailed' \in {mailed, mailed \cup {r}} /\ UNCHANGED owners
     /\ pc[r] = "revoke_sessions" => faults # {} \/ LiveOf(who[r])' = {}
  \/ pc[r] = "rotate" /\ label = "issue" /\ ~Live(spent[r])' /\ UNCHANGED <<mailed, owners>>
  \/ pc[r] = "insert_store" /\ label = "done" /\ owners' = owners \cup {who[r]} /\ UNCHANGED mailed
  \/ /\ pc[r] = "delete_tokens" /\ label = "delete_stores" /\ UNCHANGED <<mailed, owners>>
     /\ \A t \in Requests : token'[t] # None => token'[t].user # who[r]
  \/ pc[r] = "delete_stores" /\ label = "delete_user" /\ owners' = owners \ {who[r]} /\ UNCHANGED mailed

\* Such a step keeps the invariant.
LEMMA GoesOnKeeps ==
  ASSUME IInv, UNCHANGED <<faults, user, gone, access, doc, context>>, Fade,
         NEW r \in Requests, NEW label \in PC, GoesOn(r, label), pc' = [pc EXCEPT ![r] = label]
  PROVE  IInv'
<1> USE SessionsAssumption DEF context
<1>1. TypeOK
  BY DEF IInv
<1>2. TypeOK'
  BY <1>1 DEF IInv, TypeOK, Fade, GoesOn, Contexts, Busy
<1>3. Contexts'
  BY <1>1 DEF IInv, TypeOK, Contexts, Busy, GoesOn
<1>4. Names'
  BY <1>1 DEF IInv, TypeOK, Names, Known, Fade, GoesOn, Busy
<1>5. Spending'
  <2>1. \A t \in Requests : Live(t)' => Live(t)
    BY DEF Live, Fade
  <2>2. ExchangedTokensAreDead'
    BY <1>1, <2>1 DEF IInv, TypeOK, Spending, ExchangedTokensAreDead, Fade, Token
  <2>3. ASSUME NEW q \in Requests, pc'[q] = "issue", spent'[q] # None PROVE ~Live(spent[q])'
    BY <1>1, <2>1, <2>3 DEF IInv, TypeOK, Spending, GoesOn
  <2>4. ASSUME "overlap" \notin faults', NEW q \in Requests,
               pc'[q] \in {"read_user", "rotate", "issue"}, spent'[q] # None
        PROVE  Unexchanged(spent[q])'
    <3>1. pc[q] \in {"read_user", "rotate", "issue"}
      BY <1>1, <2>4 DEF TypeOK, GoesOn
    <3> QED
      BY <2>4, <3>1 DEF IInv, Spending, Unexchanged, Fade
  <2> QED
    BY <2>2, <2>3, <2>4 DEF Spending
<1>6. Referents'
  BY <1>1 DEF IInv, TypeOK, Referents, Holds, Known, Fade, GoesOn
<1>7. Versions'
  BY <1>1 DEF IInv, TypeOK, Versions, Holds, Went, GoesOn
<1>8. \A w : Reached(w) => Reached(w)'
  BY DEF Reached, GoesOn
<1>9. Evidence'
  BY <1>1, <1>8 DEF IInv, TypeOK, Evidence, Fade, GoesOn
<1>10. OneAccountPerAddress'
  BY DEF IInv, OneAccountPerAddress
<1>11. Alone'
  BY <1>1 DEF IInv, TypeOK, Alone, Busy, GoesOn
<1>12. Purges'
  BY <1>1 DEF IInv, TypeOK, Purges, Fade, GoesOn, Alone, Busy
<1>13. Resets'
  BY <1>1 DEF IInv, TypeOK, Resets, ResetEndsSessions, LiveOf, Live, Fade, GoesOn
<1> QED
  BY <1>2, <1>3, <1>4, <1>5, <1>6, <1>7, <1>9, <1>10, <1>11, <1>12, <1>13 DEF IInv

\* What a request may make of the user it works for.
Edits(r, d, label) ==
  LET old == user[who[r]] IN
  /\ d \in UserDoc
  /\ d.address = old.address
  /\ d.version \in {old.version, old.version + 1}
  /\ \/ d.password = old.password
     \/ d.password = r /\ d.version = old.version + 1 /\ label = "revoke_sessions"
  /\ d.code \in {old.code, r, None} /\ d.recovery \in {old.recovery, r, None}
  /\ d.verified => old.verified \/ (who[r] \in Requests => Reached(who[r]))

\* A write to the user keeps the invariant.
LEMMA WriteKeeps ==
  ASSUME IInv, UNCHANGED <<faults, other, token, access, doc, context, owners>>,
         NEW r \in Requests, Busy(r), pc[r] # "insert_user",
         NEW label \in {"mail_email_code", "mail_recovery", "revoke_sessions", "done"},
         pc[r] # "revoke_sessions", pc' = [pc EXCEPT ![r] = label],
         NEW d, Write(r, d), user[who[r]] # None => Edits(r, d, label)
  PROVE  IInv'
<1> USE SessionsAssumption DEF other, context
<1>1. TypeOK /\ who[r] \in Users /\ label \in PC
  BY DEF IInv, Contexts, PC
<1>2. /\ user' \in [Users -> UserDoc \cup {None}]
      /\ \A u \in Users : u # who[r] => user'[u] = user[u]
      /\ user[who[r]] # None => user'[who[r]] = d /\ d # None
      /\ user[who[r]] = None => user' = user
      /\ \A u \in Users : user'[u] # None <=> user[u] # None
  BY <1>1 DEF TypeOK, Write, Target, Edits
<1>3. TypeOK'
  BY <1>1, <1>2 DEF TypeOK
<1>4. Contexts'
  BY <1>1 DEF IInv, TypeOK, Contexts, Busy
<1>5. Names'
  BY <1>1, <1>2 DEF IInv, TypeOK, Names, Known, Edits, Busy, Users, Local
<1>6. Spending'
  BY <1>1 DEF IInv, TypeOK, Spending, Unexchanged, ExchangedTokensAreDead, Live
<1>7. \A u \in Users : Known(u) => Known(u)'
  BY <1>2 DEF Known
<1>8. Referents'
  BY <1>1, <1>7 DEF IInv, TypeOK, Referents, Holds, AccessToken, Token, Contexts, Busy
<1>9. ASSUME NEW u \in Users, NEW v \in Nat, NEW password, Went(v, password, u) PROVE Went(v, password, u)'
  BY <1>1, <1>2, <1>9 DEF TypeOK, Went, Edits, UserDoc
<1>10. Versions'
  <2>1. \A a \in access : a.user \in Users /\ a.version \in Nat
    BY <1>1 DEF TypeOK, AccessToken
  <2>2. \A q \in Requests : Holds(q)' => Holds(q) /\ who[q] \in Users /\ doc[q].version \in Nat
    BY <1>1 DEF IInv, TypeOK, Holds, Contexts, Busy, UserDoc
  <2> QED
    BY <1>9, <2>1, <2>2 DEF IInv, Versions
<1>11. \A w : Reached(w) => Reached(w)'
  BY DEF Reached
<1>12. Evidence'
  <2>1. \A u \in Requests : user'[u] # None /\ user'[u].verified => Reached(u)
    BY <1>1, <1>2 DEF IInv, Evidence, Edits, Users, Local
  <2>2. \A q \in Requests : pc'[q] \in {"read_user", "rotate", "issue", "write_verified"} => pc'[q] = pc[q]
    BY <1>1 DEF TypeOK
  <2> QED
    BY <1>1, <1>11, <2>1, <2>2 DEF IInv, Evidence
<1>13. OneAccountPerAddress'
  BY <1>1, <1>2 DEF IInv, OneAccountPerAddress, Edits, Users
<1>14. Alone'
  BY <1>1 DEF IInv, TypeOK, Alone, Busy
<1>15. Purges'
  BY <1>1, <1>2 DEF IInv, TypeOK, Purges
<1>16. Resets'
  BY <1>1, <1>2 DEF IInv, TypeOK, Resets, ResetEndsSessions, LiveOf, Live, Edits, Alone, Busy, Users
<1> QED
  BY <1>3, <1>4, <1>5, <1>6, <1>8, <1>10, <1>12, <1>13, <1>14, <1>15, <1>16 DEF IInv

-----------------------------------------------------------------------------
\* ReadUser(r) keeps the invariant.
LEMMA ReadUserKeeps ==
  ASSUME IInv, NEW r \in Requests, ReadUser(r), UNCHANGED owners
  PROVE  IInv'
<1> USE SessionsAssumption
<1> DEFINE u == who[r]
           label == IF user[u] = None THEN "done" ELSE "rotate"
<1>1. /\ pc[r] = "read_user"
      /\ pc' = [pc EXCEPT ![r] = label]
      /\ doc' = [doc EXCEPT ![r] = user[u]]
      /\ UNCHANGED <<faults, user, gone, token, mailed, access, who, spent, session, owners>>
      /\ TypeOK /\ u \in Users /\ label \in PC
  BY DEF ReadUser, Goto, database, context, IInv, Contexts, Busy, PC
<1>2. TypeOK'
  BY <1>1 DEF TypeOK
<1>3. Contexts'
  BY <1>1 DEF IInv, TypeOK, Contexts, Busy
<1>4. Names'
  BY <1>1 DEF IInv, TypeOK, Names, Known
<1>5. Spending'
  BY <1>1 DEF IInv, TypeOK, Spending, Unexchanged, ExchangedTokensAreDead, Live
<1>6. Referents'
  BY <1>1 DEF IInv, TypeOK, Referents, Holds, Known
<1>7. Versions'
  BY <1>1 DEF IInv, TypeOK, Versions, Holds, Went
<1>8. Evidence'
  BY <1>1 DEF IInv, TypeOK, Evidence, Reached
<1>9. OneAccountPerAddress'
  BY <1>1 DEF IInv, OneAccountPerAddress
<1>10. Alone'
  BY <1>1 DEF IInv, TypeOK, Alone, Busy
<1>11. Purges'
  BY <1>1 DEF IInv, TypeOK, Purges
<1>12. Resets'
  BY <1>1 DEF IInv, TypeOK, Resets, ResetEndsSessions, LiveOf, Live
<1> QED
  BY <1>2, <1>3, <1>4, <1>5, <1>6, <1>7, <1>8, <1>9, <1>10, <1>11, <1>12 DEF IInv

\* Issue(r) keeps the invariant: the token it presented is dead, and the document
\* it signs says which password went with the version.
LEMMA IssueKeeps ==
  ASSUME IInv, NEW r \in Requests, Issue(r), UNCHANGED owners
  PROVE  IInv'
<1> USE SessionsAssumption
<1> DEFINE new == [user |-> who[r], parent |-> spent[r], session |-> session[r], revoked |-> FALSE, expired |-> FALSE]
           signed == [user |-> who[r], version |-> doc[r].version, password |-> doc[r].password]
<1>1. /\ pc[r] = "issue"
      /\ pc' = [pc EXCEPT ![r] = "done"]
      /\ token' = [token EXCEPT ![r] = new]
      /\ access' = access \cup {signed}
      /\ UNCHANGED <<faults, user, gone, mailed, doc, who, spent, session, owners>>
      /\ TypeOK /\ who[r] \in Users /\ "done" \in PC
      /\ doc[r] \in UserDoc /\ session[r] \in Passwords /\ spent[r] \in Requests \cup {None}
      /\ r # None
  BY DEF Issue, Goto, other, context, IInv, TypeOK, Contexts, Busy, PC, Users, Local
<1>2. new \in Token /\ new # None /\ signed \in AccessToken
  <2>1. new \in Token
    BY <1>1 DEF Token
  <2>2. signed \in AccessToken
    BY <1>1 DEF AccessToken, UserDoc
  <2> QED
    BY <2>1, <2>2
<1>3. TypeOK'
  BY <1>1, <1>2 DEF TypeOK
<1>4. Contexts'
  BY <1>1 DEF IInv, TypeOK, Contexts, Busy
<1>5. Names'
  BY <1>1, <1>2 DEF IInv, TypeOK, Names, Known
<1>6. Spending'
  <2>1. \A t \in Requests : t # r => Live(t)' = Live(t)
    BY <1>1 DEF TypeOK, Live
  <2>2. \A t \in Requests : spent[t] # r
    BY <1>1 DEF IInv, Names
  <2>3. \A t \in Requests : token[t] # None => token[t].parent # r
    BY <1>1 DEF IInv, Names, TypeOK
  <2>4. ExchangedTokensAreDead'
    <3>1. ASSUME NEW t \in Requests, token'[t] # None, token'[t].parent # None PROVE ~Live(token[t].parent)'
      BY <1>1, <2>1, <2>2, <2>3, <3>1 DEF IInv, TypeOK, Spending, ExchangedTokensAreDead, Token
    <3>2. ASSUME "overlap" \notin faults', NEW t \in Requests, NEW s \in Requests, token'[t] # None,
                 token'[t].parent # None, token'[s] # None, token'[s].parent = token'[t].parent
          PROVE  s = t
      <4>1. spent[r] # None => Unexchanged(spent[r])
        BY <1>1, <3>2 DEF IInv, Spending
      <4>2. token'[r].parent = spent[r] /\ \A q \in Requests : q # r => token'[q] = token[q]
        BY <1>1 DEF TypeOK
      <4> QED
        BY <1>1, <3>2, <4>1, <4>2 DEF IInv, Spending, ExchangedTokensAreDead, Unexchanged
    <3> QED
      BY <3>1, <3>2 DEF ExchangedTokensAreDead
  <2>5. ASSUME NEW q \in Requests, pc'[q] = "issue", spent'[q] # None PROVE ~Live(spent[q])'
    BY <1>1, <2>1, <2>2, <2>5 DEF IInv, TypeOK, Spending
  <2>6. "overlap" \notin faults' => \A q \in Requests : pc'[q] \notin {"read_user", "rotate", "issue"}
    BY <1>1 DEF IInv, TypeOK, Alone, Busy
  <2> QED
    BY <2>4, <2>5, <2>6 DEF Spending
<1>7. Referents'
  BY <1>1, <1>2 DEF IInv, TypeOK, Referents, Holds, Known
<1>8. Versions'
  BY <1>1 DEF IInv, TypeOK, Versions, Holds, Went
<1>9. Evidence'
  BY <1>1 DEF IInv, TypeOK, Evidence, Reached
<1>10. OneAccountPerAddress'
  BY <1>1 DEF IInv, OneAccountPerAddress
<1>11. Alone'
  BY <1>1 DEF IInv, TypeOK, Alone, Busy
<1>12. Purges'
  BY <1>1 DEF IInv, TypeOK, Purges, Alone, Busy
<1>13. Resets'
  BY <1>1 DEF IInv, TypeOK, Resets, ResetEndsSessions, LiveOf, Live
<1> QED
  BY <1>3, <1>4, <1>5, <1>6, <1>7, <1>8, <1>9, <1>10, <1>11, <1>12, <1>13 DEF IInv

\* InsertUser(r) keeps the invariant: the index refuses a second account, and
\* nothing is about this one yet.
LEMMA InsertUserKeeps ==
  ASSUME IInv, NEW r \in Requests, InsertUser(r), UNCHANGED owners
  PROVE  IInv'
<1> USE SessionsAssumption
<1> DEFINE inserted == Insertable(doc[r].address)
           label == IF inserted THEN "mail_email_code" ELSE "done"
<1>1. /\ pc[r] = "insert_user"
      /\ pc' = [pc EXCEPT ![r] = label]
      /\ user' = IF inserted THEN [user EXCEPT ![r] = doc[r]] ELSE user
      /\ UNCHANGED <<faults, gone, token, mailed, access, doc, who, spent, session, owners>>
  BY DEF InsertUser, Goto, other, context
<1>2. /\ TypeOK /\ r \in Users /\ r \in Local /\ r # None /\ label \in PC
      /\ who[r] = r /\ doc[r] \in UserDoc /\ doc[r] # None
  BY <1>1 DEF IInv, Contexts, PC, Users, Local
<1>3. /\ doc[r].password = r /\ doc[r].code = r /\ doc[r].recovery = None /\ ~doc[r].verified
  <2> DEFINE address == doc[r].address
  <2>1. doc[r] = Draft(r, address)
    BY <1>1 DEF IInv, Contexts
  <2> HIDE DEF address
  <2> QED
    BY <2>1 DEF Draft
<1>4. ~Known(r)
  BY <1>1 DEF IInv, Names
<1>5. /\ \A u \in Users : u # r => user'[u] = user[u]
      /\ user'[r] # None => user'[r] = doc[r]
      /\ \A u \in Users : Known(u) => Known(u)'
  BY <1>1, <1>2, <1>4 DEF TypeOK, Known
<1>6. TypeOK'
  BY <1>1, <1>2 DEF TypeOK
<1>7. Contexts'
  BY <1>1, <1>2 DEF IInv, TypeOK, Contexts, Busy
<1>8. Names'
  BY <1>1, <1>2, <1>3, <1>5 DEF IInv, TypeOK, Names, Known, Users, Local
<1>9. Spending'
  BY <1>1, <1>2 DEF IInv, TypeOK, Spending, Unexchanged, ExchangedTokensAreDead, Live
<1>10. \A q \in Requests : Holds(q)' => Holds(q) /\ who[q] \in Users
  BY <1>1, <1>2 DEF IInv, TypeOK, Holds, Contexts, Busy
<1>11. Referents'
  BY <1>1, <1>2, <1>5, <1>10 DEF IInv, TypeOK, Referents, AccessToken, Token, Contexts, Busy
<1>12. Versions'
  <2>1. \A u \in Users : Known(u) => user'[u] = user[u]
    BY <1>4, <1>5
  <2> QED
    BY <1>1, <1>2, <1>10, <2>1 DEF IInv, TypeOK, Versions, Went, Referents, AccessToken
<1>13. Evidence'
  BY <1>1, <1>2, <1>3, <1>5 DEF IInv, TypeOK, Evidence, Reached, Users, Local
<1>14. OneAccountPerAddress'
  BY <1>1, <1>2, <1>5 DEF IInv, TypeOK, OneAccountPerAddress, Insertable, Registered, Users
<1>15. Alone'
  BY <1>1, <1>2 DEF IInv, TypeOK, Alone, Busy
<1>16. Purges'
  BY <1>1, <1>2, <1>4, <1>5 DEF IInv, TypeOK, Purges, Known
<1>17. Resets'
  <2>1. LiveOf(r)' = {}
    BY <1>1, <1>4 DEF IInv, Referents, LiveOf, Live
  <2>2. \A u \in Local : u # r => user'[u] = user[u] /\ LiveOf(u)' = LiveOf(u)
    BY <1>1, <1>5 DEF LiveOf, Live, Users
  <2>3. \A q \in Requests : pc'[q] \in {"read_user", "rotate", "issue"} => pc[q] = pc'[q] /\ Known(who[q])
    BY <1>1, <1>2 DEF IInv, TypeOK, Referents, Holds
  <2>4. \A q \in Requests : pc'[q] = "revoke_sessions" <=> pc[q] = "revoke_sessions"
    BY <1>1, <1>2 DEF TypeOK
  <2> QED
    BY <1>1, <1>2, <1>4, <2>1, <2>2, <2>3, <2>4 DEF IInv, Resets, ResetEndsSessions
<1> QED
  BY <1>6, <1>7, <1>8, <1>9, <1>11, <1>12, <1>13, <1>14, <1>15, <1>16, <1>17 DEF IInv

\* SocialWrite(r) keeps the invariant: it creates a user that nothing is about yet,
\* or goes on with the document it finds.
LEMMA SocialWriteKeeps ==
  ASSUME IInv, NEW r \in Requests, SocialWrite(r), UNCHANGED owners
  PROVE  IInv'
<1> USE SessionsAssumption
<1> DEFINE u == who[r]
           created == doc[r] = None /\ user[u] = None /\ u \notin gone
           label == IF doc[r] = None /\ ~created THEN "done" ELSE "issue"
           copy == IF doc[r] = None THEN NewUser ELSE IF user[u] # None THEN user[u] ELSE doc[r]
<1>1. /\ pc[r] = "social_write"
      /\ pc' = [pc EXCEPT ![r] = label]
      /\ user' = IF created THEN [user EXCEPT ![u] = NewUser] ELSE user
      /\ doc' = [doc EXCEPT ![r] = copy]
      /\ UNCHANGED <<faults, gone, token, mailed, access, who, spent, session, owners>>
  <2>1. TypeOK
    BY DEF IInv
  <2> QED
    BY <2>1 DEF SocialWrite, Goto, other, context, TypeOK
<1>2. /\ TypeOK /\ u \in Social /\ u \in Users /\ u \notin Local /\ u \notin Requests /\ label \in PC
      /\ session[r] # None
  BY <1>1 DEF IInv, Contexts, PC, Users, Local
<1>3. NewUser \in UserDoc /\ NewUser # None /\ copy \in UserDoc /\ copy # None
  <2>1. NewUser \in UserDoc
    BY DEF NewUser, UserDoc, Passwords
  <2> QED
    BY <1>2, <2>1 DEF TypeOK
<1>4. NewUser.password \notin Requests /\ NewUser.code = None /\ NewUser.recovery = None
  BY DEF NewUser
<1>5. /\ \A w \in Users : w # u => user'[w] = user[w]
      /\ \A w \in Users : Known(w) => Known(w)' /\ user'[w] = user[w]
      /\ user'[u] # None => user'[u] = user[u] \/ user'[u] = NewUser
      /\ doc[r] = None /\ label = "issue" => user'[u] = NewUser
  BY <1>1, <1>2, <1>3 DEF TypeOK, Known
<1>6. TypeOK'
  BY <1>1, <1>2, <1>3 DEF TypeOK
<1>7. Contexts'
  BY <1>1, <1>2, <1>3 DEF IInv, TypeOK, Contexts, Busy
<1>8. Names'
  BY <1>1, <1>2, <1>4, <1>5 DEF IInv, TypeOK, Names, Known, Users, Local
<1>9. Spending'
  <2>1. spent[r] = None
    BY <1>1 DEF IInv, Contexts
  <2>2. \A q \in Requests : q # r => pc'[q] = pc[q]
    BY <1>1, <1>2 DEF TypeOK
  <2> QED
    BY <1>1, <1>2, <2>1, <2>2 DEF IInv, TypeOK, Spending, Unexchanged, ExchangedTokensAreDead, Live
<1>10. \A q \in Requests : q # r /\ Holds(q)' => Holds(q) /\ who[q] \in Users
  BY <1>1, <1>2 DEF IInv, TypeOK, Holds, Contexts, Busy
<1>11. Referents'
  BY <1>1, <1>2, <1>3, <1>5, <1>10 DEF IInv, TypeOK, Referents, AccessToken, Token, Contexts, Busy, Known, Holds
<1>12. Versions'
  <2>1. label = "issue" /\ user'[u] # None =>
          \/ copy.version < user'[u].version
          \/ copy.version = user'[u].version /\ copy.password = user'[u].password
    BY <1>1, <1>2, <1>3, <1>5 DEF IInv, TypeOK, Versions, Went, Holds
  <2>2. ASSUME NEW w \in Users, NEW v, NEW password, Known(w), Went(v, password, w) PROVE Went(v, password, w)'
    BY <1>5, <2>2 DEF Went
  <2>3. \A a \in access : a.user \in Users /\ Known(a.user)
    BY <1>2 DEF IInv, TypeOK, Referents, AccessToken
  <2>4. \A q \in Requests : q # r /\ Holds(q)' =>
          who[q] \in Users /\ Known(who[q]) /\ Went(doc[q].version, doc[q].password, who[q])
    BY <1>10 DEF IInv, Referents, Versions
  <2>5. \A q \in Requests : q # r => doc'[q] = doc[q]
    BY <1>1, <1>2 DEF TypeOK
  <2>6. doc'[r] = copy /\ who' = who /\ (Holds(r)' => label = "issue")
    BY <1>1, <1>2 DEF TypeOK, Holds
  <2>7. \A a \in access : Went(a.version, a.password, a.user)'
    BY <2>2, <2>3 DEF IInv, Versions
  <2>8. ASSUME NEW q \in Requests, Holds(q)' PROVE Went(doc[q].version, doc[q].password, who[q])'
    <3>1. CASE q = r
      BY <3>1, <2>1, <2>6, <2>8 DEF Went
    <3>2. CASE q # r
      <4>1. Went(doc[q].version, doc[q].password, who[q])
        BY <2>4, <2>8, <3>2
      <4> QED
        BY <1>5, <2>4, <2>5, <2>6, <2>8, <3>2, <4>1 DEF Went
    <3> QED
      BY <3>1, <3>2
  <2> QED
    BY <1>1, <2>7, <2>8 DEF Versions
<1>13. Evidence'
  BY <1>1, <1>2, <1>5 DEF IInv, TypeOK, Evidence, Reached, Users, Local
<1>14. OneAccountPerAddress'
  BY <1>2, <1>5 DEF IInv, OneAccountPerAddress, Users
<1>15. Alone'
  BY <1>1, <1>2 DEF IInv, TypeOK, Alone, Busy
<1>16. Purges'
  BY <1>1, <1>2, <1>5 DEF IInv, TypeOK, Purges, Known
<1>17. Resets'
  BY <1>1, <1>2, <1>5 DEF IInv, TypeOK, Resets, ResetEndsSessions, LiveOf, Live, Users
<1> QED
  BY <1>6, <1>7, <1>8, <1>9, <1>11, <1>12, <1>13, <1>14, <1>15, <1>16, <1>17 DEF IInv

\* DeleteUser(r) keeps the invariant: what names the user is gone by now, or
\* names a user that exists no more.
LEMMA DeleteUserKeeps ==
  ASSUME IInv, NEW r \in Requests, DeleteUser(r), UNCHANGED owners
  PROVE  IInv'
<1> USE SessionsAssumption
<1> DEFINE u == who[r]
<1>1. /\ pc[r] = "delete_user"
      /\ pc' = [pc EXCEPT ![r] = "done"]
      /\ user' = [user EXCEPT ![u] = None]
      /\ gone' = gone \cup {u}
      /\ UNCHANGED <<faults, token, mailed, access, doc, who, spent, session, owners>>
      /\ TypeOK /\ u \in Users /\ "done" \in PC /\ Known(u)
  BY DEF DeleteUser, Goto, context, IInv, Contexts, Busy, PC, Referents
<1>2. /\ \A w \in Users : w # u => user'[w] = user[w]
      /\ user'[u] = None
      /\ \A w \in Users : Known(w)' <=> Known(w)
  BY <1>1 DEF TypeOK, Known
<1>3. TypeOK'
  BY <1>1 DEF TypeOK
<1>4. Contexts'
  BY <1>1 DEF IInv, TypeOK, Contexts, Busy
<1>5. Names'
  BY <1>1, <1>2 DEF IInv, TypeOK, Names, Users, Local
<1>6. Spending'
  BY <1>1 DEF IInv, TypeOK, Spending, Unexchanged, ExchangedTokensAreDead, Live
<1>7. Referents'
  BY <1>1, <1>2 DEF IInv, TypeOK, Referents, Holds, AccessToken, Token, Contexts, Busy
<1>8. \A w \in Users : \A v, password : Went(v, password, w) => Went(v, password, w)'
  BY <1>2 DEF Went
<1>9. Versions'
  BY <1>1, <1>8 DEF IInv, TypeOK, Versions, Holds, AccessToken, Contexts, Busy
<1>10. Evidence'
  BY <1>1, <1>2 DEF IInv, TypeOK, Evidence, Reached, Users, Local
<1>11. OneAccountPerAddress'
  BY <1>2 DEF IInv, OneAccountPerAddress, Users
<1>12. Alone'
  BY <1>1 DEF IInv, TypeOK, Alone, Busy
<1>13. Purges'
  BY <1>1, <1>2 DEF IInv, TypeOK, Purges, Alone, Busy
<1>14. Resets'
  BY <1>1, <1>2 DEF IInv, TypeOK, Resets, ResetEndsSessions, LiveOf, Live, Users
<1> QED
  BY <1>3, <1>4, <1>5, <1>6, <1>7, <1>9, <1>10, <1>11, <1>12, <1>13, <1>14 DEF IInv

-----------------------------------------------------------------------------
\* Init satisfies the inductive invariant.
THEOREM InitIInv == Init => IInv
<1> SUFFICES ASSUME Init PROVE IInv
  OBVIOUS
<1> USE SessionsAssumption
<1>1. PICK existing \in SUBSET First, home \in [First -> Addresses] :
        /\ \A u, w \in existing : home[u] = home[w] => u = w
        /\ user = [u \in Users |-> IF u \in existing THEN [NewUser EXCEPT !.address = home[u]] ELSE None]
        /\ gone = First \ existing
  BY DEF Init
<1>2. \A u \in existing : [NewUser EXCEPT !.address = home[u]] \in UserDoc
  BY <1>1 DEF NewUser, UserDoc, Passwords
<1>3. /\ \A u \in Users : user[u] # None => u \in existing /\ user[u].address = home[u]
      /\ \A u \in existing : user[u].password = "first" /\ user[u].code = None /\ user[u].recovery = None
      /\ \A u \in Requests : u \in Users /\ u \notin existing /\ u \notin gone /\ u # None
  BY <1>1, <1>2 DEF NewUser, Users, Local
<1>4. TypeOK
  BY <1>1, <1>2 DEF Init, TypeOK, PC, Users, Local
<1>5. Contexts /\ Spending /\ Referents /\ Versions /\ Alone /\ Purges
  BY <1>1, <1>3 DEF Init, Contexts, Spending, Referents, Versions, Alone, Purges, Busy, Holds,
     Unexchanged, ExchangedTokensAreDead, Users, Local
<1>6. Names /\ Evidence
  BY <1>3 DEF Init, Names, Evidence, Known
<1>7. OneAccountPerAddress
  BY <1>1, <1>3 DEF OneAccountPerAddress, Users
<1>8. Resets
  BY DEF Init, Resets, ResetEndsSessions, LiveOf, Live
<1> QED
  BY <1>4, <1>5, <1>6, <1>7, <1>8 DEF IInv

\* A step of a session keeps the invariant: one step for each action.
LEMMA SessionKeeps ==
  ASSUME IInv, SessionNext, UNCHANGED owners
  PROVE  IInv'
<1> USE SessionsAssumption
<1>1. TypeOK /\ Requests \subseteq Users /\ Local \subseteq Users /\ Passwords = Requests \cup {"first"}
  BY DEF IInv, Users, Local, Passwords
<1>2. ASSUME NEW r, Idle(r), "overlap" \notin faults PROVE \A q \in Requests : ~Busy(q)
  BY <1>2 DEF Idle, Busy
<1>3. ASSUME NEW r \in Requests, NEW u \in Users, NEW password \in Passwords, BeginLogin(r, u, password) PROVE IInv'
  <2>1. u \in Local /\ user[u] \in UserDoc /\ user[u].password = password /\ user[u].verified /\ Idle(r) /\ user[u] # None
    BY <1>1, <1>3 DEF TypeOK, BeginLogin, Begin
  <2>2. Fits(r, u, user[u], None, password, "issue")
    BY <1>1, <2>1 DEF Fits, Known, IInv, Evidence, Purges, Passwords
  <2> QED
    BY <1>3, <2>1, <2>2, BeginKeeps DEF BeginLogin
<1>4. ASSUME NEW r \in Requests, NEW u \in Users, BeginSocialLogin(r, u) PROVE IInv'
  <2>1. Fits(r, u, user[u], None, "first", "social_write")
    BY <1>1, <1>4 DEF Fits, BeginSocialLogin, Users, Local
  <2> QED
    BY <1>1, <1>4, <2>1, BeginKeeps DEF BeginSocialLogin, TypeOK
<1>5. ASSUME NEW r \in Requests, NEW t \in Requests, BeginRefresh(r, t) PROVE IInv'
  <2>1. token[t] \in Token /\ token[t] # None /\ token[t].user \in Users /\ token[t].session \in Passwords /\ t # None
    BY <1>1, <1>5 DEF TypeOK, BeginRefresh, Token
  <2>2. Fits(r, token[t].user, None, t, token[t].session, RefreshCheck(t))
    <3>1. pc[t] = "done" /\ Known(token[t].user) /\ (token[t].user \in Requests => Reached(token[t].user))
      BY <2>1 DEF IInv, Names, Referents, Evidence
    <3>2. "overlap" \notin faults => token[t].user \notin gone
      BY <2>1 DEF IInv, Purges
    <3>3. faults = {} /\ RefreshCheck(t) = "read_user" /\ token[t].user \in Local /\ user[token[t].user] # None
            => token[t].session = user[token[t].user].password
      <4>1. faults = {} => \A q \in Requests : pc[q] # "revoke_sessions"
        BY <1>2, <1>5 DEF BeginRefresh, Begin, Busy
      <4> QED
        BY <2>1, <4>1 DEF IInv, Resets, ResetEndsSessions, LiveOf, Live, RefreshCheck
    <3>4. RefreshCheck(t) \in {"revoke_family", "expire", "read_user"} /\ (RefreshCheck(t) = "read_user" => Live(t))
      BY <2>1 DEF RefreshCheck, Live
    <3> QED
      BY <1>1, <2>1, <3>1, <3>2, <3>3, <3>4 DEF Fits
  <2> QED
    BY <1>5, <2>1, <2>2, BeginKeeps DEF BeginRefresh
<1>6. ASSUME NEW r \in Requests, NEW u \in Users, BeginRecovery(r, u) PROVE IInv'
  <2>1. Fits(r, u, user[u], None, None, "store_code")
    BY DEF Fits
  <2> QED
    BY <1>1, <1>6, <2>1, BeginKeeps DEF BeginRecovery, TypeOK
<1>7. ASSUME NEW r \in Requests, NEW u \in Users, BeginReset(r, u) PROVE IInv'
  <2>1. Fits(r, u, user[u], None, None, "change_password")
    BY DEF Fits
  <2> QED
    BY <1>1, <1>7, <2>1, BeginKeeps DEF BeginReset, TypeOK
<1>8. ASSUME NEW r \in Requests, Rotate(r) \/ ExpireToken(r) PROVE IInv'
  <2> DEFINE label == IF pc[r] = "expire" \/ token[spent[r]] = None THEN "done" ELSE "issue"
  <2>1. /\ pc[r] \in {"rotate", "expire"} /\ spent[r] \in Requests
        /\ pc' = [pc EXCEPT ![r] = label]
        /\ token' = IF token[spent[r]] = None THEN token ELSE [token EXCEPT ![spent[r]].revoked = TRUE]
        /\ UNCHANGED <<faults, user, gone, mailed, access, doc, context, owners>>
    BY <1>1, <1>8 DEF Rotate, ExpireToken, Spend, Goto, other, IInv, Contexts, TypeOK
  <2>2. Fade
    BY <1>1, <2>1, SomeFade DEF TypeOK
  <2>3. GoesOn(r, label)
    <3>1. label = "issue" => ~Live(spent[r])'
      BY <1>1, <2>1 DEF TypeOK, Live, context
    <3> QED
      BY <2>1, <3>1 DEF GoesOn, Busy
  <2> QED
    BY <2>1, <2>2, <2>3, GoesOnKeeps DEF PC
<1>9. ASSUME NEW r \in Requests, RevokeFamily(r) \/ RevokeSessions(r) PROVE IInv'
  <2>1. /\ pc[r] \in {"revoke_family", "revoke_sessions"}
        /\ pc' = [pc EXCEPT ![r] = "done"]
        /\ RevokeAll(who[r])
        /\ UNCHANGED <<faults, user, gone, mailed, access, doc, context, owners>>
    BY <1>9 DEF RevokeFamily, RevokeSessions, Goto, other
  <2>2. Fade
    BY <1>1, <2>1, SomeFade DEF RevokeAll, LiveOf, Live
  <2>3. LiveOf(who[r])' = {}
    BY <1>1, <2>1 DEF RevokeAll, LiveOf, Live, context, TypeOK, Token
  <2> QED
    BY <2>1, <2>2, <2>3, GoesOnKeeps DEF GoesOn, Busy, PC
<1>10. ASSUME NEW r \in Requests, RequestFails(r) PROVE IInv'
  <2>1. Fade
    BY <1>1, <1>10 DEF Fade, RequestFails, database, TypeOK
  <2> QED
    BY <1>10, <2>1, GoesOnKeeps DEF RequestFails, Goto, database, GoesOn, Busy, PC
<1>11. ASSUME NEW r \in Requests, MailRecovery(r) PROVE IInv'
  <2>1. Fade
    BY <1>1, <1>11 DEF Fade, MailRecovery, TypeOK
  <2> QED
    BY <1>11, <2>1, GoesOnKeeps DEF MailRecovery, Goto, GoesOn, Busy, PC
<1>12. ASSUME NEW t \in Requests, NEW u \in Users, Logout(u, t) PROVE IInv'
  <2>1. Fade
    BY <1>1, <1>12, SomeFade DEF Logout, LiveOf, Live, TypeOK
  <2>2. pc' = [pc EXCEPT ![t] = pc[t]] /\ pc[t] \in PC
    BY <1>1, <1>12 DEF Logout, TypeOK
  <2> QED
    BY <1>12, <2>1, <2>2, GoesOnKeeps DEF Logout, other, GoesOn
<1>13. ASSUME NEW t \in Requests, Expire(t) PROVE IInv'
  <2>1. Fade
    BY <1>1, <1>13, SomeFade DEF Expire, TypeOK
  <2>2. pc' = [pc EXCEPT ![t] = pc[t]] /\ pc[t] \in PC
    BY <1>1, <1>13 DEF Expire, TypeOK
  <2> QED
    BY <1>13, <2>1, <2>2, GoesOnKeeps DEF Expire, other, GoesOn
<1>14. ASSUME NEW r \in Requests, StoreCode(r) PROVE IInv'
  <2> DEFINE d == [user[Target(r)] EXCEPT !.recovery = r]
  <2>1. user[who[r]] # None => Edits(r, d, "mail_recovery")
    BY <1>1, <1>14 DEF StoreCode, Edits, Target, TypeOK, UserDoc, IInv, Contexts, Busy
  <2> QED
    BY <1>14, <2>1, WriteKeeps DEF StoreCode, Goto, Busy
<1>15. ASSUME NEW r \in Requests, ChangePassword(r) PROVE IInv'
  <2> DEFINE d == NewPassword(user[Target(r)], r)
  <2>1. user[who[r]] # None => Edits(r, d, "revoke_sessions")
    <3>1. pc[r] = "change_password" /\ who[r] \in Users
      BY <1>15 DEF ChangePassword, IInv, Contexts, Busy
    <3>2. ASSUME NEW old \in UserDoc
          PROVE  /\ NewPassword(old, r) \in UserDoc /\ NewPassword(old, r).address = old.address
                 /\ NewPassword(old, r).version = old.version + 1 /\ NewPassword(old, r).password = r
                 /\ NewPassword(old, r).code = old.code /\ NewPassword(old, r).recovery = None
                 /\ NewPassword(old, r).verified = old.verified
      <4> DEFINE kept == [old EXCEPT !.password = r, !.recovery = None]
      <4>1. /\ kept \in UserDoc /\ kept.address = old.address /\ kept.version = old.version
            /\ kept.password = r /\ kept.code = old.code /\ kept.recovery = None /\ kept.verified = old.verified
        BY <1>1 DEF UserDoc
      <4>2. NewPassword(old, r) = [kept EXCEPT !.version = old.version + 1]
        BY Zenon DEF NewPassword
      <4> HIDE DEF kept
      <4> QED
        BY <4>1, <4>2 DEF UserDoc
    <3>3. user[who[r]] # None => user[who[r]] \in UserDoc
      BY <1>1, <3>1 DEF TypeOK
    <3> QED
      BY <3>2, <3>3 DEF Edits, Target
  <2> QED
    BY <1>15, <2>1, WriteKeeps DEF ChangePassword, Goto, Busy
<1> QED
  BY <1>3, <1>4, <1>5, <1>6, <1>7, <1>8, <1>9, <1>10, <1>11, <1>12, <1>13, <1>14, <1>15,
     ReadUserKeeps, IssueKeeps, SocialWriteKeeps DEF SessionNext, SessionStep

\* A step of an account keeps the invariant: one step for each action.
LEMMA AccountKeeps ==
  ASSUME IInv, Next, ~(SessionNext /\ UNCHANGED owners)
  PROVE  IInv'
<1> USE SessionsAssumption
<1>1. TypeOK /\ Requests \subseteq Users /\ Local \subseteq Users /\ Passwords = Requests \cup {"first"}
  BY DEF IInv, Users, Local, Passwords
<1>2. ASSUME NEW r \in Requests, NEW address \in Addresses, BeginRegister(r, address), UNCHANGED owners PROVE IInv'
  <2>1. Draft(r, address) \in UserDoc /\ Draft(r, address).address = address
    BY <1>1 DEF Draft, UserDoc
  <2>2. Fits(r, r, Draft(r, address), None, None, "insert_user")
    BY <2>1 DEF Fits
  <2> QED
    BY <1>1, <1>2, <2>1, <2>2, BeginKeeps DEF BeginRegister
<1>3. ASSUME NEW r \in Requests, NEW u \in Users, BeginResend(r, u), UNCHANGED owners PROVE IInv'
  <2>1. Fits(r, u, user[u], None, None, "store_email_code")
    BY DEF Fits
  <2> QED
    BY <1>1, <1>3, <2>1, BeginKeeps DEF BeginResend, TypeOK
<1>4. ASSUME NEW r \in Requests, NEW u \in Users, BeginVerify(r, u), UNCHANGED owners PROVE IInv'
  <2>1. Reached(u)
    BY <1>1, <1>4 DEF BeginVerify, IInv, Names, Reached, TypeOK
  <2>2. Fits(r, u, user[u], None, None, "write_verified")
    BY <2>1 DEF Fits
  <2> QED
    BY <1>1, <1>4, <2>2, BeginKeeps DEF BeginVerify, TypeOK
<1>5. ASSUME NEW r \in Requests, NEW u \in Users, BeginStore(r, u), UNCHANGED owners PROVE IInv'
  <2>1. user[u] # None
    BY <1>5 DEF BeginStore, Authenticated, Accepted
  <2>2. Fits(r, u, None, None, None, "insert_store")
    BY <2>1 DEF Fits, IInv, Purges
  <2> QED
    BY <1>5, <2>2, BeginKeeps DEF BeginStore
<1>6. ASSUME NEW r \in Requests, NEW u \in Users, BeginPurge(r, u), UNCHANGED owners PROVE IInv'
  <2>1. user[u] # None
    BY <1>6 DEF BeginPurge, Authenticated, Accepted
  <2>2. Fits(r, u, user[u], None, None, "delete_tokens")
    BY <2>1 DEF Fits, Known
  <2> QED
    BY <1>1, <1>6, <2>2, BeginKeeps DEF BeginPurge, TypeOK
<1>7. ASSUME NEW r \in Requests, MailEmailCode(r), UNCHANGED owners PROVE IInv'
  <2>1. Fade
    BY <1>1, <1>7 DEF Fade, MailEmailCode, TypeOK
  <2> QED
    BY <1>7, <2>1, GoesOnKeeps DEF MailEmailCode, Goto, GoesOn, Busy, PC
<1>8. ASSUME NEW r \in Requests, StoreEmailCode(r), UNCHANGED owners PROVE IInv'
  <2> DEFINE d == [user[Target(r)] EXCEPT !.code = r]
  <2>1. user[who[r]] # None => Edits(r, d, "mail_email_code")
    BY <1>1, <1>8 DEF StoreEmailCode, Edits, Target, TypeOK, UserDoc, IInv, Contexts, Busy
  <2> QED
    BY <1>8, <2>1, WriteKeeps DEF StoreEmailCode, Goto, Busy
<1>9. ASSUME NEW r \in Requests, WriteVerified(r), UNCHANGED owners PROVE IInv'
  <2> DEFINE d == [user[Target(r)] EXCEPT !.verified = TRUE, !.code = None]
  <2>1. user[who[r]] # None => Edits(r, d, "done")
    <3>1. pc[r] = "write_verified" /\ who[r] \in Users /\ (who[r] \in Requests => Reached(who[r]))
      BY <1>9 DEF WriteVerified, IInv, Contexts, Busy, Evidence
    <3>2. ASSUME NEW old \in UserDoc
          PROVE  LET new == [old EXCEPT !.verified = TRUE, !.code = None] IN
                 /\ new \in UserDoc /\ new.address = old.address /\ new.version = old.version
                 /\ new.password = old.password /\ new.code = None /\ new.recovery = old.recovery
      BY DEF UserDoc
    <3>3. user[who[r]] # None => user[who[r]] \in UserDoc
      BY <1>1, <3>1 DEF TypeOK
    <3> QED
      BY <3>1, <3>2, <3>3 DEF Edits, Target
  <2> QED
    BY <1>9, <2>1, WriteKeeps DEF WriteVerified, Goto, Busy
<1>10. ASSUME NEW r \in Requests, InsertStore(r) PROVE IInv'
  <2>1. Fade
    BY <1>1, <1>10 DEF Fade, InsertStore, database, TypeOK
  <2> QED
    BY <1>10, <2>1, GoesOnKeeps DEF InsertStore, Goto, database, GoesOn, PC
<1>11. ASSUME NEW r \in Requests, DeleteTokens(r), UNCHANGED owners PROVE IInv'
  <2>1. Fade /\ \A t \in Requests : token'[t] # None => token'[t].user # who[r]
    BY <1>1, <1>11 DEF Fade, DeleteTokens, TypeOK
  <2> QED
    BY <1>11, <2>1, GoesOnKeeps DEF DeleteTokens, Goto, other, GoesOn, PC
<1>12. ASSUME NEW r \in Requests, DeleteStores(r) PROVE IInv'
  <2>1. Fade
    BY <1>1, <1>12 DEF Fade, DeleteStores, database, TypeOK
  <2> QED
    BY <1>12, <2>1, GoesOnKeeps DEF DeleteStores, Goto, database, GoesOn, PC
<1> QED
  BY <1>2, <1>3, <1>4, <1>5, <1>6, <1>7, <1>8, <1>9, <1>10, <1>11, <1>12,
     InsertUserKeeps, DeleteUserKeeps DEF Next, AccountStep

\* Every step keeps the inductive invariant.
THEOREM NextIInv == IInv /\ [Next]_vars => IInv'
<1> SUFFICES ASSUME IInv, [Next]_vars PROVE IInv'
  OBVIOUS
<1>1. CASE SessionNext /\ UNCHANGED owners
  BY <1>1, SessionKeeps
<1>2. CASE Next /\ ~(SessionNext /\ UNCHANGED owners)
  BY <1>2, AccountKeeps
<1>3. CASE UNCHANGED vars
  BY <1>3 DEF vars, sessionVars, IInv, TypeOK, Contexts, Names, Spending, Referents, Versions, Evidence,
     OneAccountPerAddress, Alone, Purges, Resets, Busy, Known, Reached, Holds, Went, Unexchanged, ExchangedTokensAreDead,
     ResetEndsSessions, LiveOf, Live
<1> QED
  BY <1>1, <1>2, <1>3

\* The inductive invariant holds in every reachable state.
THEOREM SpecIInv == Spec => []IInv
BY InitIInv, NextIInv, PTL DEF Spec

\* Every variable keeps its type in every behaviour.
THEOREM TypeCorrect == Spec => []TypeOK
<1>1. IInv => TypeOK
  BY DEF IInv
<1> QED
  BY <1>1, SpecIInv, PTL

\* A refresh token is spent or deleted once a successor exists, whatever overlaps or
\* fails, so who presents it from then on is refused; and it has one successor unless
\* requests overlap.
THEOREM ExchangedTokensAreDeadAlways == Spec => []ExchangedTokensAreDead
<1>1. IInv => ExchangedTokensAreDead
  BY DEF IInv, Spending
<1> QED
  BY <1>1, SpecIInv, PTL

\* No access token signed for another password than the present one is accepted.
THEOREM ResetEndsAccessAlways == Spec => []ResetEndsAccess
<1>1. IInv => ResetEndsAccess
  <2> SUFFICES ASSUME IInv, NEW a \in access, Accepted(a) PROVE a.password = user[a.user].password
    BY DEF ResetEndsAccess
  <2>1. user[a.user] # None /\ a.version = user[a.user].version /\ a.version \in Nat
    BY DEF Accepted, IInv, TypeOK, AccessToken
  <2> QED
    BY <2>1 DEF IInv, Versions, Went
<1> QED
  BY <1>1, SpecIInv, PTL

\* A reset ends every session if requests neither overlap nor fail.
THEOREM CalmResetEndsSessionsAlways == Spec => []CalmResetEndsSessions
<1>1. IInv => CalmResetEndsSessions
  BY DEF IInv, Resets, CalmResetEndsSessions
<1> QED
  BY <1>1, SpecIInv, PTL

\* Two registrations of one address never both succeed.
THEOREM OneAccountPerAddressAlways == Spec => []OneAccountPerAddress
<1>1. IInv => OneAccountPerAddress
  BY DEF IInv
<1> QED
  BY <1>1, SpecIInv, PTL

\* Nobody is verified or has a session before a code for the account has arrived.
THEOREM SessionsNeedAReachedAddressAlways == Spec => []SessionsNeedAReachedAddress
<1>1. IInv => SessionsNeedAReachedAddress
  BY DEF IInv, Evidence, Reached, SessionsNeedAReachedAddress, Authenticated, LiveOf, Live
<1> QED
  BY <1>1, SpecIInv, PTL

\* No request in flight for a deleted account touches the one registered after it.
THEOREM AccountsKeepApartAlways == Spec => []AccountsKeepApart
<1>1. IInv => AccountsKeepApart
  BY DEF IInv, Names, AccountsKeepApart, Users
<1> QED
  BY <1>1, SpecIInv, PTL

\* Nothing is left of a deleted user unless requests overlap, wherever one fails.
THEOREM PurgeIsCompleteAlways == Spec => []PurgeIsComplete
<1>1. IInv => PurgeIsComplete
  BY DEF IInv, Purges, PurgeIsComplete
<1> QED
  BY <1>1, SpecIInv, PTL
=============================================================================
