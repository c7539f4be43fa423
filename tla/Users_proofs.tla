---------------------------- MODULE Users_proofs ----------------------------
(***************************************************************************)
(* What users do, for any number of them: their sessions, and the forms    *)
(* that they fill in and send, whatever the entries, references and        *)
(* changes, and however long it goes on.  First Sessions, then FormText.   *)
(***************************************************************************)
EXTENDS FormText, Sessions, FiniteSetTheorems, SequenceTheorems,
        WellFoundedInduction, TLAPS

-----------------------------------------------------------------------------
(* Sessions. *)

Accounts == [account : Nat, disabled : BOOLEAN]

\* What a request is about to do; t is the time at which it began.
Pending == [at : {"checked", "none"}, name : Names, t : 0 .. now]
             \cup [at : {"valid", "found"}, sid : Sids, t : 0 .. now]

UsersOK == users \in [DOMAIN users -> Accounts]

\* A session is an existing user's, and has an id that was given out.
SessOK ==
  /\ sess \in [DOMAIN sess -> [name : DOMAIN users, ts : Nat]]
  /\ DOMAIN sess \subseteq issued
  /\ issued \subseteq Sids

ReqOK == req \in [Requests -> Pending \cup {NoRequest}]

CountersOK == now \in Nat /\ made \in Nat

\* The invariant that the proofs carry.
TInv == UsersOK /\ SessOK /\ ReqOK /\ CountersOK

-----------------------------------------------------------------------------
(* The invariant, action by action. *)

\* At first there is one user, and no session.
LEMMA InitTInv == Init => TInv
<1> SUFFICES ASSUME Init PROVE TInv
  OBVIOUS
<1>1. UsersOK
  BY DEF Init, UsersOK, Accounts
<1>2. SessOK
  BY DEF Init, SessOK
<1>3. ReqOK /\ CountersOK
  BY DEF Init, ReqOK, CountersOK
<1> QED
  BY <1>1, <1>2, <1>3 DEF TInv

\* A request that goes on does so with what it has read.
LEMMA GotoReqOK ==
  ASSUME ReqOK, NEW r \in Requests, NEW x \in Pending \cup {NoRequest},
         Goto(r, x), now' = now
  PROVE  ReqOK'
BY DEF ReqOK, Goto, Pending

\* A login that has begun knows when.
LEMMA LoginTInv ==
  ASSUME TInv, NEW r \in Requests, NEW n \in Names, Login(r, n)
  PROVE  TInv'
<1>1. [at |-> "checked", name |-> n, t |-> now] \in Pending
  BY DEF TInv, CountersOK, Pending
<1>2. ReqOK'
  BY <1>1, GotoReqOK DEF TInv, Login
<1> QED
  BY <1>2 DEF TInv, Login, UsersOK, SessOK, CountersOK

\* Who waits for an answer has asked about a user, and a while ago.
LEMMA PendingOf ==
  ASSUME TInv, NEW r \in Requests
  PROVE  /\ req[r].at \in {"checked", "none"} =>
              /\ req[r].name \in Names
              /\ req[r].t \in 0 .. now /\ req[r].t \in Nat
              /\ req[r] = [at |-> req[r].at, name |-> req[r].name, t |-> req[r].t]
         /\ req[r].at \in {"valid", "found"} =>
              /\ req[r].sid \in Sids
              /\ req[r].t \in Nat /\ req[r].t <= now
<1>1. req[r] \in Pending \cup {NoRequest}
  BY DEF TInv, ReqOK
<1>2. NoRequest.at = "idle"
  BY DEF NoRequest
<1> QED
  BY <1>1, <1>2 DEF Pending, TInv, CountersOK

\* What it finds is a session that was given out.
LEMMA LoginFindTInv ==
  ASSUME TInv, NEW r \in Requests, LoginFind(r)
  PROVE  TInv'
<1>1. /\ req[r].name \in Names /\ req[r].t \in 0 .. now
      /\ req[r] = [at |-> req[r].at, name |-> req[r].name, t |-> req[r].t]
  BY PendingOf DEF LoginFind
<1>2. [req[r] EXCEPT !.at = "none"] \in Pending
  <2>1. [req[r] EXCEPT !.at = "none"] =
          [at |-> "none", name |-> req[r].name, t |-> req[r].t]
    BY <1>1
  <2> QED
    BY <1>1, <2>1 DEF Pending
<1>3. ASSUME NEW s \in Recent(req[r].name, req[r].t)
      PROVE  [at |-> "found", sid |-> s, t |-> req[r].t] \in Pending
  BY <1>1, <1>3 DEF Recent, TInv, SessOK, Pending
<1>4. ReqOK'
  <2>1. now' = now
    BY DEF LoginFind
  <2>2. \E x \in Pending : Goto(r, x)
    BY <1>2, <1>3 DEF LoginFind
  <2> QED
    BY <2>1, <2>2, GotoReqOK DEF TInv
<1> QED
  BY <1>4 DEF TInv, LoginFind, UsersOK, SessOK, CountersOK

\* A new session is a user's that exists.
LEMMA LoginNewTInv ==
  ASSUME TInv, NEW r \in Requests, LoginNew(r)
  PROVE  TInv'
<1>1. req[r].t \in Nat
  BY PendingOf DEF LoginNew
<1>2. ReqOK'
  BY GotoReqOK DEF LoginNew, TInv
<1>3. SessOK'
  <2>1. CASE req[r].name \in DOMAIN users
    <3>1. PICK s \in Sids \ issued :
            /\ issued' = issued \cup {s}
            /\ sess' = [q \in DOMAIN sess \cup {s} |->
                          IF q = s THEN [name |-> req[r].name, ts |-> req[r].t]
                          ELSE sess[q]]
      BY <2>1 DEF LoginNew
    <3>2. users' = users
      BY DEF LoginNew
    <3> QED
      BY <1>1, <2>1, <3>1, <3>2 DEF TInv, SessOK
  <2>2. CASE req[r].name \notin DOMAIN users
    BY <2>2 DEF LoginNew, TInv, SessOK
  <2> QED
    BY <2>1, <2>2
<1> QED
  BY <1>2, <1>3 DEF TInv, LoginNew, UsersOK, CountersOK

\* A visit that is let in knows its session.
LEMMA VisitTInv ==
  ASSUME TInv, NEW r \in Requests, NEW s \in Sids, Visit(r, s)
  PROVE  TInv'
<1>1. [at |-> "valid", sid |-> s, t |-> now] \in Pending
  BY DEF TInv, CountersOK, Pending
<1>2. ReqOK'
  BY <1>1, GotoReqOK DEF TInv, Visit
<1> QED
  BY <1>2 DEF TInv, Visit, UsersOK, SessOK, CountersOK

\* What a visit leaves are sessions as they were, but for a time stamp.
LEMMA RenewKeeps ==
  ASSUME TInv, NEW r \in Requests, Renew(r)
  PROVE  /\ DOMAIN sess' \subseteq DOMAIN sess
         /\ \A s \in DOMAIN sess' :
              sess'[s].name = sess[s].name /\ sess'[s] \in [name : DOMAIN users, ts : Nat]
         /\ \A s \in DOMAIN sess \ DOMAIN sess' : req[r].t - sess[s].ts > Timeout
         /\ sess' = [s \in DOMAIN sess' |-> sess'[s]]
<1> DEFINE old == IF req[r].at = "valid" THEN Expired(req[r].t) ELSE {}
           kept == [q \in DOMAIN sess \ old |-> sess[q]]
<1>1. sess' = Stamped(kept, req[r].sid, req[r].t)
  BY DEF Renew
<1>2. old \subseteq {s \in DOMAIN sess : req[r].t - sess[s].ts > Timeout}
  BY DEF Expired
<1>3. req[r].t \in Nat
  BY PendingOf DEF Renew
<1>4. \A s \in DOMAIN sess : sess[s] \in [name : DOMAIN users, ts : Nat]
  BY DEF TInv, SessOK
<1> HIDE DEF old
<1>5. /\ DOMAIN sess' = DOMAIN sess \ old
      /\ \A s \in DOMAIN sess' :
           sess'[s] = IF s = req[r].sid THEN [sess[s] EXCEPT !.ts = req[r].t]
                      ELSE sess[s]
  BY <1>1 DEF Stamped
<1>6. sess' = [s \in DOMAIN sess' |-> sess'[s]]
  BY <1>1 DEF Stamped
<1> QED
  BY <1>2, <1>3, <1>4, <1>5, <1>6

\* A visit that ends leaves sessions of users.
LEMMA RenewTInv ==
  ASSUME TInv, NEW r \in Requests, Renew(r)
  PROVE  TInv'
<1>1. SessOK'
  BY RenewKeeps DEF Renew, TInv, SessOK
<1>2. ReqOK'
  BY GotoReqOK DEF Renew, TInv
<1> QED
  BY <1>1, <1>2 DEF TInv, Renew, UsersOK, CountersOK

\* So does a logout.
LEMMA LogoutTInv ==
  ASSUME TInv, NEW s \in Sids, Logout(s)
  PROVE  TInv'
<1>1. SessOK'
  BY DEF Logout, TInv, SessOK
<1> QED
  BY <1>1 DEF TInv, Logout, UsersOK, ReqOK, Pending, CountersOK

\* A new account changes no session.
LEMMA NewUserTInv ==
  ASSUME TInv, NEW n \in Names, NewUser(n)
  PROVE  TInv'
<1>1. made' \in Nat
  BY DEF NewUser, TInv, CountersOK
<1>2. UsersOK'
  BY <1>1 DEF NewUser, TInv, UsersOK, Accounts
<1>3. SessOK'
  BY DEF NewUser, TInv, SessOK
<1> QED
  BY <1>1, <1>2, <1>3 DEF TInv, NewUser, ReqOK, Pending, CountersOK

\* A new name takes over the sessions that the old one had.
LEMMA RenameKeeps ==
  ASSUME TInv, NEW n, NEW m, RenameUser(n, m)
  PROVE  /\ DOMAIN sess' = DOMAIN sess
         /\ \A s \in DOMAIN sess :
              /\ sess'[s] \in [name : DOMAIN users', ts : Nat]
              /\ users'[sess'[s].name] = users[sess[s].name]
         /\ sess' = [s \in DOMAIN sess' |-> sess'[s]]
<1>1. \A s \in DOMAIN sess : sess[s] \in [name : DOMAIN users, ts : Nat]
  BY DEF TInv, SessOK
<1>2. /\ DOMAIN sess' = DOMAIN sess
      /\ \A s \in DOMAIN sess' :
           sess'[s] = IF sess[s].name = n THEN [sess[s] EXCEPT !.name = m] ELSE sess[s]
      /\ sess' = [s \in DOMAIN sess' |-> sess'[s]]
  BY DEF RenameUser, Renamed
<1>3. /\ DOMAIN users' = (DOMAIN users \ {n}) \cup {m}
      /\ n \in DOMAIN users /\ m \notin DOMAIN users
      /\ users'[m] = users[n]
      /\ \A k \in DOMAIN users \ {n} : users'[k] = users[k]
  BY DEF RenameUser
<1> QED
  BY <1>1, <1>2, <1>3

\* Renamed users have their sessions with them.
LEMMA RenameTInv ==
  ASSUME TInv, NEW n \in Names, NEW m \in Names, RenameUser(n, m)
  PROVE  TInv'
<1>1. SessOK'
  BY RenameKeeps DEF RenameUser, TInv, SessOK
<1>2. UsersOK'
  BY DEF RenameUser, TInv, UsersOK
<1> QED
  BY <1>1, <1>2 DEF TInv, RenameUser, ReqOK, Pending, CountersOK

\* A disabled user is still one.
LEMMA DisableTInv ==
  ASSUME TInv, NEW n \in Names, DisableUser(n)
  PROVE  TInv'
<1>1. DOMAIN users' = DOMAIN users /\ UsersOK'
  BY DEF DisableUser, TInv, UsersOK, Accounts
<1> QED
  BY <1>1 DEF TInv, DisableUser, SessOK, ReqOK, Pending, CountersOK

\* Who is removed has no sessions left.
LEMMA DeleteTInv ==
  ASSUME TInv, NEW n \in Names, DeleteUser(n)
  PROVE  TInv'
<1>1. UsersOK' /\ SessOK'
  BY DEF DeleteUser, TInv, UsersOK, SessOK
<1> QED
  BY <1>1 DEF TInv, DeleteUser, ReqOK, Pending, CountersOK

\* Time passes.
LEMMA TickTInv ==
  ASSUME TInv, Tick
  PROVE  TInv'
<1>1. now' \in Nat /\ now <= now'
  BY DEF Tick, TInv, CountersOK
<1>2. ReqOK'
  <2>1. Pending \subseteq Pending'
    BY <1>1 DEF Pending, TInv, CountersOK
  <2> QED
    BY <2>1 DEF Tick, TInv, ReqOK
<1> QED
  BY <1>1, <1>2 DEF TInv, Tick, UsersOK, SessOK, CountersOK

\* The invariant is inductive.
LEMMA StepTInv == TInv /\ [Next]_vars => TInv'
<1> SUFFICES ASSUME TInv, [Next]_vars PROVE TInv'
  OBVIOUS
<1>1. CASE UNCHANGED vars
  BY <1>1 DEF vars, TInv, UsersOK, SessOK, ReqOK, Pending, CountersOK
<1> QED
  BY <1>1, LoginTInv, LoginFindTInv, LoginNewTInv, VisitTInv, RenewTInv,
     LogoutTInv, NewUserTInv, RenameTInv, DisableTInv, DeleteTInv, TickTInv
  DEF Next

\* The invariant always holds.
LEMMA TInvAlways == Spec => []TInv
BY InitTInv, StepTInv, PTL DEF Spec

-----------------------------------------------------------------------------
(* Sessions. *)

AccountKeptBy(s) ==
  sess'[s].name \in DOMAIN users' /\ Account(s)' = Account(s)

\* No step gives a session that stays to another account.
LEMMA NextKeepsAccount ==
  ASSUME TInv, Next, NEW s \in DOMAIN sess \cap DOMAIN sess'
  PROVE  AccountKeptBy(s)
<1>0. /\ s \in issued /\ sess[s].name \in DOMAIN users
      /\ \A n \in DOMAIN users : users[n] \in Accounts
  BY DEF TInv, SessOK, UsersOK
<1>1. ASSUME sess'[s] = sess[s], users' = users
      PROVE  AccountKeptBy(s)
  BY <1>0, <1>1 DEF AccountKeptBy, Account
<1>2. ASSUME NEW r \in Requests, LoginNew(r)
      PROVE  AccountKeptBy(s)
  <2>1. sess'[s] = sess[s]
    BY <1>0, <1>2 DEF LoginNew
  <2> QED
    BY <1>1, <1>2, <2>1 DEF LoginNew
<1>3. ASSUME NEW r \in Requests, Renew(r)
      PROVE  AccountKeptBy(s)
  <2>1. sess'[s].name = sess[s].name /\ users' = users
    BY <1>3, RenewKeeps DEF Renew
  <2> QED
    BY <1>0, <2>1 DEF AccountKeptBy, Account
<1>4. ASSUME NEW n \in Names, NEW m \in Names, RenameUser(n, m)
      PROVE  AccountKeptBy(s)
  BY <1>4, RenameKeeps DEF AccountKeptBy, Account
<1>5. ASSUME NEW n \in Names, NewUser(n)
      PROVE  AccountKeptBy(s)
  BY <1>0, <1>5 DEF NewUser, AccountKeptBy, Account
<1>6. ASSUME NEW n \in Names, DisableUser(n)
      PROVE  AccountKeptBy(s)
  BY <1>0, <1>6 DEF DisableUser, AccountKeptBy, Account, Accounts
<1>7. ASSUME NEW n \in Names, DeleteUser(n)
      PROVE  AccountKeptBy(s)
  BY <1>0, <1>7 DEF DeleteUser, AccountKeptBy, Account
<1>8. ASSUME NEW q \in Sids, Logout(q)
      PROVE  AccountKeptBy(s)
  BY <1>1, <1>8 DEF Logout
<1>9. ASSUME NEW r \in Requests, \/ \E n \in Names : Login(r, n)
                                \/ LoginFind(r)
                                \/ \E q \in Sids : Visit(r, q)
      PROVE  AccountKeptBy(s)
  BY <1>1, <1>9 DEF Login, LoginFind, Visit
<1>10. CASE Tick
  BY <1>1, <1>10 DEF Tick
<1> QED
  BY <1>2, <1>3, <1>4, <1>5, <1>6, <1>7, <1>8, <1>9, <1>10 DEF Next

\* A session stays its account's, whatever becomes of names.
THEOREM AccountsKeepSessions == Spec => AccountKept
<1>1. TInv /\ [Next]_vars =>
        [\A s \in DOMAIN sess \cap DOMAIN sess' :
           /\ sess'[s].name \in DOMAIN users'
           /\ Account(s)' = Account(s)]_vars
  BY NextKeepsAccount DEF AccountKeptBy
<1> QED
  BY <1>1, TInvAlways, PTL DEF Spec, AccountKept

GoneRightly(s) ==
  \/ now - sess[s].ts > Timeout
  \/ \E q \in DOMAIN sess : sess[q].name = sess[s].name /\ Logout(q)
  \/ DeleteUser(sess[s].name)

\* What goes has expired, or its user logs out or is removed.
LEMMA NextKeepsFresh ==
  ASSUME TInv, Next, NEW s \in DOMAIN sess \ DOMAIN sess'
  PROVE  GoneRightly(s)
<1>1. ASSUME NEW r \in Requests, Renew(r)
      PROVE  GoneRightly(s)
  <2>1. req[r].t - sess[s].ts > Timeout
    BY <1>1, RenewKeeps
  <2>2. req[r].t \in Nat /\ req[r].t <= now /\ now \in Nat
    BY <1>1, PendingOf DEF Renew, TInv, CountersOK
  <2>3. sess[s].ts \in Nat /\ Timeout \in Nat
    BY TimesAreNaturals DEF TInv, SessOK
  <2> QED
    BY <2>1, <2>2, <2>3 DEF GoneRightly
<1>2. ASSUME NEW q \in Sids, Logout(q)
      PROVE  GoneRightly(s)
  <2>1. q \in DOMAIN sess /\ sess[s].name = sess[q].name
    BY <1>2 DEF Logout
  <2> QED
    BY <1>2, <2>1 DEF GoneRightly
<1>3. ASSUME NEW n \in Names, DeleteUser(n)
      PROVE  GoneRightly(s)
  <2>1. sess[s].name = n
    BY <1>3 DEF DeleteUser
  <2> QED
    BY <1>3, <2>1 DEF GoneRightly
<1>4. ASSUME NEW n \in Names, NEW m \in Names, RenameUser(n, m)
      PROVE  FALSE
  BY <1>4, RenameKeeps
<1>5. ASSUME NEW r \in Requests, LoginNew(r)
      PROVE  FALSE
  BY <1>5 DEF LoginNew
<1>6. CASE sess' = sess
  BY <1>6
<1> QED
  BY <1>1, <1>2, <1>3, <1>4, <1>5, <1>6
    DEF Next, Login, LoginFind, Visit, NewUser, DisableUser, Tick

\* A session that is not expired is ended by nothing but a logout of its user
\* or the removal of the account.
THEOREM FreshSessionsStay == Spec => KeptWhileFresh
<1>1. TInv /\ [Next]_vars =>
        [\A s \in DOMAIN sess \ DOMAIN sess' :
           \/ now - sess[s].ts > Timeout
           \/ \E q \in DOMAIN sess : sess[q].name = sess[s].name /\ Logout(q)
           \/ DeleteUser(sess[s].name)]_vars
  BY NextKeepsFresh DEF GoneRightly
<1> QED
  BY <1>1, TInvAlways, PTL DEF Spec, KeptWhileFresh

\* No step brings a session back.
LEMMA NextBringsNoneBack ==
  ASSUME TInv, Next, NEW s \in issued \ DOMAIN sess
  PROVE  s \notin DOMAIN sess'
<1>1. ASSUME NEW r \in Requests, Renew(r)
      PROVE  s \notin DOMAIN sess'
  BY <1>1, RenewKeeps
<1>2. ASSUME NEW n \in Names, NEW m \in Names, RenameUser(n, m)
      PROVE  s \notin DOMAIN sess'
  BY <1>2, RenameKeeps
<1>3. ASSUME NEW r \in Requests, LoginNew(r)
      PROVE  s \notin DOMAIN sess'
  <2>1. CASE sess' = sess
    BY <2>1
  <2>2. ASSUME NEW q \in Sids \ issued, DOMAIN sess' = DOMAIN sess \cup {q}
        PROVE  s \notin DOMAIN sess'
    BY <2>2
  <2> QED
    BY <1>3, <2>1, <2>2 DEF LoginNew
<1> QED
  BY <1>1, <1>2, <1>3
    DEF Next, Login, LoginFind, Visit, Logout, NewUser, DisableUser,
        DeleteUser, Tick

\* A session that is gone stays gone.
THEOREM SessionsStayGone == Spec => GoneForGood
<1>1. TInv /\ [Next]_vars =>
        [\A s \in issued \ DOMAIN sess : s \notin DOMAIN sess']_vars
  BY NextBringsNoneBack
<1> QED
  BY <1>1, TInvAlways, PTL DEF Spec, GoneForGood

-----------------------------------------------------------------------------
(* Lists. *)

\* A function from the numbers up to n is a list of that length.
LEMMA FunIsSeq ==
  ASSUME NEW T, NEW n \in Nat, NEW t \in [1 .. n -> T]
  PROVE  t \in Seq(T) /\ Len(t) = n
OBVIOUS

\* The numbers of the elements of a list, and the elements.
LEMMA SeqIs ==
  ASSUME NEW S, NEW s \in Seq(S)
  PROVE  /\ Len(s) \in Nat /\ DOMAIN s = 1 .. Len(s)
         /\ \A i \in DOMAIN s : s[i] \in S /\ i \in Nat /\ i # 0
         /\ s = [i \in DOMAIN s |-> s[i]]
BY LenProperties, ElementOfSeq

\* Something that is made of each element.
LEMMA MapIsSeq ==
  ASSUME NEW S, NEW s \in Seq(S), NEW T, NEW t, t = [i \in DOMAIN s |-> t[i]],
         \A i \in DOMAIN s : t[i] \in T
  PROVE  t \in Seq(T) /\ DOMAIN t = DOMAIN s /\ Len(t) = Len(s)
<1>1. Len(s) \in Nat /\ DOMAIN s = 1 .. Len(s)
  BY SeqIs
<1>2. t \in [1 .. Len(s) -> T]
  BY <1>1
<1> QED
  BY <1>1, <1>2, FunIsSeq

\* Backwards each element has another place.
LEMMA BackwardsIs ==
  ASSUME NEW S, NEW s \in Seq(S)
  PROVE  /\ Backwards(s) \in Seq(S) /\ DOMAIN Backwards(s) = DOMAIN s
         /\ \A i \in DOMAIN s : /\ Len(s) + 1 - i \in DOMAIN s
                                /\ Backwards(s)[i] = s[Len(s) + 1 - i]
                                /\ Backwards(s)[Len(s) + 1 - i] = s[i]
<1>1. Len(s) \in Nat /\ DOMAIN s = 1 .. Len(s) /\ \A i \in DOMAIN s : s[i] \in S
  BY SeqIs
<1>2. \A i \in DOMAIN s : Len(s) + 1 - i \in DOMAIN s /\ Len(s) + 1 - (Len(s) + 1 - i) = i
  BY <1>1
<1>3. /\ DOMAIN Backwards(s) = DOMAIN s
      /\ Backwards(s) = [i \in DOMAIN s |-> Backwards(s)[i]]
      /\ \A i \in DOMAIN s : Backwards(s)[i] = s[Len(s) + 1 - i]
  BY DEF Backwards
<1>4. \A i \in DOMAIN s : Backwards(s)[i] \in S
  BY <1>1, <1>2, <1>3
<1>5. Backwards(s) \in Seq(S)
  BY <1>3, <1>4, MapIsSeq
<1>6. \A i \in DOMAIN s : Backwards(s)[Len(s) + 1 - i] = s[i]
  BY <1>2, <1>3
<1> QED
  BY <1>2, <1>3, <1>5, <1>6

\* Without an element the later ones move down.
LEMMA WithoutIs ==
  ASSUME NEW S, NEW s \in Seq(S), NEW k \in DOMAIN s
  PROVE  /\ Without(s, k) \in Seq(S)
         /\ Len(Without(s, k)) = Len(s) - 1 /\ Len(s) - 1 \in Nat
         /\ DOMAIN Without(s, k) = 1 .. Len(s) - 1
         /\ \A i \in 1 .. Len(s) - 1 :
              Without(s, k)[i] = IF i < k THEN s[i] ELSE s[i + 1]
<1> DEFINE n == Len(s)
           a == SubSeq(s, 1, k - 1)
           b == SubSeq(s, k + 1, n)
<1>1. n \in Nat /\ DOMAIN s = 1 .. n /\ k \in 1 .. n /\ \A i \in 1 .. n : s[i] \in S
  BY SeqIs
<1> HIDE DEF n
<1>2. /\ a \in Seq(S) /\ Len(a) = k - 1
      /\ \A i \in 1 .. k - 1 : a[i] = s[i]
  <2>1. \A i \in 1 .. k - 1 : s[i] \in S
    BY <1>1
  <2>2. /\ a \in Seq(S) /\ Len(a) = IF 1 <= k - 1 THEN k - 1 - 1 + 1 ELSE 0
        /\ \A i \in 1 .. k - 1 - 1 + 1 : a[i] = s[1 + i - 1]
    BY <1>1, <2>1, SubSeqProperties
  <2> QED
    BY <1>1, <2>2
<1>3. /\ b \in Seq(S) /\ Len(b) = n - k
      /\ \A i \in 1 .. n - k : b[i] = s[k + i]
  <2>1. \A i \in k + 1 .. n : s[i] \in S
    BY <1>1
  <2>2. /\ b \in Seq(S) /\ Len(b) = IF k + 1 <= n THEN n - (k + 1) + 1 ELSE 0
        /\ \A i \in 1 .. n - (k + 1) + 1 : b[i] = s[k + 1 + i - 1]
    BY <1>1, <2>1, SubSeqProperties
  <2> QED
    BY <1>1, <2>2
<1>4. Without(s, k) = a \o b
  BY DEF Without, n
<1> HIDE DEF a, b
<1>5. /\ a \o b \in Seq(S) /\ Len(a \o b) = n - 1
      /\ \A i \in 1 .. n - 1 : (a \o b)[i] = IF i <= k - 1 THEN a[i] ELSE b[i - (k - 1)]
  <2>1. /\ a \o b \in Seq(S) /\ Len(a \o b) = Len(a) + Len(b)
        /\ \A i \in 1 .. Len(a) + Len(b) :
             (a \o b)[i] = IF i <= Len(a) THEN a[i] ELSE b[i - Len(a)]
    BY <1>2, <1>3, ConcatProperties
  <2>2. Len(a) + Len(b) = n - 1
    BY <1>1, <1>2, <1>3
  <2> QED
    BY <1>2, <2>1, <2>2
<1>6. \A i \in 1 .. n - 1 : (a \o b)[i] = IF i < k THEN s[i] ELSE s[i + 1]
  <2> SUFFICES ASSUME NEW i \in 1 .. n - 1
               PROVE  (a \o b)[i] = IF i < k THEN s[i] ELSE s[i + 1]
    OBVIOUS
  <2>1. CASE i < k
    BY <1>1, <1>2, <1>5, <2>1
  <2>2. CASE ~(i < k)
    <3>1. i - (k - 1) \in 1 .. n - k /\ k + (i - (k - 1)) = i + 1 /\ ~(i <= k - 1)
      BY <1>1, <2>2
    <3> QED
      BY <1>3, <1>5, <2>2, <3>1
  <2> QED
    BY <2>1, <2>2
<1>7. DOMAIN (a \o b) = 1 .. n - 1 /\ n - 1 \in Nat
  BY <1>1, <1>5, SeqIs
<1> QED
  BY <1>4, <1>5, <1>6, <1>7 DEF n

\* A list that is made of elements of another one.
Took(t, s, S) ==
  \E at \in [DOMAIN t -> S] :
    /\ \A i, j \in DOMAIN t : at[i] = at[j] => i = j
    /\ \A i \in DOMAIN t : t[i] = s[at[i]]
    /\ \A k \in S : \E i \in DOMAIN t : at[i] = k

\* Backwards all elements are there, once.
LEMMA BackwardsTook ==
  ASSUME NEW S, NEW s \in Seq(S)
  PROVE  Took(Backwards(s), s, DOMAIN s)
<1> DEFINE n == Len(s)
           D == DOMAIN s
           T == DOMAIN Backwards(s)
           at == [i \in T |-> n + 1 - i]
<1>1. n \in Nat /\ D = 1 .. n
  BY SeqIs
<1>2. /\ T = D
      /\ \A i \in D : n + 1 - i \in D /\ Backwards(s)[i] = s[n + 1 - i]
  BY BackwardsIs
<1> HIDE DEF n, D, T
<1>3. at \in [T -> D] /\ \A i \in T : at[i] = n + 1 - i
  BY <1>2
<1>4. \A i, j \in T : at[i] = at[j] => i = j
  BY <1>1, <1>2, <1>3
<1>5. \A k \in D : n + 1 - k \in T /\ at[n + 1 - k] = k
  BY <1>1, <1>2, <1>3
<1> HIDE DEF at
<1>6. \A k \in D : \E i \in T : at[i] = k
  BY <1>5
<1>7. \A i \in T : Backwards(s)[i] = s[at[i]]
  BY <1>2, <1>3
<1> QED
  BY <1>3, <1>4, <1>6, <1>7, Zenon DEF Took, D, T

\* Without an element the others are there, once.
LEMMA WithoutTook ==
  ASSUME NEW S, NEW s \in Seq(S), NEW k \in DOMAIN s
  PROVE  Took(Without(s, k), s, DOMAIN s \ {k})
<1> DEFINE t == Without(s, k)
           n == Len(s)
           D == DOMAIN s \ {k}
           T == DOMAIN t
           at == [i \in T |-> IF i < k THEN i ELSE i + 1]
<1>1. n \in Nat /\ DOMAIN s = 1 .. n /\ k \in 1 .. n /\ D = (1 .. n) \ {k}
  BY SeqIs
<1>2. /\ T = 1 .. n - 1
      /\ \A i \in 1 .. n - 1 : t[i] = IF i < k THEN s[i] ELSE s[i + 1]
  BY WithoutIs
<1> HIDE DEF t, n, D, T
<1>3. \A i \in T : (IF i < k THEN i ELSE i + 1) \in D
  BY <1>1, <1>2
<1>4. at \in [T -> D] /\ \A i \in T : at[i] = IF i < k THEN i ELSE i + 1
  BY <1>3
<1>5. \A i, j \in T : at[i] = at[j] => i = j
  BY <1>1, <1>2, <1>4
<1>6. \A i \in T : t[i] = s[at[i]]
  BY <1>2, <1>4
<1>7. ASSUME NEW j \in D PROVE \E i \in T : at[i] = j
  <2>1. CASE j < k
    <3>1. j \in T
      BY <1>1, <1>2, <2>1
    <3> QED
      BY <1>4, <2>1, <3>1
  <2>2. CASE ~(j < k)
    <3>1. j - 1 \in T /\ ~(j - 1 < k) /\ (j - 1) + 1 = j
      BY <1>1, <1>2, <2>2
    <3>2. at[j - 1] = j
      BY <1>4, <3>1
    <3> QED
      BY <3>1, <3>2
  <2> QED
    BY <2>1, <2>2
<1> HIDE DEF at
<1>8. \A j \in D : \E i \in T : at[i] = j
  BY <1>7
<1> QED
  BY <1>4, <1>5, <1>6, <1>8, Zenon DEF Took, D, T, t

-----------------------------------------------------------------------------
(* What a form may be, and how it keeps the restrictions of an entry. *)

Texts == Kebs \cup Rebs \cup {NoKanji}
FormRdng == [txt : Rebs, freq : SUBSET Freqs, restr : SUBSET Texts]
FormSens == [gloss : DOMAIN Said, restr : SUBSET Texts, refs : SUBSET Xrslv]
FormEntry == [kanj : Seq(Kanj), rdng : Seq(FormRdng), sens : Seq(FormSens)]

OneEach(list) == \A i, j \in DOMAIN list : list[i].txt = list[j].txt => i = j
OneSense(sens) == \A i, j \in DOMAIN sens : sens[i].gloss = sens[j].gloss => i = j

FormOK(f) ==
  /\ f \in FormEntry
  /\ OneEach(f.kanj) /\ OneEach(f.rdng) /\ OneSense(f.sens)
  /\ \A n \in DOMAIN f.sens : \A l \in f.sens[n].refs : l.kr = Said[f.sens[n].gloss]

\* The pairs that an entry permits, with the numbers of those it does not ...
RdngFree(w, a, b) ==
  \E i \in DOMAIN w.rdng, k \in DOMAIN w.kanj :
    w.rdng[i].txt = a /\ w.kanj[k].txt = b /\ k \notin w.rdng[i].restr
StagkFree(w, g, b) ==
  \E n \in DOMAIN w.sens, k \in DOMAIN w.kanj :
    w.sens[n].gloss = g /\ w.kanj[k].txt = b /\ k \notin w.sens[n].stagk
StagrFree(w, g, a) ==
  \E n \in DOMAIN w.sens, i \in DOMAIN w.rdng :
    w.sens[n].gloss = g /\ w.rdng[i].txt = a /\ i \notin w.sens[n].stagr

\* ... and those that a form does, with the texts, if any, that it names.
Says(names, b) == names = {} \/ b \in names
RdngSaid(f, a, b) ==
  \E i \in DOMAIN f.rdng : f.rdng[i].txt = a /\ Says(f.rdng[i].restr, b)
StagkSaid(f, g, b) ==
  \E n \in DOMAIN f.sens : f.sens[n].gloss = g /\ Says(f.sens[n].restr \cap Kebs, b)
StagrSaid(f, g, a) ==
  \E n \in DOMAIN f.sens : f.sens[n].gloss = g /\ Says(f.sens[n].restr \ Kebs, a)

\* Of the texts that were in the entry the form permits the same pairs.
Kept(w, f, typed) ==
  /\ \A a \in Txts(w.rdng) \cap Txts(f.rdng) :
       \A b \in (Txts(w.kanj) \cap Txts(f.kanj)) \ typed :
         RdngFree(w, a, b) <=> RdngSaid(f, a, b)
  /\ \A g \in Glosses(w) \cap Glosses(f) :
       \A b \in (Txts(w.kanj) \cap Txts(f.kanj)) \ typed :
         StagkFree(w, g, b) <=> StagkSaid(f, g, b)
  /\ \A g \in Glosses(w) \cap Glosses(f) :
       \A a \in Txts(w.rdng) \cap Txts(f.rdng) :
         StagrFree(w, g, a) <=> StagrSaid(f, g, a)

\* The texts that are written for a restriction tell what is restricted
\* (get_restrs()).
LEMMA AllowedIs ==
  ASSUME NEW S, NEW list \in Seq(S), OneEach(list),
         \A i \in DOMAIN list : list[i].txt # NoKanji,
         NEW excluded \in SUBSET DOMAIN list
  PROVE  /\ \A k \in DOMAIN list :
              Says(Allowed(excluded, list), list[k].txt) <=> k \notin excluded
         /\ Allowed(excluded, list) \subseteq Txts(list) \cup {NoKanji}
         /\ excluded = {} <=> Allowed(excluded, list) = {}
         /\ excluded # DOMAIN list => Allowed(excluded, list) \subseteq Txts(list)
<1> DEFINE some == {list[i].txt : i \in DOMAIN list \ excluded}
<1>1. Len(list) \in Nat /\ DOMAIN list = 1 .. Len(list)
  BY SeqIs
<1>2. IsFiniteSet(DOMAIN list) /\ Cardinality(DOMAIN list) = Len(list)
  BY <1>1, FS_Interval
<1>3. Cardinality(excluded) = Len(list) <=> excluded = DOMAIN list
  BY <1>2, FS_Subset
<1>4. CASE excluded = {}
  <2>1. Allowed(excluded, list) = {}
    BY <1>4 DEF Allowed
  <2> QED
    BY <1>4, <2>1 DEF Says
<1>5. CASE excluded # {} /\ excluded = DOMAIN list
  <2>1. Allowed(excluded, list) = {NoKanji}
    BY <1>3, <1>5 DEF Allowed
  <2> QED
    BY <1>5, <2>1 DEF Says
<1>6. CASE excluded # {} /\ excluded # DOMAIN list
  <2>1. Allowed(excluded, list) = some
    BY <1>3, <1>6 DEF Allowed
  <2>2. some # {}
    BY <1>6
  <2>3. some \subseteq Txts(list)
    BY DEF Txts
  <2>4. \A k \in DOMAIN list : list[k].txt \in some <=> k \notin excluded
    BY DEF OneEach
  <2> HIDE DEF some
  <2> QED
    BY <1>6, <2>1, <2>2, <2>3, <2>4 DEF Says
<1> QED
  BY <1>4, <1>5, <1>6

\* What there is in an entry.
LEMMA FormedIs ==
  ASSUME NEW w, Formed(w)
  PROVE  /\ w \in Entry
         /\ w.kanj \in Seq(Kanj) /\ w.rdng \in Seq(Rdng) /\ w.sens \in Seq(Sens)
         /\ OneEach(w.kanj) /\ OneEach(w.rdng) /\ OneSense(w.sens)
         /\ \A i \in DOMAIN w.kanj : w.kanj[i] \in Kanj /\ w.kanj[i].txt \in Kebs
                                       /\ w.kanj[i].txt # NoKanji
         /\ \A i \in DOMAIN w.rdng : w.rdng[i] \in Rdng /\ w.rdng[i].txt \in Rebs
                                       /\ w.rdng[i].txt # NoKanji
         /\ \A n \in DOMAIN w.sens : w.sens[n] \in Sens
<1>1. w \in Entry /\ OneEach(w.kanj) /\ OneEach(w.rdng) /\ OneSense(w.sens)
  <2>1. /\ w \in Entry
        /\ \A list \in {w.kanj, w.rdng} : \A i, j \in DOMAIN list :
             list[i].txt = list[j].txt => i = j
        /\ \A i, j \in DOMAIN w.sens : w.sens[i].gloss = w.sens[j].gloss => i = j
    BY Zenon DEF Formed
  <2> QED
    BY <2>1 DEF OneEach, OneSense
<1>2. w.kanj \in Seq(Kanj) /\ w.rdng \in Seq(Rdng) /\ w.sens \in Seq(Sens)
  BY <1>1 DEF Entry
<1>3. \A i \in DOMAIN w.kanj : w.kanj[i] \in Kanj
  BY <1>2, SeqIs
<1>4. \A i \in DOMAIN w.rdng : w.rdng[i] \in Rdng
  BY <1>2, SeqIs
<1>5. \A n \in DOMAIN w.sens : w.sens[n] \in Sens
  BY <1>2, SeqIs
<1>6. \A i \in DOMAIN w.kanj : w.kanj[i].txt \in Kebs /\ w.kanj[i].txt # NoKanji
  BY <1>3, NoTextIsNone DEF Kanj
<1>7. \A i \in DOMAIN w.rdng : w.rdng[i].txt \in Rebs /\ w.rdng[i].txt # NoKanji
  BY <1>4, NoTextIsNone DEF Rdng
<1> QED
  BY <1>1, <1>2, <1>3, <1>4, <1>5, <1>6, <1>7

-----------------------------------------------------------------------------
(* The table and its references. *)

Xref == [entr : Nat, sens : Nat, xentr : Nat, xsens : Nat, kanj : Nat, rdng : Nat]

EntrOK ==
  /\ next \in Nat /\ DOMAIN entr \subseteq 1 .. next - 1
  /\ entr \in [DOMAIN entr -> Entry]
  /\ \A e \in DOMAIN entr : Formed(entr[e]) /\ entr[e].seq # 0

\* A reference leads from a sense to a sense, and the numbers of its texts
\* are 0 or numbers of texts of the entry that it leads to.
Leads(x) ==
  /\ x \in Xref
  /\ x.entr \in DOMAIN entr /\ x.xentr \in DOMAIN entr
  /\ x.kanj \in {0} \cup DOMAIN entr[x.xentr].kanj
  /\ x.rdng \in {0} \cup DOMAIN entr[x.xentr].rdng

XrefOK == (\A x \in xref : Leads(x)) /\ ShownRight

\* What is shown of a reference and of its target.
LEMMA LinesAre ==
  ASSUME EntrOK, XrefOK, NEW e \in DOMAIN entr, NEW n \in DOMAIN entr[e].sens
  PROVE  /\ Lines(e, n) \subseteq Xrslv
         /\ \A l \in Lines(e, n) : l.kr = Said[entr[e].sens[n].gloss]
<1> DEFINE said == Said[entr[e].sens[n].gloss]
           Line(x) == [num |-> NumberFor(e, n, x.xentr),
                       senses |-> SensesOf(e, n, x.xentr)]
           First(l) == CHOOSE x \in RefsOf(e, n) : Line(x) = l
<1>1. Formed(entr[e]) /\ said \in Name
  <2>1. entr[e].sens[n] \in Sens
    BY FormedIs DEF EntrOK
  <2> QED
    BY <2>1, SaidAreNames DEF EntrOK, Sens
<1>2. \A x \in RefsOf(e, n) : /\ x \in xref /\ Shown(x) = said
                              /\ x.xentr \in DOMAIN entr /\ x.xsens \in Nat
  <2> SUFFICES ASSUME NEW x \in RefsOf(e, n)
               PROVE  /\ x \in xref /\ Shown(x) = said
                      /\ x.xentr \in DOMAIN entr /\ x.xsens \in Nat
    OBVIOUS
  <2>1. x \in xref /\ x.entr = e /\ x.sens = n
    BY DEF RefsOf
  <2> QED
    BY <2>1 DEF XrefOK, ShownRight, Leads, Xref
<1>3. \A x \in RefsOf(e, n) : Line(x).num \in Int /\ Line(x).senses \in SUBSET Nat
  <2> SUFFICES ASSUME NEW x \in RefsOf(e, n)
               PROVE  Line(x).num \in Int /\ Line(x).senses \in SUBSET Nat
    OBVIOUS
  <2>1. x.xentr \in DOMAIN entr /\ x.xentr \in Nat
    BY <1>2 DEF EntrOK
  <2>2. entr[x.xentr].seq \in Nat
    BY <2>1 DEF EntrOK, Entry
  <2>3. NumberFor(e, n, x.xentr) \in Int
    BY <2>1, <2>2 DEF NumberFor
  <2>4. SensesOf(e, n, x.xentr) \subseteq Nat
    BY <1>2 DEF SensesOf
  <2> QED
    BY <2>3, <2>4
<1> HIDE DEF Line
<1>4. \A x \in RefsOf(e, n) : First(Line(x)) \in RefsOf(e, n)
  OBVIOUS
<1> HIDE DEF First
<1>5. \A x \in RefsOf(e, n) : Shown(First(Line(x))) = said
  BY <1>2, <1>4
<1>6. Lines(e, n) = {[num |-> l.num, senses |-> l.senses, kr |-> Shown(First(l))] :
                       l \in {Line(x) : x \in RefsOf(e, n)}}
  BY Zenon DEF Lines, Line, First
<1> HIDE DEF said
<1>7. ASSUME NEW l \in Lines(e, n) PROVE l \in Xrslv /\ l.kr = said
  <2>1. PICK x \in RefsOf(e, n) :
               l = [num |-> Line(x).num, senses |-> Line(x).senses,
                    kr |-> Shown(First(Line(x)))]
    BY <1>6
  <2>2. l = [num |-> Line(x).num, senses |-> Line(x).senses, kr |-> said]
    BY <1>5, <2>1
  <2>3. Line(x).num \in Int /\ Line(x).senses \in SUBSET Nat /\ said \in Name
    BY <1>1, <1>3
  <2> QED
    BY <2>2, <2>3 DEF Xrslv
<1> QED
  BY <1>7 DEF said

\* The readings of a form are those of the entry, with the restrictions as text.
FormRdngs(w) ==
  [i \in DOMAIN w.rdng |-> [w.rdng[i] EXCEPT !.restr = Allowed(@, w.kanj)]]

\* Without frequencies nothing else changes.
LEMMA HiddenIs ==
  ASSUME NEW S, NEW list \in Seq(S), S = Kanj \/ S = FormRdng
  PROVE  /\ Hidden(list) \in Seq(S) /\ DOMAIN Hidden(list) = DOMAIN list
         /\ \A i \in DOMAIN list : /\ Hidden(list)[i].txt = list[i].txt
                                   /\ S = FormRdng => Hidden(list)[i].restr = list[i].restr
<1>1. \A i \in DOMAIN list : list[i] \in S
  BY SeqIs
<1>2. /\ DOMAIN Hidden(list) = DOMAIN list
      /\ Hidden(list) = [i \in DOMAIN list |-> Hidden(list)[i]]
      /\ \A i \in DOMAIN list : Hidden(list)[i] = [list[i] EXCEPT !.freq = {}]
  BY DEF Hidden
<1>3. \A i \in DOMAIN list : Hidden(list)[i] \in S
  <2>1. CASE S = Kanj
    BY <1>1, <1>2, <2>1 DEF Kanj
  <2>2. CASE S = FormRdng
    BY <1>1, <1>2, <2>2 DEF FormRdng
  <2> QED
    BY <2>1, <2>2
<1>4. Hidden(list) \in Seq(S)
  BY <1>2, <1>3, MapIsSeq
<1>5. \A i \in DOMAIN list : Hidden(list)[i].txt = list[i].txt
  BY <1>1, <1>2 DEF Kanj, FormRdng
<1>6. S = FormRdng => \A i \in DOMAIN list : Hidden(list)[i].restr = list[i].restr
  BY <1>1, <1>2 DEF FormRdng
<1> QED
  BY <1>2, <1>4, <1>5, <1>6

\* The restrictions of an entry as texts.
LEMMA RestrTexts ==
  ASSUME NEW w, Formed(w)
  PROVE  /\ \A i \in DOMAIN w.rdng :
              /\ Allowed(w.rdng[i].restr, w.kanj) \subseteq Kebs \cup {NoKanji}
              /\ \A k \in DOMAIN w.kanj :
                   Says(Allowed(w.rdng[i].restr, w.kanj), w.kanj[k].txt)
                     <=> k \notin w.rdng[i].restr
         /\ \A n \in DOMAIN w.sens :
              /\ Allowed(w.sens[n].stagk, w.kanj) \subseteq Kebs
              /\ Allowed(w.sens[n].stagr, w.rdng) \subseteq Rebs
              /\ \A k \in DOMAIN w.kanj :
                   Says(Allowed(w.sens[n].stagk, w.kanj), w.kanj[k].txt)
                     <=> k \notin w.sens[n].stagk
              /\ \A i \in DOMAIN w.rdng :
                   Says(Allowed(w.sens[n].stagr, w.rdng), w.rdng[i].txt)
                     <=> i \notin w.sens[n].stagr
<1>1. /\ w.kanj \in Seq(Kanj) /\ w.rdng \in Seq(Rdng)
      /\ OneEach(w.kanj) /\ OneEach(w.rdng)
      /\ \A i \in DOMAIN w.kanj : w.kanj[i].txt \in Kebs /\ w.kanj[i].txt # NoKanji
      /\ \A i \in DOMAIN w.rdng : w.rdng[i].txt \in Rebs /\ w.rdng[i].txt # NoKanji
  BY FormedIs
<1>2. Txts(w.kanj) \subseteq Kebs /\ Txts(w.rdng) \subseteq Rebs
  BY <1>1 DEF Txts
<1>3. /\ \A i \in DOMAIN w.rdng : w.rdng[i].restr \subseteq DOMAIN w.kanj
      /\ \A n \in DOMAIN w.sens :
           /\ w.sens[n].stagk \subseteq DOMAIN w.kanj
           /\ w.sens[n].stagk = DOMAIN w.kanj => w.kanj = <<>>
           /\ w.sens[n].stagr \subseteq DOMAIN w.rdng
           /\ w.sens[n].stagr = DOMAIN w.rdng => w.rdng = <<>>
  BY Zenon DEF Formed
<1>4. \A excluded \in SUBSET DOMAIN w.kanj :
        /\ \A k \in DOMAIN w.kanj :
             Says(Allowed(excluded, w.kanj), w.kanj[k].txt) <=> k \notin excluded
        /\ Allowed(excluded, w.kanj) \subseteq Kebs \cup {NoKanji}
        /\ (excluded = DOMAIN w.kanj => w.kanj = <<>>)
             => Allowed(excluded, w.kanj) \subseteq Kebs
  <2> SUFFICES ASSUME NEW excluded \in SUBSET DOMAIN w.kanj
               PROVE  /\ \A k \in DOMAIN w.kanj :
                           Says(Allowed(excluded, w.kanj), w.kanj[k].txt)
                             <=> k \notin excluded
                      /\ Allowed(excluded, w.kanj) \subseteq Kebs \cup {NoKanji}
                      /\ (excluded = DOMAIN w.kanj => w.kanj = <<>>)
                           => Allowed(excluded, w.kanj) \subseteq Kebs
    OBVIOUS
  <2>1. /\ \A k \in DOMAIN w.kanj :
             Says(Allowed(excluded, w.kanj), w.kanj[k].txt) <=> k \notin excluded
        /\ Allowed(excluded, w.kanj) \subseteq Txts(w.kanj) \cup {NoKanji}
        /\ (excluded = {}) <=> (Allowed(excluded, w.kanj) = {})
        /\ excluded # DOMAIN w.kanj => Allowed(excluded, w.kanj) \subseteq Txts(w.kanj)
    BY <1>1, AllowedIs
  <2>2. w.kanj = <<>> => DOMAIN w.kanj = {}
    OBVIOUS
  <2> HIDE DEF Says
  <2> QED
    BY <1>2, <2>1, <2>2
<1>5. \A excluded \in SUBSET DOMAIN w.rdng :
        /\ \A k \in DOMAIN w.rdng :
             Says(Allowed(excluded, w.rdng), w.rdng[k].txt) <=> k \notin excluded
        /\ (excluded = DOMAIN w.rdng => w.rdng = <<>>)
             => Allowed(excluded, w.rdng) \subseteq Rebs
  <2> SUFFICES ASSUME NEW excluded \in SUBSET DOMAIN w.rdng
               PROVE  /\ \A k \in DOMAIN w.rdng :
                           Says(Allowed(excluded, w.rdng), w.rdng[k].txt)
                             <=> k \notin excluded
                      /\ (excluded = DOMAIN w.rdng => w.rdng = <<>>)
                           => Allowed(excluded, w.rdng) \subseteq Rebs
    OBVIOUS
  <2>1. /\ \A k \in DOMAIN w.rdng :
             Says(Allowed(excluded, w.rdng), w.rdng[k].txt) <=> k \notin excluded
        /\ (excluded = {}) <=> (Allowed(excluded, w.rdng) = {})
        /\ excluded # DOMAIN w.rdng => Allowed(excluded, w.rdng) \subseteq Txts(w.rdng)
    BY <1>1, AllowedIs
  <2>2. w.rdng = <<>> => DOMAIN w.rdng = {}
    OBVIOUS
  <2> QED
    BY <1>2, <2>1, <2>2
<1> QED
  BY <1>3, <1>4, <1>5

\* What is written in a form.
LEMMA FormIs ==
  ASSUME EntrOK, XrefOK, NEW u, NEW e \in DOMAIN entr,
         NEW w, w = entr[e], NEW f, f = Form(u, e)
  PROVE  /\ DOMAIN f.kanj = DOMAIN w.kanj /\ DOMAIN f.rdng = DOMAIN w.rdng
         /\ DOMAIN f.sens = DOMAIN w.sens
         /\ f = [kanj |-> f.kanj, rdng |-> f.rdng, sens |-> f.sens]
         /\ f.kanj \in Seq(Kanj) /\ f.rdng \in Seq(FormRdng) /\ f.sens \in Seq(FormSens)
         /\ \A i \in DOMAIN w.kanj : f.kanj[i].txt = w.kanj[i].txt
         /\ \A i \in DOMAIN w.rdng :
              /\ f.rdng[i].txt = w.rdng[i].txt
              /\ f.rdng[i].restr = Allowed(w.rdng[i].restr, w.kanj)
         /\ \A n \in DOMAIN w.sens :
              /\ f.sens[n].gloss = w.sens[n].gloss
              /\ f.sens[n].restr = Allowed(w.sens[n].stagk, w.kanj)
                                     \cup Allowed(w.sens[n].stagr, w.rdng)
              /\ \A l \in f.sens[n].refs : l.kr = Said[w.sens[n].gloss]
<1> DEFINE rdng == FormRdngs(w)
           sens == [n \in DOMAIN w.sens |->
                      [gloss |-> w.sens[n].gloss,
                       restr |-> Allowed(w.sens[n].stagk, w.kanj)
                                   \cup Allowed(w.sens[n].stagr, w.rdng),
                       refs |-> Lines(e, n)
                                  \cup {Unresolved(v) : v \in w.sens[n].xrslv}]]
<1>1. f = [kanj |-> IF u \in Editors THEN w.kanj ELSE Hidden(w.kanj),
           rdng |-> IF u \in Editors THEN rdng ELSE Hidden(rdng),
           sens |-> sens]
  BY DEF Form, FormRdngs
<1>2. Formed(w) /\ w.kanj \in Seq(Kanj) /\ w.rdng \in Seq(Rdng) /\ w.sens \in Seq(Sens)
  BY FormedIs DEF EntrOK
<1>3. /\ \A i \in DOMAIN w.rdng : w.rdng[i] \in Rdng
      /\ \A n \in DOMAIN w.sens : w.sens[n] \in Sens
  BY <1>2, FormedIs
<1>4. /\ rdng \in Seq(FormRdng) /\ DOMAIN rdng = DOMAIN w.rdng
      /\ \A i \in DOMAIN w.rdng : /\ rdng[i].txt = w.rdng[i].txt
                                  /\ rdng[i].restr = Allowed(w.rdng[i].restr, w.kanj)
  <2>1. /\ DOMAIN rdng = DOMAIN w.rdng
        /\ rdng = [i \in DOMAIN w.rdng |-> rdng[i]]
        /\ \A i \in DOMAIN w.rdng :
             rdng[i] = [w.rdng[i] EXCEPT !.restr = Allowed(@, w.kanj)]
    BY DEF FormRdngs
  <2>2. \A i \in DOMAIN w.rdng : Allowed(w.rdng[i].restr, w.kanj) \in SUBSET Texts
    BY <1>2, RestrTexts DEF Texts
  <2> HIDE DEF rdng
  <2>3. ASSUME NEW i \in DOMAIN w.rdng PROVE rdng[i] \in FormRdng
    <3> DEFINE X == Allowed(w.rdng[i].restr, w.kanj)
    <3>1. rdng[i] = [w.rdng[i] EXCEPT !.restr = X] /\ w.rdng[i] \in Rdng
      BY <1>3, <2>1
    <3>2. X \in SUBSET Texts
      BY <2>2
    <3> HIDE DEF X
    <3> QED
      BY <3>1, <3>2 DEF Rdng, FormRdng
  <2>4. ASSUME NEW i \in DOMAIN w.rdng
        PROVE  /\ rdng[i].txt = w.rdng[i].txt
               /\ rdng[i].restr = Allowed(w.rdng[i].restr, w.kanj)
    <3> DEFINE X == Allowed(w.rdng[i].restr, w.kanj)
    <3>1. rdng[i] = [w.rdng[i] EXCEPT !.restr = X] /\ w.rdng[i] \in Rdng
      BY <1>3, <2>1
    <3> HIDE DEF X
    <3>2. rdng[i].txt = w.rdng[i].txt /\ rdng[i].restr = X
      BY <3>1 DEF Rdng
    <3> QED
      BY <3>2 DEF X
  <2> QED
    BY <1>2, <2>1, <2>3, <2>4, MapIsSeq, Zenon
<1>5. \A n \in DOMAIN w.sens :
        /\ {Unresolved(v) : v \in w.sens[n].xrslv} \subseteq Xrslv
        /\ \A l \in {Unresolved(v) : v \in w.sens[n].xrslv} :
             l.kr = Said[w.sens[n].gloss]
  <2> SUFFICES ASSUME NEW n \in DOMAIN w.sens, NEW v \in w.sens[n].xrslv
               PROVE  Unresolved(v) \in Xrslv /\ Unresolved(v).kr = Said[w.sens[n].gloss]
    OBVIOUS
  <2>1. v \in Xrslv
    BY <1>3 DEF Sens
  <2>2. v.kr = Said[w.sens[n].gloss]
    BY <1>2, Zenon DEF Formed
  <2> QED
    BY <2>1, <2>2 DEF Unresolved, Xrslv
<1>6. /\ sens \in Seq(FormSens) /\ DOMAIN sens = DOMAIN w.sens
      /\ \A n \in DOMAIN w.sens :
           /\ sens[n].gloss = w.sens[n].gloss
           /\ sens[n].restr = Allowed(w.sens[n].stagk, w.kanj)
                                \cup Allowed(w.sens[n].stagr, w.rdng)
           /\ \A l \in sens[n].refs : l.kr = Said[w.sens[n].gloss]
  <2>1. /\ DOMAIN sens = DOMAIN w.sens
        /\ sens = [n \in DOMAIN w.sens |-> sens[n]]
        /\ \A n \in DOMAIN w.sens :
             sens[n] = [gloss |-> w.sens[n].gloss,
                        restr |-> Allowed(w.sens[n].stagk, w.kanj)
                                    \cup Allowed(w.sens[n].stagr, w.rdng),
                        refs |-> Lines(e, n)
                                   \cup {Unresolved(v) : v \in w.sens[n].xrslv}]
    OBVIOUS
  <2> HIDE DEF sens
  <2>2. ASSUME NEW n \in DOMAIN w.sens
        PROVE  sens[n] \in FormSens /\ \A l \in sens[n].refs : l.kr = Said[w.sens[n].gloss]
    <3>1. Allowed(w.sens[n].stagk, w.kanj) \cup Allowed(w.sens[n].stagr, w.rdng)
            \in SUBSET Texts
      BY <1>2, RestrTexts DEF Texts
    <3>2. Lines(e, n) \subseteq Xrslv /\ \A l \in Lines(e, n) : l.kr = Said[w.sens[n].gloss]
      BY LinesAre
    <3>3. w.sens[n].gloss \in DOMAIN Said
      BY <1>3 DEF Sens
    <3> DEFINE refs == Lines(e, n) \cup {Unresolved(v) : v \in w.sens[n].xrslv}
    <3>4. refs \in SUBSET Xrslv /\ \A l \in refs : l.kr = Said[w.sens[n].gloss]
      BY <1>5, <3>2
    <3> HIDE DEF refs
    <3>5. sens[n] = [gloss |-> w.sens[n].gloss,
                     restr |-> Allowed(w.sens[n].stagk, w.kanj)
                                 \cup Allowed(w.sens[n].stagr, w.rdng),
                     refs |-> refs]
      BY <2>1 DEF refs
    <3> QED
      BY <3>1, <3>3, <3>4, <3>5 DEF FormSens
  <2>3. sens \in Seq(FormSens)
    BY <1>2, <2>1, <2>2, MapIsSeq
  <2>4. ASSUME NEW n \in DOMAIN w.sens
        PROVE  /\ sens[n].gloss = w.sens[n].gloss
               /\ sens[n].restr = Allowed(w.sens[n].stagk, w.kanj)
                                    \cup Allowed(w.sens[n].stagr, w.rdng)
    <3> DEFINE refs == Lines(e, n) \cup {Unresolved(v) : v \in w.sens[n].xrslv}
               restr == Allowed(w.sens[n].stagk, w.kanj)
                          \cup Allowed(w.sens[n].stagr, w.rdng)
    <3>1. sens[n] = [gloss |-> w.sens[n].gloss, restr |-> restr, refs |-> refs]
      BY <2>1
    <3> HIDE DEF refs
    <3> QED
      BY <3>1
  <2> QED
    BY <2>1, <2>2, <2>3, <2>4, Zenon
<1> HIDE DEF rdng, sens
<1>7. /\ f.sens = sens
      /\ f.kanj = IF u \in Editors THEN w.kanj ELSE Hidden(w.kanj)
      /\ f.rdng = IF u \in Editors THEN rdng ELSE Hidden(rdng)
      /\ f = [kanj |-> f.kanj, rdng |-> f.rdng, sens |-> f.sens]
  BY <1>1
<1>8. /\ f.kanj \in Seq(Kanj) /\ DOMAIN f.kanj = DOMAIN w.kanj
      /\ \A i \in DOMAIN w.kanj : f.kanj[i].txt = w.kanj[i].txt
  <2>1. /\ Hidden(w.kanj) \in Seq(Kanj) /\ DOMAIN Hidden(w.kanj) = DOMAIN w.kanj
        /\ \A i \in DOMAIN w.kanj : Hidden(w.kanj)[i].txt = w.kanj[i].txt
    BY <1>2, HiddenIs
  <2> QED
    BY <1>2, <1>7, <2>1
<1>9. /\ f.rdng \in Seq(FormRdng) /\ DOMAIN f.rdng = DOMAIN w.rdng
      /\ \A i \in DOMAIN w.rdng : /\ f.rdng[i].txt = rdng[i].txt
                                  /\ f.rdng[i].restr = rdng[i].restr
  <2>1. /\ Hidden(rdng) \in Seq(FormRdng) /\ DOMAIN Hidden(rdng) = DOMAIN rdng
        /\ \A i \in DOMAIN rdng : /\ Hidden(rdng)[i].txt = rdng[i].txt
                                  /\ Hidden(rdng)[i].restr = rdng[i].restr
    BY <1>4, HiddenIs
  <2> QED
    BY <1>4, <1>7, <2>1
<1> QED
  BY <1>4, <1>6, <1>7, <1>8, <1>9

\* The form that is opened is one, and permits what the entry does.
LEMMA OpenKept ==
  ASSUME EntrOK, XrefOK, NEW u, NEW e \in DOMAIN entr
  PROVE  FormOK(Form(u, e)) /\ Kept(entr[e], Form(u, e), {})
<1> DEFINE w == entr[e]
           f == Form(u, e)
<1>1. Formed(w) /\ OneEach(w.kanj) /\ OneEach(w.rdng) /\ OneSense(w.sens)
  BY FormedIs DEF EntrOK
<1> HIDE DEF w, f
<1>2. /\ DOMAIN f.kanj = DOMAIN w.kanj /\ DOMAIN f.rdng = DOMAIN w.rdng
      /\ DOMAIN f.sens = DOMAIN w.sens
      /\ f = [kanj |-> f.kanj, rdng |-> f.rdng, sens |-> f.sens]
      /\ f.kanj \in Seq(Kanj) /\ f.rdng \in Seq(FormRdng) /\ f.sens \in Seq(FormSens)
      /\ \A i \in DOMAIN w.kanj : f.kanj[i].txt = w.kanj[i].txt
      /\ \A i \in DOMAIN w.rdng :
           /\ f.rdng[i].txt = w.rdng[i].txt
           /\ f.rdng[i].restr = Allowed(w.rdng[i].restr, w.kanj)
      /\ \A n \in DOMAIN w.sens :
           /\ f.sens[n].gloss = w.sens[n].gloss
           /\ f.sens[n].restr = Allowed(w.sens[n].stagk, w.kanj)
                                  \cup Allowed(w.sens[n].stagr, w.rdng)
           /\ \A l \in f.sens[n].refs : l.kr = Said[w.sens[n].gloss]
  BY FormIs DEF w, f
<1>3. FormOK(f)
  <2>1. f \in FormEntry
    BY <1>2 DEF FormEntry
  <2>2. OneEach(f.kanj) /\ OneEach(f.rdng) /\ OneSense(f.sens)
    BY <1>1, <1>2 DEF OneEach, OneSense
  <2>3. \A n \in DOMAIN f.sens : \A l \in f.sens[n].refs : l.kr = Said[f.sens[n].gloss]
    BY <1>2
  <2> QED
    BY <2>1, <2>2, <2>3 DEF FormOK
<1>4. ASSUME NEW a, NEW b \in Txts(w.kanj)
      PROVE  RdngFree(w, a, b) <=> RdngSaid(f, a, b)
  <2>1. PICK k \in DOMAIN w.kanj : b = w.kanj[k].txt
    BY DEF Txts
  <2>2. \A i \in DOMAIN w.rdng : Says(f.rdng[i].restr, b) <=> k \notin w.rdng[i].restr
    <3> SUFFICES ASSUME NEW i \in DOMAIN w.rdng
                 PROVE  Says(f.rdng[i].restr, b) <=> k \notin w.rdng[i].restr
      OBVIOUS
    <3>1. Says(Allowed(w.rdng[i].restr, w.kanj), w.kanj[k].txt) <=> k \notin w.rdng[i].restr
      BY <1>1, RestrTexts
    <3>2. f.rdng[i].restr = Allowed(w.rdng[i].restr, w.kanj)
      BY <1>2
    <3> QED
      BY <2>1, <3>1, <3>2
  <2>3. \A j \in DOMAIN w.kanj : w.kanj[j].txt = b => j = k
    BY <1>1, <2>1 DEF OneEach
  <2>4. RdngFree(w, a, b) <=> \E i \in DOMAIN w.rdng : w.rdng[i].txt = a /\ k \notin w.rdng[i].restr
    BY <2>1, <2>3 DEF RdngFree
  <2>5. RdngSaid(f, a, b)
          <=> \E i \in DOMAIN w.rdng : w.rdng[i].txt = a /\ Says(f.rdng[i].restr, b)
    BY <1>2 DEF RdngSaid
  <2> HIDE DEF Says
  <2> QED
    BY <2>2, <2>4, <2>5
<1>5. ASSUME NEW n \in DOMAIN w.sens
      PROVE  /\ f.sens[n].restr \cap Kebs = Allowed(w.sens[n].stagk, w.kanj)
             /\ f.sens[n].restr \ Kebs = Allowed(w.sens[n].stagr, w.rdng)
  BY <1>1, <1>2, RestrTexts, KanjiAreNoReadings
<1>6. ASSUME NEW g, NEW b \in Txts(w.kanj)
      PROVE  StagkFree(w, g, b) <=> StagkSaid(f, g, b)
  <2>1. PICK k \in DOMAIN w.kanj : b = w.kanj[k].txt
    BY DEF Txts
  <2>2. \A n \in DOMAIN w.sens : Says(f.sens[n].restr \cap Kebs, b) <=> k \notin w.sens[n].stagk
    <3> SUFFICES ASSUME NEW n \in DOMAIN w.sens
                 PROVE  Says(f.sens[n].restr \cap Kebs, b) <=> k \notin w.sens[n].stagk
      OBVIOUS
    <3>1. Says(Allowed(w.sens[n].stagk, w.kanj), w.kanj[k].txt) <=> k \notin w.sens[n].stagk
      BY <1>1, RestrTexts
    <3>2. f.sens[n].restr \cap Kebs = Allowed(w.sens[n].stagk, w.kanj)
      BY <1>5
    <3> QED
      BY <2>1, <3>1, <3>2
  <2>3. \A j \in DOMAIN w.kanj : w.kanj[j].txt = b => j = k
    BY <1>1, <2>1 DEF OneEach
  <2>4. StagkFree(w, g, b)
          <=> \E n \in DOMAIN w.sens : w.sens[n].gloss = g /\ k \notin w.sens[n].stagk
    BY <2>1, <2>3 DEF StagkFree
  <2>5. StagkSaid(f, g, b)
          <=> \E n \in DOMAIN w.sens :
                w.sens[n].gloss = g /\ Says(f.sens[n].restr \cap Kebs, b)
    BY <1>2 DEF StagkSaid
  <2> QED
    BY <2>2, <2>4, <2>5
<1>7. ASSUME NEW g, NEW a \in Txts(w.rdng)
      PROVE  StagrFree(w, g, a) <=> StagrSaid(f, g, a)
  <2>1. PICK k \in DOMAIN w.rdng : a = w.rdng[k].txt
    BY DEF Txts
  <2>2. \A n \in DOMAIN w.sens : Says(f.sens[n].restr \ Kebs, a) <=> k \notin w.sens[n].stagr
    <3> SUFFICES ASSUME NEW n \in DOMAIN w.sens
                 PROVE  Says(f.sens[n].restr \ Kebs, a) <=> k \notin w.sens[n].stagr
      OBVIOUS
    <3>1. Says(Allowed(w.sens[n].stagr, w.rdng), w.rdng[k].txt) <=> k \notin w.sens[n].stagr
      BY <1>1, RestrTexts
    <3>2. f.sens[n].restr \ Kebs = Allowed(w.sens[n].stagr, w.rdng)
      BY <1>5
    <3> QED
      BY <2>1, <3>1, <3>2
  <2>3. \A j \in DOMAIN w.rdng : w.rdng[j].txt = a => j = k
    BY <1>1, <2>1 DEF OneEach
  <2>4. StagrFree(w, g, a)
          <=> \E n \in DOMAIN w.sens : w.sens[n].gloss = g /\ k \notin w.sens[n].stagr
    BY <2>1, <2>3 DEF StagrFree
  <2>5. StagrSaid(f, g, a)
          <=> \E n \in DOMAIN w.sens :
                w.sens[n].gloss = g /\ Says(f.sens[n].restr \ Kebs, a)
    BY <1>2 DEF StagrSaid
  <2> QED
    BY <2>2, <2>4, <2>5
<1>8. Kept(w, f, {})
  BY <1>4, <1>6, <1>7 DEF Kept
<1> QED
  BY <1>3, <1>8 DEF w, f

-----------------------------------------------------------------------------
(* What a user does to a form. *)

\* A form that says the same of the texts that it has keeps as much.
LEMMA SameSaid ==
  ASSUME NEW w, NEW f, NEW typed, Kept(w, f, typed), NEW f2, NEW typed2,
         Txts(f2.rdng) \subseteq Txts(f.rdng), Glosses(f2) \subseteq Glosses(f),
         Txts(f2.kanj) \ typed2 \subseteq Txts(f.kanj) \ typed,
         \A a \in Txts(f2.rdng) : \A b \in Txts(f2.kanj) \ typed2 :
           RdngSaid(f2, a, b) <=> RdngSaid(f, a, b),
         \A g \in Glosses(f2) : \A b \in Txts(f2.kanj) \ typed2 :
           StagkSaid(f2, g, b) <=> StagkSaid(f, g, b),
         \A g \in Glosses(f2) : \A a \in Txts(f2.rdng) :
           StagrSaid(f2, g, a) <=> StagrSaid(f, g, a)
  PROVE  Kept(w, f2, typed2)
<1>1. \A a \in Txts(w.rdng) \cap Txts(f2.rdng) :
        \A b \in (Txts(w.kanj) \cap Txts(f2.kanj)) \ typed2 :
          RdngFree(w, a, b) <=> RdngSaid(f2, a, b)
  BY DEF Kept
<1>2. \A g \in Glosses(w) \cap Glosses(f2) :
        \A b \in (Txts(w.kanj) \cap Txts(f2.kanj)) \ typed2 :
          StagkFree(w, g, b) <=> StagkSaid(f2, g, b)
  BY DEF Kept
<1>3. \A g \in Glosses(w) \cap Glosses(f2) :
        \A a \in Txts(w.rdng) \cap Txts(f2.rdng) :
          StagrFree(w, g, a) <=> StagrSaid(f2, g, a)
  BY DEF Kept
<1> QED
  BY <1>1, <1>2, <1>3 DEF Kept

\* A list that was taken from another has texts of it, each once.
LEMMA TookTexts ==
  ASSUME NEW t, NEW s, NEW K, K \subseteq DOMAIN s, Took(t, s, K), OneEach(s)
  PROVE  /\ OneEach(t) /\ Txts(t) \subseteq Txts(s)
<1>1. PICK at \in [DOMAIN t -> K] :
        /\ \A i, j \in DOMAIN t : at[i] = at[j] => i = j
        /\ \A i \in DOMAIN t : t[i] = s[at[i]]
        /\ \A k \in K : \E i \in DOMAIN t : at[i] = k
  BY DEF Took
<1>2. OneEach(t)
  BY <1>1 DEF OneEach
<1>3. \A i \in DOMAIN t : \E k \in K : t[i] = s[k]
  BY <1>1
<1>4. Txts(t) \subseteq Txts(s)
  BY <1>3 DEF Txts
<1> QED
  BY <1>2, <1>4

\* Another order has the same texts.
LEMMA OrderTexts ==
  ASSUME NEW t, NEW s, Took(t, s, DOMAIN s), OneEach(s)
  PROVE  OneEach(t) /\ Txts(t) = Txts(s)
<1>1. DOMAIN s \subseteq DOMAIN s
  OBVIOUS
<1>2. OneEach(t)
  BY <1>1, TookTexts, Zenon
<1>3. Txts(t) \subseteq Txts(s)
  BY <1>1, TookTexts, Zenon
<1>4. \A k \in DOMAIN s : \E i \in DOMAIN t : t[i] = s[k]
  BY DEF Took
<1>5. Txts(s) \subseteq Txts(t)
  BY <1>4 DEF Txts
<1> QED
  BY <1>2, <1>3, <1>5

\* When readings are reordered each says what it did.
LEMMA TookRdngs ==
  ASSUME NEW f, NEW f2, Took(f2.rdng, f.rdng, DOMAIN f.rdng), NEW a, NEW b
  PROVE  RdngSaid(f2, a, b) <=> RdngSaid(f, a, b)
<1>1. PICK at \in [DOMAIN f2.rdng -> DOMAIN f.rdng] :
        /\ \A i \in DOMAIN f2.rdng : f2.rdng[i] = f.rdng[at[i]]
        /\ \A k \in DOMAIN f.rdng : \E i \in DOMAIN f2.rdng : at[i] = k
  BY DEF Took
<1> HIDE DEF Says
<1>2. ASSUME RdngSaid(f2, a, b) PROVE RdngSaid(f, a, b)
  <2>1. PICK i \in DOMAIN f2.rdng : f2.rdng[i].txt = a /\ Says(f2.rdng[i].restr, b)
    BY <1>2 DEF RdngSaid
  <2>2. at[i] \in DOMAIN f.rdng /\ f2.rdng[i] = f.rdng[at[i]]
    BY <1>1
  <2> QED
    BY <2>1, <2>2 DEF RdngSaid
<1>3. ASSUME RdngSaid(f, a, b) PROVE RdngSaid(f2, a, b)
  <2>1. PICK k \in DOMAIN f.rdng : f.rdng[k].txt = a /\ Says(f.rdng[k].restr, b)
    BY <1>3 DEF RdngSaid
  <2>2. PICK i \in DOMAIN f2.rdng : at[i] = k
    BY <1>1
  <2>3. f2.rdng[i] = f.rdng[k]
    BY <1>1, <2>2
  <2> QED
    BY <2>1, <2>3 DEF RdngSaid
<1> QED
  BY <1>2, <1>3

\* Senses that are in both forms say the same.
SensesSaid(f, f2) ==
  \A g \in Glosses(f2) : \A x : /\ StagkSaid(f2, g, x) <=> StagkSaid(f, g, x)
                                /\ StagrSaid(f2, g, x) <=> StagrSaid(f, g, x)

SensesLeft(f, f2) ==
  /\ OneSense(f2.sens) /\ Glosses(f2) \subseteq Glosses(f)
  /\ \A m \in DOMAIN f2.sens : \E k \in DOMAIN f.sens : f2.sens[m] = f.sens[k]
  /\ SensesSaid(f, f2)

\* A sense that is left says what it did.
LEMMA TookSenses ==
  ASSUME NEW f, NEW f2, NEW K, K \subseteq DOMAIN f.sens, Took(f2.sens, f.sens, K),
         OneSense(f.sens)
  PROVE  SensesLeft(f, f2)
<1>1. PICK at \in [DOMAIN f2.sens -> K] :
        /\ \A i, j \in DOMAIN f2.sens : at[i] = at[j] => i = j
        /\ \A i \in DOMAIN f2.sens : f2.sens[i] = f.sens[at[i]]
  BY DEF Took
<1>2. \A i \in DOMAIN f2.sens : at[i] \in K /\ at[i] \in DOMAIN f.sens
  BY <1>1
<1>3. OneSense(f2.sens)
  BY <1>1, <1>2 DEF OneSense
<1>4. Glosses(f2) \subseteq Glosses(f)
  BY <1>1, <1>2 DEF Glosses
<1>5. \A m \in DOMAIN f2.sens : \E k \in DOMAIN f.sens : f2.sens[m] = f.sens[k]
  BY <1>1, <1>2
<1>6. ASSUME NEW g \in Glosses(f2), NEW x
      PROVE  /\ StagkSaid(f2, g, x) <=> StagkSaid(f, g, x)
             /\ StagrSaid(f2, g, x) <=> StagrSaid(f, g, x)
  <2>1. PICK m \in DOMAIN f2.sens : f2.sens[m].gloss = g
    BY DEF Glosses
  <2>2. at[m] \in DOMAIN f.sens /\ f2.sens[m] = f.sens[at[m]]
    BY <1>1, <1>2
  <2>3. \A n \in DOMAIN f.sens : f.sens[n].gloss = g => n = at[m]
    BY <2>1, <2>2 DEF OneSense
  <2>4. \A n \in DOMAIN f2.sens : f2.sens[n].gloss = g => n = m
    BY <1>3, <2>1 DEF OneSense
  <2>5. StagkSaid(f, g, x) <=> Says(f.sens[at[m]].restr \cap Kebs, x)
    BY <2>1, <2>2, <2>3, Zenon DEF StagkSaid
  <2>6. StagkSaid(f2, g, x) <=> Says(f2.sens[m].restr \cap Kebs, x)
    BY <2>1, <2>4, Zenon DEF StagkSaid
  <2>7. StagrSaid(f, g, x) <=> Says(f.sens[at[m]].restr \ Kebs, x)
    BY <2>1, <2>2, <2>3, Zenon DEF StagrSaid
  <2>8. StagrSaid(f2, g, x) <=> Says(f2.sens[m].restr \ Kebs, x)
    BY <2>1, <2>4, Zenon DEF StagrSaid
  <2> QED
    BY <2>2, <2>5, <2>6, <2>7, <2>8, Zenon
<1> QED
  BY <1>3, <1>4, <1>5, <1>6, Zenon DEF SensesSaid, SensesLeft

\* A change to the parts of a form.
LEMMA FormOKIs ==
  ASSUME NEW f, FormOK(f)
  PROVE  /\ f = [kanj |-> f.kanj, rdng |-> f.rdng, sens |-> f.sens]
         /\ f.kanj \in Seq(Kanj) /\ f.rdng \in Seq(FormRdng) /\ f.sens \in Seq(FormSens)
         /\ OneEach(f.kanj) /\ OneEach(f.rdng) /\ OneSense(f.sens)
         /\ \A i \in DOMAIN f.kanj : f.kanj[i] \in Kanj /\ f.kanj[i].txt \in Kebs
         /\ \A i \in DOMAIN f.rdng : f.rdng[i] \in FormRdng
         /\ \A n \in DOMAIN f.sens :
              /\ f.sens[n] \in FormSens
              /\ \A l \in f.sens[n].refs : l.kr = Said[f.sens[n].gloss]
<1>1. /\ f = [kanj |-> f.kanj, rdng |-> f.rdng, sens |-> f.sens]
      /\ f.kanj \in Seq(Kanj) /\ f.rdng \in Seq(FormRdng) /\ f.sens \in Seq(FormSens)
  BY DEF FormOK, FormEntry
<1>2. \A i \in DOMAIN f.kanj : f.kanj[i] \in Kanj
  BY <1>1, SeqIs
<1>3. \A i \in DOMAIN f.kanj : f.kanj[i].txt \in Kebs
  BY <1>2 DEF Kanj
<1>4. \A i \in DOMAIN f.rdng : f.rdng[i] \in FormRdng
  BY <1>1, SeqIs
<1>5. \A n \in DOMAIN f.sens : f.sens[n] \in FormSens
  BY <1>1, SeqIs
<1> QED
  BY <1>1, <1>2, <1>3, <1>4, <1>5 DEF FormOK

\* Three lists of the right kinds make the lists of a form.
LEMMA FormEntryIs ==
  ASSUME NEW K \in Seq(Kanj), NEW R \in Seq(FormRdng), NEW S \in Seq(FormSens)
  PROVE  [kanj |-> K, rdng |-> R, sens |-> S] \in FormEntry
BY DEF FormEntry

\* Three lists make a form, if each text is in them once, and every reference shows
\* the text that its sense means.
LEMMA FormOKMade ==
  ASSUME NEW K \in Seq(Kanj), NEW R \in Seq(FormRdng), NEW S \in Seq(FormSens),
         OneEach(K), OneEach(R), OneSense(S),
         \A n \in DOMAIN S : \A l \in S[n].refs : l.kr = Said[S[n].gloss]
  PROVE  FormOK([kanj |-> K, rdng |-> R, sens |-> S])
<1> DEFINE f == [kanj |-> K, rdng |-> R, sens |-> S]
<1>1. f \in FormEntry
  BY FormEntryIs
<1>2. f.kanj = K /\ f.rdng = R /\ f.sens = S
  OBVIOUS
<1> HIDE DEF f
<1>3. FormOK(f)
  BY <1>1, <1>2 DEF FormOK
<1> QED
  BY <1>3 DEF f

\* Kanji, readings or senses in another order.
LEMMA ReorderKept ==
  ASSUME NEW w, NEW f, NEW typed, FormOK(f), Kept(w, f, typed),
         NEW part \in {"kanj", "rdng", "sens"},
         NEW f2, f2 = [f EXCEPT ![part] = Backwards(@)]
  PROVE  FormOK(f2) /\ Kept(w, f2, typed)
<1>1. /\ f = [kanj |-> f.kanj, rdng |-> f.rdng, sens |-> f.sens]
      /\ f.kanj \in Seq(Kanj) /\ f.rdng \in Seq(FormRdng) /\ f.sens \in Seq(FormSens)
      /\ OneEach(f.kanj) /\ OneEach(f.rdng) /\ OneSense(f.sens)
      /\ \A n \in DOMAIN f.sens : \A l \in f.sens[n].refs : l.kr = Said[f.sens[n].gloss]
  BY FormOKIs
<1>2. CASE part = "kanj"
  <2>1. f2 = [kanj |-> Backwards(f.kanj), rdng |-> f.rdng, sens |-> f.sens]
    BY <1>1, <1>2
  <2>2. f2.kanj = Backwards(f.kanj) /\ f2.rdng = f.rdng /\ f2.sens = f.sens
    BY <2>1
  <2>3. Backwards(f.kanj) \in Seq(Kanj) /\ Took(f2.kanj, f.kanj, DOMAIN f.kanj)
    BY <1>1, <2>2, BackwardsIs, BackwardsTook
  <2>4. OneEach(f2.kanj) /\ Txts(f2.kanj) = Txts(f.kanj)
    BY <1>1, <2>3, OrderTexts, Zenon
  <2>5. FormOK(f2)
    <3>1. OneEach(Backwards(f.kanj))
      BY <2>2, <2>4, Zenon
    <3>2. FormOK([kanj |-> Backwards(f.kanj), rdng |-> f.rdng, sens |-> f.sens])
      BY <1>1, <2>3, <3>1, FormOKMade, Zenon
    <3> QED
      BY <2>1, <3>2, Zenon
  <2>6. \A a, b : /\ RdngSaid(f2, a, b) <=> RdngSaid(f, a, b)
                  /\ StagkSaid(f2, a, b) <=> StagkSaid(f, a, b)
                  /\ StagrSaid(f2, a, b) <=> StagrSaid(f, a, b)
    BY <2>2 DEF RdngSaid, StagkSaid, StagrSaid
  <2>7. Glosses(f2) = Glosses(f)
    BY <2>2 DEF Glosses
  <2>8. Kept(w, f2, typed)
    BY <2>2, <2>4, <2>6, <2>7, SameSaid
  <2> QED
    BY <2>5, <2>8
<1>3. CASE part = "rdng"
  <2>1. f2 = [kanj |-> f.kanj, rdng |-> Backwards(f.rdng), sens |-> f.sens]
    BY <1>1, <1>3
  <2>2. f2.kanj = f.kanj /\ f2.rdng = Backwards(f.rdng) /\ f2.sens = f.sens
    BY <2>1
  <2>3. Backwards(f.rdng) \in Seq(FormRdng) /\ Took(f2.rdng, f.rdng, DOMAIN f.rdng)
    BY <1>1, <2>2, BackwardsIs, BackwardsTook
  <2>4. OneEach(f2.rdng) /\ Txts(f2.rdng) = Txts(f.rdng)
    BY <1>1, <2>3, OrderTexts, Zenon
  <2>5. FormOK(f2)
    <3>1. OneEach(Backwards(f.rdng))
      BY <2>2, <2>4, Zenon
    <3>2. FormOK([kanj |-> f.kanj, rdng |-> Backwards(f.rdng), sens |-> f.sens])
      BY <1>1, <2>3, <3>1, FormOKMade, Zenon
    <3> QED
      BY <2>1, <3>2, Zenon
  <2>6. \A a, b : RdngSaid(f2, a, b) <=> RdngSaid(f, a, b)
    BY <2>3, TookRdngs
  <2>7. \A a, b : /\ StagkSaid(f2, a, b) <=> StagkSaid(f, a, b)
                  /\ StagrSaid(f2, a, b) <=> StagrSaid(f, a, b)
    BY <2>2 DEF StagkSaid, StagrSaid
  <2>8. Glosses(f2) = Glosses(f)
    BY <2>2 DEF Glosses
  <2>9. Kept(w, f2, typed)
    BY <2>2, <2>4, <2>6, <2>7, <2>8, SameSaid
  <2> QED
    BY <2>5, <2>9
<1>4. CASE part = "sens"
  <2>1. f2 = [kanj |-> f.kanj, rdng |-> f.rdng, sens |-> Backwards(f.sens)]
    BY <1>1, <1>4
  <2>2. f2.kanj = f.kanj /\ f2.rdng = f.rdng /\ f2.sens = Backwards(f.sens)
    BY <2>1
  <2>3. Backwards(f.sens) \in Seq(FormSens) /\ Took(f2.sens, f.sens, DOMAIN f.sens)
    BY <1>1, <2>2, BackwardsIs, BackwardsTook
  <2>4. SensesLeft(f, f2)
    <3> DEFINE K == DOMAIN f.sens
    <3>1. K \subseteq DOMAIN f.sens /\ Took(f2.sens, f.sens, K)
      BY <2>3
    <3> HIDE DEF K
    <3> QED
      BY <1>1, <3>1, TookSenses, Zenon
  <2>5. FormOK(f2)
    <3>1. \A n \in DOMAIN f2.sens : \A l \in f2.sens[n].refs : l.kr = Said[f2.sens[n].gloss]
      BY <1>1, <2>4 DEF SensesLeft
    <3> DEFINE t == Backwards(f.sens)
    <3>2. /\ t \in Seq(FormSens) /\ f2.sens = t
          /\ f2 = [kanj |-> f.kanj, rdng |-> f.rdng, sens |-> t]
      BY <2>1, <2>2, <2>3
    <3> HIDE DEF t
    <3>3. OneSense(t) /\ \A n \in DOMAIN t : \A l \in t[n].refs : l.kr = Said[t[n].gloss]
      BY <2>4, <3>1, <3>2, Zenon DEF SensesLeft
    <3>4. FormOK([kanj |-> f.kanj, rdng |-> f.rdng, sens |-> t])
      BY <1>1, <3>2, <3>3, FormOKMade, Zenon
    <3> QED
      BY <3>2, <3>4, Zenon
  <2>6. \A a, b : RdngSaid(f2, a, b) <=> RdngSaid(f, a, b)
    BY <2>2 DEF RdngSaid
  <2>7. Kept(w, f2, typed)
    BY <2>2, <2>4, <2>6, SameSaid DEF SensesSaid, SensesLeft
  <2> QED
    BY <2>5, <2>7
<1> QED
  BY <1>2, <1>3, <1>4

\* A sense less.
LEMMA DropSensKept ==
  ASSUME NEW w, NEW f, NEW typed, FormOK(f), Kept(w, f, typed),
         NEW n \in DOMAIN f.sens, NEW f2, f2 = [f EXCEPT !.sens = Without(@, n)]
  PROVE  FormOK(f2) /\ Kept(w, f2, typed)
<1>1. /\ f = [kanj |-> f.kanj, rdng |-> f.rdng, sens |-> f.sens]
      /\ f.kanj \in Seq(Kanj) /\ f.rdng \in Seq(FormRdng) /\ f.sens \in Seq(FormSens)
      /\ OneEach(f.kanj) /\ OneEach(f.rdng) /\ OneSense(f.sens)
      /\ \A m \in DOMAIN f.sens : \A l \in f.sens[m].refs : l.kr = Said[f.sens[m].gloss]
  BY FormOKIs
<1>2. f2 = [kanj |-> f.kanj, rdng |-> f.rdng, sens |-> Without(f.sens, n)]
  BY <1>1
<1>3. f2.kanj = f.kanj /\ f2.rdng = f.rdng /\ f2.sens = Without(f.sens, n)
  BY <1>2
<1>4. Without(f.sens, n) \in Seq(FormSens) /\ Took(f2.sens, f.sens, DOMAIN f.sens \ {n})
  BY <1>1, <1>3, WithoutIs, WithoutTook
<1>5. SensesLeft(f, f2)
  <2> DEFINE K == DOMAIN f.sens \ {n}
  <2>1. K \subseteq DOMAIN f.sens /\ Took(f2.sens, f.sens, K)
    BY <1>4
  <2> HIDE DEF K
  <2> QED
    BY <1>1, <2>1, TookSenses, Zenon
<1>6. FormOK(f2)
  <2>1. \A m \in DOMAIN f2.sens : \A l \in f2.sens[m].refs : l.kr = Said[f2.sens[m].gloss]
    BY <1>1, <1>5 DEF SensesLeft
  <2> DEFINE t == Without(f.sens, n)
  <2>2. /\ t \in Seq(FormSens) /\ f2.sens = t
        /\ f2 = [kanj |-> f.kanj, rdng |-> f.rdng, sens |-> t]
    BY <1>2, <1>3, <1>4
  <2> HIDE DEF t
  <2>3. OneSense(t) /\ \A m \in DOMAIN t : \A l \in t[m].refs : l.kr = Said[t[m].gloss]
    BY <1>5, <2>1, <2>2, Zenon DEF SensesLeft
  <2>4. FormOK([kanj |-> f.kanj, rdng |-> f.rdng, sens |-> t])
    BY <1>1, <2>2, <2>3, FormOKMade, Zenon
  <2> QED
    BY <2>2, <2>4, Zenon
<1>7. \A a, b : RdngSaid(f2, a, b) <=> RdngSaid(f, a, b)
  BY <1>3 DEF RdngSaid
<1>8. Kept(w, f2, typed)
  BY <1>3, <1>5, <1>7, SameSaid DEF SensesSaid, SensesLeft
<1> QED
  BY <1>6, <1>8

\* A kanji less: what it was named for is told by the others.
LEMMA LessSays ==
  ASSUME NEW names \in SUBSET Texts, NEW k \in Kebs, NEW b \in Kebs, b # k,
         NEW less, less = Less(names, k)
  PROVE  less \in SUBSET Texts /\ (Says(less, b) <=> Says(names, b))
<1>1. b # NoKanji /\ NoKanji \in Texts
  BY NoTextIsNone DEF Texts
<1>2. CASE names = {k}
  BY <1>1, <1>2 DEF Says, Less
<1>3. CASE names # {k}
  <2>1. less = names \ {k}
    BY <1>3 DEF Less
  <2>2. less = {} <=> names = {}
    BY <1>3, <2>1
  <2> QED
    BY <2>1, <2>2 DEF Says
<1> QED
  BY <1>2, <1>3

\* A kanji taken out, also from the restrictions that name it, leaves the other
\* pairs as they were.
LEMMA DropKanjKept ==
  ASSUME NEW w, NEW f, NEW typed, FormOK(f), Kept(w, f, typed),
         NEW i \in DOMAIN f.kanj, NEW k, k = f.kanj[i].txt,
         \A n \in DOMAIN f.sens : f.sens[n].restr \cap Kebs # {k},
         NEW f2, f2 = [kanj |-> Without(f.kanj, i),
                       rdng |-> [r \in DOMAIN f.rdng |->
                         [f.rdng[r] EXCEPT !.restr = Less(@, k)]],
                       sens |-> [n \in DOMAIN f.sens |->
                         [f.sens[n] EXCEPT !.restr = @ \ {k}]]]
  PROVE  FormOK(f2) /\ Kept(w, f2, typed)
<1> DEFINE K == Without(f.kanj, i)
           R == [r \in DOMAIN f.rdng |-> [f.rdng[r] EXCEPT !.restr = Less(@, k)]]
           S == [n \in DOMAIN f.sens |-> [f.sens[n] EXCEPT !.restr = @ \ {k}]]
<1>1. /\ f = [kanj |-> f.kanj, rdng |-> f.rdng, sens |-> f.sens]
      /\ f.kanj \in Seq(Kanj) /\ f.rdng \in Seq(FormRdng) /\ f.sens \in Seq(FormSens)
      /\ OneEach(f.kanj) /\ OneEach(f.rdng) /\ OneSense(f.sens)
      /\ \A j \in DOMAIN f.kanj : f.kanj[j] \in Kanj /\ f.kanj[j].txt \in Kebs
      /\ \A r \in DOMAIN f.rdng : f.rdng[r] \in FormRdng
      /\ \A n \in DOMAIN f.sens :
           /\ f.sens[n] \in FormSens
           /\ \A l \in f.sens[n].refs : l.kr = Said[f.sens[n].gloss]
  BY FormOKIs
<1>2. f2 = [kanj |-> K, rdng |-> R, sens |-> S]
  OBVIOUS
<1>3. f2.kanj = K /\ f2.rdng = R /\ f2.sens = S
  BY <1>2
<1>4. K \in Seq(Kanj) /\ OneEach(K) /\ Txts(K) \subseteq Txts(f.kanj) \ {k}
  <2> DEFINE D == DOMAIN f.kanj \ {i}
  <2>1. K \in Seq(Kanj) /\ D \subseteq DOMAIN f.kanj /\ Took(K, f.kanj, D)
    BY <1>1, WithoutIs, WithoutTook
  <2>2. PICK at \in [DOMAIN K -> D] : \A j \in DOMAIN K : K[j] = f.kanj[at[j]]
    BY <2>1, Zenon DEF Took
  <2>3. \A d \in D : d \in DOMAIN f.kanj /\ f.kanj[d].txt # k
    BY <1>1 DEF OneEach
  <2> HIDE DEF D, K
  <2>4. OneEach(K)
    BY <1>1, <2>1, TookTexts, Zenon
  <2>5. \A j \in DOMAIN K : at[j] \in DOMAIN f.kanj /\ K[j].txt = f.kanj[at[j]].txt
                              /\ K[j].txt # k
    BY <2>2, <2>3
  <2>6. Txts(K) \subseteq Txts(f.kanj) \ {k}
    BY <2>5 DEF Txts
  <2> QED
    BY <2>1, <2>4, <2>6
<1>5. k \in Kebs /\ \A b \in Txts(K) : b \in Kebs /\ b # k
  BY <1>1, <1>4 DEF Txts
<1>6. ASSUME NEW r \in DOMAIN f.rdng
      PROVE  /\ R[r] \in FormRdng /\ R[r].txt = f.rdng[r].txt
             /\ \A b \in Txts(K) : Says(R[r].restr, b) <=> Says(f.rdng[r].restr, b)
  <2> DEFINE less == Less(f.rdng[r].restr, k)
  <2>1. /\ f.rdng[r] = [txt |-> f.rdng[r].txt, freq |-> f.rdng[r].freq,
                        restr |-> f.rdng[r].restr]
        /\ f.rdng[r].txt \in Rebs /\ f.rdng[r].freq \in SUBSET Freqs
        /\ f.rdng[r].restr \in SUBSET Texts
    BY <1>1 DEF FormRdng
  <2>3. less \in SUBSET Texts
    BY <1>5, <2>1 DEF Texts, Less
  <2>4. \A b \in Txts(K) : Says(less, b) <=> Says(f.rdng[r].restr, b)
    <3> DEFINE names == f.rdng[r].restr
    <3>1. names \in SUBSET Texts /\ less = Less(names, k)
      BY <2>1
    <3> HIDE DEF less, names
    <3>2. \A b \in Txts(K) : Says(less, b) <=> Says(names, b)
      BY <1>5, <3>1, LessSays
    <3> QED
      BY <3>2 DEF names
  <2>5. R[r] = [f.rdng[r] EXCEPT !.restr = less]
    OBVIOUS
  <2> HIDE DEF less, R
  <2>6. R[r] = [txt |-> f.rdng[r].txt, freq |-> f.rdng[r].freq, restr |-> less]
    BY <2>1, <2>5
  <2>7. R[r] \in FormRdng /\ R[r].txt = f.rdng[r].txt /\ R[r].restr = less
    BY <2>1, <2>3, <2>6 DEF FormRdng
  <2> QED
    BY <2>4, <2>7
<1>7. ASSUME NEW n \in DOMAIN f.sens
      PROVE  /\ S[n] \in FormSens /\ S[n].gloss = f.sens[n].gloss
             /\ S[n].refs = f.sens[n].refs
             /\ \A b \in Txts(K) : Says(S[n].restr \cap Kebs, b)
                                     <=> Says(f.sens[n].restr \cap Kebs, b)
             /\ S[n].restr \ Kebs = f.sens[n].restr \ Kebs
  <2> DEFINE less == f.sens[n].restr \ {k}
  <2>1. /\ f.sens[n] = [gloss |-> f.sens[n].gloss, restr |-> f.sens[n].restr,
                        refs |-> f.sens[n].refs]
        /\ f.sens[n].gloss \in DOMAIN Said /\ f.sens[n].restr \in SUBSET Texts
        /\ f.sens[n].refs \in SUBSET Xrslv
    BY <1>1 DEF FormSens
  <2>2. S[n] = [f.sens[n] EXCEPT !.restr = less]
    OBVIOUS
  <2> HIDE DEF S
  <2>3. S[n] = [gloss |-> f.sens[n].gloss, restr |-> less, refs |-> f.sens[n].refs]
    BY <2>1, <2>2
  <2>4. /\ S[n].gloss = f.sens[n].gloss /\ S[n].restr = less
        /\ S[n].refs = f.sens[n].refs
    BY <2>3
  <2>5. S[n] \in FormSens
    BY <2>1, <2>3 DEF FormSens
  <2>6. less \ Kebs = f.sens[n].restr \ Kebs
    BY <1>5
  <2>7. ASSUME NEW b \in Txts(K)
        PROVE  Says(less \cap Kebs, b) <=> Says(f.sens[n].restr \cap Kebs, b)
    <3>1. b # k
      BY <1>5
    <3>2. f.sens[n].restr \cap Kebs # {k}
      OBVIOUS
    <3>3. (less \cap Kebs = {}) <=> (f.sens[n].restr \cap Kebs = {})
      BY <1>5, <3>2
    <3>4. (b \in less \cap Kebs) <=> (b \in f.sens[n].restr \cap Kebs)
      BY <3>1
    <3> QED
      BY <3>3, <3>4, Zenon DEF Says
  <2> HIDE DEF less
  <2> QED
    BY <2>4, <2>5, <2>6, <2>7
<1>8. R = [r \in DOMAIN f.rdng |-> R[r]] /\ S = [n \in DOMAIN f.sens |-> S[n]]
  OBVIOUS
<1>9. DOMAIN R = DOMAIN f.rdng /\ DOMAIN S = DOMAIN f.sens
  OBVIOUS
<1> HIDE DEF K, R, S
<1>10. R \in Seq(FormRdng) /\ S \in Seq(FormSens)
  BY <1>1, <1>6, <1>7, <1>8, MapIsSeq
<1>11. /\ OneEach(R) /\ OneSense(S) /\ Txts(R) = Txts(f.rdng)
       /\ Glosses(f2) = Glosses(f)
  <2>1. OneEach(R)
    BY <1>1, <1>6, <1>9 DEF OneEach
  <2>2. OneSense(S)
    BY <1>1, <1>7, <1>9 DEF OneSense
  <2>3. Txts(R) = Txts(f.rdng)
    BY <1>6, <1>9 DEF Txts
  <2>4. Glosses(f2) = Glosses(f)
    BY <1>3, <1>7, <1>9 DEF Glosses
  <2> QED
    BY <2>1, <2>2, <2>3, <2>4
<1>12. FormOK(f2)
  <2>1. \A n \in DOMAIN S : \A l \in S[n].refs : l.kr = Said[S[n].gloss]
    BY <1>1, <1>7, <1>9
  <2>2. FormOK([kanj |-> K, rdng |-> R, sens |-> S])
    BY <1>4, <1>10, <1>11, <2>1, FormOKMade, Zenon
  <2> QED
    BY <1>2, <2>2, Zenon
<1>13. ASSUME NEW a, NEW b \in Txts(K) PROVE RdngSaid(f2, a, b) <=> RdngSaid(f, a, b)
  <2>1. RdngSaid(f2, a, b)
          <=> \E r \in DOMAIN f.rdng : R[r].txt = a /\ Says(R[r].restr, b)
    BY <1>3, <1>9, Zenon DEF RdngSaid
  <2>2. \A r \in DOMAIN f.rdng : (R[r].txt = a /\ Says(R[r].restr, b))
                                   <=> (f.rdng[r].txt = a /\ Says(f.rdng[r].restr, b))
    BY <1>6, Zenon
  <2> QED
    BY <2>1, <2>2, Zenon DEF RdngSaid
<1>14. ASSUME NEW g, NEW b \in Txts(K) PROVE StagkSaid(f2, g, b) <=> StagkSaid(f, g, b)
  <2>1. StagkSaid(f2, g, b)
          <=> \E n \in DOMAIN f.sens : S[n].gloss = g /\ Says(S[n].restr \cap Kebs, b)
    BY <1>3, <1>9, Zenon DEF StagkSaid
  <2>2. \A n \in DOMAIN f.sens :
          (S[n].gloss = g /\ Says(S[n].restr \cap Kebs, b))
            <=> (f.sens[n].gloss = g /\ Says(f.sens[n].restr \cap Kebs, b))
    BY <1>7, Zenon
  <2> QED
    BY <2>1, <2>2, Zenon DEF StagkSaid
<1>15. ASSUME NEW g, NEW a PROVE StagrSaid(f2, g, a) <=> StagrSaid(f, g, a)
  <2>1. StagrSaid(f2, g, a)
          <=> \E n \in DOMAIN f.sens : S[n].gloss = g /\ Says(S[n].restr \ Kebs, a)
    BY <1>3, <1>9, Zenon DEF StagrSaid
  <2>2. \A n \in DOMAIN f.sens :
          (S[n].gloss = g /\ Says(S[n].restr \ Kebs, a))
            <=> (f.sens[n].gloss = g /\ Says(f.sens[n].restr \ Kebs, a))
    BY <1>7, Zenon
  <2> QED
    BY <2>1, <2>2, Zenon DEF StagrSaid
<1>16. Kept(w, f2, typed)
  <2>1. /\ Txts(f2.rdng) \subseteq Txts(f.rdng) /\ Glosses(f2) \subseteq Glosses(f)
        /\ Txts(f2.kanj) \ typed \subseteq Txts(f.kanj) \ typed
    BY <1>3, <1>4, <1>11
  <2>2. \A a \in Txts(f2.rdng) : \A b \in Txts(f2.kanj) \ typed :
          RdngSaid(f2, a, b) <=> RdngSaid(f, a, b)
    BY <1>3, <1>13
  <2>3. \A g \in Glosses(f2) : \A b \in Txts(f2.kanj) \ typed :
          StagkSaid(f2, g, b) <=> StagkSaid(f, g, b)
    BY <1>3, <1>14
  <2>4. \A g \in Glosses(f2) : \A a \in Txts(f2.rdng) :
          StagrSaid(f2, g, a) <=> StagrSaid(f, g, a)
    BY <1>15
  <2> QED
    BY <2>1, <2>2, <2>3, <2>4, SameSaid, Zenon
<1> QED
  BY <1>12, <1>16

\* A kanji more.
LEMMA AddKanjKept ==
  ASSUME NEW w, NEW f, NEW typed, FormOK(f), Kept(w, f, typed),
         NEW k \in NewKanj \ Txts(f.kanj),
         NEW f2, f2 = [f EXCEPT !.kanj = <<[txt |-> k, freq |-> Freqs]>> \o @]
  PROVE  FormOK(f2) /\ Kept(w, f2, typed \cup {k})
<1> DEFINE new == [txt |-> k, freq |-> Freqs]
           K == <<new>> \o f.kanj
<1>1. /\ f = [kanj |-> f.kanj, rdng |-> f.rdng, sens |-> f.sens]
      /\ f.kanj \in Seq(Kanj) /\ f.rdng \in Seq(FormRdng) /\ f.sens \in Seq(FormSens)
      /\ OneEach(f.kanj) /\ OneEach(f.rdng) /\ OneSense(f.sens)
      /\ \A n \in DOMAIN f.sens : \A l \in f.sens[n].refs : l.kr = Said[f.sens[n].gloss]
  BY FormOKIs
<1>2. f2 = [kanj |-> K, rdng |-> f.rdng, sens |-> f.sens]
  BY <1>1
<1>3. f2.kanj = K /\ f2.rdng = f.rdng /\ f2.sens = f.sens
  BY <1>2
<1>4. new \in Kanj /\ new.txt = k
  BY KanjiAreNoReadings DEF Kanj
<1> HIDE DEF new
<1>5. Len(f.kanj) \in Nat /\ DOMAIN f.kanj = 1 .. Len(f.kanj)
  BY <1>1, SeqIs
<1>6. /\ K \in Seq(Kanj) /\ DOMAIN K = 1 .. 1 + Len(f.kanj)
      /\ K[1] = new /\ \A j \in DOMAIN K : j # 1 => K[j] = f.kanj[j - 1]
  <2>1. <<new>> \in Seq(Kanj) /\ Len(<<new>>) = 1 /\ <<new>>[1] = new
    BY <1>4
  <2> DEFINE one == <<new>>
  <2> HIDE DEF one
  <2>2. one \in Seq(Kanj) /\ Len(one) = 1 /\ one[1] = new
    BY <2>1 DEF one
  <2>3. /\ one \o f.kanj \in Seq(Kanj) /\ Len(one \o f.kanj) = Len(one) + Len(f.kanj)
        /\ \A j \in 1 .. Len(one) + Len(f.kanj) :
             (one \o f.kanj)[j] = IF j <= Len(one) THEN one[j] ELSE f.kanj[j - Len(one)]
    BY <1>1, <2>2, ConcatProperties
  <2>4. K = one \o f.kanj
    BY DEF one
  <2> HIDE DEF K
  <2>5. DOMAIN K = 1 .. 1 + Len(f.kanj)
    BY <2>2, <2>3, <2>4, SeqIs
  <2> QED
    BY <1>5, <2>2, <2>3, <2>4, <2>5
<1> HIDE DEF K
<1>7. OneEach(K)
  <2> SUFFICES ASSUME NEW a \in DOMAIN K, NEW b \in DOMAIN K, K[a].txt = K[b].txt
               PROVE  a = b
    BY DEF OneEach
  <2>1. \A j \in DOMAIN K : j # 1 => j - 1 \in DOMAIN f.kanj /\ K[j].txt \in Txts(f.kanj)
    <3> SUFFICES ASSUME NEW j \in DOMAIN K, j # 1
                 PROVE  j - 1 \in DOMAIN f.kanj /\ K[j].txt \in Txts(f.kanj)
      OBVIOUS
    <3>1. j - 1 \in DOMAIN f.kanj
      BY <1>5, <1>6
    <3> QED
      BY <1>6, <3>1 DEF Txts
  <2>2. a = 1 <=> b = 1
    BY <1>4, <1>6, <2>1
  <2>3. CASE a # 1
    <3>1. f.kanj[a - 1].txt = f.kanj[b - 1].txt
      BY <1>6, <2>2, <2>3
    <3>2. a - 1 = b - 1
      BY <1>1, <2>1, <2>2, <2>3, <3>1 DEF OneEach
    <3> QED
      BY <1>5, <1>6, <3>2
  <2> QED
    BY <2>2, <2>3
<1>8. Txts(K) \ {k} \subseteq Txts(f.kanj)
  <2> SUFFICES ASSUME NEW j \in DOMAIN K, K[j].txt # k PROVE K[j].txt \in Txts(f.kanj)
    BY DEF Txts
  <2>1. j # 1
    BY <1>4, <1>6
  <2>2. j - 1 \in DOMAIN f.kanj /\ K[j] = f.kanj[j - 1]
    BY <1>5, <1>6, <2>1
  <2> QED
    BY <2>2 DEF Txts
<1>9. FormOK(f2)
  <2>1. f2 \in FormEntry
    <3>1. K \in Seq(Kanj) /\ f.rdng \in Seq(FormRdng) /\ f.sens \in Seq(FormSens)
      BY <1>1, <1>6
    <3>2. [kanj |-> K, rdng |-> f.rdng, sens |-> f.sens] \in FormEntry
      BY <3>1, FormEntryIs, Zenon
    <3> QED
      BY <1>2, <3>2, Zenon
  <2> QED
    BY <1>1, <1>3, <1>7, <2>1 DEF FormOK
<1>10. \A a, b : /\ RdngSaid(f2, a, b) <=> RdngSaid(f, a, b)
                 /\ StagkSaid(f2, a, b) <=> StagkSaid(f, a, b)
                 /\ StagrSaid(f2, a, b) <=> StagrSaid(f, a, b)
  BY <1>3 DEF RdngSaid, StagkSaid, StagrSaid
<1>11. Glosses(f2) = Glosses(f)
  BY <1>3 DEF Glosses
<1>12. Kept(w, f2, typed \cup {k})
  <2>1. Txts(f2.kanj) \ (typed \cup {k}) \subseteq Txts(f.kanj) \ typed
    BY <1>3, <1>8
  <2>2. Txts(f2.rdng) = Txts(f.rdng)
    BY <1>3
  <2> QED
    BY <1>10, <1>11, <2>1, <2>2, SameSaid
<1> QED
  BY <1>9, <1>12

-----------------------------------------------------------------------------
(* The form as an entry. *)

\* The numbers of the texts that are not named.
LEMMA ExcludedIs ==
  ASSUME NEW list, NEW names
  PROVE  /\ Excluded(names, list) \subseteq DOMAIN list
         /\ \A k \in DOMAIN list : k \notin Excluded(names, list)
                                     <=> Says(names, list[k].txt)
         /\ names \subseteq Txts(list) /\ Excluded(names, list) = DOMAIN list
              => DOMAIN list = {}
<1>1. CASE names = {}
  BY <1>1 DEF Excluded, Says
<1>2. CASE names # {}
  <2>1. Excluded(names, list) = {i \in DOMAIN list : list[i].txt \notin names}
    BY <1>2 DEF Excluded
  <2>2. ASSUME names \subseteq Txts(list), Excluded(names, list) = DOMAIN list
        PROVE  FALSE
    <3>1. PICK n \in names : n \in Txts(list)
      BY <1>2, <2>2
    <3>2. PICK i \in DOMAIN list : n = list[i].txt
      BY <3>1 DEF Txts
    <3> QED
      BY <2>1, <2>2, <3>1, <3>2
  <2> QED
    BY <1>2, <2>1, <2>2 DEF Says
<1> QED
  BY <1>1, <1>2

\* The frequencies of a text.
LEMMA FreqOfIs ==
  ASSUME NEW list, NEW txt, txt # NoTxt,
         \A i \in DOMAIN list : list[i].freq \in SUBSET Freqs
  PROVE  FreqOf(list, txt) \in SUBSET Freqs
<1>1. CASE txt \in Txts(list)
  <2>1. \E i \in DOMAIN list : list[i].txt = txt
    BY <1>1 DEF Txts
  <2>2. Place(list, txt) \in DOMAIN list
    BY <2>1 DEF Place
  <2>3. FreqOf(list, txt) = list[Place(list, txt)].freq
    BY <1>1 DEF FreqOf
  <2> QED
    BY <2>2, <2>3
<1>2. CASE txt \notin Txts(list)
  BY <1>2 DEF FreqOf
<1> QED
  BY <1>1, <1>2

\* An entry that was made of a form.
MadeOf(f, w) ==
  /\ DOMAIN w.kanj = DOMAIN f.kanj
  /\ \A i \in DOMAIN f.kanj : w.kanj[i].txt = f.kanj[i].txt
  /\ DOMAIN w.rdng = DOMAIN f.rdng
  /\ \A i \in DOMAIN f.rdng : /\ w.rdng[i].txt = f.rdng[i].txt
                              /\ w.rdng[i].restr = Excluded(f.rdng[i].restr, f.kanj)
  /\ DOMAIN w.sens = DOMAIN f.sens
  /\ \A n \in DOMAIN f.sens :
       /\ w.sens[n].gloss = f.sens[n].gloss
       /\ w.sens[n].stagk = Excluded(f.sens[n].restr \cap Kebs, f.kanj)
       /\ w.sens[n].stagr = Excluded(f.sens[n].restr \ Kebs, f.rdng)

\* The frequencies are those of the parent.
FreqsOf(list, parent) ==
  \A i \in DOMAIN list : list[i].freq = FreqOf(parent, list[i].txt)

\* A line that was taken apart.
LEMMA ApartIs ==
  ASSUME NEW lines \in SUBSET Xrslv, NEW kr, \A l \in lines : l.kr = kr
  PROVE  \A v \in Apart(lines) : v \in Xrslv /\ v.kr = kr /\ v.senses \subseteq Nat
<1> SUFFICES ASSUME NEW v \in Apart(lines)
             PROVE  v \in Xrslv /\ v.kr = kr /\ v.senses \subseteq Nat
  OBVIOUS
<1>1. PICK l \in lines : v \in {[num |-> l.num, senses |-> {s}, kr |-> l.kr] : s \in l.senses}
  BY Zenon DEF Apart
<1>2. PICK s \in l.senses : v = [num |-> l.num, senses |-> {s}, kr |-> l.kr]
  BY <1>1
<1>3. l.num \in Int /\ l.kr \in Name /\ s \in Nat /\ l.kr = kr
  BY DEF Xrslv
<1> QED
  BY <1>2, <1>3 DEF Xrslv

\* The kanji, and the readings, of an entry that was made of a form.
KanjFrom(u, list, parent, new) ==
  /\ new \in Seq(Kanj) /\ DOMAIN new = DOMAIN list
  /\ \A i \in DOMAIN list : new[i].txt = list[i].txt
  /\ u \notin Editors => FreqsOf(new, parent)
RdngFrom(u, list, parent, new) ==
  /\ new \in Seq(Rdng) /\ DOMAIN new = DOMAIN list
  /\ \A i \in DOMAIN list : new[i].txt = list[i].txt /\ new[i].restr = list[i].restr
  /\ u \notin Editors => FreqsOf(new, parent)

\* The kanji of a new entry are those of the form; from somebody who is no
\* editor they have the frequencies that the parent gives them.
LEMMA KanjMade ==
  ASSUME NEW u, NEW list \in Seq(Kanj), NEW parent \in Seq(Kanj),
         NEW new, new = IF u \in Editors THEN list ELSE Copied(list, parent)
  PROVE  KanjFrom(u, list, parent, new)
<1>1. /\ \A i \in DOMAIN list : list[i] \in Kanj
      /\ \A i \in DOMAIN parent : parent[i] \in Kanj
  BY SeqIs
<1>2. CASE u \in Editors
  BY <1>2 DEF KanjFrom
<1>3. CASE u \notin Editors
  <2>1. /\ new = [i \in DOMAIN list |-> new[i]] /\ DOMAIN new = DOMAIN list
        /\ \A i \in DOMAIN list :
             new[i] = [list[i] EXCEPT !.freq = FreqOf(parent, list[i].txt)]
    BY <1>3 DEF Copied
  <2>2. ASSUME NEW i \in DOMAIN list
        PROVE  /\ new[i] \in Kanj /\ new[i].txt = list[i].txt
               /\ new[i].freq = FreqOf(parent, new[i].txt)
    <3> DEFINE freq == FreqOf(parent, list[i].txt)
    <3>1. /\ list[i] = [txt |-> list[i].txt, freq |-> list[i].freq]
          /\ list[i].txt \in Kebs /\ list[i].txt # NoTxt
      BY <1>1, NoTextIsNone DEF Kanj
    <3>2. \A j \in DOMAIN parent : parent[j].freq \in SUBSET Freqs
      BY <1>1 DEF Kanj
    <3>3. freq \in SUBSET Freqs
      BY <3>1, <3>2, FreqOfIs
    <3>4. new[i] = [list[i] EXCEPT !.freq = freq]
      BY <2>1
    <3> HIDE DEF freq
    <3>5. new[i] = [txt |-> list[i].txt, freq |-> freq]
      BY <3>1, <3>4
    <3>6. new[i] \in Kanj
      BY <3>1, <3>3, <3>5 DEF Kanj
    <3> QED
      BY <3>5, <3>6 DEF freq
  <2>3. new \in Seq(Kanj)
    BY <2>1, <2>2, MapIsSeq
  <2> QED
    BY <1>3, <2>1, <2>2, <2>3 DEF FreqsOf, KanjFrom
<1> QED
  BY <1>2, <1>3

\* So are the readings, with the restrictions that the form gives them.
LEMMA RdngMade ==
  ASSUME NEW u, NEW list \in Seq(Rdng), NEW parent \in Seq(Rdng),
         NEW new, new = IF u \in Editors THEN list ELSE Copied(list, parent)
  PROVE  RdngFrom(u, list, parent, new)
<1>1. /\ \A i \in DOMAIN list : list[i] \in Rdng
      /\ \A i \in DOMAIN parent : parent[i] \in Rdng
  BY SeqIs
<1>2. CASE u \in Editors
  BY <1>2 DEF RdngFrom
<1>3. CASE u \notin Editors
  <2>1. /\ new = [i \in DOMAIN list |-> new[i]] /\ DOMAIN new = DOMAIN list
        /\ \A i \in DOMAIN list :
             new[i] = [list[i] EXCEPT !.freq = FreqOf(parent, list[i].txt)]
    BY <1>3 DEF Copied
  <2>2. ASSUME NEW i \in DOMAIN list
        PROVE  /\ new[i] \in Rdng /\ new[i].txt = list[i].txt
               /\ new[i].restr = list[i].restr
               /\ new[i].freq = FreqOf(parent, new[i].txt)
    <3> DEFINE freq == FreqOf(parent, list[i].txt)
    <3>1. /\ list[i] = [txt |-> list[i].txt, freq |-> list[i].freq, restr |-> list[i].restr]
          /\ list[i].txt \in Rebs /\ list[i].txt # NoTxt /\ list[i].restr \in SUBSET Nat
      BY <1>1, NoTextIsNone DEF Rdng
    <3>2. \A j \in DOMAIN parent : parent[j].freq \in SUBSET Freqs
      BY <1>1 DEF Rdng
    <3>3. freq \in SUBSET Freqs
      BY <3>1, <3>2, FreqOfIs
    <3>4. new[i] = [list[i] EXCEPT !.freq = freq]
      BY <2>1
    <3> HIDE DEF freq
    <3>5. new[i] = [txt |-> list[i].txt, freq |-> freq, restr |-> list[i].restr]
      BY <3>1, <3>4
    <3>6. new[i] \in Rdng
      BY <3>1, <3>3, <3>5 DEF Rdng
    <3> QED
      BY <3>5, <3>6 DEF freq
  <2>3. new \in Seq(Rdng)
    BY <2>1, <2>2, MapIsSeq
  <2> QED
    BY <1>3, <2>1, <2>2, <2>3 DEF FreqsOf, RdngFrom
<1> QED
  BY <1>2, <1>3

\* A number and three lists of the right kinds make an entry.
LEMMA EntryIs ==
  ASSUME NEW q \in Nat, NEW K \in Seq(Kanj), NEW R \in Seq(Rdng), NEW S \in Seq(Sens)
  PROVE  [seq |-> q, kanj |-> K, rdng |-> R, sens |-> S] \in Entry
BY DEF Entry

\* A list with no places is the empty list.
LEMMA NoElements ==
  ASSUME NEW S, NEW s \in Seq(S), DOMAIN s = {}
  PROVE  s = <<>>
<1>1. Len(s) \in Nat /\ 1 .. Len(s) = {}
  BY SeqIs
<1>2. Len(s) = 0
  BY <1>1
<1> QED
  BY <1>2, EmptySeq

RdngOf(f, R) ==
  /\ R \in Seq(Rdng) /\ DOMAIN R = DOMAIN f.rdng
  /\ \A i \in DOMAIN f.rdng :
       /\ R[i].txt = f.rdng[i].txt
       /\ R[i].restr = Excluded(f.rdng[i].restr, f.kanj)
SensOf(f, S) ==
  /\ S \in Seq(Sens) /\ DOMAIN S = DOMAIN f.sens
  /\ \A n \in DOMAIN f.sens :
       /\ S[n].gloss = f.sens[n].gloss
       /\ S[n].stagk = Excluded(f.sens[n].restr \cap Kebs, f.kanj)
       /\ S[n].stagr = Excluded(f.sens[n].restr \ Kebs, f.rdng)
       /\ S[n].stagk = DOMAIN f.kanj => f.kanj = <<>>
       /\ S[n].stagr = DOMAIN f.rdng => f.rdng = <<>>
       /\ \A v \in S[n].xrslv : v.kr = Said[f.sens[n].gloss]

\* The readings of a form with the numbers of the kanji that they exclude.
LEMMA RdngNumbers ==
  ASSUME NEW f, FormOK(f), NEW R,
         R = [i \in DOMAIN f.rdng |->
                [f.rdng[i] EXCEPT !.restr = Excluded(f.rdng[i].restr, f.kanj)]]
  PROVE  RdngOf(f, R)
<1>1. /\ f.kanj \in Seq(Kanj) /\ f.rdng \in Seq(FormRdng)
      /\ \A i \in DOMAIN f.rdng : f.rdng[i] \in FormRdng
  BY FormOKIs
<1>2. DOMAIN f.kanj \subseteq Nat
  BY <1>1, SeqIs
<1>3. ASSUME NEW i \in DOMAIN f.rdng
      PROVE  /\ R[i] \in Rdng /\ R[i].txt = f.rdng[i].txt
             /\ R[i].restr = Excluded(f.rdng[i].restr, f.kanj)
  <2> DEFINE ex == Excluded(f.rdng[i].restr, f.kanj)
  <2>1. ex \in SUBSET Nat
    BY <1>2, ExcludedIs
  <2>2. R[i] = [f.rdng[i] EXCEPT !.restr = ex]
    OBVIOUS
  <2> HIDE DEF ex
  <2>3. /\ f.rdng[i] = [txt |-> f.rdng[i].txt, freq |-> f.rdng[i].freq,
                        restr |-> f.rdng[i].restr]
        /\ f.rdng[i].txt \in Rebs /\ f.rdng[i].freq \in SUBSET Freqs
    BY <1>1 DEF FormRdng
  <2>4. R[i] = [txt |-> f.rdng[i].txt, freq |-> f.rdng[i].freq, restr |-> ex]
    BY <2>2, <2>3
  <2>5. R[i] \in Rdng
    BY <2>1, <2>3, <2>4 DEF Rdng
  <2> QED
    BY <2>4, <2>5 DEF ex
<1>4. R = [i \in DOMAIN f.rdng |-> R[i]] /\ DOMAIN R = DOMAIN f.rdng
  OBVIOUS
<1>5. R \in Seq(Rdng)
  <2> DEFINE T == R
  <2>1. \A i \in DOMAIN f.rdng : T[i] \in Rdng
    BY <1>3
  <2>2. T = [i \in DOMAIN f.rdng |-> T[i]]
    BY <1>4
  <2> HIDE DEF T
  <2>3. T \in Seq(Rdng)
    BY <1>1, <2>1, <2>2, MapIsSeq
  <2> QED
    BY <2>3 DEF T
<1> QED
  BY <1>3, <1>4, <1>5 DEF RdngOf

\* The senses of a form with the numbers of what they exclude, and with the
\* references that were not resolved.
LEMMA SensNumbers ==
  ASSUME NEW f, FormOK(f), Reads(f), NEW S,
         S = [n \in DOMAIN f.sens |->
                [gloss |-> f.sens[n].gloss,
                 stagk |-> Excluded(f.sens[n].restr \cap Kebs, f.kanj),
                 stagr |-> Excluded(f.sens[n].restr \ Kebs, f.rdng),
                 xrslv |-> {v \in Apart(f.sens[n].refs) : ~Resolves(v)}]]
  PROVE  SensOf(f, S)
<1>1. /\ f.kanj \in Seq(Kanj) /\ f.rdng \in Seq(FormRdng) /\ f.sens \in Seq(FormSens)
      /\ \A n \in DOMAIN f.sens :
           /\ f.sens[n] \in FormSens
           /\ \A l \in f.sens[n].refs : l.kr = Said[f.sens[n].gloss]
  BY FormOKIs
<1>2. DOMAIN f.kanj \subseteq Nat /\ DOMAIN f.rdng \subseteq Nat
  BY <1>1, SeqIs
<1>3. /\ DOMAIN f.kanj = {} => f.kanj = <<>>
      /\ DOMAIN f.rdng = {} => f.rdng = <<>>
  BY <1>1, NoElements
<1>4. ASSUME NEW n \in DOMAIN f.sens
      PROVE  /\ S[n] \in Sens
             /\ S[n].gloss = f.sens[n].gloss
             /\ S[n].stagk = Excluded(f.sens[n].restr \cap Kebs, f.kanj)
             /\ S[n].stagr = Excluded(f.sens[n].restr \ Kebs, f.rdng)
             /\ S[n].stagk = DOMAIN f.kanj => f.kanj = <<>>
             /\ S[n].stagr = DOMAIN f.rdng => f.rdng = <<>>
             /\ \A v \in S[n].xrslv : v.kr = Said[f.sens[n].gloss]
  <2> DEFINE ks == f.sens[n].restr \cap Kebs
             rs == f.sens[n].restr \ Kebs
             exk == Excluded(ks, f.kanj)
             exr == Excluded(rs, f.rdng)
             left == {v \in Apart(f.sens[n].refs) : ~Resolves(v)}
  <2>1. f.sens[n].gloss \in DOMAIN Said /\ f.sens[n].refs \in SUBSET Xrslv
    BY <1>1 DEF FormSens
  <2>2. ks \subseteq Txts(f.kanj) /\ rs \subseteq Txts(f.rdng)
    BY DEF Reads
  <2>3. \A v \in Apart(f.sens[n].refs) : v \in Xrslv /\ v.kr = Said[f.sens[n].gloss]
    <3> DEFINE lines == f.sens[n].refs
               kr == Said[f.sens[n].gloss]
    <3>1. lines \in SUBSET Xrslv /\ \A l \in lines : l.kr = kr
      BY <1>1, <2>1
    <3> HIDE DEF lines, kr
    <3>2. \A v \in Apart(lines) : v \in Xrslv /\ v.kr = kr
      BY <3>1, ApartIs
    <3> QED
      BY <3>2 DEF lines, kr
  <2>4. left \in SUBSET Xrslv /\ \A v \in left : v.kr = Said[f.sens[n].gloss]
    BY <2>3
  <2>5. S[n] = [gloss |-> f.sens[n].gloss, stagk |-> exk, stagr |-> exr, xrslv |-> left]
    OBVIOUS
  <2> HIDE DEF ks, rs, left
  <2>6. exk \subseteq DOMAIN f.kanj /\ (exk = DOMAIN f.kanj => f.kanj = <<>>)
    BY <1>3, <2>2, ExcludedIs
  <2>7. exr \subseteq DOMAIN f.rdng /\ (exr = DOMAIN f.rdng => f.rdng = <<>>)
    BY <1>3, <2>2, ExcludedIs
  <2> HIDE DEF exk, exr
  <2>8. S[n] \in Sens
    BY <1>2, <2>1, <2>4, <2>5, <2>6, <2>7 DEF Sens
  <2>9. /\ S[n].gloss = f.sens[n].gloss /\ S[n].stagk = exk /\ S[n].stagr = exr
        /\ S[n].xrslv = left
    BY <2>5
  <2> HIDE DEF exk, exr
  <2>10. exk = Excluded(f.sens[n].restr \cap Kebs, f.kanj)
    BY DEF exk, ks
  <2>11. exr = Excluded(f.sens[n].restr \ Kebs, f.rdng)
    BY DEF exr, rs
  <2> QED
    BY <2>4, <2>6, <2>7, <2>8, <2>9, <2>10, <2>11
<1>5. S = [n \in DOMAIN f.sens |-> S[n]] /\ DOMAIN S = DOMAIN f.sens
  OBVIOUS
<1> DEFINE T == S
<1>6. S \in Seq(Sens)
  <2>1. \A n \in DOMAIN f.sens : T[n] \in Sens
    BY <1>4
  <2>2. T = [n \in DOMAIN f.sens |-> T[n]]
    BY <1>5
  <2> HIDE DEF T
  <2>3. T \in Seq(Sens)
    BY <1>1, <2>1, <2>2, MapIsSeq
  <2> QED
    BY <2>3 DEF T
<1> QED
  BY <1>4, <1>5, <1>6 DEF SensOf

\* What edconf makes of a form.
LEMMA MadeIs ==
  ASSUME NEW u, NEW f, FormOK(f), Reads(f), NEW p \in DOMAIN entr,
         EntrOK, NEW w, w = Made(u, f, p)
  PROVE  /\ Formed(w) /\ MadeOf(f, w) /\ w.seq = entr[p].seq
         /\ u \notin Editors => /\ FreqsOf(w.kanj, entr[p].kanj)
                                /\ FreqsOf(w.rdng, entr[p].rdng)
<1> DEFINE K == IF u \in Editors THEN f.kanj ELSE Copied(f.kanj, entr[p].kanj)
           R0 == [i \in DOMAIN f.rdng |->
                    [f.rdng[i] EXCEPT !.restr = Excluded(f.rdng[i].restr, f.kanj)]]
           R == IF u \in Editors THEN R0 ELSE Copied(R0, entr[p].rdng)
           S == [n \in DOMAIN f.sens |->
                   [gloss |-> f.sens[n].gloss,
                    stagk |-> Excluded(f.sens[n].restr \cap Kebs, f.kanj),
                    stagr |-> Excluded(f.sens[n].restr \ Kebs, f.rdng),
                    xrslv |-> {v \in Apart(f.sens[n].refs) : ~Resolves(v)}]]
<1>1. Formed(entr[p]) /\ entr[p].seq \in Nat /\ entr[p].kanj \in Seq(Kanj)
        /\ entr[p].rdng \in Seq(Rdng)
  BY DEF EntrOK, Entry
<1>2. /\ f.kanj \in Seq(Kanj) /\ OneEach(f.kanj) /\ OneEach(f.rdng) /\ OneSense(f.sens)
  BY FormOKIs
<1>3. w = [seq |-> entr[p].seq, kanj |-> K, rdng |-> R, sens |-> S]
  BY DEF Made
<1>4. KanjFrom(u, f.kanj, entr[p].kanj, K)
  BY <1>1, <1>2, KanjMade, Zenon
<1>5. RdngOf(f, R0)
  BY RdngNumbers, Zenon
<1> HIDE DEF R0
<1>6. RdngFrom(u, R0, entr[p].rdng, R)
  <2>1. R0 \in Seq(Rdng)
    BY <1>5 DEF RdngOf
  <2> QED
    BY <1>1, <2>1, RdngMade, Zenon
<1>7. SensOf(f, S)
  BY SensNumbers, Zenon
<1> HIDE DEF K, R, S
<1>8. /\ w.seq = entr[p].seq /\ w.kanj = K /\ w.rdng = R /\ w.sens = S
  BY <1>3
<1> USE DEF KanjFrom, RdngOf, RdngFrom, SensOf
<1>9. MadeOf(f, w)
  BY <1>4, <1>5, <1>6, <1>7, <1>8 DEF MadeOf
<1>10. w \in Entry
  BY <1>1, <1>3, <1>4, <1>6, <1>7, EntryIs
<1>11. /\ \A i, j \in DOMAIN K : K[i].txt = K[j].txt => i = j
       /\ \A i, j \in DOMAIN R : R[i].txt = R[j].txt => i = j
       /\ \A i, j \in DOMAIN S : S[i].gloss = S[j].gloss => i = j
  <2>1. \A i, j \in DOMAIN K : K[i].txt = K[j].txt => i = j
    BY <1>2, <1>4 DEF OneEach
  <2>2. \A i, j \in DOMAIN R : R[i].txt = R[j].txt => i = j
    BY <1>2, <1>5, <1>6 DEF OneEach
  <2>3. \A i, j \in DOMAIN S : S[i].gloss = S[j].gloss => i = j
    BY <1>2, <1>7 DEF OneSense
  <2> QED
    BY <2>1, <2>2, <2>3
<1>12. \A i \in DOMAIN R : R[i].restr \subseteq DOMAIN K
  BY <1>4, <1>5, <1>6, ExcludedIs
<1>13. \A n \in DOMAIN S : S[n].stagk \subseteq DOMAIN K /\ S[n].stagr \subseteq DOMAIN R
  <2> SUFFICES ASSUME NEW n \in DOMAIN S
               PROVE  S[n].stagk \subseteq DOMAIN K /\ S[n].stagr \subseteq DOMAIN R
    OBVIOUS
  <2>1. /\ Excluded(f.sens[n].restr \cap Kebs, f.kanj) \subseteq DOMAIN f.kanj
        /\ Excluded(f.sens[n].restr \ Kebs, f.rdng) \subseteq DOMAIN f.rdng
    BY ExcludedIs
  <2> QED
    BY <1>4, <1>5, <1>6, <1>7, <2>1
<1>14. /\ f.kanj = <<>> => K = <<>>
       /\ f.rdng = <<>> => R = <<>>
  <2>1. f.kanj = <<>> => DOMAIN K = {}
    BY <1>4
  <2>2. f.rdng = <<>> => DOMAIN R = {}
    BY <1>5, <1>6
  <2>3. DOMAIN K = {} => K = <<>>
    BY <1>4, NoElements
  <2>4. DOMAIN R = {} => R = <<>>
    BY <1>6, NoElements
  <2> QED
    BY <2>1, <2>2, <2>3, <2>4
<1>15. \A n \in DOMAIN S : /\ S[n].stagk = DOMAIN K => K = <<>>
                           /\ S[n].stagr = DOMAIN R => R = <<>>
                           /\ \A v \in S[n].xrslv : v.kr = Said[S[n].gloss]
  BY <1>4, <1>5, <1>6, <1>7, <1>14
<1>16. Formed(w)
  BY <1>8, <1>10, <1>11, <1>12, <1>13, <1>15 DEF Formed
<1> QED
  BY <1>4, <1>6, <1>8, <1>9, <1>16

\* The pairs that an entry permits.
LEMMA PermittedIs ==
  ASSUME NEW w, NEW a, NEW b
  PROVE  /\ <<"restr", a, b>> \in Permitted(w) <=> RdngFree(w, a, b)
         /\ <<"stagk", a, b>> \in Permitted(w) <=> StagkFree(w, a, b)
         /\ <<"stagr", a, b>> \in Permitted(w) <=> StagrFree(w, a, b)
<1> DEFINE A == {<<"restr", w.rdng[ik[1]].txt, w.kanj[ik[2]].txt>> :
                   ik \in {jk \in (DOMAIN w.rdng) \X (DOMAIN w.kanj) :
                            jk[2] \notin w.rdng[jk[1]].restr}}
           B == {<<"stagk", w.sens[nk[1]].gloss, w.kanj[nk[2]].txt>> :
                   nk \in {mk \in (DOMAIN w.sens) \X (DOMAIN w.kanj) :
                            mk[2] \notin w.sens[mk[1]].stagk}}
           C == {<<"stagr", w.sens[ni[1]].gloss, w.rdng[ni[2]].txt>> :
                   ni \in {mi \in (DOMAIN w.sens) \X (DOMAIN w.rdng) :
                            mi[2] \notin w.sens[mi[1]].stagr}}
<1>1. Permitted(w) = (A \cup B) \cup C
  BY Zenon DEF Permitted
<1>2. \A t : t \in A <=> \E i \in DOMAIN w.rdng, k \in DOMAIN w.kanj :
        k \notin w.rdng[i].restr /\ t = <<"restr", w.rdng[i].txt, w.kanj[k].txt>>
  <2> SUFFICES ASSUME NEW t
               PROVE  t \in A <=> \E i \in DOMAIN w.rdng, k \in DOMAIN w.kanj :
                        k \notin w.rdng[i].restr
                          /\ t = <<"restr", w.rdng[i].txt, w.kanj[k].txt>>
    OBVIOUS
  <2>1. ASSUME t \in A
        PROVE  \E i \in DOMAIN w.rdng, k \in DOMAIN w.kanj :
                 k \notin w.rdng[i].restr /\ t = <<"restr", w.rdng[i].txt, w.kanj[k].txt>>
    BY <2>1
  <2>2. ASSUME NEW i \in DOMAIN w.rdng, NEW k \in DOMAIN w.kanj, k \notin w.rdng[i].restr,
               t = <<"restr", w.rdng[i].txt, w.kanj[k].txt>>
        PROVE  t \in A
    <3>1. /\ <<i, k>> \in (DOMAIN w.rdng) \X (DOMAIN w.kanj)
          /\ <<i, k>>[1] = i /\ <<i, k>>[2] = k
      OBVIOUS
    <3> QED
      BY <2>2, <3>1
  <2> QED
    BY <2>1, <2>2
<1>3. \A t : t \in B <=> \E n \in DOMAIN w.sens, k \in DOMAIN w.kanj :
        k \notin w.sens[n].stagk /\ t = <<"stagk", w.sens[n].gloss, w.kanj[k].txt>>
  <2> SUFFICES ASSUME NEW t
               PROVE  t \in B <=> \E n \in DOMAIN w.sens, k \in DOMAIN w.kanj :
                        k \notin w.sens[n].stagk
                          /\ t = <<"stagk", w.sens[n].gloss, w.kanj[k].txt>>
    OBVIOUS
  <2>1. ASSUME t \in B
        PROVE  \E n \in DOMAIN w.sens, k \in DOMAIN w.kanj :
                 k \notin w.sens[n].stagk /\ t = <<"stagk", w.sens[n].gloss, w.kanj[k].txt>>
    BY <2>1
  <2>2. ASSUME NEW n \in DOMAIN w.sens, NEW k \in DOMAIN w.kanj, k \notin w.sens[n].stagk,
               t = <<"stagk", w.sens[n].gloss, w.kanj[k].txt>>
        PROVE  t \in B
    <3>1. /\ <<n, k>> \in (DOMAIN w.sens) \X (DOMAIN w.kanj)
          /\ <<n, k>>[1] = n /\ <<n, k>>[2] = k
      OBVIOUS
    <3> QED
      BY <2>2, <3>1
  <2> QED
    BY <2>1, <2>2
<1>4. \A t : t \in C <=> \E n \in DOMAIN w.sens, i \in DOMAIN w.rdng :
        i \notin w.sens[n].stagr /\ t = <<"stagr", w.sens[n].gloss, w.rdng[i].txt>>
  <2> SUFFICES ASSUME NEW t
               PROVE  t \in C <=> \E n \in DOMAIN w.sens, i \in DOMAIN w.rdng :
                        i \notin w.sens[n].stagr
                          /\ t = <<"stagr", w.sens[n].gloss, w.rdng[i].txt>>
    OBVIOUS
  <2>1. ASSUME t \in C
        PROVE  \E n \in DOMAIN w.sens, i \in DOMAIN w.rdng :
                 i \notin w.sens[n].stagr /\ t = <<"stagr", w.sens[n].gloss, w.rdng[i].txt>>
    BY <2>1
  <2>2. ASSUME NEW n \in DOMAIN w.sens, NEW i \in DOMAIN w.rdng, i \notin w.sens[n].stagr,
               t = <<"stagr", w.sens[n].gloss, w.rdng[i].txt>>
        PROVE  t \in C
    <3>1. /\ <<n, i>> \in (DOMAIN w.sens) \X (DOMAIN w.rdng)
          /\ <<n, i>>[1] = n /\ <<n, i>>[2] = i
      OBVIOUS
    <3> QED
      BY <2>2, <3>1
  <2> QED
    BY <2>1, <2>2
<1> HIDE DEF A, B, C
<1>5. /\ <<"restr", a, b>> \notin B /\ <<"restr", a, b>> \notin C
      /\ <<"stagk", a, b>> \notin A /\ <<"stagk", a, b>> \notin C
      /\ <<"stagr", a, b>> \notin A /\ <<"stagr", a, b>> \notin B
  BY <1>2, <1>3, <1>4
<1>6. /\ <<"restr", a, b>> \in A <=> RdngFree(w, a, b)
      /\ <<"stagk", a, b>> \in B <=> StagkFree(w, a, b)
      /\ <<"stagr", a, b>> \in C <=> StagrFree(w, a, b)
  BY <1>2, <1>3, <1>4 DEF RdngFree, StagkFree, StagrFree
<1> QED
  BY <1>1, <1>5, <1>6

\* An entry that was made of a form permits the pairs that the form says.
LEMMA MadeSays ==
  ASSUME NEW f, NEW w, MadeOf(f, w)
  PROVE  /\ Txts(w.kanj) = Txts(f.kanj) /\ Txts(w.rdng) = Txts(f.rdng)
         /\ Glosses(w) = Glosses(f)
         /\ \A a : \A b \in Txts(f.kanj) : RdngFree(w, a, b) <=> RdngSaid(f, a, b)
         /\ \A g : \A b \in Txts(f.kanj) : StagkFree(w, g, b) <=> StagkSaid(f, g, b)
         /\ \A g : \A a \in Txts(f.rdng) : StagrFree(w, g, a) <=> StagrSaid(f, g, a)
<1>1. Txts(w.kanj) = Txts(f.kanj) /\ Txts(w.rdng) = Txts(f.rdng)
  BY DEF Txts, MadeOf
<1>2. Glosses(w) = Glosses(f)
  BY DEF Glosses, MadeOf
<1>3. \A i \in DOMAIN f.rdng, k \in DOMAIN f.kanj :
        k \notin w.rdng[i].restr <=> Says(f.rdng[i].restr, w.kanj[k].txt)
  BY ExcludedIs DEF MadeOf
<1>4. \A n \in DOMAIN f.sens, k \in DOMAIN f.kanj :
        k \notin w.sens[n].stagk <=> Says(f.sens[n].restr \cap Kebs, f.kanj[k].txt)
  <2> SUFFICES ASSUME NEW n \in DOMAIN f.sens, NEW k \in DOMAIN f.kanj
               PROVE  k \notin w.sens[n].stagk
                        <=> Says(f.sens[n].restr \cap Kebs, f.kanj[k].txt)
    OBVIOUS
  <2> DEFINE names == f.sens[n].restr \cap Kebs
  <2>1. w.sens[n].stagk = Excluded(names, f.kanj)
    BY DEF MadeOf
  <2> HIDE DEF names
  <2>2. k \notin w.sens[n].stagk <=> Says(names, f.kanj[k].txt)
    BY <2>1, ExcludedIs
  <2> QED
    BY <2>2 DEF names
<1>5. \A n \in DOMAIN f.sens, i \in DOMAIN f.rdng :
        i \notin w.sens[n].stagr <=> Says(f.sens[n].restr \ Kebs, f.rdng[i].txt)
  <2> SUFFICES ASSUME NEW n \in DOMAIN f.sens, NEW i \in DOMAIN f.rdng
               PROVE  i \notin w.sens[n].stagr
                        <=> Says(f.sens[n].restr \ Kebs, f.rdng[i].txt)
    OBVIOUS
  <2> DEFINE names == f.sens[n].restr \ Kebs
  <2>1. w.sens[n].stagr = Excluded(names, f.rdng)
    BY DEF MadeOf
  <2> HIDE DEF names
  <2>2. i \notin w.sens[n].stagr <=> Says(names, f.rdng[i].txt)
    BY <2>1, ExcludedIs
  <2> QED
    BY <2>2 DEF names
<1>6. ASSUME NEW a, NEW b \in Txts(f.kanj)
      PROVE  RdngFree(w, a, b) <=> RdngSaid(f, a, b)
  <2>1. RdngFree(w, a, b)
          <=> \E i \in DOMAIN f.rdng, k \in DOMAIN f.kanj :
                f.rdng[i].txt = a /\ f.kanj[k].txt = b /\ Says(f.rdng[i].restr, b)
    BY <1>3 DEF RdngFree, MadeOf
  <2>2. \E k \in DOMAIN f.kanj : f.kanj[k].txt = b
    BY DEF Txts
  <2> QED
    BY <2>1, <2>2 DEF RdngSaid
<1>7. ASSUME NEW g, NEW b \in Txts(f.kanj)
      PROVE  StagkFree(w, g, b) <=> StagkSaid(f, g, b)
  <2>1. StagkFree(w, g, b)
          <=> \E n \in DOMAIN f.sens, k \in DOMAIN f.kanj :
                f.sens[n].gloss = g /\ f.kanj[k].txt = b /\ Says(f.sens[n].restr \cap Kebs, b)
    <3>1. StagkFree(w, g, b)
            <=> \E n \in DOMAIN f.sens, k \in DOMAIN f.kanj :
                  f.sens[n].gloss = g /\ f.kanj[k].txt = b /\ k \notin w.sens[n].stagk
      BY DEF StagkFree, MadeOf
    <3> QED
      BY <1>4, <3>1, Zenon
  <2>2. \E k \in DOMAIN f.kanj : f.kanj[k].txt = b
    BY DEF Txts
  <2> QED
    BY <2>1, <2>2 DEF StagkSaid
<1>8. ASSUME NEW g, NEW a \in Txts(f.rdng)
      PROVE  StagrFree(w, g, a) <=> StagrSaid(f, g, a)
  <2>1. StagrFree(w, g, a)
          <=> \E n \in DOMAIN f.sens, i \in DOMAIN f.rdng :
                f.sens[n].gloss = g /\ f.rdng[i].txt = a /\ Says(f.sens[n].restr \ Kebs, a)
    <3>1. StagrFree(w, g, a)
            <=> \E n \in DOMAIN f.sens, i \in DOMAIN f.rdng :
                  f.sens[n].gloss = g /\ f.rdng[i].txt = a /\ i \notin w.sens[n].stagr
      BY DEF StagrFree, MadeOf
    <3> QED
      BY <1>5, <3>1, Zenon
  <2>2. \E i \in DOMAIN f.rdng : f.rdng[i].txt = a
    BY DEF Txts
  <2> QED
    BY <2>1, <2>2 DEF StagrSaid
<1> QED
  BY <1>1, <1>2, <1>6, <1>7, <1>8

\* The pairs of an entry.
LEMMA PairIs ==
  ASSUME NEW w, NEW pair
  PROVE  pair \in Pairs(w)
           <=> \/ \E a \in Txts(w.rdng), b \in Txts(w.kanj) : pair = <<"restr", a, b>>
               \/ \E a \in Glosses(w), b \in Txts(w.kanj) : pair = <<"stagk", a, b>>
               \/ \E a \in Glosses(w), b \in Txts(w.rdng) : pair = <<"stagr", a, b>>
BY DEF Pairs

\* What the form kept, the entry that is made of it keeps.
LEMMA MadeKept ==
  ASSUME NEW old, NEW f, NEW typed, NEW new, Kept(old, f, typed), MadeOf(f, new),
         NEW pair \in Pairs(old) \cap Pairs(new), pair[3] \notin typed
  PROVE  pair \in Permitted(old) <=> pair \in Permitted(new)
<1>1. /\ Txts(new.kanj) = Txts(f.kanj) /\ Txts(new.rdng) = Txts(f.rdng)
      /\ Glosses(new) = Glosses(f)
      /\ \A a : \A b \in Txts(f.kanj) : RdngFree(new, a, b) <=> RdngSaid(f, a, b)
      /\ \A g : \A b \in Txts(f.kanj) : StagkFree(new, g, b) <=> StagkSaid(f, g, b)
      /\ \A g : \A a \in Txts(f.rdng) : StagrFree(new, g, a) <=> StagrSaid(f, g, a)
  BY MadeSays
<1>2. pair \in Pairs(old) /\ pair \in Pairs(new)
  OBVIOUS
<1>3. CASE \E a \in Txts(old.rdng), b \in Txts(old.kanj) : pair = <<"restr", a, b>>
  <2>1. PICK a \in Txts(old.rdng), b \in Txts(old.kanj) : pair = <<"restr", a, b>>
    BY <1>3
  <2>2. a \in Txts(new.rdng) /\ b \in Txts(new.kanj)
    BY <1>2, <2>1, PairIs
  <2>3. b \notin typed
    BY <2>1
  <2>4. RdngFree(old, a, b) <=> RdngFree(new, a, b)
    BY <1>1, <2>2, <2>3 DEF Kept
  <2> QED
    BY <2>1, <2>4, PermittedIs
<1>4. CASE \E a \in Glosses(old), b \in Txts(old.kanj) : pair = <<"stagk", a, b>>
  <2>1. PICK a \in Glosses(old), b \in Txts(old.kanj) : pair = <<"stagk", a, b>>
    BY <1>4
  <2>2. a \in Glosses(new) /\ b \in Txts(new.kanj)
    BY <1>2, <2>1, PairIs
  <2>3. b \notin typed
    BY <2>1
  <2>4. StagkFree(old, a, b) <=> StagkFree(new, a, b)
    BY <1>1, <2>2, <2>3 DEF Kept
  <2> QED
    BY <2>1, <2>4, PermittedIs
<1>5. CASE \E a \in Glosses(old), b \in Txts(old.rdng) : pair = <<"stagr", a, b>>
  <2>1. PICK a \in Glosses(old), b \in Txts(old.rdng) : pair = <<"stagr", a, b>>
    BY <1>5
  <2>2. a \in Glosses(new) /\ b \in Txts(new.rdng)
    BY <1>2, <2>1, PairIs
  <2>4. StagrFree(old, a, b) <=> StagrFree(new, a, b)
    BY <1>1, <2>2 DEF Kept
  <2> QED
    BY <2>1, <2>4, PermittedIs
<1> QED
  BY <1>2, <1>3, <1>4, <1>5, PairIs

-----------------------------------------------------------------------------
(* References of the entry that is made, and to it. *)

\* The latest entry of a number is the last of them.
LEMMA LatestIs ==
  ASSUME EntrOK, NEW q, Rows(q) # {}
  PROVE  Latest(q) \in Rows(q) /\ \A d \in Rows(q) : d <= Latest(q)
<1> DEFINE R == {next - e : e \in Rows(q)}
<1>1. next \in Nat /\ \A e \in Rows(q) : e \in Nat /\ next - e \in Nat
  BY DEF EntrOK, Rows
<1>2. R \in SUBSET Nat /\ R # {}
  BY <1>1
<1>3. PICK m \in R : \A k \in R : <<k, m>> \notin OpToRel(<, Nat)
  BY <1>2, NatLessThanWellFounded, WFMin
<1>4. \A k \in R : ~ (k < m)
  BY <1>2, <1>3 DEF OpToRel
<1>5. PICK x \in Rows(q) : m = next - x
  BY <1>3
<1>6. ASSUME NEW y \in Rows(q) PROVE y <= x
  <2>1. next - y \in R /\ ~ (next - y < m)
    BY <1>4
  <2> HIDE DEF R
  <2> QED
    BY <1>1, <1>5, <2>1
<1> QED
  BY <1>6 DEF Latest

\* Where a text is found it is.
LEMMA PlaceIs ==
  ASSUME NEW S, NEW list \in Seq(S), NoTxt \notin Txts(list),
         NEW txt \in Txts(list) \cup {NoTxt}
  PROVE  /\ Place(list, txt) \in {0} \cup DOMAIN list
         /\ TxtAt(list, Place(list, txt)) = txt
<1>1. CASE txt = NoTxt
  BY <1>1 DEF Place, TxtAt
<1>2. CASE txt # NoTxt
  <2>1. \E i \in DOMAIN list : list[i].txt = txt
    BY <1>2 DEF Txts
  <2>2. Place(list, txt) \in DOMAIN list /\ list[Place(list, txt)].txt = txt
    BY <1>2, <2>1 DEF Place
  <2>3. Place(list, txt) # 0
    BY <2>2, SeqIs
  <2> QED
    BY <2>2, <2>3 DEF TxtAt
<1> QED
  BY <1>1, <1>2

\* Numbers of an entry that show a name.
To(w, x, kr) ==
  /\ x.xsens \in DOMAIN w.sens
  /\ x.kanj \in {0} \cup DOMAIN w.kanj
  /\ x.rdng \in {0} \cup DOMAIN w.rdng
  /\ [ktxt |-> TxtAt(w.kanj, x.kanj), rtxt |-> TxtAt(w.rdng, x.rdng)] = kr

\* The places of the texts that a name asks for, in an entry that has them, lead
\* back to these texts.
LEMMA PlacesTo ==
  ASSUME NEW w, Formed(w), NEW kr \in Name, Has(w, kr), NEW x,
         x.xsens \in DOMAIN w.sens,
         x.kanj = Place(w.kanj, kr.ktxt), x.rdng = Place(w.rdng, kr.rtxt)
  PROVE  To(w, x, kr)
<1>1. /\ w.kanj \in Seq(Kanj) /\ w.rdng \in Seq(Rdng)
      /\ \A i \in DOMAIN w.kanj : w.kanj[i].txt \in Kebs
      /\ \A i \in DOMAIN w.rdng : w.rdng[i].txt \in Rebs
  BY FormedIs
<1>2. NoTxt \notin Txts(w.kanj) /\ NoTxt \notin Txts(w.rdng)
  BY <1>1, NoTextIsNone DEF Txts
<1>3. kr.ktxt \in Txts(w.kanj) \cup {NoTxt} /\ kr.rtxt \in Txts(w.rdng) \cup {NoTxt}
  BY DEF Has
<1>4. x.kanj \in {0} \cup DOMAIN w.kanj /\ TxtAt(w.kanj, x.kanj) = kr.ktxt
  BY <1>1, <1>2, <1>3, PlaceIs
<1>5. x.rdng \in {0} \cup DOMAIN w.rdng /\ TxtAt(w.rdng, x.rdng) = kr.rtxt
  BY <1>1, <1>2, <1>3, PlaceIs
<1>6. kr = [ktxt |-> kr.ktxt, rtxt |-> kr.rtxt]
  BY DEF Name
<1> QED
  BY <1>4, <1>5, <1>6 DEF To

\* References that are resolved when a form is confirmed.
RefOK(E, N, w, r) ==
  /\ r.n \in DOMAIN w.sens /\ r.to.xentr \in 1 .. N - 1
  /\ r.to.xsens \in Nat /\ r.to.kanj \in Nat /\ r.to.rdng \in Nat
  /\ r.to.xentr \in DOMAIN E
       => To(E[r.to.xentr], r.to, Said[w.sens[r.n].gloss])

\* A reference that was resolved leads to a sense that is there, and to the text
\* that the sense it stands at means.
LEMMA ResolvedTo ==
  ASSUME EntrOK, NEW f, FormOK(f), NEW w, MadeOf(f, w), NEW r \in Resolved(f)
  PROVE  RefOK(entr, next, w, r)
<1>1. PICK n \in DOMAIN f.sens :
        r \in {[n |-> n, to |-> t] :
                 t \in UNION {Targets(v) : v \in {l \in Apart(f.sens[n].refs) : Resolves(l)}}}
  BY Zenon DEF Resolved
<1>2. PICK t \in UNION {Targets(v) : v \in {l \in Apart(f.sens[n].refs) : Resolves(l)}} :
        r = [n |-> n, to |-> t]
  BY <1>1
<1>3. PICK v \in Apart(f.sens[n].refs) : Resolves(v) /\ t \in Targets(v)
  BY <1>2
<1>4. f.sens[n] \in FormSens /\ \A l \in f.sens[n].refs : l.kr = Said[f.sens[n].gloss]
  BY FormOKIs
<1>5. v.kr = Said[f.sens[n].gloss] /\ v.senses \subseteq Nat
  <2> DEFINE lines == f.sens[n].refs
             kr == Said[f.sens[n].gloss]
  <2>1. lines \in SUBSET Xrslv /\ \A l \in lines : l.kr = kr
    BY <1>4 DEF FormSens
  <2>2. v \in Apart(lines)
    BY <1>3
  <2> HIDE DEF lines, kr
  <2>3. v.kr = kr /\ v.senses \subseteq Nat
    BY <2>1, <2>2, ApartIs
  <2> QED
    BY <2>3 DEF kr
<1>6. v.kr \in Name
  BY <1>4, <1>5, SaidAreNames DEF FormSens
<1>7. PICK e \in Candidates(v), s \in v.senses :
        t = [xentr |-> e, xsens |-> s, kanj |-> Place(entr[e].kanj, v.kr.ktxt),
             rdng |-> Place(entr[e].rdng, v.kr.rtxt)]
  <2>1. t \in Targets(v)
    BY <1>3
  <2> QED
    BY <2>1 DEF Targets
<1>8. e \in DOMAIN entr /\ Has(entr[e], v.kr) /\ s \in DOMAIN entr[e].sens
        /\ Formed(entr[e]) /\ e \in 1 .. next - 1
  BY <1>3 DEF Candidates, Resolves, EntrOK
<1>9. /\ t.xentr = e /\ t.xsens = s
      /\ t.kanj = Place(entr[e].kanj, v.kr.ktxt) /\ t.rdng = Place(entr[e].rdng, v.kr.rtxt)
  BY <1>7
<1>10. To(entr[e], t, v.kr)
  BY <1>6, <1>8, <1>9, PlacesTo
<1>11. t.kanj \in Nat /\ t.rdng \in Nat
  <2>1. entr[e].kanj \in Seq(Kanj) /\ entr[e].rdng \in Seq(Rdng)
    BY <1>8, FormedIs
  <2>2. DOMAIN entr[e].kanj \subseteq Nat /\ DOMAIN entr[e].rdng \subseteq Nat
    BY <2>1, SeqIs
  <2> QED
    BY <1>10, <2>2 DEF To
<1>12. r.n = n /\ r.to = t
  BY <1>2
<1>13. n \in DOMAIN w.sens /\ w.sens[n].gloss = f.sens[n].gloss
  BY DEF MadeOf
<1>14. t.xsens \in Nat
  BY <1>5, <1>7, <1>9
<1> QED
  BY <1>5, <1>8, <1>9, <1>10, <1>11, <1>12, <1>13, <1>14 DEF RefOK

\* References to the parent that are put right for the entry that is made.
XrerOK(E, N, w, x) ==
  /\ x \in Xref /\ x.entr \in 1 .. N - 1
  /\ x.entr \in DOMAIN E
       => /\ x.sens \in DOMAIN E[x.entr].sens
          /\ To(w, x, Said[E[x.entr].sens[x.sens].gloss])

\* A reference to the parent that was put right leads to the entry that the form
\* makes, and to the text that it showed before.
LEMMA RealignedTo ==
  ASSUME EntrOK, XrefOK, NEW w, Formed(w), NEW p, NEW x \in Realigned(p, w)
  PROVE  XrerOK(entr, next, w, x)
<1>1. PICK y \in xref : /\ y.xentr = p /\ y.xsens \in DOMAIN w.sens
                        /\ Has(w, Shown(y)) /\ x = Moved(y, w)
  BY Zenon DEF Realigned
<1>2. /\ y \in Xref /\ y.entr \in DOMAIN entr /\ y.sens \in DOMAIN entr[y.entr].sens
      /\ Shown(y) = Said[entr[y.entr].sens[y.sens].gloss]
  BY DEF XrefOK, Leads, ShownRight
<1> DEFINE kr == Shown(y)
           k == Place(w.kanj, kr.ktxt)
           r == Place(w.rdng, kr.rtxt)
<1>3. kr \in Name
  <2>1. entr[y.entr].sens[y.sens] \in Sens
    BY <1>2, FormedIs DEF EntrOK
  <2> QED
    BY <1>2, <2>1, SaidAreNames DEF Sens
<1>4. x = [y EXCEPT !.kanj = k, !.rdng = r]
  BY <1>1 DEF Moved
<1>5. Has(w, kr)
  BY <1>1
<1> HIDE DEF kr, k, r
<1>6. x = [entr |-> y.entr, sens |-> y.sens, xentr |-> y.xentr, xsens |-> y.xsens,
           kanj |-> k, rdng |-> r]
  BY <1>2, <1>4 DEF Xref
<1>7. /\ x.entr = y.entr /\ x.sens = y.sens /\ x.xsens = y.xsens
      /\ x.kanj = k /\ x.rdng = r
  BY <1>6
<1>8. To(w, x, kr)
  BY <1>1, <1>3, <1>5, <1>7, PlacesTo DEF k, r
<1>9. k \in Nat /\ r \in Nat
  <2>1. w.kanj \in Seq(Kanj) /\ w.rdng \in Seq(Rdng)
    BY FormedIs
  <2>2. DOMAIN w.kanj \subseteq Nat /\ DOMAIN w.rdng \subseteq Nat
    BY <2>1, SeqIs
  <2> QED
    BY <1>7, <1>8, <2>2 DEF To
<1>10. x \in Xref
  BY <1>2, <1>6, <1>9 DEF Xref
<1>11. y.entr \in 1 .. next - 1
  BY <1>2 DEF EntrOK
<1>12. kr = Said[entr[x.entr].sens[x.sens].gloss]
  BY <1>2, <1>7 DEF kr
<1> QED
  BY <1>2, <1>7, <1>8, <1>10, <1>11, <1>12 DEF XrerOK

-----------------------------------------------------------------------------
(* The pages. *)

\* A form: it was made of an entry, which is still as it was or gone.
FormPage(E, N, c) ==
  /\ c.of \in 1 .. N - 1 /\ Formed(c.seen)
  /\ c.of \in DOMAIN E => E[c.of] = c.seen
  /\ FormOK(c.form) /\ Kept(c.seen, c.form, c.typed)

\* A confirmation: the entry that was made of the form, and its references.
ConfirmPage(E, N, u, c) ==
  /\ c.parent \in 1 .. N - 1
  /\ Formed(c.made) /\ MadeOf(c.form, c.made)
  /\ c.made.seq = c.seen.seq /\ c.made.seq # 0
  /\ c.parent \in DOMAIN E /\ u \notin Editors
       => FreqsOf(c.made.kanj, E[c.parent].kanj) /\ FreqsOf(c.made.rdng, E[c.parent].rdng)
  /\ \A r \in c.refs : RefOK(E, N, c.made, r)
  /\ \A x \in c.xrers : XrerOK(E, N, c.made, x)

OnForm(E, N, u, c) ==
  /\ c = [at |-> "form", of |-> c.of, seen |-> c.seen, form |-> c.form,
          changes |-> c.changes, typed |-> c.typed]
  /\ c.changes \in Nat
  /\ FormPage(E, N, c)

OnConfirm(E, N, u, c) ==
  c.at = "confirm" /\ FormPage(E, N, c) /\ ConfirmPage(E, N, u, c)

OnPage(E, N, u, c) == c = Away \/ OnForm(E, N, u, c) \/ OnConfirm(E, N, u, c)

PagesOK ==
  /\ page = [u \in Users |-> page[u]]
  /\ \A u \in Users : OnPage(entr, next, u, page[u])

\* The invariant that the proofs carry.
FInv == EntrOK /\ XrefOK /\ PagesOK

\* Rows are added with the ids that are next, and removed, never changed.
Grown(E, N, F, M) ==
  /\ N \in Nat /\ M \in Nat /\ N <= M
  /\ \A e \in 1 .. N - 1 : e \in DOMAIN F => e \in DOMAIN E /\ F[e] = E[e]

\* A page stays right while others work.
LEMMA PageStays ==
  ASSUME NEW E, NEW N, NEW F, NEW M, Grown(E, N, F, M), NEW u, NEW c, OnPage(E, N, u, c)
  PROVE  OnPage(F, M, u, c)
<1>1. \A e \in 1 .. N - 1 : e \in 1 .. M - 1 /\ (e \in DOMAIN F => e \in DOMAIN E /\ F[e] = E[e])
  BY DEF Grown
<1>2. ASSUME FormPage(E, N, c) PROVE FormPage(F, M, c)
  BY <1>1, <1>2 DEF FormPage
<1>3. ASSUME ConfirmPage(E, N, u, c) PROVE ConfirmPage(F, M, u, c)
  <2>1. \A r \in c.refs : RefOK(F, M, c.made, r)
    <3> SUFFICES ASSUME NEW r \in c.refs PROVE RefOK(F, M, c.made, r)
      OBVIOUS
    <3>1. RefOK(E, N, c.made, r)
      BY <1>3 DEF ConfirmPage
    <3> QED
      BY <1>1, <3>1 DEF RefOK
  <2>2. \A x \in c.xrers : XrerOK(F, M, c.made, x)
    <3> SUFFICES ASSUME NEW x \in c.xrers PROVE XrerOK(F, M, c.made, x)
      OBVIOUS
    <3>1. XrerOK(E, N, c.made, x)
      BY <1>3 DEF ConfirmPage
    <3> QED
      BY <1>1, <3>1 DEF XrerOK
  <2>3. /\ c.parent \in 1 .. M - 1
        /\ c.parent \in DOMAIN F => c.parent \in DOMAIN E /\ F[c.parent] = E[c.parent]
    BY <1>1, <1>3 DEF ConfirmPage
  <2>4. /\ Formed(c.made) /\ MadeOf(c.form, c.made)
        /\ c.made.seq = c.seen.seq /\ c.made.seq # 0
        /\ c.parent \in DOMAIN E /\ u \notin Editors
             => FreqsOf(c.made.kanj, E[c.parent].kanj) /\ FreqsOf(c.made.rdng, E[c.parent].rdng)
    BY <1>3 DEF ConfirmPage
  <2>5. c.parent \in DOMAIN F /\ u \notin Editors
          => FreqsOf(c.made.kanj, F[c.parent].kanj) /\ FreqsOf(c.made.rdng, F[c.parent].rdng)
    BY <2>3, <2>4
  <2> QED
    BY <2>1, <2>2, <2>3, <2>4, <2>5 DEF ConfirmPage
<1> QED
  BY <1>2, <1>3 DEF OnPage, OnForm, OnConfirm

\* One user goes on.
LEMMA UserGoesOn ==
  ASSUME FInv, UNCHANGED <<entr, next, xref>>, NEW u \in Users, NEW c,
         page' = [page EXCEPT ![u] = c], OnPage(entr, next, u, c)
  PROVE  FInv'
<1>1. EntrOK'
  BY DEF FInv, EntrOK
<1>2. XrefOK'
  BY DEF FInv, XrefOK, Leads, ShownRight, Shown
<1>3. PagesOK'
  <2>1. page' = [v \in Users |-> page'[v]] /\ page'[u] = c
          /\ \A v \in Users \ {u} : page'[v] = page[v]
    BY DEF FInv, PagesOK
  <2>2. \A v \in Users : OnPage(entr, next, v, page'[v])
    <3> SUFFICES ASSUME NEW v \in Users PROVE OnPage(entr, next, v, page'[v])
      OBVIOUS
    <3>1. CASE v = u
      BY <2>1, <3>1
    <3>2. CASE v # u
      BY <2>1, <3>2 DEF FInv, PagesOK
    <3> QED
      BY <3>1, <3>2
  <2> QED
    BY <2>1, <2>2 DEF PagesOK
<1> QED
  BY <1>1, <1>2, <1>3 DEF FInv

\* The page edform, opened for an entry, keeps the invariant.
LEMMA OpenFInv ==
  ASSUME FInv, NEW u \in Users, NEW e \in DOMAIN entr, Open(u, e)
  PROVE  FInv'
<1> DEFINE c == [at |-> "form", of |-> e, seen |-> entr[e], form |-> Form(u, e),
                 changes |-> 0, typed |-> {}]
<1>1. FormOK(Form(u, e)) /\ Kept(entr[e], Form(u, e), {})
  BY OpenKept DEF FInv
<1>2. e \in 1 .. next - 1 /\ Formed(entr[e])
  BY DEF FInv, EntrOK
<1>3. page' = [page EXCEPT ![u] = c] /\ UNCHANGED <<entr, next, xref>>
  BY DEF Open
<1>4. /\ c.of = e /\ c.seen = entr[e] /\ c.form = Form(u, e) /\ c.typed = {}
      /\ c.changes = 0
      /\ c = [at |-> "form", of |-> c.of, seen |-> c.seen, form |-> c.form,
              changes |-> c.changes, typed |-> c.typed]
  OBVIOUS
<1> HIDE DEF c
<1>5. OnPage(entr, next, u, c)
  BY <1>1, <1>2, <1>4 DEF OnPage, OnForm, FormPage
<1> QED
  BY <1>3, <1>5, UserGoesOn

\* So does leaving the pages.
LEMMA LeaveFInv ==
  ASSUME FInv, NEW u \in Users, Leave(u)
  PROVE  FInv'
<1>1. OnPage(entr, next, u, Away)
  BY DEF OnPage
<1> QED
  BY <1>1, UserGoesOn DEF Leave

\* A page whose fields are these is this record.
LEMMA SameFields ==
  ASSUME NEW x, NEW o, NEW s, NEW f, NEW n, NEW t,
         x = [i \in {"at", "of", "seen", "form", "changes", "typed"} |-> x[i]],
         x["at"] = "form", x["of"] = o, x["seen"] = s, x["form"] = f,
         x["changes"] = n, x["typed"] = t
  PROVE  x = [at |-> "form", of |-> o, seen |-> s, form |-> f, changes |-> n, typed |-> t]
<1> DEFINE y == [at |-> "form", of |-> o, seen |-> s, form |-> f, changes |-> n, typed |-> t]
           D == {"at", "of", "seen", "form", "changes", "typed"}
<1>1. /\ y = [i \in D |-> y[i]]
      /\ y["at"] = "form" /\ y["of"] = o /\ y["seen"] = s
      /\ y["form"] = f /\ y["changes"] = n /\ y["typed"] = t
  OBVIOUS
<1> HIDE DEF y
<1>2. \A i \in D : x[i] = y[i]
  BY <1>1
<1>3. x = [i \in D |-> x[i]]
  OBVIOUS
<1> HIDE DEF D
<1>4. x = y
  BY <1>1, <1>2, <1>3
<1> QED
  BY <1>4 DEF y

\* A change that keeps what the form says.
LEMMA RewriteFInv ==
  ASSUME FInv, NEW u \in Users, page[u].at = "form", NEW f, NEW new, Rewrite(u, f, new),
         FormOK(f), Kept(page[u].seen, f, page[u].typed \cup new)
  PROVE  FInv'
<1> DEFINE d == page[u]
           c == [at |-> "form", of |-> d.of, seen |-> d.seen, form |-> f,
                 changes |-> d.changes + 1, typed |-> d.typed \cup new]
<1>1. OnForm(entr, next, u, d)
  BY DEF FInv, PagesOK, OnPage, OnConfirm, Away
<1>2. page' = [page EXCEPT ![u] = c] /\ UNCHANGED <<entr, next, xref>>
  <2>1. page = [v \in Users |-> page[v]]
    BY DEF FInv, PagesOK
  <2>2. d = [at |-> "form", of |-> d.of, seen |-> d.seen, form |-> d.form,
             changes |-> d.changes, typed |-> d.typed]
    BY <1>1 DEF OnForm
  <2>3. page' = [page EXCEPT ![u] = [d EXCEPT !.form = f, !.changes = @ + 1,
                                              !.typed = @ \cup new]]
    BY <2>1 DEF Rewrite
  <2> DEFINE m == d.changes + 1
             more == d.typed \cup new
  <2>4. page' = [page EXCEPT ![u] = [d EXCEPT !.form = f, !.changes = m, !.typed = more]]
    BY <2>3
  <2>5. c = [at |-> "form", of |-> d.of, seen |-> d.seen, form |-> f,
             changes |-> m, typed |-> more]
    OBVIOUS
  <2> HIDE DEF d, m, more, c
  <2>6. [d EXCEPT !.form = f, !.changes = m, !.typed = more]
          = [at |-> "form", of |-> d.of, seen |-> d.seen, form |-> f,
             changes |-> m, typed |-> more]
    <3> DEFINE x == [d EXCEPT !.form = f, !.changes = m, !.typed = more]
               D == {"at", "of", "seen", "form", "changes", "typed"}
               o == d.of
               s == d.seen
    <3>1. DOMAIN d = D /\ d.at = "form"
      BY <2>2
    <3> HIDE DEF D
    <3>2. x = [i \in D |-> x[i]]
      BY <3>1
    <3>3. \A i \in D : x[i] = IF i = "form" THEN f ELSE IF i = "changes" THEN m
                              ELSE IF i = "typed" THEN more ELSE d[i]
      BY <3>1
    <3> HIDE DEF x
    <3>4. x = [i \in {"at", "of", "seen", "form", "changes", "typed"} |-> x[i]]
      BY <3>2 DEF D
    <3>5. /\ x["at"] = "form" /\ x["of"] = o /\ x["seen"] = s
          /\ x["form"] = f /\ x["changes"] = m /\ x["typed"] = more
      BY <3>1, <3>3 DEF D
    <3> HIDE DEF o, s
    <3>6. x = [at |-> "form", of |-> o, seen |-> s, form |-> f, changes |-> m, typed |-> more]
      BY <3>4, <3>5, SameFields
    <3> QED
      BY <3>6 DEF x, o, s
  <2> QED
    BY <2>4, <2>5, <2>6, Zenon DEF Rewrite
<1>3. /\ c.of = d.of /\ c.seen = d.seen /\ c.form = f /\ c.typed = d.typed \cup new
      /\ c.changes = d.changes + 1
      /\ c = [at |-> "form", of |-> c.of, seen |-> c.seen, form |-> c.form,
              changes |-> c.changes, typed |-> c.typed]
  OBVIOUS
<1> HIDE DEF c
<1>4. OnPage(entr, next, u, c)
  BY <1>1, <1>3 DEF OnPage, OnForm, FormPage
<1> QED
  BY <1>2, <1>4, UserGoesOn

\* What there is on the page of a user who changes a form.
LEMMA OnFormIs ==
  ASSUME FInv, NEW u \in Users, page[u].at = "form"
  PROVE  FormOK(page[u].form) /\ Kept(page[u].seen, page[u].form, page[u].typed)
BY DEF FInv, PagesOK, OnPage, OnForm, OnConfirm, FormPage, Away

\* Turning a list of the form around keeps the invariant.
LEMMA ReorderFInv ==
  ASSUME FInv, NEW u \in Users, Reorder(u)
  PROVE  FInv'
<1> DEFINE f == page[u].form
           w == page[u].seen
           typed == page[u].typed
<1>1. page[u].at = "form" /\ FormOK(f) /\ Kept(w, f, typed)
  BY OnFormIs DEF Reorder
<1>2. PICK part \in {"kanj", "rdng", "sens"} :
        Rewrite(u, [f EXCEPT ![part] = Backwards(@)], {})
  BY DEF Reorder
<1> DEFINE f2 == [f EXCEPT ![part] = Backwards(@)]
           more == typed \cup {}
<1>3. more = typed
  OBVIOUS
<1> HIDE DEF f, w, typed
<1>4. FormOK(f2) /\ Kept(w, f2, typed)
  BY <1>1, ReorderKept
<1> HIDE DEF f2
<1>5. Kept(w, f2, more)
  BY <1>3, <1>4
<1> QED
  BY <1>1, <1>2, <1>4, <1>5, RewriteFInv DEF f2, f, w, typed

\* So does taking out a sense.
LEMMA DropSensFInv ==
  ASSUME FInv, NEW u \in Users, DropSens(u)
  PROVE  FInv'
<1> DEFINE f == page[u].form
           w == page[u].seen
           typed == page[u].typed
<1>1. page[u].at = "form" /\ FormOK(f) /\ Kept(w, f, typed)
  BY OnFormIs DEF DropSens
<1>2. PICK n \in DOMAIN f.sens : Rewrite(u, [f EXCEPT !.sens = Without(@, n)], {})
  BY DEF DropSens
<1> DEFINE f2 == [f EXCEPT !.sens = Without(@, n)]
           more == typed \cup {}
<1>3. more = typed
  OBVIOUS
<1> HIDE DEF f, w, typed
<1>4. FormOK(f2) /\ Kept(w, f2, typed)
  BY <1>1, DropSensKept
<1> HIDE DEF f2
<1>5. Kept(w, f2, more)
  BY <1>3, <1>4
<1> QED
  BY <1>1, <1>2, <1>4, <1>5, RewriteFInv DEF f2, f, w, typed

\* So does a new kanji.
LEMMA AddKanjFInv ==
  ASSUME FInv, NEW u \in Users, AddKanj(u)
  PROVE  FInv'
<1> DEFINE f == page[u].form
           w == page[u].seen
           typed == page[u].typed
<1>1. page[u].at = "form" /\ FormOK(f) /\ Kept(w, f, typed)
  BY OnFormIs DEF AddKanj
<1>2. PICK k \in NewKanj \ Txts(f.kanj) :
        Rewrite(u, [f EXCEPT !.kanj = <<[txt |-> k, freq |-> Freqs]>> \o @], {k})
  BY DEF AddKanj
<1> DEFINE f2 == [f EXCEPT !.kanj = <<[txt |-> k, freq |-> Freqs]>> \o @]
<1> HIDE DEF f, w, typed
<1>3. FormOK(f2) /\ Kept(w, f2, typed \cup {k})
  BY <1>1, AddKanjKept
<1> HIDE DEF f2
<1> QED
  BY <1>1, <1>2, <1>3, RewriteFInv DEF f2, f, w, typed

\* So does taking out a kanji.
LEMMA DropKanjFInv ==
  ASSUME FInv, NEW u \in Users, DropKanj(u)
  PROVE  FInv'
<1> DEFINE f == page[u].form
           w == page[u].seen
           typed == page[u].typed
<1>1. page[u].at = "form" /\ FormOK(f) /\ Kept(w, f, typed)
  BY OnFormIs DEF DropKanj
<1>2. PICK i \in DOMAIN f.kanj :
        /\ \A n \in DOMAIN f.sens : f.sens[n].restr \cap Kebs # {f.kanj[i].txt}
        /\ Rewrite(u,
             [kanj |-> Without(f.kanj, i),
              rdng |-> [r \in DOMAIN f.rdng |->
                          [f.rdng[r] EXCEPT !.restr = Less(@, f.kanj[i].txt)]],
              sens |-> [n \in DOMAIN f.sens |->
                          [f.sens[n] EXCEPT !.restr = @ \ {f.kanj[i].txt}]]], {})
  BY DEF DropKanj
<1> DEFINE k == f.kanj[i].txt
           f2 == [kanj |-> Without(f.kanj, i),
                  rdng |-> [r \in DOMAIN f.rdng |->
                              [f.rdng[r] EXCEPT !.restr = Less(@, k)]],
                  sens |-> [n \in DOMAIN f.sens |->
                              [f.sens[n] EXCEPT !.restr = @ \ {k}]]]
           more == typed \cup {}
<1>3. Rewrite(u, f2, {})
  BY <1>2
<1>4. more = typed
  OBVIOUS
<1> HIDE DEF f, w, typed
<1>5. FormOK(f2) /\ Kept(w, f2, typed)
  BY <1>1, <1>2, DropKanjKept, ZenonT(30)
<1> HIDE DEF f2
<1>6. Kept(w, f2, more)
  BY <1>4, <1>5
<1> QED
  BY <1>1, <1>3, <1>5, <1>6, RewriteFInv DEF f, w, typed

\* The page edconf keeps the invariant: what it makes of the form is an entry with
\* the pairs, references and frequencies that ConfirmPage tells.
LEMMA ConfirmFInv ==
  ASSUME FInv, NEW u \in Users, Confirm(u)
  PROVE  FInv'
<1> DEFINE d == page[u]
           f == d.form
           p == Latest(d.seen.seq)
           w == Made(u, f, p)
           c == [at |-> "confirm", of |-> d.of, seen |-> d.seen,
                 form |-> f, changes |-> d.changes, typed |-> d.typed,
                 parent |-> p, made |-> w, refs |-> Resolved(f),
                 xrers |-> Realigned(p, w)]
<1>1. /\ d.at \in {"form", "confirm"} /\ Reads(f) /\ d.of \in DOMAIN entr
      /\ page' = [page EXCEPT ![u] = c] /\ UNCHANGED <<entr, next, xref>>
  BY DEF Confirm
<1>2. EntrOK /\ XrefOK
  BY DEF FInv
<1>3. FormPage(entr, next, d)
  BY <1>1 DEF FInv, PagesOK, OnPage, OnForm, OnConfirm, Away
<1>4. /\ c.at = "confirm" /\ c.of = d.of /\ c.seen = d.seen /\ c.form = f
      /\ c.typed = d.typed /\ c.parent = p /\ c.made = w /\ c.refs = Resolved(f)
      /\ c.xrers = Realigned(p, w)
  OBVIOUS
<1> HIDE DEF c, w, p, f, d
<1>5. FormOK(f) /\ Formed(d.seen) /\ entr[d.of] = d.seen
  BY <1>1, <1>3 DEF FormPage, f
<1>6. p \in DOMAIN entr /\ entr[p].seq = d.seen.seq /\ p \in 1 .. next - 1
  <2>1. d.of \in Rows(d.seen.seq)
    BY <1>1, <1>5 DEF Rows
  <2>2. p \in Rows(d.seen.seq)
    BY <1>2, <2>1, LatestIs DEF p
  <2> QED
    BY <1>2, <2>2 DEF Rows, EntrOK
<1>7. /\ Formed(w) /\ MadeOf(f, w) /\ w.seq = entr[p].seq
      /\ u \notin Editors => /\ FreqsOf(w.kanj, entr[p].kanj)
                             /\ FreqsOf(w.rdng, entr[p].rdng)
  BY <1>1, <1>2, <1>5, <1>6, MadeIs DEF w
<1>8. w.seq # 0
  BY <1>2, <1>6, <1>7 DEF EntrOK
<1>9. \A r \in Resolved(f) : RefOK(entr, next, w, r)
  BY <1>2, <1>5, <1>7, ResolvedTo
<1>10. \A x \in Realigned(p, w) : XrerOK(entr, next, w, x)
  BY <1>2, <1>7, RealignedTo
<1>11. ConfirmPage(entr, next, u, c)
  BY <1>4, <1>6, <1>7, <1>8, <1>9, <1>10 DEF ConfirmPage
<1>12. FormPage(entr, next, c)
  BY <1>3, <1>4 DEF FormPage, f
<1>13. OnPage(entr, next, u, c)
  BY <1>4, <1>11, <1>12 DEF OnPage, OnConfirm
<1> QED
  BY <1>1, <1>13, UserGoesOn

\* What is submitted; a is whether an editor approves it.
Fwd(c, n) == {[entr |-> n, sens |-> r.n, xentr |-> r.to.xentr, xsens |-> r.to.xsens,
               kanj |-> r.to.kanj, rdng |-> r.to.rdng] : r \in c.refs}
Rev(c, n) == {[x EXCEPT !.xentr = n] : x \in c.xrers}

Submitted(u, rows) ==
  LET c == page[u] IN
  /\ c.at = "confirm"
  /\ c.parent \in DOMAIN entr /\ c.parent = Latest(c.made.seq)
  /\ \A x \in Fwd(c, next) : x.xentr \in DOMAIN entr
  /\ \A x \in Rev(c, next) : x.entr \in DOMAIN entr
  /\ rows \subseteq DOMAIN entr
  /\ entr' = [e \in rows \cup {next} |-> IF e = next THEN c.made ELSE entr[e]]
  /\ xref' = {x \in xref \cup Fwd(c, next) \cup Rev(c, next) :
                {x.entr, x.xentr} \subseteq rows \cup {next}}
  /\ next' = next + 1
  /\ page' = [page EXCEPT ![u] = Away]

\* A submission is one of those.
LEMMA SubmitIs ==
  ASSUME NEW u, Submit(u)
  PROVE  \E rows : Submitted(u, rows)
<1> DEFINE c == page[u]
           q == c.made.seq
<1>1. /\ c.at = "confirm" /\ c.parent \in DOMAIN entr /\ c.parent = Latest(q)
      /\ \A x \in Fwd(c, next) : x.xentr \in DOMAIN entr
      /\ \A x \in Rev(c, next) : x.entr \in DOMAIN entr
      /\ next' = next + 1 /\ page' = [page EXCEPT ![u] = Away]
  BY DEF Submit, Fwd, Rev
<1>2. PICK approve \in {FALSE} \cup {u \in Editors} :
        LET rows == DOMAIN entr \ (IF approve THEN Rows(q) ELSE {})
        IN  /\ entr' = [e \in rows \cup {next} |-> IF e = next THEN c.made ELSE entr[e]]
            /\ xref' = {x \in xref \cup Fwd(c, next) \cup Rev(c, next) :
                          {x.entr, x.xentr} \subseteq rows \cup {next}}
  BY DEF Submit, Fwd, Rev
<1> DEFINE rows == DOMAIN entr \ (IF approve THEN Rows(q) ELSE {})
<1>3. rows \subseteq DOMAIN entr
  OBVIOUS
<1>4. /\ entr' = [e \in rows \cup {next} |-> IF e = next THEN c.made ELSE entr[e]]
      /\ xref' = {x \in xref \cup Fwd(c, next) \cup Rev(c, next) :
                    {x.entr, x.xentr} \subseteq rows \cup {next}}
  BY <1>2
<1> HIDE DEF rows
<1>5. Submitted(u, rows)
  BY <1>1, <1>3, <1>4 DEF Submitted
<1> QED
  BY <1>5

\* References in the table after a submission.
LEMMA ShownIs ==
  ASSUME NEW x, To(entr[x.xentr], x, Said[entr[x.entr].sens[x.sens].gloss]),
         x \in Xref, x.entr \in DOMAIN entr, x.xentr \in DOMAIN entr,
         x.sens \in DOMAIN entr[x.entr].sens
  PROVE  /\ Leads(x)
         /\ x.sens \in DOMAIN entr[x.entr].sens
         /\ x.xsens \in DOMAIN entr[x.xentr].sens
         /\ Shown(x) = Said[entr[x.entr].sens[x.sens].gloss]
BY DEF To, Leads, Shown

\* A reference that is in order, told of a table.
Right(E, x) ==
  /\ x \in Xref /\ x.entr \in DOMAIN E /\ x.xentr \in DOMAIN E
  /\ x.sens \in DOMAIN E[x.entr].sens
  /\ To(E[x.xentr], x, Said[E[x.entr].sens[x.sens].gloss])

\* XrefOK, reference by reference.
LEMMA XrefOKIs == XrefOK <=> \A x \in xref : Right(entr, x)
<1>1. ASSUME XrefOK, NEW x \in xref PROVE Right(entr, x)
  BY <1>1 DEF XrefOK, Leads, ShownRight, Shown, Right, To
<1>2. ASSUME \A x \in xref : Right(entr, x) PROVE XrefOK
  <2>1. \A x \in xref : Leads(x)
    BY <1>2 DEF Leads, Right, To
  <2>2. ShownRight
    BY <1>2 DEF ShownRight, Shown, Right, To
  <2> QED
    BY <2>1, <2>2 DEF XrefOK
<1> QED
  BY <1>1, <1>2

\* The same, of the next state.
LEMMA XrefOKNext == XrefOK' <=> \A x \in xref' : Right(entr', x)
<1>1. ASSUME XrefOK', NEW x \in xref' PROVE Right(entr', x)
  BY <1>1 DEF XrefOK, Leads, ShownRight, Shown, Right, To
<1>2. ASSUME \A x \in xref' : Right(entr', x) PROVE XrefOK'
  <2>1. (\A x \in xref : Leads(x))'
    BY <1>2 DEF Leads, Right, To
  <2>2. ShownRight'
    BY <1>2 DEF ShownRight, Shown, Right, To
  <2> QED
    BY <2>1, <2>2 DEF XrefOK
<1> QED
  BY <1>1, <1>2

\* The page edsubmit keeps the invariant: the new row is the entry of the page, the
\* references that stay lead to rows that stay, and the pages of the other users
\* are as good as before.
LEMMA SubmitFInv ==
  ASSUME FInv, NEW u \in Users, Submit(u)
  PROVE  FInv'
<1> DEFINE c == page[u]
           w == c.made
           N == next
<1>1. PICK rows : Submitted(u, rows)
  BY SubmitIs
<1>2. /\ c.at = "confirm" /\ rows \subseteq DOMAIN entr
      /\ entr' = [e \in rows \cup {N} |-> IF e = N THEN w ELSE entr[e]]
      /\ xref' = {x \in xref \cup Fwd(c, N) \cup Rev(c, N) :
                    {x.entr, x.xentr} \subseteq rows \cup {N}}
      /\ next' = N + 1 /\ page' = [page EXCEPT ![u] = Away]
  BY <1>1 DEF Submitted
<1>3. EntrOK /\ XrefOK /\ PagesOK
  BY DEF FInv
<1>4. ConfirmPage(entr, N, u, c)
  BY <1>2, <1>3 DEF PagesOK, OnPage, OnForm, OnConfirm, Away
<1>5. Formed(w) /\ w.seq # 0
  BY <1>4 DEF ConfirmPage
<1>6. N \in Nat /\ DOMAIN entr \subseteq 1 .. N - 1
  BY <1>3 DEF EntrOK
<1> HIDE DEF c, w, N
<1>7. /\ DOMAIN entr' = rows \cup {N} /\ entr'[N] = w
      /\ N \notin DOMAIN entr
      /\ \A e \in rows : entr'[e] = entr[e] /\ e \in DOMAIN entr /\ e # N
  BY <1>2, <1>6
<1>8. EntrOK'
  <2>1. \A e \in rows \cup {N} : Formed(entr'[e]) /\ entr'[e].seq # 0
    BY <1>3, <1>5, <1>7 DEF EntrOK
  <2>2. next' \in Nat /\ DOMAIN entr' \subseteq 1 .. next' - 1
    <3>1. N # 0 /\ rows \subseteq 1 .. N - 1
      BY <1>2, <1>4, <1>6 DEF ConfirmPage
    <3>2. DOMAIN entr' \subseteq 1 .. N
      BY <1>6, <1>7, <3>1
    <3>3. next' \in Nat /\ next' - 1 = N
      BY <1>2, <1>6
    <3> QED
      BY <3>2, <3>3
  <2>3. entr' \in [DOMAIN entr' -> Entry]
    <3>1. entr' = [e \in DOMAIN entr' |-> entr'[e]]
      BY <1>2
    <3>2. \A e \in DOMAIN entr' : entr'[e] \in Entry
      BY <1>7, <2>1 DEF Formed
    <3> QED
      BY <3>1, <3>2
  <2> QED
    BY <1>7, <2>1, <2>2, <2>3 DEF EntrOK
<1>9. XrefOK'
  <2> SUFFICES ASSUME NEW x \in xref' PROVE Right(entr', x)
    BY XrefOKNext
  <2>1. /\ x \in xref \/ x \in Fwd(c, N) \/ x \in Rev(c, N)
        /\ x.entr \in rows \cup {N} /\ x.xentr \in rows \cup {N}
    BY <1>2
  <2>2. CASE x \in xref
    <3>1. Right(entr, x)
      BY <1>3, <2>2, XrefOKIs
    <3>2. x.entr # N /\ x.xentr # N
      BY <1>7, <3>1 DEF Right
    <3>3. entr'[x.entr] = entr[x.entr] /\ entr'[x.xentr] = entr[x.xentr]
      BY <1>7, <2>1, <3>2
    <3> QED
      BY <1>7, <2>1, <3>1, <3>3 DEF Right
  <2>3. CASE x \in Fwd(c, N)
    <3>1. PICK r \in c.refs :
            x = [entr |-> N, sens |-> r.n, xentr |-> r.to.xentr, xsens |-> r.to.xsens,
                 kanj |-> r.to.kanj, rdng |-> r.to.rdng]
      BY <2>3 DEF Fwd
    <3>2. RefOK(entr, N, w, r)
      BY <1>4 DEF ConfirmPage, w
    <3>3. /\ x.entr = N /\ x.sens = r.n /\ x.xentr = r.to.xentr /\ x.xsens = r.to.xsens
          /\ x.kanj = r.to.kanj /\ x.rdng = r.to.rdng
      BY <3>1
    <3>4. r.n \in DOMAIN w.sens /\ r.to.xentr \in 1 .. N - 1
            /\ r.to.xsens \in Nat /\ r.to.kanj \in Nat /\ r.to.rdng \in Nat
      BY <3>2 DEF RefOK
    <3>5. x.xentr \in rows /\ r.to.xentr \in DOMAIN entr
      BY <1>6, <1>7, <2>1, <3>3, <3>4
    <3>6. To(entr[r.to.xentr], r.to, Said[w.sens[r.n].gloss])
      BY <3>2, <3>5 DEF RefOK
    <3>7. r.n \in Nat
      <4>1. w.sens \in Seq(Sens)
        BY <1>5, FormedIs
      <4> QED
        BY <3>4, <4>1, SeqIs
    <3>8. x \in Xref
      BY <1>6, <3>1, <3>4, <3>7 DEF Xref
    <3>9. entr'[x.xentr] = entr[r.to.xentr] /\ entr'[x.entr] = w
      BY <1>7, <3>3, <3>5
    <3>10. To(entr[r.to.xentr], x, Said[w.sens[r.n].gloss])
      BY <3>3, <3>6 DEF To
    <3> QED
      BY <1>7, <2>1, <3>3, <3>4, <3>8, <3>9, <3>10 DEF Right
  <2>4. CASE x \in Rev(c, N)
    <3>1. PICK y \in c.xrers : x = [y EXCEPT !.xentr = N]
      BY <2>4 DEF Rev
    <3>2. XrerOK(entr, N, w, y)
      BY <1>4 DEF ConfirmPage, w
    <3>3. y \in Xref /\ y.entr \in 1 .. N - 1
      BY <3>2 DEF XrerOK
    <3>4. /\ x \in Xref /\ x.entr = y.entr /\ x.sens = y.sens /\ x.xentr = N
          /\ x.xsens = y.xsens /\ x.kanj = y.kanj /\ x.rdng = y.rdng
      BY <1>6, <3>1, <3>3 DEF Xref
    <3>5. x.entr \in rows
      BY <1>6, <2>1, <3>3, <3>4
    <3>6. /\ y.sens \in DOMAIN entr[y.entr].sens
          /\ To(w, y, Said[entr[y.entr].sens[y.sens].gloss])
      BY <1>7, <3>2, <3>4, <3>5 DEF XrerOK
    <3>7. To(w, x, Said[entr[y.entr].sens[y.sens].gloss])
      BY <3>4, <3>6 DEF To
    <3>8. entr'[x.entr] = entr[y.entr] /\ entr'[x.xentr] = w
      BY <1>7, <3>4, <3>5
    <3> QED
      BY <1>7, <2>1, <3>4, <3>6, <3>7, <3>8 DEF Right
  <2> QED
    BY <2>1, <2>2, <2>3, <2>4
<1>10. Grown(entr, N, entr', next')
  BY <1>2, <1>6, <1>7 DEF Grown
<1>11. PagesOK'
  <2>1. page' = [v \in Users |-> page'[v]] /\ page'[u] = Away
          /\ \A v \in Users \ {u} : page'[v] = page[v]
    BY <1>2, <1>3 DEF PagesOK
  <2>2. \A v \in Users : OnPage(entr', next', v, page'[v])
    <3> SUFFICES ASSUME NEW v \in Users PROVE OnPage(entr', next', v, page'[v])
      OBVIOUS
    <3>1. CASE v = u
      BY <2>1, <3>1 DEF OnPage
    <3>2. CASE v # u
      <4>1. OnPage(entr, N, v, page[v])
        BY <1>3 DEF PagesOK, N
      <4> QED
        BY <1>10, <2>1, <3>2, <4>1, PageStays
    <3> QED
      BY <3>1, <3>2
  <2> QED
    BY <2>1, <2>2 DEF PagesOK
<1> QED
  BY <1>8, <1>9, <1>11 DEF FInv

\* At first there is an entry of each number, and nobody is on a page.
LEMMA InitFInv == FormInit => FInv
<1> SUFFICES ASSUME FormInit PROVE FInv
  OBVIOUS
<1> DEFINE n == Cardinality(DOMAIN Words)
<1>1. n \in Nat /\ DOMAIN Words = 1 .. n /\ next = n + 1
  BY FirstNumbers, FS_CardinalityType DEF FormInit
<1>2. /\ DOMAIN entr = DOMAIN Words /\ entr = [e \in DOMAIN entr |-> entr[e]]
      /\ \A e \in DOMAIN Words : entr[e] \in Words[e]
  BY DEF FormInit
<1> HIDE DEF n
<1>3. \A e \in DOMAIN Words : Formed(entr[e]) /\ entr[e].seq = e /\ e # 0
  BY <1>1, <1>2, WordsAreEntries
<1>4. EntrOK
  <2>1. next \in Nat /\ DOMAIN entr \subseteq 1 .. next - 1
    BY <1>1, <1>2
  <2>2. \A e \in DOMAIN entr : Formed(entr[e]) /\ entr[e].seq # 0
    BY <1>2, <1>3
  <2>3. \A e \in DOMAIN entr : entr[e] \in Entry
    BY <2>2 DEF Formed
  <2>4. entr \in [DOMAIN entr -> Entry]
    BY <1>2, <2>3
  <2> QED
    BY <2>1, <2>2, <2>4 DEF EntrOK
<1>5. XrefOK
  <2> SUFFICES ASSUME NEW x \in xref PROVE Right(entr, x)
    BY XrefOKIs
  <2>1. /\ x \in [entr : DOMAIN Words, sens : Nat, xentr : DOMAIN Words, xsens : Nat,
                  kanj : Nat, rdng : Nat]
        /\ \A w \in Words[x.entr], t \in Words[x.xentr] :
             /\ x.sens \in DOMAIN w.sens /\ x.xsens \in DOMAIN t.sens
             /\ x.kanj \in {0} \cup DOMAIN t.kanj /\ x.rdng \in {0} \cup DOMAIN t.rdng
             /\ Said[w.sens[x.sens].gloss]
                  = [ktxt |-> TxtAt(t.kanj, x.kanj), rtxt |-> TxtAt(t.rdng, x.rdng)]
    BY LinksAreRight DEF FormInit
  <2>2. entr[x.entr] \in Words[x.entr] /\ entr[x.xentr] \in Words[x.xentr]
    BY <1>2, <2>1
  <2>3. x \in Xref
    BY <1>1, <2>1 DEF Xref
  <2>4. To(entr[x.xentr], x, Said[entr[x.entr].sens[x.sens].gloss])
    BY <2>1, <2>2 DEF To
  <2> QED
    BY <1>2, <2>1, <2>2, <2>3, <2>4 DEF Right
<1>6. PagesOK
  BY DEF FormInit, PagesOK, OnPage
<1> QED
  BY <1>4, <1>5, <1>6 DEF FInv

\* Every step keeps the invariant.
LEMMA NextFInv == FInv /\ [FormNext]_formVars => FInv'
<1> SUFFICES ASSUME FInv, [FormNext]_formVars PROVE FInv'
  OBVIOUS
<1>1. CASE UNCHANGED formVars
  <2>1. EntrOK'
    BY <1>1 DEF FInv, EntrOK, formVars
  <2>2. XrefOK'
    BY <1>1 DEF FInv, XrefOK, Leads, ShownRight, Shown, formVars
  <2>3. PagesOK'
    BY <1>1 DEF FInv, PagesOK, formVars
  <2> QED
    BY <2>1, <2>2, <2>3 DEF FInv
<1>2. ASSUME NEW u \in Users, NEW e \in DOMAIN entr, Open(u, e) PROVE FInv'
  BY <1>2, OpenFInv
<1>3. ASSUME NEW u \in Users, Leave(u) PROVE FInv'
  BY <1>3, LeaveFInv
<1>4. ASSUME NEW u \in Users, Reorder(u) PROVE FInv'
  BY <1>4, ReorderFInv
<1>5. ASSUME NEW u \in Users, DropKanj(u) PROVE FInv'
  BY <1>5, DropKanjFInv
<1>6. ASSUME NEW u \in Users, DropSens(u) PROVE FInv'
  BY <1>6, DropSensFInv
<1>7. ASSUME NEW u \in Users, AddKanj(u) PROVE FInv'
  BY <1>7, AddKanjFInv
<1>8. ASSUME NEW u \in Users, Confirm(u) PROVE FInv'
  BY <1>8, ConfirmFInv
<1>9. ASSUME NEW u \in Users, Submit(u) PROVE FInv'
  BY <1>9, SubmitFInv
<1> QED
  BY <1>1, <1>2, <1>3, <1>4, <1>5, <1>6, <1>7, <1>8, <1>9 DEF FormNext

\* THEOREM.  The invariant of the pages holds throughout: the rows, the references
\* and the page of every user are what EntrOK, XrefOK and PagesOK say.
THEOREM FormsAreKept == FormSpec => []FInv
BY InitFInv, NextFInv, PTL DEF FormSpec

\* On a page confirm the restrictions are those that were opened.
LEMMA ConfirmedKept == FInv => PairsKept
<1> SUFFICES ASSUME FInv, NEW u \in Users, page[u].at = "confirm",
                    NEW pair \in Pairs(page[u].seen) \cap Pairs(page[u].made),
                    pair[3] \notin page[u].typed
             PROVE  pair \in Permitted(page[u].seen) <=> pair \in Permitted(page[u].made)
  BY Zenon DEF PairsKept
<1> DEFINE c == page[u]
<1>1. OnPage(entr, next, u, c)
  BY DEF FInv, PagesOK
<1>2. FormPage(entr, next, c) /\ ConfirmPage(entr, next, u, c)
  BY <1>1 DEF OnPage, OnForm, OnConfirm, Away
<1>3. Kept(c.seen, c.form, c.typed) /\ MadeOf(c.form, c.made)
  BY <1>2 DEF FormPage, ConfirmPage
<1> QED
  BY <1>3, MadeKept

\* THEOREM.  However many changes a user makes to a form, and whatever the others
\* submit meanwhile, the entry on the page edconf permits the same pairs of texts
\* as the entry that was opened.  (PairsKept: restr.py.)
THEOREM RestrictionsAreKept == FormSpec => []PairsKept
BY FormsAreKept, ConfirmedKept, PTL

\* THEOREM.  Every reference always shows the text that was meant for the sense
\* that it leads from, however often both of its ends are edited.  (ShownRight:
\* edconf.realign_xrers, jdb.resolv_xref.)
THEOREM ReferencesShowWhatIsMeant == FormSpec => []ShownRight
<1>1. FInv => ShownRight
  BY DEF FInv, XrefOK
<1> QED
  BY <1>1, FormsAreKept, PTL

\* The frequencies of a text in a list that has it once.
LEMMA FreqOfUnion ==
  ASSUME NEW list, OneEach(list), NEW txt, txt # NoTxt
  PROVE  FreqOf(list, txt)
           = UNION {list[j].freq : j \in {k \in DOMAIN list : list[k].txt = txt}}
<1>1. CASE txt \in Txts(list)
  <2>1. \E i \in DOMAIN list : list[i].txt = txt
    BY <1>1 DEF Txts
  <2> DEFINE p == Place(list, txt)
  <2>2. p \in DOMAIN list /\ list[p].txt = txt
    BY <2>1 DEF Place
  <2> HIDE DEF p
  <2>3. {k \in DOMAIN list : list[k].txt = txt} = {p}
    BY <2>2 DEF OneEach
  <2>4. {list[j].freq : j \in {p}} = {list[p].freq}
    OBVIOUS
  <2>5. FreqOf(list, txt) = list[p].freq
    BY <1>1 DEF FreqOf, p
  <2> QED
    BY <2>3, <2>4, <2>5
<1>2. CASE txt \notin Txts(list)
  <2>1. {k \in DOMAIN list : list[k].txt = txt} = {}
    BY <1>2 DEF Txts
  <2>2. FreqOf(list, txt) = {}
    BY <1>2 DEF FreqOf
  <2> QED
    BY <2>1, <2>2
<1> QED
  BY <1>1, <1>2

\* The step of FreqKept.
FreqStep(u) ==
  Submits(u) =>
    \A part \in {"kanj", "rdng"} :
      LET old == entr[Latest(page[u].seen.seq)][part]
          new == entr'[next][part]
      IN  \A i \in DOMAIN new :
            new[i].freq = UNION {old[j].freq :
                            j \in {k \in DOMAIN old : old[k].txt = new[i].txt}}

\* Whoever submits, and is no editor, submits a row with the frequencies of the
\* latest entry.
LEMMA SubmitsFreq ==
  ASSUME FInv, [FormNext]_formVars, NEW u \in Users \ Editors, Submits(u)
  PROVE  FreqStep(u)
<1>1. next # next' /\ page'[u] # page[u]
  BY DEF Submits
<1>2. PICK v \in Users : Submit(v)
  <2>1. ASSUME NEW v \in Users, \/ \E e \in DOMAIN entr : Open(v, e)
                                \/ Leave(v) \/ Confirm(v)
        PROVE  FALSE
    BY <1>1, <2>1 DEF Open, Leave, Confirm
  <2>2. \A v, f, new : Rewrite(v, f, new) => FALSE
    BY <1>1 DEF Rewrite
  <2>3. ASSUME NEW v \in Users, Reorder(v) PROVE FALSE
    BY <2>2, <2>3 DEF Reorder
  <2>4. ASSUME NEW v \in Users, DropKanj(v) PROVE FALSE
    BY <2>2, <2>4 DEF DropKanj
  <2>5. ASSUME NEW v \in Users, DropSens(v) PROVE FALSE
    BY <2>2, <2>5 DEF DropSens
  <2>6. ASSUME NEW v \in Users, AddKanj(v) PROVE FALSE
    BY <2>2, <2>6 DEF AddKanj
  <2>7. FormNext
    BY <1>1 DEF formVars
  <2> QED
    BY <2>1, <2>3, <2>4, <2>5, <2>6, <2>7 DEF FormNext
<1>3. v = u
  <2>1. page' = [page EXCEPT ![v] = Away]
    BY <1>2 DEF Submit
  <2>2. v # u => page'[u] = page[u]
    BY <2>1 DEF FInv, PagesOK
  <2> QED
    BY <1>1, <2>2
<1> DEFINE c == page[u]
           w == c.made
           p == c.parent
<1>4. PICK rows : Submitted(u, rows)
  BY <1>2, <1>3, SubmitIs
<1>5. /\ c.at = "confirm" /\ p \in DOMAIN entr /\ p = Latest(w.seq)
      /\ entr' = [e \in rows \cup {next} |-> IF e = next THEN w ELSE entr[e]]
  BY <1>4 DEF Submitted
<1>6. entr'[next] = w
  BY <1>5
<1>7. OnPage(entr, next, u, c)
  BY DEF FInv, PagesOK
<1>8. ConfirmPage(entr, next, u, c)
  BY <1>5, <1>7 DEF OnPage, OnForm, OnConfirm, Away
<1>9. /\ Formed(w) /\ w.seq = c.seen.seq
      /\ FreqsOf(w.kanj, entr[p].kanj) /\ FreqsOf(w.rdng, entr[p].rdng)
  BY <1>5, <1>8 DEF ConfirmPage
<1>10. Formed(entr[p])
  BY <1>5 DEF FInv, EntrOK
<1> HIDE DEF c, w, p
<1>11. p = Latest(c.seen.seq)
  BY <1>5, <1>9
<1>12. /\ OneEach(entr[p].kanj) /\ OneEach(entr[p].rdng)
       /\ \A i \in DOMAIN w.kanj : w.kanj[i].txt # NoTxt
       /\ \A i \in DOMAIN w.rdng : w.rdng[i].txt # NoTxt
  BY <1>9, <1>10, FormedIs, NoTextIsNone
<1> DEFINE FreqsFrom(old, new) ==
             \A i \in DOMAIN new :
               new[i].freq = UNION {old[j].freq :
                               j \in {k \in DOMAIN old : old[k].txt = new[i].txt}}
<1>13. ASSUME NEW old, OneEach(old), NEW new, FreqsOf(new, old),
              \A i \in DOMAIN new : new[i].txt # NoTxt
       PROVE  FreqsFrom(old, new)
  BY <1>13, FreqOfUnion DEF FreqsOf
<1>14. ASSUME NEW part \in {"kanj", "rdng"} PROVE FreqsFrom(entr[p][part], w[part])
  <2>1. /\ OneEach(entr[p][part]) /\ FreqsOf(w[part], entr[p][part])
        /\ \A i \in DOMAIN w[part] : w[part][i].txt # NoTxt
    BY <1>9, <1>12
  <2> QED
    BY <1>13, <2>1
<1> HIDE DEF FreqsFrom
<1>15. \A part \in {"kanj", "rdng"} :
         FreqsFrom(entr[Latest(page[u].seen.seq)][part], entr'[next][part])
  BY <1>6, <1>11, <1>14 DEF c
<1> QED
  BY <1>15, Zenon DEF FreqStep, FreqsFrom

\* THEOREM.  Only editors change frequencies: from anybody else, a new row has
\* those of the latest entry.  (FreqKept: jdb.copy_freqs.)
THEOREM FrequenciesAreKept == FormSpec => FreqKept
<1>1. FInv /\ [FormNext]_formVars
        => [\A u \in Users \ Editors : Submits(u) =>
              \A part \in {"kanj", "rdng"} :
                LET old == entr[Latest(page[u].seen.seq)][part]
                    new == entr'[next][part]
                IN  \A i \in DOMAIN new :
                      new[i].freq = UNION {old[j].freq :
                        j \in {k \in DOMAIN old : old[k].txt = new[i].txt}}]_formVars
  BY SubmitsFreq DEF FreqStep
<1> QED
  BY <1>1, FormsAreKept, PTL DEF FormSpec, FreqKept

-----------------------------------------------------------------------------
(* References that come back. *)

\* A number of a text is the place of the text that it shows.
LEMMA PlaceBack ==
  ASSUME NEW list, OneEach(list), NoTxt \notin Txts(list), 0 \notin DOMAIN list,
         NEW i \in {0} \cup DOMAIN list
  PROVE  /\ Place(list, TxtAt(list, i)) = i
         /\ TxtAt(list, i) \in Txts(list) \cup {NoTxt}
<1>1. CASE i = 0
  BY <1>1 DEF Place, TxtAt
<1>2. CASE i # 0
  <2>1. i \in DOMAIN list /\ TxtAt(list, i) = list[i].txt
    BY <1>2 DEF TxtAt
  <2>2. list[i].txt \in Txts(list) /\ list[i].txt # NoTxt
    BY <2>1 DEF Txts
  <2>3. \A j \in DOMAIN list : list[j].txt = list[i].txt => j = i
    BY <2>1 DEF OneEach
  <2>4. Place(list, list[i].txt) = CHOOSE j \in DOMAIN list : list[j].txt = list[i].txt
    BY <2>2 DEF Place
  <2>5. Place(list, list[i].txt) = i
    BY <2>1, <2>3, <2>4
  <2> QED
    BY <2>1, <2>2, <2>5
<1> QED
  BY <1>1, <1>2

\* What resolution says of the target of a reference.
Aim(x) == [xentr |-> x.xentr, xsens |-> x.xsens, kanj |-> x.kanj, rdng |-> x.rdng]

\* A reference is found again from the text that it shows.
LEMMA AimIs ==
  ASSUME EntrOK, XrefOK, NEW x \in xref, NEW kr, kr = Shown(x)
  PROVE  /\ x.xentr \in DOMAIN entr /\ x.xsens \in DOMAIN entr[x.xentr].sens
         /\ Has(entr[x.xentr], kr)
         /\ Aim(x) = [xentr |-> x.xentr, xsens |-> x.xsens,
                      kanj |-> Place(entr[x.xentr].kanj, kr.ktxt),
                      rdng |-> Place(entr[x.xentr].rdng, kr.rtxt)]
<1> DEFINE w == entr[x.xentr]
<1>1. /\ x.xentr \in DOMAIN entr /\ x.xsens \in DOMAIN w.sens
      /\ x.kanj \in {0} \cup DOMAIN w.kanj /\ x.rdng \in {0} \cup DOMAIN w.rdng
      /\ Formed(w)
  BY DEF XrefOK, Leads, ShownRight, EntrOK
<1>2. kr.ktxt = TxtAt(w.kanj, x.kanj) /\ kr.rtxt = TxtAt(w.rdng, x.rdng)
  BY DEF Shown
<1> HIDE DEF w
<1>3. /\ w.kanj \in Seq(Kanj) /\ w.rdng \in Seq(Rdng) /\ OneEach(w.kanj) /\ OneEach(w.rdng)
      /\ \A i \in DOMAIN w.kanj : w.kanj[i].txt \in Kebs
      /\ \A i \in DOMAIN w.rdng : w.rdng[i].txt \in Rebs
  BY <1>1, FormedIs
<1>4. /\ NoTxt \notin Txts(w.kanj) /\ NoTxt \notin Txts(w.rdng)
      /\ 0 \notin DOMAIN w.kanj /\ 0 \notin DOMAIN w.rdng
  <2>1. NoTxt \notin Txts(w.kanj) /\ NoTxt \notin Txts(w.rdng)
    BY <1>3, NoTextIsNone DEF Txts
  <2>2. 0 \notin DOMAIN w.kanj /\ 0 \notin DOMAIN w.rdng
    BY <1>3, SeqIs
  <2> QED
    BY <2>1, <2>2
<1>5. Place(w.kanj, kr.ktxt) = x.kanj /\ kr.ktxt \in Txts(w.kanj) \cup {NoTxt}
  BY <1>1, <1>2, <1>3, <1>4, PlaceBack
<1>6. Place(w.rdng, kr.rtxt) = x.rdng /\ kr.rtxt \in Txts(w.rdng) \cup {NoTxt}
  BY <1>1, <1>2, <1>3, <1>4, PlaceBack
<1>7. Has(w, kr)
  BY <1>5, <1>6 DEF Has
<1>8. Aim(x) = [xentr |-> x.xentr, xsens |-> x.xsens,
                kanj |-> Place(w.kanj, kr.ktxt), rdng |-> Place(w.rdng, kr.rtxt)]
  BY <1>5, <1>6 DEF Aim
<1> QED
  BY <1>1, <1>7, <1>8 DEF w

\* When a sense refers to all entries of a number alike, they are its targets.
LEMMA WholeIs ==
  ASSUME EntrOK, XrefOK, NEW e, Whole(e), NEW n \in DOMAIN entr[e].sens,
         NEW x \in RefsOf(e, n)
  PROVE  /\ x \in xref /\ Shown(x) = Said[entr[e].sens[n].gloss]
         /\ NumberFor(e, n, x.xentr) = entr[x.xentr].seq /\ entr[x.xentr].seq # 0
         /\ \A t \in Rows(entr[x.xentr].seq) : \A s \in SensesOf(e, n, x.xentr) :
              \E y \in RefsOf(e, n) : y.xentr = t /\ y.xsens = s
<1>1. x \in xref /\ x.entr = e /\ x.sens = n
  BY DEF RefsOf
<1>2. Shown(x) = Said[entr[e].sens[n].gloss] /\ x.xentr \in DOMAIN entr
  BY <1>1 DEF XrefOK, ShownRight, Leads
<1>3. entr[x.xentr].seq # 0
  BY <1>2 DEF EntrOK
<1>4. \A t \in Rows(entr[x.xentr].seq) : SensesOf(e, n, t) = SensesOf(e, n, x.xentr)
  BY DEF Whole
<1>5. x.xsens \in SensesOf(e, n, x.xentr)
  BY DEF SensesOf
<1>6. \A t \in Rows(entr[x.xentr].seq) : \A s \in SensesOf(e, n, x.xentr) :
        \E y \in RefsOf(e, n) : y.xentr = t /\ y.xsens = s
  <2> SUFFICES ASSUME NEW t \in Rows(entr[x.xentr].seq), NEW s \in SensesOf(e, n, x.xentr)
               PROVE  \E y \in RefsOf(e, n) : y.xentr = t /\ y.xsens = s
    OBVIOUS
  <2>1. s \in SensesOf(e, n, t)
    BY <1>4
  <2> QED
    BY <2>1 DEF SensesOf
<1>7. Rows(entr[x.xentr].seq) \subseteq {y.xentr : y \in RefsOf(e, n)}
  BY <1>5, <1>6
<1>8. NumberFor(e, n, x.xentr) = entr[x.xentr].seq
  BY <1>7 DEF NumberFor
<1> QED
  BY <1>1, <1>2, <1>3, <1>6, <1>8

\* The lines of a sense that refers to whole numbers.
LEMMA WholeLines ==
  ASSUME EntrOK, XrefOK, NEW e, Whole(e), NEW n \in DOMAIN entr[e].sens, NEW kr,
         kr = Said[entr[e].sens[n].gloss]
  PROVE  \A l : l \in Lines(e, n) <=>
           \E x \in RefsOf(e, n) : l = [num |-> entr[x.xentr].seq,
                                        senses |-> SensesOf(e, n, x.xentr), kr |-> kr]
<1> DEFINE Line(x) == [num |-> NumberFor(e, n, x.xentr),
                       senses |-> SensesOf(e, n, x.xentr)]
           First(l) == CHOOSE x \in RefsOf(e, n) : Line(x) = l
<1>1. \A x \in RefsOf(e, n) : /\ Line(x).num = entr[x.xentr].seq
                              /\ Line(x).senses = SensesOf(e, n, x.xentr)
                              /\ Shown(x) = kr
  BY WholeIs
<1>2. Lines(e, n) = {[num |-> l.num, senses |-> l.senses, kr |-> Shown(First(l))] :
                       l \in {Line(x) : x \in RefsOf(e, n)}}
  BY Zenon DEF Lines
<1> HIDE DEF Line
<1>3. \A x \in RefsOf(e, n) : First(Line(x)) \in RefsOf(e, n)
  OBVIOUS
<1> HIDE DEF First
<1>4. \A x \in RefsOf(e, n) : Shown(First(Line(x))) = kr
  BY <1>1, <1>3
<1>5. ASSUME NEW l \in Lines(e, n)
      PROVE  \E x \in RefsOf(e, n) : l = [num |-> entr[x.xentr].seq,
                                          senses |-> SensesOf(e, n, x.xentr), kr |-> kr]
  <2>1. PICK x \in RefsOf(e, n) :
          l = [num |-> Line(x).num, senses |-> Line(x).senses, kr |-> Shown(First(Line(x)))]
    BY <1>2
  <2> QED
    BY <1>1, <1>4, <2>1
<1>6. ASSUME NEW x \in RefsOf(e, n), NEW l,
             l = [num |-> entr[x.xentr].seq, senses |-> SensesOf(e, n, x.xentr), kr |-> kr]
      PROVE  l \in Lines(e, n)
  <2>1. [num |-> Line(x).num, senses |-> Line(x).senses, kr |-> Shown(First(Line(x)))]
          \in Lines(e, n)
    BY <1>2
  <2> QED
    BY <1>1, <1>4, <1>6, <2>1
<1> QED
  BY <1>5, <1>6

\* Only what was a reference is a target.
OnlyAims(e, n, v) == \A t \in Targets(v) : \E y \in RefsOf(e, n) : t = Aim(y)

\* What a sense of such a line is resolved to.
LEMMA PartResolved ==
  ASSUME EntrOK, XrefOK, NEW e, Whole(e), NEW n \in DOMAIN entr[e].sens, NEW kr,
         kr = Said[entr[e].sens[n].gloss], NEW x \in RefsOf(e, n), NEW num,
         num = entr[x.xentr].seq, NEW s \in SensesOf(e, n, x.xentr), NEW v,
         v = [num |-> num, senses |-> {s}, kr |-> kr]
  PROVE  /\ Resolves(v)
         /\ OnlyAims(e, n, v)
         /\ \A y \in RefsOf(e, n) : y.xentr \in Rows(num) /\ y.xsens = s => Aim(y) \in Targets(v)
<1>1. v.num = num /\ v.senses = {s} /\ v.kr = kr
  OBVIOUS
<1>2. /\ num # 0 /\ x \in xref
      /\ \A t \in Rows(num) : \E y \in RefsOf(e, n) : y.xentr = t /\ y.xsens = s
  BY WholeIs
<1>3. \A y \in RefsOf(e, n) : y \in xref /\ Shown(y) = kr
  BY WholeIs
<1>4. \A y \in RefsOf(e, n) :
        /\ y.xentr \in DOMAIN entr /\ y.xsens \in DOMAIN entr[y.xentr].sens
        /\ Has(entr[y.xentr], kr)
        /\ Aim(y) = [xentr |-> y.xentr, xsens |-> y.xsens,
                     kanj |-> Place(entr[y.xentr].kanj, kr.ktxt),
                     rdng |-> Place(entr[y.xentr].rdng, kr.rtxt)]
  BY <1>3, AimIs
<1>5. Candidates(v) = Rows(num)
  <2>1. Candidates(v) = {t \in DOMAIN entr : num \in {0, entr[t].seq} /\ Has(entr[t], kr)}
    BY <1>1 DEF Candidates
  <2>2. \A t \in Rows(num) : Has(entr[t], kr)
    BY <1>2, <1>4
  <2> QED
    BY <1>2, <2>1, <2>2 DEF Rows
<1>6. x.xentr \in Rows(num)
  BY <1>4 DEF Rows
<1>7. \A t \in Rows(num) : s \in DOMAIN entr[t].sens
  BY <1>2, <1>4
<1>8. Resolves(v)
  <2>1. \A d, t \in Rows(num) : entr[d].seq = entr[t].seq
    BY DEF Rows
  <2>2. Candidates(v) # {}
    BY <1>5, <1>6
  <2>3. \A d, t \in Candidates(v) : entr[d].seq = entr[t].seq
    BY <1>5, <2>1
  <2>4. \A t \in Candidates(v) : v.senses \subseteq DOMAIN entr[t].sens
    BY <1>1, <1>5, <1>7
  <2> QED
    BY <2>2, <2>3, <2>4, Zenon DEF Resolves
<1>9. \A a : a \in Targets(v)
        <=> \E t \in Rows(num) :
              a = [xentr |-> t, xsens |-> s, kanj |-> Place(entr[t].kanj, kr.ktxt),
                   rdng |-> Place(entr[t].rdng, kr.rtxt)]
  <2> DEFINE At(t, r) == [xentr |-> t, xsens |-> r, kanj |-> Place(entr[t].kanj, kr.ktxt),
                          rdng |-> Place(entr[t].rdng, kr.rtxt)]
  <2>1. Targets(v) = {At(t, r) : t \in Rows(num), r \in {s}}
    BY <1>1, <1>5, SMTT(30) DEF Targets
  <2> HIDE DEF At
  <2>2. \A a : a \in Targets(v) <=> \E t \in Rows(num) : a = At(t, s)
    BY <2>1
  <2> QED
    BY <2>2, Zenon DEF At
<1>10. ASSUME NEW t \in Targets(v) PROVE \E y \in RefsOf(e, n) : t = Aim(y)
  <2>1. PICK d \in Rows(num) :
          t = [xentr |-> d, xsens |-> s, kanj |-> Place(entr[d].kanj, kr.ktxt),
               rdng |-> Place(entr[d].rdng, kr.rtxt)]
    BY <1>9
  <2>2. PICK y \in RefsOf(e, n) : y.xentr = d /\ y.xsens = s
    BY <1>2
  <2> QED
    BY <1>4, <2>1, <2>2
<1>11. ASSUME NEW y \in RefsOf(e, n), y.xentr \in Rows(num), y.xsens = s
       PROVE  Aim(y) \in Targets(v)
  BY <1>4, <1>9, <1>11
<1> QED
  BY <1>8, <1>10, <1>11 DEF OnlyAims

\* Of the lines of a sense that refers to whole numbers, what it referred to
\* comes back.
LEMMA LinesReturn ==
  ASSUME EntrOK, XrefOK, NEW e, Whole(e), NEW n \in DOMAIN entr[e].sens
  PROVE  UNION {Targets(v) : v \in {w \in Apart(Lines(e, n)) : Resolves(w)}}
           = {Aim(x) : x \in RefsOf(e, n)}
<1> DEFINE kr == Said[entr[e].sens[n].gloss]
           L == Lines(e, n)
           Parts == {w \in Apart(L) : Resolves(w)}
<1>1. \A l : l \in L <=>
        \E x \in RefsOf(e, n) : l = [num |-> entr[x.xentr].seq,
                                     senses |-> SensesOf(e, n, x.xentr), kr |-> kr]
  BY WholeLines, Zenon
<1>2. \A v : v \in Apart(L) <=>
        \E l \in L : \E s \in l.senses : v = [num |-> l.num, senses |-> {s}, kr |-> l.kr]
  BY DEF Apart
<1> HIDE DEF kr, L
<1>3. ASSUME NEW v \in Parts, NEW t \in Targets(v)
      PROVE  \E x \in RefsOf(e, n) : t = Aim(x)
  <2>1. PICK l \in L : \E s \in l.senses : v = [num |-> l.num, senses |-> {s}, kr |-> l.kr]
    BY <1>2
  <2>2. PICK s \in l.senses : v = [num |-> l.num, senses |-> {s}, kr |-> l.kr]
    BY <2>1
  <2>3. PICK x \in RefsOf(e, n) : l = [num |-> entr[x.xentr].seq,
                                       senses |-> SensesOf(e, n, x.xentr), kr |-> kr]
    BY <1>1
  <2> DEFINE num == entr[x.xentr].seq
  <2>4. s \in SensesOf(e, n, x.xentr) /\ v = [num |-> num, senses |-> {s}, kr |-> kr]
    BY <2>2, <2>3
  <2> HIDE DEF num
  <2>5. num = entr[x.xentr].seq /\ kr = Said[entr[e].sens[n].gloss]
    BY DEF num, kr
  <2>6. OnlyAims(e, n, v)
    BY <2>4, <2>5, PartResolved, Zenon
  <2> QED
    BY <2>6 DEF OnlyAims
<1>4. ASSUME NEW x \in RefsOf(e, n)
      PROVE  \E v \in Parts : Aim(x) \in Targets(v)
  <2> DEFINE num == entr[x.xentr].seq
             s == x.xsens
             l == [num |-> num, senses |-> SensesOf(e, n, x.xentr), kr |-> kr]
             v == [num |-> num, senses |-> {s}, kr |-> kr]
  <2>1. s \in SensesOf(e, n, x.xentr)
    BY DEF SensesOf
  <2>2. l \in L
    BY <1>1
  <2>3. v \in Apart(L)
    BY <1>2, <2>1, <2>2
  <2>4. x \in xref
    BY DEF RefsOf
  <2>5. x.xentr \in Rows(num)
    BY <2>4 DEF XrefOK, Leads, Rows
  <2>6. num = entr[x.xentr].seq /\ kr = Said[entr[e].sens[n].gloss]
          /\ v = [num |-> num, senses |-> {s}, kr |-> kr] /\ x.xsens = s
    BY DEF kr
  <2> HIDE DEF num, s, v
  <2>7. Resolves(v)
    BY <2>1, <2>6, PartResolved
  <2>8. \A y \in RefsOf(e, n) : y.xentr \in Rows(num) /\ y.xsens = s => Aim(y) \in Targets(v)
    BY <2>1, <2>6, PartResolved
  <2> QED
    BY <2>3, <2>5, <2>6, <2>7, <2>8
<1> HIDE DEF Parts
<1>5. \A t : t \in UNION {Targets(v) : v \in Parts} <=> \E v \in Parts : t \in Targets(v)
  OBVIOUS
<1>6. \A t : t \in UNION {Targets(v) : v \in Parts} <=> t \in {Aim(x) : x \in RefsOf(e, n)}
  BY <1>3, <1>4, <1>5
<1>7. UNION {Targets(v) : v \in Parts} = {Aim(x) : x \in RefsOf(e, n)}
  BY <1>6
<1> QED
  BY <1>7 DEF Parts, L

\* A step that leaves a user on the page confirm, and the rows and the other
\* users as they were, is that user's.
LEMMA ConfirmsIs ==
  ASSUME FInv, FormNext, NEW u \in Users, Confirms(u)
  PROVE  Confirm(u) \/ UNCHANGED formVars
<1>1. /\ page'[u].at = "confirm" /\ entr' = entr
      /\ \A v \in Users \ {u} : page'[v] = page[v]
  BY DEF Confirms
<1>2. page = [v \in Users |-> page[v]]
  BY DEF FInv, PagesOK
<1>3. ASSUME NEW v \in Users, NEW e \in DOMAIN entr, Open(v, e) PROVE FALSE
  <2>1. page[v].at = "away" /\ page'[v].at = "form"
    BY <1>2, <1>3 DEF Open, Away
  <2> QED
    BY <1>1, <2>1
<1>4. ASSUME NEW v \in Users, Leave(v) PROVE FALSE
  <2>1. page[v] # Away /\ page'[v] = Away
    BY <1>2, <1>4 DEF Leave
  <2> QED
    BY <1>1, <2>1 DEF Away
<1>5. ASSUME NEW v \in Users, page[v].at = "form", NEW f, NEW new, Rewrite(v, f, new)
      PROVE  FALSE
  <2>1. OnForm(entr, next, v, page[v])
    BY <1>5 DEF FInv, PagesOK, OnPage, OnConfirm, Away
  <2>2. /\ "at" \in DOMAIN page[v] /\ "changes" \in DOMAIN page[v]
        /\ page[v].changes \in Nat
    <3> DEFINE d == page[v]
    <3>1. d = [at |-> "form", of |-> d.of, seen |-> d.seen, form |-> d.form,
               changes |-> d.changes, typed |-> d.typed] /\ d.changes \in Nat
      BY <2>1 DEF OnForm
    <3> HIDE DEF d
    <3>2. "at" \in DOMAIN d /\ "changes" \in DOMAIN d
      BY <3>1
    <3> QED
      BY <3>1, <3>2 DEF d
  <2>3. page'[v] = [page[v] EXCEPT !.form = f, !.changes = @ + 1, !.typed = @ \cup new]
    BY <1>2, <1>5 DEF Rewrite
  <2>4. page'[v].at = "form" /\ page'[v].changes = page[v].changes + 1
    BY <1>5, <2>2, <2>3
  <2> QED
    BY <1>1, <2>2, <2>4
<1>6. ASSUME NEW v \in Users, Reorder(v) PROVE FALSE
  BY <1>5, <1>6 DEF Reorder
<1>7. ASSUME NEW v \in Users, DropKanj(v) PROVE FALSE
  BY <1>5, <1>7 DEF DropKanj
<1>8. ASSUME NEW v \in Users, DropSens(v) PROVE FALSE
  BY <1>5, <1>8 DEF DropSens
<1>9. ASSUME NEW v \in Users, AddKanj(v) PROVE FALSE
  BY <1>5, <1>9 DEF AddKanj
<1>10. ASSUME NEW v \in Users, Submit(v) PROVE FALSE
  <2>1. PICK rows : Submitted(v, rows)
    BY <1>10, SubmitIs
  <2>2. next \in DOMAIN entr'
    BY <2>1 DEF Submitted
  <2>3. next \notin DOMAIN entr
    BY DEF FInv, EntrOK
  <2> QED
    BY <1>1, <2>2, <2>3
<1>11. ASSUME NEW v \in Users, Confirm(v), v # u PROVE UNCHANGED formVars
  <2>1. page' = [w \in Users |-> page'[w]] /\ \A w \in Users \ {v} : page'[w] = page[w]
    BY <1>2, <1>11 DEF Confirm
  <2>2. \A w \in Users : page'[w] = page[w]
    BY <1>1, <1>11, <2>1
  <2>3. page' = page
    BY <1>2, <2>1, <2>2
  <2> QED
    BY <1>11, <2>3 DEF Confirm, formVars
<1> QED
  BY <1>3, <1>4, <1>6, <1>7, <1>8, <1>9, <1>10, <1>11 DEF FormNext

\* The step of RefsReturn.
ReturnStep(u) ==
  Confirms(u) =>
    LET e == page[u].of
        f == page[u].form
    IN  Whole(e) => \A n \in DOMAIN entr[e].sens, m \in DOMAIN f.sens :
          /\ f.sens[m].gloss = entr[e].sens[n].gloss
          /\ f.sens[m].refs = Lines(e, n)
          => {r.to : r \in {q \in page'[u].refs : q.n = m}}
               = {[xentr |-> x.xentr, xsens |-> x.xsens, kanj |-> x.kanj,
                   rdng |-> x.rdng] : x \in RefsOf(e, n)}

\* The page edconf resolves what edform wrote to the references it was written of.
LEMMA ConfirmReturns ==
  ASSUME FInv, NEW u \in Users, Confirm(u)
  PROVE  ReturnStep(u)
<1> DEFINE e == page[u].of
           f == page[u].form
<1>1. page'[u].refs = Resolved(f)
  <2>1. page = [v \in Users |-> page[v]]
    BY DEF FInv, PagesOK
  <2> QED
    BY <2>1 DEF Confirm
<1>2. EntrOK /\ XrefOK
  BY DEF FInv
<1> HIDE DEF e, f
<1>3. ASSUME Whole(e), NEW n \in DOMAIN entr[e].sens, NEW m \in DOMAIN f.sens,
             f.sens[m].refs = Lines(e, n)
      PROVE  {r.to : r \in {q \in Resolved(f) : q.n = m}} = {Aim(x) : x \in RefsOf(e, n)}
  <2> DEFINE T(k) == UNION {Targets(v) : v \in {w \in Apart(f.sens[k].refs) : Resolves(w)}}
  <2>1. Resolved(f) = UNION {{[n |-> k, to |-> t] : t \in T(k)} : k \in DOMAIN f.sens}
    BY DEF Resolved
  <2>2. T(m) = {Aim(x) : x \in RefsOf(e, n)}
    BY <1>2, <1>3, LinesReturn, Zenon
  <2> HIDE DEF T
  <2>3. \A q : q \in Resolved(f)
          <=> \E k \in DOMAIN f.sens : \E t \in T(k) : q = [n |-> k, to |-> t]
    BY <2>1
  <2>4. ASSUME NEW t \in T(m)
        PROVE  t \in {r.to : r \in {q \in Resolved(f) : q.n = m}}
    <3>1. [n |-> m, to |-> t] \in Resolved(f)
      BY <2>3
    <3>2. [n |-> m, to |-> t].n = m /\ [n |-> m, to |-> t].to = t
      OBVIOUS
    <3> QED
      BY <3>1, <3>2
  <2>5. ASSUME NEW t \in {r.to : r \in {q \in Resolved(f) : q.n = m}}
        PROVE  t \in T(m)
    <3>1. PICK r \in Resolved(f) : r.n = m /\ t = r.to
      OBVIOUS
    <3>2. PICK k \in DOMAIN f.sens : \E s \in T(k) : r = [n |-> k, to |-> s]
      BY <2>3, <3>1
    <3> QED
      BY <3>1, <3>2
  <2>6. {r.to : r \in {q \in Resolved(f) : q.n = m}} = T(m)
    BY <2>4, <2>5
  <2> QED
    BY <2>2, <2>6
<1>4. \A n : {Aim(x) : x \in RefsOf(e, n)}
         = {[xentr |-> x.xentr, xsens |-> x.xsens, kanj |-> x.kanj,
             rdng |-> x.rdng] : x \in RefsOf(e, n)}
  BY DEF Aim
<1> QED
  BY <1>1, <1>3, <1>4, Zenon DEF ReturnStep, e, f

\* THEOREM.  References that the form shows by number come back from the page
\* edconf as they were.  (RefsReturn: jdb.add_xsens_lists, jdb.mark_seq_xrefs,
\* jdb.xresolv.)
THEOREM ReferencesReturn == FormSpec => RefsReturn
<1>1. FInv /\ [FormNext]_formVars
        => [\A u \in Users : Confirms(u) =>
              LET e == page[u].of
                  f == page[u].form
              IN  Whole(e) => \A n \in DOMAIN entr[e].sens, m \in DOMAIN f.sens :
                    /\ f.sens[m].gloss = entr[e].sens[n].gloss
                    /\ f.sens[m].refs = Lines(e, n)
                    => {r.to : r \in {q \in page'[u].refs : q.n = m}}
                         = {[xentr |-> x.xentr, xsens |-> x.xsens, kanj |-> x.kanj,
                             rdng |-> x.rdng] : x \in RefsOf(e, n)}]_formVars
  <2> SUFFICES ASSUME FInv, FormNext, formVars' # formVars
               PROVE  \A u \in Users : ReturnStep(u)
    BY DEF ReturnStep
  <2>1. ASSUME NEW u \in Users PROVE ReturnStep(u)
    <3>1. CASE Confirms(u)
      BY <3>1, ConfirmsIs, ConfirmReturns
    <3>2. CASE ~Confirms(u)
      BY <3>2 DEF ReturnStep
    <3> QED
      BY <3>1, <3>2
  <2> QED
    BY <2>1
<1> QED
  BY <1>1, FormsAreKept, PTL DEF FormSpec, RefsReturn
=============================================================================
