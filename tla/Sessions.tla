------------------------------ MODULE Sessions ------------------------------
(***************************************************************************)
(* Users and their sessions: tables users and sessions (db/mksess.sql),    *)
(* login, visits and logout (jmdictdb/jmcgi.py, parseform() and below),    *)
(* and the page on which accounts are changed (views/userupd.py).          *)
(*                                                                         *)
(* Every request has a connection of its own at READ COMMITTED, so each    *)
(* statement sees what others have committed meanwhile; but NOW() is the   *)
(* time at which its transaction began.  A browser is not modelled: any    *)
(* session id that was ever given out may come with a request.  Passwords, *)
(* and the privileges that userupd.py asks for, are left out.              *)
(***************************************************************************)
EXTENDS Integers

CONSTANTS Names,     \* user ids that accounts may have
          Sids,      \* session ids
          Requests,  \* requests of parseform() that may be under way at once
          MaxTime, MaxAccounts,  \* bounds: of the clock, and accounts made
          Timeout,   \* how long a session lasts without visits
          Reuse      \* how long a login goes on with an earlier session

ASSUME TimesAreNaturals == {MaxTime, MaxAccounts, Timeout, Reuse} \subseteq Nat

VARIABLES users,     \* table users: by name, the account and whether disabled
          sess,      \* table sessions: by id, the user's name and the time stamp
          issued,    \* session ids that were given out
          req,       \* what each request is about to do
          now, made  \* the clock; the accounts made

vars == <<users, sess, issued, req, now, made>>

NoRequest == [at |-> "idle"]

Init ==
  /\ \E n \in Names : users = [m \in {n} |-> [account |-> 1, disabled |-> FALSE]]
  /\ sess = <<>>
  /\ issued = {}
  /\ req = [r \in Requests |-> NoRequest]
  /\ now = 0
  /\ made = 1

\* Requests end in any state in which they have committed.
Goto(r, next) == req' = [req EXCEPT ![r] = next]

Enabled(n) == n \in DOMAIN users /\ ~users[n].disabled

-----------------------------------------------------------------------------
(* dblogin(). *)

Login(r, n) ==
  /\ req[r] = NoRequest
  /\ Enabled(n)
  /\ Goto(r, [at |-> "checked", name |-> n, t |-> now])
  /\ UNCHANGED <<users, sess, issued, now, made>>

Recent(n, t) ==
  {s \in DOMAIN sess : sess[s].name = n /\ Enabled(n) /\ t - sess[s].ts < Reuse}

\* The most recent of the sessions that the user has.
LoginFind(r) ==
  /\ req[r].at = "checked"
  /\ LET found == Recent(req[r].name, req[r].t)
     IN  IF found = {} THEN Goto(r, [req[r] EXCEPT !.at = "none"])
         ELSE \E s \in found : /\ \A q \in found : sess[q].ts <= sess[s].ts
                               /\ Goto(r, [at |-> "found", sid |-> s, t |-> req[r].t])
  /\ UNCHANGED <<users, sess, issued, now, made>>

\* INSERT INTO sessions; ts is NOW(), and the foreign key wants the user.
LoginNew(r) ==
  /\ req[r].at = "none"
  /\ Goto(r, NoRequest)
  /\ IF req[r].name \in DOMAIN users
     THEN \E s \in Sids \ issued :
            /\ issued' = issued \cup {s}
            /\ sess' = [q \in DOMAIN sess \cup {s} |->
                          IF q = s THEN [name |-> req[r].name, ts |-> req[r].t]
                          ELSE sess[q]]
     ELSE UNCHANGED <<sess, issued>>
  /\ UNCHANGED <<users, now, made>>

-----------------------------------------------------------------------------
(* Visits: dbsession(); logout: dblogout(). *)

\* db_validate_sid().
Visit(r, s) ==
  /\ req[r] = NoRequest
  /\ s \in DOMAIN sess
  /\ Enabled(sess[s].name) /\ now - sess[s].ts < Timeout
  /\ Goto(r, [at |-> "valid", sid |-> s, t |-> now])
  /\ UNCHANGED <<users, sess, issued, now, made>>

\* A mutant of Expired: minutes taken for seconds, as in dblogin().
ExpiredSoon(t) == {s \in DOMAIN sess : t - sess[s].ts > Reuse}

\* db_del_old_sessions(), which deletes the sessions of anyone.
Expired(t) == {s \in DOMAIN sess : t - sess[s].ts > Timeout}

\* A mutant of Stamped: INSERT ... ON CONFLICT DO UPDATE.
Upserted(T, s, t) ==
  [q \in DOMAIN T \cup {s} |->
     IF q # s THEN T[q]
     ELSE [name |-> IF q \in DOMAIN T THEN T[q].name ELSE CHOOSE n \in Names : TRUE,
           ts |-> t]]

\* db_update_sid_ts(): the row is updated if it is still there.
Stamped(T, s, t) ==
  [q \in DOMAIN T |-> IF q = s THEN [T[q] EXCEPT !.ts = t] ELSE T[q]]

Renew(r) ==
  /\ req[r].at \in {"valid", "found"}
  /\ LET old  == IF req[r].at = "valid" THEN Expired(req[r].t) ELSE {}
         kept == [q \in DOMAIN sess \ old |-> sess[q]]
     IN  sess' = Stamped(kept, req[r].sid, req[r].t)
  /\ Goto(r, NoRequest)
  /\ UNCHANGED <<users, issued, now, made>>

\* All the sessions of the user, on whatever machine.
Logout(s) ==
  /\ s \in DOMAIN sess
  /\ sess' = [q \in {p \in DOMAIN sess : sess[p].name # sess[s].name} |-> sess[q]]
  /\ UNCHANGED <<users, issued, req, now, made>>

-----------------------------------------------------------------------------
(* userupd.py. *)

NewUser(n) ==
  /\ n \notin DOMAIN users
  /\ made < MaxAccounts
  /\ made' = made + 1
  /\ users' = [m \in DOMAIN users \cup {n} |->
                 IF m = n THEN [account |-> made', disabled |-> FALSE] ELSE users[m]]
  /\ UNCHANGED <<sess, issued, req, now>>

\* A mutant of Renamed: sessions keep the name they were made with.
NotRenamed(T, n, m) == T

\* ON UPDATE CASCADE.
Renamed(T, n, m) ==
  [s \in DOMAIN T |-> IF T[s].name = n THEN [T[s] EXCEPT !.name = m] ELSE T[s]]

RenameUser(n, m) ==
  /\ n \in DOMAIN users /\ m \notin DOMAIN users
  /\ users' = [k \in (DOMAIN users \ {n}) \cup {m} |->
                 IF k = m THEN users[n] ELSE users[k]]
  /\ sess' = Renamed(sess, n, m)
  /\ UNCHANGED <<issued, req, now, made>>

DisableUser(n) ==
  /\ n \in DOMAIN users
  /\ users' = [users EXCEPT ![n].disabled = ~@]
  /\ UNCHANGED <<sess, issued, req, now, made>>

\* ON DELETE CASCADE.
DeleteUser(n) ==
  /\ n \in DOMAIN users
  /\ users' = [m \in DOMAIN users \ {n} |-> users[m]]
  /\ sess' = [s \in {q \in DOMAIN sess : sess[q].name # n} |-> sess[s]]
  /\ UNCHANGED <<issued, req, now, made>>

Tick ==
  now < MaxTime /\ now' = now + 1 /\ UNCHANGED <<users, sess, issued, req, made>>

Next ==
  \/ \E r \in Requests : \/ \E n \in Names : Login(r, n)
                         \/ LoginFind(r)
                         \/ LoginNew(r)
                         \/ \E s \in Sids : Visit(r, s)
                         \/ Renew(r)
  \/ \E s \in Sids : Logout(s)
  \/ \E n \in Names : \/ NewUser(n)
                      \/ DisableUser(n)
                      \/ DeleteUser(n)
                      \/ \E m \in Names : RenameUser(n, m)
  \/ Tick

Spec == Init /\ [][Next]_vars

-----------------------------------------------------------------------------
Account(s) == users[sess[s].name].account

\* A session is one account's for as long as it lasts, whatever accounts are
\* renamed, removed and made again under a name that was used before (the
\* foreign key of table sessions and its cascades).
AccountKept ==
  [][\A s \in DOMAIN sess \cap DOMAIN sess' :
       /\ sess'[s].name \in DOMAIN users'
       /\ Account(s)' = Account(s)]_vars

\* "Delete all sessions that are expired" (db_del_old_sessions): a session
\* that is not expired goes only when its user logs out, on whatever machine,
\* or the account is removed; no visit or login of anybody ends it.
KeptWhileFresh ==
  [][\A s \in DOMAIN sess \ DOMAIN sess' :
       \/ now - sess[s].ts > Timeout
       \/ \E q \in DOMAIN sess : sess[q].name = sess[s].name /\ Logout(q)
       \/ DeleteUser(sess[s].name)]_vars

\* "A logout will remedy a disclosed sid" (dblogout): a session that is gone
\* stays gone, even for the requests that were let in by it before.
GoneForGood ==
  [][\A s \in issued \ DOMAIN sess : s \notin DOMAIN sess']_vars
=============================================================================
