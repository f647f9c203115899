------------------------------ MODULE Session ------------------------------
(***************************************************************************)
(* The session token and user deletion of the Local Store (Database in     *)
(* https_client.cc): SetCurrentAPIToken, ClearCurrentAPIToken,             *)
(* CurrentAPIToken, LoadCurrentUser with LoadUserByAPIToken, and           *)
(* DeleteUser with deleteFromTable and deleteAllFromTableByUID.            *)
(*                                                                         *)
(* Every function takes the recursive mutex_ for its own statements only;  *)
(* SetCurrentAPIToken holds it across its two statements, LoadCurrentUser  *)
(* and DeleteUser do not.  Each statement commits on its own.  Caller      *)
(* threads call these functions in any order; a statement may fail in the  *)
(* engine; the process may crash between two statements.                   *)
(***************************************************************************)
EXTENDS Naturals, Sequences, FiniteSets

CONSTANTS
  Threads,      \* caller threads
  Users,        \* users; a user's api_token is the user itself
  NoUser,       \* model value: no token, no user
  MaxFailures,  \* statements failing in the engine
  MaxCrashes

(* The related tables DeleteUser empties, in its order.                    *)
Related == <<"workspaces", "clients", "projects", "tasks", "tags", "time_entries">>

VARIABLES
  users,      \* users with a row in users
  rows,       \* rows[k]: users with rows in related table Related[k]
  session,    \* api_token of the one row of sessions (unique index on active)
  lock,       \* owner of mutex_, or NoUser
  frame,      \* frame[t]: where thread t is in its call, and its arguments
              \* and locals (gone when the call returns)
  ret,        \* error returned by each thread's last call
  failures, crashes,
  resaved     \* history: threads in DeleteUser whose user a SaveUser gave
              \* related rows again after its users row was deleted

vars == <<users, rows, session, lock, frame, ret, failures, crashes, resaved>>

Idle == [pc |-> "idle", user |-> NoUser, withRelated |-> FALSE, k |-> 1,
         token |-> NoUser]

(* The calls a thread may make: SetCurrentAPIToken(token),                 *)
(* ClearCurrentAPIToken(), LoadCurrentUser(user, ...) and                  *)
(* DeleteUser(user, with_related_data).                                    *)
Calls ==
  {[Idle EXCEPT !.pc = "set", !.user = u] : u \in Users}
  \cup {[Idle EXCEPT !.pc = "clear"], [Idle EXCEPT !.pc = "loadCurrent"]}
  \cup {[Idle EXCEPT !.pc = "delete", !.user = u, !.withRelated = w] :
          u \in Users, w \in BOOLEAN}

Init ==
  /\ users = Users /\ rows = [i \in 1..Len(Related) |-> Users]
  /\ session \in Users \cup {NoUser}
  /\ lock = NoUser
  /\ frame = [t \in Threads |-> Idle] /\ ret = [t \in Threads |-> "noError"]
  /\ failures = 0 /\ crashes = 0 /\ resaved = {}

(* A statement under mutex_ may start when the lock is free or, mutex_     *)
(* being recursive, already held by the same thread.                       *)
CanLock(t) == lock \in {NoUser, t}

At(t, l) == frame[t].pc = l /\ CanLock(t)

(* A statement fails in the engine while failures remain.                  *)
Fails == failures < MaxFailures /\ failures' = failures + 1

Return(t, e) ==
  /\ frame' = [frame EXCEPT ![t] = Idle] /\ ret' = [ret EXCEPT ![t] = e]

Goto(t, l) == frame' = [frame EXCEPT ![t].pc = l] /\ UNCHANGED ret

-----------------------------------------------------------------------------
Call(t) ==
  /\ frame[t] = Idle
  /\ \E c \in Calls : frame' = [frame EXCEPT ![t] = c]
  /\ resaved' = resaved \ {t}
  /\ UNCHANGED <<users, rows, session, lock, ret, failures, crashes>>

(* Mutant: an error of the clear returns without unlocking mutex_.        *)
SetClearKeepsLock(t) ==
  /\ At(t, "set")
  /\ \/ session' = NoUser /\ lock' = t /\ Goto(t, "setInsert")
        /\ UNCHANGED failures
     \/ Fails /\ lock' = t /\ Return(t, "engine") /\ UNCHANGED session
  /\ UNCHANGED <<users, rows, crashes, resaved>>

(* Mutant: SetCurrentAPIToken does not hold mutex_ from clear to insert.  *)
SetClearUnlocked(t) ==
  /\ At(t, "set")
  /\ \/ session' = NoUser /\ lock' = lock /\ Goto(t, "setInsert")
        /\ UNCHANGED failures
     \/ Fails /\ lock' = NoUser /\ Return(t, "engine") /\ UNCHANGED session
  /\ UNCHANGED <<users, rows, crashes, resaved>>

(* SetCurrentAPIToken: ScopedLock on mutex_, then ClearCurrentAPIToken     *)
(* ("delete from sessions"), whose own ScopedLock re-enters the mutex; an  *)
(* error returns, releasing the lock.                                      *)
SetClear(t) ==
  /\ At(t, "set")
  /\ \/ session' = NoUser /\ lock' = t /\ Goto(t, "setInsert")
        /\ UNCHANGED failures
     \/ Fails /\ lock' = NoUser /\ Return(t, "engine") /\ UNCHANGED session
  /\ UNCHANGED <<users, rows, crashes, resaved>>

(* SetCurrentAPIToken: "insert into sessions(api_token) ...", still under  *)
(* the lock taken before the clear; the unique index on sessions.active    *)
(* rejects a second row.                                                   *)
SetInsert(t) ==
  /\ At(t, "setInsert")
  /\ lock' = NoUser
  /\ \/ session # NoUser /\ Return(t, "unique") /\ UNCHANGED <<session, failures>>
     \/ session = NoUser /\ session' = frame[t].user /\ Return(t, "noError")
        /\ UNCHANGED failures
     \/ Fails /\ Return(t, "engine") /\ UNCHANGED session
  /\ UNCHANGED <<users, rows, crashes, resaved>>

(* ClearCurrentAPIToken called on its own (logout).                        *)
ClearToken(t) ==
  /\ At(t, "clear")
  /\ \/ session' = NoUser /\ Return(t, "noError") /\ UNCHANGED failures
     \/ Fails /\ Return(t, "engine") /\ UNCHANGED session
  /\ UNCHANGED <<users, rows, lock, crashes, resaved>>

(* CurrentAPIToken: "select api_token from sessions" under mutex_; "" when *)
(* there is no row.                                                         *)
CurrentAPIToken == session

(* LoadCurrentUser: CurrentAPIToken reads the token under the lock and     *)
(* releases it; an empty token returns noError with no user loaded.        *)
LoadReadToken(t) ==
  /\ At(t, "loadCurrent")
  /\ \/ /\ IF CurrentAPIToken = NoUser THEN Return(t, "noError")
           ELSE /\ frame' = [frame EXCEPT ![t].pc = "loadByToken",
                                          ![t].token = CurrentAPIToken]
                /\ UNCHANGED ret
        /\ UNCHANGED failures
     \/ Fails /\ Return(t, "engine")
  /\ UNCHANGED <<users, rows, session, lock, crashes, resaved>>

(* LoadUserByAPIToken with the token read before: "select id from users    *)
(* where api_token = ...", then LoadUserByID into the caller's User; no    *)
(* row returns noError with nothing loaded.                                *)
LoadByToken(t) ==
  /\ At(t, "loadByToken")
  /\ \/ Return(t, "noError") /\ UNCHANGED failures
     \/ Fails /\ Return(t, "engine")
  /\ UNCHANGED <<users, rows, session, lock, crashes, resaved>>

(* deleteFromTable: "delete from <table> where local_id = :local_id".      *)
DeleteFromTable(tbl, u) == tbl \ {u}

(* DeleteUser: deleteFromTable("users", LocalID); without related data     *)
(* it returns here.                                                        *)
DeleteUserRow(t) ==
  /\ At(t, "delete")
  /\ \/ /\ users' = DeleteFromTable(users, frame[t].user)
        /\ IF frame[t].withRelated THEN Goto(t, "deleteRelated")
                                   ELSE Return(t, "noError")
        /\ UNCHANGED failures
     \/ Fails /\ Return(t, "engine") /\ UNCHANGED users
  /\ UNCHANGED <<rows, session, lock, crashes, resaved>>

(* Mutant: DeleteUser ignores the error of a related table and goes on.   *)
DeleteRelatedIgnoresError(t) ==
  LET i == frame[t].k
      next == IF i = Len(Related) THEN Return(t, "noError")
              ELSE frame' = [frame EXCEPT ![t].k = i + 1] /\ UNCHANGED ret
  IN
  /\ At(t, "deleteRelated")
  /\ \/ rows' = [rows EXCEPT ![i] = @ \ {frame[t].user}] /\ next
        /\ UNCHANGED failures
     \/ Fails /\ next /\ UNCHANGED rows
  /\ UNCHANGED <<users, session, lock, crashes, resaved>>

(* DeleteUser: deleteAllFromTableByUID for each related table in turn,     *)
(* returning at the first error.                                           *)
DeleteRelated(t) ==
  LET i == frame[t].k IN
  /\ At(t, "deleteRelated")
  /\ \/ /\ rows' = [rows EXCEPT ![i] = @ \ {frame[t].user}]
        /\ IF i = Len(Related) THEN Return(t, "noError")
           ELSE frame' = [frame EXCEPT ![t].k = i + 1] /\ UNCHANGED ret
        /\ UNCHANGED failures
     \/ Fails /\ Return(t, "engine") /\ UNCHANGED rows
  /\ UNCHANGED <<users, session, lock, crashes, resaved>>

(* Sync saves a user: SaveUser(with_related_data) in one transaction      *)
(* (LocalStore.tla models it statement by statement).  The users row and   *)
(* every saved object are written by "update ... where local_id = ...",    *)
(* a no-op on a row DeleteUser has removed; only the objects new since     *)
(* the last save (LocalID 0) are inserted, giving the user rows again in   *)
(* their tables.                                                           *)
SaveUser(u) ==
  /\ lock = NoUser
  /\ \E new \in SUBSET DOMAIN rows :
       /\ rows' = [i \in DOMAIN rows |->
                    IF i \in new THEN rows[i] \cup {u} ELSE rows[i]]
       /\ resaved' = resaved \cup {t \in Threads :
                                     /\ new # {}
                                     /\ frame[t].pc = "deleteRelated"
                                     /\ frame[t].user = u}
  /\ UNCHANGED <<users, session, lock, frame, ret, failures, crashes>>

(* The process dies: every call is gone and mutex_ with it; committed      *)
(* statements stay.                                                        *)
Crash ==
  /\ crashes < MaxCrashes
  /\ \E t \in Threads : frame[t] # Idle
  /\ crashes' = crashes + 1
  /\ frame' = [t \in Threads |-> Idle] /\ lock' = NoUser
  /\ UNCHANGED <<users, rows, session, ret, failures, resaved>>

Step(t) ==
  \/ SetClear(t) \/ SetInsert(t) \/ ClearToken(t) \/ LoadReadToken(t)
  \/ LoadByToken(t) \/ DeleteUserRow(t) \/ DeleteRelated(t)

Next ==
  \/ \E t \in Threads : Call(t) \/ Step(t)
  \/ \E u \in Users : SaveUser(u)
  \/ Crash

(* A thread inside a call is scheduled, and a thread blocked on mutex_     *)
(* gets it when it is released often enough (strong fairness): another    *)
(* thread leaves the lock between its calls for far longer than a wakeup.  *)
(* Calling is up to the application and is not fair.                      *)
Spec == Init /\ [][Next]_vars /\ \A t \in Threads : SF_vars(Step(t))

-----------------------------------------------------------------------------
(* Logging in never fails on the unique index of sessions.active: two      *)
(* threads calling SetCurrentAPIToken (with crashes and failing statements *)
(* in between) never both find the table empty and both insert, because    *)
(* the mutex_ is held from the clear to the insert.                        *)
LoginNeverRejected == \A t \in Threads : ret[t] # "unique"

(* Every call of the session and deletion functions returns: mutex_ is     *)
(* released on every path, so a thread waiting for it gets it.             *)
CallsReturn == \A t \in Threads : frame[t] # Idle ~> frame[t] = Idle

(* DeleteUser(user, true) returns noError only when the user is gone from *)
(* users and from every related table: each of its seven statements ran   *)
(* and a failing one is reported, unless a SaveUser inserted new objects   *)
(* of the user while it ran.                                               *)
DeleteReportsLeftovers ==
  [][\A t \in Threads :
       /\ frame[t].pc = "deleteRelated" /\ frame'[t] = Idle
       /\ ret'[t] = "noError" /\ crashes' = crashes /\ t \notin resaved
       => /\ frame[t].user \notin users'
          /\ \A i \in DOMAIN rows' : frame[t].user \notin rows'[i]]_vars

=============================================================================
