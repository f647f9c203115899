---------------------------- MODULE LocalStore ----------------------------
(***************************************************************************)
(* The Local Store's related-data save (Database::SaveUser and the         *)
(* per-kind saveXs/saveX functions of database.cc), together with the      *)
(* in-memory User graph it writes back into.                               *)
(*                                                                         *)
(* One SQLite session is guarded by the recursive mutex_.  SaveUser takes  *)
(* the mutex, opens a transaction, saves the user row and then every       *)
(* related object kind by kind; each object is one step of the model.  A   *)
(* failing statement rolls the transaction back.  The in-memory objects    *)
(* are changed as the save goes (LocalID assigned, dirty flag cleared,     *)
(* server-deleted objects purged from their vector) and nothing undoes     *)
(* those changes on rollback.                                              *)
(*                                                                         *)
(* Between saves the caller's thread changes the graph through the entity  *)
(* setters and the sync results (spec 4.3).  Loads (LoadUserByID) are     *)
(* left out: they take the same mutex_, which SaveUser holds from begin()  *)
(* to commit() or rollback(), so no load can fall inside a save.           *)
(***************************************************************************)
EXTENDS Integers, Sequences, FiniteSets, SequencesExt

CONSTANTS
  User,         \* the logged-in User object (root aggregate)
  Collection,   \* the related objects, in the order of their vectors
  KindOf,       \* object -> its model kind ("project", "time_entry", ...)
  UserID,       \* the user's remote ID, set at login
  ServerIDs,    \* remote IDs the server may hand out for new objects
  Values,       \* abstract contents of an object's persisted fields
  MaxLocalID,   \* rowids (LocalIDs) per table: objects of the largest kind
  MaxFailures,  \* bound on statements failing inside the engine
  NULL          \* SQL NULL, empty GUID, absent row

Ents == {User} \cup Range(Collection)
LocalIDs == 1..MaxLocalID

(* SaveUser saves the users row first, then the related vectors in this   *)
(* order (database.cc SaveUser).                                           *)
SaveOrder == <<"user", "workspace", "client", "project", "task", "tag",
               "time_entry">>
Kinds == Range(SaveOrder)

ASSUME /\ KindOf \in [Ents -> Kinds]
       /\ KindOf[User] = "user"
       /\ \A e \in Range(Collection) : KindOf[e] # "user"
       /\ UserID \notin ServerIDs
       /\ MaxLocalID \in Nat \ {0} /\ MaxFailures \in Nat

(* saveProjects and saveTimeEntries delete server-deleted objects and     *)
(* purge them from memory; saveProject and saveTimeEntry call EnsureGUID.  *)
TombstoneKinds  == {"project", "time_entry"}
EnsureGUIDKinds == {"project", "time_entry"}

(* Only projects and time entries are created in the app, without a      *)
(* server ID; the other kinds arrive from the server with one.            *)
LocallyCreatedKinds == {"project", "time_entry"}

VARIABLES
  mem,     \* the in-memory objects
  db,      \* committed tables: kind -> LocalID -> row
  txn,     \* the tables as the open transaction sees them
  pc,      \* SaveUser: 0 when idle, else index of the next object of plan
  plan,    \* the objects SaveUser visits, fixed when it starts
  lock,    \* owner of Database::mutex_: "none" or the sync thread "sync"
  faults,  \* statements failed in the engine so far
  issued   \* remote IDs the server has handed out, per kind

vars == <<mem, db, txn, pc, plan, lock, faults, issued>>

Row == [id : {NULL, 0, UserID} \cup ServerIDs, guid : {NULL} \cup Ents,
        val : Values]
MemRec == [st : {"absent", "live", "gone"}, lid : 0..MaxLocalID,
           id : {0, UserID} \cup ServerIDs, guid : {NULL} \cup Ents,
           val : Values, dirty : BOOLEAN, del : BOOLEAN]
Tables == [Kinds -> [LocalIDs -> Row \cup {NULL}]]

EmptyTables == [k \in Kinds |-> [l \in LocalIDs |-> NULL]]

Init ==
  /\ mem = [e \in Ents |->
              IF e = User
              THEN [st |-> "live", lid |-> 0, id |-> UserID, guid |-> NULL,
                    val |-> CHOOSE v \in Values : TRUE, dirty |-> TRUE,
                    del |-> FALSE]
              ELSE [st |-> "absent", lid |-> 0, id |-> 0, guid |-> NULL,
                    val |-> CHOOSE v \in Values : TRUE, dirty |-> FALSE,
                    del |-> FALSE]]
  /\ db = EmptyTables
  /\ txn = EmptyTables
  /\ pc = 0
  /\ plan = <<>>
  /\ lock = "none"
  /\ faults = 0
  /\ issued = [k \in Kinds |-> {}]

-----------------------------------------------------------------------------
(* Mutant: only unsaved objects are written; an edit of a saved one is    *)
(* lost.                                                                   *)
NeedsToBeSavedNewOnly(m) == m.lid = 0

(* BaseModel::NeedsToBeSaved, and the equivalent early return              *)
(* "LocalID() && !Dirty()" of saveWorkspace/saveClient/saveTask/saveTag.   *)
NeedsToBeSaved(m) == m.lid = 0 \/ m.dirty

(* BaseModel::EnsureGUID: a fresh random UUID, modelled as the object's    *)
(* own name, and the object marked dirty.                                  *)
EnsureGUID(e, m) ==
  IF m.guid = NULL THEN [m EXCEPT !.guid = e, !.dirty = TRUE] ELSE m

(* The row an insert (old = NULL) or an update of the row old writes.  A  *)
(* column the statement leaves out keeps its old value, or is NULL in a    *)
(* new row.                                                                *)
Kept(old, f) == IF old = NULL THEN NULL ELSE old[f]

(* The users row of SaveUser: "id, api_token, ..., email".                 *)
UserRow(m, old) == [id |-> m.id, guid |-> NULL, val |-> m.val]

(* saveWorkspace: "id, uid, name, premium".                                *)
WorkspaceRow(m, old) == [id |-> m.id, guid |-> NULL, val |-> m.val]

(* saveClient: guid only when GUID() is not empty.                         *)
ClientRow(m, old) ==
  [id |-> m.id, guid |-> IF m.guid # NULL THEN m.guid ELSE Kept(old, "guid"),
   val |-> m.val]

(* saveProject: id only when ID() is set; guid only when not empty.        *)
ProjectRow(m, old) ==
  [id   |-> IF m.id # 0 THEN m.id ELSE Kept(old, "id"),
   guid |-> IF m.guid # NULL THEN m.guid ELSE Kept(old, "guid"),
   val  |-> m.val]

(* saveTask: "id, uid, name, wid, pid".                                    *)
TaskRow(m, old) == [id |-> m.id, guid |-> NULL, val |-> m.val]

(* saveTag: guid only when GUID() is not empty.                            *)
TagRow(m, old) ==
  [id |-> m.id, guid |-> IF m.guid # NULL THEN m.guid ELSE Kept(old, "guid"),
   val |-> m.val]

(* saveTimeEntry: the id column only when ID() is set.                     *)
TimeEntryRow(m, old) ==
  [id   |-> IF m.id # 0 THEN m.id ELSE Kept(old, "id"),
   guid |-> m.guid,
   val  |-> m.val]

RowOf(k, m, old) ==
  CASE k = "user"       -> UserRow(m, old)
    [] k = "workspace"  -> WorkspaceRow(m, old)
    [] k = "client"     -> ClientRow(m, old)
    [] k = "project"    -> ProjectRow(m, old)
    [] k = "task"       -> TaskRow(m, old)
    [] k = "tag"        -> TagRow(m, old)
    [] k = "time_entry" -> TimeEntryRow(m, old)

(* Writing row at lid violates the INTEGER PRIMARY KEY (an insert at a   *)
(* taken rowid) or a unique index (uid, id) or (uid, guid) of the table    *)
(* (initialize_tables); NULLs never collide.                               *)
Violates(tbl, lid, row, insert) ==
  \/ insert /\ lid \in {l \in LocalIDs : tbl[l] # NULL}
  \/ \E l \in LocalIDs \ {lid} :
        /\ tbl[l] # NULL
        /\ \/ row.id # NULL /\ tbl[l].id = row.id
           \/ row.guid # NULL /\ tbl[l].guid = row.guid

(* Mutant: the rowid read back off by one.                                *)
NextRowIDOffByOne(tbl) ==
  LET used == {l \in LocalIDs : tbl[l] # NULL}
  IN IF used = {} THEN 1 ELSE Max(used) + 2

(* select last_insert_rowid() after an insert into an INTEGER PRIMARY KEY  *)
(* table: one more than the largest rowid in use (SQLite reuses the rowid  *)
(* of a deleted or rolled-back last row).                                  *)
NextRowID(tbl) ==
  LET used == {l \in LocalIDs : tbl[l] # NULL}
  IN IF used = {} THEN 1 ELSE Max(used) + 1


(* Mutant: the purge loop after the delete loop is missing.               *)
PurgeNothing(m, k) == m

(* The objects of kind k that SaveUser's purge loop removes from memory   *)
(* ("Purge deleted models from memory" of saveProjects/saveTimeEntries).   *)
Purge(m, k) ==
  [x \in Ents |-> IF KindOf[x] = k /\ m[x].st = "live" /\ m[x].del
                  THEN [m[x] EXCEPT !.st = "gone"] ELSE m[x]]

-----------------------------------------------------------------------------
(* SaveUser up to session->begin(): the early validation returns cannot   *)
(* fire for a logged-in user, whose e-mail, API token and ID are set.      *)
SaveUserBegin ==
  /\ pc = 0
  /\ lock = "none"
  /\ lock' = "sync"
  /\ txn' = db
  /\ plan' = <<User>> \o
        FlattenSeq([i \in 1..Len(SaveOrder) |->
          SelectSeq(Collection, LAMBDA x : KindOf[x] = SaveOrder[i]
                                           /\ mem[x].st = "live")])
  /\ pc' = 1
  /\ UNCHANGED <<mem, db, faults, issued>>

(* One object of SaveUser: the users row, or one iteration of the loop of *)
(* saveWorkspaces ... saveTimeEntries, with its saveX call.  The purge     *)
(* loop of a tombstone kind runs with the last object of that kind.        *)
SaveObject(e, ok) ==
  LET k      == KindOf[e]
      tbl    == txn[k]
      m0     == mem[e]
      delete == k \in TombstoneKinds /\ m0.del
      skip   == ~delete /\ ~NeedsToBeSaved(m0)
      m1     == IF k \in EnsureGUIDKinds /\ ~delete /\ ~skip
                THEN EnsureGUID(e, m0) ELSE m0
      insert == m1.lid = 0
      lid    == IF insert THEN NextRowID(tbl) ELSE m1.lid
      row    == RowOf(k, m1, IF insert THEN NULL ELSE tbl[lid])
      \* an update of a missing row changes nothing and reports no error
      writes == ~delete /\ ~skip /\ (insert \/ tbl[lid] # NULL)
      fails  == writes /\ Violates(tbl, lid, row, insert)
      tbl1   == CASE delete -> [tbl EXCEPT ![m0.lid] = NULL]
                  []  writes -> [tbl EXCEPT ![lid] = row]
                  []  OTHER  -> tbl
      m2     == IF delete \/ skip THEN m0
                ELSE [m1 EXCEPT !.lid = lid, !.dirty = FALSE]
      lastOfKind == \A j \in pc+1..Len(plan) : KindOf[plan[j]] # k
      mem1   == [mem EXCEPT ![e] = m2]
  IN /\ pc \in 1..Len(plan)
     /\ e = plan[pc]
     /\ IF ok
        THEN /\ ~fails
             /\ txn' = [txn EXCEPT ![k] = tbl1]
             /\ mem' = IF k \in TombstoneKinds /\ lastOfKind
                       THEN Purge(mem1, k) ELSE mem1
             /\ pc' = pc + 1
             /\ UNCHANGED <<db, plan, lock, faults>>
        \* a constraint violation, or any statement failing in the engine:
        \* session->rollback() and return; memory keeps what was done to it
        ELSE /\ ~skip
             /\ fails \/ faults < MaxFailures
             /\ faults' = IF fails THEN faults ELSE faults + 1
             /\ mem' = [mem EXCEPT ![e] = m1]
             /\ txn' = db
             /\ pc' = 0
             /\ plan' = <<>>
             /\ lock' = "none"
             /\ UNCHANGED db
     /\ UNCHANGED <<issued>>

SaveObjectOk     == \E e \in Ents : SaveObject(e, TRUE)
SaveObjectFails  == \E e \in Ents : SaveObject(e, FALSE)

(* session->commit() at the end of SaveUser; the ScopedLock is released.   *)
Commit ==
  /\ pc = Len(plan) + 1
  /\ db' = txn
  /\ pc' = 0
  /\ plan' = <<>>
  /\ lock' = "none"
  /\ UNCHANGED <<mem, txn, faults, issued>>

-----------------------------------------------------------------------------
(* The caller's thread between saves.  New objects come from the sync      *)
(* (pulled, with a server ID) or from User::Start (a time entry with ID 0).*)
CreateObject(e, i, v) ==
  LET k == KindOf[e] IN
  /\ pc = 0
  /\ mem[e].st = "absent"
  /\ i \in (IF k \in LocallyCreatedKinds THEN {0} ELSE {}) \cup (ServerIDs \ issued[k])
  /\ mem' = [mem EXCEPT ![e] = [@ EXCEPT !.st = "live", !.id = i, !.val = v,
                                          !.dirty = TRUE]]
  /\ issued' = [issued EXCEPT ![k] = @ \cup ({i} \ {0})]
  /\ UNCHANGED <<db, txn, pc, plan, lock, faults>>

(* A field setter (TimeEntry::SetDescription, SetStart, ...): a new value  *)
(* is assigned and marks the object dirty; the same value is a no-op.  The *)
(* user's own fields are written at login only.                            *)
SetField(e, v) ==
  /\ pc = 0
  /\ e # User
  /\ mem[e].st = "live" /\ ~mem[e].del
  /\ mem[e].val # v
  /\ mem' = [mem EXCEPT ![e] = [@ EXCEPT !.val = v, !.dirty = TRUE]]
  /\ UNCHANGED <<db, txn, pc, plan, lock, faults, issued>>

(* SetID from a push result: the server created the object.                *)
SetID(e, i) ==
  LET k == KindOf[e] IN
  /\ pc = 0
  /\ mem[e].st = "live" /\ mem[e].id = 0
  /\ i \in ServerIDs \ issued[k]
  /\ mem' = [mem EXCEPT ![e] = [@ EXCEPT !.id = i, !.dirty = TRUE]]
  /\ issued' = [issued EXCEPT ![k] = @ \cup {i}]
  /\ UNCHANGED <<db, txn, pc, plan, lock, faults>>

(* MarkAsDeletedOnServer, for an object already in the store.             *)
MarkAsDeletedOnServer(e) ==
  /\ pc = 0
  /\ e # User
  /\ mem[e].st = "live" /\ ~mem[e].del /\ mem[e].lid # 0
  /\ mem' = [mem EXCEPT ![e] = [@ EXCEPT !.del = TRUE, !.dirty = TRUE]]
  /\ UNCHANGED <<db, txn, pc, plan, lock, faults, issued>>

Next ==
  \/ SaveUserBegin
  \/ SaveObjectOk
  \/ SaveObjectFails
  \/ Commit
  \/ \E e \in Ents, i \in {0} \cup ServerIDs, v \in Values : CreateObject(e, i, v)
  \/ \E e \in Ents, v \in Values : SetField(e, v)
  \/ \E e \in Ents, i \in ServerIDs : SetID(e, i)
  \/ \E e \in Ents : MarkAsDeletedOnServer(e)

Spec == Init /\ [][Next]_vars

-----------------------------------------------------------------------------
(* Every variable has its type.  In particular the LocalIDs that          *)
(* last_insert_rowid() hands out stay within MaxLocalID, the number of     *)
(* objects of the largest kind: rowids freed by deletes and rollbacks are  *)
(* reused, so the table never grows past its largest population.           *)
TypeOK ==
  /\ mem \in [Ents -> MemRec]
  /\ db \in Tables /\ txn \in Tables
  /\ pc \in 0..(Len(plan) + 1)
  /\ plan \in Seq(Ents)
  /\ lock \in {"none", "sync"}
  /\ faults \in 0..MaxFailures
  /\ issued \in [Kinds -> SUBSET ServerIDs]

-----------------------------------------------------------------------------
(* The rows of kind k that stand for object e: time entries and projects  *)
(* are recognised by their GUID, the other kinds by their remote ID.       *)
RowIsOf(e, r) ==
  IF KindOf[e] \in EnsureGUIDKinds THEN r.guid = e ELSE r.id = mem[e].id

StoredVal(e) ==
  LET k    == KindOf[e]
      mine == {l \in LocalIDs : db[k][l] # NULL /\ RowIsOf(e, db[k][l])}
  IN IF mine = {} THEN NULL ELSE db[k][CHOOSE l \in mine : TRUE].val

LiveVal(e) ==
  IF mem[e].st = "live" /\ ~mem[e].del THEN mem[e].val ELSE NULL

Abs == INSTANCE AtomicStore WITH Objects <- Ents, Gone <- NULL,
         graph <- [e \in Ents |-> LiveVal(e)],
         store <- [e \in Ents |-> StoredVal(e)]

(* SaveUser is all-or-nothing for the graph as a whole (spec 4.1): every  *)
(* commit leaves the store holding exactly the live objects' values, and  *)
(* no row of a deleted-on-server object; the committed store changes at   *)
(* no other step.  This is what lets SaveUser skip an object whose         *)
(* LocalID is set and whose dirty flag is clear.                           *)
AtomicSave == Abs!Spec

(* LocalIDs are assigned once per row: two live objects of one kind never *)
(* hold the same LocalID, so an update or delete "where local_id = ..."   *)
(* of one object can never reach another object's row.                    *)
LocalIDsUnique ==
  \A x, y \in Ents :
     /\ x # y /\ KindOf[x] = KindOf[y]
     /\ mem[x].st = "live" /\ mem[y].st = "live" /\ mem[x].lid # 0
     => mem[x].lid # mem[y].lid

=============================================================================
