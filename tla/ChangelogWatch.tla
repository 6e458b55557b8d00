--------------------------- MODULE ChangelogWatch ---------------------------
(***************************************************************************)
(* The object store over PostgreSQL (internal/storage/postgres/store.go)   *)
(* and one watch that follows its changelog (internal/watch/postgres.go).  *)
(*                                                                         *)
(* A writer's transaction draws a resource version from a sequence, gets   *)
(* a transaction id (xid) from the database, writes the object and one     *)
(* changelog row, and commits.  The watch reads rows in (xid, id) order,   *)
(* and only below the horizon: the oldest xid still in flight.  An object  *)
(* is its resource version, 0 when it does not exist.                      *)
(*                                                                         *)
(* A watch starts with initial events (one snapshot), or at the version a  *)
(* GetList returned, or at the last version its client saw.  The safety    *)
(* poll fires at any time, so the NOTIFY kicks that only hasten it are not *)
(* kept apart from it.                                                     *)
(***************************************************************************)
EXTENDS Integers, FiniteSets, FiniteSetsExt

CONSTANTS
  Txn,       \* sessions, each running one transaction at a time
  Key,       \* object keys under the watched prefix
  Ops,       \* "Create", "Update", "Delete", "Release"
  Modes,     \* how the watch may start: "Initial", "List", "Resume"
  MaxRV,     \* bound on the resource versions drawn
  MaxXid,    \* bound on the transaction ids assigned
  Batch,     \* pollBatchSize
  NoTxn

ASSUME WatchAssumption ==
  /\ MaxRV \in Nat \ {0} /\ MaxXid \in Nat \ {0} /\ Batch \in Nat \ {0}
  /\ NoTxn \notin Txn \cup Key

VARIABLES
  objects,   \* ipam_objects as committed: the version of each key, or 0
  log,       \* ipam_changelog, uncommitted rows included
  inflight,  \* xids assigned and not ended
  nextXid, nextRV, nextId,
  tx,        \* the transaction of each session
  lock,      \* the session that holds the row of a key
  w,         \* the postgresWatch
  client,    \* what its client holds: objects, last version and bookmark
  sent       \* ids of the rows the client was given, in its list or as events

dbVars == <<objects, log, inflight, nextXid, nextRV, nextId, tx, lock>>
vars == <<objects, log, inflight, nextXid, nextRV, nextId, tx, lock, w, client, sent>>

RV == 0 .. MaxRV
Row == [id : Nat, xid : 1 .. MaxXid, rv : RV, key : Key, gone : BOOLEAN]
Tx == [pc : {"idle", "begun", "locked", "written"}, op : Ops \cup {"None"},
       key : Key \cup {NoTxn}, xid : 0 .. MaxXid, rv : RV]
Idle == [pc |-> "idle", op |-> "None", key |-> NoTxn, xid |-> 0, rv |-> 0]
Watch == [pc : {"off", "listed", "opening", "endmark", "ready", "query", "mark"},
          xid : 0 .. MaxXid, id : Nat, rv : RV, horizon : 0 .. MaxXid + 1,
          target : RV, progress : RV, from : {"Initial", "List", "Resume"}]
Client == [view : [Key -> RV], rv : RV, bookmark : RV]

\* Every variable keeps its type; a row lock belongs to a transaction that has
\* an xid in flight.
TypeOK ==
  /\ objects \in [Key -> RV] /\ log \subseteq Row
  /\ nextXid \in 1 .. MaxXid + 1 /\ nextRV \in 1 .. MaxRV + 1 /\ nextId \in Nat
  /\ inflight \subseteq 1 .. nextXid - 1
  /\ tx \in [Txn -> Tx] /\ lock \in [Key -> Txn \cup {NoTxn}]
  /\ w \in Watch /\ client \in Client /\ sent \subseteq Nat
  /\ \A k \in Key : lock[k] # NoTxn => tx[lock[k]].xid \in inflight

-----------------------------------------------------------------------------
(***************************************************************************)
(* What the database shows.                                                *)
(***************************************************************************)
Committed == { r \in log : r.xid \notin inflight }

\* pg_snapshot_xmin(pg_current_snapshot())
Xmin == IF inflight = {} THEN nextXid ELSE Min(inflight)

MaxOf(S) == IF S = {} THEN 0 ELSE Max(S)

\* Faulty variant: the sequence's last value, visible before its writer commits.
CommittedMax_Sequence == nextRV - 1

\* Object rows, and changelog rows below the horizon for what was deleted.
CommittedMax ==
  MaxOf({ objects[k] : k \in Key } \cup { r.rv : r \in { q \in Committed : q.xid < Xmin } })

CurrentResourceVersion == Max({CommittedMax, 1})

Precedes(r, q) == r.xid < q.xid \/ (r.xid = q.xid /\ r.id < q.id)

LastOf(rows) == CHOOSE r \in rows : \A q \in rows \ {r} : Precedes(q, r)

-----------------------------------------------------------------------------
(***************************************************************************)
(* Writers.                                                                *)
(***************************************************************************)
Init ==
  /\ objects \in { [k \in Key |-> IF k = a THEN 1 ELSE 0] : a \in Key }
  /\ log = { [id |-> 1, xid |-> 1, rv |-> 1, key |-> k, gone |-> FALSE] :
             k \in { a \in Key : objects[a] = 1 } }
  /\ inflight = {} /\ nextXid = 2 /\ nextRV = 2 /\ nextId = 2
  /\ tx = [t \in Txn |-> Idle] /\ lock = [k \in Key |-> NoTxn]
  /\ w = [pc |-> "off", xid |-> 0, id |-> 0, rv |-> 0, horizon |-> 0, target |-> 0, progress |-> 0,
          from |-> "Initial"]
  /\ client = [view |-> [k \in Key |-> 0], rv |-> 0, bookmark |-> 0]
  /\ sent = {}

\* The xid a transaction has, or the next one if this is its first write.
Xid(t) == IF tx[t].xid # 0 THEN tx[t].xid ELSE nextXid

AssignXid(t) ==
  /\ Xid(t) <= MaxXid
  /\ inflight' = inflight \cup {Xid(t)}
  /\ nextXid' = Max({nextXid, Xid(t) + 1})

\* Create draws its version before its first write.  The database assigns the
\* xid at that write, or already here when the sequence has to log its state.
BeginCreate(t) ==
  /\ tx[t].pc = "idle" /\ "Create" \in Ops /\ nextRV <= MaxRV
  /\ nextRV' = nextRV + 1
  /\ \E k \in Key, x \in {0, nextXid} :
       /\ tx' = [tx EXCEPT ![t] = [pc |-> "begun", op |-> "Create", key |-> k,
                                   xid |-> x, rv |-> nextRV]]
       /\ IF x = 0 THEN UNCHANGED <<inflight, nextXid>> ELSE AssignXid(t)
  /\ UNCHANGED <<objects, log, nextId, lock, w, client, sent>>

\* A store update or delete locks the row first.
BeginWrite(t) ==
  /\ tx[t].pc = "idle"
  /\ \E op \in Ops \cap {"Update", "Delete"}, k \in Key :
       tx' = [tx EXCEPT ![t] = [Idle EXCEPT !.pc = "begun", !.op = op, !.key = k]]
  /\ UNCHANGED <<objects, log, inflight, nextXid, nextRV, nextId, lock, w, client, sent>>

\* A release deletes allocation rows, which assigns its xid, before it waits for
\* the row of the pool whose capacity it rewrites.
BeginRelease(t) ==
  /\ tx[t].pc = "idle" /\ "Release" \in Ops
  /\ AssignXid(t)
  /\ \E k \in Key :
       tx' = [tx EXCEPT ![t] = [Idle EXCEPT !.pc = "begun", !.op = "Release", !.key = k, !.xid = nextXid]]
  /\ UNCHANGED <<objects, log, nextRV, nextId, lock, w, client, sent>>

\* Faulty variant: the row locks outlive the transaction.
End_KeepsLocks(t) ==
  /\ tx' = [tx EXCEPT ![t] = Idle]
  /\ inflight' = inflight \ {tx[t].xid}
  /\ UNCHANGED lock

End(t) ==
  /\ tx' = [tx EXCEPT ![t] = Idle]
  /\ inflight' = inflight \ {tx[t].xid}
  /\ lock' = [k \in Key |-> IF lock[k] = t THEN NoTxn ELSE lock[k]]

\* SELECT ... FOR UPDATE; a key that is gone ends the transaction.
LockRow(t) ==
  /\ tx[t].pc = "begun" /\ tx[t].op # "Create" /\ lock[tx[t].key] = NoTxn
  /\ IF objects[tx[t].key] = 0 THEN End(t) /\ UNCHANGED nextXid
     ELSE /\ AssignXid(t)
          /\ tx' = [tx EXCEPT ![t].pc = "locked", ![t].xid = Xid(t)]
          /\ lock' = [lock EXCEPT ![tx[t].key] = t]
  /\ UNCHANGED <<objects, log, nextRV, nextId, w, client, sent>>

WriteChangelog(t, rv) ==
  /\ log' = log \cup {[id |-> nextId, xid |-> Xid(t), rv |-> rv, key |-> tx[t].key,
                       gone |-> tx[t].op = "Delete"]}
  /\ nextId' = nextId + 1

\* The object row and its changelog row, in one transaction.
WriteRow(t) ==
  /\ tx[t].pc = "locked" /\ nextRV <= MaxRV
  /\ nextRV' = nextRV + 1
  /\ WriteChangelog(t, nextRV)
  /\ tx' = [tx EXCEPT ![t].pc = "written", ![t].rv = nextRV]
  /\ UNCHANGED <<objects, inflight, nextXid, lock, w, client, sent>>

\* The unique key of ipam_objects makes an insert wait for an open writer, with
\* its own tuple, and so its xid, already written.
WaitToInsert(t) ==
  /\ tx[t].pc = "begun" /\ tx[t].op = "Create" /\ tx[t].xid = 0
  /\ lock[tx[t].key] # NoTxn
  /\ AssignXid(t)
  /\ tx' = [tx EXCEPT ![t].xid = nextXid]
  /\ UNCHANGED <<objects, log, nextRV, nextId, lock, w, client, sent>>

InsertRow(t) ==
  /\ tx[t].pc = "begun" /\ tx[t].op = "Create" /\ lock[tx[t].key] = NoTxn
  /\ IF objects[tx[t].key] # 0 THEN End(t) /\ UNCHANGED <<log, nextXid, nextId>>
     ELSE /\ AssignXid(t) /\ WriteChangelog(t, tx[t].rv)
          /\ tx' = [tx EXCEPT ![t].pc = "written", ![t].xid = Xid(t)]
          /\ lock' = [lock EXCEPT ![tx[t].key] = t]
  /\ UNCHANGED <<objects, nextRV, w, client, sent>>

CommitTx(t) ==
  /\ tx[t].pc = "written"
  /\ objects' = [objects EXCEPT ![tx[t].key] = IF tx[t].op = "Delete" THEN 0 ELSE tx[t].rv]
  /\ End(t)
  /\ UNCHANGED <<log, nextXid, nextRV, nextId, w, client, sent>>

AbortTx(t) ==
  /\ tx[t].pc # "idle"
  /\ End(t)
  /\ log' = { r \in log : tx[t].xid = 0 \/ r.xid # tx[t].xid }
  /\ UNCHANGED <<objects, nextXid, nextRV, nextId, w, client, sent>>

-----------------------------------------------------------------------------
(***************************************************************************)
(* The watch.                                                              *)
(***************************************************************************)
\* Rows a list of the committed objects accounts for.
Listed == { r.id : r \in Committed }

Seed(rows) ==
  IF rows = {} THEN [w EXCEPT !.xid = 0, !.id = 0]
  ELSE [w EXCEPT !.xid = LastOf(rows).xid, !.id = LastOf(rows).id]

\* One REPEATABLE READ snapshot: the objects, and the last row below its xmin.
OpenInitial ==
  /\ w.pc = "off" /\ "Initial" \in Modes
  /\ w' = [Seed({ r \in Committed : r.xid < Xmin }) EXCEPT
             !.pc = "endmark", !.rv = MaxOf({ objects[k] : k \in Key })]
  /\ client' = [client EXCEPT !.view = objects, !.rv = MaxOf({ objects[k] : k \in Key })]
  /\ sent' = Listed
  /\ UNCHANGED dbVars

Bookmark(rv) ==
  /\ client' = [client EXCEPT !.rv = rv, !.bookmark = rv]
  /\ UNCHANGED <<dbVars, sent>>

EndBookmark ==
  /\ w.pc = "endmark"
  /\ w' = [w EXCEPT !.pc = "ready", !.rv = Max({@, CommittedMax})]
  /\ Bookmark(w'.rv)

\* GetList reads the rows, and the version it returns in a second statement.
ListRows ==
  /\ w.pc = "off" /\ "List" \in Modes
  /\ w' = [w EXCEPT !.pc = "listed", !.from = "List"]
  /\ client' = [client EXCEPT !.view = objects]
  /\ sent' = Listed
  /\ UNCHANGED dbVars

ListVersion ==
  /\ w.pc = "listed"
  /\ w' = [w EXCEPT !.pc = "opening"]
  /\ client' = [client EXCEPT !.rv = CurrentResourceVersion]
  /\ UNCHANGED <<dbVars, sent>>

\* A client whose stream broke resumes at the last version it saw.
Disconnect ==
  /\ w.pc = "ready" /\ "Resume" \in Modes
  /\ w' = [w EXCEPT !.pc = "opening", !.progress = 0, !.from = "Resume"]
  /\ UNCHANGED <<dbVars, client, sent>>

\* seedCursorFromRV: the row that carries the version, else the highest below it.
OpenAt ==
  /\ w.pc = "opening"
  /\ LET below == { r \in Committed : r.rv <= client.rv }
     IN  w' = [Seed({ r \in below : \A q \in below : q.rv <= r.rv }) EXCEPT
                 !.pc = "ready", !.rv = client.rv]
  /\ UNCHANGED <<dbVars, client, sent>>

\* pollChanges reads the horizon in one statement and the rows in the next.
ReadHorizon ==
  /\ w.pc = "ready"
  /\ w' = [w EXCEPT !.pc = "query", !.horizon = Xmin]
  /\ UNCHANGED <<dbVars, client, sent>>

\* A progress request makes the watch drain the changelog before it answers.
TakeProgress ==
  /\ w.pc = "ready" /\ w.progress # 0
  /\ w' = [w EXCEPT !.pc = "query", !.horizon = Xmin, !.target = w.progress, !.progress = 0]
  /\ UNCHANGED <<dbVars, client, sent>>

\* Faulty variant: rows are compared by id alone.
AfterCursor_ById(r) == w.id < r.id

AfterCursor(r) == w.xid < r.xid \/ (w.xid = r.xid /\ w.id < r.id)

\* Faulty variant: the newest transaction below the horizon waits for the next.
Pending_OffByOne == { r \in Committed : r.xid < w.horizon - 1 /\ AfterCursor(r) }

\* Faulty variant: no horizon, every committed row is emitted at once.
Pending_NoHorizon == { r \in Committed : AfterCursor(r) }

Pending == { r \in Committed : r.xid < w.horizon /\ AfterCursor(r) }

Page == { r \in Pending : Cardinality({ q \in Pending : Precedes(q, r) }) < Batch }

\* The last event of a key in a page decides what the client holds.
Apply(view, rows) ==
  [k \in Key |-> LET of == { r \in rows : r.key = k }
                 IN  IF of = {} THEN view[k] ELSE IF LastOf(of).gone THEN 0 ELSE LastOf(of).rv]

\* Rows are handed to the client and the cursor moves with them.  A drain for a
\* progress request polls again after a full page, with a fresh horizon.
PollChanges ==
  /\ w.pc = "query"
  /\ LET full == Cardinality(Page) = Batch
     IN  w' = [(IF Page = {} THEN w ELSE Seed(Page)) EXCEPT
                 !.pc = IF w.target = 0 THEN "ready" ELSE IF full THEN "query" ELSE "mark",
                 !.horizon = IF full /\ w.target # 0 THEN Xmin ELSE 0,
                 !.rv = MaxOf({@} \cup { r.rv : r \in Page })]
  /\ client' = IF Page = {} THEN client
               ELSE [client EXCEPT !.view = Apply(@, Page), !.rv = LastOf(Page).rv]
  /\ sent' = sent \cup { r.id : r \in Page }
  /\ UNCHANGED dbVars

\* A poll that fails is logged; a drain for a progress request is then answered
\* all the same, with the rows it did not read still to come.
PollFails ==
  /\ w.pc = "query"
  /\ w' = [w EXCEPT !.pc = IF w.target = 0 THEN "ready" ELSE "mark", !.horizon = 0]
  /\ UNCHANGED <<dbVars, client, sent>>

\* RequestWatchProgress; a second request is dropped while one is pending.
RequestProgress ==
  /\ w.pc \in {"ready", "query", "mark"} /\ w.progress = 0
  /\ w' = [w EXCEPT !.progress = CurrentResourceVersion]
  /\ UNCHANGED <<dbVars, client, sent>>

ProgressBookmark ==
  /\ w.pc = "mark"
  /\ w' = [w EXCEPT !.pc = "ready", !.target = 0, !.rv = Max({@, w.target})]
  /\ Bookmark(w'.rv)

\* The bookmark ticker.
PeriodicBookmark ==
  /\ w.pc = "ready" /\ CommittedMax > w.rv
  /\ w' = [w EXCEPT !.rv = CommittedMax]
  /\ Bookmark(CommittedMax)

\* cleanupLoop: the rows older than the retention window.  Time is abstracted to
\* the window's purpose: the watch has read a row long before it is deleted.
Cleanup ==
  /\ \E r \in Committed : /\ ~AfterCursor(r) /\ \A q \in log : r.id <= q.id
                          /\ log' = log \ {r}
  /\ UNCHANGED <<objects, inflight, nextXid, nextRV, nextId, tx, lock, w, client, sent>>

-----------------------------------------------------------------------------
TxStep(t) == LockRow(t) \/ WriteRow(t) \/ WaitToInsert(t) \/ InsertRow(t) \/ CommitTx(t)

WatchStep == OpenInitial \/ EndBookmark \/ ListRows \/ ListVersion \/ OpenAt
             \/ ReadHorizon \/ TakeProgress \/ PollChanges \/ ProgressBookmark

Next ==
  \/ \E t \in Txn : \/ BeginCreate(t) \/ BeginWrite(t) \/ BeginRelease(t)
                    \/ TxStep(t) \/ AbortTx(t)
  \/ WatchStep \/ Disconnect \/ RequestProgress \/ PollFails \/ PeriodicBookmark \/ Cleanup

Spec == Init /\ [][Next]_vars

\* A request's transaction ends: the database or the request's deadline sees to
\* it.  The safety poll fires every five seconds, and does not fail every time.
Fairness ==
  /\ \A t \in Txn : WF_vars(TxStep(t) \/ AbortTx(t))
  /\ WF_vars(WatchStep) /\ SF_vars(PollChanges)

FairSpec == Spec /\ Fairness

-----------------------------------------------------------------------------
Running == w.pc \in {"ready", "query", "mark"}

\* Once the cursor has passed a committed row its client has been given it: no
\* row is skipped, and none commits later at a position already passed
\* (pollChanges, the horizon).
NothingSkipped == Running => \A r \in Committed : ~AfterCursor(r) => r.id \in sent

\* The same for a watch that began with its own list: the snapshot's cursor
\* leaves no gap between list and watch (sendInitialEventList).
NoGapAfterInitialEvents == w.from = "Initial" => NothingSkipped

\* A client is never given the row of a transaction that may still abort, nor a
\* bookmark at its version: the point to resume at is one some committed write
\* reached (committedMaxResourceVersion).
OnlyCommittedSent ==
  \A t \in Txn : /\ \A r \in log : r.xid = tx[t].xid => r.id \notin sent
                 /\ tx[t].rv # 0 => client.bookmark # tx[t].rv

\* The cursor of a running watch only moves forward in (commit_xid, id) order, so
\* no poll goes back to a row that an earlier one has passed (pollChanges).
CursorAdvances ==
  [][Running /\ Running' =>
       w.xid < w'.xid \/ (w.xid = w'.xid /\ w.id <= w'.id)]_vars

\* A watch with initial events catches up again and again, even if every NOTIFY
\* is lost: each committed row is at some time given to its client, for as long
\* as the stream is not broken.
CatchesUp == []<>(w.from = "Initial" => \A r \in Committed : r.id \in sent)
=============================================================================
