----------------------- MODULE ChangelogWatchProofs -----------------------
(***************************************************************************)
(* The watch over the changelog, for every number of writers and keys and  *)
(* every page size: a stream that begins with initial events skips no      *)
(* committed row, no stream is given uncommitted ones, and the cursor never*)
(* goes back.                                                              *)
(***************************************************************************)
EXTENDS ChangelogWatch, FiniteSetTheorems, TLAPS

-----------------------------------------------------------------------------
(***************************************************************************)
(* The inductive invariant.                                                *)
(***************************************************************************)
\* What a session has drawn and holds is its own.
Sessions ==
  \A t \in Txn :
    /\ tx[t].pc = "idle" => tx[t] = Idle
    /\ tx[t].pc # "idle" => tx[t].key \in Key
    /\ tx[t].pc \in {"locked", "written"} => tx[t].xid # 0
    /\ tx[t].xid # 0 => tx[t].xid \in inflight
    /\ tx[t].rv # 0 => tx[t].rv >= 2 /\ tx[t].rv < nextRV
    /\ \A u \in Txn : /\ tx[t].xid # 0 /\ tx[t].xid = tx[u].xid => t = u
                      /\ tx[t].rv # 0 /\ tx[t].rv = tx[u].rv => t = u

\* A row's id, position and version were drawn before, its id for it alone, and a
\* version that an open transaction has drawn is only in that transaction's rows.
Rows ==
  /\ \A r \in log : /\ r.id < nextId /\ r.xid < nextXid /\ r.rv < nextRV
                     /\ \A q \in log : r.id = q.id => r = q
                     /\ \A t \in Txn : tx[t].rv # 0 /\ r.rv = tx[t].rv =>
                                        tx[t].xid # 0 /\ r.xid = tx[t].xid
  /\ \A i \in sent : i < nextId
  /\ nextRV >= 2

\* A version that is drawn, and by no transaction still open.
Settled(v) == v < nextRV /\ \A t \in Txn : tx[t].rv # 0 => tx[t].rv # v

Versions ==
  /\ \A k \in Key : Settled(objects[k])
  /\ Settled(client.rv) /\ Settled(client.bookmark)
  /\ Settled(w.rv) /\ Settled(w.target) /\ Settled(w.progress)

\* No row of an open transaction has been sent.
Unsent == \A r \in log : r.xid \in inflight => r.id \notin sent

\* Nothing can be written any more below x.
Closed(x) == x <= nextXid /\ \A y \in inflight : x <= y

\* The horizon stays one, and a stream with initial events has its cursor below
\* one; all that is committed up to the cursor was sent.
Cursor ==
  /\ Closed(w.horizon)
  /\ w.pc \in {"listed", "opening"} => w.from # "Initial"
  /\ w.from = "Initial" => Closed(w.xid + 1)
  /\ w.from = "Initial" /\ w.pc # "off" => \A r \in Committed : ~AfterCursor(r) => r.id \in sent

WatchInv == TypeOK /\ Sessions /\ Rows /\ Versions /\ Unsent /\ Cursor

-----------------------------------------------------------------------------
(***************************************************************************)
(* What an extremum of a set of naturals is, and the last of a set of rows.*)
(***************************************************************************)
\* A set of naturals that is not empty has a least element (Xmin).
LEMMA MinIsLeast ==
  ASSUME NEW S \in SUBSET Nat, S # {}
  PROVE  Min(S) \in S /\ \A y \in S : Min(S) <= y
<1>1. PICK x \in S : \A y \in S : ~(<<y, x>> \in OpToRel(<, Nat))
  BY Zenon, NatLessThanWellFounded, WFMin
<1>2. \A y \in S : x <= y
  <2>1. SUFFICES ASSUME NEW y \in S PROVE x <= y
    OBVIOUS
  <2>2. <<y, x>> \in Nat \X Nat
    OBVIOUS
  <2>3. ~(y < x)
    BY <1>1, <2>2 DEF OpToRel
  <2> QED BY <2>3
<1> QED BY Zenon, <1>1, <1>2 DEF Min

\* A bounded one has a greatest (the versions and the positions of rows).
LEMMA MaxIsGreatest ==
  ASSUME NEW S \in SUBSET Nat, NEW n \in Nat, \A s \in S : s <= n, S # {}
  PROVE  Max(S) \in S /\ \A y \in S : Max(S) >= y
<1> DEFINE T == { m \in Nat : \E s \in S : m + s = n }
<1>1. T \in SUBSET Nat
  OBVIOUS
<1>2. T # {}
  <2>1. PICK s \in S : TRUE
    BY Zenon
  <2>2. n - s \in Nat /\ (n - s) + s = n
    OBVIOUS
  <2> QED BY Zenon, <2>2
<1>3. Min(T) \in T /\ \A y \in T : Min(T) <= y
  <2> HIDE DEF T
  <2> QED BY <1>1, <1>2, MinIsLeast
<1>4. PICK x \in S : Min(T) + x = n
  BY <1>3
<1>5. \A y \in S : x >= y
  <2>1. SUFFICES ASSUME NEW y \in S PROVE x >= y
    OBVIOUS
  <2>2. n - y \in T
    OBVIOUS
  <2>3. Min(T) \in Nat /\ Min(T) <= n - y
    BY <1>3, <2>2
  <2> QED BY <1>4, <2>3
<1> QED BY Zenon, <1>5 DEF Max

\* LastOf names the row that comes after the others: there is one, since
\* positions are bounded and no two rows share theirs.
LEMMA LastIsLast ==
  ASSUME TypeOK, Rows, NEW S \in SUBSET log, S # {}
  PROVE  LastOf(S) \in S /\ \A q \in S \ {LastOf(S)} : Precedes(q, LastOf(S))
<1> DEFINE X == { x \in Nat : \E r \in S : r.xid = x }
           m == Max(X)
           I == { i \in Nat : \E r \in S : r.xid = m /\ r.id = i }
<1>1. \A r \in S : r \in log /\ r.xid \in Nat /\ r.id \in Nat /\ r.xid <= nextXid /\ r.id <= nextId
  BY DEF TypeOK, Rows, Row
<1>2. nextXid \in Nat /\ nextId \in Nat
  BY WatchAssumption DEF TypeOK
<1>3. m \in X /\ \A x \in X : m >= x
  <2>1. X \in SUBSET Nat /\ X # {} /\ \A x \in X : x <= nextXid
    BY <1>1
  <2> HIDE DEF X
  <2> QED BY <1>2, <2>1, MaxIsGreatest
<1> HIDE DEF m
<1>4. Max(I) \in I /\ \A i \in I : Max(I) >= i
  <2>1. I \in SUBSET Nat /\ I # {} /\ \A i \in I : i <= nextId
    BY <1>1, <1>3
  <2> HIDE DEF I
  <2> QED BY Zenon, <1>2, <2>1, MaxIsGreatest
<1>5. PICK r \in S : r.xid = m /\ r.id = Max(I)
  BY <1>4
<1>6. ASSUME NEW q \in S, q # r PROVE Precedes(q, r)
  <2>1. q.id # r.id
    BY <1>6 DEF Rows
  <2>2. q.xid <= m
    BY <1>1, <1>3
  <2>3. q.xid = m => q.id <= Max(I)
    BY <1>1, <1>4
  <2> QED BY <1>1, <1>3, <1>5, <2>1, <2>2, <2>3 DEF Precedes
<1> QED BY <1>6 DEF LastOf

\* Below the oldest transaction in flight nothing is written any more.
LEMMA XminIsClosed ==
  ASSUME TypeOK
  PROVE  Xmin \in 0 .. MaxXid + 1 /\ Closed(Xmin)
<1>1. CASE inflight = {}
  BY <1>1, WatchAssumption DEF TypeOK, Xmin, Closed
<1>2. CASE inflight # {}
  <2>1. inflight \in SUBSET Nat /\ nextXid \in 1 .. MaxXid + 1 /\ inflight \subseteq 1 .. nextXid - 1
    BY WatchAssumption DEF TypeOK
  <2>2. Min(inflight) \in inflight /\ \A y \in inflight : Min(inflight) <= y
    BY <1>2, <2>1, MinIsLeast
  <2>3. Min(inflight) \in 1 .. nextXid - 1
    BY Zenon, <2>1, <2>2
  <2>4. Min(inflight) \in 0 .. MaxXid + 1 /\ Min(inflight) <= nextXid
    BY <2>1, <2>3, WatchAssumption
  <2>5. Xmin = Min(inflight)
    BY <1>2 DEF Xmin
  <2> QED BY <2>2, <2>4, <2>5 DEF Closed
<1> QED BY <1>1, <1>2

\* The greatest of some settled versions is settled.
LEMMA MaxOfSettled ==
  ASSUME TypeOK, Rows, NEW S \in SUBSET RV, \A v \in S : Settled(v)
  PROVE  MaxOf(S) \in RV /\ Settled(MaxOf(S))
<1>1. CASE S = {}
  BY <1>1, WatchAssumption DEF TypeOK, Rows, MaxOf, Settled, RV
<1>2. CASE S # {}
  <2>1. S \in SUBSET Nat /\ \A v \in S : v <= MaxRV
    BY WatchAssumption DEF RV
  <2>2. Max(S) \in S
    BY <1>2, <2>1, MaxIsGreatest, WatchAssumption
  <2> QED BY <1>2, <2>2 DEF MaxOf
<1> QED BY <1>1, <1>2

\* The greater of two versions.
LEMMA MaxOfTwo ==
  ASSUME NEW a \in Nat, NEW b \in Nat
  PROVE  Max({a, b}) \in {a, b} /\ Max({a, b}) >= a /\ Max({a, b}) >= b
<1>1. {a, b} \in SUBSET Nat /\ {a, b} # {} /\ \A s \in {a, b} : s <= a + b
  OBVIOUS
<1>2. a + b \in Nat
  OBVIOUS
<1> QED BY <1>1, <1>2, MaxIsGreatest

\* A committed row carries a settled version.
LEMMA CommittedSettled ==
  ASSUME TypeOK, Sessions, Rows, NEW r \in Committed
  PROVE  r.rv \in RV /\ Settled(r.rv)
BY DEF TypeOK, Sessions, Rows, Committed, Settled, Row

\* So do the highest version committed and the one a list answers with
\* (committedMaxResourceVersion).
LEMMA CommittedMaxSettled ==
  ASSUME TypeOK, Sessions, Rows, Versions
  PROVE  /\ CommittedMax \in RV /\ Settled(CommittedMax)
         /\ CurrentResourceVersion \in RV /\ Settled(CurrentResourceVersion)
<1> DEFINE S == { objects[k] : k \in Key } \cup { r.rv : r \in { q \in Committed : q.xid < Xmin } }
<1>1. S \in SUBSET RV /\ \A v \in S : Settled(v)
  BY CommittedSettled DEF TypeOK, Versions
<1>2. CommittedMax \in RV /\ Settled(CommittedMax)
  <2> HIDE DEF S
  <2>1. MaxOf(S) \in RV /\ Settled(MaxOf(S))
    BY <1>1, MaxOfSettled
  <2> QED BY <2>1 DEF CommittedMax, S
<1>3. 1 \in RV /\ Settled(1)
  BY WatchAssumption DEF TypeOK, Sessions, Rows, Settled, RV, Tx
<1>4. Max({CommittedMax, 1}) \in {CommittedMax, 1}
  BY <1>2, MaxOfTwo, WatchAssumption DEF RV
<1> QED BY <1>2, <1>3, <1>4 DEF CurrentResourceVersion

\* The changelog is finite: its rows have different ids below nextId.
LEMMA LogIsFinite ==
  ASSUME TypeOK, Rows
  PROVE  IsFiniteSet(log)
<1> DEFINE f == [r \in log |-> r.id]
<1>1. nextId \in Nat /\ \A r \in log : r.id \in 0 .. nextId
  BY DEF TypeOK, Rows, Row
<1>2. f \in Injection(log, 0 .. nextId)
  BY <1>1 DEF Injection, IsInjective, Rows
<1>3. IsFiniteSet(0 .. nextId)
  BY <1>1, FS_Interval
<1> QED BY <1>2, <1>3, FS_Injection

\* A page is an initial piece of what is pending: what comes before one of its
\* rows is in it (LIMIT over an ORDER BY).
LEMMA PageIsInitial ==
  ASSUME TypeOK, Rows, NEW p \in Page, NEW r \in Pending, Precedes(r, p)
  PROVE  r \in Page
<1> DEFINE Before(x) == { q \in Pending : Precedes(q, x) }
<1>1. Pending \subseteq log /\ p \in Pending
  BY DEF Pending, Page, Committed
<1>2. \A q \in log : q.xid \in Nat /\ q.id \in Nat
  BY DEF TypeOK, Row
<1>3. Before(r) \subseteq Before(p)
  BY <1>1, <1>2 DEF Precedes
<1>4. IsFiniteSet(Before(p)) /\ IsFiniteSet(Before(r))
  <2>1. Before(p) \in SUBSET log /\ Before(r) \in SUBSET log
    BY <1>1
  <2> HIDE DEF Before
  <2> QED BY <2>1, LogIsFinite, FS_Subset
<1>5. /\ Cardinality(Before(r)) <= Cardinality(Before(p))
      /\ Cardinality(Before(r)) \in Nat /\ Cardinality(Before(p)) \in Nat
  <2> HIDE DEF Before
  <2> QED BY <1>3, <1>4, FS_Subset, FS_CardinalityType
<1>6. Cardinality(Before(p)) < Batch
  BY DEF Page
<1>7. Cardinality(Before(r)) < Batch
  <2> HIDE DEF Before
  <2> QED BY <1>5, <1>6, WatchAssumption
<1> QED BY <1>7 DEF Page

-----------------------------------------------------------------------------
(***************************************************************************)
(* The writers' actions come in two forms.                                 *)
(***************************************************************************)
\* Session t goes on: it may be given an xid, draw a version, lock its row and
\* write a changelog row.
Goes(t) ==
  LET x == tx'[t] IN
  /\ tx' = [tx EXCEPT ![t] = x] /\ x \in Tx
  /\ x.pc # "idle" /\ x.key \in Key /\ (x.pc \in {"locked", "written"} => x.xid # 0)
  /\ \/ x.xid = tx[t].xid /\ UNCHANGED <<inflight, nextXid>>
     \/ /\ tx[t].xid = 0 /\ x.xid = nextXid /\ nextXid <= MaxXid
        /\ inflight' = inflight \cup {nextXid} /\ nextXid' = nextXid + 1
  /\ \/ x.rv = tx[t].rv /\ UNCHANGED nextRV
     \/ x.rv = nextRV /\ nextRV <= MaxRV /\ nextRV' = nextRV + 1
  /\ \/ UNCHANGED <<log, nextId>>
     \/ /\ \E r \in Row : /\ r.id = nextId /\ x.xid # 0 /\ r.xid = x.xid /\ r.rv = x.rv
                          /\ log' = log \cup {r}
        /\ nextId' = nextId + 1
  /\ lock' \in [Key -> Txn \cup {NoTxn}]
  /\ \A k \in Key : lock'[k] = lock[k] \/ (lock'[k] = t /\ x.xid # 0)
  /\ UNCHANGED <<objects, w, client, sent>>

\* The transaction of session t ends, with or without its rows and its object.
Ends(t) ==
  /\ End(t)
  /\ log' \subseteq log
  /\ \/ UNCHANGED objects
     \/ \E k \in Key, v \in {0, tx[t].rv} : objects' = [objects EXCEPT ![k] = v]
  /\ UNCHANGED <<nextXid, nextRV, nextId, w, client, sent>>

Writer(t) == BeginCreate(t) \/ BeginWrite(t) \/ BeginRelease(t) \/ TxStep(t) \/ AbortTx(t)

\* An xid is assigned once, and is in flight until the transaction ends.
LEMMA XidIsAssigned ==
  ASSUME TypeOK, Sessions, NEW t \in Txn, AssignXid(t)
  PROVE  /\ tx[t].xid # 0 => UNCHANGED <<inflight, nextXid>> /\ Xid(t) = tx[t].xid
         /\ tx[t].xid = 0 => /\ Xid(t) = nextXid /\ nextXid <= MaxXid
                             /\ inflight' = inflight \cup {nextXid} /\ nextXid' = nextXid + 1
<1>1. nextXid \in Nat /\ tx[t].xid \in Nat /\ inflight \subseteq 1 .. nextXid - 1
  BY WatchAssumption DEF TypeOK, Tx
<1>2. CASE tx[t].xid # 0
  <2>1. tx[t].xid \in inflight /\ tx[t].xid + 1 <= nextXid
    BY <1>1, <1>2 DEF Sessions
  <2>2. Max({nextXid, tx[t].xid + 1}) = nextXid
    BY <1>1, <2>1, MaxOfTwo
  <2> QED BY <1>2, <2>1, <2>2 DEF AssignXid, Xid
<1>3. CASE tx[t].xid = 0
  <2>1. Max({nextXid, nextXid + 1}) = nextXid + 1
    BY <1>1, MaxOfTwo
  <2> QED BY <1>3, <2>1 DEF AssignXid, Xid
<1> QED BY <1>2, <1>3

\* Every action of a writer has one of the two forms.
LEMMA WriterForm ==
  ASSUME TypeOK, Sessions, NEW t \in Txn, Writer(t)
  PROVE  Goes(t) \/ Ends(t)
<1>1. /\ tx \in [Txn -> Tx] /\ tx[t] \in Tx /\ lock \in [Key -> Txn \cup {NoTxn}]
      /\ nextXid \in Nat /\ nextXid >= 1 /\ nextRV \in Nat /\ nextId \in Nat /\ objects \in [Key -> RV]
  BY WatchAssumption DEF TypeOK
<1>2. tx[t].pc # "idle" => tx[t].key \in Key
  BY DEF Sessions
<1>3. Idle \in Tx
  BY WatchAssumption DEF Idle, Tx, RV
<1>4. CASE BeginCreate(t)
  <2>1. tx[t] = Idle /\ "Create" \in Ops /\ nextRV \in RV
    BY <1>1, <1>4 DEF BeginCreate, Sessions, RV
  <2>2. PICK k \in Key, x \in {0, nextXid} :
          /\ tx' = [tx EXCEPT ![t] = [pc |-> "begun", op |-> "Create", key |-> k, xid |-> x, rv |-> nextRV]]
          /\ IF x = 0 THEN UNCHANGED <<inflight, nextXid>> ELSE AssignXid(t)
    BY Zenon, <1>4 DEF BeginCreate
  <2>3. x # 0 => /\ nextXid <= MaxXid /\ inflight' = inflight \cup {nextXid}
                 /\ nextXid' = nextXid + 1
    BY <2>1, <2>2, XidIsAssigned DEF Idle
  <2>4. tx'[t] = [pc |-> "begun", op |-> "Create", key |-> k, xid |-> x, rv |-> nextRV]
    BY <1>1, <2>2
  <2>5. tx'[t] \in Tx
    BY <1>1, <2>1, <2>3, <2>4, WatchAssumption DEF Tx
  <2> QED BY <1>1, <1>4, <2>1, <2>2, <2>3, <2>4, <2>5 DEF BeginCreate, Goes, Idle
<1>5. CASE BeginWrite(t)
  <2>1. tx[t] = Idle
    BY <1>5 DEF BeginWrite, Sessions
  <2>2. PICK op \in Ops \cap {"Update", "Delete"}, k \in Key :
          tx' = [tx EXCEPT ![t] = [Idle EXCEPT !.pc = "begun", !.op = op, !.key = k]]
    BY Zenon, <1>5 DEF BeginWrite
  <2>3. tx'[t] = [pc |-> "begun", op |-> op, key |-> k, xid |-> 0, rv |-> 0]
    BY Zenon, <1>1, <2>2 DEF Idle
  <2>4. tx'[t] \in Tx
    BY <2>3, WatchAssumption DEF Tx, RV
  <2> QED BY <1>1, <1>5, <2>1, <2>2, <2>3, <2>4 DEF BeginWrite, Goes, Idle
<1>6. CASE BeginRelease(t)
  <2>1. tx[t] = Idle /\ "Release" \in Ops
    BY <1>6 DEF BeginRelease, Sessions
  <2>2. PICK k \in Key :
          tx' = [tx EXCEPT ![t] = [Idle EXCEPT !.pc = "begun", !.op = "Release", !.key = k, !.xid = nextXid]]
    BY Zenon, <1>6 DEF BeginRelease
  <2>3. /\ nextXid <= MaxXid /\ inflight' = inflight \cup {nextXid}
        /\ nextXid' = nextXid + 1
    BY <1>6, <2>1, XidIsAssigned DEF Idle, BeginRelease
  <2>4. tx'[t] = [pc |-> "begun", op |-> "Release", key |-> k, xid |-> nextXid, rv |-> 0]
    BY Zenon, <1>1, <2>2 DEF Idle
  <2>5. tx'[t] \in Tx
    BY <1>1, <2>1, <2>3, <2>4, WatchAssumption DEF Tx, RV
  <2> QED BY <1>1, <1>6, <2>1, <2>2, <2>3, <2>4, <2>5 DEF BeginRelease, Goes, Idle
<1>7. CASE LockRow(t)
  <2>1. CASE objects[tx[t].key] = 0
    BY <1>7, <2>1 DEF LockRow, Ends
  <2>2. CASE objects[tx[t].key] # 0
    <3>1. /\ AssignXid(t) /\ tx' = [tx EXCEPT ![t].pc = "locked", ![t].xid = Xid(t)]
          /\ lock' = [lock EXCEPT ![tx[t].key] = t]
          /\ UNCHANGED <<objects, log, nextRV, nextId, w, client, sent>>
          /\ tx[t].key \in Key
      BY <1>2, <1>7, <2>2 DEF LockRow
    <3>2. /\ tx[t].xid # 0 => UNCHANGED <<inflight, nextXid>> /\ Xid(t) = tx[t].xid
          /\ tx[t].xid = 0 => /\ Xid(t) = nextXid /\ nextXid <= MaxXid
                              /\ inflight' = inflight \cup {nextXid} /\ nextXid' = nextXid + 1
      BY <3>1, XidIsAssigned
    <3>3. tx'[t] = [tx[t] EXCEPT !.pc = "locked", !.xid = Xid(t)]
      BY <1>1, <3>1
    <3>4. Xid(t) \in 1 .. MaxXid /\ Xid(t) \in 0 .. MaxXid /\ Xid(t) # 0
      BY <1>1, <3>2, WatchAssumption DEF Tx
    <3>5. /\ tx'[t] \in Tx /\ tx'[t].pc = "locked" /\ tx'[t].xid = Xid(t) /\ tx'[t].rv = tx[t].rv
          /\ tx'[t].key = tx[t].key
      <4> DEFINE x == Xid(t)
      <4>1. x \in 0 .. MaxXid /\ tx'[t] = [tx[t] EXCEPT !.pc = "locked", !.xid = x]
        BY <3>3, <3>4
      <4> HIDE DEF x
      <4>2. /\ tx'[t] \in Tx /\ tx'[t].pc = "locked" /\ tx'[t].xid = x /\ tx'[t].rv = tx[t].rv
            /\ tx'[t].key = tx[t].key
        BY Zenon, <1>1, <4>1 DEF Tx
      <4> QED BY <4>2 DEF x
    <3>6. tx' = [tx EXCEPT ![t] = tx'[t]]
      BY Zenon, <1>1, <3>1
    <3> QED BY <1>1, <3>1, <3>2, <3>4, <3>5, <3>6 DEF Goes
  <2> QED BY <2>1, <2>2
<1>8. CASE WriteRow(t)
  <2>1. /\ tx[t].key \in Key /\ tx[t].xid # 0 /\ Xid(t) = tx[t].xid /\ nextRV \in RV
        /\ tx' = [tx EXCEPT ![t].pc = "written", ![t].rv = nextRV]
    BY <1>1, <1>2, <1>8 DEF WriteRow, Sessions, Xid, RV
  <2>2. tx'[t] = [tx[t] EXCEPT !.pc = "written", !.rv = nextRV]
    BY <1>1, <2>1
  <2>3. /\ tx'[t] \in Tx /\ tx'[t].pc = "written" /\ tx'[t].xid = tx[t].xid /\ tx'[t].rv = nextRV
        /\ tx'[t].key = tx[t].key
    BY Zenon, <1>1, <2>1, <2>2 DEF Tx
  <2>4. tx' = [tx EXCEPT ![t] = tx'[t]]
    BY Zenon, <1>1, <2>1
  <2> DEFINE r == [id |-> nextId, xid |-> Xid(t), rv |-> nextRV, key |-> tx[t].key,
                   gone |-> tx[t].op = "Delete"]
  <2>5. r \in Row /\ log' = log \cup {r} /\ nextId' = nextId + 1
    BY <1>1, <1>8, <2>1, WatchAssumption DEF WriteRow, WriteChangelog, Row, Tx
  <2>6. r.id = nextId /\ r.xid = tx[t].xid /\ r.rv = nextRV
    BY <2>1
  <2> HIDE DEF r
  <2> QED BY <1>1, <1>8, <2>1, <2>3, <2>4, <2>5, <2>6 DEF Goes, WriteRow
<1>9. CASE WaitToInsert(t)
  <2>1. /\ tx[t].key \in Key /\ tx[t].xid = 0 /\ AssignXid(t)
        /\ tx' = [tx EXCEPT ![t].xid = nextXid] /\ tx[t].pc = "begun"
    BY <1>2, <1>9 DEF WaitToInsert
  <2>2. /\ nextXid <= MaxXid /\ inflight' = inflight \cup {nextXid} /\ nextXid' = nextXid + 1
    BY <2>1, XidIsAssigned
  <2>3. tx'[t] = [tx[t] EXCEPT !.xid = nextXid]
    BY <1>1, <2>1
  <2>4. /\ tx'[t] \in Tx /\ tx'[t].pc = "begun" /\ tx'[t].xid = nextXid /\ tx'[t].rv = tx[t].rv
        /\ tx'[t].key = tx[t].key
    BY <1>1, <2>1, <2>2, <2>3, WatchAssumption DEF Tx
  <2>5. tx' = [tx EXCEPT ![t] = tx'[t]]
    BY <1>1, <2>1
  <2> QED BY <1>1, <1>9, <2>1, <2>2, <2>4, <2>5 DEF WaitToInsert, Goes
<1>10. CASE InsertRow(t)
  <2>1. CASE objects[tx[t].key] # 0
    BY <1>10, <2>1 DEF InsertRow, Ends
  <2>2. CASE objects[tx[t].key] = 0
    <3>1. /\ AssignXid(t) /\ WriteChangelog(t, tx[t].rv)
          /\ tx' = [tx EXCEPT ![t].pc = "written", ![t].xid = Xid(t)]
          /\ lock' = [lock EXCEPT ![tx[t].key] = t]
          /\ UNCHANGED <<objects, nextRV, w, client, sent>>
          /\ tx[t].key \in Key
      BY <1>2, <1>10, <2>2 DEF InsertRow
    <3>2. /\ tx[t].xid # 0 => UNCHANGED <<inflight, nextXid>> /\ Xid(t) = tx[t].xid
          /\ tx[t].xid = 0 => /\ Xid(t) = nextXid /\ nextXid <= MaxXid
                              /\ inflight' = inflight \cup {nextXid} /\ nextXid' = nextXid + 1
      BY <3>1, XidIsAssigned
    <3>3. tx'[t] = [tx[t] EXCEPT !.pc = "written", !.xid = Xid(t)]
      BY <1>1, <3>1
    <3>4. Xid(t) \in 1 .. MaxXid /\ Xid(t) \in 0 .. MaxXid /\ Xid(t) # 0
      BY <1>1, <3>2, WatchAssumption DEF Tx
    <3>5. /\ tx'[t] \in Tx /\ tx'[t].pc = "written" /\ tx'[t].xid = Xid(t) /\ tx'[t].rv = tx[t].rv
          /\ tx'[t].key = tx[t].key
      <4> DEFINE x == Xid(t)
      <4>1. x \in 0 .. MaxXid /\ tx'[t] = [tx[t] EXCEPT !.pc = "written", !.xid = x]
        BY <3>3, <3>4
      <4> HIDE DEF x
      <4>2. /\ tx'[t] \in Tx /\ tx'[t].pc = "written" /\ tx'[t].xid = x /\ tx'[t].rv = tx[t].rv
            /\ tx'[t].key = tx[t].key
        BY Zenon, <1>1, <4>1 DEF Tx
      <4> QED BY <4>2 DEF x
    <3>6. tx' = [tx EXCEPT ![t] = tx'[t]]
      BY Zenon, <1>1, <3>1
    <3> DEFINE r == [id |-> nextId, xid |-> Xid(t), rv |-> tx[t].rv, key |-> tx[t].key,
                     gone |-> tx[t].op = "Delete"]
    <3>7. r \in Row /\ log' = log \cup {r} /\ nextId' = nextId + 1
      BY <1>1, <3>1, <3>4 DEF WriteChangelog, Row, Tx
    <3>8. r.id = nextId /\ r.xid = Xid(t) /\ r.rv = tx[t].rv
      OBVIOUS
    <3> HIDE DEF r
    <3> QED BY <1>1, <3>1, <3>2, <3>4, <3>5, <3>6, <3>7, <3>8 DEF Goes
  <2> QED BY <2>1, <2>2
<1>11. CASE CommitTx(t)
  BY Zenon, <1>2, <1>11 DEF CommitTx, Ends
<1>12. CASE AbortTx(t)
  BY <1>12 DEF AbortTx, Ends
<1> QED BY <1>4, <1>5, <1>6, <1>7, <1>8, <1>9, <1>10, <1>11, <1>12 DEF Writer, TxStep

-----------------------------------------------------------------------------
(***************************************************************************)
(* A session that goes on preserves the invariant.                         *)
(***************************************************************************)
\* What is drawn and what is closed can be said of the next state too.
LEMMA GoesKeeps ==
  ASSUME TypeOK, Sessions, Rows, NEW t \in Txn, Goes(t)
  PROVE  /\ \A v \in RV : Settled(v) => Settled(v)'
         /\ \A x \in Nat : Closed(x) => Closed(x)'
         /\ \A r \in log : r.xid \in inflight' <=> r.xid \in inflight
         /\ \A u \in Txn \ {t} : tx'[u] = tx[u]
         /\ inflight \subseteq inflight' /\ inflight' \subseteq 1 .. nextXid' - 1
<1>1. /\ tx \in [Txn -> Tx] /\ nextXid \in Nat /\ nextXid >= 1 /\ nextRV \in Nat
      /\ inflight \subseteq 1 .. nextXid - 1 /\ RV \subseteq Nat
  BY WatchAssumption DEF TypeOK, RV
<1>2. \A u \in Txn \ {t} : tx'[u] = tx[u]
  BY <1>1 DEF Goes
<1>3. /\ inflight \subseteq inflight' /\ inflight' \subseteq 1 .. nextXid' - 1
      /\ \A r \in log : r.xid \in inflight' <=> r.xid \in inflight
      /\ \A x \in Nat : Closed(x) => Closed(x)'
  <2>1. CASE UNCHANGED <<inflight, nextXid>>
    BY <1>1, <2>1 DEF Closed
  <2>2. CASE inflight' = inflight \cup {nextXid} /\ nextXid' = nextXid + 1
    <3>1. \A r \in log : r.xid \in Nat /\ r.xid < nextXid
      BY DEF Rows, TypeOK, Row
    <3> QED BY <1>1, <2>2, <3>1 DEF Closed
  <2> QED BY <2>1, <2>2 DEF Goes
<1>4. ASSUME NEW v \in RV, Settled(v) PROVE Settled(v)'
  <2>1. v \in Nat /\ v < nextRV /\ \A u \in Txn : tx[u].rv # 0 => tx[u].rv # v
    BY <1>1, <1>4 DEF Settled
  <2>2. v < nextRV' /\ (tx'[t].rv = tx[t].rv \/ tx'[t].rv = nextRV)
    BY <1>1, <2>1 DEF Goes
  <2>3. \A u \in Txn : tx'[u].rv # 0 => tx'[u].rv # v
    BY <1>1, <1>2, <2>1, <2>2
  <2> QED BY <2>2, <2>3 DEF Settled
<1> QED BY <1>2, <1>3, <1>4

\* A writing transaction that goes on keeps the types,
LEMMA GoesType ==
  ASSUME TypeOK, Sessions, Rows, NEW t \in Txn, Goes(t)
  PROVE  TypeOK'
<1>1. tx' \in [Txn -> Tx] /\ lock' \in [Key -> Txn \cup {NoTxn}]
  BY DEF TypeOK, Goes
<1>2. /\ nextXid' \in 1 .. MaxXid + 1 /\ nextRV' \in 1 .. MaxRV + 1 /\ nextId' \in Nat
  <2>1. nextXid \in 1 .. MaxXid + 1 /\ nextRV \in 1 .. MaxRV + 1 /\ nextId \in Nat
    BY DEF TypeOK
  <2>2. nextXid' = nextXid \/ (nextXid <= MaxXid /\ nextXid' = nextXid + 1)
    BY DEF Goes
  <2>3. nextRV' = nextRV \/ (nextRV <= MaxRV /\ nextRV' = nextRV + 1)
    BY DEF Goes
  <2>4. nextId' = nextId \/ nextId' = nextId + 1
    BY DEF Goes
  <2> QED BY <2>1, <2>2, <2>3, <2>4, WatchAssumption
<1>3. log' \subseteq Row
  BY DEF TypeOK, Goes
<1>4. \A k \in Key : lock'[k] # NoTxn => tx'[lock'[k]].xid \in inflight'
  <2>1. SUFFICES ASSUME NEW k \in Key, lock'[k] # NoTxn PROVE tx'[lock'[k]].xid \in inflight'
    OBVIOUS
  <2>2. tx'[t].xid # 0 => tx'[t].xid \in inflight'
    BY DEF Goes, Sessions
  <2>3. CASE lock'[k] = t /\ tx'[t].xid # 0
    BY <2>2, <2>3
  <2>4. CASE lock'[k] = lock[k]
    <3>1. lock[k] \in Txn /\ tx[lock[k]].xid \in inflight
      BY <2>1, <2>4 DEF TypeOK
    <3>2. tx[lock[k]].xid # 0
      BY <3>1 DEF TypeOK
    <3>3. CASE lock[k] = t
      <4>1. tx'[t].xid # 0
        BY <3>1, <3>2, <3>3, WatchAssumption DEF Goes, TypeOK
      <4> QED BY <2>2, <2>4, <3>3, <4>1
    <3>4. CASE lock[k] # t
      BY <2>4, <3>1, <3>4, GoesKeeps
    <3> QED BY <3>3, <3>4
  <2> QED BY <2>3, <2>4 DEF Goes
<1>5. inflight' \subseteq 1 .. nextXid' - 1
  BY GoesKeeps
<1>6. UNCHANGED <<objects, w, client, sent>>
  BY DEF Goes
<1> QED BY Zenon, <1>1, <1>2, <1>3, <1>4, <1>5, <1>6 DEF TypeOK

\* what holds of the transactions,
LEMMA GoesSessions ==
  ASSUME TypeOK, Sessions, Rows, NEW t \in Txn, Goes(t)
  PROVE  Sessions'
<1>1. /\ tx \in [Txn -> Tx] /\ nextXid \in Nat /\ nextXid >= 1 /\ nextRV \in Nat /\ nextRV >= 2
      /\ inflight \subseteq 1 .. nextXid - 1
      /\ \A u \in Txn : tx[u].xid \in Nat /\ tx[u].rv \in Nat
  BY WatchAssumption DEF TypeOK, Rows, Tx, RV
<1>2. \A u \in Txn \ {t} : tx'[u] = tx[u]
  BY GoesKeeps
<1>3. tx'[t].xid = tx[t].xid \/ (tx'[t].xid = nextXid /\ nextXid \in inflight')
  BY DEF Goes
<1>4. \A u \in Txn \ {t} : tx'[t].xid # 0 => tx'[t].xid # tx[u].xid
  <2>1. \A u \in Txn : tx[u].xid # nextXid
    BY <1>1 DEF Sessions
  <2> QED BY <1>3, <2>1 DEF Sessions
<1>5. (tx'[t].rv = tx[t].rv /\ nextRV' = nextRV) \/ (tx'[t].rv = nextRV /\ nextRV' = nextRV + 1)
  BY DEF Goes
<1>6. \A u \in Txn \ {t} : tx'[t].rv # 0 => tx'[t].rv # tx[u].rv
  <2>1. \A u \in Txn : tx[u].rv # nextRV
    BY <1>1 DEF Sessions
  <2> QED BY <1>5, <2>1 DEF Sessions
<1>7. inflight \subseteq inflight'
  BY GoesKeeps
<1>8. ASSUME NEW u \in Txn
      PROVE  /\ tx'[u].pc = "idle" => tx'[u] = Idle
             /\ tx'[u].pc # "idle" => tx'[u].key \in Key
             /\ tx'[u].pc \in {"locked", "written"} => tx'[u].xid # 0
  BY <1>2 DEF Sessions, Goes
<1>9. ASSUME NEW u \in Txn
      PROVE  /\ tx'[u].xid # 0 => tx'[u].xid \in inflight'
             /\ tx'[u].rv # 0 => tx'[u].rv >= 2 /\ tx'[u].rv < nextRV'
  <2>1. CASE u = t
    BY <1>1, <1>3, <1>5, <1>7, <2>1 DEF Sessions
  <2>2. CASE u # t
    BY <1>1, <1>2, <1>5, <1>7, <2>2 DEF Sessions
  <2> QED BY <2>1, <2>2
<1>10. ASSUME NEW u \in Txn, NEW v \in Txn
       PROVE  /\ tx'[u].xid # 0 /\ tx'[u].xid = tx'[v].xid => u = v
              /\ tx'[u].rv # 0 /\ tx'[u].rv = tx'[v].rv => u = v
  BY <1>2, <1>4, <1>6 DEF Sessions
<1> QED BY <1>8, <1>9, <1>10 DEF Sessions

\* what holds of the changelog's rows,
LEMMA GoesRows ==
  ASSUME TypeOK, Sessions, Rows, NEW t \in Txn, Goes(t)
  PROVE  Rows'
<1>1. /\ tx \in [Txn -> Tx] /\ nextXid \in Nat /\ nextRV \in Nat /\ nextId \in Nat /\ nextRV >= 2
      /\ sent \subseteq Nat /\ inflight \subseteq 1 .. nextXid - 1
      /\ \A u \in Txn : tx[u].xid \in Nat /\ tx[u].rv \in Nat
      /\ \A r \in log : r.id \in Nat /\ r.xid \in Nat /\ r.rv \in Nat
  BY WatchAssumption DEF TypeOK, Rows, Tx, RV, Row
<1>2. /\ nextXid' \in Nat /\ nextXid' >= nextXid /\ nextRV' \in Nat /\ nextRV' >= nextRV
      /\ nextId' \in Nat /\ nextId' >= nextId
  BY <1>1 DEF Goes
<1>3. \A u \in Txn \ {t} : tx'[u] = tx[u]
  BY GoesKeeps
<1>4. /\ tx'[t].rv = tx[t].rv \/ (tx'[t].rv = nextRV /\ nextRV' = nextRV + 1)
      /\ tx[t].xid # 0 => tx'[t].xid = tx[t].xid
  BY DEF Goes
<1>5. ASSUME NEW r \in log
      PROVE  /\ r.id < nextId' /\ r.xid < nextXid' /\ r.rv < nextRV'
             /\ \A u \in Txn : tx'[u].rv # 0 /\ r.rv = tx'[u].rv => tx'[u].xid # 0 /\ r.xid = tx'[u].xid
  BY <1>1, <1>2, <1>3, <1>4 DEF Rows
<1>6. \A i \in sent' : i < nextId'
  BY <1>1, <1>2 DEF Rows, Goes
<1>7. nextRV' >= 2
  BY <1>1, <1>2
<1>8. CASE UNCHANGED log
  BY <1>5, <1>6, <1>7, <1>8 DEF Rows
<1>9. ASSUME NEW r \in Row, r.id = nextId, tx'[t].xid # 0, r.xid = tx'[t].xid, r.rv = tx'[t].rv,
             log' = log \cup {r}, nextId' = nextId + 1
      PROVE  Rows'
  <2>1. Sessions' /\ TypeOK'
    BY GoesSessions, GoesType
  <2>2. r.xid < nextXid'
    <3>1. tx'[t].xid \in inflight'
      BY <1>9, <2>1 DEF Sessions
    <3>2. inflight' \subseteq 1 .. nextXid' - 1
      BY GoesKeeps
    <3>3. r.xid \in 1 .. nextXid' - 1 /\ nextXid' \in Nat
      BY Zenon, <1>2, <1>9, <3>1, <3>2
    <3>4. \A n \in Nat : \A i \in 1 .. n - 1 : i < n
      OBVIOUS
    <3> QED BY <3>3, <3>4
  <2>3. r.rv < nextRV'
    <3>1. CASE tx'[t].rv = 0
      BY <1>1, <1>2, <1>9, <3>1
    <3>2. CASE tx'[t].rv # 0
      BY <1>9, <2>1, <3>2 DEF Sessions
    <3> QED BY <3>1, <3>2
  <2>4. r.id < nextId' /\ \A q \in log : q.id # r.id
    BY <1>1, <1>9 DEF Rows
  <2>5. \A u \in Txn : tx'[u].rv # 0 /\ r.rv = tx'[u].rv => tx'[u].xid # 0 /\ r.xid = tx'[u].xid
    BY Zenon, <1>9, <2>1 DEF Sessions
  <2>6. ASSUME NEW p \in log', NEW q \in log', p.id = q.id PROVE p = q
    BY <1>9, <2>4, <2>6 DEF Rows
  <2>7. ASSUME NEW p \in log'
        PROVE  /\ p.id < nextId' /\ p.xid < nextXid' /\ p.rv < nextRV'
               /\ \A u \in Txn : tx'[u].rv # 0 /\ p.rv = tx'[u].rv => tx'[u].xid # 0 /\ p.xid = tx'[u].xid
    BY <1>5, <1>9, <2>2, <2>3, <2>4, <2>5
  <2> QED BY <1>6, <1>7, <2>6, <2>7 DEF Rows
<1> QED BY <1>8, <1>9 DEF Goes

\* A new row is one of an open transaction and has an id nobody was sent, and it
\* lies after every cursor.
LEMMA GoesRest ==
  ASSUME WatchInv, NEW t \in Txn, Goes(t)
  PROVE  Versions' /\ Unsent' /\ Cursor'
<1> USE DEF WatchInv
<1>1. /\ UNCHANGED <<objects, w, client, sent>>
      /\ \A v \in RV : Settled(v) => Settled(v)'
      /\ \A x \in Nat : Closed(x) => Closed(x)'
      /\ \A r \in log : r.xid \in inflight' <=> r.xid \in inflight
  BY GoesKeeps DEF Goes
<1>2. Versions'
  <2>1. /\ \A k \in Key : objects[k] \in RV
        /\ client.rv \in RV /\ client.bookmark \in RV /\ w.rv \in RV /\ w.target \in RV /\ w.progress \in RV
    BY DEF TypeOK, Client, Watch
  <2>2. /\ \A k \in Key : Settled(objects[k])'
        /\ Settled(client.rv)' /\ Settled(client.bookmark)'
        /\ Settled(w.rv)' /\ Settled(w.target)' /\ Settled(w.progress)'
    BY <1>1, <2>1 DEF Versions, Settled
  <2> QED BY <2>2 DEF Versions
<1>3. ASSUME NEW r \in log' \ log PROVE r.xid \in inflight' /\ r.id \notin sent
  <2>1. r.id = nextId /\ tx'[t].xid # 0 /\ r.xid = tx'[t].xid
    BY <1>3 DEF Goes
  <2>2. tx'[t].xid \in inflight'
    BY <2>1, GoesSessions DEF Sessions
  <2>3. nextId \notin sent
    BY DEF Rows, TypeOK
  <2> QED BY <2>1, <2>2, <2>3
<1>4. Unsent'
  BY <1>1, <1>3 DEF Unsent
<1>5. Cursor'
  <2>1. w.horizon \in Nat /\ w.xid + 1 \in Nat
    BY WatchAssumption DEF TypeOK, Watch
  <2>2. Closed(w.horizon)' /\ (w'.from = "Initial" => Closed(w.xid + 1)')
    BY <1>1, <2>1 DEF Cursor, Closed
  <2>3. Committed' \subseteq Committed
    BY <1>1, <1>3 DEF Committed
  <2>4. \A r : AfterCursor(r)' <=> AfterCursor(r)
    BY <1>1 DEF AfterCursor
  <2>5. w.from = "Initial" /\ w.pc # "off" => \A r \in Committed' : ~AfterCursor(r)' => r.id \in sent'
    BY <1>1, <2>3, <2>4 DEF Cursor
  <2> QED BY <1>1, <2>2, <2>5 DEF Cursor, AfterCursor
<1> QED BY <1>2, <1>4, <1>5

\* and so the invariant.
LEMMA GoesStep ==
  ASSUME WatchInv, NEW t \in Txn, Goes(t)
  PROVE  WatchInv'
BY GoesType, GoesSessions, GoesRows, GoesRest DEF WatchInv

-----------------------------------------------------------------------------
(***************************************************************************)
(* A transaction that ends preserves the invariant.                        *)
(***************************************************************************)
\* A transaction that ends leaves the others alone,
LEMMA EndsKeeps ==
  ASSUME TypeOK, Sessions, NEW t \in Txn, Ends(t)
  PROVE  /\ tx' \in [Txn -> Tx] /\ tx'[t] = Idle /\ \A u \in Txn \ {t} : tx'[u] = tx[u]
         /\ \A v : Settled(v) => Settled(v)'
         /\ \A x : Closed(x) => Closed(x)'
         /\ inflight' \subseteq inflight
         /\ \A u \in Txn \ {t} : tx[u].xid \in inflight => tx[u].xid \in inflight'
<1>1. /\ tx \in [Txn -> Tx] /\ inflight \subseteq 1 .. nextXid - 1
  BY DEF TypeOK
<1>2. Idle \in Tx
  BY WatchAssumption DEF Idle, Tx, RV
<1>3. tx' \in [Txn -> Tx] /\ tx'[t] = Idle /\ \A u \in Txn \ {t} : tx'[u] = tx[u]
  BY <1>1, <1>2 DEF Ends, End
<1>4. \A v : Settled(v) => Settled(v)'
  BY <1>3 DEF Settled, Ends, Idle
<1>5. inflight' \subseteq inflight /\ \A x : Closed(x) => Closed(x)'
  BY DEF Closed, Ends, End
<1>6. ASSUME NEW u \in Txn \ {t}, tx[u].xid \in inflight PROVE tx[u].xid \in inflight'
  <2>1. tx[u].xid # 0
    BY <1>1, <1>6
  <2>2. tx[u].xid # tx[t].xid
    BY <2>1 DEF Sessions
  <2> QED BY <1>6, <2>2 DEF Ends, End
<1> QED BY <1>3, <1>4, <1>5, <1>6

\* keeps the types,
LEMMA EndsType ==
  ASSUME TypeOK, Sessions, NEW t \in Txn, Ends(t)
  PROVE  TypeOK'
<1>1. tx' \in [Txn -> Tx] /\ log' \subseteq Row
  BY EndsKeeps DEF Ends, TypeOK
<1>2. objects' \in [Key -> RV]
  <2>1. objects \in [Key -> RV] /\ 0 \in RV /\ tx[t].rv \in RV
    BY WatchAssumption DEF TypeOK, RV, Tx
  <2> QED BY <2>1 DEF Ends
<1>3. lock' = [k \in Key |-> IF lock[k] = t THEN NoTxn ELSE lock[k]] /\ lock \in [Key -> Txn \cup {NoTxn}]
  BY DEF Ends, End, TypeOK
<1>4. lock' \in [Key -> Txn \cup {NoTxn}]
  BY <1>3
<1>5. \A k \in Key : lock'[k] # NoTxn => tx'[lock'[k]].xid \in inflight'
  <2>1. SUFFICES ASSUME NEW k \in Key, lock'[k] # NoTxn PROVE tx'[lock'[k]].xid \in inflight'
    OBVIOUS
  <2>2. lock'[k] = lock[k] /\ lock[k] \in Txn \ {t} /\ tx[lock[k]].xid \in inflight
    BY <1>3, <2>1 DEF TypeOK
  <2> QED BY Zenon, <2>2, EndsKeeps
<1>6. inflight' \subseteq 1 .. nextXid' - 1
  BY Zenon, EndsKeeps DEF TypeOK, Ends
<1>7. UNCHANGED <<nextXid, nextRV, nextId, w, client, sent>>
  BY DEF Ends
<1> QED BY <1>1, <1>2, <1>4, <1>5, <1>6, <1>7 DEF TypeOK

\* what holds of the transactions,
LEMMA EndsSessions ==
  ASSUME TypeOK, Sessions, NEW t \in Txn, Ends(t)
  PROVE  Sessions'
<1>1. tx'[t] = Idle /\ \A u \in Txn \ {t} : tx'[u] = tx[u]
  BY EndsKeeps
<1>2. nextRV' = nextRV /\ \A u \in Txn \ {t} : tx[u].xid \in inflight => tx[u].xid \in inflight'
  BY EndsKeeps DEF Ends
<1>3. Idle.pc = "idle" /\ Idle.xid = 0 /\ Idle.rv = 0
  BY DEF Idle
<1>4. ASSUME NEW u \in Txn
      PROVE  /\ tx'[u].pc = "idle" => tx'[u] = Idle
             /\ tx'[u].pc # "idle" => tx'[u].key \in Key
             /\ tx'[u].pc \in {"locked", "written"} => tx'[u].xid # 0
             /\ tx'[u].xid # 0 => tx'[u].xid \in inflight'
             /\ tx'[u].rv # 0 => tx'[u].rv >= 2 /\ tx'[u].rv < nextRV'
  <2>1. CASE u = t
    BY <1>1, <1>3, <2>1
  <2>2. CASE u # t
    BY <1>1, <1>2, <2>2 DEF Sessions
  <2> QED BY <2>1, <2>2
<1>5. ASSUME NEW u \in Txn, NEW v \in Txn
      PROVE  /\ tx'[u].xid # 0 /\ tx'[u].xid = tx'[v].xid => u = v
             /\ tx'[u].rv # 0 /\ tx'[u].rv = tx'[v].rv => u = v
  BY <1>1, <1>3 DEF Sessions
<1> QED BY <1>4, <1>5 DEF Sessions

\* What a commit adds to the committed rows lies after the cursor, for its xid
\* was in flight.
LEMMA EndsRest ==
  ASSUME WatchInv, NEW t \in Txn, Ends(t)
  PROVE  Rows' /\ Versions' /\ Unsent' /\ Cursor'
<1> USE DEF WatchInv
<1>1. /\ tx'[t] = Idle /\ \A u \in Txn \ {t} : tx'[u] = tx[u]
      /\ inflight' \subseteq inflight /\ log' \subseteq log
      /\ UNCHANGED <<nextXid, nextRV, nextId, w, client, sent>>
  BY Zenon, EndsKeeps DEF Ends
<1>2. Idle.rv = 0
  BY DEF Idle
<1>3. Rows'
  <2>1. ASSUME NEW r \in log', NEW u \in Txn, tx'[u].rv # 0, r.rv = tx'[u].rv
        PROVE  tx'[u].xid # 0 /\ r.xid = tx'[u].xid
    <3>1. u # t /\ tx'[u] = tx[u] /\ r \in log
      BY <1>1, <1>2, <2>1
    <3> QED BY <2>1, <3>1 DEF Rows
  <2>2. \A r \in log' : /\ r.id < nextId' /\ r.xid < nextXid' /\ r.rv < nextRV'
                        /\ \A q \in log' : r.id = q.id => r = q
    BY <1>1 DEF Rows
  <2> QED BY <1>1, <2>1, <2>2 DEF Rows
<1>4. Versions'
  <2>1. ASSUME NEW k \in Key PROVE Settled(objects[k])'
    <3>1. objects'[k] \in {objects[k], 0, tx[t].rv}
      BY DEF Ends, TypeOK
    <3>2. Settled(objects[k])
      BY DEF Versions
    <3>3. CASE objects'[k] = objects[k]
      <4>1. \A v : Settled(v) => Settled(v)'
        BY EndsKeeps
      <4> QED BY <3>2, <3>3, <4>1 DEF Settled
    <3>4. CASE objects'[k] = 0
      BY <1>1, <3>4 DEF Settled, Rows, TypeOK
    <3>5. CASE objects'[k] = tx[t].rv /\ tx[t].rv # 0
      BY Zenon, <1>1, <1>2, <3>5 DEF Settled, Sessions
    <3> QED BY <3>1, <3>3, <3>4, <3>5
  <2>2. /\ Settled(client.rv)' /\ Settled(client.bookmark)'
        /\ Settled(w.rv)' /\ Settled(w.target)' /\ Settled(w.progress)'
    BY Zenon, <1>1, EndsKeeps DEF Versions, Settled
  <2> QED BY <2>1, <2>2 DEF Versions
<1>5. Unsent'
  BY <1>1 DEF Unsent
<1>6. Cursor'
  <2>1. Closed(w.horizon)' /\ (w'.from = "Initial" => Closed(w.xid + 1)')
    BY <1>1, EndsKeeps DEF Cursor, Closed
  <2>2. \A r : AfterCursor(r)' <=> AfterCursor(r)
    BY <1>1 DEF AfterCursor
  <2>3. ASSUME w.from = "Initial", w.pc # "off", NEW r \in Committed', ~AfterCursor(r)
        PROVE  r.id \in sent
    <3>1. r \in log
      BY <1>1 DEF Committed
    <3>2. CASE r.xid \notin inflight
      BY <2>3, <3>1, <3>2 DEF Cursor, Committed
    <3>3. CASE r.xid \in inflight
      <4>1. w.xid + 1 <= r.xid /\ w.xid \in Nat /\ r.xid \in Nat
        BY <2>3, <3>1, <3>3, WatchAssumption DEF Cursor, Closed, TypeOK, Watch, Row
      <4> QED BY <2>3, <4>1 DEF AfterCursor
    <3> QED BY <3>2, <3>3
  <2> QED BY <1>1, <2>1, <2>2, <2>3 DEF Cursor, AfterCursor
<1> QED BY <1>3, <1>4, <1>5, <1>6

\* and so the invariant.
LEMMA EndsStep ==
  ASSUME WatchInv, NEW t \in Txn, Ends(t)
  PROVE  WatchInv'
BY EndsType, EndsSessions, EndsRest DEF WatchInv

-----------------------------------------------------------------------------
(***************************************************************************)
(* The watch's own steps leave the database alone.                         *)
(***************************************************************************)
\* What such a step has to see to.
Moves ==
  /\ UNCHANGED dbVars /\ w' \in Watch /\ client' \in Client
  /\ \A i \in sent' : i \in sent \/ \E r \in Committed : r.id = i
  /\ Settled(w'.rv) /\ Settled(w'.target) /\ Settled(w'.progress)
  /\ Settled(client'.rv) /\ Settled(client'.bookmark)
  /\ Closed(w'.horizon)
  /\ w'.pc \in {"listed", "opening"} => w'.from # "Initial"
  /\ w'.from = "Initial" => Closed(w'.xid + 1)
  /\ w'.from = "Initial" /\ w'.pc # "off" =>
       \A r \in Committed : w'.xid < r.xid \/ (w'.xid = r.xid /\ w'.id < r.id) \/ r.id \in sent'

\* A step of the watcher keeps the invariant.
LEMMA MovesStep ==
  ASSUME WatchInv, Moves
  PROVE  WatchInv'
<1> USE DEF WatchInv
<1>1. UNCHANGED <<objects, log, inflight, nextXid, nextRV, nextId, tx, lock>>
  BY DEF Moves, dbVars
<1>2. ASSUME NEW i \in sent'
      PROVE  /\ i \in Nat /\ i < nextId
             /\ \A r \in log : r.xid \in inflight => r.id # i
  <2>1. CASE i \in sent
    BY <2>1 DEF TypeOK, Rows, Unsent
  <2>2. CASE \E r \in Committed : r.id = i
    BY <2>2 DEF TypeOK, Rows, Committed, Row
  <2> QED BY <2>1, <2>2 DEF Moves
<1>3. TypeOK'
  BY <1>1, <1>2 DEF TypeOK, Moves
<1>4. Sessions'
  BY <1>1 DEF Sessions
<1>5. Rows'
  BY <1>1, <1>2 DEF Rows
<1>6. Versions'
  BY Zenon, <1>1 DEF Versions, Moves, Settled
<1>7. Unsent'
  BY <1>1, <1>2 DEF Unsent
<1>8. Cursor'
  <2>1. Committed' = Committed
    BY <1>1 DEF Committed
  <2>2. Closed(w.horizon)' /\ (w'.from = "Initial" => Closed(w.xid + 1)')
    BY <1>1 DEF Moves, Closed
  <2>3. w'.from = "Initial" /\ w'.pc # "off" => \A r \in Committed' : ~AfterCursor(r)' => r.id \in sent'
    BY <2>1 DEF Moves, AfterCursor
  <2>4. w'.pc \in {"listed", "opening"} => w'.from # "Initial"
    BY DEF Moves
  <2> QED BY <2>2, <2>3, <2>4 DEF Cursor
<1> QED BY <1>3, <1>4, <1>5, <1>6, <1>7, <1>8

\* Where Seed puts the cursor, and that it moves nothing else.
LEMMA SeedIs ==
  ASSUME TypeOK, Rows, NEW S \in SUBSET log
  PROVE  /\ Seed(S) \in Watch
         /\ Seed(S).pc = w.pc /\ Seed(S).rv = w.rv /\ Seed(S).horizon = w.horizon
         /\ Seed(S).target = w.target /\ Seed(S).progress = w.progress /\ Seed(S).from = w.from
         /\ S = {} => Seed(S).xid = 0 /\ Seed(S).id = 0
         /\ S # {} => Seed(S).xid = LastOf(S).xid /\ Seed(S).id = LastOf(S).id
<1>1. \E x \in 0 .. MaxXid, i \in Nat :
        /\ Seed(S) = [w EXCEPT !.xid = x, !.id = i]
        /\ S = {} => x = 0 /\ i = 0
        /\ S # {} => x = LastOf(S).xid /\ i = LastOf(S).id
  <2>1. CASE S = {}
    <3>1. Seed(S) = [w EXCEPT !.xid = 0, !.id = 0]
      BY <2>1 DEF Seed
    <3>2. 0 \in 0 .. MaxXid /\ 0 \in Nat
      BY WatchAssumption
    <3> QED BY Zenon, <2>1, <3>1, <3>2
  <2>2. CASE S # {}
    <3>1. LastOf(S) \in log
      BY <2>2, LastIsLast
    <3>2. LastOf(S).xid \in 0 .. MaxXid /\ LastOf(S).id \in Nat
      BY <3>1, WatchAssumption DEF TypeOK, Row
    <3> QED BY Zenon, <2>2, <3>2 DEF Seed
  <2> QED BY Zenon, <2>1, <2>2
<1>2. PICK x \in 0 .. MaxXid, i \in Nat :
        /\ Seed(S) = [w EXCEPT !.xid = x, !.id = i]
        /\ S = {} => x = 0 /\ i = 0
        /\ S # {} => x = LastOf(S).xid /\ i = LastOf(S).id
  BY Zenon, <1>1
<1>3. w \in Watch
  BY DEF TypeOK
<1>4. /\ Seed(S) \in Watch /\ Seed(S).xid = x /\ Seed(S).id = i
      /\ Seed(S).pc = w.pc /\ Seed(S).rv = w.rv /\ Seed(S).horizon = w.horizon
      /\ Seed(S).target = w.target /\ Seed(S).progress = w.progress /\ Seed(S).from = w.from
  BY Zenon, <1>2, <1>3 DEF Watch
<1> QED BY <1>2, <1>4

\* What the invariant says of the watch as it is.
LEMMA WatchAsItIs ==
  ASSUME WatchInv
  PROVE  /\ w \in Watch /\ client \in Client
         /\ Settled(w.rv) /\ Settled(w.target) /\ Settled(w.progress)
         /\ Settled(client.rv) /\ Settled(client.bookmark) /\ Settled(0) /\ 0 \in RV
         /\ Closed(w.horizon) /\ Closed(0) /\ Closed(1)
         /\ w.pc \in {"listed", "opening"} => w.from # "Initial"
         /\ w.from = "Initial" => Closed(w.xid + 1)
         /\ w.from = "Initial" /\ w.pc # "off" =>
              \A r \in Committed : w.xid < r.xid \/ (w.xid = r.xid /\ w.id < r.id) \/ r.id \in sent
<1> USE DEF WatchInv
<1>1. Settled(0) /\ 0 \in RV
  BY WatchAssumption DEF Settled, Rows, TypeOK, RV
<1>2. Closed(0) /\ Closed(1)
  BY WatchAssumption DEF Closed, TypeOK
<1> QED BY <1>1, <1>2 DEF TypeOK, Versions, Cursor, AfterCursor

\* Opening a watch with initial events is a step of the watcher.
LEMMA OpenInitialMoves ==
  ASSUME WatchInv, OpenInitial
  PROVE  Moves
<1> USE DEF WatchInv
<1> DEFINE below == { r \in Committed : r.xid < Xmin }
           top == MaxOf({ objects[k] : k \in Key })
           s == Seed(below)
<1>1. w' = [s EXCEPT !.pc = "endmark", !.rv = top]
      /\ client' = [client EXCEPT !.view = objects, !.rv = top]
      /\ sent' = Listed /\ UNCHANGED dbVars
  BY DEF OpenInitial
<1>2. below \in SUBSET log
  BY DEF Committed
<1>3. top \in RV /\ Settled(top)
  <2>1. { objects[k] : k \in Key } \in SUBSET RV /\ \A v \in { objects[k] : k \in Key } : Settled(v)
    BY DEF TypeOK, Versions
  <2> QED BY <2>1, MaxOfSettled
<1>4. /\ s \in Watch /\ s.target = w.target /\ s.progress = w.progress /\ s.horizon = w.horizon
      /\ s.from = w.from /\ (below = {} => s.xid = 0) /\ (below # {} => s.xid = LastOf(below).xid)
  <2> HIDE DEF below
  <2> QED BY <1>2, SeedIs
<1>5. Closed(s.xid + 1)
  <2>1. CASE below = {}
    BY <1>4, <2>1, WatchAsItIs
  <2>2. CASE below # {}
    <3>1. LastOf(below) \in below
      <4> HIDE DEF below
      <4> QED BY <1>2, <2>2, LastIsLast
    <3>2. s.xid < Xmin /\ s.xid \in Nat
      BY <1>4, <2>2, <3>1 DEF Watch
    <3>3. Xmin \in Nat /\ Closed(Xmin) /\ nextXid \in Nat /\ inflight \subseteq Nat
      BY XminIsClosed, WatchAssumption DEF TypeOK
    <3> QED BY <3>2, <3>3 DEF Closed
  <2> QED BY <2>1, <2>2
<1> HIDE DEF below, top, s
<1>6. /\ w' \in Watch /\ w'.pc = "endmark" /\ w'.rv = top /\ w'.xid = s.xid /\ w'.horizon = w.horizon
      /\ w'.target = w.target /\ w'.progress = w.progress /\ w'.from = w.from
  BY Zenon, <1>1, <1>3, <1>4 DEF Watch
<1>7. client' \in Client /\ client'.rv = top /\ client'.bookmark = client.bookmark
  BY Zenon, <1>1, <1>3 DEF TypeOK, Client
<1>8. \A r \in Committed : r.id \in sent'
  BY <1>1 DEF Listed
<1>9. \A i \in sent' : \E r \in Committed : r.id = i
  BY <1>1 DEF Listed
<1> QED BY <1>1, <1>3, <1>5, <1>6, <1>7, <1>8, <1>9, WatchAsItIs DEF Moves

\* The steps that leave the cursor and what was sent as they are.
LEMMA StillMoves ==
  ASSUME WatchInv,
         \/ EndBookmark \/ ListVersion \/ Disconnect \/ ReadHorizon \/ TakeProgress
         \/ PollFails \/ RequestProgress \/ ProgressBookmark \/ PeriodicBookmark
  PROVE  Moves /\ w'.xid = w.xid /\ w'.id = w.id
<1> USE DEF WatchInv
<1>1. /\ CommittedMax \in RV /\ Settled(CommittedMax)
      /\ CurrentResourceVersion \in RV /\ Settled(CurrentResourceVersion)
  BY CommittedMaxSettled
<1>2. Xmin \in 0 .. MaxXid + 1 /\ Closed(Xmin) /\ 0 \in 0 .. MaxXid + 1
  BY XminIsClosed, WatchAssumption
<1>3. w \in Watch /\ client \in Client /\ 0 \in RV /\ Settled(0) /\ RV \subseteq Nat
  BY WatchAsItIs DEF RV
<1>4. CASE EndBookmark
  <2> DEFINE v == Max({w.rv, CommittedMax})
  <2>1. v \in {w.rv, CommittedMax}
    BY Zenon, <1>1, <1>3, MaxOfTwo DEF Watch
  <2>2. v \in RV /\ Settled(v)
    BY <1>1, <1>3, <2>1, WatchAsItIs DEF Watch
  <2>3. w' = [w EXCEPT !.pc = "ready", !.rv = v]
    BY <1>4 DEF EndBookmark
  <2> HIDE DEF v
  <2>4. /\ w' \in Watch /\ w'.pc = "ready" /\ w'.rv = v /\ w'.xid = w.xid /\ w'.id = w.id
        /\ w'.horizon = w.horizon /\ w'.target = w.target /\ w'.progress = w.progress /\ w'.from = w.from
    BY Zenon, <1>3, <2>2, <2>3 DEF Watch
  <2>5. client' = [client EXCEPT !.rv = v, !.bookmark = v] /\ UNCHANGED <<dbVars, sent>>
    BY Zenon, <1>4, <2>4 DEF EndBookmark, Bookmark
  <2>6. client' \in Client /\ client'.rv = v /\ client'.bookmark = v
    BY Zenon, <1>3, <2>2, <2>5 DEF Client
  <2>7. w.pc = "endmark"
    BY <1>4 DEF EndBookmark
  <2> QED BY <2>2, <2>4, <2>5, <2>6, <2>7, WatchAsItIs DEF Moves
<1>5. CASE ListVersion
  <2> DEFINE v == CurrentResourceVersion
  <2>1. /\ w' = [w EXCEPT !.pc = "opening"] /\ client' = [client EXCEPT !.rv = v]
        /\ UNCHANGED <<dbVars, sent>> /\ w.pc = "listed"
    BY <1>5 DEF ListVersion
  <2>2. v \in RV /\ Settled(v)
    BY <1>1
  <2> HIDE DEF v
  <2>3. /\ w' \in Watch /\ w'.pc = "opening" /\ w'.rv = w.rv /\ w'.xid = w.xid /\ w'.id = w.id
        /\ w'.horizon = w.horizon /\ w'.target = w.target /\ w'.progress = w.progress /\ w'.from = w.from
    BY <1>3, <2>1 DEF Watch
  <2>4. client' \in Client /\ client'.rv = v /\ client'.bookmark = client.bookmark
    BY <1>3, <2>1, <2>2 DEF Client
  <2> QED BY <2>1, <2>2, <2>3, <2>4, WatchAsItIs DEF Moves
<1>6. CASE Disconnect
  <2>1. /\ w' = [w EXCEPT !.pc = "opening", !.progress = 0, !.from = "Resume"]
        /\ UNCHANGED <<dbVars, client, sent>> /\ w.pc = "ready"
    BY <1>6 DEF Disconnect
  <2>2. /\ w' \in Watch /\ w'.pc = "opening" /\ w'.rv = w.rv /\ w'.xid = w.xid /\ w'.id = w.id
        /\ w'.horizon = w.horizon /\ w'.target = w.target /\ w'.progress = 0 /\ w'.from = "Resume"
    BY Zenon, <1>3, <2>1 DEF Watch
  <2> QED BY <2>1, <2>2, WatchAsItIs DEF Moves
<1>7. CASE ReadHorizon
  <2> DEFINE h == Xmin
  <2>1. /\ w' = [w EXCEPT !.pc = "query", !.horizon = h]
        /\ UNCHANGED <<dbVars, client, sent>> /\ w.pc = "ready"
    BY <1>7 DEF ReadHorizon
  <2>2. h \in 0 .. MaxXid + 1 /\ Closed(h)
    BY <1>2
  <2> HIDE DEF h
  <2>3. /\ w' \in Watch /\ w'.pc = "query" /\ w'.rv = w.rv /\ w'.xid = w.xid /\ w'.id = w.id
        /\ w'.horizon = h /\ w'.target = w.target /\ w'.progress = w.progress /\ w'.from = w.from
    BY Zenon, <1>3, <2>1, <2>2 DEF Watch
  <2> QED BY <2>1, <2>2, <2>3, WatchAsItIs DEF Moves
<1>8. CASE TakeProgress
  <2> DEFINE h == Xmin
  <2>1. /\ w' = [w EXCEPT !.pc = "query", !.horizon = h, !.target = w.progress, !.progress = 0]
        /\ UNCHANGED <<dbVars, client, sent>> /\ w.pc = "ready"
    BY <1>8 DEF TakeProgress
  <2>2. h \in 0 .. MaxXid + 1 /\ Closed(h)
    BY <1>2
  <2> HIDE DEF h
  <2>3. /\ w' \in Watch /\ w'.pc = "query" /\ w'.rv = w.rv /\ w'.xid = w.xid /\ w'.id = w.id
        /\ w'.horizon = h /\ w'.target = w.progress /\ w'.progress = 0 /\ w'.from = w.from
    BY Zenon, <1>3, <2>1, <2>2 DEF Watch
  <2> QED BY <2>1, <2>2, <2>3, WatchAsItIs DEF Moves
<1>9. CASE PollFails
  <2>1. /\ w' = [w EXCEPT !.pc = IF w.target = 0 THEN "ready" ELSE "mark", !.horizon = 0]
        /\ UNCHANGED <<dbVars, client, sent>> /\ w.pc = "query"
    BY <1>9 DEF PollFails
  <2>2. /\ w' \in Watch /\ w'.pc \in {"ready", "mark"} /\ w'.rv = w.rv /\ w'.xid = w.xid /\ w'.id = w.id
        /\ w'.horizon = 0 /\ w'.target = w.target /\ w'.progress = w.progress /\ w'.from = w.from
    BY Zenon, <1>2, <1>3, <2>1 DEF Watch
  <2> QED BY <2>1, <2>2, WatchAsItIs DEF Moves
<1>10. CASE RequestProgress
  <2> DEFINE v == CurrentResourceVersion
  <2>1. /\ w' = [w EXCEPT !.progress = v] /\ UNCHANGED <<dbVars, client, sent>>
        /\ w.pc \in {"ready", "query", "mark"}
    BY <1>10 DEF RequestProgress
  <2>2. v \in RV /\ Settled(v)
    BY <1>1
  <2> HIDE DEF v
  <2>3. /\ w' \in Watch /\ w'.pc = w.pc /\ w'.rv = w.rv /\ w'.xid = w.xid /\ w'.id = w.id
        /\ w'.horizon = w.horizon /\ w'.target = w.target /\ w'.progress = v /\ w'.from = w.from
    BY <1>3, <2>1, <2>2 DEF Watch
  <2> QED BY <2>1, <2>2, <2>3, WatchAsItIs DEF Moves
<1>11. CASE ProgressBookmark
  <2> DEFINE v == Max({w.rv, w.target})
  <2>1. v \in {w.rv, w.target}
    BY Zenon, <1>3, MaxOfTwo DEF Watch
  <2>2. v \in RV /\ Settled(v)
    BY <1>3, <2>1, WatchAsItIs DEF Watch
  <2>3. w' = [w EXCEPT !.pc = "ready", !.target = 0, !.rv = v] /\ w.pc = "mark"
    BY <1>11 DEF ProgressBookmark
  <2> HIDE DEF v
  <2>4. /\ w' \in Watch /\ w'.pc = "ready" /\ w'.rv = v /\ w'.xid = w.xid /\ w'.id = w.id
        /\ w'.horizon = w.horizon /\ w'.target = 0 /\ w'.progress = w.progress /\ w'.from = w.from
    BY Zenon, <1>3, <2>2, <2>3 DEF Watch
  <2>5. client' = [client EXCEPT !.rv = v, !.bookmark = v] /\ UNCHANGED <<dbVars, sent>>
    BY Zenon, <1>11, <2>4 DEF ProgressBookmark, Bookmark
  <2>6. client' \in Client /\ client'.rv = v /\ client'.bookmark = v
    BY Zenon, <1>3, <2>2, <2>5 DEF Client
  <2> QED BY <2>2, <2>3, <2>4, <2>5, <2>6, WatchAsItIs DEF Moves
<1>12. CASE PeriodicBookmark
  <2> DEFINE v == CommittedMax
  <2>1. /\ w' = [w EXCEPT !.rv = v] /\ w.pc = "ready" /\ UNCHANGED <<dbVars, sent>>
        /\ client' = [client EXCEPT !.rv = v, !.bookmark = v]
    BY <1>12 DEF PeriodicBookmark, Bookmark
  <2>2. v \in RV /\ Settled(v)
    BY <1>1
  <2> HIDE DEF v
  <2>3. /\ w' \in Watch /\ w'.pc = "ready" /\ w'.rv = v /\ w'.xid = w.xid /\ w'.id = w.id
        /\ w'.horizon = w.horizon /\ w'.target = w.target /\ w'.progress = w.progress /\ w'.from = w.from
    BY <1>3, <2>1, <2>2 DEF Watch
  <2>4. client' \in Client /\ client'.rv = v /\ client'.bookmark = v
    BY Zenon, <1>3, <2>1, <2>2 DEF Client
  <2> QED BY <2>1, <2>2, <2>3, <2>4, WatchAsItIs DEF Moves
<1> QED BY <1>4, <1>5, <1>6, <1>7, <1>8, <1>9, <1>10, <1>11, <1>12

\* GetList, and a watch opened at a version: neither stream has initial events.
LEMMA ListMoves ==
  ASSUME WatchInv, ListRows \/ OpenAt
  PROVE  Moves
<1> USE DEF WatchInv
<1>1. w \in Watch /\ client \in Client
  BY WatchAsItIs
<1>2. CASE ListRows
  <2>1. /\ w' = [w EXCEPT !.pc = "listed", !.from = "List"] /\ client' = [client EXCEPT !.view = objects]
        /\ sent' = Listed /\ UNCHANGED dbVars
    BY <1>2 DEF ListRows
  <2>2. /\ w' \in Watch /\ w'.pc = "listed" /\ w'.rv = w.rv /\ w'.horizon = w.horizon
        /\ w'.target = w.target /\ w'.progress = w.progress /\ w'.from = "List"
    BY Zenon, <1>1, <2>1 DEF Watch
  <2>3. client' \in Client /\ client'.rv = client.rv /\ client'.bookmark = client.bookmark
    BY <1>1, <2>1 DEF TypeOK, Client
  <2>4. \A i \in sent' : \E r \in Committed : r.id = i
    BY <2>1 DEF Listed
  <2> QED BY <2>1, <2>2, <2>3, <2>4, WatchAsItIs DEF Moves
<1>3. CASE OpenAt
  <2> DEFINE below == { r \in Committed : r.rv <= client.rv }
             S == { r \in below : \A q \in below : q.rv <= r.rv }
             s == Seed(S)
  <2>1. /\ w' = [s EXCEPT !.pc = "ready", !.rv = client.rv] /\ w.pc = "opening"
        /\ UNCHANGED <<dbVars, client, sent>>
    BY <1>3 DEF OpenAt
  <2>2. /\ s \in Watch /\ s.target = w.target /\ s.progress = w.progress /\ s.horizon = w.horizon
        /\ s.from = w.from
    <3>1. S \in SUBSET log
      BY DEF Committed
    <3> HIDE DEF S
    <3> QED BY <3>1, SeedIs
  <2> HIDE DEF s
  <2>3. /\ w' \in Watch /\ w'.pc = "ready" /\ w'.rv = client.rv /\ w'.horizon = w.horizon
        /\ w'.target = w.target /\ w'.progress = w.progress /\ w'.from = w.from
    BY Zenon, <1>1, <2>1, <2>2 DEF Watch, Client
  <2>4. w.from # "Initial"
    BY <2>1, WatchAsItIs
  <2> QED BY <2>1, <2>3, <2>4, WatchAsItIs DEF Moves
<1> QED BY <1>2, <1>3

\* A page is applied to what the client holds.
LEMMA ApplyType ==
  ASSUME TypeOK, Rows, NEW S \in SUBSET log, NEW view \in [Key -> RV]
  PROVE  Apply(view, S) \in [Key -> RV]
<1>1. ASSUME NEW k \in Key PROVE Apply(view, S)[k] \in RV
  <2> DEFINE of == { r \in S : r.key = k }
  <2>1. Apply(view, S)[k] = IF of = {} THEN view[k] ELSE IF LastOf(of).gone THEN 0 ELSE LastOf(of).rv
    BY DEF Apply
  <2>2. of # {} => LastOf(of) \in log
    <3>1. of \in SUBSET log
      OBVIOUS
    <3> HIDE DEF of
    <3> QED BY <3>1, LastIsLast
  <2> HIDE DEF of
  <2> QED BY <2>1, <2>2, WatchAssumption DEF TypeOK, Row, RV
<1>2. Apply(view, S) = [k \in Key |-> Apply(view, S)[k]]
  BY DEF Apply
<1> QED BY <1>1, <1>2

\* A poll hands over the page and goes to its last row.  All rows up to there were
\* below the horizon, so they were committed and are in the page or were sent.
LEMMA PollMoves ==
  ASSUME WatchInv, PollChanges
  PROVE  /\ Moves
         /\ w.xid < w'.xid \/ (w.xid = w'.xid /\ w.id <= w'.id)
<1> USE DEF WatchInv
<1> DEFINE base == IF Page = {} THEN w ELSE Seed(Page)
           full == Cardinality(Page) = Batch
           state == IF w.target = 0 THEN "ready" ELSE IF full THEN "query" ELSE "mark"
           h == IF full /\ w.target # 0 THEN Xmin ELSE 0
           top == MaxOf({w.rv} \cup { r.rv : r \in Page })
           L == LastOf(Page)
<1>1. Page \in SUBSET log /\ \A r \in Page : r \in Committed /\ r.xid < w.horizon /\ AfterCursor(r)
  BY DEF Page, Pending, Committed
<1>2. /\ base \in Watch /\ base.rv = w.rv /\ base.target = w.target /\ base.progress = w.progress
      /\ base.from = w.from /\ (Page = {} => base.xid = w.xid /\ base.id = w.id)
      /\ (Page # {} => base.xid = L.xid /\ base.id = L.id)
  BY <1>1, SeedIs, WatchAsItIs
<1>3. w' = [base EXCEPT !.pc = state, !.horizon = h, !.rv = top]
  <2>1. w' = [base EXCEPT !.pc = state, !.horizon = h, !.rv = MaxOf({base.rv} \cup { r.rv : r \in Page })]
    BY DEF PollChanges
  <2> QED BY Zenon, <1>2, <2>1
<1>4. top \in RV /\ Settled(top)
  <2> DEFINE S == {w.rv} \cup { r.rv : r \in Page }
  <2>1. S \in SUBSET RV /\ \A v \in S : Settled(v)
    BY <1>1, CommittedSettled, WatchAsItIs DEF Watch
  <2> HIDE DEF S
  <2>2. MaxOf(S) \in RV /\ Settled(MaxOf(S))
    BY <2>1, MaxOfSettled
  <2> QED BY <2>2 DEF S
<1>5. h \in 0 .. MaxXid + 1 /\ Closed(h)
  BY XminIsClosed, WatchAsItIs, WatchAssumption
<1>6. state \in {"ready", "query", "mark"}
  OBVIOUS
<1>7. Page # {} => L \in Page /\ \A q \in Page \ {L} : Precedes(q, L)
  BY <1>1, LastIsLast
<1>8. /\ client' = IF Page = {} THEN client ELSE [client EXCEPT !.view = Apply(@, Page), !.rv = L.rv]
      /\ sent' = sent \cup { r.id : r \in Page } /\ UNCHANGED dbVars /\ w.pc = "query"
  BY DEF PollChanges
<1> HIDE DEF base, state, h, top, L
<1>9. /\ w' \in Watch /\ w'.pc = state /\ w'.rv = top /\ w'.xid = base.xid /\ w'.id = base.id
      /\ w'.horizon = h /\ w'.target = w.target /\ w'.progress = w.progress /\ w'.from = w.from
  BY Zenon, <1>2, <1>3, <1>4, <1>5, <1>6 DEF Watch
<1>10. client' \in Client /\ Settled(client'.rv) /\ client'.bookmark = client.bookmark
  <2>1. CASE Page = {}
    BY <1>8, <2>1, WatchAsItIs
  <2>2. CASE Page # {}
    <3>1. client.view \in [Key -> RV] /\ client \in Client
      BY DEF TypeOK, Client
    <3>2. Apply(client.view, Page) \in [Key -> RV]
      BY <1>1, <3>1, ApplyType
    <3>3. L.rv \in RV /\ Settled(L.rv)
      BY <1>1, <1>7, <2>2, CommittedSettled
    <3>4. client' = [client EXCEPT !.view = Apply(client.view, Page), !.rv = L.rv]
      BY <1>8, <2>2, <3>1 DEF Client
    <3> QED BY Zenon, <3>1, <3>2, <3>3, <3>4 DEF Client
  <2> QED BY <2>1, <2>2
<1>11. \A i \in sent' : i \in sent \/ \E r \in Committed : r.id = i
  BY <1>1, <1>8
<1>12. /\ w.xid \in Nat /\ w.id \in Nat /\ w.horizon \in Nat /\ nextXid \in Nat /\ inflight \subseteq Nat
       /\ \A r \in log : r.xid \in Nat /\ r.id \in Nat
  BY WatchAssumption DEF TypeOK, Watch, Row
<1>13. w.from = "Initial" => Closed(w'.xid + 1)
  <2>1. CASE Page = {}
    BY <1>2, <1>9, <2>1, WatchAsItIs
  <2>2. CASE Page # {}
    <3>1. w'.xid = L.xid /\ L.xid < w.horizon /\ L \in log
      BY <1>1, <1>2, <1>7, <1>9, <2>2
    <3>2. Closed(w.horizon)
      BY WatchAsItIs
    <3> QED BY <1>12, <3>1, <3>2 DEF Closed
  <2> QED BY <2>1, <2>2
<1>14. ASSUME w.from = "Initial", NEW r \in Committed,
              ~(w'.xid < r.xid \/ (w'.xid = r.xid /\ w'.id < r.id))
       PROVE  r.id \in sent'
  <2>1. CASE w.xid < r.xid \/ (w.xid = r.xid /\ w.id < r.id)
    <3>1. r \in log
      BY DEF Committed
    <3>2. Page # {}
      BY <1>2, <1>9, <1>14, <2>1
    <3>3. L \in Page /\ L \in log /\ L.xid < w.horizon /\ w'.xid = L.xid /\ w'.id = L.id
      BY <1>1, <1>2, <1>7, <1>9, <3>2
    <3>4. r.xid < L.xid \/ (r.xid = L.xid /\ r.id <= L.id)
      BY <1>12, <1>14, <3>1, <3>3
    <3>5. r \in Pending
      BY <1>12, <2>1, <3>1, <3>3, <3>4 DEF Pending, AfterCursor
    <3>6. r = L \/ Precedes(r, L)
      BY <1>12, <3>1, <3>3, <3>4 DEF Precedes, Rows
    <3>7. r \in Page
      BY <3>3, <3>5, <3>6, PageIsInitial
    <3> QED BY <1>8, <3>7
  <2>2. CASE ~(w.xid < r.xid \/ (w.xid = r.xid /\ w.id < r.id))
    BY <1>8, <1>14, <2>2, WatchAsItIs
  <2> QED BY <2>1, <2>2
<1>15. w.xid < w'.xid \/ (w.xid = w'.xid /\ w.id <= w'.id)
  <2>1. CASE Page = {}
    BY <1>2, <1>9, <1>12, <2>1
  <2>2. CASE Page # {}
    <3>1. AfterCursor(L) /\ L \in log /\ w'.xid = L.xid /\ w'.id = L.id
      BY <1>1, <1>2, <1>7, <1>9, <2>2
    <3> QED BY <1>12, <3>1 DEF AfterCursor
  <2> QED BY <2>1, <2>2
<1>16. Moves
  BY <1>4, <1>5, <1>6, <1>8, <1>9, <1>10, <1>11, <1>13, <1>14, WatchAsItIs DEF Moves
<1> QED BY <1>15, <1>16

\* Retention takes a row away that the cursor has passed.
LEMMA CleanupStep ==
  ASSUME WatchInv, Cleanup
  PROVE  WatchInv'
<1> USE DEF WatchInv
<1>1. /\ log' \subseteq log
      /\ objects' = objects /\ inflight' = inflight /\ nextXid' = nextXid /\ nextRV' = nextRV
      /\ nextId' = nextId /\ tx' = tx /\ lock' = lock /\ w' = w /\ client' = client /\ sent' = sent
  BY DEF Cleanup
<1>2. TypeOK' /\ Sessions' /\ Rows'
  <2>1. TypeOK'
    BY <1>1 DEF TypeOK
  <2>2. Sessions'
    BY <1>1 DEF Sessions
  <2>3. Rows'
    BY Zenon, <1>1 DEF Rows
  <2> QED BY <2>1, <2>2, <2>3
<1>3. Versions' /\ Unsent'
  BY Zenon, <1>1 DEF Versions, Settled, Unsent
<1>4. Cursor'
  <2>1. Committed' \subseteq Committed
    BY <1>1 DEF Committed
  <2> QED BY <1>1, <2>1 DEF Cursor, Closed, AfterCursor
<1> QED BY <1>2, <1>3, <1>4

-----------------------------------------------------------------------------
\* The invariant holds at the start.
LEMMA InitHolds ==
  ASSUME Init
  PROVE  WatchInv
<1>1. PICK a \in Key : objects = [k \in Key |-> IF k = a THEN 1 ELSE 0]
  BY Zenon DEF Init
<1>2. 0 \in RV /\ 1 \in RV /\ 0 \in 0 .. MaxXid /\ 1 \in 1 .. MaxXid /\ 0 \in 0 .. MaxXid + 1
  BY WatchAssumption DEF RV
<1>3. /\ Idle \in Tx /\ Idle.pc = "idle" /\ Idle.xid = 0 /\ Idle.rv = 0
      /\ \A t \in Txn : tx[t] = Idle
  <2>1. Idle \in Tx
    BY <1>2 DEF Idle, Tx
  <2>2. Idle.pc = "idle" /\ Idle.xid = 0 /\ Idle.rv = 0
    BY DEF Idle
  <2>3. \A t \in Txn : tx[t] = Idle
    BY Zenon DEF Init
  <2> QED BY <2>1, <2>2, <2>3
<1>4. \A r \in log : r = [id |-> 1, xid |-> 1, rv |-> 1, key |-> a, gone |-> FALSE]
  <2>1. log = { [id |-> 1, xid |-> 1, rv |-> 1, key |-> k, gone |-> FALSE] :
                  k \in { b \in Key : objects[b] = 1 } }
    BY Zenon DEF Init
  <2>2. { b \in Key : objects[b] = 1 } = {a}
    BY <1>1
  <2> QED BY <2>1, <2>2
<1>5. /\ w.pc = "off" /\ w.xid = 0 /\ w.rv = 0 /\ w.horizon = 0 /\ w.target = 0 /\ w.progress = 0
      /\ w.from = "Initial" /\ client.rv = 0 /\ client.bookmark = 0 /\ w \in Watch /\ client \in Client
  BY Zenon, <1>2 DEF Init, Watch, Client
<1>6. TypeOK
  <2>1. objects \in [Key -> RV] /\ tx \in [Txn -> Tx] /\ lock \in [Key -> Txn \cup {NoTxn}]
    BY Zenon, <1>1, <1>2, <1>3 DEF Init
  <2>2. log \subseteq Row
    <3>1. [id |-> 1, xid |-> 1, rv |-> 1, key |-> a, gone |-> FALSE] \in Row
      BY <1>2 DEF Row
    <3> QED BY Zenon, <1>4, <3>1
  <2>3. /\ nextXid \in 1 .. MaxXid + 1 /\ nextRV \in 1 .. MaxRV + 1 /\ nextId \in Nat
        /\ inflight \subseteq 1 .. nextXid - 1 /\ sent \subseteq Nat
    <3>1. inflight = {} /\ nextXid = 2 /\ nextRV = 2 /\ nextId = 2 /\ sent = {}
      BY Zenon DEF Init
    <3> QED BY <3>1, WatchAssumption
  <2>4. \A k \in Key : lock[k] = NoTxn
    BY Zenon DEF Init
  <2> QED BY <1>5, <2>1, <2>2, <2>3, <2>4 DEF TypeOK
<1>7. Sessions
  BY <1>3 DEF Sessions
<1>8. Rows /\ Unsent
  <2> DEFINE first == [id |-> 1, xid |-> 1, rv |-> 1, key |-> a, gone |-> FALSE]
  <2>1. first.id = 1 /\ first.xid = 1 /\ first.rv = 1 /\ \A r \in log : r = first
    BY <1>4
  <2> HIDE DEF first
  <2>2. nextId = 2 /\ nextXid = 2 /\ nextRV = 2 /\ sent = {} /\ inflight = {}
    BY Zenon DEF Init
  <2> QED BY <1>3, <2>1, <2>2 DEF Rows, Unsent
<1>9. Settled(0) /\ Settled(1)
  <2>1. nextRV = 2
    BY Zenon DEF Init
  <2> QED BY <1>3, <2>1 DEF Settled
<1>10. Versions
  BY <1>1, <1>5, <1>9 DEF Versions
<1>11. Cursor
  <2>1. nextXid = 2 /\ inflight = {}
    BY Zenon DEF Init
  <2> QED BY <1>5, <2>1 DEF Cursor, Closed
<1> QED BY <1>6, <1>7, <1>8, <1>10, <1>11 DEF WatchInv

\* Every step keeps the invariant.
LEMMA NextHolds ==
  ASSUME WatchInv, [Next]_vars
  PROVE  WatchInv'
<1>1. CASE UNCHANGED vars
  <2>1. Moves
    BY <1>1, WatchAsItIs DEF vars, dbVars, Moves, Closed, WatchInv
  <2> QED BY <2>1, MovesStep
<1>2. ASSUME NEW t \in Txn, Writer(t) PROVE WatchInv'
  <2>1. Goes(t) \/ Ends(t)
    BY <1>2, WriterForm DEF WatchInv
  <2> QED BY <2>1, GoesStep, EndsStep
<1>3. CASE OpenInitial
  BY <1>3, OpenInitialMoves, MovesStep
<1>4. CASE ListRows \/ OpenAt
  BY <1>4, ListMoves, MovesStep
<1>5. CASE PollChanges
  BY <1>5, PollMoves, MovesStep
<1>6. CASE \/ EndBookmark \/ ListVersion \/ Disconnect \/ ReadHorizon \/ TakeProgress
           \/ PollFails \/ RequestProgress \/ ProgressBookmark \/ PeriodicBookmark
  BY <1>6, StillMoves, MovesStep
<1>7. CASE Cleanup
  BY <1>7, CleanupStep
<1> QED BY <1>1, <1>2, <1>3, <1>4, <1>5, <1>6, <1>7 DEF Next, WatchStep, Writer

\* Every step of a writer, of the watch loop and of the changelog's cleanup, and
\* every abort and failed poll, keeps the inductive invariant.
THEOREM WatchInvAlways == Spec => []WatchInv
<1>1. Init => WatchInv
  BY InitHolds
<1>2. WatchInv /\ [Next]_vars => WatchInv'
  BY NextHolds
<1> QED BY <1>1, <1>2, PTL DEF Spec

\* The object table, the changelog, the transactions and the watch keep their
\* types, for any number of transactions and any bound on their ids.
THEOREM WatchTypeCorrect == Spec => []TypeOK
<1>1. WatchInv => TypeOK
  BY DEF WatchInv
<1> QED BY <1>1, WatchInvAlways, PTL

\* A watch with initial events skips no committed row: whatever commits after its
\* snapshot, in whatever order of ids, lies after the cursor until it is sent
\* (sendInitialEventList, pollChanges).
THEOREM InitialEventsLeaveNoGap == Spec => []NoGapAfterInitialEvents
<1>1. WatchInv => NoGapAfterInitialEvents
  BY DEF WatchInv, Cursor, NoGapAfterInitialEvents, NothingSkipped, Running
<1> QED BY <1>1, WatchInvAlways, PTL

\* No client is sent a row, or a bookmark at a version, of a transaction that may
\* still abort (the horizon of pollChanges, committedMaxResourceVersion).
THEOREM NothingUncommittedSent == Spec => []OnlyCommittedSent
<1>1. WatchInv => OnlyCommittedSent
  <2> SUFFICES ASSUME WatchInv, NEW t \in Txn
               PROVE  /\ \A r \in log : r.xid = tx[t].xid => r.id \notin sent
                      /\ tx[t].rv # 0 => client.bookmark # tx[t].rv
    BY DEF OnlyCommittedSent
  <2> USE DEF WatchInv
  <2>1. ASSUME NEW r \in log, r.xid = tx[t].xid PROVE r.id \notin sent
    <3>1. r.xid # 0
      BY WatchAssumption DEF TypeOK, Row
    <3>2. r.xid \in inflight
      BY <2>1, <3>1 DEF Sessions
    <3> QED BY <3>2 DEF Unsent
  <2>2. tx[t].rv # 0 => client.bookmark # tx[t].rv
    BY DEF Versions, Settled
  <2> QED BY <2>1, <2>2
<1> QED BY <1>1, WatchInvAlways, PTL

\* A running watch never moves its cursor back, so no poll returns to a row that
\* an earlier one has passed (pollChanges: each page begins after the cursor).
THEOREM CursorNeverGoesBack == Spec => CursorAdvances
<1> DEFINE Forward == Running /\ Running' => w.xid < w'.xid \/ (w.xid = w'.xid /\ w.id <= w'.id)
<1>1. WatchInv /\ [Next]_vars => [Forward]_vars
  <2> SUFFICES ASSUME WatchInv, Next, Running, Running'
               PROVE  w.xid < w'.xid \/ (w.xid = w'.xid /\ w.id <= w'.id)
    OBVIOUS
  <2>1. w.id \in Nat
    BY DEF WatchInv, TypeOK, Watch
  <2>2. ASSUME NEW t \in Txn, Writer(t) PROVE UNCHANGED w
    BY Zenon, <2>2, WriterForm DEF WatchInv, Goes, Ends
  <2>3. CASE PollChanges
    BY <2>3, PollMoves
  <2>4. CASE \/ EndBookmark \/ ListVersion \/ Disconnect \/ ReadHorizon \/ TakeProgress
             \/ PollFails \/ RequestProgress \/ ProgressBookmark \/ PeriodicBookmark
    BY <2>1, <2>4, StillMoves
  <2>5. CASE Cleanup
    BY <2>1, <2>5 DEF Cleanup
  <2>6. ~(OpenInitial \/ ListRows \/ OpenAt)
    BY DEF Running, OpenInitial, ListRows, OpenAt
  <2> QED BY <2>1, <2>2, <2>3, <2>4, <2>5, <2>6 DEF Next, WatchStep, Writer
<1> QED BY <1>1, WatchInvAlways, PTL DEF Spec, CursorAdvances
=============================================================================
