------------------------- MODULE SQLiteQueue_proofs -------------------------
(***************************************************************************)
(* Proofs about SQLiteQueue, for any sets of processes, sessions, groups   *)
(* and operators and any bound on the calls.                               *)
(*                                                                         *)
(* A call is good (CallOK) when what it has read still holds.  Only the    *)
(* step of a process changes its store and its call, and the table changes *)
(* only when no other process is in a transaction; so every step leaves    *)
(* the other processes' calls good (CallFramed, WriteKeeps), and each      *)
(* action has to show it of its own process only.                          *)
(***************************************************************************)
EXTENDS SQLiteQueue, TLAPS

(* The store of p holds session s, as not waiting in group g.              *)
Known(p, s, g) == memory[p][s] # None /\ ~Matches(memory[p][s], g)

(* A row that waits waits in its snapshot too, in the row's group.         *)
RowsOK ==
  \A s \in Session : IsWaiting(table[s]) =>
    table[s].snapshot = [waiting |-> TRUE, group |-> table[s].group]

(* What a transaction of p has read still holds.                           *)
TransactionOK(p) ==
  /\ \A q \in Process \ {p} : ~InTransaction(q)
  /\ call[p].marked \subseteq WaitingRows(call[p].group)
  /\ \A s \in call[p].marked : Known(p, s, call[p].group)
  /\ IF call[p].at = "scan"
     THEN call[p].session = None
     ELSE /\ call[p].session \in First(p)
          /\ memory[p][call[p].session] # None

(* What call p has read still holds.                                       *)
CallOK(p) ==
  /\ call[p].at = "insert" =>
       call[p].session \in Session /\ call[p].group \in Group /\ call[p].priority \in 0 .. 100
  /\ call[p].at = "begin" => call[p].session = None /\ call[p].marked = {}
  /\ call[p].at = "mark" =>
       \A s \in call[p].marked : table[s] # None /\ Known(p, s, call[p].group)
  /\ InTransaction(p) => TransactionOK(p)

(* The inductive invariant.                                                *)
IInv == TypeOK /\ RowsOK /\ \A p \in Process : CallOK(p)

-----------------------------------------------------------------------------
(* Frames.                                                                 *)

(* Saving a session in one process changes that store and the file, and    *)
(* both stay well typed.                                                   *)
LEMMA SaveTypes ==
  ASSUME TypeOK, NEW p \in Process, NEW s \in Session, NEW v \in View, Save(p, s, v)
  PROVE  /\ memory' \in [Process -> Store]
         /\ file' \in Store
         /\ \A q \in Process \ {p} : memory'[q] = memory[q]
         /\ memory'[p] = [memory[p] EXCEPT ![s] = v]
BY DEF TypeOK, Save, Store

(* A step that leaves call, store and table of process q alone leaves its  *)
(* call good, unless it begins a transaction beside q's.                   *)
LEMMA CallFramed ==
  ASSUME NEW q \in Process, CallOK(q),
         call'[q] = call[q], memory'[q] = memory[q], table' = table,
         InTransaction(q) => \A r \in Process \ {q} : ~InTransaction(r)'
  PROVE  CallOK(q)'
BY DEF CallOK, TransactionOK, InTransaction, Known, Matches, First, Remaining, WaitingRows, IsWaiting

(* A process without a call has a good one.                                *)
LEMMA NoCallOK ==
  ASSUME NEW p \in Process, call'[p] = NoCall
  PROVE  CallOK(p)'
BY DEF CallOK, InTransaction, NoCall

(* A step of a process without a call, on its own store and turn, keeps    *)
(* the invariant.                                                          *)
LEMMA SessionKeeps ==
  ASSUME IInv, NEW p \in Process, Free(p),
         memory' \in [Process -> Store], file' \in Store,
         \A q \in Process \ {p} : memory'[q] = memory[q],
         turn' \in [Process -> Turn \cup {None}],
         UNCHANGED <<table, call, calls>>
  PROVE  IInv'
<1>1. TypeOK' /\ RowsOK'
  BY DEF IInv, TypeOK, RowsOK, IsWaiting
<1>2. ASSUME NEW q \in Process PROVE CallOK(q)'
  <2>1. CASE q = p
    BY <2>1 DEF Free, CallOK, InTransaction
  <2>2. CASE q # p
    BY <2>2, CallFramed DEF IInv, CallOK, TransactionOK, InTransaction
  <2> QED
    BY <2>1, <2>2
<1> QED
  BY <1>1, <1>2 DEF IInv

(* A step that ends the call of p, whatever becomes of p's store, keeps    *)
(* the invariant if the table is left alone.                               *)
LEMMA EndKeeps ==
  ASSUME IInv, NEW p \in Process, Ends(p),
         memory' \in [Process -> Store], file' \in Store,
         \A q \in Process \ {p} : memory'[q] = memory[q],
         turn' \in [Process -> Turn \cup {None}],
         UNCHANGED <<table, calls>>
  PROVE  IInv'
<1>0. NoCall \in Call
  BY DEF NoCall, Call
<1>1. TypeOK' /\ RowsOK'
  BY <1>0 DEF IInv, TypeOK, RowsOK, IsWaiting, Ends
<1>2. ASSUME NEW q \in Process PROVE CallOK(q)'
  <2>1. CASE q = p
    BY <2>1, NoCallOK DEF Ends, IInv, TypeOK
  <2>2. CASE q # p
    <3>1. call'[q] = call[q]
      BY <2>2 DEF Ends, IInv, TypeOK
    <3>2. InTransaction(q) => \A r \in Process \ {q} : ~InTransaction(r)'
      BY DEF IInv, TypeOK, CallOK, TransactionOK, InTransaction, Ends, NoCall
    <3> QED
      BY <2>2, <3>1, <3>2, CallFramed DEF IInv
  <2> QED
    BY <2>1, <2>2
<1> QED
  BY <1>1, <1>2 DEF IInv

(* A step that ends the call of p and writes the table keeps the invariant *)
(* if no other process is in a transaction and the rows stay good.         *)
LEMMA WriteKeeps ==
  ASSUME IInv, NEW p \in Process, Ends(p),
         \A q \in Process \ {p} : ~InTransaction(q),
         table' \in [Session -> Row \cup {None}],
         \A s \in Session : table[s] # None => table'[s] # None,
         RowsOK',
         UNCHANGED <<memory, file, turn, calls>>
  PROVE  IInv'
<1>0. NoCall \in Call
  BY DEF NoCall, Call
<1>1. TypeOK'
  BY <1>0 DEF IInv, TypeOK, Ends
<1>2. ASSUME NEW q \in Process PROVE CallOK(q)'
  <2>1. CASE q = p
    BY <2>1, NoCallOK DEF Ends, IInv, TypeOK
  <2>2. CASE q # p
    <3>1. call'[q] = call[q] /\ call[q] \in Call
      BY <2>2 DEF Ends, IInv, TypeOK
    <3>2. call[q].marked \subseteq Session
      BY <3>1 DEF Call
    <3> QED
      BY <2>2, <3>1, <3>2 DEF IInv, CallOK, InTransaction, Known, Matches
  <2> QED
    BY <2>1, <2>2
<1> QED
  BY <1>1, <1>2 DEF IInv

(* A step that moves the call of p on and leaves the table alone keeps the *)
(* invariant if p's call is good after it and it begins no transaction     *)
(* beside another.                                                         *)
LEMMA MoveKeeps ==
  ASSUME IInv, NEW p \in Process, NEW c \in Call,
         call' = [call EXCEPT ![p] = c],
         c.at \in {"scan", "adopted", "taken"} => \A q \in Process \ {p} : ~InTransaction(q),
         CallOK(p)',
         memory' \in [Process -> Store], file' \in Store,
         \A q \in Process \ {p} : memory'[q] = memory[q],
         turn' \in [Process -> Turn \cup {None}],
         calls' \in 0 .. MaxCalls,
         UNCHANGED table
  PROVE  IInv'
<1>1. TypeOK' /\ RowsOK'
  BY DEF IInv, TypeOK, RowsOK, IsWaiting
<1>2. ASSUME NEW q \in Process \ {p} PROVE CallOK(q)'
  <2>1. call'[q] = call[q] /\ call'[p] = c
    BY DEF IInv, TypeOK
  <2>2. InTransaction(q) => \A r \in Process \ {q} : ~InTransaction(r)'
    BY <2>1 DEF IInv, TypeOK, CallOK, TransactionOK, InTransaction
  <2> QED
    BY <2>1, <2>2, CallFramed DEF IInv
<1> QED
  BY <1>1, <1>2 DEF IInv

-----------------------------------------------------------------------------
(* Rows.                                                                   *)

(* A waiting row that process p disputes is of a session p knows.          *)
LEMMA DisputedIsKnown ==
  ASSUME IInv, NEW p \in Process, NEW g \in Group \cup {None}, NEW s \in WaitingRows(g),
         Disputed(p, s, g)
  PROVE  Known(p, s, g)
<1>1. table[s] \in Row /\ IsWaiting(table[s]) /\ (g # None => table[s].group = g)
  BY DEF WaitingRows, IsWaiting, IInv, TypeOK
<1>2. Matches(table[s].snapshot, g)
  <2>1. table[s].snapshot = [waiting |-> TRUE, group |-> table[s].group]
    BY <1>1 DEF IInv, RowsOK, WaitingRows
  <2>2. table[s].snapshot.waiting /\ table[s].snapshot.group = table[s].group
    BY <2>1
  <2> QED
    BY <1>1, <2>2 DEF Matches
<1> QED
  BY <1>2 DEF Disputed, Resolved, Known

(* The session of a row, as a process resolves it, is well typed.          *)
LEMMA ResolvedType ==
  ASSUME TypeOK, NEW p \in Process, NEW s \in Session, table[s] # None
  PROVE  Resolved(p, s) \in View
BY DEF Resolved, TypeOK, Store, Row

(* Marking rows stale keeps the table well typed, loses no row and leaves  *)
(* the rows that still wait as they were.                                  *)
LEMMA StaledRows ==
  ASSUME IInv, NEW S \in SUBSET Session, \A s \in S : table[s] # None
  PROVE  /\ Staled(table, S) \in [Session -> Row \cup {None}]
         /\ \A s \in Session : table[s] # None => Staled(table, S)[s] # None
         /\ \A s \in Session : IsWaiting(Staled(table, S)[s])
                               <=> IsWaiting(table[s]) /\ s \notin S
         /\ \A s \in Session \ S : Staled(table, S)[s] = table[s]
         /\ \A s \in Session : table[s] # None => Staled(table, S)[s].operator = table[s].operator
<1>1. \A s \in Session : table[s] # None => table[s] \in Row
  BY DEF IInv, TypeOK
<1>2. \A s \in Session : table[s] # None => [table[s] EXCEPT !.status = "stale"] \in Row
  BY <1>1 DEF Row
<1>3. \A s \in S : /\ Staled(table, S)[s] = [table[s] EXCEPT !.status = "stale"]
                  /\ Staled(table, S)[s] \in Row
                  /\ Staled(table, S)[s].status = "stale"
                  /\ Staled(table, S)[s].operator = table[s].operator
  BY <1>1, <1>2 DEF Staled, Row
<1>4. \A s \in Session \ S : Staled(table, S)[s] = table[s]
  BY DEF Staled
<1>5. Staled(table, S) \in [Session -> Row \cup {None}]
  BY <1>1, <1>2 DEF Staled, IInv, TypeOK
<1> QED
  BY <1>3, <1>4, <1>5, NoneAssumption DEF IsWaiting

(* The table as the claim of session s by process p leaves it.             *)
CommittedTable(p, s) ==
  [Staled(table, call[p].marked) EXCEPT
     ![s].status = "claimed", ![s].operator = call[p].operator, ![s].snapshot = memory[p][s]]

(* It is well typed and loses no row; the row of s is claimed, the marked  *)
(* rows do not wait any more, and every row that does is as it was.        *)
LEMMA CommittedRows ==
  ASSUME IInv, NEW p \in Process, NEW s \in Session,
         call[p].marked \in SUBSET Session, \A x \in call[p].marked : table[x] # None,
         s \notin call[p].marked, table[s] \in Row, memory[p][s] \in View
  PROVE  LET new == CommittedTable(p, s) IN
         /\ new \in [Session -> Row \cup {None}]
         /\ \A x \in Session : table[x] # None => new[x] # None
         /\ \A x \in Session : IsWaiting(new[x]) => IsWaiting(table[x]) /\ new[x] = table[x]
         /\ \A x \in Session : IsWaiting(new[x])
                               <=> IsWaiting(table[x]) /\ x \notin call[p].marked \cup {s}
         /\ new[s].operator = call[p].operator
         /\ \A x \in Session \ {s} : table[x] # None => new[x].operator = table[x].operator
         /\ new[s] # None
<1> DEFINE S    == call[p].marked
           tb   == Staled(table, S)
           row  == [tb[s] EXCEPT !.status = "claimed", !.operator = call[p].operator,
                                 !.snapshot = memory[p][s]]
           new  == CommittedTable(p, s)
<1>1. /\ tb \in [Session -> Row \cup {None}]
      /\ \A x \in Session : table[x] # None => tb[x] # None
      /\ \A x \in Session : IsWaiting(tb[x]) <=> IsWaiting(table[x]) /\ x \notin S
      /\ \A x \in Session \ S : tb[x] = table[x]
      /\ \A x \in Session : table[x] # None => tb[x].operator = table[x].operator
  BY StaledRows
<1>2. tb[s] = table[s]
  BY <1>1
<1>3. call[p].operator \in Operator \cup {None}
  BY DEF IInv, TypeOK, Call
<1>4. row \in Row /\ row.status = "claimed" /\ row.operator = call[p].operator
  BY <1>2, <1>3 DEF Row
<1>5. new = [tb EXCEPT ![s] = row]
  BY <1>1 DEF CommittedTable
<1> HIDE DEF tb, row, new
<1>6. new[s] = row /\ \A x \in Session \ {s} : new[x] = tb[x]
  BY <1>1, <1>5
<1>7. ~IsWaiting(new[s])
  BY <1>4, <1>6 DEF IsWaiting
<1>8. new \in [Session -> Row \cup {None}]
  BY <1>1, <1>4, <1>5
<1>9. new[s] # None
  BY <1>4, <1>6, NoneAssumption
<1>10. \A x \in Session : IsWaiting(new[x]) <=> IsWaiting(table[x]) /\ x \notin S \cup {s}
  BY <1>1, <1>6, <1>7
<1>11. \A x \in Session : IsWaiting(new[x]) => IsWaiting(table[x]) /\ new[x] = table[x]
  BY <1>1, <1>6, <1>10
<1>12. \A x \in Session : table[x] # None => new[x] # None
  BY <1>1, <1>6, <1>9
<1> QED
  BY <1>1, <1>4, <1>6, <1>8, <1>9, <1>10, <1>11, <1>12 DEF new

(* The rows a transaction has marked, and the one it took, are waiting.    *)
LEMMA TransactionRows ==
  ASSUME IInv, NEW p \in Process, InTransaction(p)
  PROVE  /\ call[p] \in Call
         /\ \A q \in Process \ {p} : ~InTransaction(q)
         /\ call[p].marked \subseteq WaitingRows(call[p].group)
         /\ call[p].marked \in SUBSET Session
         /\ \A s \in call[p].marked : table[s] # None /\ Known(p, s, call[p].group)
         /\ call[p].at # "scan" => /\ call[p].session \in First(p)
                                   /\ call[p].session \in Remaining(p)
                                   /\ call[p].session \in Session
                                   /\ table[call[p].session] \in Row
                                   /\ memory[p][call[p].session] \in View
BY DEF IInv, TypeOK, CallOK, TransactionOK, WaitingRows, First, Remaining, IsWaiting, Call, Store

-----------------------------------------------------------------------------
(* The invariant.                                                          *)

(* In the initial state there is nothing to go wrong.                      *)
LEMMA InitIInv == Init => IInv
<1> SUFFICES ASSUME Init PROVE IInv
  OBVIOUS
<1>1. NoCall \in Call
  BY DEF NoCall, Call
<1>2. TypeOK
  BY <1>1, SQLiteAssumption DEF Init, TypeOK, Store
<1>3. RowsOK
  BY DEF Init, RowsOK, IsWaiting
<1>4. \A p \in Process : CallOK(p)
  BY DEF Init, CallOK, NoCall, InTransaction
<1> QED
  BY <1>2, <1>3, <1>4 DEF IInv

(* Everything the sessions' own handlers do keeps it.                      *)
LEMMA SessionStepKeeps ==
  ASSUME IInv, NEW p \in Process, SessionStep(p)
  PROVE  IInv'
<1> USE DEF IInv
<1>1. ASSUME NEW s \in Session, CreateSession(p, s) PROVE IInv'
  <2>1. NewView \in View
    BY SQLiteAssumption DEF NewView, View
  <2> QED
    BY <1>1, <2>1, SaveTypes, SessionKeeps DEF CreateSession, TypeOK
<1>2. ASSUME NEW s \in Session, BeginHandoff(p, s) PROVE IInv'
  <2>1. [session |-> s, view |-> memory[p][s], queued |-> FALSE] \in Turn
    BY <1>2 DEF BeginHandoff, Turn, TypeOK, Store
  <2> QED
    BY <1>2, <2>1, SessionKeeps DEF BeginHandoff, TypeOK
<1>3. ASSUME NEW s \in Session, Release(p, s) PROVE IInv'
  <2>1. [memory[p][s] EXCEPT !.waiting = FALSE] \in View
    <3>1. memory[p][s] \in View
      BY <1>3 DEF Release, TypeOK, Store
    <3> QED
      BY <3>1 DEF View
  <2> QED
    BY <1>3, <2>1, SaveTypes, SessionKeeps DEF Release, TypeOK
<1>4. ASSUME NEW s \in Session, NEW asks \in BOOLEAN, BeginTurn(p, s, asks) PROVE IInv'
  <2> DEFINE v == [memory[p][s] EXCEPT !.waiting = @ \/ asks]
  <2>1. v \in View
    <3>1. memory[p][s] \in View
      BY <1>4 DEF BeginTurn, TypeOK, Store
    <3> QED
      BY <3>1 DEF View
  <2>2. [session |-> s, view |-> v, queued |-> FALSE] \in Turn
    BY <2>1 DEF Turn
  <2>3. Save(p, s, v) /\ turn' = [turn EXCEPT ![p] = [session |-> s, view |-> v, queued |-> FALSE]]
    BY <1>4 DEF BeginTurn
  <2> HIDE DEF v
  <2>4. turn' \in [Process -> Turn \cup {None}]
    BY <2>2, <2>3 DEF TypeOK
  <2> QED
    BY <1>4, <2>1, <2>3, <2>4, SaveTypes, SessionKeeps DEF BeginTurn
<1>5. ASSUME SaveTurn(p) PROVE IInv'
  <2>1. turn[p].session \in Session /\ turn[p].view \in View
    BY <1>5 DEF SaveTurn, TypeOK, Turn
  <2>2. turn' \in [Process -> Turn \cup {None}]
    BY <1>5 DEF SaveTurn, TypeOK
  <2> QED
    BY <1>5, <2>1, <2>2, SaveTypes, SessionKeeps DEF SaveTurn
<1>6. ASSUME DropTurn(p) PROVE IInv'
  BY <1>6, SessionKeeps DEF DropTurn, TypeOK
<1> QED
  BY <1>1, <1>2, <1>3, <1>4, <1>5, <1>6 DEF SessionStep

(* Beginning a call keeps it.                                              *)
LEMMA NewCallKeeps ==
  ASSUME IInv, NEW p \in Process, NewCall(p)
  PROVE  IInv'
<1> USE DEF IInv
<1>0. calls' \in 0 .. MaxCalls
  <2>1. calls < MaxCalls /\ calls' = calls + 1
    BY DEF NewCall, Enqueue, ListRead, ClaimNext, Begins
  <2> QED
    BY <2>1, SQLiteAssumption DEF TypeOK
<1>1. ASSUME NEW a \in Ask, Enqueue(p, a) PROVE IInv'
  <2> DEFINE c == [NoCall EXCEPT !.at = "insert", !.session = turn[p].session,
                                 !.group = a.group, !.priority = a.priority]
             v == [waiting |-> TRUE, group |-> a.group]
  <2>1. a.group \in Group /\ a.priority \in 0 .. 100
    BY SQLiteAssumption
  <2>2. turn[p] \in Turn /\ turn[p].session \in Session
    BY <1>1 DEF Enqueue, TypeOK, Turn
  <2>3. c \in Call
    BY <2>1, <2>2 DEF NoCall, Call
  <2>4. v \in View
    BY <2>1 DEF View
  <2>5. turn' \in [Process -> Turn \cup {None}]
    <3>1. [turn[p] EXCEPT !.view = v, !.queued = TRUE] \in Turn
      BY <2>2, <2>4 DEF Turn
    <3> QED
      BY <1>1, <3>1 DEF Enqueue, TypeOK
  <2>6. call' = [call EXCEPT ![p] = c] /\ Save(p, turn[p].session, v)
    BY <1>1 DEF Enqueue, Begins
  <2>7. CallOK(p)'
    <3>1. call'[p] = c
      BY <2>6 DEF TypeOK
    <3> QED
      BY <2>1, <2>2, <3>1 DEF CallOK, InTransaction, NoCall
  <2>8. c.at = "insert" /\ table' = table
    BY <1>1 DEF NoCall, Enqueue
  <2> HIDE DEF c, v
  <2> QED
    BY <1>0, <2>2, <2>3, <2>4, <2>5, <2>6, <2>7, <2>8, SaveTypes, MoveKeeps
<1>2. ASSUME NEW g \in Group \cup {None}, ListRead(p, g) PROVE IInv'
  <2> DEFINE S == {s \in WaitingRows(g) : Disputed(p, s, g)}
             c == [NoCall EXCEPT !.at = "mark", !.group = g, !.marked = S]
  <2>1. S \subseteq Session
    BY DEF WaitingRows
  <2>2. \A s \in S : table[s] # None /\ Known(p, s, g)
    BY DisputedIsKnown DEF WaitingRows, IsWaiting
  <2>3. UNCHANGED <<memory, file, turn, table>> /\ call' = [call EXCEPT ![p] = c]
    BY <1>2 DEF ListRead, Begins
  <2> HIDE DEF S
  <2>4. c \in Call /\ c.at = "mark" /\ c.group = g /\ c.marked = S
    BY <2>1 DEF NoCall, Call
  <2> HIDE DEF c
  <2>5. CallOK(p)'
    <3>1. call'[p] = c
      BY <2>3 DEF TypeOK
    <3> QED
      BY <2>2, <2>3, <2>4, <3>1 DEF CallOK, InTransaction, Known, Matches
  <2> QED
    BY <1>0, <2>3, <2>4, <2>5, MoveKeeps DEF TypeOK
<1>3. ASSUME NEW g \in Group \cup {None}, NEW op \in Operator \cup {None}, ClaimNext(p, g, op)
      PROVE IInv'
  <2> DEFINE c == [NoCall EXCEPT !.at = "begin", !.group = g, !.operator = op]
  <2>1. c \in Call /\ c.at = "begin" /\ c.session = None /\ c.marked = {}
    BY DEF NoCall, Call
  <2>2. UNCHANGED <<memory, file, turn, table>> /\ call' = [call EXCEPT ![p] = c]
    BY <1>3 DEF ClaimNext, Begins
  <2> HIDE DEF c
  <2>3. CallOK(p)'
    <3>1. call'[p] = c
      BY <2>2 DEF TypeOK
    <3> QED
      BY <2>1, <3>1 DEF CallOK, InTransaction
  <2> QED
    BY <1>0, <2>1, <2>2, <2>3, MoveKeeps DEF TypeOK
<1> QED
  BY <1>1, <1>2, <1>3 DEF NewCall
(* Going on with a call, waiting for the lock in vain included, keeps it.  *)
LEMMA CallStepKeeps ==
  ASSUME IInv, NEW p \in Process, CallStep(p)
  PROVE  IInv'
<1> USE DEF IInv
<1>0. call[p] \in Call
  BY DEF TypeOK
<1>1. ASSUME InsertRow(p) PROVE IInv'
  <2> DEFINE s == call[p].session
             row == [status |-> "waiting", group |-> call[p].group,
                     priority |-> call[p].priority, operator |-> None,
                     snapshot |-> [waiting |-> TRUE, group |-> call[p].group]]
  <2>1. s \in Session /\ call[p].group \in Group /\ call[p].priority \in 0 .. 100
    BY <1>1 DEF InsertRow, CallOK
  <2>2. row \in Row
    BY <2>1 DEF Row, View
  <2>3. table' = [table EXCEPT ![s] = row]
    BY <1>1 DEF InsertRow
  <2>4. row.snapshot = [waiting |-> TRUE, group |-> row.group]
    OBVIOUS
  <2> HIDE DEF s, row
  <2>5. table' \in [Session -> Row \cup {None}]
    BY <2>1, <2>2, <2>3 DEF TypeOK
  <2>6. \A x \in Session : table[x] # None => table'[x] # None
    BY <2>1, <2>2, <2>3, NoneAssumption DEF TypeOK
  <2>7. RowsOK'
    BY <2>1, <2>3, <2>4 DEF TypeOK, RowsOK, IsWaiting
  <2> QED
    BY <1>1, <2>5, <2>6, <2>7, WriteKeeps DEF InsertRow, Unlocked
<1>2. ASSUME NEW S \in SUBSET Session, \A s \in S : table[s] # None,
             \A q \in Process \ {p} : ~InTransaction(q),
             table' = Staled(table, S), Ends(p), UNCHANGED <<memory, file, turn, calls>>
      PROVE  IInv'
  <2>1. RowsOK'
    BY <1>2, StaledRows DEF RowsOK
  <2> QED
    BY <1>2, <2>1, StaledRows, WriteKeeps
<1>3. ASSUME ListMark(p) PROVE IInv'
  <2>1. call[p].marked \in SUBSET Session
    BY <1>0 DEF Call
  <2>2. \A s \in call[p].marked : table[s] # None
    BY <1>3 DEF ListMark, CallOK
  <2> QED
    BY <1>2, <1>3, <2>1, <2>2 DEF ListMark, Unlocked
<1>4. ASSUME ClaimNone(p) PROVE IInv'
  BY <1>2, <1>4, TransactionRows DEF ClaimNone, InTransaction
<1>5. ASSUME BeginImmediate(p) PROVE IInv'
  <2> DEFINE c == [call[p] EXCEPT !.at = "scan"]
  <2>1. c \in Call /\ c.at = "scan" /\ c.session = None /\ c.marked = {}
    BY <1>0, <1>5 DEF Call, BeginImmediate, CallOK
  <2>2. call' = [call EXCEPT ![p] = c] /\ Unlocked /\ UNCHANGED <<memory, file, turn, table, calls>>
    BY <1>5 DEF BeginImmediate
  <2> HIDE DEF c
  <2>3. CallOK(p)'
    <3>1. call'[p] = c /\ \A q \in Process \ {p} : call'[q] = call[q]
      BY <2>2 DEF TypeOK
    <3> QED
      BY <2>1, <2>2, <3>1 DEF CallOK, TransactionOK, InTransaction, Unlocked
  <2> QED
    BY <2>1, <2>2, <2>3, MoveKeeps DEF TypeOK, Unlocked
<1>6. ASSUME Skip(p) PROVE IInv'
  <2>1. InTransaction(p)
    BY <1>6 DEF Skip, InTransaction
  <2>2. PICK s \in First(p) : /\ Disputed(p, s, call[p].group)
                              /\ call' = [call EXCEPT ![p].marked = @ \cup {s}]
    BY <1>6 DEF Skip
  <2> DEFINE c == [call[p] EXCEPT !.marked = @ \cup {s}]
  <2>3. s \in WaitingRows(call[p].group) /\ s \in Session
    BY DEF First, Remaining, WaitingRows
  <2>4. Known(p, s, call[p].group)
    BY <1>0, <2>2, <2>3, DisputedIsKnown DEF Call
  <2>5. c \in Call /\ c = [call[p] EXCEPT !.marked = @ \cup {s}]
    BY <1>0, <2>3 DEF Call
  <2>6. /\ c.at = "scan" /\ c.group = call[p].group
        /\ c.session = None /\ c.marked = call[p].marked \cup {s}
    BY <1>0, <1>6, <2>1 DEF Call, Skip, CallOK, TransactionOK
  <2>7. call' = [call EXCEPT ![p] = c] /\ UNCHANGED <<memory, file, turn, table, calls>>
    BY <1>6, <2>2 DEF Skip
  <2> HIDE DEF c
  <2>8. CallOK(p)'
    <3>1. call'[p] = c /\ \A q \in Process \ {p} : call'[q] = call[q]
      BY <2>7 DEF TypeOK
    <3>2. \A q \in Process \ {p} : ~InTransaction(q)'
      BY <2>1, <3>1, TransactionRows DEF InTransaction
    <3>3. (call[p].marked \subseteq WaitingRows(call[p].group))'
      BY <2>1, <2>3, <2>6, <2>7, <3>1, TransactionRows DEF WaitingRows, IsWaiting
    <3>4. (\A x \in call[p].marked : Known(p, x, call[p].group))'
      BY <2>1, <2>4, <2>6, <2>7, <3>1, TransactionRows DEF Known, Matches
    <3>5. TransactionOK(p)'
      BY <2>6, <3>1, <3>2, <3>3, <3>4 DEF TransactionOK
    <3> QED
      BY <2>6, <3>1, <3>5 DEF CallOK
  <2> QED
    BY <2>1, <2>5, <2>7, <2>8, TransactionRows, MoveKeeps DEF TypeOK
<1>7. ASSUME Adopt(p) PROVE IInv'
  <2>1. InTransaction(p)
    BY <1>7 DEF Adopt, InTransaction
  <2>2. PICK s \in First(p) :
          /\ Save(p, s, Resolved(p, s))
          /\ call' = [call EXCEPT ![p].at = "adopted", ![p].session = s]
    BY <1>7 DEF Adopt
  <2> DEFINE c == [call[p] EXCEPT !.at = "adopted", !.session = s]
  <2>3. s \in First(p) /\ s \in Remaining(p) /\ s \in Session /\ table[s] # None
    BY DEF First, Remaining, WaitingRows, IsWaiting
  <2>4. Resolved(p, s) \in View
    BY <2>3, ResolvedType
  <2>5. c \in Call
    BY <1>0, <2>3 DEF Call
  <2>6. c.at = "adopted" /\ c.session = s /\ c.group = call[p].group /\ c.marked = call[p].marked
    BY <1>0 DEF Call
  <2>7. call' = [call EXCEPT ![p] = c] /\ UNCHANGED <<turn, table, calls>>
    BY <1>7, <2>2 DEF Adopt, TypeOK
  <2> HIDE DEF c
  <2>8. /\ memory' \in [Process -> Store] /\ file' \in Store
        /\ \A q \in Process \ {p} : memory'[q] = memory[q]
        /\ memory'[p] = [memory[p] EXCEPT ![s] = Resolved(p, s)]
    BY <2>2, <2>3, <2>4, SaveTypes
  <2>9. CallOK(p)'
    <3>1. call'[p] = c /\ \A q \in Process \ {p} : call'[q] = call[q]
      BY <2>7 DEF TypeOK
    <3>2. \A q \in Process \ {p} : ~InTransaction(q)'
      BY <2>1, <3>1, TransactionRows DEF InTransaction
    <3>3. (call[p].marked \subseteq WaitingRows(call[p].group) /\ s \in WaitingRows(call[p].group))'
      BY <2>1, <2>3, <2>6, <2>7, <3>1, TransactionRows DEF WaitingRows, Remaining, IsWaiting
    <3>4. \A x \in c.marked : memory'[p][x] = memory[p][x]
      BY <2>1, <2>3, <2>6, <2>8, TransactionRows DEF Remaining, TypeOK, Store
    <3>5. (\A x \in call[p].marked : Known(p, x, call[p].group))'
      BY <2>1, <2>6, <3>1, <3>4, TransactionRows DEF Known, Matches
    <3>6. (s \in First(p))'
      BY <2>3, <2>6, <2>7, <3>1 DEF First, Remaining, WaitingRows, IsWaiting
    <3>7. memory'[p][s] # None
      BY <2>3, <2>4, <2>8, NoneAssumption DEF TypeOK, Store
    <3>8. TransactionOK(p)'
      BY <2>6, <3>1, <3>2, <3>3, <3>5, <3>6, <3>7 DEF TransactionOK
    <3> QED
      BY <2>6, <3>1, <3>8 DEF CallOK
  <2> QED
    BY <2>1, <2>5, <2>7, <2>8, <2>9, TransactionRows, MoveKeeps DEF TypeOK
<1>8. ASSUME Take(p) PROVE IInv'
  <2>1. InTransaction(p) /\ call[p].at = "adopted"
    BY <1>8 DEF Take, InTransaction
  <2>2. PICK s \in Session : /\ s = call[p].session
                             /\ s \in First(p) /\ s \in Remaining(p)
                             /\ memory[p][s] \in View
    BY <2>1, TransactionRows
  <2> DEFINE v == [memory[p][s] EXCEPT !.waiting = FALSE]
             c == [call[p] EXCEPT !.at = "taken"]
  <2>3. v \in View
    BY <2>2 DEF View
  <2>4. c \in Call
    BY <1>0 DEF Call
  <2>5. c.at = "taken" /\ c.session = s /\ c.group = call[p].group /\ c.marked = call[p].marked
    BY <1>0, <2>2 DEF Call
  <2>6. call' = [call EXCEPT ![p] = c] /\ Save(p, s, v) /\ UNCHANGED <<turn, table, calls>>
    BY <1>8, <2>2 DEF Take
  <2> HIDE DEF c, v
  <2>7. /\ memory' \in [Process -> Store] /\ file' \in Store
        /\ \A q \in Process \ {p} : memory'[q] = memory[q]
        /\ memory'[p] = [memory[p] EXCEPT ![s] = v]
    BY <2>2, <2>3, <2>6, SaveTypes
  <2>8. CallOK(p)'
    <3>1. call'[p] = c /\ \A q \in Process \ {p} : call'[q] = call[q]
      BY <2>6 DEF TypeOK
    <3>2. \A q \in Process \ {p} : ~InTransaction(q)'
      BY <2>1, <3>1, TransactionRows DEF InTransaction
    <3>3. (call[p].marked \subseteq WaitingRows(call[p].group) /\ s \in WaitingRows(call[p].group))'
      BY <2>1, <2>2, <2>5, <2>6, <3>1, TransactionRows DEF WaitingRows, Remaining, IsWaiting
    <3>4. \A x \in c.marked : memory'[p][x] = memory[p][x]
      BY <2>1, <2>2, <2>5, <2>7, TransactionRows DEF Remaining, TypeOK, Store
    <3>5. (\A x \in call[p].marked : Known(p, x, call[p].group))'
      BY <2>1, <2>5, <3>1, <3>4, TransactionRows DEF Known, Matches
    <3>6. (s \in First(p))'
      BY <2>2, <2>5, <2>6, <3>1 DEF First, Remaining, WaitingRows, IsWaiting
    <3>7. memory'[p][s] # None
      BY <2>2, <2>3, <2>7, NoneAssumption DEF TypeOK, Store
    <3>8. TransactionOK(p)'
      BY <2>5, <3>1, <3>2, <3>3, <3>5, <3>6, <3>7 DEF TransactionOK
    <3> QED
      BY <2>5, <3>1, <3>8 DEF CallOK
  <2> QED
    BY <2>1, <2>4, <2>6, <2>7, <2>8, TransactionRows, MoveKeeps DEF TypeOK
<1>9. ASSUME Commit(p) PROVE IInv'
  <2> DEFINE S == call[p].marked
  <2>1. PICK s \in Session : s = call[p].session /\ table[s] \in Row /\ memory[p][s] \in View
                             /\ s \in Remaining(p)
    BY <1>9, TransactionRows DEF Commit, InTransaction
  <2>2. S \in SUBSET Session /\ \A x \in S : table[x] # None
    BY <1>9, TransactionRows DEF Commit, InTransaction
  <2>3. \A q \in Process \ {p} : ~InTransaction(q)
    BY <1>9, TransactionRows DEF Commit, InTransaction
  <2>4. table' = CommittedTable(p, s)
    BY <1>9, <2>1 DEF Commit, CommittedTable
  <2>5. s \notin S
    BY <2>1 DEF Remaining
  <2>6. /\ table' \in [Session -> Row \cup {None}]
        /\ \A x \in Session : table[x] # None => table'[x] # None
        /\ \A x \in Session : IsWaiting(table'[x]) => IsWaiting(table[x]) /\ table'[x] = table[x]
    BY <1>0, <2>1, <2>2, <2>4, <2>5, CommittedRows
  <2>7. RowsOK'
    BY <2>6 DEF RowsOK
  <2> QED
    BY <1>9, <2>3, <2>6, <2>7, WriteKeeps DEF Commit
<1>10. ASSUME LockTimeout(p) PROVE IInv'
  BY <1>10, EndKeeps DEF LockTimeout, TypeOK
<1> QED
  BY <1>1, <1>3, <1>4, <1>5, <1>6, <1>7, <1>8, <1>9, <1>10 DEF CallStep

(* Every step keeps the invariant.                                         *)
LEMMA StepIInv ==
  ASSUME IInv, [Next]_vars
  PROVE  IInv'
<1>1. ASSUME NEW p \in Process, Rollback(p) PROVE IInv'
  BY <1>1, EndKeeps DEF Rollback, IInv, TypeOK
<1>2. ASSUME NEW p \in Process, Restart(p) PROVE IInv'
  <2>1. memory' \in [Process -> Store] /\ \A q \in Process \ {p} : memory'[q] = memory[q]
    BY <1>2 DEF Restart, IInv, TypeOK
  <2>2. turn' \in [Process -> Turn \cup {None}]
    BY <1>2 DEF Restart, IInv, TypeOK
  <2> QED
    BY <1>2, <2>1, <2>2, EndKeeps DEF Restart, Ends, IInv, TypeOK
<1>3. ASSUME UNCHANGED vars PROVE IInv'
  <2>1. TypeOK' /\ RowsOK'
    BY <1>3 DEF vars, IInv, TypeOK, RowsOK, IsWaiting
  <2>2. ASSUME NEW p \in Process PROVE CallOK(p)'
    BY <1>3, <2>2, CallFramed DEF vars, IInv, CallOK, TransactionOK, InTransaction
  <2> QED
    BY <2>1, <2>2 DEF IInv
<1> QED
  BY <1>1, <1>2, <1>3, SessionStepKeeps, NewCallKeeps, CallStepKeeps DEF Next

(* The inductive invariant always holds.                                   *)
THEOREM Invariant == Spec => []IInv
BY InitIInv, StepIInv, PTL DEF Spec

(* The variables are well typed, whatever the processes do and wherever    *)
(* they stop.                                                              *)
THEOREM Types == Spec => []TypeOK
<1>1. IInv => TypeOK
  BY DEF IInv
<1> QED
  BY <1>1, Invariant, PTL

(* One transaction at a time, and what it has read is what is committed.   *)
THEOREM Transactions == Spec => []TransactionIsCurrent
<1>1. IInv => TransactionIsCurrent
  BY DEF IInv, CallOK, TransactionOK, TransactionIsCurrent, InTransaction, Known, Disputed, Resolved
<1> QED
  BY <1>1, Invariant, PTL
-----------------------------------------------------------------------------
(* What a step does to the queue.                                          *)

(* Only four actions write the table.                                      *)
LEMMA WhoWrites ==
  ASSUME [Next]_vars, table' # table
  PROVE  \E p \in Process : InsertRow(p) \/ ListMark(p) \/ Commit(p) \/ ClaimNone(p)
BY DEF Next, SessionStep, NewCall, CallStep, CreateSession, BeginHandoff, Release, BeginTurn,
       SaveTurn, DropTurn, Enqueue, ListRead, ClaimNext, BeginImmediate, Skip, Adopt, Take,
       LockTimeout, Rollback, Restart, vars

(* An insert makes its session wait, without a holder, and nothing else.   *)
LEMMA InsertWrites ==
  ASSUME IInv, NEW p \in Process, InsertRow(p)
  PROVE  \E s \in Session : /\ Waiting' = Waiting \cup {s}
                            /\ Holder' = [Holder EXCEPT ![s] = None]
<1> DEFINE s   == call[p].session
           row == [status |-> "waiting", group |-> call[p].group,
                   priority |-> call[p].priority, operator |-> None,
                   snapshot |-> [waiting |-> TRUE, group |-> call[p].group]]
<1>1. s \in Session /\ call[p].group \in Group /\ call[p].priority \in 0 .. 100
  BY DEF InsertRow, CallOK, IInv
<1>2. row \in Row /\ row.status = "waiting" /\ row.operator = None
  BY <1>1 DEF Row, View
<1>3. table' = [table EXCEPT ![s] = row]
  BY DEF InsertRow
<1> HIDE DEF s, row
<1>4. table'[s] = row /\ \A x \in Session \ {s} : table'[x] = table[x]
  BY <1>1, <1>3 DEF IInv, TypeOK
<1>5. row # None
  BY <1>2, NoneAssumption
<1>6. Waiting' = Waiting \cup {s}
  BY <1>1, <1>2, <1>4, <1>5 DEF Waiting, IsWaiting
<1>7. Holder' = [Holder EXCEPT ![s] = None]
  BY <1>1, <1>2, <1>4, <1>5 DEF Holder
<1> QED
  BY <1>1, <1>6, <1>7

(* Marking rows stale takes them from the queue, and nothing else.         *)
LEMMA StaleWrites ==
  ASSUME IInv, NEW S \in SUBSET Session, \A s \in S : table[s] # None,
         table' = Staled(table, S)
  PROVE  Waiting' = Waiting \ S /\ Holder' = Holder
<1>1. Waiting' = Waiting \ S
  BY StaledRows DEF Waiting
<1>2. \A s \in Session : Holder'[s] = Holder[s]
  BY StaledRows DEF Holder, Staled
<1> QED
  BY <1>1, <1>2 DEF Holder

(* The rows a list call marks exist.                                       *)
LEMMA ListRows ==
  ASSUME IInv, NEW p \in Process, ListMark(p)
  PROVE  /\ call[p].marked \in SUBSET Session
         /\ \A s \in call[p].marked : table[s] # None /\ Known(p, s, call[p].group)
BY DEF ListMark, IInv, TypeOK, Call, CallOK

(* A commit hands out a waiting session and discards the marked ones.      *)
LEMMA CommitWrites ==
  ASSUME IInv, NEW p \in Process, Commit(p)
  PROVE  /\ call[p].session \in Waiting
         /\ call[p].operator \in Operator \cup {None}
         /\ Waiting' = Waiting \ (call[p].marked \cup {call[p].session})
         /\ Holder' = [Holder EXCEPT ![call[p].session] = call[p].operator]
<1>1. PICK s \in Session : s = call[p].session /\ table[s] \in Row /\ memory[p][s] \in View
                           /\ s \in Remaining(p)
  BY TransactionRows DEF Commit, InTransaction
<1>2. /\ call[p].marked \in SUBSET Session /\ \A x \in call[p].marked : table[x] # None
      /\ s \notin call[p].marked /\ s \in Waiting
  BY <1>1, TransactionRows DEF Commit, InTransaction, Remaining, WaitingRows, Waiting
<1>3. table' = CommittedTable(p, s)
  BY <1>1 DEF Commit, CommittedTable
<1>4. /\ \A x \in Session : IsWaiting(table'[x])
                            <=> IsWaiting(table[x]) /\ x \notin call[p].marked \cup {s}
      /\ table'[s].operator = call[p].operator /\ table'[s] # None
      /\ \A x \in Session \ {s} : table[x] # None => /\ table'[x].operator = table[x].operator
                                                    /\ table'[x] # None
  BY <1>1, <1>2, <1>3, CommittedRows
<1>5. \A x \in Session \ {s} : table[x] = None => table'[x] = None
  BY <1>1, <1>2, <1>3 DEF CommittedTable, Staled
<1>6. Waiting' = Waiting \ (call[p].marked \cup {s})
  BY <1>4 DEF Waiting
<1>7. Holder' = [Holder EXCEPT ![s] = call[p].operator]
  BY <1>1, <1>4, <1>5 DEF Holder
<1>8. call[p].operator \in Operator \cup {None}
  BY DEF IInv, TypeOK, Call
<1> QED
  BY <1>1, <1>2, <1>6, <1>7, <1>8

(* A claim that found nothing discards what it marked.                     *)
LEMMA NoneWrites ==
  ASSUME IInv, NEW p \in Process, ClaimNone(p)
  PROVE  /\ Waiting' = Waiting \ call[p].marked /\ Holder' = Holder
         /\ WaitingRows(call[p].group) \subseteq call[p].marked
         /\ \A s \in call[p].marked : Known(p, s, call[p].group)
BY TransactionRows, StaleWrites DEF ClaimNone, InTransaction, Remaining

-----------------------------------------------------------------------------
(* The table implements the abstract queue.                                *)

(* Every step of a process is a step of the queue or leaves it alone.      *)
LEMMA QueueSteps ==
  ASSUME IInv, [Next]_vars
  PROVE  [Queue!Next]_(Queue!vars)
<1> USE DEF Queue!Next, Queue!vars
<1>1. CASE table' = table
  BY <1>1 DEF Waiting, Holder
<1>2. ASSUME NEW p \in Process, InsertRow(p) PROVE Queue!Next
  BY <1>2, InsertWrites DEF Queue!Enqueue
<1>3. ASSUME NEW p \in Process, ListMark(p) PROVE Queue!Next
  <2>1. Waiting' = Waiting \ call[p].marked /\ Holder' = Holder
    BY <1>3, ListRows, StaleWrites DEF ListMark
  <2> QED
    BY <2>1 DEF Queue!Discard
<1>4. ASSUME NEW p \in Process, Commit(p) PROVE Queue!Next
  <2>1. call[p].session \in Session
    BY <1>4, CommitWrites DEF Waiting
  <2>2. Queue!Claim(call[p].session, call[p].operator)
    BY <1>4, CommitWrites DEF Queue!Claim
  <2> QED
    BY <1>4, <2>1, <2>2, CommitWrites
<1>5. ASSUME NEW p \in Process, ClaimNone(p) PROVE Queue!Next
  BY <1>5, NoneWrites DEF Queue!Discard
<1> QED
  BY <1>1, <1>2, <1>3, <1>4, <1>5, WhoWrites

(* The shared table, driven by any number of processes that crash, time    *)
(* out and disagree about the sessions, implements the claim queue.        *)
THEOREM Refinement == Spec => ImplementsClaimQueue
<1>1. Init => Queue!Init
  BY DEF Init, Queue!Init, Waiting, Holder, IsWaiting
<1>2. IInv /\ [Next]_vars => [Queue!Next]_(Queue!vars)
  BY QueueSteps
<1> QED
  BY <1>1, <1>2, Invariant, PTL DEF Spec, ImplementsClaimQueue, Queue!Spec
-----------------------------------------------------------------------------
(* The claim queue itself, with the table's rows: the waiting sessions are *)
(* sessions, nobody holds them, and every session has a holder's entry.    *)
QueueOK ==
  /\ Waiting \subseteq Session
  /\ Holder \in [Session -> Operator \cup {None}]
  /\ Queue!WaitingIsUnheld

LEMMA QueueStep ==
  ASSUME QueueOK, [Queue!Next]_(Queue!vars)
  PROVE  QueueOK'
<1> USE DEF QueueOK, Queue!WaitingIsUnheld
<1>1. ASSUME NEW s \in Session, Queue!Enqueue(s) PROVE QueueOK'
  BY <1>1 DEF Queue!Enqueue
<1>2. ASSUME NEW s \in Session, NEW op \in Operator \cup {None}, Queue!Claim(s, op)
      PROVE  QueueOK'
  BY <1>2 DEF Queue!Claim
<1>3. ASSUME Queue!Discard PROVE QueueOK'
  BY <1>3 DEF Queue!Discard
<1>4. ASSUME UNCHANGED Queue!vars PROVE QueueOK'
  BY <1>4 DEF Queue!vars
<1> QED
  BY <1>1, <1>2, <1>3, <1>4 DEF Queue!Next

LEMMA QueueInvariant == Queue!Spec => []QueueOK
<1>1. Queue!Init => QueueOK
  BY DEF Queue!Init, QueueOK, Queue!WaitingIsUnheld
<1> QED
  BY <1>1, QueueStep, PTL DEF Queue!Spec

(* No session is handed out again without an enqueue in between: so it is  *)
(* for every queue that keeps the promise of HandoffQueueBackend.          *)
THEOREM QueueHandsOutOnce == Queue!Spec => Queue!HandedOutOnce
<1>1. ASSUME QueueOK, [Queue!Next]_(Queue!vars), NEW s \in Session,
             Holder[s] # None, Holder'[s] # Holder[s]
      PROVE  Holder'[s] = None /\ s \in Waiting'
  <2>1. ASSUME NEW x \in Session, Queue!Enqueue(x) PROVE Holder'[s] = None /\ s \in Waiting'
    BY <1>1, <2>1 DEF Queue!Enqueue, QueueOK
  <2>2. ASSUME NEW x \in Session, NEW op \in Operator \cup {None}, Queue!Claim(x, op) PROVE FALSE
    BY <1>1, <2>2 DEF Queue!Claim, QueueOK, Queue!WaitingIsUnheld
  <2> QED
    BY <1>1, <2>1, <2>2 DEF Queue!Next, Queue!Discard, Queue!vars
<1>2. QueueOK /\ [Queue!Next]_(Queue!vars) =>
        [\A s \in Session : Holder[s] # None /\ Holder'[s] # Holder[s]
                              => Holder'[s] = None /\ s \in Waiting']_(Queue!vars)
  BY <1>1
<1> QED
  BY <1>2, QueueInvariant, PTL DEF Queue!Spec, Queue!HandedOutOnce

(* No row is handed out again without an enqueue in between.               *)
THEOREM HandedOutOncePerEnqueue == Spec => Queue!HandedOutOnce
  BY Refinement, QueueHandsOutOnce, PTL DEF ImplementsClaimQueue

-----------------------------------------------------------------------------
(* The action properties.                                                  *)

(* A session is handed out by the commit of its claim.                     *)
LEMMA HandsOutCommits ==
  ASSUME IInv, [Next]_vars, NEW p \in Process, NEW s \in Session, HandsOut(p, s)
  PROVE  Commit(p)
<1>1. InTransaction(p) /\ call[p].at = "taken" /\ table' # table
  BY DEF HandsOut, InTransaction
<1>2. \A q \in Process \ {p} : ~InTransaction(q)
  BY <1>1, TransactionRows
<1>3. PICK q \in Process : InsertRow(q) \/ ListMark(q) \/ Commit(q) \/ ClaimNone(q)
  BY <1>1, WhoWrites
<1> QED
  BY <1>1, <1>2, <1>3 DEF InsertRow, ListMark, Commit, ClaimNone, Unlocked, InTransaction

(* A waiting row is lost only to a process that knows the session as one   *)
(* that does not wait in the group it asked for.                           *)
THEOREM DiscardsAreDisagreements == Spec => DiscardedOnlyByDisagreement
<1> DEFINE D(s) == \E p \in Process :
                     /\ call'[p] # call[p]
                     /\ \/ HandsOut(p, s)
                        \/ memory[p][s] # None /\ ~Matches(memory[p][s], call[p].group)
<1>1. ASSUME IInv, [Next]_vars, NEW s \in Waiting, s \notin Waiting'
      PROVE  D(s)
  <2>0. s \in Session /\ table' # table
    BY <1>1 DEF Waiting
  <2>1. ASSUME NEW p \in Process, InsertRow(p) PROVE FALSE
    BY <1>1, <2>1, InsertWrites
  <2>2. ASSUME NEW p \in Process, Ends(p), call[p].at # "idle" PROVE call'[p] # call[p]
    BY <1>1, <2>2 DEF Ends, IInv, TypeOK, NoCall
  <2>3. ASSUME NEW p \in Process, ListMark(p) PROVE D(s)
    <3>1. s \in call[p].marked
      BY <1>1, <2>3, ListRows, StaleWrites DEF ListMark
    <3> QED
      BY <1>1, <2>2, <2>3, <3>1, ListRows DEF ListMark, Known
  <2>4. ASSUME NEW p \in Process, ClaimNone(p) PROVE D(s)
    <3>1. s \in call[p].marked
      BY <1>1, <2>4, NoneWrites
    <3> QED
      BY <1>1, <2>2, <2>4, <3>1, NoneWrites DEF ClaimNone, Known
  <2>5. ASSUME NEW p \in Process, Commit(p) PROVE D(s)
    <3>1. s \in call[p].marked \cup {call[p].session}
      BY <1>1, <2>5, CommitWrites
    <3>2. call'[p] # call[p] /\ call[p].at = "taken" /\ call'[p].at = "idle"
      BY <1>1, <2>2, <2>5 DEF Commit, Ends, IInv, TypeOK, NoCall
    <3>3. CASE s \in call[p].marked
      BY <1>1, <2>5, <3>2, <3>3, TransactionRows DEF Known, InTransaction
    <3>4. CASE s = call[p].session
      <4>1. table'[s] # table[s]
        BY <1>1 DEF Waiting
      <4> QED
        BY <3>2, <3>4, <4>1 DEF HandsOut
    <3> QED
      BY <3>1, <3>3, <3>4
  <2> QED
    BY <1>1, <2>0, <2>1, <2>3, <2>4, <2>5, WhoWrites
<1>2. IInv /\ [Next]_vars =>
        [\A s \in Waiting : s \notin Waiting' =>
           \E p \in Process :
             /\ call'[p] # call[p]
             /\ \/ HandsOut(p, s)
                \/ /\ memory[p][s] # None
                   /\ ~Matches(memory[p][s], call[p].group)]_vars
  BY <1>1
<1> QED
  BY <1>2, Invariant, PTL DEF Spec, DiscardedOnlyByDisagreement
(* A claim hands out the first row its process does not dispute.           *)
THEOREM HandsOutInOrder == Spec => HandedOutInOrder
<1>1. ASSUME IInv, [Next]_vars, NEW p \in Process, NEW s \in Session, NEW w \in Session,
             HandsOut(p, s), w \in WaitingRows(call[p].group),
             table[w].priority > table[s].priority
      PROVE  Disputed(p, w, call[p].group) /\ w \notin Waiting'
  <2>1. Commit(p) /\ call[p].session = s
    BY <1>1, HandsOutCommits DEF HandsOut
  <2>2. s \in First(p)
    BY <1>1, <2>1, TransactionRows DEF Commit, InTransaction
  <2>3. table[s] \in Row /\ table[w] \in Row
    BY <1>1, <2>2 DEF First, Remaining, WaitingRows, IsWaiting, IInv, TypeOK
  <2>4. table[s].priority \in Int /\ table[w].priority \in Int
    BY <2>3 DEF Row
  <2>5. w \notin Remaining(p)
    BY <1>1, <2>2, <2>4 DEF First
  <2>6. w \in call[p].marked
    BY <1>1, <2>5 DEF Remaining
  <2>7. Disputed(p, w, call[p].group)
    BY <1>1, <2>1, <2>6, TransactionRows DEF Commit, InTransaction, Known, Disputed, Resolved
  <2> QED
    BY <1>1, <2>1, <2>6, <2>7, CommitWrites
<1>2. IInv /\ [Next]_vars =>
        [\A p \in Process, s, w \in Session :
           /\ HandsOut(p, s)
           /\ w \in WaitingRows(call[p].group)
           /\ table[w].priority > table[s].priority
           => Disputed(p, w, call[p].group) /\ w \notin Waiting']_vars
  BY <1>1
<1> QED
  BY <1>2, Invariant, PTL DEF Spec, HandedOutInOrder

(* A claim that answers null leaves nobody waiting in its group.           *)
THEOREM NullIsFinal == Spec => NullLeavesNobody
<1>1. ASSUME IInv, [Next]_vars, NEW p \in Process, AnswersNull(p)
      PROVE  WaitingRows(call[p].group) \cap Waiting' = {}
  <2>1. InTransaction(p) /\ call[p].at = "scan" /\ table' # table
    BY <1>1 DEF AnswersNull, InTransaction
  <2>2. \A q \in Process \ {p} : ~InTransaction(q)
    BY <1>1, <2>1, TransactionRows
  <2>3. PICK q \in Process : InsertRow(q) \/ ListMark(q) \/ Commit(q) \/ ClaimNone(q)
    BY <1>1, <2>1, WhoWrites
  <2>4. ClaimNone(p)
    BY <2>1, <2>2, <2>3 DEF InsertRow, ListMark, Commit, ClaimNone, Unlocked, InTransaction
  <2> QED
    BY <1>1, <2>4, NoneWrites
<1>2. IInv /\ [Next]_vars =>
        [\A p \in Process : AnswersNull(p)
           => WaitingRows(call[p].group) \cap Waiting' = {}]_vars
  BY <1>1
<1> QED
  BY <1>2, Invariant, PTL DEF Spec, NullLeavesNobody
=============================================================================
