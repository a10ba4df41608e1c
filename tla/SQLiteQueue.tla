---------------------------- MODULE SQLiteQueue ----------------------------
(***************************************************************************)
(* The handoff queue for several processes: SQLiteHandoffQueueBackend.     *)
(*                                                                         *)
(* The processes share one table, a row per session that was ever          *)
(* enqueued.  They do not share their sessions: each has a store in memory *)
(* and writes all of it to the one file sessions.json at every save, so    *)
(* the file is the store of whoever saved last.  A process loads it when   *)
(* it starts, and never again.                                             *)
(*                                                                         *)
(* A call of the queue does not await: it holds its process until it ends, *)
(* and everything else that process does waits.  Processes interleave at   *)
(* every statement.  A writer of the table holds SQLite's one write lock   *)
(* from BEGIN IMMEDIATE, or its first UPDATE or INSERT, to the commit; the *)
(* others wait for it, ten seconds at most, and readers see what was       *)
(* committed last.                                                         *)
(*                                                                         *)
(* Of a session the model keeps what the queue reads (View).  The time of  *)
(* enqueueing is left out: rows of equal priority come in any order.       *)
(***************************************************************************)
EXTENDS Integers

CONSTANTS
  Process,     \* processes that share a storage_root
  Session,     \* session ids
  Group,       \* skill groups
  Ask,         \* the pairs of group and priority that create_package resolves
  Operator,    \* operator ids
  None,        \* Python's None
  MaxCalls     \* bound: enqueue, list and claim calls in a behaviour

ASSUME SQLiteAssumption ==
  /\ "general" \in Group
  /\ Ask \subseteq [group : Group, priority : 0 .. 100]
  /\ MaxCalls \in Nat
  /\ None \notin Session \cup Operator
  /\ None \notin Group
  /\ None \notin 0 .. 100

VARIABLES
  memory,   \* memory[p][s]: session s in the store of process p, or None
  file,     \* sessions.json
  turn,     \* turn[p]: a suspended handler of p, its session and copy, and
            \* whether it has enqueued it; or None
  table,    \* table[s]: the committed row of s, or None
  call,     \* call[p]: the queue call p is in
  calls     \* how many calls were made

vars == <<memory, file, turn, table, call, calls>>

-----------------------------------------------------------------------------
View == [waiting : BOOLEAN, group : Group]

NewView == [waiting |-> FALSE, group |-> "general"]

Store == [Session -> View \cup {None}]

Row == [status   : {"waiting", "claimed", "stale"},
        group    : Group,
        priority : 0 .. 100,
        operator : Operator \cup {None},
        snapshot : View]

(* A call: the statement it is about to make, its arguments, the session   *)
(* it works on, and the rows it marks stale.                               *)
Call == [at       : {"idle", "insert", "begin", "scan", "adopted", "taken", "mark"},
         group    : Group \cup {None},
         priority : (0 .. 100) \cup {None},
         operator : Operator \cup {None},
         session  : Session \cup {None},
         marked   : SUBSET Session]

NoCall == [at |-> "idle", group |-> None, priority |-> None,
           operator |-> None, session |-> None, marked |-> {}]

Turn == [session : Session, view : View, queued : BOOLEAN]

ASSUME NoneAssumption == None \notin View \cup Row

Init ==
  /\ memory = [p \in Process |-> [s \in Session |-> None]]
  /\ file = [s \in Session |-> None]
  /\ turn = [p \in Process |-> None]
  /\ table = [s \in Session |-> None]
  /\ call = [p \in Process |-> NoCall]
  /\ calls = 0

(* No queue call holds process p.                                          *)
Free(p) == call[p].at = "idle"

(* Process p is in the transaction of a claim.                             *)
InTransaction(p) == call[p].at \in {"scan", "adopted", "taken"}

Unlocked == \A p \in Process : ~InTransaction(p)

IsWaiting(row) == row # None /\ row.status = "waiting"

(* _waiting_rows: the committed waiting rows of group g; None is all.      *)
WaitingRows(g) ==
  {s \in Session : IsWaiting(table[s]) /\ (g # None => table[s].group = g)}

(* _matches_waiting_queue.                                                 *)
Matches(v, g) == v.waiting /\ (g # None => v.group = g)

(* The session of a row as process p sees it: its own, or the snapshot.    *)
Resolved(p, s) == IF memory[p][s] = None THEN table[s].snapshot ELSE memory[p][s]

(* _resolve_waiting_session gives None.                                    *)
Disputed(p, s, g) == ~Matches(Resolved(p, s), g)

(* What the open transaction of p still has to look at.                    *)
Remaining(p) == WaitingRows(call[p].group) \ call[p].marked

(* Fault: the rows come in any order.                                      *)
FirstOfAny(p) == Remaining(p)

(* _first_waiting_row: the first by priority.                              *)
First(p) ==
  {s \in Remaining(p) : \A w \in Remaining(p) : table[s].priority >= table[w].priority}

-----------------------------------------------------------------------------
(* The session stores.                                                     *)

(* Process p saves session s as v: its store, and with it the file.        *)
Save(p, s, v) ==
  LET store == [memory[p] EXCEPT ![s] = v]
  IN  memory' = [memory EXCEPT ![p] = store] /\ file' = store

(* The id is new: no process, file or row knows it.                        *)
Fresh(s) ==
  /\ \A p \in Process : memory[p][s] = None
  /\ file[s] = None
  /\ table[s] = None

CreateSession(p, s) ==
  /\ Free(p)
  /\ Fresh(s)
  /\ Save(p, s, NewView)
  /\ UNCHANGED <<turn, table, call, calls>>

(* A handler reads a session, asks for a human on it (feedback) or not,    *)
(* saves it and suspends at an await.                                      *)
BeginTurn(p, s, asks) ==
  /\ Free(p)
  /\ turn[p] = None
  /\ memory[p][s] # None
  /\ LET v == [memory[p][s] EXCEPT !.waiting = @ \/ asks]
     IN  /\ Save(p, s, v)
         /\ turn' = [turn EXCEPT ![p] = [session |-> s, view |-> v, queued |-> FALSE]]
  /\ UNCHANGED <<table, call, calls>>

(* POST /chat/handoff reads a session, saves nothing and suspends.         *)
BeginHandoff(p, s) ==
  /\ Free(p)
  /\ turn[p] = None
  /\ memory[p][s] # None
  /\ turn' = [turn EXCEPT ![p] = [session |-> s, view |-> memory[p][s], queued |-> FALSE]]
  /\ UNCHANGED <<memory, file, table, call, calls>>

(* The handler resumes and saves its copy: with the route, and suspends    *)
(* again, or with the answer, and ends.                                    *)
SaveTurn(p) ==
  /\ Free(p)
  /\ turn[p] # None
  /\ Save(p, turn[p].session, turn[p].view)
  /\ turn' \in {turn, [turn EXCEPT ![p] = None]}
  /\ UNCHANGED <<table, call, calls>>

(* The handler raises, or ends with nothing to save.                       *)
DropTurn(p) ==
  /\ Free(p)
  /\ turn[p] # None
  /\ turn' = [turn EXCEPT ![p] = None]
  /\ UNCHANGED <<memory, file, table, call, calls>>

(* claim-human, a human reply, close: the session no longer waits.  The    *)
(* queue is not told.                                                      *)
Release(p, s) ==
  /\ Free(p)
  /\ memory[p][s] # None
  /\ Save(p, s, [memory[p][s] EXCEPT !.waiting = FALSE])
  /\ UNCHANGED <<turn, table, call, calls>>

(* Process p dies and starts again.  SQLite rolls its transaction back.    *)
Restart(p) ==
  /\ memory' = [memory EXCEPT ![p] = file]
  /\ turn' = [turn EXCEPT ![p] = None]
  /\ call' = [call EXCEPT ![p] = NoCall]
  /\ UNCHANGED <<file, table, calls>>

-----------------------------------------------------------------------------
(* enqueue.                                                                *)

Begins(p, c) ==
  /\ Free(p)
  /\ calls < MaxCalls
  /\ calls' = calls + 1
  /\ call' = [call EXCEPT ![p] = c]

Ends(p) == call' = [call EXCEPT ![p] = NoCall]

(* The suspended handler resumes in create_package: the session is saved   *)
(* as waiting, and the row comes after.                                    *)
Enqueue(p, a) ==
  /\ turn[p] # None
  /\ ~turn[p].queued
  /\ Begins(p, [NoCall EXCEPT !.at = "insert", !.session = turn[p].session,
                              !.group = a.group, !.priority = a.priority])
  /\ LET v == [waiting |-> TRUE, group |-> a.group]
     IN  /\ Save(p, turn[p].session, v)
         /\ turn' = [turn EXCEPT ![p].view = v, ![p].queued = TRUE]
  /\ UNCHANGED table

(* Fault: a row that is there already is left as it is.                    *)
InsertOrIgnore(p) ==
  /\ call[p].at = "insert"
  /\ Unlocked
  /\ LET s == call[p].session
     IN  table' = [table EXCEPT ![s] =
           IF @ # None THEN [@ EXCEPT !.status = "waiting"] ELSE
           [status |-> "waiting", group |-> call[p].group, priority |-> call[p].priority,
            operator |-> None, snapshot |-> [waiting |-> TRUE, group |-> call[p].group]]]
  /\ Ends(p)
  /\ UNCHANGED <<memory, file, turn, calls>>

(* INSERT ... ON CONFLICT DO UPDATE, committed: whatever the row was, it   *)
(* waits now.                                                              *)
InsertRow(p) ==
  /\ call[p].at = "insert"
  /\ Unlocked
  /\ table' = [table EXCEPT ![call[p].session] =
       [status   |-> "waiting",
        group    |-> call[p].group,
        priority |-> call[p].priority,
        operator |-> None,
        snapshot |-> [waiting |-> TRUE, group |-> call[p].group]]]
  /\ Ends(p)
  /\ UNCHANGED <<memory, file, turn, calls>>

-----------------------------------------------------------------------------
(* list_waiting.                                                           *)

Staled(tb, S) == [s \in Session |-> IF s \in S THEN [tb[s] EXCEPT !.status = "stale"]
                                                ELSE tb[s]]

(* Fault: all rows are read, and the group is looked at afterwards.        *)
ListReadUnfiltered(p, g) ==
  LET disputed == {s \in WaitingRows(None) : Disputed(p, s, g)}
  IN  /\ disputed # {}
      /\ Begins(p, [NoCall EXCEPT !.at = "mark", !.group = g, !.marked = disputed])
      /\ UNCHANGED <<memory, file, turn, table>>

(* The rows are read, without a lock, and resolved.  With no disputed row  *)
(* nothing more happens.                                                   *)
ListRead(p, g) ==
  LET disputed == {s \in WaitingRows(g) : Disputed(p, s, g)}
  IN  /\ disputed # {}
      /\ Begins(p, [NoCall EXCEPT !.at = "mark", !.group = g, !.marked = disputed])
      /\ UNCHANGED <<memory, file, turn, table>>

(* The disputed rows are marked stale, whatever they are by now.           *)
ListMark(p) ==
  /\ call[p].at = "mark"
  /\ Unlocked
  /\ table' = Staled(table, call[p].marked)
  /\ Ends(p)
  /\ UNCHANGED <<memory, file, turn, calls>>

-----------------------------------------------------------------------------
(* claim_next.                                                             *)

ClaimNext(p, g, op) ==
  /\ Begins(p, [NoCall EXCEPT !.at = "begin", !.group = g, !.operator = op])
  /\ UNCHANGED <<memory, file, turn, table>>

(* BEGIN IMMEDIATE.                                                        *)
BeginImmediate(p) ==
  /\ call[p].at = "begin"
  /\ Unlocked
  /\ call' = [call EXCEPT ![p].at = "scan"]
  /\ UNCHANGED <<memory, file, turn, table, calls>>

(* Fault: a disputed row is passed over and found again.                   *)
SkipUnmarked(p) ==
  /\ call[p].at = "scan"
  /\ \E s \in First(p) : Disputed(p, s, call[p].group)
  /\ UNCHANGED vars

(* Fault: the claim gives up at the first disputed row.                    *)
SkipAndEnd(p) ==
  /\ call[p].at = "scan"
  /\ \E s \in First(p) :
       /\ Disputed(p, s, call[p].group)
       /\ table' = Staled(table, {s})
  /\ Ends(p)
  /\ UNCHANGED <<memory, file, turn, calls>>

(* The first row is disputed: it is marked stale and the next one read.    *)
Skip(p) ==
  /\ call[p].at = "scan"
  /\ \E s \in First(p) :
       /\ Disputed(p, s, call[p].group)
       /\ call' = [call EXCEPT ![p].marked = @ \cup {s}]
  /\ UNCHANGED <<memory, file, turn, table, calls>>

(* The first row is good: its session is saved in the claiming process.    *)
Adopt(p) ==
  /\ call[p].at = "scan"
  /\ \E s \in First(p) :
       /\ ~Disputed(p, s, call[p].group)
       /\ Save(p, s, Resolved(p, s))
       /\ call' = [call EXCEPT ![p].at = "adopted", ![p].session = s]
  /\ UNCHANGED <<turn, table, calls>>

(* SessionService.claim_human, in the claiming process.                    *)
Take(p) ==
  /\ call[p].at = "adopted"
  /\ LET s == call[p].session
     IN  Save(p, s, [memory[p][s] EXCEPT !.waiting = FALSE])
  /\ call' = [call EXCEPT ![p].at = "taken"]
  /\ UNCHANGED <<turn, table, calls>>

(* The row is updated and the transaction committed, marks included.       *)
Commit(p) ==
  /\ call[p].at = "taken"
  /\ LET s == call[p].session
     IN  table' = [Staled(table, call[p].marked) EXCEPT
                     ![s].status   = "claimed",
                     ![s].operator = call[p].operator,
                     ![s].snapshot = memory[p][s]]
  /\ Ends(p)
  /\ UNCHANGED <<memory, file, turn, calls>>

(* No row is left: the marks are committed and the answer is null.         *)
ClaimNone(p) ==
  /\ call[p].at = "scan"
  /\ Remaining(p) = {}
  /\ table' = Staled(table, call[p].marked)
  /\ Ends(p)
  /\ UNCHANGED <<memory, file, turn, calls>>

(* ROLLBACK: the table is as before the call, the sessions are not.        *)
Rollback(p) ==
  /\ InTransaction(p)
  /\ Ends(p)
  /\ UNCHANGED <<memory, file, turn, table, calls>>

(* The lock did not come in ten seconds.  An enqueue takes its handler     *)
(* with it.                                                                *)
LockTimeout(p) ==
  /\ call[p].at \in {"insert", "begin", "mark"}
  /\ Ends(p)
  /\ turn' = [turn EXCEPT ![p] = IF call[p].at = "insert" THEN None ELSE @]
  /\ UNCHANGED <<memory, file, table, calls>>

-----------------------------------------------------------------------------
SessionStep(p) ==
  \/ \E s \in Session : CreateSession(p, s) \/ BeginHandoff(p, s) \/ Release(p, s)
  \/ \E s \in Session, asks \in BOOLEAN : BeginTurn(p, s, asks)
  \/ SaveTurn(p)
  \/ DropTurn(p)

NewCall(p) ==
  \/ \E a \in Ask : Enqueue(p, a)
  \/ \E g \in Group \cup {None} : ListRead(p, g)
  \/ \E g \in Group \cup {None}, op \in Operator \cup {None} : ClaimNext(p, g, op)

CallStep(p) ==
  \/ InsertRow(p) \/ ListMark(p)
  \/ BeginImmediate(p) \/ Skip(p) \/ Adopt(p) \/ Take(p)
  \/ Commit(p) \/ ClaimNone(p)
  \/ LockTimeout(p)

Next ==
  \E p \in Process : SessionStep(p) \/ NewCall(p) \/ CallStep(p)
                     \/ Rollback(p) \/ Restart(p)

Spec == Init /\ [][Next]_vars

(* A call runs on: nothing in it waits but for the lock, and for that ten  *)
(* seconds at most.                                                        *)
FairSpec == Spec /\ \A p \in Process : WF_vars(CallStep(p))

-----------------------------------------------------------------------------
(* Properties.                                                             *)

(* The types of the variables.                                             *)
TypeOK ==
  /\ memory \in [Process -> Store]
  /\ file \in Store
  /\ turn \in [Process -> Turn \cup {None}]
  /\ table \in [Session -> Row \cup {None}]
  /\ call \in [Process -> Call]
  /\ calls \in 0 .. MaxCalls

(* The rows as the abstract queue sees them.                               *)
Waiting == {s \in Session : IsWaiting(table[s])}

Holder == [s \in Session |-> IF table[s] = None THEN None ELSE table[s].operator]

Queue == INSTANCE ClaimQueue WITH waiting <- Waiting, holder <- Holder

(* The table is a claim queue: whatever the processes do, and wherever one *)
(* of them stops, a session is handed out at most once for each time it    *)
(* was enqueued, and only while it waits (docs/interview-playbook.md:99).  *)
ImplementsClaimQueue == Queue!Spec

(* What the open transaction of process p has read is what is committed:   *)
(* nobody else is in one, the rows it marked still wait in the table and   *)
(* its process still disputes them, and the row it took is still the first *)
(* of the others.                                                          *)
TransactionIsCurrent ==
  \A p \in Process : InTransaction(p) =>
    /\ \A q \in Process \ {p} : ~InTransaction(q)
    /\ call[p].marked \subseteq WaitingRows(call[p].group)
    /\ \A s \in call[p].marked : Disputed(p, s, call[p].group)
    /\ IF call[p].at = "scan"
       THEN call[p].session = None
       ELSE call[p].session \in First(p)

(* In this step the claim of process p hands session s out.                *)
HandsOut(p, s) ==
  /\ call[p].at = "taken" /\ call'[p].at = "idle"
  /\ call[p].session = s
  /\ table'[s] # table[s]

(* A waiting row leaves the queue without a claim only when a process      *)
(* whose own store holds the session, as not waiting in the group it asked *)
(* for, lists or claims: a process that does not know the session never    *)
(* discards it.                                                            *)
DiscardedOnlyByDisagreement ==
  [][\A s \in Waiting : s \notin Waiting' =>
       \E p \in Process :
         /\ call'[p] # call[p]
         /\ \/ HandsOut(p, s)
            \/ /\ memory[p][s] # None
               /\ ~Matches(memory[p][s], call[p].group)]_vars

(* A claim hands out the first row: one of higher priority that waits in   *)
(* its group at the commit is one the claiming process disputes.           *)
HandedOutInOrder ==
  [][\A p \in Process, s, w \in Session :
       /\ HandsOut(p, s)
       /\ w \in WaitingRows(call[p].group)
       /\ table[w].priority > table[s].priority
       => Disputed(p, w, call[p].group) /\ w \notin Waiting']_vars

(* In this step the claim of process p answers null, and has discarded     *)
(* something.                                                              *)
AnswersNull(p) ==
  call[p].at = "scan" /\ call'[p].at = "idle" /\ table' # table

(* A claim that answers null has gone through the whole queue: no row of   *)
(* its group is left waiting.                                              *)
NullLeavesNobody ==
  [][\A p \in Process : AnswersNull(p)
       => WaitingRows(call[p].group) \cap Waiting' = {}]_vars

(* Every call of the queue ends: the loop of claim_next too, however many  *)
(* rows its process disputes, so that the process serves others again.     *)
CallsEnd == \A p \in Process : ~Free(p) ~> Free(p)
=============================================================================
