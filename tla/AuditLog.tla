------------------------------ MODULE AuditLog ------------------------------
(***************************************************************************)
(* The append-only events table and its hash chain: append_event           *)
(* (audit/log.py) called inside the transactions of every handler, run     *)
(* and command, over SQLite in WAL mode.                                   *)
(*                                                                         *)
(* Two locks meet here.  append_event holds a per-user asyncio.Lock of its *)
(* own process from the read of the last hash to the flushed INSERT, but   *)
(* not to the commit.  SQLite has one write lock for all processes, taken  *)
(* by the first INSERT or UPDATE of a transaction and held to its end; a   *)
(* read needs no lock and sees the last commit plus the reader's own rows. *)
(* A process has more than one event loop: the fill stream runs            *)
(* on_fill_event in the loop of its worker thread, and an asyncio.Lock     *)
(* serves only the loop in which somebody first had to wait for it.        *)
(*                                                                         *)
(* A hash stands for the event it identifies (SHA-256 is taken to be       *)
(* injective): an event is its id and the id its prev_hash names.          *)
(***************************************************************************)
EXTENDS Naturals, Sequences

CONSTANTS
    Writers,    \* sessions that may have a transaction open
    Processes,  \* `gekko serve` and a command run beside it
    Home,       \* Home[w]: the process w runs in
    Loops,      \* event loops
    Loop,       \* Loop[w]: the event loop w runs in
    Shapes,     \* the statement sequences of the transactions in the instance
    MaxTxns,    \* bound on the transactions one writer begins
    SlowDisk,   \* whether the busy timeout may also hit a wait that would end
    Genesis,    \* GENESIS_PREV_HASH
    Nobody      \* no writer, no hash

\* The statements: an INSERT or UPDATE of another table; append_event; and
\* append_event in a session with a changed object that nobody has flushed,
\* whose SELECT of the last hash flushes it.
Statements == {"dml", "append", "dirty"}

\* The shapes of the code's transactions.  The executor and on_fill_event
\* append first and write the row after; the cost ledger, the duplicate click,
\* the anomaly demotion and the daily report only append; a run that proposes
\* nothing appends twice.
AppendThenWrite      == <<"append", "dml">>
AppendOnly           == <<"append">>
AppendTwice          == <<"append", "append">>

\* A button click, the live-confirm page, the sweep and the kill switch write a
\* row, then the event; a new proposal and the auto branch write a row, then
\* two events; a resize claims its id, logs, and writes the row.
WriteThenAppend      == <<"dml", "append">>
WriteThenAppendTwice == <<"dml", "append", "append">>
WriteAppendWrite     == <<"dml", "append", "dml">>

\* A promotion, a demotion, a new ceiling, the first-live stamp and a stored
\* credential change an object and leave its UPDATE or INSERT to append_event.
\* (One that changes nothing has nothing to flush and only appends.)
WithoutAutoflush     == <<"append">>  \* faulty variant: read first, flush later
DirtyThenAppend      == <<"dirty">>

RowFirstShapes == {WriteThenAppend, WriteThenAppendTwice, WriteAppendWrite}
ChainedShapes == RowFirstShapes \cup {DirtyThenAppend}
AllShapes == ChainedShapes \cup {AppendThenWrite, AppendOnly, AppendTwice}

\* Which append of which transaction of which writer.
Ids == Writers \X Nat \X Nat

ASSUME AuditAssumption ==
    /\ Nobody \notin Writers
    /\ Genesis \notin Ids
    /\ Nobody \notin Ids \cup {Genesis}
    /\ Home \in [Writers -> Processes]
    /\ Loop \in [Writers -> Loops]
    /\ Nobody \notin Loops
    /\ Shapes \subseteq AllShapes
    /\ MaxTxns \in Nat
    /\ SlowDisk \in BOOLEAN

VARIABLES
    rows,        \* the events table in id order, uncommitted rows at its end
    committed,   \* how many of them are committed
    dbLock,      \* the writer holding SQLite's write lock
    appendLock,  \* appendLock[d]: the holder of process d's asyncio.Lock
    bound,       \* bound[d]: the loop process d's asyncio.Lock is bound to
    todo,        \* todo[w]: statements w's transaction has still to run
    open,        \* writers whose transaction is open
    prev,        \* prev[w]: the hash append_event has read, before the INSERT
    begun,       \* begun[w]: transactions w has begun
    doing,       \* doing[w]: the shape of w's open transaction
    ended        \* how each transaction ended

auditVars == <<rows, committed, dbLock, appendLock, bound, todo, open, prev, begun,
               doing, ended>>

Init ==
    /\ rows = <<>>
    /\ committed = 0
    /\ dbLock = Nobody
    /\ appendLock = [d \in Processes |-> Nobody]
    /\ bound = [d \in Processes |-> Nobody]
    /\ todo = [w \in Writers |-> <<>>]
    /\ open = {}
    /\ prev = [w \in Writers |-> Nobody]
    /\ begun = [w \in Writers |-> 0]
    /\ doing = [w \in Writers |-> <<>>]
    /\ ended = {}

-----------------------------------------------------------------------------
NextIs(w, step)  == w \in open /\ todo[w] # <<>> /\ Head(todo[w]) = step
CanWrite(w)       == dbLock \in {Nobody, w}
LastId(n)         == IF n = 0 THEN Genesis ELSE rows[n].id

\* What a SELECT of w sees: its own uncommitted rows, nobody else's.
VisibleToAnyone(w) == Len(rows)  \* faulty variant: a tail cached in memory
VisibleCommitted(w) == committed  \* faulty variant: reads on a connection of its own
Visible(w) == IF dbLock = w THEN Len(rows) ELSE committed

Begin(w) ==
    /\ w \notin open
    /\ begun[w] < MaxTxns
    /\ begun' = [begun EXCEPT ![w] = @ + 1]
    /\ open' = open \cup {w}
    /\ \E shape \in Shapes : /\ todo' = [todo EXCEPT ![w] = shape]
                              /\ doing' = [doing EXCEPT ![w] = shape]
    /\ UNCHANGED <<rows, committed, dbLock, appendLock, bound, prev, ended>>

\* An INSERT or UPDATE of some other table.
Write(w) ==
    /\ NextIs(w, "dml")
    /\ CanWrite(w)
    /\ dbLock' = w
    /\ todo' = [todo EXCEPT ![w] = Tail(@)]
    /\ UNCHANGED <<rows, committed, appendLock, bound, open, prev, begun, doing,
                   ended>>

\* append_event, first half: take the lock, read the last hash.
AppendRead(w) ==
    /\ NextIs(w, "append")
    /\ prev[w] = Nobody
    /\ appendLock[Home[w]] = Nobody
    /\ appendLock' = [appendLock EXCEPT ![Home[w]] = w]
    /\ prev' = [prev EXCEPT ![w] = LastId(Visible(w))]
    /\ UNCHANGED <<rows, committed, dbLock, bound, todo, open, begun, doing, ended>>

\* The same with a changed object in the session: take the lock,
DirtyLock(w) ==
    /\ NextIs(w, "dirty")
    /\ appendLock[Home[w]] = Nobody
    /\ appendLock' = [appendLock EXCEPT ![Home[w]] = w]
    /\ UNCHANGED <<rows, committed, dbLock, bound, todo, open, prev, begun, doing,
                   ended>>

\* and flush the object, which takes the write lock, before reading the hash.
Flushing(w) == NextIs(w, "dirty") /\ prev[w] = Nobody /\ appendLock[Home[w]] = w

DirtyRead(w) ==
    /\ Flushing(w)
    /\ CanWrite(w)
    /\ dbLock' = w
    /\ prev' = [prev EXCEPT ![w] = LastId(Len(rows))]
    /\ UNCHANGED <<rows, committed, appendLock, bound, todo, open, begun, doing,
                   ended>>

AppendCommits(w) ==   \* faulty variant: append_event commits its event itself
    /\ prev[w] # Nobody
    /\ CanWrite(w)
    /\ dbLock' = Nobody
    /\ rows' = Append(rows, [id |-> <<w, begun[w], Len(todo[w])>>,
                             prev |-> prev[w]])
    /\ committed' = Len(rows) + 1
    /\ prev' = [prev EXCEPT ![w] = Nobody]
    /\ appendLock' = [appendLock EXCEPT ![Home[w]] = Nobody]
    /\ todo' = [todo EXCEPT ![w] = Tail(@)]
    /\ UNCHANGED <<bound, open, begun, doing, ended>>

\* append_event, second half: flush the INSERT, release the lock.
AppendInsert(w) ==
    /\ prev[w] # Nobody
    /\ CanWrite(w)
    /\ dbLock' = w
    /\ rows' = Append(rows, [id |-> <<w, begun[w], Len(todo[w])>>,
                             prev |-> prev[w]])
    /\ prev' = [prev EXCEPT ![w] = Nobody]
    /\ appendLock' = [appendLock EXCEPT ![Home[w]] = Nobody]
    /\ todo' = [todo EXCEPT ![w] = Tail(@)]
    /\ UNCHANGED <<committed, bound, open, begun, doing, ended>>

\* The end of a transaction and of everything w held for it.
End(w, how) == [writer |-> w, number |-> begun[w], shape |-> doing[w], how |-> how]

Leave(w, how) ==
    /\ open' = open \ {w}
    /\ dbLock' = IF dbLock = w THEN Nobody ELSE dbLock
    /\ todo' = [todo EXCEPT ![w] = <<>>]
    /\ doing' = [doing EXCEPT ![w] = <<>>]
    /\ prev' = [prev EXCEPT ![w] = Nobody]
    /\ appendLock' = IF appendLock[Home[w]] = w
                        THEN [appendLock EXCEPT ![Home[w]] = Nobody]
                        ELSE appendLock
    /\ ended' = ended \cup {End(w, how)}
    /\ UNCHANGED begun   \* and not of the binding of the lock

Commit(w) ==
    /\ w \in open
    /\ todo[w] = <<>>
    /\ committed' = IF dbLock = w THEN Len(rows) ELSE committed
    /\ Leave(w, "committed")
    /\ UNCHANGED <<rows, bound>>

DropOneTooMany(w) ==   \* faulty variant
    rows' = IF dbLock = w THEN SubSeq(rows, 1, committed - 1) ELSE rows

\* Uncommitted rows are the lock holder's.
DropRows(w) == rows' = IF dbLock = w THEN SubSeq(rows, 1, committed) ELSE rows

\* The caller raises between two statements (a refused transition).
Rollback(w) ==
    /\ w \in open
    /\ appendLock[Home[w]] # w
    /\ DropRows(w)
    /\ Leave(w, "rolled back")
    /\ UNCHANGED <<committed, bound>>

(***************************************************************************)
(* A statement that waits for the write lock gives up after SQLite's       *)
(* default of five seconds.  Transactions are a few milliseconds of work,  *)
(* so unless the disk is slow that happens only where the holder of the    *)
(* write lock waits in turn for the asyncio.Lock of a writer that waits    *)
(* for the write lock: then to that writer, or to a third party that has   *)
(* waited longer.                                                          *)
(***************************************************************************)
Waits(w)   == /\ prev[w] # Nobody \/ NextIs(w, "dml") \/ Flushing(w)
              /\ ~CanWrite(w)
Crossed(w) == /\ Waits(w)
              /\ dbLock \in Writers
              /\ NextIs(dbLock, "append") \/ NextIs(dbLock, "dirty")
              /\ appendLock[Home[dbLock]] = w

NoTimeOut(w) == FALSE   \* faulty variant: waits forever

TimeOut(w) ==
    /\ Waits(w)
    /\ SlowDisk \/ \E v \in Writers : Crossed(v)
    /\ DropRows(w)
    /\ Leave(w, "timed out")
    /\ UNCHANGED <<committed, bound>>

\* Somebody has to wait for the asyncio.Lock: the first to do so binds it to
\* its own event loop, and from then on a wait in another loop raises
\* RuntimeError, which ends the transaction.
MustQueue(w) == /\ NextIs(w, "append") \/ NextIs(w, "dirty")
                /\ appendLock[Home[w]] \notin {Nobody, w}

BindLoop(w) ==
    /\ MustQueue(w)
    /\ bound[Home[w]] = Nobody
    /\ bound' = [bound EXCEPT ![Home[w]] = Loop[w]]
    /\ UNCHANGED <<rows, committed, dbLock, appendLock, todo, open, prev, begun,
                   doing, ended>>

WrongLoop(w) ==
    /\ MustQueue(w)
    /\ bound[Home[w]] \notin {Nobody, Loop[w]}
    /\ DropRows(w)
    /\ Leave(w, "wrong loop")
    /\ UNCHANGED <<committed, bound>>

\* A process dies: its transactions are rolled back, its asyncio.Lock is gone.
Crash(d) ==
    LET gone == {w \in Writers : Home[w] = d} IN
    /\ open \cap gone # {}
    /\ open' = open \ gone
    /\ rows' = IF dbLock \in gone THEN SubSeq(rows, 1, committed) ELSE rows
    /\ dbLock' = IF dbLock \in gone THEN Nobody ELSE dbLock
    /\ appendLock' = [appendLock EXCEPT ![d] = Nobody]
    /\ bound' = [bound EXCEPT ![d] = Nobody]
    /\ todo' = [w \in Writers |-> IF w \in gone THEN <<>> ELSE todo[w]]
    /\ doing' = [w \in Writers |-> IF w \in gone THEN <<>> ELSE doing[w]]
    /\ prev' = [w \in Writers |-> IF w \in gone THEN Nobody ELSE prev[w]]
    /\ ended' = ended \cup {End(w, "crashed") : w \in open \cap gone}
    /\ UNCHANGED <<committed, begun>>

Step(w) == \/ Write(w) \/ AppendRead(w) \/ DirtyLock(w) \/ DirtyRead(w)
           \/ AppendInsert(w) \/ Commit(w) \/ TimeOut(w) \/ BindLoop(w) \/ WrongLoop(w)

Next == \/ \E w \in Writers : Begin(w) \/ Step(w) \/ Rollback(w)
        \/ \E d \in Processes : Crash(d)

Spec == Init /\ [][Next]_auditVars

\* The event loop runs a coroutine that can go on, SQLite a statement that can
\* run.  Nobody owes a new transaction.
FairSpec == Spec /\ \A w \in Writers : WF_auditVars(Step(w))

-----------------------------------------------------------------------------
(* Properties. *)

Event == [id: Ids, prev: Ids \cup {Genesis}]
Remainders == AllShapes \cup {<<>>, <<"dml">>}
Outcomes == {"committed", "rolled back", "timed out", "wrong loop", "crashed"}
Ending == [writer: Writers, number: Nat, shape: AllShapes, how: Outcomes]

TypeOK ==
    /\ rows \in Seq(Event)
    /\ committed \in 0..Len(rows)
    /\ dbLock \in Writers \cup {Nobody}
    /\ appendLock \in [Processes -> Writers \cup {Nobody}]
    /\ bound \in [Processes -> Loops \cup {Nobody}]
    /\ todo \in [Writers -> Remainders]
    /\ open \subseteq Writers
    /\ prev \in [Writers -> Ids \cup {Genesis, Nobody}]
    /\ begun \in [Writers -> 0..MaxTxns]
    /\ doing \in [Writers -> AllShapes \cup {<<>>}]
    /\ ended \subseteq Ending

(***************************************************************************)
(* walk_chain (audit/verify.py): the positions whose prev_hash is not the  *)
(* row_hash of the row before.                                             *)
(***************************************************************************)
WalkChain == {i \in 1..Len(rows) : rows[i].prev # LastId(i - 1)}

(***************************************************************************)
(* `gekko audit verify` finds an intact chain, whatever was rolled back,   *)
(* timed out or killed.                                                    *)
(***************************************************************************)
ChainIntact == WalkChain = {}

(***************************************************************************)
(* A link never points at an event that is not in the table before it: no  *)
(* hash of a rolled back transaction ever gets into the chain.             *)
(***************************************************************************)
LinksBackwards ==
    \A i \in 1..Len(rows) :
        \/ rows[i].prev = Genesis
        \/ \E j \in 1..(i - 1) : rows[i].prev = rows[j].id

(***************************************************************************)
(* The log tells what happened and nothing else: a transaction that        *)
(* committed has every event it appended in the table, and one that was    *)
(* rolled back, timed out, met the wrong loop or died has none of them,    *)
(* though append_event lets go of its lock long before that is known.      *)
(***************************************************************************)
EventsOf(shape) == {n \in 1..Len(shape) :
                        shape[Len(shape) - n + 1] \in {"append", "dirty"}}
Logged(table, w, k) ==
    {table[i].id[3] : i \in {i \in 1..Len(table) : /\ table[i].id[1] = w
                                                  /\ table[i].id[2] = k}}

AllOrNothing ==
    \A e \in ended :
        Logged(rows, e.writer, e.number) =
            IF e.how = "committed" THEN EventsOf(e.shape) ELSE {}

(***************************************************************************)
(* Appending to the log costs nobody a transaction.  The code does not     *)
(* give that: a row-first transaction holds the write lock and waits for   *)
(* the asyncio.Lock of one that appends first or flushes inside            *)
(* append_event, and the busy timeout fells the second of them.            *)
(* (Audit_v_crossing.cfg shows it.)                                        *)
(***************************************************************************)
NoAppendIsLost == \A e \in ended : e.how \notin {"timed out", "wrong loop"}

(***************************************************************************)
(* Every transaction ends, by its commit, its failure or the busy timeout. *)
(* (A wait in the right loop is woken by the release; a release in another *)
(* loop's thread may leave the waiter asleep for a while, not for ever:    *)
(* the stream's loop wakes for its websocket.)                             *)
(***************************************************************************)
TransactionsEnd == \A w \in Writers : w \in open ~> w \notin open
=============================================================================
