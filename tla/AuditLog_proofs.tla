--------------------------- MODULE AuditLog_proofs ---------------------------
(***************************************************************************)
(* Proofs about AuditLog, for every set of writers, processes and event    *)
(* loops and any number of transactions.                                   *)
(***************************************************************************)
EXTENDS AuditLog, SequenceTheorems, TLAPS

-----------------------------------------------------------------------------
(* Type correctness.  What makes it inductive: who has read the last hash  *)
(* is about to insert, and an open transaction has a shape.                *)

AppendIsNext(w) == NextIs(w, "append") \/ NextIs(w, "dirty")

ReadersInsert == \A w \in Writers : prev[w] # Nobody => AppendIsNext(w)

OpenHaveShapes == \A w \in open : doing[w] \in AllShapes

Typed == TypeOK /\ ReadersInsert /\ OpenHaveShapes

LEMMA TailOfRemainder ==
    ASSUME NEW s \in Remainders, s # <<>>
    PROVE  Tail(s) \in Remainders
<1>1. CASE s \in {<<"append">>, <<"dml">>, <<"dirty">>}
  <2>1. s \in Seq(Statements) /\ Len(s) = 1
    <3>1. CASE s = <<"append">>
      BY <3>1 DEF Statements
    <3>2. CASE s = <<"dml">>
      BY <3>2 DEF Statements
    <3>3. CASE s = <<"dirty">>
      BY <3>3 DEF Statements
    <3> QED BY <1>1, <3>1, <3>2, <3>3
  <2>2. Tail(s) \in Seq(Statements) /\ Len(Tail(s)) = 0
    BY <2>1, HeadTailProperties
  <2>3. Tail(s) = <<>>
    BY <2>2, EmptySeq
  <2> QED BY <2>3 DEF Remainders
<1>2. CASE s = <<"append", "dml">>
  <2>1. Tail(s) = <<"dml">>
    BY <1>2
  <2> QED BY <2>1 DEF Remainders, AllShapes, ChainedShapes, RowFirstShapes,
                      AppendThenWrite, AppendOnly, AppendTwice
<1>3. CASE s \in {<<"dml", "append">>, <<"append", "append">>}
  <2>1. Tail(s) = <<"append">>
    <3>1. PICK x \in {"dml", "append"} : s = <<x, "append">>
      BY <1>3
    <3> QED BY <3>1
  <2> QED BY <2>1 DEF Remainders, AllShapes, ChainedShapes, RowFirstShapes,
                      AppendThenWrite, AppendOnly, AppendTwice
<1>4. CASE s = <<"dml", "append", "append">>
  <2>1. Tail(s) = <<"append", "append">>
    BY <1>4
  <2> QED BY <2>1 DEF Remainders, AllShapes, ChainedShapes, RowFirstShapes,
                      AppendThenWrite, AppendOnly, AppendTwice
<1>5. CASE s = <<"dml", "append", "dml">>
  <2>1. Tail(s) = <<"append", "dml">>
    BY <1>5
  <2> QED BY <2>1 DEF Remainders, AllShapes, ChainedShapes, RowFirstShapes,
                      AppendThenWrite, AppendOnly, AppendTwice
<1> QED
  BY <1>1, <1>2, <1>3, <1>4, <1>5
  DEF Remainders, AllShapes, ChainedShapes, RowFirstShapes, AppendThenWrite,
      AppendOnly, AppendTwice, WriteThenAppend, WriteThenAppendTwice,
      WriteAppendWrite, DirtyThenAppend

\* A shape has something to run, and begins by writing another table when it
\* is one of those that keep the chain.
LEMMA ShapeFacts ==
    \A s \in AllShapes : /\ s \in Remainders
                         /\ s # <<>>
                         /\ s \in ChainedShapes => Head(s) \in {"dml", "dirty"}
BY DEF Remainders, AllShapes, ChainedShapes, RowFirstShapes, AppendThenWrite,
       AppendOnly, AppendTwice, WriteThenAppend, WriteThenAppendTwice,
       WriteAppendWrite, DirtyThenAppend

LEMMA RemainderIsSequence ==
    \A s \in Remainders : s \in Seq(Statements) /\ Len(s) \in Nat
<1> SUFFICES ASSUME NEW s \in Remainders
             PROVE  s \in Seq(Statements) /\ Len(s) \in Nat
  OBVIOUS
<1>1. {"dml", "append", "dirty"} = Statements
  BY DEF Statements
<1>2. CASE s = <<>>
  BY <1>2
<1>3. CASE s \in {<<"dml">>, <<"append">>, <<"dirty">>}
  <2>1. PICK x \in Statements : s = <<x>>
    BY <1>1, <1>3
  <2> QED BY <2>1
<1>4. CASE s \in {<<"append", "append">>, <<"append", "dml">>, <<"dml", "append">>}
  <2>1. PICK x \in Statements, y \in Statements : s = <<x, y>>
    BY <1>1, <1>4
  <2> QED BY <2>1
<1>5. CASE s \in {<<"dml", "append", "append">>, <<"dml", "append", "dml">>}
  <2>1. PICK x \in Statements, y \in Statements, z \in Statements : s = <<x, y, z>>
    BY <1>1, <1>5
  <2> QED BY <2>1
<1> QED
  BY <1>2, <1>3, <1>4, <1>5
  DEF Remainders, AllShapes, ChainedShapes, RowFirstShapes, AppendThenWrite,
      AppendOnly, AppendTwice, WriteThenAppend, WriteThenAppendTwice,
      WriteAppendWrite, DirtyThenAppend

\* What is left of the table when the rows past the last commit are dropped.
LEMMA DroppedRows ==
    ASSUME NEW S, NEW r \in Seq(S), NEW n \in 0..Len(r)
    PROVE  /\ SubSeq(r, 1, n) \in Seq(S)
           /\ Len(SubSeq(r, 1, n)) = n
           /\ \A i \in 1..n : SubSeq(r, 1, n)[i] = r[i]
OBVIOUS

LEMMA InitTyped == Init => Typed
BY AuditAssumption
   DEF Init, Typed, TypeOK, ReadersInsert, OpenHaveShapes, Remainders, Event

\* How a transaction may be said to have ended.
LEMMA EndTyped ==
    ASSUME Typed, NEW w \in open, NEW how \in Outcomes
    PROVE  End(w, how) \in Ending
BY AuditAssumption DEF Typed, TypeOK, OpenHaveShapes, End, Ending

\* A writer leaves: nobody else's state changes.
LEMMA LeaveTyped ==
    ASSUME Typed, NEW w \in open, NEW how \in Outcomes, Leave(w, how)
    PROVE  /\ dbLock' \in Writers \cup {Nobody}
           /\ appendLock' \in [Processes -> Writers \cup {Nobody}]
           /\ todo' \in [Writers -> Remainders]
           /\ open' \subseteq Writers
           /\ prev' \in [Writers -> Ids \cup {Genesis, Nobody}]
           /\ begun' \in [Writers -> 0..MaxTxns]
           /\ doing' \in [Writers -> AllShapes \cup {<<>>}]
           /\ ended' \subseteq Ending
           /\ ReadersInsert' /\ OpenHaveShapes'
<1> USE DEF Typed, TypeOK, Leave
<1>1. /\ dbLock' \in Writers \cup {Nobody}
      /\ appendLock' \in [Processes -> Writers \cup {Nobody}]
      /\ open' \subseteq Writers
      /\ begun' \in [Writers -> 0..MaxTxns]
      /\ prev' \in [Writers -> Ids \cup {Genesis, Nobody}]
      /\ doing' \in [Writers -> AllShapes \cup {<<>>}]
  OBVIOUS
<1>2. todo' \in [Writers -> Remainders]
  BY DEF Remainders
<1>3. ReadersInsert'
  BY DEF ReadersInsert, AppendIsNext, NextIs
<1>4. ended' \subseteq Ending
  BY EndTyped
<1>5. OpenHaveShapes'
  BY DEF OpenHaveShapes
<1> QED BY <1>1, <1>2, <1>3, <1>4, <1>5

\* The table after its uncommitted rows are dropped, if they are w's.
LEMMA DropTyped ==
    ASSUME Typed, NEW w \in Writers, DropRows(w)
    PROVE  rows' \in Seq(Event) /\ committed \in 0..Len(rows')
BY DroppedRows DEF Typed, TypeOK, DropRows

LEMMA TypedStep == Typed /\ [Next]_auditVars => Typed'
<1> SUFFICES ASSUME Typed, [Next]_auditVars PROVE Typed'
  OBVIOUS
<1>1. ASSUME NEW w \in Writers, Begin(w) PROVE Typed'
  <2>1. todo' \in [Writers -> Remainders]
    BY <1>1, ShapeFacts, AuditAssumption DEF Begin, Typed, TypeOK
  <2>2. ReadersInsert'
    BY <1>1 DEF Begin, Typed, TypeOK, ReadersInsert, AppendIsNext, NextIs
  <2>3. begun' \in [Writers -> 0..MaxTxns]
    BY <1>1, AuditAssumption DEF Begin, Typed, TypeOK
  <2>4. doing' \in [Writers -> AllShapes \cup {<<>>}] /\ OpenHaveShapes'
    BY <1>1, AuditAssumption DEF Begin, Typed, TypeOK, OpenHaveShapes
  <2> QED BY <1>1, <2>1, <2>2, <2>3, <2>4 DEF Begin, Typed, TypeOK
<1>2. ASSUME NEW w \in Writers, Write(w) PROVE Typed'
  <2>1. todo' \in [Writers -> Remainders]
    BY <1>2, TailOfRemainder DEF Write, NextIs, Typed, TypeOK
  <2>2. ReadersInsert'
    BY <1>2 DEF Write, AppendIsNext, NextIs, Typed, TypeOK, ReadersInsert
  <2> QED BY <1>2, <2>1, <2>2 DEF Write, Typed, TypeOK, OpenHaveShapes
<1>3. ASSUME NEW w \in Writers, AppendRead(w) \/ DirtyRead(w) PROVE Typed'
  <2>1. \A n \in 0..Len(rows) : LastId(n) \in Ids \cup {Genesis}
    <3>1. \A i \in 1..Len(rows) : rows[i] \in Event
      BY DEF Typed, TypeOK
    <3>2. \A i \in 1..Len(rows) : rows[i].id \in Ids
      BY <3>1 DEF Event
    <3> QED BY <3>2 DEF LastId
  <2>2. Visible(w) \in 0..Len(rows) /\ Len(rows) \in 0..Len(rows)
    BY DEF Visible, Typed, TypeOK
  <2>3. /\ appendLock' \in [Processes -> Writers \cup {Nobody}]
        /\ prev' \in [Writers -> Ids \cup {Genesis, Nobody}]
        /\ dbLock' \in Writers \cup {Nobody}
    BY <1>3, <2>1, <2>2 DEF AppendRead, DirtyRead, Typed, TypeOK
  <2>4. ReadersInsert' /\ OpenHaveShapes'
    BY <1>3 DEF AppendRead, DirtyRead, Flushing, AppendIsNext, NextIs, Typed,
                TypeOK, ReadersInsert, OpenHaveShapes
  <2> QED BY <1>3, <2>3, <2>4 DEF AppendRead, DirtyRead, Typed, TypeOK
<1>4. ASSUME NEW w \in Writers, AppendInsert(w) PROVE Typed'
  <2>1. todo[w] # <<>> /\ todo[w] \in Remainders
    BY <1>4 DEF AppendInsert, Typed, TypeOK, ReadersInsert, AppendIsNext, NextIs
  <2>2. todo' \in [Writers -> Remainders]
    BY <1>4, <2>1, TailOfRemainder DEF AppendInsert, Typed, TypeOK
  <2>3. [id |-> <<w, begun[w], Len(todo[w])>>, prev |-> prev[w]] \in Event
    BY <1>4, <2>1, RemainderIsSequence, AuditAssumption
       DEF AppendInsert, Typed, TypeOK, Event, Ids
  <2>4. rows' \in Seq(Event) /\ committed \in 0..Len(rows')
    BY <1>4, <2>3 DEF AppendInsert, Typed, TypeOK
  <2>5. /\ prev' \in [Writers -> Ids \cup {Genesis, Nobody}]
        /\ appendLock' \in [Processes -> Writers \cup {Nobody}]
        /\ dbLock' \in Writers \cup {Nobody}
    BY <1>4 DEF AppendInsert, Typed, TypeOK
  <2>6. ReadersInsert' /\ OpenHaveShapes'
    BY <1>4 DEF AppendInsert, Typed, TypeOK, ReadersInsert, AppendIsNext, NextIs,
                OpenHaveShapes
  <2> QED BY <1>4, <2>2, <2>4, <2>5, <2>6 DEF AppendInsert, Typed, TypeOK
<1>5. ASSUME NEW w \in Writers, Commit(w) PROVE Typed'
  <2>1. committed' \in 0..Len(rows')
    BY <1>5 DEF Commit, Typed, TypeOK
  <2> QED BY <1>5, <2>1, LeaveTyped DEF Commit, Outcomes, Typed, TypeOK
<1>6. ASSUME NEW w \in Writers, NEW how \in Outcomes, w \in open, DropRows(w),
             Leave(w, how), UNCHANGED <<committed, bound>>
      PROVE  Typed'
  BY <1>6, LeaveTyped, DropTyped DEF Typed, TypeOK
<1>7. ASSUME NEW w \in Writers, Rollback(w) \/ TimeOut(w) \/ WrongLoop(w)
      PROVE  Typed'
  <2>1. w \in open
    BY <1>7 DEF Rollback, TimeOut, Waits, Flushing, WrongLoop, MustQueue, NextIs,
                Typed, ReadersInsert, AppendIsNext
  <2> QED BY <1>6, <1>7, <2>1 DEF Rollback, TimeOut, WrongLoop, Outcomes
<1>8. ASSUME NEW w \in Writers, BindLoop(w) \/ DirtyLock(w) PROVE Typed'
  <2>1. ReadersInsert' /\ OpenHaveShapes'
    BY <1>8 DEF BindLoop, DirtyLock, Typed, ReadersInsert, AppendIsNext, NextIs,
                OpenHaveShapes
  <2>2. /\ bound' \in [Processes -> Loops \cup {Nobody}]
        /\ appendLock' \in [Processes -> Writers \cup {Nobody}]
    BY <1>8, AuditAssumption DEF BindLoop, DirtyLock, Typed, TypeOK
  <2> QED BY <1>8, <2>1, <2>2 DEF BindLoop, DirtyLock, Typed, TypeOK
<1>9. ASSUME NEW d \in Processes, Crash(d) PROVE Typed'
  <2>1. rows' \in Seq(Event) /\ committed \in 0..Len(rows')
    BY <1>9, DroppedRows DEF Crash, Typed, TypeOK
  <2>2. todo' \in [Writers -> Remainders]
    BY <1>9 DEF Crash, Typed, TypeOK, Remainders
  <2>3. ReadersInsert' /\ OpenHaveShapes'
    BY <1>9 DEF Crash, Typed, TypeOK, ReadersInsert, AppendIsNext, NextIs,
                OpenHaveShapes
  <2>4. /\ prev' \in [Writers -> Ids \cup {Genesis, Nobody}]
        /\ appendLock' \in [Processes -> Writers \cup {Nobody}]
        /\ bound' \in [Processes -> Loops \cup {Nobody}]
        /\ dbLock' \in Writers \cup {Nobody}
        /\ open' \subseteq Writers
        /\ doing' \in [Writers -> AllShapes \cup {<<>>}]
    BY <1>9 DEF Crash, Typed, TypeOK
  <2>5. ended' \subseteq Ending
    BY <1>9, EndTyped DEF Crash, Typed, TypeOK, Outcomes
  <2> QED BY <1>9, <2>1, <2>2, <2>3, <2>4, <2>5 DEF Crash, Typed, TypeOK
<1>10. CASE UNCHANGED auditVars
  BY <1>10 DEF auditVars, Typed, TypeOK, ReadersInsert, AppendIsNext, NextIs,
               OpenHaveShapes
<1> QED
  BY <1>1, <1>2, <1>3, <1>4, <1>5, <1>7, <1>8, <1>9, <1>10 DEF Next, Step

(***************************************************************************)
(* The table, the locks and the transactions hold what they can hold.      *)
(***************************************************************************)
THEOREM TypeCorrect == Spec => []TypeOK
<1>1. Typed => TypeOK
  BY DEF Typed
<1> QED BY InitTyped, TypedStep, <1>1, PTL DEF Spec

-----------------------------------------------------------------------------
(* Transactions that write a row first, or have their row flushed by       *)
(* append_event before it reads.  Either way whoever reads the last hash   *)
(* holds SQLite's write lock: the hash read is the last one until the      *)
(* holder's own INSERT or its end.                                         *)

ClosedHoldNothing ==
    \A w \in Writers : w \notin open => dbLock # w /\ prev[w] = Nobody
OthersHaveNotBegun ==
    \A w \in open : dbLock # w => todo[w] \in ChainedShapes
ReadersHoldTheLock ==
    \A w \in Writers :
        prev[w] # Nobody => dbLock = w /\ prev[w] = LastId(Len(rows))
FreeMeansCommitted == dbLock = Nobody => committed = Len(rows)
OnlyHoldersRead == /\ ClosedHoldNothing
                   /\ OthersHaveNotBegun
                   /\ ReadersHoldTheLock
                   /\ FreeMeansCommitted

Linked == \A i \in 1..Len(rows) : rows[i].prev = LastId(i - 1)

ChainedInv == Typed /\ OnlyHoldersRead /\ Linked

LEMMA InitChained == Init => ChainedInv
<1> SUFFICES ASSUME Init PROVE OnlyHoldersRead /\ Linked
  BY InitTyped DEF ChainedInv
<1>1. Linked
  BY DEF Init, Linked
<1>2. OnlyHoldersRead
  BY AuditAssumption
     DEF Init, OnlyHoldersRead, ClosedHoldNothing, OthersHaveNotBegun,
         ReadersHoldTheLock, FreeMeansCommitted
<1> QED BY <1>1, <1>2

\* Who ends a transaction leaves everything as OnlyHoldersRead wants it: if it
\* held the write lock, the table ends at the last commit.
LEMMA LeaveExclusive ==
    ASSUME ChainedInv, NEW w \in Writers, NEW how, Leave(w, how),
           \/ dbLock = w /\ committed' = Len(rows')
           \/ dbLock # w /\ UNCHANGED <<rows, committed>>
    PROVE  OnlyHoldersRead'
<1> USE DEF ChainedInv, OnlyHoldersRead, ClosedHoldNothing,
            OthersHaveNotBegun, ReadersHoldTheLock, FreeMeansCommitted,
            Leave, Typed, TypeOK
<1>1. \A v \in Writers : v # w => prev'[v] = prev[v] /\ todo'[v] = todo[v]
  OBVIOUS
<1>2. prev'[w] = Nobody
  OBVIOUS
<1>3. dbLock' \notin {w} /\ (dbLock # w => dbLock' = dbLock)
  BY AuditAssumption
<1>4. \A v \in Writers : v \notin open' => dbLock' # v /\ prev'[v] = Nobody
  BY <1>1, <1>2, <1>3, AuditAssumption
<1>5. \A v \in open' : dbLock' # v => todo'[v] \in ChainedShapes
  <2> SUFFICES ASSUME NEW v \in open', dbLock' # v
               PROVE  todo'[v] \in ChainedShapes
    OBVIOUS
  <2>1. v \in open /\ v # w /\ dbLock # v
    OBVIOUS
  <2> QED BY <2>1, <1>1
<1>6. \A v \in Writers :
          prev'[v] # Nobody => dbLock' = v /\ prev'[v] = LastId(Len(rows))'
  BY <1>1, <1>2, <1>3 DEF LastId
<1>7. dbLock' = Nobody => committed' = Len(rows')
  BY <1>3
<1> QED BY <1>4, <1>5, <1>6, <1>7

LEMMA DropLinked ==
    ASSUME ChainedInv, NEW w \in Writers, DropRows(w)
    PROVE  /\ Linked'
           /\ \/ dbLock = w /\ committed = Len(rows')
              \/ dbLock # w /\ UNCHANGED rows
<1>1. CASE dbLock # w
  BY <1>1 DEF DropRows, ChainedInv, Linked, LastId
<1>2. CASE dbLock = w
  <2>1. /\ Len(rows') = committed
        /\ \A i \in 1..committed : rows'[i] = rows[i]
        /\ committed \in 0..Len(rows)
    BY <1>2, DroppedRows DEF DropRows, ChainedInv, Typed, TypeOK
  <2>2. \A i \in 1..committed : rows'[i].prev = LastId(i - 1)'
    BY <2>1 DEF ChainedInv, Linked, LastId
  <2> QED BY <1>2, <2>1, <2>2 DEF Linked
<1> QED BY <1>1, <1>2

LEMMA ChainedStep ==
    ASSUME Shapes \subseteq ChainedShapes, ChainedInv, [Next]_auditVars
    PROVE  ChainedInv'
<1> DEFINE Kept == OnlyHoldersRead' /\ Linked'
<1> USE DEF ChainedInv, OnlyHoldersRead, Typed, TypeOK
<1>1. Typed'
  BY TypedStep
<1>2. ASSUME UNCHANGED <<rows, committed, dbLock, prev, open, todo>>
      PROVE  Kept
  BY <1>2 DEF ClosedHoldNothing, OthersHaveNotBegun, ReadersHoldTheLock,
              FreeMeansCommitted, Linked, LastId
<1>3. ASSUME NEW w \in Writers, Begin(w) PROVE Kept
  <2> USE <1>3 DEF Begin
  <2>1. Linked' /\ ReadersHoldTheLock'
    BY DEF Linked, ReadersHoldTheLock, LastId
  <2>2. ClosedHoldNothing' /\ FreeMeansCommitted'
    BY DEF ClosedHoldNothing, FreeMeansCommitted
  <2>3. OthersHaveNotBegun'
    BY DEF OthersHaveNotBegun
  <2> QED BY <2>1, <2>2, <2>3
<1>4. ASSUME NEW w \in Writers, Write(w) PROVE Kept
  <2> USE <1>4 DEF Write, CanWrite, NextIs
  <2>1. \A v \in Writers : prev[v] # Nobody => v = w
    BY AuditAssumption DEF ReadersHoldTheLock
  <2>2. Linked'
    BY DEF Linked, LastId
  <2>3. ReadersHoldTheLock'
    BY <2>1 DEF ReadersHoldTheLock, LastId
  <2>4. ClosedHoldNothing'
    BY DEF ClosedHoldNothing
  <2>5. FreeMeansCommitted'
    BY AuditAssumption DEF FreeMeansCommitted
  <2>6. OthersHaveNotBegun'
    <3> SUFFICES ASSUME NEW v \in open, v # w PROVE todo'[v] \in ChainedShapes
      BY DEF OthersHaveNotBegun
    <3>1. dbLock # v /\ todo'[v] = todo[v]
      BY AuditAssumption
    <3> QED BY <3>1 DEF OthersHaveNotBegun
  <2> QED BY <2>2, <2>3, <2>4, <2>5, <2>6
<1>5. ASSUME NEW w \in Writers, AppendRead(w) \/ DirtyRead(w) PROVE Kept
  <2> USE DEF NextIs
  <2>1. CanWrite(w) /\ dbLock' = w
    <3>1. CASE AppendRead(w)
      BY <3>1, ShapeFacts DEF AppendRead, CanWrite, OthersHaveNotBegun, AllShapes
    <3>2. CASE DirtyRead(w)
      BY <3>2 DEF DirtyRead
    <3> QED BY <1>5, <3>1, <3>2
  <2>2. /\ prev' = [prev EXCEPT ![w] = LastId(Len(rows))]
        /\ w \in open
        /\ UNCHANGED <<rows, committed, open, todo>>
    <3>1. CASE AppendRead(w)
      BY <2>1, <3>1 DEF AppendRead, Visible
    <3>2. CASE DirtyRead(w)
      BY <3>2 DEF DirtyRead, Flushing
    <3> QED BY <1>5, <3>1, <3>2
  <2>3. \A v \in Writers : v # w => prev[v] = Nobody
    BY <2>1, AuditAssumption DEF CanWrite, ReadersHoldTheLock
  <2>4. Linked'
    BY <2>2 DEF Linked, LastId
  <2>5. ReadersHoldTheLock'
    BY <2>1, <2>2, <2>3 DEF ReadersHoldTheLock, LastId
  <2>6. ClosedHoldNothing' /\ FreeMeansCommitted'
    BY <2>1, <2>2, AuditAssumption DEF ClosedHoldNothing, FreeMeansCommitted
  <2>7. OthersHaveNotBegun'
    BY <2>1, <2>2, AuditAssumption DEF CanWrite, OthersHaveNotBegun
  <2> QED BY <2>4, <2>5, <2>6, <2>7
<1>6. ASSUME NEW w \in Writers, AppendInsert(w) PROVE Kept
  <2> USE <1>6 DEF AppendInsert
  <2>1. w \in open /\ dbLock = w /\ prev[w] = LastId(Len(rows))
    BY DEF ClosedHoldNothing, ReadersHoldTheLock
  <2>2. \A v \in Writers : v # w => prev'[v] = prev[v] /\ prev[v] = Nobody
    BY <2>1 DEF ReadersHoldTheLock
  <2>3. Linked'
    BY <2>1 DEF Linked, LastId
  <2>4. ReadersHoldTheLock'
    BY <2>2 DEF ReadersHoldTheLock
  <2>5. ClosedHoldNothing' /\ OthersHaveNotBegun' /\ FreeMeansCommitted'
    BY <2>1, AuditAssumption DEF ClosedHoldNothing, OthersHaveNotBegun,
                                 FreeMeansCommitted
  <2> QED BY <2>3, <2>4, <2>5
<1>7. ASSUME NEW w \in Writers, Commit(w) PROVE Kept
  <2>1. \/ dbLock = w /\ committed' = Len(rows')
        \/ dbLock # w /\ UNCHANGED <<rows, committed>>
    BY <1>7 DEF Commit
  <2>2. Leave(w, "committed")
    BY <1>7 DEF Commit
  <2>3. OnlyHoldersRead'
    BY <2>1, <2>2, LeaveExclusive
  <2>4. Linked'
    BY <1>7 DEF Commit, Linked, LastId
  <2> QED BY <2>3, <2>4
<1>8. ASSUME NEW w \in Writers, NEW how, DropRows(w), Leave(w, how),
             UNCHANGED committed
      PROVE  Kept
  BY <1>8, DropLinked, LeaveExclusive
<1>9. ASSUME NEW w \in Writers, Rollback(w) \/ TimeOut(w) \/ WrongLoop(w)
      PROVE  Kept
  BY <1>8, <1>9 DEF Rollback, TimeOut, WrongLoop
<1>10. ASSUME NEW w \in Writers, BindLoop(w) \/ DirtyLock(w) PROVE Kept
  BY <1>2, <1>10 DEF BindLoop, DirtyLock
<1>11. ASSUME NEW d \in Processes, Crash(d) PROVE Kept
  <2> DEFINE gone == {w \in Writers : Home[w] = d}
  <2> USE <1>11 DEF Crash
  <2>1. ASSUME dbLock \in gone
        PROVE  /\ dbLock' = Nobody
               /\ Len(rows') = committed /\ committed \in 0..Len(rows)
               /\ \A i \in 1..committed : rows'[i] = rows[i]
    BY <2>1, DroppedRows
  <2>2. ASSUME dbLock \notin gone PROVE UNCHANGED <<rows, dbLock>>
    BY <2>2
  <2>3. Linked'
    BY <2>1, <2>2 DEF Linked, LastId
  <2>4. \A v \in Writers :
            prev'[v] # Nobody => prev'[v] = prev[v] /\ v \notin gone
    OBVIOUS
  <2>5. ReadersHoldTheLock'
    BY <2>2, <2>4 DEF ReadersHoldTheLock, LastId
  <2>6. ClosedHoldNothing'
    BY <2>1, <2>2, AuditAssumption DEF ClosedHoldNothing
  <2>7. OthersHaveNotBegun'
    BY <2>2 DEF OthersHaveNotBegun, ClosedHoldNothing
  <2>8. FreeMeansCommitted'
    BY <2>1, <2>2 DEF FreeMeansCommitted
  <2> QED BY <2>3, <2>5, <2>6, <2>7, <2>8
<1>12. ASSUME UNCHANGED auditVars PROVE Kept
  BY <1>2, <1>12 DEF auditVars
<1>13. ASSUME NEW w \in Writers, Begin(w) \/ Step(w) \/ Rollback(w) PROVE Kept
  BY <1>3, <1>4, <1>5, <1>6, <1>7, <1>9, <1>10, <1>13 DEF Step
<1> QED BY <1>1, <1>11, <1>12, <1>13 DEF Next

(***************************************************************************)
(* Where every transaction writes a row before it appends, or leaves a     *)
(* changed object for append_event to flush, the chain `gekko audit        *)
(* verify` walks is intact, whatever is rolled back, timed out or killed:  *)
(* the write lock stands in for the lock append_event releases too early.  *)
(***************************************************************************)
THEOREM LockedReadsChain ==
    ASSUME Shapes \subseteq ChainedShapes
    PROVE  Spec => []ChainIntact
<1>1. ChainedInv /\ [Next]_auditVars => ChainedInv'
  BY ChainedStep
<1>2. ChainedInv => ChainIntact
  BY DEF ChainedInv, Linked, ChainIntact, WalkChain
<1> QED BY InitChained, <1>1, <1>2, PTL DEF Spec

-----------------------------------------------------------------------------
(* Transactions of every shape.  Here the chain does fork, but a hash that *)
(* somebody holds is still one of an event he can see.                     *)

SeesWhatItRead ==
    \A w \in Writers :
        \/ prev[w] \in {Genesis, Nobody}
        \/ \E j \in 1..Visible(w) : prev[w] = rows[j].id

BackwardsInv == /\ Typed
                /\ LinksBackwards
                /\ SeesWhatItRead

LEMMA InitBackwards == Init => BackwardsInv
BY InitTyped DEF Init, BackwardsInv, LinksBackwards, SeesWhatItRead

\* Rows that stay where they are keep their links: the table may grow by one
\* row that links backwards itself, or shrink to the last commit.
LEMMA KeptRows ==
    ASSUME BackwardsInv, NEW n \in 0..Len(rows), Len(rows') >= n,
           \A i \in 1..n : rows'[i] = rows[i]
    PROVE  \A i \in 1..n : \/ rows'[i].prev = Genesis
                           \/ \E j \in 1..(i - 1) : rows'[i].prev = rows'[j].id
<1> SUFFICES ASSUME NEW i \in 1..n, rows[i].prev # Genesis
             PROVE  \E j \in 1..(i - 1) : rows'[i].prev = rows'[j].id
  OBVIOUS
<1>1. PICK j \in 1..(i - 1) : rows[i].prev = rows[j].id
  BY DEF BackwardsInv, LinksBackwards, Typed, TypeOK
<1>2. rows'[i].prev = rows'[j].id
  BY <1>1
<1> QED BY <1>2

\* Dropping the rows past the last commit leaves all committed links.
LEMMA DropBackwards ==
    ASSUME BackwardsInv, rows' = SubSeq(rows, 1, committed)
    PROVE  /\ LinksBackwards'
           /\ Len(rows') = committed
           /\ \A j \in 1..committed : rows'[j] = rows[j]
<1>1. /\ Len(rows') = committed /\ committed \in 0..Len(rows)
      /\ \A j \in 1..committed : rows'[j] = rows[j]
  BY DroppedRows DEF BackwardsInv, Typed, TypeOK
<1> QED BY <1>1, KeptRows DEF LinksBackwards

LEMMA BackwardsStep ==
    ASSUME BackwardsInv, [Next]_auditVars
    PROVE  LinksBackwards' /\ SeesWhatItRead'
<1> DEFINE Kept == LinksBackwards' /\ SeesWhatItRead'
<1> USE DEF BackwardsInv, Typed, TypeOK
<1>1. ASSUME UNCHANGED rows,
             \A v \in Writers : prev'[v] = prev[v] \/ prev'[v] = Nobody,
             \A v \in Writers : prev'[v] # Nobody => Visible(v)' >= Visible(v),
             \A v \in Writers : Visible(v)' \in Nat
      PROVE  Kept
  <2>1. LinksBackwards'
    BY <1>1 DEF LinksBackwards
  <2>2. \A v \in Writers : Visible(v) \in Nat
    BY DEF Visible
  <2>3. SeesWhatItRead'
    <3> SUFFICES ASSUME NEW v \in Writers, prev'[v] \notin {Genesis, Nobody}
                 PROVE  \E j \in 1..Visible(v)' : prev'[v] = rows'[j].id
      BY DEF SeesWhatItRead
    <3>1. PICK j \in 1..Visible(v) : prev[v] = rows[j].id
      BY <1>1 DEF SeesWhatItRead
    <3>2. j \in 1..Visible(v)'
      BY <1>1, <2>2
    <3> QED BY <1>1, <3>1, <3>2
  <2> QED BY <2>1, <2>3
<1>2. ASSUME NEW w \in Writers, Begin(w) \/ BindLoop(w) \/ DirtyLock(w)
      PROVE  Kept
  BY <1>1, <1>2 DEF Begin, BindLoop, DirtyLock, Visible
<1>3. ASSUME NEW w \in Writers, Write(w) PROVE Kept
  BY <1>1, <1>3, AuditAssumption DEF Write, CanWrite, Visible
<1>4. ASSUME NEW w \in Writers, AppendRead(w) \/ DirtyRead(w) PROVE Kept
  <2>1. /\ UNCHANGED rows
        /\ prev' = [prev EXCEPT ![w] = LastId(Visible(w)')]
    BY <1>4 DEF AppendRead, DirtyRead, Visible
  <2>2. \A v \in Writers :
            /\ Visible(v) \in Nat
            /\ v # w => Visible(v)' = Visible(v)
    BY <1>4, AuditAssumption DEF AppendRead, DirtyRead, CanWrite, Visible
  <2>3. Visible(w)' \in 0..Len(rows)
    BY <1>4 DEF AppendRead, DirtyRead, Visible
  <2>4. LinksBackwards'
    BY <2>1 DEF LinksBackwards
  <2>5. \/ prev'[w] = Genesis
        \/ \E j \in 1..Visible(w)' : prev'[w] = rows[j].id
    BY <2>1, <2>3 DEF LastId
  <2> QED BY <2>1, <2>2, <2>4, <2>5 DEF SeesWhatItRead
<1>5. ASSUME NEW w \in Writers, AppendInsert(w) PROVE Kept
  <2>1. /\ Len(rows') = Len(rows) + 1
        /\ \A i \in 1..Len(rows) : rows'[i] = rows[i]
        /\ rows'[Len(rows) + 1].prev = prev[w]
    BY <1>5 DEF AppendInsert
  <2>2. /\ Visible(w) \in 0..Len(rows)
        /\ prev[w] = Genesis \/ \E j \in 1..Visible(w) : prev[w] = rows[j].id
    BY <1>5 DEF AppendInsert, SeesWhatItRead, Visible
  <2>3. LinksBackwards'
    <3>1. \A i \in 1..Len(rows) :
              \/ rows'[i].prev = Genesis
              \/ \E j \in 1..(i - 1) : rows'[i].prev = rows'[j].id
      <4>1. PICK n \in 0..Len(rows) : n = Len(rows)
        OBVIOUS
      <4>2. Len(rows') >= n /\ \A i \in 1..n : rows'[i] = rows[i]
        BY <2>1, <4>1
      <4> HIDE DEF BackwardsInv, Typed, TypeOK
      <4>3. \A i \in 1..n : \/ rows'[i].prev = Genesis
                            \/ \E j \in 1..(i - 1) : rows'[i].prev = rows'[j].id
        BY <4>2, KeptRows
      <4> QED BY <4>1, <4>3
    <3>2. \/ rows'[Len(rows) + 1].prev = Genesis
          \/ \E j \in 1..Len(rows) : rows'[Len(rows) + 1].prev = rows'[j].id
      BY <2>1, <2>2
    <3>3. \A i \in 1..Len(rows') : i \in 1..Len(rows) \/ i = Len(rows) + 1
      BY <2>1
    <3>4. (Len(rows) + 1) - 1 = Len(rows)
      OBVIOUS
    <3> HIDE DEF BackwardsInv, Typed, TypeOK
    <3> QED BY <3>1, <3>2, <3>3, <3>4 DEF LinksBackwards
  <2>4. \A v \in Writers :
            v # w => prev'[v] = prev[v] /\ Visible(v)' = Visible(v)
    BY <1>5, AuditAssumption DEF AppendInsert, CanWrite, Visible
  <2>5. prev'[w] = Nobody
    BY <1>5 DEF AppendInsert
  <2>6. \A v \in Writers : Visible(v) \in 0..Len(rows)
    BY DEF Visible
  <2>7. SeesWhatItRead'
    <3> SUFFICES ASSUME NEW v \in Writers, prev'[v] \notin {Genesis, Nobody}
                 PROVE  \E j \in 1..Visible(v)' : prev'[v] = rows'[j].id
      BY DEF SeesWhatItRead
    <3>1. prev'[v] = prev[v] /\ Visible(v)' = Visible(v)
      BY <2>4, <2>5
    <3>2. PICK j \in 1..Visible(v) : prev[v] = rows[j].id
      BY <3>1 DEF SeesWhatItRead
    <3>3. rows'[j] = rows[j]
      BY <2>1, <2>6
    <3> QED BY <3>1, <3>2, <3>3
  <2> QED BY <2>3, <2>7
<1>6. ASSUME NEW w \in Writers, Commit(w) PROVE Kept
  <2>1. \A v \in Writers : v # w => Visible(v)' >= Visible(v)
    BY <1>6, AuditAssumption DEF Commit, Leave, Visible
  <2>2. \A v \in Writers : Visible(v)' \in Nat
    BY <1>6 DEF Commit, Leave, Visible
  <2>3. /\ prev'[w] = Nobody
        /\ \A v \in Writers : v # w => prev'[v] = prev[v]
    BY <1>6 DEF Commit, Leave
  <2>4. UNCHANGED rows
    BY <1>6 DEF Commit
  <2> QED BY <1>1, <2>1, <2>2, <2>3, <2>4
<1>7. ASSUME NEW w \in Writers, NEW how, DropRows(w), Leave(w, how),
             UNCHANGED committed
      PROVE  Kept
  <2>1. /\ prev'[w] = Nobody
        /\ \A v \in Writers : v # w => prev'[v] = prev[v]
        /\ \A v \in Writers : Visible(v) \in 0..Len(rows)
    BY <1>7 DEF Leave, Visible
  <2>2. CASE dbLock # w
    <3>1. UNCHANGED <<rows, dbLock>>
      BY <1>7, <2>2 DEF DropRows, Leave
    <3> QED BY <1>1, <1>7, <2>1, <3>1 DEF Visible
  <2>3. CASE dbLock = w
    <3>1. rows' = SubSeq(rows, 1, committed) /\ dbLock' = Nobody
      BY <1>7, <2>3 DEF DropRows, Leave
    <3>2. \A v \in Writers : v # w => Visible(v) = committed
                                     /\ Visible(v)' = committed
      BY <1>7, <2>3, <3>1, AuditAssumption DEF Visible
    <3> QED BY <2>1, <3>1, <3>2, DropBackwards DEF SeesWhatItRead
  <2> QED BY <2>2, <2>3
<1>8. ASSUME NEW w \in Writers, Rollback(w) \/ TimeOut(w) \/ WrongLoop(w)
      PROVE  Kept
  BY <1>7, <1>8 DEF Rollback, TimeOut, WrongLoop
<1>9. ASSUME NEW d \in Processes, Crash(d) PROVE Kept
  <2>1. /\ UNCHANGED committed
        /\ \A v \in Writers : \/ prev'[v] = Nobody
                              \/ prev'[v] = prev[v] /\ Home[v] # d
    <3>1. ASSUME NEW v \in Writers, Home[v] = d PROVE prev'[v] = Nobody
      BY <1>9, <3>1 DEF Crash
    <3>2. ASSUME NEW v \in Writers, Home[v] # d PROVE prev'[v] = prev[v]
      BY <1>9, <3>2 DEF Crash
    <3>3. UNCHANGED committed
      BY <1>9 DEF Crash
    <3> QED BY <3>1, <3>2, <3>3
  <2>2. CASE dbLock \in Writers /\ Home[dbLock] = d
    <3>1. rows' = SubSeq(rows, 1, committed) /\ dbLock' = Nobody
      BY <1>9, <2>2 DEF Crash
    <3>2. \A v \in Writers : Home[v] # d => Visible(v) = committed
                                           /\ Visible(v)' = committed
      BY <2>1, <2>2, <3>1, AuditAssumption DEF Visible
    <3> QED BY <2>1, <3>1, <3>2, DropBackwards DEF SeesWhatItRead
  <2>3. CASE ~(dbLock \in Writers /\ Home[dbLock] = d)
    <3>1. UNCHANGED <<rows, dbLock>>
      BY <1>9, <2>3 DEF Crash
    <3> QED BY <1>1, <2>1, <3>1 DEF Visible
  <2> QED BY <2>2, <2>3
<1>10. ASSUME UNCHANGED auditVars PROVE Kept
  BY <1>1, <1>10 DEF auditVars, Visible
<1>11. ASSUME NEW w \in Writers, Begin(w) \/ Step(w) \/ Rollback(w) PROVE Kept
  BY <1>2, <1>3, <1>4, <1>5, <1>6, <1>8, <1>11 DEF Step
<1> QED BY <1>9, <1>10, <1>11 DEF Next

(***************************************************************************)
(* Whatever the transactions, no link names an event that is not in the    *)
(* table before it: the hash of a rolled back event is never linked to.    *)
(***************************************************************************)
THEOREM NothingDangles == Spec => []LinksBackwards
<1>1. BackwardsInv /\ [Next]_auditVars => BackwardsInv'
  BY TypedStep, BackwardsStep DEF BackwardsInv
<1>2. BackwardsInv => LinksBackwards
  BY DEF BackwardsInv
<1> QED BY InitBackwards, <1>1, <1>2, PTL DEF Spec
-----------------------------------------------------------------------------
(* Events and outcomes.  The rows past the last commit are those of the    *)
(* holder's open transaction; an open transaction has logged exactly the   *)
(* events it has no longer to run; and what an ended one has logged stays. *)

RowsAreBegun == \A i \in 1..Len(rows) : rows[i].id[2] <= begun[rows[i].id[1]]
CommittedAreOver ==
    \A i \in 1..committed :
        rows[i].id[1] \in open => rows[i].id[2] < begun[rows[i].id[1]]
UncommittedAreHolders ==
    \A i \in 1..Len(rows) :
        i > committed => /\ dbLock \in open
                         /\ rows[i].id[1] = dbLock
                         /\ rows[i].id[2] = begun[dbLock]
HoldersAreOpen == dbLock # Nobody => dbLock \in open
OpenHaveLogged ==
    \A w \in open :
        /\ Logged(rows, w, begun[w]) = EventsOf(doing[w]) \ EventsOf(todo[w])
        /\ EventsOf(todo[w]) \subseteq EventsOf(doing[w])
EndedAreOver ==
    \A e \in ended : /\ e.number <= begun[e.writer]
                     /\ e.writer \in open => e.number < begun[e.writer]

Whole == /\ RowsAreBegun
         /\ CommittedAreOver
         /\ UncommittedAreHolders
         /\ HoldersAreOpen
         /\ OpenHaveLogged
         /\ EndedAreOver
         /\ AllOrNothing

WholeInv == Typed /\ Whole

LEMMA RowTypes ==
    ASSUME Typed, NEW i \in 1..Len(rows)
    PROVE  /\ rows[i].id[1] \in Writers
           /\ rows[i].id[2] \in Nat
           /\ rows[i].id[3] \in Nat
<1>1. rows[i] \in Event
  BY DEF Typed, TypeOK
<1>2. rows[i].id \in Writers \X Nat \X Nat
  BY <1>1 DEF Event, Ids
<1> QED BY <1>2

LEMMA InLogged ==
    \A w, k, x : x \in Logged(rows, w, k) <=>
        \E i \in 1..Len(rows) : /\ rows[i].id[1] = w
                                /\ rows[i].id[2] = k
                                /\ rows[i].id[3] = x
BY DEF Logged

\* The events still to come after the first statement of what is left.
LEMMA EventsOfTail ==
    ASSUME NEW s \in Seq(Statements), s # <<>>
    PROVE  /\ Head(s) = "dml" => EventsOf(Tail(s)) = EventsOf(s)
           /\ Head(s) # "dml" => EventsOf(s) = EventsOf(Tail(s)) \cup {Len(s)}
           /\ Len(s) \notin EventsOf(Tail(s))
           /\ EventsOf(s) \subseteq Nat
<1>1. /\ Len(Tail(s)) = Len(s) - 1 /\ Len(s) \in Nat /\ Len(s) > 0
      /\ \A j \in 1..(Len(s) - 1) : Tail(s)[j] = s[j + 1]
      /\ Head(s) = s[1] /\ s[1] \in Statements
  BY HeadTailProperties, EmptySeq
<1>2. \A n \in 1..(Len(s) - 1) :
          Tail(s)[Len(Tail(s)) - n + 1] = s[Len(s) - n + 1]
  <2> SUFFICES ASSUME NEW n \in 1..(Len(s) - 1)
               PROVE  Tail(s)[Len(Tail(s)) - n + 1] = s[Len(s) - n + 1]
    OBVIOUS
  <2>1. /\ Len(Tail(s)) - n + 1 \in 1..(Len(s) - 1)
        /\ (Len(Tail(s)) - n + 1) + 1 = Len(s) - n + 1
    BY <1>1
  <2> QED BY <1>1, <2>1
<1>3. \A n : n \in EventsOf(Tail(s)) <=> n \in EventsOf(s) /\ n # Len(s)
  BY <1>1, <1>2 DEF EventsOf
<1>4. Len(s) \in EventsOf(s) <=> Head(s) # "dml"
  <2>1. Len(s) - Len(s) + 1 = 1 /\ Len(s) \in 1..Len(s)
    BY <1>1
  <2> QED BY <1>1, <2>1 DEF EventsOf, Statements
<1>5. EventsOf(s) \subseteq Nat
  BY <1>1 DEF EventsOf
<1> QED BY <1>3, <1>4, <1>5

LEMMA NoEvents == EventsOf(<<>>) = {}
BY DEF EventsOf

LEMMA InitWhole == Init => WholeInv
<1> SUFFICES ASSUME Init PROVE Whole
  BY InitTyped DEF WholeInv
<1> QED
  BY DEF Init, Whole, RowsAreBegun, CommittedAreOver, UncommittedAreHolders,
         HoldersAreOpen, OpenHaveLogged, EndedAreOver, AllOrNothing

\* A transaction that fails takes its rows with it, and no others.
LEMMA FailedRows ==
    ASSUME WholeInv, NEW gone \in SUBSET Writers,
           rows' = IF dbLock \in gone THEN SubSeq(rows, 1, committed) ELSE rows
    PROVE  /\ Len(rows') \in committed..Len(rows)
           /\ dbLock \in gone => Len(rows') = committed
           /\ \A i \in 1..Len(rows') : rows'[i] = rows[i]
           /\ \A w \in open \cap gone : Logged(rows', w, begun[w]) = {}
           /\ \A w \in Writers, k \in Nat :
                  ~(w \in open \cap gone /\ k = begun[w])
                      => Logged(rows', w, k) = Logged(rows, w, k)
<1> USE DEF WholeInv, Whole
<1>1. /\ Len(rows') \in committed..Len(rows)
      /\ dbLock \in gone => Len(rows') = committed
      /\ dbLock \notin gone => rows' = rows
      /\ \A i \in 1..Len(rows') : rows'[i] = rows[i]
      /\ committed \in 0..Len(rows)
  BY DroppedRows DEF Typed, TypeOK
<1>2. \A w, k, x : x \in Logged(rows', w, k) <=>
          \E i \in 1..Len(rows') : /\ rows[i].id[1] = w
                                   /\ rows[i].id[2] = k
                                   /\ rows[i].id[3] = x
  BY <1>1 DEF Logged
<1>3. ASSUME NEW w \in open \cap gone PROVE Logged(rows', w, begun[w]) = {}
  <2> SUFFICES ASSUME NEW i \in 1..Len(rows'),
                      rows[i].id[1] = w, rows[i].id[2] = begun[w]
               PROVE  FALSE
    BY <1>2
  <2>1. i \in 1..Len(rows) /\ begun[w] \in Nat
    BY <1>1 DEF Typed, TypeOK
  <2>2. i > committed
    BY <1>1, <2>1 DEF CommittedAreOver
  <2>3. dbLock = w
    BY <2>1, <2>2 DEF UncommittedAreHolders
  <2> QED BY <1>1, <2>2, <2>3
<1>4. ASSUME NEW w \in Writers, NEW k \in Nat,
             ~(w \in open \cap gone /\ k = begun[w])
      PROVE  Logged(rows', w, k) = Logged(rows, w, k)
  <2>1. CASE dbLock \notin gone
    BY <1>1, <2>1 DEF Logged
  <2>2. CASE dbLock \in gone
    <3>1. \A i \in 1..Len(rows) :
              rows[i].id[1] = w /\ rows[i].id[2] = k => i \in 1..committed
      BY <1>1, <1>4, <2>2 DEF UncommittedAreHolders
    <3>2. \A x : x \in Logged(rows', w, k) <=> x \in Logged(rows, w, k)
      BY <1>1, <1>2, <2>2, <3>1, InLogged
    <3> QED BY <3>2
  <2> QED BY <2>1, <2>2
<1> QED BY <1>1, <1>3, <1>4

LEMMA FailedWhole ==
    ASSUME WholeInv, NEW gone \in SUBSET Writers, NEW how, how # "committed",
           rows' = IF dbLock \in gone THEN SubSeq(rows, 1, committed) ELSE rows,
           dbLock' = IF dbLock \in gone THEN Nobody ELSE dbLock,
           open' = open \ gone,
           ended' = ended \cup {End(w, how) : w \in open \cap gone},
           \A w \in Writers \ gone : todo'[w] = todo[w] /\ doing'[w] = doing[w],
           UNCHANGED <<committed, begun>>
    PROVE  Whole'
<1> USE DEF WholeInv, Whole
<1>1. /\ Len(rows') \in committed..Len(rows)
      /\ dbLock \in gone => Len(rows') = committed
      /\ \A i \in 1..Len(rows') : rows'[i] = rows[i]
      /\ \A w \in open \cap gone : Logged(rows', w, begun[w]) = {}
      /\ \A w \in Writers, k \in Nat :
             ~(w \in open \cap gone /\ k = begun[w])
                 => Logged(rows', w, k) = Logged(rows, w, k)
  BY FailedRows
<1>2. /\ committed \in Nat /\ Len(rows) \in Nat /\ open \subseteq Writers
      /\ \A w \in Writers : begun[w] \in Nat
      /\ ended \subseteq Ending
  BY DEF Typed, TypeOK
<1>3. RowsAreBegun'
  BY <1>1, <1>2 DEF RowsAreBegun
<1>4. CommittedAreOver'
  BY <1>1, <1>2 DEF CommittedAreOver
<1>5. UncommittedAreHolders'
  <2>1. CASE dbLock \in gone
    BY <1>1, <1>2, <2>1 DEF UncommittedAreHolders
  <2>2. CASE dbLock \notin gone
    BY <1>1, <1>2, <2>2 DEF UncommittedAreHolders
  <2> QED BY <2>1, <2>2
<1>6. HoldersAreOpen'
  BY DEF HoldersAreOpen
<1>7. OpenHaveLogged'
  <2> SUFFICES ASSUME NEW w \in open \ gone
               PROVE  /\ Logged(rows', w, begun[w]) =
                             EventsOf(doing'[w]) \ EventsOf(todo'[w])
                      /\ EventsOf(todo'[w]) \subseteq EventsOf(doing'[w])
    BY DEF OpenHaveLogged
  <2>1. Logged(rows', w, begun[w]) = Logged(rows, w, begun[w])
    BY <1>1, <1>2
  <2>2. todo'[w] = todo[w] /\ doing'[w] = doing[w]
    BY <1>2
  <2> QED BY <2>1, <2>2 DEF OpenHaveLogged
<1>8. EndedAreOver'
  BY <1>2 DEF EndedAreOver, End
<1>9. AllOrNothing'
  <2> SUFFICES ASSUME NEW e \in ended'
               PROVE  Logged(rows', e.writer, e.number) =
                          IF e.how = "committed" THEN EventsOf(e.shape) ELSE {}
    BY DEF AllOrNothing
  <2>1. CASE e \in ended
    <3>1. /\ e.writer \in Writers /\ e.number \in Nat
          /\ e.writer \in open => e.number # begun[e.writer]
      BY <1>2, <2>1 DEF Ending, EndedAreOver
    <3> QED BY <1>1, <2>1, <3>1 DEF AllOrNothing
  <2>2. CASE e \notin ended
    <3>1. PICK w \in open \cap gone : e = End(w, how)
      BY <2>2
    <3>2. e.writer = w /\ e.number = begun[w] /\ e.how = how
      BY <3>1 DEF End
    <3> QED BY <1>1, <3>2
  <2> QED BY <2>1, <2>2
<1> QED BY <1>3, <1>4, <1>5, <1>6, <1>7, <1>8, <1>9

LEMMA WholeStep ==
    ASSUME WholeInv, [Next]_auditVars
    PROVE  Whole'
<1> USE DEF WholeInv, Whole
<1>1. /\ committed \in 0..Len(rows) /\ Len(rows) \in Nat
      /\ open \subseteq Writers
      /\ \A w \in Writers : begun[w] \in Nat
      /\ ended \subseteq Ending
      /\ \A e \in ended : e.writer \in Writers /\ e.number \in Nat
  BY DEF Typed, TypeOK, Ending
\* Steps that leave the table and the set of open transactions alone.
<1>2. ASSUME UNCHANGED <<rows, committed, open, begun, doing, ended>>,
             dbLock' = dbLock \/ (dbLock \in {Nobody, dbLock'} /\ dbLock' \in open),
             \A w \in open : EventsOf(todo'[w]) = EventsOf(todo[w])
      PROVE  Whole'
  <2>1. \A w, k : Logged(rows', w, k) = Logged(rows, w, k)
    BY <1>2 DEF Logged
  <2>2. RowsAreBegun' /\ CommittedAreOver' /\ EndedAreOver' /\ AllOrNothing'
    BY <1>2, <2>1
       DEF RowsAreBegun, CommittedAreOver, EndedAreOver, AllOrNothing
  <2>3. UncommittedAreHolders' /\ HoldersAreOpen'
    BY <1>2, AuditAssumption
       DEF UncommittedAreHolders, HoldersAreOpen, Typed, TypeOK
  <2>4. OpenHaveLogged'
    BY <1>2, <2>1 DEF OpenHaveLogged
  <2> QED BY <2>2, <2>3, <2>4
<1>3. ASSUME NEW w \in Writers,
             AppendRead(w) \/ DirtyLock(w) \/ DirtyRead(w) \/ BindLoop(w)
      PROVE  Whole'
  <2>1. UNCHANGED <<rows, committed, open, begun, doing, todo, ended>>
    BY <1>3 DEF AppendRead, DirtyLock, DirtyRead, BindLoop
  <2>2. dbLock' = dbLock \/ (dbLock \in {Nobody, dbLock'} /\ dbLock' \in open)
    BY <1>3 DEF AppendRead, DirtyLock, DirtyRead, Flushing, NextIs, BindLoop,
                CanWrite
  <2> QED BY <1>2, <2>1, <2>2
<1>4. ASSUME NEW w \in Writers, Write(w) PROVE Whole'
  <2>1. todo[w] \in Seq(Statements) /\ todo[w] # <<>> /\ Head(todo[w]) = "dml"
    BY <1>4, RemainderIsSequence DEF Write, NextIs, Typed, TypeOK
  <2>2. EventsOf(Tail(todo[w])) = EventsOf(todo[w])
    BY <2>1, EventsOfTail
  <2>3. \A v \in open : EventsOf(todo'[v]) = EventsOf(todo[v])
    BY <1>1, <1>4, <2>2 DEF Write, Typed, TypeOK
  <2> QED BY <1>2, <1>4, <2>3 DEF Write, NextIs, CanWrite
<1>5. ASSUME NEW w \in Writers, Begin(w) PROVE Whole'
  <2> USE <1>5 DEF Begin
  <2>1. /\ \A v, k : Logged(rows', v, k) = Logged(rows, v, k)
        /\ begun'[w] = begun[w] + 1
        /\ \A v \in Writers : v # w => begun'[v] = begun[v]
    BY DEF Logged, Typed, TypeOK
  <2>2. dbLock # w
    BY AuditAssumption DEF HoldersAreOpen
  <2>3. RowsAreBegun' /\ CommittedAreOver'
    <3> SUFFICES ASSUME NEW i \in 1..Len(rows)
                 PROVE  /\ rows[i].id[2] <= begun'[rows[i].id[1]]
                        /\ i \in 1..committed /\ rows[i].id[1] \in open'
                               => rows[i].id[2] < begun'[rows[i].id[1]]
      BY <1>1 DEF RowsAreBegun, CommittedAreOver
    <3> QED BY <1>1, <2>1, RowTypes DEF RowsAreBegun, CommittedAreOver
  <2>4. UncommittedAreHolders' /\ HoldersAreOpen'
    BY <1>1, <2>1, <2>2 DEF UncommittedAreHolders, HoldersAreOpen
  <2>5. EndedAreOver' /\ AllOrNothing'
    BY <1>1, <2>1 DEF EndedAreOver, AllOrNothing
  <2>6. OpenHaveLogged'
    <3> SUFFICES ASSUME NEW v \in open'
                 PROVE  /\ Logged(rows', v, begun'[v]) =
                               EventsOf(doing'[v]) \ EventsOf(todo'[v])
                        /\ EventsOf(todo'[v]) \subseteq EventsOf(doing'[v])
      BY DEF OpenHaveLogged
    <3>1. CASE v = w
      <4>1. doing'[w] = todo'[w]
        BY DEF Typed, TypeOK
      <4>2. Logged(rows, w, begun'[w]) = {}
        BY <1>1, <2>1, InLogged DEF RowsAreBegun
      <4> QED BY <2>1, <3>1, <4>1, <4>2
    <3>2. CASE v # w
      <4>1. /\ v \in open /\ begun'[v] = begun[v]
            /\ todo'[v] = todo[v] /\ doing'[v] = doing[v]
        BY <1>1, <2>1, <3>2 DEF Typed, TypeOK
      <4> QED BY <2>1, <4>1 DEF OpenHaveLogged
    <3> QED BY <3>1, <3>2
  <2> QED BY <2>3, <2>4, <2>5, <2>6
<1>6. ASSUME NEW w \in Writers, AppendInsert(w) PROVE Whole'
  <2> DEFINE n == Len(todo[w])
  <2>1. /\ w \in open
        /\ todo[w] \in Seq(Statements) /\ todo[w] # <<>>
        /\ Head(todo[w]) # "dml"
    BY <1>6, RemainderIsSequence
       DEF AppendInsert, Typed, TypeOK, ReadersInsert, AppendIsNext, NextIs
  <2>2. /\ Len(rows') = Len(rows) + 1
        /\ \A i \in 1..Len(rows) : rows'[i] = rows[i]
        /\ rows'[Len(rows) + 1].id = <<w, begun[w], n>>
        /\ dbLock' = w /\ CanWrite(w)
        /\ UNCHANGED <<committed, open, begun, doing, ended>>
        /\ todo' = [todo EXCEPT ![w] = Tail(@)]
    BY <1>6 DEF AppendInsert, Typed, TypeOK
  <2>3. /\ rows'[Len(rows) + 1].id[1] = w
        /\ rows'[Len(rows) + 1].id[2] = begun[w]
        /\ rows'[Len(rows) + 1].id[3] = n
    BY <2>2
  <2>4. \A i \in 1..Len(rows') : i \in 1..Len(rows) \/ i = Len(rows) + 1
    BY <1>1, <2>2
  <2>5. RowsAreBegun' /\ CommittedAreOver'
    BY <1>1, <2>2, <2>3, <2>4 DEF RowsAreBegun, CommittedAreOver
  <2>6. UncommittedAreHolders' /\ HoldersAreOpen'
    BY <1>1, <2>1, <2>2, <2>3, <2>4, AuditAssumption
       DEF CanWrite, UncommittedAreHolders, HoldersAreOpen
  <2>7. \A v, k, x : x \in Logged(rows', v, k) <=>
            \/ x \in Logged(rows, v, k)
            \/ v = w /\ k = begun[w] /\ x = n
    <3>1. \A v, k, x : x \in Logged(rows', v, k) <=>
              \E i \in 1..Len(rows') : /\ rows'[i].id[1] = v
                                       /\ rows'[i].id[2] = k
                                       /\ rows'[i].id[3] = x
      BY DEF Logged
    <3>2. \A i \in 1..Len(rows) : i \in 1..Len(rows')
      BY <1>1, <2>2
    <3>3. Len(rows) + 1 \in 1..Len(rows')
      BY <1>1, <2>2
    <3> QED BY <2>2, <2>3, <2>4, <3>1, <3>2, <3>3, InLogged
  <2>8. EndedAreOver' /\ AllOrNothing'
    <3>1. EndedAreOver'
      BY <2>2 DEF EndedAreOver
    <3>2. ASSUME NEW e \in ended
          PROVE  Logged(rows', e.writer, e.number) = Logged(rows, e.writer, e.number)
      <4>1. ~(e.writer = w /\ e.number = begun[w])
        BY <1>1, <2>1 DEF EndedAreOver
      <4>2. \A x : x \in Logged(rows', e.writer, e.number)
                       <=> x \in Logged(rows, e.writer, e.number)
        BY <2>7, <4>1
      <4> QED BY <4>2
    <3> QED BY <2>2, <3>1, <3>2 DEF AllOrNothing
  <2>9. OpenHaveLogged'
    <3> SUFFICES ASSUME NEW v \in open
                 PROVE  /\ Logged(rows', v, begun[v]) =
                               EventsOf(doing[v]) \ EventsOf(todo'[v])
                        /\ EventsOf(todo'[v]) \subseteq EventsOf(doing[v])
      BY <2>2 DEF OpenHaveLogged
    <3>1. CASE v = w
      <4>1. todo'[w] = Tail(todo[w])
        BY <2>2 DEF Typed, TypeOK
      <4>2. /\ EventsOf(todo[w]) = EventsOf(Tail(todo[w])) \cup {n}
            /\ n \notin EventsOf(Tail(todo[w]))
        BY <2>1, EventsOfTail
      <4>3. \A x : x \in Logged(rows', w, begun[w])
                       <=> x \in Logged(rows, w, begun[w]) \/ x = n
        BY <2>7
      <4>4. /\ Logged(rows, w, begun[w]) = EventsOf(doing[w]) \ EventsOf(todo[w])
            /\ EventsOf(todo[w]) \subseteq EventsOf(doing[w])
        BY <2>1 DEF OpenHaveLogged
      <4>5. \A x : x \in Logged(rows', w, begun[w])
                       <=> x \in EventsOf(doing[w]) \ EventsOf(Tail(todo[w]))
        BY <4>2, <4>3, <4>4
      <4> QED BY <3>1, <4>1, <4>2, <4>4, <4>5
    <3>2. CASE v # w
      <4>1. todo'[v] = todo[v]
        BY <1>1, <2>2, <3>2 DEF Typed, TypeOK
      <4>2. \A x : x \in Logged(rows', v, begun[v]) <=> x \in Logged(rows, v, begun[v])
        BY <2>7, <3>2
      <4>3. Logged(rows', v, begun[v]) = Logged(rows, v, begun[v])
        BY <4>2
      <4> QED BY <4>1, <4>3 DEF OpenHaveLogged
    <3> QED BY <3>1, <3>2
  <2> QED BY <2>5, <2>6, <2>8, <2>9
<1>7. ASSUME NEW w \in Writers, Commit(w) PROVE Whole'
  <2>1. /\ w \in open /\ todo[w] = <<>>
        /\ committed' = IF dbLock = w THEN Len(rows) ELSE committed
        /\ open' = open \ {w}
        /\ dbLock' = IF dbLock = w THEN Nobody ELSE dbLock
        /\ ended' = ended \cup {End(w, "committed")}
        /\ \A v \in Writers : v # w => todo'[v] = todo[v] /\ doing'[v] = doing[v]
        /\ UNCHANGED <<rows, begun>>
    BY <1>7 DEF Commit, Leave, Typed, TypeOK
  <2>2. \A v, k : Logged(rows', v, k) = Logged(rows, v, k)
    BY <2>1 DEF Logged
  <2>3. RowsAreBegun'
    BY <2>1 DEF RowsAreBegun
  <2>4. CommittedAreOver'
    BY <1>1, <2>1 DEF CommittedAreOver, UncommittedAreHolders
  <2>5. UncommittedAreHolders' /\ HoldersAreOpen'
    BY <1>1, <2>1 DEF UncommittedAreHolders, HoldersAreOpen
  <2>6. OpenHaveLogged'
    BY <1>1, <2>1, <2>2 DEF OpenHaveLogged
  <2>7. /\ End(w, "committed").writer = w
        /\ End(w, "committed").number = begun[w]
        /\ End(w, "committed").shape = doing[w]
        /\ End(w, "committed").how = "committed"
    BY DEF End
  <2>8. EndedAreOver'
    BY <1>1, <2>1, <2>7 DEF EndedAreOver
  <2>9. Logged(rows, w, begun[w]) = EventsOf(doing[w])
    BY <2>1, NoEvents DEF OpenHaveLogged
  <2>10. AllOrNothing'
    BY <2>1, <2>2, <2>7, <2>9 DEF AllOrNothing
  <2> QED BY <2>3, <2>4, <2>5, <2>6, <2>8, <2>10
<1>8. ASSUME NEW w \in Writers, NEW how, how # "committed", w \in open,
             DropRows(w), Leave(w, how), UNCHANGED committed
      PROVE  Whole'
  <2>1. /\ rows' = IF dbLock \in {w} THEN SubSeq(rows, 1, committed) ELSE rows
        /\ dbLock' = IF dbLock \in {w} THEN Nobody ELSE dbLock
        /\ open' = open \ {w}
        /\ ended' = ended \cup {End(v, how) : v \in open \cap {w}}
        /\ \A v \in Writers \ {w} : todo'[v] = todo[v] /\ doing'[v] = doing[v]
        /\ UNCHANGED <<committed, begun>>
    BY <1>8 DEF DropRows, Leave, Typed, TypeOK
  <2> QED BY <1>8, <2>1, FailedWhole
<1>9. ASSUME NEW w \in Writers, Rollback(w) \/ TimeOut(w) \/ WrongLoop(w)
      PROVE  Whole'
  <2>1. w \in open
    BY <1>9 DEF Rollback, TimeOut, Waits, Flushing, WrongLoop, MustQueue, NextIs,
                Typed, ReadersInsert, AppendIsNext
  <2> QED BY <1>8, <1>9, <2>1 DEF Rollback, TimeOut, WrongLoop
<1>10. ASSUME NEW d \in Processes, Crash(d) PROVE Whole'
  <2> DEFINE gone == {w \in Writers : Home[w] = d}
  <2>1. /\ rows' = IF dbLock \in gone THEN SubSeq(rows, 1, committed) ELSE rows
        /\ dbLock' = IF dbLock \in gone THEN Nobody ELSE dbLock
        /\ open' = open \ gone
        /\ ended' = ended \cup {End(w, "crashed") : w \in open \cap gone}
        /\ \A w \in Writers \ gone : todo'[w] = todo[w] /\ doing'[w] = doing[w]
        /\ UNCHANGED <<committed, begun>>
    BY <1>10 DEF Crash
  <2>2. gone \in SUBSET Writers
    OBVIOUS
  <2> HIDE DEF gone
  <2> QED BY <2>1, <2>2, FailedWhole
<1>11. CASE UNCHANGED auditVars
  <2>1. /\ UNCHANGED <<rows, committed, open, begun, doing, ended>>
        /\ dbLock' = dbLock /\ todo' = todo
    BY <1>11 DEF auditVars
  <2> QED BY <1>2, <2>1
<1>12. ASSUME NEW w \in Writers, Begin(w) \/ Step(w) \/ Rollback(w) PROVE Whole'
  BY <1>3, <1>4, <1>5, <1>6, <1>7, <1>9, <1>12 DEF Step
<1> QED BY <1>10, <1>11, <1>12 DEF Next

(***************************************************************************)
(* Whatever the shapes, the locks, the loops and the crashes, a            *)
(* transaction that committed has all its events in the log and one that   *)
(* failed has none.                                                        *)
(***************************************************************************)
THEOREM LogIsWhole == Spec => []AllOrNothing
<1>1. WholeInv /\ [Next]_auditVars => WholeInv'
  BY TypedStep, WholeStep DEF WholeInv
<1>2. WholeInv => AllOrNothing
  BY DEF WholeInv, Whole
<1> QED BY InitWhole, <1>1, <1>2, PTL DEF Spec
=============================================================================
