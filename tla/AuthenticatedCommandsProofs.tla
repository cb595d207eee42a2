--------------------- MODULE AuthenticatedCommandsProofs ---------------------
(***************************************************************************)
(* Authenticated commands over the event store, for any number of          *)
(* invocations, events, crashes and failed statements. Between commands,   *)
(* and until one commits, the file is a log that replays and consists of   *)
(* whole transactions (Whole). While a command runs, memory, connection    *)
(* and runtime state are that log and what the command has appended        *)
(* (InTransaction, Progress). When a statement has failed they may differ, *)
(* and it is only known that the file has nothing of the command unless    *)
(* its COMMIT was tried (Failing).                                         *)
(***************************************************************************)
EXTENDS AuthenticatedCommands, FiniteSetTheorems, SequenceTheorems, TLAPS

AnEvent == Event(Attributed)

IsLog(log) ==
  /\ log \in Seq(AnEvent)
  /\ \A i \in 1..Len(log) : log[i].seq = i

\* The rows have exactly the events of the log.
Holds(rows, log) ==
  /\ IsLog(log)
  /\ rows.events = {log[i] : i \in 1..Len(log)}

\* A transaction's row says where its events are.
Spans(t, log) ==
  /\ t.first \in 1..t.last /\ t.last \in 1..Len(log)
  /\ t.count = t.last - t.first + 1
  /\ t.committed # None
  /\ \A i \in 1..Len(log) : log[i].tx = t.id <=> i \in t.first..t.last

Whole(rows, log) ==
  /\ Holds(rows, log) /\ Replays(log)
  /\ \A i \in 1..Len(log) : \E t \in rows.txs : t.id = log[i].tx
  /\ \A t \in rows.txs : Spans(t, log)

Stored == EventsOf(file)

\* The file has no acceptance of the invocation that is executed.
NotAccepted ==
  \A e \in file.events : e.says.what = "accepted" => e.says.invocation # current

Executing ==
  {"verify", "accept", "savepoint", "execute", "release", "evidence", "finalise"}

AtRest ==
  /\ active = None /\ savepoint = None
  /\ open /\ ~recoveryRequired => state = memory /\ memory = Stored /\ db = file
  /\ ~open => db = file

InTransaction ==
  /\ inSql /\ ~recoveryRequired
  /\ active \in ActiveTx /\ ~active.failed
  /\ active.base = Len(Stored) /\ active.base <= Len(memory)
  /\ \A i \in 1..active.base : memory[i] = Stored[i]
  /\ Holds(db, memory) /\ Replays(memory) /\ state = memory
  /\ \A i \in active.base + 1..Len(memory) : memory[i].tx = active.id
  /\ \E t \in db.txs : t.id = active.id /\ db.txs = file.txs \cup {t}
  /\ \A t \in file.txs : t.id # active.id

FailureRecorded ==
  \E i \in active.base + 1..Len(memory) : memory[i].says.what = "execution-failed"

SavepointOK ==
  /\ savepoint \in [rows : Rows(Attributed), base : Nat]
  /\ IsFiniteSet(savepoint.rows.events)
  /\ savepoint.base <= Len(memory)

\* What the command has done at each place.
Progress ==
  /\ pc # "verify" => NotAccepted
  /\ pc \in {"verify", "accept"} => Len(memory) = active.base
  /\ pc \notin {"verify", "accept"} =>
       /\ Len(memory) > active.base
       /\ memory[active.base + 1].says.what = "accepted"
       /\ memory[active.base + 1].says.invocation = current
       /\ \A i \in active.base + 2..Len(memory) : memory[i].says.what # "accepted"
  /\ Effects <= MaxEffects
  /\ FailureRecorded => pc = "finalise" /\ outcome = "failed"
  /\ pc = "finalise" => (outcome = "done" \/ (outcome = "failed" /\ FailureRecorded))
  /\ pc = "release" => outcome \in {"done", "failed"}
  /\ pc = "evidence" => outcome = "failed"
  /\ IF pc \in {"execute", "release"} THEN SavepointOK ELSE savepoint = None

Failing ==
  /\ outcome \in {"denied", "rolled-back"}
  /\ outcome = "rolled-back" /\ inSql => NotAccepted
  /\ pc = "restore" => active \in ActiveTx /\ SavepointOK

\* The caller of the command is waiting.
Occupied ==
  pc # "idle" =>
    /\ open /\ answer = None
    /\ request \in Request /\ current = request.envelope.invocation

Inv ==
  /\ TypeOK
  /\ Whole(file, Stored)
  /\ IsFiniteSet(db.events)
  /\ Occupied
  /\ pc = "begin" => ~recoveryRequired
  /\ pc \in {"idle", "begin"} => AtRest
  /\ pc \in Executing => InTransaction /\ Progress
  /\ pc \in {"restore", "abort"} => Failing
  /\ AnswerIsTrue

-----------------------------------------------------------------------------
(* Logs *)

\* A nonempty set of natural numbers has a smallest one.
LEMMA Least ==
  ASSUME NEW T \in SUBSET Nat, T # {}
  PROVE  \E x \in T : \A y \in T : x <= y
<1> DEFINE R == {p \in Nat \X Nat : p[1] < p[2]}
<1>1. \E x \in T : \A y \in T : <<y, x>> \notin R
  <2>1. IsWellFoundedOn(R, Nat)
    BY NatLessThanWellFounded DEF OpToRel
  <2> HIDE DEF R
  <2> QED BY <2>1, WFMin
<1>2. \A x, y \in Nat : y < x => <<y, x>> \in R
  OBVIOUS
<1> HIDE DEF R
<1>3. PICK x \in T : \A y \in T : <<y, x>> \notin R
  BY <1>1
<1>4. ASSUME NEW y \in T PROVE x <= y
  <2>1. x \in Nat /\ y \in Nat /\ ~ (y < x)
    BY <1>2, <1>3
  <2> QED BY <2>1
<1> QED BY <1>4

\* The rows of a log are finitely many, one for each place of the log, and
\* parseEventRows returns the log.
LEMMA HeldRows ==
  ASSUME NEW rows, NEW log, Holds(rows, log)
  PROVE  /\ IsFiniteSet(rows.events)
         /\ Cardinality(rows.events) = Len(log)
         /\ {e.seq : e \in rows.events} = 1..Len(log)
         /\ EventsOf(rows) = log
<1>1. Len(log) \in Nat /\ log \in [1..Len(log) -> AnEvent]
  BY LenProperties DEF Holds, IsLog
<1>2. rows.events = {log[i] : i \in 1..Len(log)} /\ \A i \in 1..Len(log) : log[i].seq = i
  BY DEF Holds, IsLog
<1>3. IsFiniteSet(1..Len(log)) /\ Cardinality(1..Len(log)) = Len(log)
  BY <1>1, FS_Interval
<1>4. log \in Bijection(1..Len(log), rows.events)
  BY <1>1, <1>2 DEF Bijection, Injection, Surjection, IsInjective
<1>5. IsFiniteSet(rows.events) /\ Cardinality(rows.events) = Len(log)
  BY <1>3, <1>4, FS_Bijection DEF ExistsBijection
<1>6. \A i \in 1..Len(log) : (CHOOSE e \in rows.events : e.seq = i) = log[i]
  BY <1>2
<1>7. EventsOf(rows) = [i \in 1..Len(log) |-> log[i]]
  BY <1>5, <1>6 DEF EventsOf
<1>8. {e.seq : e \in rows.events} = 1..Len(log)
  BY <1>2
<1> QED BY <1>1, <1>5, <1>7, <1>8

\* Rows whose chain has no gap are returned as a sequence.
LEMMA ChainedRows ==
  ASSUME NEW rows, rows.events \subseteq AnEvent, IsFiniteSet(rows.events), Chained(rows)
  PROVE  EventsOf(rows) \in Seq(AnEvent)
<1> DEFINE n == Cardinality(rows.events)
<1>1. n \in Nat
  BY FS_CardinalityType
<1>2. \A i \in 1..n : \E e \in rows.events : e.seq = i
  BY DEF Chained
<1>3. EventsOf(rows) \in [1..n -> AnEvent]
  BY <1>2 DEF EventsOf
<1> QED BY <1>1, <1>3, SeqDef

\* An event after the last one of a log makes a log, which replays if the
\* log does and the reducer accepts the event.
LEMMA LongerLog ==
  ASSUME NEW log, NEW e, IsLog(log), e \in AnEvent, e.seq = Len(log) + 1
  PROVE  /\ IsLog(Append(log, e))
         /\ Len(log) \in Nat /\ Len(Append(log, e)) = Len(log) + 1
         /\ \A i \in 1..Len(log) : Append(log, e)[i] = log[i]
         /\ Append(log, e)[Len(log) + 1] = e
         /\ Replays(log) /\ Applies(log, e) => Replays(Append(log, e))
         /\ \A rows : Holds(rows, log) =>
              Holds([rows EXCEPT !.events = @ \cup {e}], Append(log, e))
<1> DEFINE longer == Append(log, e)
<1>1. /\ log \in Seq(AnEvent) /\ longer \in Seq(AnEvent)
      /\ Len(log) \in Nat /\ Len(longer) = Len(log) + 1
      /\ \A i \in 1..Len(log) : longer[i] = log[i]
      /\ longer[Len(log) + 1] = e
  BY AppendProperties, LenProperties DEF IsLog
<1> HIDE DEF longer
<1>2. IsLog(longer)
  BY <1>1 DEF IsLog
<1>3. ASSUME NEW n \in 0..Len(log)
      PROVE  SubSeq(longer, 1, n) = SubSeq(log, 1, n)
  <2>1. \A i \in 1..n : log[i] \in AnEvent /\ longer[i] = log[i]
    BY <1>1, ElementOfSeq
  <2>2. /\ SubSeq(log, 1, n) \in Seq(AnEvent)
        /\ Len(SubSeq(log, 1, n)) = n
        /\ \A i \in 1..n : SubSeq(log, 1, n)[i] = log[i]
    BY <1>1, <2>1, SubSeqProperties, 1 \in Int, n \in Int
  <2>3. /\ SubSeq(longer, 1, n) \in Seq(AnEvent)
        /\ Len(SubSeq(longer, 1, n)) = n
        /\ \A i \in 1..n : SubSeq(longer, 1, n)[i] = longer[i]
    BY <1>1, <2>1, SubSeqProperties, 1 \in Int, n \in Int
  <2> QED BY <2>1, <2>2, <2>3, SeqEqual
<1>4. ASSUME Replays(log), Applies(log, e), NEW n \in 1..Len(longer)
      PROVE  AppliesAt(longer, n)
  <2>1. n - 1 \in 0..Len(log) /\ SubSeq(longer, 1, n - 1) = SubSeq(log, 1, n - 1)
    BY <1>1, <1>3
  <2>2. CASE n <= Len(log)
    <3>1. n \in 1..Len(log) /\ longer[n] = log[n]
      BY <1>1, <2>2
    <3> QED BY <1>4, <2>1, <3>1 DEF AppliesAt, Replays
  <2>3. CASE n = Len(log) + 1
    <3>1. SubSeq(log, 1, n - 1) = log
      BY <1>1, <2>3, SubSeqFull
    <3> QED BY <1>1, <1>4, <2>1, <2>3, <3>1 DEF AppliesAt
  <2> QED BY <1>1, <2>2, <2>3
<1>5. ASSUME NEW rows, Holds(rows, log)
      PROVE  Holds([rows EXCEPT !.events = @ \cup {e}], longer)
  <2>1. [rows EXCEPT !.events = @ \cup {e}].events
          = {longer[i] : i \in 1..Len(longer)}
    BY <1>1, <1>5 DEF Holds
  <2> QED BY <1>2, <2>1 DEF Holds
<1>6. Replays(log) /\ Applies(log, e) => Replays(longer)
  BY <1>4 DEF Replays
<1> QED BY <1>1, <1>2, <1>5, <1>6 DEF longer

\* rehydrate() applies the longest prefix that the reducer accepts.
LEMMA RehydratedLog ==
  ASSUME NEW log \in Seq(AnEvent)
  PROVE  /\ Rehydrated(log) \in Seq(AnEvent)
         /\ Replays(log) => Rehydrated(log) = log
<1> DEFINE Longest(k) ==
             /\ \A m \in 1..k : AppliesAt(log, m)
             /\ k < Len(log) => ~AppliesAt(log, k + 1)
           n == CHOOSE k \in 0..Len(log) : Longest(k)
<1>1. Len(log) \in Nat
  BY LenProperties
<1>2. \E k \in 0..Len(log) : Longest(k)
  <2>1. CASE Replays(log)
    BY <1>1, <2>1 DEF Replays
  <2>2. CASE ~Replays(log)
    <3> DEFINE T == {m \in 1..Len(log) : ~AppliesAt(log, m)}
    <3>1. T \in SUBSET Nat /\ T # {}
      BY <1>1, <2>2 DEF Replays
    <3> HIDE DEF T
    <3>2. PICK x \in T : \A y \in T : x <= y
      BY <3>1, Least
    <3>3. x \in 1..Len(log) /\ ~AppliesAt(log, x) /\ x - 1 \in 0..Len(log)
      BY <1>1 DEF T
    <3>4. ASSUME NEW m \in 1..x - 1 PROVE AppliesAt(log, m)
      <4>1. m \in 1..Len(log) /\ ~ (x <= m)
        BY <1>1, <3>3
      <4> QED BY <3>2, <4>1 DEF T
    <3>5. Longest(x - 1)
      <4>1. (x - 1) + 1 = x
        BY <3>3
      <4> QED BY <3>3, <3>4, <4>1
    <3> QED BY <3>3, <3>5
  <2> QED BY <2>1, <2>2
<1>3. n \in 0..Len(log) /\ Longest(n)
  BY <1>2
<1>4. Rehydrated(log) = SubSeq(log, 1, n)
  BY DEF Rehydrated
<1> HIDE DEF n
<1>5. Rehydrated(log) \in Seq(AnEvent)
  BY <1>1, <1>3, <1>4, ElementOfSeq, SubSeqProperties, 1 \in Int, n \in Int
<1>6. ASSUME Replays(log) PROVE Rehydrated(log) = log
  <2>1. n = Len(log)
    BY <1>1, <1>3, <1>6 DEF Replays
  <2> QED BY <1>4, <2>1, SubSeqFull
<1> QED BY <1>5, <1>6

\* What verifyTransactionRows asks of the rows holds of whole transactions
\* that committed no earlier than they started.
LEMMA WholeVerifies ==
  ASSUME NEW rows, NEW log, Whole(rows, log), rows \in Rows(Attributed),
         \A t \in rows.txs : t.committed # None => t.started <= t.committed
  PROVE  Verified(rows)
<1>1. /\ Holds(rows, log) /\ Len(log) \in Nat
      /\ Cardinality(rows.events) = Len(log)
      /\ {e.seq : e \in rows.events} = 1..Len(log)
  BY HeldRows, LenProperties DEF Whole, Holds, IsLog
<1>2. ASSUME NEW id
      PROVE  GroupOf(rows, id) = {i \in 1..Len(log) : log[i].tx = id}
  <2>1. GroupOf(rows, id) = {log[i].seq : i \in {j \in 1..Len(log) : log[j].tx = id}}
    <3>1. rows.events = {log[i] : i \in 1..Len(log)}
      BY <1>1 DEF Holds
    <3>2. {f \in rows.events : f.tx = id} = {log[i] : i \in {j \in 1..Len(log) : log[j].tx = id}}
      BY <3>1
    <3> QED BY <3>2 DEF GroupOf
  <2>2. \A i \in 1..Len(log) : log[i].seq = i
    BY <1>1 DEF Holds, IsLog
  <2> QED BY <2>1, <2>2
<1>3. ASSUME NEW t \in rows.txs
      PROVE  /\ GroupOf(rows, t.id) = t.first..t.last
             /\ {t.first, t.last, t.count} \subseteq Nat
             /\ t.count > 0 /\ t.count = Cardinality(GroupOf(rows, t.id))
             /\ t.committed # None
  <2>1. Spans(t, log)
    BY DEF Whole
  <2>2. t.first \in 1..t.last /\ t.last \in 1..Len(log) /\ t.count = t.last - t.first + 1
    BY <2>1 DEF Spans
  <2>3. {t.first, t.last, t.count} \subseteq Nat
    BY <1>1, <2>2 DEF Rows, TxRow
  <2>4. GroupOf(rows, t.id) = t.first..t.last
    <3>1. \A i \in 1..Len(log) : log[i].tx = t.id <=> i \in t.first..t.last
      BY <2>1 DEF Spans
    <3>2. t.first..t.last \subseteq 1..Len(log)
      BY <1>1, <2>2, <2>3
    <3> QED BY <1>2, <3>1, <3>2
  <2>5. Cardinality(t.first..t.last) = t.count
    <3>1. t.first \in Int /\ t.last \in Int /\ ~ (t.first > t.last)
      BY <1>1, <2>2, <2>3
    <3> QED BY <2>2, <3>1, FS_Interval
  <2> QED BY <2>1, <2>2, <2>3, <2>4, <2>5 DEF Spans
<1>4. {e.tx : e \in rows.events} \subseteq {t.id : t \in rows.txs}
  BY DEF Whole, Holds
<1>5. ASSUME NEW id \in TxId, NEW m \in GroupOf(rows, id), NEW k \in GroupOf(rows, id)
      PROVE  m..k \subseteq GroupOf(rows, id)
  <2>1. PICK t \in rows.txs : t.id = id
    BY <1>2 DEF Whole
  <2> QED BY <1>3, <2>1
<1>6. Chained(rows)
  BY <1>1, <1>5 DEF Chained
<1> QED BY <1>3, <1>4, <1>6 DEF Verified

-----------------------------------------------------------------------------
(* Types of the store *)

CommandTypeOK ==
  /\ pc \in Step /\ current \in Invocation \cup {None}
  /\ request \in Request \cup {None} /\ receipt \in Receipt \cup {None}
  /\ outcome \in Told \cup {None}
  /\ state \in Seq(AnEvent) /\ verifier \in Verifier
  /\ answer = None \/ answer \in [to : Invocation, told : Told, effects : Nat]

LEMMA TypeParts == TypeOK <=> StoreTypeOK(Attributed) /\ CommandTypeOK
BY DEF TypeOK, CommandTypeOK, AnEvent

LEMMA RowsFacts ==
  ASSUME NEW rows
  PROVE  rows \in Rows(Attributed) <=>
           /\ rows = [events |-> rows.events, txs |-> rows.txs]
           /\ rows.events \subseteq AnEvent /\ rows.txs \subseteq TxRow
BY DEF Rows, AnEvent

LEMMA ActiveFacts ==
  ASSUME NEW a \in ActiveTx
  PROVE  /\ a.id \in TxId /\ a.base \in Nat /\ a.failed \in BOOLEAN
         /\ [a EXCEPT !.failed = TRUE] \in ActiveTx
         /\ [a EXCEPT !.failed = TRUE].base = a.base
BY DEF ActiveTx

\* The event that is appended next, and its insertion.
LEMMA NextEventType ==
  ASSUME StoreTypeOK(Attributed), NEW tx \in TxId \cup {None}, NEW says \in Attributed
  PROVE  /\ NextEvent(tx, says) \in AnEvent
         /\ NextEvent(tx, says).seq = Len(memory) + 1
         /\ NextEvent(tx, says).tx = tx /\ NextEvent(tx, says).says = says
<1>1. Len(memory) \in Nat /\ now \in Nat
  BY StoreAssumption, LenProperties DEF StoreTypeOK
<1> QED BY <1>1 DEF NextEvent, AnEvent, Event

LEMMA InsertTypes ==
  ASSUME StoreTypeOK(Attributed), NEW tx \in TxId \cup {None}, NEW says \in Attributed,
         Insert(tx, says)
  PROVE  /\ StoreTypeOK(Attributed)'
         /\ memory' = Append(memory, NextEvent(tx, says))
         /\ db' = [db EXCEPT !.events = @ \cup {NextEvent(tx, says)}]
         /\ inSql => file' = file
         /\ UNCHANGED <<open, inSql, savepoint, active, recoveryRequired, now>>
<1> DEFINE e == NextEvent(tx, says)
<1>1. e \in AnEvent
  BY NextEventType
<1>2. /\ db' = [db EXCEPT !.events = @ \cup {e}]
      /\ file' = IF inSql THEN file ELSE db'
      /\ memory' = Append(memory, e)
      /\ UNCHANGED <<open, inSql, savepoint, active, recoveryRequired, now>>
  BY DEF Insert
<1> HIDE DEF e
<1>3. db \in Rows(Attributed) /\ file \in Rows(Attributed) /\ memory \in Seq(AnEvent)
  BY DEF StoreTypeOK, AnEvent
<1>4. db' \in Rows(Attributed)
  BY <1>1, <1>2, <1>3, RowsFacts DEF Rows, AnEvent
<1>5. memory' \in Seq(AnEvent)
  BY <1>1, <1>2, <1>3, AppendProperties
<1>6. StoreTypeOK(Attributed)'
  BY <1>2, <1>3, <1>4, <1>5 DEF StoreTypeOK, AnEvent
<1> QED BY <1>2, <1>6 DEF e

LEMMA InsertFailsTypes ==
  ASSUME StoreTypeOK(Attributed), active \in ActiveTx, NEW tx, InsertFails(tx)
  PROVE  /\ StoreTypeOK(Attributed)' /\ active' \in ActiveTx
         /\ UNCHANGED <<sqlVars, db, memory>>
<1>1. active' \in ActiveTx /\ UNCHANGED <<sqlVars, db, memory>>
  BY ActiveFacts DEF InsertFails
<1> QED BY <1>1 DEF StoreTypeOK, sqlVars

\* The rows with the metadata of the active transaction.
LEMMA FinalisedType ==
  ASSUME StoreTypeOK(Attributed), active \in ActiveTx, MayFinalise
  PROVE  /\ Finalised \in Rows(Attributed)
         /\ Finalised.events = db.events
         /\ Finalised.txs = {IF t.id = active.id THEN Finalise(t) ELSE t : t \in db.txs}
         /\ \A t \in TxRow : Finalise(t) \in TxRow
<1>1. /\ now \in Nat /\ Len(memory) \in Nat
      /\ active.base \in Nat /\ Len(memory) > active.base
  <2>1. now \in Nat
    BY StoreAssumption DEF StoreTypeOK
  <2>2. Len(memory) \in Nat
    BY LenProperties DEF StoreTypeOK
  <2> QED BY <2>1, <2>2, ActiveFacts DEF MayFinalise
<1>2. db = [events |-> db.events, txs |-> db.txs] /\ db.txs \subseteq TxRow
      /\ db.events \subseteq AnEvent
  BY RowsFacts DEF StoreTypeOK
<1>3. ASSUME NEW t \in TxRow PROVE Finalise(t) \in TxRow
  <2>1. active.base + 1 \in Nat /\ Len(memory) - active.base \in Nat
    BY <1>1
  <2> QED BY <1>1, <2>1 DEF Finalise, TxRow
<1>4. /\ Finalised.events = db.events
      /\ Finalised.txs = {IF t.id = active.id THEN Finalise(t) ELSE t : t \in db.txs}
      /\ Finalised = [events |-> Finalised.events, txs |-> Finalised.txs]
  <2> DEFINE T == {IF t.id = active.id THEN Finalise(t) ELSE t : t \in db.txs}
  <2>1. Finalised = [db EXCEPT !.txs = T]
    BY DEF Finalised
  <2> HIDE DEF T
  <2>2. Finalised = [events |-> db.events, txs |-> T]
    BY <1>2, <2>1
  <2> QED BY <2>2 DEF T
<1>5. Finalised.txs \subseteq TxRow
  BY <1>2, <1>3, <1>4
<1> QED BY <1>2, <1>3, <1>4, <1>5, RowsFacts

LEMMA BeginTypes ==
  ASSUME StoreTypeOK(Attributed), NEW id \in TxId, Begin(id)
  PROVE  /\ StoreTypeOK(Attributed)' /\ active' \in ActiveTx /\ NewTx(id) \in TxRow
         /\ db'.events = db.events /\ db'.txs = db.txs \cup {NewTx(id)}
<1>1. now \in Nat /\ Len(memory) \in Nat
  BY StoreAssumption, LenProperties DEF StoreTypeOK
<1>2. NewTx(id) \in TxRow
  BY <1>1 DEF NewTx, TxRow
<1>3. db' = [db EXCEPT !.txs = @ \cup {NewTx(id)}]
      /\ active' = [id |-> id, base |-> Len(memory), failed |-> FALSE]
      /\ inSql' = TRUE
      /\ UNCHANGED <<open, file, savepoint, memory, recoveryRequired, now>>
  BY DEF Begin
<1>4. active' \in ActiveTx
  BY <1>1, <1>3 DEF ActiveTx
<1>5. db \in Rows(Attributed)
  BY DEF StoreTypeOK
<1>6. db' \in Rows(Attributed) /\ db'.events = db.events
      /\ db'.txs = db.txs \cup {NewTx(id)}
  BY <1>2, <1>3, <1>5 DEF Rows
<1> QED BY <1>2, <1>3, <1>4, <1>6 DEF StoreTypeOK

\* After a rollback memory is what was loaded, or what it was.
LEMMA AbortTypes ==
  ASSUME StoreTypeOK(Attributed), IsFiniteSet(db.events), IsFiniteSet(file.events),
         NEW rolledBack \in BOOLEAN, NEW reloaded \in BOOLEAN,
         Abort(rolledBack, reloaded)
  PROVE  StoreTypeOK(Attributed)' /\ IsFiniteSet(db'.events)
<1>1. db' \in {db, file} /\ IsFiniteSet(db'.events) /\ db' \in Rows(Attributed)
  BY DEF Abort, StoreTypeOK
<1>2. memory' = memory \/ (Chained(db') /\ memory' = EventsOf(db'))
  BY DEF Abort
<1>3. memory' \in Seq(AnEvent)
  BY <1>1, <1>2, ChainedRows, RowsFacts DEF StoreTypeOK, AnEvent
<1>4. /\ inSql' \in BOOLEAN /\ recoveryRequired' \in BOOLEAN
      /\ active' = None /\ savepoint' = None /\ UNCHANGED <<open, file, now>>
  BY DEF Abort
<1> QED BY <1>1, <1>3, <1>4 DEF StoreTypeOK, AnEvent

LEMMA RollbackTypes ==
  ASSUME StoreTypeOK(Attributed), IsFiniteSet(db.events), active \in ActiveTx,
         SavepointOK, NEW restored \in BOOLEAN, RollbackTo(restored)
  PROVE  StoreTypeOK(Attributed)' /\ IsFiniteSet(db'.events)
<1>1. savepoint.base \in Nat /\ savepoint.base <= Len(memory)
      /\ savepoint.rows \in Rows(Attributed) /\ IsFiniteSet(savepoint.rows.events)
  BY DEF SavepointOK
<1>2. memory \in Seq(AnEvent) /\ Len(memory) \in Nat
  BY LenProperties DEF StoreTypeOK, AnEvent
<1>3. \A i \in 1..savepoint.base : memory[i] \in AnEvent
  BY <1>1, <1>2, ElementOfSeq
<1>4. memory' \in Seq(AnEvent)
  BY <1>1, <1>3, SubSeqProperties, 1 \in Int, savepoint.base \in Int DEF RollbackTo
<1>5. db' \in Rows(Attributed) /\ IsFiniteSet(db'.events)
  BY <1>1 DEF RollbackTo, StoreTypeOK
<1>6. active' \in ActiveTx
  BY ActiveFacts DEF RollbackTo
<1>7. savepoint' = None /\ UNCHANGED <<open, file, inSql, recoveryRequired, now>>
  BY DEF RollbackTo
<1> QED BY <1>4, <1>5, <1>6, <1>7 DEF StoreTypeOK, AnEvent

-----------------------------------------------------------------------------
(* Committing a transaction *)

\* The rows become those of a longer log: what is new is one transaction.
Extends(rows, log, new, longer, t) ==
  /\ Whole(rows, log)
  /\ Holds(new, longer) /\ Replays(longer)
  /\ Len(log) < Len(longer)
  /\ \A i \in 1..Len(log) : longer[i] = log[i]
  /\ \A i \in Len(log) + 1..Len(longer) : longer[i].tx = t.id
  /\ new.txs = rows.txs \cup {t}
  /\ \A s \in rows.txs : s.id # t.id
  /\ t.first = Len(log) + 1 /\ t.last = Len(longer)
  /\ t.count = Len(longer) - Len(log) /\ t.committed # None

TxEvents(rows, t, what) == {e \in rows.events : e.tx = t.id /\ e.says.what = what}

Places(b, log, what) == {n \in b + 1..Len(log) : log[n].says.what = what}

CommandIn(rows, i, t) ==
  [invocation |-> i,
   outcome |-> IF TxEvents(rows, t, "execution-failed") = {} THEN "done" ELSE "failed",
   effects |-> Cardinality(TxEvents(rows, t, "effect"))]

Commands(rows) ==
  UNION {{CommandIn(rows, e.says.invocation, t) : e \in TxEvents(rows, t, "accepted")} :
           t \in rows.txs}

LEMMA DurableCommands == Durable = Commands(file) /\ Durable' = Commands(file')
<1>1. \A t, what : /\ EventsOfTx(t, what) = TxEvents(file, t, what)
                   /\ EventsOfTx(t, what)' = TxEvents(file', t, what)
  BY DEF EventsOfTx, TxEvents
<1>2. \A i, t : /\ CommandOf(i, t) = CommandIn(file, i, t)
                /\ CommandOf(i, t)' = CommandIn(file', i, t)
  BY <1>1 DEF CommandOf, CommandIn
<1> QED BY <1>1, <1>2 DEF Durable, Commands

LEMMA ExtendedIsWhole ==
  ASSUME NEW rows, NEW log, NEW new, NEW longer, NEW t,
         Extends(rows, log, new, longer, t)
  PROVE  Whole(new, longer)
<1>1. /\ Len(log) \in Nat /\ Len(longer) \in Nat /\ Len(log) < Len(longer)
      /\ \A i \in 1..Len(log) : longer[i] = log[i]
      /\ \A i \in Len(log) + 1..Len(longer) : longer[i].tx = t.id
  BY LenProperties DEF Extends, Whole, Holds, IsLog
<1>2. \A i \in 1..Len(longer) : i \in 1..Len(log) \/ i \in Len(log) + 1..Len(longer)
  BY <1>1
<1>3. \A i \in 1..Len(log) : \E s \in rows.txs : s.id = longer[i].tx
  BY <1>1 DEF Extends, Whole
<1>4. \A i \in 1..Len(longer) : \E s \in new.txs : s.id = longer[i].tx
  BY <1>1, <1>2, <1>3 DEF Extends
<1>5. Spans(t, longer)
  <2>1. t.first = Len(log) + 1 /\ t.last = Len(longer)
        /\ t.count = Len(longer) - Len(log) /\ t.committed # None
    BY DEF Extends
  <2>2. \A i \in 1..Len(log) : longer[i].tx # t.id
    BY <1>3 DEF Extends
  <2>3. \A i \in 1..Len(longer) : longer[i].tx = t.id <=> i \in t.first..t.last
    BY <1>1, <1>2, <2>1, <2>2
  <2>4. /\ t.first \in 1..t.last /\ t.last \in 1..Len(longer)
        /\ t.count = t.last - t.first + 1
    BY <1>1, <2>1
  <2> QED BY <2>1, <2>3, <2>4 DEF Spans
<1>6. ASSUME NEW s \in rows.txs PROVE Spans(s, longer)
  <2>1. Spans(s, log) /\ s.id # t.id
    BY DEF Extends, Whole
  <2>2. /\ s.first \in 1..s.last /\ s.last \in 1..Len(log)
        /\ s.count = s.last - s.first + 1 /\ s.committed # None
        /\ \A i \in 1..Len(log) : log[i].tx = s.id <=> i \in s.first..s.last
    BY <2>1 DEF Spans
  <2>3. s.last \in 1..Len(longer)
    BY <1>1, <2>2
  <2>4. ASSUME NEW i \in 1..Len(longer)
        PROVE  longer[i].tx = s.id <=> i \in s.first..s.last
    <3>1. CASE i \in 1..Len(log)
      BY <1>1, <2>2, <3>1
    <3>2. CASE i \in Len(log) + 1..Len(longer)
      BY <1>1, <2>1, <2>2, <3>2
    <3> QED BY <1>2, <3>1, <3>2
  <2> QED BY <2>2, <2>3, <2>4 DEF Spans
<1> QED BY <1>4, <1>5, <1>6 DEF Extends, Whole

\* The commands in the rows are those there were and the one of the
\* transaction, if it starts with an acceptance and has no other.
LEMMA OneMoreCommand ==
  ASSUME NEW rows, NEW log, NEW new, NEW longer, NEW t,
         Extends(rows, log, new, longer, t),
         NEW i, longer[Len(log) + 1].says.what = "accepted",
         longer[Len(log) + 1].says.invocation = i,
         \A n \in Len(log) + 2..Len(longer) : longer[n].says.what # "accepted"
  PROVE  Commands(new) = Commands(rows) \cup {CommandIn(new, i, t)}
<1>1. /\ Len(log) \in Nat /\ Len(longer) \in Nat /\ Len(log) < Len(longer)
      /\ \A n \in 1..Len(log) : longer[n] = log[n]
      /\ \A n \in Len(log) + 1..Len(longer) : longer[n].tx = t.id
      /\ rows.events = {log[n] : n \in 1..Len(log)}
      /\ new.events = {longer[n] : n \in 1..Len(longer)}
  BY LenProperties DEF Extends, Whole, Holds, IsLog
<1>2. \A e \in rows.events : e \in new.events /\ e.tx # t.id
  <2>1. \A n \in 1..Len(log) : n \in 1..Len(longer) /\ longer[n].tx # t.id
    BY <1>1 DEF Extends, Whole
  <2> QED BY <1>1, <2>1
<1>3. \A e \in new.events : e \in rows.events \/ \E n \in Len(log) + 1..Len(longer) : e = longer[n]
  <2>1. \A n \in 1..Len(longer) : n \in 1..Len(log) \/ n \in Len(log) + 1..Len(longer)
    BY <1>1
  <2> QED BY <1>1, <2>1
<1>4. ASSUME NEW s \in rows.txs, NEW what PROVE TxEvents(new, s, what) = TxEvents(rows, s, what)
  <2>1. s.id # t.id
    BY DEF Extends
  <2> QED BY <1>1, <1>2, <1>3, <2>1 DEF TxEvents
<1>5. TxEvents(new, t, "accepted") = {longer[Len(log) + 1]}
  <2>1. Len(log) + 1 \in 1..Len(longer) /\ Len(log) + 1 \in Len(log) + 1..Len(longer)
    BY <1>1
  <2>2. \A n \in Len(log) + 1..Len(longer) : n = Len(log) + 1 \/ n \in Len(log) + 2..Len(longer)
    BY <1>1
  <2> QED BY <1>1, <1>2, <1>3, <2>1, <2>2 DEF TxEvents
<1>6. \A j : \A s \in rows.txs : CommandIn(new, j, s) = CommandIn(rows, j, s)
  BY <1>4 DEF CommandIn
<1> DEFINE Of(r, s) == {CommandIn(r, e.says.invocation, s) : e \in TxEvents(r, s, "accepted")}
<1>7. \A s \in rows.txs : Of(new, s) = Of(rows, s)
  BY <1>4, <1>6
<1>8. Of(new, t) = {CommandIn(new, i, t)}
  BY <1>5
<1>9. /\ Commands(new) = UNION {Of(new, s) : s \in new.txs}
      /\ Commands(rows) = UNION {Of(rows, s) : s \in rows.txs}
      /\ new.txs = rows.txs \cup {t}
  BY DEF Commands, Extends
<1> HIDE DEF Of
<1> QED BY <1>7, <1>8, <1>9

\* A command has the outcome and the effects its transaction has.
LEMMA CommandOfLog ==
  ASSUME NEW rows, NEW log, NEW new, NEW longer, NEW t,
         Extends(rows, log, new, longer, t), NEW i
  PROVE  CommandIn(new, i, t) =
           [invocation |-> i,
            outcome |-> IF Places(Len(log), longer, "execution-failed") = {}
                          THEN "done" ELSE "failed",
            effects |-> Cardinality(Places(Len(log), longer, "effect"))]
<1>1. /\ Len(log) \in Nat /\ Len(longer) \in Nat /\ Len(log) < Len(longer)
      /\ \A n \in 1..Len(log) : longer[n] = log[n]
      /\ \A n \in Len(log) + 1..Len(longer) : longer[n].tx = t.id
      /\ \A n \in 1..Len(longer) : longer[n].seq = n
      /\ new.events = {longer[n] : n \in 1..Len(longer)}
  BY LenProperties DEF Extends, Whole, Holds, IsLog
<1>2. \A n \in 1..Len(log) : longer[n].tx # t.id
  BY <1>1 DEF Extends, Whole
<1>3. \A n \in 1..Len(longer) : longer[n].tx = t.id <=> n \in Len(log) + 1..Len(longer)
  BY <1>1, <1>2
<1>4. \A n \in Len(log) + 1..Len(longer) : n \in 1..Len(longer)
  BY <1>1
<1>5. ASSUME NEW what
      PROVE  TxEvents(new, t, what)
               = {longer[n] : n \in Places(Len(log), longer, what)}
  BY <1>1, <1>3, <1>4 DEF TxEvents, Places
<1> DEFINE N == Places(Len(log), longer, "effect")
<1>6. Cardinality(TxEvents(new, t, "effect")) = Cardinality(N)
  <2> DEFINE f == [n \in N |-> longer[n]]
  <2>1. IsFiniteSet(N)
    <3>1. IsFiniteSet(Len(log) + 1..Len(longer)) /\ N \in SUBSET (Len(log) + 1..Len(longer))
      BY <1>1, FS_Interval, Len(log) + 1 \in Int, Len(longer) \in Int DEF Places
    <3> QED BY <3>1, FS_Subset
  <2>2. f \in Bijection(N, TxEvents(new, t, "effect"))
    <3>1. \A n \in N : longer[n] \in TxEvents(new, t, "effect") /\ longer[n].seq = n
      BY <1>1, <1>4, <1>5 DEF Places
    <3>2. \A e \in TxEvents(new, t, "effect") : \E n \in N : longer[n] = e
      BY <1>5
    <3> HIDE DEF N
    <3> QED BY <3>1, <3>2 DEF Bijection, Injection, Surjection, IsInjective
  <2> QED BY <2>1, <2>2, FS_Bijection DEF ExistsBijection
<1>7. TxEvents(new, t, "execution-failed") = {}
        <=> Places(Len(log), longer, "execution-failed") = {}
  <2> DEFINE M == Places(Len(log), longer, "execution-failed")
  <2>1. TxEvents(new, t, "execution-failed") = {longer[n] : n \in M}
    BY <1>5
  <2> HIDE DEF M
  <2>2. \A n \in M : longer[n] \in {longer[m] : m \in M}
    OBVIOUS
  <2>3. M = {} => {longer[m] : m \in M} = {}
    OBVIOUS
  <2> QED BY <2>1, <2>2, <2>3 DEF M
<1> QED BY <1>6, <1>7 DEF CommandIn

-----------------------------------------------------------------------------
(* What the invariant says of a command that runs *)

LEMMA StoredFacts ==
  ASSUME Inv
  PROVE  /\ Stored \in Seq(AnEvent) /\ Len(Stored) \in Nat
         /\ IsLog(Stored) /\ Replays(Stored) /\ Holds(file, Stored)
         /\ IsFiniteSet(file.events)
         /\ memory \in Seq(AnEvent) /\ Len(memory) \in Nat
BY LenProperties, HeldRows DEF Inv, Whole, Holds, IsLog, TypeOK, StoreTypeOK, AnEvent

LEMMA OccupiedFacts ==
  ASSUME Inv, pc # "idle"
  PROVE  /\ open /\ answer = None
         /\ request.envelope \in EnvelopeType
         /\ current \in Invocation /\ current = request.envelope.invocation
<1>1. open /\ answer = None /\ request \in Request /\ current = request.envelope.invocation
  BY DEF Inv, Occupied
<1>2. request.envelope \in EnvelopeType
  BY <1>1, VerifierAssumption DEF Request
<1> QED BY <1>1, <1>2 DEF EnvelopeType

LEMMA RunningFacts ==
  ASSUME Inv, pc \in Executing
  PROVE  /\ InTransaction /\ Progress
         /\ active \in ActiveTx /\ active.id \in TxId /\ active.base \in Nat
         /\ active.base = Len(Stored) /\ active.base <= Len(memory)
         /\ IsLog(memory)
<1>1. InTransaction /\ Progress
  BY DEF Inv
<1> QED BY <1>1, ActiveFacts DEF InTransaction, Holds

LEMMA NotDurable ==
  ASSUME NotAccepted, NEW c \in Durable
  PROVE  c.invocation # current
<1>1. PICK t \in file.txs : \E e \in TxEvents(file, t, "accepted") :
        c = CommandIn(file, e.says.invocation, t)
  BY DurableCommands DEF Commands
<1> QED BY <1>1 DEF NotAccepted, TxEvents, CommandIn

\* A step of the command that is not its last.
LEMMA Continues ==
  ASSUME Inv, pc # "idle", pc' # "idle", UNCHANGED <<open, current, request, answer>>
  PROVE  Occupied' /\ AnswerIsTrue'
<1>1. open' = open /\ current' = current /\ request' = request /\ answer' = answer
  OBVIOUS
<1>2. Occupied'
  BY <1>1 DEF Inv, Occupied
<1>3. answer' = None
  BY <1>2 DEF Occupied
<1> QED BY <1>2, <1>3 DEF AnswerIsTrue

LEMMA SameFile ==
  ASSUME Inv, file' = file
  PROVE  Stored' = Stored /\ Whole(file, Stored)'
BY DEF Inv, Stored

LEMMA SayingType ==
  ASSUME Inv, pc # "idle", NEW what \in {"accepted", "effect", "execution-failed"}
  PROVE  /\ Saying(what) \in Attributed
         /\ Saying(what).what = what /\ Saying(what).invocation = current
<1>1. current \in Invocation /\ receipt \in Receipt \cup {None}
  BY OccupiedFacts DEF Inv, TypeOK
<1> QED BY <1>1 DEF Saying, Attributed

\* An append in the transaction: the event is in memory and on the
\* connection, and applied to the state if the reducer accepts it.
LEMMA AppendStep ==
  ASSUME Inv, pc \in Executing, pc # "verify",
         NEW what \in {"accepted", "effect", "execution-failed"},
         NEW applied \in Executing, NEW rejected \in {"restore", "abort"},
         AppendAndApply(what, applied, rejected)
  PROVE  /\ TypeOK' /\ Whole(file, Stored)' /\ IsFiniteSet(db'.events)
         /\ Occupied' /\ AnswerIsTrue'
         /\ Len(memory') = Len(memory) + 1
         /\ \A i \in 1..Len(memory) : memory'[i] = memory[i]
         /\ memory'[Len(memory) + 1].says.what = what
         /\ memory'[Len(memory) + 1].says.invocation = current
         /\ UNCHANGED <<open, file, inSql, savepoint, active, recoveryRequired, now,
                        current, request, receipt, verifier, answer, Stored>>
         /\ \/ pc' = applied /\ outcome' = outcome /\ InTransaction'
            \/ pc' = rejected /\ outcome' = "rolled-back"
<1> DEFINE e == NextEvent(active.id, Saying(what))
<1>1. pc # "idle" /\ inSql /\ active.id \in TxId \cup {None} /\ Saying(what) \in Attributed
      /\ StoreTypeOK(Attributed)
  BY RunningFacts, SayingType, TypeParts DEF Executing, InTransaction, Inv
<1>2. /\ e \in AnEvent /\ e.seq = Len(memory) + 1 /\ e.tx = active.id
      /\ e.says = Saying(what)
  BY <1>1, NextEventType
<1>3. Insert(active.id, Saying(what))
  BY DEF AppendAndApply
<1>4. /\ StoreTypeOK(Attributed)'
      /\ memory' = Append(memory, e)
      /\ db' = [db EXCEPT !.events = @ \cup {e}]
      /\ file' = file
      /\ UNCHANGED <<open, inSql, savepoint, active, recoveryRequired, now>>
  BY <1>1, <1>3, InsertTypes
<1>5. /\ UNCHANGED <<current, request, receipt, verifier, answer>>
      /\ \/ /\ Applies(state, e)
            /\ state' = Append(state, e)
            /\ pc' = applied /\ UNCHANGED outcome
         \/ /\ outcome' = "rolled-back"
            /\ pc' = rejected /\ UNCHANGED state
  BY DEF AppendAndApply, Goto
<1> HIDE DEF e
<1>6. Stored' = Stored /\ Whole(file, Stored)'
  BY <1>4, SameFile
<1>7. /\ InTransaction /\ IsLog(memory) /\ state = memory /\ Holds(db, memory) /\ Replays(memory)
  BY RunningFacts DEF InTransaction
<1>8. /\ IsLog(memory')
      /\ Len(memory) \in Nat /\ Len(memory') = Len(memory) + 1
      /\ \A i \in 1..Len(memory) : memory'[i] = memory[i]
      /\ memory'[Len(memory) + 1] = e
      /\ Applies(memory, e) => Replays(memory')
      /\ Holds(db', memory')
  BY <1>2, <1>4, <1>7, LongerLog
<1>9. IsFiniteSet(db'.events)
  BY <1>8, HeldRows
<1>10. Occupied' /\ AnswerIsTrue'
  BY <1>1, <1>4, <1>5, Continues DEF Executing
<1>11. TypeOK'
  <2>1. CommandTypeOK /\ pc' \in Step /\ outcome' \in Told \cup {None}
    BY <1>5, TypeParts DEF Inv, CommandTypeOK, Executing, Step, Told
  <2>2. state' \in Seq(AnEvent)
    BY <1>2, <1>5, <2>1, AppendProperties DEF CommandTypeOK
  <2>3. CommandTypeOK'
    BY <1>5, <2>1, <2>2 DEF CommandTypeOK
  <2> QED BY <1>4, <2>3 DEF TypeOK, CommandTypeOK, AnEvent
<1>12. ASSUME Applies(state, e), state' = Append(state, e) PROVE InTransaction'
  <2>1. Replays(memory') /\ state' = memory'
    BY <1>4, <1>7, <1>8, <1>12
  <2>2. db'.txs = db.txs
    BY <1>4, <1>7 DEF Inv, TypeOK, StoreTypeOK, Rows
  <2>3. active.base \in Nat /\ active.base <= Len(memory)
    BY RunningFacts
  <2>4. active.base <= Len(memory') /\ \A i \in 1..active.base : memory'[i] = Stored[i]
    BY <1>7, <1>8, <2>3 DEF InTransaction
  <2>5. \A i \in active.base + 1..Len(memory') : memory'[i].tx = active.id
    <3> TAKE i \in active.base + 1..Len(memory')
    <3>1. CASE i = Len(memory) + 1
      BY <1>2, <1>8, <3>1
    <3>2. CASE i # Len(memory) + 1
      <4>1. i \in 1..Len(memory) /\ i \in active.base + 1..Len(memory)
        BY <1>8, <2>3, <3>2
      <4> QED BY <1>7, <1>8, <4>1 DEF InTransaction
    <3> QED BY <3>1, <3>2
  <2> QED BY <1>4, <1>6, <1>7, <1>8, <2>1, <2>2, <2>4, <2>5 DEF InTransaction
<1> QED BY <1>2, <1>4, <1>5, <1>6, <1>8, <1>9, <1>10, <1>11, <1>12, <1>1, SayingType

\* Steps that leave the store alone.
LEMMA SameStore ==
  ASSUME Inv, UNCHANGED storeVars, CommandTypeOK'
  PROVE  /\ TypeOK' /\ Whole(file, Stored)' /\ IsFiniteSet(db'.events)
         /\ Stored' = Stored
<1>1. StoreTypeOK(Attributed)'
  BY DEF Inv, TypeOK, StoreTypeOK, storeVars, sqlVars
<1>2. file' = file /\ db' = db
  BY DEF storeVars, sqlVars
<1> QED BY <1>1, <1>2, SameFile DEF TypeOK, CommandTypeOK, AnEvent, Inv

-----------------------------------------------------------------------------
(* The steps of a command up to its executor *)

LEMMA SubmitStep ==
  ASSUME Inv, NEW e \in Envelope, NEW command \in Operation, Submit(e, command)
  PROVE  Inv'
<1>1. /\ open /\ pc = "idle" /\ UNCHANGED storeVars /\ UNCHANGED <<receipt, outcome, verifier>>
  BY DEF Submit
<1>2. CommandTypeOK /\ e \in EnvelopeType /\ e.invocation \in Invocation
  BY VerifierAssumption, TypeParts DEF Inv, EnvelopeType
<1>3. CASE Writable
  <2>1. /\ pc' = "begin" /\ current' = e.invocation /\ answer' = None
        /\ request' = [envelope |-> e, command |-> command]
        /\ state' = state
    BY <1>3 DEF Submit
  <2>2. request' \in Request /\ request'.envelope.invocation = current'
    BY <2>1 DEF Request
  <2>3. CommandTypeOK'
    BY <1>1, <1>2, <2>1, <2>2 DEF CommandTypeOK, Step
  <2>4. AtRest' /\ ~recoveryRequired'
    BY <1>1, <1>3, <2>1, SameStore, <2>3 DEF Inv, AtRest, Writable, storeVars, sqlVars
  <2>5. Occupied' /\ AnswerIsTrue'
    BY <1>1, <2>1, <2>2 DEF Occupied, AnswerIsTrue, storeVars, sqlVars
  <2> QED BY <1>1, <2>1, <2>3, <2>4, <2>5, SameStore DEF Inv, Executing
<1>4. CASE ~Writable
  <2>1. /\ answer' = [to |-> e.invocation, told |-> "uncertain", effects |-> 0]
        /\ state' = Rehydrated(memory) /\ UNCHANGED <<pc, current, request>>
    BY <1>4 DEF Submit
  <2>2. state' \in Seq(AnEvent)
    BY <2>1, StoredFacts, RehydratedLog
  <2>3. CommandTypeOK'
    BY <1>1, <1>2, <2>1, <2>2 DEF CommandTypeOK, Told
  <2>4. AtRest'
    BY <1>1, <1>4, <2>1 DEF Inv, AtRest, Writable, storeVars, sqlVars
  <2>5. Occupied' /\ AnswerIsTrue'
    BY <1>1, <2>1 DEF Occupied, AnswerIsTrue
  <2> QED BY <1>1, <2>1, <2>3, <2>4, <2>5, SameStore DEF Inv, Executing
<1> QED BY <1>3, <1>4

LEMMA NoEffects ==
  ASSUME NEW b \in Nat
  PROVE  Cardinality({n \in b + 1..b : memory[n].says.what = "effect"}) = 0
<1>1. {n \in b + 1..b : memory[n].says.what = "effect"} = {}
  OBVIOUS
<1> QED BY <1>1, FS_EmptySet

LEMMA BeginTransactionStep ==
  ASSUME Inv, BeginTransaction
  PROVE  Inv'
<1>1. pc = "begin" /\ pc' = "verify"
      /\ UNCHANGED <<current, request, receipt, verifier, answer, outcome, state>>
  BY DEF BeginTransaction, Goto
<1>2. PICK id \in TxId : Begin(id)
  BY DEF BeginTransaction
<1>3. StoreTypeOK(Attributed) /\ CommandTypeOK
  BY TypeParts DEF Inv
<1>4. /\ StoreTypeOK(Attributed)' /\ active' \in ActiveTx /\ NewTx(id) \in TxRow
      /\ db'.events = db.events /\ db'.txs = db.txs \cup {NewTx(id)}
  BY <1>2, <1>3, BeginTypes
<1>5. /\ active' = [id |-> id, base |-> Len(memory), failed |-> FALSE] /\ inSql' = TRUE
      /\ \A t \in db.txs : t.id # id
      /\ UNCHANGED <<open, file, savepoint, memory, recoveryRequired, now>>
  BY <1>2 DEF Begin
<1>6. AtRest /\ open /\ ~recoveryRequired
  BY <1>1, OccupiedFacts DEF Inv
<1>7. state = memory /\ memory = Stored /\ db = file /\ savepoint = None
  BY <1>6 DEF AtRest
<1>8. Stored' = Stored /\ Whole(file, Stored)' /\ memory' = memory
  BY <1>5, SameFile
<1>9. TypeOK'
  BY <1>1, <1>3, <1>4 DEF TypeOK, CommandTypeOK, AnEvent, Step
<1>10. Holds(db', memory') /\ Replays(memory') /\ Len(memory) \in Nat
  BY <1>4, <1>7, <1>8, StoredFacts DEF Holds
<1>11. InTransaction'
  <2>1. NewTx(id).id = id
    BY DEF NewTx
  <2>2. \E t \in db'.txs : t.id = active'.id /\ db'.txs = file'.txs \cup {t}
    BY <1>4, <1>5, <1>7, <2>1
  <2>3. \A t \in file'.txs : t.id # active'.id
    BY <1>5, <1>7
  <2>4. active'.base = Len(memory') /\ ~active'.failed
    BY <1>5
  <2> QED BY <1>1, <1>4, <1>5, <1>6, <1>7, <1>8, <1>10, <2>2, <2>3, <2>4 DEF InTransaction
<1>12. Progress'
  <2>1. active'.base = Len(memory') /\ Len(memory') \in Nat
    BY <1>5, <1>10
  <2>2. Effects' = 0
    <3>1. Cardinality({n \in active'.base + 1..Len(memory') : memory'[n].says.what = "effect"}) = 0
      BY <1>5, <2>1, NoEffects
    <3> QED BY <3>1 DEF Effects
  <2>3. ~FailureRecorded'
    BY <2>1 DEF FailureRecorded
  <2> QED BY <1>1, <1>5, <1>7, <2>1, <2>2, <2>3, CommandAssumption DEF Progress
<1>13. Occupied' /\ AnswerIsTrue'
  BY <1>1, <1>5, Continues
<1> QED BY <1>1, <1>4, <1>7, <1>8, <1>9, <1>11, <1>12, <1>13, StoredFacts DEF Inv, Executing

\* The command is over and nothing of it is in the file.
LEMMA BeginRefusedStep ==
  ASSUME Inv, BeginRefused
  PROVE  Inv'
<1>1. /\ pc = "begin" /\ BeginFails /\ Answer("denied") /\ state' = Rehydrated(memory)
  BY DEF BeginRefused
<1>2. /\ inSql' \in BOOLEAN /\ db' = file
      /\ UNCHANGED <<open, file, savepoint, memory, active, recoveryRequired, now>>
  BY <1>1 DEF BeginFails
<1>3. /\ pc' = "idle" /\ outcome' = None
      /\ current' = None /\ request' = None /\ receipt' = None
      /\ answer' = [to |-> current, told |-> "denied", effects |-> 0]
      /\ verifier' = verifier
  BY <1>1 DEF Answer
<1>4. current \in Invocation /\ open
  BY <1>1, OccupiedFacts
<1>5. CommandTypeOK'
  BY <1>1, <1>3, <1>4, StoredFacts, RehydratedLog, TypeParts DEF Inv, CommandTypeOK, Step, Told
<1>6. StoreTypeOK(Attributed)'
  BY <1>2 DEF Inv, TypeOK, StoreTypeOK
<1>7. AtRest /\ ~recoveryRequired
  BY <1>1 DEF Inv
<1>8. state' = memory'
  BY <1>1, <1>2, <1>4, <1>7, StoredFacts, RehydratedLog DEF AtRest
<1>9. Stored' = Stored /\ Whole(file, Stored)'
  BY <1>2, SameFile
<1>10. AtRest'
  BY <1>2, <1>4, <1>7, <1>8, <1>9 DEF AtRest
<1>11. Occupied' /\ AnswerIsTrue'
  BY <1>3 DEF Occupied, AnswerIsTrue
<1> QED BY <1>2, <1>3, <1>5, <1>6, <1>9, <1>10, <1>11, StoredFacts, TypeParts
        DEF Inv, Executing, TypeOK, CommandTypeOK, AnEvent

\* An accepted identifier is not accepted again.
LEMMA VerifyInvocationStep ==
  ASSUME Inv, VerifyInvocation
  PROVE  Inv'
<1> DEFINE at == now + verifier.lead
           r == ReceiptOf(verifier, request.envelope, at)
<1>1. /\ pc = "verify" /\ pc' = "accept" /\ receipt' = r /\ ~AcceptedIn(state, r)
      /\ UNCHANGED storeVars
      /\ UNCHANGED <<current, request, outcome, state, verifier, answer>>
  BY DEF VerifyInvocation, Acceptable
<1>2. /\ InTransaction /\ Progress /\ active.base = Len(Stored) /\ active.base \in Nat
      /\ IsLog(memory)
  BY <1>1, RunningFacts DEF Executing
<1>3. r \in Receipt /\ r.invocation = current
  <2>1. verifier \in VerifierType /\ now \in Nat
    BY VerifierAssumption, StoreAssumption DEF Inv, TypeOK, StoreTypeOK
  <2>2. verifier.lead \in Nat /\ verifier.skew \in 0..MaxSkew
    BY <2>1, VerifierAssumption DEF VerifierType
  <2>3. at \in Nat
    BY <2>1, <2>2
  <2>4. request.envelope \in EnvelopeType /\ current = request.envelope.invocation
    BY <1>1, OccupiedFacts
  <2> QED BY <2>2, <2>3, <2>4 DEF ReceiptOf, Receipt, EnvelopeType
<1> HIDE DEF r
<1>4. Len(memory) = active.base /\ memory = Stored /\ state = Stored
  <2>1. Len(memory) = Len(Stored) /\ state = memory
    BY <1>1, <1>2 DEF Progress, InTransaction
  <2>2. \A i \in 1..Len(memory) : memory[i] = Stored[i]
    BY <1>2, <2>1 DEF InTransaction
  <2> QED BY <1>2, <2>1, <2>2, StoredFacts, SeqEqual
<1>5. NotAccepted'
  <2>1. file.events = {Stored[n] : n \in 1..Len(Stored)}
    BY StoredFacts DEF Holds
  <2>2. \A n \in 1..Len(Stored) :
          Stored[n].says.what = "accepted" => Stored[n].says.invocation # current
    BY <1>1, <1>3, <1>4 DEF AcceptedIn
  <2>3. file' = file /\ current' = current
    BY <1>1 DEF storeVars, sqlVars
  <2> QED BY <2>1, <2>2, <2>3 DEF NotAccepted
<1>6. CommandTypeOK'
  BY <1>1, <1>3, TypeParts DEF Inv, CommandTypeOK, Step
<1>7. TypeOK' /\ Whole(file, Stored)' /\ IsFiniteSet(db'.events) /\ Stored' = Stored
  BY <1>1, <1>6, SameStore
<1>8. InTransaction'
  BY <1>1, <1>2, <1>7 DEF InTransaction, storeVars, sqlVars
<1>9. Progress'
  <2>1. Effects' = Effects /\ FailureRecorded' = FailureRecorded
        /\ active' = active /\ memory' = memory /\ savepoint' = savepoint
    BY <1>1 DEF Effects, FailureRecorded, storeVars, sqlVars
  <2> QED BY <1>1, <1>2, <1>5, <2>1 DEF Progress
<1>10. Occupied' /\ AnswerIsTrue'
  BY <1>1, Continues DEF storeVars, sqlVars
<1> QED BY <1>1, <1>7, <1>8, <1>9, <1>10 DEF Inv, Executing

LEMMA DenyStep ==
  ASSUME Inv, Deny
  PROVE  Inv'
<1>1. /\ pc = "verify" /\ pc' = "abort" /\ outcome' = "denied"
      /\ UNCHANGED <<storeVars, state, current, request, receipt, verifier, answer>>
  BY DEF Deny, Goto
<1>2. CommandTypeOK'
  BY <1>1, TypeParts DEF Inv, CommandTypeOK, Step, Told
<1>3. Failing'
  BY <1>1 DEF Failing
<1>4. Occupied' /\ AnswerIsTrue'
  BY <1>1, Continues DEF storeVars, sqlVars
<1> QED BY <1>1, <1>2, <1>3, <1>4, SameStore DEF Inv, Executing

\* A step that turns to the rollback while nothing of the command is in the
\* file.
LEMMA TurnsBack ==
  ASSUME Inv, pc \in Executing, pc # "verify", UNCHANGED <<file, current>>,
         pc' \in {"restore", "abort"}, outcome' = "rolled-back",
         pc' = "restore" => active' \in ActiveTx /\ SavepointOK'
  PROVE  Failing'
<1>1. NotAccepted
  BY RunningFacts DEF Progress
<1>2. NotAccepted'
  BY <1>1 DEF NotAccepted
<1> QED BY <1>2 DEF Failing

\* An INSERT throws.
LEMMA InsertFailsStep ==
  ASSUME Inv, pc \in Executing, pc # "verify", InsertFails(active.id),
         outcome' = "rolled-back", UNCHANGED state,
         NEW step \in {"restore", "abort"}, Goto(step),
         step = "restore" => pc = "execute"
  PROVE  Inv'
<1>1. /\ pc' = step
      /\ UNCHANGED <<current, request, receipt, verifier, answer>>
  BY DEF Goto
<1>2. active \in ActiveTx /\ StoreTypeOK(Attributed) /\ CommandTypeOK
  BY RunningFacts, TypeParts DEF Inv
<1>3. /\ StoreTypeOK(Attributed)' /\ active' \in ActiveTx
      /\ UNCHANGED <<sqlVars, db, memory>>
  BY <1>2, InsertFailsTypes
<1>4. TypeOK'
  BY <1>1, <1>2, <1>3 DEF TypeOK, CommandTypeOK, AnEvent, Step, Told
<1>5. step = "restore" => SavepointOK'
  <2>1. pc = "execute" => SavepointOK
    BY RunningFacts DEF Progress
  <2> QED BY <1>3, <2>1 DEF SavepointOK, sqlVars
<1>6. Failing'
  BY <1>1, <1>3, <1>5, TurnsBack DEF sqlVars
<1>7. Occupied' /\ AnswerIsTrue'
  BY <1>1, <1>3, Continues DEF Executing, sqlVars
<1>8. Stored' = Stored /\ Whole(file, Stored)' /\ IsFiniteSet(db'.events)
  BY <1>3, SameFile DEF sqlVars, Inv
<1> QED BY <1>1, <1>4, <1>6, <1>7, <1>8 DEF Inv, Executing

LEMMA AcceptStep ==
  ASSUME Inv, Accept
  PROVE  Inv'
<1>1. pc = "accept" /\ AppendAndApply("accepted", "savepoint", "abort")
  BY DEF Accept
<1>2. /\ Progress /\ active.base \in Nat /\ Len(memory) = active.base
  BY <1>1, RunningFacts DEF Executing, Progress
<1>3. /\ TypeOK' /\ Whole(file, Stored)' /\ IsFiniteSet(db'.events)
      /\ Occupied' /\ AnswerIsTrue'
      /\ Len(memory') = Len(memory) + 1
      /\ memory'[Len(memory) + 1].says.what = "accepted"
      /\ memory'[Len(memory) + 1].says.invocation = current
      /\ UNCHANGED <<file, savepoint, active, current>>
      /\ \/ pc' = "savepoint" /\ outcome' = outcome /\ InTransaction'
         \/ pc' = "abort" /\ outcome' = "rolled-back"
  BY <1>1, AppendStep DEF Executing
<1>4. CASE pc' = "savepoint" /\ InTransaction'
  <2>1. \A n \in active'.base + 1..Len(memory') : n = Len(memory) + 1
    BY <1>2, <1>3
  <2>2. {n \in active'.base + 1..Len(memory') : memory'[n].says.what = "effect"} = {}
    BY <1>3, <2>1
  <2>3. Effects' = 0
    BY <2>2, FS_EmptySet DEF Effects
  <2>4. ~FailureRecorded'
    BY <1>3, <2>1 DEF FailureRecorded
  <2>5. NotAccepted'
    BY <1>1, <1>2, <1>3 DEF Progress, NotAccepted
  <2>6. Len(memory') > active'.base /\ active'.base + 2..Len(memory') = {}
    BY <1>2, <1>3
  <2>7. Progress'
    BY <1>1, <1>2, <1>3, <1>4, <2>3, <2>4, <2>5, <2>6, CommandAssumption DEF Progress
  <2> QED BY <1>3, <1>4, <2>7 DEF Inv, Executing
<1>5. CASE pc' = "abort" /\ outcome' = "rolled-back"
  <2>1. Failing'
    BY <1>1, <1>3, <1>5, TurnsBack DEF Executing
  <2> QED BY <1>3, <1>5, <2>1 DEF Inv, Executing
<1> QED BY <1>3, <1>4, <1>5

LEMMA AcceptFailsStep ==
  ASSUME Inv, AcceptFails
  PROVE  Inv'
BY InsertFailsStep DEF AcceptFails, Executing

\* A step within the transaction that appends nothing.
LEMMA NothingAppended ==
  ASSUME Inv, pc \in Executing,
         UNCHANGED <<open, file, db, inSql, memory, active, recoveryRequired, current, state>>
  PROVE  /\ InTransaction' /\ Stored' = Stored
         /\ Effects' = Effects /\ FailureRecorded' = FailureRecorded
         /\ NotAccepted' = NotAccepted
<1>1. InTransaction
  BY RunningFacts
<1>2. Stored' = Stored
  BY SameFile
<1> QED BY <1>1, <1>2 DEF InTransaction, Effects, FailureRecorded, NotAccepted

LEMMA EnterSavepointStep ==
  ASSUME Inv, EnterSavepoint
  PROVE  Inv'
<1>1. pc = "savepoint" /\ state' = state
  BY DEF EnterSavepoint
<1>2. InTransaction /\ Progress /\ active \in ActiveTx /\ Len(memory) \in Nat
      /\ StoreTypeOK(Attributed) /\ CommandTypeOK
  BY <1>1, RunningFacts, StoredFacts, TypeParts DEF Executing, Inv
<1>3. CASE Savepoint /\ Goto("execute") /\ UNCHANGED outcome
  <2>1. /\ savepoint' = [rows |-> db, base |-> Len(memory)]
        /\ UNCHANGED <<open, file, db, inSql, memory, active, recoveryRequired, now>>
        /\ pc' = "execute"
        /\ UNCHANGED <<current, request, receipt, verifier, answer, outcome>>
    BY <1>3 DEF Savepoint, Goto
  <2>2. savepoint' \in [rows : Rows(Attributed), base : Nat]
    BY <1>2, <2>1 DEF StoreTypeOK
  <2>3. SavepointOK'
    BY <1>2, <2>1, <2>2 DEF SavepointOK, Inv
  <2>4. TypeOK'
    BY <1>1, <1>2, <2>1, <2>2 DEF TypeOK, StoreTypeOK, CommandTypeOK, AnEvent, Step
  <2>5. Progress' /\ InTransaction'
    BY <1>1, <1>2, <2>1, <2>3, NothingAppended DEF Progress, Executing
  <2>6. Occupied' /\ AnswerIsTrue' /\ Stored' = Stored /\ Whole(file, Stored)'
    BY <1>1, <2>1, Continues, SameFile
  <2> QED BY <2>1, <2>4, <2>5, <2>6 DEF Inv, Executing
<1>4. CASE SavepointFails /\ Goto("abort") /\ outcome' = "rolled-back"
  <2>1. /\ active' = [active EXCEPT !.failed = TRUE]
        /\ UNCHANGED <<sqlVars, db, memory>> /\ pc' = "abort"
        /\ UNCHANGED <<current, request, receipt, verifier, answer>>
    BY <1>4 DEF SavepointFails, Goto
  <2>2. active' \in ActiveTx
    BY <1>2, <2>1, ActiveFacts
  <2>3. TypeOK'
    BY <1>1, <1>2, <1>4, <2>1, <2>2
       DEF TypeOK, StoreTypeOK, CommandTypeOK, AnEvent, Step, Told, sqlVars
  <2>4. Failing'
    BY <1>1, <1>4, <2>1, TurnsBack DEF Executing, sqlVars
  <2>5. Occupied' /\ AnswerIsTrue' /\ Stored' = Stored /\ Whole(file, Stored)'
    BY <1>1, <2>1, Continues, SameFile DEF sqlVars
  <2> QED BY <2>1, <2>3, <2>4, <2>5 DEF Inv, Executing
<1> QED BY <1>3, <1>4 DEF EnterSavepoint

-----------------------------------------------------------------------------
(* The executor and what follows it *)

\* One more event, and the places of the events that say something.
LEMMA PlacesAfter ==
  ASSUME NEW b \in Nat, NEW log, NEW longer, Len(log) \in Nat, b <= Len(log),
         Len(longer) = Len(log) + 1, \A i \in 1..Len(log) : longer[i] = log[i],
         NEW what
  PROVE  /\ Cardinality(Places(b, log, what)) \in Nat
         /\ longer[Len(log) + 1].says.what = what =>
              Cardinality(Places(b, longer, what)) = Cardinality(Places(b, log, what)) + 1
         /\ longer[Len(log) + 1].says.what # what =>
              Places(b, longer, what) = Places(b, log, what)
<1> DEFINE N == Places(b, log, what)
           M == Places(b, longer, what)
<1>1. \A n \in b + 1..Len(log) : n \in 1..Len(log)
  OBVIOUS
<1>2. b + 1..Len(longer) = (b + 1..Len(log)) \cup {Len(log) + 1}
  OBVIOUS
<1>3. IsFiniteSet(N)
  <2>1. IsFiniteSet(b + 1..Len(log)) /\ N \in SUBSET (b + 1..Len(log))
    BY FS_Interval, b + 1 \in Int, Len(log) \in Int DEF Places
  <2> QED BY <2>1, FS_Subset
<1>4. Cardinality(N) \in Nat
  BY <1>3, FS_CardinalityType
<1>5. ASSUME longer[Len(log) + 1].says.what = what
      PROVE  Cardinality(M) = Cardinality(N) + 1
  <2>1. M = N \cup {Len(log) + 1}
    BY <1>1, <1>2, <1>5 DEF Places
  <2>2. Len(log) + 1 \notin N
    BY DEF Places
  <2> HIDE DEF N, M
  <2> QED BY <1>3, <2>1, <2>2, FS_AddElement
<1>6. ASSUME longer[Len(log) + 1].says.what # what PROVE M = N
  BY <1>1, <1>2, <1>6 DEF Places
<1> QED BY <1>4, <1>5, <1>6

\* After the acceptance, an append that is none keeps what is known of the
\* events of the command.
LEMMA AppendProgress ==
  ASSUME Inv, pc \in Executing, pc \notin {"verify", "accept"}, NEW what, what # "accepted",
         Len(memory') = Len(memory) + 1, \A i \in 1..Len(memory) : memory'[i] = memory[i],
         memory'[Len(memory) + 1].says.what = what,
         UNCHANGED <<file, active, current>>
  PROVE  /\ NotAccepted'
         /\ Len(memory') > active'.base
         /\ memory'[active'.base + 1].says.what = "accepted"
         /\ memory'[active'.base + 1].says.invocation = current'
         /\ \A i \in active'.base + 2..Len(memory') : memory'[i].says.what # "accepted"
         /\ Effects \in Nat
         /\ what = "effect" => Effects' = Effects + 1
         /\ what # "effect" => Effects' = Effects
         /\ what = "execution-failed" => FailureRecorded'
         /\ what # "execution-failed" => FailureRecorded' = FailureRecorded
<1>1. /\ Progress /\ active.base \in Nat /\ Len(memory) \in Nat
      /\ active.base <= Len(memory)
  BY RunningFacts, StoredFacts
<1>2. /\ NotAccepted /\ Len(memory) > active.base
      /\ memory[active.base + 1].says.what = "accepted"
      /\ memory[active.base + 1].says.invocation = current
      /\ \A i \in active.base + 2..Len(memory) : memory[i].says.what # "accepted"
  BY <1>1 DEF Progress
<1>3. NotAccepted'
  BY <1>2 DEF NotAccepted
<1>4. active.base + 1 \in 1..Len(memory)
  BY <1>1, <1>2
<1>5. \A i \in active.base + 2..Len(memory') : memory'[i].says.what # "accepted"
  <2>1. \A i \in active.base + 2..Len(memory') :
          i = Len(memory) + 1 \/ (i \in active.base + 2..Len(memory) /\ i \in 1..Len(memory))
    BY <1>1
  <2> QED BY <1>2, <2>1
<1>6. /\ Effects \in Nat
      /\ what = "effect" => Effects' = Effects + 1
      /\ what # "effect" => Effects' = Effects
  <2> DEFINE N == Places(active.base, memory, "effect")
             M == Places(active.base, memory', "effect")
             last == memory'[Len(memory) + 1]
  <2>1. /\ Cardinality(N) \in Nat
        /\ last.says.what = "effect" => Cardinality(M) = Cardinality(N) + 1
        /\ last.says.what # "effect" => M = N
    <3>1. /\ active.base \in Nat /\ Len(memory) \in Nat /\ active.base <= Len(memory)
          /\ Len(memory') = Len(memory) + 1
          /\ \A i \in 1..Len(memory) : memory'[i] = memory[i]
      BY <1>1
    <3> QED BY ONLY <3>1, PlacesAfter
  <2>2. Effects = Cardinality(N) /\ Effects' = Cardinality(M)
    BY DEF Effects, Places
  <2> HIDE DEF N, M
  <2> QED BY <2>1, <2>2
<1>7. \A i \in active.base + 1..Len(memory') :
        i = Len(memory) + 1 \/ (i \in active.base + 1..Len(memory) /\ i \in 1..Len(memory))
  BY <1>1
<1>8. what = "execution-failed" => FailureRecorded'
  BY <1>1 DEF FailureRecorded
<1>9. what # "execution-failed" => FailureRecorded' = FailureRecorded
  <2>1. \A i \in active.base + 1..Len(memory) :
          i \in active.base + 1..Len(memory') /\ memory'[i] = memory[i]
    BY <1>1
  <2> QED BY <1>7, <2>1 DEF FailureRecorded
<1> QED BY <1>1, <1>2, <1>3, <1>4, <1>5, <1>6, <1>8, <1>9

LEMMA EffectStep ==
  ASSUME Inv, Effect
  PROVE  Inv'
<1>1. pc = "execute" /\ Effects < MaxEffects /\ AppendAndApply("effect", "execute", "restore")
  BY DEF Effect
<1>2. Progress /\ SavepointOK /\ active \in ActiveTx /\ Len(memory) \in Nat
  BY <1>1, RunningFacts, StoredFacts DEF Executing, Progress
<1>3. /\ TypeOK' /\ Whole(file, Stored)' /\ IsFiniteSet(db'.events)
      /\ Occupied' /\ AnswerIsTrue'
      /\ Len(memory') = Len(memory) + 1
      /\ \A i \in 1..Len(memory) : memory'[i] = memory[i]
      /\ memory'[Len(memory) + 1].says.what = "effect"
      /\ UNCHANGED <<file, savepoint, active, current>>
      /\ \/ pc' = "execute" /\ outcome' = outcome /\ InTransaction'
         \/ pc' = "restore" /\ outcome' = "rolled-back"
  BY <1>1, AppendStep DEF Executing
<1>4. SavepointOK'
  BY <1>2, <1>3 DEF SavepointOK
<1>5. CASE pc' = "execute" /\ InTransaction'
  <2>1. /\ NotAccepted'
        /\ Len(memory') > active'.base
        /\ memory'[active'.base + 1].says.what = "accepted"
        /\ memory'[active'.base + 1].says.invocation = current'
        /\ \A i \in active'.base + 2..Len(memory') : memory'[i].says.what # "accepted"
        /\ Effects \in Nat /\ Effects' = Effects + 1
        /\ FailureRecorded' = FailureRecorded
    BY <1>1, <1>3, AppendProgress DEF Executing
  <2>2. ~FailureRecorded /\ Effects' <= MaxEffects
    BY <1>1, <1>2, <2>1, CommandAssumption DEF Progress
  <2>3. Progress'
    BY <1>4, <1>5, <2>1, <2>2 DEF Progress
  <2> QED BY <1>3, <1>5, <2>3 DEF Inv, Executing
<1>6. CASE pc' = "restore" /\ outcome' = "rolled-back"
  <2>1. Failing'
    BY <1>1, <1>2, <1>3, <1>4, <1>6, TurnsBack DEF Executing
  <2> QED BY <1>3, <1>6, <2>1 DEF Inv, Executing
<1> QED BY <1>3, <1>5, <1>6

LEMMA EffectFailsStep ==
  ASSUME Inv, EffectFails
  PROVE  Inv'
BY InsertFailsStep DEF EffectFails, Executing

LEMMA ExecutedStep ==
  ASSUME Inv, Executed
  PROVE  Inv'
<1>1. /\ pc = "execute" /\ UNCHANGED <<storeVars, state>>
      /\ UNCHANGED <<current, request, receipt, verifier, answer>>
      /\ \/ outcome' \in {"done", "failed"} /\ pc' = "release"
         \/ outcome' = "rolled-back" /\ pc' = "restore"
  BY DEF Executed, Goto
<1>2. /\ Progress /\ SavepointOK /\ active \in ActiveTx
      /\ UNCHANGED <<open, file, db, inSql, savepoint, memory, active, recoveryRequired, now>>
  BY <1>1, RunningFacts DEF Executing, Progress, storeVars, sqlVars
<1>3. CommandTypeOK'
  BY <1>1, TypeParts DEF Inv, CommandTypeOK, Step, Told
<1>4. SavepointOK'
  BY <1>2 DEF SavepointOK
<1>5. Occupied' /\ AnswerIsTrue'
  BY <1>1, <1>2, Continues
<1>6. CASE outcome' \in {"done", "failed"} /\ pc' = "release"
  <2>1. Progress' /\ InTransaction'
    BY <1>1, <1>2, <1>4, <1>6, NothingAppended DEF Progress, Executing
  <2> QED BY <1>1, <1>3, <1>5, <1>6, <2>1, SameStore DEF Inv, Executing
<1>7. CASE outcome' = "rolled-back" /\ pc' = "restore"
  <2>1. Failing'
    BY <1>1, <1>2, <1>4, <1>7, TurnsBack DEF Executing
  <2> QED BY <1>1, <1>3, <1>5, <1>7, <2>1, SameStore DEF Inv, Executing
<1> QED BY <1>1, <1>6, <1>7

LEMMA ReleaseSavepointStep ==
  ASSUME Inv, ReleaseSavepoint
  PROVE  Inv'
<1>1. /\ pc = "release" /\ UNCHANGED <<outcome, state>>
      /\ pc' = (IF outcome = "done" THEN "finalise" ELSE "evidence")
      /\ UNCHANGED <<current, request, receipt, verifier, answer>>
      /\ savepoint' = None
      /\ UNCHANGED <<open, file, db, inSql, memory, active, recoveryRequired, now>>
  BY DEF ReleaseSavepoint, Goto, Release
<1>2. Progress /\ outcome \in {"done", "failed"} /\ pc' \in {"finalise", "evidence"}
  BY <1>1, RunningFacts DEF Executing, Progress
<1>3. TypeOK'
  BY <1>1, <1>2, TypeParts DEF Inv, TypeOK, CommandTypeOK, StoreTypeOK, AnEvent, Step
<1>4. InTransaction' /\ Stored' = Stored /\ Effects' = Effects
      /\ FailureRecorded' = FailureRecorded /\ NotAccepted' = NotAccepted
  BY <1>1, NothingAppended DEF Executing
<1>5. Progress'
  BY <1>1, <1>2, <1>4 DEF Progress
<1>6. Occupied' /\ AnswerIsTrue' /\ Whole(file, Stored)'
  BY <1>1, <1>2, Continues, SameFile
<1> QED BY <1>1, <1>2, <1>3, <1>4, <1>5, <1>6 DEF Inv, Executing

LEMMA ReleaseFailsStep ==
  ASSUME Inv, ReleaseFails
  PROVE  Inv'
<1>1. /\ pc = "release" /\ pc' = "restore" /\ outcome' = "rolled-back"
      /\ UNCHANGED <<storeVars, state>>
      /\ UNCHANGED <<current, request, receipt, verifier, answer>>
  BY DEF ReleaseFails, Goto
<1>2. /\ SavepointOK /\ active \in ActiveTx
      /\ UNCHANGED <<open, file, savepoint, memory, active>>
  BY <1>1, RunningFacts DEF Executing, Progress, storeVars, sqlVars
<1>3. CommandTypeOK'
  BY <1>1, TypeParts DEF Inv, CommandTypeOK, Step, Told
<1>4. SavepointOK'
  BY <1>2 DEF SavepointOK
<1>5. Occupied' /\ AnswerIsTrue'
  BY <1>1, <1>2, Continues
<1>6. Failing'
  BY <1>1, <1>2, <1>4, TurnsBack DEF Executing
<1> QED BY <1>1, <1>3, <1>5, <1>6, SameStore DEF Inv, Executing

LEMMA RestoreStep ==
  ASSUME Inv, Restore
  PROVE  Inv'
<1>1. /\ pc = "restore" /\ pc' = "abort" /\ UNCHANGED <<outcome, state>>
      /\ UNCHANGED <<current, request, receipt, verifier, answer>>
  BY DEF Restore, Goto
<1>2. PICK restored \in BOOLEAN : RollbackTo(restored)
  BY DEF Restore
<1>3. Failing /\ active \in ActiveTx /\ SavepointOK
  BY <1>1 DEF Inv, Failing
<1>4. StoreTypeOK(Attributed)' /\ IsFiniteSet(db'.events)
  BY <1>2, <1>3, RollbackTypes, TypeParts DEF Inv
<1>5. UNCHANGED <<open, file, inSql, recoveryRequired, now>>
  BY <1>2 DEF RollbackTo
<1>6. CommandTypeOK'
  BY <1>1, TypeParts DEF Inv, CommandTypeOK, Step
<1>7. Failing'
  BY <1>1, <1>3, <1>5 DEF Failing, NotAccepted
<1>8. Occupied' /\ AnswerIsTrue' /\ Whole(file, Stored)'
  BY <1>1, <1>5, Continues, SameFile
<1> QED BY <1>1, <1>4, <1>6, <1>7, <1>8 DEF Inv, Executing, TypeOK, CommandTypeOK, AnEvent

LEMMA RecordFailureStep ==
  ASSUME Inv, RecordFailure
  PROVE  Inv'
<1>1. pc = "evidence"
  BY DEF RecordFailure
<1>2. Progress /\ outcome = "failed" /\ savepoint = None /\ Effects <= MaxEffects
  BY <1>1, RunningFacts DEF Executing, Progress
<1>3. CASE AppendAndApply("execution-failed", "finalise", "abort")
  <2>1. /\ TypeOK' /\ Whole(file, Stored)' /\ IsFiniteSet(db'.events)
        /\ Occupied' /\ AnswerIsTrue'
        /\ Len(memory') = Len(memory) + 1
        /\ \A i \in 1..Len(memory) : memory'[i] = memory[i]
        /\ memory'[Len(memory) + 1].says.what = "execution-failed"
        /\ UNCHANGED <<file, savepoint, active, current>>
        /\ \/ pc' = "finalise" /\ outcome' = outcome /\ InTransaction'
           \/ pc' = "abort" /\ outcome' = "rolled-back"
    BY <1>1, <1>3, AppendStep DEF Executing
  <2>2. CASE pc' = "finalise" /\ outcome' = outcome /\ InTransaction'
    <3>1. /\ NotAccepted'
          /\ Len(memory') > active'.base
          /\ memory'[active'.base + 1].says.what = "accepted"
          /\ memory'[active'.base + 1].says.invocation = current'
          /\ \A i \in active'.base + 2..Len(memory') : memory'[i].says.what # "accepted"
          /\ Effects' = Effects /\ FailureRecorded'
      BY <1>1, <2>1, AppendProgress DEF Executing
    <3>2. Progress'
      BY <1>2, <2>1, <2>2, <3>1 DEF Progress
    <3> QED BY <2>1, <2>2, <3>2 DEF Inv, Executing
  <2>3. CASE pc' = "abort" /\ outcome' = "rolled-back"
    <3>1. Failing'
      BY <1>1, <2>1, <2>3, TurnsBack DEF Executing
    <3> QED BY <2>1, <2>3, <3>1 DEF Inv, Executing
  <2> QED BY <2>1, <2>2, <2>3
<1>4. CASE InsertFails(active.id) /\ Goto("abort") /\ outcome' = "rolled-back" /\ UNCHANGED state
  BY <1>1, <1>4, InsertFailsStep DEF Executing
<1> QED BY <1>3, <1>4 DEF RecordFailure

-----------------------------------------------------------------------------
(* The end of a command *)

\* The row of the active transaction, with its metadata, is the only new one
\* and spans the events of the command.
LEMMA CommitExtends ==
  ASSUME Inv, pc = "finalise", MayFinalise
  PROVE  \E t \in TxRow : Extends(file, Stored, Finalised, memory, t)
<1>1. /\ InTransaction /\ Progress /\ active \in ActiveTx
      /\ active.base = Len(Stored) /\ active.base \in Nat
  BY RunningFacts DEF Executing
<1>2. StoreTypeOK(Attributed) /\ Len(memory) \in Nat /\ Whole(file, Stored)
  BY TypeParts, StoredFacts DEF Inv
<1>3. /\ Finalised.events = db.events
      /\ Finalised.txs = {IF t.id = active.id THEN Finalise(t) ELSE t : t \in db.txs}
      /\ \A t \in TxRow : Finalise(t) \in TxRow
  BY <1>1, <1>2, FinalisedType
<1>4. PICK t \in db.txs : t.id = active.id /\ db.txs = file.txs \cup {t}
  BY <1>1 DEF InTransaction
<1>5. \A s \in file.txs : s.id # active.id
  BY <1>1 DEF InTransaction
<1>6. t \in TxRow /\ Finalise(t) \in TxRow
  BY <1>2, <1>3 DEF StoreTypeOK, Rows
<1>7. /\ Finalise(t).id = active.id /\ Finalise(t).committed = now
      /\ Finalise(t).first = active.base + 1 /\ Finalise(t).last = Len(memory)
      /\ Finalise(t).count = Len(memory) - active.base
  BY <1>4, <1>6 DEF Finalise, TxRow
<1>8. now # None
  BY <1>2, StoreAssumption DEF StoreTypeOK
<1>9. Finalised.txs = file.txs \cup {Finalise(t)}
  BY <1>3, <1>4, <1>5
<1>10. Holds(Finalised, memory) /\ Replays(memory)
  BY <1>1, <1>3 DEF InTransaction, Holds
<1>11. /\ Len(Stored) < Len(memory)
       /\ \A i \in 1..Len(Stored) : memory[i] = Stored[i]
       /\ \A i \in Len(Stored) + 1..Len(memory) : memory[i].tx = active.id
  BY <1>1, <1>2 DEF InTransaction, MayFinalise
<1>12. Extends(file, Stored, Finalised, memory, Finalise(t))
  BY <1>1, <1>2, <1>5, <1>7, <1>8, <1>9, <1>10, <1>11 DEF Extends
<1> QED BY <1>6, <1>12

\* What its COMMIT makes durable is the command, as it ended.
LEMMA CommitAddsCommand ==
  ASSUME Inv, pc = "finalise", MayFinalise
  PROVE  /\ Whole(Finalised, memory)
         /\ outcome \in {"done", "failed"} /\ Effects \in 0..MaxEffects
         /\ Commands(Finalised)
              = Commands(file) \cup {[invocation |-> current, outcome |-> outcome,
                                      effects |-> Effects]}
<1>1. PICK t \in TxRow : Extends(file, Stored, Finalised, memory, t)
  BY CommitExtends
<1>2. Progress /\ active.base = Len(Stored) /\ active.base \in Nat
      /\ active.base <= Len(memory) /\ Len(memory) \in Nat
  BY RunningFacts, StoredFacts DEF Executing
<1>3. Effects = Cardinality(Places(Len(Stored), memory, "effect"))
  BY <1>2 DEF Effects, Places
<1>4. FailureRecorded <=> Places(Len(Stored), memory, "execution-failed") # {}
  BY <1>2 DEF FailureRecorded, Places
<1>5. /\ outcome \in {"done", "failed"} /\ Effects <= MaxEffects
      /\ outcome = "failed" <=> FailureRecorded
      /\ memory[Len(Stored) + 1].says.what = "accepted"
      /\ memory[Len(Stored) + 1].says.invocation = current
      /\ \A n \in Len(Stored) + 2..Len(memory) : memory[n].says.what # "accepted"
  BY <1>2 DEF Progress
<1>6. Effects \in Nat
  <2>1. IsFiniteSet(Len(Stored) + 1..Len(memory))
    BY <1>2, FS_Interval, Len(Stored) + 1 \in Int, Len(memory) \in Int
  <2>2. IsFiniteSet(Places(Len(Stored), memory, "effect"))
    BY <2>1, FS_Subset DEF Places
  <2> QED BY <1>3, <2>2, FS_CardinalityType
<1>7. Commands(Finalised) = Commands(file) \cup {CommandIn(Finalised, current, t)}
  BY <1>1, <1>5, OneMoreCommand
<1>8. CommandIn(Finalised, current, t)
        = [invocation |-> current, outcome |-> outcome, effects |-> Effects]
  BY <1>1, <1>3, <1>4, <1>5, CommandOfLog
<1>9. Whole(Finalised, memory)
  BY <1>1, ExtendedIsWhole
<1> QED BY <1>5, <1>6, <1>7, <1>8, <1>9, CommandAssumption

LEMMA CommitTransactionStep ==
  ASSUME Inv, CommitTransaction
  PROVE  Inv'
<1>1. /\ pc = "finalise" /\ MayFinalise /\ Answer(outcome) /\ state' = state
      /\ file' = Finalised /\ db' = Finalised
      /\ inSql' = FALSE /\ active' = None
      /\ UNCHANGED <<open, savepoint, memory, recoveryRequired, now>>
  BY DEF CommitTransaction, Commit
<1>2. /\ InTransaction /\ Progress /\ active \in ActiveTx /\ StoreTypeOK(Attributed)
      /\ CommandTypeOK /\ savepoint = None /\ state = memory
  BY <1>1, RunningFacts, TypeParts DEF Inv, Executing, Progress, InTransaction
<1>3. /\ Whole(Finalised, memory)
      /\ outcome \in {"done", "failed"} /\ Effects \in 0..MaxEffects
      /\ Commands(Finalised)
              = Commands(file) \cup {[invocation |-> current, outcome |-> outcome,
                                      effects |-> Effects]}
  BY <1>1, CommitAddsCommand
<1>4. /\ pc' = "idle" /\ outcome' = None
      /\ current' = None /\ request' = None /\ receipt' = None
      /\ answer' = [to |-> current, told |-> outcome, effects |-> Effects]
      /\ verifier' = verifier
  BY <1>1, <1>3 DEF Answer
<1>5. Finalised \in Rows(Attributed)
  BY <1>1, <1>2, FinalisedType
<1>6. StoreTypeOK(Attributed)'
  BY <1>1, <1>2, <1>5 DEF StoreTypeOK
<1>7. current \in Invocation /\ open /\ Effects \in Nat
  BY <1>1, <1>3, OccupiedFacts, CommandAssumption
<1>8. CommandTypeOK'
  BY <1>1, <1>2, <1>3, <1>4, <1>7 DEF CommandTypeOK, Step, Told
<1>9. Stored' = memory /\ IsFiniteSet(db'.events) /\ Whole(file, Stored)'
  BY <1>1, <1>3, HeldRows DEF Whole, Stored
<1>10. AtRest'
  BY <1>1, <1>2, <1>7, <1>9 DEF AtRest
<1>11. AnswerIsTrue'
  <2>1. [invocation |-> answer'.to, outcome |-> answer'.told, effects |-> answer'.effects]
          \in Durable'
    <3>1. Durable' = Commands(file')
      BY DurableCommands
    <3> QED BY <1>1, <1>3, <1>4, <3>1
  <2>2. answer'.told # "rolled-back"
    BY <1>3, <1>4
  <2> QED BY <2>1, <2>2 DEF AnswerIsTrue
<1>12. Occupied'
  BY <1>4 DEF Occupied
<1> QED BY <1>4, <1>6, <1>8, <1>9, <1>10, <1>11, <1>12
        DEF Inv, Executing, TypeOK, CommandTypeOK, AnEvent

LEMMA CommitTransactionFailsStep ==
  ASSUME Inv, CommitTransactionFails
  PROVE  Inv'
<1>1. /\ pc = "finalise" /\ MayFinalise /\ CommitFails /\ pc' = "abort" /\ outcome' = "rolled-back"
      /\ state' = state
      /\ UNCHANGED <<current, request, receipt, verifier, answer>>
      /\ UNCHANGED <<open, savepoint, memory, active, recoveryRequired, now>>
  BY DEF CommitTransactionFails, CommitFails, Goto
<1>2. /\ InTransaction /\ Progress /\ active \in ActiveTx /\ StoreTypeOK(Attributed)
      /\ CommandTypeOK /\ NotAccepted
  BY <1>1, RunningFacts, TypeParts DEF Inv, Executing, Progress
<1>3. /\ Whole(Finalised, memory) /\ Finalised \in Rows(Attributed)
      /\ Finalised.events = db.events
  BY <1>1, <1>2, CommitAddsCommand, FinalisedType
<1>4. /\ file' \in {file, Finalised} /\ db' \in {db, file, Finalised}
      /\ inSql' \in BOOLEAN /\ (inSql' => file' = file)
  BY <1>1, <1>2 DEF CommitFails, StoreTypeOK
<1>5. StoreTypeOK(Attributed)'
  <2>1. file' \in Rows(Attributed) /\ db' \in Rows(Attributed)
    BY <1>2, <1>3, <1>4 DEF StoreTypeOK
  <2>2. {open', inSql', recoveryRequired'} \subseteq BOOLEAN
    BY <1>1, <1>2, <1>4 DEF StoreTypeOK
  <2>3. UNCHANGED <<savepoint, memory, active, now>>
    BY <1>1
  <2> QED BY <1>2, <2>1, <2>2, <2>3 DEF StoreTypeOK
<1>6. CommandTypeOK'
  BY <1>1, <1>2 DEF CommandTypeOK, Step, Told
<1>7. Whole(file, Stored)'
  <2>1. CASE file' = file
    BY <2>1, SameFile
  <2>2. CASE file' = Finalised
    BY <1>3, <2>2, HeldRows DEF Whole, Stored
  <2> QED BY <1>4, <2>1, <2>2
<1>8. IsFiniteSet(db'.events)
  BY <1>3, <1>4, StoredFacts DEF Inv
<1>9. Failing'
  BY <1>1, <1>2, <1>4 DEF Failing, NotAccepted
<1>10. Occupied' /\ AnswerIsTrue'
  BY <1>1, Continues
<1> QED BY <1>1, <1>5, <1>6, <1>7, <1>8, <1>9, <1>10
        DEF Inv, Executing, TypeOK, CommandTypeOK, AnEvent

LEMMA AbortTransactionStep ==
  ASSUME Inv, AbortTransaction
  PROVE  Inv'
<1>1. pc = "abort" /\ state' = Rehydrated(memory')
  BY DEF AbortTransaction
<1>2. PICK rolledBack \in BOOLEAN, reloaded \in BOOLEAN :
        /\ Abort(rolledBack, reloaded)
        /\ Answer(IF rolledBack /\ reloaded /\ Replays(memory') THEN outcome ELSE "uncertain")
  BY DEF AbortTransaction
<1>3. Failing /\ outcome \in {"denied", "rolled-back"} /\ StoreTypeOK(Attributed) /\ CommandTypeOK
  BY <1>1, TypeParts DEF Inv, Failing
<1>4. current \in Invocation /\ open
  BY <1>1, OccupiedFacts
<1>5. StoreTypeOK(Attributed)' /\ IsFiniteSet(db'.events)
  BY <1>2, <1>3, StoredFacts, AbortTypes DEF Inv
<1>6. /\ rolledBack => inSql
      /\ db' = IF rolledBack THEN file ELSE db
      /\ active' = None /\ savepoint' = None
      /\ reloaded => memory' = EventsOf(db')
      /\ ~recoveryRequired' => rolledBack /\ reloaded
      /\ UNCHANGED <<open, file, now>>
  BY <1>2 DEF Abort
<1> DEFINE told == IF rolledBack /\ reloaded /\ Replays(memory') THEN outcome ELSE "uncertain"
<1>7. told \in {"denied", "rolled-back", "uncertain"}
  BY <1>3
<1>8. told = "rolled-back" => rolledBack /\ outcome = "rolled-back"
  OBVIOUS
<1>9. Answer(told)
  BY <1>2
<1> HIDE DEF told
<1>10. /\ pc' = "idle" /\ outcome' = None
       /\ current' = None /\ request' = None /\ receipt' = None
       /\ answer' = [to |-> current, told |-> told, effects |-> 0]
       /\ verifier' = verifier
  BY <1>7, <1>9 DEF Answer
<1>11. state' \in Seq(AnEvent)
  BY <1>1, <1>5, RehydratedLog DEF StoreTypeOK, AnEvent
<1>12. CommandTypeOK'
  BY <1>3, <1>4, <1>7, <1>10, <1>11 DEF CommandTypeOK, Step, Told
<1>13. Stored' = Stored /\ Whole(file, Stored)'
  BY <1>6, SameFile
<1>14. AtRest'
  <2>1. ASSUME ~recoveryRequired'
        PROVE  db' = file' /\ memory' = Stored' /\ state' = memory'
    <3>1. db' = file /\ memory' = Stored
      BY <1>6, <2>1 DEF Stored
    <3> QED BY <1>1, <1>6, <1>13, <3>1, StoredFacts, RehydratedLog
  <2> QED BY <1>4, <1>6, <2>1 DEF AtRest
<1>15. AnswerIsTrue'
  <2>1. ASSUME told = "rolled-back", NEW c \in Durable PROVE c.invocation # current
    <3>1. NotAccepted
      BY <1>3, <1>6, <1>8, <2>1 DEF Failing
    <3> QED BY <2>1, <3>1, NotDurable
  <2>2. Durable' = Durable
    BY <1>6, DurableCommands
  <2>3. answer'.told = told /\ answer'.to = current
    BY <1>10
  <2> QED BY <1>7, <2>1, <2>2, <2>3 DEF AnswerIsTrue
<1>16. Occupied'
  BY <1>10 DEF Occupied
<1> QED BY <1>5, <1>10, <1>12, <1>13, <1>14, <1>15, <1>16
        DEF Inv, Executing, TypeOK, CommandTypeOK, AnEvent

-----------------------------------------------------------------------------
(* The process and the clock *)

\* What the last caller was told stays true as long as the file does not
\* change.
LEMMA SameAnswer ==
  ASSUME Inv, file' = file, answer' \in {answer, None}
  PROVE  AnswerIsTrue'
<1>1. Durable' = Durable
  BY DurableCommands
<1>2. AnswerIsTrue
  BY DEF Inv
<1> QED BY <1>1, <1>2 DEF AnswerIsTrue

LEMMA DisconnectedStep ==
  ASSUME Inv, Disconnected, NoCommand, verifier' = verifier, answer' \in {answer, None}
  PROVE  Inv'
<1>1. /\ open' = FALSE /\ db' = file /\ inSql' = FALSE /\ savepoint' = None
      /\ memory' = <<>> /\ active' = None /\ recoveryRequired' = FALSE
      /\ UNCHANGED <<file, now>>
  BY DEF Disconnected
<1>2. /\ pc' = "idle" /\ outcome' = None /\ state' = <<>>
      /\ current' = None /\ request' = None /\ receipt' = None
  BY DEF NoCommand
<1>3. <<>> \in Seq(AnEvent)
  BY EmptySeq
<1>4. StoreTypeOK(Attributed)'
  BY <1>1, <1>3 DEF Inv, TypeOK, StoreTypeOK, AnEvent
<1>5. CommandTypeOK'
  BY <1>2, <1>3, TypeParts DEF Inv, CommandTypeOK, Step
<1>6. AtRest' /\ Occupied'
  BY <1>1, <1>2 DEF AtRest, Occupied
<1>7. Whole(file, Stored)' /\ IsFiniteSet(db'.events)
  BY <1>1, SameFile, StoredFacts
<1> QED BY <1>1, <1>2, <1>4, <1>5, <1>6, <1>7, SameAnswer
        DEF Inv, Executing, TypeOK, CommandTypeOK, AnEvent

LEMMA OpenStep ==
  ASSUME Inv, Open
  PROVE  Inv'
<1>1. /\ ~open /\ open' = TRUE /\ memory' = EventsOf(file) /\ state' = memory'
      /\ verifier' \in Verifier
      /\ UNCHANGED <<file, db, inSql, savepoint, active, recoveryRequired, now>>
      /\ UNCHANGED <<pc, current, request, receipt, outcome, answer>>
  BY DEF Open, OpenStore, commandVars
<1>2. pc = "idle" /\ AtRest /\ db = file
  <2>1. pc = "idle"
    BY <1>1, OccupiedFacts
  <2> QED BY <1>1, <2>1 DEF Inv, AtRest
<1>3. Stored' = Stored /\ Whole(file, Stored)' /\ memory' = Stored
  BY <1>1, SameFile DEF Stored
<1>4. StoreTypeOK(Attributed)'
  BY <1>1, <1>3, StoredFacts DEF Inv, TypeOK, StoreTypeOK, AnEvent
<1>5. CommandTypeOK'
  BY <1>1, <1>3, StoredFacts, TypeParts DEF Inv, CommandTypeOK
<1>6. AtRest' /\ Occupied' /\ AnswerIsTrue'
  BY <1>1, <1>2, <1>3, SameAnswer DEF AtRest, Occupied
<1> QED BY <1>1, <1>2, <1>3, <1>4, <1>5, <1>6
        DEF Inv, Executing, TypeOK, CommandTypeOK, AnEvent

LEMMA TimePassesStep ==
  ASSUME Inv, TimePasses
  PROVE  Inv'
<1>1. /\ now' \in 0..MaxTime
      /\ UNCHANGED <<open, file, db, inSql, savepoint, memory, active, recoveryRequired>>
      /\ UNCHANGED <<pc, current, request, receipt, outcome, state, verifier, answer>>
  BY DEF TimePasses, Tick, commandVars
<1>2. TypeOK'
  BY <1>1 DEF Inv, TypeOK, StoreTypeOK
<1>3. Stored' = Stored /\ Whole(file, Stored)' /\ IsFiniteSet(db'.events)
  BY <1>1, SameFile DEF Inv
<1>4. pc \in {"idle", "begin"} => AtRest'
  BY <1>1, <1>3 DEF Inv, AtRest
<1>5. pc \in Executing => InTransaction' /\ Progress'
  <2>1. Effects' = Effects /\ FailureRecorded' = FailureRecorded
        /\ NotAccepted' = NotAccepted /\ SavepointOK' = SavepointOK
    BY <1>1 DEF Effects, FailureRecorded, NotAccepted, SavepointOK
  <2>2. Progress => Progress'
    BY <1>1, <2>1 DEF Progress
  <2>3. InTransaction => InTransaction'
    BY <1>1, <1>3 DEF InTransaction
  <2> QED BY <2>2, <2>3 DEF Inv
<1>6. pc \in {"restore", "abort"} => Failing'
  BY <1>1 DEF Inv, Failing, NotAccepted, SavepointOK
<1>7. Occupied' /\ AnswerIsTrue'
  BY <1>1, SameAnswer DEF Inv, Occupied
<1> QED BY <1>1, <1>2, <1>3, <1>4, <1>5, <1>6, <1>7 DEF Inv

-----------------------------------------------------------------------------
(* Theorems *)

LEMMA InitInv == Init => Inv
<1> SUFFICES ASSUME Init PROVE Inv
  OBVIOUS
<1>1. /\ open = TRUE /\ file = NoRows /\ db = NoRows
      /\ inSql = FALSE /\ savepoint = None /\ memory = <<>> /\ active = None
      /\ recoveryRequired = FALSE /\ now = 0
      /\ pc = "idle" /\ current = None /\ request = None /\ receipt = None
      /\ outcome = None /\ state = <<>> /\ verifier \in Verifier /\ answer = None
  BY DEF Init, StoreInit
<1>2. <<>> \in Seq(AnEvent) /\ Len(<<>>) = 0
  BY EmptySeq
<1>3. NoRows.events = {} /\ NoRows.txs = {} /\ NoRows \in Rows(Attributed)
  BY DEF NoRows, Rows
<1>4. Holds(NoRows, <<>>)
  BY <1>2, <1>3 DEF Holds, IsLog
<1>5. EventsOf(file) = <<>> /\ IsFiniteSet(db.events)
  BY <1>1, <1>4, HeldRows
<1>6. Whole(file, Stored)
  BY <1>1, <1>2, <1>3, <1>4, <1>5 DEF Whole, Replays, Stored
<1>7. StoreTypeOK(Attributed)
  <2>1. now \in 0..MaxTime
    BY <1>1, StoreAssumption
  <2>2. {open, inSql, recoveryRequired} \subseteq BOOLEAN
    BY <1>1
  <2>3. {file, db} \subseteq Rows(Attributed) /\ memory \in Seq(Event(Attributed))
    BY <1>1, <1>2, <1>3 DEF AnEvent
  <2> QED BY <1>1, <2>1, <2>2, <2>3 DEF StoreTypeOK
<1>8. CommandTypeOK
  BY <1>1, <1>2 DEF CommandTypeOK, Step
<1>9. AtRest /\ Occupied /\ AnswerIsTrue
  BY <1>1, <1>5 DEF AtRest, Occupied, AnswerIsTrue, Stored
<1> QED BY <1>1, <1>5, <1>6, <1>7, <1>8, <1>9, TypeParts DEF Inv, Executing

LEMMA StepInv == Inv /\ [Next]_vars => Inv'
<1> SUFFICES ASSUME Inv, [Next]_vars PROVE Inv'
  OBVIOUS
<1>1. CASE \E e \in Envelope, command \in Operation : Submit(e, command)
  BY <1>1, SubmitStep
<1>2. CASE BeginTransaction
  BY <1>2, BeginTransactionStep
<1>3. CASE BeginRefused
  BY <1>3, BeginRefusedStep
<1>4. CASE VerifyInvocation
  BY <1>4, VerifyInvocationStep
<1>5. CASE Deny
  BY <1>5, DenyStep
<1>6. CASE Accept
  BY <1>6, AcceptStep
<1>7. CASE AcceptFails
  BY <1>7, AcceptFailsStep
<1>8. CASE EnterSavepoint
  BY <1>8, EnterSavepointStep
<1>9. CASE Effect
  BY <1>9, EffectStep
<1>10. CASE EffectFails
  BY <1>10, EffectFailsStep
<1>11. CASE Executed
  BY <1>11, ExecutedStep
<1>12. CASE ReleaseSavepoint
  BY <1>12, ReleaseSavepointStep
<1>13. CASE ReleaseFails
  BY <1>13, ReleaseFailsStep
<1>14. CASE Restore
  BY <1>14, RestoreStep
<1>15. CASE RecordFailure
  BY <1>15, RecordFailureStep
<1>16. CASE CommitTransaction
  BY <1>16, CommitTransactionStep
<1>17. CASE CommitTransactionFails
  BY <1>17, CommitTransactionFailsStep
<1>18. CASE AbortTransaction
  BY <1>18, AbortTransactionStep
<1>19. CASE Crash
  BY <1>19, DisconnectedStep DEF Crash, EndProcess
<1>20. CASE Close
  BY <1>20, DisconnectedStep DEF Close, CloseStore
<1>21. CASE Open
  BY <1>21, OpenStep
<1>22. CASE TimePasses
  BY <1>22, TimePassesStep
<1>23. CASE UNCHANGED vars
  <2>1. /\ UNCHANGED <<open, file, db, inSql, savepoint, memory, active, recoveryRequired, now>>
        /\ UNCHANGED <<pc, current, request, receipt, outcome, state, verifier, answer>>
    BY <1>23 DEF vars, storeVars, sqlVars, commandVars
  <2>2. TypeOK' = TypeOK /\ Stored' = Stored /\ AtRest' = AtRest
        /\ InTransaction' = InTransaction /\ Progress' = Progress
        /\ Failing' = Failing /\ Occupied' = Occupied
    BY <2>1 DEF TypeOK, StoreTypeOK, Stored, AtRest, InTransaction, Progress, Effects,
                FailureRecorded, SavepointOK, NotAccepted, Failing, Occupied
  <2>3. AnswerIsTrue' /\ Whole(file, Stored)'
    BY <2>1, SameAnswer, SameFile
  <2> QED BY <2>1, <2>2, <2>3 DEF Inv
<1> QED BY <1>1, <1>2, <1>3, <1>4, <1>5, <1>6, <1>7, <1>8, <1>9, <1>10, <1>11, <1>12,
           <1>13, <1>14, <1>15, <1>16, <1>17, <1>18, <1>19, <1>20, <1>21, <1>22, <1>23
        DEF Next

LEMMA Invariance == Spec => []Inv
BY InitInv, StepInv, PTL DEF Spec

\* The events, rows and transactions have their types, through failed
\* statements, crashes and reopenings.
THEOREM TypeCorrect == Spec => []TypeOK
<1>1. Inv => TypeOK
  BY DEF Inv
<1> QED BY <1>1, Invariance, PTL

\* Between commands a store that does not ask to be reopened has runtime
\* state, memory, connection and file in agreement.
THEOREM StateCorrect == Spec => []StateIsTheFile
<1>1. Inv => StateIsTheFile
  BY DEF Inv, AtRest, StateIsTheFile, Stored
<1> QED BY <1>1, Invariance, PTL

\* No caller is told of a success or a recorded failure that is not in the
\* file, or of a rollback of what is.
THEOREM AnswerCorrect == Spec => []AnswerIsTrue
<1>1. Inv => AnswerIsTrue
  BY DEF Inv
<1> QED BY <1>1, Invariance, PTL

-----------------------------------------------------------------------------
(* Atomicity *)

\* Only a COMMIT changes the file.
LEMMA FileSteps ==
  ASSUME Inv, [Next]_vars
  PROVE  file' = file \/ (pc = "finalise" /\ MayFinalise /\ file' = Finalised)
<1>1. pc \in Executing => inSql
  BY RunningFacts DEF InTransaction
<1>2. CASE Accept \/ Effect \/ RecordFailure
  BY <1>1, <1>2 DEF Accept, Effect, RecordFailure, AppendAndApply, Insert, InsertFails,
                    Executing, sqlVars
<1>3. CASE BeginTransaction \/ BeginRefused
  BY <1>3 DEF BeginTransaction, Begin, BeginRefused, BeginFails
<1>4. CASE AcceptFails \/ EffectFails
  BY <1>4 DEF AcceptFails, EffectFails, InsertFails, sqlVars
<1>5. CASE EnterSavepoint
  BY <1>5 DEF EnterSavepoint, Savepoint, SavepointFails, sqlVars
<1>6. CASE ReleaseSavepoint \/ Restore
  BY <1>6 DEF ReleaseSavepoint, Release, Restore, RollbackTo
<1>7. CASE CommitTransaction \/ CommitTransactionFails
  BY <1>7 DEF CommitTransaction, Commit, CommitTransactionFails, CommitFails
<1>8. CASE AbortTransaction
  BY <1>8 DEF AbortTransaction, Abort
<1>9. CASE Crash \/ Close \/ Open \/ TimePasses
  BY <1>9 DEF Crash, Close, Open, EndProcess, CloseStore, OpenStore, Disconnected,
              TimePasses, Tick
<1>10. CASE (\E e \in Envelope, command \in Operation : Submit(e, command))
             \/ VerifyInvocation \/ Deny \/ Executed \/ ReleaseFails
  BY <1>10 DEF Submit, VerifyInvocation, Deny, Executed, ReleaseFails, storeVars, sqlVars
<1>11. CASE UNCHANGED vars
  BY <1>11 DEF vars, storeVars, sqlVars
<1> QED BY <1>2, <1>3, <1>4, <1>5, <1>6, <1>7, <1>8, <1>9, <1>10, <1>11 DEF Next

LEMMA StepTakesEffect == Inv /\ [Next]_vars => [Atomic!Next]_Durable
<1> SUFFICES ASSUME Inv, [Next]_vars PROVE [Atomic!Next]_Durable
  OBVIOUS
<1>1. CASE file' = file
  BY <1>1, DurableCommands
<1>2. CASE pc = "finalise" /\ MayFinalise /\ file' = Finalised
  <2> DEFINE c == [invocation |-> current, outcome |-> outcome, effects |-> Effects]
  <2>1. /\ outcome \in {"done", "failed"} /\ Effects \in 0..MaxEffects
        /\ Durable' = Durable \cup {c}
    BY <1>2, CommitAddsCommand, DurableCommands
  <2>2. NotAccepted /\ current \in Invocation
    BY <1>2, RunningFacts, OccupiedFacts DEF Executing, Progress
  <2>3. c \in Atomic!Command /\ c.invocation = current
    BY <2>1, <2>2 DEF Atomic!Command
  <2>4. \A d \in Durable : d.invocation # c.invocation
    BY <2>2, <2>3, NotDurable
  <2> HIDE DEF c
  <2> QED BY <2>1, <2>3, <2>4 DEF Atomic!Next, Atomic!TakeEffect
<1> QED BY <1>1, <1>2, FileSteps

\* Whatever fails and whenever the process ends, the file changes by whole
\* commands: an invocation takes effect once, with all its events, or never.
THEOREM RefinementCorrect == Spec => ImplementsAtomicCommands
<1>1. Init => Atomic!Init
  <2>1. Init => file.txs = {}
    BY DEF Init, StoreInit, NoRows
  <2>2. file.txs = {} => Durable = {}
    BY DurableCommands DEF Commands
  <2> QED BY <2>1, <2>2 DEF Atomic!Init
<1> QED BY <1>1, StepTakesEffect, Invariance, PTL
        DEF Spec, ImplementsAtomicCommands, Atomic!Spec

-----------------------------------------------------------------------------
(* The file verifies *)

\* No transaction started in the future or committed before it started.
Timely(rows, at) ==
  \A t \in rows.txs :
    t.started <= at /\ (t.committed # None => t.started <= t.committed)

ClockInv ==
  /\ Timely(file, now) /\ Timely(db, now)
  /\ pc \in {"execute", "release", "restore"} => Timely(savepoint.rows, now)

LEMMA TimelyLater ==
  ASSUME NEW rows \in Rows(Attributed), NEW at \in Nat, NEW later \in Nat, at <= later,
         Timely(rows, at)
  PROVE  Timely(rows, later)
BY DEF Timely, Rows, TxRow

\* The rows a step leaves are rows there were, with the transaction that
\* begins or commits.
LEMMA TimelyRows ==
  ASSUME Inv, Timely(db, now)
  PROVE  /\ \A id : Begin(id) => Timely(db', now)
         /\ pc = "finalise" /\ MayFinalise => Timely(Finalised, now)
<1>1. db \in Rows(Attributed) /\ db.txs \subseteq TxRow /\ now \in Nat
  BY StoreAssumption, RowsFacts DEF Inv, TypeOK, StoreTypeOK
<1>2. ASSUME NEW id, Begin(id) PROVE Timely(db', now)
  <2>1. db'.txs = db.txs \cup {NewTx(id)}
    BY <1>1, <1>2 DEF Begin, Rows
  <2>2. NewTx(id).started = now /\ NewTx(id).committed = None
    BY DEF NewTx
  <2> QED BY <1>1, <2>1, <2>2 DEF Timely
<1>3. ASSUME pc = "finalise", MayFinalise PROVE Timely(Finalised, now)
  <2>1. Finalised.txs = {IF t.id = active.id THEN Finalise(t) ELSE t : t \in db.txs}
    BY <1>3, RunningFacts, FinalisedType DEF Inv, TypeOK, Executing
  <2>2. \A t \in TxRow : Finalise(t).started = t.started /\ Finalise(t).committed = now
    BY DEF Finalise, TxRow
  <2> QED BY <1>1, <2>1, <2>2 DEF Timely
<1> QED BY <1>2, <1>3

LEMMA ClockStep ==
  ASSUME ~ClockMovesBack, Inv, ClockInv, [Next]_vars
  PROVE  ClockInv'
<1>1. Timely(file, now) /\ Timely(db, now)
  BY DEF ClockInv
<1>2. CASE Accept \/ Effect \/ RecordFailure
  <2>1. db'.txs = db.txs /\ UNCHANGED <<file, savepoint, now>>
    <3>1. pc \in Executing /\ inSql
      BY <1>2, RunningFacts DEF Accept, Effect, RecordFailure, Executing, InTransaction
    <3> QED BY <1>2, <3>1 DEF Accept, Effect, RecordFailure, AppendAndApply, Insert,
               InsertFails, sqlVars, Inv, TypeOK, StoreTypeOK, Rows
  <2>2. pc' \in {"execute", "release", "restore"} => pc \in {"execute", "release", "restore"}
    BY <1>2 DEF Accept, Effect, RecordFailure, AppendAndApply, Goto
  <2> QED BY <1>1, <2>1, <2>2 DEF ClockInv, Timely
<1>3. CASE BeginTransaction
  <2>1. Timely(db', now) /\ UNCHANGED <<file, now>> /\ pc' = "verify"
    BY <1>1, <1>3, TimelyRows DEF BeginTransaction, Begin, Goto
  <2> QED BY <1>1, <2>1 DEF ClockInv
<1>4. CASE BeginRefused
  BY <1>1, <1>4 DEF BeginRefused, BeginFails, Answer, ClockInv
<1>5. CASE EnterSavepoint
  <2>1. /\ UNCHANGED <<file, db, now>>
        /\ pc' = "abort" \/ savepoint' = [rows |-> db, base |-> Len(memory)]
    BY <1>5 DEF EnterSavepoint, Savepoint, SavepointFails, sqlVars, Goto
  <2> QED BY <1>1, <2>1 DEF ClockInv
<1>6. CASE AcceptFails \/ EffectFails \/ Executed \/ ReleaseFails
  BY <1>1, <1>6 DEF AcceptFails, EffectFails, Executed, ReleaseFails, InsertFails, Goto,
                    ClockInv, storeVars, sqlVars
<1>7. CASE ReleaseSavepoint
  <2>1. UNCHANGED <<file, db, now>> /\ pc' \in {"finalise", "evidence"}
    BY <1>7 DEF ReleaseSavepoint, Release, Goto
  <2> QED BY <1>1, <2>1 DEF ClockInv
<1>8. CASE Restore
  <2>1. db' \in {db, savepoint.rows} /\ UNCHANGED <<file, now>> /\ pc = "restore" /\ pc' = "abort"
    BY <1>8 DEF Restore, RollbackTo, Goto
  <2> QED BY <1>1, <2>1 DEF ClockInv
<1>9. CASE CommitTransaction \/ CommitTransactionFails
  <2>1. /\ pc = "finalise" /\ MayFinalise /\ UNCHANGED now /\ pc' \in {"idle", "abort"}
        /\ file' \in {file, Finalised} /\ db' \in {db, file, Finalised}
    BY <1>9 DEF CommitTransaction, Commit, CommitTransactionFails, CommitFails, Answer, Goto
  <2>2. Timely(Finalised, now)
    BY <1>1, <2>1, TimelyRows
  <2> QED BY <1>1, <2>1, <2>2 DEF ClockInv
<1>10. CASE AbortTransaction
  <2>1. UNCHANGED <<file, now>> /\ db' \in {db, file} /\ pc' = "idle"
    BY <1>10 DEF AbortTransaction, Abort, Answer
  <2> QED BY <1>1, <2>1 DEF ClockInv
<1>11. CASE Crash \/ Close
  <2>1. UNCHANGED <<file, now>> /\ db' = file /\ pc' = "idle"
    BY <1>11 DEF Crash, Close, EndProcess, CloseStore, Disconnected, NoCommand
  <2> QED BY <1>1, <2>1 DEF ClockInv
<1>12. CASE TimePasses
  <2>1. /\ now' \in 0..MaxTime /\ now' > now
        /\ UNCHANGED <<file, db, savepoint, pc>>
    BY <1>12 DEF TimePasses, Tick, commandVars
  <2>2. now \in Nat /\ now' \in Nat /\ now <= now'
    BY <2>1, StoreAssumption DEF Inv, TypeOK, StoreTypeOK
  <2>3. file \in Rows(Attributed) /\ db \in Rows(Attributed)
    BY DEF Inv, TypeOK, StoreTypeOK
  <2>4. pc \in {"execute", "release", "restore"} => savepoint.rows \in Rows(Attributed)
    BY DEF Inv, Executing, Progress, Failing, SavepointOK
  <2> QED BY <2>1, <2>2, <2>3, <2>4, TimelyLater DEF ClockInv
<1>13. CASE (\E e \in Envelope, command \in Operation : Submit(e, command))
             \/ VerifyInvocation \/ Deny \/ Open
  <2>1. UNCHANGED <<file, db, now>> /\ (pc' = pc \/ pc' \in {"begin", "accept", "abort"})
        /\ UNCHANGED savepoint
    BY <1>13 DEF Submit, VerifyInvocation, Deny, Open, OpenStore, Goto, storeVars, sqlVars,
                 commandVars
  <2> QED BY <1>1, <2>1 DEF ClockInv
<1>14. CASE UNCHANGED vars
  BY <1>14 DEF vars, storeVars, sqlVars, commandVars, ClockInv
<1> QED BY <1>2, <1>3, <1>4, <1>5, <1>6, <1>7, <1>8, <1>9, <1>10, <1>11, <1>12, <1>13, <1>14
        DEF Next

\* Unless the clock is set back, the file can be opened again at any moment:
\* its chain and its transactions verify and its events replay.
THEOREM FileCorrect ==
  ASSUME ~ClockMovesBack
  PROVE  Spec => []FileVerifies
<1>1. Init => ClockInv
  BY DEF Init, StoreInit, NoRows, ClockInv, Timely
<1>2. Inv /\ ClockInv /\ [Next]_vars => ClockInv'
  BY ClockStep
<1>3. Inv /\ ClockInv => FileVerifies
  BY WholeVerifies DEF Inv, TypeOK, StoreTypeOK, ClockInv, Timely, Stored, FileVerifies, Whole
<1> QED BY <1>1, <1>2, <1>3, Invariance, PTL DEF Spec

=============================================================================
