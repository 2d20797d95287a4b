-------------------------- MODULE OutputQueueProofs --------------------------
(***************************************************************************)
(* Proofs about Xray's output for any number of streams, of overlapping    *)
(* polls, of processes and of lines, and any capacity of the queue that    *)
(* holds a line of each stream.                                            *)
(***************************************************************************)
EXTENDS OutputQueue, FiniteSetTheorems, TLAPS

\* The readers of a process begin with it.
ReadersStart ==
    \A s \in Procs, r \in Readers :
        state[s] \in {"unused", "new"} => reader[s][r] = "off"

\* A poll has a process to ask, and of its output it holds nothing before it has
\* asked.
PollsHold ==
    \A t \in Polls :
       /\ poll[t] \in {"sample", "pick"} => p # None
       /\ text[t] # None => poll[t] = "store" /\ text[t] = from[t]

IInv ==
    /\ TypeOK /\ ReadersStart /\ PollsHold
    /\ QueueBounded /\ ReadersNeverWait /\ ResultIsCurrent

-----------------------------------------------------------------------------
\* The readers at a label are counted like those of any finite set.
LEMMA Counts ==
  ASSUME TypeOK, NEW s \in Procs
  PROVE  /\ Getting(s) \subseteq Readers /\ IsFiniteSet(Getting(s))
         /\ Putting(s) \subseteq Readers /\ IsFiniteSet(Putting(s))
         /\ Cardinality(Getting(s)) \in Nat /\ Cardinality(Putting(s)) \in Nat
         /\ Cardinality(Readers) \in Nat \ {0}
         /\ Cardinality(Putting(s)) <= Cardinality(Readers)
PROOF
  <1>1. Getting(s) \subseteq Readers /\ Putting(s) \subseteq Readers
    BY DEF Getting, Putting
  <1>2. QED
    BY <1>1, QueueAssumption, FS_Subset, FS_CardinalityType, FS_EmptySet

\* A step that leaves a reader's label leaves the counts.
LEMMA SameCounts ==
  ASSUME NEW s \in Procs, reader'[s] = reader[s]
  PROVE  Getting(s)' = Getting(s) /\ Putting(s)' = Putting(s)
PROOF
  BY DEF Getting, Putting

\* Replacing one entry of a table keeps its type.
LEMMA TableUpdate ==
  ASSUME NEW A, NEW B, NEW C, NEW f \in [A -> [B -> C]], NEW a \in A, NEW b \in B, NEW c \in C
  PROVE  [f EXCEPT ![a][b] = c] \in [A -> [B -> C]]
PROOF
  OBVIOUS

\* A step keeps the types.
LEMMA TypeStep ==
  ASSUME TypeOK, PollsHold, [Next]_vars
  PROVE  TypeOK'
PROOF
  <1>1. CASE Replace
    BY <1>1, QueueAssumption
       DEF TypeOK, PollsHold, Procs, None, Replace, process, queue, status
  <1>2. CASE ClearResult
    BY <1>2, QueueAssumption
       DEF TypeOK, PollsHold, Procs, None, ClearResult, process, queue, status
  <1>3. CASE Start
    BY <1>3, QueueAssumption
       DEF TypeOK, PollsHold, Procs, None, Start, process, queue, status
  <1>4. CASE StartFails
    BY <1>4, QueueAssumption
       DEF TypeOK, PollsHold, Procs, None, StartFails, process, queue, status
  <1>5. ASSUME NEW s \in Procs, Exit(s) PROVE TypeOK'
    <2>1. /\ \E e \in {"nil", "pending"} : exitErr' = [exitErr EXCEPT ![s] = e]
          /\ \E rest \in [Readers -> 0..PipeSize] : pipe' = [pipe EXCEPT ![s] = rest]
          /\ state' = [state EXCEPT ![s] = "ended"] /\ state[s] = "running"
          /\ UNCHANGED <<p, restart, reader, len, status, drained, stale, lines>>
      BY <1>5 DEF Exit, IsRunning
    <2>2. /\ exitErr' \in [Procs -> {"nil", "pending", "set"}]
          /\ pipe' \in [Procs -> [Readers -> 0..PipeSize]]
          /\ state' \in [Procs -> {"unused", "new", "running", "ended"}]
      BY <2>1 DEF TypeOK
    <2>3. restart' # "idle" => p' \in Procs /\ state'[p'] = "new"
      BY <2>1 DEF TypeOK
    <2>4. QED
      BY <2>1, <2>2, <2>3 DEF TypeOK, status
  <1>6. ASSUME NEW s \in Procs, SetExitErr(s) PROVE TypeOK'
    BY <1>6, QueueAssumption
       DEF TypeOK, PollsHold, Procs, None, SetExitErr, process, queue, status
  <1>7. ASSUME NEW s \in Procs, NEW r \in Readers, WriteLine(s, r)
        PROVE  TypeOK'
    <2>1. pipe[s][r] + 1 \in 0..PipeSize
      BY <1>7, QueueAssumption DEF TypeOK, WriteLine
    <2>2. pipe' \in [Procs -> [Readers -> 0..PipeSize]]
      BY <1>7, <2>1, TableUpdate DEF TypeOK, WriteLine
    <2>3. lines' \in 0..MaxLines
      BY <1>7, QueueAssumption DEF TypeOK, WriteLine
    <2>4. QED
      BY <1>7, <2>2, <2>3 DEF TypeOK, WriteLine, process, status
  <1>8. ASSUME NEW s \in Procs, NEW r \in Readers, ReadLine(s, r)
        PROVE  TypeOK'
    <2>1. PICK c \in {"off", "read", "get", "put"} : reader' = [reader EXCEPT ![s][r] = c]
      BY <1>8 DEF ReadLine, Goto
    <2>2. reader' \in [Procs -> [Readers -> {"off", "read", "get", "put"}]]
      BY <2>1, TableUpdate DEF TypeOK
    <2>3. pipe[s][r] - 1 \in 0..PipeSize
      BY <1>8, QueueAssumption DEF TypeOK, ReadLine
    <2>4. pipe' \in [Procs -> [Readers -> 0..PipeSize]]
      BY <1>8, <2>3, TableUpdate DEF TypeOK, ReadLine
    <2>5. QED
      BY <1>8, <2>2, <2>4 DEF TypeOK, ReadLine, process, status
  <1>9. ASSUME NEW s \in Procs, NEW r \in Readers, Get(s, r)
        PROVE  TypeOK'
    <2>1. PICK c \in {"off", "read", "get", "put"} : reader' = [reader EXCEPT ![s][r] = c]
      BY <1>9 DEF Get, Goto
    <2>2. reader' \in [Procs -> [Readers -> {"off", "read", "get", "put"}]]
      BY <2>1, TableUpdate DEF TypeOK
    <2>3. len' \in [Procs -> Nat]
      BY <1>9 DEF TypeOK, Get
    <2>4. QED
      BY <1>9, <2>2, <2>3 DEF TypeOK, Get, process, status
  <1>10. ASSUME NEW s \in Procs, NEW r \in Readers, Put(s, r)
        PROVE  TypeOK'
    <2>1. PICK c \in {"off", "read", "get", "put"} : reader' = [reader EXCEPT ![s][r] = c]
      BY <1>10 DEF Put, Goto
    <2>2. reader' \in [Procs -> [Readers -> {"off", "read", "get", "put"}]]
      BY <2>1, TableUpdate DEF TypeOK
    <2>3. len' \in [Procs -> Nat]
      BY <1>10 DEF TypeOK, Put
    <2>4. QED
      BY <1>10, <2>2, <2>3 DEF TypeOK, Put, process, status
  <1>11. ASSUME NEW t \in Polls, Poll(t) PROVE TypeOK'
    BY <1>11, QueueAssumption
       DEF TypeOK, PollsHold, Procs, None, Poll, At, IsRunning, process, queue,
           status
  <1>12. ASSUME NEW t \in Polls, Sample(t) PROVE TypeOK'
    BY <1>12, QueueAssumption
       DEF TypeOK, PollsHold, Procs, None, Sample, At, process, queue, status
  <1>13. ASSUME NEW t \in Polls, Pick(t) PROVE TypeOK'
    BY <1>13, QueueAssumption
       DEF TypeOK, PollsHold, Procs, None, Pick, At, process, queue, status
  <1>14. ASSUME NEW t \in Polls, TestEmpty(t) PROVE TypeOK'
    BY <1>14, QueueAssumption
       DEF TypeOK, PollsHold, Procs, None, TestEmpty, At, process, queue, status
  <1>15. ASSUME NEW t \in Polls, TakeUntil(t) PROVE TypeOK'
    BY <1>15, QueueAssumption
       DEF TypeOK, PollsHold, Procs, None, TakeUntil, At, IsRunning, process, queue,
           status
  <1>16. ASSUME NEW t \in Polls, Store(t) PROVE TypeOK'
    BY <1>16, QueueAssumption
       DEF TypeOK, PollsHold, Procs, None, Store, At, process, queue, status
  <1>17. CASE UNCHANGED vars
    BY <1>17, QueueAssumption
       DEF TypeOK, PollsHold, Procs, None, process, queue, status, vars
  <1>18. QED
    BY <1>1, <1>2, <1>3, <1>4, <1>5, <1>6, <1>7, <1>8, <1>9, <1>10, <1>11, <1>12,
       <1>13, <1>14, <1>15, <1>16, <1>17
       DEF Next, RestartXray, Read, GetXrayResult

\* Start starts the readers with the process.
LEMMA ReadersStartStep ==
  ASSUME TypeOK, ReadersStart, [Next]_vars
  PROVE  ReadersStart'
PROOF
  <1>1. CASE Replace
    BY <1>1 DEF TypeOK, ReadersStart, Replace, process, queue, status
  <1>2. CASE ClearResult
    BY <1>2 DEF TypeOK, ReadersStart, ClearResult, process, queue, status
  <1>3. CASE Start
    BY <1>3 DEF TypeOK, ReadersStart, Start, process, queue, status
  <1>4. CASE StartFails
    BY <1>4 DEF TypeOK, ReadersStart, StartFails, process, queue, status
  <1>5. ASSUME NEW s \in Procs, Exit(s) PROVE ReadersStart'
    BY <1>5 DEF TypeOK, ReadersStart, Exit, IsRunning, process, queue, status
  <1>6. ASSUME NEW s \in Procs, SetExitErr(s) PROVE ReadersStart'
    BY <1>6 DEF TypeOK, ReadersStart, SetExitErr, process, queue, status
  <1>7. ASSUME NEW s \in Procs, NEW r \in Readers, WriteLine(s, r)
        PROVE  ReadersStart'
    BY <1>7 DEF TypeOK, ReadersStart, WriteLine, IsRunning, process, queue, status
  <1>8. ASSUME NEW s \in Procs, NEW r \in Readers, ReadLine(s, r)
        PROVE  ReadersStart'
    BY <1>8 DEF TypeOK, ReadersStart, ReadLine, Goto, process, queue, status
  <1>9. ASSUME NEW s \in Procs, NEW r \in Readers, Get(s, r)
        PROVE  ReadersStart'
    BY <1>9 DEF TypeOK, ReadersStart, Get, Goto, process, queue, status
  <1>10. ASSUME NEW s \in Procs, NEW r \in Readers, Put(s, r)
        PROVE  ReadersStart'
    BY <1>10 DEF TypeOK, ReadersStart, Put, Goto, process, queue, status
  <1>11. ASSUME NEW t \in Polls, Poll(t) PROVE ReadersStart'
    BY <1>11 DEF TypeOK, ReadersStart, Poll, At, IsRunning, process, queue, status
  <1>12. ASSUME NEW t \in Polls, Sample(t) PROVE ReadersStart'
    BY <1>12 DEF TypeOK, ReadersStart, Sample, At, process, queue, status
  <1>13. ASSUME NEW t \in Polls, Pick(t) PROVE ReadersStart'
    BY <1>13 DEF TypeOK, ReadersStart, Pick, At, process, queue, status
  <1>14. ASSUME NEW t \in Polls, TestEmpty(t) PROVE ReadersStart'
    BY <1>14 DEF TypeOK, ReadersStart, TestEmpty, At, process, queue, status
  <1>15. ASSUME NEW t \in Polls, TakeUntil(t) PROVE ReadersStart'
    BY <1>15 DEF TypeOK, ReadersStart, TakeUntil, At, IsRunning, process, queue, status
  <1>16. ASSUME NEW t \in Polls, Store(t) PROVE ReadersStart'
    BY <1>16 DEF TypeOK, ReadersStart, Store, At, process, queue, status
  <1>17. CASE UNCHANGED vars
    BY <1>17 DEF TypeOK, ReadersStart, process, queue, status, vars
  <1>18. QED
    BY <1>1, <1>2, <1>3, <1>4, <1>5, <1>6, <1>7, <1>8, <1>9, <1>10, <1>11, <1>12,
       <1>13, <1>14, <1>15, <1>16, <1>17
       DEF Next, RestartXray, Read, GetXrayResult

\* GetXrayResult takes its steps in order, and no process is taken away.
LEMMA PollsHoldStep ==
  ASSUME TypeOK, PollsHold, [Next]_vars
  PROVE  PollsHold'
PROOF
  <1>1. CASE Replace
    BY <1>1 DEF TypeOK, PollsHold, Procs, None, Replace, process, queue, status
  <1>2. CASE ClearResult
    BY <1>2 DEF TypeOK, PollsHold, Procs, None, ClearResult, process, queue, status
  <1>3. CASE Start
    BY <1>3 DEF TypeOK, PollsHold, Procs, None, Start, process, queue, status
  <1>4. CASE StartFails
    BY <1>4 DEF TypeOK, PollsHold, Procs, None, StartFails, process, queue, status
  <1>5. ASSUME NEW s \in Procs, Exit(s) PROVE PollsHold'
    BY <1>5 DEF TypeOK, PollsHold, Procs, None, Exit, IsRunning, process, queue, status
  <1>6. ASSUME NEW s \in Procs, SetExitErr(s) PROVE PollsHold'
    BY <1>6 DEF TypeOK, PollsHold, Procs, None, SetExitErr, process, queue, status
  <1>7. ASSUME NEW s \in Procs, NEW r \in Readers, WriteLine(s, r)
        PROVE  PollsHold'
    BY <1>7 DEF TypeOK, PollsHold, Procs, None, WriteLine, IsRunning, process, queue, status
  <1>8. ASSUME NEW s \in Procs, NEW r \in Readers, ReadLine(s, r)
        PROVE  PollsHold'
    BY <1>8 DEF TypeOK, PollsHold, Procs, None, ReadLine, Goto, process, queue, status
  <1>9. ASSUME NEW s \in Procs, NEW r \in Readers, Get(s, r)
        PROVE  PollsHold'
    BY <1>9 DEF TypeOK, PollsHold, Procs, None, Get, Goto, process, queue, status
  <1>10. ASSUME NEW s \in Procs, NEW r \in Readers, Put(s, r)
        PROVE  PollsHold'
    BY <1>10 DEF TypeOK, PollsHold, Procs, None, Put, Goto, process, queue, status
  <1>11. ASSUME NEW t \in Polls, Poll(t) PROVE PollsHold'
    BY <1>11
       DEF TypeOK, PollsHold, Procs, None, Poll, At, IsRunning, process, queue,
           status
  <1>12. ASSUME NEW t \in Polls, Sample(t) PROVE PollsHold'
    BY <1>12 DEF TypeOK, PollsHold, Procs, None, Sample, At, process, queue, status
  <1>13. ASSUME NEW t \in Polls, Pick(t) PROVE PollsHold'
    BY <1>13 DEF TypeOK, PollsHold, Procs, None, Pick, At, process, queue, status
  <1>14. ASSUME NEW t \in Polls, TestEmpty(t) PROVE PollsHold'
    BY <1>14 DEF TypeOK, PollsHold, Procs, None, TestEmpty, At, process, queue, status
  <1>15. ASSUME NEW t \in Polls, TakeUntil(t) PROVE PollsHold'
    BY <1>15
       DEF TypeOK, PollsHold, Procs, None, TakeUntil, At, IsRunning, process, queue,
           status
  <1>16. ASSUME NEW t \in Polls, Store(t) PROVE PollsHold'
    BY <1>16 DEF TypeOK, PollsHold, Procs, None, Store, At, process, queue, status
  <1>17. CASE UNCHANGED vars
    BY <1>17 DEF TypeOK, PollsHold, Procs, None, process, queue, status, vars
  <1>18. QED
    BY <1>1, <1>2, <1>3, <1>4, <1>5, <1>6, <1>7, <1>8, <1>9, <1>10, <1>11, <1>12,
       <1>13, <1>14, <1>15, <1>16, <1>17
       DEF Next, RestartXray, Read, GetXrayResult

\* The result is reset before the new process starts, and set from a poll's text.
LEMMA ResultStep ==
  ASSUME TypeOK, PollsHold, ResultIsCurrent, [Next]_vars
  PROVE  ResultIsCurrent'
PROOF
  <1>1. CASE Replace
    BY <1>1
       DEF TypeOK, PollsHold, ResultIsCurrent, Procs, None, Replace, process, queue,
           status
  <1>2. CASE ClearResult
    BY <1>2
       DEF TypeOK, PollsHold, ResultIsCurrent, Procs, None, ClearResult, process,
           queue, status
  <1>3. CASE Start
    BY <1>3
       DEF TypeOK, PollsHold, ResultIsCurrent, Procs, None, Start, process, queue,
           status
  <1>4. CASE StartFails
    BY <1>4
       DEF TypeOK, PollsHold, ResultIsCurrent, Procs, None, StartFails, process,
           queue, status
  <1>5. ASSUME NEW s \in Procs, Exit(s) PROVE ResultIsCurrent'
    BY <1>5
       DEF TypeOK, PollsHold, ResultIsCurrent, Procs, None, Exit, IsRunning,
           process, queue, status
  <1>6. ASSUME NEW s \in Procs, SetExitErr(s) PROVE ResultIsCurrent'
    BY <1>6
       DEF TypeOK, PollsHold, ResultIsCurrent, Procs, None, SetExitErr, process,
           queue, status
  <1>7. ASSUME NEW s \in Procs, NEW r \in Readers, WriteLine(s, r)
        PROVE  ResultIsCurrent'
    BY <1>7
       DEF TypeOK, PollsHold, ResultIsCurrent, Procs, None, WriteLine, IsRunning,
           process, queue, status
  <1>8. ASSUME NEW s \in Procs, NEW r \in Readers, ReadLine(s, r)
        PROVE  ResultIsCurrent'
    BY <1>8
       DEF TypeOK, PollsHold, ResultIsCurrent, Procs, None, ReadLine, Goto, process,
           queue, status
  <1>9. ASSUME NEW s \in Procs, NEW r \in Readers, Get(s, r)
        PROVE  ResultIsCurrent'
    BY <1>9
       DEF TypeOK, PollsHold, ResultIsCurrent, Procs, None, Get, Goto, process,
           queue, status
  <1>10. ASSUME NEW s \in Procs, NEW r \in Readers, Put(s, r)
        PROVE  ResultIsCurrent'
    BY <1>10
       DEF TypeOK, PollsHold, ResultIsCurrent, Procs, None, Put, Goto, process,
           queue, status
  <1>11. ASSUME NEW t \in Polls, Poll(t) PROVE ResultIsCurrent'
    BY <1>11
       DEF TypeOK, PollsHold, ResultIsCurrent, Procs, None, Poll, At, IsRunning,
           process, queue, status
  <1>12. ASSUME NEW t \in Polls, Sample(t) PROVE ResultIsCurrent'
    BY <1>12
       DEF TypeOK, PollsHold, ResultIsCurrent, Procs, None, Sample, At, process,
           queue, status
  <1>13. ASSUME NEW t \in Polls, Pick(t) PROVE ResultIsCurrent'
    BY <1>13
       DEF TypeOK, PollsHold, ResultIsCurrent, Procs, None, Pick, At, process,
           queue, status
  <1>14. ASSUME NEW t \in Polls, TestEmpty(t) PROVE ResultIsCurrent'
    BY <1>14
       DEF TypeOK, PollsHold, ResultIsCurrent, Procs, None, TestEmpty, At, process,
           queue, status
  <1>15. ASSUME NEW t \in Polls, TakeUntil(t) PROVE ResultIsCurrent'
    BY <1>15
       DEF TypeOK, PollsHold, ResultIsCurrent, Procs, None, TakeUntil, At,
           IsRunning, process, queue, status
  <1>16. ASSUME NEW t \in Polls, Store(t) PROVE ResultIsCurrent'
    BY <1>16
       DEF TypeOK, PollsHold, ResultIsCurrent, Procs, None, Store, At, process,
           queue, status
  <1>17. CASE UNCHANGED vars
    BY <1>17
       DEF TypeOK, PollsHold, ResultIsCurrent, Procs, None, process, queue, status,
           vars
  <1>18. QED
    BY <1>1, <1>2, <1>3, <1>4, <1>5, <1>6, <1>7, <1>8, <1>9, <1>10, <1>11, <1>12,
       <1>13, <1>14, <1>15, <1>16, <1>17
       DEF Next, RestartXray, Read, GetXrayResult

-----------------------------------------------------------------------------
(* Counting lines and readers *)

\* A reader that takes a label is added to the readers there, and one that leaves
\* a label is taken from them.
LEMMA Moves ==
  ASSUME TypeOK, NEW s \in Procs, NEW r \in Readers,
         NEW l \in {"read", "get", "put"}, Goto(s, r, l), reader[s][r] # l
  PROVE  /\ \A q \in Procs \ {s} : reader'[q] = reader[q]
         /\ Cardinality(Getting(s)') =
               Cardinality(Getting(s)) + (IF l = "get" THEN 1 ELSE 0)
                                       - (IF reader[s][r] = "get" THEN 1 ELSE 0)
         /\ Cardinality(Putting(s)') =
               Cardinality(Putting(s)) + (IF l = "put" THEN 1 ELSE 0)
                                       - (IF reader[s][r] = "put" THEN 1 ELSE 0)
PROOF
  <1>1. /\ reader' = [reader EXCEPT ![s][r] = l]
        /\ reader \in [Procs -> [Readers -> {"off", "read", "get", "put"}]]
    BY DEF Goto, TypeOK
  <1>2. /\ \A q \in Procs \ {s} : reader'[q] = reader[q]
        /\ \A x \in Readers : reader'[s][x] = IF x = r THEN l ELSE reader[s][x]
    BY <1>1
  <1>3. Getting(s)' = IF l = "get" THEN Getting(s) \cup {r} ELSE Getting(s) \ {r}
    BY <1>2 DEF Getting
  <1>4. Putting(s)' = IF l = "put" THEN Putting(s) \cup {r} ELSE Putting(s) \ {r}
    BY <1>2 DEF Putting
  <1>5. /\ r \in Getting(s) <=> reader[s][r] = "get"
        /\ r \in Putting(s) <=> reader[s][r] = "put"
    BY DEF Getting, Putting
  <1>6. /\ Cardinality(Getting(s) \cup {r}) = IF r \in Getting(s) THEN Cardinality(Getting(s))
                                              ELSE Cardinality(Getting(s)) + 1
        /\ Cardinality(Putting(s) \cup {r}) = IF r \in Putting(s) THEN Cardinality(Putting(s))
                                              ELSE Cardinality(Putting(s)) + 1
    BY Counts, FS_AddElement
  <1>7. /\ Cardinality(Getting(s) \ {r}) = IF r \in Getting(s) THEN Cardinality(Getting(s)) - 1
                                           ELSE Cardinality(Getting(s))
        /\ Cardinality(Putting(s) \ {r}) = IF r \in Putting(s) THEN Cardinality(Putting(s)) - 1
                                           ELSE Cardinality(Putting(s))
    BY Counts, FS_RemoveElement
  <1>8. QED
    BY <1>2, <1>3, <1>4, <1>5, <1>6, <1>7, Counts

\* A reader that is not at a label leaves room for itself there.
LEMMA NotAll ==
  ASSUME TypeOK, NEW s \in Procs, NEW r \in Readers, reader[s][r] = "read"
  PROVE  /\ Cardinality(Getting(s)) <= Cardinality(Readers) - 1
         /\ Cardinality(Putting(s)) <= Cardinality(Readers) - 1
PROOF
  <1>1. Getting(s) \subseteq Readers \ {r} /\ Putting(s) \subseteq Readers \ {r}
    BY DEF Getting, Putting
  <1>2. IsFiniteSet(Readers \ {r}) /\ Cardinality(Readers \ {r}) = Cardinality(Readers) - 1
    BY QueueAssumption, FS_RemoveElement
  <1>3. QED
    BY <1>1, <1>2, FS_Subset

\* Only Start, the readers and TakeUntil touch a process's readers and queue.
LEMMA Frame ==
  ASSUME TypeOK, [Next]_vars, NEW s \in Procs
  PROVE  \/ reader'[s] = reader[s] /\ len'[s] = len[s]
         \/ Start /\ s = p
         \/ \E r \in Readers : ReadLine(s, r) \/ Get(s, r) \/ Put(s, r)
         \/ \E t \in Polls : TakeUntil(t) /\ s = from[t]
PROOF
  <1>1. CASE Replace \/ ClearResult \/ StartFails
    BY <1>1 DEF Replace, ClearResult, StartFails, queue
  <1>2. CASE Start
    BY <1>2 DEF Start, TypeOK
  <1>3. ASSUME NEW q \in Procs, Exit(q) \/ SetExitErr(q)
        PROVE  reader'[s] = reader[s] /\ len'[s] = len[s]
    BY <1>3 DEF Exit, SetExitErr, queue
  <1>4. ASSUME NEW q \in Procs, NEW r \in Readers, WriteLine(q, r)
        PROVE  reader'[s] = reader[s] /\ len'[s] = len[s]
    BY <1>4 DEF WriteLine
  <1>5. ASSUME NEW q \in Procs, NEW r \in Readers, q # s,
               ReadLine(q, r) \/ Get(q, r) \/ Put(q, r)
        PROVE  reader'[s] = reader[s] /\ len'[s] = len[s]
    BY <1>5 DEF ReadLine, Get, Put, Goto, TypeOK
  <1>6. ASSUME NEW t \in Polls, Poll(t) \/ Sample(t) \/ Pick(t) \/ TestEmpty(t) \/ Store(t)
        PROVE  reader'[s] = reader[s] /\ len'[s] = len[s]
    BY <1>6 DEF Poll, Sample, Pick, TestEmpty, Store, queue
  <1>7. ASSUME NEW t \in Polls, TakeUntil(t), s # from[t]
        PROVE  reader'[s] = reader[s] /\ len'[s] = len[s]
    BY <1>7 DEF TakeUntil, TypeOK
  <1>8. CASE UNCHANGED vars
    BY <1>8 DEF vars, queue
  <1>9. QED
    BY <1>1, <1>2, <1>3, <1>4, <1>5, <1>6, <1>7, <1>8 DEF Next, RestartXray, Read, GetXrayResult

\* A process runs from its Start on, and is not taken off the drained ones.
LEMMA Running ==
  ASSUME TypeOK, [Next]_vars, NEW s \in Procs, ~(Start /\ s = p), IsRunning(s)'
  PROVE  IsRunning(s) /\ drained \subseteq drained'
PROOF
  <1>1. CASE Replace \/ ClearResult \/ StartFails \/ Start
    BY <1>1 DEF Replace, ClearResult, StartFails, Start, IsRunning, TypeOK
  <1>2. ASSUME NEW q \in Procs, Exit(q) \/ SetExitErr(q)
        PROVE  IsRunning(s) /\ drained \subseteq drained'
    BY <1>2 DEF Exit, SetExitErr, IsRunning, TypeOK
  <1>3. ASSUME NEW q \in Procs, NEW r \in Readers, WriteLine(q, r) \/ Read(q, r)
        PROVE  IsRunning(s) /\ drained \subseteq drained'
    BY <1>3 DEF WriteLine, Read, ReadLine, Get, Put, process, IsRunning
  <1>4. ASSUME NEW t \in Polls, Poll(t) \/ GetXrayResult(t)
        PROVE  IsRunning(s) /\ drained \subseteq drained'
    BY <1>4 DEF Poll, GetXrayResult, Sample, Pick, TestEmpty, TakeUntil, Store, process,
                IsRunning
  <1>5. CASE UNCHANGED vars
    BY <1>5 DEF vars, process, IsRunning
  <1>6. QED
    BY <1>1, <1>2, <1>3, <1>4, <1>5 DEF Next, RestartXray

\* No step lets a queue outgrow its bound.
LEMMA BoundedStep ==
  ASSUME TypeOK, TypeOK', QueueBounded, [Next]_vars
  PROVE  QueueBounded'
PROOF
  <1> DEFINE Bounded(s) == len[s] + Cardinality(Putting(s)) <= Capacity + Cardinality(Readers) - 1
  <1> SUFFICES ASSUME NEW s \in Procs PROVE Bounded(s)'
    BY DEF QueueBounded
  <1>0. /\ Bounded(s) /\ len[s] \in Nat
        /\ \A r \in Readers : reader[s][r] = "read" => Cardinality(Putting(s)) <= Cardinality(Readers) - 1
        /\ Capacity \in Nat /\ Cardinality(Readers) \in Nat \ {0}
        /\ Cardinality(Readers) <= Capacity
    BY Counts, NotAll, QueueAssumption DEF QueueBounded, TypeOK
  <1>1. CASE reader'[s] = reader[s] /\ len'[s] = len[s]
    BY <1>0, <1>1, SameCounts
  <1>2. CASE Start /\ s = p
    <2>1. \A r \in Readers : reader'[s][r] = "read"
      BY <1>2 DEF Start, TypeOK
    <2>2. Putting(s)' = {} /\ len' = len
      BY <1>2, <2>1 DEF Start, Putting
    <2>3. QED
      BY <1>0, <2>2, Counts, FS_EmptySet
  <1>3. ASSUME NEW r \in Readers, ReadLine(s, r) PROVE Bounded(s)'
    <2>1. CASE len[s] >= Capacity
      BY <1>0, <1>3, <2>1, Moves, Counts DEF ReadLine
    <2>2. CASE len[s] < Capacity
      BY <1>0, <1>3, <2>2, Moves, Counts DEF ReadLine
    <2>3. QED
      BY <1>0, <2>1, <2>2
  <1>4. ASSUME NEW r \in Readers, Get(s, r) PROVE Bounded(s)'
    <2>1. len'[s] = len[s] - 1
      BY <1>4 DEF Get, TypeOK
    <2>2. QED
      BY <1>0, <1>4, <2>1, Moves, Counts DEF Get
  <1>5. ASSUME NEW r \in Readers, Put(s, r) PROVE Bounded(s)'
    <2>1. len'[s] = len[s] + 1
      BY <1>5 DEF Put, TypeOK
    <2>2. QED
      BY <1>0, <1>5, <2>1, Moves, Counts DEF Put
  <1>6. ASSUME NEW t \in Polls, TakeUntil(t), s = from[t] PROVE Bounded(s)'
    <2>1. len'[s] = 0 /\ reader' = reader
      BY <1>6 DEF TakeUntil, TypeOK
    <2>2. QED
      BY <1>0, <2>1, SameCounts, Counts
  <1>7. \/ reader'[s] = reader[s] /\ len'[s] = len[s]
        \/ Start /\ s = p
        \/ \E r \in Readers : ReadLine(s, r) \/ Get(s, r) \/ Put(s, r)
        \/ \E t \in Polls : TakeUntil(t) /\ s = from[t]
    BY Frame
  <1>8. QED
    BY <1>1, <1>2, <1>3, <1>4, <1>5, <1>6, <1>7

\* As long as nobody else drains the queue, no reader of a running Xray waits.
LEMMA NeverWaitStep ==
  ASSUME TypeOK, TypeOK', ReadersStart, ReadersNeverWait, [Next]_vars
  PROVE  ReadersNeverWait'
PROOF
  <1> SUFFICES ASSUME NEW s \in Procs, s \notin drained', IsRunning(s)'
               PROVE  Cardinality(Getting(s)') <= len'[s]
    BY DEF ReadersNeverWait
  <1>0. /\ len[s] \in Nat
        /\ \A r \in Readers : reader[s][r] = "read" => Cardinality(Getting(s)) <= Cardinality(Readers) - 1
        /\ Capacity \in Nat /\ Cardinality(Readers) \in Nat \ {0}
        /\ Cardinality(Readers) <= Capacity
    BY Counts, NotAll, QueueAssumption DEF TypeOK
  <1>1. CASE Start /\ s = p
    <2>1. \A r \in Readers : reader'[s][r] = "read"
      BY <1>1 DEF Start, TypeOK
    <2>2. Getting(s)' = {} /\ len' = len
      BY <1>1, <2>1 DEF Start, Getting
    <2>3. QED
      BY <1>0, <2>2, FS_EmptySet
  <1>2. CASE ~(Start /\ s = p)
    <2>1. IsRunning(s) /\ s \notin drained
      BY <1>2, Running
    <2>2. Cardinality(Getting(s)) <= len[s]
      BY <2>1 DEF ReadersNeverWait
    <2>3. CASE reader'[s] = reader[s] /\ len'[s] = len[s]
      BY <2>2, <2>3, SameCounts
    <2>4. ASSUME NEW r \in Readers, ReadLine(s, r)
          PROVE  Cardinality(Getting(s)') <= len'[s]
      <3>1. CASE len[s] >= Capacity
        BY <1>0, <2>2, <2>4, <3>1, Moves, Counts DEF ReadLine
      <3>2. CASE len[s] < Capacity
        BY <1>0, <2>2, <2>4, <3>2, Moves, Counts DEF ReadLine
      <3>3. QED
        BY <1>0, <3>1, <3>2
    <2>5. ASSUME NEW r \in Readers, Get(s, r)
          PROVE  Cardinality(Getting(s)') <= len'[s]
      <3>1. len'[s] = len[s] - 1
        BY <2>5 DEF Get, TypeOK
      <3>2. QED
        BY <1>0, <2>2, <2>5, <3>1, Moves, Counts DEF Get
    <2>6. ASSUME NEW r \in Readers, Put(s, r)
          PROVE  Cardinality(Getting(s)') <= len'[s]
      <3>1. len'[s] = len[s] + 1
        BY <2>6 DEF Put, TypeOK
      <3>2. QED
        BY <1>0, <2>2, <2>6, <3>1, Moves, Counts DEF Put
    <2>7. ASSUME NEW t \in Polls, TakeUntil(t), s = from[t] PROVE FALSE
      BY <2>1, <2>7 DEF TakeUntil
    <2>8. QED
      BY <1>2, <2>3, <2>4, <2>5, <2>6, <2>7, Frame
  <1>3. QED
    BY <1>1, <1>2

\* The inductive invariant holds of every reachable state.
LEMMA Inductive == Spec => []IInv
PROOF
  <1>1. ASSUME Init PROVE IInv
    <2>1. TypeOK
      <3>1. pipe \in [Procs -> [Readers -> 0..PipeSize]]
        BY <1>1, QueueAssumption DEF Init
      <3>2. reader \in [Procs -> [Readers -> {"off", "read", "get", "put"}]]
        BY <1>1 DEF Init
      <3>3. lines \in 0..MaxLines
        BY <1>1, QueueAssumption DEF Init
      <3>4. QED
        BY <1>1, <3>1, <3>2, <3>3 DEF Init, TypeOK
    <2>2. ReadersStart /\ PollsHold
      BY <1>1 DEF Init, ReadersStart, PollsHold
    <2>3. \A s \in Procs : Getting(s) = {} /\ Putting(s) = {} /\ len[s] = 0
      BY <1>1 DEF Init, Getting, Putting
    <2>4. QueueBounded /\ ReadersNeverWait
      BY <2>1, <2>3, QueueAssumption, Counts, FS_EmptySet DEF QueueBounded, ReadersNeverWait
    <2>5. ResultIsCurrent
      BY <1>1 DEF Init, ResultIsCurrent
    <2>6. QED
      BY <2>1, <2>2, <2>4, <2>5 DEF IInv
  <1>2. IInv /\ [Next]_vars => IInv'
    BY TypeStep, ReadersStartStep, PollsHoldStep, ResultStep, BoundedStep, NeverWaitStep
       DEF IInv
  <1>3. QED
    BY <1>1, <1>2, PTL DEF Spec

-----------------------------------------------------------------------------
(* The theorems *)

\* Every variable keeps its type, and a poll asks a process that exists.
THEOREM TypeCorrect == Spec => []TypeOK
PROOF
  <1>1. IInv => TypeOK
    BY DEF IInv
  <1>2. QED
    BY <1>1, Inductive, PTL

\* Whatever the readers and polls do, no queue exceeds its capacity by more than
\* one line for each other reader.
THEOREM Bounded == Spec => []QueueBounded
PROOF
  <1>1. IInv => QueueBounded
    BY DEF IInv
  <1>2. QED
    BY <1>1, Inductive, PTL

\* No reader of a running Xray waits for a line unless GetResult took it.
THEOREM NeverWaits == Spec => []ReadersNeverWait
PROOF
  <1>1. IInv => ReadersNeverWait
    BY DEF IInv
  <1>2. QED
    BY <1>1, Inductive, PTL

\* The cached result is the current process's, but for the one known race.
THEOREM CurrentResult == Spec => []ResultIsCurrent
PROOF
  <1>1. IInv => ResultIsCurrent
    BY DEF IInv
  <1>2. QED
    BY <1>1, Inductive, PTL
=============================================================================
