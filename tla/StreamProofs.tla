---------------------------- MODULE StreamProofs ----------------------------
(***************************************************************************)
(* Proofs about Stream, for any number of tasks, stanzas and kinds and any *)
(* queue length.  The inductive invariant IInv says what the scan of       *)
(* _handleStanza knows while it is suspended half way: which queued        *)
(* stanzas every waiting task has already been shown.                      *)
(***************************************************************************)
EXTENDS Stream, TLAPS

Scanning == pc \in {"scan", "yield"}

\* The pointers into the conversation.
Pointers ==
  /\ cur <= batchEnd /\ batchEnd <= arrived
  /\ pc = "get" => cur = batchEnd
  /\ \A m \in chunks : batchEnd < m /\ m <= arrived
  /\ queue \subseteq 1 .. cur
  /\ \A t \in Tasks : seen[t] \subseteq 1 .. cur
  /\ ~Scanning => item = 0 /\ snapshot = {}
  /\ snapshot # {} => item \in queue

\* A task is shown the stanzas of the queue oldest first.
SeenIsPrefix ==
  \A t \in Tasks : \A j \in seen[t], i \in queue : i < j => i \in seen[t]

\* What the scan has shown to the waiting tasks, and to those whose futures
\* are left in its snapshot.
ScanShown ==
  /\ snapshot \ stale \subseteq Pending
  /\ \A t \in Pending, i \in queue :
       i < item \/ (i = item /\ t \notin snapshot) => i \in seen[t]
  /\ \A t \in snapshot, i \in queue : i < item => i \in seen[t]

\* What has been returned to a task, and what is about to be.
Delivered ==
  /\ \A t \in Tasks, i \in Ids : /\ got[t][i] <= 1
                                 /\ got[t][i] > 0 => i \in seen[t]
  /\ \A t \in Tasks : fut[t] = "done" =>
       /\ result[t] \in seen[t]
       /\ Matches(t, result[t])
       /\ \A j \in Ids : got[t][j] > 0 => j < result[t]

\* What a waiting task has not been shown is the stanza in hand, still ahead
\* of the scan, or one whose handling an exception cut short.
Ahead ==
  \A t \in Pending, i \in queue :
    \/ i \in seen[t]
    \/ i \in dropped
    \/ i = cur /\ Scanning /\ (i > item \/ (i = item /\ t \in snapshot))

\* What was taken up since a task began to wait, and has been shown to it, is
\* not what it asked for; a wait that the suspended scan does not know of yet
\* has begun with the stanza in hand.
Missed ==
  /\ \A t \in Pending, i \in Ids :
       i \in seen[t] /\ i > since[t] => ~Matches(t, i)
  /\ \A t \in stale \cap Pending : since[t] = cur

IInv ==
  /\ TypeOK /\ Pointers /\ SeenIsPrefix /\ ScanShown
  /\ Delivered /\ Ahead /\ Missed

-----------------------------------------------------------------------------
(* Type correctness.                                                       *)

\* The queue after deque.append holds the new stanza and otherwise only what
\* it held before.
LEMMA EnqueueKeeps ==
  ASSUME NEW i PROVE /\ i \in Enqueue(i)
                     /\ Enqueue(i) \subseteq queue \cup {i}
  BY DEF Enqueue

\* The stream starts with everything of its type (Stream.__init__).
LEMMA TypeInit == Init => TypeOK
<1> SUFFICES ASSUME Init PROVE TypeOK
  OBVIOUS
<1>1. got \in [Tasks -> [Ids -> Nat]]
  BY DEF Init
<1>2. /\ seen \in [Tasks -> SUBSET Ids] /\ want \in [Tasks -> SUBSET Kinds]
      /\ since \in [Tasks -> 0 .. MaxStanzas]
      /\ fut \in [Tasks -> {"none", "pending", "done"}]
      /\ result \in [Tasks -> 0 .. MaxStanzas]
      /\ \A t \in Tasks : fut[t] # "done"
  BY StreamAssumption DEF Init
<1>3. /\ kind \in [Ids -> Kinds]
      /\ arrived \in 0 .. MaxStanzas /\ chunks \subseteq Ids
      /\ undecoded \subseteq Ids /\ dropped \subseteq Ids
      /\ conn \in {"open", "closing", "lost"}
      /\ pc = "get"
      /\ cur \in 0 .. MaxStanzas /\ batchEnd \in 0 .. MaxStanzas
  BY StreamAssumption DEF Init
<1>4. cancelled \in BOOLEAN /\ dead \in BOOLEAN
  BY DEF Init
<1>5. /\ queue \subseteq Ids /\ mixed \subseteq Ids
      /\ item \in 0 .. MaxStanzas /\ (snapshot # {} => item \in Ids)
      /\ snapshot \subseteq Tasks /\ stale \subseteq snapshot
  BY StreamAssumption DEF Init
<1>6. QED
  BY <1>1, <1>2, <1>3, <1>4, <1>5 DEF TypeOK

\* The exception handlers of _run leave their variables well typed.
LEMMA GiveUpTypes ==
  ASSUME TypeOK, GiveUpBatch, pc # "get"
  PROVE  /\ pc' = "get" /\ cur' \in 0 .. MaxStanzas
         /\ batchEnd' \in 0 .. MaxStanzas
         /\ dead' \in BOOLEAN /\ dropped' \subseteq Ids
         /\ item' = 0 /\ snapshot' = {} /\ stale' = {}
<1> USE StreamAssumption DEF TypeOK, Ids
<1>1. cur' \in 0 .. MaxStanzas /\ batchEnd' \in 0 .. MaxStanzas
  BY DEF GiveUpBatch
<1>2. dead' \in BOOLEAN
  BY DEF GiveUpBatch
<1>3. dropped' \subseteq Ids
  <2>1. CASE pc = "batch"
    BY <2>1 DEF GiveUpBatch
  <2>2. CASE pc # "batch"
    BY <2>2 DEF GiveUpBatch
  <2>3. QED
    BY <2>1, <2>2
<1>4. QED
  BY <1>1, <1>2, <1>3 DEF GiveUpBatch

\* No step of the parser task, of a callback or of a wait() breaks a type.
LEMMA TypeStep == TypeOK /\ [Next]_vars => TypeOK'
<1> SUFFICES ASSUME TypeOK, [Next]_vars PROVE TypeOK'
  OBVIOUS
<1> USE StreamAssumption DEF TypeOK, Ids, GiveUpBatch, parserVars, scanVars,
        taskVars, wireVars
<1>1. ASSUME NEW m \in Ids, DataReceived(m) PROVE TypeOK'
  BY <1>1 DEF DataReceived
<1>2. CASE ConnectionLost
  BY <1>2 DEF ConnectionLost
<1>3. CASE GetChunk
  BY <1>3 DEF GetChunk, Lost
<1>4. CASE EndChunk
  BY <1>4 DEF EndChunk
<1>5. CASE HandleStanza
  <2>1. cur + 1 \in Ids
    BY <1>5 DEF HandleStanza
  <2>2. queue' \subseteq Ids /\ mixed' \subseteq Ids
    <3>1. queue' = Enqueue(cur + 1) /\ mixed' = mixed \cup {cur + 1}
      BY <1>5 DEF HandleStanza
    <3>2. Enqueue(cur + 1) \subseteq queue \cup {cur + 1}
      BY EnqueueKeeps
    <3>3. QED
      BY <2>1, <3>1, <3>2
  <2>3. pc' \in {"batch", "scan"}
    BY <1>5 DEF HandleStanza
  <2>4. QED
    BY <1>5, <2>1, <2>2, <2>3 DEF HandleStanza
<1>6. CASE HandleStreamError
  BY <1>6 DEF HandleStreamError
<1>7. CASE HandleStreamErrorLate
  BY <1>7 DEF HandleStreamErrorLate
<1>8. CASE NextQueued
  BY <1>8 DEF NextQueued, IsFirst, Pending
<1>9. CASE EndScan
  BY <1>9 DEF EndScan
<1>10. ASSUME NEW t \in Tasks, TestMisses(t) PROVE TypeOK'
  BY <1>10 DEF TestMisses
<1>11. ASSUME NEW t \in Tasks, TestMatches(t) PROVE TypeOK'
  BY <1>11 DEF TestMatches
<1>12. ASSUME NEW t \in Tasks, TestCancelled(t) PROVE TypeOK'
  <2>1. GiveUpBatch /\ pc # "get"
    BY <1>12 DEF TestCancelled
  <2>2. /\ pc' = "get" /\ cur' \in 0 .. MaxStanzas
        /\ batchEnd' \in 0 .. MaxStanzas
        /\ dead' \in BOOLEAN /\ dropped' \subseteq Ids
        /\ item' = 0 /\ snapshot' = {} /\ stale' = {}
    BY <2>1, GiveUpTypes
  <2>3. seen' \in [Tasks -> SUBSET Ids]
    BY <1>12 DEF TestCancelled
  <2>4. UNCHANGED <<wireVars, conn, queue, mixed, cancelled, fut, want, since,
                    result, got>>
    BY <1>12 DEF TestCancelled
  <2>5. QED
    BY <2>2, <2>3, <2>4
<1>13. CASE Resume
  BY <1>13 DEF Resume
<1>14. CASE ResumeCancelled
  <2>1. cancelled' \in BOOLEAN
    BY <1>14 DEF ResumeCancelled
  <2>2. UNCHANGED <<wireVars, conn, queue, mixed, taskVars>>
    BY <1>14 DEF ResumeCancelled
  <2>3. GiveUpBatch /\ pc # "get"
    BY <1>14 DEF ResumeCancelled
  <2>4. /\ pc' = "get" /\ cur' \in 0 .. MaxStanzas
        /\ batchEnd' \in 0 .. MaxStanzas
        /\ dead' \in BOOLEAN /\ dropped' \subseteq Ids
        /\ item' = 0 /\ snapshot' = {} /\ stale' = {}
    BY <2>3, GiveUpTypes
  <2>5. QED
    BY <2>1, <2>2, <2>4
<1>15. ASSUME NEW t \in Tasks, NEW ks, WaitFinds(t, ks) PROVE TypeOK'
  <2>1. PICK i \in Ids :
          /\ seen' = [seen EXCEPT ![t] = @ \cup {j \in queue : j <= i}]
          /\ got' = [got EXCEPT ![t][i] = @ + 1]
    BY <1>15 DEF WaitFinds, Unseen
  <2>2. seen' \in [Tasks -> SUBSET Ids]
    BY <2>1
  <2>3. got' \in [Tasks -> [Ids -> Nat]]
    BY <2>1
  <2>4. UNCHANGED <<wireVars, conn, queue, mixed, parserVars, scanVars, fut,
                    want, since, result>>
    BY <1>15 DEF WaitFinds
  <2>5. QED
    BY <2>2, <2>3, <2>4
<1>16. ASSUME NEW t \in Tasks, NEW ks \in SUBSET Kinds, WaitRegisters(t, ks)
       PROVE TypeOK'
  BY <1>16 DEF WaitRegisters
<1>17. ASSUME NEW t \in Tasks, WaitReturns(t) PROVE TypeOK'
  BY <1>17, SMTT(30) DEF WaitReturns, Forget
<1>18. ASSUME NEW t \in Tasks, WaitTimesOut(t) PROVE TypeOK'
  BY <1>18 DEF WaitTimesOut, Forget
<1>19. CASE Close
  BY <1>19 DEF Close
<1>20. CASE UNCHANGED vars
  BY <1>20 DEF vars
<1>22. ASSUME NEW m \in Ids, DataUndecodable(m) PROVE TypeOK'
  BY <1>22 DEF DataUndecodable
<1>23. CASE ParseFails
  BY <1>23 DEF ParseFails
<1>21. QED
  BY <1>1, <1>2, <1>3, <1>4, <1>5, <1>6, <1>7, <1>8, <1>9, <1>10, <1>11,
     <1>12, <1>13, <1>14, <1>15, <1>16, <1>17, <1>18, <1>19, <1>20, <1>22, <1>23
     DEF Next, Parser, Task

\* Every variable keeps its type in every behaviour of the stream.
THEOREM StreamTypeCorrect == Spec => []TypeOK
  BY TypeInit, TypeStep, PTL DEF Spec

-----------------------------------------------------------------------------
(* The inductive invariant, conjunct by conjunct.                          *)

\* The pointers into the conversation stay in order.
LEMMA PointersStep == IInv /\ [Next]_vars => Pointers'
<1> SUFFICES ASSUME IInv, [Next]_vars PROVE Pointers'
  OBVIOUS
<1> USE StreamAssumption DEF IInv, TypeOK, Ids, Pointers, Scanning,
        GiveUpBatch, parserVars, scanVars, taskVars,
        wireVars, IsFirst
<1>1. ASSUME NEW m \in Ids, DataReceived(m) PROVE Pointers'
  BY <1>1 DEF DataReceived
<1>2. CASE ConnectionLost
  BY <1>2 DEF ConnectionLost
<1>3. CASE GetChunk
  BY <1>3 DEF GetChunk, Lost
<1>4. CASE EndChunk
  BY <1>4 DEF EndChunk
<1>5. CASE HandleStanza
  <2>1. queue' \subseteq queue \cup {cur + 1} /\ cur' = cur + 1
    BY <1>5, EnqueueKeeps DEF HandleStanza
  <2>2. queue' \subseteq 1 .. cur'
    BY <2>1
  <2>3. \A t \in Tasks : seen'[t] \subseteq 1 .. cur'
    BY <1>5, <2>1 DEF HandleStanza
  <2>4. item' = 0 /\ snapshot' = {}
    BY <1>5 DEF HandleStanza
  <2>5. pc' # "get" /\ cur' <= batchEnd
    BY <1>5 DEF HandleStanza
  <2>6. UNCHANGED <<batchEnd, arrived, chunks>>
    BY <1>5 DEF HandleStanza
  <2>7. QED
    BY <2>2, <2>3, <2>4, <2>5, <2>6
<1>6. CASE HandleStreamError
  BY <1>6 DEF HandleStreamError
<1>7. CASE HandleStreamErrorLate
  BY <1>7 DEF HandleStreamErrorLate
<1>8. CASE NextQueued
  BY <1>8 DEF NextQueued
<1>9. CASE EndScan
  BY <1>9 DEF EndScan
<1>10. ASSUME NEW t \in Tasks, TestMisses(t) PROVE Pointers'
  BY <1>10 DEF TestMisses
<1>11. ASSUME NEW t \in Tasks, TestMatches(t) PROVE Pointers'
  BY <1>11 DEF TestMatches
<1>12. ASSUME NEW t \in Tasks, TestCancelled(t) PROVE Pointers'
  BY <1>12 DEF TestCancelled
<1>13. CASE Resume
  BY <1>13 DEF Resume
<1>14. CASE ResumeCancelled
  BY <1>14 DEF ResumeCancelled
<1>15. ASSUME NEW t \in Tasks, NEW ks, WaitFinds(t, ks) PROVE Pointers'
  <2>1. UNCHANGED <<cur, batchEnd, arrived, pc, chunks, queue, item, snapshot>>
    BY <1>15 DEF WaitFinds
  <2>2. \A u \in Tasks : seen'[u] \subseteq seen[u] \cup queue
    BY <1>15 DEF WaitFinds
  <2>3. QED
    BY <2>1, <2>2
<1>16. ASSUME NEW t \in Tasks, NEW ks \in SUBSET Kinds, WaitRegisters(t, ks)
       PROVE Pointers'
  BY <1>16 DEF WaitRegisters
<1>17. ASSUME NEW t \in Tasks, WaitReturns(t) PROVE Pointers'
  BY <1>17 DEF WaitReturns, Forget
<1>18. ASSUME NEW t \in Tasks, WaitTimesOut(t) PROVE Pointers'
  BY <1>18 DEF WaitTimesOut, Forget
<1>19. CASE Close
  BY <1>19 DEF Close
<1>20. CASE UNCHANGED vars
  BY <1>20 DEF vars
<1>22. ASSUME NEW m \in Ids, DataUndecodable(m) PROVE Pointers'
  BY <1>22 DEF DataUndecodable
<1>23. CASE ParseFails
  BY <1>23 DEF ParseFails
<1>21. QED
  BY <1>1, <1>2, <1>3, <1>4, <1>5, <1>6, <1>7, <1>8, <1>9, <1>10, <1>11,
     <1>12, <1>13, <1>14, <1>15, <1>16, <1>17, <1>18, <1>19, <1>20, <1>22, <1>23
     DEF Next, Parser, Task

\* Every task goes on seeing the queue oldest first.
LEMMA SeenIsPrefixStep == IInv /\ [Next]_vars => SeenIsPrefix'
<1> SUFFICES ASSUME IInv, [Next]_vars PROVE SeenIsPrefix'
  OBVIOUS
<1> USE StreamAssumption DEF IInv, TypeOK, Ids, Pointers, ScanShown,
        SeenIsPrefix, GiveUpBatch, parserVars, scanVars, taskVars,
        wireVars
<1>1. ASSUME NEW m \in Ids, DataReceived(m) PROVE SeenIsPrefix'
  BY <1>1 DEF DataReceived
<1>2. CASE ConnectionLost
  BY <1>2 DEF ConnectionLost
<1>3. CASE GetChunk
  BY <1>3 DEF GetChunk, Lost
<1>4. CASE EndChunk
  BY <1>4 DEF EndChunk
<1>5. CASE HandleStanza
  <2>1. queue' \subseteq queue \cup {cur + 1} /\ seen' = seen
    BY <1>5, EnqueueKeeps DEF HandleStanza
  <2>2. \A t \in Tasks : \A j \in seen[t] : j < cur + 1
    OBVIOUS
  <2>3. QED
    BY <2>1, <2>2
<1>6. CASE HandleStreamError
  BY <1>6 DEF HandleStreamError
<1>7. CASE HandleStreamErrorLate
  BY <1>7 DEF HandleStreamErrorLate
<1>8. CASE NextQueued
  BY <1>8 DEF NextQueued
<1>9. CASE EndScan
  BY <1>9 DEF EndScan
<1>10. ASSUME NEW t \in Tasks, TestMisses(t) PROVE SeenIsPrefix'
  BY <1>10 DEF TestMisses
<1>11. ASSUME NEW t \in Tasks, TestMatches(t) PROVE SeenIsPrefix'
  BY <1>11 DEF TestMatches
<1>12. ASSUME NEW t \in Tasks, TestCancelled(t) PROVE SeenIsPrefix'
  BY <1>12 DEF TestCancelled
<1>13. CASE Resume
  BY <1>13 DEF Resume
<1>14. CASE ResumeCancelled
  BY <1>14 DEF ResumeCancelled
<1>15. ASSUME NEW t \in Tasks, NEW ks, WaitFinds(t, ks) PROVE SeenIsPrefix'
  <2>1. PICK i \in queue :
          seen' = [seen EXCEPT ![t] = @ \cup {j \in queue : j <= i}]
    BY <1>15 DEF WaitFinds, Unseen
  <2>2. queue' = queue
    BY <1>15 DEF WaitFinds
  <2>3. QED
    BY <2>1, <2>2
<1>16. ASSUME NEW t \in Tasks, NEW ks \in SUBSET Kinds, WaitRegisters(t, ks)
       PROVE SeenIsPrefix'
  BY <1>16 DEF WaitRegisters
<1>17. ASSUME NEW t \in Tasks, WaitReturns(t) PROVE SeenIsPrefix'
  BY <1>17 DEF WaitReturns, Forget
<1>18. ASSUME NEW t \in Tasks, WaitTimesOut(t) PROVE SeenIsPrefix'
  BY <1>18 DEF WaitTimesOut, Forget
<1>19. CASE Close
  BY <1>19 DEF Close
<1>20. CASE UNCHANGED vars
  BY <1>20 DEF vars
<1>22. ASSUME NEW m \in Ids, DataUndecodable(m) PROVE SeenIsPrefix'
  BY <1>22 DEF DataUndecodable
<1>23. CASE ParseFails
  BY <1>23 DEF ParseFails
<1>21. QED
  BY <1>1, <1>2, <1>3, <1>4, <1>5, <1>6, <1>7, <1>8, <1>9, <1>10, <1>11,
     <1>12, <1>13, <1>14, <1>15, <1>16, <1>17, <1>18, <1>19, <1>20, <1>22, <1>23
     DEF Next, Parser, Task

\* What the scan has shown stays right, whatever runs while it is suspended.
LEMMA ScanShownStep == IInv /\ [Next]_vars => ScanShown'
<1> SUFFICES ASSUME IInv, [Next]_vars PROVE ScanShown'
  OBVIOUS
<1> USE StreamAssumption DEF IInv, TypeOK, Ids, Pointers, Scanning,
        Pending, GiveUpBatch, parserVars, scanVars, taskVars, wireVars, ScanShown
<1>1. ASSUME NEW m \in Ids, DataReceived(m) PROVE ScanShown'
  BY <1>1 DEF DataReceived
<1>2. CASE ConnectionLost
  BY <1>2 DEF ConnectionLost
<1>3. CASE GetChunk
  BY <1>3 DEF GetChunk, Lost
<1>4. CASE EndChunk
  BY <1>4 DEF EndChunk
<1>5. CASE HandleStanza
  <2>1. queue' \subseteq queue \cup {cur + 1}
    BY <1>5, EnqueueKeeps DEF HandleStanza
  <2>2. \A i \in queue' : i \in Nat /\ i > 0
    BY <2>1
  <2>3. item' = 0 /\ snapshot' = {}
    BY <1>5 DEF HandleStanza
  <2>4. QED
    BY <2>2, <2>3
<1>6. CASE HandleStreamError
  BY <1>6 DEF HandleStreamError
<1>7. CASE HandleStreamErrorLate
  BY <1>7 DEF HandleStreamErrorLate
<1>8. CASE NextQueued
  <2>1. PICK k \in queue : item' = k /\ \A i \in queue : i < k => i <= item
    BY <1>8 DEF NextQueued, IsFirst
  <2>2. /\ snapshot = {} /\ stale = {} /\ stale' = {}
        /\ snapshot' = {t \in Tasks : fut[t] = "pending"}
        /\ UNCHANGED <<queue, pc, seen, fut>>
    BY <1>8 DEF NextQueued
  <2>3. \A t \in Tasks, i \in queue :
          fut[t] = "pending" /\ i <= item => i \in seen[t]
    BY <2>2
  <2>4. QED
    BY <2>1, <2>2, <2>3
<1>9. CASE EndScan
  BY <1>9 DEF EndScan
<1>10. ASSUME NEW t \in Tasks, TestMisses(t) PROVE ScanShown'
  BY <1>10 DEF TestMisses
<1>11. ASSUME NEW t \in Tasks, TestMatches(t) PROVE ScanShown'
  BY <1>11 DEF TestMatches
<1>12. ASSUME NEW t \in Tasks, TestCancelled(t) PROVE ScanShown'
  BY <1>12 DEF TestCancelled
<1>13. CASE Resume
  BY <1>13 DEF Resume
<1>14. CASE ResumeCancelled
  BY <1>14 DEF ResumeCancelled
<1>15. ASSUME NEW t \in Tasks, NEW ks, WaitFinds(t, ks) PROVE ScanShown'
  BY <1>15 DEF WaitFinds
<1>16. ASSUME NEW t \in Tasks, NEW ks \in SUBSET Kinds, WaitRegisters(t, ks)
       PROVE ScanShown'
  BY <1>16 DEF WaitRegisters
<1>17. ASSUME NEW t \in Tasks, WaitReturns(t) PROVE ScanShown'
  BY <1>17 DEF WaitReturns, Forget
<1>18. ASSUME NEW t \in Tasks, WaitTimesOut(t) PROVE ScanShown'
  BY <1>18 DEF WaitTimesOut, Forget
<1>19. CASE Close
  BY <1>19 DEF Close
<1>20. CASE UNCHANGED vars
  BY <1>20 DEF vars
<1>22. ASSUME NEW m \in Ids, DataUndecodable(m) PROVE ScanShown'
  BY <1>22 DEF DataUndecodable
<1>23. CASE ParseFails
  BY <1>23 DEF ParseFails
<1>21. QED
  BY <1>1, <1>2, <1>3, <1>4, <1>5, <1>6, <1>7, <1>8, <1>9, <1>10, <1>11,
     <1>12, <1>13, <1>14, <1>15, <1>16, <1>17, <1>18, <1>19, <1>20, <1>22, <1>23
     DEF Next, Parser, Task

\* What is returned to a task stays new to it.
LEMMA DeliveredStep == IInv /\ [Next]_vars => Delivered'
<1> SUFFICES ASSUME IInv, [Next]_vars PROVE Delivered'
  OBVIOUS
<1> USE StreamAssumption DEF IInv, TypeOK, Ids, Pointers, Scanning,
        Pending, GiveUpBatch, parserVars, scanVars, taskVars, wireVars, SeenIsPrefix,
        ScanShown, Delivered, Matches
<1>1. ASSUME NEW m \in Ids, DataReceived(m) PROVE Delivered'
  BY <1>1 DEF DataReceived
<1>2. CASE ConnectionLost
  BY <1>2 DEF ConnectionLost
<1>3. CASE GetChunk
  BY <1>3 DEF GetChunk, Lost
<1>4. CASE EndChunk
  BY <1>4 DEF EndChunk
<1>5. CASE HandleStanza
  BY <1>5 DEF HandleStanza
<1>6. CASE HandleStreamError
  BY <1>6 DEF HandleStreamError
<1>7. CASE HandleStreamErrorLate
  BY <1>7 DEF HandleStreamErrorLate
<1>8. CASE NextQueued
  BY <1>8 DEF NextQueued
<1>9. CASE EndScan
  BY <1>9 DEF EndScan
<1>10. ASSUME NEW t \in Tasks, TestMisses(t) PROVE Delivered'
  BY <1>10 DEF TestMisses
<1>11. ASSUME NEW t \in Tasks, TestMatches(t) PROVE Delivered'
  BY <1>11 DEF TestMatches
<1>12. ASSUME NEW t \in Tasks, TestCancelled(t) PROVE Delivered'
  BY <1>12 DEF TestCancelled
<1>13. CASE Resume
  BY <1>13 DEF Resume
<1>14. CASE ResumeCancelled
  BY <1>14 DEF ResumeCancelled
<1>15. ASSUME NEW t \in Tasks, NEW ks, WaitFinds(t, ks) PROVE Delivered'
  <2>1. PICK i \in queue \ seen[t] :
          /\ seen' = [seen EXCEPT ![t] = @ \cup {j \in queue : j <= i}]
          /\ got' = [got EXCEPT ![t][i] = @ + 1]
    BY <1>15 DEF WaitFinds, Unseen
  <2>2. fut[t] = "none" /\ UNCHANGED <<fut, result, want, kind>>
    BY <1>15 DEF WaitFinds
  <2>3. i \in Ids /\ i \in seen'[t]
    BY <2>1
  <2>4. got[t][i] = 0 /\ got'[t][i] = 1
    BY <2>1, <2>3
  <2>5. \A u \in Tasks, j \in Ids : u # t \/ j # i => got'[u][j] = got[u][j]
    BY <2>1, <2>3
  <2>6. \A u \in Tasks : seen[u] \subseteq seen'[u]
    BY <2>1
  <2>7. ASSUME NEW u \in Tasks, NEW j \in Ids
        PROVE got'[u][j] <= 1 /\ (got'[u][j] > 0 => j \in seen'[u])
    <3>1. CASE u = t /\ j = i
      BY <2>3, <2>4, <3>1
    <3>2. CASE u # t \/ j # i
      BY <2>5, <2>6, <3>2
    <3>3. QED
      BY <3>1, <3>2
  <2>8. \A u \in Tasks : fut'[u] = "done" => got'[u] = got[u]
    BY <2>1, <2>2
  <2>9. QED
    BY <2>2, <2>6, <2>7, <2>8
<1>16. ASSUME NEW t \in Tasks, NEW ks \in SUBSET Kinds, WaitRegisters(t, ks)
       PROVE Delivered'
  BY <1>16 DEF WaitRegisters
<1>17. ASSUME NEW t \in Tasks, WaitReturns(t) PROVE Delivered'
  <2>1. result[t] \in Ids /\ result[t] \in seen[t] /\ got[t][result[t]] = 0
    <3>1. fut[t] = "done"
      BY <1>17 DEF WaitReturns, Forget
    <3>2. result[t] \in Ids /\ result[t] \in seen[t]
      BY <3>1
    <3>3. got[t][result[t]] \in Nat /\ ~(got[t][result[t]] > 0)
      BY <3>1, <3>2
    <3>4. QED
      BY <3>2, <3>3
  <2>2. /\ got' = [got EXCEPT ![t][result[t]] = @ + 1]
        /\ fut' = [fut EXCEPT ![t] = "none"]
        /\ UNCHANGED <<seen, kind>>
    BY <1>17 DEF WaitReturns, Forget
  <2>3. got'[t][result[t]] = 1
    BY <2>1, <2>2
  <2>4. \A u \in Tasks, j \in Ids :
          u # t \/ j # result[t] => got'[u][j] = got[u][j]
    BY <2>1, <2>2
  <2>5. \A u \in Tasks, j \in Ids :
          got'[u][j] <= 1 /\ (got'[u][j] > 0 => j \in seen'[u])
    BY <2>1, <2>2, <2>3, <2>4, SMTT(30)
  <2>6. \A u \in Tasks : fut'[u] = "done" =>
          /\ fut[u] = "done" /\ got'[u] = got[u]
          /\ result'[u] = result[u] /\ want'[u] = want[u]
    BY <1>17, <2>2 DEF WaitReturns, Forget
  <2>7. QED
    BY <2>2, <2>5, <2>6
<1>18. ASSUME NEW t \in Tasks, WaitTimesOut(t) PROVE Delivered'
  BY <1>18 DEF WaitTimesOut, Forget
<1>19. CASE Close
  BY <1>19 DEF Close
<1>20. CASE UNCHANGED vars
  BY <1>20 DEF vars
<1>22. ASSUME NEW m \in Ids, DataUndecodable(m) PROVE Delivered'
  BY <1>22 DEF DataUndecodable
<1>23. CASE ParseFails
  BY <1>23 DEF ParseFails
<1>21. QED
  BY <1>1, <1>2, <1>3, <1>4, <1>5, <1>6, <1>7, <1>8, <1>9, <1>10, <1>11,
     <1>12, <1>13, <1>14, <1>15, <1>16, <1>17, <1>18, <1>19, <1>20, <1>22, <1>23
     DEF Next, Parser, Task

\* What a waiting task has not been shown stays ahead of the scan.
LEMMA AheadStep == IInv /\ [Next]_vars => Ahead'
<1> SUFFICES ASSUME IInv, [Next]_vars PROVE Ahead'
  OBVIOUS
<1> USE StreamAssumption DEF IInv, TypeOK, Ids, Pointers, Scanning,
        Pending, GiveUpBatch, parserVars, scanVars, taskVars, wireVars, ScanShown, Ahead
<1>1. ASSUME NEW m \in Ids, DataReceived(m) PROVE Ahead'
  BY <1>1 DEF DataReceived
<1>2. CASE ConnectionLost
  BY <1>2 DEF ConnectionLost
<1>3. CASE GetChunk
  BY <1>3 DEF GetChunk, Lost
<1>4. CASE EndChunk
  BY <1>4 DEF EndChunk
<1>5. CASE HandleStanza
  <2>1. queue' \subseteq queue \cup {cur + 1}
    BY <1>5, EnqueueKeeps DEF HandleStanza
  <2>2. item' = 0 /\ cur' = cur + 1 /\ UNCHANGED <<dropped, fut, seen>>
    BY <1>5 DEF HandleStanza
  <2>3. (\E t \in Tasks : fut[t] = "pending") => pc' = "scan"
    BY <1>5 DEF HandleStanza, Waiters
  <2>4. \A i \in queue' : i > 0
    BY <2>1
  <2>5. \A t \in Tasks, i \in queue :
          fut[t] = "pending" => i \in seen[t] \/ i \in dropped
    BY <1>5 DEF HandleStanza
  <2>6. QED
    BY <2>1, <2>2, <2>3, <2>4, <2>5
<1>6. CASE HandleStreamError
  BY <1>6 DEF HandleStreamError
<1>7. CASE HandleStreamErrorLate
  BY <1>7 DEF HandleStreamErrorLate
<1>8. CASE NextQueued
  <2>1. PICK k \in queue : item' = k /\ \A i \in queue : i < k => i <= item
    BY <1>8 DEF NextQueued, IsFirst
  <2>2. /\ snapshot = {} /\ stale = {} /\ stale' = {}
        /\ snapshot' = {t \in Tasks : fut[t] = "pending"}
        /\ UNCHANGED <<queue, pc, cur, dropped, seen, fut>>
    BY <1>8 DEF NextQueued
  <2>3. pc = "scan"
    BY <1>8 DEF NextQueued
  <2>4. \A t \in Tasks, i \in queue :
          fut[t] = "pending" =>
            i \in seen[t] \/ i \in dropped \/ (i = cur /\ i > item)
    BY <2>2
  <2>5. QED
    BY <2>1, <2>2, <2>3, <2>4
<1>9. CASE EndScan
  BY <1>9 DEF EndScan
<1>10. ASSUME NEW t \in Tasks, TestMisses(t) PROVE Ahead'
  BY <1>10 DEF TestMisses
<1>11. ASSUME NEW t \in Tasks, TestMatches(t) PROVE Ahead'
  BY <1>11 DEF TestMatches
<1>12. ASSUME NEW t \in Tasks, TestCancelled(t) PROVE Ahead'
  BY <1>12 DEF TestCancelled
<1>13. CASE Resume
  BY <1>13 DEF Resume
<1>14. CASE ResumeCancelled
  BY <1>14 DEF ResumeCancelled
<1>15. ASSUME NEW t \in Tasks, NEW ks, WaitFinds(t, ks) PROVE Ahead'
  BY <1>15 DEF WaitFinds
<1>16. ASSUME NEW t \in Tasks, NEW ks \in SUBSET Kinds, WaitRegisters(t, ks)
       PROVE Ahead'
  BY <1>16 DEF WaitRegisters
<1>17. ASSUME NEW t \in Tasks, WaitReturns(t) PROVE Ahead'
  BY <1>17 DEF WaitReturns, Forget
<1>18. ASSUME NEW t \in Tasks, WaitTimesOut(t) PROVE Ahead'
  BY <1>18 DEF WaitTimesOut, Forget
<1>19. CASE Close
  BY <1>19 DEF Close
<1>20. CASE UNCHANGED vars
  BY <1>20 DEF vars
<1>22. ASSUME NEW m \in Ids, DataUndecodable(m) PROVE Ahead'
  BY <1>22 DEF DataUndecodable
<1>23. CASE ParseFails
  BY <1>23 DEF ParseFails
<1>21. QED
  BY <1>1, <1>2, <1>3, <1>4, <1>5, <1>6, <1>7, <1>8, <1>9, <1>10, <1>11,
     <1>12, <1>13, <1>14, <1>15, <1>16, <1>17, <1>18, <1>19, <1>20, <1>22, <1>23
     DEF Next, Parser, Task

\* What a waiting task has been shown since it began stays unwanted.
LEMMA MissedStep == IInv /\ [Next]_vars => Missed'
<1> SUFFICES ASSUME IInv, [Next]_vars PROVE Missed'
  OBVIOUS
<1> USE StreamAssumption DEF IInv, TypeOK, Ids, Pointers, Scanning,
        Pending, GiveUpBatch, parserVars, scanVars, taskVars, wireVars, ScanShown,
        Missed, Matches
<1>1. ASSUME NEW m \in Ids, DataReceived(m) PROVE Missed'
  BY <1>1 DEF DataReceived
<1>2. CASE ConnectionLost
  BY <1>2 DEF ConnectionLost
<1>3. CASE GetChunk
  BY <1>3 DEF GetChunk, Lost
<1>4. CASE EndChunk
  BY <1>4 DEF EndChunk
<1>5. CASE HandleStanza
  <2>1. stale = {} /\ stale' = {}
    BY <1>5 DEF HandleStanza
  <2>2. UNCHANGED <<seen, fut, want, since, kind>>
    BY <1>5 DEF HandleStanza
  <2>3. QED
    BY <2>1, <2>2
<1>6. CASE HandleStreamError
  BY <1>6 DEF HandleStreamError
<1>7. CASE HandleStreamErrorLate
  BY <1>7 DEF HandleStreamErrorLate
<1>8. CASE NextQueued
  BY <1>8 DEF NextQueued
<1>9. CASE EndScan
  BY <1>9 DEF EndScan
<1>10. ASSUME NEW t \in Tasks, TestMisses(t) PROVE Missed'
  BY <1>10 DEF TestMisses
<1>11. ASSUME NEW t \in Tasks, TestMatches(t) PROVE Missed'
  BY <1>11 DEF TestMatches
<1>12. ASSUME NEW t \in Tasks, TestCancelled(t) PROVE Missed'
  BY <1>12 DEF TestCancelled
<1>13. CASE Resume
  BY <1>13 DEF Resume
<1>14. CASE ResumeCancelled
  BY <1>14 DEF ResumeCancelled
<1>15. ASSUME NEW t \in Tasks, NEW ks, WaitFinds(t, ks) PROVE Missed'
  BY <1>15 DEF WaitFinds
<1>16. ASSUME NEW t \in Tasks, NEW ks \in SUBSET Kinds, WaitRegisters(t, ks)
       PROVE Missed'
  BY <1>16 DEF WaitRegisters
<1>17. ASSUME NEW t \in Tasks, WaitReturns(t) PROVE Missed'
  BY <1>17 DEF WaitReturns, Forget
<1>18. ASSUME NEW t \in Tasks, WaitTimesOut(t) PROVE Missed'
  BY <1>18 DEF WaitTimesOut, Forget
<1>19. CASE Close
  BY <1>19 DEF Close
<1>20. CASE UNCHANGED vars
  BY <1>20 DEF vars
<1>22. ASSUME NEW m \in Ids, DataUndecodable(m) PROVE Missed'
  BY <1>22 DEF DataUndecodable
<1>23. CASE ParseFails
  BY <1>23 DEF ParseFails
<1>21. QED
  BY <1>1, <1>2, <1>3, <1>4, <1>5, <1>6, <1>7, <1>8, <1>9, <1>10, <1>11,
     <1>12, <1>13, <1>14, <1>15, <1>16, <1>17, <1>18, <1>19, <1>20, <1>22, <1>23
     DEF Next, Parser, Task

\* The inductive invariant holds of every behaviour of the stream: no
\* interleaving of the scan with waits, timeouts and closes breaks it.
THEOREM IInvInductive == Spec => []IInv
<1>1. Init => IInv
  <2> SUFFICES ASSUME Init PROVE IInv
    OBVIOUS
  <2>1. /\ TypeOK
        /\ cur = 0 /\ batchEnd = 0 /\ arrived = 0 /\ chunks = {}
        /\ queue = {} /\ item = 0 /\ snapshot = {}
    BY TypeInit DEF Init
  <2>2. \A t \in Tasks : seen[t] = {} /\ fut[t] = "none"
    BY DEF Init
  <2>3. \A t \in Tasks, i \in Ids : got[t][i] = 0
    BY DEF Init
  <2>4. QED
    BY <2>1, <2>2, <2>3 DEF IInv, Pointers, SeenIsPrefix, ScanShown, Delivered,
       Ahead, Missed, Pending
<1>2. IInv /\ [Next]_vars => IInv'
  BY TypeStep, PointersStep, SeenIsPrefixStep, ScanShownStep, DeliveredStep,
     AheadStep, MissedStep DEF IInv
<1>3. QED
  BY <1>1, <1>2, PTL DEF Spec

-----------------------------------------------------------------------------
(* The safety properties.                                                  *)

\* No task is given the same stanza by two of its waits.
THEOREM StreamAtMostOnce == Spec => []AtMostOnce
<1>1. IInv => AtMostOnce
  BY DEF IInv, Delivered, AtMostOnce
<1>2. QED
  BY <1>1, IInvInductive, PTL

\* A wait is completed with a stanza it asked for.
THEOREM StreamResultIsWanted == Spec => []ResultIsWanted
<1>1. IInv => ResultIsWanted
  BY DEF IInv, Delivered, Pointers, ResultIsWanted
<1>2. QED
  BY <1>1, IInvInductive, PTL

\* No wait sleeps on a stanza it asked for and that came while it waited,
\* unless an exception cut the handling of that stanza short.
THEOREM StreamNoLostWakeup == Spec => []NoLostWakeup
<1>1. IInv => NoLostWakeup
  <2> SUFFICES ASSUME IInv, pc = "get", NEW t \in Pending,
                      NEW i \in queue \ dropped, i > since[t]
               PROVE ~Matches(t, i)
    BY DEF NoLostWakeup
  <2>1. i \in seen[t]
    BY DEF IInv, Ahead, Scanning
  <2>2. i \in Ids
    BY DEF IInv, TypeOK
  <2>3. QED
    BY <2>1, <2>2 DEF IInv, Missed
<1>2. QED
  BY <1>1, IInvInductive, PTL

\* The queue drops only what everyone who waits has been shown, and stanzas
\* whose own handling an exception cut short.
THEOREM StreamEvictedWasSeen == Spec => EvictedWasSeen
<1> DEFINE A == \A i \in queue \ queue', t \in Pending :
                  i \in seen[t] \cup dropped
<1>1. IInv /\ [Next]_vars => [A]_vars
  <2> SUFFICES ASSUME IInv, [Next]_vars,
                      NEW i \in queue \ queue', NEW t \in Pending
               PROVE i \in seen[t] \cup dropped
    OBVIOUS
  <2>1. HandleStanza
    BY DEF Next, Parser, Task, DataReceived, DataUndecodable, ConnectionLost,
       GetChunk, ParseFails, EndChunk, HandleStreamError,
       HandleStreamErrorLate, NextQueued, EndScan, TestMisses, TestMatches,
       TestCancelled, Resume, ResumeCancelled, WaitFinds, WaitRegisters,
       WaitReturns, WaitTimesOut, Close, vars
  <2>2. QED
    BY <2>1 DEF HandleStanza, IInv, Ahead, Scanning
<1>2. QED
  BY <1>1, IInvInductive, PTL DEF Spec, EvictedWasSeen

\* A task is given stanzas in the order of their arrival.
THEOREM StreamInOrder == Spec => InOrder
<1> DEFINE A == \A t \in Tasks, i \in Ids :
                  got'[t][i] # got[t][i] =>
                    \A j \in Ids : got[t][j] > 0 => j < i
<1>1. IInv /\ [Next]_vars => [A]_vars
  <2> SUFFICES ASSUME IInv, [Next]_vars, NEW t \in Tasks, NEW i \in Ids,
                      got'[t][i] # got[t][i],
                      NEW j \in Ids, got[t][j] > 0
               PROVE j < i
    OBVIOUS
  <2>1. j \in seen[t] /\ i \in Nat /\ j \in Nat
    BY DEF IInv, Delivered, Ids
  <2>2. \/ \E u \in Tasks : \E ks : WaitFinds(u, ks)
        \/ \E u \in Tasks : WaitReturns(u)
    BY DEF Next, Parser, Task, DataReceived, DataUndecodable, ConnectionLost,
       GetChunk, ParseFails, EndChunk, HandleStanza, HandleStreamError,
       HandleStreamErrorLate, NextQueued, EndScan, TestMisses, TestMatches, TestCancelled, Resume,
       ResumeCancelled, WaitRegisters, WaitTimesOut, Close, vars, taskVars
  <2>3. ASSUME NEW u \in Tasks, NEW ks, WaitFinds(u, ks) PROVE j < i
    <3>1. PICK k \in queue \ seen[u] : got' = [got EXCEPT ![u][k] = @ + 1]
      BY <2>3 DEF WaitFinds, Unseen
    <3>2. u = t /\ k = i
      BY <3>1 DEF IInv, TypeOK
    <3>3. i \in queue /\ i \notin seen[t]
      BY <3>1, <3>2
    <3>4. ~(i < j) /\ i # j
      BY <2>1, <3>3 DEF IInv, SeenIsPrefix
    <3>5. QED
      BY <2>1, <3>4
  <2>4. ASSUME NEW u \in Tasks, WaitReturns(u) PROVE j < i
    <3>1. fut[u] = "done" /\ got' = [got EXCEPT ![u][result[u]] = @ + 1]
      BY <2>4 DEF WaitReturns
    <3>2. u = t /\ result[u] = i
      BY <3>1 DEF IInv, TypeOK
    <3>3. QED
      BY <3>1, <3>2 DEF IInv, Delivered
  <2>5. QED
    BY <2>2, <2>3, <2>4
<1>2. QED
  BY <1>1, IInvInductive, PTL DEF Spec, InOrder

=============================================================================
