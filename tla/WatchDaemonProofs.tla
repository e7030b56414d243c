-------------------------- MODULE WatchDaemonProofs -------------------------
(***************************************************************************)
(* Proofs about WatchDaemon, for any number of daemons and failures.       *)
(***************************************************************************)
EXTENDS WatchDaemon, TLAPS

(* A copy that is about to be written back is stale, never an end.         *)
CopiesStale ==
    /\ cli = "refresh" => copy[Command].status = "stale"
    /\ \A d \in Daemons : pc[d] = "refresh" => copy[d].status = "stale"

(* The parent marks a process that it has started. *)
ChildStarted ==
    cli \in {"unlink", "mark"} => child \in Daemons /\ pc[child] # "unborn"

(* Daemons run one after the other until a start is prepared while one     *)
(* runs; between the preparation and the process nothing runs.             *)
OneByOne ==
    ~doubled =>
        /\ \A c, d \in Alive : c = d
        /\ cli = "spawn" => Alive = {} /\ record.status = "starting"

CoreInv == TypeOK /\ CopiesStale /\ ChildStarted
IInv == CoreInv /\ OneByOne /\ CompletedIsOver

LEMMA CountsUp == \A n \in 0..MaxFails : n < MaxFails => n + 1 \in 0..MaxFails
BY DaemonConstants

LEMMA RefreshedType ==
    ASSUME TypeOK
    PROVE  Refreshed(record) \in Record
<1>1. record \in Record /\ Aged(record) \in Record
  BY DEF TypeOK, Aged, Record, Age
<1> QED BY <1>1 DEF Refreshed, Record, Status

(* Types, and only processes that were started are said to run. *)
LEMMA TypeStep ==
    ASSUME CoreInv, [Next]_vars
    PROVE  TypeOK'
<1> USE DaemonConstants DEF files, CoreInv, TypeOK, CopiesStale,
        ChildStarted
<1>1. CASE Start
  BY <1>1 DEF Start
<1>2. CASE ReadStatus
  BY <1>2 DEF ReadStatus, Record, Status, Age, Refreshed, TurnsStale, Aged
<1>3. CASE StatusDone
  BY <1>3 DEF StatusDone, WriteBack, Forget, NoRecord, Record, Status, Age
<1>4. CASE Restart
  BY <1>4 DEF Restart, Record, Status, Age, Refreshed, TurnsStale, Aged
<1>5. CASE Prepare
  BY <1>5 DEF Prepare, Record, Status, Age
<1>6. ASSUME NEW d \in Daemons, Spawn(d) PROVE TypeOK'
  BY <1>6 DEF Spawn
<1>7. CASE ParentUnlink
  BY <1>7 DEF ParentUnlink
<1>8. CASE ParentMark
  BY <1>8 DEF ParentMark, MarkRunning, Forget, Record, Status, Age, NoRecord
<1>9. CASE Stop
  BY <1>9 DEF Stop, Record
<1>10. CASE WriteStopFile
  BY <1>10 DEF WriteStopFile
<1>11. CASE WriteStopping
  BY <1>11 DEF WriteStopping, Record, Status, Age
<1>12. CASE Signal
  BY <1>12 DEF Signal, Forget, Record, Status, Age, NoRecord, Alive
<1>13. ASSUME NEW d \in Daemons, Boot(d) PROVE TypeOK'
  <2>1. Refreshed(record) \in Record
    BY RefreshedType
  <2>2. pc' \in [Daemons -> {"unborn", "boot", "refresh", "unlink", "mark",
                           "loop", "iterate", "stopped", "failed", "dead"}]
    BY <1>13 DEF Boot
  <2>3. record.pid \in Daemons => (pc[record.pid] # "unborn" => pc'[record.pid] # "unborn")
    BY <1>13 DEF Boot
  <2> QED BY <1>13, <2>1, <2>2, <2>3 DEF Boot, Record
<1>14. ASSUME NEW d \in Daemons, BootRefresh(d) PROVE TypeOK'
  BY <1>14 DEF BootRefresh, WriteBack, Record, Status, Age
<1>15. ASSUME NEW d \in Daemons, Unlink(d) PROVE TypeOK'
  BY <1>15 DEF Unlink, Record
<1>16. ASSUME NEW d \in Daemons, Mark(d) PROVE TypeOK'
  BY <1>16 DEF Mark, MarkRunning, Record, Status, Age
<1>17. ASSUME NEW d \in Daemons, Loop(d) PROVE TypeOK'
  BY <1>17 DEF Loop, Record
<1>18. ASSUME NEW d \in Daemons, Iterate(d) PROVE TypeOK'
  BY <1>18 DEF Iterate, Age, Record
<1>19. ASSUME NEW d \in Daemons, IterateFails(d) PROVE TypeOK'
  <2>1. fails' \in 0..MaxFails
    BY <1>19, CountsUp DEF IterateFails
  <2>2. pc' = [pc EXCEPT ![d] = "failed"]
    BY <1>19 DEF IterateFails
  <2> QED BY <1>19, <2>1, <2>2 DEF IterateFails, Record, Age
<1>20. ASSUME NEW d \in Daemons, Complete(d) PROVE TypeOK'
  BY <1>20 DEF Complete, CompleteRecord, Forget, Record, Status, Age,
     NoRecord
<1>21. ASSUME NEW d \in Daemons, Die(d) PROVE TypeOK'
  <2>1. fails' \in 0..MaxFails
    BY <1>21, CountsUp DEF Die
  <2>2. copy' \in [Daemons \cup {Command} -> Record]
    BY <1>21 DEF Die, Forget, NoRecord, Record, Status, Age
  <2>3. pc' = [pc EXCEPT ![d] = "dead"]
    BY <1>21 DEF Die
  <2> QED BY <1>21, <2>1, <2>2, <2>3 DEF Die, Record
<1>22. CASE TimePasses
  BY <1>22 DEF TimePasses, Record, Status, Age
<1>23. CASE UNCHANGED vars
  BY <1>23 DEF vars
<1> QED
  BY <1>1, <1>2, <1>3, <1>4, <1>5, <1>6, <1>7, <1>8, <1>9, <1>10, <1>11,
     <1>12, <1>13, <1>14, <1>15, <1>16, <1>17, <1>18, <1>19, <1>20, <1>21,
     <1>22, <1>23 DEF Next, CommandStep, DaemonStep

(* Only a record that turned stale is written back. *)
LEMMA CopiesStep ==
    ASSUME CoreInv, [Next]_vars
    PROVE  CopiesStale'
<1> USE DaemonConstants DEF files, CoreInv, TypeOK, CopiesStale, Record
<1>1. CASE Start
  BY <1>1 DEF Start
<1>2. CASE ReadStatus
  BY <1>2 DEF ReadStatus, Refreshed, TurnsStale, Aged
<1>3. CASE StatusDone
  BY <1>3 DEF StatusDone, WriteBack, Forget
<1>4. CASE Restart
  BY <1>4 DEF Restart
<1>5. CASE Prepare
  BY <1>5 DEF Prepare
<1>6. ASSUME NEW d \in Daemons, Spawn(d) PROVE CopiesStale'
  BY <1>6 DEF Spawn
<1>7. CASE ParentUnlink
  BY <1>7 DEF ParentUnlink
<1>8. CASE ParentMark
  BY <1>8 DEF ParentMark, MarkRunning, Forget
<1>9. CASE Stop
  BY <1>9 DEF Stop
<1>10. CASE WriteStopFile
  BY <1>10 DEF WriteStopFile
<1>11. CASE WriteStopping
  BY <1>11 DEF WriteStopping
<1>12. CASE Signal
  BY <1>12 DEF Signal, Forget
<1>13. ASSUME NEW d \in Daemons, Boot(d) PROVE CopiesStale'
  BY <1>13 DEF Boot, Refreshed, TurnsStale, Aged
<1>14. ASSUME NEW d \in Daemons, BootRefresh(d) PROVE CopiesStale'
  BY <1>14 DEF BootRefresh, WriteBack
<1>15. ASSUME NEW d \in Daemons, Unlink(d) PROVE CopiesStale'
  BY <1>15 DEF Unlink
<1>16. ASSUME NEW d \in Daemons, Mark(d) PROVE CopiesStale'
  BY <1>16 DEF Mark, MarkRunning
<1>17. ASSUME NEW d \in Daemons, Loop(d) PROVE CopiesStale'
  BY <1>17 DEF Loop
<1>18. ASSUME NEW d \in Daemons, Iterate(d) PROVE CopiesStale'
  BY <1>18 DEF Iterate
<1>19. ASSUME NEW d \in Daemons, IterateFails(d) PROVE CopiesStale'
  BY <1>19 DEF IterateFails
<1>20. ASSUME NEW d \in Daemons, Complete(d) PROVE CopiesStale'
  BY <1>20 DEF Complete, CompleteRecord, Forget
<1>21. ASSUME NEW d \in Daemons, Die(d) PROVE CopiesStale'
  BY <1>21 DEF Die, Forget, Alive
<1>22. CASE TimePasses
  BY <1>22 DEF TimePasses
<1>23. CASE UNCHANGED vars
  BY <1>23 DEF vars
<1> QED
  BY <1>1, <1>2, <1>3, <1>4, <1>5, <1>6, <1>7, <1>8, <1>9, <1>10, <1>11,
     <1>12, <1>13, <1>14, <1>15, <1>16, <1>17, <1>18, <1>19, <1>20, <1>21,
     <1>22, <1>23 DEF Next, CommandStep, DaemonStep

(* Nothing becomes unborn again. *)
LEMMA ChildStep ==
    ASSUME CoreInv, [Next]_vars
    PROVE  ChildStarted'
<1> USE DaemonConstants DEF files, CoreInv, TypeOK, ChildStarted
<1>1. CASE Start
  BY <1>1 DEF Start
<1>2. CASE ReadStatus
  BY <1>2 DEF ReadStatus
<1>3. CASE StatusDone
  BY <1>3 DEF StatusDone, WriteBack, Forget
<1>4. CASE Restart
  BY <1>4 DEF Restart
<1>5. CASE Prepare
  BY <1>5 DEF Prepare
<1>6. ASSUME NEW d \in Daemons, Spawn(d) PROVE ChildStarted'
  BY <1>6 DEF Spawn
<1>7. CASE ParentUnlink
  BY <1>7 DEF ParentUnlink
<1>8. CASE ParentMark
  BY <1>8 DEF ParentMark, MarkRunning, Forget
<1>9. CASE Stop
  BY <1>9 DEF Stop
<1>10. CASE WriteStopFile
  BY <1>10 DEF WriteStopFile
<1>11. CASE WriteStopping
  BY <1>11 DEF WriteStopping
<1>12. CASE Signal
  BY <1>12 DEF Signal, Forget
<1>13. ASSUME NEW d \in Daemons, Boot(d) PROVE ChildStarted'
  BY <1>13 DEF Boot
<1>14. ASSUME NEW d \in Daemons, BootRefresh(d) PROVE ChildStarted'
  BY <1>14 DEF BootRefresh, WriteBack
<1>15. ASSUME NEW d \in Daemons, Unlink(d) PROVE ChildStarted'
  BY <1>15 DEF Unlink
<1>16. ASSUME NEW d \in Daemons, Mark(d) PROVE ChildStarted'
  BY <1>16 DEF Mark, MarkRunning
<1>17. ASSUME NEW d \in Daemons, Loop(d) PROVE ChildStarted'
  BY <1>17 DEF Loop
<1>18. ASSUME NEW d \in Daemons, Iterate(d) PROVE ChildStarted'
  BY <1>18 DEF Iterate
<1>19. ASSUME NEW d \in Daemons, IterateFails(d) PROVE ChildStarted'
  BY <1>19 DEF IterateFails
<1>20. ASSUME NEW d \in Daemons, Complete(d) PROVE ChildStarted'
  BY <1>20 DEF Complete, CompleteRecord, Forget
<1>21. ASSUME NEW d \in Daemons, Die(d) PROVE ChildStarted'
  BY <1>21 DEF Die, Forget
<1>22. CASE TimePasses
  BY <1>22 DEF TimePasses
<1>23. CASE UNCHANGED vars
  BY <1>23 DEF vars
<1> QED
  BY <1>1, <1>2, <1>3, <1>4, <1>5, <1>6, <1>7, <1>8, <1>9, <1>10, <1>11,
     <1>12, <1>13, <1>14, <1>15, <1>16, <1>17, <1>18, <1>19, <1>20, <1>21,
     <1>22, <1>23 DEF Next, CommandStep, DaemonStep

(* Only Spawn brings a daemon to life. *)
LEMMA OneByOneStep ==
    ASSUME CoreInv, OneByOne, [Next]_vars
    PROVE  OneByOne'
<1> USE DaemonConstants DEF files, CoreInv, TypeOK, OneByOne, Alive
<1>1. CASE Start
  BY <1>1 DEF Start
<1>2. CASE ReadStatus
  BY <1>2 DEF ReadStatus
<1>3. CASE StatusDone
  BY <1>3 DEF StatusDone, WriteBack, Forget
<1>4. CASE Restart
  BY <1>4 DEF Restart
<1>5. CASE Prepare
  BY <1>5 DEF Prepare
<1>6. ASSUME NEW d \in Daemons, Spawn(d) PROVE OneByOne'
  BY <1>6 DEF Spawn
<1>7. CASE ParentUnlink
  BY <1>7 DEF ParentUnlink
<1>8. CASE ParentMark
  BY <1>8 DEF ParentMark, MarkRunning, Forget
<1>9. CASE Stop
  BY <1>9 DEF Stop
<1>10. CASE WriteStopFile
  BY <1>10 DEF WriteStopFile
<1>11. CASE WriteStopping
  BY <1>11 DEF WriteStopping
<1>12. CASE Signal
  BY <1>12 DEF Signal, Forget
<1>13. ASSUME NEW d \in Daemons, Boot(d) PROVE OneByOne'
  BY <1>13 DEF Boot
<1>14. ASSUME NEW d \in Daemons, BootRefresh(d) PROVE OneByOne'
  BY <1>14 DEF BootRefresh, WriteBack
<1>15. ASSUME NEW d \in Daemons, Unlink(d) PROVE OneByOne'
  BY <1>15 DEF Unlink
<1>16. ASSUME NEW d \in Daemons, Mark(d) PROVE OneByOne'
  BY <1>16 DEF Mark, MarkRunning
<1>17. ASSUME NEW d \in Daemons, Loop(d) PROVE OneByOne'
  BY <1>17 DEF Loop
<1>18. ASSUME NEW d \in Daemons, Iterate(d) PROVE OneByOne'
  BY <1>18 DEF Iterate
<1>19. ASSUME NEW d \in Daemons, IterateFails(d) PROVE OneByOne'
  BY <1>19 DEF IterateFails
<1>20. ASSUME NEW d \in Daemons, Complete(d) PROVE OneByOne'
  BY <1>20 DEF Complete, CompleteRecord, Forget
<1>21. ASSUME NEW d \in Daemons, Die(d) PROVE OneByOne'
  BY <1>21 DEF Die, Forget
<1>22. CASE TimePasses
  BY <1>22 DEF TimePasses
<1>23. CASE UNCHANGED vars
  BY <1>23 DEF vars
<1> QED
  BY <1>1, <1>2, <1>3, <1>4, <1>5, <1>6, <1>7, <1>8, <1>9, <1>10, <1>11,
     <1>12, <1>13, <1>14, <1>15, <1>16, <1>17, <1>18, <1>19, <1>20, <1>21,
     <1>22, <1>23 DEF Next, CommandStep, DaemonStep

(* Whoever completes was the only one. *)
LEMMA CompletedStep ==
    ASSUME CoreInv, OneByOne, CompletedIsOver, [Next]_vars
    PROVE  CompletedIsOver'
<1> USE DaemonConstants DEF files, CoreInv, TypeOK, CopiesStale, OneByOne,
        CompletedIsOver, Alive, Record
<1>1. CASE Start
  BY <1>1 DEF Start
<1>2. CASE ReadStatus
  BY <1>2 DEF ReadStatus
<1>3. CASE StatusDone
  BY <1>3 DEF StatusDone, WriteBack, Forget
<1>4. CASE Restart
  BY <1>4 DEF Restart, Refreshed, TurnsStale, Aged
<1>5. CASE Prepare
  BY <1>5 DEF Prepare
<1>6. ASSUME NEW d \in Daemons, Spawn(d) PROVE CompletedIsOver'
  BY <1>6 DEF Spawn
<1>7. CASE ParentUnlink
  BY <1>7 DEF ParentUnlink
<1>8. CASE ParentMark
  BY <1>8 DEF ParentMark, MarkRunning, Forget
<1>9. CASE Stop
  BY <1>9 DEF Stop
<1>10. CASE WriteStopFile
  BY <1>10 DEF WriteStopFile
<1>11. CASE WriteStopping
  BY <1>11 DEF WriteStopping
<1>12. CASE Signal
  BY <1>12 DEF Signal, Forget
<1>13. ASSUME NEW d \in Daemons, Boot(d) PROVE CompletedIsOver'
  BY <1>13 DEF Boot
<1>14. ASSUME NEW d \in Daemons, BootRefresh(d) PROVE CompletedIsOver'
  BY <1>14 DEF BootRefresh, WriteBack
<1>15. ASSUME NEW d \in Daemons, Unlink(d) PROVE CompletedIsOver'
  BY <1>15 DEF Unlink
<1>16. ASSUME NEW d \in Daemons, Mark(d) PROVE CompletedIsOver'
  BY <1>16 DEF Mark, MarkRunning
<1>17. ASSUME NEW d \in Daemons, Loop(d) PROVE CompletedIsOver'
  BY <1>17 DEF Loop
<1>18. ASSUME NEW d \in Daemons, Iterate(d) PROVE CompletedIsOver'
  BY <1>18 DEF Iterate
<1>19. ASSUME NEW d \in Daemons, IterateFails(d) PROVE CompletedIsOver'
  BY <1>19 DEF IterateFails
<1>20. ASSUME NEW d \in Daemons, Complete(d) PROVE CompletedIsOver'
  <2>1. pc[d] # "dead" /\ pc[d] # "unborn" /\ pc' = [pc EXCEPT ![d] = "dead"]
        /\ doubled' = doubled
    BY <1>20 DEF Complete
  <2>2. ~doubled => \A c \in Alive : c = d
    BY <2>1 DEF OneByOne, Alive
  <2>3. ~doubled => \A c \in Daemons : pc'[c] \in {"unborn", "dead"}
    BY <2>1, <2>2 DEF Alive
  <2> QED BY <2>1, <2>3
<1>21. ASSUME NEW d \in Daemons, Die(d) PROVE CompletedIsOver'
  BY <1>21 DEF Die, Forget
<1>22. CASE TimePasses
  BY <1>22 DEF TimePasses
<1>23. CASE UNCHANGED vars
  BY <1>23 DEF vars
<1> QED
  BY <1>1, <1>2, <1>3, <1>4, <1>5, <1>6, <1>7, <1>8, <1>9, <1>10, <1>11,
     <1>12, <1>13, <1>14, <1>15, <1>16, <1>17, <1>18, <1>19, <1>20, <1>21,
     <1>22, <1>23 DEF Next, CommandStep, DaemonStep

LEMMA IInvInit == Init => IInv
<1> SUFFICES ASSUME Init PROVE IInv
  OBVIOUS
<1>1. NoRecord \in Record
  BY DEF NoRecord, Record, Status, Age
<1>2. TypeOK
  <2>1. NoRecord.status # "running"
    BY DEF NoRecord
  <2>2. fails \in 0..MaxFails /\ copy \in [Daemons \cup {Command} -> Record]
    BY <1>1, DaemonConstants DEF Init
  <2> QED BY <1>1, <2>1, <2>2 DEF Init, TypeOK
<1>3. CopiesStale /\ ChildStarted /\ OneByOne /\ CompletedIsOver
  BY DaemonConstants
     DEF Init, CopiesStale, ChildStarted, OneByOne, CompletedIsOver, Alive,
         NoRecord
<1> QED BY <1>2, <1>3 DEF IInv, CoreInv

LEMMA IInvAlways == Spec => []IInv
<1>1. IInv /\ [Next]_vars => IInv'
  BY TypeStep, CopiesStep, ChildStep, OneByOneStep, CompletedStep
     DEF IInv, CoreInv
<1> QED BY <1>1, IInvInit, PTL DEF Spec

(* Types; and a record that says running names a process that was started. *)
THEOREM TypeCorrect == Spec => []TypeOK
<1>1. IInv => TypeOK
  BY DEF IInv, CoreInv
<1> QED BY <1>1, IInvAlways, PTL

(* As long as no start was prepared while a daemon ran, a record that says *)
(* stopped or failed means that nothing runs, whatever copies of the       *)
(* record the command and the daemon write back in between.                *)
THEOREM CompletedMeansOver == Spec => []CompletedIsOver
<1>1. IInv => CompletedIsOver
  BY DEF IInv
<1> QED BY <1>1, IInvAlways, PTL

(* And then at most one daemon works on the target. *)
THEOREM OneDaemonAtOnce == Spec => [](~doubled => \A c, d \in Alive : c = d)
<1>1. IInv => (~doubled => \A c, d \in Alive : c = d)
  BY DEF IInv, OneByOne
<1> QED BY <1>1, IInvAlways, PTL
============================================================================
