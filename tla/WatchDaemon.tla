---------------------------- MODULE WatchDaemon ----------------------------
(***************************************************************************)
(* The watch daemon of one target: osix watch start, restart, status and   *)
(* stop (cmd/osix/main.go), the daemon's own process and the files they    *)
(* share under .osix/watch: the daemon record, the heartbeat that          *)
(* osix.Watch writes and the stop file (internal/osix/watch_daemon.go).    *)
(* One command runs at a time; the daemons run beside it.                  *)
(*                                                                         *)
(* Time is whether an UpdatedAt is older than the stale threshold.  An     *)
(* iteration of a daemon is shorter than the threshold, which is at least  *)
(* three intervals and 30 seconds.  os.Interrupt ends a Go process at      *)
(* once, unless it was started with the signal ignored.                    *)
(***************************************************************************)
EXTENDS Integers, FiniteSets

CONSTANTS
    Daemons,        \* processes; each is started at most once
    NoPid,
    MaxFails        \* bound on iterations that fail and daemons that die

(* The osix command that runs, beside the daemons. *)
Command == "command"

ASSUME DaemonConstants ==
    NoPid \notin Daemons /\ Command \notin Daemons /\ MaxFails \in Nat

VARIABLES
    record,     \* the daemon record: status, PID and age of UpdatedAt
    beat,       \* the watch state: "none", or the age of its UpdatedAt
    stopFile,
    cli,        \* where the command is that runs
    copy,       \* the record a process has in memory
    pc,         \* where each daemon is
    child,      \* the process the command has started
    asked,      \* history: the running daemon that the last stop found
    doubled,    \* history: a start was prepared while a daemon ran
    fails

files == <<record, beat, stopFile>>
vars == <<files, cli, copy, pc, child, asked, doubled, fails>>

Age == {"fresh", "old"}
Status == {"none", "starting", "running", "stale", "stopping", "stopped", "failed"}
Record == [status : Status, pid : Daemons \cup {NoPid}, age : Age]
NoRecord == [status |-> "none", pid |-> NoPid, age |-> "old"]
Working == {"loop", "iterate"}
Alive == {d \in Daemons : pc[d] \notin {"unborn", "dead"}}

(* Types; and nothing claims to run that has not been started. *)
TypeOK ==
    /\ record \in Record
    /\ record.status = "running" => record.pid # NoPid /\ pc[record.pid] # "unborn"
    /\ beat \in Age \cup {"none"}
    /\ stopFile \in BOOLEAN
    /\ cli \in {"idle", "prepare", "spawn", "unlink", "mark", "refresh",
                "stop file", "stop record", "signal"}
    /\ copy \in [Daemons \cup {Command} -> Record]
    /\ pc \in [Daemons -> {"unborn", "boot", "refresh", "unlink", "mark", "loop",
                           "iterate", "stopped", "failed", "dead"}]
    /\ child \in Daemons \cup {NoPid} /\ asked \in Daemons \cup {NoPid}
    /\ doubled \in BOOLEAN /\ fails \in 0..MaxFails

Init ==
    /\ record = NoRecord /\ beat = "none" /\ stopFile = FALSE
    /\ cli = "idle" /\ copy = [a \in Daemons \cup {Command} |-> NoRecord]
    /\ pc = [d \in Daemons |-> "unborn"]
    /\ child = NoPid /\ asked = NoPid /\ doubled = FALSE
    /\ fails = 0

-----------------------------------------------------------------------------
(* The memory of a process that has ended is of no account. *)
Forget(gone) == copy' = [a \in DOMAIN copy |-> IF a \in gone THEN NoRecord ELSE copy[a]]

(* refreshWatchDaemonRecord: UpdatedAt becomes that of the watch state. *)
Aged(r) == IF beat = "none" THEN r ELSE [r EXCEPT !.age = beat]

TurnsStale(r) == r.status = "running" /\ Aged(r).age = "old"

Refreshed(r) == IF TurnsStale(r) THEN [Aged(r) EXCEPT !.status = "stale"] ELSE Aged(r)

(* Mutant of WriteBack: the status is only printed. *)
WriteNothing(a) == record' = record

(* A record that turned stale is written back. *)
WriteBack(a) == record' = copy[a]

(* MarkWatchDaemonRunning: the stop file is removed, then the record of    *)
(* the caller written.                                                     *)
MarkRunning(a, d) ==
    record' = [copy[a] EXCEPT !.status = "running", !.pid = d, !.age = "fresh"]

-----------------------------------------------------------------------------
(* Bound: a process is left to be started. *)
CanStart == \E d \in Daemons : pc[d] = "unborn"

(* osix watch start asks nothing. *)
Start ==
    /\ cli = "idle" /\ CanStart
    /\ cli' = "prepare"
    /\ asked' = NoPid
    /\ UNCHANGED <<files, copy, pc, child, doubled, fails>>

(* osix watch status and list.  They change something only when the record *)
(* turns stale.                                                            *)
ReadStatus ==
    /\ cli = "idle"
    /\ TurnsStale(record)
    /\ copy' = [copy EXCEPT ![Command] = Refreshed(record)]
    /\ cli' = "refresh"
    /\ UNCHANGED <<files, pc, child, asked, doubled, fails>>

StatusDone ==
    /\ cli = "refresh"
    /\ WriteBack(Command)
    /\ cli' = "idle"
    /\ Forget({Command})
    /\ UNCHANGED <<beat, stopFile, pc, child, asked, doubled, fails>>

(* PrepareWatchDaemonRestart refuses a record that is running. *)
Refuses(r) == r.status = "running"

Restart ==
    /\ cli = "idle" /\ CanStart
    /\ record.status # "none"
    /\ record' = IF TurnsStale(record) THEN Refreshed(record) ELSE record
    /\ IF Refuses(Refreshed(record))
       THEN cli' = "idle" /\ UNCHANGED asked
       ELSE cli' = "prepare" /\ asked' = NoPid
    /\ UNCHANGED <<beat, stopFile, copy, pc, child, doubled, fails>>

(* Mutant of Prepare: the record is made and not written. *)
PrepareUnwritten ==
    /\ cli = "prepare"
    /\ copy' = [copy EXCEPT ![Command] = [status |-> "starting", pid |-> NoPid, age |-> "fresh"]]
    /\ doubled' = (doubled \/ Alive # {})
    /\ cli' = "spawn"
    /\ UNCHANGED <<files, pc, child, asked, fails>>

(* PrepareWatchDaemon leaves the watch state and the stop file as they are. *)
Prepare ==
    /\ cli = "prepare"
    /\ record' = [status |-> "starting", pid |-> NoPid, age |-> "fresh"]
    /\ copy' = [copy EXCEPT ![Command] = record']
    /\ doubled' = (doubled \/ Alive # {})
    /\ cli' = "spawn"
    /\ UNCHANGED <<beat, stopFile, pc, child, asked, fails>>

Spawn(d) ==
    /\ cli = "spawn"
    /\ pc[d] = "unborn"
    /\ pc' = [pc EXCEPT ![d] = "boot"]
    /\ child' = d
    /\ cli' = "unlink"
    /\ UNCHANGED <<files, copy, asked, doubled, fails>>

ParentUnlink ==
    /\ cli = "unlink"
    /\ stopFile' = FALSE
    /\ cli' = "mark"
    /\ UNCHANGED <<record, beat, copy, pc, child, asked, doubled, fails>>

ParentMark ==
    /\ cli = "mark"
    /\ MarkRunning(Command, child)
    /\ cli' = "idle"
    /\ child' = NoPid
    /\ Forget({Command})
    /\ UNCHANGED <<beat, stopFile, pc, asked, doubled, fails>>

(* osix watch stop: the record is read, the stop file written, the record  *)
(* written, the process interrupted.                                       *)
Stop ==
    /\ cli = "idle"
    /\ record.status # "none"
    /\ copy' = [copy EXCEPT ![Command] = record]
    /\ asked' = IF record.pid # NoPid /\ pc[record.pid] \in Working /\ ~doubled
                THEN record.pid ELSE NoPid
    /\ cli' = "stop file"
    /\ UNCHANGED <<files, pc, child, doubled, fails>>

(* Mutant of WriteStopFile: only the signal stops a daemon. *)
WriteNoStopFile ==
    /\ cli = "stop file"
    /\ cli' = "stop record"
    /\ UNCHANGED <<files, copy, pc, child, asked, doubled, fails>>

WriteStopFile ==
    /\ cli = "stop file"
    /\ stopFile' = TRUE
    /\ cli' = "stop record"
    /\ UNCHANGED <<record, beat, copy, pc, child, asked, doubled, fails>>

WriteStopping ==
    /\ cli = "stop record"
    /\ record' = [copy[Command] EXCEPT !.status = "stopping", !.age = "fresh"]
    /\ cli' = "signal"
    /\ UNCHANGED <<beat, stopFile, copy, pc, child, asked, doubled, fails>>

(* The daemon that ignores the signal looks at the stop file. *)
Signal ==
    /\ cli = "signal"
    /\ cli' = "idle"
    /\ \/ /\ UNCHANGED pc
          /\ Forget({Command})
       \/ /\ copy[Command].pid \in Alive
          /\ pc' = [pc EXCEPT ![copy[Command].pid] = "dead"]
          /\ Forget({Command, copy[Command].pid})
    /\ UNCHANGED <<files, child, asked, doubled, fails>>

-----------------------------------------------------------------------------
(* runWatchDaemon: the record is read and refreshed, marked running, and   *)
(* kept until the daemon completes.                                        *)
Boot(d) ==
    /\ pc[d] = "boot"
    /\ copy' = [copy EXCEPT ![d] = Refreshed(record)]
    /\ pc' = [pc EXCEPT ![d] = IF TurnsStale(record) THEN "refresh" ELSE "unlink"]
    /\ UNCHANGED <<files, cli, child, asked, doubled, fails>>

BootRefresh(d) ==
    /\ pc[d] = "refresh"
    /\ WriteBack(d)
    /\ pc' = [pc EXCEPT ![d] = "unlink"]
    /\ UNCHANGED <<beat, stopFile, cli, copy, child, asked, doubled, fails>>

Unlink(d) ==
    /\ pc[d] = "unlink"
    /\ stopFile' = FALSE
    /\ pc' = [pc EXCEPT ![d] = "mark"]
    /\ UNCHANGED <<record, beat, cli, copy, child, asked, doubled, fails>>

Mark(d) ==
    /\ pc[d] = "mark"
    /\ MarkRunning(d, d)
    /\ pc' = [pc EXCEPT ![d] = "loop"]
    /\ UNCHANGED <<beat, stopFile, cli, copy, child, asked, doubled, fails>>

(* osix.Watch with UntilStopped: the stop file, an iteration, the state. *)
Loop(d) ==
    /\ pc[d] = "loop"
    /\ pc' = [pc EXCEPT ![d] = IF stopFile THEN "stopped" ELSE "iterate"]
    /\ UNCHANGED <<files, cli, copy, child, asked, doubled, fails>>

Iterate(d) ==
    /\ pc[d] = "iterate"
    /\ beat' = "fresh"
    /\ pc' = [pc EXCEPT ![d] = "loop"]
    /\ UNCHANGED <<record, stopFile, cli, copy, child, asked, doubled, fails>>

(* The turn boundary, the snapshot or the push fails, which ends Watch. *)
IterateFails(d) ==
    /\ pc[d] = "iterate"
    /\ fails < MaxFails
    /\ fails' = fails + 1
    /\ beat' = "fresh"
    /\ pc' = [pc EXCEPT ![d] = "failed"]
    /\ UNCHANGED <<record, stopFile, cli, copy, child, asked, doubled>>

(* CompleteWatchDaemon writes the record that was read at the start. *)
CompleteRecord(d) == [copy[d] EXCEPT !.status = pc[d], !.age = "fresh"]

Complete(d) ==
    /\ pc[d] \in {"stopped", "failed"}
    /\ record' = CompleteRecord(d)
    /\ pc' = [pc EXCEPT ![d] = "dead"]
    /\ Forget({d})
    /\ UNCHANGED <<beat, stopFile, cli, child, asked, doubled, fails>>

Die(d) ==
    /\ d \in Alive
    /\ fails < MaxFails
    /\ fails' = fails + 1
    /\ pc' = [pc EXCEPT ![d] = "dead"]
    /\ Forget({d})
    /\ UNCHANGED <<files, cli, child, asked, doubled>>

(* More time than the threshold passes, when nobody writes a heartbeat. *)
TimePasses ==
    /\ cli = "idle" /\ Alive = {}
    /\ beat' = IF beat = "none" THEN "none" ELSE "old"
    /\ record' = [record EXCEPT !.age = "old"]
    /\ UNCHANGED <<stopFile, cli, copy, pc, child, asked, doubled, fails>>

-----------------------------------------------------------------------------
DaemonStep(d) ==
    \/ Boot(d) \/ BootRefresh(d) \/ Unlink(d) \/ Mark(d)
    \/ Loop(d) \/ Iterate(d) \/ Complete(d)

CommandStep ==
    \/ StatusDone \/ Prepare \/ ParentUnlink \/ ParentMark
    \/ WriteStopFile \/ WriteStopping \/ Signal
    \/ \E d \in Daemons : Spawn(d)

Next ==
    \/ Start \/ ReadStatus \/ Restart \/ Stop \/ CommandStep
    \/ \E d \in Daemons : DaemonStep(d) \/ IterateFails(d) \/ Die(d)
    \/ TimePasses

Spec == Init /\ [][Next]_vars

(* Processes run, time passes and somebody looks at the status. *)
Fairness ==
    /\ WF_vars(CommandStep)
    /\ \A d \in Daemons : WF_vars(DaemonStep(d))
    /\ SF_vars(TimePasses) /\ SF_vars(ReadStatus)

FairSpec == Spec /\ Fairness

-----------------------------------------------------------------------------
(* A daemon that works when osix watch stop finds it ends, with the signal *)
(* or without it, unless another start removes the stop file first.        *)
StopEnds ==
    \A d \in Daemons : asked = d ~> (pc[d] = "dead" \/ asked # d)

(* A daemon that dies or ends is not reported as running for ever, not     *)
(* even when the parent marks it after it has ended.                       *)
DeathShown ==
    (record.status = "running" /\ Alive = {})
        ~> (record.status # "running" \/ Alive # {})

(* While daemons run one after the other, a record that says stopped or    *)
(* failed means that nothing runs: neither the parent nor an old copy of   *)
(* the record in the daemon's memory brings back an earlier status.        *)
CompletedIsOver ==
    ~doubled /\ record.status \in {"stopped", "failed"} => Alive = {}
=============================================================================
