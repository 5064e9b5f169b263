------------------------------- MODULE Backup -------------------------------
(***************************************************************************)
(* The backup directory: backups asked for by an administrator, backups of *)
(* the scheduler followed by the clean-up of old ones, and deletions.  A   *)
(* backup is named after the second it began in; VACUUM INTO writes it     *)
(* through the only connection to the database, so two never write at the  *)
(* same time.                                                              *)
(***************************************************************************)
EXTENDS Naturals

CONSTANTS
    Operator, Scheduler,  \* who makes backups
    Seconds,              \* the clock runs through 0 .. Seconds
    Keep                  \* age a backup may have, in seconds; 0: any

ASSUME BackupAssumption ==
    Operator # Scheduler /\ Seconds \in Nat /\ Keep \in Nat

Makers == {Operator, Scheduler}
Names == 0 .. Seconds

VARIABLES
    now,
    backupFile, \* what is at each name
    written,    \* ModTime: when its last byte was written
    maker,      \* each run: where it is and the name it chose
    reported,   \* history: names of backups that were reported as made
    removed,    \* history: names an administrator deleted
    contested   \* history: names two runs chose at the same time

backupVars == <<now, backupFile, written, maker, reported, removed, contested>>

Run == [pc : {"idle", "chosen", "vacuum", "clean"}, name : Names]
NoRun == [pc |-> "idle", name |-> 0]

BackupInit ==
    /\ now = 0
    /\ backupFile = [s \in Names |-> "none"] /\ written = [s \in Names |-> 0]
    /\ maker = [m \in Makers |-> NoRun]
    /\ reported = {} /\ removed = {} /\ contested = {}

(* A retention, in days, outlasts the moment between a backup and the      *)
(* clean-up that follows it.                                               *)
Tick ==
    /\ now < Seconds
    /\ Keep > 0 => maker[Scheduler].pc # "clean" \/ now < written[maker[Scheduler].name] + Keep
    /\ now' = now + 1
    /\ UNCHANGED <<backupFile, written, maker, reported, removed, contested>>

-----------------------------------------------------------------------------
(* runBackup.                                                              *)

(* Mutant of NameIsFree: the file is not looked for.                       *)
NameIsFree_Always == TRUE

(* os.Stat: refused when a file of this second is there already.           *)
NameIsFree == backupFile[now] = "none"

Choose(m) ==
    /\ maker[m].pc = "idle" /\ NameIsFree
    /\ maker' = [maker EXCEPT ![m] = [pc |-> "chosen", name |-> now]]
    /\ contested' = IF \E o \in Makers : /\ maker[o].pc \in {"chosen", "vacuum"}
                                       /\ maker[o].name = now
                    THEN contested \cup {now} ELSE contested
    /\ UNCHANGED <<now, backupFile, written, reported, removed>>

ConnectionIsFree == \A m \in Makers : maker[m].pc # "vacuum"

(* VACUUM INTO begins to write, unless there is a file.                    *)
Vacuum(m) ==
    LET name == maker[m].name
    IN /\ maker[m].pc = "chosen" /\ ConnectionIsFree /\ backupFile[name] = "none"
       /\ backupFile' = [backupFile EXCEPT ![name] = "part"]
       /\ written' = [written EXCEPT ![name] = now]
       /\ maker' = [maker EXCEPT ![m].pc = "vacuum"]
       /\ UNCHANGED <<now, reported, removed, contested>>

(* RunOnce: the scheduler goes on to the clean-up.                         *)
AfterSuccess(m) == IF m = Scheduler THEN "clean" ELSE "idle"

(* Mutant of AfterFailure: RunOnce goes on all the same.                   *)
AfterFailure_CleansUp(m) == IF m = Scheduler THEN "clean" ELSE "idle"

AfterFailure(m) == "idle"

(* Not made, when an administrator deleted the file meanwhile.             *)
Finish(m) ==
    LET name == maker[m].name
        made == backupFile[name] = "part"
    IN /\ maker[m].pc = "vacuum"
       /\ backupFile' = [backupFile EXCEPT ![name] = IF made THEN "whole" ELSE @]
       /\ written' = [written EXCEPT ![name] = now]
       /\ maker' = [maker EXCEPT ![m].pc = IF made THEN AfterSuccess(m)
                                           ELSE AfterFailure(m)]
       /\ reported' = IF made THEN reported \cup {name} ELSE reported
       /\ UNCHANGED <<now, removed, contested>>

(* An error of VACUUM INTO: the file was there, or could not be written to *)
(* its end.  Whatever has the name is deleted.                             *)
Fail(m) ==
    LET name == maker[m].name
    IN /\ \/ maker[m].pc = "chosen" /\ ConnectionIsFree /\ backupFile[name] # "none"
          \/ maker[m].pc = "vacuum"
       /\ backupFile' = [backupFile EXCEPT ![name] = "none"]
       /\ maker' = [maker EXCEPT ![m].pc = AfterFailure(m)]
       /\ UNCHANGED <<now, written, reported, removed, contested>>

-----------------------------------------------------------------------------
(* CleanupRetention: every file of the list whose ModTime is before now -  *)
(* Keep.                                                                   *)
Expired(s) == Keep > 0 /\ written[s] + Keep < now

Clean ==
    /\ maker[Scheduler].pc = "clean"
    /\ backupFile' = [s \in Names |-> IF Expired(s) THEN "none" ELSE backupFile[s]]
    /\ maker' = [maker EXCEPT ![Scheduler].pc = "idle"]
    /\ UNCHANGED <<now, written, reported, removed, contested>>

DeleteBackup(s) ==
    /\ backupFile[s] # "none"
    /\ backupFile' = [backupFile EXCEPT ![s] = "none"]
    /\ removed' = removed \cup {s}
    /\ UNCHANGED <<now, written, maker, reported, contested>>

(* The panel stops: a file being written is left as it is.                 *)
BackupRestart ==
    /\ maker' = [m \in Makers |-> NoRun]
    /\ UNCHANGED <<now, backupFile, written, reported, removed, contested>>

BackupNext ==
    \/ Tick
    \/ \E m \in Makers : Choose(m) \/ Vacuum(m) \/ Finish(m) \/ Fail(m)
    \/ Clean
    \/ \E s \in Names : DeleteBackup(s)
    \/ BackupRestart

BackupSpec == BackupInit /\ [][BackupNext]_backupVars

-----------------------------------------------------------------------------
(* Properties.                                                             *)

(* Every variable keeps to its domain.                                     *)
BackupTypeOK ==
    /\ now \in Names /\ backupFile \in [Names -> {"none", "part", "whole"}]
    /\ written \in [Names -> Names] /\ maker \in [Makers -> Run]
    /\ reported \subseteq Names /\ removed \subseteq Names /\ contested \subseteq Names

(* backup.go:93-104, 196-206: a backup that was reported stays whole for   *)
(* as long as the retention says, unless an administrator deletes it or    *)
(* two runs chose its name in the same second.                             *)
ReportedBackupsStay ==
    \A s \in reported \ (removed \cup contested) :
        Expired(s) \/ backupFile[s] = "whole"

(* backup.go:213-220: once a backup was reported there is always one: the  *)
(* clean-up follows a success only, never a run that failed.               *)
RetentionLeavesOne ==
    reported # {} /\ removed \cup contested = {} =>
        \E s \in Names : backupFile[s] = "whole"
=============================================================================
