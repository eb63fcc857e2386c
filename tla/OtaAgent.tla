------------------------------ MODULE OtaAgent ------------------------------
(***************************************************************************)
(* The firmware-update worker of the gateway: gateway/ota_agent.cpp.       *)
(*                                                                         *)
(* One thread pops OTA_TRIGGER commands from ota_queue and runs the whole  *)
(* update for each: manifest, preconditions, download, SHA-256 check,      *)
(* backup, flash, and rollback when the flash fails.  The three files it   *)
(* works on (download, backup, installed) are modelled by the image they   *)
(* hold.  std::filesystem::copy_file opens its target with truncation and  *)
(* writes in place, so a copy is two steps with the target Torn between    *)
(* them; it may fail before touching the target, or after.                 *)
(*                                                                         *)
(* The process may die at any step and be started again: the files survive *)
(* as they were written, the queue does not.  When the power fails as      *)
(* well, what the kernel has not written back is lost: nothing in the code *)
(* asks for it (no fsync), so the active slot may be older than what was   *)
(* copied, or torn, and the two files in /tmp gone or torn.                *)
(***************************************************************************)
EXTENDS Naturals, Sequences, FiniteSets

CONSTANTS
    Images,       \* firmware images
    Factory,      \* the image the vehicle is delivered with
    Triggers,     \* OTA_TRIGGER commands as they are pushed to ota_queue: a command
                  \* that passes the duplicate guard twice is two of them
    ImageOf,      \* the image whose SHA-256 a trigger's manifest names
    BadManifest,  \* "ImageOf" a trigger whose payload is not a manifest
    Torn,         \* content of a file that is no complete image
    None,         \* the file does not exist; also "no command"
    MaxIssued,    \* bound on triggers pushed
    MaxCrashes    \* bound on process deaths and power losses

ASSUME ConstantsAssumption ==
    /\ Factory \in Images
    /\ {Torn, None, BadManifest} \cap Images = {}
    /\ Torn # None
    /\ None \notin Triggers
    /\ ImageOf \in [Triggers -> Images \cup {BadManifest}]
    /\ MaxIssued \in Nat
    /\ MaxCrashes \in Nat

VARIABLES
    pc,         \* where run() stands
    running,    \* running_
    ota_queue,  \* the SafeQueue<Command> filled by CommandHandler
    cmd,        \* the command run() is working on
    download,   \* content of firmware_path_
    backup,     \* content of backup_path_
    installed,  \* content of installed_path_, the active firmware
    durable,    \* what the disk has of installed
    cloud,      \* last OtaStatus the cloud received for each trigger
    issued,     \* triggers pushed so far
    before,     \* history: content of installed when cmd was taken
    crashes     \* process deaths and power losses so far

files == <<download, backup, installed>>
outside == <<durable, issued, before, crashes>>
vars == <<pc, running, ota_queue, cmd, files, cloud, outside>>

Content == Images \cup {Torn, None}

\* OtaState as the cloud sees it; "UNREPORTED" before the first status.
Rank == [s \in {"UNREPORTED", "MANIFEST_RECEIVED", "DOWNLOADING", "VERIFYING",
                "INSTALLING", "COMPLETE", "FAILED", "ROLLED_BACK"} |->
           CASE s = "UNREPORTED"        -> 0
             [] s = "MANIFEST_RECEIVED" -> 1
             [] s = "DOWNLOADING"       -> 2
             [] s = "VERIFYING"         -> 3
             [] s = "INSTALLING"        -> 4
             [] OTHER                   -> 5]

OtaState == DOMAIN Rank

PC == {"loop", "pop", "parse", "received", "precheck", "downloading",
       "open", "transfer", "verifying", "verify", "reject", "remove",
       "backup", "backup_copy", "installing", "flash", "flash_copy",
       "rollback", "rollback_copy", "rolled_back", "complete", "fail",
       "exited", "dead"}

TypeOK ==
    /\ pc \in PC
    /\ running \in BOOLEAN
    /\ ota_queue \in Seq(Triggers)
    /\ cmd \in Triggers \cup {None}
    /\ download \in Content
    /\ backup \in Content
    /\ installed \in Content
    /\ durable \in Content
    /\ cloud \in [Triggers -> OtaState]
    /\ issued \in SUBSET Triggers
    /\ before \in Content
    /\ crashes \in 0..MaxCrashes

\* start() has just spawned the thread.  /opt/sdv/gateway may be missing.
Init ==
    /\ pc = "loop"
    /\ running = TRUE
    /\ ota_queue = <<>>
    /\ cmd = None
    /\ download = None
    /\ backup = None
    /\ installed \in {Factory, None}
    /\ durable = installed
    /\ cloud = [t \in Triggers |-> "UNREPORTED"]
    /\ issued = {}
    /\ before = installed
    /\ crashes = 0

-----------------------------------------------------------------------------
(* Steps of the worker thread *)

Goto(from, to) == pc = from /\ pc' = to

\* A step that changes the program counter only.
Branch(from, to) ==
    /\ Goto(from, to)
    /\ UNCHANGED <<running, ota_queue, cmd, files, cloud, outside>>

\* report_status(): publish()->wait().  The broker has the status, or the
\* publish threw and the exception was logged; run() goes on either way.
Report(from, status, to) ==
    /\ Goto(from, to)
    /\ cloud' \in {cloud, [cloud EXCEPT ![cmd] = status]}
    /\ UNCHANGED <<running, ota_queue, cmd, files, outside>>

CheckRunningNever == Branch("loop", "pop")      \* mutation

CheckRunning == Branch("loop", IF running THEN "pop" ELSE "exited")

PopTimeout == ota_queue = <<>> /\ Branch("pop", "loop")

PopTrigger ==
    /\ Goto("pop", "parse")
    /\ ota_queue # <<>>
    /\ cmd' = Head(ota_queue)
    /\ ota_queue' = Tail(ota_queue)
    /\ before' = installed
    /\ UNCHANGED <<running, files, cloud, durable, issued, crashes>>

ParseManifest ==
    Branch("parse", IF ImageOf[cmd] = BadManifest THEN "fail" ELSE "received")

ReportReceived == Report("received", "MANIFEST_RECEIVED", "precheck")

\* Only free disk space is looked at: battery and speed are not.
CheckPreconditions == Branch("precheck", "downloading") \/ Branch("precheck", "fail")

ReportDownloading == Report("downloading", "DOWNLOADING", "open")

\* fopen(firmware_path_, "wb") truncates; without a curl handle or a file
\* nothing is touched.
OpenDownload ==
    \/ Branch("open", "fail")
    \/ /\ Goto("open", "transfer")
       /\ download' = Torn
       /\ UNCHANGED <<running, ota_queue, cmd, backup, installed, cloud, outside>>

\* curl_easy_perform(): the server may send any image, or part of one, and
\* the transfer may end in an error with whatever was written left behind.
Transfer ==
    /\ Goto("transfer", "verifying") \/ Goto("transfer", "fail")
    /\ download' \in Images \cup {Torn}
    /\ UNCHANGED <<running, ota_queue, cmd, backup, installed, cloud, outside>>

ReportVerifying == Report("verifying", "VERIFYING", "verify")

Sha256NotCompared(file) == file \in Images      \* mutation

Sha256Matches(file) == file = ImageOf[cmd]

VerifySha256 == Branch("verify", IF Sha256Matches(download) THEN "backup" ELSE "reject")

\* A rejected download is reported first and deleted afterwards.
ReportRejected == Report("reject", "FAILED", "remove")

RemoveDownload(to) ==
    /\ Goto("remove", to)
    /\ download' = None
    /\ UNCHANGED <<running, ota_queue, cmd, backup, installed, cloud, outside>>

RemoveWithoutContinue == RemoveDownload("backup")      \* mutation

RemoveRejected == RemoveDownload("loop")

CopyFails(from, to) == Branch(from, to)

\* copy_file() that has opened its source: truncates the target.
BeginBackup ==
    \/ CopyFails("backup", "fail")
    \/ /\ Goto("backup", "backup_copy")
       /\ installed # None
       /\ backup' = Torn
       /\ UNCHANGED <<running, ota_queue, cmd, download, installed, cloud, outside>>

BackupWritten ==
    /\ Goto("backup_copy", "installing")
    /\ backup' = installed
    /\ UNCHANGED <<running, ota_queue, cmd, download, installed, cloud, outside>>

EndBackupResultIgnored == BackupWritten \/ CopyFails("backup_copy", "installing")      \* mutation

\* A failed backup aborts the update.
EndBackup == BackupWritten \/ CopyFails("backup_copy", "fail")

ReportInstalling == Report("installing", "INSTALLING", "flash")

BeginFlash ==
    \/ CopyFails("flash", "rollback")
    \/ /\ Goto("flash", "flash_copy")
       /\ download # None
       /\ installed' = Torn
       /\ UNCHANGED <<running, ota_queue, cmd, download, backup, cloud, outside>>

FlashWritten ==
    /\ Goto("flash_copy", "complete")
    /\ installed' = download
    /\ UNCHANGED <<running, ota_queue, cmd, download, backup, cloud, outside>>

EndFlashErrorIgnored == FlashWritten \/ CopyFails("flash_copy", "complete")      \* mutation

\* When the copy throws, flash_firmware() calls rollback() and answers false.
EndFlash == FlashWritten \/ CopyFails("flash_copy", "rollback")

\* rollback() returns false when the copy fails, and nobody looks at it.
BeginRollback ==
    \/ CopyFails("rollback", "rolled_back")
    \/ /\ Goto("rollback", "rollback_copy")
       /\ backup # None
       /\ installed' = Torn
       /\ UNCHANGED <<running, ota_queue, cmd, download, backup, cloud, outside>>

EndRollback ==
    \/ CopyFails("rollback_copy", "rolled_back")
    \/ /\ Goto("rollback_copy", "rolled_back")
       /\ installed' = backup
       /\ UNCHANGED <<running, ota_queue, cmd, download, backup, cloud, outside>>

ReportRollbackAsFailed == Report("rolled_back", "FAILED", "loop")      \* mutation

ReportRolledBack == Report("rolled_back", "ROLLED_BACK", "loop")

ReportComplete == Report("complete", "COMPLETE", "loop")

ReportFailedUnnamed == Report("fail", "UNKNOWN", "loop")      \* mutation

ReportFailedAndReturn == Report("fail", "FAILED", "exited")      \* mutation

\* The four "report FAILED; continue" exits that leave the files alone.
ReportFailed == Report("fail", "FAILED", "loop")

Job ==
    \/ ParseManifest \/ ReportReceived \/ CheckPreconditions
    \/ ReportDownloading \/ OpenDownload \/ Transfer
    \/ ReportVerifying \/ VerifySha256 \/ ReportRejected \/ RemoveRejected
    \/ BeginBackup \/ EndBackup
    \/ ReportInstalling \/ BeginFlash \/ EndFlash
    \/ BeginRollback \/ EndRollback \/ ReportRolledBack
    \/ ReportComplete \/ ReportFailed

Worker == CheckRunning \/ PopTimeout \/ PopTrigger \/ Job

-----------------------------------------------------------------------------
(* The rest of the process and the world *)

Alive == pc # "dead"

\* CommandHandler::route() on an OTA_TRIGGER that passed the duplicate guard.
Enqueue(t) ==
    /\ Alive
    /\ t \notin issued
    /\ Cardinality(issued) < MaxIssued
    /\ issued' = issued \cup {t}
    /\ ota_queue' = Append(ota_queue, t)
    /\ UNCHANGED <<pc, running, cmd, files, cloud, durable, before, crashes>>

\* stop(): the flag; the join is waiting for "exited".
Stop ==
    /\ Alive
    /\ running
    /\ running' = FALSE
    /\ UNCHANGED <<pc, ota_queue, cmd, files, cloud, outside>>

Dies ==
    /\ crashes < MaxCrashes
    /\ crashes' = crashes + 1
    /\ pc' = "dead"
    /\ ota_queue' = <<>>
    /\ cmd' = None
    /\ UNCHANGED <<running, cloud, issued, before>>

\* The process alone: killed, or std::terminate because space() or remove() threw in
\* run(), which catches nothing of theirs, or any other thread's exception.
Crash ==
    /\ Alive
    /\ pc # "exited"
    /\ Dies
    /\ UNCHANGED <<files, durable>>

\* The kernel writes the active slot back, at a time of its own.
Sync ==
    /\ durable' = installed
    /\ UNCHANGED <<pc, running, ota_queue, cmd, files, cloud, issued, before, crashes>>

\* A file of which the disk has something else is found old, new, or part of each.
FoundAfter(content, onDisk) ==
    IF content = onDisk THEN {content} ELSE {content, onDisk, Torn}

\* The power fails, whether or not the process was running.
PowerLoss ==
    /\ Dies
    /\ installed' \in FoundAfter(installed, durable)
    /\ durable' = installed'
    /\ download' \in FoundAfter(download, None)
    /\ backup' \in FoundAfter(backup, None)

\* start() of the next process.
Restart ==
    /\ Goto("dead", "loop")
    /\ running' = TRUE
    /\ UNCHANGED <<ota_queue, cmd, files, cloud, outside>>

Next ==
    \/ Worker
    \/ \E t \in Triggers : Enqueue(t)
    \/ Stop
    \/ Crash \/ Restart
    \/ Sync \/ PowerLoss

Spec == Init /\ [][Next]_vars

\* run() waits for the broker to answer a publish, which has no timeout.
AwaitsBroker ==
    pc \in {"received", "downloading", "verifying", "reject", "installing", "rolled_back",
           "complete", "fail"}

\* The thread is scheduled, and a transfer ends within CURLOPT_TIMEOUT.  Nothing is
\* assumed of the broker.
FairSpec == Spec /\ WF_vars(~AwaitsBroker /\ Worker)

-----------------------------------------------------------------------------
(* Safety *)

\* Images the cloud has asked this vehicle to run.
Requested == {ImageOf[t] : t \in issued} \ {BadManifest}

\* The active slot only ever holds the factory image or an image named by the
\* hash of some manifest, whatever the server sends (or a torn copy, while a
\* flash is under way or after one failed): verify_sha256() stands between
\* every download and every flash, and nothing rewrites the download after it.
OnlyRequestedInstalled == installed \in {Factory, None, Torn} \cup Requested

\* While the active slot is being overwritten the backup holds what was there
\* when the command was taken: backup_current() "MUST succeed before we touch
\* installed_path_".
BackupHoldsPrevious ==
    pc \in {"flash_copy", "rollback", "rollback_copy"} => backup = before

\* The cloud learns COMPLETE only when the active slot holds the image the
\* trigger asked for.
CompleteMeansInstalled ==
    [][\A t \in Triggers :
          cloud'[t] = "COMPLETE" /\ cloud[t] # "COMPLETE" => installed' = ImageOf[t]]_vars

\* A trigger the cloud sees FAILED left the active slot as the trigger found it.
FailedMeansUntouched ==
    [][\A t \in Triggers :
          cloud'[t] = "FAILED" /\ cloud[t] # "FAILED" => installed' = before]_vars

\* The cloud sees the states of a trigger in the order of the update, some
\* perhaps missing, and nothing after COMPLETE, FAILED or ROLLED_BACK.
StatusForwardOnly ==
    [][\A t \in Triggers :
          cloud'[t] # cloud[t] => Rank[cloud[t]] < Rank[cloud'[t]]]_vars

-----------------------------------------------------------------------------
(* Refinement *)

\* What the update is at, seen from outside.
Phase ==
    CASE pc \in {"loop", "pop", "remove", "exited"} -> "idle"
      [] pc \in {"flash_copy", "rollback", "rollback_copy", "rolled_back"} -> "writing"
      [] pc = "complete" -> "written"
      [] pc = "dead" -> "off"
      [] OTHER -> "preparing"

Abstract == INSTANCE Updater WITH
    waiting <- ota_queue, job <- cmd, phase <- Phase, slot <- installed,
    settled <- durable, found <- before, told <- cloud

\* The worker with its files is the updater the cloud is promised: each step of it is one
\* of the updater's, or changes nothing that can be seen from outside.
Implements == Abstract!Spec

-----------------------------------------------------------------------------
(* What the documents say and the code does not do *)

\* ROLLED_BACK is reported as "Flash failed — rolled back to previous
\* firmware": the active slot is what it was.
RolledBackMeansRestored ==
    [][\A t \in Triggers :
          cloud'[t] = "ROLLED_BACK" /\ cloud[t] # "ROLLED_BACK" => installed' = before]_vars

\* A/B update is "power-fail safe": a dead process leaves an active slot that
\* holds a whole image, if it held one before.
PowerFailSafe == pc = "dead" /\ before \in Images => installed \in Images

-----------------------------------------------------------------------------
(* Liveness *)

Queued(t) == \E i \in DOMAIN ota_queue : ota_queue[i] = t

\* The broker never answers one of the publishes.
BrokerSilent == <>[]AwaitsBroker

\* Every queued trigger is taken, unless the agent is stopped or dies first, or one
\* publish is never answered: every exit of run()'s long body comes back to pop_for().
EveryTriggerTaken ==
    BrokerSilent \/ \A t \in Triggers : Queued(t) ~> (cmd = t \/ ~running \/ ~Alive)

\* Only a publish that is never answered keeps stop() from returning: the join ends, at the
\* latest after the update under way, whatever the server sends and whichever copy fails.
\* (With a silent broker stop() does hang: report_status() waits without a timeout.)
OnlyBrokerHoldsUpStop ==
    BrokerSilent \/ (~running ~> (pc \in {"exited", "dead"} \/ running))
=============================================================================
