--------------------------- MODULE OtaAgentProofs ---------------------------
(***************************************************************************)
(* Theorems about OtaAgent, for any number of triggers and images, any     *)
(* number of process deaths, and any behaviour of the firmware server.     *)
(*                                                                         *)
(* The safety properties are not inductive: that the active slot holds a   *)
(* requested image depends on the download having been verified four       *)
(* program points earlier and on nobody having written it since; that a    *)
(* rollback restores the right image depends on what the backup step left  *)
(* behind.  IInv says, per program point, what run() relies on.            *)
(***************************************************************************)
EXTENDS OtaAgent, TLAPS

(* Program points, by what run() has established when it stands there *)

Idle == {"loop", "pop", "exited", "dead"}

\* The manifest has been parsed and names an image.
ManifestParsed == PC \ (Idle \cup {"parse", "fail"})

\* The download has been compared with the manifest's hash.
DownloadVerified == {"backup", "backup_copy", "installing", "flash", "flash_copy"}

\* The active slot has not been written for this command.
SlotUntouched ==
    PC \ (Idle \cup {"flash_copy", "rollback", "rollback_copy", "rolled_back", "complete"})

\* The previous firmware has been copied to the backup.
BackupTaken == {"installing", "flash", "flash_copy", "rollback", "rollback_copy"}

\* The active slot is being written, or was not written to the end.
Overwriting == {"flash_copy", "rollback", "rollback_copy", "rolled_back"}

Known == {Factory, None, Torn} \cup Requested

IInv ==
    /\ TypeOK
    /\ \A i \in DOMAIN ota_queue : ota_queue[i] \in issued
    /\ pc \notin Idle => cmd \in issued
    /\ pc \in ManifestParsed => ImageOf[cmd] \in Images
    /\ pc \in DownloadVerified => download = ImageOf[cmd]
    /\ pc \in SlotUntouched => installed = before
    /\ pc \in BackupTaken => backup = before
    /\ pc \in Overwriting => installed \in {before, Torn}
    /\ pc = "complete" => installed = ImageOf[cmd]
    /\ installed \in Known
    /\ backup \in Known
    /\ durable \in Known

-----------------------------------------------------------------------------
(* Type correctness *)

\* DOMAIN Rank, spelled out.
LEMMA OtaStates ==
    OtaState = {"UNREPORTED", "MANIFEST_RECEIVED", "DOWNLOADING", "VERIFYING",
                "INSTALLING", "COMPLETE", "FAILED", "ROLLED_BACK"}
BY DEF OtaState, Rank

LEMMA InitType ==
    ASSUME Init
    PROVE  TypeOK
<1>1. ota_queue \in Seq(Triggers) /\ crashes \in 0..MaxCrashes
  BY ConstantsAssumption DEF ConstantsAssumption, Init
<1>2. cloud \in [Triggers -> OtaState]
  BY OtaStates DEF Init
<1>3. /\ pc \in PC
      /\ cmd \in Triggers \cup {None}
      /\ download \in Content /\ backup \in Content
      /\ installed \in Content /\ before \in Content /\ durable \in Content
  BY ConstantsAssumption DEF ConstantsAssumption, Init, PC, Content
<1>4. issued \in SUBSET Triggers
  BY DEF Init
<1>5. running \in BOOLEAN
  BY DEF Init
<1>. QED
  BY <1>1, <1>2, <1>3, <1>4, <1>5 DEF TypeOK

\* report_status() only moves the program counter and one cloud status.
LEMMA ReportType ==
    ASSUME TypeOK, cmd \in Triggers \/ cmd = None,
           NEW from \in PC, NEW to \in PC, NEW status \in OtaState,
           Report(from, status, to)
    PROVE  TypeOK'
BY DEF TypeOK, Report, Goto, files, outside

LEMMA BranchType ==
    ASSUME TypeOK, NEW from, NEW to \in PC, Branch(from, to)
    PROVE  TypeOK'
BY DEF TypeOK, Branch, Goto, files, outside

LEMMA JobType ==
    ASSUME TypeOK, Job
    PROVE  TypeOK'
<1>. USE DEF PC
<1>2. cmd \in Triggers \/ cmd = None
  BY DEF TypeOK
<1>3. CASE ReportReceived \/ ReportDownloading \/ ReportVerifying \/ ReportRejected
           \/ ReportInstalling \/ ReportRolledBack \/ ReportComplete \/ ReportFailed
  BY <1>2, <1>3, OtaStates, ReportType
     DEF ReportReceived, ReportDownloading, ReportVerifying, ReportRejected,
         ReportInstalling, ReportRolledBack, ReportComplete, ReportFailed
<1>4. CASE ParseManifest \/ CheckPreconditions \/ VerifySha256
  BY <1>4, BranchType DEF ParseManifest, CheckPreconditions, VerifySha256
<1>5. CASE OpenDownload \/ Transfer \/ RemoveRejected
  BY <1>5 DEF OpenDownload, Transfer, RemoveRejected, RemoveDownload, Branch, Goto,
              files, outside, TypeOK, Content
<1>6. CASE BeginBackup \/ EndBackup
  BY <1>6 DEF BeginBackup, EndBackup, BackupWritten, CopyFails, Branch, Goto,
              files, outside, TypeOK, Content
<1>7. CASE BeginFlash \/ EndFlash
  BY <1>7 DEF BeginFlash, EndFlash, FlashWritten, CopyFails, Branch, Goto,
              files, outside, TypeOK, Content
<1>8. CASE BeginRollback \/ EndRollback
  BY <1>8 DEF BeginRollback, EndRollback, CopyFails, Branch, Goto,
              files, outside, TypeOK, Content
<1>. QED
  BY <1>3, <1>4, <1>5, <1>6, <1>7, <1>8 DEF Job

\* Every variable keeps its type, in every step of every behaviour.
THEOREM TypeCorrect == Spec => []TypeOK
<1>1. Init => TypeOK
  BY InitType
<1>2. TypeOK /\ [Next]_vars => TypeOK'
  <2>. SUFFICES ASSUME TypeOK, [Next]_vars
                PROVE  TypeOK'
    OBVIOUS
  <2>1. CASE Job
    BY <2>1, JobType
  <2>2. CASE CheckRunning \/ PopTimeout
    BY <2>2, BranchType DEF CheckRunning, PopTimeout, PC
  <2>3. CASE PopTrigger
    BY <2>3 DEF PopTrigger, Goto, PC, TypeOK, files
  <2>4. ASSUME NEW t \in Triggers, Enqueue(t)
        PROVE  TypeOK'
    BY <2>4 DEF Enqueue, TypeOK, files
  <2>5. CASE Stop
    BY <2>5 DEF Stop, TypeOK, files, outside
  <2>6. ASSUME Dies, {installed', durable', download', backup'} \subseteq Content
        PROVE  TypeOK'
    <3>1. crashes' \in 0..MaxCrashes
      BY <2>6, ConstantsAssumption DEF ConstantsAssumption, Dies, TypeOK
    <3>2. ota_queue' \in Seq(Triggers)
      BY <2>6 DEF Dies
    <3>. QED
      BY <2>6, <3>1, <3>2 DEF Dies, TypeOK, PC
  <2>7. CASE Restart
    BY <2>7 DEF Restart, Goto, PC, TypeOK, files, outside
  <2>8. CASE Sync
    BY <2>8 DEF Sync, TypeOK, files
  <2>9. CASE Crash
    BY <2>6, <2>9 DEF Crash, files, TypeOK
  <2>10. CASE PowerLoss
    <3>1. {installed', durable', download', backup'} \subseteq Content
      BY <2>10 DEF PowerLoss, FoundAfter, TypeOK, Content
    <3>. QED
      BY <2>6, <2>10, <3>1 DEF PowerLoss
  <2>11. CASE UNCHANGED vars
    BY <2>11 DEF vars, TypeOK, files, outside
  <2>. QED
    BY <2>1, <2>2, <2>3, <2>4, <2>5, <2>7, <2>8, <2>9, <2>10, <2>11 DEF Next, Worker
<1>. QED
  BY <1>1, <1>2, PTL DEF Spec

-----------------------------------------------------------------------------
(* The inductive invariant *)

\* Steps that leave queue, command, files and requests alone keep IInv when it
\* asks no more at the new program point than at the old one.
LEMMA SameFilesStep ==
    ASSUME IInv, TypeOK', UNCHANGED <<ota_queue, cmd, files, durable, issued, before>>,
           pc' \notin Idle => pc \notin Idle,
           pc' \in ManifestParsed => ImageOf[cmd] \in Images,
           pc' \in DownloadVerified => download = ImageOf[cmd],
           pc' \in SlotUntouched => pc \in SlotUntouched,
           pc' \in BackupTaken => pc \in BackupTaken,
           pc' \in Overwriting => installed \in {before, Torn},
           pc' = "complete" => pc = "complete"
    PROVE  IInv'
BY DEF IInv, Known, Requested, files

LEMMA JobKeepsIInv ==
    ASSUME IInv, Job, TypeOK'
    PROVE  IInv'
<1>. USE DEF PC, Idle, ManifestParsed, DownloadVerified, SlotUntouched, BackupTaken, Overwriting
<1>1. CASE ReportReceived \/ ReportDownloading \/ ReportVerifying \/ ReportRejected
           \/ ReportInstalling \/ ReportRolledBack \/ ReportComplete \/ ReportFailed
  BY <1>1, SameFilesStep
     DEF ReportReceived, ReportDownloading, ReportVerifying, ReportRejected,
         ReportInstalling, ReportRolledBack, ReportComplete, ReportFailed,
         Report, Goto, outside, IInv
<1>2. CASE ParseManifest
  <2>1. cmd \in Triggers
    BY <1>2 DEF ParseManifest, Branch, Goto, IInv, TypeOK
  <2>2. ImageOf[cmd] # BadManifest => ImageOf[cmd] \in Images
    BY <2>1, ConstantsAssumption DEF ConstantsAssumption
  <2>. QED
    BY <1>2, <2>2, SameFilesStep DEF ParseManifest, Branch, Goto, outside
<1>3. CASE CheckPreconditions
  BY <1>3, SameFilesStep DEF CheckPreconditions, Branch, Goto, outside, IInv
<1>4. CASE VerifySha256
  BY <1>4, SameFilesStep DEF VerifySha256, Sha256Matches, Branch, Goto, outside, IInv
<1>5. CASE OpenDownload \/ Transfer \/ RemoveRejected
  BY <1>5 DEF OpenDownload, Transfer, RemoveRejected, RemoveDownload, Branch, Goto,
              files, outside, IInv, Known, Requested
<1>6. CASE BeginBackup
  BY <1>6 DEF BeginBackup, CopyFails, Branch, Goto, files, outside, IInv, Known, Requested
<1>7. CASE EndBackup
  BY <1>7 DEF EndBackup, BackupWritten, CopyFails, Branch, Goto, files, outside,
              IInv, Known, Requested
<1>8. CASE BeginFlash
  BY <1>8 DEF BeginFlash, CopyFails, Branch, Goto, files, outside, IInv, Known, Requested
<1>9. CASE EndFlash
  <2>1. CASE CopyFails("flash_copy", "rollback")
    BY <2>1, SameFilesStep DEF CopyFails, Branch, Goto, outside, IInv
  <2>2. CASE FlashWritten
    <3>1. cmd \in issued /\ ImageOf[cmd] \in Images /\ download = ImageOf[cmd]
      BY <2>2 DEF FlashWritten, Goto, IInv
    <3>2. download \in Requested
      BY <3>1, ConstantsAssumption DEF ConstantsAssumption, Requested
    <3>. QED
      BY <2>2, <3>1, <3>2 DEF FlashWritten, Goto, files, outside, IInv, Known, Requested
  <2>. QED
    BY <1>9, <2>1, <2>2 DEF EndFlash
<1>10. CASE BeginRollback \/ EndRollback
  BY <1>10 DEF BeginRollback, EndRollback, CopyFails, Branch, Goto, files, outside,
               IInv, Known, Requested
<1>. QED
  BY <1>1, <1>2, <1>3, <1>4, <1>5, <1>6, <1>7, <1>8, <1>9, <1>10 DEF Job

\* IInv holds in every reachable state.
THEOREM IInvHolds == Spec => []IInv
<1>1. Init => IInv
  <2>. SUFFICES ASSUME Init PROVE IInv
    OBVIOUS
  <2>1. TypeOK
    BY InitType
  <2>. QED
    BY <2>1 DEF Init, IInv, PC, Idle, ManifestParsed, DownloadVerified, SlotUntouched,
                BackupTaken, Overwriting, Known
<1>2. IInv /\ TypeOK' /\ [Next]_vars => IInv'
  <2>. SUFFICES ASSUME IInv, TypeOK', [Next]_vars
                PROVE  IInv'
    OBVIOUS
  <2>. USE DEF PC, Idle, ManifestParsed, DownloadVerified, SlotUntouched, BackupTaken, Overwriting
  <2>1. CASE Job
    BY <2>1, JobKeepsIInv
  <2>2. CASE CheckRunning \/ PopTimeout
    BY <2>2, SameFilesStep DEF CheckRunning, PopTimeout, Branch, Goto, outside
  <2>3. CASE PopTrigger
    <3>1. cmd' \in issued
      BY <2>3 DEF PopTrigger, IInv, TypeOK
    <3>2. \A i \in DOMAIN ota_queue' : ota_queue'[i] \in issued
      BY <2>3 DEF PopTrigger, IInv, TypeOK
    <3>. QED
      BY <2>3, <3>1, <3>2 DEF PopTrigger, Goto, files, IInv, Known, Requested
  <2>4. ASSUME NEW t \in Triggers, Enqueue(t)
        PROVE  IInv'
    <3>1. issued \subseteq issued' /\ Requested \subseteq Requested'
      BY <2>4 DEF Enqueue, Requested
    <3>2. \A i \in DOMAIN ota_queue' : ota_queue'[i] \in issued'
      BY <2>4 DEF Enqueue, IInv, TypeOK
    <3>. QED
      BY <2>4, <3>1, <3>2 DEF Enqueue, files, IInv, Known
  <2>5. CASE Stop
    BY <2>5, SameFilesStep DEF Stop, outside, IInv
  <2>6. ASSUME Dies, {installed', durable', backup'} \subseteq Known
        PROVE  IInv'
    BY <2>6 DEF Dies, IInv, Known, Requested
  <2>7. CASE Restart
    BY <2>7, SameFilesStep DEF Restart, Goto, outside
  <2>8. CASE Sync
    BY <2>8 DEF Sync, files, IInv, Known, Requested
  <2>9. CASE Crash
    BY <2>6, <2>9 DEF Crash, files, IInv
  <2>10. CASE PowerLoss
    <3>1. {installed', durable', backup'} \subseteq Known
      BY <2>10 DEF PowerLoss, FoundAfter, IInv, Known
    <3>. QED
      BY <2>6, <2>10, <3>1 DEF PowerLoss
  <2>11. CASE UNCHANGED vars
    BY <2>11, SameFilesStep DEF vars, outside, IInv
  <2>. QED
    BY <2>1, <2>2, <2>3, <2>4, <2>5, <2>7, <2>8, <2>9, <2>10, <2>11 DEF Next, Worker
<1>. QED
  BY <1>1, <1>2, TypeCorrect, PTL DEF Spec

-----------------------------------------------------------------------------
(* The properties *)

\* Whatever the server sends, only the factory image and images named by the
\* cloud ever stand in the active slot.
THEOREM OnlyRequested == Spec => []OnlyRequestedInstalled
<1>1. IInv => OnlyRequestedInstalled
  BY DEF IInv, OnlyRequestedInstalled, Known
<1>. QED
  BY <1>1, IInvHolds, PTL

\* Whenever the active slot is being written, the backup is what it held.
THEOREM BackupHeld == Spec => []BackupHoldsPrevious
<1>1. IInv => BackupHoldsPrevious
  BY DEF IInv, BackupHoldsPrevious, BackupTaken
<1>. QED
  BY <1>1, IInvHolds, PTL

\* Where a change of a trigger's status comes from: from run() standing at a
\* report, for the command it works on.
LEMMA StatusChange ==
    ASSUME IInv, [Next]_vars, NEW t \in Triggers, cloud'[t] # cloud[t]
    PROVE  /\ t = cmd
           /\ installed' = installed /\ before' = before
           /\ \/ pc = "received" /\ cloud'[t] = "MANIFEST_RECEIVED"
              \/ pc = "downloading" /\ cloud'[t] = "DOWNLOADING"
              \/ pc = "verifying" /\ cloud'[t] = "VERIFYING"
              \/ pc = "installing" /\ cloud'[t] = "INSTALLING"
              \/ pc \in {"reject", "fail"} /\ cloud'[t] = "FAILED"
              \/ pc = "rolled_back" /\ cloud'[t] = "ROLLED_BACK"
              \/ pc = "complete" /\ cloud'[t] = "COMPLETE"
<1>1. cloud \in [Triggers -> OtaState]
  BY DEF IInv, TypeOK
<1>2. ASSUME NEW from, NEW to, NEW status, Report(from, status, to)
      PROVE  /\ t = cmd /\ cloud'[t] = status /\ pc = from
             /\ installed' = installed /\ before' = before
  BY <1>1, <1>2 DEF Report, Goto, files, outside
<1>3. ~ UNCHANGED cloud
  OBVIOUS
<1>4. CASE ReportReceived \/ ReportDownloading \/ ReportVerifying \/ ReportRejected
           \/ ReportInstalling \/ ReportRolledBack \/ ReportComplete \/ ReportFailed
  BY <1>4, <1>2
     DEF ReportReceived, ReportDownloading, ReportVerifying, ReportRejected,
         ReportInstalling, ReportRolledBack, ReportComplete, ReportFailed
<1>5. CASE CheckRunning \/ PopTimeout \/ ParseManifest \/ CheckPreconditions
           \/ VerifySha256
  BY <1>3, <1>5 DEF CheckRunning, PopTimeout, ParseManifest, CheckPreconditions,
                    VerifySha256, Branch
<1>6. CASE OpenDownload \/ Transfer \/ RemoveRejected \/ PopTrigger
  BY <1>3, <1>6 DEF OpenDownload, Transfer, RemoveRejected, RemoveDownload, PopTrigger,
                    Branch
<1>7. CASE BeginBackup \/ EndBackup \/ BeginFlash \/ EndFlash
           \/ BeginRollback \/ EndRollback
  BY <1>3, <1>7 DEF BeginBackup, EndBackup, BackupWritten, BeginFlash, EndFlash,
                    FlashWritten, BeginRollback, EndRollback, CopyFails, Branch
<1>8. CASE Stop \/ Restart \/ (\E u \in Triggers : Enqueue(u))
           \/ Crash \/ Sync \/ PowerLoss
  BY <1>3, <1>8 DEF Stop, Restart, Enqueue, Crash, Sync, PowerLoss, Dies
<1>9. CASE UNCHANGED vars
  BY <1>3, <1>9 DEF vars
<1>. QED
  BY <1>4, <1>5, <1>6, <1>7, <1>8, <1>9 DEF Next, Worker, Job

\* COMPLETE is told to the cloud only of a slot that holds the requested image.
THEOREM CompleteInstalled == Spec => CompleteMeansInstalled
<1>1. IInv /\ [Next]_vars =>
        [\A t \in Triggers :
            cloud'[t] = "COMPLETE" /\ cloud[t] # "COMPLETE" => installed' = ImageOf[t]]_vars
  BY StatusChange DEF IInv
<1>. QED
  BY <1>1, IInvHolds, PTL DEF Spec, CompleteMeansInstalled

\* FAILED is told to the cloud only of a slot that is what the command found.
THEOREM FailedUntouched == Spec => FailedMeansUntouched
<1>1. IInv /\ [Next]_vars =>
        [\A t \in Triggers :
            cloud'[t] = "FAILED" /\ cloud[t] # "FAILED" => installed' = before]_vars
  BY StatusChange DEF IInv, SlotUntouched, PC, Idle
<1>. QED
  BY <1>1, IInvHolds, PTL DEF Spec, FailedMeansUntouched

-----------------------------------------------------------------------------
(* Statuses only move forward *)

\* How far the status of the command can be at each point of run().
Level == [p \in PC \ Idle |->
            CASE p \in {"parse", "received"}                                   -> 0
              [] p \in {"precheck", "downloading"}                             -> 1
              [] p \in {"open", "transfer", "verifying"}                       -> 2
              [] p \in {"verify", "reject", "backup", "backup_copy",
                        "installing"}                                          -> 3
              [] p \in {"fail", "flash", "flash_copy", "rollback",
                        "rollback_copy", "rolled_back", "complete"}            -> 4
              [] p = "remove"                                                  -> 5]

Unreported(t) == cloud[t] = "UNREPORTED"

\* A trigger is unreported until it is taken, and it is taken once.
StatusInv ==
    /\ \A t \in Triggers \ issued : Unreported(t)
    /\ \A i \in DOMAIN ota_queue : Unreported(ota_queue[i])
    /\ \A i, j \in DOMAIN ota_queue : ota_queue[i] = ota_queue[j] => i = j
    /\ pc \notin Idle =>
          /\ \A i \in DOMAIN ota_queue : ota_queue[i] # cmd
          /\ Rank[cloud[cmd]] <= Level[pc]

LEMMA RankValues ==
    /\ \A s \in OtaState : Rank[s] \in 0..5
    /\ Rank["UNREPORTED"] = 0
    /\ Rank["MANIFEST_RECEIVED"] = 1
    /\ Rank["DOWNLOADING"] = 2
    /\ Rank["VERIFYING"] = 3
    /\ Rank["INSTALLING"] = 4
    /\ Rank["FAILED"] = 5 /\ Rank["ROLLED_BACK"] = 5 /\ Rank["COMPLETE"] = 5
BY OtaStates DEF Rank

LEMMA LevelValues ==
    /\ \A p \in PC \ Idle : Level[p] \in 0..5
    /\ Level["received"] = 0
    /\ Level["precheck"] = 1 /\ Level["downloading"] = 1
    /\ Level["open"] = 2 /\ Level["verifying"] = 2
    /\ Level["verify"] = 3 /\ Level["reject"] = 3 /\ Level["installing"] = 3
    /\ Level["flash"] = 4
    /\ Level["remove"] = 5
BY DEF Level, PC, Idle

\* Steps of the job that report nothing never fall below the level reached.
LEMMA QuietStep ==
    ASSUME IInv, TypeOK', StatusInv, pc \notin Idle,
           UNCHANGED <<ota_queue, cmd, cloud, issued>>,
           pc' \notin Idle => Level[pc] <= Level[pc'] /\ {Level[pc], Level[pc']} \subseteq Nat
    PROVE  StatusInv'
<1>1. cmd \in Triggers /\ Rank[cloud[cmd]] \in 0..5
  BY RankValues, ConstantsAssumption DEF ConstantsAssumption, IInv, TypeOK
<1>. QED
  BY <1>1 DEF StatusInv, Unreported

LEMMA ReportStep ==
    ASSUME IInv, TypeOK', StatusInv,
           NEW from \in PC \ Idle, NEW to \in PC, NEW status \in OtaState,
           Report(from, status, to),
           to \notin Idle => /\ Rank[status] <= Level[to] /\ Level[from] <= Level[to]
                            /\ {Level[from], Level[to]} \subseteq Nat
    PROVE  StatusInv'
<1>1. /\ cmd \in Triggers /\ cmd \in issued /\ cloud \in [Triggers -> OtaState]
      /\ Rank[cloud[cmd]] \in 0..5 /\ Rank[status] \in 0..5
  BY RankValues DEF IInv, TypeOK, Report, Goto
<1>2. \A t \in Triggers \ {cmd} : cloud'[t] = cloud[t]
  BY <1>1 DEF Report
<1>3. cloud'[cmd] \in {cloud[cmd], status}
  BY <1>1 DEF Report
<1>4. \A i \in DOMAIN ota_queue : ota_queue[i] \in Triggers \ {cmd}
  BY DEF Report, Goto, StatusInv, IInv, TypeOK
<1>. QED
  BY <1>1, <1>2, <1>3, <1>4 DEF Report, Goto, StatusInv, Unreported, outside, IInv, TypeOK

LEMMA JobKeepsStatusInv ==
    ASSUME IInv, TypeOK', StatusInv, Job
    PROVE  StatusInv'
<1>. USE DEF PC, Idle
<1>1. CASE ReportReceived \/ ReportDownloading
  BY <1>1, OtaStates, RankValues, LevelValues, ReportStep DEF ReportReceived, ReportDownloading
<1>2. CASE ReportVerifying \/ ReportRejected
  BY <1>2, OtaStates, RankValues, LevelValues, ReportStep DEF ReportVerifying, ReportRejected
<1>3. CASE ReportInstalling
  BY <1>3, OtaStates, RankValues, LevelValues, ReportStep DEF ReportInstalling
<1>4. CASE ReportRolledBack \/ ReportComplete \/ ReportFailed
  BY <1>4, OtaStates, ReportStep DEF ReportRolledBack, ReportComplete, ReportFailed
<1>. USE DEF Level
<1>5. CASE ParseManifest \/ CheckPreconditions \/ VerifySha256
  BY <1>5, QuietStep DEF ParseManifest, CheckPreconditions, VerifySha256, Branch, Goto, outside
<1>6. CASE OpenDownload \/ Transfer \/ RemoveRejected
  BY <1>6, QuietStep DEF OpenDownload, Transfer, RemoveRejected, RemoveDownload,
                         Branch, Goto, outside
<1>7. CASE BeginBackup \/ EndBackup \/ BeginFlash \/ EndFlash
  BY <1>7, QuietStep DEF BeginBackup, EndBackup, BackupWritten, BeginFlash, EndFlash,
                         FlashWritten, CopyFails, Branch, Goto, outside
<1>8. CASE BeginRollback \/ EndRollback
  BY <1>8, QuietStep DEF BeginRollback, EndRollback, CopyFails, Branch, Goto, outside
<1>. QED
  BY <1>1, <1>2, <1>3, <1>4, <1>5, <1>6, <1>7, <1>8 DEF Job

LEMMA StatusInvHolds == Spec => []StatusInv
<1>1. Init => StatusInv
  BY DEF Init, StatusInv, Unreported, Idle
<1>2. IInv /\ TypeOK' /\ StatusInv /\ [Next]_vars => StatusInv'
  <2>. SUFFICES ASSUME IInv, TypeOK', StatusInv, [Next]_vars
                PROVE  StatusInv'
    OBVIOUS
  <2>1. CASE Job
    BY <2>1, JobKeepsStatusInv
  <2>2. CASE CheckRunning \/ PopTimeout
    BY <2>2 DEF CheckRunning, PopTimeout, Branch, Goto, outside, Idle, StatusInv, Unreported
  <2>3. CASE PopTrigger
    <3>1. /\ cmd' = ota_queue[1]
          /\ \A i \in DOMAIN ota_queue' : /\ i + 1 \in DOMAIN ota_queue
                                         /\ ota_queue'[i] = ota_queue[i + 1]
          /\ DOMAIN ota_queue' \subseteq Nat \ {0}
          /\ 1 \in DOMAIN ota_queue
      BY <2>3 DEF PopTrigger, IInv, TypeOK
    <3>2. UNCHANGED <<cloud, issued>> /\ pc' = "parse"
      BY <2>3 DEF PopTrigger, Goto
    <3>3. \A i \in DOMAIN ota_queue' : ota_queue'[i] # cmd'
      BY <3>1 DEF StatusInv
    <3>4. Rank[cloud'[cmd']] <= Level[pc']
      BY <3>1, <3>2, RankValues DEF StatusInv, Unreported, Level, PC, Idle
    <3>5. \A i, j \in DOMAIN ota_queue' : ota_queue'[i] = ota_queue'[j] => i = j
      BY <3>1 DEF StatusInv
    <3>. QED
      BY <3>1, <3>2, <3>3, <3>4, <3>5 DEF StatusInv, Unreported
  <2>4. ASSUME NEW t \in Triggers, Enqueue(t)
        PROVE  StatusInv'
    <3>1. \A i \in DOMAIN ota_queue' :
             \/ i \in DOMAIN ota_queue /\ ota_queue'[i] = ota_queue[i]
             \/ i = Len(ota_queue) + 1 /\ ota_queue'[i] = t
      BY <2>4 DEF Enqueue, IInv, TypeOK
    <3>2. \A i \in DOMAIN ota_queue : ota_queue[i] # t
      BY <2>4 DEF Enqueue, IInv
    <3>3. pc \notin Idle => cmd # t
      BY <2>4 DEF Enqueue, IInv
    <3>. QED
      BY <2>4, <3>1, <3>2, <3>3 DEF Enqueue, StatusInv, Unreported
  <2>5. CASE Stop \/ Restart
    BY <2>5 DEF Stop, Restart, Goto, outside, Idle, StatusInv, Unreported
  <2>6. CASE Crash \/ Sync \/ PowerLoss
    BY <2>6 DEF Crash, Sync, PowerLoss, Dies, StatusInv, Unreported, Idle
  <2>7. CASE UNCHANGED vars
    BY <2>7 DEF vars, outside, StatusInv, Unreported
  <2>. QED
    BY <2>1, <2>2, <2>3, <2>4, <2>5, <2>6, <2>7 DEF Next, Worker
<1>. QED
  BY <1>1, <1>2, TypeCorrect, IInvHolds, PTL DEF Spec

\* The cloud sees the statuses of a trigger in the order of the update, and a
\* terminal one is the last, however publishes are lost and processes die.
THEOREM StatusForward == Spec => StatusForwardOnly
<1>1. IInv /\ StatusInv /\ [Next]_vars =>
        [\A t \in Triggers : cloud'[t] # cloud[t] => Rank[cloud[t]] < Rank[cloud'[t]]]_vars
  <2>. SUFFICES ASSUME IInv, StatusInv, [Next]_vars,
                       NEW t \in Triggers, cloud'[t] # cloud[t]
                PROVE  Rank[cloud[t]] < Rank[cloud'[t]]
    OBVIOUS
  <2>1. Rank[cloud[t]] \in 0..5
    BY RankValues DEF IInv, TypeOK
  <2>2. t = cmd /\ pc \in PC
    BY StatusChange DEF IInv, TypeOK
  <2>. QED
    BY <2>1, <2>2, StatusChange, RankValues DEF StatusInv, Level, PC, Idle
<1>. QED
  BY <1>1, IInvHolds, StatusInvHolds, PTL DEF Spec, StatusForwardOnly
-----------------------------------------------------------------------------
(* Refinement *)

\* The statuses that a bound on the rank leaves.
LEMMA RankBounds ==
    ASSUME NEW s \in OtaState
    PROVE  /\ Rank[s] <= 0 => s = "UNREPORTED"
           /\ Rank[s] <= 1 => s \in {"UNREPORTED", "MANIFEST_RECEIVED"}
           /\ Rank[s] <= 2 => s \in {"UNREPORTED", "MANIFEST_RECEIVED", "DOWNLOADING"}
           /\ Rank[s] <= 3 => s \in {"UNREPORTED", "MANIFEST_RECEIVED", "DOWNLOADING", "VERIFYING"}
           /\ Rank[s] <= 4 => s \notin {"COMPLETE", "FAILED", "ROLLED_BACK"}
BY OtaStates, RankValues DEF Rank

LEMMA ProgressValues ==
    /\ DOMAIN Abstract!Progress = 1..4
    /\ Abstract!Progress[1] = "MANIFEST_RECEIVED"
    /\ Abstract!Progress[2] = "DOWNLOADING"
    /\ Abstract!Progress[3] = "VERIFYING"
    /\ Abstract!Progress[4] = "INSTALLING"
BY DEF Abstract!Progress

LEMMA AbstractInit == Init => Abstract!Init
BY DEF Init, Abstract!Init, Phase

\* What run() knows of the status of its command.
LEMMA StatusSoFar ==
    ASSUME IInv, StatusInv
    PROVE  /\ pc = "received" => cloud[cmd] = "UNREPORTED"
           /\ pc = "downloading" => cloud[cmd] \in {"UNREPORTED", "MANIFEST_RECEIVED"}
           /\ pc = "verifying" => cloud[cmd] \in {"UNREPORTED", "MANIFEST_RECEIVED", "DOWNLOADING"}
           /\ pc = "installing" => cloud[cmd] \in {"UNREPORTED", "MANIFEST_RECEIVED",
                                                   "DOWNLOADING", "VERIFYING"}
           /\ pc \in {"reject", "fail", "rolled_back", "complete"} =>
                cloud[cmd] \notin {"COMPLETE", "FAILED", "ROLLED_BACK"}
<1>. SUFFICES ASSUME pc \notin Idle PROVE
           /\ pc = "received" => cloud[cmd] = "UNREPORTED"
           /\ pc = "downloading" => cloud[cmd] \in {"UNREPORTED", "MANIFEST_RECEIVED"}
           /\ pc = "verifying" => cloud[cmd] \in {"UNREPORTED", "MANIFEST_RECEIVED", "DOWNLOADING"}
           /\ pc = "installing" => cloud[cmd] \in {"UNREPORTED", "MANIFEST_RECEIVED",
                                                   "DOWNLOADING", "VERIFYING"}
           /\ pc \in {"reject", "fail", "rolled_back", "complete"} =>
                cloud[cmd] \notin {"COMPLETE", "FAILED", "ROLLED_BACK"}
  BY DEF Idle
<1>1. cloud[cmd] \in OtaState
  BY DEF IInv, TypeOK
<1>2. Rank[cloud[cmd]] \in Nat /\ Rank[cloud[cmd]] <= Level[pc]
  BY <1>1, RankValues DEF StatusInv
<1>3. /\ pc \in {"fail", "rolled_back", "complete"} => Level[pc] = 4
      /\ pc \in {"reject", "installing"} => Level[pc] = 3
      /\ pc = "verifying" => Level[pc] = 2
      /\ pc = "downloading" => Level[pc] = 1
      /\ pc = "received" => Level[pc] = 0
  BY DEF Level, PC, Idle
<1>. QED
  BY <1>1, <1>2, <1>3, RankBounds

\* Every step of the worker is a step of the updater or cannot be seen.
LEMMA JobRefines ==
    ASSUME IInv, StatusInv, Job
    PROVE  Abstract!Next \/ UNCHANGED Abstract!vars
<1>. USE DEF Abstract!vars, Abstract!Tell, Abstract!End, Phase
<1>1. CASE ReportReceived
  <2>1. Abstract!TellProgress(1)
    BY <1>1, StatusSoFar, ProgressValues
       DEF ReportReceived, Report, Goto, files, outside, Abstract!TellProgress
  <2>. QED
    BY <2>1, ProgressValues DEF Abstract!Next
<1>2. CASE ReportDownloading
  <2>1. Abstract!TellProgress(2)
    BY <1>2, StatusSoFar, ProgressValues
       DEF ReportDownloading, Report, Goto, files, outside, Abstract!TellProgress
  <2>. QED
    BY <2>1, ProgressValues DEF Abstract!Next
<1>3. CASE ReportVerifying
  <2>1. Abstract!TellProgress(3)
    BY <1>3, StatusSoFar, ProgressValues
       DEF ReportVerifying, Report, Goto, files, outside, Abstract!TellProgress
  <2>. QED
    BY <2>1, ProgressValues DEF Abstract!Next
<1>4. CASE ReportInstalling
  <2>1. Abstract!TellProgress(4)
    BY <1>4, StatusSoFar, ProgressValues
       DEF ReportInstalling, Report, Goto, files, outside, Abstract!TellProgress
  <2>. QED
    BY <2>1, ProgressValues DEF Abstract!Next
<1>5. CASE ReportRejected \/ ReportFailed
  <2>1. installed = before
    BY <1>5 DEF ReportRejected, ReportFailed, Report, Goto, IInv, SlotUntouched, PC, Idle
  <2>2. Abstract!Refuse
    BY <1>5, <2>1, StatusSoFar
       DEF ReportRejected, ReportFailed, Report, Goto, files, outside, Abstract!Refuse
  <2>. QED
    BY <2>2 DEF Abstract!Next
<1>6. CASE ReportRolledBack
  <2>1. installed \in {Torn, before}
    BY <1>6 DEF ReportRolledBack, Report, Goto, IInv, Overwriting
  <2>2. Abstract!GiveUp
    BY <1>6, <2>1, StatusSoFar
       DEF ReportRolledBack, Report, Goto, files, outside, Abstract!GiveUp
  <2>. QED
    BY <2>2 DEF Abstract!Next
<1>7. CASE ReportComplete
  <2>1. installed = ImageOf[cmd]
    BY <1>7 DEF ReportComplete, Report, Goto, IInv
  <2>2. Abstract!Complete
    BY <1>7, <2>1, StatusSoFar
       DEF ReportComplete, Report, Goto, files, outside, Abstract!Complete
  <2>. QED
    BY <2>2 DEF Abstract!Next
<1>8. CASE ParseManifest \/ CheckPreconditions \/ VerifySha256
  BY <1>8 DEF ParseManifest, CheckPreconditions, VerifySha256, Branch, Goto, files, outside
<1>9. CASE OpenDownload \/ Transfer \/ RemoveRejected
  BY <1>9 DEF OpenDownload, Transfer, RemoveRejected, RemoveDownload, Branch, Goto, files, outside
<1>10. CASE BeginBackup \/ EndBackup
  BY <1>10 DEF BeginBackup, EndBackup, BackupWritten, CopyFails, Branch, Goto, files, outside
<1>11. CASE BeginFlash
  <2>1. ImageOf[cmd] \in Images /\ installed = before
    BY <1>11 DEF BeginFlash, CopyFails, Branch, Goto, IInv, ManifestParsed, SlotUntouched, PC, Idle
  <2>2. Abstract!BeginWriting
    BY <1>11, <2>1
       DEF BeginFlash, CopyFails, Branch, Goto, files, outside, Abstract!BeginWriting
  <2>. QED
    BY <2>2 DEF Abstract!Next
<1>12. CASE EndFlash
  <2>1. CASE FlashWritten
    <3>1. download = ImageOf[cmd]
      BY <2>1 DEF FlashWritten, Goto, IInv, DownloadVerified
    <3>2. Abstract!EndWriting
      BY <2>1, <3>1 DEF FlashWritten, Goto, files, outside, Abstract!EndWriting
    <3>. QED
      BY <3>2 DEF Abstract!Next
  <2>2. CASE CopyFails("flash_copy", "rollback")
    BY <2>2 DEF CopyFails, Branch, Goto, files, outside
  <2>. QED
    BY <1>12, <2>1, <2>2 DEF EndFlash
<1>13. CASE BeginRollback \/ EndRollback
  <2>1. CASE CopyFails("rollback", "rolled_back") \/ CopyFails("rollback_copy", "rolled_back")
    BY <2>1 DEF CopyFails, Branch, Goto, files, outside
  <2>2. CASE ~(CopyFails("rollback", "rolled_back") \/ CopyFails("rollback_copy", "rolled_back"))
    <3>1. pc = "rollback_copy" => backup = before
      BY DEF IInv, BackupTaken
    <3>2. Abstract!Restore
      BY <1>13, <2>2, <3>1
         DEF BeginRollback, EndRollback, Goto, files, outside, Abstract!Restore
    <3>. QED
      BY <3>2 DEF Abstract!Next
  <2>. QED
    BY <2>1, <2>2
<1>. QED
  BY <1>1, <1>2, <1>3, <1>4, <1>5, <1>6, <1>7, <1>8, <1>9, <1>10, <1>11, <1>12, <1>13 DEF Job

LEMMA AbstractStep ==
    ASSUME IInv, StatusInv, [Next]_vars
    PROVE  [Abstract!Next]_(Abstract!vars)
<1>. USE DEF Abstract!vars, Phase
<1>1. CASE Job
  BY <1>1, JobRefines
<1>2. CASE CheckRunning \/ PopTimeout
  BY <1>2 DEF CheckRunning, PopTimeout, Branch, Goto, files, outside
<1>3. CASE PopTrigger
  BY <1>3 DEF PopTrigger, Goto, files, Abstract!Next, Abstract!Begin
<1>4. ASSUME NEW t \in Triggers, Enqueue(t)
      PROVE  Abstract!Next
  <2>1. Abstract!Ask(t)
    BY <1>4 DEF Enqueue, Alive, files, Abstract!Ask
  <2>. QED
    BY <2>1 DEF Abstract!Next
<1>5. CASE Stop
  BY <1>5 DEF Stop, files, outside
<1>6. CASE Crash \/ Sync \/ PowerLoss
  <2>1. Crash => Abstract!Die
    BY DEF Crash, Dies, files, Abstract!Die, Abstract!Off
  <2>2. Sync => Abstract!Settle
    BY DEF Sync, files, Abstract!Settle
  <2>3. PowerLoss => Abstract!LosePower
    BY DEF PowerLoss, Dies, FoundAfter, Abstract!LosePower, Abstract!Off
  <2>. QED
    BY <1>6, <2>1, <2>2, <2>3 DEF Abstract!Next
<1>7. CASE Restart
  BY <1>7 DEF Restart, Goto, files, outside, Abstract!Next, Abstract!Restart
<1>8. CASE UNCHANGED vars
  BY <1>8 DEF vars, files, outside
<1>. QED
  BY <1>1, <1>2, <1>3, <1>4, <1>5, <1>6, <1>7, <1>8 DEF Next, Worker

\* The worker implements the updater, whatever the server sends, whichever copy or
\* report fails, and wherever the process dies.
THEOREM Refinement == Spec => Implements
<1>. QED
  BY AbstractInit, AbstractStep, IInvHolds, StatusInvHolds, PTL
     DEF Spec, Implements, Abstract!Spec
=============================================================================
