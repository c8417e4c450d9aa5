----------------------------- MODULE UpdateEngine -----------------------------
(***************************************************************************)
(* Firmware update: UpdateEngine (update.cxx) run by the thread            *)
(* Update_admin (update_admin.cxx), and the upload through the web page,   *)
(* checked by imcheck in a process of its own.                             *)
(*                                                                         *)
(* The user image is a root partition and a fit partition.  A boot loader  *)
(* outside the repository starts it when its fit is whole, and the factory *)
(* image otherwise: an update is prepared by erasing the fit, and is       *)
(* written by the factory image, from a file in FIRMWARE_PATH.             *)
(*                                                                         *)
(* The passport of an image names its version, its hardware, the checksums *)
(* of its parts and the partitions they are for; distinct images are taken *)
(* to have distinct checksums.  The storage is not nand, for which nothing *)
(* is written.                                                             *)
(***************************************************************************)
EXTENDS Integers, FiniteSets

CONSTANTS Images,       \* of the firmware
          Version,      \* Version[v]: the version the passport of v names
          Gzipped,      \* those that are compressed ("rootcompression")
          Fitting,      \* those made for this hardware ("hw")
          FreeSpace,    \* there is room for an image in FIRMWARE_PATH
          FindUpdates,  \* upad_checkupdate: look for images on the sticks
          Forced,       \* upad_force
          RequestsIn,   \* under which image the operator asks for an update
          MaxRequests,  \* bound on the requests
          Troubles,     \* what goes wrong: "power", "kill" (of the process), a
                        \* failed write of "root", "fit" or a "copy", and "md5"
                        \* (a good fit that cannot be read back)
          MaxTrouble    \* bound on their number; each happens once at most

None == "none"
Torn == "torn"          \* half written
Erased == "erased"

ASSUME UpdateAssumption ==
  /\ IsFiniteSet(Images) /\ Images \cap {None, Torn, Erased} = {}
  /\ Version \in [Images -> Nat]
  /\ Gzipped \subseteq Images /\ Fitting \subseteq Images
  /\ FreeSpace \in BOOLEAN /\ FindUpdates \in BOOLEAN /\ Forced \in BOOLEAN
  /\ RequestsIn \subseteq {"user", "factory"}
  /\ Troubles \subseteq {"power", "kill", "root", "fit", "copy", "md5"}
  /\ MaxRequests \in Nat /\ MaxTrouble \in Nat

Kinds == {"raw", "gzip"}                \* firmware and firmware.gzip
Kind(v) == IF v \in Gzipped THEN "gzip" ELSE "raw"

VARIABLES booted,     \* the image that runs
          first,      \* CnT->first_run: Cnoda has not been started since the boot
          reboot,     \* CnT->reboot_state: the system is going down
          fit, root,  \* the partitions of the user image
          fw,         \* the files in FIRMWARE_PATH, as the programs see them
          medium,     \* and as they are on the medium
          stick,      \* stick[v]: the file of v on the sticks; "blank": the
                      \* passport has been filled with zeros
          touched,    \* files on the sticks written to since the mount
          pc,         \* where Update_admin is
          turn,       \* which of its calls of CheckAndUpdate comes next or runs
          caller,     \* who called FindAndPrepareUpdate
          checked,    \* update_checked
          img, kind,  \* the image at hand, and the file it is flashed from
          scanned,    \* files on the sticks that have been checked
          found,      \* updinfo_list: those that are good
          orphan,     \* the file being copied to has been renamed over
          need,       \* need_update
          web, upl,   \* where imcheck is, and the image it was given
          parent,     \* the process that started imcheck is still there
          accepted,   \* the last upload that was answered "update_ok"
          requests, struck

admin == <<pc, turn, caller, checked, img, kind, scanned, found, orphan, need>>
upload == <<web, upl, parent, accepted>>
system == <<booted, first>>
vars == <<system, reboot, fit, root, fw, medium, stick, touched, admin, upload,
          requests, struck>>

Flashing == {"root", "fit", "drop", "settle"}
Searching == {"scan", "restore", "copy", "erase", "umount"}

TypeOK ==
  /\ booted \in {"user", "factory"}
  /\ first \in BOOLEAN /\ reboot \in BOOLEAN /\ checked \in BOOLEAN
  /\ fit \in Images \cup {Torn, Erased} /\ root \in Images \cup {Torn}
  /\ fw \in [Kinds -> Images \cup {None, Torn}]
  /\ medium \in [Kinds -> Images \cup {None, Torn}]
  /\ stick \in [Images -> {None, "whole", "blank"}]
  /\ touched \subseteq Images /\ scanned \subseteq Images /\ found \subseteq Images
  /\ pc \in {"idle", "chain"} \cup Flashing \cup Searching
  /\ turn \in {"first", "find", "last"} /\ caller \in {"loop", "message"}
  /\ img \in Images \cup {None} /\ kind \in Kinds
  /\ orphan \in BOOLEAN /\ need \in BOOLEAN
  /\ web \in {"idle", "check", "erase", "reboot"} /\ upl \in Images \cup {None}
  /\ parent \in BOOLEAN /\ accepted \in Images \cup {None}
  /\ requests \in 0..MaxRequests /\ struck \subseteq Troubles

\* The boot loader looks at the fit of the user image.
BootImage(f) == IF f \in Images THEN "user" ELSE "factory"

\* A device that has been updated before, or has just been made.
Init ==
  /\ fit \in Images \cup {Erased}
  /\ root = (IF fit \in Images THEN fit ELSE Torn)
  /\ fw = [k \in Kinds |-> None] /\ medium = fw
  /\ stick \in [Images -> {None, "whole"}] /\ touched = {}
  /\ booted = BootImage(fit) /\ first = TRUE /\ reboot = FALSE
  /\ pc = "idle" /\ turn = "first" /\ caller = "loop" /\ checked = FALSE
  /\ img = None /\ kind = "raw" /\ scanned = {} /\ found = {}
  /\ orphan = FALSE /\ need = FALSE
  /\ web = "idle" /\ upl = None /\ parent = TRUE
  /\ accepted = None /\ requests = 0 /\ struck = {}

Trouble(t) ==
  /\ t \in Troubles \ struck /\ Cardinality(struck) < MaxTrouble
  /\ struck' = struck \cup {t}

-----------------------------------------------------------------------------
(***************************************************************************)
(* CheckAndUpdate and RunUpdateChain.                                      *)
(***************************************************************************)
\* Loop: once the web server is there, and only after a boot.
LoopStarts ==
  /\ pc = "idle" /\ first /\ ~checked
  /\ pc' = "chain" /\ turn' = "first" /\ caller' = "loop"
  /\ UNCHANGED <<system, reboot, fit, root, fw, medium, stick, touched, checked, img, kind,
                 scanned, found, orphan, need, upload, requests, struck>>

\* Control returns to Loop, which has still CheckAndUpdate to call again, or is done.
BackToLoop ==
  IF caller = "loop" /\ turn # "last"
  THEN pc' = "chain" /\ turn' = "last" /\ UNCHANGED checked
  ELSE pc' = "idle" /\ UNCHANGED turn /\ checked' = (checked \/ caller = "loop")

\* CheckAndUpdate returns; the first time, an error leads to the search.
ChainReturns(ok) ==
  /\ IF turn # "first" THEN BackToLoop
     ELSE IF ok THEN pc' = "idle" /\ checked' = TRUE /\ UNCHANGED turn
     ELSE IF FindUpdates THEN pc' = "scan" /\ turn' = "find" /\ UNCHANGED checked
     ELSE pc' = "chain" /\ turn' = "last" /\ UNCHANGED checked
  /\ scanned' = {} /\ found' = {} /\ need' = FALSE
  /\ UNCHANGED <<caller, orphan>>

\* The uncompressed file is preferred.
Selected == IF fw["raw"] # None THEN "raw" ELSE "gzip"

\* Nothing is flashed: no file, the system is going down, or the user image runs.
\* Or the file is torn and has no passport.
ChainDeclines ==
  /\ pc = "chain"
  /\ reboot \/ booted = "user" \/ fw[Selected] \in {None, Torn}
  /\ ChainReturns(reboot)
  /\ UNCHANGED <<system, reboot, fit, root, fw, medium, stick, touched, img, kind, upload,
                 requests, struck>>

\* The passport of the file names the image; the write of root begins.
ChainFlashes ==
  /\ pc = "chain" /\ ~reboot /\ booted = "factory" /\ fw[Selected] # None
  /\ kind' = Selected
  /\ img' \in (IF fw[Selected] = Torn THEN Images ELSE {fw[Selected]})
  /\ root' = Torn
  /\ pc' = "root"
  /\ UNCHANGED <<system, reboot, fit, fw, medium, stick, touched, turn, caller, checked,
                 scanned, found, orphan, need, upload, requests, struck>>

\* What dd puts in a partition: the file may be another one by now.
Flashed == IF fw[kind] \in Images THEN fw[kind] ELSE Torn

\* Deviation: the checksum of root is not compared.
RootWrittenUnchecked ==
  /\ pc = "root"
  /\ \/ root' = Flashed /\ UNCHANGED struck
     \/ root' = Torn /\ Trouble("root")
  /\ fit' = Torn /\ pc' = "fit"
  /\ UNCHANGED <<system, reboot, fw, medium, stick, touched, turn, caller, checked, img, kind,
                 scanned, found, orphan, need, upload, requests>>

\* DO_Update_FIT_ROOTx2_RWx1: fit is written when root has the right checksum.
RootWritten ==
  /\ pc = "root"
  /\ \/ root' = Flashed /\ UNCHANGED struck
     \/ root' = Torn /\ Trouble("root")
  /\ IF root' = img
     THEN /\ fit' = Torn /\ pc' = "fit"
          /\ UNCHANGED <<turn, caller, checked, scanned, found, orphan, need>>
     ELSE ChainReturns(FALSE) /\ UNCHANGED fit
  /\ UNCHANGED <<system, reboot, fw, medium, stick, touched, img, kind, upload, requests>>

FitJudged(ok) ==
  IF ok THEN pc' = "drop" /\ UNCHANGED <<turn, caller, checked, scanned, found, orphan, need>>
  ELSE ChainReturns(FALSE)

FitWritten ==
  /\ pc = "fit"
  /\ \/ fit' = Flashed /\ UNCHANGED struck /\ FitJudged(Flashed = img)
     \/ fit' = Torn /\ Trouble("fit") /\ FitJudged(FALSE)
     \/ fit' = Flashed /\ Trouble("md5") /\ FitJudged(FALSE)
  /\ UNCHANGED <<system, reboot, root, fw, medium, stick, touched, img, kind, upload, requests>>

\* The source goes, whatever file has its name by now.
DropSource ==
  /\ pc = "drop"
  /\ fw' = [fw EXCEPT ![kind] = None]
  /\ pc' = "settle"
  /\ UNCHANGED <<system, reboot, fit, root, medium, stick, touched, turn, caller, checked, img,
                 kind, scanned, found, orphan, need, upload, requests, struck>>

\* UpdateBackupSettings, UpdatePlaceStump, sync(); CheckAndUpdate reboots.
Settle ==
  /\ pc = "settle"
  /\ medium' = fw /\ touched' = {}
  /\ reboot' = TRUE
  /\ ChainReturns(TRUE)
  /\ UNCHANGED <<system, fit, root, fw, stick, img, kind, upload, requests, struck>>

-----------------------------------------------------------------------------
(***************************************************************************)
(* FindAndPrepareUpdate.                                                   *)
(***************************************************************************)
MayRequest == booted \in RequestsIn /\ requests < MaxRequests

\* srvmCHECK_STOR_FOR_UPDATE.
CheckStorages ==
  /\ pc = "idle" /\ MayRequest
  /\ requests' = requests + 1
  /\ pc' = "scan" /\ turn' = "find" /\ caller' = "message"
  /\ scanned' = {} /\ found' = {} /\ need' = FALSE
  /\ UNCHANGED <<system, reboot, fit, root, fw, medium, stick, touched, checked, img, kind,
                 orphan, upload, struck>>

Unscanned == {v \in Images \ scanned : stick[v] # None}

\* Deviation: Update_fw_check does not record which file it is about.
CheckFileUnnamed ==
  /\ pc = "scan"
  /\ \E v \in Unscanned :
       /\ scanned' = scanned \cup {v}
       /\ IF stick[v] = "whole"
          THEN /\ stick' = [stick EXCEPT ![v] = "blank"]
               /\ touched' = touched \cup {v}
               /\ pc' = "restore"
          ELSE UNCHANGED <<stick, touched, pc>>
  /\ UNCHANGED <<system, reboot, fit, root, fw, medium, turn, caller, checked, img, kind,
                 found, orphan, need, upload, requests, struck>>

\* Update_fw_check, up to the checksum: it is taken with the passport of the file
\* filled with zeros.  A file whose passport is not there is skipped.
CheckFile ==
  /\ pc = "scan"
  /\ \E v \in Unscanned :
       /\ scanned' = scanned \cup {v}
       /\ IF stick[v] = "whole"
          THEN /\ stick' = [stick EXCEPT ![v] = "blank"]
               /\ touched' = touched \cup {v}
               /\ img' = v /\ pc' = "restore"
          ELSE UNCHANGED <<stick, touched, img, pc>>
  /\ UNCHANGED <<system, reboot, fit, root, fw, medium, turn, caller, checked, kind, found,
                 orphan, need, upload, requests, struck>>

RestorePassport ==
  /\ pc = "restore"
  /\ stick' = [stick EXCEPT ![img] = "whole"]
  /\ found' = found \cup {img}
  /\ pc' = "scan"
  /\ UNCHANGED <<system, reboot, fit, root, fw, medium, touched, turn, caller, checked, img,
                 kind, scanned, orphan, need, upload, requests, struck>>

\* GetLastVersionUpdate.
Newest(S) == CHOOSE v \in S : \A w \in S : Version[w] <= Version[v]

\* Deviation: the passport of the fit partition is not looked at.
WantedAlways(v) == Forced \/ v \in Fitting

\* CheckHWFromTarget, CheckByPassportFromTarget: an image for this hardware that is
\* not the one in the fit partition.
Wanted(v) == Forced \/ (v \in Fitting /\ fit # v)

\* Nothing to prepare.
SearchEnds ==
  /\ pc = "scan" /\ Unscanned = {}
  /\ found # {} => ~Wanted(Newest(found))
  /\ pc' = "umount"
  /\ UNCHANGED <<system, reboot, fit, root, fw, medium, stick, touched, turn, caller, checked,
                 img, kind, scanned, found, orphan, need, upload, requests, struck>>

\* Finalize, for the newest of the images.  Its file cannot be renamed from one
\* file system to another; it is copied if there is room.
Finalize ==
  /\ pc = "scan" /\ Unscanned = {}
  /\ found # {} /\ Wanted(Newest(found))
  /\ img' = Newest(found)
  /\ IF FreeSpace THEN /\ fw' = [fw EXCEPT ![Kind(img')] = Torn]
                       /\ orphan' = FALSE /\ pc' = "copy"
                  ELSE pc' = "erase" /\ UNCHANGED <<fw, orphan>>
  /\ UNCHANGED <<system, reboot, fit, root, medium, stick, touched, turn, caller, checked,
                 kind, scanned, found, need, upload, requests, struck>>

Copied ==
  /\ pc = "copy"
  /\ fw' = IF orphan THEN fw ELSE [fw EXCEPT ![Kind(img)] = img]
  /\ pc' = "erase"
  /\ UNCHANGED <<system, reboot, fit, root, medium, stick, touched, turn, caller, checked, img,
                 kind, scanned, found, orphan, need, upload, requests, struck>>

\* The fit is erased only after a copy that succeeded.
CopyFails ==
  /\ pc = "copy" /\ Trouble("copy")
  /\ pc' = "umount"
  /\ UNCHANGED <<system, reboot, fit, root, fw, medium, stick, touched, turn, caller, checked,
                 img, kind, scanned, found, orphan, need, upload, requests>>

\* The file on the stick is left there: remove_source is false.
EraseFit ==
  /\ pc = "erase"
  /\ fit' = Erased
  /\ need' = TRUE
  /\ pc' = "umount"
  /\ UNCHANGED <<system, reboot, root, fw, medium, stick, touched, turn, caller, checked, img,
                 kind, scanned, found, orphan, upload, requests, struck>>

\* The factory image flashes what has been prepared, the user image reboots.
Umount ==
  /\ pc = "umount"
  /\ touched' = {}
  /\ IF booted = "factory"
     THEN pc' = "chain" /\ UNCHANGED <<reboot, turn, checked>>
     ELSE reboot' = (reboot \/ need) /\ BackToLoop
  /\ UNCHANGED <<system, fit, root, fw, medium, stick, caller, img, kind, scanned, found,
                 orphan, need, upload, requests, struck>>

-----------------------------------------------------------------------------
(***************************************************************************)
(* UpdateImageStd: the web server has stored an image in DOWNLOAD_PATH and *)
(* a thread of Cnoda runs imcheck on it, whatever its version or hardware. *)
(***************************************************************************)
UpdateImageStd ==
  /\ web = "idle" /\ MayRequest
  /\ requests' = requests + 1
  /\ upl' \in Images
  /\ web' = "check" /\ parent' = TRUE
  /\ UNCHANGED <<system, reboot, fit, root, fw, medium, stick, touched, admin, accepted, struck>>

\* Deviation: the rename failed and nobody noticed.
ImcheckKeepsFile ==
  /\ web = "check"
  /\ web' = "erase"
  /\ UNCHANGED <<system, reboot, fit, root, fw, medium, stick, touched, admin, upl, parent,
                 accepted, requests, struck>>

\* Update_fw_check and the rename, within one file system; a copy under way to the
\* same name goes on into a file without a name.
ImcheckRenames ==
  /\ web = "check"
  /\ fw' = [fw EXCEPT ![Kind(upl)] = upl]
  /\ orphan' = (orphan \/ (pc = "copy" /\ Kind(img) = Kind(upl)))
  /\ web' = "erase"
  /\ UNCHANGED <<system, reboot, fit, root, medium, stick, touched, pc, turn, caller, checked,
                 img, kind, scanned, found, need, upl, parent, accepted, requests, struck>>

\* Deviation: the fit is not erased.
ImcheckKeepsFit ==
  /\ web = "erase"
  /\ web' = IF parent THEN "reboot" ELSE "idle"
  /\ UNCHANGED <<system, reboot, fit, root, fw, medium, stick, touched, admin, upl, parent,
                 accepted, requests, struck>>

ImcheckErases ==
  /\ web = "erase"
  /\ fit' = Erased
  /\ web' = IF parent THEN "reboot" ELSE "idle"
  /\ UNCHANGED <<system, reboot, root, fw, medium, stick, touched, admin, upl, parent, accepted, requests,
                 struck>>

UploadReboots ==
  /\ web = "reboot"
  /\ reboot' = TRUE /\ accepted' = upl
  /\ web' = "idle"
  /\ UNCHANGED <<system, fit, root, fw, medium, stick, touched, admin, upl, parent, requests,
                 struck>>

-----------------------------------------------------------------------------
(***************************************************************************)
(* Boots.  An orderly one writes everything to the media first; of a file  *)
(* that has not been written when the power fails, the old contents, the   *)
(* new ones or a part of them remain.                                      *)
(***************************************************************************)
Boot ==
  /\ booted' = BootImage(fit) /\ first' = TRUE /\ reboot' = FALSE
  /\ medium' = fw' /\ touched' = {}
  /\ pc' = "idle" /\ turn' = "first" /\ caller' = "loop" /\ checked' = FALSE
  /\ img' = None /\ kind' = "raw" /\ scanned' = {} /\ found' = {}
  /\ orphan' = FALSE /\ need' = FALSE
  /\ web' = "idle" /\ upl' = None /\ parent' = TRUE
  /\ UNCHANGED <<fit, root, accepted, requests>>

Reboot ==
  /\ reboot
  /\ UNCHANGED <<fw, stick, struck>>
  /\ Boot

Part(k) == IF fw[k] \in {medium[k], None} THEN {} ELSE {Torn}

PowerFails ==
  /\ Trouble("power")
  /\ fw' \in {f \in [Kinds -> Images \cup {None, Torn}] :
               \A k \in Kinds : f[k] \in {fw[k], medium[k]} \cup Part(k)}
  /\ stick' \in {s \in [Images -> {None, "whole", "blank"}] :
                  \A v \in Images : s[v] = stick[v] \/ (v \in touched /\ s[v] # None)}
  /\ Boot

\* Cnoda is killed and started again.  imcheck goes on, and nobody waits for it; a
\* dd under way ends, or dies too.
Kill ==
  /\ ~reboot /\ Trouble("kill")
  /\ root' \in (IF pc = "root" THEN {Torn, Flashed} ELSE {root})
  /\ fit' \in (IF pc = "fit" THEN {Torn, Flashed} ELSE {fit})
  /\ first' = FALSE
  /\ pc' = "idle" /\ checked' = FALSE
  /\ web' = IF web = "reboot" THEN "idle" ELSE web
  /\ parent' = FALSE
  /\ UNCHANGED <<booted, reboot, fw, medium, stick, touched, turn, caller, img, kind, scanned,
                 found, orphan, need, upl, accepted, requests>>

Chain == \/ LoopStarts \/ ChainDeclines \/ ChainFlashes \/ RootWritten \/ FitWritten
         \/ DropSource \/ Settle
Search == \/ CheckFile \/ RestorePassport \/ SearchEnds \/ Finalize \/ Copied \/ CopyFails
          \/ EraseFit \/ Umount
Imcheck == ImcheckRenames \/ ImcheckErases \/ UploadReboots

Next == \/ Chain \/ Search \/ Imcheck \/ CheckStorages \/ UpdateImageStd
        \/ Reboot \/ PowerFails \/ Kill

Spec == Init /\ [][Next]_vars

-----------------------------------------------------------------------------
(***************************************************************************)
(* Properties.                                                             *)
(***************************************************************************)
Whole(v) == stick[v] = "whole" \/ (pc = "restore" /\ img = v)
OnStick == {v \in Images : Whole(v)}

\* What a search would prepare, and what the factory image has to flash: a torn file
\* that is not compressed hides the compressed one for good.
Offered == FindUpdates /\ OnStick # {} /\ Newest(OnStick) \in Fitting
Available ==
  \/ fw[Selected] \in Images
  \/ Offered /\ (Kind(Newest(OnStick)) = "raw" \/ fw["raw"] # Torn)

\* Wherever the power fails or the process is killed, and whatever write fails: the
\* boot loader never finds a good fit beside a root that is not of the same image,
\* although it looks at the fit only.  A good fit that is judged bad is the exception:
\* the second try overwrites root while the fit beside it is good.
RootMatchesFit == fit \in Images /\ "md5" \notin struck => root = fit

\* The user image is given up only when there is an image to flash in its place,
\* however an upload and a search interleave, and whichever one thing goes wrong,
\* short of a power failure.
Replaceable ==
  fit = Erased /\ booted = "user" /\ "power" \notin struck /\ Cardinality(struck) < 2
    => Available

\* The threads run, the web server connects, and a reboot happens.
FairSpec == Spec /\ WF_vars(Chain \/ Search) /\ WF_vars(Imcheck) /\ WF_vars(Reboot)

\* After a kill nothing is flashed until somebody reboots, a copy is not tried again,
\* and there are two tries at flashing an image (see RootMatchesFit for "md5").
GivesUp == {"kill", "copy", "md5"} \cap struck # {} \/ {"root", "fit"} \subseteq struck

\* Unless it gives up, or a power failure leaves no image to flash, the update ends,
\* however often it has to start again: the user image runs, and it is the newest
\* one on the stick although the stick stays in.
Settles ==
  <>[](\/ GivesUp
       \/ ~Available /\ fit \notin Images
       \/ booted = "user" /\ (Offered => fit = Newest(OnStick)))

\* With nothing on the sticks, and unless the update gives up or the power fails, an
\* upload answered "update_ok" is installed; or it stays in firmware.gzip because an
\* uncompressed file was preferred to it.
UploadInstalled ==
  <>[](accepted = None \/ GivesUp \/ "power" \in struck
       \/ (\E v \in Images : stick[v] # None) \/ accepted \in {fit, fw["gzip"]})

\* "Copies the source file to the update directory and erases u_fit" (the comment on
\* FIT_ROOTx2_RWx1_Finalize): when the fit has been erased to have an image flashed,
\* the image is in FIRMWARE_PATH.
CopiedBeforeErase ==
  booted = "user" /\ fit = Erased => \E k \in Kinds : fw[k] \in Images
===============================================================================
