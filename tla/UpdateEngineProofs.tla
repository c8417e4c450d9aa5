-------------------------- MODULE UpdateEngineProofs --------------------------
(***************************************************************************)
(* For any images, versions, options and troubles: when updates are asked  *)
(* for in the user image only, the fit that the boot loader trusts is      *)
(* never beside a root of another image.  The inductive invariant says     *)
(* that only the factory image flashes and that nothing replaces its file  *)
(* meanwhile (FlashesAlone, FitFollowsRoot), and that a factory image      *)
(* beside a good fit will not flash again (Finished).                      *)
(*                                                                         *)
(* And, when the sticks are searched for images of this hardware, that the *)
(* fit of the user image is not erased for nothing (the second part).      *)
(***************************************************************************)
EXTENDS UpdateEngine, TLAPS, FiniteSetTheorems, WellFoundedInduction

\* An image is at hand while it is flashed, and while its passport is blank.
Named == pc \in Flashing \cup {"restore"} => img \in Images

\* Flashing happens in the factory image, before the reboot, and nobody disturbs it.
FlashesAlone ==
  /\ booted = "factory" => web = "idle"
  /\ pc \in Flashing => booted = "factory" /\ ~reboot

\* When fit is written, root is the image at hand, which is still in the file.
FitFollowsRoot == pc = "fit" => fit = Torn /\ root = img /\ fw[kind] = img

\* The factory image runs beside a good fit only when the flashing is over: until the
\* reboot, or after a kill.
Finished ==
  booted = "factory" /\ fit \in Images /\ "md5" \notin struck =>
    reboot \/ pc \in {"drop", "settle"} \/ (~first /\ pc = "idle")

\* What has to be shown of a step, its types being known.
Safe == FlashesAlone /\ FitFollowsRoot /\ Finished /\ RootMatchesFit

IInv == TypeOK /\ Named /\ Safe

-----------------------------------------------------------------------------
\* The order of versions has a maximum on every set of images: the image with the
\* fewest newer ones.
LEMMA NewestIsOne ==
  ASSUME NEW S \in SUBSET Images, S # {}
  PROVE  Newest(S) \in S
<1> DEFINE Newer(v) == {w \in S : Version[v] < Version[w]}
           Counts == {Cardinality(Newer(v)) : v \in S}
<1>1. IsFiniteSet(S) /\ \A v \in S : Version[v] \in Nat
  BY FS_Subset, UpdateAssumption DEF UpdateAssumption
<1>2. \A v \in S : IsFiniteSet(Newer(v)) /\ Cardinality(Newer(v)) \in Nat
  BY <1>1, FS_Subset, FS_CardinalityType
<1>3. Counts # {} /\ Counts \subseteq Nat
  BY <1>2
<1>4. PICK c \in Counts : \A d \in Counts : <<d, c>> \notin OpToRel(<, Nat)
  <2> HIDE DEF Counts
  <2> QED
    BY <1>3, WFMin, NatLessThanWellFounded
<1>5. PICK v \in S : c = Cardinality(Newer(v))
  BY <1>4
<1>6. \A w \in S : ~(Cardinality(Newer(w)) < Cardinality(Newer(v)))
  BY <1>2, <1>4, <1>5 DEF OpToRel
<1>7. ASSUME NEW w \in S, ~(Version[w] <= Version[v])
      PROVE  FALSE
  <2>1. w \in Newer(v) /\ w \notin Newer(w) /\ Newer(w) \in SUBSET Newer(v)
    BY <1>1, <1>7
  <2>2. Cardinality(Newer(w)) < Cardinality(Newer(v))
    <3> HIDE DEF Newer
    <3> QED
      BY <2>1, <1>2, <1>7, FS_Subset
  <2> QED
    BY <2>2, <1>6
<1> QED
  BY <1>7 DEF Newest

\* A file is of one of the two kinds, and dd puts an image or a torn one in a partition.
LEMMA FileTypes ==
  ASSUME TypeOK
  PROVE  /\ Selected \in Kinds /\ \A v : Kind(v) \in Kinds
         /\ Flashed \in Images \cup {Torn}
         /\ fw[Selected] \in Images \cup {None, Torn}
BY DEF TypeOK, Selected, Kind, Kinds, Flashed

LEMMA SentinelsApart == {None, Torn, Erased} \cap Images = {}
BY UpdateAssumption DEF UpdateAssumption

LEMMA InitTypes == Init => TypeOK /\ Named
<1> SUFFICES ASSUME Init PROVE TypeOK /\ Named
  OBVIOUS
<1>1. /\ booted \in {"user", "factory"}
      /\ fit \in Images \cup {Torn, Erased} /\ root \in Images \cup {Torn}
      /\ stick \in [Images -> {None, "whole", "blank"}]
  BY DEF Init, BootImage
<1>2. requests \in 0..MaxRequests
  BY UpdateAssumption DEF Init, UpdateAssumption
<1>3. /\ fw \in [Kinds -> Images \cup {None, Torn}]
      /\ medium \in [Kinds -> Images \cup {None, Torn}]
  BY DEF Init
<1> QED
  BY <1>1, <1>2, <1>3 DEF Init, TypeOK, Named, Kinds, Flashing

\* What CheckAndUpdate leaves when it returns.
Returned ==
  /\ pc' \in {"idle", "chain", "scan"} /\ turn' \in {"first", "find", "last"}
  /\ caller' \in {"loop", "message"} /\ checked' \in BOOLEAN
  /\ scanned' \subseteq Images /\ found' \subseteq Images
  /\ orphan' \in BOOLEAN /\ need' \in BOOLEAN

LEMMA ReturnTypes == ASSUME TypeOK, NEW ok, ChainReturns(ok) PROVE Returned
BY DEF TypeOK, ChainReturns, BackToLoop, Returned

LEMMA TroubleTypes ==
  ASSUME TypeOK, NEW t, Trouble(t)
  PROVE  struck' \subseteq Troubles
BY DEF TypeOK, Trouble

LEMMA BootTypes ==
  ASSUME TypeOK, Boot, fw' \in [Kinds -> Images \cup {None, Torn}],
         stick' \in [Images -> {None, "whole", "blank"}], struck' \subseteq Troubles
  PROVE  TypeOK' /\ Named'
BY DEF TypeOK, Named, Boot, BootImage, Kinds, Flashing

LEMMA ChainTypes == TypeOK /\ Named /\ Chain => TypeOK' /\ Named'
<1> SUFFICES ASSUME TypeOK, Named, Chain PROVE TypeOK' /\ Named'
  OBVIOUS
<1> USE DEF system, upload
<1>1. CASE LoopStarts
  BY <1>1 DEF TypeOK, Named, LoopStarts, Flashing
<1>2. CASE ChainDeclines
  <2>1. Returned
    BY <1>2, ReturnTypes DEF ChainDeclines
  <2> QED
    BY <1>2, <2>1 DEF TypeOK, Named, ChainDeclines, Returned, Flashing, Searching
<1>3. CASE ChainFlashes
  BY <1>3, FileTypes DEF TypeOK, Named, ChainFlashes, Flashing
<1>4. CASE RootWritten
  <2>1. root' \in Images \cup {Torn} /\ struck' \subseteq Troubles
    BY <1>4, FileTypes, TroubleTypes DEF TypeOK, RootWritten
  <2>2. CASE root' = img
    BY <1>4, <2>1, <2>2 DEF TypeOK, Named, RootWritten, Flashing
  <2>3. CASE root' # img
    <3>1. Returned /\ fit' = fit
      BY <1>4, <2>3, ReturnTypes DEF RootWritten
    <3> QED
      BY <1>4, <2>1, <3>1 DEF TypeOK, Named, RootWritten, Returned, Flashing, Searching
  <2> QED
    BY <2>2, <2>3
<1>5. CASE FitWritten
  <2>1. fit' \in Images \cup {Torn, Erased} /\ struck' \subseteq Troubles
    BY <1>5, FileTypes, TroubleTypes DEF TypeOK, FitWritten
  <2>2. \/ Returned
        \/ /\ pc' = "drop"
           /\ UNCHANGED <<turn, caller, checked, scanned, found, orphan, need>>
    BY <1>5, ReturnTypes DEF FitWritten, FitJudged
  <2>3. img' = img /\ (pc' \in Flashing => img \in Images)
    BY <1>5 DEF Named, FitWritten, Flashing
  <2>4. CASE Returned
    BY <1>5, <2>1, <2>3, <2>4 DEF TypeOK, Named, FitWritten, Returned, Flashing, Searching
  <2>5. CASE ~Returned
    BY <1>5, <2>1, <2>2, <2>3, <2>5 DEF TypeOK, Named, FitWritten, Flashing
  <2> QED
    BY <2>4, <2>5
<1>6. CASE DropSource
  BY <1>6 DEF TypeOK, Named, DropSource, Flashing
<1>7. CASE Settle
  <2>1. Returned
    BY <1>7, ReturnTypes DEF Settle
  <2> QED
    BY <1>7, <2>1 DEF TypeOK, Named, Settle, Returned, Flashing, Searching
<1> QED
  BY <1>1, <1>2, <1>3, <1>4, <1>5, <1>6, <1>7 DEF Chain

LEMMA SearchTypes == TypeOK /\ Named /\ Search => TypeOK' /\ Named'
<1> SUFFICES ASSUME TypeOK, Named, Search PROVE TypeOK' /\ Named'
  OBVIOUS
<1> USE DEF system, upload
<1>1. CASE CheckFile
  BY <1>1 DEF TypeOK, Named, CheckFile, Unscanned, Flashing, Searching
<1>2. CASE RestorePassport
  BY <1>2 DEF TypeOK, Named, RestorePassport, Flashing, Searching
<1>3. CASE SearchEnds
  BY <1>3 DEF TypeOK, Named, SearchEnds, Flashing, Searching
<1>4. CASE Finalize
  <2>1. img' \in Images
    BY <1>4, NewestIsOne DEF TypeOK, Finalize
  <2> QED
    <3>1. fw' \in [Kinds -> Images \cup {None, Torn}]
      BY <1>4, FileTypes DEF TypeOK, Finalize
    <3>2. pc' \in {"copy", "erase"} /\ orphan' \in BOOLEAN
      BY <1>4 DEF TypeOK, Finalize
    <3> QED
      BY <1>4, <2>1, <3>1, <3>2 DEF TypeOK, Named, Finalize, Flashing, Searching
<1>5. CASE Copied
  BY <1>5, FileTypes DEF TypeOK, Named, Copied, Flashing, Searching
<1>6. CASE CopyFails
  BY <1>6, TroubleTypes DEF TypeOK, Named, CopyFails, Flashing, Searching
<1>7. CASE EraseFit
  BY <1>7 DEF TypeOK, Named, EraseFit, Flashing, Searching
<1>8. CASE Umount
  <2>1. /\ pc' \in {"idle", "chain"} /\ turn' \in {"first", "find", "last"}
        /\ checked' \in BOOLEAN /\ reboot' \in BOOLEAN
    BY <1>8 DEF TypeOK, Umount, BackToLoop
  <2> QED
    BY <1>8, <2>1 DEF TypeOK, Named, Umount, Flashing, Searching
<1> QED
  BY <1>1, <1>2, <1>3, <1>4, <1>5, <1>6, <1>7, <1>8 DEF Search

LEMMA OtherTypes ==
  TypeOK /\ Named /\ (\/ Imcheck \/ CheckStorages \/ UpdateImageStd
                      \/ Reboot \/ PowerFails \/ Kill)
    => TypeOK' /\ Named'
<1> SUFFICES ASSUME TypeOK, Named,
                    \/ Imcheck \/ CheckStorages \/ UpdateImageStd
                    \/ Reboot \/ PowerFails \/ Kill
             PROVE  TypeOK' /\ Named'
  OBVIOUS
<1> USE DEF system, upload, admin
<1>1. CASE ImcheckRenames
  BY <1>1, FileTypes DEF TypeOK, Named, ImcheckRenames
<1>2. CASE ImcheckErases
  BY <1>2 DEF TypeOK, Named, ImcheckErases
<1>3. CASE UploadReboots
  BY <1>3 DEF TypeOK, Named, UploadReboots
<1>4. CASE CheckStorages
  <2>1. requests' \in 0..MaxRequests
    BY <1>4, UpdateAssumption DEF TypeOK, CheckStorages, MayRequest, UpdateAssumption
  <2>2. /\ pc' = "scan" /\ turn' = "find" /\ caller' = "message"
        /\ scanned' \subseteq Images /\ found' \subseteq Images /\ need' \in BOOLEAN
    BY <1>4 DEF CheckStorages
  <2>3. UNCHANGED <<system, reboot, fit, root, fw, medium, stick, touched, checked, img,
                    kind, orphan, upload, struck>>
    BY <1>4 DEF CheckStorages
  <2> QED
    BY <2>1, <2>2, <2>3 DEF TypeOK, Named, Flashing, Searching
<1>5. CASE UpdateImageStd
  BY <1>5, UpdateAssumption DEF TypeOK, Named, UpdateImageStd, MayRequest, UpdateAssumption
<1>6. CASE Reboot
  BY <1>6, BootTypes DEF TypeOK, Reboot
<1>7. CASE PowerFails
  BY <1>7, BootTypes, TroubleTypes DEF PowerFails
<1>8. CASE Kill
  <2>1. root' \in Images \cup {Torn} /\ fit' \in Images \cup {Torn, Erased}
    BY <1>8, FileTypes DEF TypeOK, Kill
  <2>2. struck' \subseteq Troubles /\ pc' = "idle"
    BY <1>8, TroubleTypes DEF Kill
  <2>3. web' \in {"idle", "check", "erase", "reboot"}
    BY <1>8 DEF TypeOK, Kill
  <2> QED
    BY <1>8, <2>1, <2>2, <2>3 DEF TypeOK, Named, Kill, Flashing
<1> QED
  BY <1>1, <1>2, <1>3, <1>4, <1>5, <1>6, <1>7, <1>8 DEF Imcheck

LEMMA StutterTypes == TypeOK /\ Named /\ UNCHANGED vars => TypeOK' /\ Named'
BY DEF TypeOK, Named, vars, system, admin, upload

\* Type correctness of the model, and the image at hand when one is needed.
THEOREM Typing == Spec => []TypeOK
<1>1. TypeOK /\ Named /\ [Next]_vars => TypeOK' /\ Named'
  BY ChainTypes, SearchTypes, OtherTypes, StutterTypes DEF Next
<1> QED
  BY <1>1, InitTypes, PTL DEF Spec

-----------------------------------------------------------------------------
LEMMA InitIInv == Init => IInv
<1>1. Init => Safe
  BY SentinelsApart
     DEF Init, BootImage, Safe, FlashesAlone, FitFollowsRoot, Finished, RootMatchesFit,
         Flashing
<1> QED
  BY <1>1, InitTypes DEF IInv, Safe

\* A failed try leaves the chain; nothing else of the invariant depends on where it goes.
LEMMA ReturnLeaves == ASSUME NEW ok, ChainReturns(ok) PROVE pc' \in {"idle", "chain", "scan"}
BY DEF ChainReturns, BackToLoop

LEMMA ChainSafe == IInv /\ Chain => Safe'
<1> SUFFICES ASSUME IInv, Chain PROVE Safe'
  OBVIOUS
<1> USE SentinelsApart
    DEF system, upload, IInv, Safe, FlashesAlone, FitFollowsRoot, Finished, RootMatchesFit,
        Flashing
<1>1. CASE LoopStarts
  BY <1>1 DEF LoopStarts
<1>2. CASE ChainDeclines
  <2>1. pc' \in {"idle", "chain", "scan"}
    BY <1>2, ReturnLeaves DEF ChainDeclines
  <2> QED
    BY <1>2, <2>1 DEF ChainDeclines
<1>3. CASE ChainFlashes
  BY <1>3 DEF ChainFlashes
<1>4. CASE RootWritten
  <2>1. img \in Images /\ booted = "factory" /\ ~reboot
    BY <1>4 DEF RootWritten, Named
  <2>2. "md5" \notin struck => fit \notin Images
    BY <1>4, <2>1 DEF RootWritten
  <2>3. struck \subseteq struck'
    BY <1>4 DEF RootWritten, Trouble
  <2>4. CASE root' = img
    <3>1. root' = Flashed
      BY <1>4, <2>1, <2>4 DEF RootWritten
    <3>2. fw[kind] = img
      BY <2>1, <2>4, <3>1 DEF Flashed
    <3> QED
      BY <1>4, <2>1, <2>4, <3>2 DEF RootWritten
  <2>5. CASE root' # img
    <3>1. fit' = fit /\ pc' \in {"idle", "chain", "scan"}
      BY <1>4, <2>5, ReturnLeaves DEF RootWritten
    <3> QED
      BY <1>4, <2>1, <2>2, <2>3, <3>1 DEF RootWritten
  <2> QED
    BY <2>4, <2>5
<1>5. CASE FitWritten
  <2>1. img \in Images /\ booted = "factory" /\ ~reboot /\ root = img /\ Flashed = img
    BY <1>5 DEF FitWritten, Named, Flashed
  <2>2. pc' \in {"drop", "idle", "chain", "scan"}
    BY <1>5, ReturnLeaves DEF FitWritten, FitJudged
  <2>3. \/ fit' = img /\ pc' = "drop"
        \/ fit' = Torn
        \/ fit' = img /\ "md5" \in struck'
    BY <1>5, <2>1 DEF FitWritten, FitJudged, Trouble
  <2> QED
    BY <1>5, <2>1, <2>2, <2>3 DEF FitWritten
<1>6. CASE DropSource
  BY <1>6 DEF DropSource
<1>7. CASE Settle
  <2>1. pc' \in {"idle", "chain", "scan"}
    BY <1>7, ReturnLeaves DEF Settle
  <2> QED
    BY <1>7, <2>1 DEF Settle
<1> QED
  BY <1>1, <1>2, <1>3, <1>4, <1>5, <1>6, <1>7 DEF Chain

\* A search may go on after a good fit only on the way to a reboot.
LEMMA SearchSafe == IInv /\ Search => Safe'
<1> SUFFICES ASSUME IInv, Search PROVE Safe'
  OBVIOUS
<1> USE SentinelsApart
    DEF system, upload, IInv, Safe, FlashesAlone, FitFollowsRoot, Finished, RootMatchesFit,
        Flashing
<1>1. CASE CheckFile
  BY <1>1 DEF CheckFile
<1>2. CASE RestorePassport
  BY <1>2 DEF RestorePassport
<1>3. CASE SearchEnds
  BY <1>3 DEF SearchEnds
<1>4. CASE Finalize
  BY <1>4 DEF Finalize
<1>5. CASE Copied
  BY <1>5 DEF Copied
<1>6. CASE CopyFails
  BY <1>6 DEF CopyFails, Trouble
<1>7. CASE EraseFit
  BY <1>7 DEF EraseFit
<1>8. CASE Umount
  BY <1>8 DEF Umount, BackToLoop
<1> QED
  BY <1>1, <1>2, <1>3, <1>4, <1>5, <1>6, <1>7, <1>8 DEF Search

\* imcheck runs in the user image only, where nothing is flashed.
LEMMA RequestSafe ==
  ASSUME RequestsIn \subseteq {"user"}, IInv, Imcheck \/ CheckStorages \/ UpdateImageStd
  PROVE  Safe'
<1> USE SentinelsApart
    DEF system, upload, admin, IInv, Safe, FlashesAlone, FitFollowsRoot, Finished,
        RootMatchesFit, Flashing
<1>1. CASE ImcheckRenames
  BY <1>1 DEF ImcheckRenames
<1>2. CASE ImcheckErases
  BY <1>2 DEF ImcheckErases
<1>3. CASE UploadReboots
  BY <1>3 DEF UploadReboots
<1>4. CASE CheckStorages
  BY <1>4 DEF CheckStorages, MayRequest
<1>5. CASE UpdateImageStd
  BY <1>5 DEF UpdateImageStd, MayRequest
<1> QED
  BY <1>1, <1>2, <1>3, <1>4, <1>5 DEF Imcheck

\* A boot changes neither partition; it starts the factory image beside a bad fit only.
LEMMA BootSafe ==
  ASSUME IInv, Boot, struck \subseteq struck'
  PROVE  Safe'
BY DEF IInv, Safe, FlashesAlone, FitFollowsRoot, Finished, RootMatchesFit, Flashing, Boot,
       BootImage

LEMMA KillSafe == IInv /\ Kill => Safe'
<1> SUFFICES ASSUME IInv, Kill PROVE Safe'
  OBVIOUS
<1>1. /\ pc' = "idle" /\ ~first' /\ struck \subseteq struck'
      /\ booted' = booted /\ (web = "idle" => web' = "idle")
  BY DEF Kill, Trouble
<1>2. CASE pc = "root"
  BY <1>1, <1>2 DEF IInv, Safe, FlashesAlone, FitFollowsRoot, Finished, RootMatchesFit,
                    Flashing, Kill
<1>3. CASE pc = "fit"
  <2>1. root = img /\ Flashed = img /\ img \in Images /\ root' = root
    BY <1>3 DEF IInv, Safe, Named, FitFollowsRoot, Flashing, Flashed, Kill
  <2>2. fit' \in {Torn, img}
    BY <1>3, <2>1 DEF Kill
  <2> QED
    BY <1>1, <1>3, <2>1, <2>2, SentinelsApart
       DEF IInv, Safe, FlashesAlone, FitFollowsRoot, Finished, RootMatchesFit, Flashing
<1>4. CASE pc \notin {"root", "fit"}
  BY <1>1, <1>4 DEF IInv, Safe, FlashesAlone, FitFollowsRoot, Finished, RootMatchesFit,
                    Flashing, Kill
<1> QED
  BY <1>2, <1>3, <1>4

LEMMA NextIInv ==
  ASSUME RequestsIn \subseteq {"user"}, IInv, [Next]_vars
  PROVE  IInv'
<1>1. TypeOK /\ Named
  BY DEF IInv
<1>2. CASE Chain
  BY <1>1, <1>2, ChainTypes, ChainSafe DEF IInv, Safe
<1>3. CASE Search
  BY <1>1, <1>3, SearchTypes, SearchSafe DEF IInv, Safe
<1>4. CASE Imcheck \/ CheckStorages \/ UpdateImageStd
  <2>1. Safe'
    BY <1>4, RequestSafe
  <2> QED
    BY <1>1, <1>4, <2>1, OtherTypes DEF IInv, Safe
<1>5. CASE Reboot \/ PowerFails
  <2>1. Boot /\ struck \subseteq struck'
    BY <1>5 DEF Reboot, PowerFails, Trouble
  <2>2. Safe'
    BY <2>1, BootSafe
  <2> QED
    BY <1>1, <1>5, <2>2, OtherTypes DEF IInv, Safe
<1>6. CASE Kill
  BY <1>1, <1>6, OtherTypes, KillSafe DEF IInv, Safe
<1>7. CASE UNCHANGED vars
  <2>1. TypeOK' /\ Named'
    BY <1>1, <1>7, StutterTypes
  <2> QED
    BY <1>7, <2>1 DEF IInv, Safe, FlashesAlone, FitFollowsRoot, Finished, RootMatchesFit, vars,
                      system, admin, upload
<1> QED
  BY <1>2, <1>3, <1>4, <1>5, <1>6, <1>7 DEF Next

\* When updates are asked for in the user image only, and whatever else fails: a fit that
\* is whole is beside the root of the same image, unless it was judged bad when it was
\* good.
THEOREM RootAlwaysMatchesFit ==
  ASSUME RequestsIn \subseteq {"user"}
  PROVE  Spec => []RootMatchesFit
<1>1. IInv /\ [Next]_vars => IInv'
  BY NextIInv
<1>2. IInv => RootMatchesFit
  BY DEF IInv, Safe
<1> QED
  BY <1>1, <1>2, InitIInv, PTL DEF Spec

-----------------------------------------------------------------------------
(***************************************************************************)
(* Replaceable, when the search looks at the sticks and only takes images  *)
(* that are for this hardware.                                             *)
(***************************************************************************)
\* The newest image on the sticks, and whether a search can end with it.
Best == Newest(OnStick)
Offer == OnStick # {} /\ Best \in Fitting

\* No power failure, and one thing gone wrong at most.
Mild == "power" \notin struck /\ Cardinality(struck) < 2

\* What a search has found is what is on the sticks, and the newest of it is copied.
Knows ==
  pc \in {"scan", "restore"} =>
    /\ found = {v \in scanned : stick[v] = "whole"}
    /\ pc = "restore" => img \in scanned /\ stick[img] = "blank"
Chosen == pc \in {"copy", "erase"} => Offer /\ img = Best
Target == pc = "copy" => fw[Kind(img)] # None /\ (orphan => fw[Kind(img)] # Torn)
Given == web # "idle" => upl \in Images
Sought == Knows /\ Chosen /\ Target /\ Given

\* When the factory image has flashed one, no uncompressed file is left; and the user
\* image goes down only for an update.
RawGone ==
  /\ pc \in {"root", "fit", "drop"} => kind = "raw" \/ fw["raw"] = None
  /\ pc = "settle" => fw["raw"] = None
Ready == booted = "factory" /\ reboot => pc \in {"idle", "chain"} /\ fw["raw"] # Torn
Leaving == booted = "user" /\ (reboot \/ web = "reboot" \/ need) => fit = Erased
HandedOver == RawGone /\ Ready /\ Leaving

\* A torn file hides nothing but itself: the image it was to be is still on the stick.
TornRaw ==
  booted = "user" /\ Mild /\ fw["raw"] = Torn =>
    /\ Offer /\ Kind(Best) = "raw"
    /\ struck # {} \/ (pc = "copy" /\ Kind(img) = "raw" /\ ~orphan)

\* The source of an update that has been prepared: a file, or the image on the stick,
\* which nothing can spoil any more.
Sourced ==
  \/ fw["raw"] # None \/ fw["gzip"] \in Images
  \/ Offer /\ (reboot \/ struck # {} \/ pc = "copy" \/ (pc = "umount" /\ need))
HasSource == booted = "user" /\ Mild /\ (fit = Erased \/ web = "erase") => Sourced

RInv == IInv /\ Sought /\ HandedOver /\ TornRaw /\ HasSource

\* While the same images are on the sticks, the newest one is the same.
LEMMA StickKept ==
  ASSUME OnStick' = OnStick
  PROVE  Best' = Best /\ Offer' = Offer
BY DEF Best, Offer, Newest

LEMMA SameStick ==
  ASSUME stick' = stick, pc # "restore", pc' # "restore"
  PROVE  OnStick' = OnStick
BY DEF OnStick, Whole

LEMMA SameRestore ==
  ASSUME stick' = stick, pc' = pc, img' = img
  PROVE  OnStick' = OnStick
BY DEF OnStick, Whole

\* When there is at most one trouble after a trouble, there was none before it.
LEMMA MildTrouble ==
  ASSUME TypeOK, NEW t, Trouble(t)
  PROVE  (Mild' => Mild /\ struck = {}) /\ struck' # {}
<1>1. IsFiniteSet(struck)
  <2>1. IsFiniteSet({"power", "kill", "root", "fit", "copy", "md5"})
    <3>1. IsFiniteSet({"power"} \cup {"kill"})
      BY FS_Singleton, FS_AddElement
    <3>2. IsFiniteSet({"power"} \cup {"kill"} \cup {"root"} \cup {"fit"})
      BY <3>1, FS_AddElement
    <3>3. IsFiniteSet({"power"} \cup {"kill"} \cup {"root"} \cup {"fit"} \cup {"copy"} \cup {"md5"})
      BY <3>2, FS_AddElement
    <3>4. {"power", "kill", "root", "fit", "copy", "md5"}
            = {"power"} \cup {"kill"} \cup {"root"} \cup {"fit"} \cup {"copy"} \cup {"md5"}
      OBVIOUS
    <3> QED
      BY <3>3, <3>4
  <2> QED
    BY <2>1, FS_Subset, UpdateAssumption DEF TypeOK, UpdateAssumption
<1>2. t \notin struck /\ struck' = struck \cup {t}
  BY DEF Trouble
<1>3. Cardinality(struck') = Cardinality(struck) + 1
  BY <1>1, <1>2, FS_AddElement
<1>4. Cardinality(struck) \in Nat /\ (Cardinality(struck) = 0 <=> struck = {})
  BY <1>1, FS_CardinalityType, FS_EmptySet
<1> QED
  BY <1>2, <1>3, <1>4 DEF Mild

\* A search that is over has found every image.
LEMMA FoundAll ==
  ASSUME TypeOK, Knows, pc = "scan", Unscanned = {}
  PROVE  found = OnStick
<1>1. found = {v \in scanned : stick[v] = "whole"} /\ scanned \subseteq Images
  BY DEF TypeOK, Knows
<1>2. \A v \in Images : stick[v] = "whole" => v \in scanned
  BY DEF Unscanned, None
<1>3. OnStick = {v \in Images : stick[v] = "whole"}
  BY DEF OnStick, Whole
<1> QED
  BY <1>1, <1>2, <1>3

LEMMA BestIs ==
  ASSUME TypeOK, Offer
  PROVE  Best \in Images /\ Best \in OnStick
<1>1. OnStick \in SUBSET Images /\ OnStick # {}
  BY DEF OnStick, Offer
<1> QED
  BY <1>1, NewestIsOne DEF Best

LEMMA InitRInv == Init => RInv
<1> SUFFICES ASSUME Init PROVE RInv
  OBVIOUS
<1>1. Sought /\ HandedOver
  BY SentinelsApart
     DEF Init, Sought, HandedOver, Knows, Chosen, Target, Given, RawGone, Ready, Leaving, Kinds
<1>2. TornRaw /\ HasSource
  BY SentinelsApart DEF Init, TornRaw, HasSource, Kinds, BootImage, None, Torn, Erased
<1> QED
  BY <1>1, <1>2, InitIInv DEF RInv

\* CheckAndUpdate returns to a search that has found nothing yet, or not to a search.
LEMMA ReturnFresh ==
  ASSUME NEW ok, ChainReturns(ok)
  PROVE  /\ pc' \in {"idle", "chain", "scan"} /\ found' = {} /\ scanned' = {} /\ need' = FALSE
         /\ ok = TRUE => pc' \in {"idle", "chain"}
BY DEF ChainReturns, BackToLoop

LEMMA FreshSearch ==
  ASSUME Given, pc' \notin {"restore", "copy", "erase"},
         pc' = "scan" => found' = {} /\ scanned' = {},
         web' # "idle" => web # "idle" /\ upl' = upl
  PROVE  Sought'
BY DEF Sought, Knows, Chosen, Target, Given

LEMMA ChainSought == Given /\ Chain => Sought'
<1> SUFFICES ASSUME Given, Chain PROVE Sought'
  OBVIOUS
<1> USE FreshSearch DEF upload
<1>1. CASE LoopStarts
  BY <1>1 DEF LoopStarts
<1>2. CASE ChainDeclines
  BY <1>2, ReturnFresh DEF ChainDeclines
<1>3. CASE ChainFlashes
  BY <1>3 DEF ChainFlashes
<1>4. CASE RootWritten
  <2>1. CASE root' = img
    BY <1>4, <2>1 DEF RootWritten
  <2>2. CASE root' # img
    BY <1>4, <2>2, ReturnFresh DEF RootWritten
  <2> QED
    BY <2>1, <2>2
<1>5. CASE FitWritten
  <2>1. pc' = "drop" \/ (pc' \in {"idle", "chain", "scan"} /\ found' = {} /\ scanned' = {})
    BY <1>5, ReturnFresh DEF FitWritten, FitJudged
  <2> QED
    BY <1>5, <2>1 DEF FitWritten
<1>6. CASE DropSource
  BY <1>6 DEF DropSource
<1>7. CASE Settle
  BY <1>7, ReturnFresh DEF Settle
<1> QED
  BY <1>1, <1>2, <1>3, <1>4, <1>5, <1>6, <1>7 DEF Chain

\* The images on the sticks stay the same while they are checked.
LEMMA SearchStick == TypeOK /\ Named /\ Sought /\ Search => OnStick' = OnStick
<1> SUFFICES ASSUME TypeOK, Named, Sought, Search PROVE OnStick' = OnStick
  OBVIOUS
<1>1. CASE CheckFile
  <2>1. pc = "scan" /\ stick \in [Images -> {None, "whole", "blank"}]
    BY <1>1 DEF CheckFile, TypeOK
  <2>2. PICK v \in Unscanned :
          IF stick[v] = "whole"
          THEN /\ stick' = [stick EXCEPT ![v] = "blank"]
               /\ img' = v /\ pc' = "restore"
          ELSE UNCHANGED <<stick, img, pc>>
    BY <1>1 DEF CheckFile
  <2>3. \A w \in Images : Whole(w)' <=> Whole(w)
    BY <2>1, <2>2 DEF Whole
  <2> QED
    BY <2>3 DEF OnStick
<1>2. CASE RestorePassport
  <2>1. /\ pc = "restore" /\ pc' = "scan" /\ img \in Images
        /\ stick \in [Images -> {None, "whole", "blank"}]
        /\ stick' = [stick EXCEPT ![img] = "whole"]
    BY <1>2 DEF RestorePassport, TypeOK, Named
  <2>2. \A w \in Images : Whole(w)' <=> Whole(w)
    BY <2>1 DEF Whole
  <2> QED
    BY <2>2 DEF OnStick
<1>3. CASE SearchEnds \/ Finalize \/ Copied \/ CopyFails \/ EraseFit \/ Umount
  <2>1. pc # "restore" /\ pc' # "restore" /\ stick' = stick
    BY <1>3 DEF SearchEnds, Finalize, Copied, CopyFails, EraseFit, Umount, BackToLoop
  <2> QED
    BY <2>1, SameStick
<1> QED
  BY <1>1, <1>2, <1>3 DEF Search

\* Finalize takes the newest of what is on the sticks.
LEMMA Finalized ==
  ASSUME ~Forced, TypeOK, Knows, Finalize
  PROVE  Offer /\ img' = Best
<1>1. found = OnStick
  BY FoundAll DEF Finalize
<1> QED
  BY <1>1 DEF Finalize, Wanted, Offer, Best

LEMMA SearchSought ==
  ASSUME ~Forced, TypeOK, Named, Sought, Search
  PROVE  Sought'
<1>1. Best' = Best /\ Offer' = Offer
  BY SearchStick, StickKept
<1>2. web' = web /\ upl' = upl /\ Given'
  BY DEF Search, CheckFile, RestorePassport, SearchEnds, Finalize, Copied, CopyFails, EraseFit,
         Umount, upload, Sought, Given
<1>3. CASE CheckFile
  <2>1. PICK v \in Unscanned :
          /\ scanned' = scanned \cup {v}
          /\ IF stick[v] = "whole"
             THEN /\ stick' = [stick EXCEPT ![v] = "blank"]
                  /\ img' = v /\ pc' = "restore"
             ELSE UNCHANGED <<stick, img, pc>>
    BY <1>3 DEF CheckFile
  <2>2. /\ pc = "scan" /\ found' = found /\ found = {w \in scanned : stick[w] = "whole"}
        /\ stick \in [Images -> {None, "whole", "blank"}] /\ scanned \subseteq Images
        /\ v \in Images \ scanned
    BY <1>3, <2>1 DEF CheckFile, Sought, Knows, TypeOK, Unscanned
  <2>3. Knows'
    BY <2>1, <2>2 DEF Knows
  <2> QED
    BY <1>2, <2>1, <2>2, <2>3 DEF Sought, Chosen, Target
<1>4. CASE RestorePassport
  <2>1. /\ found' = found \cup {img} /\ scanned' = scanned /\ pc' = "scan"
        /\ stick' = [stick EXCEPT ![img] = "whole"]
        /\ found = {w \in scanned : stick[w] = "whole"} /\ img \in scanned
        /\ stick \in [Images -> {None, "whole", "blank"}] /\ scanned \subseteq Images
    BY <1>4 DEF RestorePassport, Sought, Knows, TypeOK
  <2>2. Knows'
    BY <2>1 DEF Knows
  <2> QED
    BY <1>2, <2>1, <2>2 DEF Sought, Chosen, Target
<1>5. CASE SearchEnds \/ CopyFails \/ EraseFit \/ Umount
  BY <1>2, <1>5
     DEF Sought, Knows, Chosen, Target, SearchEnds, CopyFails, EraseFit, Umount, BackToLoop
<1>6. CASE Finalize
  <2>1. Offer' /\ img' = Best'
    BY <1>1, <1>6, Finalized DEF Sought
  <2>2. pc' \in {"copy", "erase"}
    BY <1>6 DEF Finalize
  <2>3. Target'
    <3>1. \A v : Kind(v) \in Kinds /\ Kind(v)' = Kind(v)
      BY DEF Kind, Kinds
    <3>2. ASSUME pc' = "copy" PROVE fw'[Kind(img')] = Torn /\ ~orphan'
      BY <1>6, <3>1, <3>2 DEF Finalize, TypeOK
    <3> QED
      BY <3>2 DEF Target, None, Torn
  <2> QED
    BY <1>2, <2>1, <2>2, <2>3 DEF Sought, Knows, Chosen
<1>7. CASE Copied
  BY <1>1, <1>2, <1>7 DEF Sought, Knows, Chosen, Target, Copied
<1> QED
  BY <1>3, <1>4, <1>5, <1>6, <1>7 DEF Search

LEMMA RequestSought ==
  ASSUME TypeOK, Named, Sought, Imcheck \/ CheckStorages \/ UpdateImageStd
  PROVE  Sought'
<1>1. CASE ImcheckRenames
  <2>1. OnStick' = OnStick
    BY <1>1, SameRestore DEF ImcheckRenames
  <2>2. Best' = Best /\ Offer' = Offer
    BY <2>1, StickKept
  <2>3. upl \in Images /\ Kind(upl) \in Kinds /\ Kind(img) \in Kinds
    BY <1>1, FileTypes DEF ImcheckRenames, Sought, Given
  <2>4. Target'
    <3>1. pc' = pc /\ img' = img /\ fw' = [fw EXCEPT ![Kind(upl)] = upl]
          /\ orphan' = (orphan \/ (pc = "copy" /\ Kind(img) = Kind(upl)))
      BY <1>1 DEF ImcheckRenames
    <3>2. CASE Kind(img) = Kind(upl)
      BY <2>3, <3>1, <3>2, SentinelsApart DEF Target, TypeOK, Kind
    <3>3. CASE Kind(img) # Kind(upl)
      BY <2>3, <3>1, <3>3 DEF Sought, Target, TypeOK, Kind
    <3> QED
      BY <3>2, <3>3
  <2> QED
    BY <1>1, <2>2, <2>4 DEF ImcheckRenames, Sought, Knows, Chosen, Given
<1>2. CASE ImcheckErases \/ UploadReboots \/ UpdateImageStd
  <2>1. /\ UNCHANGED <<stick, fw, pc, img, orphan, scanned, found>>
        /\ web' # "idle" => upl' \in Images
    BY <1>2 DEF ImcheckErases, UploadReboots, UpdateImageStd, admin, Sought, Given
  <2>2. Best' = Best /\ Offer' = Offer
    BY <2>1, SameRestore, StickKept
  <2> QED
    BY <2>1, <2>2 DEF Sought, Knows, Chosen, Target, Given, Kind
<1>3. CASE CheckStorages
  BY <1>3, FreshSearch DEF CheckStorages, Sought, upload
<1> QED
  BY <1>1, <1>2, <1>3 DEF Imcheck

LEMMA BootSought == Given /\ (Reboot \/ PowerFails \/ Kill) => Sought'
<1> SUFFICES ASSUME Given, Reboot \/ PowerFails \/ Kill PROVE Sought'
  OBVIOUS
<1> QED
  BY FreshSearch DEF Reboot, PowerFails, Boot, Kill

-----------------------------------------------------------------------------
LEMMA ChainHandedOver ==
  ASSUME TypeOK, FlashesAlone, HandedOver, Chain
  PROVE  HandedOver'
<1> USE DEF system, upload, HandedOver, RawGone, Ready, Leaving
<1>1. CASE LoopStarts
  BY <1>1 DEF LoopStarts
<1>2. CASE ChainDeclines
  BY <1>2, ReturnFresh DEF ChainDeclines
<1>3. CASE ChainFlashes
  BY <1>3 DEF ChainFlashes, Selected
<1>4. CASE pc \in {"root", "fit"} /\ (RootWritten \/ FitWritten)
  <2>1. booted = "factory" /\ ~reboot /\ booted' = booted /\ reboot' = reboot
    BY <1>4 DEF RootWritten, FitWritten, FlashesAlone, Flashing
  <2>2. pc' \in {"fit", "drop", "idle", "chain", "scan"} /\ fw' = fw /\ kind' = kind
    <3>1. CASE RootWritten
      BY <3>1, ReturnFresh DEF RootWritten
    <3>2. CASE FitWritten
      BY <3>2, ReturnFresh DEF FitWritten, FitJudged
    <3> QED
      BY <1>4, <3>1, <3>2
  <2> QED
    BY <1>4, <2>1, <2>2
<1>5. CASE DropSource
  <2>1. fw'["raw"] = None
    BY <1>5 DEF DropSource, TypeOK, Kinds
  <2> QED
    BY <1>5, <2>1 DEF DropSource, FlashesAlone, Flashing
<1>6. CASE Settle
  <2>1. booted' = "factory" /\ fw' = fw /\ pc' \in {"idle", "chain"} /\ fw["raw"] # Torn
    BY <1>6, ReturnFresh DEF Settle, FlashesAlone, Flashing, None, Torn
  <2> QED
    BY <2>1
<1> QED
  BY <1>1, <1>2, <1>3, <1>4, <1>5, <1>6 DEF Chain, RootWritten, FitWritten

\* The factory image does not search on the way to a reboot.
LEMMA SearchHandedOver == TypeOK /\ HandedOver /\ Search => HandedOver'
<1> SUFFICES ASSUME TypeOK, HandedOver, Search PROVE HandedOver'
  OBVIOUS
<1> USE DEF system, upload, HandedOver, RawGone, Ready, Leaving
<1>1. CASE CheckFile
  BY <1>1 DEF CheckFile
<1>2. CASE RestorePassport \/ SearchEnds
  BY <1>2 DEF RestorePassport, SearchEnds
<1>3. CASE Finalize \/ Copied \/ CopyFails
  BY <1>3 DEF Finalize, Copied, CopyFails
<1>4. CASE EraseFit
  BY <1>4 DEF EraseFit
<1>5. CASE Umount
  BY <1>5 DEF Umount, BackToLoop
<1> QED
  BY <1>1, <1>2, <1>3, <1>4, <1>5 DEF Search

LEMMA RequestHandedOver ==
  ASSUME RequestsIn \subseteq {"user"}, TypeOK, FlashesAlone, HandedOver, HasSource,
         Imcheck \/ CheckStorages \/ UpdateImageStd
  PROVE  HandedOver'
<1> USE DEF system, upload, admin, HandedOver, RawGone, Ready, Leaving
<1>1. booted' = booted /\ booted = "user" /\ pc \notin Flashing
  BY DEF Imcheck, ImcheckRenames, ImcheckErases, UploadReboots, CheckStorages,
         UpdateImageStd, MayRequest, FlashesAlone, TypeOK
<1>2. CASE ImcheckRenames \/ CheckStorages \/ UpdateImageStd
  BY <1>1, <1>2 DEF ImcheckRenames, CheckStorages, UpdateImageStd, Flashing
<1>3. CASE ImcheckErases \/ UploadReboots
  BY <1>1, <1>3 DEF ImcheckErases, UploadReboots, Flashing
<1> QED
  BY <1>2, <1>3 DEF Imcheck

LEMMA BootHandedOver ==
  ASSUME FlashesAlone, HandedOver, Reboot \/ PowerFails \/ Kill
  PROVE  HandedOver'
<1>1. CASE Kill
  BY <1>1 DEF Kill, HandedOver, RawGone, Ready, Leaving, FlashesAlone, Flashing
<1>2. CASE Boot
  BY <1>2 DEF Boot, HandedOver, RawGone, Ready, Leaving
<1> QED
  BY <1>1, <1>2 DEF Reboot, PowerFails

-----------------------------------------------------------------------------
LEMMA ChainSource ==
  ASSUME IInv, TornRaw, HasSource, Chain
  PROVE  TornRaw' /\ HasSource'
<1>1. SUFFICES ASSUME booted' = "user" PROVE TornRaw' /\ HasSource'
  BY <1>1 DEF TornRaw, HasSource
<1>2. booted = "user"
  BY <1>1 DEF Chain, LoopStarts, ChainDeclines, ChainFlashes, RootWritten, FitWritten,
              DropSource, Settle, system
<1>3. LoopStarts \/ ChainDeclines
  BY <1>2 DEF Chain, IInv, Safe, FlashesAlone, Flashing, ChainFlashes, RootWritten,
              FitWritten, DropSource, Settle
<1>4. /\ pc \in {"idle", "chain"} /\ pc' \in {"idle", "chain", "scan"}
      /\ UNCHANGED <<fw, fit, stick, struck, reboot, web>>
  <2>1. CASE LoopStarts
    BY <2>1 DEF LoopStarts, upload
  <2>2. CASE ChainDeclines
    BY <2>2, ReturnFresh DEF ChainDeclines, upload
  <2> QED
    BY <1>3, <2>1, <2>2
<1>5. Best' = Best /\ Offer' = Offer
  BY <1>4, SameStick, StickKept
<1> QED
  BY <1>2, <1>4, <1>5 DEF TornRaw, HasSource, Sourced, Mild, Kind

\* Each step of a search leaves a source: the file it copies to is torn only while the
\* image is on the stick.
LEMMA SearchSource ==
  ASSUME ~Forced, IInv, Sought, TornRaw, HasSource, Search
  PROVE  TornRaw' /\ HasSource'
<1>1. /\ booted' = booted /\ web' = web /\ TypeOK
  BY DEF Search, CheckFile, RestorePassport, SearchEnds, Finalize, Copied, CopyFails, EraseFit,
         Umount, upload, system, IInv
<1>2. Best' = Best /\ Offer' = Offer
  BY SearchStick, StickKept DEF IInv
<1>3. \A v : Kind(v)' = Kind(v) /\ Kind(v) \in Kinds
  BY DEF Kind, Kinds
<1>4. CASE CheckFile \/ RestorePassport \/ SearchEnds
  <2>1. /\ pc \notin {"copy", "umount"} /\ pc' \notin {"copy"}
        /\ UNCHANGED <<fw, fit, struck, reboot>>
    BY <1>4 DEF CheckFile, RestorePassport, SearchEnds
  <2> QED
    BY <1>1, <1>2, <1>3, <2>1 DEF TornRaw, HasSource, Sourced, Mild
<1>5. CASE Finalize
  <2>1. Offer /\ img' = Best
    BY <1>1, <1>5, Finalized DEF Sought
  <2>2. pc = "scan" /\ UNCHANGED <<fit, struck, reboot>>
    BY <1>5 DEF Finalize
  <2>3. CASE FreeSpace
    <3>1. fw' = [fw EXCEPT ![Kind(img')] = Torn] /\ ~orphan' /\ pc' = "copy"
      BY <1>5, <2>3 DEF Finalize
    <3>2. fw'["raw"] = Torn => fw["raw"] = Torn \/ Kind(Best) = "raw"
      BY <1>1, <1>3, <2>1, <3>1 DEF TypeOK, Kinds
    <3> QED
      BY <1>1, <1>2, <1>3, <2>1, <2>2, <3>1, <3>2 DEF TornRaw, HasSource, Sourced, Mild
  <2>4. CASE ~FreeSpace
    <3>1. fw' = fw
      BY <1>5, <2>4 DEF Finalize
    <3> QED
      BY <1>1, <1>2, <1>3, <2>1, <2>2, <3>1 DEF TornRaw, HasSource, Sourced, Mild
  <2> QED
    BY <2>3, <2>4
<1>6. CASE Copied
  <2>1. pc = "copy" /\ UNCHANGED <<fit, struck, reboot, img, orphan>>
    BY <1>6 DEF Copied
  <2>2. Offer /\ img = Best /\ img \in Images /\ Kind(img) \in Kinds
    BY <1>1, <1>3, <2>1, BestIs DEF Sought, Chosen
  <2>3. fw[Kind(img)] # None /\ (orphan => fw[Kind(img)] # Torn)
    BY <2>1 DEF Sought, Target
  <2>4. CASE orphan
    <3>1. fw' = fw
      BY <1>6, <2>4 DEF Copied
    <3>2. Sourced'
      BY <1>1, <2>2, <2>3, <2>4, <3>1 DEF Sourced, TypeOK, Kinds
    <3> QED
      BY <1>1, <1>2, <1>3, <2>1, <2>4, <3>1, <3>2 DEF TornRaw, HasSource, Mild
  <2>5. CASE ~orphan
    <3>1. fw' = [fw EXCEPT ![Kind(img)] = img]
      BY <1>6, <2>5 DEF Copied
    <3>2. Sourced'
      BY <1>1, <2>2, <3>1, SentinelsApart DEF Sourced, TypeOK, Kinds
    <3>3. fw'["raw"] = Torn => fw["raw"] = Torn /\ Kind(img) # "raw"
      BY <1>1, <2>2, <3>1, SentinelsApart DEF TypeOK, Kinds
    <3> QED
      BY <1>1, <1>2, <1>3, <2>1, <3>2, <3>3 DEF TornRaw, HasSource, Mild
  <2> QED
    BY <2>4, <2>5
<1>7. CASE CopyFails
  <2>1. UNCHANGED <<fw, fit, reboot>> /\ (Mild' => Mild) /\ struck' # {}
    BY <1>1, <1>7, MildTrouble DEF CopyFails
  <2>2. pc = "copy"
    BY <1>7 DEF CopyFails
  <2> QED
    BY <1>1, <1>2, <1>3, <2>1, <2>2 DEF TornRaw, HasSource, Sourced
<1>8. CASE EraseFit
  <2>1. Offer /\ pc = "erase" /\ pc' = "umount" /\ need' = TRUE /\ UNCHANGED <<fw, struck, reboot>>
    BY <1>8 DEF EraseFit, Sought, Chosen
  <2> QED
    BY <1>1, <1>2, <1>3, <2>1 DEF TornRaw, HasSource, Sourced, Mild
<1>9. CASE Umount
  <2>1. /\ pc = "umount" /\ pc' \in {"idle", "chain"} /\ UNCHANGED <<fw, fit, struck>>
        /\ booted = "factory" \/ reboot' = (reboot \/ need)
    BY <1>1, <1>9 DEF Umount, BackToLoop
  <2> QED
    BY <1>1, <1>2, <1>3, <2>1 DEF TornRaw, HasSource, Sourced, Mild
<1> QED
  BY <1>4, <1>5, <1>6, <1>7, <1>8, <1>9 DEF Search

\* An upload brings its own source, and turns a copy under way away from it.
LEMMA RequestSource ==
  ASSUME TypeOK, Sought, TornRaw, HasSource, Imcheck \/ CheckStorages \/ UpdateImageStd
  PROVE  TornRaw' /\ HasSource'
<1>1. booted' = booted /\ UNCHANGED <<stick, img, struck>>
  BY DEF Imcheck, ImcheckRenames, ImcheckErases, UploadReboots, CheckStorages, UpdateImageStd,
         system, admin
<1>2. pc' = pc \/ (pc = "idle" /\ pc' = "scan")
  BY DEF Imcheck, ImcheckRenames, ImcheckErases, UploadReboots, CheckStorages, UpdateImageStd,
         admin
<1>3. Best' = Best /\ Offer' = Offer
  BY <1>1, <1>2, SameStick, SameRestore, StickKept
<1>4. \A v : Kind(v)' = Kind(v) /\ Kind(v) \in Kinds
  BY DEF Kind, Kinds
<1>5. CASE ImcheckRenames
  <2>1. /\ upl \in Images /\ fw' = [fw EXCEPT ![Kind(upl)] = upl] /\ pc' = pc
        /\ orphan' = (orphan \/ (pc = "copy" /\ Kind(img) = Kind(upl)))
    BY <1>5 DEF ImcheckRenames, Sought, Given
  <2>2. fw'["raw"] # None \/ fw'["gzip"] \in Images
    BY <1>4, <2>1, SentinelsApart DEF TypeOK, Kinds
  <2>3. fw'["raw"] = Torn => fw["raw"] = Torn /\ Kind(upl) # "raw"
    BY <1>4, <2>1, SentinelsApart DEF TypeOK, Kinds
  <2> QED
    BY <1>1, <1>3, <1>4, <2>1, <2>2, <2>3 DEF TornRaw, HasSource, Sourced, Mild
<1>6. CASE ImcheckErases \/ UploadReboots \/ UpdateImageStd
  <2>1. /\ UNCHANGED <<fw, pc, need, orphan>> /\ (reboot => reboot')
        /\ fit' = Erased \/ web' = "erase" => fit = Erased \/ web = "erase"
    BY <1>6 DEF ImcheckErases, UploadReboots, UpdateImageStd, admin
  <2> QED
    BY <1>1, <1>3, <1>4, <2>1 DEF TornRaw, HasSource, Sourced, Mild
<1>7. CASE CheckStorages
  <2>1. UNCHANGED <<fw, reboot, fit, web, orphan>> /\ pc = "idle" /\ pc' = "scan"
    BY <1>7 DEF CheckStorages, upload
  <2> QED
    BY <1>1, <1>3, <1>4, <2>1 DEF TornRaw, HasSource, Sourced, Mild
<1> QED
  BY <1>5, <1>6, <1>7 DEF Imcheck

\* The user image is left for good when its fit is erased, and is entered with no torn
\* uncompressed file; a kill while a passport is blank is the first trouble.
LEMMA BootSource ==
  ASSUME IInv, HandedOver, TornRaw, HasSource, Reboot \/ PowerFails \/ Kill
  PROVE  TornRaw' /\ HasSource'
<1>1. TypeOK
  BY DEF IInv
<1>2. CASE PowerFails
  BY <1>2 DEF PowerFails, Trouble, Mild, TornRaw, HasSource
<1>3. CASE Reboot
  <2>1. reboot /\ booted' = BootImage(fit) /\ fw' = fw /\ fit' = fit /\ web' = "idle"
    BY <1>3 DEF Reboot, Boot
  <2>2. CASE booted = "user"
    BY <2>1, <2>2, SentinelsApart DEF HandedOver, Leaving, BootImage, TornRaw, HasSource
  <2>3. CASE booted = "factory"
    BY <2>1, <2>3, SentinelsApart DEF HandedOver, Ready, BootImage, TornRaw, HasSource
  <2> QED
    BY <1>1, <2>2, <2>3 DEF TypeOK
<1>4. CASE Kill
  <2>1. SUFFICES ASSUME booted' = "user", Mild' PROVE TornRaw' /\ HasSource'
    BY <2>1 DEF TornRaw, HasSource
  <2>2. /\ booted = "user" /\ ~reboot /\ pc' = "idle" /\ UNCHANGED <<fw, stick>>
        /\ Mild /\ struck = {} /\ struck' # {}
    BY <1>1, <1>4, <2>1, MildTrouble DEF Kill
  <2>3. fit' = fit /\ (web' = "erase" => web = "erase")
    BY <1>4, <2>2 DEF Kill, IInv, Safe, FlashesAlone, Flashing
  <2>4. pc # "restore" => Best' = Best /\ Offer' = Offer
    BY <2>2, SameStick, StickKept
  <2> QED
    BY <2>2, <2>3, <2>4 DEF TornRaw, HasSource, Sourced, Kind
<1> QED
  BY <1>2, <1>3, <1>4

LEMMA NextRInv ==
  ASSUME RequestsIn \subseteq {"user"}, ~Forced, RInv, [Next]_vars
  PROVE  RInv'
<1>1. IInv' /\ TypeOK /\ Named /\ FlashesAlone /\ Given
  BY NextIInv DEF RInv, IInv, Safe, Sought
<1> USE <1>1 DEF RInv
<1>2. CASE Chain
  BY <1>2, ChainSought, ChainHandedOver, ChainSource
<1>3. CASE Search
  BY <1>3, SearchSought, SearchHandedOver, SearchSource
<1>4. CASE Imcheck \/ CheckStorages \/ UpdateImageStd
  BY <1>4, RequestSought, RequestHandedOver, RequestSource
<1>5. CASE Reboot \/ PowerFails \/ Kill
  BY <1>5, BootSought, BootHandedOver, BootSource
<1>6. CASE UNCHANGED vars
  <2>1. Best' = Best /\ Offer' = Offer
    BY <1>6, SameRestore, StickKept DEF vars, admin
  <2> QED
    BY <1>6, <2>1
       DEF vars, system, admin, upload, Sought, Knows, Chosen, Target, Given, HandedOver, RawGone,
           Ready, Leaving, TornRaw, HasSource, Sourced, Mild, Kind
<1> QED
  BY <1>2, <1>3, <1>4, <1>5, <1>6 DEF Next

\* When updates are asked for in the user image only, sticks are searched and only
\* images for this hardware are taken: whatever single thing goes wrong short of a power
\* failure, the fit of the user image is erased only while there is an image to flash.
THEOREM AlwaysReplaceable ==
  ASSUME RequestsIn \subseteq {"user"}, FindUpdates, ~Forced
  PROVE  Spec => []Replaceable
<1>1. RInv /\ [Next]_vars => RInv'
  BY NextRInv
<1>2. RInv => Replaceable
  <2> SUFFICES ASSUME RInv, fit = Erased, booted = "user", Mild PROVE Available
    BY DEF Replaceable, Mild
  <2>1. TypeOK /\ Sourced
    BY DEF RInv, IInv, HasSource
  <2>2. Offer => Offered
    BY DEF Offer, Best, Offered
  <2>3. CASE fw["raw"] = Torn
    BY <2>2, <2>3 DEF RInv, TornRaw, Available, Best
  <2>4. CASE fw["raw"] = None
    BY <2>1, <2>2, <2>4 DEF Sourced, Available, Selected, None, Torn
  <2>5. CASE fw["raw"] \in Images
    BY <2>5, SentinelsApart DEF Available, Selected
  <2> QED
    BY <2>1, <2>3, <2>4, <2>5 DEF TypeOK, Kinds
<1> QED
  BY <1>1, <1>2, InitRInv, PTL DEF Spec
===============================================================================
