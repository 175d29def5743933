------------------------ MODULE ProfileEditorProofs ------------------------
(***************************************************************************)
(* Proofs about ProfileEditor for any texts, any number of saves in flight *)
(* and any number of downloads.                                            *)
(***************************************************************************)
EXTENDS ProfileEditor, TLAPS

-----------------------------------------------------------------------------
(* The invariant holds initially.                                          *)

LEMMA InitIInv == Init => IInv
  <1> SUFFICES ASSUME Init PROVE IInv
    OBVIOUS
  <1>1. TypeOK
    BY ProfileAssumption DEF Init, TypeOK, Idle, Job, Flags
  <1>2. EditingMeansFields /\ SaveNeedsChange
    BY DEF Init, EditingMeansFields, SaveNeedsChange
  <1>3. ScreenHolds /\ SaveSoFar /\ PriorHolds /\ SpinnerCoversSave
    BY DEF Init, ScreenHolds, SaveSoFar, PriorHolds, SpinnerCoversSave, Active, Idle
  <1> QED
    BY <1>1, <1>2, <1>3 DEF IInv, ModeIsConsistent

-----------------------------------------------------------------------------
(* What the handlers of the screen share.                                  *)

\* A step of the screen alone leaves every save where it is.
LEMMA SavesUntouched ==
  ASSUME IInv, UNCHANGED Saves
  PROVE  SaveSoFar' /\ PriorHolds'
  BY DEF IInv, SaveSoFar, PriorHolds, Active, Saves

\* It may change the mode as long as the indicator stays and the screen is
\* there for what needs it.
LEMMA ScreenStep ==
  ASSUME IInv, UNCHANGED <<Saves, screen>>,
         flags' \subseteq Flags, "spinner" \in flags => "spinner" \in flags',
         modal' \in {"none", modal} \/ (modal' = "picker" /\ screen = "open"),
         opened' \in Texts, text' \in Texts, loads' \in Nat,
         answered' \in {"yes", "no"},
         EditingMeansFields', SaveNeedsChange'
  PROVE  IInv'
  <1> USE DEF Saves
  <1>1. TypeOK'
    BY DEF IInv, ModeIsConsistent, TypeOK
  <1>2. ScreenHolds' /\ SpinnerCoversSave'
    BY DEF IInv, ScreenHolds, SpinnerCoversSave, Active
  <1> QED
    BY <1>1, <1>2, SavesUntouched DEF IInv, ModeIsConsistent

\* The types and the mode before a step, as its proof needs them.
LEMMA Before ==
  ASSUME IInv
  PROVE  /\ disk \in Texts \cup {Missing, Torn}
         /\ flags \subseteq Flags /\ opened \in Texts /\ text \in Texts
         /\ loads \in Nat /\ answered \in {"yes", "no"}
         /\ EditingMeansFields /\ SaveNeedsChange
  BY DEF IInv, ModeIsConsistent, TypeOK

-----------------------------------------------------------------------------
(* Steps of the screen.                                                    *)

LEMMA ViewDidLoadStep ==
  ASSUME IInv, ViewDidLoad
  PROVE  IInv'
  <1>1. opened' \in Texts /\ text' \in Texts
    BY ProfileAssumption DEF ViewDidLoad, SetupView, GetUserProfile, LoadUserProfile
  <1>2. TypeOK'
    BY <1>1 DEF ViewDidLoad, SetupView, Saves, Flags, IInv, ModeIsConsistent, TypeOK
  <1>3. EditingMeansFields' /\ SaveNeedsChange'
    BY DEF ViewDidLoad, SetupView, EditingMeansFields, SaveNeedsChange
  <1>4. ScreenHolds' /\ SpinnerCoversSave'
    BY DEF ViewDidLoad, Saves, IInv, ScreenHolds, SpinnerCoversSave, Active
  <1> QED
    BY <1>2, <1>3, <1>4, SavesUntouched DEF IInv, ModeIsConsistent, ViewDidLoad

LEMMA CloseButtonTappedStep ==
  ASSUME IInv, CloseButtonTapped
  PROVE  IInv'
  <1>1. \A j \in Jobs : /\ jobs[j] \in Job /\ jobs'[j] \in Job
                        /\ jobs'[j].phase = jobs[j].phase
                        /\ jobs'[j].text = jobs[j].text
                        /\ jobs'[j].alone = jobs[j].alone
                        /\ jobs'[j].ui = "gone"
    BY DEF CloseButtonTapped, IInv, ModeIsConsistent, TypeOK, Job
  <1>2. jobs' \in [Jobs -> Job]
    BY <1>1 DEF CloseButtonTapped
  <1>3. TypeOK'
    BY <1>2, ProfileAssumption
    DEF CloseButtonTapped, ScreenGone, IInv, ModeIsConsistent, TypeOK
  <1>4. EditingMeansFields' /\ SaveNeedsChange'
    BY DEF CloseButtonTapped, ScreenGone, EditingMeansFields, SaveNeedsChange
  <1>5. ScreenHolds' /\ SpinnerCoversSave'
    BY <1>1 DEF CloseButtonTapped, ScreenGone, ScreenHolds, SpinnerCoversSave, Active
  <1>6. Active' = Active /\ UNCHANGED <<disk, asked, prior>>
    BY <1>1 DEF CloseButtonTapped, Active
  <1>7. SaveSoFar'
    BY <1>1, <1>6 DEF IInv, SaveSoFar, Active
  <1>8. PriorHolds'
    BY <1>1, <1>6 DEF IInv, PriorHolds, Active
  <1> QED
    BY <1>3, <1>4, <1>5, <1>7, <1>8 DEF IInv, ModeIsConsistent

LEMMA EditProfileButtonTappedStep ==
  ASSUME IInv, EditProfileButtonTapped
  PROVE  IInv'
  <1>1. EditingMeansFields' /\ SaveNeedsChange' /\ flags' \subseteq Flags
    BY Before DEF EditProfileButtonTapped, EditingMeansFields, SaveNeedsChange, Flags
  <1> QED
    BY <1>1, Before, ScreenStep DEF EditProfileButtonTapped

LEMMA TextFieldDidChangeStep ==
  ASSUME IInv, NEW x \in Texts, TextFieldDidChange(x)
  PROVE  IInv'
  <1>1. /\ EditingMeansFields' /\ SaveNeedsChange' /\ flags' \subseteq Flags
        /\ "spinner" \in flags => "spinner" \in flags'
    BY Before DEF TextFieldDidChange, Toggle, EditingMeansFields, SaveNeedsChange, Flags
  <1> QED
    BY <1>1, Before, ScreenStep DEF TextFieldDidChange

LEMMA NewPictureKeepsMode ==
  ASSUME IInv, NewPicture \/ UNCHANGED flags, UNCHANGED answered
  PROVE  /\ EditingMeansFields' /\ SaveNeedsChange' /\ flags' \subseteq Flags
         /\ "spinner" \in flags => "spinner" \in flags'
  BY Before DEF NewPicture, Toggle, EditingMeansFields, SaveNeedsChange, Flags

LEMMA PictureSteps ==
  ASSUME IInv,
         \/ EditProfileImageButtonTapped \/ ImagePickerController
         \/ DownloadPhotoFromNetwork \/ DownloadArrives
  PROVE  IInv'
  <1>1. /\ NewPicture \/ UNCHANGED flags
        /\ UNCHANGED <<Saves, screen, opened, text, answered>>
        /\ loads' \in Nat
        /\ modal' \in {"none", modal} \/ (modal' = "picker" /\ screen = "open")
    BY Before, ProfileAssumption
    DEF EditProfileImageButtonTapped, ImagePickerController, DownloadPhotoFromNetwork,
        DownloadArrives, InFront
  <1> QED
    BY <1>1, Before, NewPictureKeepsMode, ScreenStep

\* Cancelling, by the button while editing or on a fail alert.
LEMMA CancelStep ==
  ASSUME IInv, CancelButtonTapped \/ AlertCancel
  PROVE  IInv'
  <1>1. /\ EditingMeansFields' /\ SaveNeedsChange' /\ flags' \subseteq Flags
        /\ "spinner" \in flags => "spinner" \in flags'
    BY Before DEF CancelButtonTapped, AlertCancel, CancelChanges, Toggle,
                  EditingMeansFields, SaveNeedsChange, Flags
  <1>2. /\ UNCHANGED <<Saves, screen, opened, loads>> /\ text' = opened
        /\ modal' \in {"none", modal} /\ answered' \in {"yes", answered}
    BY DEF CancelButtonTapped, AlertCancel, CancelChanges
  <1> QED
    BY <1>1, <1>2, Before, ScreenStep

LEMMA AlertOkStep ==
  ASSUME IInv, AlertOk
  PROVE  IInv'
  <1>1. EditingMeansFields' /\ SaveNeedsChange'
    BY Before DEF AlertOk, EditingMeansFields, SaveNeedsChange
  <1> QED
    BY <1>1, Before, ScreenStep DEF AlertOk

-----------------------------------------------------------------------------
(* Steps of saves.                                                         *)

\* A new save, by the button while editing or as a retry: it counts if nothing
\* else is in flight.
LEMMA SaveWithGCDStep ==
  ASSUME IInv, NEW j \in Jobs, SaveGCDButtonTapped(j) \/ AlertRetry(j)
  PROVE  IInv'
  <1> DEFINE new == [phase |-> "queued", text |-> text, ui |-> "own", alone |-> "yes"]
  <1>1. new \in Job
    BY Before DEF Job
  <1>2. /\ new.phase = "queued" /\ new.text = text
        /\ new.ui = "own" /\ new.alone = "yes"
    OBVIOUS
  <1>3. /\ jobs[j].phase = "none" /\ jobs' = [jobs EXCEPT ![j] = new]
        /\ flags' = Toggle(Toggle((flags \cup {"spinner"}) \ {"fields"}, "editing"), "infoChanged")
        /\ Expect(text)
        /\ UNCHANGED <<disk, screen, opened, text, loads>>
        /\ screen = "open" /\ modal' \in {"none", modal} /\ answered' \in {"yes", answered}
        /\ \/ answered' = "yes"
           \/ answered' = answered /\ "editing" \in flags
    BY DEF SaveGCDButtonTapped, AlertRetry, SaveWithGCD, InFront, IInv, ScreenHolds
  <1> HIDE DEF new
  <1>4. jobs' \in [Jobs -> Job] /\ jobs'[j] = new /\ \A k \in Jobs \ {j} : jobs'[k] = jobs[k]
    BY <1>1, <1>3 DEF IInv, ModeIsConsistent, TypeOK
  <1>5. flags' \subseteq Flags /\ "spinner" \in flags'
    BY <1>3, Before DEF Toggle, Flags
  <1>6. TypeOK'
    BY <1>3, <1>4, <1>5, Before DEF Expect, IInv, ModeIsConsistent, TypeOK
  <1>7. EditingMeansFields' /\ SaveNeedsChange'
    BY <1>3 DEF EditingMeansFields, SaveNeedsChange, Toggle
  <1>8. ScreenHolds' /\ SpinnerCoversSave'
    BY <1>3, <1>4, <1>5 DEF IInv, ScreenHolds, SpinnerCoversSave
  <1>9. SaveSoFar'
    <2> SUFFICES ASSUME asked' # Nothing PROVE SaveSoFar'
      BY DEF SaveSoFar
    <2>1. Active = {} /\ asked' = text
      BY <1>3 DEF Expect
    <2>2. Active' = {j}
      BY <1>2, <1>4, <2>1 DEF Active
    <2> QED
      BY <1>2, <1>3, <1>4, <2>1, <2>2 DEF SaveSoFar
  <1>10. PriorHolds'
    BY <1>2, <1>3, <1>4, Before, ProfileAssumption
    DEF Expect, PriorHolds, IInv, SaveSoFar, Active
  <1> QED
    BY <1>6, <1>7, <1>8, <1>9, <1>10 DEF IInv, ModeIsConsistent

\* A step of the queues on the save j, which stays in flight, makes nothing
\* certain that was not, and keeps its screen.
LEMMA BackgroundStep ==
  ASSUME IInv, NEW j \in Jobs, UNCHANGED Screen,
         disk' \in Texts \cup {Missing, Torn}, asked' \in {asked, prior},
         prior' \in {prior, Nothing}, asked' # Nothing => asked # Nothing,
         jobs' \in [Jobs -> Job], jobs[j].phase # "none",
         \A k \in Jobs : jobs'[k].ui = jobs[k].ui,
         \A k \in Jobs \ {j} : jobs'[k].phase = jobs[k].phase
  PROVE  /\ TypeOK' /\ EditingMeansFields' /\ SaveNeedsChange'
         /\ ScreenHolds' /\ SpinnerCoversSave'
  <1> USE DEF Screen
  <1>1. TypeOK' /\ EditingMeansFields' /\ SaveNeedsChange'
    BY DEF IInv, ModeIsConsistent, TypeOK, EditingMeansFields, SaveNeedsChange
  <1>2. ScreenHolds' /\ SpinnerCoversSave'
    BY DEF IInv, ScreenHolds, SpinnerCoversSave, Active
  <1> QED
    BY <1>1, <1>2

LEMMA StartWriteStep ==
  ASSUME IInv, NEW j \in Jobs, StartWrite(j)
  PROVE  IInv'
  <1>1. ASSUME NEW k \in Jobs
        PROVE  /\ jobs'[k] \in Job
               /\ jobs'[k].ui = jobs[k].ui /\ jobs'[k].text = jobs[k].text
               /\ k # j => jobs'[k].phase = jobs[k].phase
               /\ k = j => /\ jobs'[k].phase = "writing"
                           /\ Writing = {} => jobs'[k].alone = "yes"
    BY DEF StartWrite, IInv, ModeIsConsistent, TypeOK, Job
  <1>2. /\ jobs' \in [Jobs -> Job] /\ jobs[j].phase = "queued"
        /\ UNCHANGED <<Screen, asked>> /\ prior' = Nothing /\ disk' = Torn
    BY <1>1 DEF StartWrite
  <1>3. /\ TypeOK' /\ EditingMeansFields' /\ SaveNeedsChange'
        /\ ScreenHolds' /\ SpinnerCoversSave'
    BY <1>1, <1>2, BackgroundStep
  <1>4. SaveSoFar'
    <2> SUFFICES ASSUME asked # Nothing PROVE SaveSoFar'
      BY <1>2 DEF SaveSoFar
    <2>1. Active = {j} /\ jobs[j].text = asked
      BY <1>2 DEF IInv, SaveSoFar, Active
    <2>2. Active' = {j}
      BY <1>1, <2>1 DEF Active
    <2>3. Writing = {}
      BY <1>2, <2>1 DEF Writing, Active
    <2> QED
      BY <1>1, <1>2, <2>1, <2>2, <2>3 DEF SaveSoFar
  <1>5. PriorHolds'
    BY <1>2 DEF PriorHolds
  <1> QED
    BY <1>3, <1>4, <1>5 DEF IInv, ModeIsConsistent

\* The two ways a save leaves the file.
LEMMA WrittenStep ==
  ASSUME IInv, NEW j \in Jobs, EndWrite(j) \/ FailWrite(j)
  PROVE  IInv'
  <1> PICK outcome \in {"sleeping", "failed"} :
        /\ jobs' = [jobs EXCEPT ![j] = Written(j, outcome)]
        /\ jobs[j].phase \in {"queued", "writing"}
        /\ outcome = "failed" => asked' = prior /\ prior' = Nothing /\ disk' = disk
        /\ outcome = "sleeping" =>
             /\ asked' = asked /\ prior' = prior
             /\ disk' = jobs[j].text \/ (jobs[j].alone = "no" /\ disk' \in {Torn, disk})
             /\ jobs[j].phase = "writing"
        /\ UNCHANGED Screen
    BY DEF EndWrite, FailWrite
  <1>1. jobs \in [Jobs -> Job]
    BY DEF IInv, ModeIsConsistent, TypeOK
  <1>2. /\ Written(j, outcome) \in Job
        /\ Written(j, outcome).phase = outcome
        /\ Written(j, outcome).ui = jobs[j].ui
    BY <1>1, ProfileAssumption DEF Written, Idle, Job
  <1>3. /\ jobs' \in [Jobs -> Job] /\ jobs'[j] = Written(j, outcome)
        /\ \A k \in Jobs \ {j} : jobs'[k] = jobs[k]
    BY <1>1, <1>2
  <1>4. /\ disk' \in Texts \cup {Missing, Torn} /\ asked' \in {asked, prior}
        /\ prior' \in {prior, Nothing} /\ asked' # Nothing => asked # Nothing
    BY <1>1, Before DEF Job, IInv, PriorHolds
  <1>5. /\ TypeOK' /\ EditingMeansFields' /\ SaveNeedsChange'
        /\ ScreenHolds' /\ SpinnerCoversSave'
    BY <1>2, <1>3, <1>4, BackgroundStep
  <1>6. SaveSoFar'
    <2> SUFFICES ASSUME asked' # Nothing PROVE SaveSoFar'
      BY DEF SaveSoFar
    <2>1. asked # Nothing /\ j \in Active
      BY <1>4 DEF Active
    <2>2. Active = {j}
      BY <2>1 DEF IInv, SaveSoFar
    <2>3. Active' = {j}
      BY <1>2, <1>3, <2>2 DEF Active
    <2>4. disk' = asked'
      <3>1. CASE outcome = "failed"
        BY <3>1 DEF IInv, PriorHolds
      <3>2. CASE outcome = "sleeping"
        BY <2>1, <3>2 DEF IInv, SaveSoFar
      <3> QED
        BY <3>1, <3>2
    <2> QED
      BY <1>2, <1>3, <2>3, <2>4 DEF SaveSoFar
  <1>7. PriorHolds'
    BY DEF IInv, PriorHolds, Active
  <1> QED
    BY <1>5, <1>6, <1>7 DEF IInv, ModeIsConsistent

LEMMA CompletionStep ==
  ASSUME IInv, NEW j \in Jobs, Completion(j)
  PROVE  IInv'
  <1>1. /\ jobs' = [jobs EXCEPT ![j] = Idle] /\ jobs[j].phase \in {"sleeping", "failed"}
        /\ flags' \in {flags, flags \ {"spinner"}}
        /\ \/ modal' \in {"none", modal}
           \/ modal' \in {"success", "fail"} /\ jobs[j].ui = "own"
        /\ UNCHANGED <<disk, asked, prior, screen, opened, text, loads, answered>>
    BY DEF Completion, Present
  <1>2. /\ Idle \in Job /\ Idle.phase = "none" /\ Idle.ui = "gone"
    BY ProfileAssumption DEF Idle, Job
  <1> HIDE DEF Idle
  <1>3. /\ jobs' \in [Jobs -> Job] /\ jobs'[j] = Idle
        /\ \A k \in Jobs \ {j} : jobs'[k] = jobs[k]
    BY <1>1, <1>2 DEF IInv, ModeIsConsistent, TypeOK
  <1>4. TypeOK'
    BY <1>1, <1>3 DEF IInv, ModeIsConsistent, TypeOK
  <1>5. EditingMeansFields' /\ SaveNeedsChange'
    BY <1>1, Before DEF EditingMeansFields, SaveNeedsChange
  <1>6. ScreenHolds'
    BY <1>1, <1>2, <1>3 DEF IInv, ScreenHolds
  <1>7. Active' = Active \ {j} /\ j \in Active
    BY <1>1, <1>2, <1>3 DEF Active
  <1>8. asked # Nothing => Active' = {} /\ disk = asked
    BY <1>1, <1>7 DEF IInv, SaveSoFar, Active
  <1>9. SaveSoFar' /\ PriorHolds' /\ SpinnerCoversSave'
    BY <1>1, <1>7, <1>8 DEF IInv, SaveSoFar, PriorHolds, SpinnerCoversSave, Active
  <1> QED
    BY <1>4, <1>5, <1>6, <1>9 DEF IInv, ModeIsConsistent

LEMMA RestartStep ==
  ASSUME IInv, Restart
  PROVE  IInv'
  <1>1. TypeOK'
    BY ProfileAssumption
    DEF Restart, ScreenGone, Idle, Job, IInv, ModeIsConsistent, TypeOK
  <1>2. EditingMeansFields' /\ SaveNeedsChange'
    BY DEF Restart, ScreenGone, EditingMeansFields, SaveNeedsChange
  <1>3. ScreenHolds' /\ PriorHolds' /\ SpinnerCoversSave'
    BY DEF Restart, ScreenGone, ScreenHolds, PriorHolds, SpinnerCoversSave, Active, Idle
  <1>4. asked' # Nothing => disk' = asked'
    <2>1. CASE \E j \in Jobs : jobs[j].phase \in {"queued", "writing"}
      BY <2>1 DEF Restart, IInv, PriorHolds
    <2>2. CASE ~ \E j \in Jobs : jobs[j].phase \in {"queued", "writing"}
      BY <2>2 DEF Restart, IInv, SaveSoFar, Active
    <2> QED
      BY <2>1, <2>2
  <1>5. SaveSoFar'
    BY <1>4 DEF Restart, SaveSoFar, Active, Idle
  <1> QED
    BY <1>1, <1>2, <1>3, <1>5 DEF IInv, ModeIsConsistent

LEMMA StutterStep ==
  ASSUME IInv, UNCHANGED vars
  PROVE  IInv'
  <1>1. EditingMeansFields' /\ SaveNeedsChange'
    BY Before DEF vars, EditingMeansFields, SaveNeedsChange
  <1> QED
    BY <1>1, Before, ScreenStep DEF vars, Saves

LEMMA NextIInv == IInv /\ [Next]_vars => IInv'
  <1> SUFFICES ASSUME IInv, [Next]_vars
               PROVE  IInv'
    OBVIOUS
  <1>1. CASE ViewDidLoad
    BY <1>1, ViewDidLoadStep
  <1>2. CASE CloseButtonTapped
    BY <1>2, CloseButtonTappedStep
  <1>3. CASE EditProfileButtonTapped
    BY <1>3, EditProfileButtonTappedStep
  <1>4. CASE \E x \in Texts : TextFieldDidChange(x)
    BY <1>4, TextFieldDidChangeStep
  <1>5. CASE \/ EditProfileImageButtonTapped \/ ImagePickerController
             \/ DownloadPhotoFromNetwork \/ DownloadArrives
    BY <1>5, PictureSteps
  <1>6. CASE \E j \in Jobs : SaveGCDButtonTapped(j) \/ AlertRetry(j)
    BY <1>6, SaveWithGCDStep
  <1>7. CASE CancelButtonTapped \/ AlertCancel
    BY <1>7, CancelStep
  <1>8. CASE AlertOk
    BY <1>8, AlertOkStep
  <1>9. CASE \E j \in Jobs : SaveStep(j)
    BY <1>9, StartWriteStep, WrittenStep, CompletionStep DEF SaveStep
  <1>10. CASE Restart
    BY <1>10, RestartStep
  <1>11. CASE UNCHANGED vars
    BY <1>11, StutterStep
  <1> QED
    BY <1>1, <1>2, <1>3, <1>4, <1>5, <1>6, <1>7, <1>8, <1>9, <1>10, <1>11 DEF Next

-----------------------------------------------------------------------------
(* The theorems.                                                           *)

\* The inductive invariant holds in every reachable state.
THEOREM Invariance == Spec => []IInv
  BY InitIInv, NextIInv, PTL DEF Spec

\* The handlers of ProfileViewController, which toggle its mode, keep the mode
\* consistent: no Save or Cancel over disabled fields, no Save without a change.
THEOREM ModeStaysConsistent == Spec => []ModeIsConsistent
  <1>1. IInv => ModeIsConsistent
    BY DEF IInv
  <1> QED
    BY <1>1, Invariance, PTL

\* ProfileSettings.json holds the latest save, or the older one if the latest
\* did not get to its write, over cancels, failures and restarts, unless saves
\* overlapped or a write was cut off.
THEOREM LoneSavesLand == Spec => []LoneSaveLands
  <1>1. IInv => LoneSaveLands
    BY DEF IInv, SaveSoFar, LoneSaveLands
  <1> QED
    BY <1>1, Invariance, PTL

\* The indicator is shown while a lone save of this screen is in flight.
THEOREM SpinnerStays == Spec => []SpinnerCoversSave
  <1>1. IInv => SpinnerCoversSave
    BY DEF IInv
  <1> QED
    BY <1>1, Invariance, PTL

=============================================================================
