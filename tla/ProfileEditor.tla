--------------------------- MODULE ProfileEditor ---------------------------
(***************************************************************************)
(* The profile screen and the file it edits.  ProfileViewController keeps  *)
(* its mode in button and field attributes that most handlers TOGGLE; a    *)
(* save runs GCDManager.saveUserProfile on a concurrent global queue,      *)
(* writes ProfileSettings.json without atomicity, sleeps, and reports back *)
(* on the main queue with an alert that offers to retry.                   *)
(*                                                                         *)
(* The name and the info of the user are one text here: the screen reads,  *)
(* writes and resets them together.  The picture's own file is the subject *)
(* of ProfilePicture; here a picture only affects the screen's mode.       *)
(***************************************************************************)
EXTENDS Naturals, FiniteSets

CONSTANTS
  Texts,      \* what a user can type
  Default,    \* "User Name" / "User Info", shown when no profile loads
  Missing,    \* the file does not exist
  Torn,       \* the file was truncated, half written or written by two
  Nothing,    \* what the file will hold is not certain
  Jobs,       \* bound: saves in flight
  MaxLoads    \* bound: picture downloads in flight

ASSUME ProfileAssumption ==
  /\ Default \in Texts
  /\ Missing \notin Texts /\ Torn \notin Texts /\ Nothing \notin Texts
  /\ Missing # Torn /\ Missing # Nothing
  /\ MaxLoads \in Nat

VARIABLES
  disk,       \* ProfileSettings.json
  screen,     \* the profile screen: "closed" or "open"
  modal,      \* what is presented on it: "none", "success", "fail", "picker"
  flags,      \* the attributes of its views and its two change markers
  opened,     \* userProfile, read when the screen was created
  text,       \* the text fields
  loads,      \* downloads of a picture that have not called back
  jobs,       \* saves in flight: id -> record, see Job
  asked,      \* auxiliary: what the file is to hold once all is quiet, or
              \* Nothing after saves that overlapped or were cut off
  prior,      \* auxiliary: what asked was before the save in flight, as long
              \* as that save has not touched the file; otherwise Nothing
  answered    \* auxiliary: "yes" once a fail alert of this screen was answered

vars == <<disk, screen, modal, flags, opened, text, loads, jobs, asked,
          prior, answered>>

Flags == {"editing",      \* Save, Cancel and the picture button are shown
          "fields",       \* isUserInteractionEnabled of the text fields
          "saveOn",       \* saveGCDButton.isEnabled
          "infoChanged",  \* changeUserInfo
          "imageChanged", \* changeUserImage
          "spinner"}      \* saveProcessIndicator is shown

Toggle(F, f) == IF f \in F THEN F \ {f} ELSE F \cup {f}

Idle == [phase |-> "none", text |-> Default, ui |-> "gone", alone |-> "yes"]

Job == [phase : {"none", "queued", "writing", "sleeping", "failed"},
        text : Texts,
        ui : {"own", "gone"},      \* is the screen that asked still there?
        alone : {"yes", "no"}]     \* did its write overlap another one?

Active == {j \in Jobs : jobs[j].phase # "none"}
Writing == {j \in Jobs : jobs[j].phase = "writing"}

TypeOK ==
  /\ disk \in Texts \cup {Missing, Torn}
  /\ screen \in {"closed", "open"}
  /\ modal \in {"none", "success", "fail", "picker"}
  /\ flags \subseteq Flags
  /\ opened \in Texts /\ text \in Texts
  /\ loads \in Nat
  /\ jobs \in [Jobs -> Job]
  /\ asked \in Texts \cup {Missing, Nothing}
  /\ prior \in Texts \cup {Missing, Nothing}
  /\ answered \in {"yes", "no"}

\* Before the first start the file does not exist.
Init ==
  /\ disk = Missing
  /\ screen = "closed" /\ modal = "none" /\ flags = {}
  /\ opened = Default /\ text = Default
  /\ loads = 0
  /\ jobs = [j \in Jobs |-> Idle]
  /\ asked = Missing /\ prior = Nothing /\ answered = "no"

-----------------------------------------------------------------------------
(* The screen.                                                             *)

\* loadUserProfile reads and decodes the file; when either throws it prints
\* the error and its completion is never called.
LoadUserProfile == disk \in Texts

\* UserProfile.getUserProfile: the defaults unless the load has called back.
GetUserProfile == IF LoadUserProfile THEN disk ELSE Default

Saves == <<disk, jobs, asked, prior>>

\* The user can reach the screen's own controls.
InFront == screen = "open" /\ modal = "none"

\* setupView: the storyboard's Save button is enabled, but hidden.
SetupView ==
  /\ text' = opened'
  /\ flags' = {"saveOn"}

ViewDidLoad ==
  /\ screen = "closed"
  /\ screen' = "open"
  /\ opened' = GetUserProfile
  /\ SetupView
  /\ answered' = "no"
  /\ UNCHANGED <<Saves, modal, loads>>

\* The screen's state goes with its controller.
ScreenGone ==
  /\ screen' = "closed" /\ modal' = "none" /\ flags' = {}
  /\ opened' = Default /\ text' = Default
  /\ loads' = 0
  /\ answered' = "no"

\* The weak self of every save and download in flight becomes nil.
CloseButtonTapped ==
  /\ InFront
  /\ ScreenGone
  /\ jobs' = [j \in Jobs |-> [jobs[j] EXCEPT !.ui = "gone"]]
  /\ UNCHANGED <<disk, asked, prior>>

EditProfileButtonTapped ==
  /\ InFront
  /\ "editing" \notin flags
  /\ flags' = (flags \ {"saveOn"}) \cup {"fields", "editing"}
  /\ UNCHANGED <<Saves, screen, modal, opened, text, loads, answered>>

\* The first change of a text since the marker was reset toggles Save.
TextFieldDidChange(x) ==
  /\ InFront
  /\ "fields" \in flags
  /\ x # text
  /\ text' = x
  /\ flags' = IF "infoChanged" \in flags THEN flags
              ELSE Toggle(flags, "saveOn") \cup {"infoChanged"}
  /\ UNCHANGED <<Saves, screen, modal, opened, loads, answered>>

\* Every new picture toggles Save, the second one back.
NewPicture == flags' = Toggle(flags, "saveOn") \cup {"imageChanged"}

EditProfileImageButtonTapped ==
  /\ InFront
  /\ "editing" \in flags
  /\ modal' = "picker"
  /\ UNCHANGED <<Saves, screen, flags, opened, text, loads, answered>>

\* Camera or gallery, dismissed with a picture or without one.
ImagePickerController ==
  /\ modal = "picker"
  /\ modal' = "none"
  /\ NewPicture \/ UNCHANGED flags
  /\ UNCHANGED <<Saves, screen, opened, text, loads, answered>>

\* The collection closes at once, its picture arrives when it is loaded,
\* whatever mode the screen is in by then, or never.
DownloadPhotoFromNetwork ==
  /\ modal = "picker"
  /\ loads < MaxLoads
  /\ modal' = "none"
  /\ loads' = loads + 1
  /\ UNCHANGED <<Saves, screen, flags, opened, text, answered>>

DownloadArrives ==
  /\ loads > 0
  /\ loads' = loads - 1
  /\ NewPicture \/ UNCHANGED flags
  /\ UNCHANGED <<Saves, screen, modal, opened, text, answered>>

\* Auxiliary: a save that starts with no other in flight is to land.
Expect(x) == IF Active = {} THEN asked' = x /\ prior' = asked
                            ELSE asked' = Nothing /\ prior' = Nothing

\* SaveWithGCD with the call of hideAButtons forgotten.
SaveKeepingMode(j) ==
  /\ jobs[j].phase = "none"
  /\ jobs' = [jobs EXCEPT ![j] = [phase |-> "queued", text |-> text,
                                  ui |-> "own", alone |-> "yes"]]
  /\ flags' = Toggle((flags \cup {"spinner"}) \ {"fields"}, "infoChanged")
  /\ Expect(text)
  /\ UNCHANGED <<disk, screen, opened, text, loads>>

\* saveWithGCD: the save is queued with the text shown now, and the mode is
\* toggled, whichever it was.  The picture's half of the handler is the action
\* of the same name in ProfilePicture.
SaveWithGCD(j) ==
  /\ jobs[j].phase = "none"
  /\ jobs' = [jobs EXCEPT ![j] = [phase |-> "queued", text |-> text,
                                  ui |-> "own", alone |-> "yes"]]
  /\ flags' = Toggle(Toggle((flags \cup {"spinner"}) \ {"fields"}, "editing"), "infoChanged")
  /\ Expect(text)
  /\ UNCHANGED <<disk, screen, opened, text, loads>>

SaveGCDButtonTapped(j) ==
  /\ InFront
  /\ {"editing", "saveOn"} \subseteq flags
  /\ SaveWithGCD(j)
  /\ UNCHANGED <<modal, answered>>

\* CancelChanges that also stops the indicator.
CancelHidingIndicator ==
  /\ text' = opened
  /\ flags' = Toggle(flags, "editing") \ {"spinner"}
  /\ UNCHANGED <<Saves, screen, opened, loads>>

\* cancelChanges: back to the texts of the time the screen was created.  The
\* fields stay enabled and the change markers stay set.
CancelChanges ==
  /\ text' = opened
  /\ flags' = Toggle(flags, "editing")
  /\ UNCHANGED <<Saves, screen, opened, loads>>

CancelButtonTapped ==
  /\ InFront
  /\ "editing" \in flags
  /\ CancelChanges
  /\ UNCHANGED <<modal, answered>>

AlertOk ==
  /\ modal = "success"
  /\ modal' = "none"
  /\ UNCHANGED <<Saves, screen, flags, opened, text, loads, answered>>

\* The fail alert: retry what the fields show now, or cancel.
AlertRetry(j) ==
  /\ modal = "fail"
  /\ modal' = "none"
  /\ answered' = "yes"
  /\ SaveWithGCD(j)

AlertCancel ==
  /\ modal = "fail"
  /\ modal' = "none"
  /\ answered' = "yes"
  /\ CancelChanges

-----------------------------------------------------------------------------
(* Saves on the global queue, which runs any number of them in parallel.   *)

Screen == <<screen, modal, flags, opened, text, loads, answered>>

\* write(to:) without options truncates the file first.  From then on every
\* write that is under way at the same time overlaps the others.
StartWrite(j) ==
  /\ jobs[j].phase = "queued"
  /\ disk' = Torn
  /\ jobs' = [k \in Jobs |->
       IF k = j THEN [jobs[k] EXCEPT !.phase = "writing",
                                     !.alone = IF Writing = {} THEN "yes" ELSE "no"]
       ELSE IF k \in Writing THEN [jobs[k] EXCEPT !.alone = "no"]
       ELSE jobs[k]]
  /\ prior' = Nothing
  /\ UNCHANGED <<Screen, asked>>

\* A save that has left the file keeps its outcome and its screen only.
Written(j, outcome) == [Idle EXCEPT !.phase = outcome, !.ui = jobs[j].ui]

\* EndWrite of a save that reads the fields late instead of capturing them.
EndWriteOfFields(j) ==
  /\ jobs[j].phase = "writing"
  /\ disk' = text
  /\ jobs' = [jobs EXCEPT ![j] = Written(j, "sleeping")]
  /\ UNCHANGED <<Screen, asked, prior>>

\* Two overlapping writes leave one of the texts, whichever ends last, or bytes
\* of both.
EndWrite(j) ==
  /\ jobs[j].phase = "writing"
  /\ \/ disk' = jobs[j].text
     \/ jobs[j].alone = "no" /\ disk' \in {Torn, disk}
  /\ jobs' = [jobs EXCEPT ![j] = Written(j, "sleeping")]
  /\ UNCHANGED <<Screen, asked, prior>>

\* No directory or no encoding before the write, which leaves the old file, or
\* no space during it.
FailWrite(j) ==
  /\ jobs[j].phase \in {"queued", "writing"}
  /\ jobs' = [jobs EXCEPT ![j] = Written(j, "failed")]
  /\ asked' = prior /\ prior' = Nothing
  /\ UNCHANGED <<Screen, disk>>

\* present does nothing while something else is presented.
Present(alert) == modal' = IF modal = "none" THEN alert ELSE modal

\* Completion as in loadUserProfile, whose catch does not call it.
CompletionOnSuccessOnly(j) ==
  /\ jobs[j].phase = "sleeping"
  /\ IF jobs[j].ui = "own" THEN flags' = flags \ {"spinner"} /\ Present("success")
                           ELSE UNCHANGED <<flags, modal>>
  /\ jobs' = [jobs EXCEPT ![j] = Idle]
  /\ UNCHANGED <<disk, asked, prior, screen, opened, text, loads, answered>>

\* The completion on the main queue: after the sleep with true, or with false.
Completion(j) ==
  /\ \/ jobs[j].phase = "sleeping" /\ jobs[j].ui = "own"
        /\ flags' = flags \ {"spinner"} /\ Present("success")
     \/ jobs[j].phase = "failed" /\ jobs[j].ui = "own"
        /\ Present("fail") /\ UNCHANGED flags
     \/ jobs[j].phase \in {"sleeping", "failed"} /\ jobs[j].ui = "gone"
        /\ UNCHANGED <<flags, modal>>
  /\ jobs' = [jobs EXCEPT ![j] = Idle]
  /\ UNCHANGED <<disk, asked, prior, screen, opened, text, loads, answered>>

\* The process ends at any point: a write under way leaves the file torn, and a
\* save that was only queued never runs.
Restart ==
  /\ ScreenGone
  /\ jobs' = [j \in Jobs |-> Idle]
  /\ asked' = IF \E j \in Jobs : jobs[j].phase \in {"queued", "writing"} THEN prior ELSE asked
  /\ prior' = Nothing
  /\ UNCHANGED disk

-----------------------------------------------------------------------------
SaveStep(j) == StartWrite(j) \/ EndWrite(j) \/ FailWrite(j) \/ Completion(j)

Next ==
  \/ ViewDidLoad \/ CloseButtonTapped \/ EditProfileButtonTapped
  \/ \E x \in Texts : TextFieldDidChange(x)
  \/ EditProfileImageButtonTapped \/ ImagePickerController
  \/ DownloadPhotoFromNetwork \/ DownloadArrives
  \/ \E j \in Jobs : SaveGCDButtonTapped(j)
  \/ CancelButtonTapped
  \/ AlertOk \/ AlertCancel \/ \E j \in Jobs : AlertRetry(j)
  \/ \E j \in Jobs : SaveStep(j)
  \/ Restart

\* GCD runs every block that was queued, and the main queue every completion.
Fairness == \A j \in Jobs : WF_vars(SaveStep(j))

Spec == Init /\ [][Next]_vars
FairSpec == Spec /\ Fairness

-----------------------------------------------------------------------------
(* Properties.                                                             *)

\* When all is quiet the file holds the latest save, whole, or the older one if
\* the latest failed before its write or the process ended before it: cancels,
\* closed screens, late completions, failures and restarts at any other moment
\* neither undo a save nor cost the file.  Only saves that overlap and a write
\* that is cut off are outside of it: those do tear the file.
LoneSaveLands == asked # Nothing /\ Active = {} => disk = asked

\* From the tap on Save until the completion of a lone save, or its failure, the
\* indicator is shown: no sequence of taps, pickers, downloads, cancels and
\* alerts hides it early.  A second save under way ends that promise: the first
\* completion hides the indicator of both.
SpinnerCoversSave ==
  asked # Nothing /\ (\E j \in Active : jobs[j].ui = "own") => "spinner" \in flags

\* Save and Cancel are never shown over disabled fields, as long as no fail
\* alert was answered (its two answers toggle the mode once more).
EditingMeansFields ==
  answered = "no" /\ "editing" \in flags => "fields" \in flags

\* Saving is never possible without a change of this screen: the button that
\* editing has disabled is enabled by a text or a picture only.
SaveNeedsChange ==
  "editing" \in flags /\ "saveOn" \in flags /\ answered = "no"
    => {"infoChanged", "imageChanged"} \cap flags # {}

\* The mode, which the handlers of ProfileViewController toggle, keeps these two
\* meanings through every order of taps, pickers, downloads and completions,
\* until a fail alert is answered.  The other direction does not hold: a second
\* picture disables Save although there is a change.
ModeIsConsistent == TypeOK /\ EditingMeansFields /\ SaveNeedsChange

\* What testValidatorCorrectLoadUserProfiileFromFileManager expects of every
\* load: that the completion is called with a profile.
LoadAlwaysCallsBack == [][ViewDidLoad => LoadUserProfile]_vars

\* The completion of every save that was queued runs in the end, or a restart
\* forgets the save; whether its alert can be presented is another matter.
SavesFinish == \A j \in Jobs : jobs[j].phase # "none" ~> jobs[j].phase = "none"

-----------------------------------------------------------------------------
(* The inductive invariant behind the theorems of ProfileEditorProofs.     *)

\* Alerts, pickers and the saves that report to a screen need it open.
ScreenHolds ==
  /\ modal # "none" => screen = "open"
  /\ \A j \in Jobs : jobs[j].ui = "own" => screen = "open"

\* The latest save, as long as it counts: nothing else is in flight, and the
\* file is as far as the save is.
SaveSoFar ==
  asked # Nothing =>
    /\ \A j, k \in Active : j = k
    /\ \A j \in Active :
         \/ jobs[j].phase \in {"queued", "writing"}
            /\ jobs[j].text = asked /\ jobs[j].alone = "yes"
         \/ jobs[j].phase \in {"sleeping", "failed"} /\ disk = asked
    /\ Active = {} => disk = asked

\* Until the save in flight touches the file, the file is what it was.
PriorHolds ==
  prior # Nothing => /\ asked # Nothing /\ disk = prior
                     /\ \A j \in Active : jobs[j].phase = "queued"

IInv ==
  /\ ModeIsConsistent
  /\ ScreenHolds
  /\ SaveSoFar
  /\ PriorHolds
  /\ SpinnerCoversSave

=============================================================================
