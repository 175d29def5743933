--------------------------- MODULE ProfilePicture ---------------------------
(***************************************************************************)
(* The user's picture: the file "userProfileImage", the picture on the     *)
(* profile screen and the picture on the button of the channel list.       *)
(*                                                                         *)
(* A save removes the old file and writes the new one, without atomicity,  *)
(* on a concurrent global queue; loads run on the same queue and deliver   *)
(* to the main queue later.  ProfileEditor has the screen's modes and the  *)
(* text half of the same handlers; here the handlers are available         *)
(* whenever the screen is open, which only adds behaviours.                *)
(***************************************************************************)
EXTENDS Naturals, FiniteSets

\* What a load has read before it has read anything; elsewhere: not known.
Unread == "unread"

CONSTANTS
  Pictures,   \* pictures a user can choose
  Initials,   \* the generated picture shown when no file loads
  None,       \* no file, no readable file, no picture yet
  Torn,       \* a file that is half written or written by two
  Jobs,       \* bound: saves in flight
  MaxLoads    \* bound: loads in flight per receiver

ASSUME PictureAssumption ==
  /\ Initials \notin Pictures /\ None \notin Pictures /\ Torn \notin Pictures
  /\ Initials # None /\ Initials # Torn /\ None # Torn
  /\ Unread \notin Pictures \cup {Initials, None}
  /\ MaxLoads \in Nat \ {0}

VARIABLES
  file,       \* userProfileImage in the application support directory
  screen,     \* the profile screen: "closed" or "open"
  shown,      \* profileImageView.image
  changed,    \* changeUserImage: {} or {"image"}
  screenLoads,\* loads for the screen: what each has read, or Unread
  button,     \* the picture on the newest profile button of the list
  buttonLoads,\* loads for that button, alike
  jobs,       \* saves in flight
  asked,      \* auxiliary: what the file is to hold when all saves are done,
              \* Unread after saves that overlapped or were cut off
  prior,      \* auxiliary: what asked was before the save in flight, as long
              \* as that save has not touched the file; otherwise Unread
  chosen      \* auxiliary: what the user chose last with no load under way,
              \* None for a picker without an image, else Unread

vars == <<file, screen, shown, changed, screenLoads, button, buttonLoads, jobs,
          asked, prior, chosen>>

\* initials are a picture as any other once they are saved.
Images == Pictures \cup {Initials}

\* loads are counted by what they have read: waiting, nothing or a picture.
Readings == {Unread, None} \cup Images
Zero == [r \in Readings |-> 0]
InFlight(loads) == \E r \in Readings : loads[r] > 0

Idle == [phase |-> "none", image |-> Initials, alone |-> "yes"]

Active == {j \in Jobs : jobs[j].phase # "none"}
Writing == {j \in Jobs : jobs[j].phase = "writing"}

TypeOK ==
  /\ file \in Images \cup {None, Torn}
  /\ screen \in {"closed", "open"}
  /\ shown \in Images \cup {None}
  /\ changed \subseteq {"image"}
  /\ screenLoads \in [Readings -> 0..MaxLoads]
  /\ button \in Images \cup {None}
  /\ buttonLoads \in [Readings -> 0..MaxLoads]
  /\ jobs \in [Jobs -> [phase : {"none", "queued", "removed", "writing", "written"},
                        image : Images, alone : {"yes", "no"}]]
  /\ asked \in Images \cup {None, Unread}
  /\ prior \in Images \cup {None, Unread}
  /\ chosen \in Pictures \cup {None, Unread}

\* A process starts with the list: its button loads the file.
Init ==
  /\ file = None
  /\ screen = "closed" /\ shown = None /\ changed = {}
  /\ screenLoads = Zero
  /\ button = None
  /\ buttonLoads = [Zero EXCEPT ![Unread] = 1]
  /\ jobs = [j \in Jobs |-> Idle]
  /\ asked = None /\ prior = Unread /\ chosen = Unread

-----------------------------------------------------------------------------
(* The profile screen.                                                     *)

saving == <<file, jobs, asked, prior>>
list == <<button, buttonLoads>>
Views == <<screen, shown, changed, screenLoads, chosen>>

\* setupProfileImageView: GCDManager.loadUserImage is queued.
SetupProfileImageView ==
  /\ screenLoads[Unread] < MaxLoads
  /\ screenLoads' = [screenLoads EXCEPT ![Unread] = @ + 1]

ViewDidLoad ==
  /\ screen = "closed"
  /\ screen' = "open"
  /\ shown' = None /\ changed' = {} /\ chosen' = Unread
  /\ SetupProfileImageView
  /\ UNCHANGED <<saving, list>>

\* The weak self of loads in flight becomes nil.
CloseButtonTapped ==
  /\ screen = "open"
  /\ screen' = "closed"
  /\ shown' = None /\ changed' = {} /\ screenLoads' = Zero /\ chosen' = Unread
  /\ UNCHANGED <<saving, list>>

NewPicture(p) ==
  /\ screen = "open"
  /\ shown' = p
  /\ changed' = {"image"}
  /\ chosen' = IF p = None \/ ~InFlight(screenLoads) THEN p ELSE Unread
  /\ UNCHANGED <<saving, screen, screenLoads, list>>

\* Camera or gallery.  A picker without any image blanks the picture, and the
\* marker is set all the same.
ImagePickerController(p) == NewPicture(p)

\* The closure of downloadPhotoFromNetwork always has an image; it may come
\* long after the collection was closed.
DownloadArrives(p) == NewPicture(p)

\* cancelChanges: the file's picture is loaded again, the marker stays set.
CancelChanges ==
  /\ screen = "open"
  /\ SetupProfileImageView
  /\ chosen' = IF chosen = None THEN None ELSE Unread
  /\ UNCHANGED <<saving, screen, shown, changed, list>>

\* Auxiliary: a save that starts with no other in flight is to land.
Expect(p) == IF Active = {} THEN asked' = p /\ prior' = asked
                            ELSE asked' = Unread /\ prior' = Unread

\* saveWithGCD: the picture shown NOW is saved if one was ever chosen.
SaveWithGCD(j) ==
  /\ screen = "open"
  /\ changed # {}
  /\ shown # None
  /\ jobs[j].phase = "none"
  /\ jobs' = [jobs EXCEPT ![j] = [phase |-> "queued", image |-> shown, alone |-> "yes"]]
  /\ Expect(shown)
  /\ UNCHANGED <<file, Views, list>>

-----------------------------------------------------------------------------
(* Loads on the global queue.                                              *)

\* UIImage(contentsOfFile:) finds a whole picture or nothing.
LoadUserImage == IF file \in Images THEN file ELSE None

Read(loads) == [[loads EXCEPT ![Unread] = @ - 1] EXCEPT ![LoadUserImage] = @ + 1]

ReadForScreen ==
  /\ screenLoads[Unread] > 0
  /\ screenLoads[LoadUserImage] < MaxLoads
  /\ screenLoads' = Read(screenLoads)
  /\ UNCHANGED <<saving, screen, shown, changed, chosen, list>>

ReadForButton ==
  /\ buttonLoads[Unread] > 0
  /\ buttonLoads' = Read(buttonLoads)
  /\ UNCHANGED <<saving, Views, button>>

OrInitials(r) == IF r = None THEN Initials ELSE r

\* The main queue shows what was read, over a picture chosen meanwhile too.
DeliverToScreen(r) ==
  /\ r # Unread
  /\ screenLoads[r] > 0
  /\ screenLoads' = [screenLoads EXCEPT ![r] = @ - 1]
  /\ shown' = OrInitials(r)
  /\ UNCHANGED <<saving, screen, changed, chosen, list>>

DeliverToButton(r) ==
  /\ r # Unread
  /\ buttonLoads[r] > 0
  /\ buttonLoads' = [buttonLoads EXCEPT ![r] = @ - 1]
  /\ button' = OrInitials(r)
  /\ UNCHANGED <<saving, Views>>

-----------------------------------------------------------------------------
(* Saves on the global queue.                                              *)

\* fileExists and removeItem, whose error is only printed.
RemoveOld(j) ==
  /\ jobs[j].phase = "queued"
  /\ jobs' = [jobs EXCEPT ![j].phase = "removed"]
  /\ file' = None \/ UNCHANGED file
  /\ prior' = Unread
  /\ UNCHANGED <<Views, list, asked>>

\* write(to:) without options creates or truncates the file.
StartWrite(j) ==
  /\ jobs[j].phase = "removed"
  /\ file' = Torn
  /\ jobs' = [k \in Jobs |->
       IF k = j THEN [jobs[k] EXCEPT !.phase = "writing",
                                     !.alone = IF Writing = {} THEN "yes" ELSE "no"]
       ELSE IF k \in Writing THEN [jobs[k] EXCEPT !.alone = "no"]
       ELSE jobs[k]]
  /\ UNCHANGED <<Views, list, asked, prior>>

\* The old file is removed after the new one was written over it.
EndWriteThenRemove(j) ==
  /\ jobs[j].phase = "writing"
  /\ file' = None
  /\ jobs' = [jobs EXCEPT ![j].phase = "written"]
  /\ UNCHANGED <<Views, list, asked, prior>>

\* A removal by another save may have unlinked the file that was written, and
\* that save may have written a new one, which this write then does not touch.
EndWrite(j) ==
  /\ jobs[j].phase = "writing"
  /\ \/ file # None /\ file' = jobs[j].image
     \/ file # None /\ jobs[j].alone = "no" /\ file' = Torn
     \/ (file = None \/ jobs[j].alone = "no") /\ UNCHANGED file
  /\ jobs' = [jobs EXCEPT ![j].phase = "written"]
  /\ UNCHANGED <<Views, list, asked, prior>>

\* jpegData is nil and nothing is called, or an error is printed.
FailSave(j) ==
  /\ jobs[j].phase \in {"queued", "removed", "writing"}
  /\ jobs' = [jobs EXCEPT ![j] = Idle]
  /\ asked' = prior /\ prior' = Unread
  /\ UNCHANGED <<file, Views, list>>

\* Completion that does not call updateProfileImageClosure.
CompletionSilent(j) ==
  /\ jobs[j].phase = "written"
  /\ jobs' = [jobs EXCEPT ![j] = Idle]
  /\ UNCHANGED <<file, Views, list, asked, prior>>

\* Completion that refreshes the profile screen as well.
CompletionOnScreen(j) ==
  /\ jobs[j].phase = "written"
  /\ jobs' = [jobs EXCEPT ![j] = Idle]
  /\ button' = None
  /\ buttonLoads' = [Zero EXCEPT ![Unread] = 1]
  /\ screenLoads' = [Zero EXCEPT ![Unread] = 1]
  /\ UNCHANGED <<file, screen, shown, changed, chosen, asked, prior>>

\* updateProfileImageClosure(true), whose self is strong: setupUserProfileButton
\* makes a new button and loads the file for it; the old button is gone.
Completion(j) ==
  /\ jobs[j].phase = "written"
  /\ jobs' = [jobs EXCEPT ![j] = Idle]
  /\ button' = None
  /\ buttonLoads' = [Zero EXCEPT ![Unread] = 1]
  /\ UNCHANGED <<file, Views, asked, prior>>

\* The process ends at any point and is started again: the file remains.
Restart ==
  /\ screen' = "closed" /\ shown' = None /\ changed' = {} /\ screenLoads' = Zero
  /\ button' = None /\ buttonLoads' = [Zero EXCEPT ![Unread] = 1]
  /\ jobs' = [j \in Jobs |-> Idle]
  /\ asked' = IF \A j \in Active : jobs[j].phase = "written" THEN asked ELSE prior
  /\ prior' = Unread /\ chosen' = Unread
  /\ UNCHANGED file

\* profileImageView.image! traps when the picker had left no image.
SaveTraps ==
  /\ screen = "open"
  /\ changed # {}
  /\ shown = None
  /\ Restart

-----------------------------------------------------------------------------
SaveStep(j) == RemoveOld(j) \/ StartWrite(j) \/ EndWrite(j) \/ FailSave(j) \/ Completion(j)

Next ==
  \/ ViewDidLoad \/ CloseButtonTapped \/ CancelChanges
  \/ \E p \in Pictures \cup {None} : ImagePickerController(p)
  \/ \E p \in Pictures : DownloadArrives(p)
  \/ \E j \in Jobs : SaveWithGCD(j)
  \/ ReadForScreen \/ \E r \in Readings : DeliverToScreen(r)
  \/ ReadForButton \/ \E r \in Readings : DeliverToButton(r)
  \/ \E j \in Jobs : SaveStep(j)
  \/ SaveTraps \/ Restart

Spec == Init /\ [][Next]_vars

-----------------------------------------------------------------------------
(* Properties.                                                             *)

\* When all saves are done the file holds the latest picture saved, or the older
\* one if that save failed, or the process ended, before it had removed the old
\* file: the removal never wins over the write, and no restart or failure at any
\* other moment costs the picture.  Saves that overlap, and one that ends between
\* its removal and the end of its write, are outside of it: those do lose it.
LonePictureLands == asked # Unread /\ Active = {} => file = asked

\* Then the button of the list shows it too, once its load is delivered: the
\* load that the completion starts reads the finished file, a save that failed
\* or a restart leaves the button with what is still in the file, and loads for
\* older buttons do not reach the new one.
ButtonFollowsFile ==
  asked # Unread /\ Active = {} /\ ~InFlight(buttonLoads) => button = OrInitials(asked)

\* A picture chosen while no load for the screen was under way stays on it, and
\* is what Save will store: reads, deliveries and saves that are still running
\* do not replace it; only the user's next choice does, which a download is,
\* however late it arrives.  Chosen during a load, it may lose to the old picture.
ChosenPictureStays == chosen \in Pictures => shown = chosen

\* profileImageView.image! can trap only after a picker without an image: a file
\* that does not load, is torn or was removed leaves the initials instead.
TrapNeedsEmptyPick == changed # {} /\ shown = None => chosen = None

\* What Save reads from profileImageView is the picture the user chose last, and
\* there is one, as far as the code sees to it.
ScreenKeepsPicture == TypeOK /\ ChosenPictureStays /\ TrapNeedsEmptyPick

-----------------------------------------------------------------------------
(* The inductive invariant behind the theorems of ProfilePictureProofs.    *)

\* The latest save, while it counts: nothing else is in flight, and the file is
\* as far as the save is.
SaveSoFar ==
  asked # Unread =>
    /\ \A j, k \in Active : j = k
    /\ \A j \in Active :
         \/ jobs[j].phase \in {"queued", "removed"} /\ jobs[j].image = asked
         \/ jobs[j].phase = "writing" /\ jobs[j].image = asked
            /\ jobs[j].alone = "yes" /\ file = Torn
         \/ jobs[j].phase = "written" /\ file = asked
    /\ Active = {} => file = asked

\* The list's button waits for at most one load, which has read
\* the file as it is to be or will.
OneLoad ==
  \A r \in Readings : buttonLoads[r] > 0 =>
    buttonLoads[r] = 1 /\ \A s \in Readings \ {r} : buttonLoads[s] = 0

ButtonShows(p) ==
  /\ \A r \in Readings : buttonLoads[r] > 0 => r \in {Unread, p}
  /\ ~InFlight(buttonLoads) => button = OrInitials(p)

ButtonSoFar == asked # Unread /\ Active = {} => ButtonShows(asked)

\* Until the save in flight touches the file, file and button are as before.
PriorHolds ==
  prior # Unread => /\ asked # Unread /\ file = prior /\ ButtonShows(prior)
                    /\ \A j \in Active : jobs[j].phase = "queued"

\* No load can replace a picture that was chosen while none was under way.
ChosenAlone == chosen \in Pictures => ~InFlight(screenLoads)

IInv ==
  /\ ScreenKeepsPicture
  /\ SaveSoFar
  /\ OneLoad
  /\ ButtonSoFar
  /\ PriorHolds
  /\ ChosenAlone

=============================================================================
