------------------------ MODULE ProfilePictureProofs ------------------------
(***************************************************************************)
(* Proofs about the profile picture for any pictures, any number of saves  *)
(* in flight and any number of loads; and about Initials, the text of the  *)
(* picture that stands in for it, for names of any length.                 *)
(***************************************************************************)
EXTENDS ProfilePicture, Initials, TLAPS

-----------------------------------------------------------------------------
(* Counting loads.                                                         *)

Counts == [Readings -> 0..MaxLoads]

LEMMA NoLoads == Zero \in Counts /\ ~InFlight(Zero)
  BY PictureAssumption DEF Zero, Counts, InFlight

\* One load that has not read yet, as every new button starts with.
LEMMA FirstLoad ==
  ASSUME NEW first, first = [Zero EXCEPT ![Unread] = 1]
  PROVE  /\ first \in Counts /\ InFlight(first)
         /\ \A r \in Readings : first[r] > 0 => r = Unread /\ first[r] = 1
         /\ \A r \in Readings \ {Unread} : first[r] = 0
  <1>1. Unread \in Readings
    BY DEF Readings
  <1> QED
    BY <1>1, PictureAssumption DEF Zero, Counts, InFlight

LEMMA ReadingsOfFile == LoadUserImage \in Readings \ {Unread}
  BY PictureAssumption DEF LoadUserImage, Readings, Images

LEMMA StartedCounts ==
  ASSUME screenLoads \in Counts, SetupProfileImageView
  PROVE  screenLoads' \in Counts
  <1>1. Unread \in Readings /\ screenLoads[Unread] + 1 \in 0..MaxLoads
    BY PictureAssumption DEF SetupProfileImageView, Counts, Readings
  <1> QED
    BY <1>1 DEF SetupProfileImageView, Counts

\* A load that reads the file moves from Unread to what the file gives.
LEMMA ReadCounts ==
  ASSUME NEW loads \in Counts, loads[Unread] > 0,
         loads[LoadUserImage] < MaxLoads
  PROVE  /\ Read(loads) \in Counts
         /\ Read(loads)[Unread] = loads[Unread] - 1
         /\ Read(loads)[LoadUserImage] = loads[LoadUserImage] + 1
         /\ \A r \in Readings \ {Unread, LoadUserImage} : Read(loads)[r] = loads[r]
  <1>1. Unread \in Readings
    BY DEF Readings
  <1> QED
    BY <1>1, ReadingsOfFile, PictureAssumption DEF Read, Counts

\* A delivery takes one load away.
LEMMA DeliveredCounts ==
  ASSUME NEW loads \in Counts, NEW r \in Readings, loads[r] > 0
  PROVE  /\ [loads EXCEPT ![r] = @ - 1] \in Counts
         /\ [loads EXCEPT ![r] = @ - 1][r] = loads[r] - 1
         /\ \A s \in Readings \ {r} : [loads EXCEPT ![r] = @ - 1][s] = loads[s]
  BY PictureAssumption DEF Counts

-----------------------------------------------------------------------------
(* The invariant holds initially.                                          *)

LEMMA InitIInv == Init => IInv
  <1> SUFFICES ASSUME Init PROVE IInv
    OBVIOUS
  <1>1. TypeOK
    BY NoLoads, FirstLoad DEF Init, TypeOK, Counts, Idle, Images
  <1>2. ChosenPictureStays /\ TrapNeedsEmptyPick /\ SaveSoFar /\ ChosenAlone
    BY PictureAssumption
    DEF Init, ChosenPictureStays, TrapNeedsEmptyPick, SaveSoFar, ChosenAlone, Active, Idle
  <1>3. OneLoad /\ ButtonSoFar /\ PriorHolds
    BY FirstLoad DEF Init, OneLoad, ButtonSoFar, ButtonShows, PriorHolds
  <1> QED
    BY <1>1, <1>2, <1>3 DEF IInv, ScreenKeepsPicture

-----------------------------------------------------------------------------
(* Steps of the screen, which touch neither saves nor the list's button.   *)

LEMMA ScreenStep ==
  ASSUME IInv, UNCHANGED <<saving, list>>,
         screen' \in {"closed", "open"}, shown' \in Images \cup {None},
         changed' \subseteq {"image"}, screenLoads' \in Counts,
         chosen' \in Pictures \cup {None, Unread},
         ChosenPictureStays', TrapNeedsEmptyPick', ChosenAlone'
  PROVE  IInv'
  <1> USE DEF saving, list
  <1>1. TypeOK'
    BY DEF IInv, ScreenKeepsPicture, TypeOK, Counts
  <1>2. SaveSoFar'
    BY DEF IInv, SaveSoFar, Active
  <1>3. OneLoad' /\ ButtonSoFar' /\ PriorHolds'
    BY DEF IInv, OneLoad, ButtonSoFar, PriorHolds, ButtonShows, InFlight, Active
  <1> QED
    BY <1>1, <1>2, <1>3 DEF IInv, ScreenKeepsPicture

LEMMA Before ==
  ASSUME IInv
  PROVE  /\ screen \in {"closed", "open"} /\ shown \in Images \cup {None}
         /\ changed \subseteq {"image"} /\ screenLoads \in Counts
         /\ chosen \in Pictures \cup {None, Unread}
         /\ ChosenPictureStays /\ TrapNeedsEmptyPick /\ ChosenAlone
  BY DEF IInv, ScreenKeepsPicture, TypeOK, Counts

\* A screen that opens or closes starts over.
LEMMA NewScreenStep ==
  ASSUME IInv, ViewDidLoad \/ CloseButtonTapped
  PROVE  IInv'
  <1>1. screenLoads' \in Counts
    <2>1. CASE ViewDidLoad
      BY <2>1, Before, StartedCounts DEF ViewDidLoad
    <2>2. CASE CloseButtonTapped
      BY <2>2, NoLoads DEF CloseButtonTapped
    <2> QED
      BY <2>1, <2>2
  <1>2. /\ UNCHANGED <<saving, list>> /\ screen' \in {"closed", "open"}
        /\ shown' = None /\ changed' = {} /\ chosen' = Unread
    BY DEF ViewDidLoad, CloseButtonTapped
  <1>3. ChosenPictureStays' /\ TrapNeedsEmptyPick' /\ ChosenAlone'
    BY <1>2, PictureAssumption DEF ChosenPictureStays, TrapNeedsEmptyPick, ChosenAlone
  <1> QED
    BY <1>1, <1>2, <1>3, ScreenStep

LEMMA NewPictureStep ==
  ASSUME IInv, NEW p \in Pictures \cup {None}, NewPicture(p)
  PROVE  IInv'
  <1>1. /\ UNCHANGED <<saving, screen, screenLoads, list>> /\ shown' = p /\ changed' = {"image"}
        /\ chosen' = IF p = None \/ ~InFlight(screenLoads) THEN p ELSE Unread
    BY DEF NewPicture
  <1>2. ChosenPictureStays' /\ TrapNeedsEmptyPick' /\ ChosenAlone'
    BY <1>1, PictureAssumption
    DEF ChosenPictureStays, TrapNeedsEmptyPick, ChosenAlone, InFlight
  <1> QED
    BY <1>1, <1>2, Before, ScreenStep DEF Images

LEMMA CancelChangesStep ==
  ASSUME IInv, CancelChanges
  PROVE  IInv'
  <1>1. screenLoads' \in Counts
    BY Before, StartedCounts DEF CancelChanges
  <1>2. /\ UNCHANGED <<saving, screen, shown, changed, list>>
        /\ chosen' = IF chosen = None THEN None ELSE Unread
    BY DEF CancelChanges
  <1>3. ChosenPictureStays' /\ TrapNeedsEmptyPick' /\ ChosenAlone'
    BY <1>2, Before, PictureAssumption
    DEF ChosenPictureStays, TrapNeedsEmptyPick, ChosenAlone
  <1> QED
    BY <1>1, <1>2, <1>3, Before, ScreenStep

LEMMA ReadForScreenStep ==
  ASSUME IInv, ReadForScreen
  PROVE  IInv'
  <1>1. screenLoads' \in Counts
    BY Before, ReadCounts DEF ReadForScreen
  <1>2. InFlight(screenLoads)
    BY DEF ReadForScreen, InFlight, Readings
  <1>3. ChosenPictureStays' /\ TrapNeedsEmptyPick' /\ ChosenAlone'
    BY <1>2, Before DEF ReadForScreen, ChosenPictureStays, TrapNeedsEmptyPick, ChosenAlone
  <1> QED
    BY <1>1, <1>3, Before, ScreenStep DEF ReadForScreen, saving

LEMMA DeliverToScreenStep ==
  ASSUME IInv, NEW r \in Readings, DeliverToScreen(r)
  PROVE  IInv'
  <1>1. screenLoads' \in Counts
    BY Before, DeliveredCounts DEF DeliverToScreen
  <1>2. InFlight(screenLoads)
    BY DEF DeliverToScreen, InFlight
  <1>3. shown' \in Images
    BY DEF DeliverToScreen, OrInitials, Readings, Images
  <1>4. ChosenPictureStays' /\ TrapNeedsEmptyPick' /\ ChosenAlone'
    BY <1>2, <1>3, Before, PictureAssumption
    DEF DeliverToScreen, ChosenPictureStays, TrapNeedsEmptyPick, ChosenAlone, Images
  <1> QED
    BY <1>1, <1>3, <1>4, Before, ScreenStep DEF DeliverToScreen

-----------------------------------------------------------------------------
(* Steps of the list's button.                                             *)

\* What a step of the button has to keep.
LEMMA ButtonStep ==
  ASSUME IInv, UNCHANGED <<saving, Views>>,
         button' \in Images \cup {None}, buttonLoads' \in Counts,
         OneLoad', ButtonSoFar', PriorHolds'
  PROVE  IInv'
  <1> USE DEF saving, Views
  <1>1. TypeOK'
    BY DEF IInv, ScreenKeepsPicture, TypeOK, Counts
  <1>2. SaveSoFar'
    BY DEF IInv, SaveSoFar, Active
  <1>3. ChosenPictureStays' /\ TrapNeedsEmptyPick' /\ ChosenAlone'
    BY Before DEF ChosenPictureStays, TrapNeedsEmptyPick, ChosenAlone, InFlight
  <1> QED
    BY <1>1, <1>2, <1>3 DEF IInv, ScreenKeepsPicture

\* The button's one load reads the file: the picture it is to hold.
LEMMA ReadForButtonStep ==
  ASSUME IInv, ReadForButton
  PROVE  IInv'
  <1>1. /\ buttonLoads \in Counts
        /\ OneLoad /\ ButtonSoFar /\ PriorHolds /\ SaveSoFar
    BY DEF IInv, ScreenKeepsPicture, TypeOK, Counts
  <1>2. /\ buttonLoads[Unread] = 1
        /\ \A r \in Readings \ {Unread} : buttonLoads[r] = 0
    BY <1>1 DEF ReadForButton, OneLoad, Readings
  <1>3. /\ buttonLoads' \in Counts
        /\ buttonLoads'[LoadUserImage] = 1
        /\ \A r \in Readings \ {LoadUserImage} : buttonLoads'[r] = 0
    BY <1>1, <1>2, ReadCounts, ReadingsOfFile, PictureAssumption DEF ReadForButton
  <1>4. OneLoad' /\ InFlight(buttonLoads')
    BY <1>3, ReadingsOfFile DEF OneLoad, InFlight
  <1>5. UNCHANGED <<file, asked, prior, jobs>>
    BY DEF ReadForButton, saving
  <1>6. ASSUME NEW p \in Images \cup {None}, file = p
        PROVE  ButtonShows(p)'
    BY <1>3, <1>4, <1>6, PictureAssumption DEF ButtonShows, LoadUserImage
  <1>7. ButtonSoFar' /\ PriorHolds'
    <2>1. asked \in Images \cup {None, Unread} /\ prior \in Images \cup {None, Unread}
      BY DEF IInv, ScreenKeepsPicture, TypeOK
    <2> QED
      BY <1>1, <1>5, <1>6, <2>1 DEF ButtonSoFar, PriorHolds, SaveSoFar, ButtonShows, Active
  <1> QED
    BY <1>3, <1>4, <1>7, ButtonStep DEF ReadForButton, IInv, ScreenKeepsPicture, TypeOK

LEMMA DeliverToButtonStep ==
  ASSUME IInv, NEW r \in Readings, DeliverToButton(r)
  PROVE  IInv'
  <1>1. /\ buttonLoads \in Counts
        /\ OneLoad /\ ButtonSoFar /\ PriorHolds /\ SaveSoFar
    BY DEF IInv, ScreenKeepsPicture, TypeOK, Counts
  <1>2. buttonLoads[r] = 1 /\ \A s \in Readings \ {r} : buttonLoads[s] = 0
    BY <1>1 DEF DeliverToButton, OneLoad
  <1>3. buttonLoads' \in Counts /\ \A s \in Readings : buttonLoads'[s] = 0
    <2>1. buttonLoads' = [buttonLoads EXCEPT ![r] = @ - 1] /\ buttonLoads[r] > 0
      BY DEF DeliverToButton
    <2>2. buttonLoads' \in Counts /\ buttonLoads'[r] = buttonLoads[r] - 1
      BY <1>1, <2>1, DeliveredCounts
    <2>3. \A s \in Readings \ {r} : buttonLoads'[s] = buttonLoads[s]
      BY <1>1, <2>1, DeliveredCounts
    <2> QED
      BY <1>2, <2>2, <2>3
  <1>4. OneLoad'
    BY <1>3 DEF OneLoad
  <1>5. button' = OrInitials(r) /\ button' \in Images /\ r # Unread
    BY DEF DeliverToButton, OrInitials, Readings, Images
  <1>6. ASSUME NEW p, ButtonShows(p)
        PROVE  ButtonShows(p)'
    BY <1>2, <1>3, <1>5, <1>6 DEF ButtonShows
  <1>7. ButtonSoFar' /\ PriorHolds'
    <2>1. UNCHANGED <<file, asked, prior, jobs>>
      BY DEF DeliverToButton, saving
    <2> QED
      BY <1>1, <1>6, <2>1 DEF ButtonSoFar, PriorHolds, ButtonShows, Active
  <1> QED
    BY <1>3, <1>4, <1>5, <1>7, ButtonStep DEF DeliverToButton

-----------------------------------------------------------------------------
(* Steps of saves.                                                         *)

Phases == {"none", "queued", "removed", "writing", "written"}
Job == [phase : Phases, image : Images, alone : {"yes", "no"}]

LEMMA JobType == IInv => jobs \in [Jobs -> Job] /\ Idle \in Job
  BY DEF IInv, ScreenKeepsPicture, TypeOK, Job, Phases, Idle, Images

\* A step that leaves the screen and the button alone.
LEMMA SaveStepKeeps ==
  ASSUME IInv, UNCHANGED Views, jobs' \in [Jobs -> Job],
         file' \in Images \cup {None, Torn},
         asked' \in Images \cup {None, Unread}, prior' \in Images \cup {None, Unread},
         UNCHANGED list, SaveSoFar', ButtonSoFar', PriorHolds'
  PROVE  IInv'
  <1> USE DEF Views, list
  <1>1. TypeOK'
    BY DEF IInv, ScreenKeepsPicture, TypeOK, Job, Phases
  <1>2. OneLoad'
    BY DEF IInv, OneLoad
  <1>3. ChosenPictureStays' /\ TrapNeedsEmptyPick' /\ ChosenAlone'
    BY Before DEF ChosenPictureStays, TrapNeedsEmptyPick, ChosenAlone, InFlight
  <1> QED
    BY <1>1, <1>2, <1>3 DEF IInv, ScreenKeepsPicture

LEMMA SaveTypes ==
  ASSUME IInv
  PROVE  /\ file \in Images \cup {None, Torn}
         /\ asked \in Images \cup {None, Unread} /\ prior \in Images \cup {None, Unread}
  BY DEF IInv, ScreenKeepsPicture, TypeOK

LEMMA SaveWithGCDStep ==
  ASSUME IInv, NEW j \in Jobs, SaveWithGCD(j)
  PROVE  IInv'
  <1> DEFINE new == [phase |-> "queued", image |-> shown, alone |-> "yes"]
  <1>1. new \in Job /\ new.phase = "queued" /\ new.image = shown /\ shown \in Images
    BY Before DEF SaveWithGCD, Job, Phases
  <1>2. /\ jobs' = [jobs EXCEPT ![j] = new]
        /\ Expect(shown)
        /\ UNCHANGED <<file, Views, list>>
    BY DEF SaveWithGCD
  <1> HIDE DEF new
  <1>3. /\ jobs' \in [Jobs -> Job] /\ jobs'[j] = new
        /\ \A k \in Jobs \ {j} : jobs'[k] = jobs[k]
    BY <1>1, <1>2, JobType
  <1>4. j \in Active'
    BY <1>1, <1>3 DEF Active
  <1>5. asked' # Unread => Active = {} /\ Active' = {j} /\ asked' = shown
    BY <1>2, <1>3, <1>4 DEF Active, Expect
  <1>6. SaveSoFar' /\ ButtonSoFar'
    BY <1>1, <1>2, <1>3, <1>4, <1>5 DEF SaveSoFar, ButtonSoFar
  <1>7. PriorHolds'
    <2> SUFFICES ASSUME prior' # Unread PROVE PriorHolds'
      BY DEF PriorHolds
    <2>1. Active = {} /\ prior' = asked /\ asked' = shown
      BY <1>2 DEF Expect
    <2>2. file = asked /\ ButtonShows(asked)
      BY <2>1 DEF IInv, SaveSoFar, ButtonSoFar
    <2>3. Active' = {j}
      BY <1>1, <1>3, <2>1 DEF Active
    <2>4. asked' # Unread
      BY <1>1, <2>1, PictureAssumption DEF Images
    <2> QED
      BY <1>1, <1>2, <1>3, <2>1, <2>2, <2>3, <2>4 DEF PriorHolds, ButtonShows, InFlight, list
  <1>8. asked' \in Images \cup {None, Unread} /\ prior' \in Images \cup {None, Unread}
    BY <1>1, <1>2, SaveTypes DEF Expect
  <1> QED
    BY <1>2, <1>3, <1>6, <1>7, <1>8, SaveTypes, SaveStepKeeps

\* A step of the global queue on the save j, which stays in flight.
LEMMA StageKeeps ==
  ASSUME IInv, NEW j \in Jobs, UNCHANGED <<Views, list, asked>>, prior' = Unread,
         file' \in Images \cup {None, Torn},
         jobs[j].phase # "none", jobs' \in [Jobs -> Job],
         \A k \in Jobs : jobs'[k].phase = "none" <=> jobs[k].phase = "none",
         asked # Unread /\ Active = {j} =>
           \/ jobs'[j].phase \in {"queued", "removed"} /\ jobs'[j].image = asked
           \/ jobs'[j].phase = "writing" /\ jobs'[j].image = asked
              /\ jobs'[j].alone = "yes" /\ file' = Torn
           \/ jobs'[j].phase = "written" /\ file' = asked
  PROVE  IInv'
  <1>1. Active' = Active /\ j \in Active
    BY DEF Active
  <1>2. asked # Unread => Active = {j}
    BY <1>1 DEF IInv, SaveSoFar
  <1>3. SaveSoFar' /\ ButtonSoFar' /\ PriorHolds'
    BY <1>1, <1>2 DEF IInv, SaveSoFar, ButtonSoFar, PriorHolds
  <1> QED
    BY <1>3, SaveTypes, SaveStepKeeps

LEMMA RemoveOldStep ==
  ASSUME IInv, NEW j \in Jobs, RemoveOld(j)
  PROVE  IInv'
  <1>1. /\ jobs[j].phase = "queued" /\ UNCHANGED <<Views, list, asked>> /\ prior' = Unread
        /\ file' \in Images \cup {None, Torn}
    BY SaveTypes DEF RemoveOld
  <1>2. ASSUME NEW k \in Jobs
        PROVE  /\ jobs'[k] \in Job /\ jobs'[k].image = jobs[k].image
               /\ jobs'[k].phase = IF k = j THEN "removed" ELSE jobs[k].phase
    BY JobType DEF RemoveOld, Job, Phases
  <1>3. jobs' \in [Jobs -> Job]
    BY <1>2, JobType DEF RemoveOld
  <1>4. asked # Unread => jobs[j].image = asked
    BY <1>1 DEF IInv, SaveSoFar, Active
  <1> QED
    BY <1>1, <1>2, <1>3, <1>4, StageKeeps

LEMMA StartWriteStep ==
  ASSUME IInv, NEW j \in Jobs, StartWrite(j)
  PROVE  IInv'
  <1>1. /\ jobs[j].phase = "removed" /\ UNCHANGED <<Views, list, asked>> /\ prior' = Unread
        /\ file' = Torn
    BY DEF StartWrite, IInv, PriorHolds, Active
  <1>2. ASSUME NEW k \in Jobs
        PROVE  /\ jobs'[k] \in Job /\ jobs'[k].image = jobs[k].image
               /\ jobs'[k].phase = IF k = j THEN "writing" ELSE jobs[k].phase
               /\ k = j /\ Writing = {} => jobs'[k].alone = "yes"
    BY JobType DEF StartWrite, Job, Phases
  <1>3. jobs' \in [Jobs -> Job]
    BY <1>2 DEF StartWrite
  <1>4. asked # Unread => jobs[j].image = asked
    BY <1>1 DEF IInv, SaveSoFar, Active
  <1>5. Active = {j} => Writing = {}
    BY <1>1 DEF Active, Writing
  <1> QED
    BY <1>1, <1>2, <1>3, <1>4, <1>5, StageKeeps

\* A lone write that nobody overlaps leaves its picture in the file.
LEMMA EndWriteStep ==
  ASSUME IInv, NEW j \in Jobs, EndWrite(j)
  PROVE  IInv'
  <1>1. jobs[j].phase = "writing" /\ UNCHANGED <<Views, list, asked>> /\ prior' = Unread
    BY DEF EndWrite, IInv, PriorHolds, Active
  <1>2. file' \in Images \cup {None, Torn}
    BY JobType, SaveTypes DEF EndWrite, Job
  <1>3. ASSUME NEW k \in Jobs
        PROVE  /\ jobs'[k] \in Job
               /\ jobs'[k].phase = IF k = j THEN "written" ELSE jobs[k].phase
    BY JobType DEF EndWrite, Job, Phases
  <1>4. jobs' \in [Jobs -> Job]
    BY <1>3, JobType DEF EndWrite
  <1>5. asked # Unread => file' = asked
    <2>1. asked # Unread => /\ jobs[j].image = asked /\ jobs[j].alone = "yes"
                            /\ file = Torn
      BY <1>1 DEF IInv, SaveSoFar, Active
    <2> QED
      BY <2>1, PictureAssumption DEF EndWrite
  <1> QED
    BY <1>1, <1>2, <1>3, <1>4, <1>5, StageKeeps

\* A save that fails before it touched the file leaves what was there.
LEMMA FailSaveStep ==
  ASSUME IInv, NEW j \in Jobs, FailSave(j)
  PROVE  IInv'
  <1>1. /\ jobs' = [jobs EXCEPT ![j] = Idle] /\ asked' = prior /\ prior' = Unread
        /\ jobs[j].phase # "none" /\ UNCHANGED <<file, Views, list>>
    BY DEF FailSave
  <1>2. jobs' \in [Jobs -> Job]
    BY <1>1, JobType
  <1>3. Active' = Active \ {j} /\ j \in Active
    BY <1>1, JobType DEF Active, Idle
  <1>4. prior # Unread => Active' = {} /\ file = prior /\ ButtonShows(prior)
    BY <1>3 DEF IInv, PriorHolds, SaveSoFar
  <1>5. SaveSoFar' /\ PriorHolds'
    BY <1>1, <1>4 DEF SaveSoFar, PriorHolds
  <1>6. ButtonSoFar'
    BY <1>1, <1>4 DEF ButtonSoFar, ButtonShows, InFlight, list
  <1> QED
    BY <1>1, <1>2, <1>5, <1>6, SaveTypes, SaveStepKeeps

\* The completion makes a new button, whose load will read the finished file.
LEMMA CompletionStep ==
  ASSUME IInv, NEW j \in Jobs, Completion(j)
  PROVE  IInv'
  <1>1. /\ jobs' = [jobs EXCEPT ![j] = Idle] /\ jobs[j].phase = "written"
        /\ button' = None /\ buttonLoads' = [Zero EXCEPT ![Unread] = 1]
        /\ UNCHANGED <<file, Views, asked, prior>>
    BY DEF Completion
  <1>2. jobs' \in [Jobs -> Job]
    BY <1>1, JobType
  <1>3. Active' = Active \ {j} /\ j \in Active
    BY <1>1, JobType DEF Active, Idle
  <1>4. asked # Unread => Active' = {} /\ file = asked
    BY <1>1, <1>3 DEF IInv, SaveSoFar
  <1>5. SaveSoFar' /\ PriorHolds'
    BY <1>1, <1>3, <1>4 DEF SaveSoFar, IInv, PriorHolds
  <1>6. buttonLoads' \in Counts /\ OneLoad' /\ ButtonSoFar'
    BY <1>1, FirstLoad DEF OneLoad, ButtonSoFar, ButtonShows
  <1>7. TypeOK'
    BY <1>1, <1>2, <1>6 DEF IInv, ScreenKeepsPicture, TypeOK, Counts, Views, Job, Phases
  <1>8. ChosenPictureStays' /\ TrapNeedsEmptyPick' /\ ChosenAlone'
    BY <1>1, Before DEF Views, ChosenPictureStays, TrapNeedsEmptyPick, ChosenAlone, InFlight
  <1> QED
    BY <1>5, <1>6, <1>7, <1>8 DEF IInv, ScreenKeepsPicture

LEMMA RestartStep ==
  ASSUME IInv, Restart
  PROVE  IInv'
  <1>1. TypeOK'
    BY NoLoads, FirstLoad
    DEF Restart, IInv, ScreenKeepsPicture, TypeOK, Counts, Idle, Images
  <1>2. ChosenPictureStays' /\ TrapNeedsEmptyPick' /\ ChosenAlone'
    BY PictureAssumption
    DEF Restart, ChosenPictureStays, TrapNeedsEmptyPick, ChosenAlone
  <1>3. OneLoad' /\ ButtonSoFar' /\ PriorHolds'
    BY FirstLoad DEF Restart, OneLoad, ButtonSoFar, ButtonShows, PriorHolds
  <1>4. asked' # Unread => file' = asked'
    <2>1. CASE \A j \in Active : jobs[j].phase = "written"
      BY <2>1 DEF Restart, IInv, SaveSoFar
    <2>2. CASE ~ \A j \in Active : jobs[j].phase = "written"
      BY <2>2 DEF Restart, IInv, PriorHolds
    <2> QED
      BY <2>1, <2>2
  <1>5. SaveSoFar'
    BY <1>4 DEF Restart, SaveSoFar, Active, Idle
  <1> QED
    BY <1>1, <1>2, <1>3, <1>5 DEF IInv, ScreenKeepsPicture

LEMMA StutterStep ==
  ASSUME IInv, UNCHANGED vars
  PROVE  IInv'
  <1>1. ChosenPictureStays' /\ TrapNeedsEmptyPick' /\ ChosenAlone'
    BY Before DEF vars, ChosenPictureStays, TrapNeedsEmptyPick, ChosenAlone, InFlight
  <1> QED
    BY <1>1, Before, ScreenStep DEF vars, saving, list

LEMMA NextIInv == IInv /\ [Next]_vars => IInv'
  <1> SUFFICES ASSUME IInv, [Next]_vars
               PROVE  IInv'
    OBVIOUS
  <1>1. CASE ViewDidLoad \/ CloseButtonTapped
    BY <1>1, NewScreenStep
  <1>2. CASE CancelChanges
    BY <1>2, CancelChangesStep
  <1>3. CASE \/ \E p \in Pictures \cup {None} : ImagePickerController(p)
             \/ \E p \in Pictures : DownloadArrives(p)
    BY <1>3, NewPictureStep DEF ImagePickerController, DownloadArrives
  <1>4. CASE \E j \in Jobs : SaveWithGCD(j)
    BY <1>4, SaveWithGCDStep
  <1>5. CASE ReadForScreen \/ \E r \in Readings : DeliverToScreen(r)
    BY <1>5, ReadForScreenStep, DeliverToScreenStep
  <1>6. CASE ReadForButton \/ \E r \in Readings : DeliverToButton(r)
    BY <1>6, ReadForButtonStep, DeliverToButtonStep
  <1>7. CASE \E j \in Jobs : SaveStep(j)
    BY <1>7, RemoveOldStep, StartWriteStep, EndWriteStep, FailSaveStep, CompletionStep
    DEF SaveStep
  <1>8. CASE SaveTraps \/ Restart
    BY <1>8, RestartStep DEF SaveTraps
  <1>9. CASE UNCHANGED vars
    BY <1>9, StutterStep
  <1> QED
    BY <1>1, <1>2, <1>3, <1>4, <1>5, <1>6, <1>7, <1>8, <1>9 DEF Next

-----------------------------------------------------------------------------
(* The theorems.                                                           *)

\* The inductive invariant holds in every reachable state.
THEOREM Invariance == Spec => []IInv
  BY InitIInv, NextIInv, PTL DEF Spec

\* When all saves are done the file holds the latest picture, or the older one if
\* that save did not get to its removal, for any number of failures and restarts,
\* unless saves overlapped or one ended between its removal and its write's end.
THEOREM LonePicturesLand == Spec => []LonePictureLands
  <1>1. IInv => LonePictureLands
    BY DEF IInv, SaveSoFar, LonePictureLands
  <1> QED
    BY <1>1, Invariance, PTL

\* Then the button of the list shows it too once its load is delivered.
THEOREM ButtonsFollowFile == Spec => []ButtonFollowsFile
  <1>1. IInv => ButtonFollowsFile
    BY DEF IInv, ButtonSoFar, ButtonShows, ButtonFollowsFile
  <1> QED
    BY <1>1, Invariance, PTL

\* What Save reads from profileImageView is the picture chosen last while no
\* load was under way, and only a picker without an image leaves it empty.
THEOREM ScreensKeepPicture == Spec => []ScreenKeepsPicture
  <1>1. IInv => ScreenKeepsPicture
    BY DEF IInv
  <1> QED
    BY <1>1, Invariance, PTL

-----------------------------------------------------------------------------
(* The initials.                                                           *)

LEMMA EmptyIsNoInitial == Empty # "U" /\ Empty # "P" /\ Empty \notin Letters
  BY InitialsAssumption DEF Empty

LEMMA NameTypes ==
  ASSUME words \in Names
  PROVE  /\ Len(words) \in Nat \ {0}
         /\ \A i \in 1..Len(words) : words[i] \in Letters \cup {Other, Blank}
  <1> DEFINE Starts == Letters \cup {Other, Blank}
  <1>1. PICK n \in 1..MaxWords : words \in [1..n -> Starts]
    BY DEF Names
  <1>2. n \in Nat \ {0} /\ words \in Seq(Starts) /\ Len(words) = n
    <2>1. n \in Nat \ {0}
      BY InitialsAssumption
    <2>2. words \in Seq(Starts)
      BY <1>1, <2>1
    <2> QED
      BY <1>1, <2>1, <2>2
  <1> QED
    BY <1>1, <1>2

LEMMA InitInitialsIInv == InitialsInit => InitialsIInv
  <1> SUFFICES ASSUME InitialsInit PROVE InitialsIInv
    OBVIOUS
  <1>1. InitialsTypeOK
    BY NameTypes DEF InitialsInit, InitialsTypeOK
  <1>2. item = 1 /\ found = 0 /\ Leading = {}
    <2>1. item = 1 /\ found = 0
      BY DEF InitialsInit
    <2>2. 1..item - 1 = {}
      BY <2>1
    <2> QED
      BY <2>1, <2>2 DEF Leading
  <1> QED
    BY <1>1, <1>2 DEF InitialsInit, InitialsIInv, InitialsOfWordsSeen, MarkersCount

\* A word adds its place to those of the leading letters, or nothing.
LEMMA VisitedPlaces ==
  ASSUME InitialsTypeOK, VisitWord
  PROVE  /\ item \in Nat \ {0} /\ item' = item + 1 /\ words' = words
         /\ words[item] \in Letters \cup {Other, Blank}
         /\ \A i \in Leading : i \in 1..item - 1
         /\ Leading' = IF words[item] \in Letters THEN Leading \cup {item} ELSE Leading
  <1>1. /\ item \in Nat \ {0} /\ item' = item + 1 /\ words' = words
        /\ words[item] \in Letters \cup {Other, Blank}
    BY NameTypes DEF InitialsTypeOK, VisitWord
  <1>2. 1..item' - 1 = (1..item - 1) \cup {item}
    BY <1>1
  <1>3. Leading' = {i \in (1..item - 1) \cup {item} : words[i] \in Letters}
    BY <1>1, <1>2 DEF Leading
  <1> QED
    BY <1>1, <1>3 DEF Leading

LEMMA VisitWordTypes ==
  ASSUME InitialsIInv, VisitWord
  PROVE  InitialsTypeOK'
  <1> DEFINE c == words[item]
             i == Placeholder(Found(c)[1], Found(c)[2])
  <1>1. firstInital' = i[1] /\ secondInitial' = i[2]
    BY DEF VisitWord
  <1>2. i[1] \in Letters \cup {Empty, "U"} /\ i[2] \in Letters \cup {Empty, "P"}
    BY DEF Found, Placeholder, InitialsIInv, InitialsOfWordsSeen, InitialsTypeOK
  <1>3. words' \in Names /\ item' \in 1..Len(words') + 1
    BY NameTypes DEF VisitWord, InitialsIInv, InitialsOfWordsSeen, InitialsTypeOK
  <1>4. found' \in 0..2
    BY DEF VisitWord, InitialsIInv, InitialsOfWordsSeen, InitialsTypeOK
  <1> QED
    BY <1>1, <1>2, <1>3, <1>4 DEF InitialsTypeOK

\* A word that begins with no letter changes nothing, but the first word of all
\* sets the placeholder.
LEMMA OtherWordStep ==
  ASSUME InitialsIInv, VisitWord, words[item] \notin Letters
  PROVE  InitialsIInv'
  <1>1. InitialsTypeOK' /\ InitialsTypeOK
    BY VisitWordTypes DEF InitialsIInv, InitialsOfWordsSeen
  <1>2. /\ item \in Nat \ {0} /\ item' = item + 1 /\ words' = words
        /\ \A i \in Leading : i \in 1..item - 1
        /\ Leading' = Leading
    BY <1>1, VisitedPlaces
  <1>3. found' = found
    BY DEF VisitWord
  <1>4. /\ firstInital' = IF firstInital = Empty /\ secondInitial = Empty THEN "U" ELSE firstInital
        /\ secondInitial' = IF firstInital = Empty /\ secondInitial = Empty THEN "P" ELSE secondInitial
    BY DEF VisitWord, Found, Placeholder
  <1>5. CASE item = 1
    <2>1. Leading = {}
      BY <1>2, <1>5
    <2>2. firstInital' = "U" /\ secondInitial' = "P"
      BY <1>4, <1>5 DEF InitialsIInv, MarkersCount
    <2> QED
      BY <1>1, <1>2, <1>3, <1>5, <2>1, <2>2
      DEF InitialsIInv, InitialsOfWordsSeen, MarkersCount
  <1>6. CASE item # 1
    <2>1. item > 1 /\ item' > 1 /\ item' # 1
      BY <1>2, <1>6
    <2>2. firstInital # Empty
      BY <1>2, <2>1, EmptyIsNoInitial DEF InitialsIInv, InitialsOfWordsSeen, Leading
    <2>3. firstInital' = firstInital /\ secondInitial' = secondInitial
      BY <1>4, <2>2
    <2> QED
      BY <1>1, <1>2, <1>3, <2>1, <2>3 DEF InitialsIInv, InitialsOfWordsSeen, MarkersCount
  <1> QED
    BY <1>5, <1>6

\* A word that begins with a letter is the first, the second or a later one.
LEMMA LetterStep ==
  ASSUME InitialsIInv, VisitWord, words[item] \in Letters
  PROVE  InitialsIInv'
  <1> DEFINE c == words[item]
             L == Leading
  <1>1. InitialsTypeOK' /\ InitialsTypeOK
    BY VisitWordTypes DEF InitialsIInv, InitialsOfWordsSeen
  <1>2. /\ item \in Nat \ {0} /\ item' = item + 1 /\ words' = words
        /\ \A i \in L : i \in 1..item - 1
        /\ Leading' = L \cup {item}
    BY <1>1, VisitedPlaces
  <1>3. item' > 1 /\ item' # 1 /\ item \notin L /\ \A i \in L : i < item /\ item # i
    BY <1>2
  <1>4. c # Empty /\ found \in 0..2
    BY <1>1, EmptyIsNoInitial DEF InitialsTypeOK
  <1>5. /\ found = 0 <=> L = {}
        /\ found < 2 <=> \A i, j \in L : i = j
        /\ item = 1 => firstInital = Empty /\ secondInitial = Empty
        /\ item > 1 =>
             /\ IF L = {} THEN firstInital = "U"
                ELSE \E i \in L : firstInital = words[i] /\ \A j \in L : i <= j
             /\ IF \A i, j \in L : i = j
                THEN secondInitial = IF words[1] \in Letters THEN Empty ELSE "P"
                ELSE \E h, i \in L : /\ h < i /\ secondInitial = words[i]
                                     /\ \A j \in L : j = h \/ i <= j
    BY DEF InitialsIInv, InitialsOfWordsSeen, MarkersCount
  <1> SUFFICES /\ found' = 0 <=> L \cup {item} = {}
               /\ found' < 2 <=> \A i, j \in L \cup {item} : i = j
               /\ \E i \in L \cup {item} : /\ firstInital' = words[i]
                                           /\ \A j \in L \cup {item} : i <= j
               /\ IF \A i, j \in L \cup {item} : i = j
                  THEN secondInitial' = IF words[1] \in Letters THEN Empty ELSE "P"
                  ELSE \E h, i \in L \cup {item} :
                         /\ h < i /\ secondInitial' = words[i]
                         /\ \A j \in L \cup {item} : j = h \/ i <= j
    BY <1>1, <1>2, <1>3 DEF InitialsIInv, InitialsOfWordsSeen, MarkersCount
  <1>6. CASE found = 0
    <2>1. L = {}
      BY <1>5, <1>6
    <2>2. found' = 1 /\ firstInital' = c /\ secondInitial' = secondInitial
      BY <1>4, <1>6 DEF VisitWord, Found, Placeholder
    <2>3. secondInitial = IF words[1] \in Letters THEN Empty ELSE "P"
      <3>1. CASE item = 1
        BY <1>5, <3>1
      <3>2. CASE item # 1
        <4>1. item > 1
          BY <1>2, <3>2
        <4> QED
          BY <1>5, <2>1, <4>1
      <3> QED
        BY <3>1, <3>2
    <2> HIDE DEF L
    <2> QED
      BY <1>2, <2>1, <2>2, <2>3
  <1>7. CASE found = 1
    <2>1. PICK k \in L : L = {k} /\ firstInital = words[k]
      BY <1>2, <1>5, <1>7
    <2>2. found' = 2 /\ firstInital' = firstInital /\ secondInitial' = c
      BY <1>4, <1>7 DEF VisitWord, Found, Placeholder
    <2>3. k \in 1..item - 1
      BY <1>2
    <2> HIDE DEF L
    <2> QED
      BY <1>2, <1>3, <2>1, <2>2, <2>3
  <1>8. CASE found = 2
    <2>1. item > 1 /\ L # {} /\ ~ \A i, j \in L : i = j
      BY <1>2, <1>5, <1>8
    <2>2. firstInital # Empty /\ found' = found
      BY <1>5, <1>8, <2>1, EmptyIsNoInitial DEF Leading, VisitWord
    <2>3. firstInital' = firstInital /\ secondInitial' = secondInitial
      BY <1>8, <2>2 DEF VisitWord, Found, Placeholder
    <2> HIDE DEF L
    <2>4. PICK i \in L : firstInital = words[i] /\ \A j \in L : i <= j
      BY <1>5, <2>1
    <2>5. PICK h, s \in L : h < s /\ secondInitial = words[s] /\ \A j \in L : j = h \/ s <= j
      BY <1>5, <2>1
    <2>6. i <= item /\ s <= item
      BY <1>2
    <2> QED
      BY <1>8, <2>1, <2>2, <2>3, <2>4, <2>5, <2>6
  <1> QED
    BY <1>4, <1>6, <1>7, <1>8

THEOREM InitialsInvariance == InitialsSpec => []InitialsIInv
  <1>1. InitialsIInv /\ [InitialsNext]_initialsVars => InitialsIInv'
    <2> SUFFICES ASSUME InitialsIInv, [InitialsNext]_initialsVars PROVE InitialsIInv'
      OBVIOUS
    <2>1. CASE VisitWord
      BY <2>1, OtherWordStep, LetterStep
    <2>2. CASE UNCHANGED initialsVars
      BY <2>2 DEF initialsVars, InitialsIInv, InitialsOfWordsSeen, MarkersCount,
                  InitialsTypeOK, Leading
    <2> QED
      BY <2>1, <2>2 DEF InitialsNext
  <1> QED
    BY <1>1, InitInitialsIInv, PTL DEF InitialsSpec

\* The initials are the first two leading letters of the words seen so far, with
\* the placeholder's letters only where there are none: for every name.
THEOREM InitialsAreRight == InitialsSpec => []InitialsOfWordsSeen
  <1>1. InitialsIInv => InitialsOfWordsSeen
    BY DEF InitialsIInv
  <1> QED
    BY <1>1, InitialsInvariance, PTL

=============================================================================
