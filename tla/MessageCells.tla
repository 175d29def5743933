---------------------------- MODULE MessageCells ----------------------------
(***************************************************************************)
(* The cells of a conversation.  ConversationViewController configures a   *)
(* MessageTableViewCell for a row, and UIKit hands the cell out again for  *)
(* another row later.  The cell has no prepareForReuse: an attribute keeps *)
(* its value until some assignment replaces it, and the picture of a       *)
(* message whose content is a URL is fetched on a global queue and arrives *)
(* in the cell whatever the cell displays by then.                         *)
(*                                                                         *)
(* A message stands for its content, sender and name.  The scrolling user, *)
(* reloadData and the pool of cells belong to UIKit and are external.      *)
(***************************************************************************)
EXTENDS FiniteSets

CONSTANTS
  Messages,   \* the messages of the channel
  Kind,       \* content: "text", "url", or "badURL" (see ChecingImageInMessage)
  Own,        \* the messages this device has sent
  TableCells, \* bound: cells of the table
  Fetches,    \* bound: pictures being fetched
  NoMessage   \* an attribute never set, a cell in the pool

ASSUME CellsAssumption ==
  /\ Kind \in [Messages -> {"text", "url", "badURL"}]
  /\ Own \subseteq Messages
  /\ NoMessage \notin Messages

VARIABLES
  displayed,  \* the message whose row the cell displays, NoMessage in the pool
  label,      \* messageLabel.text: the content of a message, or the error
  picture,    \* sendedImage.image: the message it was fetched for
  name,       \* userNameLabel.text: the message whose sender it names
  hidden,     \* userNameLabel.isHidden
  side,       \* the active constraint and the colour that goes with it
  fetches,    \* pictures: what stage, for which cell and message
  late        \* auxiliary: was a fetch for another message under way then?

cellVars == <<displayed, label, picture, name, hidden, side, fetches, late>>

Content(m) == [error |-> "no", of |-> m]
APIError(m) == [error |-> "yes", of |-> m]
Blank == [error |-> "no", of |-> NoMessage]

Free == [phase |-> "none", cell |-> NoMessage, msg |-> NoMessage]

Active == {l \in Fetches : fetches[l].phase # "none"}
For(c) == {l \in Active : fetches[l].cell = c}

CellTypeOK ==
  /\ displayed \in [TableCells -> Messages \cup {NoMessage}]
  /\ label \in [TableCells -> [error : {"yes", "no"}, of : Messages \cup {NoMessage}]]
  /\ picture \in [TableCells -> Messages \cup {NoMessage}]
  /\ name \in [TableCells -> Messages \cup {NoMessage}]
  /\ hidden \in [TableCells -> {"yes", "no"}]
  /\ side \in [TableCells -> {"leading", "trailing"}]
  /\ fetches \in [Fetches -> {Free} \cup [phase : {"queued", "fetched", "failed"},
                                         cell : TableCells, msg : Messages]]
  /\ late \in [TableCells -> {"yes", "no"}]

\* init(style:reuseIdentifier:): a cell starts on the trailing side.
CellInit ==
  /\ displayed = [c \in TableCells |-> NoMessage]
  /\ label = [c \in TableCells |-> Blank]
  /\ picture = [c \in TableCells |-> NoMessage]
  /\ name = [c \in TableCells |-> NoMessage]
  /\ hidden = [c \in TableCells |-> "no"]
  /\ side = [c \in TableCells |-> "trailing"]
  /\ fetches = [l \in Fetches |-> Free]
  /\ late = [c \in TableCells |-> "no"]

-----------------------------------------------------------------------------
(* Configuring a cell.                                                     *)

\* A text is shown at once; a content that validateURL accepts is fetched, and
\* one that URL(string:) then refuses leaves the cell as it is.
ChecingImageInMessage(c, m) ==
  \/ /\ Kind[m] = "text"
     /\ label' = [label EXCEPT ![c] = Content(m)]
     /\ UNCHANGED fetches
  \/ /\ Kind[m] = "url"
     /\ \E l \in Fetches \ Active :
          fetches' = [fetches EXCEPT ![l] = [phase |-> "queued", cell |-> c, msg |-> m]]
     /\ UNCHANGED label
  \/ /\ Kind[m] = "badURL"
     /\ UNCHANGED <<label, fetches>>

\* ChannelMessageID that hides the name on the wrong side.
ChannelMessageIDHidingOthers(c, m) ==
  IF m \in Own
  THEN side' = [side EXCEPT ![c] = "trailing"] /\ UNCHANGED hidden
  ELSE /\ side' = [side EXCEPT ![c] = "leading"]
       /\ hidden' = [hidden EXCEPT ![c] = "yes"]

\* channelMessageID.didSet: an own message hides the name, no message shows it.
ChannelMessageID(c, m) ==
  IF m \in Own
  THEN /\ side' = [side EXCEPT ![c] = "trailing"]
       /\ hidden' = [hidden EXCEPT ![c] = "yes"]
  ELSE side' = [side EXCEPT ![c] = "leading"] /\ UNCHANGED hidden

\* tableView(_:cellForRowAt:) with a cell of the pool.
CellForRowAt(c, m) ==
  /\ displayed[c] = NoMessage
  /\ \A d \in TableCells : displayed[d] # m
  /\ displayed' = [displayed EXCEPT ![c] = m]
  /\ ChecingImageInMessage(c, m)
  /\ ChannelMessageID(c, m)
  /\ name' = [name EXCEPT ![c] = m]
  /\ late' = [late EXCEPT ![c] = IF \E l \in For(c) : fetches[l].msg # m THEN "yes" ELSE "no"]
  /\ UNCHANGED picture

\* The row scrolls away or the table is reloaded: the cell returns to the pool
\* with everything it shows.
EndDisplaying(c) ==
  /\ displayed[c] # NoMessage
  /\ displayed' = [displayed EXCEPT ![c] = NoMessage]
  /\ UNCHANGED <<label, picture, name, hidden, side, fetches, late>>

-----------------------------------------------------------------------------
(* The global queue and what it sends to the main queue.                   *)

\* Data(contentsOf:) returns data or throws.
Fetch(l) ==
  /\ fetches[l].phase = "queued"
  /\ \E outcome \in {"fetched", "failed"} :
       fetches' = [fetches EXCEPT ![l].phase = outcome]
  /\ UNCHANGED <<displayed, label, picture, name, hidden, side, late>>

\* UIImage(data:) is nil for data that is no picture.
DeliverPicture(l) ==
  /\ fetches[l].phase = "fetched"
  /\ \E p \in {fetches[l].msg, NoMessage} : picture' = [picture EXCEPT ![fetches[l].cell] = p]
  /\ fetches' = [fetches EXCEPT ![l] = Free]
  /\ UNCHANGED <<displayed, label, name, hidden, side, late>>

\* DeliverError that reports nothing.
DeliverErrorSilently(l) ==
  /\ fetches[l].phase = "failed"
  /\ fetches' = [fetches EXCEPT ![l] = Free]
  /\ UNCHANGED <<displayed, label, picture, name, hidden, side, late>>

DeliverError(l) ==
  /\ fetches[l].phase = "failed"
  /\ label' = [label EXCEPT ![fetches[l].cell] = APIError(fetches[l].msg)]
  /\ fetches' = [fetches EXCEPT ![l] = Free]
  /\ UNCHANGED <<displayed, picture, name, hidden, side, late>>

-----------------------------------------------------------------------------
LoadStep(l) == Fetch(l) \/ DeliverPicture(l) \/ DeliverError(l)

CellNext ==
  \/ \E c \in TableCells, m \in Messages : CellForRowAt(c, m)
  \/ \E c \in TableCells : EndDisplaying(c)
  \/ \E l \in Fetches : LoadStep(l)

CellSpec == CellInit /\ [][CellNext]_cellVars

-----------------------------------------------------------------------------
(* Properties.                                                             *)

\* What the reader of a conversation relies on, and reuse never breaks: the name
\* and the side are those of the message on display, and an own message shows
\* no name.  (A name hidden by an own message stays hidden for the others.)
SenderIsRight ==
  \A c \in TableCells : displayed[c] # NoMessage =>
    /\ name[c] = displayed[c]
    /\ side[c] = IF displayed[c] \in Own THEN "trailing" ELSE "leading"
    /\ displayed[c] \in Own => hidden[c] = "yes"

\* A text on display is that of the message, unless a fetch that was started
\* for an earlier message of the cell fails after the reuse.
TextRowsKeepText ==
  \A c \in TableCells :
    displayed[c] # NoMessage /\ late[c] = "no" =>
      (Kind[displayed[c]] = "text" => label[c] = Content(displayed[c]))

\* Once no fetch is under way for a cell, the row of a URL shows its picture,
\* or no picture, or the error: a picture of an earlier message that lingers at
\* first is always replaced, except when the fetch failed.
PictureRowsSettle ==
  \A c \in TableCells :
    displayed[c] # NoMessage /\ late[c] = "no" /\ For(c) = {} =>
      (Kind[displayed[c]] = "url" =>
         picture[c] \in {displayed[c], NoMessage} \/ label[c] = APIError(displayed[c]))

\* What channelMessageID promises of a row in a reused cell: name and side.
CellsKeepSender == CellTypeOK /\ SenderIsRight

\* What checingImageInMessage promises of it: its text, its picture or an error.
CellsGetContent == TextRowsKeepText /\ PictureRowsSettle

-----------------------------------------------------------------------------
(* The inductive invariant behind the theorems of PictureCellsProofs.      *)

\* Pictures are fetched for URLs only.
FetchesOfURLs == \A l \in Active : Kind[fetches[l].msg] = "url"

\* A row that was not late when it was configured has no fetch but its own.
FetchesOfRow ==
  \A c \in TableCells : displayed[c] # NoMessage /\ late[c] = "no" =>
    \A l \in For(c) : fetches[l].msg = displayed[c]

CellIInv ==
  /\ CellsKeepSender
  /\ FetchesOfURLs
  /\ FetchesOfRow
  /\ CellsGetContent

=============================================================================
