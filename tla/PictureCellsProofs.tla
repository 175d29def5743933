------------------------- MODULE PictureCellsProofs -------------------------
(***************************************************************************)
(* Proofs about the two kinds of reused cells whose pictures arrive late,  *)
(* the messages of a conversation (MessageCells) and the pictures from the *)
(* network (NetworkImages): for any messages, any answer of the server and *)
(* any number of cells and of loads in flight.  The two modules share no   *)
(* state and no proof.                                                     *)
(***************************************************************************)
EXTENDS MessageCells, NetworkImages, SequenceTheorems, TLAPS

-----------------------------------------------------------------------------
(* The messages of a conversation: types of the fetches.                   *)

Fetching == [phase : {"queued", "fetched", "failed"}, cell : TableCells, msg : Messages]

LEMMA FetchTypes ==
  ASSUME CellIInv
  PROVE  /\ fetches \in [Fetches -> {Free} \cup Fetching]
         /\ \A l \in Active : fetches[l] \in Fetching
         /\ Free.phase = "none"
         /\ \A l \in Fetches : fetches[l].phase # "none" => l \in Active
  BY DEF CellIInv, CellsKeepSender, CellTypeOK, Fetching, Active, Free

LEMMA InitCellIInv == CellInit => CellIInv
  <1> SUFFICES ASSUME CellInit PROVE CellIInv
    OBVIOUS
  <1>1. CellTypeOK
    BY DEF CellInit, CellTypeOK, Blank
  <1>2. SenderIsRight /\ FetchesOfRow /\ CellsGetContent
    BY DEF CellInit, SenderIsRight, FetchesOfRow, CellsGetContent, TextRowsKeepText, PictureRowsSettle
  <1>3. FetchesOfURLs
    BY DEF CellInit, FetchesOfURLs, Active, Free
  <1> QED
    BY <1>1, <1>2, <1>3 DEF CellIInv, CellsKeepSender

-----------------------------------------------------------------------------
(* Configuring a cell.                                                     *)

\* What checingImageInMessage does to the fetches: nothing, or one more, for
\* this cell and a message that is a URL.
LEMMA ChecingImageFetches ==
  ASSUME CellIInv, NEW c \in TableCells, NEW m \in Messages, ChecingImageInMessage(c, m)
  PROVE  /\ fetches' \in [Fetches -> {Free} \cup Fetching]
         /\ Active \subseteq Active'
         /\ \A l \in Active : fetches'[l] = fetches[l]
         /\ \A l \in Active' \ Active :
              fetches'[l].cell = c /\ fetches'[l].msg = m /\ Kind[m] = "url"
         /\ Kind[m] = "url" => \E l \in Active' : fetches'[l].cell = c
  <1> DEFINE new == [phase |-> "queued", cell |-> c, msg |-> m]
  <1>1. new \in Fetching /\ new.phase # "none" /\ new.cell = c /\ new.msg = m
    BY DEF Fetching
  <1>2. CASE Kind[m] = "url"
    <2>1. PICK l \in Fetches \ Active : fetches' = [fetches EXCEPT ![l] = new]
      BY <1>2 DEF ChecingImageInMessage
    <2> HIDE DEF new
    <2>2. /\ fetches' \in [Fetches -> {Free} \cup Fetching] /\ fetches'[l] = new
          /\ \A k \in Fetches \ {l} : fetches'[k] = fetches[k]
      BY <1>1, <2>1, FetchTypes
    <2> QED
      BY <1>1, <1>2, <2>1, <2>2, FetchTypes DEF Active
  <1>3. CASE Kind[m] # "url"
    BY <1>3, FetchTypes DEF ChecingImageInMessage, Active
  <1> QED
    BY <1>2, <1>3

LEMMA ChannelMessageIDTypes ==
  ASSUME CellTypeOK, NEW c \in TableCells, NEW m \in Messages, ChannelMessageID(c, m)
  PROVE  /\ side' \in [TableCells -> {"leading", "trailing"}]
         /\ hidden' \in [TableCells -> {"yes", "no"}]
         /\ side'[c] = IF m \in Own THEN "trailing" ELSE "leading"
         /\ m \in Own => hidden'[c] = "yes"
         /\ \A d \in TableCells \ {c} : side'[d] = side[d] /\ hidden'[d] = hidden[d]
  BY DEF CellTypeOK, ChannelMessageID

LEMMA CellForRowAtStep ==
  ASSUME CellIInv, NEW c \in TableCells, NEW m \in Messages, CellForRowAt(c, m)
  PROVE  CellIInv'
  <1>1. CellTypeOK /\ SenderIsRight
    BY DEF CellIInv, CellsKeepSender
  <1>2. /\ displayed' = [displayed EXCEPT ![c] = m] /\ name' = [name EXCEPT ![c] = m]
        /\ ChecingImageInMessage(c, m) /\ ChannelMessageID(c, m)
        /\ late' = [late EXCEPT ![c] = IF \E l \in For(c) : fetches[l].msg # m
                                       THEN "yes" ELSE "no"]
        /\ UNCHANGED picture
    BY DEF CellForRowAt
  <1>3. /\ displayed' \in [TableCells -> Messages \cup {NoMessage}] /\ displayed'[c] = m
        /\ late' \in [TableCells -> {"yes", "no"}]
        /\ late'[c] = "no" => \A l \in For(c) : fetches[l].msg = m
        /\ \A d \in TableCells \ {c} : displayed'[d] = displayed[d] /\ late'[d] = late[d]
    BY <1>1, <1>2 DEF CellTypeOK
  <1>4. /\ label' \in [TableCells -> [error : {"yes", "no"}, of : Messages \cup {NoMessage}]]
        /\ Kind[m] = "text" => label'[c] = Content(m)
        /\ \A d \in TableCells \ {c} : label'[d] = label[d]
    BY <1>1, <1>2 DEF CellTypeOK, ChecingImageInMessage, Content
  <1>5. CellTypeOK'
    BY <1>1, <1>2, <1>3, <1>4, ChecingImageFetches, ChannelMessageIDTypes
    DEF CellTypeOK, Fetching
  <1>6. SenderIsRight'
    BY <1>1, <1>2, <1>3, ChannelMessageIDTypes DEF SenderIsRight, CellTypeOK
  <1>7. FetchesOfURLs'
    BY <1>2, ChecingImageFetches DEF CellIInv, FetchesOfURLs
  <1>8. ASSUME NEW d \in TableCells
        PROVE  /\ d # c => For(d)' = For(d)
               /\ For(c) \subseteq For(c)'
               /\ \A l \in For(c)' \ For(c) : fetches'[l].msg = m
               /\ \A l \in For(d) : fetches'[l] = fetches[l]
               /\ Kind[m] = "url" => For(c)' # {}
    BY <1>2, ChecingImageFetches DEF For
  <1>9. FetchesOfRow'
    BY <1>3, <1>8 DEF CellIInv, FetchesOfRow
  <1>10. TextRowsKeepText'
    BY <1>3, <1>4 DEF CellIInv, CellsGetContent, TextRowsKeepText
  <1>11. PictureRowsSettle'
    BY <1>2, <1>3, <1>4, <1>8 DEF CellIInv, CellsGetContent, PictureRowsSettle
  <1> QED
    BY <1>5, <1>6, <1>7, <1>9, <1>10, <1>11 DEF CellIInv, CellsKeepSender, CellsGetContent

LEMMA EndDisplayingStep ==
  ASSUME CellIInv, NEW c \in TableCells, EndDisplaying(c)
  PROVE  CellIInv'
  <1>1. /\ displayed' \in [TableCells -> Messages \cup {NoMessage}]
        /\ \A d \in TableCells : displayed'[d] # NoMessage => displayed'[d] = displayed[d]
        /\ UNCHANGED <<label, picture, name, hidden, side, fetches, late>>
    BY DEF EndDisplaying, CellIInv, CellsKeepSender, CellTypeOK
  <1>2. CellTypeOK' /\ SenderIsRight'
    BY <1>1 DEF CellIInv, CellsKeepSender, CellTypeOK, SenderIsRight
  <1>3. FetchesOfURLs' /\ FetchesOfRow'
    BY <1>1 DEF CellIInv, FetchesOfURLs, FetchesOfRow, Active, For
  <1>4. TextRowsKeepText' /\ PictureRowsSettle'
    BY <1>1 DEF CellIInv, CellsGetContent, TextRowsKeepText, PictureRowsSettle, Active, For
  <1> QED
    BY <1>2, <1>3, <1>4 DEF CellIInv, CellsKeepSender, CellsGetContent

-----------------------------------------------------------------------------
(* Fetching a picture.                                                     *)

LEMMA FetchStep ==
  ASSUME CellIInv, NEW l \in Fetches, Fetch(l)
  PROVE  CellIInv'
  <1>1. PICK outcome \in {"fetched", "failed"} :
          fetches' = [fetches EXCEPT ![l] = [fetches[l] EXCEPT !.phase = outcome]]
    BY DEF Fetch
  <1>2. l \in Active /\ fetches[l] \in Fetching
    BY FetchTypes DEF Fetch
  <1>3. ASSUME NEW k \in Fetches
        PROVE  /\ fetches'[k] \in {Free} \cup Fetching
               /\ fetches'[k].cell = fetches[k].cell /\ fetches'[k].msg = fetches[k].msg
               /\ fetches'[k].phase = "none" <=> fetches[k].phase = "none"
    BY <1>1, <1>2, FetchTypes DEF Fetching
  <1>4. fetches' \in [Fetches -> {Free} \cup Fetching]
    BY <1>1, <1>3, FetchTypes
  <1>5. Active' = Active /\ \A c \in TableCells : For(c)' = For(c)
    BY <1>3 DEF Active, For
  <1>6. UNCHANGED <<displayed, label, picture, name, hidden, side, late>>
    BY DEF Fetch
  <1>7. CellTypeOK' /\ SenderIsRight'
    BY <1>4, <1>6 DEF CellIInv, CellsKeepSender, CellTypeOK, SenderIsRight, Fetching
  <1>8. FetchesOfURLs' /\ FetchesOfRow'
    BY <1>3, <1>5, <1>6 DEF CellIInv, FetchesOfURLs, FetchesOfRow, Active, For
  <1>9. TextRowsKeepText' /\ PictureRowsSettle'
    BY <1>5, <1>6 DEF CellIInv, CellsGetContent, TextRowsKeepText, PictureRowsSettle
  <1> QED
    BY <1>7, <1>8, <1>9 DEF CellIInv, CellsKeepSender, CellsGetContent

\* A fetch ends: its cell gets a picture, none, or an error in its label.
LEMMA FetchEndsStep ==
  ASSUME CellIInv, NEW l \in Fetches, DeliverPicture(l) \/ DeliverError(l)
  PROVE  CellIInv'
  <1> DEFINE c == fetches[l].cell
             m == fetches[l].msg
  <1>1. l \in Active /\ c \in TableCells /\ m \in Messages /\ Kind[m] = "url"
    BY FetchTypes DEF DeliverPicture, DeliverError, Fetching, CellIInv, FetchesOfURLs
  <1>2. \/ /\ \E p \in {m, NoMessage} : picture' = [picture EXCEPT ![c] = p]
           /\ UNCHANGED label
        \/ /\ label' = [label EXCEPT ![c] = APIError(m)]
           /\ UNCHANGED picture
    BY DEF DeliverPicture, DeliverError
  <1>3. /\ fetches' = [fetches EXCEPT ![l] = Free]
        /\ UNCHANGED <<displayed, name, hidden, side, late>>
    BY DEF DeliverPicture, DeliverError
  <1>4. l \in For(c)
    BY <1>1 DEF For
  <1> HIDE DEF c, m
  <1>5. /\ picture' \in [TableCells -> Messages \cup {NoMessage}]
        /\ label' \in [TableCells -> [error : {"yes", "no"}, of : Messages \cup {NoMessage}]]
        /\ picture'[c] \in {m, NoMessage} \/ label'[c] = APIError(m)
        /\ \A d \in TableCells \ {c} : picture'[d] = picture[d] /\ label'[d] = label[d]
    BY <1>1, <1>2 DEF CellIInv, CellsKeepSender, CellTypeOK, APIError
  <1>6. /\ fetches' \in [Fetches -> {Free} \cup Fetching]
        /\ \A k \in Fetches \ {l} : fetches'[k] = fetches[k]
        /\ fetches'[l].phase = "none"
    BY <1>3, FetchTypes
  <1>7. /\ Active' = Active \ {l}
        /\ \A d \in TableCells : For(d)' = For(d) \ {l}
        /\ \A d \in TableCells \ {c} : l \notin For(d)
    BY <1>4, <1>6 DEF Active, For, c
  <1>8. CellTypeOK' /\ SenderIsRight'
    BY <1>3, <1>5, <1>6 DEF CellIInv, CellsKeepSender, CellTypeOK, SenderIsRight, Fetching
  <1>9. FetchesOfURLs' /\ FetchesOfRow'
    <2>1. \A k \in Active' : fetches'[k] = fetches[k]
      BY <1>6, <1>7 DEF Active
    <2> QED
      BY <1>3, <1>7, <2>1 DEF CellIInv, FetchesOfURLs, FetchesOfRow, For
  <1>10. displayed[c] # NoMessage /\ late[c] = "no" => displayed[c] = m
    BY <1>1, <1>4 DEF CellIInv, FetchesOfRow, m
  <1>11. TextRowsKeepText'
    BY <1>1, <1>3, <1>5, <1>10 DEF CellIInv, CellsGetContent, TextRowsKeepText
  <1>12. PictureRowsSettle'
    <2> SUFFICES ASSUME NEW d \in TableCells, displayed[d] # NoMessage, late[d] = "no",
                        For(d)' = {}, Kind[displayed[d]] = "url"
                 PROVE  picture'[d] \in {displayed[d], NoMessage} \/ label'[d] = APIError(displayed[d])
      BY <1>3 DEF PictureRowsSettle
    <2>1. CASE d = c
      BY <1>5, <1>10, <2>1
    <2>2. CASE d # c
      BY <1>5, <1>7, <2>2 DEF CellIInv, CellsGetContent, PictureRowsSettle
    <2> QED
      BY <2>1, <2>2
  <1> QED
    BY <1>8, <1>9, <1>11, <1>12 DEF CellIInv, CellsKeepSender, CellsGetContent

LEMMA CellStutterStep ==
  ASSUME CellIInv, UNCHANGED cellVars
  PROVE  CellIInv'
  <1>1. CellTypeOK' /\ SenderIsRight'
    BY DEF cellVars, CellIInv, CellsKeepSender, CellTypeOK, SenderIsRight
  <1>2. FetchesOfURLs' /\ FetchesOfRow'
    BY DEF cellVars, CellIInv, FetchesOfURLs, FetchesOfRow, Active, For
  <1>3. TextRowsKeepText' /\ PictureRowsSettle'
    BY DEF cellVars, CellIInv, CellsGetContent, TextRowsKeepText, PictureRowsSettle, Active, For
  <1> QED
    BY <1>1, <1>2, <1>3 DEF CellIInv, CellsKeepSender, CellsGetContent

LEMMA NextCellIInv == CellIInv /\ [CellNext]_cellVars => CellIInv'
  <1> SUFFICES ASSUME CellIInv, [CellNext]_cellVars
               PROVE  CellIInv'
    OBVIOUS
  <1>1. CASE \E c \in TableCells, m \in Messages : CellForRowAt(c, m)
    BY <1>1, CellForRowAtStep
  <1>2. CASE \E c \in TableCells : EndDisplaying(c)
    BY <1>2, EndDisplayingStep
  <1>3. CASE \E l \in Fetches : LoadStep(l)
    BY <1>3, FetchStep, FetchEndsStep DEF LoadStep
  <1>4. CASE UNCHANGED cellVars
    BY <1>4, CellStutterStep
  <1> QED
    BY <1>1, <1>2, <1>3, <1>4 DEF CellNext

-----------------------------------------------------------------------------
(* The theorems about the messages.                                        *)

\* The inductive invariant holds in every reachable state.
THEOREM CellInvariance == CellSpec => []CellIInv
  BY InitCellIInv, NextCellIInv, PTL DEF CellSpec

\* Reuse never shows a message with the name or on the side of another.
THEOREM SendersStay == CellSpec => []CellsKeepSender
  <1>1. CellIInv => CellsKeepSender
    BY DEF CellIInv
  <1> QED
    BY <1>1, CellInvariance, PTL

\* A row that no earlier fetch is late for gets its text, its picture, no
\* picture or its error, for any number of cells and fetches.
THEOREM ContentArrives == CellSpec => []CellsGetContent
  <1>1. CellIInv => CellsGetContent
    BY DEF CellIInv
  <1> QED
    BY <1>1, CellInvariance, PTL


-----------------------------------------------------------------------------
(* The pictures from the network: types.                                   *)

\* The answer is a sequence of its own URLs, none of them None.
LEMMA HitsTypes ==
  /\ Hits \in Seq(URLs) /\ Len(Hits) \in Nat
  /\ \A i \in 1..Len(Hits) : Hits[i] \in URLs
  /\ None \notin URLs
  BY ImagesAssumption DEF URLs

LEMMA Before ==
  ASSUME IInv
  PROVE  /\ TypeOK /\ ListState /\ IndexesInArray /\ LoadsForRow /\ CellsShowTheirRow
         /\ imageURLs \in Seq(URLs) /\ Len(imageURLs) \in Nat
         /\ Len(imageURLs) <= Len(Hits)
         /\ \A i \in 1..Len(imageURLs) : imageURLs[i] \in URLs
         /\ \A l \in loads : l \in Load /\ l.row \in 1..Len(imageURLs)
                             /\ l.want = imageURLs[l.row] /\ l.url \in {None, l.want}
  BY DEF IInv, IndexStaysValid, TypeOK, ListState, IndexesInArray

LEMMA InitIInv == Init => IInv
  <1> SUFFICES ASSUME Init PROVE IInv
    OBVIOUS
  <1>1. TypeOK
    BY DEF Init, TypeOK, Responses
  <1>2. ListState /\ IndexesInArray
    BY HitsTypes DEF Init, ListState, IndexesInArray
  <1>3. IndexStaysValid /\ LoadsForRow /\ CellsShowTheirRow
    BY <1>1 DEF Init, IndexStaysValid, LoadsForRow, CellsShowTheirRow
  <1> QED
    BY <1>2, <1>3 DEF IInv

-----------------------------------------------------------------------------
(* The list of URLs.                                                       *)

display == <<items, collection, row, image, loads, racing>>

\* A step of the request or the session only has to keep its own state.
LEMMA ListingStep ==
  ASSUME IInv, UNCHANGED <<imageURLs, display>>,
         request' \in {"none", "sent", "appending", "done"},
         response' \in Responses \cup {"none"},
         result' \in {"none", "error", "decode", "format", "success"},
         url' \in Seq(URLs), assign' \in {"none", "queued", "done"},
         ListState'
  PROVE  IInv'
  <1> USE DEF display
  <1>1. TypeOK'
    BY Before DEF TypeOK
  <1>2. IndexesInArray' /\ LoadsForRow' /\ CellsShowTheirRow' /\ IndexStaysValid'
    BY <1>1, Before
    DEF IndexesInArray, LoadsForRow, CellsShowTheirRow, IndexStaysValid
  <1> QED
    BY <1>2 DEF IInv

LEMMA GetImageURLStep ==
  ASSUME IInv, GetImageURL
  PROVE  IInv'
  <1>1. ListState'
    BY Before, HitsTypes DEF GetImageURL, ListState
  <1> QED
    BY <1>1, Before, ListingStep DEF GetImageURL, display, TypeOK

LEMMA DataTaskCallbackStep ==
  ASSUME IInv, NEW resp \in Responses, DataTaskCallback(resp)
  PROVE  IInv'
  <1>1. Len(Hits) = 0 => Hits = <<>>
    BY HitsTypes
  <1>2. ListState'
    BY <1>1, Before, HitsTypes DEF DataTaskCallback, ListState
  <1> QED
    BY <1>2, Before, ListingStep DEF DataTaskCallback, Send, display, TypeOK

LEMMA AppendURLStep ==
  ASSUME IInv, AppendURL
  PROVE  IInv'
  <1>1. /\ url \in Seq(URLs) /\ Len(url) \in Nat /\ Len(url) < Len(Hits)
        /\ request = "appending"
    BY Before DEF AppendURL, TypeOK, ListState
  <1>2. Hits[Len(url) + 1] \in URLs
    BY <1>1, HitsTypes
  <1>3. url' \in Seq(URLs) /\ Len(url') = Len(url) + 1
    BY <1>1, <1>2 DEF AppendURL
  <1>4. ListState'
    BY <1>1, <1>3, Before, HitsTypes DEF AppendURL, ListState
  <1> QED
    BY <1>3, <1>4, Before, ListingStep DEF AppendURL, display, TypeOK

\* Until the one assignment the array is empty, and with it the collection,
\* its cells and the loads: nothing has an index that could change its URL.
LEMMA AssignImageURLsStep ==
  ASSUME IInv, AssignImageURLs
  PROVE  IInv'
  <1>1. /\ assign = "queued" /\ imageURLs' = url /\ assign' = "done"
        /\ UNCHANGED <<request, response, result, url, display>>
    BY DEF AssignImageURLs, display
  <1>2. Len(imageURLs) = 0
    BY <1>1, Before DEF ListState
  <1>3. /\ items = 0 /\ loads = {} /\ \A c \in Cells : row[c] = 0
    BY <1>2, Before DEF IndexesInArray, TypeOK
  <1>4. TypeOK'
    BY <1>1, Before DEF TypeOK, display
  <1>5. ListState'
    BY <1>1, Before DEF ListState
  <1>6. Len(imageURLs') \in Nat
    BY <1>4 DEF TypeOK
  <1>7. IndexesInArray' /\ LoadsForRow' /\ CellsShowTheirRow' /\ IndexStaysValid'
    BY <1>1, <1>3, <1>4, <1>6
    DEF display, IndexesInArray, LoadsForRow, CellsShowTheirRow, IndexStaysValid
  <1> QED
    BY <1>5, <1>7 DEF IInv

-----------------------------------------------------------------------------
(* The collection and its loads: the array stays as it is.                 *)

LEMMA DisplayStep ==
  ASSUME IInv, UNCHANGED listing,
         items' \in Nat, items' <= Len(imageURLs),
         collection' \in {"closed", "open"},
         row' \in [Cells -> Nat], \A c \in Cells : row'[c] <= Len(imageURLs),
         image' \in [Cells -> URLs \cup {None}], racing' \subseteq Cells,
         \A l \in loads' : /\ l \in Load /\ l.row \in 1..Len(imageURLs)
                           /\ l.want = imageURLs[l.row] /\ l.url \in {None, l.want},
         LoadsForRow', CellsShowTheirRow'
  PROVE  IInv'
  <1> USE DEF listing
  <1>1. TypeOK'
    BY Before DEF TypeOK
  <1>2. ListState'
    BY Before DEF ListState
  <1>3. IndexesInArray' /\ IndexStaysValid'
    BY <1>1 DEF IndexesInArray, IndexStaysValid
  <1> QED
    BY <1>2, <1>3 DEF IInv

\* A load that is started for an index on display.
LEMMA StartLoadTypes ==
  ASSUME IInv, NEW to \in Cells \cup {Elsewhere}, NEW i \in 1..items, StartLoad(to, i)
  PROVE  /\ i \in 1..Len(imageURLs)
         /\ \A l \in loads' \ loads :
              /\ l \in Load /\ l.row \in 1..Len(imageURLs) /\ l.want = imageURLs[l.row]
              /\ l.url \in {None, l.want} /\ l.to = to /\ l.row = i
  <1>1. i \in 1..Len(imageURLs) /\ i \in 1..Len(Hits)
    BY Before, HitsTypes DEF IndexesInArray, TypeOK
  <1> DEFINE new == [to |-> to, row |-> i, url |-> None, want |-> imageURLs[i]]
  <1>2. /\ new \in Load /\ new.row = i /\ new.url = None
        /\ new.want = imageURLs[i] /\ new.to = to
    BY <1>1, Before DEF Load
  <1>3. loads' = loads \cup {new}
    BY DEF StartLoad
  <1> HIDE DEF new
  <1> QED
    BY <1>1, <1>2, <1>3

LEMMA PresentCollectionStep ==
  ASSUME IInv, PresentCollection
  PROVE  IInv'
  <1> DEFINE moved(l) == [l EXCEPT !.to = Elsewhere]
  <1>1. ASSUME NEW l \in loads
        PROVE  /\ moved(l) \in Load /\ moved(l).row = l.row /\ moved(l).url = l.url
               /\ moved(l).want = l.want /\ moved(l).to = Elsewhere
    BY <1>1, Before DEF Load
  <1>2. loads' = {moved(l) : l \in loads}
    BY DEF PresentCollection
  <1> HIDE DEF moved
  <1>3. ASSUME NEW l \in loads'
        PROVE  /\ l \in Load /\ l.row \in 1..Len(imageURLs)
               /\ l.want = imageURLs[l.row] /\ l.url \in {None, l.want}
               /\ l.to \notin Cells
    BY <1>1, <1>2, <1>3, Before, ImagesAssumption
  <1>4. /\ items' = Len(imageURLs) /\ row' = [c \in Cells |-> 0]
        /\ image' = [c \in Cells |-> None] /\ racing' = {} /\ collection' = "open"
        /\ UNCHANGED listing
    BY DEF PresentCollection
  <1>5. LoadsForRow' /\ CellsShowTheirRow'
    BY <1>3, <1>4 DEF LoadsForRow, CellsShowTheirRow
  <1> QED
    BY <1>3, <1>4, <1>5, Before, DisplayStep

LEMMA ConfigureCellStep ==
  ASSUME IInv, NEW c \in Cells, NEW i \in 1..Len(Hits), ConfigureCell(c, i)
  PROVE  IInv'
  <1>1. /\ i \in 1..items /\ StartLoad(c, i)
        /\ row' = [row EXCEPT ![c] = i] /\ image' = [image EXCEPT ![c] = None]
        /\ racing' = IF InFlight(c) THEN racing \cup {c} ELSE racing \ {c}
        /\ UNCHANGED <<listing, items, collection>>
    BY DEF ConfigureCell
  <1>2. /\ i \in 1..Len(imageURLs) /\ loads \subseteq loads'
        /\ \A l \in loads' \ loads :
              /\ l \in Load /\ l.row \in 1..Len(imageURLs) /\ l.want = imageURLs[l.row]
              /\ l.url \in {None, l.want} /\ l.to = c /\ l.row = i
    BY <1>1, StartLoadTypes DEF StartLoad
  <1>3. /\ row' \in [Cells -> Nat] /\ row'[c] = i
        /\ image' \in [Cells -> URLs \cup {None}] /\ image'[c] = None
        /\ \A d \in Cells \ {c} : row'[d] = row[d] /\ image'[d] = image[d]
    BY <1>1, Before DEF TypeOK
  <1>4. LoadsForRow'
    <2> SUFFICES ASSUME NEW d \in Cells \ racing', NEW l \in loads', l.to = d
                 PROVE  l.row = row'[d]
      BY DEF LoadsForRow
    <2>1. CASE d = c
      BY <1>1, <1>2, <1>3, <2>1 DEF InFlight
    <2>2. CASE d # c
      BY <1>1, <1>2, <1>3, <2>2, Before DEF LoadsForRow
    <2> QED
      BY <2>1, <2>2
  <1>5. CellsShowTheirRow'
    BY <1>1, <1>3, Before DEF CellsShowTheirRow, listing
  <1> QED
    BY <1>1, <1>2, <1>3, <1>4, <1>5, Before, DisplayStep DEF TypeOK, IndexesInArray

LEMMA DidSelectItemStep ==
  ASSUME IInv, NEW i \in 1..Len(Hits), DidSelectItem(i)
  PROVE  IInv'
  <1>1. /\ i \in 1..items /\ StartLoad(Elsewhere, i) /\ collection' = "closed"
        /\ UNCHANGED <<listing, items, row, image, racing>>
    BY DEF DidSelectItem
  <1>2. \A l \in loads' \ loads :
           /\ l \in Load /\ l.row \in 1..Len(imageURLs) /\ l.want = imageURLs[l.row]
           /\ l.url \in {None, l.want} /\ l.to = Elsewhere
    BY <1>1, StartLoadTypes
  <1>3. LoadsForRow' /\ CellsShowTheirRow'
    BY <1>1, <1>2, Before, ImagesAssumption DEF LoadsForRow, CellsShowTheirRow, listing
  <1> QED
    BY <1>1, <1>2, <1>3, Before, DisplayStep DEF TypeOK, IndexesInArray

LEMMA CloseCollectionStep ==
  ASSUME IInv, CloseCollection
  PROVE  IInv'
  <1>1. LoadsForRow' /\ CellsShowTheirRow'
    BY Before DEF CloseCollection, LoadsForRow, CellsShowTheirRow, listing
  <1> QED
    BY <1>1, Before, DisplayStep DEF CloseCollection, TypeOK, IndexesInArray

\* The index still has the URL it had when the load was started.
LEMMA ReadURLStep ==
  ASSUME IInv, NEW l \in loads, ReadURL(l)
  PROVE  IInv'
  <1> DEFINE read == [l EXCEPT !.url = imageURLs[l.row]]
  <1>1. /\ read \in Load /\ read.to = l.to /\ read.row = l.row
        /\ read.want = l.want /\ read.url = l.want
    BY Before DEF Load
  <1>2. loads' = (loads \ {l}) \cup {read}
        /\ UNCHANGED <<listing, items, collection, row, image, racing>>
    BY DEF ReadURL
  <1> HIDE DEF read
  <1>3. LoadsForRow' /\ CellsShowTheirRow'
    BY <1>1, <1>2, Before DEF LoadsForRow, CellsShowTheirRow, listing
  <1> QED
    BY <1>1, <1>2, <1>3, Before, DisplayStep DEF TypeOK, IndexesInArray

LEMMA DeliverStep ==
  ASSUME IInv, NEW l \in loads, Deliver(l)
  PROVE  IInv'
  <1>1. /\ l.url # None /\ loads' = loads \ {l}
        /\ image' = IF l.to = Elsewhere THEN image ELSE [image EXCEPT ![l.to] = l.url]
        /\ UNCHANGED <<listing, items, collection, row, racing>>
    BY DEF Deliver
  <1>2. l.to \in Cells \cup {Elsewhere} /\ l.url = imageURLs[l.row] /\ l.url \in URLs
    BY <1>1, Before DEF Load
  <1>3. /\ image' \in [Cells -> URLs \cup {None}]
        /\ \A d \in Cells : image'[d] = IF d = l.to THEN l.url ELSE image[d]
    BY <1>1, <1>2, Before, ImagesAssumption DEF TypeOK
  <1>4. LoadsForRow'
    BY <1>1, Before DEF LoadsForRow
  <1>5. CellsShowTheirRow'
    BY <1>1, <1>2, <1>3, Before DEF LoadsForRow, CellsShowTheirRow, listing
  <1> QED
    BY <1>1, <1>3, <1>4, <1>5, Before, DisplayStep DEF TypeOK, IndexesInArray

LEMMA LoadFailsStep ==
  ASSUME IInv, NEW l \in loads, LoadFails(l)
  PROVE  IInv'
  <1>1. LoadsForRow' /\ CellsShowTheirRow'
    BY Before DEF LoadFails, LoadsForRow, CellsShowTheirRow, listing
  <1> QED
    BY <1>1, Before, DisplayStep DEF LoadFails, TypeOK, IndexesInArray

LEMMA StutterStep ==
  ASSUME IInv, UNCHANGED vars
  PROVE  IInv'
  <1>1. ListState'
    BY Before DEF vars, ListState
  <1> QED
    BY <1>1, Before, ListingStep DEF vars, display, TypeOK

LEMMA NextIInv == IInv /\ [Next]_vars => IInv'
  <1> SUFFICES ASSUME IInv, [Next]_vars
               PROVE  IInv'
    OBVIOUS
  <1>1. CASE \/ GetImageURL \/ AppendURL \/ AssignImageURLs
             \/ \E resp \in Responses : DataTaskCallback(resp)
    BY <1>1, GetImageURLStep, AppendURLStep, AssignImageURLsStep, DataTaskCallbackStep
  <1>2. CASE PresentCollection \/ CloseCollection
    BY <1>2, PresentCollectionStep, CloseCollectionStep
  <1>3. CASE \E c \in Cells, i \in 1..Len(Hits) : ConfigureCell(c, i)
    BY <1>3, ConfigureCellStep
  <1>4. CASE \E i \in 1..Len(Hits) : DidSelectItem(i)
    BY <1>4, DidSelectItemStep
  <1>5. CASE \E l \in loads : ReadURL(l) \/ Deliver(l) \/ LoadFails(l)
    BY <1>5, ReadURLStep, DeliverStep, LoadFailsStep
  <1>6. CASE UNCHANGED vars
    BY <1>6, StutterStep
  <1> QED
    BY <1>1, <1>2, <1>3, <1>4, <1>5, <1>6 DEF Next

-----------------------------------------------------------------------------
(* The theorems about the pictures.                                        *)

\* The inductive invariant holds in every reachable state.
THEOREM Invariance == Spec => []IInv
  BY InitIInv, NextIInv, PTL DEF Spec

\* urls[imageID] never runs out of bounds and finds the URL that was tapped,
\* although the array is read later than the index was chosen, on a queue that
\* races with the one that fills it.
THEOREM IndexesStayValid == Spec => []IndexStaysValid
  <1>1. IInv => IndexStaysValid
    BY DEF IInv
  <1> QED
    BY <1>1, Invariance, PTL

\* Only a cell that was reused during a load can show a wrong picture.
THEOREM CellsShowRows == Spec => []CellsShowTheirRow
  <1>1. IInv => CellsShowTheirRow
    BY DEF IInv
  <1> QED
    BY <1>1, Invariance, PTL

=============================================================================
