--------------------------- MODULE NetworkImages ---------------------------
(***************************************************************************)
(* Pictures from the network: NetworkImageService asks once for a list of  *)
(* URLs, through RequestSender and ImageParcer, and ImageCollectionView    *)
(* shows a picture for each, loaded by index on a global queue.            *)
(*                                                                         *)
(* Three queues meet here: the session's queue appends the URLs to a       *)
(* captured array, the main queue copies that array whenever its block     *)
(* happens to run, and loads read the copy by index some time after the    *)
(* main thread chose the index.  The session and the server are external.  *)
(***************************************************************************)
EXTENDS Naturals, Sequences, FiniteSets

CONSTANTS
  Hits,       \* the URLs of the server's answer, in order
  Cells,      \* the reusable cells of the collection
  Elsewhere,  \* a receiver that is no cell on display
  None,       \* no URL, no picture
  MaxLoads    \* bound: loads in flight

ASSUME ImagesAssumption ==
  /\ Hits \in Seq({Hits[i] : i \in 1..Len(Hits)})
  /\ None \notin {Hits[i] : i \in 1..Len(Hits)}
  /\ Elsewhere \notin Cells
  /\ MaxLoads \in Nat

URLs == {Hits[i] : i \in 1..Len(Hits)}

VARIABLES
  request,    \* the data task: "none", "sent", "appending" or "done"
  response,   \* auxiliary: what the session called back with
  result,     \* what send's completionHandler was given
  url,        \* the array getImageURL's two closures have captured
  assign,     \* the block on the main queue: "none", "queued" or "done"
  imageURLs,  \* the array of the shared service
  items,      \* numberOfItemsInSection, asked when the collection appears
  collection, \* "closed" or "open"
  row,        \* the index each cell was last configured for, 0 if none
  image,      \* the picture each cell shows
  loads,      \* loads in flight, see Load
  racing      \* auxiliary: cells reused while a load for them was in flight

vars == <<request, response, result, url, assign, imageURLs, items, collection,
          row, image, loads, racing>>

listing == <<request, response, result, url, assign, imageURLs>>

\* want is auxiliary: the URL at the index when the load was started.
Load == [to : Cells \cup {Elsewhere}, row : 1..Len(Hits), url : URLs \cup {None}, want : URLs]

Responses == {"error", "neither", "garbage", "hits"}

TypeOK ==
  /\ request \in {"none", "sent", "appending", "done"}
  /\ response \in Responses \cup {"none"}
  /\ result \in {"none", "error", "decode", "format", "success"}
  /\ url \in Seq(URLs) /\ imageURLs \in Seq(URLs)
  /\ assign \in {"none", "queued", "done"}
  /\ items \in Nat
  /\ collection \in {"closed", "open"}
  /\ row \in [Cells -> Nat]
  /\ image \in [Cells -> URLs \cup {None}]
  /\ loads \subseteq Load
  /\ racing \subseteq Cells

Init ==
  /\ request = "none" /\ response = "none" /\ result = "none"
  /\ url = <<>> /\ imageURLs = <<>> /\ assign = "none"
  /\ items = 0 /\ collection = "closed"
  /\ row = [c \in Cells |-> 0]
  /\ image = [c \in Cells |-> None]
  /\ loads = {} /\ racing = {}

-----------------------------------------------------------------------------
(* The list of URLs.                                                       *)

\* GetImageURL from viewWillAppear of the list, with a new list of URLs each time.
GetImageURLAgain ==
  /\ request \in {"none", "done"} /\ collection = "closed"
  /\ request' = "sent"
  /\ url' = <<>> /\ imageURLs' = <<>>
  /\ assign' = "queued"
  /\ UNCHANGED <<response, result, items, collection, row, image, loads, racing>>

\* getImageURL, from viewDidLoad of the channel list, once per process: the
\* request is sent and the block that copies the array is queued right away.
GetImageURL ==
  /\ request = "none"
  /\ request' = "sent"
  /\ url' = <<>>
  /\ assign' = "queued"
  /\ UNCHANGED <<response, result, imageURLs, items, collection, row, image, loads, racing>>

\* ImageParcer.parse: a model, or nil after an error that is only printed.
Parse(resp) == resp = "hits"

\* RequestSender.send: an error is passed on; no data, or data that the parser
\* rejects, is decode.  The factory stops the process on an invalid URL, so
\* that invalidURL is never the result.
Send(resp) ==
  IF resp = "error" THEN "error"
  ELSE IF resp = "neither" \/ ~Parse(resp) THEN "decode"
  ELSE "success"

\* The session calls back; getImageData only goes on after a success.
DataTaskCallback(resp) ==
  /\ request = "sent"
  /\ response' = resp
  /\ result' = Send(resp)
  /\ request' = IF result' = "success" /\ Hits # <<>> THEN "appending" ELSE "done"
  /\ UNCHANGED <<url, assign, imageURLs, items, collection, row, image, loads, racing>>

\* The loop over the hits, on the session's queue.
AppendURL ==
  /\ request = "appending"
  /\ url' = Append(url, Hits[Len(url) + 1])
  /\ request' = IF Len(url') = Len(Hits) THEN "done" ELSE "appending"
  /\ UNCHANGED <<response, result, assign, imageURLs, items, collection, row, image, loads, racing>>

\* The block on the main queue copies what has been appended so far.
AssignImageURLs ==
  /\ assign = "queued"
  /\ imageURLs' = url
  /\ assign' = "done"
  /\ UNCHANGED <<request, response, result, url, items, collection, row, image, loads, racing>>

-----------------------------------------------------------------------------
(* The collection, on the main thread.                                     *)

StartLoad(to, i) ==
  /\ Cardinality(loads) < MaxLoads
  /\ loads' = loads \cup {[to |-> to, row |-> i, url |-> None, want |-> imageURLs[i]]}

\* A new collection with cells of its own.  Its data source is asked for the
\* number of items once, when it appears; loads of earlier ones go on.
PresentCollection ==
  /\ collection = "closed"
  /\ collection' = "open"
  /\ items' = Len(imageURLs)
  /\ row' = [c \in Cells |-> 0]
  /\ image' = [c \in Cells |-> None]
  /\ loads' = {[l EXCEPT !.to = Elsewhere] : l \in loads}
  /\ racing' = {}
  /\ UNCHANGED listing

InFlight(c) == \E l \in loads : l.to = c

\* ConfigureCell without prepareForReuse.
ConfigureCellKeepingPicture(c, i) ==
  /\ collection = "open"
  /\ i \in 1..items
  /\ row' = [row EXCEPT ![c] = i]
  /\ racing' = IF InFlight(c) THEN racing \cup {c} ELSE racing \ {c}
  /\ StartLoad(c, i)
  /\ UNCHANGED <<listing, items, collection, image>>

\* cellForItemAt: prepareForReuse blanks the cell, configureCell starts a load
\* that will set the picture of the CELL.
ConfigureCell(c, i) ==
  /\ collection = "open"
  /\ i \in 1..items
  /\ row' = [row EXCEPT ![c] = i]
  /\ image' = [image EXCEPT ![c] = None]
  /\ racing' = IF InFlight(c) THEN racing \cup {c} ELSE racing \ {c}
  /\ StartLoad(c, i)
  /\ UNCHANGED <<listing, items, collection>>

\* didSelectItemAt: the URL goes to the message screen, a load of its own
\* fetches the picture for the profile screen, and the collection closes.
DidSelectItem(i) ==
  /\ collection = "open"
  /\ i \in 1..items
  /\ StartLoad(Elsewhere, i)
  /\ collection' = "closed"
  /\ UNCHANGED <<listing, items, row, image, racing>>

CloseCollection ==
  /\ collection = "open"
  /\ collection' = "closed"
  /\ UNCHANGED <<listing, items, row, image, loads, racing>>

-----------------------------------------------------------------------------
(* loadImage, on a global queue and back.                                  *)

\* The array of the service is read by index only now.
ReadURL(l) ==
  /\ l.url = None
  /\ loads' = (loads \ {l}) \cup {[l EXCEPT !.url = imageURLs[l.row]]}
  /\ UNCHANGED <<listing, items, collection, row, image, racing>>

\* The picture reaches the main queue: a cell shows it, whatever it is
\* configured for by now.
Deliver(l) ==
  /\ l.url # None
  /\ loads' = loads \ {l}
  /\ image' = IF l.to = Elsewhere THEN image ELSE [image EXCEPT ![l.to] = l.url]
  /\ UNCHANGED <<listing, items, collection, row, racing>>

\* A bad URL, no data or no image: the load ends without calling back.
LoadFails(l) ==
  /\ l.url # None
  /\ loads' = loads \ {l}
  /\ UNCHANGED <<listing, items, collection, row, image, racing>>

Next ==
  \/ GetImageURL
  \/ \E resp \in Responses : DataTaskCallback(resp)
  \/ AppendURL
  \/ AssignImageURLs
  \/ PresentCollection
  \/ \E c \in Cells, i \in 1..Len(Hits) : ConfigureCell(c, i)
  \/ \E i \in 1..Len(Hits) : DidSelectItem(i)
  \/ CloseCollection
  \/ \E l \in loads : ReadURL(l)
  \/ \E l \in loads : Deliver(l)
  \/ \E l \in loads : LoadFails(l)

Spec == Init /\ [][Next]_vars

-----------------------------------------------------------------------------
(* Properties.                                                             *)

\* urls[imageID] never runs out of bounds, and the picture that is loaded is
\* the one whose index was tapped or displayed, although the array is read on
\* another thread and later than the index was chosen.
IndexStaysValid ==
  /\ TypeOK
  /\ \A l \in loads : /\ l.row \in 1..Len(imageURLs)
                      /\ l.url \in {None, l.want}

\* A cell shows nothing or the picture of the index it was last configured
\* for, unless it was reused while an older load for it was in flight: late
\* pictures are the only source of a wrong one.
CellsShowTheirRow ==
  \A c \in Cells \ racing : row[c] # 0 => image[c] \in {None, imageURLs[row[c]]}

\* NetworkManagerError.format is described as "Received neither error nor
\* data": the result a caller must get when the session delivers neither.
NeitherMeansFormat == response = "neither" => result = "format"

-----------------------------------------------------------------------------
(* The inductive invariant behind the theorems of PictureCellsProofs.      *)

\* The array of URLs is empty until the one block that assigns it, and it is
\* never longer than the answer.
ListState ==
  /\ request = "none" => assign = "none"
  /\ assign # "done" => imageURLs = <<>>
  /\ request \in {"none", "sent"} => url = <<>>
  /\ Len(url) <= Len(Hits) /\ Len(imageURLs) <= Len(Hits)
  /\ request = "appending" => Len(url) < Len(Hits)

\* Every index that is on display or being loaded has its URL, and every load
\* will find it.
IndexesInArray ==
  /\ items <= Len(imageURLs)
  /\ \A c \in Cells : row[c] <= Len(imageURLs)
  /\ \A l \in loads : l.row \in 1..Len(imageURLs) /\ l.want = imageURLs[l.row]

\* Loads for a cell that is not racing are for the index it displays.
LoadsForRow ==
  \A c \in Cells \ racing : \A l \in loads : l.to = c => l.row = row[c]

IInv ==
  /\ IndexStaysValid
  /\ ListState
  /\ IndexesInArray
  /\ LoadsForRow
  /\ CellsShowTheirRow

=============================================================================
