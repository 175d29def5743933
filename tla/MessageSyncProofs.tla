------------------------- MODULE MessageSyncProofs -------------------------
(***************************************************************************)
(* Proofs about MessageSync for every set of messages, channels, texts and *)
(* listeners and every bound.                                              *)
(***************************************************************************)
EXTENDS MessageSync, FiniteSetTheorems, TLAPS

-----------------------------------------------------------------------------
(* The invariant holds initially.                                          *)

LEMMA InitIInv == Init => IInv
  <1> SUFFICES ASSUME Init PROVE IInv
    OBVIOUS
  <1>1. TypeOK
    BY DEF Init, TypeOK, Links, Row
  <1>2. ObjectsKnown /\ PassKnown
    BY DEF Init, ObjectsKnown, Objects, PassKnown
  <1>3. LoopState /\ UniqueAndLinked /\ WholeSoFar
    BY DEF Init, LoopState, UniqueAndLinked, DistinctContents, WholeSoFar
  <1> QED
    BY <1>1, <1>2, <1>3 DEF IInv

-----------------------------------------------------------------------------
(* Steps of screens and Firestore.                                         *)

\* A step that leaves the context, the rows and the pass alone, and takes no
\* document away, only has to keep the types and the snapshots.
LEMMA CacheUnchanged ==
  ASSUME IInv, docs \subseteq docs',
         UNCHANGED <<channels, pc, pass, todo, cur, context, saves, rows, verdict>>
  PROVE  /\ ObjectsKnown' /\ LoopState' /\ UniqueAndLinked' /\ WholeSoFar'
         /\ heard' \subseteq docs'
         /\ (cur \cup todo)' \subseteq DocsOf(chan)'
  <1> USE DEF pass, context
  <1>1. ObjectsKnown'
    BY DEF IInv, ObjectsKnown, Objects
  <1>2. LoopState'
    BY DEF IInv, LoopState
  <1>3. UniqueAndLinked'
    BY DEF IInv, UniqueAndLinked, DistinctContents, SameContent
  <1>4. WholeSoFar'
    BY DEF IInv, WholeSoFar, Stored, Unlinked
  <1>5. heard' \subseteq docs' /\ (cur \cup todo)' \subseteq DocsOf(chan)'
    BY DEF IInv, PassKnown, DocsOf
  <1> QED
    BY <1>1, <1>2, <1>3, <1>4, <1>5

LEMMA ViewDidLoadStep ==
  ASSUME IInv, NEW l \in Listeners, NEW c \in Channels, ViewDidLoad(l, c)
  PROVE  IInv'
  <1>1. DocsOf(c) \in SUBSET Docs
    BY DEF IInv, TypeOK, DocsOf
  <1>2. TypeOK'
    BY <1>1 DEF IInv, TypeOK, ViewDidLoad, GetChannelMessages, Links, pass, context
  <1>3. ASSUME NEW k \in Listeners, NEW i \in 1..Len(inbox'[k])
        PROVE  inbox'[k][i] \subseteq DocsOf(watch[k])'
    <2>1. CASE k = l
      BY <1>3, <2>1 DEF IInv, TypeOK, ViewDidLoad, GetChannelMessages, DocsOf
    <2>2. CASE k # l
      BY <1>3, <2>2 DEF IInv, TypeOK, PassKnown, ViewDidLoad, GetChannelMessages, DocsOf
    <2> QED
      BY <2>1, <2>2
  <1>4. PassKnown'
    BY <1>3, CacheUnchanged DEF PassKnown, ViewDidLoad, GetChannelMessages
  <1> QED
    BY <1>2, <1>4, CacheUnchanged DEF IInv, ViewDidLoad, GetChannelMessages

LEMMA AddDocumentStep ==
  ASSUME IInv, NEW d \in Docs, AddDocument(d)
  PROVE  IInv'
  <1> DEFINE snap == DocsOf(ChannelOf[d]) \cup {d}
  <1>1. snap \in SUBSET Docs /\ snap \subseteq DocsOf(ChannelOf[d])'
    BY DEF IInv, TypeOK, DocsOf, AddDocument
  <1> HIDE DEF snap
  <1>2. /\ inbox' = [l \in Listeners |-> IF watch[l] = ChannelOf[d]
                                         THEN Append(inbox[l], snap) ELSE inbox[l]]
        /\ inbox \in [Listeners -> Seq(SUBSET Docs)]
        /\ UNCHANGED watch
    BY DEF AddDocument, snap, IInv, TypeOK
  <1>3. inbox' \in [Listeners -> Seq(SUBSET Docs)]
    BY <1>1, <1>2
  <1>4. TypeOK'
    BY <1>3 DEF IInv, TypeOK, AddDocument, pass, context
  <1>5. ASSUME NEW k \in Listeners, NEW i \in 1..Len(inbox'[k])
        PROVE  inbox'[k][i] \subseteq DocsOf(watch[k])'
    <2>1. \A j \in 1..Len(inbox[k]) : inbox[k][j] \subseteq DocsOf(watch[k])'
      BY <1>5 DEF IInv, PassKnown, DocsOf, AddDocument
    <2>2. CASE watch[k] = ChannelOf[d] /\ i = Len(inbox[k]) + 1
      BY <1>1, <1>2, <1>5, <2>2
    <2>3. CASE ~(watch[k] = ChannelOf[d] /\ i = Len(inbox[k]) + 1)
      BY <1>2, <1>5, <2>1, <2>3
    <2> QED
      BY <2>2, <2>3
  <1>6. docs \subseteq docs'
    BY DEF AddDocument
  <1>7. PassKnown'
    BY <1>5, <1>6, CacheUnchanged DEF PassKnown, AddDocument
  <1> QED
    BY <1>4, <1>6, <1>7, CacheUnchanged DEF IInv, AddDocument

LEMMA ListenerErrorStep ==
  ASSUME IInv, NEW l \in Listeners, ListenerError(l)
  PROVE  IInv'
  <1>1. TypeOK'
    BY DEF IInv, TypeOK, ListenerError, Links, pass, context
  <1>2. \A k \in Listeners : \A i \in 1..Len(inbox'[k]) : inbox'[k][i] \subseteq DocsOf(watch[k])'
    BY DEF IInv, TypeOK, PassKnown, ListenerError, DocsOf
  <1>3. PassKnown'
    BY <1>2, CacheUnchanged DEF PassKnown, ListenerError
  <1> QED
    BY <1>1, <1>3, CacheUnchanged DEF IInv, ListenerError

-----------------------------------------------------------------------------
(* Steps of the main thread.                                               *)

LEMMA HandleSnapshotStep ==
  ASSUME IInv, NEW l \in Listeners, HandleSnapshot(l)
  PROVE  IInv'
  <1> DEFINE snap == Head(inbox[l])
  <1>1. /\ inbox[l] \in Seq(SUBSET Docs) /\ inbox[l] # <<>>
        /\ inbox' = [inbox EXCEPT ![l] = Tail(inbox[l])]
    BY DEF IInv, TypeOK, HandleSnapshot, CheckingTheMessages
  <1>2. snap \in SUBSET Docs /\ snap \subseteq DocsOf(watch[l])
    BY <1>1 DEF IInv, PassKnown
  <1>3. /\ chan' = watch[l] /\ heard' = snap
        /\ todo' \in {snap, {}}
        /\ pc' = LoopOr(todo')
        /\ verdict' \in {"whole", "unsure"}
        /\ verdict' = "whole" => todo' = snap
        /\ pc = "idle" /\ cur = {} /\ cur' = {}
        /\ UNCHANGED <<docs, watch, channels, pending, bg, relinks, saves, rows>>
    BY DEF HandleSnapshot, CheckingTheMessages, context, IInv, LoopState
  <1> HIDE DEF snap
  <1>4. TypeOK'
    BY <1>1, <1>2, <1>3 DEF IInv, TypeOK, LoopOr
  <1>5. ASSUME NEW k \in Listeners, NEW i \in 1..Len(inbox'[k])
        PROVE  inbox'[k][i] \subseteq DocsOf(watch[k])
    <2>1. CASE k = l
      BY <1>1, <1>5, <2>1 DEF IInv, TypeOK, PassKnown
    <2>2. CASE k # l
      BY <1>1, <1>5, <2>2 DEF IInv, TypeOK, PassKnown
    <2> QED
      BY <2>1, <2>2
  <1>6. PassKnown'
    BY <1>2, <1>3, <1>5 DEF PassKnown, DocsOf
  <1>7. ObjectsKnown' /\ LoopState' /\ UniqueAndLinked'
    BY <1>3 DEF IInv, ObjectsKnown, Objects, LoopState, LoopOr, UniqueAndLinked,
                DistinctContents, SameContent
  <1>8. WholeSoFar'
    BY <1>3 DEF WholeSoFar
  <1> QED
    BY <1>4, <1>6, <1>7, <1>8 DEF IInv

LEMMA InsertMessageStep ==
  ASSUME IInv, NEW d \in Docs, InsertMessage(d)
  PROVE  IInv'
  <1> USE DEF InsertMessage, firestore, pass, context
  <1>1. TypeOK'
    BY DEF IInv, TypeOK
  <1>2. ObjectsKnown' /\ UniqueAndLinked'
    BY DEF IInv, ObjectsKnown, Objects, UniqueAndLinked, DistinctContents, SameContent
  <1>3. PassKnown' /\ LoopState'
    BY DEF IInv, PassKnown, DocsOf, LoopState
  <1>4. WholeSoFar'
    <2> SUFFICES ASSUME verdict = "whole", NEW e \in heard \ todo'
                 PROVE  Stored(e, rows \cup bg \cup Unlinked({d}))
      BY DEF WholeSoFar, Stored
    <2>1. CASE e = d
      <3>1. [doc |-> d, link |-> None] \in Unlinked({d})
        BY DEF Unlinked
      <3> QED
        BY <2>1, <3>1 DEF Stored
    <2>2. CASE e # d
      BY <2>2 DEF IInv, WholeSoFar, Stored, Unlinked, LoopState
    <2> QED
      BY <2>1, <2>2
  <1> QED
    BY <1>1, <1>2, <1>3, <1>4 DEF IInv

LEMMA FillMessageStep ==
  ASSUME IInv, FillMessage
  PROVE  IInv'
  <1> USE DEF FillMessage, firestore, pass, context
  <1>1. TypeOK'
    BY DEF IInv, TypeOK
  <1>2. ObjectsKnown' /\ UniqueAndLinked'
    BY DEF IInv, ObjectsKnown, Objects, UniqueAndLinked, DistinctContents, SameContent
  <1>3. PassKnown' /\ LoopState'
    BY DEF IInv, PassKnown, DocsOf, LoopState
  <1>4. WholeSoFar'
    BY DEF IInv, WholeSoFar, Stored, Unlinked
  <1> QED
    BY <1>1, <1>2, <1>3, <1>4 DEF IInv

LEMMA LinkMessageStep ==
  ASSUME IInv, LinkMessage
  PROVE  IInv'
  <1> DEFINE linked == {[doc |-> d, link |-> ChannelFetched] : d \in cur}
  <1>1. /\ linked \subseteq Row
        /\ \A r \in linked : r.doc \in docs /\ r.link \in {ChannelOf[r.doc], None}
    BY DEF IInv, TypeOK, PassKnown, DocsOf, Row, Links, ChannelFetched
  <1>2. \/ pc = "link" /\ bg' = bg \cup linked /\ relinks' = relinks
        \/ pc = "relink" /\ relinks' = relinks \cup linked /\ bg' = bg
    BY DEF LinkMessage
  <1>3. ASSUME NEW d \in cur
        PROVE  \E r \in linked : r.doc = d
    <2>1. [doc |-> d, link |-> ChannelFetched] \in linked
      BY <1>3
    <2> QED
      BY <2>1
  <1> HIDE DEF linked
  <1> USE DEF LinkMessage, firestore, pass
  <1>4. TypeOK'
    BY <1>1, <1>2 DEF IInv, TypeOK, LoopOr
  <1>5. ObjectsKnown'
    BY <1>1, <1>2 DEF IInv, ObjectsKnown, Objects
  <1>6. PassKnown' /\ UniqueAndLinked'
    BY DEF IInv, PassKnown, DocsOf, UniqueAndLinked, DistinctContents, SameContent
  <1>7. LoopState'
    BY <1>2 DEF IInv, TypeOK, LoopState, LoopOr
  <1>8. WholeSoFar'
    <2> SUFFICES ASSUME verdict = "whole", NEW d \in heard \ todo
                 PROVE  Stored(d, rows' \cup bg')
      BY DEF WholeSoFar, Stored
    <2>1. PICK r \in rows \cup bg \cup Unlinked(cur) : ContentOf[r.doc] = ContentOf[d]
      BY DEF IInv, WholeSoFar, Stored
    <2>2. CASE r \in rows \cup bg
      BY <1>2, <2>1, <2>2 DEF Stored
    <2>3. CASE r \in Unlinked(cur) /\ pc = "link"
      BY <1>2, <1>3, <2>1, <2>3 DEF Stored, Unlinked
    <2>4. CASE r \in Unlinked(cur) /\ pc = "relink"
      BY <2>1, <2>4 DEF Stored, Unlinked, IInv, LoopState
    <2> QED
      BY <1>2, <2>1, <2>2, <2>3, <2>4
  <1> QED
    BY <1>4, <1>5, <1>6, <1>7, <1>8 DEF IInv

-----------------------------------------------------------------------------
(* Steps of the channel list.                                              *)

LEMMA InsertChannelStep ==
  ASSUME IInv, NEW c \in Channels, InsertChannel(c)
  PROVE  IInv'
  <1> USE DEF InsertChannel, firestore, pass
  <1>1. TypeOK'
    BY DEF IInv, TypeOK
  <1>2. ObjectsKnown' /\ UniqueAndLinked'
    BY DEF IInv, ObjectsKnown, Objects, UniqueAndLinked, DistinctContents, SameContent
  <1>3. PassKnown' /\ LoopState'
    BY DEF IInv, TypeOK, PassKnown, DocsOf, LoopState
  <1>4. WholeSoFar'
    BY DEF IInv, WholeSoFar, Stored, Unlinked
  <1> QED
    BY <1>1, <1>2, <1>3, <1>4 DEF IInv

\* Nullify keeps the documents and unlinks exactly the rows of the channel.
LEMMA NullifyRows ==
  ASSUME NEW R \in SUBSET Row, NEW c \in Channels
  PROVE  /\ Nullify(R, c) \subseteq Row
         /\ \A q \in Nullify(R, c) : \E r \in R :
              q.doc = r.doc /\ q.link # c /\ (q.link = r.link \/ (q.link = None /\ r.link = c))
         /\ \A r \in R : \E q \in Nullify(R, c) :
              q.doc = r.doc /\ (q.link = r.link \/ (q.link = None /\ r.link = c))
  <1> DEFINE N(r) == [r EXCEPT !.link = IF @ = c THEN None ELSE @]
  <1>1. ASSUME NEW r \in R
        PROVE  /\ N(r) \in Row /\ N(r).doc = r.doc /\ N(r).link # c
               /\ N(r).link = r.link \/ (N(r).link = None /\ r.link = c)
    BY MessageAssumption DEF Row, Links
  <1>2. Nullify(R, c) = {N(r) : r \in R}
    BY DEF Nullify
  <1> HIDE DEF N
  <1> QED
    BY <1>1, <1>2

LEMMA DeleteChannelStep ==
  ASSUME IInv, NEW c \in Channels, DeleteChannel(c)
  PROVE  IInv'
  <1>1. rows \in SUBSET Row /\ bg \in SUBSET Row /\ relinks \in SUBSET Row
    BY DEF IInv, TypeOK
  <1> DEFINE Kept(R, Q) ==
        /\ Q \subseteq Row
        /\ \A q \in Q : \E r \in R : q.doc = r.doc /\ (q.link = r.link \/ q.link = None)
        /\ \A r \in R : \E q \in Q : q.doc = r.doc
  <1>2. Kept(rows, rows') /\ Kept(bg, bg') /\ Kept(relinks, relinks')
    <2>1. ASSUME NEW R \in SUBSET Row
          PROVE  Kept(R, Nullify(R, c)) /\ Kept(R, R)
      BY NullifyRows
    <2> HIDE DEF Kept
    <2> QED
      BY <1>1, <2>1 DEF DeleteChannel
  <1>3. TypeOK'
    BY <1>2 DEF IInv, TypeOK, DeleteChannel, firestore, pass
  <1>4. ObjectsKnown'
    BY <1>2 DEF IInv, ObjectsKnown, Objects, DeleteChannel, firestore
  <1>5. PassKnown'
    BY DEF IInv, PassKnown, DocsOf, DeleteChannel, firestore, pass
  <1>6. LoopState'
    BY <1>2 DEF IInv, LoopState, DeleteChannel
  <1>7. UniqueAndLinked'
    <2>1. ASSUME NEW q \in rows'
          PROVE  q.link \in channels' \cup {None}
      BY <1>1, <2>1, NullifyRows DEF DeleteChannel, IInv, UniqueAndLinked
    <2>2. ASSUME NEW p \in rows', NEW q \in rows', SameContent(p, q)
          PROVE  p = q
      <3>1. rows' = Nullify(rows, c)
        BY DEF DeleteChannel
      <3>2. PICK r \in rows : p = [r EXCEPT !.link = IF @ = c THEN None ELSE @]
        BY <3>1, <2>2 DEF Nullify
      <3>3. PICK s \in rows : q = [s EXCEPT !.link = IF @ = c THEN None ELSE @]
        BY <3>1, <2>2 DEF Nullify
      <3>4. p.doc = r.doc /\ q.doc = s.doc
        BY <1>1, <3>2, <3>3 DEF Row
      <3>5. r = s
        BY <2>2, <3>4 DEF SameContent, IInv, UniqueAndLinked, DistinctContents
      <3> QED
        BY <3>2, <3>3, <3>5
    <2> QED
      BY <2>1, <2>2 DEF UniqueAndLinked, DistinctContents
  <1>8. WholeSoFar'
    BY <1>2 DEF IInv, WholeSoFar, Stored, LoopState, Unlinked, DeleteChannel, pass
  <1> QED
    BY <1>3, <1>4, <1>5, <1>6, <1>7, <1>8 DEF IInv

-----------------------------------------------------------------------------
(* Steps of the private queue and the restart.                             *)

LEMMA SaveUnchangedStep ==
  ASSUME IInv, SaveUnchanged
  PROVE  IInv'
  <1> USE DEF SaveUnchanged, firestore, pass, context
  <1>1. TypeOK'
    BY DEF IInv, TypeOK
  <1>2. ObjectsKnown' /\ UniqueAndLinked' /\ PassKnown'
    BY DEF IInv, ObjectsKnown, Objects, UniqueAndLinked, DistinctContents, SameContent,
           PassKnown, DocsOf
  <1>3. LoopState'
    <2>1. bg = {}
      BY DEF HasChanges, Complete
    <2> QED
      BY <2>1 DEF IInv, LoopState
  <1>4. WholeSoFar'
    BY DEF IInv, WholeSoFar, Stored, Unlinked
  <1> QED
    BY <1>1, <1>2, <1>3, <1>4 DEF IInv

\* What is committed of complete objects still is an object of its document.
LEMMA CommittedObjects ==
  ASSUME IInv, NEW known \in SUBSET Channels
  PROVE  /\ Committed(Complete, known) \subseteq Row
         /\ \A q \in Committed(Complete, known) :
              /\ q.doc \in docs
              /\ q.link \in {ChannelOf[q.doc], None}
              /\ q.link \in known \cup {None}
         /\ \A r \in Complete : \E q \in Committed(Complete, known) : q.doc = r.doc
  <1>1. ASSUME NEW D \in SUBSET Docs
        PROVE  /\ Unlinked(D) \subseteq Row
               /\ \A q \in Unlinked(D) : q.doc \in D /\ q.link = None
               /\ \A d \in D : [doc |-> d, link |-> None] \in Unlinked(D)
    BY DEF Unlinked, Row, Links
  <1>2. cur \in SUBSET Docs /\ cur \subseteq docs
    BY DEF IInv, TypeOK, PassKnown, DocsOf
  <1>3. /\ Complete \subseteq Row
        /\ \A r \in Complete : r.doc \in docs /\ r.link \in {ChannelOf[r.doc], None}
    BY <1>1, <1>2 DEF Complete, IInv, TypeOK, ObjectsKnown, Objects
  <1> DEFINE lost == {r.doc : r \in {q \in Complete : q.link \notin known \ pending}}
  <1>4. lost \in SUBSET Docs /\ lost \subseteq docs
    BY <1>3 DEF Row
  <1>5. Committed(Complete, known)
          = {r \in Complete : r.link \in known \cup {None}} \cup Unlinked(lost)
    BY DEF Committed
  <1>6. ASSUME NEW r \in Complete
        PROVE  \E q \in Committed(Complete, known) : q.doc = r.doc
    <2>1. CASE r.link \in known
      BY <2>1, <1>5
    <2>2. CASE r.link \notin known
      <3>1. r.doc \in lost
        BY <2>2
      <3>2. [doc |-> r.doc, link |-> None] \in Unlinked(lost)
        BY <1>1, <1>4, <3>1
      <3> QED
        BY <1>5, <3>2
    <2> QED
      BY <2>1, <2>2
  <1> HIDE DEF lost
  <1> QED
    BY <1>1, <1>3, <1>4, <1>5, <1>6

\* Late links rewrite a row of the same document and keep all the others.
LEMMA RelinkedRows ==
  ASSUME IInv, NEW U \in SUBSET relinks, None \notin {u.link : u \in U}
  PROVE  /\ Relinked(rows, U) \subseteq Row
         /\ \A q \in Relinked(rows, U) :
              /\ q \in rows \/ q \in U
              /\ \E r \in rows : r.doc = q.doc
         /\ \A r \in rows : \E q \in Relinked(rows, U) :
              q.doc = r.doc /\ (q = r \/ q.link = ChannelOf[r.doc])
         /\ DistinctContents(Relinked(rows, U))
  <1>1. rows \subseteq Row /\ U \subseteq Row
    BY DEF IInv, TypeOK
  <1>2. \A u \in U : u.link = ChannelOf[u.doc]
    BY DEF IInv, ObjectsKnown, Objects
  <1>3. \A q \in Relinked(rows, U) :
           /\ q \in rows \/ q \in U
           /\ \E r \in rows : r.doc = q.doc
    BY DEF Relinked
  <1>4. \A r \in rows : \E q \in Relinked(rows, U) :
           q.doc = r.doc /\ (q = r \/ q.link = ChannelOf[r.doc])
    BY <1>2 DEF Relinked
  <1>5. ASSUME NEW p \in Relinked(rows, U), NEW q \in Relinked(rows, U), SameContent(p, q)
        PROVE  p = q
    <2>1. PICK r \in rows : r.doc = p.doc
      BY <1>3
    <2>2. PICK t \in rows : t.doc = q.doc
      BY <1>3
    <2>3. r = t
      BY <1>5, <2>1, <2>2 DEF SameContent, IInv, UniqueAndLinked, DistinctContents
    <2>4. p.doc = q.doc
      BY <2>1, <2>2, <2>3
    <2>5. CASE p \in U /\ q \in U
      BY <1>1, <1>2, <2>4, <2>5 DEF Row
    <2>6. CASE p \notin U \/ q \notin U
      <3>1. p \in rows /\ q \in rows
        BY <1>3, <2>4, <2>6 DEF Relinked
      <3> QED
        BY <1>5, <3>1 DEF IInv, UniqueAndLinked, DistinctContents
    <2> QED
      BY <2>5, <2>6
  <1> QED
    BY <1>1, <1>3, <1>4, <1>5 DEF DistinctContents

\* The rows after a commit: those before it, some of them linked late, and one
\* winner for each new content.
LEMMA CommitRows ==
  ASSUME IInv, SaveCommits
  PROVE  /\ rows' \subseteq Row
         /\ \A q \in rows' : /\ q.doc \in docs
                             /\ q.link \in {ChannelOf[q.doc], None}
                             /\ q.link \in channels' \cup {None}
         /\ DistinctContents(rows')
         /\ \A r \in rows : \E q \in rows' :
              q.doc = r.doc /\ (q = r \/ q.link = ChannelOf[r.doc])
         /\ \A r \in Complete : \E q \in rows' : ContentOf[q.doc] = ContentOf[r.doc]
         /\ pc' = "relink" /\ pc = "link" => \A d \in cur' : \E q \in rows' : q.doc = d
  <1>1. channels' \in SUBSET Channels /\ channels \subseteq channels'
    BY DEF SaveCommits, IInv, TypeOK
  <1>2. PICK w \in Winners(Committed(Complete, channels')),
             u \in SUBSET {r \in relinks : r.link \in channels'} :
          /\ rows' = Relinked(rows, u) \cup w
          /\ pc' = "relink" /\ pc = "link" => cur' = cur /\ Unlinked(cur) \subseteq w
    <2>1. PICK w \in Winners(Committed(Complete, channels')),
               u \in SUBSET {r \in relinks : r.link \in channels'} :
            /\ rows' = Relinked(rows, u) \cup w
            /\ IF pc = "link"
               THEN \/ cur # {} /\ Unlinked(cur) \subseteq w /\ pc' = "relink" /\ UNCHANGED cur
                    \/ ~(Unlinked(cur) \subseteq w) /\ cur' = {} /\ UNCHANGED pc
                    \/ cur = {} /\ UNCHANGED <<pc, cur>>
               ELSE UNCHANGED <<pc, cur>>
      BY DEF SaveCommits
    <2> QED
      BY <2>1
  <1> DEFINE C == Committed(Complete, channels')
             new == {r \in C : \A q \in rows : ~SameContent(q, r)}
  <1>3. /\ C \subseteq Row
        /\ \A q \in C : /\ q.doc \in docs
                        /\ q.link \in {ChannelOf[q.doc], None}
                        /\ q.link \in channels' \cup {None}
        /\ \A r \in Complete : \E q \in C : q.doc = r.doc
    BY <1>1, CommittedObjects
  <1>4. /\ w \subseteq new /\ DistinctContents(w)
        /\ \A r \in new : \E q \in w : SameContent(q, r)
    BY <1>2 DEF Winners
  <1> HIDE DEF C
  <1>5. /\ Relinked(rows, u) \subseteq Row
        /\ \A q \in Relinked(rows, u) :
             /\ q \in rows \/ q \in u
             /\ \E r \in rows : r.doc = q.doc
        /\ \A r \in rows : \E q \in Relinked(rows, u) :
             q.doc = r.doc /\ (q = r \/ q.link = ChannelOf[r.doc])
        /\ DistinctContents(Relinked(rows, u))
    <2>1. u \in SUBSET relinks /\ None \notin {x.link : x \in u}
      BY <1>1, MessageAssumption
    <2> QED
      BY <2>1, RelinkedRows
  <1>6. rows' \subseteq Row
    BY <1>2, <1>3, <1>4, <1>5
  <1>7. ASSUME NEW q \in rows'
        PROVE  /\ q.doc \in docs
               /\ q.link \in {ChannelOf[q.doc], None}
               /\ q.link \in channels' \cup {None}
    <2>1. CASE q \in w
      BY <1>3, <1>4, <2>1
    <2>2. CASE q \in rows
      BY <1>1, <2>2 DEF IInv, ObjectsKnown, Objects, UniqueAndLinked
    <2>3. CASE q \in u
      BY <2>3 DEF IInv, ObjectsKnown, Objects
    <2> QED
      BY <1>2, <1>5, <1>7, <2>1, <2>2, <2>3
  <1>8. DistinctContents(rows')
    <2>1. ASSUME NEW p \in Relinked(rows, u), NEW q \in w
          PROVE  ~SameContent(p, q) /\ ~SameContent(q, p)
      BY <1>4, <1>5, <2>1 DEF SameContent
    <2> QED
      BY <1>2, <1>4, <1>5, <2>1 DEF DistinctContents
  <1>9. \A r \in rows : \E q \in rows' :
           q.doc = r.doc /\ (q = r \/ q.link = ChannelOf[r.doc])
    BY <1>2, <1>5
  <1>10. ASSUME NEW r \in Complete
         PROVE  \E q \in rows' : ContentOf[q.doc] = ContentOf[r.doc]
    <2>1. PICK c \in C : c.doc = r.doc
      BY <1>3
    <2>2. CASE c \in new
      BY <1>2, <1>4, <2>1, <2>2 DEF SameContent
    <2>3. CASE c \notin new
      <3>1. PICK q \in rows : SameContent(q, c)
        BY <2>3
      <3>2. PICK p \in rows' : p.doc = q.doc
        BY <1>9
      <3> QED
        BY <2>1, <3>1, <3>2 DEF SameContent
    <2> QED
      BY <2>2, <2>3
  <1>11. ASSUME pc' = "relink", pc = "link", NEW d \in cur'
         PROVE  \E q \in rows' : q.doc = d
    <2>1. [doc |-> d, link |-> None] \in w
      BY <1>2, <1>11 DEF Unlinked
    <2> QED
      BY <1>2, <2>1
  <1> QED
    BY <1>6, <1>7, <1>8, <1>9, <1>10, <1>11

LEMMA SaveCommitsStep ==
  ASSUME IInv, SaveCommits
  PROVE  IInv'
  <1>1. /\ \/ pc' = pc /\ cur' = cur
           \/ pc = "link" /\ pc' = "relink" /\ cur' = cur
           \/ pc = "link" /\ pc' = "link" /\ cur' = {}
        /\ channels' \in SUBSET Channels
        /\ pending' = {} /\ bg' = {} /\ relinks' = {}
        /\ saves' = saves - 1 /\ saves > 0
        /\ UNCHANGED <<docs, watch, inbox, chan, heard, todo, verdict>>
    BY DEF SaveCommits, firestore, pass, IInv, TypeOK
  <1>2. TypeOK'
    BY <1>1, CommitRows DEF IInv, TypeOK
  <1>3. ObjectsKnown'
    BY <1>1, CommitRows DEF ObjectsKnown, Objects
  <1>4. PassKnown'
    BY <1>1 DEF IInv, PassKnown, DocsOf
  <1>5. LoopState'
    <2>1. pc' = "relink" => \A d \in cur' : \E q \in rows' : q.doc = d
      <3>1. CASE pc = "link"
        BY <3>1, CommitRows
      <3>2. CASE pc # "link"
        BY <1>1, <3>2, CommitRows DEF IInv, LoopState
      <3> QED
        BY <3>1, <3>2
    <2> QED
      BY <1>1, <2>1 DEF IInv, LoopState
  <1>6. UniqueAndLinked'
    BY CommitRows DEF UniqueAndLinked, DistinctContents, SameContent
  <1>7. WholeSoFar'
    <2> SUFFICES ASSUME verdict = "whole", NEW d \in heard \ todo
                 PROVE  Stored(d, rows' \cup Unlinked(cur'))
      BY <1>1 DEF WholeSoFar, Stored
    <2>1. PICK r \in rows \cup bg \cup Unlinked(cur) : ContentOf[r.doc] = ContentOf[d]
      BY DEF IInv, WholeSoFar, Stored
    <2>2. CASE r \in rows
      BY <2>1, <2>2, CommitRows DEF Stored
    <2>3. CASE r \in Complete
      BY <2>1, <2>3, CommitRows DEF Stored
    <2>4. CASE r \in Unlinked(cur) /\ pc # "link"
      BY <1>1, <2>1, <2>4 DEF Stored
    <2> QED
      BY <2>1, <2>2, <2>3, <2>4 DEF Complete
  <1> QED
    BY <1>2, <1>3, <1>4, <1>5, <1>6, <1>7 DEF IInv

LEMMA SaveRollsBackStep ==
  ASSUME IInv, SaveRollsBack
  PROVE  IInv'
  <1> USE DEF SaveRollsBack, firestore, pass
  <1>1. TypeOK'
    BY DEF IInv, TypeOK
  <1>2. ObjectsKnown' /\ UniqueAndLinked' /\ PassKnown'
    BY DEF IInv, ObjectsKnown, Objects, UniqueAndLinked, DistinctContents, SameContent,
           PassKnown, DocsOf
  <1>3. LoopState' /\ WholeSoFar'
    BY DEF IInv, LoopState, WholeSoFar
  <1> QED
    BY <1>1, <1>2, <1>3 DEF IInv

LEMMA RestartStep ==
  ASSUME IInv, Restart
  PROVE  IInv'
  <1> USE DEF Restart
  <1>1. TypeOK'
    BY DEF IInv, TypeOK, Links
  <1>2. ObjectsKnown' /\ UniqueAndLinked' /\ PassKnown'
    BY DEF IInv, ObjectsKnown, Objects, UniqueAndLinked, DistinctContents, SameContent,
           PassKnown, DocsOf
  <1>3. LoopState' /\ WholeSoFar'
    BY DEF IInv, LoopState, WholeSoFar
  <1> QED
    BY <1>1, <1>2, <1>3 DEF IInv

LEMMA StutterStep ==
  ASSUME IInv, UNCHANGED vars
  PROVE  IInv'
  <1>1. TypeOK'
    BY DEF vars, IInv, TypeOK
  <1>2. PassKnown'
    BY DEF vars, IInv, PassKnown, DocsOf
  <1> QED
    BY <1>1, <1>2, CacheUnchanged DEF IInv, vars, pass, context

LEMMA NextIInv == IInv /\ [Next]_vars => IInv'
  <1> SUFFICES ASSUME IInv, [Next]_vars
               PROVE  IInv'
    OBVIOUS
  <1>1. CASE \E l \in Listeners, c \in Channels : ViewDidLoad(l, c)
    BY <1>1, ViewDidLoadStep
  <1>2. CASE \E d \in Docs : SendMessage(d) \/ RemoteMessage(d)
    BY <1>2, AddDocumentStep DEF SendMessage, RemoteMessage
  <1>3. CASE \E l \in Listeners : ListenerError(l)
    BY <1>3, ListenerErrorStep
  <1>4. CASE \E l \in Listeners : HandleSnapshot(l)
    BY <1>4, HandleSnapshotStep
  <1>5. CASE Pass
    BY <1>5, InsertMessageStep, FillMessageStep, LinkMessageStep DEF Pass
  <1>6. CASE \E c \in Channels : InsertChannel(c)
    BY <1>6, InsertChannelStep
  <1>7. CASE \E c \in Channels : DeleteChannel(c)
    BY <1>7, DeleteChannelStep
  <1>8. CASE SaveBackgroundContex
    BY <1>8, SaveUnchangedStep, SaveCommitsStep, SaveRollsBackStep DEF SaveBackgroundContex
  <1>9. CASE Restart
    BY <1>9, RestartStep
  <1>10. CASE UNCHANGED vars
    BY <1>10, StutterStep
  <1> QED
    BY <1>1, <1>2, <1>3, <1>4, <1>5, <1>6, <1>7, <1>8, <1>9, <1>10 DEF Next

-----------------------------------------------------------------------------
(* The theorems.                                                           *)

\* The inductive invariant holds in every reachable state.
THEOREM Invariance == Spec => []IInv
  BY InitIInv, NextIInv, PTL DEF Spec

\* Rows never point to a deleted channel and no content has two rows, for any
\* number of leaked listeners and any interleaving with deletions.
THEOREM CacheStaysSound == Spec => []CacheIsSound
  <1>1. IInv => CacheIsSound
    BY DEF IInv, CacheIsSound
  <1> QED
    BY <1>1, Invariance, PTL

\* A message is only ever shown in the channel it was sent to.
THEOREM MessagesShownWhereSent == Spec => []ShownWhereSent
  <1>1. IInv => ShownWhereSent
    BY DEF IInv, ObjectsKnown, Objects, ShownWhereSent
  <1> QED
    BY <1>1, Invariance, PTL

\* As many rows as documents means that no document lacks its row, so that
\* checkingTheMessages may skip such a snapshot.
THEOREM CountsAreSound == Spec => []EqualCountsMeanComplete
  <1>1. IInv => EqualCountsMeanComplete
    <2> SUFFICES ASSUME IInv, NEW c \in Channels,
                        Cardinality(FetchedResult(c)) >= Cardinality(DocsOf(c))
                 PROVE  DocsOf(c) = {r.doc : r \in FetchedResult(c)}
      BY DEF EqualCountsMeanComplete
    <2> DEFINE R == FetchedResult(c)
               D == DocsOf(c)
               f == [r \in R |-> r.doc]
    <2>1. f \in Injection(R, D)
      <3>1. \A r \in R : r.doc \in D
        BY MessageAssumption DEF IInv, ObjectsKnown, Objects, FetchedResult, DocsOf
      <3>2. \A r, s \in R : r.doc = s.doc => r = s
        BY DEF IInv, UniqueAndLinked, DistinctContents, SameContent, FetchedResult
      <3> QED
        BY <3>1, <3>2 DEF Injection, IsInjective
    <2>2. IsFiniteSet(D)
      BY MessageAssumption, FS_Subset DEF IInv, TypeOK, DocsOf
    <2> HIDE DEF R, D, f
    <2>3. /\ IsFiniteSet(R)
          /\ Cardinality(R) <= Cardinality(D)
          /\ Cardinality(R) = Cardinality(D) => f \in Surjection(R, D)
      BY <2>1, <2>2, FS_Injection
    <2>4. Cardinality(R) = Cardinality(D)
      BY <2>2, <2>3, FS_CardinalityType DEF R, D
    <2>5. f \in Surjection(R, D)
      BY <2>3, <2>4
    <2> QED
      BY <2>1, <2>5 DEF Surjection, Injection, R, D, f
  <1> QED
    BY <1>1, Invariance, PTL

\* An undisturbed inserting pass leaves a row for every content it heard.
THEOREM WholePassesStoreAll == Spec => []WholePassStoresAll
  <1>1. IInv => WholePassStoresAll
    <2> SUFFICES ASSUME IInv, verdict = "whole", pc = "idle", saves = 0, NEW d \in heard
                 PROVE  \E r \in rows : ContentOf[r.doc] = ContentOf[d]
      BY DEF WholePassStoresAll
    <2>1. todo = {} /\ cur = {} /\ bg = {}
      BY DEF IInv, LoopState
    <2> QED
      BY <2>1 DEF IInv, WholeSoFar, Stored, Unlinked
  <1> QED
    BY <1>1, Invariance, PTL

\* No step removes a row, moves one to another channel, or unlinks one whose
\* channel still has its row.
THEOREM RowsStayPut == Spec => MessagesStayPut
  <1> DEFINE A == \A r \in rows : \E q \in rows' :
                    /\ q.doc = r.doc
                    /\ \/ q.link = r.link
                       \/ r.link = None
                       \/ q.link = None /\ r.link \notin channels'
  <1>1. ASSUME IInv, SaveCommits
        PROVE  A
    BY <1>1, CommitRows DEF IInv, ObjectsKnown, Objects
  <1>2. ASSUME IInv, NEW c \in Channels, DeleteChannel(c)
        PROVE  A
    <2>1. rows \in SUBSET Row /\ rows' = Nullify(rows, c) /\ c \notin channels'
      BY <1>2 DEF IInv, TypeOK, DeleteChannel
    <2> QED
      BY <2>1, NullifyRows
  <1>3. ASSUME UNCHANGED rows
        PROVE  A
    BY <1>3
  <1>4. ASSUME IInv, [Next]_vars
        PROVE  A
    <2>1. \/ SaveCommits \/ UNCHANGED rows \/ \E c \in Channels : DeleteChannel(c)
      BY <1>4 DEF Next, vars, ViewDidLoad, GetChannelMessages, SendMessage, RemoteMessage, AddDocument,
                  ListenerError, HandleSnapshot, CheckingTheMessages, Pass, InsertMessage, FillMessage,
                  LinkMessage, InsertChannel, SaveBackgroundContex, SaveUnchanged,
                  SaveRollsBack, Restart
    <2> HIDE DEF A
    <2> QED
      BY <1>1, <1>2, <1>3, <1>4, <2>1
  <1>5. IInv /\ [Next]_vars => [A]_vars
    BY <1>4
  <1> QED
    BY <1>5, Invariance, PTL DEF Spec, MessagesStayPut

-----------------------------------------------------------------------------
(* The screens, listeners and save blocks implement MessageCache.          *)

cached == <<docs, channels, rows>>

LEMMA AddDocumentImplementsArrive ==
  ASSUME NEW d \in Docs, AddDocument(d)
  PROVE  Cache!CacheNext
  BY DEF AddDocument, Cache!CacheNext, Cache!Arrive

LEMMA DeleteChannelImplementsDrop ==
  ASSUME IInv, NEW c \in Channels, DeleteChannel(c)
  PROVE  Cache!CacheNext
  <1> DEFINE N(r) == [r EXCEPT !.link = IF @ = c THEN None ELSE @]
             D(r) == [doc |-> r.doc, link |-> IF r.link = c THEN None ELSE r.link]
  <1>1. ASSUME NEW r \in rows
        PROVE  N(r) = D(r)
    BY DEF IInv, TypeOK, Row
  <1>2. rows' = {N(r) : r \in rows}
    BY DEF DeleteChannel, Nullify
  <1> HIDE DEF N, D
  <1>3. rows' = {D(r) : r \in rows}
    BY <1>1, <1>2
  <1> USE DEF D
  <1> QED
    BY <1>3 DEF DeleteChannel, firestore, Cache!CacheNext, Cache!Drop

\* A commit adds channels, rows and links and takes none away.
LEMMA SaveCommitsImplementsStore ==
  ASSUME IInv, SaveCommits
  PROVE  Cache!CacheNext
  <1>1. channels \subseteq channels' /\ channels' \subseteq Channels /\ UNCHANGED docs
    BY DEF SaveCommits, IInv, TypeOK, firestore
  <1>2. Cache!Extends(rows')
    BY CommitRows DEF Cache!Extends, IInv, ObjectsKnown, Objects
  <1>3. Cache!Sound(rows', channels')
    BY CommitRows DEF Cache!Sound, DistinctContents, SameContent
  <1> QED
    BY <1>1, <1>2, <1>3 DEF Cache!CacheNext, Cache!Store

LEMMA StepImplements ==
  ASSUME IInv, [Next]_vars
  PROVE  [Cache!CacheNext]_cached
  <1>1. CASE \E d \in Docs : AddDocument(d)
    BY <1>1, AddDocumentImplementsArrive
  <1>2. CASE \E c \in Channels : DeleteChannel(c)
    BY <1>2, DeleteChannelImplementsDrop
  <1>3. CASE SaveCommits
    BY <1>3, SaveCommitsImplementsStore
  <1>4. \/ \E d \in Docs : AddDocument(d)
        \/ \E c \in Channels : DeleteChannel(c)
        \/ SaveCommits
        \/ UNCHANGED cached
    BY DEF Next, vars, cached, firestore, ViewDidLoad, SendMessage, RemoteMessage,
           ListenerError, HandleSnapshot, Pass, InsertMessage, FillMessage, LinkMessage,
           InsertChannel, SaveBackgroundContex, SaveUnchanged, SaveRollsBack, Restart
  <1> QED
    BY <1>1, <1>2, <1>3, <1>4

\* Every behaviour of the screens, with their leaked listeners, the shared
\* context and its save blocks, is a behaviour of MessageCache, where rows are
\* stored in one step and never lost.
THEOREM Refinement == Spec => ImplementsMessageCache
  <1>1. Init => Cache!CacheInit
    BY DEF Init, Cache!CacheInit
  <1>2. IInv /\ [Next]_vars => [Cache!CacheNext]_(Cache!cacheVars)
    BY StepImplements DEF Cache!cacheVars, cached
  <1> QED
    BY <1>1, <1>2, Invariance, PTL DEF Spec, ImplementsMessageCache, Cache!CacheSpec

=============================================================================
