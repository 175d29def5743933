---------------------------- MODULE MessageCache ----------------------------
(***************************************************************************)
(* What the conversations promise of the cached messages, with no screens, *)
(* listeners, contexts or save blocks in sight.  In one atomic step        *)
(*   - a document arrives in a channel;                                    *)
(*   - rows are stored: some channels, some messages that exist, each      *)
(*     linked to its own channel or to none, and links of stored messages  *)
(*     that had none; no content gets a second row, no row is lost;        *)
(*   - a channel's row goes, and its messages stay behind without it.      *)
(* It does NOT promise to store every message: an equal content elsewhere  *)
(* or a rollback may keep one out.                                         *)
(***************************************************************************)
CONSTANTS Docs, Channels, None, ChannelOf, ContentOf

VARIABLES
  sent,    \* the documents of all channels
  known,   \* the channels with a row
  kept     \* the messages with a row: [doc, link]

cacheVars == <<sent, known, kept>>

CacheInit == sent \subseteq Docs /\ known \subseteq Channels /\ kept = {}

Arrive ==
  /\ \E d \in Docs : sent' = sent \cup {d}
  /\ UNCHANGED <<known, kept>>

\* Nothing is lost, and a link changes only from none to the right channel.
Extends(new) ==
  \A r \in kept : \E q \in new :
    q.doc = r.doc /\ (r.link # None => q.link = r.link)

Sound(new, chans) ==
  /\ \A r \in new :
       /\ r.doc \in sent
       /\ r.link = None \/ (r.link = ChannelOf[r.doc] /\ r.link \in chans)
  /\ \A r, q \in new : ContentOf[r.doc] = ContentOf[q.doc] => r = q

Store ==
  /\ known \subseteq known' /\ known' \subseteq Channels
  /\ Extends(kept') /\ Sound(kept', known')
  /\ UNCHANGED sent

Drop ==
  /\ \E c \in known :
       /\ known' = known \ {c}
       /\ kept' = {[doc |-> r.doc, link |-> IF r.link = c THEN None ELSE r.link] : r \in kept}
  /\ UNCHANGED sent

CacheNext == Arrive \/ Store \/ Drop

CacheSpec == CacheInit /\ [][CacheNext]_cacheVars
=============================================================================
