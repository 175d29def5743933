---------------------------- MODULE ChannelCache ----------------------------
(***************************************************************************)
(* What the channel list promises of its offline cache, with no threads,   *)
(* contexts, queues or loops in sight:                                     *)
(*   - it learns only channels that exist or existed in the collection;    *)
(*   - it never holds two channels of one name;                            *)
(*   - it forgets a channel only if the last snapshot heard lacks it, or   *)
(*     if this user deletes the channel from the collection at that moment.*)
(* It does NOT promise to learn every channel it hears of: the counts may  *)
(* hide a difference, and a rollback may throw inserts away.               *)
(***************************************************************************)
CONSTANTS Ids, NameOf

VARIABLES
  live,    \* the documents of the collection
  dead,    \* the documents deleted from it
  heard,   \* the last snapshot, {} before the first one of a process
  cache    \* the channels kept across restarts

cacheVars == <<live, dead, heard, cache>>

OneNameEach(s) == \A a, b \in s : NameOf[a] = NameOf[b] => a = b

CacheInit == live \subseteq Ids /\ dead = {} /\ heard = {} /\ cache = {}

\* The collection changes; a deleted document stays deleted.
Change(new) ==
  /\ new \cap dead = {}
  /\ live' = new
  /\ dead' = dead \cup (live \ new)

Evolve == (\E new \in SUBSET Ids : Change(new)) /\ UNCHANGED <<heard, cache>>

Hear == (\E snap \in SUBSET (live \cup dead) : heard' = snap) /\ UNCHANGED <<live, dead, cache>>

Learn ==
  /\ \E w \in SUBSET (live \cup dead) : cache' = cache \cup w
  /\ OneNameEach(cache')
  /\ UNCHANGED <<live, dead, heard>>

Forget ==
  /\ \E c \in cache \ heard : cache' = cache \ {c}
  /\ UNCHANGED <<live, dead, heard>>

Remove ==
  /\ \E c \in cache : Change(live \ {c}) /\ cache' = cache \ {c}
  /\ UNCHANGED heard

CacheNext == Evolve \/ Hear \/ Learn \/ Forget \/ Remove

CacheSpec == CacheInit /\ [][CacheNext]_cacheVars
=============================================================================
