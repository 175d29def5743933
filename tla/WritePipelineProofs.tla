------------------------ MODULE WritePipelineProofs ------------------------
(***************************************************************************)
(* Proofs about WritePipeline for every set of writes and users, every     *)
(* limit of the pipeline and every use of the client.                      *)
(***************************************************************************)
EXTENDS WritePipeline, ClientStreamProofs, SequenceTheorems, WellFoundedInduction

-----------------------------------------------------------------------------
(* Numbers and sequences.                                                  *)

\* The least-number principle for sets.
LEMMA LeastNumber ==
  ASSUME NEW T, T \subseteq Nat, T # {}
  PROVE  \E m \in T : \A k \in T : m <= k
  <1> DEFINE R == {p \in Nat \X Nat : p[1] < p[2]}
  <1>1. IsWellFoundedOn(R, Nat)
    BY NatLessThanWellFounded DEF OpToRel
  <1>2. PICK m \in T : \A k \in T : <<k, m>> \notin R
    <2> HIDE DEF R
    <2> QED
      BY <1>1, WFMin
  <1>3. ASSUME NEW k \in T PROVE m <= k
    <2>1. <<k, m>> \in Nat \X Nat /\ <<k, m>> \notin R
      BY <1>2
    <2>2. ~(k < m)
      BY <2>1
    <2> QED
      BY <2>2
  <1> QED
    BY <1>3

\* A bounded set of numbers has a largest one.
LEMMA MaxOfBounded ==
  ASSUME NEW S, S \subseteq Nat, S # {}, NEW n \in Nat, \A x \in S : x <= n
  PROVE  Max(S) \in S /\ \A x \in S : x <= Max(S)
  <1> DEFINE T == {m \in Nat : \A x \in S : x <= m}
  <1>1. n \in T /\ T \subseteq Nat
    OBVIOUS
  <1>2. PICK m \in T : \A k \in T : m <= k
    <2> HIDE DEF T
    <2> QED
      BY <1>1, LeastNumber
  <1>3. m \in S
    <2>1. SUFFICES ASSUME m \notin S PROVE FALSE
      OBVIOUS
    <2>2. PICK x \in S : TRUE
      OBVIOUS
    <2>3. \A y \in S : y <= m - 1
      BY <2>1, <1>2
    <2>4. m - 1 \in T
      BY <2>2, <2>3, <1>2
    <2> QED
      BY <2>4, <1>2
  <1> QED
    BY <1>3, <1>2 DEF Max

\* One of several sequences is appended to: what is at each place of each.
LEMMA AppendAt ==
  ASSUME NEW S, NEW U, NEW f \in [U -> Seq(S)], NEW u \in U, NEW e \in S,
         NEW g, g = [f EXCEPT ![u] = Append(@, e)],
         NEW v \in U, NEW i \in 1..Len(g[v])
  PROVE  \/ v = u /\ i = Len(f[v]) + 1 /\ g[v][i] = e
         \/ i \in 1..Len(f[v]) /\ g[v][i] = f[v][i]
  <1>1. CASE v = u
    <2>1. f[v] \in Seq(S) /\ Len(f[v]) \in Nat
      BY LenProperties
    <2>2. /\ g[v] = Append(f[v], e) /\ Len(g[v]) = Len(f[v]) + 1
          /\ \A k \in 1..Len(f[v]) : g[v][k] = f[v][k]
          /\ g[v][Len(f[v]) + 1] = e
      BY <1>1, <2>1, AppendProperties
    <2>3. i = Len(f[v]) + 1 \/ i \in 1..Len(f[v])
      BY <2>1, <2>2
    <2> QED
      BY <1>1, <2>2, <2>3
  <1>2. CASE v # u
    BY <1>2
  <1> QED
    BY <1>1, <1>2

-----------------------------------------------------------------------------
(* Queues of batches.                                                      *)

InOrder(Q) == \A i, j \in 1..Len(Q) : i < j => Q[i].id < Q[j].id

LEMMA TakeProperties ==
  ASSUME NEW S, NEW s \in Seq(S), NEW n \in Nat
  PROVE  /\ Take(s, n) \in Seq(S)
         /\ Len(Take(s, n)) = IF n < Len(s) THEN n ELSE Len(s)
         /\ \A i \in 1..Len(Take(s, n)) : Take(s, n)[i] = s[i]
  <1> DEFINE m == IF n < Len(s) THEN n ELSE Len(s)
  <1>1. m \in Nat /\ m <= Len(s) /\ Take(s, n) = SubSeq(s, 1, m)
    BY LenProperties DEF Take
  <1> HIDE DEF m
  <1>2. \A i \in 1..m : s[i] \in S
    BY <1>1, ElementOfSeq
  <1>3. /\ SubSeq(s, 1, m) \in Seq(S)
        /\ Len(SubSeq(s, 1, m)) = m
        /\ \A i \in 1..m : SubSeq(s, 1, m)[i] = s[i]
    BY <1>1, <1>2, SubSeqProperties
  <1> QED
    BY <1>1, <1>3 DEF m

\* The batches after those of a pipeline that is the head of the queue.
LEMMA NextBatchesAfterPrefix ==
  ASSUME NEW Q \in Seq(Batch), InOrder(Q), NEW n \in 0..Len(Q), n <= MaxPending,
         NEW P \in Seq(Batch), Len(P) = n, \A i \in 1..n : P[i] = Q[i]
  PROVE  /\ NextBatches(P, Q) \in Seq(Batch)
         /\ P \o NextBatches(P, Q) = Take(Q, MaxPending)
  <1> DEFINE known == IF P = <<>> THEN 0 ELSE SelectLastInSeq(Q, LAMBDA b : b.id <= Last(P).id)
  <1>1. known = n
    <2>1. CASE P = <<>>
      BY <2>1
    <2>2. CASE P # <<>>
      <3>1. n \in Nat \ {0} /\ n \in 1..Len(Q) /\ Last(P) = Q[n]
        BY <2>2, EmptySeq DEF Last
      <3>2. \A i \in 1..Len(Q) : Q[i].id \in Nat
        <4>1. \A i \in 1..Len(Q) : Q[i] \in Batch
          BY ElementOfSeq
        <4> QED
          BY <4>1 DEF Batch
      <3>3. \A i \in 1..Len(Q) : Q[i].id <= Q[n].id <=> i <= n
        <4> SUFFICES ASSUME NEW i \in 1..Len(Q)
                     PROVE  Q[i].id <= Q[n].id <=> i <= n
          OBVIOUS
        <4>1. CASE i < n
          BY <4>1, <3>1, <3>2 DEF InOrder
        <4>2. CASE i = n
          BY <4>2, <3>1, <3>2
        <4>3. CASE n < i
          BY <4>3, <3>1, <3>2 DEF InOrder
        <4> QED
          BY <4>1, <4>2, <4>3, <3>1
      <3>4. {i \in 1..Len(Q) : Q[i].id <= Last(P).id} = 1..n
        BY <3>1, <3>3
      <3>5. SelectLastInSeq(Q, LAMBDA b : b.id <= Last(P).id)
            = IF 1..n # {} THEN Max(1..n) ELSE 0
        BY <3>4 DEF SelectLastInSeq
      <3>6. Max(1..n) = n
        BY <3>1 DEF Max
      <3> QED
        BY <2>2, <3>1, <3>5, <3>6
    <2> QED
      BY <2>1, <2>2
  <1> DEFINE rest == SubSeq(Q, n + 1, Len(Q))
  <1>2. NextBatches(P, Q) = Take(rest, MaxPending - n)
    BY <1>1 DEF NextBatches
  <1>3. /\ rest \in Seq(Batch) /\ Len(rest) = Len(Q) - n
        /\ \A i \in 1..Len(rest) : rest[i] = Q[n + i]
    <2>1. \A i \in (n + 1)..Len(Q) : Q[i] \in Batch
      BY ElementOfSeq
    <2>2. n + 1 \in Int /\ Len(Q) \in Int
      BY LenProperties
    <2> QED
      BY <2>1, <2>2, SubSeqProperties
  <1> HIDE DEF rest, known
  <1> DEFINE new == Take(rest, MaxPending - n)
  <1>4. MaxPending - n \in Nat
    BY WriteAssumption
  <1>5. /\ new \in Seq(Batch)
        /\ Len(new) = IF MaxPending < Len(Q) THEN MaxPending - n ELSE Len(Q) - n
        /\ \A i \in 1..Len(new) : new[i] = Q[n + i]
    BY <1>3, <1>4, TakeProperties, WriteAssumption, LenProperties
  <1> HIDE DEF new
  <1>6. /\ P \o new \in Seq(Batch) /\ Len(P \o new) = n + Len(new)
        /\ \A i \in 1..(n + Len(new)) : (P \o new)[i] = IF i <= n THEN P[i] ELSE new[i - n]
    BY <1>5, ConcatProperties
  <1>7. ASSUME NEW i \in 1..(n + Len(new)) PROVE (P \o new)[i] = Q[i]
    <2>1. Len(new) \in Nat /\ n \in Nat
      BY <1>5, LenProperties
    <2>2. CASE i <= n
      BY <2>1, <2>2, <1>6
    <2>3. CASE i > n
      <3>1. i - n \in 1..Len(new) /\ n + (i - n) = i
        BY <2>1, <2>3
      <3> QED
        BY <2>1, <2>3, <3>1, <1>5, <1>6
    <2> QED
      BY <2>1, <2>2, <2>3
  <1>8. /\ Take(Q, MaxPending) \in Seq(Batch)
        /\ Len(Take(Q, MaxPending)) = n + Len(new)
        /\ \A i \in 1..(n + Len(new)) : Take(Q, MaxPending)[i] = Q[i]
    BY <1>5, TakeProperties, WriteAssumption, LenProperties
  <1>9. P \o new = Take(Q, MaxPending)
    BY <1>6, <1>7, <1>8, SeqEqual
  <1> QED
    BY <1>2, <1>5, <1>9 DEF new

LEMMA WritesOfProperties ==
  ASSUME NEW s \in Seq(Batch)
  PROVE  /\ WritesOf(s) \in Seq(Writes)
         /\ WritesOf(s) \in Seq(Writes \cup {"handshake"})
         /\ Len(WritesOf(s)) = Len(s)
         /\ \A i \in 1..Len(s) : WritesOf(s)[i] = s[i].write
         /\ WritesOf(s) = <<>> <=> s = <<>>
  <1>1. Len(s) \in Nat
    BY LenProperties
  <1>2. \A i \in 1..Len(s) : s[i] \in Batch
    BY ElementOfSeq
  <1>3. \A i \in 1..Len(s) : s[i].write \in Writes
    BY <1>2 DEF Batch
  <1>4. WritesOf(s) \in [1..Len(s) -> Writes]
    BY <1>3 DEF WritesOf
  <1>5. WritesOf(s) \in Seq(Writes) /\ Len(WritesOf(s)) = Len(s)
    BY <1>1, <1>4
  <1>6. WritesOf(s) \in Seq(Writes \cup {"handshake"})
    BY <1>5, SeqMonotonic
  <1>7. \A i \in 1..Len(s) : WritesOf(s)[i] = s[i].write
    BY DEF WritesOf
  <1>8. WritesOf(s) = <<>> <=> s = <<>>
    BY <1>5, EmptySeq
  <1> QED
    BY <1>5, <1>6, <1>7, <1>8

LEMMA WritesOfAppend ==
  ASSUME NEW s \in Seq(Batch), NEW b \in Batch
  PROVE  WritesOf(Append(s, b)) = Append(WritesOf(s), b.write)
  <1> DEFINE t == Append(s, b)
             u == WritesOf(s)
             v == WritesOf(t)
             w == Append(u, b.write)
  <1>1. /\ t \in Seq(Batch) /\ Len(t) = Len(s) + 1 /\ t[Len(s) + 1] = b
        /\ \A i \in 1..Len(s) : t[i] = s[i]
    BY AppendProperties
  <1>2. /\ u \in Seq(Writes) /\ Len(u) = Len(s)
        /\ \A i \in 1..Len(s) : u[i] = s[i].write
    BY WritesOfProperties
  <1> HIDE DEF t, u
  <1>3. /\ v \in Seq(Writes) /\ Len(v) = Len(t)
        /\ \A i \in 1..Len(t) : v[i] = t[i].write
    BY <1>1, WritesOfProperties
  <1>4. b.write \in Writes /\ Len(s) \in Nat
    BY LenProperties DEF Batch
  <1>5. /\ w \in Seq(Writes) /\ Len(w) = Len(u) + 1 /\ w[Len(u) + 1] = b.write
        /\ \A i \in 1..Len(u) : w[i] = u[i]
    BY <1>2, <1>4, AppendProperties
  <1> HIDE DEF v, w
  <1>6. \A i \in 1..Len(v) : v[i] = w[i]
    BY <1>1, <1>2, <1>3, <1>4, <1>5
  <1>7. v = w
    BY <1>1, <1>2, <1>3, <1>5, <1>6, SeqEqual
  <1> QED
    BY <1>7 DEF t, u, v, w

LEMMA WritesOfTail ==
  ASSUME NEW s \in Seq(Batch), s # <<>>
  PROVE  WritesOf(Tail(s)) = Tail(WritesOf(s))
  <1>1. /\ Tail(s) \in Seq(Batch) /\ Len(Tail(s)) = Len(s) - 1 /\ Len(s) \in Nat \ {0}
        /\ \A i \in 1..Len(Tail(s)) : Tail(s)[i] = s[i + 1]
    BY HeadTailProperties, EmptySeq
  <1>2. PICK u \in Seq(Writes) :
          /\ u = WritesOf(s) /\ Len(u) = Len(s) /\ u # <<>>
          /\ \A i \in 1..Len(s) : u[i] = s[i].write
    BY WritesOfProperties
  <1>3. PICK v \in Seq(Writes) :
          /\ v = WritesOf(Tail(s)) /\ Len(v) = Len(Tail(s))
          /\ \A i \in 1..Len(Tail(s)) : v[i] = Tail(s)[i].write
    BY <1>1, WritesOfProperties
  <1>4. /\ Tail(u) \in Seq(Writes) /\ Len(Tail(u)) = Len(u) - 1
        /\ \A i \in 1..Len(Tail(u)) : Tail(u)[i] = u[i + 1]
    BY <1>2, HeadTailProperties
  <1>5. ASSUME NEW i \in 1..Len(v) PROVE v[i] = Tail(u)[i]
    <2>1. i \in 1..Len(Tail(s)) /\ i \in 1..Len(Tail(u)) /\ i + 1 \in 1..Len(s)
      BY <1>1, <1>2, <1>3, <1>4
    <2>2. v[i] = s[i + 1].write
      BY <2>1, <1>1, <1>3
    <2>3. Tail(u)[i] = s[i + 1].write
      BY <2>1, <1>2, <1>4
    <2> QED
      BY <2>2, <2>3
  <1>6. v = Tail(u)
    BY <1>1, <1>2, <1>3, <1>4, <1>5, SeqEqual
  <1> QED
    BY <1>2, <1>3, <1>6

LEMMA SetOfWrites ==
  ASSUME NEW s \in Seq(Batch)
  PROVE  ToSet(WritesOf(s)) = {s[i].write : i \in 1..Len(s)}
  <1>1. DOMAIN WritesOf(s) = 1..Len(s) /\ \A i \in 1..Len(s) : WritesOf(s)[i] = s[i].write
    BY DEF WritesOf
  <1> QED
    BY <1>1 DEF ToSet

LEMMA WritesOfConcat ==
  ASSUME NEW s \in Seq(Batch), NEW t \in Seq(Batch)
  PROVE  WritesOf(s \o t) = WritesOf(s) \o WritesOf(t)
  <1>1. /\ s \o t \in Seq(Batch) /\ Len(s \o t) = Len(s) + Len(t)
        /\ \A i \in 1..(Len(s) + Len(t)) : (s \o t)[i] = IF i <= Len(s) THEN s[i] ELSE t[i - Len(s)]
    BY ConcatProperties
  <1>2. PICK u \in Seq(Writes), v \in Seq(Writes) :
          /\ u = WritesOf(s) /\ v = WritesOf(t) /\ Len(u) = Len(s) /\ Len(v) = Len(t)
          /\ \A i \in 1..Len(s) : u[i] = s[i].write
          /\ \A i \in 1..Len(t) : v[i] = t[i].write
    BY WritesOfProperties
  <1>3. /\ u \o v \in Seq(Writes) /\ Len(u \o v) = Len(u) + Len(v)
        /\ \A i \in 1..(Len(u) + Len(v)) : (u \o v)[i] = IF i <= Len(u) THEN u[i] ELSE v[i - Len(u)]
    BY ConcatProperties
  <1>4. PICK w \in Seq(Writes) :
          /\ w = WritesOf(s \o t) /\ Len(w) = Len(s) + Len(t)
          /\ \A i \in 1..(Len(s) + Len(t)) : w[i] = (s \o t)[i].write
    BY <1>1, WritesOfProperties
  <1>5. ASSUME NEW i \in 1..(Len(s) + Len(t)) PROVE w[i] = (u \o v)[i]
    <2>1. Len(s) \in Nat /\ Len(t) \in Nat
      BY LenProperties
    <2>2. CASE i <= Len(s)
      <3>1. i \in 1..Len(s)
        BY <2>1, <2>2
      <3>2. (u \o v)[i] = u[i] /\ (s \o t)[i] = s[i]
        BY <2>1, <2>2, <1>1, <1>2, <1>3
      <3> QED
        BY <3>1, <3>2, <1>2, <1>4
    <2>3. CASE i > Len(s)
      <3>1. i - Len(s) \in 1..Len(t)
        BY <2>1, <2>3
      <3>2. (u \o v)[i] = v[i - Len(s)] /\ (s \o t)[i] = t[i - Len(s)]
        BY <2>1, <2>3, <1>1, <1>2, <1>3
      <3> QED
        BY <3>1, <3>2, <1>2, <1>4
    <2>4. i <= Len(s) \/ i > Len(s)
      BY <2>1
    <2> QED
      BY <2>2, <2>3, <2>4, Zenon
  <1>6. w = u \o v
    BY <1>2, <1>3, <1>4, <1>5, SeqEqual
  <1> QED
    BY <1>2, <1>4, <1>6

\* The first batch leaves a queue, and takes nothing else with it.
LEMMA WithoutHead ==
  ASSUME NEW Q \in Seq(Batch), Q # <<>>, InOrder(Q)
  PROVE  /\ Without(Q, Head(Q)) = Tail(Q) /\ Head(Q) = Q[1] /\ Head(Q) \in Batch
         /\ Tail(Q) \in Seq(Batch) /\ Len(Tail(Q)) = Len(Q) - 1 /\ Len(Q) \in Nat \ {0}
         /\ \A i \in 1..Len(Tail(Q)) : Tail(Q)[i] = Q[i + 1]
         /\ \A i \in 1..Len(Q) : Q[i].id = Head(Q).id => i = 1
  <1>1. /\ Len(Q) \in Nat \ {0} /\ Head(Q) = Q[1] /\ Head(Q) \in Batch
        /\ Tail(Q) \in Seq(Batch) /\ Len(Tail(Q)) = Len(Q) - 1
        /\ \A i \in 1..Len(Tail(Q)) : Tail(Q)[i] = Q[i + 1]
        /\ Tail(Q) = SubSeq(Q, 2, Len(Q))
    <2>1. Head(Q) = Q[1]
      OBVIOUS
    <2> QED
      BY <2>1, EmptySeq, HeadTailProperties, TailIsSubSeq
  <1>2. ASSUME NEW i \in 1..Len(Q), Q[i].id = Head(Q).id PROVE i = 1
    <2>1. Q[1] \in Batch /\ Q[i] \in Batch
      BY <1>1, ElementOfSeq
    <2>2. ~(Q[1].id < Q[i].id)
      BY <2>1, <1>1, <1>2 DEF Batch
    <2> QED
      BY <2>2, <1>1 DEF InOrder
  <1>3. {i \in 1..Len(Q) : Q[i].id = Head(Q).id} = {1}
    BY <1>1, <1>2
  <1>4. SelectInSeq(Q, LAMBDA c : c.id = Head(Q).id) = 1
    BY <1>3 DEF SelectInSeq, Min
  <1>5. SubSeq(Q, 1, 1 - 1) = <<>>
    BY SubSeqEmpty
  <1>6. RemoveAt(Q, 1) = Tail(Q)
    <2>1. RemoveAt(Q, 1) = <<>> \o SubSeq(Q, 2, Len(Q))
      BY <1>5 DEF RemoveAt
    <2> QED
      BY <2>1, <1>1, ConcatEmptySeq
  <1>7. Without(Q, Head(Q)) = Tail(Q)
    BY <1>4, <1>6 DEF Without
  <1> QED
    BY <1>1, <1>2, <1>7

-----------------------------------------------------------------------------
(* Filling the pipeline: whatever head P of the queue Q is in it, it is     *)
(* filled up with what follows, the stream carries what it must, and the   *)
(* idle timer runs at most for an empty pipeline.                          *)

Wire(P) == IF handshake = "yes" THEN WritesOf(P) ELSE <<"handshake">>

LEMMA FillStep ==
  ASSUME NEW Q \in Seq(Batch), InOrder(Q), NEW P \in Seq(Batch),
         Len(P) <= Len(Q), Len(P) <= MaxPending, \A i \in 1..Len(P) : P[i] = Q[i],
         NEW s, Sound(s), s.idle = "scheduled" => P = <<>>,
         NEW W \in Seq(Writes \cup {"handshake"}),
         IsOpen(s) => W = Wire(P), IsOpen(s) /\ handshake # "yes" => P # <<>>,
         ~IsOpen(s) => W = <<>>,
         Fill(P, Q, s, W)
  PROVE  /\ pipeline' = Take(Q, MaxPending)
         /\ Sound(stream') /\ (stream'.idle = "scheduled" => pipeline' = <<>>)
         /\ pipeline' # <<>> => IsStarted(stream')
         /\ IsStarted(stream') => IsStarted(s) \/ pipeline' # <<>>
         /\ P # <<>> => pipeline' # <<>>
         /\ IsOpen(stream') <=> IsOpen(s)
         /\ IsOpen(s) => wire' = IF handshake = "yes" THEN WritesOf(pipeline') ELSE <<"handshake">>
         /\ ~IsOpen(s) => wire' = <<>>
         /\ wire' \in Seq(Writes \cup {"handshake"}) /\ Len(W) <= Len(wire')
         /\ \A i \in 1..Len(W) : wire'[i] = W[i]
  <1> DEFINE new == NextBatches(P, Q)
             full == P \o new
             sends == IsOpen(s) /\ handshake = "yes" /\ new # <<>>
             marked == IF sends THEN Write(s) ELSE IF full = <<>> THEN MarkIdle(s) ELSE s
  <1>1. new \in Seq(Batch) /\ full = Take(Q, MaxPending)
    <2>1. Len(P) \in 0..Len(Q)
      BY LenProperties
    <2> QED
      BY <2>1, NextBatchesAfterPrefix
  <1>2. /\ pipeline' = full
        /\ wire' = IF sends THEN W \o WritesOf(new) ELSE W
        /\ stream' = IF ~IsStarted(marked) /\ full # <<>> THEN Start(marked) ELSE marked
    BY DEF Fill
  <1> HIDE DEF new
  <1>3. (P # <<>> => full # <<>>) /\ (full = <<>> => new = <<>> /\ P = <<>>)
    BY <1>1, ConcatEqualIffEmpty
  <1>4. new = <<>> => full = P
    BY <1>1, ConcatEmptySeq
  <1> HIDE DEF full
  <1>5. /\ Sound(marked) /\ (IsOpen(marked) <=> IsOpen(s)) /\ (IsStarted(marked) <=> IsStarted(s))
        /\ marked.idle = "scheduled" => full = <<>>
    <2>1. CASE sends
      BY <2>1, WriteSound DEF IsOpen, IsStarted
    <2>2. CASE ~sends /\ full = <<>>
      <3>1. CASE IsOpen(s)
        BY <2>2, <3>1, MarkIdleSound DEF IsOpen, IsStarted
      <3>2. CASE ~IsOpen(s)
        BY <2>2, <3>2 DEF MarkIdle
      <3> QED
        BY <3>1, <3>2
    <2>3. CASE ~sends /\ full # <<>>
      <3>1. marked = s
        BY <2>3
      <3>2. CASE P # <<>>
        BY <3>1, <3>2
      <3>3. CASE P = <<>>
        <4>1. ~IsOpen(s)
          BY <2>3, <3>3, <1>4
        <4>2. s.idle # "scheduled"
          BY <4>1 DEF Sound, CallbacksFindState, IsOpen
        <4> QED
          BY <3>1, <4>2
      <3> QED
        BY <3>2, <3>3
    <2> QED
      BY <2>1, <2>2, <2>3
  <1>6. IsOpen(marked) => IsStarted(marked)
    BY DEF IsOpen, IsStarted
  <1> HIDE DEF marked
  <1>7. /\ Sound(stream') /\ (stream'.idle = "scheduled" => full = <<>>)
        /\ full # <<>> => IsStarted(stream')
        /\ IsStarted(stream') => IsStarted(s) \/ full # <<>>
        /\ IsOpen(stream') <=> IsOpen(s)
    <2>1. CASE ~IsStarted(marked) /\ full # <<>>
      BY <2>1, <1>2, <1>5, <1>6, StartSound
    <2>2. CASE IsStarted(marked) \/ full = <<>>
      BY <2>2, <1>2, <1>5
    <2> QED
      BY <2>1, <2>2
  <1>8. /\ IsOpen(s) => wire' = Wire(full)
        /\ ~IsOpen(s) => wire' = <<>>
    <2>1. CASE sends
      BY <2>1, <1>1, <1>2, WritesOfConcat DEF Wire, full
    <2>2. CASE ~sends
      BY <2>2, <1>2, <1>4 DEF Wire
    <2> QED
      BY <2>1, <2>2
  <1>9. /\ wire' \in Seq(Writes \cup {"handshake"}) /\ Len(W) <= Len(wire')
        /\ \A i \in 1..Len(W) : wire'[i] = W[i]
    <2>1. CASE sends
      <3>1. WritesOf(new) \in Seq(Writes \cup {"handshake"})
        BY <1>1, WritesOfProperties
      <3>2. wire' = W \o WritesOf(new)
        BY <2>1, <1>2
      <3>3. /\ Len(W) \in Nat /\ Len(WritesOf(new)) \in Nat
        BY <3>1, LenProperties
      <3> QED
        BY <3>1, <3>2, <3>3, ConcatProperties
    <2>2. CASE ~sends
      BY <2>2, <1>2, LenProperties
    <2> QED
      BY <2>1, <2>2
  <1> QED
    BY <1>1, <1>2, <1>3, <1>7, <1>8, <1>9 DEF Wire

-----------------------------------------------------------------------------
(* The invariant has a part about RemoteStore and one about SyncEngine and  *)
(* the queues on disk.                                                     *)

RemoteOK ==
  /\ enabled \in {"yes", "no"} /\ handshake \in {"yes", "no"}
  /\ pipeline \in Seq(Batch) /\ Len(pipeline) <= MaxPending
  /\ stream \in StreamState
  /\ wire \in Seq(Writes \cup {"handshake"}) /\ acks \in 0..Len(wire)
  /\ PipelineIsHeadOfQueue /\ WireIsPipeline /\ StreamAssertions /\ AnswersAreTrue

EngineOK ==
  /\ user \in Users
  /\ queue \in [Users -> Seq(Batch)]
  /\ nextId \in Nat
  /\ callbacks \in [Users -> SUBSET Batch]
  /\ waiters \subseteq [id : Nat, writes : SUBSET Writes]
  /\ applied \subseteq Writes /\ refused \subseteq Writes
  /\ issued \in [Users -> Seq(Writes)]
  /\ told \in [Writes -> {"nothing", "ok", "error"}]
  /\ waiting \subseteq Writes
  /\ CallersInformed /\ NothingLost
  /\ QueuesInOrder /\ WritesQueuedOnce /\ WaitersKnowLast

LEMMA IInvParts == (IInv <=> RemoteOK /\ EngineOK) /\ (IInv' <=> RemoteOK' /\ EngineOK')
  BY DEF IInv, RemoteOK, EngineOK, StreamFitsPipeline, TypeOK

-----------------------------------------------------------------------------
(* SyncEngine and the queues.                                              *)

\* The server may decide on writes while the client does nothing.
LEMMA EngineUnchanged ==
  ASSUME EngineOK, UNCHANGED local, applied \subseteq applied', refused \subseteq refused',
         applied' \subseteq Writes, refused' \subseteq Writes
  PROVE  EngineOK'
  <1>1. CallersInformed'
    BY DEF EngineOK, local, CallersInformed, ToldTheTruth, CallersRegistered
  <1>2. NothingLost'
    BY DEF EngineOK, local, NothingLost
  <1>3. QueuesInOrder' /\ WritesQueuedOnce' /\ WaitersKnowLast'
    BY DEF EngineOK, local, QueuesInOrder, WritesQueuedOnce, WaitersKnowLast
  <1> QED
    BY <1>1, <1>2, <1>3 DEF EngineOK, local

\* Batch ids are loaded beyond those of every queue.
LEMMA LoadedIdIsNew ==
  ASSUME EngineOK
  PROVE  /\ LoadNextBatchIdFromDb \in Nat
         /\ \A u \in Users : \A i \in 1..Len(queue[u]) : queue[u][i].id < LoadNextBatchIdFromDb
  <1> DEFINE S == {0} \cup UNION {{queue[u][i].id : i \in 1..Len(queue[u])} : u \in Users}
  <1>1. ASSUME NEW u \in Users, NEW i \in 1..Len(queue[u])
        PROVE  queue[u][i].id \in Nat /\ queue[u][i].id < nextId
    <2>1. queue[u][i] \in Batch
      BY ElementOfSeq DEF EngineOK
    <2> QED
      BY <2>1 DEF EngineOK, QueuesInOrder, Batch
  <1>2. S \subseteq Nat /\ S # {} /\ nextId \in Nat /\ \A x \in S : x <= nextId
    BY <1>1 DEF EngineOK
  <1>3. \A u \in Users : \A i \in 1..Len(queue[u]) : queue[u][i].id \in S
    OBVIOUS
  <1>4. LoadNextBatchIdFromDb = 1 + Max(S)
    BY DEF LoadNextBatchIdFromDb
  <1> HIDE DEF S
  <1>5. Max(S) \in S /\ \A x \in S : x <= Max(S)
    BY <1>2, MaxOfBounded
  <1>6. Max(S) \in Nat
    BY <1>2, <1>5
  <1>7. ASSUME NEW u \in Users, NEW i \in 1..Len(queue[u])
        PROVE  queue[u][i].id < LoadNextBatchIdFromDb
    BY <1>1, <1>3, <1>4, <1>5, <1>6
  <1> QED
    BY <1>4, <1>6, <1>7

LEMMA CredentialChangeKeepsEngine ==
  ASSUME EngineOK, NEW u \in Users, user' = u, waiters' = {}, nextId' = LoadNextBatchIdFromDb,
         UNCHANGED <<queue, issued, told, applied, refused>>,
         \/ UNCHANGED <<callbacks, waiting>>
         \/ callbacks' = [v \in Users |-> {}] /\ waiting' = {}
  PROVE  EngineOK'
  <1>1. CallersInformed'
    <2>1. ToldTheTruth'
      BY DEF EngineOK, CallersInformed, ToldTheTruth
    <2>2. CallersRegistered'
      BY DEF EngineOK, CallersInformed, CallersRegistered
    <2> QED
      BY <2>1, <2>2 DEF CallersInformed
  <1>2. NothingLost'
    BY DEF EngineOK, NothingLost
  <1>3. QueuesInOrder'
    BY LoadedIdIsNew DEF EngineOK, QueuesInOrder
  <1>4. WritesQueuedOnce' /\ WaitersKnowLast'
    BY DEF EngineOK, WritesQueuedOnce, WaitersKnowLast
  <1> QED
    BY <1>1, <1>2, <1>3, <1>4, LoadedIdIsNew DEF EngineOK

LEMMA WaitKeepsEngine ==
  ASSUME EngineOK, WaitForPendingWrites
  PROVE  EngineOK'
  <1> DEFINE Q == queue[user]
  <1>1. Q \in Seq(Batch) /\ user \in Users /\ Q # <<>> /\ Len(Q) \in 1..Len(Q)
        /\ \A i \in 1..Len(Q) : Q[i] \in Batch
    <2>1. Q \in Seq(Batch) /\ user \in Users /\ Q # <<>>
      BY DEF EngineOK, WaitForPendingWrites
    <2> HIDE DEF Q
    <2> QED
      BY <2>1, EmptySeq, ElementOfSeq
  <1>2. Last(Q) = Q[Len(Q)] /\ Last(Q).id \in Nat
    BY <1>1 DEF Last, Batch
  <1>3. ToSet(WritesOf(Q)) = {Q[i].write : i \in 1..Len(Q)}
    BY <1>1, SetOfWrites
  <1>4. ToSet(WritesOf(Q)) \subseteq Writes
    BY <1>1, <1>3 DEF Batch
  <1>5. waiters' = {[id |-> Last(Q).id, writes |-> ToSet(WritesOf(Q))]}
        /\ UNCHANGED <<user, queue, nextId, callbacks, issued, told, waiting, applied, refused>>
    BY DEF WaitForPendingWrites, server
  <1>6. ToSet(WritesOf(Q)) \subseteq ToSet(issued[user])
    BY <1>1, <1>3 DEF EngineOK, WritesQueuedOnce
  <1>7. \A i \in 1..Len(Q) : Q[i].id <= Last(Q).id
    <2> SUFFICES ASSUME NEW i \in 1..Len(Q) PROVE Q[i].id <= Q[Len(Q)].id
      BY <1>2
    <2>1. Q[i].id \in Nat /\ Q[Len(Q)].id \in Nat
      BY <1>1 DEF Batch
    <2>2. CASE i = Len(Q)
      BY <2>1, <2>2
    <2>3. CASE i < Len(Q)
      BY <2>1, <2>3, <1>1 DEF EngineOK, QueuesInOrder
    <2> QED
      BY <2>2, <2>3, <1>1
  <1>8. WaitersKnowLast'
    BY <1>5, <1>6, <1>7 DEF WaitersKnowLast
  <1>9. CallersInformed' /\ NothingLost' /\ QueuesInOrder' /\ WritesQueuedOnce'
    BY <1>5 DEF EngineOK, CallersInformed, ToldTheTruth, CallersRegistered, NothingLost,
                QueuesInOrder, WritesQueuedOnce
  <1>10. waiters' \subseteq [id : Nat, writes : SUBSET Writes]
    BY <1>2, <1>4, <1>5
  <1> QED
    BY <1>5, <1>8, <1>9, <1>10 DEF EngineOK

LEMMA WriteKeepsEngine ==
  ASSUME EngineOK, NEW w \in Writes, WriteMutations(w)
  PROVE  EngineOK'
  <1> DEFINE batch == [id |-> nextId, write |-> w]
             Q == queue[user]
             I == issued[user]
  <1>1. /\ user \in Users /\ nextId \in Nat /\ batch \in Batch
        /\ Q \in Seq(Batch) /\ Len(Q) \in Nat /\ I \in Seq(Writes) /\ Len(I) \in Nat
        /\ \A v \in Users : \A k \in 1..Len(issued[v]) : issued[v][k] # w
    BY LenProperties DEF EngineOK, WriteMutations, Batch
  <1>2. /\ queue' = [queue EXCEPT ![user] = Append(@, batch)]
        /\ issued' = [issued EXCEPT ![user] = Append(@, w)]
        /\ nextId' = nextId + 1 /\ waiting' = waiting \cup {w}
        /\ UNCHANGED <<user, waiters, told, applied, refused>>
    BY DEF WriteMutations, server
  <1>3. callbacks' = [callbacks EXCEPT ![user] = @ \cup {batch}]
    <2>1. ASSUME NEW c \in callbacks[user] PROVE c.id # nextId
      <3>1. c \in ToSet(Q)
        BY <1>1 DEF EngineOK, CallersInformed, CallersRegistered
      <3>2. PICK k \in 1..Len(Q) : c = Q[k]
        BY <1>1, <3>1, LenProperties DEF ToSet
      <3>3. Q[k] \in Batch /\ Q[k].id < nextId
        BY <1>1, ElementOfSeq DEF EngineOK, QueuesInOrder
      <3> QED
        BY <1>1, <3>2, <3>3 DEF Batch
    <2> QED
      BY <2>1 DEF WriteMutations
  <1>4. /\ queue' \in [Users -> Seq(Batch)] /\ issued' \in [Users -> Seq(Writes)]
        /\ queue'[user] = Append(Q, batch) /\ issued'[user] = Append(I, w)
        /\ \A v \in Users : v # user => queue'[v] = queue[v] /\ issued'[v] = issued[v]
    <2>1. Append(Q, batch) \in Seq(Batch) /\ Append(I, w) \in Seq(Writes)
      BY <1>1, AppendProperties
    <2> QED
      BY <1>1, <1>2, <2>1 DEF EngineOK
  <1>5. /\ Len(queue'[user]) = Len(Q) + 1 /\ queue'[user][Len(Q) + 1] = batch
        /\ \A k \in 1..Len(Q) : queue'[user][k] = Q[k]
    BY <1>1, <1>4, AppendProperties
  <1>6. /\ Len(issued'[user]) = Len(I) + 1 /\ issued'[user][Len(I) + 1] = w
        /\ \A k \in 1..Len(I) : issued'[user][k] = I[k]
    BY <1>1, <1>4, AppendProperties
  <1>7. ToSet(queue'[user]) = ToSet(Q) \cup {batch}
    <2>1. DOMAIN queue'[user] = 1..(Len(Q) + 1) /\ DOMAIN Q = 1..Len(Q)
      BY <1>1, <1>4, <1>5, LenProperties
    <2>2. 1..(Len(Q) + 1) = 1..Len(Q) \cup {Len(Q) + 1}
      BY <1>1
    <2> HIDE DEF batch, Q
    <2> QED
      BY <1>5, <2>1, <2>2 DEF ToSet
  <1>8. ToSet(issued'[user]) = ToSet(I) \cup {w}
    <2>1. DOMAIN issued'[user] = 1..(Len(I) + 1) /\ DOMAIN I = 1..Len(I)
      BY <1>1, <1>4, <1>6, LenProperties
    <2>2. 1..(Len(I) + 1) = 1..Len(I) \cup {Len(I) + 1}
      BY <1>1
    <2> HIDE DEF I
    <2> QED
      BY <1>6, <2>1, <2>2 DEF ToSet
  <1>9. w \notin ToSet(I)
    BY <1>1, LenProperties DEF ToSet
  <1> HIDE DEF I
  <1>10. CallersInformed'
    <2>1. ToldTheTruth'
      BY <1>2 DEF EngineOK, CallersInformed, ToldTheTruth
    <2>2. \A u \in Users : callbacks'[u] \subseteq ToSet(queue'[u])
      BY <1>1, <1>3, <1>4, <1>7 DEF EngineOK, CallersInformed, CallersRegistered
    <2>3. waiting' = UNION {{c.write : c \in callbacks'[u]} : u \in Users}
      <3>1. waiting = UNION {{c.write : c \in callbacks[u]} : u \in Users}
        BY DEF EngineOK, CallersInformed, CallersRegistered
      <3>2. \A u \in Users : callbacks'[u] = IF u = user THEN callbacks[u] \cup {batch} ELSE callbacks[u]
        BY <1>1, <1>3 DEF EngineOK
      <3>3. batch.write = w
        OBVIOUS
      <3> HIDE DEF batch
      <3>4. ASSUME NEW x \in waiting' PROVE \E u \in Users : \E c \in callbacks'[u] : x = c.write
        <4>1. CASE x = w
          BY <4>1, <1>1, <3>2, <3>3
        <4>2. CASE x \in waiting
          <5>1. PICK u \in Users : \E c \in callbacks[u] : x = c.write
            BY <4>2, <3>1
          <5> QED
            BY <5>1, <3>2
        <4> QED
          BY <3>4, <4>1, <4>2, <1>2
      <3>5. ASSUME NEW u \in Users, NEW c \in callbacks'[u] PROVE c.write \in waiting'
        <4>1. c = batch \/ c \in callbacks[u]
          BY <3>2
        <4> QED
          BY <4>1, <3>1, <3>3, <1>2
      <3> QED
        BY <3>4, <3>5
    <2> QED
      BY <2>1, <2>2, <2>3 DEF CallersInformed, CallersRegistered
  <1>11. NothingLost'
    <2> SUFFICES ASSUME NEW u \in Users, NEW i \in 1..Len(issued'[u])
                 PROVE  \/ issued'[u][i] \in applied' \cup refused'
                        \/ \E k \in 1..Len(queue'[u]) : queue'[u][k].write = issued'[u][i]
      BY DEF NothingLost
    <2>1. CASE u # user
      BY <2>1, <1>2, <1>4 DEF EngineOK, NothingLost
    <2>2. CASE u = user /\ i = Len(I) + 1
      <3>1. Len(Q) + 1 \in 1..Len(queue'[u]) /\ queue'[u][Len(Q) + 1].write = issued'[u][i]
        BY <2>2, <1>1, <1>5, <1>6
      <3> QED
        BY <3>1
    <2>3. CASE u = user /\ i \in 1..Len(I)
      <3>1. issued'[u][i] = issued[u][i] /\ i \in 1..Len(issued[u])
        BY <2>3, <1>6 DEF I
      <3>2. CASE issued[u][i] \in applied \cup refused
        BY <3>1, <3>2, <1>2
      <3>3. CASE \E k \in 1..Len(queue[u]) : queue[u][k].write = issued[u][i]
        <4>1. PICK k \in 1..Len(Q) : Q[k].write = issued[u][i]
          BY <3>3, <2>3
        <4>2. k \in 1..Len(queue'[u]) /\ queue'[u][k].write = issued'[u][i]
          BY <4>1, <3>1, <2>3, <1>1, <1>5
        <4> QED
          BY <4>2
      <3> QED
        BY <3>1, <3>2, <3>3 DEF EngineOK, NothingLost
    <2> QED
      BY <2>1, <2>2, <2>3, <1>1, <1>6
  <1>12. QueuesInOrder'
    <2>1. ASSUME NEW u \in Users, NEW i \in 1..Len(queue[u])
          PROVE  queue[u][i].id \in Nat /\ queue[u][i].id < nextId
      <3>1. queue[u][i] \in Batch
        BY ElementOfSeq DEF EngineOK
      <3> QED
        BY <3>1 DEF EngineOK, QueuesInOrder, Batch
    <2>2. ASSUME NEW u \in Users, NEW i \in 1..Len(queue'[u]) PROVE queue'[u][i].id < nextId'
      BY <2>1, <1>1, <1>2, <1>4, <1>5
    <2>3. ASSUME NEW u \in Users, NEW i \in 1..Len(queue'[u]), NEW j \in 1..Len(queue'[u]), i < j
          PROVE  queue'[u][i].id < queue'[u][j].id
      <3>1. CASE u # user
        BY <3>1, <2>3, <1>4 DEF EngineOK, QueuesInOrder
      <3>2. CASE u = user /\ j = Len(Q) + 1
        BY <3>2, <2>1, <2>3, <1>1, <1>5
      <3>3. CASE u = user /\ j # Len(Q) + 1
        <4>1. i \in 1..Len(Q) /\ j \in 1..Len(Q)
          BY <3>3, <2>3, <1>1, <1>5
        <4> QED
          BY <4>1, <3>3, <2>3, <1>1, <1>5 DEF EngineOK, QueuesInOrder
      <3> QED
        BY <3>1, <3>2, <3>3
    <2> QED
      BY <2>2, <2>3 DEF QueuesInOrder
  <1>13. WritesQueuedOnce'
    <2>1. ASSUME NEW u \in Users, NEW v \in Users, NEW i \in 1..Len(issued'[u]),
                 NEW j \in 1..Len(issued'[v]), issued'[u][i] = issued'[v][j]
          PROVE  u = v /\ i = j
      <3>1. \A x \in Users : \A k \in 1..Len(issued'[x]) :
              \/ x = user /\ k = Len(I) + 1 /\ issued'[x][k] = w
              \/ k \in 1..Len(issued[x]) /\ issued'[x][k] = issued[x][k] /\ issued'[x][k] # w
        BY <1>1, <1>2, AppendAt DEF I, EngineOK
      <3>2. CASE issued'[u][i] = w
        BY <3>1, <3>2, <2>1
      <3>3. CASE issued'[u][i] # w
        BY <3>1, <3>3, <2>1 DEF EngineOK, WritesQueuedOnce
      <3> QED
        BY <3>2, <3>3
    <2>2. ASSUME NEW u \in Users, NEW i \in 1..Len(queue'[u])
          PROVE  \/ u = user /\ i = Len(Q) + 1 /\ queue'[u][i] = batch
                 \/ /\ i \in 1..Len(queue[u]) /\ queue'[u][i] = queue[u][i]
                    /\ queue[u][i].write \in ToSet(issued[u]) /\ queue[u][i].write # w
      <3>1. i \in 1..Len(queue[u]) => queue[u][i].write \in ToSet(issued[u])
        BY DEF EngineOK, WritesQueuedOnce
      <3>2. w \notin ToSet(issued[u])
        BY <1>1, LenProperties DEF EngineOK, ToSet
      <3>3. \/ u = user /\ i = Len(queue[u]) + 1 /\ queue'[u][i] = batch
            \/ i \in 1..Len(queue[u]) /\ queue'[u][i] = queue[u][i]
        BY <1>1, <1>2, AppendAt DEF EngineOK
      <3> QED
        BY <3>1, <3>2, <3>3
    <2>3. ASSUME NEW u \in Users, NEW i \in 1..Len(queue'[u])
          PROVE  queue'[u][i].write \in ToSet(issued'[u])
      <3>1. CASE u = user /\ queue'[u][i] = batch
        BY <3>1, <1>8
      <3>2. CASE queue'[u][i].write \in ToSet(issued[u])
        <4>1. ToSet(issued[u]) \subseteq ToSet(issued'[u])
          BY <1>4, <1>8 DEF I
        <4> QED
          BY <3>2, <4>1
      <3> QED
        BY <3>1, <3>2, <2>2
    <2>4. ASSUME NEW u \in Users, NEW i \in 1..Len(queue'[u]), NEW j \in 1..Len(queue'[u]),
                 queue'[u][i].write = queue'[u][j].write
          PROVE  i = j
      <3>1. batch.write = w
        OBVIOUS
      <3> HIDE DEF batch, Q
      <3>2. CASE queue'[u][i].write = w
        BY <3>1, <3>2, <2>2, <2>4
      <3>3. CASE queue'[u][i].write # w
        <4>1. i \in 1..Len(queue[u]) /\ queue'[u][i] = queue[u][i]
          BY <2>2, <3>1, <3>3
        <4>2. j \in 1..Len(queue[u]) /\ queue'[u][j] = queue[u][j]
          BY <2>2, <2>4, <3>1, <3>3
        <4> QED
          BY <2>4, <4>1, <4>2 DEF EngineOK, WritesQueuedOnce
      <3> QED
        BY <3>2, <3>3
    <2> HIDE DEF batch, Q
    <2> QED
      BY <2>1, <2>3, <2>4 DEF WritesQueuedOnce
  <1>14. WaitersKnowLast'
    <2> SUFFICES ASSUME NEW x \in waiters
                 PROVE  /\ x.writes \subseteq ToSet(issued'[user])
                        /\ \A i \in 1..Len(queue'[user]) :
                             queue'[user][i].write \in x.writes => queue'[user][i].id <= x.id
      BY <1>2 DEF WaitersKnowLast
    <2>1. /\ x.writes \subseteq ToSet(I)
          /\ \A i \in 1..Len(Q) : Q[i].write \in x.writes => Q[i].id <= x.id
      BY DEF EngineOK, WaitersKnowLast, I
    <2>2. batch.write \notin x.writes
      BY <2>1, <1>9
    <2> HIDE DEF batch, Q
    <2> QED
      BY <2>1, <2>2, <1>1, <1>5, <1>8
  <1>15. /\ callbacks' \in [Users -> SUBSET Batch] /\ nextId' \in Nat /\ user' \in Users
         /\ waiting' \subseteq Writes
    BY <1>1, <1>2, <1>3 DEF EngineOK
  <1> QED
    BY <1>2, <1>4, <1>10, <1>11, <1>12, <1>13, <1>14, <1>15 DEF EngineOK

\* The head of the user's queue is done: what is left of each queue.
LEMMA QueueAfterDone ==
  ASSUME EngineOK, queue[user] # <<>>, NEW status, BatchDone(Head(queue[user]), status)
  PROVE  /\ queue' \in [Users -> Seq(Batch)]
         /\ queue' = [queue EXCEPT ![user] = Tail(@)]
         /\ \A v \in Users : \A i \in 1..Len(queue'[v]) :
              LET k == IF v = user THEN i + 1 ELSE i
              IN k \in 1..Len(queue[v]) /\ queue'[v][i] = queue[v][k]
         /\ \A v \in Users : \A k \in 1..Len(queue[v]) :
              \/ v = user /\ k = 1
              \/ LET i == IF v = user THEN k - 1 ELSE k
                 IN i \in 1..Len(queue'[v]) /\ queue'[v][i] = queue[v][k]
  <1> DEFINE Q == queue[user]
  <1>1. user \in Users /\ Q \in Seq(Batch) /\ InOrder(Q)
    BY DEF EngineOK, QueuesInOrder, InOrder
  <1>2. queue' = [queue EXCEPT ![user] = Without(@, Head(Q))]
    BY DEF BatchDone
  <1>3. /\ Without(Q, Head(Q)) = Tail(Q) /\ Tail(Q) \in Seq(Batch)
        /\ Len(Q) \in Nat \ {0} /\ Len(Tail(Q)) = Len(Q) - 1
        /\ \A i \in 1..Len(Tail(Q)) : Tail(Q)[i] = Q[i + 1]
    BY <1>1, WithoutHead
  <1>4. /\ queue' \in [Users -> Seq(Batch)] /\ queue' = [queue EXCEPT ![user] = Tail(@)]
        /\ queue'[user] = Tail(Q)
        /\ \A v \in Users : v # user => queue'[v] = queue[v]
    BY <1>1, <1>2, <1>3 DEF EngineOK
  <1>5. ASSUME NEW v \in Users, NEW i \in 1..Len(queue'[v])
        PROVE  LET k == IF v = user THEN i + 1 ELSE i
               IN k \in 1..Len(queue[v]) /\ queue'[v][i] = queue[v][k]
    BY <1>3, <1>4
  <1>6. ASSUME NEW v \in Users, NEW k \in 1..Len(queue[v])
        PROVE  \/ v = user /\ k = 1
               \/ LET i == IF v = user THEN k - 1 ELSE k
                  IN i \in 1..Len(queue'[v]) /\ queue'[v][i] = queue[v][k]
    <2>1. CASE v = user /\ k # 1
      <3>1. k - 1 \in 1..Len(Tail(Q)) /\ (k - 1) + 1 = k
        BY <2>1, <1>3
      <3> QED
        BY <2>1, <3>1, <1>3, <1>4
    <2>2. CASE v # user
      BY <2>2, <1>4
    <2> QED
      BY <2>1, <2>2
  <1> QED
    BY <1>4, <1>5, <1>6

LEMMA DoneKeepsEngine ==
  ASSUME EngineOK, queue[user] # <<>>, NEW status \in {"ok", "error"},
         BatchDone(Head(queue[user]), status),
         applied \subseteq applied', refused \subseteq refused',
         applied' \subseteq Writes, refused' \subseteq Writes,
         Head(queue[user]).write \in IF status = "ok" THEN applied' ELSE refused'
  PROVE  EngineOK'
  <1> DEFINE Q == queue[user]
             b == Head(Q)
             called == {c \in callbacks[user] : c.id = b.id}
  <1>1. user \in Users /\ Q \in Seq(Batch) /\ InOrder(Q) /\ Q # <<>>
    BY DEF EngineOK, QueuesInOrder, InOrder
  <1>2. /\ b = Q[1] /\ b \in Batch /\ 1 \in 1..Len(Q)
        /\ \A i \in 1..Len(Q) : Q[i].id = b.id => i = 1
    BY <1>1, WithoutHead
  <1>3. /\ told' = [w \in Writes |-> IF \E c \in called : c.write = w THEN status ELSE told[w]]
        /\ waiting' = waiting \ {c.write : c \in called}
        /\ callbacks' = [callbacks EXCEPT ![user] = @ \ called]
        /\ waiters' = {x \in waiters : x.id # b.id}
        /\ UNCHANGED <<user, nextId, issued>>
    BY DEF BatchDone
  <1>4. /\ \A v \in Users : \A i \in 1..Len(queue'[v]) :
             LET k == IF v = user THEN i + 1 ELSE i
             IN k \in 1..Len(queue[v]) /\ queue'[v][i] = queue[v][k]
        /\ \A v \in Users : \A k \in 1..Len(queue[v]) :
             \/ v = user /\ k = 1
             \/ LET i == IF v = user THEN k - 1 ELSE k
                IN i \in 1..Len(queue'[v]) /\ queue'[v][i] = queue[v][k]
        /\ queue' \in [Users -> Seq(Batch)]
    BY QueueAfterDone
  <1>5. ASSUME NEW u \in Users, NEW c \in callbacks[u]
        PROVE  \E k \in 1..Len(queue[u]) : c = queue[u][k]
    <2>1. c \in ToSet(queue[u]) /\ queue[u] \in Seq(Batch)
      BY DEF EngineOK, CallersInformed, CallersRegistered
    <2> QED
      BY <2>1, LenProperties DEF ToSet
  <1>6. called \subseteq {b}
    BY <1>1, <1>2, <1>5
  <1>7. b.write \in IF status = "ok" THEN applied' ELSE refused'
    OBVIOUS
  <1> HIDE DEF b
  <1>8. ToldTheTruth'
    <2> SUFFICES ASSUME NEW w \in Writes
                 PROVE  /\ told'[w] = "ok" => w \in applied'
                        /\ told'[w] = "error" => w \in refused'
      BY DEF ToldTheTruth
    <2>1. CASE \E c \in called : c.write = w
      BY <2>1, <1>3, <1>6, <1>7
    <2>2. CASE ~\E c \in called : c.write = w
      BY <2>2, <1>3 DEF EngineOK, CallersInformed, ToldTheTruth
    <2> QED
      BY <2>1, <2>2
  <1>9. ASSUME NEW u \in Users, NEW c \in callbacks'[u] PROVE c \in ToSet(queue'[u])
    <2>1. c \in callbacks[u] /\ (u = user => c.id # b.id)
      BY <1>1, <1>3 DEF EngineOK
    <2>2. PICK k \in 1..Len(queue[u]) : c = queue[u][k]
      BY <2>1, <1>5
    <2>3. ~(u = user /\ k = 1)
      BY <2>1, <2>2, <1>2
    <2>4. \E i \in 1..Len(queue'[u]) : queue'[u][i] = c
      BY <2>2, <2>3, <1>4
    <2>5. DOMAIN queue'[u] = 1..Len(queue'[u])
      BY <1>4, LenProperties
    <2> QED
      BY <2>4, <2>5 DEF ToSet
  <1>10. waiting' = UNION {{c.write : c \in callbacks'[u]} : u \in Users}
    <2>1. waiting = UNION {{c.write : c \in callbacks[u]} : u \in Users}
      BY DEF EngineOK, CallersInformed, CallersRegistered
    <2>2. \A u \in Users : callbacks'[u] = IF u = user THEN callbacks[u] \ called ELSE callbacks[u]
      BY <1>1, <1>3 DEF EngineOK
    <2>3. ASSUME NEW x \in waiting' PROVE \E u \in Users : \E c \in callbacks'[u] : x = c.write
      <3>1. PICK u \in Users : \E c \in callbacks[u] : x = c.write
        BY <2>1, <2>3, <1>3
      <3>2. PICK c \in callbacks[u] : x = c.write
        BY <3>1
      <3>3. c \notin called
        BY <2>3, <3>2, <1>3
      <3> QED
        BY <3>2, <3>3, <2>2
    <2>4. ASSUME NEW u \in Users, NEW c \in callbacks'[u] PROVE c.write \in waiting'
      <3>1. c \in callbacks[u]
        BY <2>2
      <3>2. c.write \in waiting
        BY <3>1, <2>1
      <3>3. ASSUME NEW d \in called, d.write = c.write PROVE FALSE
        <4>1. d = b /\ d = queue[user][1]
          BY <1>2, <1>6
        <4>2. PICK k \in 1..Len(queue[u]) : c = queue[u][k]
          BY <3>1, <1>5
        <4>3. queue[u][k].write \in ToSet(issued[u]) /\ queue[user][1].write \in ToSet(issued[user])
          BY <1>1, <1>2 DEF EngineOK, WritesQueuedOnce
        <4>4. PICK i \in 1..Len(issued[u]) : issued[u][i] = c.write
          BY <4>2, <4>3, LenProperties DEF ToSet, EngineOK
        <4>5. PICK j \in 1..Len(issued[user]) : issued[user][j] = c.write
          BY <4>1, <4>3, <3>3, <1>1, LenProperties DEF ToSet, EngineOK
        <4>6. u = user
          BY <4>4, <4>5, <1>1 DEF EngineOK, WritesQueuedOnce
        <4>7. k = 1
          BY <4>1, <4>2, <4>6, <3>3, <1>1, <1>2 DEF EngineOK, WritesQueuedOnce
        <4>8. c \in called
          BY <4>1, <4>2, <4>6, <4>7
        <4> QED
          BY <4>6, <4>8, <2>2
      <3> QED
        BY <3>2, <3>3, <1>3
    <2> QED
      BY <2>3, <2>4
  <1> HIDE DEF called, Q
  <1>11. NothingLost'
    <2> SUFFICES ASSUME NEW u \in Users, NEW i \in 1..Len(issued[u])
                 PROVE  \/ issued[u][i] \in applied' \cup refused'
                        \/ \E k \in 1..Len(queue'[u]) : queue'[u][k].write = issued[u][i]
      BY <1>3 DEF NothingLost
    <2>1. CASE issued[u][i] \in applied \cup refused
      BY <2>1
    <2>2. CASE \E k \in 1..Len(queue[u]) : queue[u][k].write = issued[u][i]
      <3>1. PICK k \in 1..Len(queue[u]) : queue[u][k].write = issued[u][i]
        BY <2>2
      <3>2. CASE u = user /\ k = 1
        BY <3>1, <3>2, <1>2, <1>7 DEF Q
      <3>3. CASE \E j \in 1..Len(queue'[u]) : queue'[u][j] = queue[u][k]
        BY <3>1, <3>3
      <3> QED
        BY <3>2, <3>3, <1>4
    <2> QED
      BY <2>1, <2>2 DEF EngineOK, NothingLost
  <1>12. QueuesInOrder'
    <2>1. ASSUME NEW u \in Users, NEW i \in 1..Len(queue'[u]) PROVE queue'[u][i].id < nextId'
      BY <1>3, <1>4 DEF EngineOK, QueuesInOrder
    <2>2. ASSUME NEW u \in Users, NEW i \in 1..Len(queue'[u]), NEW j \in 1..Len(queue'[u]), i < j
          PROVE  queue'[u][i].id < queue'[u][j].id
      <3>1. CASE u = user
        <4>1. /\ i + 1 \in 1..Len(queue[u]) /\ queue'[u][i] = queue[u][i + 1]
              /\ j + 1 \in 1..Len(queue[u]) /\ queue'[u][j] = queue[u][j + 1]
          BY <3>1, <1>4
        <4> QED
          BY <2>2, <4>1 DEF EngineOK, QueuesInOrder
      <3>2. CASE u # user
        <4>1. /\ i \in 1..Len(queue[u]) /\ queue'[u][i] = queue[u][i]
              /\ j \in 1..Len(queue[u]) /\ queue'[u][j] = queue[u][j]
          BY <3>2, <1>4
        <4> QED
          BY <2>2, <4>1 DEF EngineOK, QueuesInOrder
      <3> QED
        BY <3>1, <3>2
    <2> QED
      BY <2>1, <2>2 DEF QueuesInOrder
  <1>13. WritesQueuedOnce'
    <2>1. ASSUME NEW u \in Users, NEW i \in 1..Len(queue'[u])
          PROVE  queue'[u][i].write \in ToSet(issued'[u])
      <3>1. \E k \in 1..Len(queue[u]) : queue'[u][i] = queue[u][k]
        BY <1>4
      <3>2. issued' = issued
        BY <1>3
      <3> QED
        BY <3>1, <3>2 DEF EngineOK, WritesQueuedOnce
    <2>2. ASSUME NEW u \in Users, NEW i \in 1..Len(queue'[u]), NEW j \in 1..Len(queue'[u]),
                 queue'[u][i].write = queue'[u][j].write
          PROVE  i = j
      <3>1. CASE u = user
        <4>1. /\ i + 1 \in 1..Len(queue[u]) /\ queue'[u][i] = queue[u][i + 1]
              /\ j + 1 \in 1..Len(queue[u]) /\ queue'[u][j] = queue[u][j + 1]
          BY <3>1, <1>4
        <4>2. i + 1 = j + 1
          BY <2>2, <4>1 DEF EngineOK, WritesQueuedOnce
        <4> QED
          BY <4>2
      <3>2. CASE u # user
        <4>1. /\ i \in 1..Len(queue[u]) /\ queue'[u][i] = queue[u][i]
              /\ j \in 1..Len(queue[u]) /\ queue'[u][j] = queue[u][j]
          BY <3>2, <1>4
        <4> QED
          BY <2>2, <4>1 DEF EngineOK, WritesQueuedOnce
      <3> QED
        BY <3>1, <3>2
    <2>3. \A u, v \in Users : \A i \in 1..Len(issued'[u]), j \in 1..Len(issued'[v]) :
            issued'[u][i] = issued'[v][j] => u = v /\ i = j
      BY <1>3 DEF EngineOK, WritesQueuedOnce
    <2> QED
      BY <2>1, <2>2, <2>3 DEF WritesQueuedOnce
  <1>14. WaitersKnowLast'
    <2> SUFFICES ASSUME NEW x \in waiters
                 PROVE  /\ x.writes \subseteq ToSet(issued'[user])
                        /\ \A i \in 1..Len(queue'[user]) :
                             queue'[user][i].write \in x.writes => queue'[user][i].id <= x.id
      BY <1>3 DEF WaitersKnowLast
    <2> QED
      BY <1>1, <1>3, <1>4 DEF EngineOK, WaitersKnowLast
  <1>15. /\ callbacks' \in [Users -> SUBSET Batch] /\ waiting' \subseteq Writes
         /\ waiters' \subseteq [id : Nat, writes : SUBSET Writes]
         /\ told' \in [Writes -> {"nothing", "ok", "error"}]
    BY <1>1, <1>3 DEF EngineOK
  <1>16. CallersInformed'
    BY <1>8, <1>9, <1>10 DEF CallersInformed, CallersRegistered
  <1> QED
    BY <1>3, <1>4, <1>11, <1>12, <1>13, <1>14, <1>15, <1>16 DEF EngineOK

\* Behind the batch a waiter waits for there is none of its writes.
LEMMA WaiterSeesAllDone ==
  ASSUME EngineOK, queue[user] # <<>>, NEW status, BatchDone(Head(queue[user]), status),
         NEW x \in waiters \ waiters'
  PROVE  x.writes \cap ToSet(WritesOf(queue'[user])) = {}
  <1> DEFINE Q == queue[user]
  <1>1. user \in Users /\ Q \in Seq(Batch) /\ InOrder(Q) /\ Q # <<>>
    BY DEF EngineOK, QueuesInOrder, InOrder
  <1>2. Head(Q) = Q[1] /\ 1 \in 1..Len(Q)
    BY <1>1, WithoutHead
  <1>3. x.id = Q[1].id
    BY <1>2 DEF BatchDone
  <1>4. ASSUME NEW i \in 1..Len(queue'[user]) PROVE queue'[user][i].write \notin x.writes
    <2>1. i + 1 \in 1..Len(Q) /\ queue'[user][i] = Q[i + 1]
      BY <1>1, QueueAfterDone
    <2>2. Q[1].id < Q[i + 1].id
      BY <2>1, <1>1, <1>2 DEF InOrder
    <2>3. Q[1] \in Batch /\ Q[i + 1] \in Batch
      BY <2>1, <1>1, <1>2, ElementOfSeq
    <2>4. ~(Q[i + 1].id <= x.id)
      BY <2>2, <2>3, <1>3 DEF Batch
    <2> QED
      BY <2>1, <2>4 DEF EngineOK, WaitersKnowLast
  <1>5. queue'[user] \in Seq(Batch)
    BY <1>1, QueueAfterDone
  <1> QED
    BY <1>4, <1>5, SetOfWrites

-----------------------------------------------------------------------------
(* RemoteStore.                                                            *)

LEMMA EmptyWire ==
  /\ <<>> \in Seq(Batch) /\ <<>> \in Seq(Writes \cup {"handshake"})
  /\ Len(<<>>) = 0 /\ WritesOf(<<>>) = <<>>
  BY EmptySeq, WritesOfProperties

\* Once the pipeline has been filled up from a head P of the user's queue, with
\* a stream s that fits P, RemoteStore is in order.
LEMMA AfterFill ==
  ASSUME enabled' = "yes", user' \in Users, queue' \in [Users -> Seq(Batch)], QueuesInOrder',
         NEW P \in Seq(Batch), Len(P) <= Len(queue'[user']), Len(P) <= MaxPending,
         \A i \in 1..Len(P) : P[i] = queue'[user'][i],
         NEW s, Sound(s), s.idle = "scheduled" => P = <<>>,
         NEW W \in Seq(Writes \cup {"handshake"}),
         IsOpen(s) => W = Wire(P), ~IsOpen(s) => W = <<>>,
         IsStarted(s) /\ handshake' = "no" => P # <<>>,
         handshake \in {"yes", "no"}, handshake' = IF IsOpen(s) THEN handshake ELSE "no",
         acks' \in 0..Len(W), \A i \in 1..acks' : W[i] \in applied' \cup {"handshake"},
         Fill(P, queue'[user'], s, W)
  PROVE  RemoteOK'
  <1> DEFINE Q == queue'[user']
  <1>1. Q \in Seq(Batch) /\ InOrder(Q)
    BY DEF QueuesInOrder, InOrder
  <1>2. IsOpen(s) /\ handshake # "yes" => P # <<>>
    BY DEF IsOpen, IsStarted
  <1>3. /\ pipeline' = Take(Q, MaxPending)
        /\ Sound(stream') /\ (stream'.idle = "scheduled" => pipeline' = <<>>)
        /\ pipeline' # <<>> => IsStarted(stream')
        /\ IsStarted(stream') => IsStarted(s) \/ pipeline' # <<>>
        /\ P # <<>> => pipeline' # <<>>
        /\ IsOpen(stream') <=> IsOpen(s)
        /\ IsOpen(s) => wire' = IF handshake = "yes" THEN WritesOf(pipeline') ELSE <<"handshake">>
        /\ ~IsOpen(s) => wire' = <<>>
        /\ wire' \in Seq(Writes \cup {"handshake"}) /\ Len(W) <= Len(wire')
        /\ \A i \in 1..Len(W) : wire'[i] = W[i]
    BY <1>1, <1>2, FillStep
  <1>4. pipeline' \in Seq(Batch) /\ Len(pipeline') <= MaxPending
    BY <1>1, <1>3, TakeProperties, WriteAssumption, LenProperties
  <1>5. PipelineIsHeadOfQueue'
    BY <1>3 DEF PipelineIsHeadOfQueue
  <1>6. WireIsPipeline'
    BY <1>3 DEF WireIsPipeline
  <1>7. StreamAssertions'
    BY <1>3 DEF StreamAssertions, Sound
  <1>8. AnswersAreTrue'
    <2>1. Len(W) \in Nat
      BY LenProperties
    <2>2. ASSUME NEW i \in 1..acks' PROVE wire'[i] \in applied' \cup {"handshake"}
      <3>1. i \in 1..Len(W)
        BY <2>1
      <3> QED
        BY <3>1, <1>3
    <2> QED
      BY <1>3, <2>2 DEF AnswersAreTrue
  <1>9. acks' \in 0..Len(wire')
    BY <1>3, LenProperties
  <1> QED
    BY <1>3, <1>4, <1>5, <1>6, <1>7, <1>8, <1>9 DEF RemoteOK, Sound

\* A restart fills an empty pipeline, on a stream that is not started.
LEMMA AfterRestart ==
  ASSUME enabled' = "yes", user' \in Users, queue' \in [Users -> Seq(Batch)], QueuesInOrder',
         handshake \in {"yes", "no"}, NEW s, Sound(s), ~IsStarted(s),
         Fill(<<>>, queue'[user'], s, <<>>), handshake' = "no", acks' = 0
  PROVE  RemoteOK'
  <1>1. ~IsOpen(s)
    BY DEF IsOpen, IsStarted
  <1>2. Len(queue'[user']) \in Nat
    BY LenProperties
  <1>3. PICK P \in Seq(Batch) : P = <<>> /\ Len(P) = 0
    BY EmptyWire
  <1>4. PICK W \in Seq(Writes \cup {"handshake"}) : W = <<>> /\ Len(W) = 0
    BY EmptyWire
  <1>5. /\ Len(P) <= Len(queue'[user']) /\ Len(P) <= MaxPending
        /\ \A i \in 1..Len(P) : P[i] = queue'[user'][i]
    BY <1>2, <1>3, WriteAssumption
  <1>6. acks' \in 0..Len(W) /\ \A i \in 1..acks' : W[i] \in applied' \cup {"handshake"}
    BY <1>4
  <1>7. Fill(P, queue'[user'], s, W)
    BY <1>3, <1>4
  <1>8. handshake' = IF IsOpen(s) THEN handshake ELSE "no"
    BY <1>1
  <1> QED
    BY <1>1, <1>3, <1>4, <1>5, <1>6, <1>7, <1>8, AfterFill

\* The pipeline in the user's queue while the network is enabled.
LEMMA PipelineInQueue ==
  ASSUME RemoteOK, EngineOK, enabled = "yes"
  PROVE  /\ queue[user] \in Seq(Batch) /\ InOrder(queue[user]) /\ pipeline \in Seq(Batch)
         /\ Len(pipeline) <= Len(queue[user]) /\ Len(pipeline) <= MaxPending
         /\ \A i \in 1..Len(pipeline) : pipeline[i] = queue[user][i]
         /\ pipeline # <<>> => queue[user] # <<>> /\ Head(pipeline) = Head(queue[user])
  <1>1. queue[user] \in Seq(Batch) /\ InOrder(queue[user]) /\ MaxPending \in Nat
    BY WriteAssumption DEF EngineOK, QueuesInOrder, InOrder
  <1>2. pipeline = Take(queue[user], MaxPending)
    BY DEF RemoteOK, PipelineIsHeadOfQueue
  <1>3. /\ pipeline \in Seq(Batch)
        /\ Len(pipeline) = IF MaxPending < Len(queue[user]) THEN MaxPending ELSE Len(queue[user])
        /\ \A i \in 1..Len(pipeline) : pipeline[i] = queue[user][i]
    BY <1>1, <1>2, TakeProperties
  <1>4. ASSUME pipeline # <<>> PROVE queue[user] # <<>> /\ Head(pipeline) = Head(queue[user])
    <2>1. Len(pipeline) \in Nat \ {0} /\ Len(queue[user]) \in Nat
      BY <1>1, <1>3, <1>4, EmptySeq, LenProperties
    <2>2. Len(queue[user]) # 0 /\ queue[user] # <<>>
      BY <2>1, <1>3, EmptySeq
    <2>3. Head(pipeline) = pipeline[1] /\ Head(queue[user]) = queue[user][1]
      OBVIOUS
    <2> QED
      BY <2>1, <2>2, <2>3, <1>3
  <1> QED
    BY <1>1, <1>3, <1>4, LenProperties

\* Without its first batch the pipeline is the head of what is left of the queue.
LEMMA RestOfPipeline ==
  ASSUME RemoteOK, EngineOK, enabled = "yes", pipeline # <<>>,
         NEW status, BatchDone(Head(pipeline), status)
  PROVE  /\ BatchDone(Head(queue[user]), status) /\ queue[user] # <<>>
         /\ Tail(pipeline) \in Seq(Batch) /\ Len(Tail(pipeline)) <= Len(queue'[user])
         /\ Len(Tail(pipeline)) <= MaxPending
         /\ \A i \in 1..Len(Tail(pipeline)) : Tail(pipeline)[i] = queue'[user][i]
         /\ WritesOf(pipeline) # <<>> /\ WritesOf(pipeline)[1] = Head(pipeline).write
         /\ Head(pipeline).write \in Writes
         /\ WritesOf(Tail(pipeline)) = Tail(WritesOf(pipeline))
  <1>1. /\ queue[user] \in Seq(Batch) /\ pipeline \in Seq(Batch)
        /\ queue[user] # <<>> /\ InOrder(queue[user])
        /\ Len(pipeline) <= Len(queue[user]) /\ Len(pipeline) <= MaxPending
        /\ \A i \in 1..Len(pipeline) : pipeline[i] = queue[user][i]
        /\ Head(pipeline) = Head(queue[user])
    BY PipelineInQueue
  <1>2. BatchDone(Head(queue[user]), status)
    BY <1>1
  <1>3. /\ Tail(pipeline) \in Seq(Batch) /\ Len(Tail(pipeline)) = Len(pipeline) - 1
        /\ \A i \in 1..Len(Tail(pipeline)) : Tail(pipeline)[i] = pipeline[i + 1]
        /\ Head(pipeline) \in Batch /\ Len(pipeline) \in Nat \ {0}
    BY <1>1, HeadTailProperties, EmptySeq
  <1>4. queue'[user] = Tail(queue[user])
    BY <1>1, <1>2, QueueAfterDone DEF EngineOK
  <1>5. /\ Len(Tail(queue[user])) = Len(queue[user]) - 1 /\ Len(queue[user]) \in Nat
        /\ \A i \in 1..Len(Tail(queue[user])) : Tail(queue[user])[i] = queue[user][i + 1]
    BY <1>1, HeadTailProperties, LenProperties
  <1>6. /\ Len(Tail(pipeline)) <= Len(queue'[user]) /\ Len(Tail(pipeline)) <= MaxPending
        /\ \A i \in 1..Len(Tail(pipeline)) : Tail(pipeline)[i] = queue'[user][i]
    BY <1>1, <1>3, <1>4, <1>5, WriteAssumption
  <1>7. /\ WritesOf(pipeline) \in Seq(Writes) /\ Len(WritesOf(pipeline)) = Len(pipeline)
        /\ \A i \in 1..Len(pipeline) : WritesOf(pipeline)[i] = pipeline[i].write
        /\ WritesOf(pipeline) # <<>>
    BY <1>1, WritesOfProperties
  <1>8. WritesOf(pipeline)[1] = Head(pipeline).write /\ Head(pipeline).write \in Writes
    <2>1. Head(pipeline) = pipeline[1]
      OBVIOUS
    <2> QED
      BY <2>1, <1>3, <1>7 DEF Batch
  <1>9. WritesOf(Tail(pipeline)) = Tail(WritesOf(pipeline))
    BY <1>1, WritesOfTail
  <1> QED
    BY <1>1, <1>2, <1>3, <1>6, <1>7, <1>8, <1>9

\* A stream that is started belongs to an enabled network.
LEMMA StartedIsEnabled ==
  ASSUME RemoteOK
  PROVE  /\ Sound(stream) /\ (IsOpen(stream) => IsStarted(stream))
         /\ IsStarted(stream) => enabled = "yes"
         /\ IsOpen(stream) => wire = Wire(pipeline)
         /\ ~IsOpen(stream) => wire = <<>> /\ acks = 0 /\ handshake = "no"
         /\ acks > 0 => IsOpen(stream)
  <1>1. Sound(stream) /\ (IsOpen(stream) => IsStarted(stream))
    BY DEF RemoteOK, StreamAssertions, Sound, IsOpen, IsStarted
  <1>2. IsStarted(stream) => enabled = "yes"
    BY DEF RemoteOK, PipelineIsHeadOfQueue
  <1>3. IsOpen(stream) => wire = Wire(pipeline)
    BY DEF RemoteOK, WireIsPipeline, Wire
  <1>4. ~IsOpen(stream) => wire = <<>> /\ acks = 0 /\ handshake = "no"
    BY EmptyWire DEF RemoteOK, AnswersAreTrue, StreamAssertions
  <1> QED
    BY <1>1, <1>2, <1>3, <1>4

\* Closing and starting again keeps the pipeline, and forgets what was on the way.
LEMMA RetryStep ==
  ASSUME RemoteOK, EngineOK, IsStarted(stream), NEW s, Sound(s), ~IsStarted(s),
         s.idle = "none", Retry(s)
  PROVE  RemoteOK' /\ EngineOK'
  <1>1. enabled = "yes"
    BY StartedIsEnabled
  <1>2. /\ wire' = <<>> /\ acks' = 0 /\ handshake' = "no"
        /\ UNCHANGED <<enabled, pipeline, queue, user, applied, refused>> /\ UNCHANGED local
    BY DEF Retry, local, server
  <1>3. /\ Sound(stream') /\ ~IsOpen(stream') /\ stream'.idle = "none"
        /\ (pipeline # <<>> <=> IsStarted(stream'))
    BY StartSound DEF Retry, IsOpen, IsStarted
  <1>4. PipelineIsHeadOfQueue' /\ WireIsPipeline' /\ StreamAssertions' /\ AnswersAreTrue'
    BY <1>1, <1>2, <1>3 DEF RemoteOK, PipelineIsHeadOfQueue, WireIsPipeline, StreamAssertions,
                           AnswersAreTrue, Sound
  <1>5. RemoteOK'
    BY <1>2, <1>3, <1>4, EmptyWire DEF RemoteOK, Sound
  <1>6. EngineOK'
    BY <1>2, EngineUnchanged DEF EngineOK
  <1> QED
    BY <1>5, <1>6

LEMMA WriteMutationsStep ==
  ASSUME IInv, NEW w \in Writes, WriteMutations(w)
  PROVE  IInv'
  <1>1. RemoteOK /\ EngineOK /\ EngineOK'
    BY IInvParts, WriteKeepsEngine
  <1>2. UNCHANGED <<enabled, user, handshake, acks, applied>>
    BY DEF WriteMutations, server
  <1>3. CASE enabled = "yes" /\ Fill(pipeline, queue'[user], stream, wire)
    <2>1. /\ queue[user] \in Seq(Batch) /\ pipeline \in Seq(Batch)
          /\ Len(pipeline) <= Len(queue[user]) /\ Len(pipeline) <= MaxPending
          /\ \A i \in 1..Len(pipeline) : pipeline[i] = queue[user][i]
      BY <1>1, <1>3, PipelineInQueue
    <2>2. /\ Len(queue'[user]) = Len(queue[user]) + 1
          /\ \A i \in 1..Len(queue[user]) : queue'[user][i] = queue[user][i]
      <3> DEFINE batch == [id |-> nextId, write |-> w]
      <3>1. batch \in Batch /\ queue'[user] = Append(queue[user], batch)
        BY <1>1 DEF WriteMutations, EngineOK, Batch
      <3> HIDE DEF batch
      <3> QED
        BY <2>1, <3>1, AppendProperties
    <2>3. /\ Len(pipeline) <= Len(queue'[user])
          /\ \A i \in 1..Len(pipeline) : pipeline[i] = queue'[user][i]
      BY <2>1, <2>2, LenProperties
    <2>4. user' \in Users /\ queue' \in [Users -> Seq(Batch)] /\ QueuesInOrder'
      BY <1>1 DEF EngineOK
    <2>5. /\ wire \in Seq(Writes \cup {"handshake"}) /\ acks \in 0..Len(wire)
          /\ \A i \in 1..acks : wire[i] \in applied \cup {"handshake"}
          /\ handshake \in {"yes", "no"}
          /\ IsStarted(stream) /\ handshake = "no" => pipeline # <<>>
          /\ stream.idle = "scheduled" => pipeline = <<>>
      BY <1>1 DEF RemoteOK, AnswersAreTrue, StreamAssertions
    <2>6. RemoteOK'
      BY <1>1, <1>2, <1>3, <2>1, <2>3, <2>4, <2>5, StartedIsEnabled, AfterFill
    <2> QED
      BY <1>1, <2>6, IInvParts
  <1>4. CASE enabled = "no" /\ UNCHANGED <<pipeline, stream, wire>>
    <2>1. PipelineIsHeadOfQueue' /\ WireIsPipeline' /\ StreamAssertions' /\ AnswersAreTrue'
      BY <1>1, <1>2, <1>4 DEF RemoteOK, PipelineIsHeadOfQueue, WireIsPipeline, StreamAssertions,
                             AnswersAreTrue
    <2>2. RemoteOK'
      BY <1>1, <1>2, <1>4, <2>1 DEF RemoteOK
    <2> QED
      BY <1>1, <2>2, IInvParts
  <1> QED
    BY <1>3, <1>4 DEF WriteMutations

LEMMA WaitForPendingWritesStep ==
  ASSUME IInv, WaitForPendingWrites
  PROVE  IInv'
  <1>1. RemoteOK /\ EngineOK /\ EngineOK'
    BY IInvParts, WaitKeepsEngine
  <1>2. UNCHANGED <<enabled, user, queue, pipeline, stream, handshake, wire, acks, applied>>
    BY DEF WaitForPendingWrites, server
  <1>3. RemoteOK'
    BY <1>1, <1>2 DEF RemoteOK, PipelineIsHeadOfQueue, WireIsPipeline, StreamAssertions, AnswersAreTrue
  <1> QED
    BY <1>1, <1>3, IInvParts

LEMMA EnableNetworkStep ==
  ASSUME IInv, EnableNetwork
  PROVE  IInv'
  <1>1. RemoteOK /\ EngineOK
    BY IInvParts
  <1>2. /\ enabled' = "yes" /\ Fill(pipeline, queue[user], stream, wire)
        /\ UNCHANGED local /\ UNCHANGED <<user, queue, handshake, acks, applied, refused>>
    BY DEF EnableNetwork, local, server
  <1>3. EngineOK'
    BY <1>1, <1>2, EngineUnchanged DEF EngineOK
  <1>4. /\ pipeline \in Seq(Batch) /\ Len(pipeline) <= MaxPending
        /\ Len(pipeline) <= Len(queue[user])
        /\ \A i \in 1..Len(pipeline) : pipeline[i] = queue[user][i]
    <2>1. CASE enabled = "yes"
      BY <1>1, <2>1, PipelineInQueue
    <2>2. CASE enabled = "no"
      <3>1. pipeline = <<>> /\ pipeline \in Seq(Batch) /\ Len(pipeline) = 0
        BY <1>1, <2>2, EmptyWire DEF RemoteOK, PipelineIsHeadOfQueue
      <3>2. Len(queue[user]) \in Nat
        BY <1>1, LenProperties DEF EngineOK
      <3> QED
        BY <3>1, <3>2, WriteAssumption
    <2> QED
      BY <1>1, <2>1, <2>2 DEF RemoteOK
  <1>5. /\ wire \in Seq(Writes \cup {"handshake"}) /\ acks \in 0..Len(wire)
        /\ \A i \in 1..acks : wire[i] \in applied \cup {"handshake"}
        /\ handshake \in {"yes", "no"}
        /\ IsStarted(stream) /\ handshake = "no" => pipeline # <<>>
        /\ stream.idle = "scheduled" => pipeline = <<>>
    BY <1>1 DEF RemoteOK, AnswersAreTrue, StreamAssertions
  <1>6. user' \in Users /\ queue' \in [Users -> Seq(Batch)] /\ QueuesInOrder'
    BY <1>3 DEF EngineOK
  <1>7. RemoteOK'
    BY <1>1, <1>2, <1>4, <1>5, <1>6, StartedIsEnabled, AfterFill
  <1> QED
    BY <1>3, <1>7, IInvParts

LEMMA DisableNetworkStep ==
  ASSUME IInv, DisableNetwork
  PROVE  IInv'
  <1>1. RemoteOK /\ EngineOK
    BY IInvParts
  <1>2. /\ enabled' = "no" /\ stream' = Stop(stream) /\ pipeline' = <<>>
        /\ handshake' = "no" /\ wire' = <<>> /\ acks' = 0
        /\ UNCHANGED local /\ UNCHANGED <<user, queue, applied, refused>>
    BY DEF DisableNetwork, local, server
  <1>3. Sound(stream') /\ ~IsStarted(stream') /\ ~IsOpen(stream')
    BY <1>1, <1>2, StartedIsEnabled, StopSound DEF IsOpen, IsStarted
  <1>4. PipelineIsHeadOfQueue' /\ WireIsPipeline' /\ StreamAssertions' /\ AnswersAreTrue'
    BY <1>2, <1>3 DEF PipelineIsHeadOfQueue, WireIsPipeline, StreamAssertions, AnswersAreTrue, Sound
  <1>5. RemoteOK'
    BY <1>2, <1>3, <1>4, EmptyWire, WriteAssumption DEF RemoteOK, Sound
  <1>6. EngineOK'
    BY <1>1, <1>2, EngineUnchanged DEF EngineOK
  <1> QED
    BY <1>5, <1>6, IInvParts

\* The stream of a restarted network is sound and not started.
LEMMA RestartedNetwork ==
  ASSUME RemoteOK, enabled = "yes", enabled' = "yes", EngineOK', RestartNetwork(queue'[user'])
  PROVE  RemoteOK'
  <1> DEFINE s == InhibitBackoff(Stop(stream))
  <1>1. Sound(s) /\ ~IsStarted(s)
    BY StartedIsEnabled, StopSound, InhibitBackoffSound
  <1>2. Fill(<<>>, queue'[user'], s, <<>>) /\ handshake' = "no" /\ acks' = 0
    BY DEF RestartNetwork
  <1>3. user' \in Users /\ queue' \in [Users -> Seq(Batch)] /\ QueuesInOrder'
    BY DEF EngineOK
  <1>4. handshake \in {"yes", "no"}
    BY DEF RemoteOK
  <1> HIDE DEF s
  <1> QED
    BY <1>1, <1>2, <1>3, <1>4, AfterRestart

LEMMA ConnectivityChangedStep ==
  ASSUME IInv, ConnectivityChanged
  PROVE  IInv'
  <1>1. RemoteOK /\ EngineOK
    BY IInvParts
  <1>2. /\ enabled = "yes" /\ enabled' = "yes" /\ RestartNetwork(queue'[user'])
        /\ UNCHANGED local /\ UNCHANGED <<applied, refused>>
    BY DEF ConnectivityChanged, RestartNetwork, local, server
  <1>3. EngineOK'
    BY <1>1, <1>2, EngineUnchanged DEF EngineOK
  <1> QED
    BY <1>1, <1>2, <1>3, RestartedNetwork, IInvParts

LEMMA HandleCredentialChangeStep ==
  ASSUME IInv, NEW u \in Users, HandleCredentialChange(u)
  PROVE  IInv'
  <1>1. RemoteOK /\ EngineOK
    BY IInvParts
  <1>2. /\ user' = u /\ waiters' = {} /\ nextId' = LoadNextBatchIdFromDb
        /\ UNCHANGED <<queue, callbacks, issued, told, waiting, applied, refused, enabled>>
    BY DEF HandleCredentialChange, RestartNetwork, server
  <1>3. EngineOK'
    BY <1>1, <1>2, CredentialChangeKeepsEngine
  <1>4. CASE enabled = "yes" /\ RestartNetwork(queue[u])
    BY <1>1, <1>2, <1>3, <1>4, RestartedNetwork, IInvParts
  <1>5. CASE enabled = "no" /\ UNCHANGED <<enabled, pipeline, stream, handshake, wire, acks, server>>
    <2>1. PipelineIsHeadOfQueue' /\ WireIsPipeline' /\ StreamAssertions' /\ AnswersAreTrue'
      BY <1>1, <1>2, <1>5 DEF RemoteOK, PipelineIsHeadOfQueue, WireIsPipeline, StreamAssertions,
                             AnswersAreTrue
    <2>2. RemoteOK'
      BY <1>1, <1>5, <2>1 DEF RemoteOK
    <2> QED
      BY <1>3, <2>2, IInvParts
  <1> QED
    BY <1>4, <1>5 DEF HandleCredentialChange

LEMMA CrashStep ==
  ASSUME IInv, Crash
  PROVE  IInv'
  <1>1. RemoteOK /\ EngineOK
    BY IInvParts
  <1>2. /\ enabled' = "yes" /\ user' = user /\ waiters' = {} /\ nextId' = LoadNextBatchIdFromDb
        /\ UNCHANGED <<queue, issued, told, applied, refused>>
        /\ callbacks' = [v \in Users |-> {}] /\ waiting' = {}
        /\ Fill(<<>>, queue'[user'], NewStream, <<>>) /\ handshake' = "no" /\ acks' = 0
    BY DEF Crash, server
  <1>3. EngineOK'
    BY <1>1, <1>2, CredentialChangeKeepsEngine DEF EngineOK
  <1>4. Sound(NewStream) /\ ~IsStarted(NewStream)
    BY DEF Sound, NewStream, StreamState, CallbacksFindState, IsStarted
  <1>5. /\ user' \in Users /\ queue' \in [Users -> Seq(Batch)] /\ QueuesInOrder'
        /\ handshake \in {"yes", "no"}
    BY <1>1, <1>3 DEF EngineOK, RemoteOK
  <1>6. RemoteOK'
    BY <1>2, <1>4, <1>5, AfterRestart
  <1> QED
    BY <1>3, <1>6, IInvParts

-----------------------------------------------------------------------------
(* Callbacks of credentials, timers and the server.                        *)

\* Handlers that only move the stream on leave the rest of the invariant alone.
LEMMA StreamMoves ==
  ASSUME RemoteOK, EngineOK, UNCHANGED <<enabled, pipeline, handshake, wire, acks>>,
         UNCHANGED local, UNCHANGED server, Sound(stream'),
         IsOpen(stream') <=> IsOpen(stream), IsStarted(stream') <=> IsStarted(stream),
         stream'.idle = "scheduled" => pipeline = <<>>
  PROVE  RemoteOK' /\ EngineOK'
  <1>1. EngineOK'
    BY EngineUnchanged DEF EngineOK, server
  <1>2. PipelineIsHeadOfQueue' /\ WireIsPipeline' /\ StreamAssertions' /\ AnswersAreTrue'
    BY DEF RemoteOK, PipelineIsHeadOfQueue, WireIsPipeline, StreamAssertions, AnswersAreTrue,
           Sound, local, server
  <1> QED
    BY <1>1, <1>2 DEF RemoteOK, Sound

LEMMA ResumeStartWithCredentialsStep ==
  ASSUME IInv, ResumeStartWithCredentials
  PROVE  IInv'
  <1>1. RemoteOK /\ EngineOK
    BY IInvParts
  <1>2. /\ "current" \in stream.tokens /\ stream' = Write(Opened(stream))
        /\ wire' = <<"handshake">> /\ UNCHANGED local /\ UNCHANGED server
        /\ UNCHANGED <<enabled, pipeline, handshake, acks, user, queue, applied, refused>>
    BY DEF ResumeStartWithCredentials, local, server
  <1>3. IsStarted(stream) /\ ~IsOpen(stream) /\ Sound(Opened(stream)) /\ IsOpen(Opened(stream))
    BY <1>1, <1>2, StartedIsEnabled, OpenedSound
  <1>4. Sound(stream') /\ IsOpen(stream') /\ IsStarted(stream') /\ stream'.idle = "none"
    BY <1>2, <1>3, WriteSound DEF IsOpen, IsStarted
  <1>5. enabled = "yes" /\ wire = <<>> /\ acks = 0 /\ handshake = "no" /\ pipeline # <<>>
    BY <1>1, <1>3, StartedIsEnabled DEF RemoteOK, AnswersAreTrue
  <1>6. PipelineIsHeadOfQueue' /\ WireIsPipeline' /\ StreamAssertions' /\ AnswersAreTrue'
    BY <1>1, <1>2, <1>4, <1>5 DEF RemoteOK, PipelineIsHeadOfQueue, WireIsPipeline,
       StreamAssertions, AnswersAreTrue, Sound
  <1>7. wire' \in Seq(Writes \cup {"handshake"}) /\ acks' \in 0..Len(wire')
    BY <1>2, <1>5
  <1>8. RemoteOK'
    BY <1>1, <1>2, <1>4, <1>6, <1>7 DEF RemoteOK, Sound
  <1>9. EngineOK'
    BY <1>1, <1>2, EngineUnchanged DEF EngineOK
  <1> QED
    BY <1>8, <1>9, IInvParts

LEMMA CredentialsFailStep ==
  ASSUME IInv, CredentialsFail
  PROVE  IInv'
  <1>1. RemoteOK /\ EngineOK
    BY IInvParts
  <1>2. stream \in StreamState /\ IsStarted(stream)
    BY <1>1, StartedIsEnabled DEF CredentialsFail, Sound, CallbacksFindState, IsStarted
  <1> QED
    BY <1>1, <1>2, TokenTakenSound, RetryStep, IInvParts DEF CredentialsFail

LEMMA CredentialsLateStep ==
  ASSUME IInv, CredentialsLate
  PROVE  IInv'
  <1>1. RemoteOK /\ EngineOK
    BY IInvParts
  <1>2. /\ Sound(stream') /\ stream'.state = stream.state /\ stream'.idle = stream.idle
    BY <1>1, StartedIsEnabled, TokenIgnoredSound DEF CredentialsLate
  <1>3. stream.idle = "scheduled" => pipeline = <<>>
    BY <1>1 DEF RemoteOK, StreamAssertions
  <1> QED
    BY <1>1, <1>2, <1>3, StreamMoves, IInvParts DEF CredentialsLate, IsOpen, IsStarted, server

LEMMA BackoffElapsedStep ==
  ASSUME IInv, BackoffElapsed
  PROVE  IInv'
  <1>1. RemoteOK /\ EngineOK
    BY IInvParts
  <1> QED
    BY <1>1, StartedIsEnabled, RestartedSound, StreamMoves, IInvParts DEF BackoffElapsed, server

LEMMA IdleTimeoutStep ==
  ASSUME IInv, IdleTimeout
  PROVE  IInv'
  <1>1. RemoteOK /\ EngineOK
    BY IInvParts
  <1>2. /\ handshake' = "no" /\ wire' = <<>> /\ acks' = 0
        /\ UNCHANGED local /\ UNCHANGED <<enabled, pipeline, user, queue, applied, refused>>
    BY DEF IdleTimeout, local, server
  <1>3. IsOpen(stream) /\ pipeline = <<>>
    BY <1>1 DEF IdleTimeout, RemoteOK, StreamAssertions, CallbacksFindState, IsOpen
  <1>4. enabled = "yes" /\ Sound(stream') /\ ~IsStarted(stream') /\ ~IsOpen(stream')
    BY <1>1, <1>3, StartedIsEnabled, CloseSound DEF IdleTimeout, IsOpen, IsStarted
  <1>5. PipelineIsHeadOfQueue'
    BY <1>1, <1>2, <1>3, <1>4 DEF RemoteOK, PipelineIsHeadOfQueue
  <1>6. WireIsPipeline' /\ StreamAssertions' /\ AnswersAreTrue'
    BY <1>2, <1>3, <1>4 DEF WireIsPipeline, StreamAssertions, AnswersAreTrue, Sound
  <1>7. wire' \in Seq(Writes \cup {"handshake"}) /\ acks' \in 0..Len(wire')
    BY <1>2, EmptyWire
  <1>8. RemoteOK'
    BY <1>1, <1>2, <1>4, <1>5, <1>6, <1>7 DEF RemoteOK, Sound
  <1>9. EngineOK'
    BY <1>1, <1>2, EngineUnchanged DEF EngineOK
  <1> QED
    BY <1>8, <1>9, IInvParts

LEMMA OnStreamFinishStep ==
  ASSUME IInv, OnStreamFinish
  PROVE  IInv'
  <1>1. RemoteOK /\ EngineOK
    BY IInvParts
  <1>2. Sound(stream) /\ IsStarted(stream)
    BY <1>1, StartedIsEnabled DEF OnStreamFinish
  <1> QED
    BY <1>1, <1>2, CloseSound, RetryStep, IInvParts DEF OnStreamFinish

LEMMA ServerAppliesStep ==
  ASSUME IInv, ServerApplies
  PROVE  IInv'
  <1>1. RemoteOK /\ EngineOK
    BY IInvParts
  <1>2. /\ acks < Len(wire) /\ acks' = acks + 1
        /\ applied' = applied \cup ({wire[acks + 1]} \ {"handshake"})
        /\ UNCHANGED local
        /\ UNCHANGED <<enabled, user, queue, pipeline, stream, handshake, wire, refused>>
    BY DEF ServerApplies, local
  <1>3. acks + 1 \in 1..Len(wire) /\ wire[acks + 1] \in Writes \cup {"handshake"}
    <2>1. acks + 1 \in 1..Len(wire) /\ wire \in Seq(Writes \cup {"handshake"})
      BY <1>1, <1>2, LenProperties DEF RemoteOK
    <2> QED
      BY <2>1, ElementOfSeq
  <1>4. applied \subseteq applied' /\ applied' \subseteq Writes /\ refused' \subseteq Writes
    BY <1>1, <1>2, <1>3 DEF EngineOK
  <1>5. EngineOK'
    BY <1>1, <1>2, <1>4, EngineUnchanged
  <1>6. \A i \in 1..acks' : wire'[i] \in applied' \cup {"handshake"}
    <2> SUFFICES ASSUME NEW i \in 1..(acks + 1)
                 PROVE  wire[i] \in applied' \cup {"handshake"}
      BY <1>2
    <2>1. CASE i = acks + 1
      BY <2>1, <1>2
    <2>2. CASE i \in 1..acks
      BY <2>2, <1>1, <1>4 DEF RemoteOK, AnswersAreTrue
    <2>3. i = acks + 1 \/ i \in 1..acks
      BY <1>1, <1>3 DEF RemoteOK
    <2> QED
      BY <2>1, <2>2, <2>3, Zenon
  <1>7. PipelineIsHeadOfQueue' /\ WireIsPipeline' /\ StreamAssertions' /\ AnswersAreTrue'
    BY <1>1, <1>2, <1>6 DEF RemoteOK, PipelineIsHeadOfQueue, WireIsPipeline, StreamAssertions,
                           AnswersAreTrue
  <1>8. acks' \in 0..Len(wire')
    BY <1>1, <1>2, <1>3 DEF RemoteOK
  <1>9. RemoteOK'
    BY <1>1, <1>2, <1>7, <1>8 DEF RemoteOK
  <1> QED
    BY <1>5, <1>9, IInvParts

LEMMA HandshakeCompleteStep ==
  ASSUME IInv, HandshakeComplete
  PROVE  IInv'
  <1>1. RemoteOK /\ EngineOK
    BY IInvParts
  <1>2. /\ acks > 0 /\ handshake = "no" /\ handshake' = "yes" /\ acks' = acks - 1
        /\ wire' = Tail(wire) \o WritesOf(pipeline)
        /\ stream' = IF pipeline = <<>> THEN stream ELSE Write(stream)
        /\ UNCHANGED local /\ UNCHANGED <<enabled, pipeline, user, queue, applied, refused>>
    BY DEF HandshakeComplete, local, server
  <1>3. Sound(stream) /\ IsOpen(stream) /\ IsStarted(stream) /\ wire = <<"handshake">>
    BY <1>1, <1>2, StartedIsEnabled DEF Wire
  <1>4. acks' = 0
    BY <1>1, <1>2, <1>3 DEF RemoteOK
  <1>5. WritesOf(pipeline) \in Seq(Writes \cup {"handshake"}) /\ Len(WritesOf(pipeline)) \in Nat
    BY <1>1, WritesOfProperties, LenProperties DEF RemoteOK
  <1>6. wire' = WritesOf(pipeline)
    <2>1. Tail(wire) = <<>>
      BY <1>3
    <2> QED
      BY <2>1, <1>2, <1>5, ConcatEmptySeq
  <1>7. Sound(stream') /\ IsOpen(stream') /\ IsStarted(stream')
        /\ (stream'.idle = "scheduled" => pipeline = <<>>)
    BY <1>2, <1>3, WriteSound DEF IsOpen, IsStarted
  <1>8. PipelineIsHeadOfQueue' /\ WireIsPipeline' /\ StreamAssertions' /\ AnswersAreTrue'
    BY <1>1, <1>2, <1>3, <1>4, <1>6, <1>7 DEF RemoteOK, PipelineIsHeadOfQueue, WireIsPipeline,
       StreamAssertions, AnswersAreTrue, Sound
  <1>9. RemoteOK'
    BY <1>1, <1>2, <1>4, <1>5, <1>6, <1>7, <1>8 DEF RemoteOK, Sound
  <1>10. EngineOK'
    BY <1>1, <1>2, EngineUnchanged DEF EngineOK
  <1> QED
    BY <1>9, <1>10, IInvParts

\* An answer to a write is an answer to the first of the pipeline and of the queue.
LEMMA AnswerIsForHead ==
  ASSUME RemoteOK, IsOpen(stream), handshake = "yes", pipeline # <<>>
  PROVE  /\ enabled = "yes" /\ wire = WritesOf(pipeline) /\ wire # <<>>
         /\ Head(wire) = Head(pipeline).write /\ wire[1] = Head(wire)
         /\ Head(wire) \in Writes
  <1>1. enabled = "yes" /\ wire = WritesOf(pipeline) /\ pipeline \in Seq(Batch)
    BY StartedIsEnabled DEF Wire, RemoteOK
  <1>2. /\ WritesOf(pipeline) \in Seq(Writes) /\ WritesOf(pipeline) # <<>>
        /\ Len(pipeline) \in Nat \ {0}
        /\ \A i \in 1..Len(pipeline) : WritesOf(pipeline)[i] = pipeline[i].write
    BY <1>1, WritesOfProperties, EmptySeq
  <1>3. Head(wire) = wire[1] /\ Head(pipeline) = pipeline[1]
    OBVIOUS
  <1>4. Head(wire) \in Writes
    BY <1>1, <1>2, HeadTailProperties
  <1> QED
    BY <1>1, <1>2, <1>3, <1>4

LEMMA MutationResultStep ==
  ASSUME IInv, MutationResult
  PROVE  IInv' /\ pipeline # <<>> /\ Head(pipeline).write \in applied
         /\ enabled = "yes"
  <1>1. RemoteOK /\ EngineOK
    BY IInvParts
  <1>2. /\ acks > 0 /\ handshake = "yes" /\ acks' = acks - 1
        /\ BatchDone(Head(pipeline), "ok")
        /\ Fill(Tail(pipeline), queue'[user], stream, Tail(wire))
        /\ UNCHANGED <<enabled, handshake, applied, refused>>
    BY DEF MutationResult, server
  <1>3. IsOpen(stream) /\ Sound(stream) /\ IsStarted(stream) /\ wire = WritesOf(pipeline)
    BY <1>1, <1>2, StartedIsEnabled DEF Wire
  <1>4. pipeline # <<>>
    <2>1. pipeline = <<>> => Len(wire) = 0
      BY <1>3, EmptyWire
    <2> QED
      BY <2>1, <1>1, <1>2 DEF RemoteOK
  <1>5. /\ enabled = "yes" /\ wire # <<>> /\ wire[1] = Head(pipeline).write
        /\ Head(pipeline).write \in Writes
    BY <1>1, <1>2, <1>3, <1>4, AnswerIsForHead
  <1>6. Head(pipeline).write \in applied
    <2>1. wire[1] \in applied \cup {"handshake"}
      BY <1>1, <1>2 DEF RemoteOK, AnswersAreTrue
    <2> QED
      BY <2>1, <1>5, WriteAssumption
  <1>7. /\ BatchDone(Head(queue[user]), "ok") /\ queue[user] # <<>>
        /\ Tail(pipeline) \in Seq(Batch) /\ Len(Tail(pipeline)) <= Len(queue'[user])
        /\ Len(Tail(pipeline)) <= MaxPending
        /\ \A i \in 1..Len(Tail(pipeline)) : Tail(pipeline)[i] = queue'[user][i]
        /\ WritesOf(Tail(pipeline)) = Tail(wire)
    BY <1>1, <1>2, <1>3, <1>4, <1>5, RestOfPipeline
  <1>8. EngineOK'
    <2>1. Head(queue[user]).write \in applied'
      BY <1>1, <1>2, <1>4, <1>5, <1>6, PipelineInQueue
    <2> QED
      BY <2>1, <1>1, <1>2, <1>7, DoneKeepsEngine DEF EngineOK
  <1>9. /\ Tail(wire) \in Seq(Writes \cup {"handshake"}) /\ acks' \in 0..Len(Tail(wire))
        /\ \A i \in 1..acks' : Tail(wire)[i] \in applied' \cup {"handshake"}
    <2>1. /\ wire \in Seq(Writes \cup {"handshake"}) /\ acks \in 1..Len(wire)
          /\ \A i \in 1..acks : wire[i] \in applied \cup {"handshake"}
      BY <1>1, <1>2 DEF RemoteOK, AnswersAreTrue
    <2>2. /\ Tail(wire) \in Seq(Writes \cup {"handshake"}) /\ Len(Tail(wire)) = Len(wire) - 1
          /\ \A i \in 1..Len(Tail(wire)) : Tail(wire)[i] = wire[i + 1]
      BY <2>1, <1>5, HeadTailProperties
    <2>3. ASSUME NEW i \in 1..acks' PROVE Tail(wire)[i] \in applied' \cup {"handshake"}
      <3>1. i \in 1..Len(Tail(wire)) /\ i + 1 \in 1..acks
        BY <2>1, <2>2, <1>2, LenProperties
      <3> QED
        BY <3>1, <2>1, <2>2, <1>2
    <2> QED
      BY <2>1, <2>2, <2>3, <1>2, LenProperties
  <1>10. /\ user' = user /\ user' \in Users /\ queue' \in [Users -> Seq(Batch)] /\ QueuesInOrder'
    BY <1>8, <1>2 DEF EngineOK, BatchDone
  <1>11. stream.idle = "scheduled" => Tail(pipeline) = <<>>
    BY <1>1, <1>4 DEF RemoteOK, StreamAssertions
  <1>12. RemoteOK'
    BY <1>2, <1>3, <1>5, <1>7, <1>9, <1>10, <1>11, AfterFill DEF Wire
  <1> QED
    BY <1>4, <1>5, <1>6, <1>8, <1>12, IInvParts

LEMMA ServerRefusesStep ==
  ASSUME IInv, ServerRefuses
  PROVE  IInv' /\ enabled = "yes" /\ Head(wire) = Head(pipeline).write
  <1>1. RemoteOK /\ EngineOK
    BY IInvParts
  <1> DEFINE s == InhibitBackoff(Close(stream, FALSE))
  <1>2. /\ IsOpen(stream) /\ handshake = "yes" /\ pipeline # <<>>
        /\ refused' = refused \cup {Head(wire)}
        /\ BatchDone(Head(pipeline), "error")
        /\ Fill(Tail(pipeline), queue'[user], s, <<>>)
        /\ handshake' = "no" /\ acks' = 0
        /\ UNCHANGED <<enabled, applied>>
    BY DEF ServerRefuses
  <1>3. /\ enabled = "yes" /\ wire = WritesOf(pipeline) /\ Head(wire) = Head(pipeline).write
        /\ Head(wire) \in Writes
    BY <1>1, <1>2, AnswerIsForHead
  <1>4. /\ BatchDone(Head(queue[user]), "error") /\ queue[user] # <<>>
        /\ Tail(pipeline) \in Seq(Batch) /\ Len(Tail(pipeline)) <= Len(queue'[user])
        /\ Len(Tail(pipeline)) <= MaxPending
        /\ \A i \in 1..Len(Tail(pipeline)) : Tail(pipeline)[i] = queue'[user][i]
    BY <1>1, <1>2, <1>3, RestOfPipeline
  <1>5. EngineOK'
    <2>1. Head(queue[user]).write \in refused'
      BY <1>1, <1>2, <1>3, PipelineInQueue
    <2>2. refused' \subseteq Writes /\ applied' \subseteq Writes
      BY <1>1, <1>2, <1>3 DEF EngineOK
    <2> QED
      BY <2>1, <2>2, <1>1, <1>2, <1>4, DoneKeepsEngine
  <1>6. Sound(s) /\ ~IsStarted(s) /\ ~IsOpen(s) /\ s.idle = "none"
    <2>1. Sound(Close(stream, FALSE)) /\ ~IsStarted(Close(stream, FALSE))
          /\ Close(stream, FALSE).idle = "none"
      BY <1>1, StartedIsEnabled, CloseSound
    <2> QED
      BY <2>1, InhibitBackoffSound DEF IsOpen, IsStarted
  <1> HIDE DEF s
  <1>7. user' = user /\ user' \in Users /\ queue' \in [Users -> Seq(Batch)] /\ QueuesInOrder'
        /\ handshake \in {"yes", "no"}
    BY <1>1, <1>2, <1>5 DEF EngineOK, BatchDone, RemoteOK
  <1>8. PICK W \in Seq(Writes \cup {"handshake"}) : W = <<>> /\ Len(W) = 0
    BY EmptyWire
  <1>9. acks' \in 0..Len(W) /\ \A i \in 1..acks' : W[i] \in applied' \cup {"handshake"}
    BY <1>2, <1>8
  <1>10. RemoteOK'
    BY <1>2, <1>3, <1>4, <1>6, <1>7, <1>8, <1>9, AfterFill
  <1> QED
    BY <1>3, <1>5, <1>10, IInvParts

-----------------------------------------------------------------------------
LEMMA InitIInv == Init => IInv
  <1> SUFFICES ASSUME Init PROVE IInv
    OBVIOUS
  <1>1. Sound(stream) /\ ~IsStarted(stream) /\ ~IsOpen(stream) /\ stream.idle = "none"
    BY DEF Init, NewStream, Sound, StreamState, CallbacksFindState, IsStarted, IsOpen
  <1>2. /\ user \in Users /\ queue = [u \in Users |-> <<>>] /\ issued = [u \in Users |-> <<>>]
        /\ \A u \in Users : Len(queue[u]) = 0 /\ Len(issued[u]) = 0
    BY EmptyWire DEF Init
  <1>3. EngineOK
    <2>1. CallersInformed
      BY DEF Init, CallersInformed, ToldTheTruth, CallersRegistered
    <2>2. NothingLost /\ QueuesInOrder
      BY <1>2 DEF NothingLost, QueuesInOrder
    <2>3. WritesQueuedOnce
      BY <1>2 DEF WritesQueuedOnce
    <2>4. WaitersKnowLast
      BY DEF Init, WaitersKnowLast
    <2>5. queue \in [Users -> Seq(Batch)] /\ issued \in [Users -> Seq(Writes)]
      BY <1>2
    <2> QED
      BY <2>1, <2>2, <2>3, <2>4, <2>5 DEF Init, EngineOK
  <1>4. RemoteOK
    <2>1. pipeline \in Seq(Batch) /\ wire \in Seq(Writes \cup {"handshake"})
          /\ Len(pipeline) <= MaxPending /\ acks \in 0..Len(wire)
      BY EmptyWire, WriteAssumption DEF Init
    <2>2. PipelineIsHeadOfQueue
      <3>1. Take(queue[user], MaxPending) = <<>>
        <4>1. queue[user] \in Seq(Batch) /\ Len(queue[user]) = 0 /\ MaxPending \in Nat
          BY <1>2, WriteAssumption
        <4>2. Take(queue[user], MaxPending) \in Seq(Batch) /\ Len(Take(queue[user], MaxPending)) = 0
          BY <4>1, TakeProperties
        <4> QED
          BY <4>2, EmptySeq
      <3> QED
        BY <3>1 DEF Init, PipelineIsHeadOfQueue
    <2>3. WireIsPipeline /\ StreamAssertions /\ AnswersAreTrue
      BY <1>1 DEF Init, WireIsPipeline, StreamAssertions, AnswersAreTrue, Sound
    <2> QED
      BY <2>1, <2>2, <2>3, <1>1 DEF Init, RemoteOK, Sound
  <1> QED
    BY <1>3, <1>4, IInvParts

LEMMA StutterStep == ASSUME IInv, UNCHANGED vars PROVE IInv'
  <1>1. RemoteOK /\ EngineOK
    BY IInvParts
  <1>2. RemoteOK'
    BY <1>1 DEF RemoteOK, PipelineIsHeadOfQueue, WireIsPipeline, StreamAssertions, AnswersAreTrue,
                vars, local, server
  <1>3. EngineOK'
    BY <1>1, EngineUnchanged DEF vars, server, EngineOK
  <1> QED
    BY <1>2, <1>3, IInvParts

LEMMA NextIInv == IInv /\ [Next]_vars => IInv'
  <1> SUFFICES ASSUME IInv, [Next]_vars PROVE IInv'
    OBVIOUS
  <1>1. CASE UNCHANGED vars
    BY <1>1, StutterStep
  <1>2. CASE Next
    BY <1>2, WriteMutationsStep, WaitForPendingWritesStep, EnableNetworkStep, DisableNetworkStep,
       HandleCredentialChangeStep, CrashStep, ConnectivityChangedStep,
       ResumeStartWithCredentialsStep, CredentialsFailStep, CredentialsLateStep,
       BackoffElapsedStep, IdleTimeoutStep, ServerAppliesStep, HandshakeCompleteStep,
       MutationResultStep, OnStreamFinishStep, ServerRefusesStep
       DEF Next
  <1> QED
    BY <1>1, <1>2

-----------------------------------------------------------------------------
\* IInv holds in every reachable state: besides the properties below, the order and
\* uniqueness of the queued batches, and the truth of what is on the way.
THEOREM Invariance == Spec => []IInv
  BY InitIInv, NextIInv, PTL DEF Spec

\* FillWritePipeline keeps the pipeline the head of the user's queue, and its stream
\* started, through failures, refusals, restarts, crashes and changes of the user.
THEOREM PipelineFollowsQueue == Spec => []PipelineIsHeadOfQueue
  <1>1. IInv => PipelineIsHeadOfQueue
    BY DEF IInv
  <1> QED
    BY <1>1, Invariance, PTL

\* Requests, handshake and pipeline always fit together, so that an answer of the
\* server belongs to the first of the pipeline, and no callback fails an assertion.
THEOREM AnswersFitPipeline == Spec => []StreamFitsPipeline
  <1>1. IInv => StreamFitsPipeline
    BY DEF IInv
  <1> QED
    BY <1>1, Invariance, PTL

\* mutation_callbacks_ call every caller for its own write and with the truth, also
\* when batch ids are used again after a change of the user.
THEOREM CallersAreInformed == Spec => []CallersInformed
  <1>1. IInv => CallersInformed
    BY DEF IInv
  <1> QED
    BY <1>1, Invariance, PTL

\* A write that was made stays in the queue of its user until the server has carried
\* it out or refused it.
THEOREM NoWriteIsLost == Spec => []NothingLost
  <1>1. IInv => NothingLost
    BY DEF IInv
  <1> QED
    BY <1>1, Invariance, PTL

\* The callbacks of waitForPendingWrites that a finished batch calls find none of the
\* writes they waited for in the queue.
THEOREM WaitersAreRight == Spec => WaitersSeeAllDone
  <1> DEFINE A == MutationResult \/ ServerRefuses =>
                    \A x \in waiters \ waiters' : x.writes \cap ToSet(WritesOf(queue'[user])) = {}
  <1>1. ASSUME IInv, MutationResult PROVE A
    <2>1. RemoteOK /\ EngineOK /\ pipeline # <<>> /\ enabled = "yes"
      BY <1>1, IInvParts, MutationResultStep
    <2>2. BatchDone(Head(queue[user]), "ok") /\ queue[user] # <<>>
      BY <1>1, <2>1, RestOfPipeline DEF MutationResult
    <2> QED
      BY <2>1, <2>2, WaiterSeesAllDone
  <1>2. ASSUME IInv, ServerRefuses PROVE A
    <2>1. RemoteOK /\ EngineOK /\ pipeline # <<>> /\ enabled = "yes"
      BY <1>2, IInvParts, ServerRefusesStep DEF ServerRefuses
    <2>2. BatchDone(Head(queue[user]), "error") /\ queue[user] # <<>>
      BY <1>2, <2>1, RestOfPipeline DEF ServerRefuses
    <2> QED
      BY <2>1, <2>2, WaiterSeesAllDone
  <1>3. IInv /\ [Next]_vars => [A]_vars
    BY <1>1, <1>2
  <1> QED
    BY <1>3, Invariance, PTL DEF Spec, WaitersSeeAllDone

-----------------------------------------------------------------------------
(* Every step of the pipeline is a step of WriteQueue, or none.             *)

Pending == [u \in Users |-> WritesOf(queue[u])]

LEMMA PendingOfUser ==
  ASSUME EngineOK
  PROVE  /\ user \in Users /\ queue[user] \in Seq(Batch)
         /\ Pending[user] = WritesOf(queue[user]) /\ Pending[user] \in Seq(Writes)
         /\ Len(Pending[user]) = Len(queue[user])
         /\ \A i \in 1..Len(queue[user]) : Pending[user][i] = queue[user][i].write
  <1>1. user \in Users /\ queue[user] \in Seq(Batch)
    BY DEF EngineOK
  <1>2. Pending[user] = WritesOf(queue[user])
    BY <1>1 DEF Pending
  <1> QED
    BY <1>1, <1>2, WritesOfProperties

LEMMA IssueImplemented ==
  ASSUME IInv, NEW w \in Writes, WriteMutations(w)
  PROVE  Promise!Issue(user, w)
  <1> DEFINE batch == [id |-> nextId, write |-> w]
  <1>1. EngineOK
    BY IInvParts
  <1>2. /\ batch \in Batch /\ batch.write = w
        /\ queue' = [queue EXCEPT ![user] = Append(@, batch)]
        /\ UNCHANGED <<user, applied, refused>>
    BY <1>1 DEF WriteMutations, server, EngineOK, Batch
  <1> HIDE DEF batch
  <1>3. WritesOf(Append(queue[user], batch)) = Append(WritesOf(queue[user]), w)
    BY <1>1, <1>2, PendingOfUser, WritesOfAppend
  <1>4. Pending' = [Pending EXCEPT ![user] = Append(@, w)]
    BY <1>1, <1>2, <1>3 DEF Pending, EngineOK
  <1> QED
    BY <1>2, <1>4 DEF Promise!Issue, Pending

LEMMA CarryOutImplemented ==
  ASSUME IInv, ServerApplies
  PROVE  \/ UNCHANGED <<Pending, applied, refused>>
         \/ \E i \in 1..Len(Pending[user]) : Promise!CarryOut(user, i)
  <1>1. RemoteOK /\ EngineOK
    BY IInvParts
  <1>2. /\ acks < Len(wire) /\ acks \in 0..Len(wire) /\ Len(wire) \in Nat
        /\ applied' = applied \cup ({wire[acks + 1]} \ {"handshake"})
        /\ UNCHANGED <<queue, refused>>
    BY <1>1, LenProperties DEF ServerApplies, local, RemoteOK
  <1>3. UNCHANGED Pending
    BY <1>2 DEF Pending
  <1>4. IsOpen(stream) /\ wire = Wire(pipeline) /\ enabled = "yes"
    <2>1. ~IsOpen(stream) => Len(wire) = 0
      BY <1>1, StartedIsEnabled, EmptyWire
    <2> QED
      BY <2>1, <1>1, <1>2, StartedIsEnabled
  <1>5. CASE handshake # "yes"
    <2>1. wire = <<"handshake">>
      BY <1>4, <1>5 DEF Wire
    <2>2. wire[acks + 1] = "handshake"
      BY <2>1, <1>2
    <2> QED
      BY <2>2, <1>2, <1>3
  <1>6. CASE handshake = "yes"
    <2>1. /\ pipeline \in Seq(Batch) /\ Len(pipeline) <= Len(queue[user])
          /\ \A i \in 1..Len(pipeline) : pipeline[i] = queue[user][i]
      BY <1>1, <1>4, PipelineInQueue
    <2>2. /\ Len(wire) = Len(pipeline) /\ \A i \in 1..Len(wire) : wire[i] = pipeline[i].write
          /\ wire \in Seq(Writes)
      BY <1>4, <1>6, <2>1, WritesOfProperties DEF Wire
    <2>3. Len(queue[user]) \in Nat /\ Len(Pending[user]) = Len(queue[user])
      BY <1>1, PendingOfUser, LenProperties
    <2>4. ASSUME NEW k \in 1..Len(wire)
          PROVE  k \in 1..Len(Pending[user]) /\ Pending[user][k] = wire[k] /\ wire[k] # "handshake"
      <3>1. k \in 1..Len(queue[user]) /\ pipeline[k] = queue[user][k]
        BY <2>1, <2>2, <2>3
      <3>2. wire[k] \in Writes
        BY <2>2, ElementOfSeq
      <3> QED
        BY <3>1, <3>2, <2>2, <2>3, <1>1, PendingOfUser, WriteAssumption
    <2>5. acks + 1 \in 1..Len(wire)
      BY <1>2
    <2>6. \A k \in 1..acks : Pending[user][k] \in applied
      <3> SUFFICES ASSUME NEW k \in 1..acks PROVE Pending[user][k] \in applied
        OBVIOUS
      <3>1. k \in 1..Len(wire)
        BY <1>2
      <3>2. wire[k] \in applied \cup {"handshake"}
        BY <1>1 DEF RemoteOK, AnswersAreTrue
      <3> QED
        BY <3>1, <3>2, <2>4
    <2>7. applied' = applied \cup {Pending[user][acks + 1]}
      BY <2>4, <2>5, <1>2
    <2>8. acks + 1 \in 1..Len(Pending[user]) /\ 1..((acks + 1) - 1) = 1..acks
      BY <2>4, <2>5, <1>2
    <2>9. Promise!CarryOut(user, acks + 1)
      BY <1>2, <1>3, <2>6, <2>7, <2>8 DEF Promise!CarryOut, Pending
    <2> QED
      BY <2>8, <2>9
  <1> QED
    BY <1>5, <1>6

\* What the head of the queue leaves behind.
LEMMA PendingAfterDone ==
  ASSUME EngineOK, queue[user] # <<>>, NEW status, BatchDone(Head(queue[user]), status)
  PROVE  /\ Pending[user] # <<>> /\ Head(Pending[user]) = Head(queue[user]).write
         /\ Pending' = [Pending EXCEPT ![user] = Tail(@)]
  <1>1. user \in Users /\ queue[user] \in Seq(Batch) /\ Pending[user] = WritesOf(queue[user])
    BY PendingOfUser
  <1>2. /\ WritesOf(queue[user]) # <<>> /\ Len(queue[user]) \in Nat \ {0}
        /\ WritesOf(queue[user])[1] = queue[user][1].write
    BY <1>1, WritesOfProperties, EmptySeq
  <1>3. Head(WritesOf(queue[user])) = WritesOf(queue[user])[1] /\ Head(queue[user]) = queue[user][1]
    OBVIOUS
  <1>4. queue' = [queue EXCEPT ![user] = Tail(@)] /\ queue \in [Users -> Seq(Batch)]
    BY QueueAfterDone DEF EngineOK
  <1>5. WritesOf(Tail(queue[user])) = Tail(WritesOf(queue[user]))
    BY <1>1, WritesOfTail
  <1>6. Pending' = [Pending EXCEPT ![user] = Tail(@)]
    BY <1>1, <1>4, <1>5 DEF Pending
  <1> QED
    BY <1>1, <1>2, <1>3, <1>6

LEMMA ConfirmImplemented ==
  ASSUME IInv, MutationResult
  PROVE  user \in Users /\ Promise!Confirm(user)
  <1>1. RemoteOK /\ EngineOK /\ pipeline # <<>> /\ enabled = "yes"
        /\ Head(pipeline).write \in applied
    BY IInvParts, MutationResultStep
  <1>2. BatchDone(Head(queue[user]), "ok") /\ queue[user] # <<>>
    BY <1>1, RestOfPipeline DEF MutationResult
  <1>3. Head(pipeline) = Head(queue[user])
    BY <1>1, PipelineInQueue
  <1>4. UNCHANGED <<applied, refused>>
    BY DEF MutationResult, server
  <1> QED
    BY <1>1, <1>2, <1>3, <1>4, PendingAfterDone, PendingOfUser DEF Promise!Confirm, Pending

LEMMA DeclineImplemented ==
  ASSUME IInv, ServerRefuses
  PROVE  user \in Users /\ Promise!Decline(user)
  <1>1. RemoteOK /\ EngineOK /\ pipeline # <<>> /\ enabled = "yes"
        /\ Head(wire) = Head(pipeline).write
    BY IInvParts, ServerRefusesStep DEF ServerRefuses
  <1>2. BatchDone(Head(queue[user]), "error") /\ queue[user] # <<>>
    BY <1>1, RestOfPipeline DEF ServerRefuses
  <1>3. Head(pipeline) = Head(queue[user])
    BY <1>1, PipelineInQueue
  <1>4. refused' = refused \cup {Head(wire)} /\ UNCHANGED applied
    BY DEF ServerRefuses
  <1> QED
    BY <1>1, <1>2, <1>3, <1>4, PendingAfterDone, PendingOfUser DEF Promise!Decline, Pending

LEMMA StepImplements ==
  ASSUME IInv, [Next]_vars
  PROVE  Promise!Next \/ UNCHANGED <<Pending, applied, refused>>
  <1>1. user \in Users
    BY IInvParts DEF EngineOK
  <1>2. CASE \E w \in Writes : WriteMutations(w)
    BY <1>1, <1>2, IssueImplemented DEF Promise!Next
  <1>3. CASE ServerApplies
    BY <1>1, <1>3, CarryOutImplemented DEF Promise!Next, Pending
  <1>4. CASE MutationResult
    BY <1>4, ConfirmImplemented DEF Promise!Next
  <1>5. CASE ServerRefuses
    BY <1>5, DeclineImplemented DEF Promise!Next
  <1>6. CASE UNCHANGED <<queue, applied, refused>>
    BY <1>6 DEF Pending
  <1>7. \/ \E w \in Writes : WriteMutations(w)
        \/ ServerApplies \/ MutationResult \/ ServerRefuses
        \/ UNCHANGED <<queue, applied, refused>>
    BY DEF Next, vars, WaitForPendingWrites, EnableNetwork, DisableNetwork, ConnectivityChanged,
           RestartNetwork, HandleCredentialChange, Crash, ResumeStartWithCredentials,
           CredentialsFail, Retry, CredentialsLate, BackoffElapsed, IdleTimeout,
           HandshakeComplete, OnStreamFinish, local, server
  <1> QED
    BY <1>2, <1>3, <1>4, <1>5, <1>6, <1>7

\* The pipeline, its retries, its restarts and its crashes implement a queue per user
\* that the server works off in order.
THEOREM PipelineImplementsQueue == Spec => ImplementsWriteQueue
  <1>1. Init => Promise!Init
    <2> SUFFICES ASSUME Init PROVE Promise!Init
      OBVIOUS
    <2>1. \A u \in Users : WritesOf(queue[u]) = <<>>
      BY EmptyWire DEF Init
    <2> QED
      BY <2>1 DEF Init, Promise!Init
  <1>2. IInv /\ [Next]_vars => [Promise!Next]_(Promise!vars)
    BY StepImplements DEF Promise!vars, Pending
  <1> QED
    BY <1>1, <1>2, Invariance, PTL DEF Spec, ImplementsWriteQueue, Promise!Spec

=============================================================================
