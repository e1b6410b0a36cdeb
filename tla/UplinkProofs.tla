----------------------------- MODULE UplinkProofs ----------------------------
(***************************************************************************)
(* What holds of AgentUplink and Uplink for any records, any sizes of the  *)
(* ring, the log and its batches, any window, and any number of faults and *)
(* workers.                                                                *)
(***************************************************************************)
EXTENDS Uplink, FunctionTheorems, FiniteSetTheorems, SequenceTheorems, TLAPS

USE UplinkAssumption, WorkersAssumption DEF UplinkAssumption, WorkersAssumption

-----------------------------------------------------------------------------
(* Counting in a sequence: the elements of it that are in P.               *)

Places(s, P) == {i \in DOMAIN s : s[i] \in P}
Hits(s, P) == Cardinality(Places(s, P))

\* Count is a number, at most the length, and 0 exactly of what is not there.
LEMMA HitsBound ==
  ASSUME NEW S, NEW s \in Seq(S), NEW P
  PROVE  /\ IsFiniteSet(Places(s, P)) /\ Hits(s, P) \in 0..Len(s)
         /\ Hits(s, P) = 0 <=> \A i \in DOMAIN s : s[i] \notin P
<1>1. Len(s) \in Nat /\ DOMAIN s = 1..Len(s)
  BY LenProperties
<1>2. IsFiniteSet(1..Len(s)) /\ Cardinality(1..Len(s)) = Len(s)
  <2>1. \A n \in Int : /\ IsFiniteSet(1..n)
                       /\ Cardinality(1..n) = IF 1 > n THEN 0 ELSE n - 1 + 1
    BY FS_Interval
  <2> QED
    BY <1>1, <2>1
<1>3. IsFiniteSet(Places(s, P)) /\ Hits(s, P) <= Len(s)
  <2>1. Places(s, P) \in SUBSET (1..Len(s))
    BY <1>1 DEF Places
  <2> QED
    BY <1>2, <2>1, FS_Subset DEF Hits
<1>4. Hits(s, P) \in Nat
  BY <1>3, FS_CardinalityType DEF Hits
<1>5. Hits(s, P) = 0 <=> Places(s, P) = {}
  BY <1>3, FS_EmptySet DEF Hits
<1> QED
  BY <1>1, <1>3, <1>4, <1>5 DEF Places

\* An element appended counts if it is in P.
LEMMA HitsAppend ==
  ASSUME NEW S, NEW s \in Seq(S), NEW x \in S, NEW P
  PROVE  Hits(Append(s, x), P) = Hits(s, P) + IF x \in P THEN 1 ELSE 0
<1>1. /\ Append(s, x) \in Seq(S) /\ Len(Append(s, x)) = Len(s) + 1
      /\ Append(s, x)[Len(s) + 1] = x
      /\ \A i \in 1..Len(s) : Append(s, x)[i] = s[i]
  BY AppendProperties
<1>2. /\ Len(s) \in Nat /\ DOMAIN s = 1..Len(s)
      /\ DOMAIN Append(s, x) = 1..(Len(s) + 1)
  <2>1. Len(s) \in Nat /\ DOMAIN s = 1..Len(s)
    BY LenProperties
  <2>2. DOMAIN Append(s, x) = 1..Len(Append(s, x))
    BY <1>1, LenProperties
  <2> QED
    BY <1>1, <2>1, <2>2
<1>3. IsFiniteSet(Places(s, P)) /\ Hits(s, P) \in Nat /\ Len(s) + 1 \notin Places(s, P)
  <2>1. IsFiniteSet(Places(s, P)) /\ Hits(s, P) \in 0..Len(s)
    BY HitsBound
  <2> QED
    BY <1>2, <2>1 DEF Places
<1>4. CASE x \in P
  <2>1. Places(Append(s, x), P) = Places(s, P) \cup {Len(s) + 1}
    BY <1>1, <1>2, <1>4 DEF Places
  <2> QED
    BY <1>3, <1>4, <2>1, FS_AddElement DEF Hits
<1>5. CASE x \notin P
  <2>1. Places(Append(s, x), P) = Places(s, P)
    BY <1>1, <1>2, <1>5 DEF Places
  <2> QED
    BY <1>3, <1>5, <2>1 DEF Hits
<1> QED
  BY <1>4, <1>5

\* The head counts if it is in P, and the rest is counted in the tail.
LEMMA HitsTail ==
  ASSUME NEW S, NEW s \in Seq(S), s # <<>>, NEW P
  PROVE  Hits(s, P) = Hits(Tail(s), P) + IF Head(s) \in P THEN 1 ELSE 0
<1> DEFINE T == Places(Tail(s), P)
           U == Places(s, P) \ {1}
           f == [i \in T |-> i + 1]
<1>1. /\ Tail(s) \in Seq(S) /\ Len(Tail(s)) = Len(s) - 1
      /\ \A i \in 1..Len(Tail(s)) : Tail(s)[i] = s[i + 1]
  BY HeadTailProperties
<1>2. /\ Len(s) \in Nat \ {0} /\ DOMAIN s = 1..Len(s) /\ Head(s) = s[1]
      /\ DOMAIN Tail(s) = 1..(Len(s) - 1)
  BY <1>1, LenProperties, EmptySeq
<1>3. T \subseteq Nat /\ \A i \in T : i + 1 \in U
  BY <1>1, <1>2 DEF Places
<1>4. \A j \in U : j - 1 \in T /\ f[j - 1] = j
  <2> TAKE j \in U
  <2>1. j \in 2..Len(s) /\ s[j] \in P
    BY <1>2 DEF Places
  <2>2. j - 1 \in 1..Len(Tail(s)) /\ Tail(s)[j - 1] = s[j]
    BY <1>1, <1>2, <2>1
  <2> QED
    BY <1>1, <1>2, <2>1, <2>2 DEF Places
<1>5. f \in Bijection(T, U)
  <2>1. f \in [T -> U]
    BY <1>3
  <2>2. \A a, b \in T : f[a] = f[b] => a = b
    BY <1>3
  <2> QED
    BY <1>4, <2>1, <2>2, Fun_IsBij
<1>6. IsFiniteSet(T) /\ Hits(Tail(s), P) = Cardinality(T) /\ Cardinality(T) \in Nat
  <2>1. IsFiniteSet(T)
    BY <1>1, HitsBound
  <2>2. Hits(Tail(s), P) = Cardinality(T)
    BY DEF Hits
  <2> QED
    BY <2>1, <2>2, FS_CardinalityType
<1> HIDE DEF T, U, f
<1>7. IsFiniteSet(U) /\ Cardinality(U) = Cardinality(T)
  <2>1. ExistsBijection(T, U)
    BY <1>5 DEF ExistsBijection
  <2> QED
    BY <1>6, <2>1, FS_Bijection
<1>8. CASE Head(s) \in P
  <2>1. Places(s, P) = U \cup {1} /\ 1 \notin U
    BY <1>2, <1>8 DEF Places, U
  <2>2. Hits(s, P) = Cardinality(U) + 1
    BY <1>7, <2>1, FS_AddElement DEF Hits
  <2> QED
    BY <1>6, <1>7, <1>8, <2>2
<1>9. CASE Head(s) \notin P
  <2>1. Places(s, P) = U
    BY <1>2, <1>9 DEF Places, U
  <2>2. Hits(s, P) = Cardinality(U)
    BY <2>1 DEF Hits
  <2> QED
    BY <1>6, <1>7, <1>9, <2>2
<1> QED
  BY <1>8, <1>9

\* What holds more of P has the larger count, and one place counts once.
LEMMA HitsLess ==
  ASSUME NEW S, NEW s \in Seq(S), NEW t, NEW P,
         Places(t, P) \subseteq Places(s, P)
  PROVE  Hits(t, P) <= Hits(s, P) /\ Hits(t, P) \in Nat /\ IsFiniteSet(Places(t, P))
<1>1. IsFiniteSet(Places(s, P)) /\ Places(t, P) \in SUBSET Places(s, P)
  BY HitsBound
<1> QED
  BY <1>1, FS_Subset, FS_CardinalityType DEF Hits

LEMMA HitsOnce ==
  ASSUME NEW S, NEW s \in Seq(S), NEW P,
         \A i, j \in DOMAIN s : s[i] \in P /\ s[j] \in P => i = j
  PROVE  Hits(s, P) <= 1
<1>1. CASE Places(s, P) = {}
  <2>1. Hits(s, P) = 0
    BY <1>1, FS_EmptySet DEF Hits
  <2> QED
    BY <2>1
<1>2. CASE Places(s, P) # {}
  <2>1. \E i : Places(s, P) = {i}
    <3>1. PICK i : i \in Places(s, P)
      BY <1>2
    <3>2. Places(s, P) = {i}
      BY <3>1 DEF Places
    <3> QED
      BY <3>2
  <2>2. Hits(s, P) = 1
    BY <2>1, FS_Singleton DEF Hits
  <2> QED
    BY <2>2
<1> QED
  BY <1>1, <1>2

-----------------------------------------------------------------------------
(* The same for Count, the operator of the model.                          *)

LEMMA CountIsHits ==
  \A s, e : Count(s, e) = Hits(s, {e})
BY DEF Count, Hits, Places

LEMMA CountNat ==
  ASSUME NEW S, NEW s \in Seq(S), NEW e
  PROVE  Count(s, e) \in Nat /\ (Count(s, e) = 0 <=> e \notin Range(s))
<1>1. Hits(s, {e}) \in Nat /\ (Hits(s, {e}) = 0 <=> \A i \in DOMAIN s : s[i] \notin {e})
  <2>1. Len(s) \in Nat
    BY LenProperties
  <2> QED
    BY <2>1, HitsBound
<1>2. Count(s, e) = Hits(s, {e})
  BY CountIsHits
<1>3. e \notin Range(s) <=> \A i \in DOMAIN s : s[i] \notin {e}
  BY DEF Range
<1> QED
  BY <1>1, <1>2, <1>3

LEMMA CountEmpty ==
  \A e : Count(<<>>, e) = 0
<1> TAKE e
<1>1. {i \in DOMAIN <<>> : <<>>[i] = e} = {}
  OBVIOUS
<1> QED
  BY <1>1, FS_EmptySet DEF Count

LEMMA CountAppend ==
  ASSUME NEW S, NEW s \in Seq(S), NEW x \in S, NEW e
  PROVE  Count(Append(s, x), e) = Count(s, e) + IF x = e THEN 1 ELSE 0
<1>1. Hits(Append(s, x), {e}) = Hits(s, {e}) + IF x \in {e} THEN 1 ELSE 0
  BY HitsAppend
<1> QED
  BY <1>1, CountIsHits

LEMMA CountTail ==
  ASSUME NEW S, NEW s \in Seq(S), s # <<>>, NEW e
  PROVE  Count(s, e) = Count(Tail(s), e) + IF Head(s) = e THEN 1 ELSE 0
BY HitsTail, CountIsHits

\* Another element in its place does not count more, nor does a prefix.
LEMMA CountReplaced ==
  ASSUME NEW S, NEW s \in Seq(S), NEW x, NEW e, x # e
  PROVE  Count([s EXCEPT ![1] = x], e) <= Count(s, e)
<1>1. Places([s EXCEPT ![1] = x], {e}) \subseteq Places(s, {e})
  <2>1. DOMAIN s = 1..Len(s) /\ s \in [1..Len(s) -> S]
    BY LenProperties
  <2> QED
    BY <2>1 DEF Places
<1> QED
  BY <1>1, HitsLess, CountIsHits

LEMMA CountPrefix ==
  ASSUME NEW S, NEW s \in Seq(S), NEW n \in 0..Len(s), NEW e
  PROVE  Count(SubSeq(s, 1, n), e) <= Count(s, e)
<1>1. /\ Len(s) \in Nat /\ DOMAIN s = 1..Len(s) /\ \A i \in 1..n : s[i] \in S
      /\ n \in Int
  BY LenProperties
<1>2. /\ SubSeq(s, 1, n) \in Seq(S) /\ Len(SubSeq(s, 1, n)) = n
      /\ \A i \in 1..n : SubSeq(s, 1, n)[i] = s[i]
  <2>1. /\ SubSeq(s, 1, n) \in Seq(S)
        /\ Len(SubSeq(s, 1, n)) = IF 1 <= n THEN n - 1 + 1 ELSE 0
        /\ \A i \in 1..(n - 1 + 1) : SubSeq(s, 1, n)[i] = s[1 + i - 1]
    BY <1>1, SubSeqProperties
  <2> QED
    BY <1>1, <2>1
<1>3. DOMAIN SubSeq(s, 1, n) = 1..n
  BY <1>2, LenProperties
<1>4. Places(SubSeq(s, 1, n), {e}) \subseteq Places(s, {e})
  BY <1>1, <1>2, <1>3 DEF Places
<1> QED
  BY <1>4, HitsLess, CountIsHits

-----------------------------------------------------------------------------
(* Types.                                                                  *)

\* The slots of workerSem that are taken are finitely many and no more than there
\* are; the log is read from its start.
SlotsHeld == {w \in Records \X (1..MaxWorkers) : w[2] <= workers[w[1]]}
Held == IsFiniteSet(SlotsHeld) /\ Cardinality(SlotsHeld) <= MaxWorkers
AgentTypes == TypeOK /\ IsFiniteSet(late) /\ pos >= 1
TypeInv == AgentTypes /\ CenterTypeOK /\ Held

\* The record types.
LEMMA RecordTypes ==
  /\ Edr \subseteq Plugin /\ Other \subseteq Plugin /\ Plugin \subseteq Records
  /\ Heartbeat \in Records /\ Heartbeat \notin Plugin /\ Torn \notin Plugin
  /\ Records \ {Heartbeat} = Plugin
BY DEF Plugin, Records, Heartbeat, Torn

\* Both the ring and the batches go through these.
LEMMA RangeIn ==
  ASSUME NEW S, NEW s \in Seq(S)
  PROVE  Range(s) \subseteq S
<1>1. DOMAIN s = 1..Len(s) /\ s \in [1..Len(s) -> S]
  BY LenProperties
<1> QED
  BY <1>1 DEF Range

\* A replayed batch holds records and no torn entry.
LEMMA BatchSound ==
  ASSUME AgentTypes, NEW last \in BatchEnds
  PROVE  /\ last \in Nat /\ last >= pos /\ last <= Len(file)
         /\ SubSeq(file, pos, last) \in Seq(Edr)
         /\ SubSeq(file, pos, last) \in Seq(Records)
         /\ Len(SubSeq(file, pos, last)) = last - pos + 1
         /\ \A i \in 1..(last - pos + 1) : SubSeq(file, pos, last)[i] = file[pos + i - 1]
         /\ \A i \in pos..last : file[i] \in Edr
<1>1. /\ pos \in Nat /\ pos >= 1 /\ file \in Seq(Edr \cup {Torn})
  BY DEF AgentTypes, TypeOK
<1>2. /\ Len(file) \in Nat /\ file \in [1..Len(file) -> Edr \cup {Torn}]
  BY <1>1, LenProperties
<1>3. /\ last \in pos..(pos + WalBatch - 1)
      /\ \A i \in pos..last : i <= Len(file) /\ file[i] # Torn
  BY DEF BatchEnds, Sound
<1>4. last \in Nat /\ last >= pos /\ pos \in Int /\ last \in Int
  BY <1>1, <1>3
<1>5. last <= Len(file) /\ \A i \in pos..last : file[i] \in Edr
  BY <1>1, <1>2, <1>3, <1>4
<1>6. /\ SubSeq(file, pos, last) \in Seq(Edr)
      /\ Len(SubSeq(file, pos, last)) = IF pos <= last THEN last - pos + 1 ELSE 0
      /\ \A i \in 1..(last - pos + 1) : SubSeq(file, pos, last)[i] = file[pos + i - 1]
  BY <1>4, <1>5, SubSeqProperties
<1>7. SubSeq(file, pos, last) \in Seq(Records)
  BY <1>6, RecordTypes, SeqMonotonic
<1> QED
  BY <1>4, <1>5, <1>6, <1>7

LEMMA WriterTypes ==
  ASSUME AgentTypes,
         \/ \E e \in Plugin : Write(e)
         \/ \E e \in Edr : Log(e) \/ LogTears(e)
         \/ Beat
  PROVE  AgentTypes'
<1> USE RecordTypes DEF AgentTypes, TypeOK, log, send, Transport, Go, Fault
<1>1. ASSUME NEW e \in Plugin, Write(e)
      PROVE  AgentTypes'
  <2>1. Append(ring, e) \in Seq(Records) /\ Len(Append(ring, e)) = Len(ring) + 1
    BY AppendProperties
  <2>2. Len(ring) \in Nat
    BY LenProperties
  <2>3. ring' \in Seq(Records) /\ Len(ring') <= RingSize
    <3>1. CASE Len(ring) < RingSize
      <4>1. ring' = Append(ring, e)
        BY <1>1, <3>1 DEF Write
      <4>2. Len(ring) + 1 <= RingSize
        BY <2>2, <3>1
      <4> QED
        BY <2>1, <4>1, <4>2
    <3>2. CASE ~(Len(ring) < RingSize)
      BY <1>1, <3>2 DEF Write
    <3> QED
      BY <3>1, <3>2
  <2>4. writer' \in [Plugin -> {"new", "log", "header", "done"}]
    BY <1>1 DEF Write
  <2> QED
    BY <1>1, <2>3, <2>4 DEF Write
<1>2. ASSUME NEW e \in Edr, LogFull(e) \/ LogHeader(e)
      PROVE  AgentTypes'
  <2>1. writer' \in [Plugin -> {"new", "log", "header", "done"}]
    BY <1>2 DEF LogFull, LogHeader
  <2>2. UNCHANGED <<ring, log, Transport, faults>>
    BY <1>2 DEF LogFull, LogHeader
  <2> QED
    BY <2>1, <2>2
<1>3. ASSUME NEW e \in Edr, LogData(e) \/ LogTears(e)
      PROVE  AgentTypes'
  <2>1. \A x \in Edr \cup {Torn} :
           /\ Append(file, x) \in Seq(Edr \cup {Torn})
           /\ Len(Append(file, x)) = Len(file) + 1
    BY AppendProperties
  <2>2. Len(file) \in Nat
    BY LenProperties
  <2>3. writer' \in [Plugin -> {"new", "log", "header", "done"}]
    BY <1>3 DEF LogData, LogTears
  <2>4. file' \in Seq(Edr \cup {Torn}) /\ size' \in 0..Len(file')
    <3>1. PICK x \in Edr \cup {Torn} : file' = Append(file, x)
      BY <1>3 DEF LogData, LogTears
    <3>2. size' = size \/ size' = size + 1
      BY <1>3 DEF LogData, LogTears
    <3>3. file' \in Seq(Edr \cup {Torn}) /\ Len(file') = Len(file) + 1
      BY <2>1, <3>1
    <3> QED
      BY <2>2, <3>2, <3>3
  <2>5. logged' \subseteq Edr
    BY <1>3 DEF LogData, LogTears
  <2> QED
    BY SMTT(30), <1>3, <2>3, <2>4, <2>5 DEF LogData, LogTears
<1>4. CASE Beat
  <2>1. /\ Append(ring, Heartbeat) \in Seq(Records)
        /\ Len(Append(ring, Heartbeat)) = Len(ring) + 1
    BY AppendProperties
  <2>2. Len(ring) \in Nat
    BY LenProperties
  <2>3. Len(ring) >= RingSize =>
           /\ [ring EXCEPT ![1] = Heartbeat] \in Seq(Records)
           /\ Len([ring EXCEPT ![1] = Heartbeat]) = Len(ring)
    BY <2>2, ExceptSeq
  <2> QED
    BY <1>4, <2>1, <2>2, <2>3 DEF Beat
<1> QED
  BY <1>1, <1>2, <1>3, <1>4 DEF Log

LEMMA MainTypes ==
  ASSUME AgentTypes, Main
  PROVE  AgentTypes'
<1> USE RecordTypes DEF AgentTypes, TypeOK, log, send, Fault, Serve
<1>0. <<>> \in Seq(Seq(Records)) /\ <<>> \in Seq(Edr \cup {Torn}) /\ Len(<<>>) = 0
  BY EmptySeq
<1>1. CASE Dial
  BY <1>0, <1>1 DEF Dial
<1>2. CASE Purge
  BY <1>2 DEF Purge
<1>3. CASE ReplaySend
  <2>1. PICK last \in BatchEnds :
           /\ wire' = Append(wire, SubSeq(file, pos, last))
           /\ handed' = handed \cup Range(SubSeq(file, pos, last))
           /\ pos' = last + 1
    BY <1>3 DEF ReplaySend
  <2>2. /\ last \in Nat /\ SubSeq(file, pos, last) \in Seq(Edr)
        /\ SubSeq(file, pos, last) \in Seq(Records)
    BY BatchSound
  <2>3. wire' \in Seq(Seq(Records)) /\ handed' \subseteq Plugin
    BY <2>1, <2>2, AppendProperties, RangeIn
  <2> QED
    BY <1>3, <2>1, <2>2, <2>3 DEF ReplaySend
<1>4. CASE ReplayFails
  <2>1. PICK last \in BatchEnds :
           \/ stream = "down" /\ UNCHANGED <<late, faults>>
           \/ stream = "up" /\ Fault /\ late' = late \cup {SubSeq(file, pos, last)}
    BY <1>4 DEF ReplayFails
  <2>2. SubSeq(file, pos, last) \in Seq(Records)
    BY BatchSound
  <2>3. late' = late \/ late' = late \cup {SubSeq(file, pos, last)}
    BY <2>1
  <2>4. late' \subseteq Seq(Records)
    BY <2>2, <2>3
  <2>5. IsFiniteSet(late')
    <3>1. IsFiniteSet(late \cup {SubSeq(file, pos, last)})
      BY FS_AddElement
    <3> QED
      BY <2>3, <3>1
  <2> QED
    BY <1>4, <2>1, <2>4, <2>5 DEF ReplayFails
<1>5. CASE ReadTorn
  <2>1. PICK next \in (pos + 1)..(Len(file) + 1) :
           /\ pos' = next
           /\ garbled' = garbled \cup ({file[i] : i \in (pos + 1)..(next - 1)} \ {Torn})
    BY <1>5 DEF ReadTorn
  <2>2. Len(file) \in Nat /\ file \in [1..Len(file) -> Edr \cup {Torn}]
    BY LenProperties
  <2>3. pos' \in Nat /\ pos' >= 1
    BY SMTT(30), <2>1, <2>2
  <2>4. \A i \in (pos + 1)..(next - 1) : file[i] \in Edr \cup {Torn}
    BY SMTT(30), <2>1, <2>2
  <2>5. garbled' \subseteq Edr
    BY <2>1, <2>4
  <2> QED
    BY <1>5, <2>3, <2>5 DEF ReadTorn
<1>6. CASE Truncate
  BY <1>0, <1>6 DEF Truncate
<1>7. CASE Reconnect
  BY <1>7 DEF Reconnect
<1> QED
  BY <1>1, <1>2, <1>3, <1>4, <1>5, <1>6, <1>7 DEF Main

LEMMA SendTypes ==
  ASSUME AgentTypes, SendData \/ (\E b \in late : LateSend(b)) \/ ReceiveFails
  PROVE  AgentTypes'
<1> USE RecordTypes DEF AgentTypes, TypeOK, log, send, Fault
<1>0. <<>> \in Seq(Records) /\ Len(<<>>) = 0
  BY EmptySeq
<1>1. CASE Tick
  BY <1>0, <1>1 DEF Tick
<1>2. CASE SendBatch
  <2>1. wire' \in Seq(Seq(Records)) /\ handed' \subseteq Plugin
    BY <1>2, AppendProperties, RangeIn DEF SendBatch
  <2> QED
    BY <1>0, <1>2, <2>1 DEF SendBatch
<1>3. CASE SendFails
  <2>1. late' = late \/ late' = late \cup {batch}
    BY <1>3 DEF SendFails
  <2>2. late' \subseteq Seq(Records)
    BY <2>1
  <2>3. IsFiniteSet(late')
    <3>1. IsFiniteSet(late \cup {batch})
      BY FS_AddElement
    <3> QED
      BY <2>1, <3>1
  <2> QED
    BY <1>0, <1>3, <2>2, <2>3 DEF SendFails
<1>4. ASSUME NEW b \in late, LateSend(b)
      PROVE  AgentTypes'
  <2>1. wire' \in Seq(Seq(Records)) /\ IsFiniteSet(late')
    BY <1>4, AppendProperties, FS_RemoveElement DEF LateSend
  <2> QED
    BY <1>4, <2>1 DEF LateSend
<1>5. CASE ReceiveFails
  BY <1>5 DEF ReceiveFails
<1> QED
  BY <1>1, <1>2, <1>3, <1>4, <1>5 DEF SendData

LEMMA FaultTypes ==
  ASSUME AgentTypes, Break \/ Crash
  PROVE  AgentTypes'
<1> USE RecordTypes DEF AgentTypes, TypeOK, log, send, Fault
<1>0. /\ <<>> \in Seq(Records) /\ <<>> \in Seq(Seq(Records)) /\ Len(<<>>) = 0
      /\ IsFiniteSet({})
  BY EmptySeq, FS_EmptySet
<1>1. CASE Break
  BY <1>0, <1>1 DEF Break
<1>2. CASE Crash
  <2>1. file' \in Seq(Edr \cup {Torn})
    <3>1. Append(file, Torn) \in Seq(Edr \cup {Torn})
      BY AppendProperties
    <3> QED
      BY <1>2, <3>1 DEF Crash
  <2>2. Len(file') \in Nat
    BY <2>1, LenProperties
  <2>3. writer' \in [Plugin -> {"new", "log", "header", "done"}]
    BY <1>2 DEF Crash
  <2>4. size' \in 0..Len(file')
    BY <1>2, <2>2 DEF Crash
  <2>5. aborted' \in Nat
    BY <1>2 DEF Crash
  <2>6. /\ ring' = <<>> /\ batch' = <<>> /\ late' = {} /\ wire' = <<>>
        /\ main' = "dial" /\ pos' = 1 /\ sender' = "off" /\ receiver' = "off"
        /\ connected' = FALSE /\ stream' = "down"
        /\ UNCHANGED <<logged, handed, garbled>>
    BY <1>2 DEF Crash
  <2>7. faults' \in 0..MaxFaults
    BY <1>2 DEF Crash
  <2>8. /\ ring' \in Seq(Records) /\ Len(ring') <= RingSize
        /\ batch' \in Seq(Records) /\ wire' \in Seq(Seq(Records))
    BY <1>0, <2>6
  <2>9. late' \subseteq Seq(Records) /\ IsFiniteSet(late') /\ pos' \in Nat /\ pos' >= 1
    BY <1>0, <2>6
  <2>10. /\ main' \in {"dial", "purge", "replay", "serve"}
         /\ sender' \in {"off", "tick", "send", "stopped"}
         /\ receiver' \in {"off", "run", "stopped"}
         /\ connected' \in BOOLEAN /\ stream' \in {"up", "down"}
         /\ logged' \subseteq Edr /\ handed' \subseteq Plugin /\ garbled' \subseteq Edr
    BY <2>6
  <2> QED
    BY <2>1, <2>3, <2>4, <2>5, <2>7, <2>8, <2>9, <2>10
<1> QED
  BY <1>1, <1>2

\* A worker of a record takes one slot more, and there is one.
LEMMA SlotTaken ==
  ASSUME TypeInv, NEW e \in Records, Busy < MaxWorkers,
         workers' = [workers EXCEPT ![e] = @ + 1]
  PROVE  workers' \in [Records -> 0..MaxWorkers] /\ Held'
<1>1. workers \in [Records -> 0..MaxWorkers] /\ IsFiniteSet(SlotsHeld)
  BY DEF TypeInv, CenterTypeOK, Held
<1>2. Cardinality(SlotsHeld) \in Nat /\ Cardinality(SlotsHeld) < MaxWorkers
  <2>1. Busy = Cardinality(SlotsHeld)
    BY DEF Busy, SlotsHeld
  <2> QED
    BY <1>1, <2>1, FS_CardinalityType
<1>3. workers[e] <= Cardinality(SlotsHeld)
  <2> DEFINE k == workers[e]
  <2>1. k \in Nat /\ k <= MaxWorkers
    BY <1>1
  <2>2. IsFiniteSet(1..k) /\ Cardinality(1..k) = k
    <3>1. \A n \in Int : /\ IsFiniteSet(1..n)
                         /\ Cardinality(1..n) = IF 1 > n THEN 0 ELSE n - 1 + 1
      BY FS_Interval
    <3> QED
      BY <2>1, <3>1
  <2>3. IsFiniteSet({e}) /\ Cardinality({e}) = 1
    BY FS_Singleton
  <2>4. Cardinality({e} \X (1..k)) = k
    <3>1. Cardinality({e} \X (1..k)) = 1 * k
      BY <2>2, <2>3, FS_Product
    <3> QED
      BY <2>1, <3>1
  <2>5. {e} \X (1..k) \in SUBSET SlotsHeld
    BY <2>1 DEF SlotsHeld
  <2> QED
    BY <1>1, <2>4, <2>5, FS_Subset
<1>4. workers' \in [Records -> 0..MaxWorkers]
  BY <1>1, <1>2, <1>3
<1>5. SlotsHeld' = SlotsHeld \cup {<<e, workers[e] + 1>>}
  <2>1. workers[e] + 1 \in 1..MaxWorkers
    BY <1>1, <1>2, <1>3
  <2>2. SlotsHeld' = {w \in Records \X (1..MaxWorkers) : w[2] <= workers'[w[1]]}
    BY DEF SlotsHeld
  <2>3. ASSUME NEW x \in Records, NEW i \in 1..MaxWorkers
        PROVE  i <= workers'[x] <=> i <= workers[x] \/ (x = e /\ i = workers[e] + 1)
    BY <1>1, <2>1
  <2> QED
    BY <2>1, <2>2, <2>3 DEF SlotsHeld
<1>6. Held'
  <2>1. /\ IsFiniteSet(SlotsHeld')
        /\ \/ Cardinality(SlotsHeld') = Cardinality(SlotsHeld)
           \/ Cardinality(SlotsHeld') = Cardinality(SlotsHeld) + 1
    BY <1>1, <1>5, FS_AddElement
  <2> QED
    BY <1>2, <2>1 DEF Held
<1> QED
  BY <1>4, <1>6

\* Fewer workers hold fewer slots.
LEMMA SlotsFreed ==
  ASSUME TypeInv, workers' \in [Records -> 0..MaxWorkers],
         \A e \in Records : workers'[e] <= workers[e]
  PROVE  Held'
<1>1. IsFiniteSet(SlotsHeld) /\ Cardinality(SlotsHeld) <= MaxWorkers
  BY DEF TypeInv, Held
<1>2. SlotsHeld' \in SUBSET SlotsHeld
  <2>1. workers \in [Records -> 0..MaxWorkers]
    BY DEF TypeInv, CenterTypeOK
  <2> QED
    BY <2>1 DEF SlotsHeld
<1>3. /\ IsFiniteSet(SlotsHeld') /\ Cardinality(SlotsHeld') <= Cardinality(SlotsHeld)
      /\ Cardinality(SlotsHeld') \in Nat /\ Cardinality(SlotsHeld) \in Nat
  BY <1>1, <1>2, FS_Subset, FS_CardinalityType
<1> QED
  BY <1>1, <1>3 DEF Held

LEMMA CenterSteps ==
  ASSUME TypeInv, Center
  PROVE  TypeInv'
<1>1. CASE Receive
  <2>1. hand' \in Seq(Records) /\ wire' \in Seq(Seq(Records))
    BY <1>1, HeadTailProperties DEF Receive, TypeInv, CenterTypeOK, TypeOK
  <2>2. AgentTypes'
    BY <1>1, <2>1 DEF Receive, TypeInv, AgentTypes, TypeOK, log, send
  <2>3. Held'
    BY <1>1 DEF Receive, TypeInv, Held, SlotsHeld
  <2> QED
    BY <1>1, <2>1, <2>2, <2>3 DEF Receive, TypeInv, AgentTypes, CenterTypeOK
<1>2. CASE StartWorker
  <2>1. Head(hand) \in Records /\ hand' \in Seq(Records)
    BY <1>2, HeadTailProperties DEF StartWorker, TypeInv, CenterTypeOK
  <2>2. workers' \in [Records -> 0..MaxWorkers] /\ Held'
    BY <1>2, <2>1, SlotTaken DEF StartWorker
  <2>3. AgentTypes'
    BY <1>2 DEF StartWorker, TypeInv, AgentTypes, TypeOK, vars, log, send
  <2> QED
    BY <1>2, <2>1, <2>2, <2>3 DEF StartWorker, TypeInv, AgentTypes, CenterTypeOK
<1>3. ASSUME NEW e \in Records, Produce(e)
      PROVE  TypeInv'
  <2>0. /\ e # Heartbeat => e \in Plugin
        /\ workers \in [Records -> 0..MaxWorkers] /\ orphans \in [Plugin -> Nat]
        /\ taken \in [Plugin -> Nat]
    BY RecordTypes DEF TypeInv, CenterTypeOK
  <2>1. /\ workers' \in [Records -> 0..MaxWorkers]
        /\ \A x \in Records : workers'[x] <= workers[x]
        /\ orphans' \in [Plugin -> Nat] /\ taken' \in [Plugin -> Nat]
    <3>1. taken' \in [Plugin -> Nat]
      BY <1>3, <2>0 DEF Produce
    <3>2. CASE workers[e] > 0 /\ workers' = [workers EXCEPT ![e] = @ - 1] /\ UNCHANGED orphans
      BY <2>0, <3>1, <3>2
    <3>3. CASE /\ e # Heartbeat /\ orphans[e] > 0
               /\ orphans' = [orphans EXCEPT ![e] = @ - 1] /\ UNCHANGED workers
      BY <2>0, <3>1, <3>3
    <3> QED
      BY <1>3, <3>2, <3>3 DEF Produce
  <2>2. Held'
    BY <2>1, SlotsFreed
  <2>3. AgentTypes'
    BY <1>3 DEF Produce, TypeInv, AgentTypes, TypeOK, vars, log, send
  <2> QED
    BY <1>3, <2>1, <2>2, <2>3 DEF Produce, TypeInv, AgentTypes, CenterTypeOK
<1> QED
  BY <1>1, <1>2, <1>3 DEF Center

LEMMA ConnectionEnds ==
  ASSUME TypeInv, AgentTypes', EndConnection
  PROVE  TypeInv'
<1>1. /\ hand \in Seq(Records) /\ workers \in [Records -> 0..MaxWorkers]
      /\ orphans \in [Plugin -> Nat] /\ taken \in [Plugin -> Nat]
  BY DEF TypeInv, CenterTypeOK
<1>2. PICK n \in 0..Len(hand) :
         /\ orphans' = [e \in Plugin |->
                           orphans[e] + workers[e] + Count(SubSeq(hand, 1, n), e)]
         /\ workers' = [e \in Records |-> 0]
         /\ hand' = <<>>
         /\ UNCHANGED taken
  BY DEF EndConnection
<1>3. SubSeq(hand, 1, n) \in Seq(Records)
  <2>1. /\ \A i \in 1..n : hand[i] \in Records
        /\ 1 \in Int /\ n \in Int
    BY <1>1, LenProperties
  <2> QED
    BY <2>1, SubSeqProperties
<1>4. \A e \in Plugin : Count(SubSeq(hand, 1, n), e) \in Nat
  BY <1>3, CountNat
<1>5. orphans' \in [Plugin -> Nat]
  BY <1>1, <1>2, <1>4, RecordTypes
<1>6. workers' \in [Records -> 0..MaxWorkers] /\ \A e \in Records : workers'[e] <= workers[e]
  BY <1>1, <1>2
<1>7. Held'
  BY <1>6, SlotsFreed
<1>8. hand' \in Seq(Records)
  BY <1>2, EmptySeq
<1> QED
  BY <1>1, <1>2, <1>5, <1>6, <1>7, <1>8 DEF TypeInv, AgentTypes, CenterTypeOK

LEMMA TypesInit ==
  CenterInit => TypeInv
<1> SUFFICES ASSUME CenterInit PROVE TypeInv
  OBVIOUS
<1> USE DEF CenterInit, Init
<1>0. /\ <<>> \in Seq(Records) /\ <<>> \in Seq(Seq(Records)) /\ Len(<<>>) = 0
      /\ <<>> \in Seq(Edr \cup {Torn}) /\ IsFiniteSet({}) /\ Cardinality({}) = 0
  BY EmptySeq, FS_EmptySet
<1>1. TypeOK
  <2>1. /\ ring \in Seq(Records) /\ Len(ring) <= RingSize
        /\ file \in Seq(Edr \cup {Torn}) /\ size \in 0..Len(file)
        /\ batch \in Seq(Records) /\ wire \in Seq(Seq(Records))
    BY <1>0
  <2>2. writer \in [Plugin -> {"new", "log", "header", "done"}]
    OBVIOUS
  <2>3. late \in SUBSET Seq(Records) /\ faults \in 0..MaxFaults
    OBVIOUS
  <2>4. connected \in BOOLEAN
    OBVIOUS
  <2> QED
    BY <2>1, <2>2, <2>3, <2>4 DEF TypeOK
<1>2. CenterTypeOK
  BY <1>0, <1>1 DEF CenterTypeOK
<1>3. Held
  <2>1. SlotsHeld = {}
    BY DEF SlotsHeld
  <2> QED
    BY <1>0, <2>1 DEF Held
<1> QED
  BY <1>0, <1>1, <1>2, <1>3 DEF TypeInv, AgentTypes

LEMMA TypesStep ==
  TypeInv /\ [AllNext]_allvars => TypeInv'
<1> SUFFICES ASSUME TypeInv, [AllNext]_allvars PROVE TypeInv'
  OBVIOUS
<1>0. AgentTypes
  BY DEF TypeInv
<1>1. CASE Agent /\ UNCHANGED center
  <2>1. AgentTypes'
    BY <1>0, <1>1, WriterTypes, MainTypes, SendTypes DEF Agent
  <2> QED
    BY <1>1, <2>1 DEF center, TypeInv, AgentTypes, CenterTypeOK, Held, SlotsHeld
<1>2. CASE (Break \/ Crash) /\ EndConnection
  BY <1>0, <1>2, FaultTypes, ConnectionEnds
<1>3. CASE Center
  BY <1>3, CenterSteps
<1>4. CASE UNCHANGED allvars
  BY <1>4 DEF allvars, vars, log, send, center, TypeInv, AgentTypes, TypeOK,
              CenterTypeOK, Held, SlotsHeld
<1> QED
  BY <1>1, <1>2, <1>3, <1>4 DEF AllNext

\* Every variable keeps its type: the log's size is never above what the file
\* holds, and no more records have a worker than workerSem has slots.
THEOREM TypeCorrect == UplinkSpec => []CenterTypeOK
<1>1. UplinkSpec => []TypeInv
  BY TypesInit, TypesStep, PTL DEF UplinkSpec
<1>2. TypeInv => CenterTypeOK
  BY DEF TypeInv
<1> QED
  BY <1>1, <1>2, PTL

-----------------------------------------------------------------------------
(* The log.                                                                *)

\* A replay keeps the writers out and starts at the first entry; what it has gone
\* past was handed over, or read over behind a torn entry.
Swept ==
    /\ main = "replay" => \A e \in Edr : writer[e] # "header"
    /\ main # "replay" => pos = 1
    /\ \A i \in DOMAIN file : i < pos => file[i] \in handed \cup garbled \cup {Torn}
LogInv == Swept /\ LogKept

\* Steps that leave the log alone.
LEMMA LogUntouched ==
  ASSUME TypeInv, LogInv, TypeInv',
         UNCHANGED <<file, logged, garbled, pos>>, handed \subseteq handed',
         faults' >= faults,
         main' = "replay" <=> main = "replay",
         main = "replay" => \A e \in Edr : writer'[e] # "header"
  PROVE  LogInv'
<1>1. faults \in Nat /\ faults' \in Nat
  BY DEF TypeInv, AgentTypes, TypeOK
<1>2. Swept'
  BY DEF LogInv, Swept
<1>3. LogKept'
  BY <1>1 DEF LogInv, LogKept
<1> QED
  BY <1>2, <1>3 DEF LogInv

LEMMA LogWriters ==
  ASSUME TypeInv, LogInv, TypeInv',
         \/ \E e \in Plugin : Write(e)
         \/ \E e \in Edr : Log(e) \/ LogTears(e)
         \/ Beat
  PROVE  LogInv'
<1>0. /\ writer \in [Plugin -> {"new", "log", "header", "done"}]
      /\ file \in Seq(Edr \cup {Torn}) /\ faults \in Nat /\ Edr \subseteq Plugin
  BY RecordTypes DEF TypeInv, AgentTypes, TypeOK
<1> USE DEF log, send, Transport, Go, Fault
<1>1. ASSUME NEW e \in Plugin, Write(e)
      PROVE  LogInv'
  <2>1. main = "replay" => \A x \in Edr : writer'[x] # "header"
    BY <1>0, <1>1 DEF Write, LogInv, Swept
  <2> QED
    BY <1>0, <1>1, <2>1, LogUntouched DEF Write
<1>2. ASSUME NEW e \in Edr, LogFull(e) \/ LogHeader(e)
      PROVE  LogInv'
  <2>1. main # "replay"
    BY <1>2 DEF LogFull, LogHeader, Locked
  <2> QED
    BY <1>0, <1>2, <2>1, LogUntouched DEF LogFull, LogHeader
<1>3. ASSUME NEW e \in Edr, LogData(e) \/ LogTears(e)
      PROVE  LogInv'
  <2>1. main # "replay" /\ main' = main /\ pos = 1 /\ pos' = 1
    BY <1>3 DEF LogData, LogTears, LogInv, Swept
  <2>2. PICK x \in Edr \cup {Torn} :
           /\ file' = Append(file, x)
           /\ \/ x = e /\ logged' = logged \cup {e} /\ UNCHANGED faults
              \/ x = Torn /\ UNCHANGED logged /\ faults' = faults + 1
           /\ UNCHANGED <<handed, garbled>>
    BY <1>3 DEF LogData, LogTears
  <2>3. /\ DOMAIN file = 1..Len(file) /\ Len(file) \in Nat
        /\ DOMAIN file' = 1..(Len(file) + 1)
        /\ \A i \in 1..Len(file) : file'[i] = file[i]
        /\ file'[Len(file) + 1] = x
    <3>1. /\ file' \in Seq(Edr \cup {Torn}) /\ Len(file') = Len(file) + 1
          /\ \A i \in 1..Len(file) : file'[i] = file[i]
          /\ file'[Len(file) + 1] = x
      BY <1>0, <2>2, AppendProperties
    <3>2. Len(file) \in Nat /\ DOMAIN file = 1..Len(file)
      BY <1>0, LenProperties
    <3>3. DOMAIN file' = 1..Len(file')
      BY <3>1, LenProperties
    <3> QED
      BY <3>1, <3>2, <3>3
  <2>4. Range(file') = Range(file) \cup {x}
    BY <2>3 DEF Range
  <2>5. LogKept'
    <3>1. logged' \subseteq Range(file') \cup handed' \cup garbled'
      BY <2>2, <2>4 DEF LogInv, LogKept
    <3>2. (Torn \in Range(file') \/ garbled' # {}) => faults' > 0
      <4>1. e # Torn
        BY <1>0, RecordTypes
      <4> QED
        BY <1>0, <2>2, <2>4, <4>1 DEF LogInv, LogKept
    <3> QED
      BY <3>1, <3>2 DEF LogKept
  <2>6. Swept'
    BY <2>1, <2>3 DEF Swept
  <2> QED
    BY <2>5, <2>6 DEF LogInv
<1>4. CASE Beat
  BY <1>0, <1>4, LogUntouched DEF Beat, LogInv, Swept
<1> QED
  BY <1>1, <1>2, <1>3, <1>4 DEF Log

\* A replay that ends before the truncation leaves the log as it is.
LEMMA LogReread ==
  ASSUME TypeInv, LogInv, TypeInv',
         UNCHANGED <<file, logged, handed, garbled>>, faults' >= faults,
         main' # "replay", pos' = 1
  PROVE  LogInv'
<1>1. pos' = 1 /\ DOMAIN file = 1..Len(file) /\ faults \in Nat /\ faults' \in Nat
  BY LenProperties DEF TypeInv, AgentTypes, TypeOK
<1>2. Swept'
  BY <1>1 DEF LogInv, Swept
<1>3. LogKept'
  BY <1>1 DEF LogInv, LogKept
<1> QED
  BY <1>2, <1>3 DEF LogInv

LEMMA LogMain ==
  ASSUME TypeInv, LogInv, TypeInv', Main
  PROVE  LogInv'
<1>0. /\ file \in Seq(Edr \cup {Torn}) /\ faults \in Nat /\ pos \in Nat /\ pos >= 1
      /\ logged \subseteq Edr /\ Torn \notin Edr
      /\ Len(file) \in Nat /\ DOMAIN file = 1..Len(file)
  BY RecordTypes, LenProperties DEF TypeInv, AgentTypes, TypeOK
<1> USE DEF log, send, Fault, Serve
<1>1. CASE Dial
  BY <1>0, <1>1, LogUntouched DEF Dial
<1>2. CASE Purge
  <2>1. main = "purge" /\ pos = 1 /\ UNCHANGED <<file, logged, handed, garbled, faults, writer>>
    BY <1>2 DEF Purge, LogInv, Swept
  <2>2. pos' = 1
    BY <1>2, <2>1 DEF Purge
  <2>3. main' = "replay" => \A e \in Edr : writer[e] # "header"
    BY <1>2 DEF Purge, Locked
  <2>4. Swept'
    BY <1>0, <2>1, <2>2, <2>3 DEF Swept
  <2>5. LogKept'
    BY <2>1 DEF LogInv, LogKept
  <2> QED
    BY <2>4, <2>5 DEF LogInv
<1>3. CASE ReplaySend
  <2>1. PICK last \in BatchEnds :
           /\ handed' = handed \cup Range(SubSeq(file, pos, last))
           /\ pos' = last + 1
    BY <1>3 DEF ReplaySend
  <2>2. UNCHANGED <<main, writer, file, logged, garbled, faults>>
    BY <1>3 DEF ReplaySend
  <2>3. \A i \in pos..last : file[i] \in Range(SubSeq(file, pos, last))
    <3> DEFINE b == SubSeq(file, pos, last)
    <3>0. AgentTypes
      BY DEF TypeInv
    <3>1. /\ last \in Nat /\ last >= pos /\ b \in Seq(Edr) /\ Len(b) = last - pos + 1
          /\ \A i \in 1..(last - pos + 1) : b[i] = file[pos + i - 1]
      BY <3>0, BatchSound
    <3>2. DOMAIN b = 1..(last - pos + 1)
      BY <3>1, LenProperties
    <3> HIDE DEF b
    <3>3. ASSUME NEW i \in pos..last
          PROVE  file[i] \in Range(b)
      <4>1. i - pos + 1 \in DOMAIN b /\ b[i - pos + 1] = file[pos + (i - pos + 1) - 1]
        BY <1>0, <3>1, <3>2
      <4>2. pos + (i - pos + 1) - 1 = i
        BY <1>0, <3>1
      <4> QED
        BY <4>1, <4>2 DEF Range
    <3> QED
      BY <3>3 DEF b
  <2>4. Swept'
    <3>1. ASSUME NEW i \in DOMAIN file, i < last + 1
          PROVE  file[i] \in handed' \cup garbled \cup {Torn}
      <4>1. CASE i < pos
        BY <2>1, <4>1 DEF LogInv, Swept
      <4>2. CASE i >= pos
        <5>1. last \in Nat
          BY BatchSound DEF TypeInv
        <5>2. i \in pos..last
          BY <1>0, <3>1, <4>2, <5>1
        <5> QED
          BY <2>1, <2>3, <5>2
      <4> QED
        BY <1>0, <4>1, <4>2
    <3>2. main = "replay"
      BY <1>3 DEF ReplaySend
    <3> QED
      BY <2>1, <2>2, <3>1, <3>2 DEF LogInv, Swept
  <2>5. LogKept'
    BY <2>1, <2>2 DEF LogInv, LogKept
  <2> QED
    BY <2>4, <2>5 DEF LogInv
<1>4. CASE ReplayFails
  BY <1>0, <1>4, LogReread DEF ReplayFails
<1>5. CASE ReadTorn
  <2>1. PICK next \in (pos + 1)..(Len(file) + 1) :
           /\ pos' = next
           /\ garbled' = garbled \cup ({file[i] : i \in (pos + 1)..(next - 1)} \ {Torn})
    BY <1>5 DEF ReadTorn
  <2>2. /\ UNCHANGED <<main, writer, file, logged, handed, faults>>
        /\ main = "replay" /\ pos <= Len(file) /\ file[pos] = Torn
    BY <1>5 DEF ReadTorn
  <2>3. Swept'
    <3>1. ASSUME NEW i \in DOMAIN file, i < next
          PROVE  file[i] \in handed \cup garbled' \cup {Torn}
      <4>1. CASE i < pos
        BY <2>1, <4>1 DEF LogInv, Swept
      <4>2. CASE i = pos
        BY <2>2, <4>2
      <4>3. CASE i > pos
        <5>1. i \in (pos + 1)..(next - 1)
          BY <1>0, <2>1, <3>1, <4>3
        <5> QED
          BY <2>1, <5>1
      <4> QED
        BY <1>0, <4>1, <4>2, <4>3
    <3> QED
      BY <2>1, <2>2, <3>1 DEF LogInv, Swept
  <2>4. LogKept'
    <3>1. Torn \in Range(file)
      BY <1>0, <2>2 DEF Range
    <3>2. faults > 0
      BY <3>1 DEF LogInv, LogKept
    <3> QED
      BY <2>1, <2>2, <3>2 DEF LogInv, LogKept
  <2> QED
    BY <2>3, <2>4 DEF LogInv
<1>6. CASE Truncate
  <2>1. /\ main = "replay" /\ pos > Len(file) /\ file' = <<>> /\ main' = "serve" /\ pos' = 1
        /\ UNCHANGED <<writer, logged, handed, garbled, faults>>
    BY <1>6 DEF Truncate
  <2>2. Range(file) \subseteq handed \cup garbled \cup {Torn}
    BY <1>0, <2>1 DEF LogInv, Swept, Range
  <2>3. logged \subseteq handed \cup garbled
    BY <1>0, <2>2 DEF LogInv, LogKept
  <2>4. Range(<<>>) = {} /\ DOMAIN <<>> = {}
    BY DEF Range
  <2>5. Swept'
    BY <2>1, <2>4 DEF Swept
  <2>6. LogKept'
    BY <2>1, <2>3, <2>4 DEF LogInv, LogKept
  <2> QED
    BY <2>5, <2>6 DEF LogInv
<1>7. CASE Reconnect
  BY <1>0, <1>7, LogUntouched DEF Reconnect
<1> QED
  BY <1>1, <1>2, <1>3, <1>4, <1>5, <1>6, <1>7 DEF Main

LEMMA LogRest ==
  ASSUME TypeInv, LogInv, TypeInv',
         \/ SendData \/ (\E b \in late : LateSend(b)) \/ ReceiveFails \/ Break
         \/ Center
         \/ UNCHANGED <<vars>>
  PROVE  LogInv'
<1>0. faults \in Nat /\ (main = "replay" => \A e \in Edr : writer[e] # "header")
  BY DEF TypeInv, AgentTypes, TypeOK, LogInv, Swept
<1> USE DEF log, send, Fault
<1>1. CASE Tick
  BY <1>0, <1>1, LogUntouched DEF Tick
<1>2. CASE SendBatch
  BY <1>0, <1>2, LogUntouched DEF SendBatch
<1>3. CASE SendFails
  BY <1>0, <1>3, LogUntouched DEF SendFails
<1>4. CASE \E b \in late : LateSend(b)
  BY <1>0, <1>4, LogUntouched DEF LateSend
<1>5. CASE ReceiveFails
  BY <1>0, <1>5, LogUntouched DEF ReceiveFails
<1>6. CASE Break
  BY <1>0, <1>6, LogUntouched DEF Break
<1>7. CASE Center
  BY <1>0, <1>7, LogUntouched DEF Center, Receive, StartWorker, Produce, vars
<1>8. CASE UNCHANGED <<vars>>
  BY <1>0, <1>8, LogUntouched DEF vars
<1> QED
  BY <1>1, <1>2, <1>3, <1>4, <1>5, <1>6, <1>7, <1>8 DEF SendData

LEMMA LogCrash ==
  ASSUME TypeInv, LogInv, TypeInv', Crash
  PROVE  LogInv'
<1>1. /\ file \in Seq(Edr \cup {Torn}) /\ faults \in Nat /\ faults' = faults + 1
      /\ main' = "dial" /\ pos' = 1 /\ UNCHANGED <<logged, handed, garbled>>
      /\ file' = file \/ file' = Append(file, Torn)
  BY DEF TypeInv, AgentTypes, TypeOK, Crash, Fault
<1>2. DOMAIN file' = 1..Len(file') /\ Len(file') \in Nat
  <2>1. file' \in Seq(Edr \cup {Torn})
    BY DEF TypeInv, AgentTypes, TypeOK
  <2> QED
    BY <2>1, LenProperties
<1>3. Range(file) \subseteq Range(file')
  <2>1. /\ DOMAIN file = 1..Len(file) /\ Len(file) \in Nat
        /\ Append(file, Torn) \in Seq(Edr \cup {Torn})
        /\ Len(Append(file, Torn)) = Len(file) + 1
        /\ \A i \in 1..Len(file) : Append(file, Torn)[i] = file[i]
    BY <1>1, LenProperties, AppendProperties
  <2>2. CASE file' = Append(file, Torn)
    BY <1>2, <2>1, <2>2 DEF Range
  <2> QED
    BY <1>1, <2>2
<1>4. LogKept'
  BY <1>1, <1>3 DEF LogInv, LogKept
<1>5. Swept'
  <2>1. \A i \in DOMAIN file' : ~(i < 1)
    BY <1>2
  <2>2. main' # "replay" /\ pos' = 1
    BY <1>1
  <2> QED
    BY <2>1, <2>2 DEF Swept
<1> QED
  BY <1>4, <1>5 DEF LogInv

LEMMA LogStep ==
  TypeInv /\ LogInv /\ [AllNext]_allvars => LogInv'
<1> SUFFICES ASSUME TypeInv, LogInv, [AllNext]_allvars PROVE LogInv'
  OBVIOUS
<1>1. TypeInv'
  BY TypesStep
<1> QED
  BY <1>1, LogWriters, LogMain, LogRest, LogCrash DEF AllNext, Agent, allvars

LEMMA LogInit ==
  CenterInit => LogInv
<1> SUFFICES ASSUME CenterInit PROVE LogInv
  OBVIOUS
<1>1. /\ main = "dial" /\ pos = 1 /\ file = <<>>
      /\ logged = {} /\ garbled = {} /\ Range(<<>>) = {} /\ DOMAIN <<>> = {}
  BY DEF CenterInit, Init, Range
<1> QED
  BY <1>1 DEF LogInv, Swept, LogKept

\* What the log has accepted is in its file until a send of it has returned
\* without an error, or it was read over behind an entry a fault has torn.
THEOREM LogIsKept == UplinkSpec => []LogKept
<1>1. UplinkSpec => [](TypeInv /\ LogInv)
  BY TypesInit, LogInit, TypesStep, LogStep, PTL DEF UplinkSpec
<1>2. LogInv => LogKept
  BY DEF LogInv
<1> QED
  BY <1>1, <1>2, PTL

-----------------------------------------------------------------------------
(* Copies.                                                                 *)

\* Batches of a stream, and late sends, that hold a record.
BatchesWith(w, e) == Cardinality({i \in DOMAIN w : e \in Range(w[i])})
SendsWith(l, e) == Cardinality({b \in l : e \in Range(b)})

LEMMA BatchesAreHits ==
  ASSUME NEW w \in Seq(Seq(Records)), NEW e
  PROVE  BatchesWith(w, e) = Hits(w, {b \in Seq(Records) : e \in Range(b)})
<1>1. \A i \in DOMAIN w : w[i] \in Seq(Records)
  BY LenProperties
<1>2. {i \in DOMAIN w : e \in Range(w[i])}
         = Places(w, {b \in Seq(Records) : e \in Range(b)})
  BY <1>1 DEF Places
<1> QED
  BY <1>2 DEF BatchesWith, Hits

LEMMA BatchesNat ==
  ASSUME NEW w \in Seq(Seq(Records)), NEW e
  PROVE  BatchesWith(w, e) \in Nat
<1>1. Len(w) \in Nat
  BY LenProperties
<1>2. Hits(w, {b \in Seq(Records) : e \in Range(b)}) \in 0..Len(w)
  BY HitsBound
<1> QED
  BY <1>1, <1>2, BatchesAreHits

LEMMA BatchesEmpty ==
  \A e : BatchesWith(<<>>, e) = 0
<1> TAKE e
<1>1. {i \in DOMAIN <<>> : e \in Range(<<>>[i])} = {}
  OBVIOUS
<1> QED
  BY <1>1, FS_EmptySet DEF BatchesWith

LEMMA BatchesAppend ==
  ASSUME NEW w \in Seq(Seq(Records)), NEW b \in Seq(Records), NEW e
  PROVE  BatchesWith(Append(w, b), e)
            = BatchesWith(w, e) + IF e \in Range(b) THEN 1 ELSE 0
<1> DEFINE P == {x \in Seq(Records) : e \in Range(x)}
<1>1. Append(w, b) \in Seq(Seq(Records))
  BY AppendProperties
<1>2. BatchesWith(w, e) = Hits(w, P)
  BY BatchesAreHits
<1>3. BatchesWith(Append(w, b), e) = Hits(Append(w, b), P)
  BY <1>1, BatchesAreHits
<1>4. b \in P <=> e \in Range(b)
  OBVIOUS
<1> HIDE DEF P
<1>5. Hits(Append(w, b), P) = Hits(w, P) + IF b \in P THEN 1 ELSE 0
  BY HitsAppend
<1> QED
  BY <1>2, <1>3, <1>4, <1>5

LEMMA BatchesTail ==
  ASSUME NEW w \in Seq(Seq(Records)), w # <<>>, NEW e
  PROVE  BatchesWith(w, e) = BatchesWith(Tail(w), e) + IF e \in Range(Head(w)) THEN 1 ELSE 0
<1> DEFINE P == {x \in Seq(Records) : e \in Range(x)}
<1>1. Tail(w) \in Seq(Seq(Records)) /\ Head(w) \in Seq(Records)
  BY HeadTailProperties
<1>2. BatchesWith(w, e) = Hits(w, P)
  BY BatchesAreHits
<1>3. BatchesWith(Tail(w), e) = Hits(Tail(w), P)
  BY <1>1, BatchesAreHits
<1>4. Head(w) \in P <=> e \in Range(Head(w))
  BY <1>1
<1> HIDE DEF P
<1>5. Hits(w, P) = Hits(Tail(w), P) + IF Head(w) \in P THEN 1 ELSE 0
  BY HitsTail
<1> QED
  BY <1>2, <1>3, <1>4, <1>5

LEMMA SendsNat ==
  ASSUME NEW l, IsFiniteSet(l), NEW e
  PROVE  IsFiniteSet({b \in l : e \in Range(b)}) /\ SendsWith(l, e) \in Nat
<1>1. {b \in l : e \in Range(b)} \in SUBSET l
  OBVIOUS
<1>2. IsFiniteSet({b \in l : e \in Range(b)})
  BY <1>1, FS_Subset
<1> QED
  BY <1>2, FS_CardinalityType DEF SendsWith

LEMMA SendsEmpty ==
  \A e : SendsWith({}, e) = 0
<1> TAKE e
<1>1. {b \in {} : e \in Range(b)} = {}
  OBVIOUS
<1> QED
  BY <1>1, FS_EmptySet DEF SendsWith

LEMMA SendsAdd ==
  ASSUME NEW l, IsFiniteSet(l), NEW b, NEW e
  PROVE  SendsWith(l \cup {b}, e) <= SendsWith(l, e) + IF e \in Range(b) THEN 1 ELSE 0
<1> DEFINE T == {x \in l : e \in Range(x)}
<1>1. IsFiniteSet(T) /\ Cardinality(T) \in Nat /\ SendsWith(l, e) = Cardinality(T)
  BY SendsNat DEF SendsWith
<1>2. CASE e \in Range(b)
  <2>1. {x \in l \cup {b} : e \in Range(x)} = T \cup {b}
    BY <1>2
  <2> HIDE DEF T
  <2>2. Cardinality(T \cup {b}) <= Cardinality(T) + 1
    <3>1. Cardinality(T \cup {b}) = IF b \in T THEN Cardinality(T) ELSE Cardinality(T) + 1
      BY <1>1, FS_AddElement
    <3> QED
      BY <1>1, <3>1
  <2>3. SendsWith(l \cup {b}, e) = Cardinality(T \cup {b})
    BY <2>1 DEF SendsWith
  <2> QED
    BY <1>1, <1>2, <2>2, <2>3
<1>3. CASE e \notin Range(b)
  <2>1. {x \in l \cup {b} : e \in Range(x)} = T
    BY <1>3
  <2>2. SendsWith(l \cup {b}, e) = Cardinality(T)
    BY <2>1 DEF SendsWith
  <2> QED
    BY <1>1, <1>3, <2>2
<1> QED
  BY <1>2, <1>3

LEMMA SendsRemove ==
  ASSUME NEW l, IsFiniteSet(l), NEW b \in l, NEW e
  PROVE  SendsWith(l, e) = SendsWith(l \ {b}, e) + IF e \in Range(b) THEN 1 ELSE 0
<1> DEFINE T == {x \in l : e \in Range(x)}
<1>1. IsFiniteSet(T) /\ Cardinality(T) \in Nat /\ SendsWith(l, e) = Cardinality(T)
  BY SendsNat DEF SendsWith
<1>2. {x \in l \ {b} : e \in Range(x)} = T \ {b} /\ (b \in T <=> e \in Range(b))
  OBVIOUS
<1> HIDE DEF T
<1>3. SendsWith(l \ {b}, e) = Cardinality(T \ {b})
  BY <1>2 DEF SendsWith
<1>4. Cardinality(T \ {b}) = IF b \in T THEN Cardinality(T) - 1 ELSE Cardinality(T)
  BY <1>1, FS_RemoveElement
<1> QED
  BY <1>1, <1>2, <1>3, <1>4

\* The parts Copies adds up.
CopyParts ==
    \A e \in Plugin :
        /\ Copies(e) = Count(ring, e) + Count(batch, e) + Count(hand, e)
                        + workers[e] + orphans[e] + taken[e]
                        + BatchesWith(wire, e) + SendsWith(late, e)
        /\ Count(ring, e) \in Nat /\ Count(batch, e) \in Nat /\ Count(hand, e) \in Nat
        /\ workers[e] \in Nat /\ orphans[e] \in Nat /\ taken[e] \in Nat
        /\ BatchesWith(wire, e) \in Nat /\ SendsWith(late, e) \in Nat
        /\ Copies(e) \in Nat

LEMMA PartsHold ==
  TypeInv => CopyParts
<1> SUFFICES ASSUME TypeInv, NEW e \in Plugin
             PROVE  CopyParts!(e)
  BY DEF CopyParts
<1>1. /\ ring \in Seq(Records) /\ batch \in Seq(Records) /\ hand \in Seq(Records)
      /\ workers \in [Records -> 0..MaxWorkers] /\ orphans \in [Plugin -> Nat]
      /\ taken \in [Plugin -> Nat] /\ wire \in Seq(Seq(Records)) /\ IsFiniteSet(late)
      /\ e \in Records
  BY RecordTypes DEF TypeInv, AgentTypes, TypeOK, CenterTypeOK
<1>2. Count(ring, e) \in Nat /\ Count(batch, e) \in Nat /\ Count(hand, e) \in Nat
  BY <1>1, CountNat
<1>3. workers[e] \in Nat /\ orphans[e] \in Nat /\ taken[e] \in Nat
  BY <1>1
<1>4. BatchesWith(wire, e) \in Nat /\ SendsWith(late, e) \in Nat
  BY <1>1, BatchesNat, SendsNat
<1>5. Copies(e) = Count(ring, e) + Count(batch, e) + Count(hand, e)
                  + workers[e] + orphans[e] + taken[e]
                  + BatchesWith(wire, e) + SendsWith(late, e)
  BY DEF Copies, BatchesWith, SendsWith
<1> QED
  BY <1>2, <1>3, <1>4, <1>5

LEMMA PartsHoldNext ==
  TypeInv' => CopyParts'
BY PartsHold, PTL

\* The Agent's copies and the AgentCenter's.
LEMMA AddsUp ==
  ASSUME TypeInv, TypeInv', NEW e \in Plugin,
         NEW d \in Int,
         Count(hand', e) + workers'[e] + orphans'[e] + taken'[e]
            <= Count(hand, e) + workers[e] + orphans[e] + taken[e] + d,
         Count(ring', e) + Count(batch', e) + BatchesWith(wire', e) + SendsWith(late', e) + d
            <= Count(ring, e) + Count(batch, e) + BatchesWith(wire, e) + SendsWith(late, e)
  PROVE  Copies(e)' <= Copies(e)
<1>1. /\ Copies(e) = Count(ring, e) + Count(batch, e) + Count(hand, e)
                      + workers[e] + orphans[e] + taken[e]
                      + BatchesWith(wire, e) + SendsWith(late, e)
      /\ Count(ring, e) \in Nat /\ Count(batch, e) \in Nat /\ Count(hand, e) \in Nat
      /\ workers[e] \in Nat /\ orphans[e] \in Nat /\ taken[e] \in Nat
      /\ BatchesWith(wire, e) \in Nat /\ SendsWith(late, e) \in Nat
  BY PartsHold DEF CopyParts
<1>2. /\ Copies(e)' = Count(ring', e) + Count(batch', e) + Count(hand', e)
                      + workers'[e] + orphans'[e] + taken'[e]
                      + BatchesWith(wire', e) + SendsWith(late', e)
      /\ Count(ring', e) \in Nat /\ Count(batch', e) \in Nat /\ Count(hand', e) \in Nat
      /\ workers'[e] \in Nat /\ orphans'[e] \in Nat /\ taken'[e] \in Nat
      /\ BatchesWith(wire', e) \in Nat /\ SendsWith(late', e) \in Nat
  BY PartsHoldNext DEF CopyParts
<1> QED
  BY <1>1, <1>2

LEMMA AgentMoves ==
  ASSUME TypeInv, TypeInv', NEW e \in Plugin, UNCHANGED <<hand, workers, orphans, taken>>,
         Count(ring', e) + Count(batch', e) + BatchesWith(wire', e) + SendsWith(late', e)
            <= Count(ring, e) + Count(batch, e) + BatchesWith(wire, e) + SendsWith(late, e)
  PROVE  Copies(e)' <= Copies(e)
<1>1. /\ Count(hand, e) \in Nat /\ workers[e] \in Nat /\ orphans[e] \in Nat
      /\ taken[e] \in Nat
      /\ Count(ring', e) \in Nat /\ Count(batch', e) \in Nat
      /\ BatchesWith(wire', e) \in Nat /\ SendsWith(late', e) \in Nat
  BY PartsHold, PartsHoldNext DEF CopyParts
<1>2. Count(hand', e) + workers'[e] + orphans'[e] + taken'[e]
            <= Count(hand, e) + workers[e] + orphans[e] + taken[e] + 0
  BY <1>1
<1>3. Count(ring', e) + Count(batch', e) + BatchesWith(wire', e) + SendsWith(late', e) + 0
         <= Count(ring, e) + Count(batch, e) + BatchesWith(wire, e) + SendsWith(late, e)
  BY <1>1
<1> QED
  BY <1>2, <1>3, AddsUp

\* The log holds an event once.  Until it is written a record has no copy and is
\* not in the log; one that is not in the log has one copy; one that is has one for
\* each replay that failed, and one more when the replay has gone past it.  No
\* batch holds a record twice.
Unread(e) == \E i \in DOMAIN file : i >= pos /\ file[i] = e
Pending(e) == writer[e] \in {"new", "log", "header"}
Single(b) == \A e \in Plugin : Count(b, e) <= 1
Bounded ==
    /\ \A e \in Plugin : Pending(e) => Copies(e) = 0 /\ e \notin logged
    /\ \A e \in Plugin : e \notin logged => Copies(e) <= 1
    /\ \A e \in logged : Copies(e) <= aborted + IF Unread(e) THEN 0 ELSE 1
FileOnce ==
    /\ \A i, j \in DOMAIN file : file[i] = file[j] /\ file[i] # Torn => i = j
    /\ Range(file) \subseteq logged \cup {Torn}
Singles ==
    /\ Single(ring) /\ Single(batch)
    /\ \A b \in late : Single(b)
    /\ \A i \in DOMAIN wire : Single(wire[i])
OnceInv == Bounded /\ FileOnce /\ Singles

LEMMA OnceInit ==
  CenterInit => OnceInv
<1> SUFFICES ASSUME CenterInit PROVE OnceInv
  OBVIOUS
<1>1. /\ ring = <<>> /\ batch = <<>> /\ hand = <<>> /\ wire = <<>> /\ late = {}
      /\ file = <<>> /\ logged = {}
      /\ \A e \in Plugin : workers[e] = 0 /\ orphans[e] = 0 /\ taken[e] = 0
  BY RecordTypes DEF CenterInit, Init
<1>2. DOMAIN <<>> = {} /\ Range(<<>>) = {}
  BY DEF Range
<1>3. \A e \in Plugin : Copies(e) = 0
  <2> TAKE e \in Plugin
  <2>1. /\ Count(<<>>, e) = 0 /\ BatchesWith(<<>>, e) = 0 /\ SendsWith({}, e) = 0
    BY CountEmpty, BatchesEmpty, SendsEmpty
  <2>2. CopyParts
    BY TypesInit, PartsHold
  <2>3. /\ Count(ring, e) = 0 /\ Count(batch, e) = 0 /\ Count(hand, e) = 0
        /\ workers[e] = 0 /\ orphans[e] = 0 /\ taken[e] = 0
        /\ BatchesWith(wire, e) = 0 /\ SendsWith(late, e) = 0
    BY <1>1, <2>1
  <2> QED
    BY <2>2, <2>3 DEF CopyParts
<1>4. Bounded
  BY <1>1, <1>3 DEF Bounded
<1>5. FileOnce
  BY <1>1, <1>2 DEF FileOnce
<1>6. Singles
  BY <1>1, <1>2, CountEmpty DEF Singles, Single
<1> QED
  BY <1>4, <1>5, <1>6 DEF OnceInv

\* A step that adds no copy, to the log neither.
LEMMA NoMore ==
  ASSUME TypeInv, TypeInv', OnceInv,
         \A e \in Plugin : Copies(e)' <= Copies(e),
         \A e \in Plugin : Pending(e)' => Pending(e),
         logged' = logged, aborted' >= aborted,
         \A e \in logged : Unread(e)' => Unread(e) \/ aborted' >= aborted + 1
  PROVE  Bounded'
<1>1. /\ aborted \in Nat /\ aborted' \in Nat /\ logged \subseteq Plugin
      /\ \A e \in Plugin : Copies(e) \in Nat /\ Copies(e)' \in Nat
  BY PartsHold, PartsHoldNext, RecordTypes DEF CopyParts, TypeInv, AgentTypes, TypeOK
<1>2. ASSUME NEW e \in Plugin
      PROVE  /\ Pending(e)' => Copies(e)' = 0 /\ e \notin logged'
             /\ e \notin logged' => Copies(e)' <= 1
  BY <1>1 DEF OnceInv, Bounded
<1>3. ASSUME NEW e \in logged
      PROVE  Copies(e)' <= aborted' + IF Unread(e)' THEN 0 ELSE 1
  <2>1. e \in Plugin /\ Copies(e) <= aborted + IF Unread(e) THEN 0 ELSE 1
    BY <1>1 DEF OnceInv, Bounded
  <2>2. Copies(e)' <= Copies(e) /\ Copies(e) \in Nat /\ Copies(e)' \in Nat
    BY <1>1, <2>1
  <2>3. CASE Unread(e)'
    BY <1>1, <2>1, <2>2, <2>3
  <2>4. CASE ~Unread(e)'
    BY <1>1, <2>1, <2>2, <2>4
  <2> QED
    BY <2>3, <2>4
<1> QED
  BY <1>2, <1>3 DEF Bounded

\* The log without its torn entries, and how far it is read, decide on Unread.
LEMMA SameLog ==
  ASSUME UNCHANGED <<file, logged, pos>>, FileOnce
  PROVE  FileOnce' /\ \A e : Unread(e)' <=> Unread(e)
BY DEF FileOnce, Unread

LEMMA OnceWriters ==
  ASSUME TypeInv, TypeInv', LogInv, OnceInv,
         \/ \E e \in Plugin : Write(e)
         \/ \E e \in Edr : Log(e) \/ LogTears(e)
         \/ Beat,
         UNCHANGED center
  PROVE  OnceInv'
<1>0. /\ writer \in [Plugin -> {"new", "log", "header", "done"}]
      /\ ring \in Seq(Records) /\ file \in Seq(Edr \cup {Torn}) /\ Edr \subseteq Plugin
      /\ Plugin \subseteq Records /\ Heartbeat \in Records /\ Heartbeat \notin Plugin
      /\ Torn \notin Plugin /\ logged \subseteq Edr /\ aborted \in Nat
  BY RecordTypes DEF TypeInv, AgentTypes, TypeOK
<1>a. CopyParts /\ CopyParts'
  BY PartsHold, PartsHoldNext
<1>b. Bounded /\ FileOnce /\ Singles
  BY DEF OnceInv
<1>c. UNCHANGED <<hand, workers, orphans, taken>>
  BY DEF center
<1> USE DEF log, send, Transport, Go, Fault
<1>1. ASSUME NEW e \in Plugin, Write(e)
      PROVE  OnceInv'
  <2>1. /\ writer[e] = "new"
        /\ UNCHANGED <<file, logged, pos, batch, wire, late, aborted>>
    BY <1>1 DEF Write
  <2>2. \A x \in Plugin : Pending(x)' => Pending(x)
    BY <1>0, <1>1 DEF Write, Pending
  <2>3. FileOnce' /\ \A x : Unread(x)' <=> Unread(x)
    BY <1>b, <2>1, SameLog
  <2>4. CASE Len(ring) < RingSize
    <3>1. ring' = Append(ring, e) /\ writer' = [writer EXCEPT ![e] = "done"]
      BY <1>1, <2>4 DEF Write
    <3>2. Copies(e) = 0 /\ e \notin logged
      BY <1>b, <2>1 DEF Bounded, Pending
    <3>3. \A x \in Plugin : Count(ring', x) = Count(ring, x) + IF e = x THEN 1 ELSE 0
      BY <1>0, <3>1, CountAppend
    <3>4. \A x \in Plugin : Copies(x)' = Copies(x) + IF e = x THEN 1 ELSE 0
      <4> TAKE x \in Plugin
      <4>1. Count(ring', x) = Count(ring, x) + IF e = x THEN 1 ELSE 0
        BY <3>3
      <4>2. CASE e = x
        BY <1>a, <1>c, <2>1, <4>1, <4>2 DEF CopyParts
      <4>3. CASE e # x
        BY <1>a, <1>c, <2>1, <4>1, <4>3 DEF CopyParts
      <4> QED
        BY <4>2, <4>3
    <3>5. Count(ring, e) = 0
      <4>1. /\ Copies(e) = Count(ring, e) + Count(batch, e) + Count(hand, e)
                            + workers[e] + orphans[e] + taken[e]
                            + BatchesWith(wire, e) + SendsWith(late, e)
            /\ Count(ring, e) \in Nat /\ Count(batch, e) \in Nat /\ Count(hand, e) \in Nat
            /\ workers[e] \in Nat /\ orphans[e] \in Nat /\ taken[e] \in Nat
            /\ BatchesWith(wire, e) \in Nat /\ SendsWith(late, e) \in Nat
        BY <1>a DEF CopyParts
      <4> QED
        BY SMTT(30), <3>2, <4>1
    <3>6. Singles'
      BY <1>b, <2>1, <3>3, <3>5, <1>a DEF Singles, Single, CopyParts
    <3>7. Bounded'
      <4>1. ~Pending(e)'
        BY <1>0, <3>1 DEF Pending
      <4>2. ASSUME NEW x \in Plugin
            PROVE  /\ Pending(x)' => Copies(x)' = 0 /\ x \notin logged'
                   /\ x \notin logged' => Copies(x)' <= 1
        <5>1. Copies(x) \in Nat
          BY <1>a DEF CopyParts
        <5>2. CASE x = e
          BY <2>1, <3>2, <3>4, <4>1, <5>2
        <5>3. CASE x # e
          BY <1>b, <2>1, <2>2, <3>4, <5>1, <5>3 DEF Bounded
        <5> QED
          BY <5>2, <5>3
      <4>3. ASSUME NEW x \in logged
            PROVE  Copies(x)' <= aborted' + IF Unread(x)' THEN 0 ELSE 1
        <5>1. x # e /\ x \in Plugin
          BY <1>0, <3>2
        <5>2. Copies(x) \in Nat /\ Copies(x)' = Copies(x)
          BY <1>a, <3>4, <5>1 DEF CopyParts
        <5>3. Copies(x) <= aborted + IF Unread(x) THEN 0 ELSE 1
          BY <1>b DEF Bounded
        <5> QED
          BY <2>1, <2>3, <5>2, <5>3
      <4> QED
        BY <2>1, <4>2, <4>3 DEF Bounded
    <3> QED
      BY <2>3, <3>6, <3>7 DEF OnceInv
  <2>5. CASE ~(Len(ring) < RingSize)
    <3>1. ring' = ring
      BY <1>1, <2>5 DEF Write
    <3>2. \A x \in Plugin : Copies(x)' <= Copies(x)
      BY <1>a, <1>c, <2>1, <3>1 DEF CopyParts
    <3>3. Bounded'
      BY <1>0, <2>1, <2>2, <2>3, <3>2, NoMore
    <3>4. Singles'
      BY <1>b, <2>1, <3>1 DEF Singles, Single
    <3> QED
      BY <2>3, <3>3, <3>4 DEF OnceInv
  <2> QED
    BY <2>4, <2>5
<1>2. ASSUME NEW e \in Edr, LogFull(e) \/ LogHeader(e)
      PROVE  OnceInv'
  <2>1. UNCHANGED <<ring, file, logged, pos, batch, wire, late, aborted>>
    BY <1>2 DEF LogFull, LogHeader
  <2>2. \A x \in Plugin : Pending(x)' => Pending(x)
    BY <1>0, <1>2 DEF LogFull, LogHeader, Pending
  <2>3. FileOnce' /\ \A x : Unread(x)' <=> Unread(x)
    BY <1>b, <2>1, SameLog
  <2>4. \A x \in Plugin : Copies(x)' <= Copies(x)
    BY <1>a, <1>c, <2>1 DEF CopyParts
  <2>5. Bounded'
    BY <1>0, <2>1, <2>2, <2>3, <2>4, NoMore
  <2>6. Singles'
    BY <1>b, <2>1 DEF Singles, Single
  <2> QED
    BY <2>3, <2>5, <2>6 DEF OnceInv
<1>3. CASE Beat
  <2>1. UNCHANGED <<writer, file, logged, pos, batch, wire, late, aborted>>
    BY <1>3 DEF Beat
  <2>2. FileOnce' /\ \A x : Unread(x)' <=> Unread(x)
    BY <1>b, <2>1, SameLog
  <2>3. \A x \in Plugin : Count(ring', x) <= Count(ring, x)
    <3> TAKE x \in Plugin
    <3>1. Heartbeat # x
      BY <1>0
    <3>2. Count(Append(ring, Heartbeat), x) = Count(ring, x) + IF Heartbeat = x THEN 1 ELSE 0
      BY <1>0, CountAppend
    <3>3. Count([ring EXCEPT ![1] = Heartbeat], x) <= Count(ring, x)
      BY <1>0, <3>1, CountReplaced
    <3>4. ring' = Append(ring, Heartbeat) \/ ring' = [ring EXCEPT ![1] = Heartbeat]
      BY <1>3 DEF Beat
    <3>5. Count(ring, x) \in Nat
      BY <1>a DEF CopyParts
    <3>6. CASE ring' = Append(ring, Heartbeat)
      BY <3>1, <3>2, <3>5, <3>6
    <3> QED
      BY <3>3, <3>4, <3>6
  <2>4. \A x \in Plugin : Copies(x)' <= Copies(x)
    BY <1>a, <1>c, <2>1, <2>3 DEF CopyParts
  <2>5. Bounded'
    <3>1. \A x \in Plugin : Pending(x)' => Pending(x)
      BY <2>1 DEF Pending
    <3> QED
      BY <1>0, <2>1, <2>2, <2>4, <3>1, NoMore
  <2>6. Singles'
    BY <1>a, <1>b, <2>1, <2>3 DEF Singles, Single, CopyParts
  <2> QED
    BY <2>2, <2>5, <2>6 DEF OnceInv
<1>4. ASSUME NEW e \in Edr, LogData(e) \/ LogTears(e)
      PROVE  OnceInv'
  <2>1. /\ writer[e] = "header" /\ writer' = [writer EXCEPT ![e] = "done"]
        /\ UNCHANGED <<ring, pos, batch, wire, late, aborted>>
    BY <1>4 DEF LogData, LogTears
  <2>2. Copies(e) = 0 /\ e \notin logged /\ e \notin Range(file)
    <3>1. Pending(e)
      BY <2>1 DEF Pending
    <3> QED
      BY <1>0, <1>b, <3>1 DEF Bounded, FileOnce
  <2>3. pos = 1
    BY <1>0, <2>1 DEF LogInv, Swept
  <2>4. PICK x \in {e, Torn} :
           /\ file' = Append(file, x)
           /\ logged' = IF x = e THEN logged \cup {e} ELSE logged
    BY <1>0, <1>4 DEF LogData, LogTears
  <2>5. /\ DOMAIN file = 1..Len(file) /\ Len(file) \in Nat
        /\ DOMAIN file' = 1..(Len(file) + 1)
        /\ \A i \in 1..Len(file) : file'[i] = file[i]
        /\ file'[Len(file) + 1] = x
    <3>1. /\ file' \in Seq(Edr \cup {Torn}) /\ Len(file') = Len(file) + 1
          /\ \A i \in 1..Len(file) : file'[i] = file[i]
          /\ file'[Len(file) + 1] = x
      BY <1>0, <2>4, AppendProperties
    <3>2. Len(file) \in Nat /\ DOMAIN file = 1..Len(file)
      BY <1>0, LenProperties
    <3>3. DOMAIN file' = 1..Len(file')
      BY <3>1, LenProperties
    <3> QED
      BY <3>1, <3>2, <3>3
  <2>6. \A y \in Plugin : Copies(y)' = Copies(y)
    BY <1>a, <1>c, <2>1 DEF CopyParts
  <2>7. FileOnce'
    <3>1. Range(file') = Range(file) \cup {x}
      BY <2>5 DEF Range
    <3>2. Range(file') \subseteq logged' \cup {Torn}
      BY <1>b, <2>4, <3>1 DEF FileOnce
    <3>3. x = Torn \/ x \notin Range(file)
      BY <2>2
    <3>4. ASSUME NEW i \in DOMAIN file', NEW j \in DOMAIN file',
                 file'[i] = file'[j], file'[i] # Torn
          PROVE  i = j
      <4>1. CASE i \in DOMAIN file /\ j \in DOMAIN file
        BY <1>b, <2>5, <3>4, <4>1 DEF FileOnce
      <4>2. CASE i \in DOMAIN file /\ j = Len(file) + 1
        BY <2>5, <3>3, <3>4, <4>2 DEF Range
      <4>3. CASE j \in DOMAIN file /\ i = Len(file) + 1
        BY <2>5, <3>3, <3>4, <4>3 DEF Range
      <4> QED
        BY <2>5, <4>1, <4>2, <4>3
    <3> QED
      BY <3>2, <3>4 DEF FileOnce
  <2>8. \A y \in logged : Unread(y)' => Unread(y)
    <3> TAKE y \in logged
    <3>1. y # x
      BY <1>0, <2>2, <2>4
    <3> QED
      BY <2>1, <2>5, <3>1 DEF Unread
  <2>9. Bounded'
    <3>1. ASSUME NEW y \in Plugin
          PROVE  /\ Pending(y)' => Copies(y)' = 0 /\ y \notin logged'
                 /\ y \notin logged' => Copies(y)' <= 1
      <4>1. CASE y = e
        BY <1>0, <2>1, <2>2, <2>6, <4>1 DEF Pending
      <4>2. CASE y # e
        BY <1>0, <1>b, <2>1, <2>4, <2>6, <4>2 DEF Pending, Bounded
      <4> QED
        BY <4>1, <4>2
    <3>2. ASSUME NEW y \in logged'
          PROVE  Copies(y)' <= aborted' + IF Unread(y)' THEN 0 ELSE 1
      <4>1. CASE y = e
        BY <1>0, <2>1, <2>2, <2>6, <4>1
      <4>2. CASE y # e
        <5>1. y \in logged /\ y \in Plugin
          BY <1>0, <2>4, <4>2
        <5>2. /\ Copies(y) <= aborted + IF Unread(y) THEN 0 ELSE 1
              /\ Copies(y) \in Nat /\ Copies(y)' = Copies(y) /\ aborted' = aborted
          BY <1>a, <1>b, <2>1, <2>6, <5>1 DEF Bounded, CopyParts
        <5>3. Unread(y)' => Unread(y)
          BY <2>8, <5>1
        <5> QED
          BY <1>0, <5>2, <5>3
      <4> QED
        BY <4>1, <4>2
    <3> QED
      BY <3>1, <3>2 DEF Bounded
  <2>10. Singles'
    BY <1>b, <2>1 DEF Singles, Single
  <2> QED
    BY <2>7, <2>9, <2>10 DEF OnceInv
<1> QED
  BY <1>1, <1>2, <1>3, <1>4 DEF Log

\* A batch of the log holds no event twice.
LEMMA BatchSingle ==
  ASSUME AgentTypes, FileOnce, NEW last \in BatchEnds
  PROVE  Single(SubSeq(file, pos, last))
<1> DEFINE b == SubSeq(file, pos, last)
<1>1. /\ last \in Nat /\ last >= pos /\ last <= Len(file) /\ b \in Seq(Records)
      /\ Len(b) = last - pos + 1
      /\ \A i \in 1..(last - pos + 1) : b[i] = file[pos + i - 1]
      /\ \A i \in pos..last : file[i] \in Edr
  BY BatchSound
<1>2. pos \in Nat /\ pos >= 1 /\ Len(file) \in Nat /\ DOMAIN file = 1..Len(file)
  BY LenProperties DEF AgentTypes, TypeOK
<1>3. DOMAIN b = 1..(last - pos + 1)
  BY <1>1, LenProperties
<1> HIDE DEF b
<1>4. ASSUME NEW e \in Plugin
      PROVE  Count(b, e) <= 1
  <2>1. ASSUME NEW i \in DOMAIN b, NEW j \in DOMAIN b, b[i] \in {e}, b[j] \in {e}
        PROVE  i = j
    <3>1. /\ pos + i - 1 \in DOMAIN file /\ pos + j - 1 \in DOMAIN file
          /\ file[pos + i - 1] = e /\ file[pos + j - 1] = e
      BY SMTT(30), <1>1, <1>2, <1>3, <2>1
    <3>2. pos + i - 1 = pos + j - 1
      BY <3>1, RecordTypes DEF FileOnce
    <3> QED
      BY <1>2, <1>3, <3>2
  <2>2. Hits(b, {e}) <= 1
    BY <1>1, <2>1, HitsOnce
  <2> QED
    BY <2>2, CountIsHits
<1> QED
  BY <1>4 DEF Single, b

\* What is in a batch was waiting in the log.
LEMMA BatchUnread ==
  ASSUME AgentTypes, FileOnce, NEW last \in BatchEnds,
         NEW e \in Plugin, e \in Range(SubSeq(file, pos, last))
  PROVE  /\ e \in logged /\ Unread(e)
         /\ \E i \in DOMAIN file : i >= pos /\ i <= last /\ file[i] = e
<1> DEFINE b == SubSeq(file, pos, last)
<1>1. /\ last \in Nat /\ last >= pos /\ last <= Len(file) /\ b \in Seq(Records)
      /\ Len(b) = last - pos + 1
      /\ \A i \in 1..(last - pos + 1) : b[i] = file[pos + i - 1]
  BY BatchSound
<1>2. pos \in Nat /\ pos >= 1 /\ Len(file) \in Nat /\ DOMAIN file = 1..Len(file)
  BY LenProperties DEF AgentTypes, TypeOK
<1>3. DOMAIN b = 1..(last - pos + 1)
  BY <1>1, LenProperties
<1>4. e \in Range(b)
  OBVIOUS
<1> HIDE DEF b
<1>5. PICK k \in 1..(last - pos + 1) : e = b[k]
  BY <1>3, <1>4 DEF Range
<1>6. PICK i \in DOMAIN file : i >= pos /\ i <= last /\ file[i] = e
  <2>1. pos + k - 1 \in DOMAIN file /\ pos + k - 1 >= pos /\ pos + k - 1 <= last
    BY <1>1, <1>2
  <2>2. file[pos + k - 1] = e
    BY <1>1, <1>5
  <2> QED
    BY <2>1, <2>2
<1>7. e \in logged
  BY <1>6, RecordTypes DEF FileOnce, Range
<1> QED
  BY <1>6, <1>7 DEF Unread

LEMMA OnceMain ==
  ASSUME TypeInv, TypeInv', LogInv, OnceInv, Main, UNCHANGED center
  PROVE  OnceInv'
<1>0. /\ file \in Seq(Edr \cup {Torn}) /\ wire \in Seq(Seq(Records))
      /\ IsFiniteSet(late) /\ aborted \in Nat /\ pos \in Nat /\ pos >= 1
      /\ Torn \notin Plugin /\ Edr \subseteq Plugin /\ logged \subseteq Edr /\ AgentTypes
      /\ DOMAIN file = 1..Len(file) /\ Len(file) \in Nat
  BY RecordTypes, LenProperties DEF TypeInv, AgentTypes, TypeOK
<1>a. CopyParts /\ CopyParts'
  BY PartsHold, PartsHoldNext
<1>b. Bounded /\ FileOnce /\ Singles
  BY DEF OnceInv
<1>c. UNCHANGED <<hand, workers, orphans, taken>>
  BY DEF center
<1> USE DEF log, send, Fault, Serve
<1>d. UNCHANGED <<writer, ring, batch, logged>>
  BY DEF Main, Dial, Purge, ReplaySend, ReplayFails, ReadTorn, Truncate, Reconnect
<1>e. \A e \in Plugin : Pending(e)' => Pending(e)
  BY <1>d DEF Pending
<1>1. CASE Dial \/ Purge \/ Reconnect
  <2>1. UNCHANGED <<file, late, aborted>> /\ (wire' = wire \/ wire' = <<>>)
    BY <1>1 DEF Dial, Purge, Reconnect
  <2>2. UNCHANGED pos
    BY <1>1 DEF Dial, Purge, Reconnect, LogInv, Swept
  <2>3. FileOnce' /\ \A x : Unread(x)' <=> Unread(x)
    BY <1>b, <1>d, <2>1, <2>2, SameLog
  <2>4. \A e \in Plugin : BatchesWith(wire', e) <= BatchesWith(wire, e)
    BY <1>a, <2>1, BatchesEmpty DEF CopyParts
  <2>5. \A e \in Plugin : Copies(e)' <= Copies(e)
    BY SMTT(30), <1>a, <1>c, <1>d, <2>1, <2>4 DEF CopyParts
  <2>6. Bounded'
    BY <1>0, <1>d, <1>e, <2>1, <2>3, <2>5, NoMore
  <2>7. Singles'
    <3>1. DOMAIN <<>> = {}
      OBVIOUS
    <3> QED
      BY <1>b, <1>d, <2>1, <3>1 DEF Singles, Single
  <2> QED
    BY <2>3, <2>6, <2>7 DEF OnceInv
<1>2. CASE ReplaySend
  <2>1. PICK last \in BatchEnds :
           wire' = Append(wire, SubSeq(file, pos, last)) /\ pos' = last + 1
    BY <1>2 DEF ReplaySend
  <2> DEFINE b == SubSeq(file, pos, last)
  <2>2. UNCHANGED <<file, late, aborted>>
    BY <1>2 DEF ReplaySend
  <2>3. /\ last \in Nat /\ last >= pos /\ last <= Len(file) /\ b \in Seq(Records)
        /\ Single(b)
    BY <1>0, <1>b, BatchSound, BatchSingle
  <2>5. wire' = Append(wire, b)
    BY <2>1
  <2> HIDE DEF b
  <2>6. \A e \in Plugin : BatchesWith(wire', e)
                           = BatchesWith(wire, e) + IF e \in Range(b) THEN 1 ELSE 0
    BY <1>0, <2>3, <2>5, BatchesAppend
  <2>7. \A e \in Plugin : /\ e \in Range(b) => Copies(e)' = Copies(e) + 1
                          /\ e \notin Range(b) => Copies(e)' = Copies(e)
    <3> TAKE e \in Plugin
    <3>1. BatchesWith(wire', e) = BatchesWith(wire, e) + IF e \in Range(b) THEN 1 ELSE 0
      BY <2>6
    <3>2. CASE e \in Range(b)
      BY <1>a, <1>c, <1>d, <2>2, <3>1, <3>2 DEF CopyParts
    <3>3. CASE e \notin Range(b)
      BY <1>a, <1>c, <1>d, <2>2, <3>1, <3>3 DEF CopyParts
    <3> QED
      BY <3>2, <3>3
  <2>8. \A e \in Plugin : e \in Range(b) => e \in logged /\ Unread(e) /\ ~Unread(e)'
    <3> SUFFICES ASSUME NEW e \in Plugin, e \in Range(b)
                 PROVE  e \in logged /\ Unread(e) /\ ~Unread(e)'
      OBVIOUS
    <3>1. /\ e \in logged /\ Unread(e)
          /\ \E i \in DOMAIN file : i >= pos /\ i <= last /\ file[i] = e
      BY <1>0, <1>b, BatchUnread DEF b
    <3>2. PICK i \in DOMAIN file : i >= pos /\ i <= last /\ file[i] = e
      BY <3>1
    <3>3. ~Unread(e)'
      <4>1. ASSUME NEW j \in DOMAIN file, j >= last + 1, file[j] = e
            PROVE  FALSE
        <5>1. j = i
          BY <1>0, <1>b, <3>2, <4>1 DEF FileOnce
        <5> QED
          BY <1>0, <2>3, <3>2, <4>1, <5>1
      <4> QED
        BY <2>1, <2>2, <4>1 DEF Unread
    <3> QED
      BY <3>1, <3>3
  <2>9. \A e : Unread(e)' => Unread(e)
    BY <1>0, <2>1, <2>2, <2>3 DEF Unread
  <2>10. Bounded'
    <3>1. ASSUME NEW e \in Plugin
          PROVE  /\ Pending(e)' => Copies(e)' = 0 /\ e \notin logged'
                 /\ e \notin logged' => Copies(e)' <= 1
      BY <1>b, <1>d, <1>e, <2>7, <2>8 DEF Bounded
    <3>2. ASSUME NEW e \in logged
          PROVE  Copies(e)' <= aborted' + IF Unread(e)' THEN 0 ELSE 1
      <4>1. /\ e \in Plugin /\ Copies(e) \in Nat /\ aborted' = aborted
            /\ Copies(e) <= aborted + IF Unread(e) THEN 0 ELSE 1
        BY <1>0, <1>a, <1>b, <2>2 DEF Bounded, CopyParts
      <4>2. CASE e \in Range(b)
        <5>1. Unread(e) /\ ~Unread(e)' /\ Copies(e)' = Copies(e) + 1
          BY <2>7, <2>8, <4>1, <4>2
        <5> QED
          BY <1>0, <4>1, <5>1
      <4>3. CASE e \notin Range(b)
        <5>1. Copies(e)' = Copies(e) /\ (Unread(e)' => Unread(e))
          BY <2>7, <2>9, <4>1, <4>3
        <5> QED
          BY <1>0, <4>1, <5>1
      <4> QED
        BY <4>2, <4>3
    <3> QED
      BY <1>d, <3>1, <3>2 DEF Bounded
  <2>11. FileOnce'
    BY <1>b, <1>d, <2>2 DEF FileOnce
  <2>12. Singles'
    <3>1. /\ DOMAIN wire = 1..Len(wire) /\ Len(wire) \in Nat
          /\ wire' \in Seq(Seq(Records)) /\ Len(wire') = Len(wire) + 1
          /\ \A i \in 1..Len(wire) : wire'[i] = wire[i]
          /\ wire'[Len(wire) + 1] = b
      BY <1>0, <2>3, <2>5, LenProperties, AppendProperties
    <3>2. DOMAIN wire' = 1..(Len(wire) + 1)
      BY <3>1, LenProperties
    <3>3. \A i \in DOMAIN wire' : Single(wire'[i])
      BY <1>b, <2>3, <3>1, <3>2 DEF Singles
    <3> QED
      BY <1>b, <1>d, <2>2, <3>3 DEF Singles, Single
  <2> QED
    BY <2>10, <2>11, <2>12 DEF OnceInv
<1>3. CASE ReplayFails
  <2>1. PICK last \in BatchEnds : late' = late \/ late' = late \cup {SubSeq(file, pos, last)}
    BY <1>3 DEF ReplayFails
  <2> DEFINE b == SubSeq(file, pos, last)
  <2>2. UNCHANGED <<file, wire>> /\ aborted' = aborted + 1 /\ pos' = 1
    BY <1>3 DEF ReplayFails
  <2>3. Single(b) /\ \A e \in Plugin : e \in Range(b) => e \in logged /\ Unread(e)
    BY <1>0, <1>b, BatchSingle, BatchUnread
  <2>4. late' = late \/ late' = late \cup {b}
    BY <2>1
  <2> HIDE DEF b
  <2>5. \A e \in Plugin : SendsWith(late', e)
                           <= SendsWith(late, e) + IF e \in Range(b) THEN 1 ELSE 0
    <3> TAKE e \in Plugin
    <3>1. SendsWith(late \cup {b}, e) <= SendsWith(late, e) + IF e \in Range(b) THEN 1 ELSE 0
      BY <1>0, SendsAdd
    <3>2. SendsWith(late, e) \in Nat
      BY <1>a DEF CopyParts
    <3>3. CASE late' = late
      BY <3>2, <3>3
    <3> QED
      BY <2>4, <3>1, <3>3
  <2>6. \A e \in Plugin : Copies(e)' <= Copies(e) + IF e \in Range(b) THEN 1 ELSE 0
    <3> TAKE e \in Plugin
    <3>1. SendsWith(late', e) <= SendsWith(late, e) + IF e \in Range(b) THEN 1 ELSE 0
      BY <2>5
    <3>2. CASE e \in Range(b)
      BY <1>a, <1>c, <1>d, <2>2, <3>1, <3>2 DEF CopyParts
    <3>3. CASE e \notin Range(b)
      BY <1>a, <1>c, <1>d, <2>2, <3>1, <3>3 DEF CopyParts
    <3> QED
      BY <3>2, <3>3
  <2>7. \A e \in Plugin : Copies(e) \in Nat /\ Copies(e)' \in Nat
    BY <1>a DEF CopyParts
  <2>8. Bounded'
    <3>1. ASSUME NEW e \in Plugin
          PROVE  /\ Pending(e)' => Copies(e)' = 0 /\ e \notin logged'
                 /\ e \notin logged' => Copies(e)' <= 1
      <4>1. CASE e \in logged
        BY <1>b, <1>d, <1>e, <4>1 DEF Bounded
      <4>2. CASE e \notin logged
        <5>1. e \notin Range(b)
          BY <2>3, <4>2
        <5>2. Copies(e)' <= Copies(e)
          BY <2>6, <2>7, <5>1
        <5> QED
          BY <1>b, <1>d, <1>e, <2>7, <4>2, <5>2 DEF Bounded
      <4> QED
        BY <4>1, <4>2
    <3>2. ASSUME NEW e \in logged
          PROVE  Copies(e)' <= aborted' + IF Unread(e)' THEN 0 ELSE 1
      <4>1. /\ e \in Plugin
            /\ Copies(e) <= aborted + IF Unread(e) THEN 0 ELSE 1
        BY <1>0, <1>b DEF Bounded
      <4>2. CASE e \in Range(b)
        <5>1. Unread(e) /\ Copies(e)' <= Copies(e) + 1
          BY <2>3, <2>6, <4>1, <4>2
        <5> QED
          BY <1>0, <2>2, <2>7, <4>1, <5>1
      <4>3. CASE e \notin Range(b)
        <5>1. Copies(e)' <= Copies(e)
          BY <2>6, <2>7, <4>1, <4>3
        <5> QED
          BY <1>0, <2>2, <2>7, <4>1, <5>1
      <4> QED
        BY <4>2, <4>3
    <3> QED
      BY <1>d, <3>1, <3>2 DEF Bounded
  <2>9. FileOnce'
    BY <1>b, <1>d, <2>2 DEF FileOnce
  <2>10. Singles'
    BY <1>b, <1>d, <2>2, <2>3, <2>4 DEF Singles, Single
  <2> QED
    BY <2>8, <2>9, <2>10 DEF OnceInv
<1>4. CASE ReadTorn \/ Truncate
  <2>1. /\ UNCHANGED <<wire, late, aborted>>
        /\ \/ file' = file /\ pos' > pos
           \/ file' = <<>>
    BY <1>0, <1>4 DEF ReadTorn, Truncate
  <2>2. /\ pos' \in Nat /\ DOMAIN <<>> = {} /\ Range(<<>>) = {}
    BY DEF TypeInv, AgentTypes, TypeOK, Range
  <2>3. \A e : Unread(e)' => Unread(e)
    BY <1>0, <2>1, <2>2 DEF Unread
  <2>4. \A e \in Plugin : Copies(e)' <= Copies(e)
    BY <1>a, <1>c, <1>d, <2>1 DEF CopyParts
  <2>5. Bounded'
    BY <1>0, <1>d, <1>e, <2>1, <2>3, <2>4, NoMore
  <2>6. FileOnce'
    BY <1>b, <1>d, <2>1, <2>2 DEF FileOnce
  <2>7. Singles'
    BY <1>b, <1>d, <2>1 DEF Singles, Single
  <2> QED
    BY <2>5, <2>6, <2>7 DEF OnceInv
<1> QED
  BY <1>1, <1>2, <1>3, <1>4 DEF Main

\* A batch put on the stream holds no record twice either.
LEMMA WireSingle ==
  ASSUME NEW w \in Seq(Seq(Records)), NEW b \in Seq(Records), Single(b),
         \A i \in DOMAIN w : Single(w[i])
  PROVE  \A i \in DOMAIN Append(w, b) : Single(Append(w, b)[i])
<1>1. /\ DOMAIN w = 1..Len(w) /\ Len(w) \in Nat
      /\ Append(w, b) \in Seq(Seq(Records)) /\ Len(Append(w, b)) = Len(w) + 1
      /\ \A i \in 1..Len(w) : Append(w, b)[i] = w[i]
      /\ Append(w, b)[Len(w) + 1] = b
  BY LenProperties, AppendProperties
<1>2. DOMAIN Append(w, b) = 1..(Len(w) + 1)
  BY <1>1, LenProperties
<1> QED
  BY <1>1, <1>2

\* A batch counts a record it holds at least once.
LEMMA BatchCounts ==
  ASSUME NEW b \in Seq(Records), NEW e
  PROVE  /\ Count(b, e) \in Nat
         /\ (IF e \in Range(b) THEN 1 ELSE 0) <= Count(b, e)
<1>1. Count(b, e) \in Nat /\ (Count(b, e) = 0 <=> e \notin Range(b))
  BY CountNat
<1>2. CASE e \in Range(b)
  BY <1>1, <1>2
<1>3. CASE e \notin Range(b)
  BY <1>1, <1>3
<1> QED
  BY <1>2, <1>3

LEMMA OnceSend ==
  ASSUME TypeInv, TypeInv', OnceInv, UNCHANGED center,
         SendData \/ (\E b \in late : LateSend(b)) \/ ReceiveFails
  PROVE  OnceInv'
<1>0. /\ ring \in Seq(Records) /\ batch \in Seq(Records) /\ wire \in Seq(Seq(Records))
      /\ late \in SUBSET Seq(Records) /\ IsFiniteSet(late) /\ aborted \in Nat
  BY DEF TypeInv, AgentTypes, TypeOK
<1>a. CopyParts /\ CopyParts'
  BY PartsHold, PartsHoldNext
<1>b. Bounded /\ FileOnce /\ Singles
  BY DEF OnceInv
<1>c. UNCHANGED <<hand, workers, orphans, taken>>
  BY DEF center
<1> USE DEF log, send, Fault
<1>d. UNCHANGED <<writer, file, logged, pos, aborted>>
  BY DEF SendData, Tick, SendBatch, SendFails, LateSend, ReceiveFails
<1>e. \A e \in Plugin : Pending(e)' => Pending(e)
  BY <1>d DEF Pending
<1>f. FileOnce' /\ \A x : Unread(x)' <=> Unread(x)
  BY <1>b, <1>d, SameLog
<1>g. SUFFICES (\A e \in Plugin : Copies(e)' <= Copies(e)) /\ Singles'
  <2> SUFFICES ASSUME \A e \in Plugin : Copies(e)' <= Copies(e), Singles'
               PROVE  OnceInv'
    OBVIOUS
  <2>1. Bounded'
    BY <1>0, <1>d, <1>e, <1>f, NoMore
  <2> QED
    BY <1>f, <2>1 DEF OnceInv
<1>1. CASE Tick
  <2>1. batch' = ring /\ ring' = <<>> /\ UNCHANGED <<wire, late>>
    BY <1>1 DEF Tick
  <2>2. \A e \in Plugin : Count(ring', e) = 0 /\ Count(batch', e) = Count(ring, e)
    BY <2>1, CountEmpty
  <2>3. \A e \in Plugin : Copies(e)' <= Copies(e)
    <3> TAKE e \in Plugin
    <3>1. /\ Count(ring, e) \in Nat /\ Count(batch, e) \in Nat
          /\ BatchesWith(wire, e) \in Nat /\ SendsWith(late, e) \in Nat
          /\ BatchesWith(wire', e) \in Nat /\ SendsWith(late', e) \in Nat
      BY <1>a DEF CopyParts
    <3>2. Count(ring', e) + Count(batch', e) + BatchesWith(wire', e) + SendsWith(late', e)
             <= Count(ring, e) + Count(batch, e) + BatchesWith(wire, e) + SendsWith(late, e)
      BY <2>1, <2>2, <3>1
    <3> QED
      BY <1>c, <3>2, AgentMoves
  <2>4. Singles'
    BY <1>b, <2>1, <2>2 DEF Singles, Single
  <2> QED
    BY <2>3, <2>4
<1>2. CASE SendBatch
  <2>1. wire' = Append(wire, batch) /\ batch' = <<>> /\ UNCHANGED <<ring, late>>
    BY <1>2 DEF SendBatch
  <2>2. \A e \in Plugin : /\ Count(batch', e) = 0
                          /\ BatchesWith(wire', e) <= BatchesWith(wire, e) + Count(batch, e)
    <3> TAKE e \in Plugin
    <3>1. BatchesWith(wire', e) = BatchesWith(wire, e) + IF e \in Range(batch) THEN 1 ELSE 0
      BY <1>0, <2>1, BatchesAppend
    <3>2. (IF e \in Range(batch) THEN 1 ELSE 0) <= Count(batch, e)
      BY <1>0, BatchCounts
    <3>3. BatchesWith(wire, e) \in Nat /\ Count(batch, e) \in Nat
      BY <1>a DEF CopyParts
    <3> QED
      BY <2>1, <3>1, <3>2, <3>3, CountEmpty
  <2>3. \A e \in Plugin : Copies(e)' <= Copies(e)
    <3> TAKE e \in Plugin
    <3>1. /\ Count(ring, e) \in Nat /\ Count(batch, e) \in Nat
          /\ BatchesWith(wire, e) \in Nat /\ SendsWith(late, e) \in Nat
          /\ BatchesWith(wire', e) \in Nat /\ SendsWith(late', e) \in Nat
      BY <1>a DEF CopyParts
    <3>2. Count(ring', e) + Count(batch', e) + BatchesWith(wire', e) + SendsWith(late', e)
             <= Count(ring, e) + Count(batch, e) + BatchesWith(wire, e) + SendsWith(late, e)
      BY <2>1, <2>2, <3>1
    <3> QED
      BY <1>c, <3>2, AgentMoves
  <2>4. \A i \in DOMAIN wire' : Single(wire'[i])
    BY <1>0, <1>b, <2>1, WireSingle DEF Singles
  <2>5. Singles'
    BY <1>b, <2>1, <2>2, <2>4 DEF Singles, Single
  <2> QED
    BY <2>3, <2>5
<1>3. CASE SendFails
  <2>1. /\ batch' = <<>> /\ UNCHANGED <<ring, wire>>
        /\ late' = late \/ late' = late \cup {batch}
    BY <1>3 DEF SendFails
  <2>2. \A e \in Plugin : /\ Count(batch', e) = 0
                          /\ SendsWith(late', e) <= SendsWith(late, e) + Count(batch, e)
    <3> TAKE e \in Plugin
    <3>1. SendsWith(late \cup {batch}, e)
             <= SendsWith(late, e) + IF e \in Range(batch) THEN 1 ELSE 0
      BY <1>0, SendsAdd
    <3>2. (IF e \in Range(batch) THEN 1 ELSE 0) <= Count(batch, e)
      BY <1>0, BatchCounts
    <3>3. SendsWith(late, e) \in Nat /\ Count(batch, e) \in Nat /\ SendsWith(late', e) \in Nat
      BY <1>a DEF CopyParts
    <3>4. CASE late' = late
      BY <2>1, <3>3, <3>4, CountEmpty
    <3>5. CASE late' = late \cup {batch}
      BY <2>1, <3>1, <3>2, <3>3, <3>5, CountEmpty
    <3> QED
      BY <2>1, <3>4, <3>5
  <2>3. \A e \in Plugin : Copies(e)' <= Copies(e)
    <3> TAKE e \in Plugin
    <3>1. /\ Count(ring, e) \in Nat /\ Count(batch, e) \in Nat
          /\ BatchesWith(wire, e) \in Nat /\ SendsWith(late, e) \in Nat
          /\ BatchesWith(wire', e) \in Nat /\ SendsWith(late', e) \in Nat
      BY <1>a DEF CopyParts
    <3>2. Count(ring', e) + Count(batch', e) + BatchesWith(wire', e) + SendsWith(late', e)
             <= Count(ring, e) + Count(batch, e) + BatchesWith(wire, e) + SendsWith(late, e)
      BY <2>1, <2>2, <3>1
    <3> QED
      BY <1>c, <3>2, AgentMoves
  <2>4. Singles'
    BY <1>b, <2>1, <2>2 DEF Singles, Single
  <2> QED
    BY <2>3, <2>4
<1>4. ASSUME NEW b \in late, LateSend(b)
      PROVE  (\A e \in Plugin : Copies(e)' <= Copies(e)) /\ Singles'
  <2>1. /\ wire' = Append(wire, b) /\ late' = late \ {b} /\ UNCHANGED <<ring, batch>>
        /\ b \in Seq(Records) /\ Single(b)
    BY <1>0, <1>b, <1>4 DEF LateSend, Singles
  <2>2. \A e \in Plugin : BatchesWith(wire', e) + SendsWith(late', e)
                           = BatchesWith(wire, e) + SendsWith(late, e)
    <3> TAKE e \in Plugin
    <3>1. BatchesWith(wire', e) = BatchesWith(wire, e) + IF e \in Range(b) THEN 1 ELSE 0
      BY <1>0, <2>1, BatchesAppend
    <3>2. SendsWith(late, e) = SendsWith(late', e) + IF e \in Range(b) THEN 1 ELSE 0
      BY <1>0, <2>1, SendsRemove
    <3>3. BatchesWith(wire, e) \in Nat /\ SendsWith(late', e) \in Nat
      BY <1>a DEF CopyParts
    <3> QED
      BY <3>1, <3>2, <3>3
  <2>3. \A e \in Plugin : Copies(e)' <= Copies(e)
    <3> TAKE e \in Plugin
    <3>1. /\ Count(ring, e) \in Nat /\ Count(batch, e) \in Nat
          /\ BatchesWith(wire, e) \in Nat /\ SendsWith(late, e) \in Nat
          /\ BatchesWith(wire', e) \in Nat /\ SendsWith(late', e) \in Nat
      BY <1>a DEF CopyParts
    <3>2. Count(ring', e) + Count(batch', e) + BatchesWith(wire', e) + SendsWith(late', e)
             <= Count(ring, e) + Count(batch, e) + BatchesWith(wire, e) + SendsWith(late, e)
      <4>1. BatchesWith(wire', e) + SendsWith(late', e)
               = BatchesWith(wire, e) + SendsWith(late, e)
        BY <2>2
      <4>2. Count(ring', e) = Count(ring, e) /\ Count(batch', e) = Count(batch, e)
        BY <2>1
      <4> QED
        BY <3>1, <4>1, <4>2
    <3> QED
      BY <1>c, <3>2, AgentMoves
  <2>4. \A i \in DOMAIN wire' : Single(wire'[i])
    BY <1>0, <1>b, <2>1, WireSingle DEF Singles
  <2>5. Singles'
    BY <1>b, <2>1, <2>4 DEF Singles, Single
  <2> QED
    BY <2>3, <2>5
<1>5. CASE ReceiveFails
  <2>1. UNCHANGED <<ring, batch, wire, late>>
    BY <1>5 DEF ReceiveFails
  <2>2. \A e \in Plugin : Copies(e)' <= Copies(e)
    BY <1>a, <1>c, <2>1 DEF CopyParts
  <2>3. Singles'
    BY <1>b, <2>1 DEF Singles, Single
  <2> QED
    BY <2>2, <2>3
<1> QED
  BY <1>1, <1>2, <1>3, <1>4, <1>5 DEF SendData

\* The end of a connection moves copies and drops some.
LEMMA OnceFaults ==
  ASSUME TypeInv, TypeInv', LogInv, OnceInv, Break \/ Crash, EndConnection
  PROVE  OnceInv'
<1>0. /\ hand \in Seq(Records) /\ workers \in [Records -> 0..MaxWorkers]
      /\ file \in Seq(Edr \cup {Torn}) /\ file' \in Seq(Edr \cup {Torn})
      /\ aborted \in Nat /\ pos \in Nat
      /\ writer \in [Plugin -> {"new", "log", "header", "done"}]
      /\ logged \subseteq Plugin /\ Torn \notin Plugin /\ Plugin \subseteq Records
  BY RecordTypes DEF TypeInv, AgentTypes, TypeOK, CenterTypeOK
<1>a. CopyParts /\ CopyParts'
  BY PartsHold, PartsHoldNext
<1>b. Bounded /\ FileOnce /\ Singles
  BY DEF OnceInv
<1> USE DEF log, send, Fault
<1>1. PICK n \in 0..Len(hand) :
         /\ orphans' = [e \in Plugin |->
                           orphans[e] + workers[e] + Count(SubSeq(hand, 1, n), e)]
         /\ workers' = [e \in Records |-> 0]
         /\ hand' = <<>>
         /\ UNCHANGED taken
  BY DEF EndConnection
<1>2. /\ wire' = <<>> /\ late' = {} /\ logged' = logged
      /\ \/ UNCHANGED <<ring, batch>>
         \/ ring' = <<>> /\ batch' = <<>>
  BY DEF Break, Crash
<1>3. \A e \in Plugin : Copies(e)' <= Copies(e)
  <2> TAKE e \in Plugin
  <2>1. Count(SubSeq(hand, 1, n), e) <= Count(hand, e)
    BY <1>0, CountPrefix
  <2>2. SubSeq(hand, 1, n) \in Seq(Records)
    <3>1. \A i \in 1..n : hand[i] \in Records
      BY <1>0, LenProperties
    <3> QED
      BY <3>1, SubSeqProperties
  <2>3. Count(SubSeq(hand, 1, n), e) \in Nat
    BY <2>2, CountNat
  <2>4. /\ workers'[e] = 0
        /\ orphans'[e] = orphans[e] + workers[e] + Count(SubSeq(hand, 1, n), e)
        /\ taken'[e] = taken[e]
    BY <1>0, <1>1
  <2>5. Count(hand', e) = 0 /\ BatchesWith(wire', e) = 0 /\ SendsWith(late', e) = 0
    BY <1>1, <1>2, CountEmpty, BatchesEmpty, SendsEmpty
  <2>6. /\ Count(ring, e) \in Nat /\ Count(batch, e) \in Nat
        /\ Count(ring', e) <= Count(ring, e) /\ Count(ring', e) \in Nat
        /\ Count(batch', e) <= Count(batch, e) /\ Count(batch', e) \in Nat
    <3>1. /\ Count(ring, e) \in Nat /\ Count(batch, e) \in Nat
          /\ Count(ring', e) \in Nat /\ Count(batch', e) \in Nat
      BY <1>a DEF CopyParts
    <3>2. CASE UNCHANGED <<ring, batch>>
      BY <3>1, <3>2
    <3>3. CASE ring' = <<>> /\ batch' = <<>>
      BY <3>1, <3>3, CountEmpty
    <3> QED
      BY <1>2, <3>1, <3>2, <3>3
  <2>7. /\ Count(hand, e) \in Nat /\ workers[e] \in Nat /\ orphans[e] \in Nat
        /\ taken[e] \in Nat /\ BatchesWith(wire, e) \in Nat /\ SendsWith(late, e) \in Nat
    BY <1>a DEF CopyParts
  <2>8. Count(hand', e) + workers'[e] + orphans'[e] + taken'[e]
           <= Count(hand, e) + workers[e] + orphans[e] + taken[e] + 0
    BY <2>1, <2>3, <2>4, <2>5, <2>7
  <2>9. Count(ring', e) + Count(batch', e) + BatchesWith(wire', e) + SendsWith(late', e) + 0
           <= Count(ring, e) + Count(batch, e) + BatchesWith(wire, e) + SendsWith(late, e)
    BY <2>5, <2>6, <2>7
  <2> QED
    BY <2>8, <2>9, AddsUp
<1>4. Singles'
  <2>1. DOMAIN <<>> = {}
    OBVIOUS
  <2> QED
    BY <1>b, <1>2, <2>1, CountEmpty DEF Singles, Single
<1>5. /\ aborted' >= aborted
      /\ \A e \in Plugin : Pending(e)' => Pending(e)
  BY <1>0 DEF Break, Crash, Pending
<1>6. FileOnce' /\ \A e \in logged : Unread(e)' => Unread(e) \/ aborted' >= aborted + 1
  <2>1. CASE Break
    <3>1. UNCHANGED <<file, logged, pos>>
      BY <2>1 DEF Break
    <3> QED
      BY <1>b, <3>1, SameLog
  <2>2. CASE Crash
    <3>1. /\ file' = file \/ file' = Append(file, Torn)
          /\ pos' = 1 /\ aborted' = aborted + IF main = "replay" THEN 1 ELSE 0
      BY <2>2 DEF Crash
    <3>2. /\ DOMAIN file = 1..Len(file) /\ Len(file) \in Nat
          /\ DOMAIN file' = 1..Len(file') /\ Len(file') \in Nat
      BY <1>0, LenProperties
    <3>3. CASE file' = file
      <4>1. FileOnce'
        BY <1>b, <1>2, <3>3 DEF FileOnce
      <4>2. CASE main = "replay"
        BY <1>0, <3>1, <4>1, <4>2
      <4>3. CASE main # "replay"
        BY <3>1, <3>3, <4>1, <4>3 DEF LogInv, Swept, Unread
      <4> QED
        BY <4>2, <4>3
    <3>4. CASE file' = Append(file, Torn)
      <4>1. /\ Len(file') = Len(file) + 1 /\ file'[Len(file) + 1] = Torn
            /\ \A i \in 1..Len(file) : file'[i] = file[i]
        BY <1>0, <3>4, AppendProperties
      <4>2. FileOnce'
        <5>1. Range(file') = Range(file) \cup {Torn}
          BY <3>2, <4>1 DEF Range
        <5>2. \A i, j \in DOMAIN file' : file'[i] = file'[j] /\ file'[i] # Torn => i = j
          BY <1>b, <3>2, <4>1 DEF FileOnce
        <5> QED
          BY <1>b, <1>2, <5>1, <5>2 DEF FileOnce
      <4>3. CASE main = "replay"
        BY <1>0, <3>1, <4>2, <4>3
      <4>4. CASE main # "replay"
        <5>1. pos = 1
          BY <4>4 DEF LogInv, Swept
        <5>2. \A e \in logged : Unread(e)' => Unread(e)
          BY SMTT(30), <1>0, <3>1, <3>2, <4>1, <5>1 DEF Unread
        <5> QED
          BY <4>2, <5>2
      <4> QED
        BY <4>3, <4>4
    <3> QED
      BY <3>1, <3>3, <3>4
  <2> QED
    BY <2>1, <2>2
<1>7. Bounded'
  BY <1>2, <1>3, <1>5, <1>6, NoMore
<1> QED
  BY <1>4, <1>6, <1>7 DEF OnceInv

LEMMA OnceCenter ==
  ASSUME TypeInv, TypeInv', OnceInv, Center
  PROVE  OnceInv'
<1>0. /\ hand \in Seq(Records) /\ wire \in Seq(Seq(Records)) /\ aborted \in Nat
      /\ workers \in [Records -> 0..MaxWorkers] /\ orphans \in [Plugin -> Nat]
      /\ taken \in [Plugin -> Nat] /\ Plugin \subseteq Records /\ Heartbeat \notin Plugin
      /\ Records \ {Heartbeat} = Plugin
  BY RecordTypes DEF TypeInv, AgentTypes, TypeOK, CenterTypeOK
<1>a. CopyParts /\ CopyParts'
  BY PartsHold, PartsHoldNext
<1>b. Bounded /\ FileOnce /\ Singles
  BY DEF OnceInv
<1> USE DEF vars, log, send
<1>d. UNCHANGED <<writer, ring, batch, late, file, logged, pos, aborted>>
  BY DEF Center, Receive, StartWorker, Produce
<1>e. \A e \in Plugin : Pending(e)' => Pending(e)
  BY <1>d DEF Pending
<1>f. FileOnce' /\ \A x : Unread(x)' <=> Unread(x)
  BY <1>b, <1>d, SameLog
<1>g. SUFFICES (\A e \in Plugin : Copies(e)' <= Copies(e)) /\ Singles'
  <2> SUFFICES ASSUME \A e \in Plugin : Copies(e)' <= Copies(e), Singles'
               PROVE  OnceInv'
    OBVIOUS
  <2>1. Bounded'
    BY <1>0, <1>d, <1>e, <1>f, NoMore
  <2> QED
    BY <1>f, <2>1 DEF OnceInv
<1>1. CASE Receive
  <2>1. /\ wire # <<>> /\ hand = <<>> /\ hand' = Head(wire) /\ wire' = Tail(wire)
        /\ UNCHANGED <<workers, orphans, taken>>
    BY <1>1 DEF Receive
  <2>2. /\ Tail(wire) \in Seq(Seq(Records)) /\ Len(Tail(wire)) = Len(wire) - 1
        /\ \A i \in 1..Len(Tail(wire)) : Tail(wire)[i] = wire[i + 1]
        /\ Head(wire) \in Seq(Records) /\ Len(wire) \in Nat \ {0}
        /\ DOMAIN wire = 1..Len(wire) /\ Head(wire) = wire[1]
    BY <1>0, <2>1, HeadTailProperties, LenProperties, EmptySeq
  <2>3. \A e \in Plugin : Copies(e)' <= Copies(e)
    <3> TAKE e \in Plugin
    <3>1. BatchesWith(wire, e)
             = BatchesWith(wire', e) + IF e \in Range(Head(wire)) THEN 1 ELSE 0
      BY <1>0, <2>1, BatchesTail
    <3>2. /\ Count(hand', e) <= 1
          /\ Count(hand', e) \in Nat /\ (Count(hand', e) = 0 <=> e \notin Range(Head(wire)))
      <4>1. Single(Head(wire)) /\ Head(wire) \in Seq(Records)
        BY <1>b, <2>2 DEF Singles
      <4>2. Count(Head(wire), e) \in Nat /\ (Count(Head(wire), e) = 0 <=> e \notin Range(Head(wire)))
        BY <4>1, CountNat
      <4> QED
        BY <2>1, <4>1, <4>2 DEF Single
    <3>3. Count(hand, e) = 0
      BY <2>1, CountEmpty
    <3>4. /\ Count(ring, e) \in Nat /\ Count(batch, e) \in Nat /\ SendsWith(late, e) \in Nat
          /\ BatchesWith(wire', e) \in Nat
          /\ workers[e] \in Nat /\ orphans[e] \in Nat /\ taken[e] \in Nat
      BY <1>a DEF CopyParts
    <3>5. Count(hand', e) + workers'[e] + orphans'[e] + taken'[e]
             <= Count(hand, e) + workers[e] + orphans[e] + taken[e] + Count(hand', e)
      BY SMTT(30), <2>1, <3>2, <3>3, <3>4
    <3>6. Count(hand', e) + BatchesWith(wire', e) <= BatchesWith(wire, e)
      <4>1. CASE e \in Range(Head(wire))
        BY <3>1, <3>2, <3>4, <4>1
      <4>2. CASE e \notin Range(Head(wire))
        BY <3>1, <3>2, <3>4, <4>2
      <4> QED
        BY <4>1, <4>2
    <3>7. BatchesWith(wire, e) \in Nat
      BY <1>a DEF CopyParts
    <3>8. /\ Count(ring', e) = Count(ring, e) /\ Count(batch', e) = Count(batch, e)
          /\ SendsWith(late', e) = SendsWith(late, e)
      BY <1>d
    <3>9. Count(ring', e) + Count(batch', e) + BatchesWith(wire', e) + SendsWith(late', e)
             + Count(hand', e)
             <= Count(ring, e) + Count(batch, e) + BatchesWith(wire, e) + SendsWith(late, e)
      BY <3>2, <3>4, <3>6, <3>7, <3>8
    <3>10. Count(hand', e) \in Int
      BY <3>2
    <3> QED
      BY <3>5, <3>9, <3>10, AddsUp
  <2>4. \A i \in DOMAIN wire' : Single(wire'[i])
    <3>1. DOMAIN wire' = 1..(Len(wire) - 1)
      BY <2>1, <2>2, LenProperties
    <3>2. \A i \in DOMAIN wire' : i + 1 \in DOMAIN wire /\ wire'[i] = wire[i + 1]
      BY <2>1, <2>2, <3>1
    <3> QED
      BY <1>b, <3>2 DEF Singles
  <2>5. Singles'
    BY <1>b, <1>d, <2>4 DEF Singles, Single
  <2> QED
    BY <2>3, <2>5
<1>2. CASE StartWorker
  <2>1. /\ hand # <<>> /\ workers' = [workers EXCEPT ![Head(hand)] = @ + 1]
        /\ hand' = Tail(hand) /\ UNCHANGED <<wire, orphans, taken>>
    BY <1>2 DEF StartWorker
  <2>2. \A e \in Plugin : Copies(e)' <= Copies(e)
    <3> TAKE e \in Plugin
    <3>1. Count(hand, e) = Count(hand', e) + IF Head(hand) = e THEN 1 ELSE 0
      BY <1>0, <2>1, CountTail
    <3>2. workers'[e] = workers[e] + IF Head(hand) = e THEN 1 ELSE 0
      <4>1. Head(hand) \in Records /\ e \in Records
        BY <1>0, <2>1, HeadTailProperties
      <4> QED
        BY <1>0, <2>1, <4>1
    <3>3. /\ Count(ring, e) \in Nat /\ Count(batch, e) \in Nat /\ SendsWith(late, e) \in Nat
          /\ BatchesWith(wire, e) \in Nat /\ Count(hand', e) \in Nat
          /\ workers[e] \in Nat /\ orphans[e] \in Nat /\ taken[e] \in Nat
      BY <1>a DEF CopyParts
    <3>4. Count(hand', e) + workers'[e] + orphans'[e] + taken'[e]
             <= Count(hand, e) + workers[e] + orphans[e] + taken[e] + 0
      <4>1. orphans'[e] = orphans[e] /\ taken'[e] = taken[e]
        BY <2>1
      <4>2. CASE Head(hand) = e
        <5>1. Count(hand, e) = Count(hand', e) + 1 /\ workers'[e] = workers[e] + 1
          BY <3>1, <3>2, <4>2
        <5> QED
          BY <3>3, <4>1, <5>1
      <4>3. CASE Head(hand) # e
        <5>1. Count(hand, e) = Count(hand', e) /\ workers'[e] = workers[e]
          BY <3>1, <3>2, <3>3, <4>3
        <5> QED
          BY <3>3, <4>1, <5>1
      <4> QED
        BY <4>2, <4>3
    <3>5. Count(ring', e) + Count(batch', e) + BatchesWith(wire', e) + SendsWith(late', e) + 0
             <= Count(ring, e) + Count(batch, e) + BatchesWith(wire, e) + SendsWith(late, e)
      BY <1>d, <2>1, <3>3
    <3> QED
      BY <3>4, <3>5, AddsUp
  <2>3. Singles'
    BY <1>b, <1>d, <2>1 DEF Singles, Single
  <2> QED
    BY <2>2, <2>3
<1>3. ASSUME NEW r \in Records, Produce(r)
      PROVE  (\A e \in Plugin : Copies(e)' <= Copies(e)) /\ Singles'
  <2>1. UNCHANGED <<wire, hand>>
    BY <1>3 DEF Produce
  <2>2. \A e \in Plugin : Copies(e)' <= Copies(e)
    <3> TAKE e \in Plugin
    <3>1. /\ Count(ring, e) \in Nat /\ Count(batch, e) \in Nat /\ SendsWith(late, e) \in Nat
          /\ BatchesWith(wire, e) \in Nat /\ Count(hand, e) \in Nat
          /\ workers[e] \in Nat /\ orphans[e] \in Nat /\ taken[e] \in Nat
      BY <1>a DEF CopyParts
    <3>2. workers'[e] + orphans'[e] + taken'[e] <= workers[e] + orphans[e] + taken[e]
      <4>0. e \in Records /\ e # Heartbeat
        BY <1>0
      <4>1. CASE r = e
        <5>1. taken'[e] = taken[e] + 1
          BY <1>0, <1>3, <4>0, <4>1 DEF Produce
        <5>2. \/ workers'[e] = workers[e] - 1 /\ orphans'[e] = orphans[e]
              \/ orphans'[e] = orphans[e] - 1 /\ workers'[e] = workers[e]
          BY <1>0, <1>3, <4>0, <4>1 DEF Produce
        <5> QED
          BY <3>1, <5>1, <5>2
      <4>2. CASE r # e
        <5>1. workers'[e] = workers[e] /\ orphans'[e] = orphans[e] /\ taken'[e] = taken[e]
          BY <1>0, <1>3, <4>0, <4>2 DEF Produce
        <5> QED
          BY <3>1, <5>1
      <4> QED
        BY <4>1, <4>2
    <3>3. workers'[e] \in Nat /\ orphans'[e] \in Nat /\ taken'[e] \in Nat
      BY <1>a DEF CopyParts
    <3>4. Count(hand', e) + workers'[e] + orphans'[e] + taken'[e]
             <= Count(hand, e) + workers[e] + orphans[e] + taken[e] + 0
      BY <2>1, <3>1, <3>2, <3>3
    <3>5. Count(ring', e) + Count(batch', e) + BatchesWith(wire', e) + SendsWith(late', e) + 0
             <= Count(ring, e) + Count(batch, e) + BatchesWith(wire, e) + SendsWith(late, e)
      BY <1>d, <2>1, <3>1
    <3> QED
      BY <3>4, <3>5, AddsUp
  <2>3. Singles'
    BY <1>b, <1>d, <2>1 DEF Singles, Single
  <2> QED
    BY <2>2, <2>3
<1> QED
  BY <1>1, <1>2, <1>3 DEF Center

LEMMA OnceStep ==
  TypeInv /\ LogInv /\ OnceInv /\ [AllNext]_allvars => OnceInv'
<1> SUFFICES ASSUME TypeInv, LogInv, OnceInv, [AllNext]_allvars PROVE OnceInv'
  OBVIOUS
<1>0. TypeInv'
  BY TypesStep
<1>1. CASE Agent /\ UNCHANGED center
  BY <1>0, <1>1, OnceWriters, OnceMain, OnceSend DEF Agent
<1>2. CASE (Break \/ Crash) /\ EndConnection
  BY <1>0, <1>2, OnceFaults
<1>3. CASE Center
  BY <1>0, <1>3, OnceCenter
<1>4. CASE UNCHANGED allvars
  <2>1. UNCHANGED <<writer, ring, file, logged, pos, batch, late, wire, aborted,
                    hand, workers, orphans, taken>>
    BY <1>4 DEF allvars, vars, log, send, center
  <2>2. \A e : Copies(e)' = Copies(e) /\ Pending(e)' = Pending(e) /\ Unread(e)' = Unread(e)
    BY <2>1 DEF Copies, Count, Pending, Unread
  <2>3. Bounded'
    BY <2>1, <2>2 DEF OnceInv, Bounded
  <2>4. FileOnce' /\ Singles'
    BY <2>1 DEF OnceInv, FileOnce, Singles, Single
  <2> QED
    BY <2>3, <2>4 DEF OnceInv
<1> QED
  BY <1>1, <1>2, <1>3, <1>4 DEF AllNext

\* A record that went through the ring reaches the Kafka producer at most once,
\* whatever is broken, times out or is dialled again, and one from the log once
\* more for each replay that ended before the truncation.
THEOREM CopiesAreBounded == UplinkSpec => []AtMostOnce
<1>1. UplinkSpec => [](TypeInv /\ LogInv /\ OnceInv)
  BY TypesInit, LogInit, OnceInit, TypesStep, LogStep, OnceStep, PTL DEF UplinkSpec
<1>2. TypeInv /\ OnceInv => AtMostOnce
  <2> SUFFICES ASSUME TypeInv, OnceInv, NEW e \in Plugin
               PROVE  Copies(e) <= 1 + IF e \in logged THEN aborted ELSE 0
    BY DEF AtMostOnce
  <2>1. aborted \in Nat /\ Copies(e) \in Nat
    BY PartsHold DEF CopyParts, TypeInv, AgentTypes, TypeOK
  <2>2. CASE e \in logged
    <3>1. Copies(e) <= aborted + IF Unread(e) THEN 0 ELSE 1
      BY <2>2 DEF OnceInv, Bounded
    <3>2. CASE Unread(e)
      BY <2>1, <2>2, <3>1, <3>2
    <3>3. CASE ~Unread(e)
      BY <2>1, <2>2, <3>1, <3>3
    <3> QED
      BY <3>2, <3>3
  <2>3. CASE e \notin logged
    BY <2>1, <2>3 DEF OnceInv, Bounded
  <2> QED
    BY <2>2, <2>3
<1> QED
  BY <1>1, <1>2, PTL
=============================================================================
