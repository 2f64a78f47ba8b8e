------------------------- MODULE AvailabilityProofs -------------------------
(***************************************************************************)
(* What a shard provider keeps, for every code, every number of providers  *)
(* and whatever clients send: the rows survive crashes, a repair adds only *)
(* correct shards, and the content of an object never changes.  None of    *)
(* that depends on the field or on the matrix.                             *)
(*                                                                         *)
(* Which codes give a payload back from any of its shards does: the last   *)
(* part rests on ErasureCodecProofs.                                       *)
(***************************************************************************)
EXTENDS Availability, ErasureCodecProofs

Trusted == Offered \cup Correct

OneContent(shards) == \A s, t \in shards : s.object = t.object => s.content = t.content

AllValid(shards) == \A s \in shards : s.valid

\* What memory and rows of a provider satisfy at all times.
Sound(shards) ==
    /\ shards \subseteq Trusted
    /\ OnePerKey(shards)
    /\ OneContent(shards)
    /\ AllValid(shards)

(***************************************************************************)
(* The inductive invariant.  ServedIsDurable alone is not inductive: a     *)
(* restart gives all rows back only because they agree on the content of   *)
(* an object, and put keeps that only because it looks at memory, which is *)
(* equal to the rows while the provider is up.                             *)
(***************************************************************************)
Inv ==
    /\ up \in [Provider -> BOOLEAN]
    /\ DOMAIN store = Provider /\ DOMAIN disk = Provider
    /\ \A p \in Provider : /\ Sound(disk[p])
                           /\ store[p] = IF up[p] THEN disk[p] ELSE {}

-----------------------------------------------------------------------------
\* Every shard that a client can send or a repair can build names a known
\* object, payload and index.
LEMMA TrustedShards ==
    ASSUME NEW s \in Trusted
    PROVE  s.object \in Object /\ s.content \in Payload /\ s.index \in Index
<1>1. CASE s \in Offered
  BY <1>1, OfferedAssumption
<1>2. CASE s \in Correct
  BY <1>2 DEF Correct, ShardOf
<1> QED
  BY <1>1, <1>2 DEF Trusted

\* AvailabilityStore.put on several shards of one content keeps the rows sound.
LEMMA PlacedAllSound ==
    ASSUME NEW shards, NEW new,
           Sound(shards),
           new \subseteq Trusted, OnePerKey(new), OneContent(new),
           \A s \in new : Accepts(shards, s)
    PROVE  Sound(PlacedAll(shards, new))
<1>1. PlacedAll(shards, new) \subseteq Trusted
  BY DEF PlacedAll, Sound
<1>2. OnePerKey(PlacedAll(shards, new))
  BY DEF PlacedAll, Sound, OnePerKey, SameKey
<1>3. OneContent(PlacedAll(shards, new))
  BY DEF PlacedAll, Sound, OneContent, Accepts
<1>4. AllValid(PlacedAll(shards, new))
  BY DEF PlacedAll, Sound, AllValid, Accepts
<1> QED
  BY <1>1, <1>2, <1>3, <1>4 DEF Sound

\* A shard that put accepts replaces only a shard of the same content.
LEMMA PlacedAllKeepsContent ==
    ASSUME NEW shards, NEW new,
           \A s \in new : Accepts(shards, s),
           NEW s \in shards
    PROVE  \E t \in PlacedAll(shards, new) : SameKey(s, t) /\ s.content = t.content
<1>1. CASE \E n \in new : SameKey(n, s)
  BY <1>1 DEF PlacedAll, SameKey, Accepts
<1>2. CASE ~\E n \in new : SameKey(n, s)
  BY <1>2 DEF PlacedAll, SameKey
<1> QED
  BY <1>1, <1>2

\* Putting one shard is putting all shards of a set of one.
LEMMA PlacedIsPlacedAll ==
    ASSUME NEW shards, NEW s
    PROVE  Placed(shards, s) = PlacedAll(shards, {s})
BY DEF Placed, PlacedAll

\* restore_from_store reads every row back when the rows agree on contents.
LEMMA RestoredAll ==
    ASSUME NEW rows, Sound(rows)
    PROVE  Restored(rows) = rows
BY DEF Restored, Refused, Sound, OneContent

-----------------------------------------------------------------------------
\* A provider that is up serves sound shards.
LEMMA FetchableSound ==
    ASSUME Inv
    PROVE  Fetchable \subseteq Trusted
BY DEF Inv, Fetchable, Sound

(***************************************************************************)
(* What recover returns for k shards is the content of a shard that it was *)
(* given.  The k lowest indices include the least one, so the comparison   *)
(* with the content digests is made for at least one shard.                *)
(***************************************************************************)
LEMMA RecoveredIsContent ==
    ASSUME NEW source \in Sources(Trusted), Recover(source) # Unreadable
    PROVE  \E s \in source : s.content = Recover(source)
<1>1. source \subseteq Trusted /\ Cardinality(Indices(source)) = DataShards
  BY DEF Sources, kSubset
<1>2. Indices(source) # {}
  BY <1>1, FS_EmptySet, CodecAssumption
<1>3. Indices(source) \in SUBSET Nat
  BY <1>1, TrustedShards, CodecAssumption DEF Indices, Index, TotalShards
<1>4. PICK n \in Indices(source) : \A i \in Indices(source) : n <= i
  BY <1>2, <1>3, LeastNatural
<1>5. PICK s \in source : s.index = n
  BY <1>4 DEF Indices
<1>6. {t \in source : t.index < s.index} = {}
  BY <1>3, <1>4, <1>5 DEF Indices
<1>7. s \in Selected(source)
  BY <1>6, FS_EmptySet, CodecAssumption DEF Selected
<1> DEFINE selected == Selected(source)
           payload == Decode([i \in Indices(selected) |-> (CHOOSE t \in selected : t.index = i).bytes])
<1>8. Recover(source) = payload /\ \A t \in selected : t.content = payload
  BY DEF Recover
<1> QED
  BY <1>7, <1>8

\* The shards that codec.repair returns: the shards of one known payload and
\* object, at indices that the client asked for.
LEMMA RepairsBuildCorrectShards ==
    ASSUME Inv, NEW repaired \in Repairs
    PROVE  \E o \in Object, payload \in Payload, missing \in SUBSET Index :
              repaired = {ShardOf(o, payload, i) : i \in missing}
<1> DEFINE ObjectOf(source) == (CHOOSE s \in source : TRUE).object
           results == {<<ObjectOf(source), Recover(source)>> : source \in Sources(Fetchable)}
<1>1. PICK r \in results, missing \in RepairRequests :
            r[2] # Unreadable /\ repaired = {ShardOf(r[1], r[2], i) : i \in missing}
  BY DEF Repairs
<1>2. PICK source \in Sources(Fetchable) : r = <<ObjectOf(source), Recover(source)>>
  BY <1>1
<1>3. source \in Sources(Trusted)
  BY FetchableSound DEF Sources, kSubset
<1>4. PICK s \in source : s.content = Recover(source)
  BY <1>1, <1>2, <1>3, RecoveredIsContent
<1>5. source \subseteq Trusted
  BY <1>3 DEF Sources, kSubset
<1>6. r[2] \in Payload
  BY <1>2, <1>4, <1>5, TrustedShards
<1>7. r[1] \in Object
  BY <1>2, <1>4, <1>5, TrustedShards
<1>8. missing \in SUBSET Index
  BY OfferedAssumption
<1> HIDE DEF results
<1> QED
  BY <1>1, <1>6, <1>7, <1>8

\* Rebuilt shards may all be put, in any part and order.
LEMMA RepairsAgree ==
    ASSUME Inv, NEW repaired \in Repairs, NEW new \in SUBSET repaired
    PROVE  new \subseteq Trusted /\ OnePerKey(new) /\ OneContent(new)
<1>1. PICK o \in Object, payload \in Payload, missing \in SUBSET Index :
            repaired = {ShardOf(o, payload, i) : i \in missing}
  BY RepairsBuildCorrectShards
<1>2. \A s \in new : \E i \in Index : s = ShardOf(o, payload, i)
  BY <1>1
<1>3. new \subseteq Trusted
  BY <1>2 DEF Trusted, Correct
<1>4. \A s \in new : s.content = payload /\ s = ShardOf(o, payload, s.index)
  BY <1>2 DEF ShardOf
<1>5. OnePerKey(new)
  BY <1>4 DEF OnePerKey, SameKey
<1>6. OneContent(new)
  BY <1>4 DEF OneContent
<1> QED
  BY <1>3, <1>5, <1>6

-----------------------------------------------------------------------------
\* Shards that a provider with these rows takes.
MayTake(rows, new) ==
    /\ new \subseteq Trusted /\ OnePerKey(new) /\ OneContent(new)
    /\ \A s \in new : Accepts(rows, s)

\* What a step makes of one provider: rows are only ever put, and memory is the
\* rows or, while the provider is down, nothing.
StepOf(p) ==
    /\ \E new : MayTake(disk[p], new) /\ disk'[p] = PlacedAll(disk[p], new)
    /\ store'[p] = IF up'[p] THEN disk'[p] ELSE {}

\* Putting nothing changes nothing.
LEMMA TakesNothing ==
    ASSUME NEW rows
    PROVE  MayTake(rows, {}) /\ PlacedAll(rows, {}) = rows
BY DEF MayTake, PlacedAll, OnePerKey, OneContent

\* Every step, at every provider, is a put of shards that the rows accept.
LEMMA EveryStep ==
    ASSUME Inv, [Next]_vars
    PROVE  /\ up' \in [Provider -> BOOLEAN]
           /\ DOMAIN store' = Provider /\ DOMAIN disk' = Provider
           /\ \A p \in Provider : StepOf(p)
<1> DEFINE Shape == /\ up' \in [Provider -> BOOLEAN]
                    /\ DOMAIN store' = Provider /\ DOMAIN disk' = Provider
           Same(p) == disk'[p] = disk[p] /\ store'[p] = store[p] /\ up'[p] = up[p]
<1>1. ASSUME NEW p \in Provider, Same(p)
      PROVE  StepOf(p)
  <2>1. store[p] = IF up[p] THEN disk[p] ELSE {}
    BY DEF Inv
  <2> QED
    BY <1>1, <2>1, TakesNothing DEF StepOf
<1>2. ASSUME NEW repaired \in Repairs, NEW p \in Provider, Repair(p, repaired)
      PROVE  Shape /\ \A q \in Provider : StepOf(q)
  <2>1. Shape
    BY <1>2 DEF Inv, Repair
  <2>2. ASSUME NEW q \in Provider, q # p
        PROVE  Same(q)
    BY <1>2, <2>2 DEF Inv, Repair
  <2>3. MayTake(disk[p], repaired)
    BY <1>2, RepairsAgree DEF Inv, Repair, MayTake
  <2>4. /\ disk'[p] = PlacedAll(disk[p], repaired)
        /\ store'[p] = disk'[p] /\ up'[p]
    BY <1>2 DEF Inv, Repair
  <2> QED
    BY <1>1, <2>1, <2>2, <2>3, <2>4 DEF StepOf
<1>3. ASSUME NEW repaired \in Repairs, NEW p \in Provider, NEW i \in Indices(repaired),
             CrashInRepair(p, repaired, i)
      PROVE  Shape /\ \A q \in Provider : StepOf(q)
  <2> DEFINE new == {s \in repaired : s.index < i}
  <2>1. Shape
    BY <1>3 DEF Inv, CrashInRepair
  <2>2. ASSUME NEW q \in Provider, q # p
        PROVE  Same(q)
    BY <1>3, <2>2 DEF Inv, CrashInRepair
  <2>3. new \in SUBSET repaired
    OBVIOUS
  <2>4. MayTake(disk[p], new)
    BY <1>3, <2>3, RepairsAgree DEF Inv, CrashInRepair, MayTake
  <2>5. disk'[p] = PlacedAll(disk[p], new) /\ store'[p] = {} /\ ~up'[p]
    BY <1>3 DEF Inv, CrashInRepair
  <2> QED
    BY <1>1, <2>1, <2>2, <2>4, <2>5 DEF StepOf
<1>4. ASSUME NEW p \in Provider, NEW s \in Offered, Put(p, s)
      PROVE  Shape /\ \A q \in Provider : StepOf(q)
  <2>1. Shape
    BY <1>4 DEF Inv, Put
  <2>2. ASSUME NEW q \in Provider, q # p
        PROVE  Same(q)
    BY <1>4, <2>2 DEF Inv, Put
  <2>3. MayTake(disk[p], {s})
    BY <1>4 DEF Inv, Put, MayTake, Trusted, OnePerKey, OneContent
  <2>4. /\ disk'[p] = PlacedAll(disk[p], {s})
        /\ store'[p] = disk'[p] /\ up'[p]
    BY <1>4, PlacedIsPlacedAll DEF Inv, Put
  <2> QED
    BY <1>1, <2>1, <2>2, <2>3, <2>4 DEF StepOf
<1>5. ASSUME NEW p \in Provider, Crash(p)
      PROVE  Shape /\ \A q \in Provider : StepOf(q)
  <2>1. Shape
    BY <1>5 DEF Inv, Crash
  <2>2. ASSUME NEW q \in Provider, q # p
        PROVE  Same(q)
    BY <1>5, <2>2 DEF Inv, Crash
  <2>3. disk'[p] = disk[p] /\ store'[p] = {} /\ ~up'[p]
    BY <1>5 DEF Inv, Crash
  <2> QED
    BY <1>1, <2>1, <2>2, <2>3, TakesNothing DEF StepOf
<1>6. ASSUME NEW p \in Provider, Restart(p)
      PROVE  Shape /\ \A q \in Provider : StepOf(q)
  <2>1. Shape
    BY <1>6 DEF Inv, Restart
  <2>2. ASSUME NEW q \in Provider, q # p
        PROVE  Same(q)
    BY <1>6, <2>2 DEF Inv, Restart
  <2>3. Restored(disk[p]) = disk[p]
    BY RestoredAll DEF Inv
  <2>4. disk'[p] = disk[p] /\ store'[p] = disk'[p] /\ up'[p]
    BY <1>6, <2>3 DEF Inv, Restart
  <2> QED
    BY <1>1, <2>1, <2>2, <2>4, TakesNothing DEF StepOf
<1>7. ASSUME UNCHANGED vars
      PROVE  Shape /\ \A q \in Provider : StepOf(q)
  BY <1>1, <1>7 DEF Inv, vars
<1> QED
  BY <1>2, <1>3, <1>4, <1>5, <1>6, <1>7 DEF Next

\* Putting shards that the rows accept keeps the invariant.
LEMMA InvIsInductive ==
    ASSUME Inv, [Next]_vars
    PROVE  Inv'
<1>1. ASSUME NEW p \in Provider
      PROVE  Sound(disk'[p]) /\ store'[p] = IF up'[p] THEN disk'[p] ELSE {}
  <2>1. StepOf(p)
    BY EveryStep
  <2>2. PICK new : MayTake(disk[p], new) /\ disk'[p] = PlacedAll(disk[p], new)
    BY <2>1 DEF StepOf
  <2>3. Sound(disk[p])
    BY DEF Inv
  <2>4. Sound(disk'[p])
    BY <2>2, <2>3, PlacedAllSound DEF MayTake
  <2> QED
    BY <2>1, <2>4 DEF StepOf
<1> QED
  BY <1>1, EveryStep DEF Inv

\* The invariant holds from the start.
THEOREM InvIsKept == Spec => []Inv
<1>1. Init => Inv
  BY DEF Init, Inv, Sound, OnePerKey, OneContent, AllValid
<1>2. Inv /\ [Next]_vars => Inv'
  BY InvIsInductive
<1> QED
  BY <1>1, <1>2, PTL DEF Spec

-----------------------------------------------------------------------------
\* AvailabilityStore.put keeps at most one shard for an object and index, and
\* only valid ones, in memory and in the rows, for every code and provider set.
THEOREM OneShardPerIndex == Spec => []TypeOK
<1>1. Inv => TypeOK
  BY DEF Inv, TypeOK, Sound, AllValid, OnePerKey
<1> QED
  BY <1>1, InvIsKept, PTL

\* A provider that is up serves exactly its rows: put, repair and
\* restore_from_store keep memory and store equal across crashes at any shard
\* of a repair.
THEOREM RestartsLoseNothing == Spec => []ServedIsDurable
<1>1. Inv => ServedIsDurable
  BY DEF Inv, ServedIsDurable
<1> QED
  BY <1>1, InvIsKept, PTL

\* codec.repair stores nothing but correct shards, whatever shards clients
\* offer and combine: recover compares the payload with the content digests.
THEOREM RepairsStoreCorrectShards == Spec => []RepairsAreFaithful
<1>1. Inv => RepairsAreFaithful
  BY DEF Inv, RepairsAreFaithful, Sound, Trusted
<1> QED
  BY <1>1, InvIsKept, PTL

\* No put, repair, crash or restart changes the content of an object that a
\* provider has a row of, or loses the row.
THEOREM ContentNeverChanges == Spec => ContentIsFinal
<1> DEFINE Final == \A p \in Provider : \A s \in disk[p] :
                        \E t \in disk'[p] : SameKey(s, t) /\ s.content = t.content
<1>1. ASSUME Inv, [Next]_vars
      PROVE  Final
  <2>1. SUFFICES ASSUME NEW p \in Provider, NEW s \in disk[p]
                 PROVE  \E t \in disk'[p] : SameKey(s, t) /\ s.content = t.content
    OBVIOUS
  <2>2. PICK new : MayTake(disk[p], new) /\ disk'[p] = PlacedAll(disk[p], new)
    BY <1>1, EveryStep DEF StepOf
  <2> QED
    BY <2>2, PlacedAllKeepsContent DEF MayTake
<1>2. Inv /\ [Next]_vars => [Final]_vars
  BY <1>1
<1>3. Spec => [][Final]_vars
  BY <1>2, InvIsKept, PTL DEF Spec
<1> QED
  BY <1>3 DEF ContentIsFinal

-----------------------------------------------------------------------------
\* Correct shards of one payload are told apart by their indices.
LEMMA SourceShards ==
    ASSUME NEW source \in Sources(Correct), Compatible(source)
    PROVE  \E object \in Object, payload \in Payload :
              /\ \A s \in source : s = ShardOf(object, payload, s.index) /\ s.content = payload
              /\ IsFiniteSet(source) /\ source # {}
              /\ Indices(source) \in kSubset(DataShards, Index)
<1>1. source \subseteq Correct /\ Cardinality(source) = DataShards /\ Cardinality(Indices(source)) = DataShards
  BY DEF Sources, kSubset
<1>2. source # {}
  BY <1>1, FS_EmptySet, CodecAssumption
<1>3. \A s \in source : /\ s.object \in Object /\ s.content \in Payload /\ s.index \in Index
                        /\ s = ShardOf(s.object, s.content, s.index)
  BY <1>1 DEF Correct, ShardOf
<1>4. PICK t \in source : TRUE
  BY <1>2
<1>5. \A s \in source : s.object = t.object /\ s.content = t.content
  BY DEF Compatible
<1>6. \A s \in source : s = ShardOf(t.object, t.content, s.index) /\ s.content = t.content
  BY <1>3, <1>5
<1>7. Indices(source) \in kSubset(DataShards, Index)
  BY <1>1, <1>3 DEF Indices, kSubset
<1>8. IsFiniteSet(source)
  <2> DEFINE index == [s \in source |-> s.index]
  <2>1. index \in [source -> Index] /\ \A s, u \in source : index[s] = index[u] => s = u
    BY <1>3, <1>6
  <2>2. IsFiniteSet(Index)
    BY CodecAssumption, IntervalsFinite DEF Index, TotalShards
  <2>3. index \in Injection(source, Index)
    BY <2>1 DEF Injection, IsInjective
  <2> HIDE DEF index
  <2> QED
    BY <2>2, <2>3, FS_Injection
<1> QED
  BY <1>2, <1>3, <1>4, <1>6, <1>7, <1>8

\* recover uses all of k shards.
LEMMA SelectedAll ==
    ASSUME NEW source, IsFiniteSet(source), Cardinality(source) = DataShards,
           \A s \in source : s.index \in Nat
    PROVE  Selected(source) = source
<1> SUFFICES ASSUME NEW s \in source
             PROVE  Cardinality({t \in source : t.index < s.index}) < DataShards
  BY DEF Selected
<1> DEFINE T == {t \in source : t.index < s.index}
<1>1. T \in SUBSET source /\ s \notin T
  <2>1. \A n \in Nat : ~(n < n)
    OBVIOUS
  <2> QED
    BY <2>1
<1> HIDE DEF T
<1>2. IsFiniteSet(T) /\ Cardinality(T) <= DataShards /\ Cardinality(T) # DataShards
  BY <1>1, FS_Subset
<1>3. Cardinality(T) \in Nat /\ DataShards \in Nat
  BY <1>2, FS_CardinalityType, CodecAssumption
<1>4. Cardinality(T) < DataShards
  BY <1>2, <1>3
<1> QED
  BY <1>4 DEF T

(***************************************************************************)
(* recover on k correct shards of one payload gives that payload exactly   *)
(* when their rows of the matrix can be inverted.                          *)
(***************************************************************************)
THEOREM RecoverExact ==
    ASSUME NEW source \in Sources(Correct), Compatible(source), NEW s \in source
    PROVE  Recover(source) = s.content <=> Decoding[Indices(source)].regular
<1>1. PICK object \in Object, payload \in Payload :
              /\ \A t \in source : t = ShardOf(object, payload, t.index) /\ t.content = payload
              /\ IsFiniteSet(source) /\ source # {}
              /\ Indices(source) \in kSubset(DataShards, Index)
  BY SourceShards
<1> DEFINE chosen == Indices(source)
           bytes == [i \in chosen |-> (CHOOSE t \in source : t.index = i).bytes]
<1>2. /\ Cardinality(source) = DataShards /\ Cardinality(chosen) = DataShards
      /\ \A t \in source : t.index \in Index
  <2>1. \A t \in source : t.index \in Indices(source)
    BY DEF Indices
  <2> QED
    BY <1>1, <2>1 DEF Sources, kSubset
<1>3. Selected(source) = source
  <2>1. \A t \in source : t.index \in Nat
    BY <1>2 DEF Index
  <2> QED
    BY <1>1, <1>2, <2>1, SelectedAll
<1>4. bytes = [i \in chosen |-> Encode(payload)[i]]
  <2>1. ASSUME NEW i \in chosen
        PROVE  (CHOOSE t \in source : t.index = i).bytes = Encode(payload)[i]
    <3>1. \E t \in source : t.index = i
      BY DEF Indices
    <3>2. PICK t \in source : t = (CHOOSE u \in source : u.index = i) /\ t.index = i
      BY <3>1
    <3>3. t.bytes = Encode(payload)[i]
      BY <1>1, <3>2 DEF ShardOf
    <3> QED
      BY <3>2, <3>3
  <2> QED
    BY <2>1
<1>5. IsPayload(payload) /\ payload # Unreadable
  <2>1. payload \in Seq(Byte) /\ Len(payload) < 256
    BY OfferedAssumption
  <2>2. Unreadable[1] \notin Byte /\ Len(Unreadable) = 1
    BY DEF Unreadable, Byte
  <2>3. \A i \in 1 .. Len(payload) : payload[i] \in Byte
    BY <2>1
  <2>4. payload # Unreadable
    BY <2>2, <2>3
  <2> QED
    BY <2>1, <2>4 DEF IsPayload
<1>6. Cardinality(chosen) >= DataShards
  BY <1>2, CodecAssumption
<1>7. Recover(source) = IF \A t \in source : t.content = Decode(bytes) THEN Decode(bytes) ELSE Unreadable
  <2> HIDE DEF bytes
  <2>1. bytes = [i \in Indices(source) |-> (CHOOSE t \in source : t.index = i).bytes]
    BY DEF bytes
  <2> QED
    BY <1>3, <1>6, <2>1 DEF Recover
<1>8. s.content = payload
  BY <1>1
<1>9. CASE Decoding[chosen].regular
  <2>1. Independent(chosen)
    BY <1>1, <1>9, IndependentIsRegular
  <2>2. Decode(bytes) = payload
    BY <1>1, <1>4, <1>5, <2>1, DecodeEncode
  <2> QED
    BY <1>1, <1>7, <1>8, <1>9, <2>2
<1>10. CASE ~Decoding[chosen].regular
  <2>1. DOMAIN bytes = chosen
    OBVIOUS
  <2> HIDE DEF bytes
  <2>2. Decode(bytes) = Unreadable
    BY <1>10, <2>1 DEF Decode
  <2>3. Recover(source) = Unreadable
    BY <1>7, <2>2
  <2> QED
    BY <1>5, <1>8, <1>10, <2>3
<1> QED
  BY <1>9, <1>10

\* Sources of correct shards are sources.
LEMMA CorrectSources ==
    ASSUME NEW source \in Sources(Fetchable \cap Correct)
    PROVE  source \in Sources(Correct)
BY DEF Sources, kSubset

(***************************************************************************)
(* Whatever the providers store, lose and repair, a code whose choices of  *)
(* k rows can all be inverted gives a payload back from any k of its       *)
(* shards that can be fetched.                                             *)
(***************************************************************************)
THEOREM RegularCodesRecover ==
    ASSUME \A chosen \in kSubset(DataShards, Index) : Decoding[chosen].regular
    PROVE  Spec => []AnyDataShardsRecover
<1>1. ASSUME NEW source \in Sources(Correct), Compatible(source), NEW s \in source
      PROVE  Recover(source) = s.content
  <2>1. Indices(source) \in kSubset(DataShards, Index)
    BY <1>1, SourceShards
  <2> QED
    BY <1>1, <2>1, RecoverExact
<1>2. AnyDataShardsRecover
  BY <1>1, CorrectSources DEF AnyDataShardsRecover
<1> QED
  BY <1>2, PTL

(***************************************************************************)
(* Codes with one parity shard or with at most three data shards are such  *)
(* codes.  The code of five data and four parity shards is not.            *)
(***************************************************************************)
THEOREM SmallCodesRecover ==
    ASSUME ParityShards = 1 \/ DataShards <= 3
    PROVE  Spec => []AnyDataShardsRecover
<1>1. \A chosen \in kSubset(DataShards, Index) : Decoding[chosen].regular
  BY SmallCodesIndependent, IndependentIsRegular
<1> QED
  BY <1>1, RegularCodesRecover

(***************************************************************************)
(* So is the code that the daemon runs by default.                         *)
(***************************************************************************)
THEOREM DefaultCodeRecovers ==
    ASSUME DataShards = 5, ParityShards = 3
    PROVE  Spec => []AnyDataShardsRecover
<1>1. \A chosen \in kSubset(DataShards, Index) : Decoding[chosen].regular
  BY DefaultCodeIndependent, IndependentIsRegular
<1> QED
  BY <1>1, RegularCodesRecover

(***************************************************************************)
(* And the code of the unit test that repairs two missing shards.          *)
(***************************************************************************)
THEOREM FourTwoRecovers ==
    ASSUME DataShards = 4, ParityShards = 2
    PROVE  Spec => []AnyDataShardsRecover
<1>1. \A chosen \in kSubset(DataShards, Index) : Decoding[chosen].regular
  BY FourTwoIndependent, IndependentIsRegular
<1> QED
  BY <1>1, RegularCodesRecover

=============================================================================
