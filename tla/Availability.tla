---------------------------- MODULE Availability ----------------------------
(***************************************************************************)
(* Shard providers: mosaic/availability.py (AvailabilityStore) behind      *)
(* mosaic/availability_network.py (AvailabilityCoordinator) with its       *)
(* durable rows, as the node's AVAILABILITY_PUT, AVAILABILITY_FETCH and    *)
(* AVAILABILITY_REPAIR handlers use them.  A client publishes the shards   *)
(* of a payload, fetches k of them from providers that are up and asks a   *)
(* provider to rebuild missing ones.  Providers crash and restart; what is *)
(* written last before a crash is any prefix of a repair.                  *)
(*                                                                         *)
(* A digest is injective, so a content digest is the payload itself.       *)
(***************************************************************************)
EXTENDS ErasureCodec

CONSTANTS
    Provider,        \* nodes that store shards
    Object,          \* object ids; numbers, because rows are read in key order
    Payload,         \* payloads that clients encode
    Offered,         \* shards that clients send
    RepairRequests   \* sets of indices that clients ask a provider to rebuild

VARIABLES
    store,   \* store[p]: the shards in memory, at most one per object and index
    disk,    \* disk[p]: the durable rows
    up       \* up[p]: the provider runs

vars == <<store, disk, up>>

-----------------------------------------------------------------------------
(***************************************************************************)
(* A shard.  valid abstracts what put and verify look at before the        *)
(* content: the codec's parameters, the index and the shard's own digest.  *)
(***************************************************************************)
ShardOf(object, payload, i) ==
    [object |-> object, content |-> payload, index |-> i,
     bytes |-> Encode(payload)[i], valid |-> TRUE]

Correct == {ShardOf(o, p, i) : o \in Object, p \in Payload, i \in Index}

ASSUME OfferedAssumption ==
    /\ Object \subseteq Nat
    /\ \A p \in Payload : p \in Seq(Byte) /\ Len(p) < 256
    /\ \A s \in Offered : /\ s.object \in Object
                          /\ s.content \in Payload
                          /\ s.index \in Index
                          /\ s.valid \in BOOLEAN
    /\ RepairRequests \subseteq (SUBSET Index) \ {{}}

SameKey(s, t) == s.object = t.object /\ s.index = t.index

Indices(shards) == {s.index : s \in shards}

\* Mutant: the content of the shards that are there is not compared.
AcceptsAnyContent(shards, s) == s.valid

\* The checks of AvailabilityStore.put.
Accepts(shards, s) ==
    /\ s.valid
    /\ \A t \in shards : t.object = s.object => t.content = s.content

\* Mutant: the shard that had the index before stays.
PlacedBeside(shards, s) == shards \cup {s}

\* existing[shard.shard_index] = shard; the durable row has the same key.
Placed(shards, s) == {t \in shards : ~SameKey(s, t)} \cup {s}

PlacedAll(shards, new) ==
    {t \in shards : \A s \in new : ~SameKey(s, t)} \cup new

\* The k shards with the lowest indices.
Selected(shards) ==
    {s \in shards : Cardinality({t \in shards : t.index < s.index}) < DataShards}

Compatible(shards) ==
    \A s, t \in shards : /\ s.valid
                         /\ s.object = t.object
                         /\ s.content = t.content
                         /\ Len(s.bytes) = Len(t.bytes)

\* Mutant: the recovered payload is not compared with the content digest.
RecoverUnchecked(shards) ==
    LET selected == Selected(shards)
    IN  IF Cardinality(Indices(shards)) >= DataShards /\ Compatible(selected)
        THEN Decode([i \in Indices(selected) |-> (CHOOSE s \in selected : s.index = i).bytes])
        ELSE Unreadable

(***************************************************************************)
(* ErasureCodec.recover on shards with distinct indices: the payload, or   *)
(* Unreadable for every error it raises.                                   *)
(***************************************************************************)
Recover(shards) ==
    LET selected == Selected(shards)
        payload == Decode([i \in Indices(selected) |-> (CHOOSE s \in selected : s.index = i).bytes])
    IN  IF /\ Cardinality(Indices(shards)) >= DataShards
           /\ Compatible(selected)
           /\ \A s \in selected : s.content = payload
        THEN payload
        ELSE Unreadable

\* What the providers that are up answer to AVAILABILITY_FETCH.
Fetchable == UNION {store[p] : p \in {q \in Provider : up[q]}}

\* Sets of k of the shards, of one object and with distinct indices.
Sources(shards) ==
    {S \in kSubset(DataShards, shards) :
        /\ Cardinality(Indices(S)) = DataShards
        /\ \A s, t \in S : s.object = t.object}

-----------------------------------------------------------------------------
Init ==
    /\ store = [p \in Provider |-> {}]
    /\ disk = [p \in Provider |-> {}]
    /\ up = [p \in Provider |-> TRUE]

\* AVAILABILITY_PUT: the shard is placed in memory and then in the store.
Put(p, s) ==
    /\ up[p]
    /\ Accepts(store[p], s)
    /\ store' = [store EXCEPT ![p] = Placed(@, s)]
    /\ disk' = [disk EXCEPT ![p] = Placed(@, s)]
    /\ UNCHANGED up

(***************************************************************************)
(* codec.repair: recover, encode again, keep the shards asked for.  These  *)
(* are the results that a client can bring about with what it can fetch.   *)
(***************************************************************************)
Repairs ==
    LET ObjectOf(source) == (CHOOSE s \in source : TRUE).object
        results == {<<ObjectOf(source), Recover(source)>> : source \in Sources(Fetchable)}
    IN  {{ShardOf(r[1], r[2], i) : i \in missing} :
            r \in {q \in results : q[2] # Unreadable}, missing \in RepairRequests}

\* Mutant: the rebuilt shards are kept in memory only.
RepairInMemory(p, repaired) ==
    /\ up[p]
    /\ \A s \in repaired : Accepts(store[p], s)
    /\ store' = [store EXCEPT ![p] = PlacedAll(@, repaired)]
    /\ UNCHANGED <<disk, up>>

(***************************************************************************)
(* AVAILABILITY_REPAIR: every rebuilt shard goes through put.  They share  *)
(* one content, so put takes all of them or refuses the first.             *)
(***************************************************************************)
Repair(p, repaired) ==
    /\ up[p]
    /\ \A s \in repaired : Accepts(store[p], s)
    /\ store' = [store EXCEPT ![p] = PlacedAll(@, repaired)]
    /\ disk' = [disk EXCEPT ![p] = PlacedAll(@, repaired)]
    /\ UNCHANGED up

\* The provider dies during a repair; the shards below index i are durable.
CrashInRepair(p, repaired, i) ==
    /\ up[p]
    /\ \A s \in repaired : Accepts(store[p], s)
    /\ disk' = [disk EXCEPT ![p] = PlacedAll(@, {s \in repaired : s.index < i})]
    /\ store' = [store EXCEPT ![p] = {}]
    /\ up' = [up EXCEPT ![p] = FALSE]

Crash(p) ==
    /\ up[p]
    /\ store' = [store EXCEPT ![p] = {}]
    /\ up' = [up EXCEPT ![p] = FALSE]
    /\ UNCHANGED disk

RowBefore(s, t) == s.object < t.object \/ (s.object = t.object /\ s.index < t.index)

\* put refuses row s because of a row that was restored before it.
Refused(rows, s) ==
    \E t \in rows : RowBefore(t, s) /\ t.object = s.object /\ t.content # s.content

\* restore_from_store: the rows in key order, up to the first that is refused.
Restored(rows) ==
    {s \in rows : ~\E t \in rows : (t = s \/ RowBefore(t, s)) /\ Refused(rows, t)}

Restart(p) ==
    /\ ~up[p]
    /\ store' = [store EXCEPT ![p] = Restored(disk[p])]
    /\ up' = [up EXCEPT ![p] = TRUE]
    /\ UNCHANGED disk

Next ==
    \/ \E repaired \in Repairs, p \in Provider :
            \/ Repair(p, repaired)
            \/ \E i \in Indices(repaired) : CrashInRepair(p, repaired, i)
    \/ \E p \in Provider :
            \/ \E s \in Offered : Put(p, s)
            \/ Crash(p)
            \/ Restart(p)

Spec == Init /\ [][Next]_vars

-----------------------------------------------------------------------------
OnePerKey(shards) == \A s, t \in shards : SameKey(s, t) => s = t

\* Memory and rows hold valid shards, at most one for an object and index:
\* put replaces the shard that an index had before.
TypeOK ==
    /\ up \in [Provider -> BOOLEAN]
    /\ \A p \in Provider : /\ OnePerKey(store[p]) /\ OnePerKey(disk[p])
                           /\ \A s \in store[p] \cup disk[p] : s.valid

(***************************************************************************)
(* A provider that is up serves exactly what a restart would give back,    *)
(* whatever puts, repairs and crashes in the middle of a repair came       *)
(* before: put writes each shard to the store, and restore_from_store      *)
(* never stops at a row that put refuses.                                  *)
(***************************************************************************)
ServedIsDurable == \A p \in Provider : up[p] => store[p] = disk[p]

(***************************************************************************)
(* Any k of the correct shards of a payload that can be fetched give the   *)
(* payload back (availability.py, class ErasureCodec: requiring any k of n *)
(* shards for recovery).                                                   *)
(***************************************************************************)
AnyDataShardsRecover ==
    \A source \in Sources(Fetchable \cap Correct) :
        Compatible(source) => \A s \in source : Recover(source) = s.content

(***************************************************************************)
(* A repair stores no shard that nobody sent and that is not the correct   *)
(* one: when a client hands recover shards that do not belong together,    *)
(* the digest comparison refuses before anything is encoded again.         *)
(***************************************************************************)
RepairsAreFaithful == \A p \in Provider : store[p] \cup disk[p] \subseteq Offered \cup Correct

(***************************************************************************)
(* The first shard of an object decides its content for good: no put,      *)
(* repair, crash or restart replaces the content or loses a row.           *)
(***************************************************************************)
ContentIsFinal ==
    [][\A p \in Provider : \A s \in disk[p] :
            \E t \in disk'[p] : SameKey(s, t) /\ s.content = t.content]_vars

=============================================================================
