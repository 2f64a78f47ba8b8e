--------------------------- MODULE MCAvailability ---------------------------
(***************************************************************************)
(* Instances of Availability: one object, two payloads of one byte, and    *)
(* besides the correct shards of the first one a shard that carries the    *)
(* bytes of a third payload, one that was damaged, and one of the second.  *)
(***************************************************************************)
EXTENDS Availability, TLC

OneObject == {1}

\* Providers behave alike and no value depends on which one it is.
Symmetry == Permutations(Provider)

First == <<BitsOf(200)>>
Second == <<BitsOf(17)>>
TwoPayloads == {First, Second}
OnePayload == {First}

Third == <<BitsOf(5)>>
Mislabelled == [ShardOf(1, Third, 2) EXCEPT !.content = First]
Damaged == [ShardOf(1, First, 3) EXCEPT !.bytes = ShardOf(1, Second, 3).bytes, !.valid = FALSE]

MixedOffers ==
    {ShardOf(1, First, i) : i \in Index}
        \cup {Mislabelled, Damaged, ShardOf(1, Second, 0)}

CorrectOffers == {ShardOf(1, First, i) : i \in Index}

\* As in the availability experiment: both parity shards, or one data shard.
SomeRepairs == {{3, 4}, {1}}
NoRepairs == {}

=============================================================================
