--------------------------- MODULE DeltaEncoding ---------------------------
(***************************************************************************)
(* The encoding of the transaction history that the ResLens middleware     *)
(* sends to the chart (encoding.js) and the chart's decoding of it         *)
(* (encoding.ts): the first point, and for each later one the difference   *)
(* from the point before it.                                               *)
(*                                                                         *)
(* The epochs come from parseTimeToUnixEpoch, whose argument has whole     *)
(* seconds: they are multiples of TIME_MULTIPLIER, and the divisions below *)
(* are exact.                                                              *)
(***************************************************************************)
EXTENDS Integers, Sequences

CONSTANTS
    TIME_MULTIPLIER,  \* microseconds in a second, 1000000 in the code
    Seconds,          \* times of blocks, in seconds
    Volumes,          \* numbers of transactions of a block
    MaxPoints         \* bound: points in a series

DeltaAssumption ==
    /\ TIME_MULTIPLIER \in Nat \ {0}
    /\ Seconds \subseteq Nat /\ Volumes \subseteq Nat
    /\ MaxPoints \in Nat

VARIABLE data   \* the series the middleware read from its cache

applyDeltaEncoding(d) ==
    IF d = <<>>
    THEN [startEpoch |-> 0, startVolume |-> 0, epochs |-> <<>>, volumes |-> <<>>]
    ELSE [startEpoch |-> d[1].epoch \div TIME_MULTIPLIER,
          startVolume |-> d[1].volume,
          epochs |-> [i \in 1 .. Len(d) - 1 |->
                        (d[i + 1].epoch - d[i].epoch) \div TIME_MULTIPLIER],
          volumes |-> [i \in 1 .. Len(d) - 1 |-> d[i + 1].volume - d[i].volume]]

decodeDeltaEncoding(e) ==
    LET point[i \in 1 .. Len(e.epochs) + 1] ==
            IF i = 1
            THEN [epoch |-> e.startEpoch * TIME_MULTIPLIER,
                  volume |-> e.startVolume]
            ELSE [epoch |-> (point[i - 1].epoch \div TIME_MULTIPLIER
                                + e.epochs[i - 1]) * TIME_MULTIPLIER,
                  volume |-> point[i - 1].volume + e.volumes[i - 1]]
    IN point

Init == data = <<>>

\* A block is recorded: the series gets a point, as parseTimeToUnixEpoch
\* makes it.  Times need not grow.
AddPoint ==
    /\ Len(data) < MaxPoints
    /\ \E s \in Seconds, v \in Volumes :
        data' = Append(data, [epoch |-> s * TIME_MULTIPLIER, volume |-> v])

Spec == Init /\ [][AddPoint]_data

-----------------------------------------------------------------------------
\* What the chart decodes is the series the middleware encoded, whenever it
\* has a point (the middleware answers 404 to a request when it has none).
\* Times that go back and volumes that fall make negative differences.
RoundTrip ==
    data # <<>> => decodeDeltaEncoding(applyDeltaEncoding(data)) = data

=============================================================================
