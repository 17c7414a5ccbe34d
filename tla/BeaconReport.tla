---------------------------- MODULE BeaconReport ----------------------------
(***************************************************************************)
(* What the scanner promises to the alfred daemon, without threads, mutex, *)
(* deque order or packet building: samples are heard, each is absorbed     *)
(* later into the one sample tracked of its beacon, and a report, built at *)
(* one instant, carries tracked samples.  A beacon is dropped only by a    *)
(* report, when its sample has expired, and a report that drops nothing is *)
(* complete.                                                               *)
(***************************************************************************)
EXTENDS Integers, Sequences

CONSTANTS Mac, Readings, Expiry, MaxTime

VARIABLES
    pending,    \* the samples heard and not absorbed yet
    tracked,    \* the sample that stands for each beacon
    reported,   \* the samples in the last report delivered
    now

vars == <<pending, tracked, reported, now>>

Init ==
    /\ pending = <<>>
    /\ tracked = [m \in {} |-> m]
    /\ reported = {}
    /\ now = 0

Hear ==
    /\ \E m \in Mac, r \in Readings :
          pending' = Append(pending, [mac |-> m, rssi |-> r, time |-> now])
    /\ UNCHANGED <<tracked, reported, now>>

Absorb ==
    /\ \E n \in DOMAIN pending :
          /\ pending' = SubSeq(pending, 1, n - 1)
                            \o SubSeq(pending, n + 1, Len(pending))
          /\ tracked' = [m \in DOMAIN tracked \cup {pending[n].mac} |->
                             IF m = pending[n].mac THEN pending[n] ELSE tracked[m]]
    /\ UNCHANGED <<reported, now>>

Silent(m) == now - tracked[m].time > Expiry

Report ==
    /\ \E carried, dropped \in SUBSET DOMAIN tracked :
          /\ dropped \subseteq carried
          /\ \A m \in dropped : Silent(m)
          /\ dropped = {} => carried = DOMAIN tracked
          /\ tracked' = [m \in DOMAIN tracked \ dropped |-> tracked[m]]
          \* the daemon may be away: the report is lost
          /\ reported' \in {reported, {tracked[m] : m \in carried}}
    /\ UNCHANGED <<pending, now>>

Tick ==
    /\ now' \in now + 1 .. MaxTime
    /\ UNCHANGED <<pending, tracked, reported>>

Next == Hear \/ Absorb \/ Report \/ Tick

Spec == Init /\ [][Next]_vars

=============================================================================
