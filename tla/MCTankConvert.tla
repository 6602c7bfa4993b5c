---------------------------- MODULE MCTankConvert ---------------------------
(***************************************************************************)
(* Small tanks for TankConvert, made like those of TankScan.               *)
(***************************************************************************)
EXTENDS TankConvert, MCTankScan

\* Messages of the other byte order that pass the check.
GoodHeaders == {h \in MCHeaders : h.opposite /\ h.consistent /\ h.width = h.digit}

\* Files of good messages whose channels have no gaps, in any order.
Joined(f) ==
    \A c \in Chans :
        LET M == {o \in DOMAIN f : f[o] # Junk /\ f[o].chan = c}
            First(o) == f[o].time - (f[o].n - 1)
        IN  \A o \in M :
              /\ \A p \in M \ {o} : f[p].time < First(o) \/ f[o].time < First(p)
              /\ \/ \A p \in M : First(o) <= First(p)
                 \/ \E p \in M : f[p].time + 1 = First(o)

MCJoined ==
    {f \in TanksFrom(GoodHeaders, PlacesApart) :
        WellFormed(f) /\ Joined(f)}

\* Two headers anywhere, good or not, overlapping or not.
MCGarbled ==
    TanksFrom({h \in MCHeaders : h.n = 2 /\ h.time = 5}, kSubset(2, Offsets))

\* A swap in vain reads as a message of one sample or as one of too many.
FewReadings ==
    [n : {1}, consistent : {TRUE}, time : {1}] \union
    [n : {9}, consistent : {FALSE}, time : {1}]

MCMixed == MCJoined \union MCGarbled
=============================================================================
