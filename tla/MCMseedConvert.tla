--------------------------- MODULE MCMseedConvert ---------------------------
(***************************************************************************)
(* Small tanks and command lines for MseedConvert.                         *)
(***************************************************************************)
EXTENDS MseedConvert

\* Identifiers: two that differ, one that is the beginning of another, and
\* one whose codes do not fit version 2.
A  == <<1, 0>>
B  == <<2, 0>>
AB == <<1, 2, 0>>
L  == <<2, 1, 0>>
MCSids == {A, B, AB, L}
MCUnfit2 == {<<L, 2>>, <<A, 4>>}

\* The command lines: all of up to three words, two that give options twice,
\* and words that are too long for the buffers they are copied to.
Words == {"-v", "-f", "-o", "mseed", "SAC", "tank"}
MCArgvs ==
    UNION {[1..n -> Words] : n \in 0..3}
      \union {<<"-f", "sac", "-o", "a", "-f", "mseed3", "-o", "b", "tank">>,
              <<"-f", "mseed", "-f">>, <<"-f", "", "-o", "-f", "tank">>,
              <<"-o", "a/300/letters", "tank">>, <<"-f", "sac of 20 letters", "tank">>,
              <<"-o", "a", "-o", "a/300/letters", "a/300/letters">>}

\* toupper() of them.
MCUpper ==
    [w \in UNION {{a[k] : k \in DOMAIN a} : a \in MCArgvs} |->
        CASE w = "sac" -> "SAC" [] w = "mseed" -> "MSEED" [] w = "mseed3" -> "MSEED3"
          [] w = "sac of 20 letters" -> "SAC OF 15"
          [] OTHER -> w]

\* And as much of them as a path may have.
MCCut == [w \in DOMAIN MCUpper |-> IF w = "a/300/letters" THEN "a/255" ELSE w]

Pool(starts, counts, pers, kinds) ==
    [start : starts, n : counts, per : pers, kind : kinds]
Traces(sids, count) == [x \in DOMAIN sids |-> [sid |-> sids[x], count |-> count]]
MCTank(sids, count, pool, capacity) ==
    [traces |-> Traces(sids, count), pool |-> pool, capacity |-> capacity]

\* Messages a period apart and off it, in any order and more than once.
Slanted == MCTank(<<A>>, 3, Pool(1..6, {2}, {2}, {"f4"}), 9)
\* Gaps that a third and a fourth message close.
Gapped  == MCTank(<<A>>, 4, Pool({2, 4, 6, 8}, {1}, {2}, {"i4"}), 9)
\* Types that do not fit together, messages without samples, unknown types.
Typed   == MCTank(<<A>>, 3, Pool({2, 4, 6}, {0, 1}, {2}, {"i2", "f8"}), 9)
Others  == MCTank(<<A, B>>, 2, Pool({2, 4}, {1}, {2}, {"f8", "other"}), 9)
\* Rates that do not fit, and a rate of 0.
Rated   == MCTank(<<A>>, 3, Pool({2, 4}, {1, 2}, {0, 2, 4}, {"f4"}), 9)
\* Rates that differ by less than a third, and a chain of them that does not.
Drifting == MCTank(<<A>>, 3, Pool({4, 8, 12}, {1, 2}, {3, 4, 5}, {"f4"}), 9)
\* More traces: with one identifier, with ones that sort anywhere.
Shared  == MCTank(<<B, A, B>>, 1, Pool({2, 4, 6}, {2}, {2}, {"i4", "f4"}), 3)
Sorted  == MCTank(<<B, AB, A, L>>, 1, Pool({2}, {2}, {2}, {"i4"}), 9)
Nothing == MCTank(<<>>, 1, {}, 1)

MCTanks == {Slanted, Gapped, Typed, Others, Rated, Drifting, Shared, Sorted, Nothing}

Mseed(k) == IF k \in {Sorted, Shared, Rated} THEN {"mseed", "mseed3"} ELSE {"mseed3"}

MCInit ==
    \/ \E words \in MCArgvs : MseedInit(words, Nothing)
    \/ \E k \in MCTanks : \E f \in Mseed(k) : MseedInit(<<"-f", f, "tank">>, k)

MCSpec == MCInit /\ [][MseedNext]_allvars /\ WF_allvars(MseedNext)
=============================================================================
