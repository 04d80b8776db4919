---------------------------- MODULE MCBenchTracks ----------------------------
(* Every group of the three tracks with a problem or two, one of them with two *)
(* tests.                                                                     *)
EXTENDS BenchTracks

P(group, lang, n) == [group |-> group, lang |-> lang, n |-> n]

const_Problems ==
    [track1 |-> <<P("python", "python", 2), P("node", "node", 1), P("go", "go", 1)>>,
     track2 |-> <<P("python", "python", 1), P("node", "node", 1), P("go", "go", 1),
                  P("refactor", "python", 1), P("refactor", "node", 1)>>,
     track3 |-> <<P("python", "python", 1), P("node", "node", 1), P("go", "go", 1)>>]

Tracks == {"track1", "track2", "track3"}

\* Every case in which a section has something to look at, and little else.
const_Cases ==
    ({Tracks} \X (SUBSET {"node", "go"}) \X {0} \X {FALSE})
    \cup ({Tracks \cup {"perf", "evalplus"}} \X {{}} \X {3} \X {FALSE})
    \cup ({{"track1"}} \X {{"node"}} \X {0} \X {FALSE})
    \cup ({{"perf"}} \X {{}} \X {0, 3, 4, 10, 20, 32} \X {FALSE})
    \cup ({{"perf", "track3", "evalplus"}} \X {{"go"}} \X {3} \X BOOLEAN)

const_BaseLevels == {4, 8, 16}
==============================================================================
