---------------------------- MODULE MCRootScanning ----------------------------
(***************************************************************************)
(* RootScanning for TLC: a heap from 8 to 24 with alignment 4 and objects  *)
(* at both ends of it, at 8 and at 20, and one at 12; 16 lies inside an    *)
(* object.  Two threads.  The memories put an object in the first, a       *)
(* middle and the last word of a range, and words that are too low, too    *)
(* high, not aligned, or inside an object; the lock words make chains of   *)
(* monitors of length two, through a class and through an object, and a    *)
(* thin lock word that happens to equal an address.                        *)
(***************************************************************************)
EXTENDS RootScanning, TLC

CONSTANTS t1, t2, cls, mon, weak

MCObjects == {8, 12, 20}
MCClasses == {cls, mon, weak}
MCClassOf == (8 :> mon) @@ (12 :> weak) @@ (20 :> cls)
MCThreads == <<t1, t2>>

Thin == [c \in MCClasses |-> 0]
ThinLocks == (8 :> 0) @@ (12 :> 8) @@ (20 :> 12)

Stacks == {<<>>, <<20>>, <<16, 4, 8>>, <<24, 12, 21>>}
MCMemories ==
    {[stack |-> (t1 :> s) @@ (t2 :> r), regs |-> (t1 :> <<0>>) @@ (t2 :> <<9, 12>>),
      modules |-> m, classLock |-> k, lockWord |-> l] :
        s \in Stacks, r \in {<<>>, <<20, 8>>}, m \in {<<>>, <<0, 20>>, <<13, 12>>},
        k \in {Thin, [Thin EXCEPT ![cls] = 9]},
        l \in {ThinLocks, [ThinLocks EXCEPT ![20] = 13],
               [ThinLocks EXCEPT ![20] = 13, ![12] = 9]}}
=============================================================================
