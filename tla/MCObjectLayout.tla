--------------------------- MODULE MCObjectLayout -----------------------------
(***************************************************************************)
(* Instance of ObjectLayout for TLC: an i32 of 7 bits in a word of 13 bits *)
(* with an alignment of 16, and the sizes about each multiple of it.       *)
(***************************************************************************)
EXTENDS ObjectLayout

\* Classes at aligned addresses: plain objects whose size is a multiple of the
\* alignment, one less, and only a header; a weak reference; arrays.
MCRttis ==
    [r \in {0, 16, 32, 48, 64, 80} |->
      CASE r = 0  -> [kind |-> "plain", size |-> 31, refMap |-> <<0, -1>>]
        [] r = 16 -> [kind |-> "plain", size |-> 40, refMap |-> <<0, 2, -1>>]
        [] r = 32 -> [kind |-> "plain", size |-> 16, refMap |-> <<-1>>]
        [] r = 48 -> [kind |-> "weak", size |-> 48, refMap |-> <<1, 0, 3, -1>>]
        [] r = 64 -> [kind |-> "objects", size |-> 24, refMap |-> <<-1>>]
        [] r = 80 -> [kind |-> "values", size |-> 24, refMap |-> <<-1>>]]

\* All contents of the first four words.
MCWords == {[k \in 0..MaxInt |-> IF k \in 0..3 THEN w[k] ELSE "object"] :
              w \in [0..3 -> {"null", "object", "weak"}]}

MCObjects ==
    [rtti : {0, 16, 32, 48}, length : {0}, stride : {0}, words : MCWords]
      \cup [rtti : {64}, length : 0..4 \cup {63}, stride : {8}, words : MCWords]
      \cup [rtti : {80}, length : 0..63, stride : {1, 2, 4, 8, 63},
            words : {[k \in 0..MaxInt |-> "object"]}]
===============================================================================
