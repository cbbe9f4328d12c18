----------------------------- MODULE MCGrsUtil ------------------------------
(* Files of one driver with up to three fields, empty, of one byte, words  *)
(* and too long, whose size is right or not; of that driver and another,   *)
(* before or after it, of its name or of another name; and of two headers  *)
(* that share their data.                                                  *)
EXTENDS GrsUtil

Old(len) == [length |-> len, val |-> 1]
Blocks == {[size |-> SizeOf([fields |-> fs]) + slack, fields |-> fs] :
             fs \in BoundedSeq({Old(0), Old(1), Old(WORD), Old(MAXDATA + 1)}, 3),
             slack \in {-2, 0, 1}} \cup {[size |-> 1, fields |-> <<>>]}
Other == [size |-> 6, fields |-> <<Old(WORD)>>]

Header(name, dataoff) == [name |-> name, dataoff |-> dataoff]
Headers == {<<Header("P", 1)>>,
            <<Header("P", 1), Header("Q", 2)>>, <<Header("Q", 2), Header("P", 1)>>,
            <<Header("P", 1), Header("P", 2)>>, <<Header("Q", 1), Header("P", 1)>>}

MCFiles == {[drivers |-> hs, data |-> <<b, Other>>] :
              hs \in Headers, b \in {x \in Blocks : x.size >= 0}}
=============================================================================
