----------------------------- MODULE MCSession ------------------------------
EXTENDS Session

MCSizes  == {<<80, 24>>, <<20, 10>>}
MCEnvironments == {<<Unset, Unset>>, <<Unset, 24>>, <<20, 24>>}
MCClicks == {<<0, 222>>, <<79, 0>>}

\* One key for each way through the mapping.
MCKeys == {65, 66,                      \* a character, none
           62720, 61440,                \* 5,0; 0,0
           480, 61664,      \* E0, with an entry and without
           257, 258, 259, 260, 261,     \* below 20
           7 * 256 + 30,                \* that resets the keyboard
           289, 304,                    \* above
           256, 512, 768, 1024}         \* function keys
MCFindwp   == 65 :> 65 @@ 4 :> 300
MCSpecial  == "np_tab" :> (289 :> 500) @@ "cc_tab" :> (257 :> 600 @@ 258 :> 0)
              @@ "e0_tab" :> (480 :> 700)
MCExtended == "ch_tab" :> (3 :> [found |-> TRUE, value |-> 800]
                           @@ 48 :> [found |-> TRUE, value |-> 0])
              @@ "ex_tab" :> (1 :> [found |-> TRUE, value |-> 900]
                              @@ 2 :> [found |-> TRUE, value |-> 0]
                              @@ 3 :> [found |-> FALSE, value |-> 3])

\* Each key, and clicks among keys.
K(code) == [kind |-> "key", code |-> code]
C(x, y) == [kind |-> "click", at |-> <<x, y>>]
MCInputs == {<<K(code)>> : code \in MCKeys}
            \cup {<<C(0, 222), K(65)>>, <<K(62720), C(79, 0), C(0, 222)>>}
=============================================================================
