----------------------------- MODULE MCMacTool ------------------------------
(* Texts of a few characters, one key, two WordPerfect characters that look *)
(* the same and one that is not defined.                                   *)
EXTENDS MacTool, TLC

MCChars == {"T", "space", "nl", "hash", "quote", "open", "close"}
MCNames == (<<"T">> :> "Tab") @@ (<<"space">> :> "space") @@ (<<"quote">> :> "quote")
           @@ (<<"open">> :> "open")
MCGlyphs == [ka |-> "ka", ka2 |-> "ka", gap |-> Undefined]
MCRank == [ka |-> 1, ka2 |-> 2, gap |-> 0]

AllWords == MCChars \cup {"Tab", NUL} \cup DOMAIN MCGlyphs
=============================================================================
