---------------------------- MODULE MCEditCommands ----------------------------
EXTENDS EditCommands

\* a, b, B, >, ^ and the blanks: a tab is two columns.
MCChars == {97, SP, TAB}
MCLines == {<<>>, <<97>>, <<SP, 97>>, <<97, TAB>>}
MCTexts ==
    UNION {
        {<<line>> : line \in UNION {[1..n -> MCChars] : n \in 0..3}},
        [1..2 -> MCLines],
        [1..3 -> {<<>>, <<97>>}],
        {<<<<94, 94>>, <<98, 97>>>>, <<<<97, 97, SP, 97, SP, 97>>>>, <<<<62>>, <<SP, 62>>>>,
         <<<<98, 62>>, <<97>>>>}}
MCEOLModes == {<<CR, LF>>, <<LF>>}
MCColumns == {3}
MCSearches ==
    {[regexp |-> FALSE, find |-> find] : find \in {<<97>>, <<97, 97>>, <<94>>}}
    \cup {[regexp |-> TRUE, pattern |-> pattern] : pattern \in Patterns}
MCReplacements == {<<>>, <<98, 97>>}
MCComment == <<66, 62>>
MCOpen == <<98>>
MCClose == <<98, 98>>
=============================================================================
