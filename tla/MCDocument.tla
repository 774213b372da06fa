----------------------------- MODULE MCDocument -----------------------------
(***************************************************************************)
(* Small instance of Document: two file names, three texts, and the        *)
(* command lines worth telling apart.                                      *)
(***************************************************************************)
EXTENDS Document, TLC

MCText == {"empty", "a", "b"}
MCBlank == {"empty"}
MCContent == MCText \cup {"damaged"}

\* "b" is "a" with its trailing blanks stripped and its date brought up to date.
MCTidy == [t \in MCContent |-> IF t = "a" THEN "b" ELSE t]
MCStamp == [t \in MCContent |-> IF t = "a" THEN "b" ELSE t]

CommandLine(noMenu, noAsk, readOnly, f2) ==
    [bnomenu |-> noMenu, bnoAsk |-> noAsk, flagbreadonly |-> readOnly,
     mitf2com |-> f2]

MCOptionSet == {CommandLine(FALSE, FALSE, FALSE, TRUE),
                CommandLine(FALSE, FALSE, TRUE, FALSE),
                CommandLine(TRUE, FALSE, FALSE, FALSE),
                CommandLine(FALSE, TRUE, FALSE, TRUE)}

Symmetry == Permutations(Path)
=============================================================================
