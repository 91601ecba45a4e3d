----------------------------- MODULE MCFileTest -----------------------------
(***************************************************************************)
(* An instance of FileTest for TLC: five sectors beside those of the map    *)
(* and the directory, three entries, and two names that are the same in     *)
(* their first FileNameMaxLen characters.                                  *)
(***************************************************************************)
EXTENDS FileTest

CONSTANTS x, y, z, a, b, test, longTest, other, third

MCStored == [n \in Names |-> CASE n \in {test, longTest} -> x
                               [] n = other -> y
                               [] n = third -> z]
MCTexts == {<< >>, << a, b, b, a, b >>}
MCContents == << a, b >>
=============================================================================
