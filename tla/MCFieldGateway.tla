--------------------------- MODULE MCFieldGateway ---------------------------
(***************************************************************************)
(* Small instances of FieldGateway: one readable export and, where it      *)
(* matters, one that the parser refuses; two credentials, so that one can  *)
(* supersede the other.                                                    *)
(***************************************************************************)
EXTENDS FieldGateway, TLC

CONSTANTS f1, f2, h1, h2, h3, t1, t2, o1

OneFile == {f1}
TwoFiles == {f1, f2}
SecondIsUnreadable == {f2}
AllReadable == {}
OneHandler == {h1}
ThreeHandlers == {h1, h2, h3}
TwoTokens == {t1, t2}
OneOfficer == {o1}

(* Processes are interchangeable.                                          *)
Alike == Permutations(ThreeHandlers)
=============================================================================
