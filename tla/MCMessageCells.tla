--------------------------- MODULE MCMessageCells ---------------------------
(* An own text, a picture of another user, an own picture, a broken URL.    *)
EXTENDS MessageCells, TLC

CONSTANTS own, pic, pic2, bad, c1, c2

MCKind == own :> "text" @@ pic :> "url" @@ pic2 :> "url" @@ bad :> "badURL"
MCFetches == {"l1", "l2"}
MCOwn == {own, pic2}
CellSymmetry == Permutations({c1, c2})

=============================================================================
