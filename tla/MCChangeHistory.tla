--------------------------- MODULE MCChangeHistory ---------------------------
(* Model values and descriptions for the runs of ChangeHistory. *)
EXTENDS MarketViews

CONSTANTS a, b, c

TwoProviders == {a, b}
ThreeProviders == {a, b, c}
TwoDays == {1, 2}

Swap(old, new) == [old |-> old, new |-> new, update |-> FALSE]

(* "Remove a and add b", "Add b", "Remove a as IPX provider", "ASN update". *)
MixedTexts ==
    {Swap(a, b), Swap(Null, b), [Swap(a, Null) EXCEPT !.update = TRUE],
     [Swap(Null, Null) EXCEPT !.update = TRUE]}

(* The carrier changed twice. *)
ChainTexts == {Swap(a, b), Swap(b, c)}
AdditionTexts == {Swap(a, b), Swap(Null, b)}

=============================================================================
