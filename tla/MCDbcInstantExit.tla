-------------------------- MODULE MCDbcInstantExit ---------------------------
(* Instances of DbcInstantExit for TLC.                                     *)
EXTENDS DbcInstantExit, TLC

\* Simulated and fast claims, and a withdrawal, which the server refuses.
SomeOptions == {[action |-> "claim", simulate |-> TRUE, fast |-> FALSE],
                [action |-> "claim", simulate |-> TRUE, fast |-> TRUE],
                [action |-> "withdraw", simulate |-> FALSE, fast |-> FALSE]}
PlainClaim == {[action |-> "claim", simulate |-> FALSE, fast |-> FALSE]}
\* The route as shipped answers `txBase64` only; the documents say `tx`.
ShippedAnswer == {FALSE}
AnyAnswer == BOOLEAN
Batch == {[caller |-> "batch", controls |-> {}]}
Button == {[caller |-> "button", controls |-> {}]}
\* The button and the table as shipped, the button with abort and reset as the
\* documents describe the page.
AnyHost == Button \cup Batch \cup
                       {[caller |-> "table", controls |-> {}],
                        [caller |-> "button", controls |-> {"abort", "reset"}]}
\* The default priority: 250000, 337500.0, 455625.00000000006.
DefaultFractional == {3}
\* A base such as 200000: 200000, 270000.0, 364500.0.
WholeLadder == {}
InstantSymmetry == Permutations(Call) \cup Permutations(Pool)
=============================================================================
