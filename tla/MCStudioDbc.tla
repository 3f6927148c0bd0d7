---------------------------- MODULE MCStudioDbc -----------------------------
(* Small instances of StudioDbc.                                           *)
EXTENDS StudioDbc

CONSTANTS k1, k2, p

Share(claimable, lockable, same) ==
    [curve |-> "complete", vesting |-> TRUE, same |-> same, claimable |-> claimable,
     lockable |-> lockable, roles |-> Side, existing |-> FALSE, missed |-> FALSE]
Plain == [Share({}, {}, FALSE) EXCEPT !.vesting = FALSE]

\* A migrated pool with four shares, one whose creator is the partner, pools
\* without vesting or shares, and pools that are not yet complete.
MCWorlds == {
    Share(Side, Side, FALSE),
    Share({"creator"}, Side, TRUE),
    [Plain EXCEPT !.missed = TRUE],
    [Plain EXCEPT !.curve = "open", !.roles = {"partner"}],
    [Plain EXCEPT !.curve = "absent", !.roles = {}, !.missed = TRUE],
    [Plain EXCEPT !.curve = "absent", !.existing = TRUE]}

\* Two calls run any commands; the second may be a dry run.
MCInputs == {i \in [Call -> [cmd : Command, dry : BOOLEAN]] : ~i[k1].dry}
=============================================================================
