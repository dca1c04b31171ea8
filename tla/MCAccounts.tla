----------------------------- MODULE MCAccounts -----------------------------
(* Accounts on two users, with the slots of each kind interchangeable: two *)
(* sessions and one link, or one session and two links.                    *)
EXTENDS Accounts, TLC

\* Bound: sessions in the table at a time, and links ever made.
MaxRows == 3

RowsUsed ==
  Cardinality({s \in Session : sess[s].age # "none"})
    + Cardinality({i \in Invite : inv[i].state # "unused"})

FewRows == RowsUsed <= MaxRows

SlotSymmetry == Permutations(Session) \cup Permutations(Invite) \cup Permutations(Request)
=============================================================================
