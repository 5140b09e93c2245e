----------------------------- MODULE MCMeeting -----------------------------
(* Meeting on small instances: users and slots are model values.           *)
EXTENDS Meeting, TLC

CONSTANTS host, ann, bob, s1, s2

\* Guests are interchangeable, and so are slots.
GuestSymmetry == Permutations(Users \ {Host})
SlotSymmetry == Permutations(Slots)
BothSymmetry == GuestSymmetry \cup SlotSymmetry
=============================================================================
