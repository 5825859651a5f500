----------------------------- MODULE MCChatServer -----------------------------
(* Small instances of ChatServer. *)
EXTENDS ChatServer, TLC

MCSymmetry ==
    Permutations(Leavers) \cup Permutations(Clients \ Leavers) \cup Permutations(Handles)
=============================================================================
