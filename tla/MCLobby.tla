-------------------------------- MODULE MCLobby --------------------------------
(* Lobby with symmetric threads and sessions, for a run that checks what   *)
(* states and steps satisfy; no thread or session differs from another.    *)
EXTENDS Lobby, TLC

Symmetry == Permutations(Threads) \cup Permutations(Sessions)
===============================================================================
