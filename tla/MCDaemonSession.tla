-------------------------- MODULE MCDaemonSession --------------------------
(***************************************************************************)
(* Instances of DaemonSession for TLC.                                     *)
(***************************************************************************)
EXTENDS DaemonSession, TLC

\* Neither connections nor sessions are told apart by the specification.
Symmetry == Permutations(Conn) \cup Permutations(Session)

=============================================================================
