---------------------------- MODULE MCPushToTalk ----------------------------
(***************************************************************************)
(* Instances of PushToTalk for TLC.                                        *)
(***************************************************************************)
EXTENDS PushToTalk, TLC

\* Neither connections nor sessions are told apart by the specification.
Symmetry == Permutations(Conn) \cup Permutations(Session)

\* The same for liveness, where TLC takes no symmetry: one of them is the first
\* to be taken.
FirstTaken(S, taken) == taken # {} => (CHOOSE x \in S : TRUE) \in taken

Taken == {k \in Conn : link = k \/ conn[k] = "closed"}

\* bound: a behaviour has a second session or a second connection.
Narrow ==
    /\ FirstTaken(Conn, Taken) /\ FirstTaken(Session, used)
    /\ Cardinality(Taken) <= 1 \/ Cardinality(used) <= 1

\* Only the user and the network are narrowed, to whom no fairness applies.
FairNarrow ==
    /\ SystemInit /\ [][SystemNext /\ Narrow']_systemVars
    /\ SystemFairness

=============================================================================
