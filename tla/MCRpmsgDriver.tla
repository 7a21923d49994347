--------------------------- MODULE MCRpmsgDriver ---------------------------
(* The driver on small sets of contexts, descriptors, nodes and datagrams. *)
EXTENDS RpmsgDriver, TLC

CONSTANTS whole, short, long, empty

(* An app_msg_t of two bytes; a datagram may be cut short or too long. *)
MCLengthOf ==
    [d \in Datagrams |-> CASE d = whole -> 2 [] d = short -> 1
                           [] d = long  -> 3 [] d = empty -> 0]

Symmetry == Permutations(Contexts)
=============================================================================
