------------------------- MODULE MCPacketProcessor -------------------------
(* A message of three fragments, sent twice, and one of one packet, sent    *)
(* once, over two connections; the second's command may be unknown.         *)
EXTENDS PacketProcessor, TLC

CONSTANTS s1, s2

Handler(known, multi, filters) == [known |-> known, multi |-> multi, filters |-> filters]

MCComponents == {(s1 :> Handler(TRUE, TRUE, TRUE)) @@ (s2 :> handler) :
                   handler \in {Handler(TRUE, FALSE, FALSE), Handler(FALSE, FALSE, FALSE)}}

MCMaxAttempts == (s1 :> 2) @@ (s2 :> 1)

ConnSymmetry == Permutations(Conns)
=============================================================================
