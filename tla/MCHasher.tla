------------------------------ MODULE MCHasher ------------------------------
(* Two machines that share a dataset; keys of one length, and keys of which *)
(* one is a prefix of the other.                                            *)
EXTENDS Hasher

MCVMs == 0 .. N - 1
MCKeys == {<<1, 1>>, <<1, 2>>}
MCPrefixKeys == {<<1>>, <<1, 2>>}
MCDatasets == [id : 1 .. MaxGenerations, key : Keys]
MCNonces == {0}
MCLastNonce == {Nonce_Values - 1}
=============================================================================
