----------------------------- MODULE MCSeqLock -----------------------------
(* A small instance of SeqLock: values of no, one and two words. *)
EXTENDS SeqLock

MCPayloads == {<<>>, <<1>>, <<1, 1>>, <<2, 2>>}
=============================================================================
