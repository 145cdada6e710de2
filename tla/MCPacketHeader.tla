--------------------------- MODULE MCPacketHeader ---------------------------
(* The constants of the run of PacketHeader: fields of a few bits. *)
EXTENDS PacketHeader

MCPayloads == {<<>>, <<0>>, <<1>>, <<0, 1, 1>>}
=============================================================================
