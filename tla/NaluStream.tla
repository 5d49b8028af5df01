------------------------------ MODULE NaluStream ------------------------------
(***************************************************************************)
(* What the RTP packer promises to the receiver of its packets (RFC 6184   *)
(* seen from outside): the NALUs of a buffer leave in the order they have  *)
(* in the buffer; the payload of each is cut into consecutive pieces that  *)
(* are sent one per packet, with nothing skipped and nothing sent twice;   *)
(* the marker bit closes a NALU only when all of it was sent; and the      *)
(* sequence numbers are consecutive, so that a receiver can tell a lost    *)
(* packet from the next one.  Nothing is said here of how the pieces are   *)
(* chosen: that is the packer's business (module RtpPack).                 *)
(*                                                                         *)
(* A NALU is its length in bytes.  Byte 0, the NALU header, travels in the *)
(* header bytes of the packets; bytes 1..len-1 are the payload.            *)
(***************************************************************************)
EXTENDS Integers, Sequences

CONSTANTS
  SeqMod,       (* sequence numbers are counted modulo this (2^16)         *)
  Nalus         (* the NALU lengths that may be put                        *)

VARIABLES
  todo,         (* NALUs not wholly sent yet, the one in progress first    *)
  got,          (* payload bytes of Head(todo) already sent                *)
  seq,          (* sequence number of the next packet                      *)
  last          (* the piece the last packet carried                       *)

svars == <<todo, got, seq, last>>

Init ==
  /\ todo = <<>>
  /\ got = 0
  /\ seq = 0
  /\ last = [seq |-> 0, from |-> 0, upto |-> 0, marker |-> FALSE]

(* A new buffer replaces whatever was left of the previous one.            *)
Put ==
  /\ todo' \in Seq(Nalus)
  /\ got' = 0
  /\ UNCHANGED <<seq, last>>

(* The next packet carries bytes got+1 .. upto of the NALU in progress     *)
(* (none when upto = got).                                                 *)
Piece(upto, marker) ==
  /\ todo # <<>>
  /\ upto \in got .. Head(todo) - 1
  /\ last' = [seq |-> seq, from |-> got + 1, upto |-> upto, marker |-> marker]
  /\ seq' = (seq + 1) % SeqMod

SendPiece ==
  /\ todo # <<>>
  /\ \E upto \in got .. Head(todo) - 1 : Piece(upto, FALSE) /\ got' = upto
  /\ todo' = todo

CloseNalu ==
  /\ todo # <<>>
  /\ Piece(Head(todo) - 1, TRUE)
  /\ todo' = Tail(todo)
  /\ got' = 0

Next == Put \/ SendPiece \/ CloseNalu

Spec == Init /\ [][Next]_svars
================================================================================
