------------------------------- MODULE Framer -------------------------------
(***************************************************************************)
(* Framer: how a stream of bytes is cut into messages, on either side of a *)
(* connection.  A framer is the record of buf_ and error_.                 *)
(***************************************************************************)
EXTENDS Codec

NewFramer == [buf |-> <<>>, error |-> "None"]

(* Framer::feed: nothing is taken after an error. *)
feed(framer, data) ==
  IF framer.error = "None" THEN [framer EXCEPT !.buf = @ \o data] ELSE framer

NextResult(framer, message) == [framer |-> framer, message |-> message]

(* Framer::next: the first message of the buffer, whose bytes are erased,  *)
(* or no message, and the error if what is there cannot become one.        *)
next(framer) ==
  LET short == NextResult(framer, NoMessage)
      Flag(error) == NextResult([framer EXCEPT !.error = error], NoMessage)
      buf == framer.buf
  IN IF framer.error # "None" \/ Len(buf) < kHeaderSize THEN short
     ELSE LET h     == decode_header(buf)
              total == kHeaderSize + h.body_length
          IN IF h.protocol_version # kProtocolVersion THEN Flag("BadVersion")
             ELSE IF h.body_length > kMaxBodySize THEN Flag("OversizeBody")
             ELSE IF Len(buf) < total THEN short
             ELSE LET body == decode_body(h.msg_type, SubSeq(buf, kHeaderSize + 1, total))
                  IN IF body = NoMessage THEN Flag("BadBody")
                     ELSE NextResult([framer EXCEPT !.buf = SubSeq(buf, total + 1, Len(buf))],
                                     [sequence |-> h.sequence, body |-> body])
=============================================================================
