---------------------------- MODULE PacketStream ----------------------------
(***************************************************************************)
(* What a packet connection promises: packets come out whole, once and in  *)
(* the order they went in.  The promise ends when the stream breaks; from  *)
(* then on anything may come out.                                          *)
(***************************************************************************)
EXTENDS Naturals, Sequences

CONSTANT Packets   \* what may go in

VARIABLES
  in,      \* the packets that went in
  out,     \* what came out
  broken   \* the promise has ended

streamVars == << in, out, broken >>

Init == in = << >> /\ out = << >> /\ broken = FALSE

Put ==
  /\ \E p \in Packets : in' = Append(in, p)
  /\ UNCHANGED << out, broken >>

Get ==
  /\ ~broken
  /\ Len(out) < Len(in)
  /\ out' = Append(out, in[Len(out) + 1])
  /\ UNCHANGED << in, broken >>

Break == ~broken /\ broken' = TRUE /\ UNCHANGED << in, out >>

(* Nothing that has come out is taken back, even then.                     *)
Garble ==
  /\ broken
  /\ Len(out') = Len(out) + 1
  /\ SubSeq(out', 1, Len(out)) = out
  /\ UNCHANGED << in, broken >>

Next == Put \/ Get \/ Break \/ Garble

Spec == Init /\ [][Next]_streamVars
=============================================================================
