--------------------------- MODULE MCProbeServer ---------------------------
(* ProbeServer on a window of one, two identities and four datagrams. *)
EXTENDS ProbeServer

Probe(id, path) ==
  [size |-> TRUE, magic |-> TRUE, version |-> TRUE, id |-> id, path |-> path]

\* One identity over both uplinks, one over Wi-Fi, and a datagram that fails
\* two checks of the decoder.
MCDatagrams ==
  {Probe(1, "wi-fi"), Probe(1, "android-usb-tether"), Probe(2, "wi-fi"),
   [Probe(NoId, "wi-fi") EXCEPT !.version = FALSE]}
=============================================================================
