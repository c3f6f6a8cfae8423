----------------------------- MODULE MCTraffic -----------------------------
(***************************************************************************)
(* Bounded inputs for Traffic.                                             *)
(***************************************************************************)
EXTENDS Traffic

CONSTANTS b0, p1, f1, f2, d1, d2

MCBDT == <<p1, b0>>
MCInitialFDT == <<f1, f2>>

Packet(kind, source, device, allowed, native) ==
  [kind |-> kind, source |-> source, device |-> device, allowed |-> allowed, native |-> native]

MCPackets ==
  { Packet("original", p1, NoDevice, TRUE, FALSE),
    Packet("distribute", f1, d1, TRUE, FALSE),
    Packet("checked", p1, d1, FALSE, FALSE),
    Packet("checked", p1, d2, TRUE, FALSE),
    Packet("checked", p1, d2, TRUE, TRUE) }

=============================================================================
