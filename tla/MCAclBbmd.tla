----------------------------- MODULE MCAclBbmd -----------------------------
(***************************************************************************)
(* Three configurations and two packets for AclBbmd.  The first two        *)
(* differ so that a mixture of them decides as neither does: `vendor` is   *)
(* allowed in a window only, `staff` refuses the same source.  The third   *)
(* makes that source eligible for cut-through, and the native engine does  *)
(* not accept it.                                                          *)
(***************************************************************************)
EXTENDS AclBbmd, TLC

CONSTANTS a1, a2

MCInstants == {[day |-> "sun", mark |-> 180], [day |-> "mon", mark |-> 180]}

Rule(name, action, types, window) ==
  [ name |-> name, action |-> action, priority |-> 10, srcNet |-> {a1}, srcDev |-> NoDev,
    dstNet |-> NoNet, dstDev |-> NoDev, types |-> types, window |-> window, enabled |-> TRUE ]

MaintenanceWindow == [start |-> 120, end |-> 240, days |-> {"sun"}]

Windowed ==
  [ rules |-> <<Rule("vendor", "allow", {"original_broadcast", "original_unicast"},
                     MaintenanceWindow)>>,
    defaultAction |-> "deny", cutThrough |-> TRUE, cutThroughNets |-> {} ]

Refusing ==
  [ rules |-> <<Rule("staff", "deny", {"all"}, NoWindow)>>,
    defaultAction |-> "allow", cutThrough |-> TRUE, cutThroughNets |-> {} ]

Open ==
  [ rules |-> <<Rule("everything", "allow", {"all"}, NoWindow)>>,
    defaultAction |-> "deny", cutThrough |-> TRUE, cutThroughNets |-> {} ]

MCConfigs == {Windowed, Refusing, Open}

\* The two that differ most, where overlapping reloads make the runs long.
MCTwoConfigs == {Windowed, Open}

\* Tasks differ in nothing but their packets.
TaskSymmetry == Permutations(Tasks)

MCBuildable == {Windowed, Refusing}

Pkt(src, dst, bvll) ==
  [ src |-> src, dst |-> dst, bvll |-> bvll, detected |-> "unknown",
    srcDev |-> NoDev, dstDev |-> NoDev ]

\* A broadcast may be cut through; a registration may not, and is refused with
\* a message.  Any other packet takes the registration's path without that.
MCPackets ==
  { Pkt(a1, NoAddr, "original_broadcast"),
    Pkt(a1, a2, "register_foreign_device") }

=============================================================================
