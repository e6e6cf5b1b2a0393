----------------------------- MODULE MCLibrary -----------------------------
(***************************************************************************)
(* The parts of the library that share no state with each other, each      *)
(* checked by itself: a behaviour is one of the EEPROM, the clock, the     *)
(* conversations of a node, the messages between nodes, a file transfer or *)
(* the attributes of a cluster.                                            *)
(***************************************************************************)
EXTENDS Veeprom, Clock, Conversations, Zigbee, Xmodem, ZclAttributes

VARIABLE part

libraryVars == <<part, vars, clockVars, convVars, netVars, xmodemVars, zclVars>>

Parts == {"eeprom", "clock", "conversations", "messages", "transfer", "attributes"}

\* Where a part may begin in several ways, the others see one of them.
LibraryInit ==
  /\ Init /\ ClockInit /\ ConvInit /\ ZigbeeInit /\ XmodemInit /\ ZclInit
  /\ part \in Parts
  /\ part = "conversations" \/ seconds = 0
  /\ part = "transfer" \/ punctual

LibraryNext ==
  /\ UNCHANGED part
  /\ \/ /\ part = "eeprom" /\ Next
        /\ UNCHANGED <<clockVars, convVars, netVars, xmodemVars, zclVars>>
     \/ /\ part = "clock" /\ ClockNext
        /\ UNCHANGED <<vars, convVars, netVars, xmodemVars, zclVars>>
     \/ /\ part = "conversations" /\ ConvNext
        /\ UNCHANGED <<vars, clockVars, netVars, xmodemVars, zclVars>>
     \/ /\ part = "messages" /\ ZigbeeNext
        /\ UNCHANGED <<vars, clockVars, convVars, xmodemVars, zclVars>>
     \/ /\ part = "transfer" /\ XmodemNext
        /\ UNCHANGED <<vars, clockVars, convVars, netVars, zclVars>>
     \/ /\ part = "attributes" /\ ZclNext
        /\ UNCHANGED <<vars, clockVars, convVars, netVars, xmodemVars>>

LibrarySpec ==
  /\ LibraryInit /\ [][LibraryNext]_libraryVars
  /\ part = "messages" => ZigbeeFairness
  /\ part = "transfer" => XmodemFairness

----------------------------------------------------------------------------
(* Nodes: one with the table of the application, two with clusters of the  *)
(* library on two endpoints.                                               *)

LibraryTable ==
  << [ep |-> "data", profile |-> "digi", handler |-> "none",
      clusters |-> << Cluster("serial", {"in", "out", "not_zcl"}, "serial") >>],
     [ep |-> "ep1", profile |-> "ha", handler |-> "invalid",
      clusters |-> << Cluster("secret", {"in", "out", "encrypt"}, "onoff"),
                      Cluster("time", {"out"}, "time"), Cluster("serial", {"out"}, "general") >>],
     [ep |-> "ep2", profile |-> "ha", handler |-> "invalid",
      clusters |-> << Cluster("sensor", {"out"}, "general"), Cluster("time", {"in"}, "general"),
                      Cluster("secret", {"in", "encrypt_unicast"}, "general"),
                      Cluster("serial", {"in"}, "general") >>],
     [ep |-> "zdo", profile |-> "zdo", handler |-> "zdo", clusters |-> << >>] >>

Tables == [a |-> AppTable, b |-> LibraryTable, c |-> LibraryTable]

Message(n, src, dst, bcast, enc, profile, cluster, body) ==
  [from |-> n, src |-> src, dst |-> dst, bcast |-> bcast, enc |-> enc,
   profile |-> profile, cluster |-> cluster, body |-> body]

ZclBodies ==
  {Body(t, s, FALSE, q, c, << >>) : t \in {"profile", "cluster"}, s \in BOOLEAN, q \in BOOLEAN,
     c \in {"read", "write", "write_noresp", "config", "read_resp", "default_resp"}}
  \cup {Body("profile", TRUE, TRUE, FALSE, c, << >>) : c \in {"read", "config"}}

ZclStarts ==
  {Message("b", "ep1", d, bc, enc, "ha", cl, b) :
     d \in {"custom", "ep1", "ep2", ToAll}, bc \in BOOLEAN, enc \in BOOLEAN,
     cl \in {"null", "sensor", "time", "secret"}, b \in ZclBodies}

\* What send_report of the application sends.
Report == Message("a", "custom", "ep2", FALSE, FALSE, "ha", "sensor",
                  Body("profile", FALSE, FALSE, FALSE, "report", << >>))

ZdoStarts ==
  {Message("b", "zdo", "zdo", bc, enc, "zdo", cl, Zdo("zdo", << >>)) : bc \in BOOLEAN, enc \in BOOLEAN,
     cl \in {"simple_req", "active_req", "annce", "other_req", "other_rsp", "desc_rsp"}}
  \cup {Message("b", "zdo", "zdo", TRUE, FALSE, "zdo", "match_req", Zdo("match", << id >>)) :
          id \in {"time", "secret", "serial"}}

DataStarts ==
  {Message("b", "data", "data", bc, FALSE, "digi", cl, Text(p)) :
     bc \in BOOLEAN, cl \in {"serial", "ota"}, p \in {"password", "hello"}}

AllStarts == ZclStarts \cup {Report} \cup ZdoStarts \cup DataStarts

\* AdvertisedIsServed is a matter of the tables; those above are of the kind
\* that it is proved for.
ASSUME TablesAssumption == TablesAgree

----------------------------------------------------------------------------
(* A cluster with an attribute of every kind. *)

Attribute(type, readonly, ghost, min, max) ==
  [type |-> type, readonly |-> readonly, ghost |-> ghost, min |-> min, max |-> max]

AttributeTable ==
  [identify_time |-> Attribute("unsigned", FALSE, FALSE, 0, 99),
   limited |-> Attribute("signed", FALSE, FALSE, -3, 2),
   fixed |-> Attribute("boolean", TRUE, FALSE, 0, 99),
   ghost |-> Attribute("boolean", FALSE, TRUE, 0, 99)]

Record(id, type, data) == [id |-> id, type |-> type, data |-> data, cut |-> FALSE]

WriteRecords ==
  {Record("identify_time", "unsigned", 0), Record("identify_time", "unsigned", 2),
   Record("limited", "signed", 1), Record("limited", "signed", 4),
   Record("fixed", "boolean", 1), Record("ghost", "boolean", 1), Record("none", "boolean", 1),
   [Record("limited", "signed", 2) EXCEPT !.cut = TRUE]}
=============================================================================
