------------------------------- MODULE Zigbee -------------------------------
(***************************************************************************)
(* What nodes say to each other: a message is dispatched by wpan_aps.c to  *)
(* the endpoints and clusters of the node's table, whose handlers, those   *)
(* of zigbee_zdo.c, zigbee_zcl.c, xbee_ota_server.c and the application,   *)
(* may answer it.  Payloads are reduced to what decides about an answer.   *)
(*                                                                         *)
(* Whether a conversation is found, a list of attributes is well-formed or *)
(* a message is sent and arrives is left open.                             *)
(***************************************************************************)
EXTENDS Naturals, SequencesExt

CONSTANTS
  Table,      \* the endpoint table of each node
  Starts      \* the messages that a node may send of its own accord

Node == DOMAIN Table
ClusterFlags == {"in", "out", "encrypt", "encrypt_unicast", "not_zcl"}
ToAll == "all"     \* WPAN_ENDPOINT_BROADCAST
Handlers == {"general", "onoff", "time", "invalid", "refuse", "rx", "default", "ota", "serial", "none"}

\* A table names an endpoint of a profile once, only the ZDO's endpoint has
\* zdo_handler, and messages come from nodes.
ASSUME ZigbeeAssumption ==
  /\ \A n \in Node : Table[n] \in Seq(Range(Table[n]))
  /\ \A n \in Node : \A i, j \in DOMAIN Table[n] :
       Table[n][i].ep = Table[n][j].ep /\ Table[n][i].profile = Table[n][j].profile => i = j
  /\ \A n \in Node : \A e \in Range(Table[n]) :
       /\ e.ep # ToAll
       /\ e.handler \in Handlers \/ (e.handler = "zdo" /\ e.profile = "zdo")
       /\ \A c \in Range(e.clusters) : c.flags \subseteq ClusterFlags /\ c.handler \in Handlers
  /\ \A m \in Starts : m.from \in Node

VARIABLES
  net,     \* messages under way
  started, \* a message was sent of its own accord
  heard,   \* the handlers called for the last message, with what they saw
  lastMsg  \* that message, in a set

netVars == <<net, started, heard, lastMsg>>

----------------------------------------------------------------------------
(* Tables.  An entry's flags are those of its cluster, see aps.h. *)

Cluster(id, flags, handler) == [id |-> id, flags |-> flags, handler |-> handler]

\* endpoints_table, digi_data_clusters and custom_ep_clusters as configured.
AppTable ==
  << [ep |-> "data", profile |-> "digi", handler |-> "none",
      clusters |-> << Cluster("serial", {"in", "out", "not_zcl"}, "serial"),
                      Cluster("ota", {"in", "not_zcl"}, "ota") >>],
     [ep |-> "custom", profile |-> "ha", handler |-> "default",
      clusters |-> << Cluster("null", {"in"}, "none"), Cluster("sensor", {"in"}, "rx") >>],
     [ep |-> "zdo", profile |-> "zdo", handler |-> "zdo", clusters |-> << >>] >>

\* The first of a set of positions, in a set.
First(ks) == {k \in ks : \A j \in ks : k <= j}

\* wpan_cluster_match: the first entry, in a set.
ClusterMatch(id, mask, clusters) ==
  {clusters[i] : i \in First({j \in DOMAIN clusters :
                                clusters[j].id = id /\ clusters[j].flags \cap mask # {}})}

\* wpan_endpoint_match: its position, in a set.
EndpointMatch(n, ep, profile) ==
  First({k \in DOMAIN Table[n] : Table[n][k].ep = ep /\ Table[n][k].profile = profile})

\* wpan_endpoint_of_cluster: its position, in a set.
EndpointOfCluster(n, profile, id, mask) ==
  First({k \in DOMAIN Table[n] :
           /\ Table[n][k].profile = profile
           /\ ClusterMatch(id, mask, Table[n][k].clusters) # {}})

----------------------------------------------------------------------------
(* Messages.  A ZCL header: frame type, direction, manufacturer-specific,  *)
(* default response disabled, command.  list is a list of clusters or of   *)
(* endpoints in a ZDO message.  origin is the message that began it all.   *)

Body(type, toServer, mfg, quiet, cmd, list) ==
  [type |-> type, toServer |-> toServer, mfg |-> mfg, quiet |-> quiet, cmd |-> cmd, list |-> list]

Text(cmd) == Body("none", FALSE, FALSE, FALSE, cmd, << >>)
Zdo(cmd, list) == Body("none", FALSE, FALSE, FALSE, cmd, list)

\* The options of an envelope as _xbee_handle_receive_explicit fills it in.
Options(m) == (IF m.bcast THEN {"bcast"} ELSE {}) \cup (IF m.enc THEN {"enc"} ELSE {})

\* wpan_envelope_reply and wpan_envelope_send
Reply(env, body) ==
  LET m == env.msg
  IN [m EXCEPT !.from = m.to, !.to = m.from, !.src = env.ep, !.dst = m.src, !.bcast = FALSE,
               !.enc = "enc" \in env.options, !.body = body]

NoAnswer == { {} }
Answered(env, body) == { {Reply(env, body)} }
Either(A, B) == A \cup B

----------------------------------------------------------------------------
(* ZCL *)

IsServerCommand(b) == ~b.mfg /\ b.toServer /\ b.type = "profile"
ToggledHeader(b, cmd) == Body(b.type, ~b.toServer, b.mfg, TRUE, cmd, << >>)

\* Faulty: default responses are answered like other frames.
NotDefaultAny(b) == TRUE

NotDefault(b) == ~(b.type = "profile" /\ b.cmd = "default_resp")

\* zcl_default_response
DefaultResponse(env, ok) ==
  LET b == env.msg.body
  IN IF /\ ~(ok /\ b.quiet)
        /\ env.options \cap {"bcast", "all"} = {}
        /\ NotDefault(b)
     THEN Answered(env, [ToggledHeader(b, "default_resp") EXCEPT !.type = "profile"])
     ELSE NoAnswer

\* zcl_invalid_cluster and zcl_invalid_command
Invalid(env) == DefaultResponse(env, FALSE)

RespOf == [discover |-> "discover_resp", read |-> "read_resp",
           write |-> "write_resp", write_undiv |-> "write_resp"]

\* zcl_general_command
GeneralCommand(env) ==
  LET b == env.msg.body
  IN CASE b.type # "profile" -> Invalid(env)
       [] b.type = "profile" /\ b.cmd = "read" ->
            Either(Answered(env, ToggledHeader(b, "read_resp")), Invalid(env))
       [] b.type = "profile" /\ b.cmd \in {"discover", "write", "write_undiv"} ->
            Answered(env, ToggledHeader(b, RespOf[b.cmd]))
       [] b.type = "profile" /\ b.cmd = "write_noresp" -> NoAnswer
       [] b.type = "profile" /\ b.cmd \in {"default_resp", "read_resp", "write_resp", "discover_resp"} ->
            Either(NoAnswer, Invalid(env))
       [] OTHER -> Invalid(env)

\* _zcl_onoff_handler
OnOff(env) ==
  LET b == env.msg.body
  IN IF ~b.mfg /\ b.toServer /\ b.type = "cluster" THEN Invalid(env) ELSE GeneralCommand(env)

\* zcl_time_client: the response is good, or it is not.
TimeClient(env) ==
  LET b == env.msg.body
  IN IF ~b.mfg /\ ~b.toServer /\ b.type = "profile" /\ b.cmd = "read_resp"
     THEN Either(DefaultResponse(env, TRUE), DefaultResponse(env, FALSE))
     ELSE GeneralCommand(env)

(* The application *)

RxClusterCallback(env) ==
  LET b == env.msg.body
  IN CASE IsServerCommand(b) /\ b.cmd = "read" -> Answered(env, ToggledHeader(b, "read_resp"))
       [] IsServerCommand(b) /\ b.cmd = "config" -> Answered(env, ToggledHeader(b, "config_resp"))
       [] OTHER -> NoAnswer

\* It answers when one of three attributes is read.
DefaultClusterCallback(env) ==
  LET b == env.msg.body
  IN IF IsServerCommand(b) /\ b.cmd = "read"
     THEN Either(NoAnswer, Answered(env, ToggledHeader(b, "read_resp"))) ELSE NoAnswer

\* xbee_ota_server_cmd: the right password resets the node.
OtaServerCmd(env) ==
  IF env.options \cap {"enc", "encrypt"} = {"encrypt"} THEN Answered(env, Text("refused"))
  ELSE IF env.msg.body.cmd = "password" THEN NoAnswer ELSE Answered(env, Text("refused"))

----------------------------------------------------------------------------
(* ZDO *)

\* Faulty: the endpoint is not asked for its profile.
MatchesAny(e, profile, ids) ==
  e.ep # "zdo" /\ \E id \in Range(ids) : ClusterMatch(id, {"in"}, e.clusters) # {}

\* The endpoint has one of a list of input clusters.
Matches(e, profile, ids) ==
  /\ e.ep # "zdo" /\ e.profile = profile
  /\ \E id \in Range(ids) : ClusterMatch(id, {"in"}, e.clusters) # {}

\* _zdo_match_desc_respond: the endpoints that match, in the table's order.
MatchingEndpoints(n, profile, ids) ==
  LET list[k \in 0 .. Len(Table[n])] ==
        IF k = 0 THEN << >>
        ELSE IF Matches(Table[n][k], profile, ids) THEN Append(list[k - 1], Table[n][k].ep)
        ELSE list[k - 1]
  IN list[Len(Table[n])]

\* zdo_send_response
Respond(env, cluster, list) ==
  { {[r EXCEPT !.cluster = cluster] : r \in A} : A \in Answered(env, Zdo("zdo", list)) }

\* The endpoint that reads a cluster of others, and whether it encrypts that.
ClientOf(n, id) == Table[n][CHOOSE k \in EndpointOfCluster(n, "ha", id, {"out"}) : TRUE]
Secret(n, id) == \E c \in ClusterMatch(id, {"out"}, ClientOf(n, id).clusters) : "encrypt" \in c.flags

\* zcl_find_and_read_attributes: zdo_send_match_desc has asked for the servers
\* of a cluster; _zcl_send_read_from_zdo_match reads from the first endpoint
\* of a response, with the flags of its own client cluster.
SendReadFromMatch(n, env) ==
  LET wanted == env.msg.origin.body.list[1]
      client == ClientOf(n, wanted)
      read == Body("profile", TRUE, FALSE, FALSE, "read", << >>)
  IN { {[r EXCEPT !.src = client.ep, !.profile = client.profile, !.cluster = wanted,
                  !.dst = env.msg.body.list[1], !.enc = Secret(n, wanted)] : r \in A} :
       A \in Answered(env, read) }

\* zdo_handler; a node that does not know its address does not answer.
ZdoHandler(n, env) ==
  LET m == env.msg
  IN CASE m.cluster = "match_req" ->
            LET eps == MatchingEndpoints(n, "ha", m.body.list)
            IN IF eps = << >> THEN NoAnswer ELSE Either(NoAnswer, Respond(env, "match_rsp", eps))
       [] m.cluster \in {"simple_req", "active_req"} ->
            Either(NoAnswer, Respond(env, "desc_rsp", << >>))
       [] m.cluster = "annce" -> NoAnswer
       [] m.cluster = "match_rsp" ->
            IF m.origin.body.cmd = "match" THEN Either(NoAnswer, SendReadFromMatch(n, env))
            ELSE NoAnswer
       [] m.cluster \in {"desc_rsp", "other_rsp"} -> NoAnswer
       [] OTHER ->     \* other requests
            IF "bcast" \in env.options THEN NoAnswer ELSE Respond(env, "other_rsp", << >>)

----------------------------------------------------------------------------
(* Dispatch *)

Handle(n, env, handler) ==
  CASE handler = "zdo"     -> ZdoHandler(n, env)
    [] handler = "general" -> GeneralCommand(env)
    [] handler = "onoff"   -> OnOff(env)
    [] handler = "time"    -> TimeClient(env)
    [] handler = "invalid" -> Invalid(env)
    [] handler = "refuse"  -> Invalid(env)
    [] handler = "rx"      -> RxClusterCallback(env)
    [] handler = "default" -> DefaultClusterCallback(env)
    [] handler = "ota"     -> OtaServerCmd(env)
    [] handler \in {"serial", "none"} -> NoAnswer

\* The cluster wants encryption that the message lacks.
Refuses(options, c) ==
  /\ "not_zcl" \notin c.flags /\ {"encrypt", "encrypt_unicast"} \cap c.flags # {}
  /\ "enc" \notin options /\ ("encrypt" \in c.flags \/ "bcast" \notin options)

\* _wpan_endpoint_dispatch: which handler is called, with which envelope.
EndpointDispatch(m, options, e) ==
  LET found == ClusterMatch(m.cluster, {"in", "out"}, e.clusters)
      c == CHOOSE c \in found : TRUE
      env == [msg |-> m, ep |-> e.ep, options |-> options]
  IN CASE found = {} -> [env |-> env, handler |-> e.handler]
       [] found # {} /\ Refuses(options, c) -> [env |-> env, handler |-> "refuse"]
       [] OTHER -> [env |-> [env EXCEPT !.options = @ \cup c.flags],
                    handler |-> IF c.handler = "none" THEN e.handler ELSE c.handler]

\* Faulty: the flags of the clusters before are left in the envelope.
NextTurnUncleared(options) == options

\* Faulty: the other options are cleared with those of the clusters.
NextTurnBare(options) == {}

\* One turn of the loop for the broadcast endpoint.
NextTurn(options) == options \ ClusterFlags

\* The endpoints of a node that a message to all of them is for.
OfProfile(n, m) == {k \in DOMAIN Table[n] : Table[n][k].profile = m.profile}

\* The options in the envelope when the loop for the broadcast endpoint comes
\* to entry k: it is one envelope, and each call leaves its options to the next.
LoopOptions(n, m, k) ==
  LET left[j \in 0 .. Len(Table[n])] ==
        IF j = 0 THEN Options(m) \cup {"all"}
        ELSE IF j \in OfProfile(n, m)
        THEN EndpointDispatch(m, NextTurn(left[j - 1]), Table[n][j]).env.options
        ELSE left[j - 1]
  IN left[k - 1]

\* wpan_envelope_dispatch: the calls it makes, by position in the table.
Calls(n, m) ==
  IF m.dst = ToAll
  THEN [k \in OfProfile(n, m) |-> EndpointDispatch(m, NextTurn(LoopOptions(n, m, k)), Table[n][k])]
  ELSE [k \in EndpointMatch(n, m.dst, m.profile) |-> EndpointDispatch(m, Options(m), Table[n][k])]

\* What the handlers send, one way or another.
AnswersOf(n, calls) ==
  LET may == [k \in DOMAIN calls |-> Handle(n, calls[k].env, calls[k].handler)]
  IN {UNION Range(sent) : sent \in {f \in [DOMAIN calls -> UNION Range(may)] :
                                     \A k \in DOMAIN calls : f[k] \in may[k]}}

\* The endpoint has a handler for a cluster, whose encryption its clients know of.
Serves(e, id, secret) ==
  LET found == ClusterMatch(id, {"in", "out"}, e.clusters)
  IN /\ found # {}
     /\ \A c \in found :
          /\ (IF c.handler = "none" THEN e.handler ELSE c.handler) \notin {"invalid", "refuse", "none"}
          /\ "not_zcl" \in c.flags \/ {"encrypt", "encrypt_unicast"} \cap c.flags = {} \/ secret

\* What the tables of two nodes must agree on if one is to read from the other:
\* endpoints of the ZDO's profile are the ZDO's, the node that asks has the
\* cluster it asks for among its client clusters, and whoever offers it serves it.
TablesAgree ==
  /\ \A n \in Node : \A e \in Range(Table[n]) :
       e.profile = "zdo" => e.handler = "zdo" /\ e.clusters = << >>
  /\ \A m \in Starts : m.body.cmd = "match" =>
       LET id == m.body.list[1]
       IN /\ m.cluster = "match_req" /\ m.profile = "zdo" /\ m.body.list = << id >>
          /\ EndpointOfCluster(m.from, "ha", id, {"out"}) # {}
          /\ \A n \in Node \ {m.from} : \A e \in Range(Table[n]) :
               Matches(e, "ha", << id >>) => Serves(e, id, Secret(m.from, id))

ZigbeeInit == net = {} /\ started = FALSE /\ heard = << >> /\ lastMsg = {}

\* A node sends a message; wpan_envelope_create and a frame of the radio.
SendOwn ==
  /\ ~started /\ started' = TRUE
  /\ \E m \in Starts, first \in Node :
       /\ first # m.from
       /\ net' = {[to |-> n, from |-> m.from, src |-> m.src, dst |-> m.dst, bcast |-> m.bcast,
                   enc |-> m.enc, profile |-> m.profile, cluster |-> m.cluster, body |-> m.body,
                   origin |-> m] : n \in IF m.bcast THEN Node \ {m.from} ELSE {first}}
  /\ UNCHANGED <<heard, lastMsg>>

Receive(m) ==
  /\ heard' = Calls(m.to, m)
  /\ lastMsg' = {m}
  /\ \E A \in AnswersOf(m.to, heard') : net' \in {net \ {m}, (net \ {m}) \cup A}
  /\ UNCHANGED started

LoseMessage(m) == net' = net \ {m} /\ UNCHANGED <<started, heard, lastMsg>>

ZigbeeNext == SendOwn \/ \E m \in net : Receive(m) \/ LoseMessage(m)

ZigbeeFairness == WF_netVars(\E m \in net : Receive(m))

ZigbeeSpec == ZigbeeInit /\ [][ZigbeeNext]_netVars /\ ZigbeeFairness

----------------------------------------------------------------------------
(***************************************************************************)
(* An answer never leads to answers for ever: whatever is sent, to one     *)
(* node or to all, the nodes fall silent.                                  *)
(***************************************************************************)
AnswersDieOut == <>[](net = {})

(***************************************************************************)
(* All that follows from a message that came encrypted is encrypted.       *)
(***************************************************************************)
StaysEncrypted ==
  \A m \in net : m.origin.enc /\ m.origin.profile # "zdo" => m.enc

(***************************************************************************)
(* A handler called for a message to all endpoints sees the envelope that  *)
(* a message to its endpoint alone would come in: nothing is left in it of *)
(* the endpoints dispatched to before.                                     *)
(***************************************************************************)
EachAlone ==
  \A m \in lastMsg : m.dst = ToAll => \A k \in DOMAIN heard :
    LET env == heard[k].env
        alone == [msg |-> [m EXCEPT !.dst = env.ep], ep |-> env.ep, options |-> env.options \ {"all"}]
    IN Calls(m.to, alone.msg) = [i \in {k} |-> [env |-> alone, handler |-> heard[k].handler]]

(***************************************************************************)
(* What the ZDO advertises is served: an attribute read that follows a     *)
(* Match Descriptor response reaches a handler of its cluster, and is not  *)
(* refused by the endpoint.                                                *)
(***************************************************************************)
AdvertisedIsServed ==
  \A m \in lastMsg :
    m.body.cmd = "read" /\ m.origin.body.cmd = "match" =>
      \E k \in DOMAIN heard : DOMAIN heard = {k} /\ heard[k].handler \notin {"invalid", "refuse", "none"}
=============================================================================
