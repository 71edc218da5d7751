---------------------------- MODULE MCWebClient ----------------------------
(***************************************************************************)
(* Instances of WebClient: one channel id, which is used again;            *)
(* fields and bodies small enough to try them all.                         *)
(***************************************************************************)
EXTENDS WebClient, WebCodec

OneId == {1}
\* Around the limits of a 4-bit number.
SmallNumbers == {-9, -8, -1, 0, 7, 8, 16}
\* Of three and of four significant bits.
SmallFractions == {5, 10, 11}

(* The properties of WebCodec depend on no variable: TLC checks them once.   *)
AtStart == calls = <<Call("connect", 0, "pending")>> /\ broker.state = "handshake"

\* TablesSurvive, of setTable and getTable in static/js/lib/amqp-websocket-client.mjs
TablesReadBack == AtStart => TablesSurvive

\* PropertiesSurvive, of setProperties and getProperties there
PropertiesReadBack == AtStart => PropertiesSurvive

\* BodiesArrive, of AMQPChannel#basicPublish there
BodiesWhole == AtStart => BodiesArrive

=============================================================================
