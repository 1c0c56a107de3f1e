------------------------------ MODULE MCProtocols ------------------------------
(***************************************************************************)
(* The protocols xenonframe speaks, one part of them in each behaviour.    *)
(* Sessions: the Redis client and what it keeps of a cluster, the websocket*)
(* session, the two ends of HTTP and socket.io.  Parsers: HTTP heads,      *)
(* multipart bodies, MQTT, JSON and the packets of socket.io.              *)
(***************************************************************************)
EXTENDS Redis, RedisCluster, WebSocket, HttpServer, HttpClient, SocketIo,
        HttpParser, Multipart, Mqtt, Json, SocketIoPackets, TLC

VARIABLE part

sessionVars == <<redisVars, clusterVars, wsVars, httpServerVars, clientVars, sioVars>>

formatVars == <<httpVars, multipartVars, mqttVars, jsonVars, sioPacketVars>>

\* The callbacks of three Redis requests.
MCKinds == <<{"string"}, {"integer", "map"}, {"list"}>>

\* A text of n bytes, with an extended length, with a masking key.
Fr(n, l, m) == [type |-> "text", len |-> n, long |-> l, masked |-> m]

MCFrames == {<<>>,
             <<Fr(5, FALSE, TRUE), Fr(2, FALSE, FALSE)>>,
             <<Fr(6, TRUE, TRUE), Fr(1, FALSE, TRUE)>>,
             <<Fr(0, FALSE, FALSE), Fr(5, TRUE, FALSE)>>,
             <<Fr(0, FALSE, TRUE), Fr(2, FALSE, TRUE)>>}

\* A request with b bytes of body; what it does with it and which range it asks for.
Rq(does, b, range) == [does |-> does, body |-> b, range |-> range]
Whole_ == <<0, 0>>
Plain_ == Rq("answers", 0, Whole_)

MCScripts == {<<Plain_, Rq("later", 0, Whole_), Plain_>>,
              <<Rq("body", 2, Whole_), Plain_>>,
              <<Plain_, Rq("download", 0, <<0, 2>>), Plain_>>,
              <<Rq("later", 0, Whole_), Rq("download", 0, <<1, 3>>), Plain_>>,
              <<Rq("answers", 1, Whole_), Plain_, Rq("upgrade", 0, Whole_), Plain_>>,
              <<Rq("download", 0, <<1, 0>>), Plain_>>}

Fi(n, t) == [full |-> n, tail |-> t]

MCUploads == {[forms |-> 0, files |-> <<>>], [forms |-> 2, files |-> <<>>],
              [forms |-> 1, files |-> <<Fi(1, 1)>>],
              [forms |-> 0, files |-> <<Fi(1, 1), Fi(1, 1)>>],
              [forms |-> 1, files |-> <<Fi(1, 0), Fi(1, 1)>>]}

MCBodies == {[chunked |-> FALSE, sizes |-> <<>>], [chunked |-> FALSE, sizes |-> <<3>>],
             [chunked |-> TRUE, sizes |-> <<>>], [chunked |-> TRUE, sizes |-> <<2, 1>>],
             [chunked |-> TRUE, sizes |-> <<3>>]}

MCSymmetry == Permutations(Sockets) \cup Permutations(RoomNames)

\* Requests and answers with up to four headers and one byte of body.
MCHeads == {[request |-> TRUE, headers |-> n, body |-> 1] : n \in 1 .. 4}
           \cup {[request |-> FALSE, headers |-> n, body |-> 1] : n \in 0 .. 3}

\* Forms of files and fields, with the line ends and halves of a boundary that
\* their bytes may hold.
Fl(b) == [file |-> TRUE, bytes |-> b]
Fd(b) == [file |-> FALSE, bytes |-> b]
MCForms == {<<>>,
            <<Fd(<<"x">>), Fl(<<"-">>)>>,
            <<Fl(<<"x", "\r", "\n", "-", "y">>), Fd(<<"y">>)>>,
            <<Fl(<<"x", "y", "x", "y", "y">>), Fd(<<>>)>>}

\* MQTT messages of every kind, as sequences that fill the parser in pieces, and
\* publishes at the lengths where the remaining length takes another byte.
Topic == <<97, 47>>
Ack(t) == [type |-> t, id |-> 258]
Connect1_ == [type |-> "connect", protocol |-> <<77>>, level |-> 4, retain |-> TRUE, will_qos |-> 1, clean |-> TRUE, keep_alive |-> 300, client |-> <<>>, will |-> <<<<97>>, <<1>>>>, user |-> <<<<117>>>>, password |-> <<<<0>>>>]
Connect2_ == [Connect1_ EXCEPT !.will = <<>>, !.will_qos = 0, !.retain = FALSE, !.user = <<>>, !.password = <<>>, !.keep_alive = 0, !.client = <<99>>]
Pub(q, p) == [type |-> "publish", dup |-> FALSE, qos |-> q, retain |-> q = 1, topic |-> Topic, id |-> IF q = 0 THEN 0 ELSE 7, payload |-> p]
PubBig(n) == [type |-> "publish", length |-> n]
MCStreams == { <<Connect1_, [type |-> "connect_ack", present |-> TRUE, code |-> 5]>>, <<Connect2_, [type |-> "ping_req"], Pub(0, <<1, 200>>)>>,
  <<Pub(2, <<>>), Ack("publish_rec"), Ack("publish_rel"), Ack("publish_comp"), [type |-> "ping_rsp"]>>,
  <<Pub(1, <<9>>), Ack("publish_ack"), [type |-> "disconnect"]>>,
  <<[type |-> "subscribe", id |-> 515, topics |-> <<<<Topic, 2>>, <<<<226, 130, 172>>, 0>>>>], [type |-> "subscribe_ack", id |-> 515, codes |-> <<2, 128>>]>>,
  <<[type |-> "unsubscribe", id |-> 515, topics |-> <<Topic, <<43>>>>], Ack("unsubscribe_ack")>>,
  <<Ack("publish_ack"), [Pub(0, <<>>) EXCEPT !.topic = <<195, 169>>]>>,
  <<[type |-> "ping_req"], PubBig(200)>>, <<PubBig(16383)>>, <<PubBig(20000)>>, <<PubBig(2097151)>>}

\* JSON values, each as xjson writes it and as another program would.
JNum(x) == [t |-> "num", v |-> x]
JFloat(x) == [t |-> "float", v |-> x]
JStr(x) == [t |-> "str", v |-> x]
JBool(x) == [t |-> "bool", v |-> <<x>>]
JVec(x) == [t |-> "vec", v |-> x]
JObj(x) == [t |-> "obj", v |-> x]
JValues == <<
  JObj(<<>>), JVec(<<>>), JObj(<<<<<<"a">>, JNum(<<"5">>)>>, <<<<"b">>, JObj(<<<<<<"a">>, JStr(<<"x", "\"", "\\">>)>>>>)>>>>),
  JVec(<<JNum(<<"5">>), JVec(<<JBool("true"), Null>>), JObj(<<<<<<"a">>, JVec(<<>>)>>>>), JFloat(<<"0.25">>)>>),
  JObj(<<<<<<"a">>, JObj(<<>>)>>, <<<<"b">>, JVec(<<JStr(<<>>), JStr(<<"/", "\n", "\t">>)>>)>>, <<<<"c">>, JBool("false")>>>>),
  JObj(<<<<<<"a">>, JFloat(<<"0.1234567">>)>>, <<<<"b">>, JObj(<<<<<<"a">>, JNum(<<"5">>)>>>>)>>, <<<<"c">>, JStr(<<"BS", "\f">>)>>>>),
  JObj(<<<<<<"a">>, Null>>, <<<<"b">>, JNum(<<"5">>)>>>>),
  JObj(<<<<<<"a">>, JObj(<<<<<<"b">>, Null>>>>)>>, <<<<"c">>, JNum(<<"7">>)>>>>),
  JVec(<<JObj(<<<<<<"a">>, Null>>>>)>>), JObj(<<<<<<"a">>, JVec(<<JObj(<<<<<<"a">>, Null>>, <<<<"b">>, Null>>>>), JNum(<<"5">>)>>)>>>>),
  JObj(<<<<<<"a">>, JNum(<<"-", "5">>)>>>>), JVec(<<JNum(<<"-", "5">>)>>), JVec(<<JNum(<<"5", "e", "7">>)>>),
  JObj(<<<<<<"a", "\"">>, JNum(<<"5">>)>>>>), JObj(<<<<<<>>, JNum(<<"5">>)>>>>), JObj(<<<<<<"a">>, JStr(<<"\r">>)>>>>),
  JObj(<<<<<<"a", "\\">>, JStr(<<"x">>)>>>>)
>>
MCDocuments == [i \in 1..(2 * Len(JValues)) |-> [value |-> JValues[(i + 1) \div 2], foreign |-> i % 2 = 0]]

\* socket.io packets: alone, and in posts of up to three.
Root_ == <<47>>
Chat_ == <<47, 99>>
Pkt(t, pt, nsp, id, load) == [type |-> t, payload_type |-> pt, nsp |-> nsp, id |-> id, payload |-> load]
Event1 == <<91, 34, 49, 34, 93>>
Event2 == <<91, 34, 97, 98, 99, 100, 101, 34, 44, 49, 93>>
MCSingles == {Pkt(2, 100, Root_, 0, <<>>), Pkt(2, 100, Root_, 0, <<112, 50>>), Pkt(4, 2, Root_, 0, Event1), Pkt(4, 2, Chat_, 0, Event2), Pkt(4, 2, Root_, 17, Event1),
   Pkt(4, 2, Chat_, 7, Event1), Pkt(4, 0, Chat_, 0, <<>>), Pkt(4, 1, Root_, 0, <<>>), Pkt(5, 100, Root_, 0, <<>>), Pkt(1, 100, Root_, 0, <<>>)}
MCPosts == UNION {[1..n -> MCSingles] : n \in 1..2} \cup {<<Pkt(4, 2, Root_, 0, Event1), Pkt(2, 100, Root_, 0, <<>>), Pkt(4, 2, Chat_, 0, Event1)>>}

\* The inputs of the parts that stand still are of no interest.
SessionsInit ==
  /\ RedisInit /\ ClusterInit /\ SioInit
  /\ WsInit /\ (part # "websocket" => wsSends = <<>> /\ refuses = "no")
  /\ HttpServerInit /\ (part # "server" => script = CHOOSE s \in Scripts : TRUE)
  /\ HttpClientInit
  /\ part # "client" => /\ request = CHOOSE r \in Uploads : TRUE
                        /\ answer = CHOOSE b \in Bodies : TRUE

ParsersInit ==
  /\ HttpInit /\ (part # "heads" => head = CHOOSE h \in Heads : TRUE)
  /\ MultipartInit /\ (part # "forms" => form = <<>>)
  /\ MqttInit /\ (part # "mqtt" => packets = CHOOSE s \in Streams : Len(s) = 3)
  /\ JsonInit /\ (part # "json" => doc = 1)
  /\ SioPacketInit
  /\ part # "packets" => source = [by |-> "post", packets |-> CHOOSE p \in Posts : TRUE]

ProtocolsInit ==
  /\ part \in {"redis", "cluster", "websocket", "server", "client", "socket.io",
              "heads", "forms", "mqtt", "json", "packets"}
  /\ SessionsInit /\ ParsersInit

SessionsNext ==
  \/ /\ part = "redis" /\ RedisNext
     /\ UNCHANGED <<clusterVars, wsVars, httpServerVars, clientVars, sioVars>>
  \/ /\ part = "cluster" /\ ClusterNext
     /\ UNCHANGED <<redisVars, wsVars, httpServerVars, clientVars, sioVars>>
  \/ /\ part = "websocket" /\ WsNext
     /\ UNCHANGED <<redisVars, clusterVars, httpServerVars, clientVars, sioVars>>
  \/ /\ part = "server" /\ HttpServerNext
     /\ UNCHANGED <<redisVars, clusterVars, wsVars, clientVars, sioVars>>
  \/ /\ part = "client" /\ HttpClientNext
     /\ UNCHANGED <<redisVars, clusterVars, wsVars, httpServerVars, sioVars>>
  \/ /\ part = "socket.io" /\ SioNext
     /\ UNCHANGED <<redisVars, clusterVars, wsVars, httpServerVars, clientVars>>

ParsersNext ==
  \/ /\ part = "heads" /\ HttpNext
     /\ UNCHANGED <<multipartVars, mqttVars, jsonVars, sioPacketVars>>
  \/ /\ part = "forms" /\ MultipartNext
     /\ UNCHANGED <<httpVars, mqttVars, jsonVars, sioPacketVars>>
  \/ /\ part = "mqtt" /\ MqttNext
     /\ UNCHANGED <<httpVars, multipartVars, jsonVars, sioPacketVars>>
  \/ /\ part = "json" /\ JsonNext
     /\ UNCHANGED <<httpVars, multipartVars, mqttVars, sioPacketVars>>
  \/ /\ part = "packets" /\ SioPacketNext
     /\ UNCHANGED <<httpVars, multipartVars, mqttVars, jsonVars>>

ProtocolsNext == /\ UNCHANGED part
                 /\ \/ SessionsNext /\ UNCHANGED formatVars
                    \/ ParsersNext /\ UNCHANGED sessionVars

ProtocolsSpec == ProtocolsInit /\ [][ProtocolsNext]_<<part, sessionVars, formatVars>>

\* The parsers read what a peer has built: HTTP heads, multipart bodies, MQTT
\* messages, JSON texts and the packets of socket.io.
FormatsRead == /\ part = "heads" => HeadsRead
               /\ part = "forms" => FormsRead
               /\ part = "mqtt" => MqttRead
               /\ part = "json" => JsonRead
               /\ part = "packets" => PacketsSafe

=============================================================================
