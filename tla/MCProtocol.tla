------------------------------ MODULE MCProtocol ------------------------------
EXTENDS Protocol

Name(a) == <<<<a>>>>
Spaced == <<<<"a">>, <<"b">>>>
Topics == {Name("t"), Spaced}
Acks == {-1, 0, 1}
Ids == {Name("a"), Name("")}
ListsOf == {<<>>, <<"a">>, <<"a", "b">>}
None == {<<>>}

Msgs(type, crrs, fs) == {[type |-> type, crr |-> c, f |-> f] : c \in crrs, f \in fs}

MCCommands ==
  Msgs("REG", {"", "7"}, None) \cup Msgs("PNG", {""}, None)
  \cup Msgs("CID", {""}, [client_id : Ids])
  \cup UNION {Msgs(type, {"7"}, [topic : Topics]) : type \in {"SUB", "FCH", "RGT", "MTR"}}
  \cup Msgs("CMT", {""}, [topic : Topics, acks : Acks, offset : {0, 12}])
  \cup Msgs("PUB", {""}, [topic : {Name("t")}, acks : Acks, payload : {Name("p"), Spaced, <<<<"3">>, <<"p">>>>}])
  \cup Msgs("PUL", {""}, [topic : Topics, offset : {0, 12}, size : {5}])
  \cup Msgs("RFH", {""}, [replica_id : Ids, topic : {Name("t")}, offset : {12}, size : {5}])
  \cup Msgs("BRK", {"7"}, [broker_id : Ids, host : {Name("h")}, port : {9}])
  \cup Msgs("CPG", {"7"}, [broker_id : Ids])
  \cup Msgs("ISR", {""}, [topic : Topics, isr_list : ListsOf])

Metas ==
  [topic : {Name("t"), Name("u"), Spaced}, leader_id : Ids, leader_addr : {Name("h")},
   leader_port : {9}, replica_list : {<<>>, <<"a", "b">>}, version : {2}]

WithRecords(ms) == {m @@ ("records" :> r) : m \in ms, r \in {<<>>, <<Name("p")>>, <<Name("u"), Name("p")>>}}

MCResponses ==
  Msgs("PNG", {""}, None) \cup Msgs("CPR", {"7"}, None)
  \cup Msgs("CID", {""}, [client_id : Ids])
  \cup UNION {Msgs(type, {""}, [topic : Topics, acks : Acks, offset : {0, 12}]) : type \in {"ACK", "OAK"}}
  \cup Msgs("FCR", {""}, [topic : Topics, offset : {0}])
  \cup Msgs("ERR", {"7"}, [code : {40}, message : {Name(""), Spaced}])
  \cup Msgs("NLC", {"7"}, [leader_id : Ids, leader_host : {Name("h"), Name("")}, leader_port : {0, 9}])
  \cup Msgs("TMD", {"7"}, Metas)
  \cup WithRecords(Msgs("MSG", {""}, [topic : Topics]))
  \cup WithRecords(Msgs("RPL", {""}, [topic : {Name("t")}, log_end_offset : {12}, high_watermark : {0, 12}]))
  \cup {[type |-> "TML", crr |-> "7", f |-> <<>>, metas |-> ms] :
          ms \in {<<>>} \cup {<<m>> : m \in Metas} \cup
                 {<<m, n>> : m \in [topic : {Name("t")}, leader_id : Ids, leader_addr : {Name("h")},
                                    leader_port : {9}, replica_list : {<<>>}, version : {2}],
                             n \in Metas}}
=============================================================================
