--------------------------- MODULE MCInboundEditor ---------------------------
(***************************************************************************)
(* A small instance of InboundEditor for TLC, with inbounds that an older  *)
(* panel or another tool stored: the key "method" for the transport, a     *)
(* section of another transport, fields of a newer Xray, XTLS, a REALITY   *)
(* section without a target, a Hysteria inbound that lacks what the server *)
(* asks for now, values it refuses.                                        *)
(***************************************************************************)
EXTENDS InboundEditor

CONSTANTS post1, post2

OldRow(protocol, network, method, security, sections, target, alpn, value) ==
    [protocol |-> protocol, settings |-> value,
     json |-> [network  |-> network, method |-> method, security |-> security,
               alpn     |-> alpn, key |-> IF "reality" \in sections THEN 1 ELSE 0,
               target   |-> target, idle |-> value, sections |-> sections,
               unknown  |-> sections \cup {"stream"}]]

OldStreams ==
    {OldRow(protocol, network, method, security, {network, "tcp"} \cup secured,
            target, "h2", "right") :
        protocol \in Protocols \cap {"vmess", "vless", "trojan"},
        network \in {"tcp", "ws"}, method \in {"", "kcp"},
        security \in {"none", "tls", "reality", "xtls"},
        secured \in {{}, {"tls"}, {"reality"}}, target \in BOOLEAN}

OldHysteria ==
    {OldRow("hysteria", "hysteria", "", security, sections, FALSE, alpn, value) :
        security \in {"none", "tls"}, sections \in SUBSET {"hysteria", "tls"},
        alpn \in {"h2", "h3"}, value \in Value}

OldMixed ==
    {[protocol |-> "mixed", settings |-> value, json |-> EmptyJson] : value \in Value}

MCOlder ==
    OldMixed \cup
    {row \in OldStreams \cup OldHysteria :
        /\ row.json.target => "reality" \in row.json.sections
        /\ row.protocol = "vmess" => row.json.method = ""
        /\ row.protocol = "trojan" => row.json.network = "tcp" /\ row.json.method = ""}
=============================================================================
