---------------------------- MODULE InboundEditor ----------------------------
(***************************************************************************)
(* The inbound form of the panel's page: the classes Inbound and           *)
(* StreamSettings of web/assets/js/model/xray.js, the modal of             *)
(* inbound_modal.html with the selects of its templates, and the           *)
(* submissions of inbounds.html, against the checks the server makes       *)
(* (Inbound.Validate).                                                     *)
(*                                                                         *)
(* Of an inbound, its protocol, settings and transport are kept.  A JSON   *)
(* object is the set of its sections (tcpSettings is "tcp", tlsSettings    *)
(* "tls"), the values the form shows, "" for an absent one, and the        *)
(* objects in it ("stream" for itself) with fields this panel does not     *)
(* know; arrays are written whole.  A REALITY key pair is a number, 0 for  *)
(* a pair with a half missing.  The ALPN list is "h3" if it has h3.  A     *)
(* form is forgotten when it closes: nothing reads it again.               *)
(*                                                                         *)
(* What an administrator types is kept as far as the server judges it: the *)
(* settings of a protocol and the numbers of hysteriaSettings ("idle", for *)
(* udpIdleTimeout) are "right" or "wrong", or "mended" if wrong in stored  *)
(* JSON and put right by reading it (a missing udpIdleTimeout, another     *)
(* version of Hysteria); a REALITY target has a valid port or has not.     *)
(***************************************************************************)
EXTENDS Integers, FiniteSets

CONSTANTS
    Ids,           \* of stored inbounds
    Protocols,     \* of the protocol select
    Networks,      \* transports, without that of Hysteria
    Posts,         \* submissions the page may have under way
    Older,         \* what an older panel or another tool stored: see Row
    MaxKeys,       \* bound: key pairs, the first of an older inbound
    MaxRequests,   \* bound: key requests under way
    MaxMoves       \* bound: forms opened and choices made in them

ASSUME EditorAssumption ==
    /\ Protocols \subseteq {"vmess", "vless", "trojan", "shadowsocks",
           "http", "mixed", "tunnel", "wireguard", "hysteria"}
    /\ Networks \subseteq {"tcp", "kcp", "ws", "grpc", "httpupgrade", "xhttp",
                           "http", "quic"}
    /\ "vmess" \in Protocols /\ "tcp" \in Networks
    /\ 0 \notin Ids
    /\ MaxKeys \in Nat \ {0} /\ MaxRequests \in Nat
    /\ MaxMoves \in Nat

VARIABLES
    stored,        \* the inbounds of the server
    page,          \* dbInbounds: the inbounds as last listed
    shown,         \* inModal.visible
    loading,       \* inModal.confirmLoading, which disables OK
    form,          \* inModal.inbound and the id it edits, 0 for a new one
    requests,      \* key requests, of this form and of earlier forms
    post,          \* submissions
    keys,          \* key pairs generated so far
    past,          \* history of the form: see PastType
    moves          \* counter for the bound

vars == <<stored, page, shown, loading, form, requests, post, keys, past, moves>>

-----------------------------------------------------------------------------
(* StreamSettings *)

AllNetworks == Networks \cup {"hysteria"}
Sections    == AllNetworks \cup {"tls", "reality"}
Objects     == Sections \cup {"stream"}
Value       == {"right", "mended", "wrong"}
FormValue   == {"right", "wrong"}
Json        == [network : AllNetworks \cup {""}, method : AllNetworks \cup {""},
                security : {"", "none", "tls", "reality", "xtls"}, alpn : {"h2", "h3"},
                key : 0..MaxKeys, target : BOOLEAN, idle : Value,
                sections : SUBSET Sections, unknown : SUBSET Objects]
Stream      == [network : AllNetworks, security : {"none", "tls", "reality", "xtls"},
                alpn : {"h2", "h3"}, key : 0..MaxKeys, target : BOOLEAN,
                idle : FormValue,
                raw : [method : AllNetworks \cup {""},
                       sections : SUBSET Sections, unknown : SUBSET Objects]]

EmptyJson == [network |-> "", method |-> "", security |-> "", alpn |-> "h2",
              key |-> 0, target |-> FALSE, idle |-> "right", sections |-> {},
              unknown |-> {}]

\* How the form shows a value that was stored.
Read(value) == IF value = "wrong" THEN "wrong" ELSE "right"

\* mergeJson: a section the form does not write is deleted from the original,
\* with all its fields.
MergeJson(original, managed, undefined) == (original \ undefined) \cup managed

FromJson(json) ==
    [network  |-> IF json.method # "" THEN json.method
                  ELSE IF json.network # "" THEN json.network ELSE "tcp",
     security |-> IF json.security = "" THEN "none" ELSE json.security,
     alpn     |-> IF "tls" \in json.sections THEN json.alpn ELSE "h2",
     key      |-> IF "reality" \in json.sections THEN json.key ELSE 0,
     target   |-> "reality" \in json.sections /\ json.target,
     idle     |-> IF "hysteria" \in json.sections THEN Read(json.idle) ELSE "right",
     raw      |-> [method |-> json.method, sections |-> json.sections,
                   unknown |-> json.unknown]]

NewStream == FromJson(EmptyJson)

\* Mutant of ToJson: the key "method" is merged back with the rest.
ToJsonAliased(stream) ==
    LET managed == {stream.network} \cup ({stream.security} \cap Sections)
    IN  [network  |-> stream.network, method |-> stream.raw.method,
         security |-> stream.security,
         alpn     |-> IF "tls" \in managed THEN stream.alpn ELSE "h2",
         key      |-> IF "reality" \in managed THEN stream.key ELSE 0,
         target   |-> "reality" \in managed /\ stream.target,
         idle     |-> IF "hysteria" \in managed THEN stream.idle ELSE "right",
         sections |-> MergeJson(stream.raw.sections, managed, Sections \ managed),
         unknown  |-> MergeJson(stream.raw.unknown, {}, Sections \ managed)]

ToJson(stream) ==
    LET managed == {stream.network} \cup ({stream.security} \cap Sections)
    IN  [network  |-> stream.network, method |-> "",
         security |-> stream.security,
         alpn     |-> IF "tls" \in managed THEN stream.alpn ELSE "h2",
         key      |-> IF "reality" \in managed THEN stream.key ELSE 0,
         target   |-> "reality" \in managed /\ stream.target,
         idle     |-> IF "hysteria" \in managed THEN stream.idle ELSE "right",
         sections |-> MergeJson(stream.raw.sections, managed, Sections \ managed),
         unknown  |-> MergeJson(stream.raw.unknown, {}, Sections \ managed)]

-----------------------------------------------------------------------------
(* Inbound *)

Inbound == [protocol : Protocols, settings : FormValue, stream : Stream]
Row     == [protocol : Protocols, settings : Value, json : Json]

ASSUME OlderAssumption == Older \subseteq Row

CanEnableStream(inbound) ==
    inbound.protocol \in {"vmess", "vless", "shadowsocks", "trojan", "hysteria"}

CanEnableTls(inbound) ==
    \/ inbound.protocol = "hysteria"
    \/ /\ inbound.protocol \in {"vmess", "vless", "trojan", "shadowsocks"}
       /\ inbound.stream.network \in
              {"tcp", "ws", "http", "grpc", "httpupgrade", "xhttp"}

CanEnableReality(inbound) ==
    /\ inbound.protocol \in {"vless", "trojan"}
    /\ inbound.stream.network \in {"tcp", "http", "grpc", "xhttp"}

\* Mutant of NormalizeProtocolStream: the ALPN list is left as it was.
NormalizeTransport(inbound) ==
    IF inbound.protocol # "hysteria" THEN inbound
    ELSE [inbound EXCEPT !.stream.network = "hysteria",
                         !.stream.security = "tls"]

NormalizeProtocolStream(inbound) ==
    IF inbound.protocol # "hysteria" THEN inbound
    ELSE [inbound EXCEPT !.stream.network = "hysteria",
                         !.stream.security = "tls", !.stream.alpn = "h3"]

InboundFromJson(row) ==
    NormalizeProtocolStream([protocol |-> row.protocol, settings |-> Read(row.settings),
                             stream   |-> FromJson(row.json)])

\* The JSON of an inbound that is normal.
Wire(inbound) ==
    [protocol |-> inbound.protocol, settings |-> inbound.settings,
     json |-> IF CanEnableStream(inbound) THEN ToJson(inbound.stream) ELSE EmptyJson]

InboundToJson(inbound) == Wire(NormalizeProtocolStream(inbound))

NewInbound(protocol) ==
    NormalizeProtocolStream([protocol |-> protocol, settings |-> "right",
                             stream |-> NewStream])

\* The setter of protocol, with the protocol's default settings.
SetProtocol(inbound, protocol) ==
    LET changed == [inbound EXCEPT !.protocol = protocol, !.settings = "right"]
    IN  IF protocol = "trojan" THEN [changed EXCEPT !.stream.security = "tls"]
        ELSE IF protocol = "hysteria" THEN NormalizeProtocolStream(changed)
        ELSE IF changed.stream.network = "hysteria"
             THEN [changed EXCEPT !.stream = NewStream]
        ELSE IF changed.stream.security = "reality" /\ ~CanEnableReality(changed)
             THEN [changed EXCEPT !.stream.security = "none"]
        ELSE changed

\* Mutant of SetNetwork: only REALITY is checked against the new transport.
SetNetworkTls(inbound, network) ==
    LET changed == [inbound EXCEPT !.stream.network = network]
    IN  IF changed.stream.security = "reality" /\ ~CanEnableReality(changed)
        THEN [changed EXCEPT !.stream.security = "none"]
        ELSE changed

\* The select of the network and streamNetworkChange.
SetNetwork(inbound, network) ==
    LET changed == [inbound EXCEPT !.stream.network = network]
    IN  IF \/ changed.stream.security = "reality" /\ ~CanEnableReality(changed)
           \/ changed.stream.security = "tls" /\ ~CanEnableTls(changed)
        THEN [changed EXCEPT !.stream.security = "none"]
        ELSE changed

OfferedNetworks == Networks \cap {"tcp", "kcp", "ws", "grpc", "httpupgrade", "xhttp"}

OfferedSecurities(inbound) ==
    {"none"} \cup (IF CanEnableTls(inbound) THEN {"tls"} ELSE {})
             \cup (IF CanEnableReality(inbound) THEN {"reality"} ELSE {})

\* Inbound.Validate, for a protocol of the list and objects that parse: what it
\* requires of the transport, and of the values in it and in the settings.
Complete(row) ==
    /\ row.json.security = "tls" => "tls" \in row.json.sections
    /\ row.json.security = "reality" => "reality" \in row.json.sections
    /\ row.protocol = "hysteria" =>
           /\ row.json.network = "hysteria" /\ row.json.security = "tls"
           /\ row.json.alpn = "h3" /\ "hysteria" \in row.json.sections

CheckedSettings == {"mixed", "tunnel", "wireguard", "hysteria"}

Accepted(row) ==
    /\ row.json.security # "xtls"
    /\ row.json.security = "reality" => row.json.target
    /\ row.protocol \in CheckedSettings => row.settings = "right"
    /\ row.protocol = "hysteria" => row.json.idle = "right"

Validate(row) == Complete(row) /\ Accepted(row)

-----------------------------------------------------------------------------
Absent == [protocol |-> "absent", settings |-> "right", json |-> EmptyJson]
Rows   == Row \cup {Absent}

\* What the form had when it was opened, and what happened to it since.
PastType == [key : 0..MaxKeys, unknown : SUBSET Objects, asked : BOOLEAN,
             strayed : BOOLEAN, reset : BOOLEAN]
NoPast   == [key |-> 0, unknown |-> {}, asked |-> FALSE, strayed |-> FALSE,
             reset |-> FALSE]

NoForm   == [id |-> 0, inbound |-> NewInbound("vmess")]

Idle     == [phase |-> "idle", id |-> 0, by |-> "form",
             inbound |-> NoForm.inbound, row |-> Absent, past |-> NoPast]
PostType == [phase : {"idle", "posted", "stored", "rejected", "list"},
             id : Ids \cup {0}, by : {"form", "menu", "switch"}, inbound : Inbound,
             row : Rows, past : PastType]

TypeOK ==
    /\ stored \in [Ids -> Rows] /\ page \in [Ids -> Rows]
    /\ shown \in BOOLEAN /\ loading \in BOOLEAN
    /\ form \in [id : Ids \cup {0}, inbound : Inbound]
    /\ requests \in [own : 0..MaxRequests, earlier : 0..MaxRequests]
    /\ requests.own + requests.earlier <= MaxRequests
    /\ post \in [Posts -> PostType]
    /\ keys \in 1..MaxKeys
    /\ past \in PastType
    /\ moves \in 0..MaxMoves

Init ==
    /\ stored \in [Ids -> Older \cup {Absent}]
    /\ page = stored
    /\ shown = FALSE /\ loading = FALSE
    /\ form = NoForm
    /\ requests = [own |-> 0, earlier |-> 0]
    /\ post = [p \in Posts |-> Idle]
    /\ keys = 1
    /\ past = NoPast
    /\ moves = 0

-----------------------------------------------------------------------------
(* The form *)

\* inModal.show; a key request still under way now answers into this form.
Show(id, inbound) ==
    /\ ~shown /\ moves < MaxMoves
    /\ moves' = moves + 1
    /\ shown' = TRUE
    /\ form' = [id |-> id, inbound |-> inbound]
    /\ requests' = [own |-> 0, earlier |-> requests.own + requests.earlier]
    /\ past' = [NoPast EXCEPT !.key = inbound.stream.key,
                              !.unknown = inbound.stream.raw.unknown]
    /\ UNCHANGED <<stored, page, loading, post, keys>>

OpenAddInbound == Show(0, NewInbound("vmess"))

\* openEditInbound: the form works on a copy, made through JSON.
OpenEditInbound ==
    \E id \in Ids :
        /\ page[id] # Absent
        /\ Show(id, InboundFromJson(InboundToJson(InboundFromJson(page[id]))))

\* The modal closes.
Hide == shown' = FALSE /\ form' = NoForm /\ past' = NoPast

Cancel ==
    /\ shown
    /\ Hide
    /\ UNCHANGED <<moves, stored, page, loading, requests, post, keys>>

Edit(inbound) ==
    /\ shown /\ moves < MaxMoves
    /\ moves' = moves + 1
    /\ form' = [form EXCEPT !.inbound = inbound]
    /\ UNCHANGED <<stored, page, shown, loading, post, keys>>

ChooseProtocol ==
    \E protocol \in Protocols \ {form.inbound.protocol} :
        LET changed == SetProtocol(form.inbound, protocol)
        IN  /\ Edit(changed)
            /\ past' = [past EXCEPT !.reset =
                            @ \/ changed.stream.raw # form.inbound.stream.raw
                              \/ changed.stream.key # form.inbound.stream.key]
            /\ UNCHANGED requests

\* The transport tab of a protocol other than Hysteria.
ChooseNetwork ==
    /\ CanEnableStream(form.inbound) /\ form.inbound.protocol # "hysteria"
    /\ \E network \in OfferedNetworks \ {form.inbound.stream.network} :
           Edit(SetNetwork(form.inbound, network))
    /\ UNCHANGED <<requests, past>>

RequestKeys == /\ requests.own + requests.earlier < MaxRequests
               /\ requests' = [requests EXCEPT !.own = @ + 1]

\* Mutant of ChooseSecurity: REALITY always gets a new key pair.
ChooseSecurityAfresh ==
    /\ CanEnableStream(form.inbound) /\ form.inbound.protocol # "hysteria"
    /\ \E security \in OfferedSecurities(form.inbound)
                           \ {form.inbound.stream.security} :
           /\ CanEnableTls(form.inbound) \/ CanEnableReality(form.inbound)
           /\ Edit([form.inbound EXCEPT !.stream.security = security])
           /\ IF security = "reality" THEN RequestKeys ELSE UNCHANGED requests
    /\ UNCHANGED past

\* The select of the security and streamSecurityChange: keys only if there
\* are none.
ChooseSecurity ==
    /\ CanEnableStream(form.inbound) /\ form.inbound.protocol # "hysteria"
    /\ \E security \in OfferedSecurities(form.inbound)
                           \ {form.inbound.stream.security} :
           /\ CanEnableTls(form.inbound) \/ CanEnableReality(form.inbound)
           /\ Edit([form.inbound EXCEPT !.stream.security = security])
           /\ IF security = "reality" /\ form.inbound.stream.key = 0
              THEN RequestKeys ELSE UNCHANGED requests
    /\ UNCHANGED past

\* The list of the TLS section, disabled for Hysteria.
ChooseAlpn ==
    /\ CanEnableStream(form.inbound) /\ form.inbound.protocol # "hysteria"
    /\ CanEnableTls(form.inbound) \/ CanEnableReality(form.inbound)
    /\ form.inbound.stream.security = "tls"
    /\ \E alpn \in {"h2", "h3"} \ {form.inbound.stream.alpn} :
           Edit([form.inbound EXCEPT !.stream.alpn = alpn])
    /\ UNCHANGED <<requests, past>>

\* The settings of the protocol, where the server checks them.
TypeSettings ==
    /\ form.inbound.protocol \in CheckedSettings
    /\ \E value \in FormValue \ {form.inbound.settings} :
           Edit([form.inbound EXCEPT !.settings = value])
    /\ UNCHANGED <<requests, past>>

\* The target of the REALITY section.
TypeTarget ==
    /\ CanEnableReality(form.inbound)
    /\ form.inbound.stream.security = "reality"
    /\ Edit([form.inbound EXCEPT !.stream.target = ~form.inbound.stream.target])
    /\ UNCHANGED <<requests, past>>

\* The idle timeout of the Hysteria transport; the field can be left empty.
TypeIdle ==
    /\ form.inbound.protocol = "hysteria"
    /\ \E value \in FormValue \ {form.inbound.stream.idle} :
           Edit([form.inbound EXCEPT !.stream.idle = value])
    /\ UNCHANGED <<requests, past>>

\* The button of the REALITY section.
GenerateRealityKeyPair ==
    /\ CanEnableReality(form.inbound)
    /\ form.inbound.stream.security = "reality"
    /\ Edit(form.inbound)
    /\ RequestKeys
    /\ past' = [past EXCEPT !.asked = TRUE]

\* generateRealityKeyPair after its await: the pair goes into the inbound the
\* modal has by now.
KeysArrive ==
    \E origin \in {"own", "earlier"} :
        /\ requests[origin] > 0 /\ keys < MaxKeys
        /\ requests' = [requests EXCEPT ![origin] = @ - 1]
        /\ IF shown
           THEN /\ keys' = keys + 1
                /\ form' = [form EXCEPT !.inbound.stream.key = keys']
                /\ past' = [past EXCEPT !.strayed = @ \/ origin = "earlier"]
           ELSE UNCHANGED <<form, keys, past>>
        /\ UNCHANGED <<moves, stored, page, shown, loading, post>>

KeysFail ==
    \E origin \in {"own", "earlier"} :
        /\ requests[origin] > 0
        /\ requests' = [requests EXCEPT ![origin] = @ - 1]
        /\ UNCHANGED <<moves, stored, page, shown, loading, form, post, keys, past>>

-----------------------------------------------------------------------------
(* Submissions *)

\* addInbound and updateInbound, from the form, the reset in the row's menu
\* or its switch, which alone has no part in the modal's state.
Submit(p, id, inbound, by, row, history) ==
    /\ post[p].phase = "idle"
    /\ post' = [post EXCEPT ![p] =
                    [phase |-> "posted", id |-> id, by |-> by,
                     inbound |-> inbound, row |-> row, past |-> history]]
    /\ loading' = (loading \/ by # "switch")
    /\ UNCHANGED <<moves, stored, page, shown, form, requests, keys, past>>

Ok(p) ==
    /\ shown /\ ~loading
    /\ Submit(p, form.id, form.inbound, "form", Wire(form.inbound), past)

\* resetTraffic serializes the inbound again, switchEnable posts it as it is.
ResetTraffic(p) ==
    \E id \in Ids :
        LET row     == page[id]
            inbound == InboundFromJson(row)
        IN  /\ row # Absent /\ ~shown
            /\ Submit(p, id, inbound, "menu", Wire(inbound),
                      [NoPast EXCEPT !.key = inbound.stream.key,
                                     !.unknown = row.json.unknown])

SwitchEnable(p) ==
    \E id \in Ids :
        LET row     == page[id]
            inbound == InboundFromJson(row)
        IN  /\ row # Absent /\ ~shown
            /\ Submit(p, id, inbound, "switch", row,
                      [NoPast EXCEPT !.key = inbound.stream.key,
                                     !.unknown = row.json.unknown])

\* The server stores the inbound under its id, or under a new one.
ServerStores(p) ==
    /\ post[p].phase = "posted"
    /\ Validate(post[p].row)
    /\ \E id \in Ids :
           /\ IF post[p].id = 0 THEN stored[id] = Absent ELSE id = post[p].id
           /\ stored' = [stored EXCEPT ![id] = post[p].row]
    /\ post' = [post EXCEPT ![p].phase = "stored"]
    /\ UNCHANGED <<moves, page, shown, loading, form, requests, keys, past>>

\* Refused by Validate, for its port or by the database; or the answer is lost.
Refused(p) ==
    /\ post[p].phase \in {"posted", "stored"}
    /\ post' = [post EXCEPT ![p].phase = "rejected"]
    /\ UNCHANGED <<moves, stored, page, shown, loading, form, requests, keys, past>>

\* postWithModal closes the modal on success, then submit lists again.
Answer(p) ==
    /\ post[p].phase = "stored"
    /\ post' = [post EXCEPT ![p].phase = "list"]
    /\ IF post[p].by = "switch" THEN UNCHANGED <<shown, form, past, loading>>
                                ELSE Hide /\ loading' = FALSE
    /\ UNCHANGED <<moves, stored, page, requests, keys>>

\* The confirm callback of the form closes the modal whatever the answer was.
Close(p) ==
    /\ post[p].phase \in {"list", "rejected"}
    /\ post' = [post EXCEPT ![p] = Idle]
    /\ IF post[p].by = "form" THEN Hide /\ loading' = FALSE
       ELSE /\ loading' = IF post[p].by = "menu" /\ post[p].phase = "rejected"
                          THEN FALSE ELSE loading
            /\ UNCHANGED <<shown, form, past>>
    /\ \/ post[p].phase = "list" /\ page' = stored
       \/ UNCHANGED page
    /\ UNCHANGED <<moves, stored, requests, keys>>

Next ==
    \/ OpenAddInbound \/ OpenEditInbound \/ Cancel
    \/ ChooseProtocol \/ ChooseNetwork \/ ChooseSecurity \/ ChooseAlpn
    \/ TypeSettings \/ TypeTarget \/ TypeIdle
    \/ GenerateRealityKeyPair \/ KeysArrive \/ KeysFail
    \/ \E p \in Posts :
           Ok(p) \/ ResetTraffic(p) \/ SwitchEnable(p) \/ ServerStores(p)
           \/ Refused(p) \/ Answer(p) \/ Close(p)

Spec == Init /\ [][Next]_vars

-----------------------------------------------------------------------------
(* Properties *)

\* What a form holds that the server refuses: settings, a Hysteria timeout or a
\* REALITY target that somebody typed, left empty or found in the inbound, and
\* the XTLS of an older inbound.
Blamed(inbound) ==
    \/ inbound.protocol \in CheckedSettings /\ inbound.settings # "right"
    \/ inbound.protocol = "hysteria" /\ inbound.stream.idle # "right"
    \/ /\ CanEnableStream(inbound)
       /\ \/ inbound.stream.security = "xtls"
          \/ inbound.stream.security = "reality" /\ ~inbound.stream.target

\* Whatever the sequence of choices, and whatever inbound the form was opened
\* on, Inbound.Validate refuses what a form or the row's menu submits exactly
\* for such a value, never for the transport the choices left: a TLS or REALITY
\* inbound carries its section and a Hysteria inbound its transport, its TLS
\* and h3.  What the switch posts as it is passed Validate once, or is older.
RefusedForValues ==
    \A p \in Posts : post[p].phase = "posted" =>
        IF post[p].by = "switch"
        THEN Validate(post[p].row) \/ post[p].row \in Older
        ELSE /\ Complete(post[p].row)
             /\ Validate(post[p].row) <=> ~Blamed(post[p].inbound)

\* What a form submits reads back as what it showed: the transport, the
\* security, the ALPN, the REALITY target and keys the next form shows are
\* those of the form that was submitted, no section of an earlier transport or
\* security stays behind, and the fields this panel does not know survive in
\* every section that is submitted, unless the transport was started afresh.
SubmissionsReadBack ==
    \A p \in Posts :
        LET sent == post[p].inbound
            json == post[p].row.json
            back == InboundFromJson(post[p].row)
        IN  post[p].phase = "posted" /\ post[p].by # "switch" /\ CanEnableStream(sent) =>
                /\ back.stream.network = sent.stream.network
                /\ back.stream.security = sent.stream.security
                /\ sent.stream.security = "tls" =>
                       back.stream.alpn = sent.stream.alpn
                /\ sent.stream.security = "reality" =>
                       /\ back.stream.key = sent.stream.key
                       /\ back.stream.target = sent.stream.target
                /\ json.sections = {sent.stream.network}
                       \cup ({sent.stream.security} \cap {"tls", "reality"})
                /\ \/ post[p].past.unknown \cap (json.sections \cup {"stream"})
                          \subseteq json.unknown
                   \/ post[p].past.reset

\* An inbound opened with REALITY keys is submitted with the same keys, unless
\* new ones were asked for in this form, the transport was started afresh, or
\* the answer to a request of an earlier form landed in this one.
KeysChangeOnRequest ==
    \A p \in Posts :
        post[p].phase = "posted" /\ post[p].row.json.security = "reality" =>
            \/ post[p].past.key \in {0, post[p].row.json.key}
            \/ post[p].past.asked \/ post[p].past.strayed \/ post[p].past.reset

\* A protocol without a transport keeps the one the form had, hidden.
Selectable(inbound) ==
    LET visible == IF CanEnableStream(inbound) THEN inbound
                   ELSE [inbound EXCEPT !.protocol = "vmess"]
    IN  /\ inbound.stream.security \in OfferedSecurities(visible)
        /\ inbound.protocol = "hysteria" <=> inbound.stream.network = "hysteria"

\* No choice turns a transport and security the form offers together into a
\* pair it does not offer, but the choice of Trojan, which sets TLS on
\* whatever transport the form has.
OnlyTrojanForces ==
    [][shown /\ shown' /\ Selectable(form.inbound)
           /\ ~Selectable(form'.inbound) =>
           /\ form.inbound.protocol # "trojan"
           /\ form'.inbound.protocol = "trojan"]_vars
=============================================================================
