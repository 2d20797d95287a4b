------------------------- MODULE InboundEditorProofs -------------------------
(***************************************************************************)
(* Proofs about the inbound form for any stored inbounds, transports and   *)
(* protocols, and for any number of choices, key requests and submissions. *)
(***************************************************************************)
EXTENDS InboundEditor, TLAPS

-----------------------------------------------------------------------------
(* JSON and the form's objects *)

\* A Hysteria inbound as the server wants it.
Normal(inbound) ==
    inbound.protocol = "hysteria" =>
        /\ inbound.stream.network = "hysteria" /\ inbound.stream.security = "tls"
        /\ inbound.stream.alpn = "h3"

\* No transport has the name of a security.
LEMMA Names ==
  /\ "tcp" \in Networks /\ "hysteria" \notin Networks
  /\ "hysteria" \in AllNetworks /\ Networks \subseteq AllNetworks
  /\ "" \notin AllNetworks /\ "tls" \notin AllNetworks /\ "reality" \notin AllNetworks
  /\ AllNetworks \subseteq Sections /\ "tls" \in Sections /\ "reality" \in Sections
  /\ "none" \notin Sections /\ "xtls" \notin Sections
  /\ "stream" \notin AllNetworks /\ Sections \subseteq Objects
PROOF
  BY EditorAssumption DEF AllNetworks, Sections, Objects

\* The object without fields is a JSON object, and no key pair is one.
LEMMA EmptyTyped == EmptyJson \in Json /\ 0 \in 0..MaxKeys
PROOF
  <1>1. 0 \in 0..MaxKeys
    BY EditorAssumption
  <1>2. QED
    BY <1>1 DEF EmptyJson, Json, Value

\* What the form reads from JSON is a stream with the keys and the unknown
\* fields of the object.
LEMMA FromJsonTyped ==
  ASSUME NEW json \in Json
  PROVE  /\ FromJson(json) \in Stream
         /\ FromJson(json).raw.unknown = json.unknown
         /\ json.method = "" /\ json.network # "" => FromJson(json).network = json.network
         /\ json.security # "" => FromJson(json).security = json.security
         /\ "tls" \in json.sections => FromJson(json).alpn = json.alpn
         /\ "reality" \in json.sections => /\ FromJson(json).key = json.key
                                           /\ FromJson(json).target = json.target
         /\ "reality" \notin json.sections => FromJson(json).key = 0
PROOF
  <1>1. /\ json.network \in AllNetworks \cup {""} /\ json.method \in AllNetworks \cup {""}
        /\ json.security \in {"", "none", "tls", "reality", "xtls"}
        /\ json.alpn \in {"h2", "h3"} /\ json.key \in 0..MaxKeys
        /\ json.target \in BOOLEAN /\ json.sections \in SUBSET Sections
        /\ json.unknown \in SUBSET Objects
    BY DEF Json
  <1>2. [method |-> json.method, sections |-> json.sections, unknown |-> json.unknown]
           \in [method : AllNetworks \cup {""}, sections : SUBSET Sections,
                unknown : SUBSET Objects]
    BY <1>1
  <1>3. QED
    BY <1>1, <1>2, Names, EmptyTyped DEF FromJson, Stream, Read, FormValue

\* A form that starts afresh.
LEMMA NewStreamTyped ==
  /\ NewStream \in Stream
  /\ NewStream.network = "tcp" /\ NewStream.security = "none" /\ NewStream.key = 0
PROOF
  <1>1. NewStream \in Stream
    BY EmptyTyped, FromJsonTyped DEF NewStream
  <1>2. QED
    BY <1>1 DEF NewStream, FromJson, EmptyJson

\* What the form writes: its own transport and security, their sections and no
\* other, and the fields it does not know in these.
LEMMA ToJsonTyped ==
  ASSUME NEW stream \in Stream
  PROVE  /\ ToJson(stream) \in Json
         /\ ToJson(stream).method = "" /\ ToJson(stream).network = stream.network
         /\ ToJson(stream).security = stream.security
         /\ ToJson(stream).sections =
               {stream.network} \cup ({stream.security} \cap {"tls", "reality"})
         /\ stream.security = "tls" => ToJson(stream).alpn = stream.alpn
         /\ stream.security = "reality" => /\ ToJson(stream).key = stream.key
                                           /\ ToJson(stream).target = stream.target
         /\ stream.network = "hysteria" => ToJson(stream).idle = stream.idle
         /\ stream.raw.unknown \cap (ToJson(stream).sections \cup {"stream"})
               \subseteq ToJson(stream).unknown
PROOF
  <1> DEFINE managed == {stream.network} \cup ({stream.security} \cap Sections)
  <1>1. /\ stream.network \in AllNetworks
        /\ stream.security \in {"none", "tls", "reality", "xtls"}
        /\ stream.alpn \in {"h2", "h3"} /\ stream.key \in 0..MaxKeys
        /\ stream.target \in BOOLEAN /\ stream.idle \in Value
        /\ stream.raw.sections \in SUBSET Sections
        /\ stream.raw.unknown \in SUBSET Objects
    BY DEF Stream, FormValue, Value
  <1>2. managed = {stream.network} \cup ({stream.security} \cap {"tls", "reality"})
    BY <1>1, Names
  <1>3. managed \subseteq Sections
    BY <1>1, Names
  <1>4. MergeJson(stream.raw.sections, managed, Sections \ managed) = managed
    BY <1>1, <1>3 DEF MergeJson
  <1>5. /\ stream.security = "tls" => "tls" \in managed
        /\ stream.security = "reality" => "reality" \in managed
        /\ stream.network = "hysteria" => "hysteria" \in managed
    BY <1>2
  <1> DEFINE unknown == MergeJson(stream.raw.unknown, {}, Sections \ managed)
  <1>5a. /\ unknown \in SUBSET Objects
         /\ stream.raw.unknown \cap (managed \cup {"stream"}) \subseteq unknown
    <2>1. "stream" \notin Sections
      BY Names DEF Sections
    <2>2. QED
      BY <1>1, <2>1 DEF MergeJson
  <1> DEFINE json == [network |-> stream.network, method |-> "",
                      security |-> stream.security,
                      alpn     |-> IF "tls" \in managed THEN stream.alpn ELSE "h2",
                      key      |-> IF "reality" \in managed THEN stream.key ELSE 0,
                      target   |-> "reality" \in managed /\ stream.target,
                      idle     |-> IF "hysteria" \in managed THEN stream.idle ELSE "right",
                      sections |-> managed,
                      unknown  |-> unknown]
  <1>6. ToJson(stream) = json
    BY <1>4 DEF ToJson
  <1> HIDE DEF managed, unknown
  <1>7. json \in Json
    BY <1>1, <1>3, <1>5a, EmptyTyped DEF Json, Value
  <1>8. /\ json.method = "" /\ json.network = stream.network
        /\ json.security = stream.security /\ json.sections = managed
        /\ "tls" \in managed => json.alpn = stream.alpn
        /\ "reality" \in managed => json.key = stream.key /\ json.target = stream.target
        /\ "hysteria" \in managed => json.idle = stream.idle
        /\ json.unknown = unknown
    BY <1>1
  <1> HIDE DEF json
  <1>9. QED
    BY <1>2, <1>5, <1>5a, <1>6, <1>7, <1>8

\* The parts of an inbound that a step changes.
LEMMA InboundTyped ==
  ASSUME NEW inbound \in Inbound
  PROVE  /\ inbound.protocol \in Protocols /\ inbound.stream \in Stream
         /\ inbound.settings \in FormValue
         /\ \A p \in Protocols :
               [inbound EXCEPT !.protocol = p, !.settings = "right"] \in Inbound
         /\ \A s \in Stream : [inbound EXCEPT !.stream = s] \in Inbound
         /\ \A n \in AllNetworks : [inbound EXCEPT !.stream.network = n] \in Inbound
         /\ \A s \in {"none", "tls", "reality"} :
               [inbound EXCEPT !.stream.security = s] \in Inbound
         /\ \A v \in FormValue : /\ [inbound EXCEPT !.settings = v] \in Inbound
                                 /\ [inbound EXCEPT !.stream.idle = v] \in Inbound
         /\ \A t \in BOOLEAN : [inbound EXCEPT !.stream.target = t] \in Inbound
         /\ \A a \in {"h2", "h3"} : [inbound EXCEPT !.stream.alpn = a] \in Inbound
         /\ \A k \in 0..MaxKeys : [inbound EXCEPT !.stream.key = k] \in Inbound
PROOF
  BY DEF Inbound, Stream, FormValue

\* Normalizing makes a Hysteria inbound normal and leaves its keys and its
\* unknown fields.
LEMMA Normalized ==
  ASSUME NEW inbound \in Inbound
  PROVE  /\ NormalizeProtocolStream(inbound) \in Inbound
         /\ Normal(NormalizeProtocolStream(inbound))
         /\ NormalizeProtocolStream(inbound).protocol = inbound.protocol
         /\ NormalizeProtocolStream(inbound).stream.key = inbound.stream.key
         /\ NormalizeProtocolStream(inbound).stream.raw = inbound.stream.raw
         /\ NormalizeProtocolStream(inbound).stream.target = inbound.stream.target
         /\ inbound.protocol # "hysteria" => NormalizeProtocolStream(inbound) = inbound
PROOF
  BY Names DEF NormalizeProtocolStream, Normal, Inbound, Stream

\* A form that starts on a protocol.
LEMMA NewInboundTyped ==
  ASSUME NEW protocol \in Protocols
  PROVE  NewInbound(protocol) \in Inbound /\ Normal(NewInbound(protocol))
PROOF
  <1> DEFINE inbound == [protocol |-> protocol, settings |-> "right", stream |-> NewStream]
  <1>1. inbound \in Inbound
    BY NewStreamTyped DEF Inbound, FormValue
  <1>2. NewInbound(protocol) = NormalizeProtocolStream(inbound)
    BY DEF NewInbound
  <1> HIDE DEF inbound
  <1>3. QED
    BY <1>1, <1>2, Normalized

\* An inbound read from JSON is normal.
LEMMA InboundFromJsonTyped ==
  ASSUME NEW row \in Row
  PROVE  /\ InboundFromJson(row) \in Inbound
         /\ Normal(InboundFromJson(row))
         /\ InboundFromJson(row).protocol = row.protocol
         /\ InboundFromJson(row).stream.key = FromJson(row.json).key
         /\ InboundFromJson(row).stream.raw.unknown = row.json.unknown
         /\ row.protocol # "hysteria" => InboundFromJson(row).stream = FromJson(row.json)
         /\ InboundFromJson(row).stream.target = FromJson(row.json).target
PROOF
  <1> DEFINE inbound == [protocol |-> row.protocol, settings |-> Read(row.settings),
                         stream   |-> FromJson(row.json)]
  <1>1. /\ row.json \in Json /\ row.protocol \in Protocols
        /\ Read(row.settings) \in FormValue
    BY DEF Row, Read, FormValue
  <1>2. /\ inbound \in Inbound /\ inbound.protocol = row.protocol
        /\ inbound.stream = FromJson(row.json)
    BY <1>1, FromJsonTyped DEF Inbound
  <1>3. InboundFromJson(row) = NormalizeProtocolStream(inbound)
    BY DEF InboundFromJson
  <1> HIDE DEF inbound
  <1>4. /\ NormalizeProtocolStream(inbound) \in Inbound
        /\ Normal(NormalizeProtocolStream(inbound))
        /\ NormalizeProtocolStream(inbound).protocol = row.protocol
        /\ NormalizeProtocolStream(inbound).stream.key = inbound.stream.key
        /\ NormalizeProtocolStream(inbound).stream.raw = inbound.stream.raw
        /\ NormalizeProtocolStream(inbound).stream.target = inbound.stream.target
        /\ row.protocol # "hysteria" => NormalizeProtocolStream(inbound) = inbound
    BY <1>2, Normalized
  <1>5. FromJson(row.json).raw.unknown = row.json.unknown
    BY <1>1, FromJsonTyped
  <1>6. QED
    BY <1>2, <1>3, <1>4, <1>5

\* What is posted for a normal inbound: a row with all that the server requires
\* of the transport, refused for a value alone, and with the keys of the inbound.
LEMMA WireValid ==
  ASSUME NEW inbound \in Inbound, Normal(inbound)
  PROVE  /\ Wire(inbound) \in Row
         /\ Wire(inbound).protocol = inbound.protocol
         /\ Complete(Wire(inbound))
         /\ Validate(Wire(inbound)) <=> ~Blamed(inbound)
         /\ CanEnableStream(inbound) => Wire(inbound).json = ToJson(inbound.stream)
         /\ Wire(inbound).json.security = "reality" =>
               Wire(inbound).json.key = inbound.stream.key
PROOF
  <1>1. /\ inbound.stream \in Stream /\ inbound.protocol \in Protocols
        /\ inbound.settings \in Value
    BY InboundTyped DEF FormValue, Value
  <1>2. /\ Wire(inbound).protocol = inbound.protocol
        /\ Wire(inbound).settings = inbound.settings
        /\ Wire(inbound).json \in Json => Wire(inbound) \in Row
    BY <1>1 DEF Wire, Row
  <1> DEFINE row == Wire(inbound)
  <1>3. CASE CanEnableStream(inbound)
    <2> DEFINE json == ToJson(inbound.stream)
    <2>1. row.json = json
      BY <1>3 DEF Wire
    <2>2. /\ json \in Json /\ json.network = inbound.stream.network
          /\ json.security = inbound.stream.security
          /\ json.sections = {inbound.stream.network}
                \cup ({inbound.stream.security} \cap {"tls", "reality"})
          /\ inbound.stream.security = "tls" => json.alpn = inbound.stream.alpn
          /\ inbound.stream.security = "reality" => /\ json.key = inbound.stream.key
                                                    /\ json.target = inbound.stream.target
          /\ inbound.stream.network = "hysteria" => json.idle = inbound.stream.idle
      BY <1>1, ToJsonTyped
    <2> HIDE DEF json, row
    <2>3. Complete(row)
      BY <1>2, <2>1, <2>2 DEF Complete, Normal, row
    <2>4. Accepted(row) <=> ~Blamed(inbound)
      BY <1>2, <1>3, <2>1, <2>2 DEF Accepted, Blamed, Normal, row
    <2>5. QED
      BY <1>2, <2>1, <2>2, <2>3, <2>4 DEF json, row, Validate
  <1>4. CASE ~CanEnableStream(inbound)
    <2>1. row.json = EmptyJson /\ inbound.protocol # "hysteria"
      BY <1>4 DEF Wire, CanEnableStream
    <2>2. EmptyJson.security = ""
      BY DEF EmptyJson
    <2> HIDE DEF row
    <2>3. Complete(row) /\ (Accepted(row) <=> ~Blamed(inbound))
      BY <1>2, <1>4, <2>1, <2>2 DEF Complete, Accepted, Blamed, row
    <2>4. QED
      BY <1>2, <1>4, <2>1, <2>2, <2>3, EmptyTyped DEF row, Validate
  <1>5. QED
    BY <1>3, <1>4

\* What is posted reads back as what the form showed.
LEMMA WireBack ==
  ASSUME NEW sent \in Inbound, Normal(sent), CanEnableStream(sent)
  PROVE  LET json == Wire(sent).json
             back == InboundFromJson(Wire(sent))
         IN  /\ back.stream.network = sent.stream.network
             /\ back.stream.security = sent.stream.security
             /\ sent.stream.security = "tls" => back.stream.alpn = sent.stream.alpn
             /\ sent.stream.security = "reality" =>
                   /\ back.stream.key = sent.stream.key
                   /\ back.stream.target = sent.stream.target
             /\ json.sections = {sent.stream.network}
                   \cup ({sent.stream.security} \cap {"tls", "reality"})
             /\ sent.stream.raw.unknown \cap (json.sections \cup {"stream"})
                   \subseteq json.unknown
PROOF
  <1> DEFINE json == ToJson(sent.stream)
             row == Wire(sent)
             back == InboundFromJson(row)
  <1>1. /\ row \in Row /\ row.json = json /\ row.protocol = sent.protocol
        /\ sent.stream \in Stream
    BY WireValid, InboundTyped
  <1>2. /\ json \in Json /\ json.method = "" /\ json.network = sent.stream.network
        /\ json.security = sent.stream.security
        /\ json.sections = {sent.stream.network}
              \cup ({sent.stream.security} \cap {"tls", "reality"})
        /\ sent.stream.security = "tls" => json.alpn = sent.stream.alpn
        /\ sent.stream.security = "reality" => /\ json.key = sent.stream.key
                                               /\ json.target = sent.stream.target
        /\ sent.stream.raw.unknown \cap (json.sections \cup {"stream"})
              \subseteq json.unknown
    BY <1>1, ToJsonTyped
  <1>3. json.network # "" /\ json.security # ""
    BY <1>1, <1>2, Names DEF Stream
  <1> HIDE DEF json, row
  <1>4. /\ FromJson(json).network = sent.stream.network
        /\ FromJson(json).security = sent.stream.security
        /\ sent.stream.security = "tls" => FromJson(json).alpn = sent.stream.alpn
        /\ sent.stream.security = "reality" =>
              /\ FromJson(json).key = sent.stream.key
              /\ FromJson(json).target = sent.stream.target
    BY <1>2, <1>3, FromJsonTyped
  <1>5. /\ Normal(back) /\ back.protocol = sent.protocol
        /\ back.stream.key = FromJson(json).key
        /\ back.stream.target = FromJson(json).target
        /\ sent.protocol # "hysteria" => back.stream = FromJson(json)
    BY <1>1, InboundFromJsonTyped
  <1>6. /\ back.stream.network = sent.stream.network
        /\ back.stream.security = sent.stream.security
        /\ sent.stream.security = "tls" => back.stream.alpn = sent.stream.alpn
        /\ sent.stream.security = "reality" => /\ back.stream.key = sent.stream.key
                                               /\ back.stream.target = sent.stream.target
    <2> HIDE DEF back
    <2>1. CASE sent.protocol = "hysteria"
      BY <1>4, <1>5, <2>1 DEF Normal
    <2>2. CASE sent.protocol # "hysteria"
      BY <1>4, <1>5, <2>2
    <2>3. QED
      BY <2>1, <2>2
  <1>7. QED
    BY <1>1, <1>2, <1>6 DEF row

\* A choice of a protocol or a transport leaves a normal inbound.
LEMMA ChoicesTyped ==
  ASSUME NEW inbound \in Inbound
  PROVE  /\ \A p \in Protocols : /\ SetProtocol(inbound, p) \in Inbound
                                 /\ Normal(inbound) => Normal(SetProtocol(inbound, p))
                                 /\ SetProtocol(inbound, p).protocol = p
         /\ \A n \in Networks : /\ SetNetwork(inbound, n) \in Inbound
                                /\ SetNetwork(inbound, n).protocol = inbound.protocol
                                /\ SetNetwork(inbound, n).stream.key = inbound.stream.key
                                /\ SetNetwork(inbound, n).stream.raw = inbound.stream.raw
PROOF
  <1>1. ASSUME NEW p \in Protocols
        PROVE  /\ SetProtocol(inbound, p) \in Inbound /\ SetProtocol(inbound, p).protocol = p
               /\ Normal(inbound) => Normal(SetProtocol(inbound, p))
    <2> DEFINE changed == [inbound EXCEPT !.protocol = p, !.settings = "right"]
    <2>1. changed \in Inbound /\ changed.protocol = p /\ changed.stream = inbound.stream
      BY DEF Inbound, FormValue
    <2>2. /\ [changed EXCEPT !.stream.security = "tls"] \in Inbound
          /\ [changed EXCEPT !.stream.security = "none"] \in Inbound
          /\ [changed EXCEPT !.stream = NewStream] \in Inbound
          /\ NormalizeProtocolStream(changed) \in Inbound
          /\ Normal(NormalizeProtocolStream(changed))
          /\ NormalizeProtocolStream(changed).protocol = p
      BY <2>1, InboundTyped, NewStreamTyped, Normalized
    <2>3. /\ [changed EXCEPT !.stream.security = "tls"].protocol = p
          /\ [changed EXCEPT !.stream.security = "none"].protocol = p
          /\ [changed EXCEPT !.stream = NewStream].protocol = p
      BY <2>1 DEF Inbound
    <2> DEFINE result == SetProtocol(inbound, p)
    <2>4. \/ p # "hysteria"
             /\ result \in {[changed EXCEPT !.stream.security = "tls"],
                            [changed EXCEPT !.stream.security = "none"],
                            [changed EXCEPT !.stream = NewStream], changed}
          \/ p = "hysteria" /\ result = NormalizeProtocolStream(changed)
      BY DEF SetProtocol
    <2> HIDE DEF changed, result
    <2>5. QED
      BY <2>1, <2>2, <2>3, <2>4 DEF Normal, result
  <1>2. ASSUME NEW n \in Networks
        PROVE  /\ SetNetwork(inbound, n) \in Inbound
               /\ SetNetwork(inbound, n).protocol = inbound.protocol
               /\ SetNetwork(inbound, n).stream.key = inbound.stream.key
               /\ SetNetwork(inbound, n).stream.raw = inbound.stream.raw
    <2> DEFINE changed == [inbound EXCEPT !.stream.network = n]
               plain == [changed EXCEPT !.stream.security = "none"]
    <2>1. /\ changed \in Inbound /\ changed.protocol = inbound.protocol
          /\ changed.stream.key = inbound.stream.key
          /\ changed.stream.raw = inbound.stream.raw
      BY Names DEF Inbound, Stream
    <2>2. SetNetwork(inbound, n) \in {changed, plain}
      BY DEF SetNetwork
    <2>3. /\ plain \in Inbound /\ plain.protocol = inbound.protocol
          /\ plain.stream.key = inbound.stream.key
          /\ plain.stream.raw = inbound.stream.raw
      <3> HIDE DEF changed
      <3>1. QED
        BY <2>1 DEF Inbound, Stream
    <2> HIDE DEF changed, plain
    <2>4. QED
      BY <2>1, <2>2, <2>3
  <1>3. QED
    BY <1>1, <1>2

-----------------------------------------------------------------------------
(* The inductive invariant *)

\* Every stored inbound, and every one the page has listed, passed Validate or
\* is older.
RowsValid ==
    \A id \in Ids : /\ stored[id] = Absent \/ Validate(stored[id]) \/ stored[id] \in Older
                    /\ page[id] = Absent \/ Validate(page[id]) \/ page[id] \in Older

\* A key pair was asked for in this form, strayed into it or was reset with
\* the transport.
Excused == past.asked \/ past.strayed \/ past.reset

\* The form is normal; it has the unknown fields and the keys it was opened
\* with, and an answer that is still due was asked for or finds no keys.
FormKept ==
    /\ Normal(form.inbound)
    /\ past.reset \/ past.unknown \subseteq form.inbound.stream.raw.unknown
    /\ past.key \in {0, form.inbound.stream.key} \/ Excused
    /\ requests.own > 0 => past.key = 0 \/ Excused

EditorInv ==
    /\ TypeOK /\ RowsValid /\ FormKept
    /\ RefusedForValues /\ SubmissionsReadBack /\ KeysChangeOnRequest

-----------------------------------------------------------------------------
(* The form *)

\* The form of a closed modal.
LEMMA NoFormTyped ==
  /\ NoForm \in [id : Ids \cup {0}, inbound : Inbound]
  /\ Normal(NoForm.inbound) /\ NoPast \in PastType
PROOF
  <1>1. NewInbound("vmess") \in Inbound /\ Normal(NewInbound("vmess"))
    BY NewInboundTyped, EditorAssumption
  <1>2. QED
    BY <1>1, EmptyTyped DEF NoForm, NoPast, PastType

\* A stored inbound has a protocol of the list and JSON.
LEMMA RowTyped ==
  ASSUME NEW row \in Rows, row # Absent
  PROVE  row \in Row /\ row.json \in Json
PROOF
  BY DEF Rows, Row

\* What opening a form does.
LEMMA ShowStep ==
  ASSUME TypeOK, NEW id \in Ids \cup {0}, NEW inbound \in Inbound, Normal(inbound),
         Show(id, inbound)
  PROVE  TypeOK' /\ FormKept' /\ UNCHANGED <<stored, page, post>>
PROOF
  <1>1. /\ shown' = TRUE /\ form' = [id |-> id, inbound |-> inbound]
        /\ requests' = [own |-> 0, earlier |-> requests.own + requests.earlier]
        /\ past' = [NoPast EXCEPT !.key = inbound.stream.key,
                                  !.unknown = inbound.stream.raw.unknown]
        /\ UNCHANGED <<stored, page, loading, post, keys>>
        /\ moves' \in 0..MaxMoves
    BY EditorAssumption DEF TypeOK, Show
  <1>2. /\ form' \in [id : Ids \cup {0}, inbound : Inbound]
        /\ form'.inbound = inbound
    BY <1>1
  <1>3. inbound.stream.key \in 0..MaxKeys /\ inbound.stream.raw.unknown \in SUBSET Objects
    BY DEF Inbound, Stream
  <1>4. /\ past' \in PastType /\ past'.key = inbound.stream.key
        /\ past'.unknown = inbound.stream.raw.unknown
    BY <1>1, <1>3 DEF NoPast, PastType
  <1>5. /\ requests' \in [own : 0..MaxRequests, earlier : 0..MaxRequests]
        /\ requests'.own + requests'.earlier <= MaxRequests /\ requests'.own = 0
    BY <1>1, EditorAssumption DEF TypeOK
  <1>6. TypeOK'
    BY <1>1, <1>2, <1>4, <1>5 DEF TypeOK
  <1>7. FormKept'
    BY <1>2, <1>4, <1>5 DEF FormKept
  <1>8. QED
    BY <1>1, <1>6, <1>7

\* What opening the form on a stored inbound shows.
LEMMA OpenedTyped ==
  ASSUME NEW row \in Rows, row # Absent
  PROVE  LET again == InboundFromJson(InboundToJson(InboundFromJson(row)))
         IN  again \in Inbound /\ Normal(again)
PROOF
  <1> DEFINE opened == InboundFromJson(row)
             normal == NormalizeProtocolStream(opened)
  <1>1. opened \in Inbound
    BY RowTyped, InboundFromJsonTyped
  <1>2. normal \in Inbound /\ Normal(normal)
    BY <1>1, Normalized
  <1>3. InboundToJson(opened) = Wire(normal)
    BY DEF InboundToJson
  <1> HIDE DEF opened, normal
  <1>4. InboundToJson(opened) \in Row
    BY <1>2, <1>3, WireValid
  <1>5. QED
    BY <1>4, InboundFromJsonTyped DEF opened

\* What closing a form does.
LEMMA HideStep ==
  ASSUME TypeOK, Hide, UNCHANGED requests
  PROVE  /\ form' \in [id : Ids \cup {0}, inbound : Inbound] /\ past' \in PastType
         /\ shown' \in BOOLEAN /\ FormKept'
PROOF
  <1>1. /\ shown' = FALSE /\ form' = NoForm /\ past' = NoPast
    BY DEF Hide
  <1>2. past'.unknown = {} /\ past'.key = 0
    BY <1>1 DEF NoPast
  <1>3. QED
    BY <1>1, <1>2, NoFormTyped DEF FormKept

\* What a choice does.
LEMMA EditStep ==
  ASSUME TypeOK, NEW inbound \in Inbound, Edit(inbound)
  PROVE  /\ shown /\ UNCHANGED <<stored, page, shown, loading, post, keys>>
         /\ moves' \in 0..MaxMoves
         /\ form' \in [id : Ids \cup {0}, inbound : Inbound]
         /\ form'.id = form.id /\ form'.inbound = inbound
PROOF
  BY EditorAssumption DEF TypeOK, Edit

\* A request more.
LEMMA RequestStep ==
  ASSUME TypeOK, RequestKeys
  PROVE  /\ requests' \in [own : 0..MaxRequests, earlier : 0..MaxRequests]
         /\ requests'.own + requests'.earlier <= MaxRequests
PROOF
  BY EditorAssumption DEF TypeOK, RequestKeys

\* The choice of a protocol keeps keys and unknown fields, or starts afresh.
LEMMA ChooseProtocolStep ==
  ASSUME TypeOK, FormKept, ChooseProtocol
  PROVE  TypeOK' /\ FormKept' /\ UNCHANGED <<stored, page, post>>
PROOF
  <1>1. PICK protocol \in Protocols :
           LET changed == SetProtocol(form.inbound, protocol)
           IN  /\ Edit(changed)
               /\ past' = [past EXCEPT !.reset =
                               past.reset \/ changed.stream.raw # form.inbound.stream.raw
                                 \/ changed.stream.key # form.inbound.stream.key]
               /\ UNCHANGED requests
    BY DEF ChooseProtocol
  <1> DEFINE changed == SetProtocol(form.inbound, protocol)
             lost == \/ changed.stream.raw # form.inbound.stream.raw
                     \/ changed.stream.key # form.inbound.stream.key
  <1>2. form.inbound \in Inbound /\ past \in PastType
    BY DEF TypeOK
  <1>3. changed \in Inbound /\ Normal(changed)
    BY <1>2, ChoicesTyped DEF FormKept
  <1>4. Edit(changed) /\ UNCHANGED requests /\ past' = [past EXCEPT !.reset = past.reset \/ lost]
    BY <1>1
  <1>5. lost \in BOOLEAN /\ (~lost => changed.stream.raw = form.inbound.stream.raw
                                      /\ changed.stream.key = form.inbound.stream.key)
    OBVIOUS
  <1> HIDE DEF changed, lost
  <1>6. /\ shown /\ UNCHANGED <<stored, page, shown, loading, post, keys>>
        /\ moves' \in 0..MaxMoves
        /\ form' \in [id : Ids \cup {0}, inbound : Inbound] /\ form'.inbound = changed
    BY <1>3, <1>4, EditStep
  <1>7. /\ past' \in PastType /\ past'.key = past.key /\ past'.unknown = past.unknown
        /\ past'.asked = past.asked /\ past'.strayed = past.strayed
        /\ past'.reset = (past.reset \/ lost)
    BY <1>2, <1>4, <1>5 DEF PastType
  <1>8. TypeOK'
    BY <1>4, <1>6, <1>7 DEF TypeOK
  <1>9. FormKept'
    BY <1>3, <1>4, <1>5, <1>6, <1>7 DEF FormKept, Excused
  <1>10. QED
    BY <1>6, <1>8, <1>9

\* A choice that leaves protocol, keys and unknown fields.
LEMMA SmallChoice ==
  ASSUME TypeOK, FormKept, NEW inbound \in Inbound, Edit(inbound), past' = past,
         Normal(inbound), inbound.stream.key = form.inbound.stream.key,
         inbound.stream.raw = form.inbound.stream.raw,
         \/ UNCHANGED requests
         \/ RequestKeys /\ form.inbound.stream.key = 0
  PROVE  TypeOK' /\ FormKept' /\ UNCHANGED <<stored, page, post>>
PROOF
  <1>1. /\ shown /\ UNCHANGED <<stored, page, shown, loading, post, keys>>
        /\ moves' \in 0..MaxMoves
        /\ form' \in [id : Ids \cup {0}, inbound : Inbound] /\ form'.inbound = inbound
    BY EditStep
  <1>2. /\ requests' \in [own : 0..MaxRequests, earlier : 0..MaxRequests]
        /\ requests'.own + requests'.earlier <= MaxRequests
    BY RequestStep DEF TypeOK
  <1>3. TypeOK'
    BY <1>1, <1>2 DEF TypeOK
  <1>4. FormKept'
    BY <1>1 DEF FormKept, Excused
  <1>5. QED
    BY <1>1, <1>3, <1>4

\* The choices of the transport tab.
LEMMA TransportStep ==
  ASSUME TypeOK, FormKept, ChooseNetwork \/ ChooseSecurity \/ ChooseAlpn
  PROVE  TypeOK' /\ FormKept' /\ UNCHANGED <<stored, page, post>>
PROOF
  <1>1. form.inbound \in Inbound /\ form.inbound.protocol # "hysteria"
    BY DEF TypeOK, ChooseNetwork, ChooseSecurity, ChooseAlpn
  <1>2. CASE ChooseNetwork
    <2>1. PICK network \in Networks : Edit(SetNetwork(form.inbound, network))
      BY <1>2 DEF ChooseNetwork, OfferedNetworks
    <2> DEFINE inbound == SetNetwork(form.inbound, network)
    <2>2. /\ inbound \in Inbound /\ inbound.protocol = form.inbound.protocol
          /\ inbound.stream.key = form.inbound.stream.key
          /\ inbound.stream.raw = form.inbound.stream.raw
      BY <1>1, ChoicesTyped
    <2>3. Edit(inbound) /\ UNCHANGED <<requests, past>>
      BY <1>2, <2>1 DEF ChooseNetwork
    <2> HIDE DEF inbound
    <2>4. Normal(inbound)
      BY <1>1, <2>2 DEF Normal
    <2>5. QED
      BY <2>2, <2>3, <2>4, SmallChoice
  <1>3. CASE ChooseSecurity
    <2>1. PICK security \in OfferedSecurities(form.inbound) :
             /\ Edit([form.inbound EXCEPT !.stream.security = security])
             /\ IF security = "reality" /\ form.inbound.stream.key = 0
                THEN RequestKeys ELSE UNCHANGED requests
      BY <1>3 DEF ChooseSecurity
    <2> DEFINE inbound == [form.inbound EXCEPT !.stream.security = security]
    <2>2. security \in {"none", "tls", "reality"}
      BY DEF OfferedSecurities
    <2>3. /\ inbound \in Inbound /\ inbound.protocol = form.inbound.protocol
          /\ inbound.stream.key = form.inbound.stream.key
          /\ inbound.stream.raw = form.inbound.stream.raw
      BY <1>1, <2>2 DEF Inbound, Stream
    <2>4. Edit(inbound) /\ past' = past
      BY <1>3, <2>1 DEF ChooseSecurity
    <2> HIDE DEF inbound
    <2>5. Normal(inbound)
      BY <1>1, <2>3 DEF Normal
    <2>6. QED
      BY <2>1, <2>3, <2>4, <2>5, SmallChoice
  <1>4. CASE ChooseAlpn
    <2>1. PICK alpn \in {"h2", "h3"} : Edit([form.inbound EXCEPT !.stream.alpn = alpn])
      BY <1>4 DEF ChooseAlpn
    <2> DEFINE inbound == [form.inbound EXCEPT !.stream.alpn = alpn]
    <2>2. /\ inbound \in Inbound /\ inbound.protocol = form.inbound.protocol
          /\ inbound.stream.key = form.inbound.stream.key
          /\ inbound.stream.raw = form.inbound.stream.raw
      BY <1>1 DEF Inbound, Stream
    <2>3. Edit(inbound) /\ UNCHANGED <<requests, past>>
      BY <1>4, <2>1 DEF ChooseAlpn
    <2> HIDE DEF inbound
    <2>4. Normal(inbound)
      BY <1>1, <2>2 DEF Normal
    <2>5. QED
      BY <2>2, <2>3, <2>4, SmallChoice
  <1>5. QED
    BY <1>2, <1>3, <1>4

\* Typing leaves all but the value that is typed.
LEMMA Typed ==
  ASSUME form.inbound \in Inbound, TypeSettings \/ TypeTarget \/ TypeIdle
  PROVE  \E inbound \in Inbound :
            /\ Edit(inbound) /\ UNCHANGED <<requests, past>>
            /\ inbound.protocol = form.inbound.protocol
            /\ inbound.stream.key = form.inbound.stream.key
            /\ inbound.stream.raw = form.inbound.stream.raw
            /\ inbound.stream.network = form.inbound.stream.network
            /\ inbound.stream.security = form.inbound.stream.security
            /\ inbound.stream.alpn = form.inbound.stream.alpn
PROOF
  <1>1. CASE TypeSettings
    <2>1. PICK v \in FormValue : /\ Edit([form.inbound EXCEPT !.settings = v])
                                /\ UNCHANGED <<requests, past>>
      BY <1>1 DEF TypeSettings
    <2> DEFINE inbound == [form.inbound EXCEPT !.settings = v]
    <2>2. inbound \in Inbound /\ inbound.protocol = form.inbound.protocol
             /\ inbound.stream = form.inbound.stream
      BY DEF Inbound
    <2>3. QED
      BY <2>1, <2>2
  <1>2. CASE TypeTarget
    <2> DEFINE inbound == [form.inbound EXCEPT
                              !.stream.target = ~form.inbound.stream.target]
    <2>1. Edit(inbound) /\ UNCHANGED <<requests, past>>
      BY <1>2 DEF TypeTarget
    <2>2. /\ inbound \in Inbound /\ inbound.protocol = form.inbound.protocol
          /\ inbound.stream.key = form.inbound.stream.key
          /\ inbound.stream.raw = form.inbound.stream.raw
          /\ inbound.stream.network = form.inbound.stream.network
          /\ inbound.stream.security = form.inbound.stream.security
          /\ inbound.stream.alpn = form.inbound.stream.alpn
      BY DEF Inbound, Stream
    <2>3. QED
      BY <2>1, <2>2
  <1>3. CASE TypeIdle
    <2>1. PICK v \in FormValue : /\ Edit([form.inbound EXCEPT !.stream.idle = v])
                                /\ UNCHANGED <<requests, past>>
      BY <1>3 DEF TypeIdle
    <2> DEFINE inbound == [form.inbound EXCEPT !.stream.idle = v]
    <2>2. /\ inbound \in Inbound /\ inbound.protocol = form.inbound.protocol
          /\ inbound.stream.key = form.inbound.stream.key
          /\ inbound.stream.raw = form.inbound.stream.raw
          /\ inbound.stream.network = form.inbound.stream.network
          /\ inbound.stream.security = form.inbound.stream.security
          /\ inbound.stream.alpn = form.inbound.stream.alpn
      BY DEF Inbound, Stream
    <2>3. QED
      BY <2>1, <2>2
  <1>4. QED
    BY <1>1, <1>2, <1>3

\* What is typed into the form.
LEMMA TypingStep ==
  ASSUME TypeOK, FormKept, TypeSettings \/ TypeTarget \/ TypeIdle
  PROVE  TypeOK' /\ FormKept' /\ UNCHANGED <<stored, page, post>>
PROOF
  <1>1. form.inbound \in Inbound /\ Normal(form.inbound)
    BY DEF TypeOK, FormKept
  <1>2. PICK inbound \in Inbound :
           /\ Edit(inbound) /\ UNCHANGED <<requests, past>>
           /\ inbound.protocol = form.inbound.protocol
           /\ inbound.stream.key = form.inbound.stream.key
           /\ inbound.stream.raw = form.inbound.stream.raw
           /\ inbound.stream.network = form.inbound.stream.network
           /\ inbound.stream.security = form.inbound.stream.security
           /\ inbound.stream.alpn = form.inbound.stream.alpn
    BY <1>1, Typed
  <1>3. Normal(inbound)
    BY <1>1, <1>2 DEF Normal
  <1>4. QED
    BY <1>2, <1>3, SmallChoice

\* The button marks the form.
LEMMA GenerateStep ==
  ASSUME TypeOK, FormKept, GenerateRealityKeyPair
  PROVE  TypeOK' /\ FormKept' /\ UNCHANGED <<stored, page, post>>
PROOF
  <1>1. /\ form.inbound \in Inbound /\ Edit(form.inbound) /\ RequestKeys
        /\ past' = [past EXCEPT !.asked = TRUE] /\ past \in PastType
    BY DEF TypeOK, GenerateRealityKeyPair
  <1>2. /\ past' \in PastType /\ past'.key = past.key /\ past'.unknown = past.unknown
        /\ past'.asked /\ past'.reset = past.reset
    BY <1>1 DEF PastType
  <1>3. /\ shown /\ UNCHANGED <<stored, page, shown, loading, post, keys>>
        /\ moves' \in 0..MaxMoves
        /\ form' \in [id : Ids \cup {0}, inbound : Inbound]
        /\ form'.inbound = form.inbound
    BY <1>1, EditStep
  <1>4. TypeOK'
    BY <1>1, <1>2, <1>3, RequestStep DEF TypeOK
  <1>5. FormKept'
    BY <1>2, <1>3 DEF FormKept, Excused
  <1>6. QED
    BY <1>3, <1>4, <1>5

\* Keys that arrive were asked for in this form, strayed into it, or find none.
LEMMA KeysStep ==
  ASSUME TypeOK, FormKept, KeysArrive \/ KeysFail
  PROVE  TypeOK' /\ FormKept' /\ UNCHANGED <<stored, page, post>>
PROOF
  <1>1. PICK origin \in {"own", "earlier"} :
           /\ requests[origin] > 0
           /\ requests' = [requests EXCEPT ![origin] = requests[origin] - 1]
           /\ \/ /\ shown /\ keys < MaxKeys /\ keys' = keys + 1
                 /\ form' = [form EXCEPT !.inbound.stream.key = keys + 1]
                 /\ past' = [past EXCEPT !.strayed = past.strayed \/ origin = "earlier"]
              \/ UNCHANGED <<form, keys, past>>
           /\ UNCHANGED <<moves, stored, page, shown, loading, post>>
    BY DEF KeysArrive, KeysFail
  <1>2. /\ requests' \in [own : 0..MaxRequests, earlier : 0..MaxRequests]
        /\ requests'.own + requests'.earlier <= MaxRequests
        /\ requests'.own > 0 => requests.own > 0
        /\ origin = "own" => requests.own > 0
    BY <1>1, EditorAssumption DEF TypeOK
  <1>3. CASE UNCHANGED <<form, keys, past>>
    BY <1>1, <1>2, <1>3 DEF TypeOK, FormKept, Excused
  <1>4. CASE /\ shown /\ keys < MaxKeys /\ keys' = keys + 1
             /\ form' = [form EXCEPT !.inbound.stream.key = keys + 1]
             /\ past' = [past EXCEPT !.strayed = past.strayed \/ origin = "earlier"]
    <2>1. /\ form.inbound \in Inbound /\ past \in PastType
          /\ keys' \in 1..MaxKeys /\ keys + 1 \in 0..MaxKeys
      BY <1>4, EditorAssumption DEF TypeOK
    <2> DEFINE inbound == [form.inbound EXCEPT !.stream.key = keys + 1]
    <2>2. /\ inbound \in Inbound /\ inbound.protocol = form.inbound.protocol
          /\ inbound.stream.raw = form.inbound.stream.raw
          /\ inbound.stream.network = form.inbound.stream.network
          /\ inbound.stream.security = form.inbound.stream.security
          /\ inbound.stream.alpn = form.inbound.stream.alpn
      BY <2>1 DEF Inbound, Stream
    <2>3. form' = [form EXCEPT !.inbound = inbound]
      BY <1>4
    <2> HIDE DEF inbound
    <2>4. /\ form' \in [id : Ids \cup {0}, inbound : Inbound]
          /\ form'.inbound = inbound
      BY <2>2, <2>3 DEF TypeOK
    <2>5. /\ past' \in PastType /\ past'.key = past.key /\ past'.unknown = past.unknown
          /\ past'.asked = past.asked /\ past'.reset = past.reset
          /\ past'.strayed = (past.strayed \/ origin = "earlier")
      BY <1>4, <2>1 DEF PastType
    <2>6. TypeOK'
      BY <1>1, <1>2, <2>1, <2>4, <2>5 DEF TypeOK
    <2>7. FormKept'
      BY <1>2, <2>2, <2>4, <2>5 DEF FormKept, Excused, Normal
    <2>8. QED
      BY <1>1, <2>6, <2>7
  <1>5. QED
    BY <1>1, <1>3, <1>4

-----------------------------------------------------------------------------
(* Submissions *)

\* What one submission promises: of every form but the switch, that it is
\* refused for values alone and reads back; of every one, that it has the keys.
Sound(record) ==
    record.phase = "posted" =>
        /\ IF record.by = "switch"
           THEN Validate(record.row) \/ record.row \in Older
           ELSE /\ Complete(record.row)
                /\ Validate(record.row) <=> ~Blamed(record.inbound)
        /\ record.by # "switch" /\ CanEnableStream(record.inbound) =>
              LET sent == record.inbound
                  json == record.row.json
                  back == InboundFromJson(record.row)
              IN  /\ back.stream.network = sent.stream.network
                  /\ back.stream.security = sent.stream.security
                  /\ sent.stream.security = "tls" => back.stream.alpn = sent.stream.alpn
                  /\ sent.stream.security = "reality" =>
                        /\ back.stream.key = sent.stream.key
                        /\ back.stream.target = sent.stream.target
                  /\ json.sections = {sent.stream.network}
                         \cup ({sent.stream.security} \cap {"tls", "reality"})
                  /\ \/ record.past.unknown \cap (json.sections \cup {"stream"})
                            \subseteq json.unknown
                     \/ record.past.reset
        /\ record.row.json.security = "reality" =>
              \/ record.past.key \in {0, record.row.json.key}
              \/ record.past.asked \/ record.past.strayed \/ record.past.reset

\* The three invariants of submissions say that each is sound.
LEMMA AllSound ==
  /\ (\A p \in Posts : Sound(post[p])) <=>
        RefusedForValues /\ SubmissionsReadBack /\ KeysChangeOnRequest
  /\ (\A p \in Posts : Sound(post'[p])) <=>
        (RefusedForValues /\ SubmissionsReadBack /\ KeysChangeOnRequest)'
PROOF
  BY DEF Sound, RefusedForValues, SubmissionsReadBack, KeysChangeOnRequest

\* A submission of a form or of the row's menu, which serialize the inbound.
LEMMA SerializedSound ==
  ASSUME NEW inbound \in Inbound, Normal(inbound), NEW record,
         record.inbound = inbound, record.row = Wire(inbound), record.by # "switch",
         record.past.reset \/ record.past.unknown \subseteq inbound.stream.raw.unknown,
         \/ record.past.key \in {0, inbound.stream.key}
         \/ record.past.asked \/ record.past.strayed \/ record.past.reset
  PROVE  Sound(record)
PROOF
  <1>1. /\ Complete(Wire(inbound))
        /\ Validate(Wire(inbound)) <=> ~Blamed(inbound)
        /\ Wire(inbound).json.security = "reality" =>
              Wire(inbound).json.key = inbound.stream.key
    BY WireValid
  <1>2. CanEnableStream(inbound) =>
           LET json == Wire(inbound).json
               back == InboundFromJson(Wire(inbound))
           IN  /\ back.stream.network = inbound.stream.network
               /\ back.stream.security = inbound.stream.security
               /\ inbound.stream.security = "tls" => back.stream.alpn = inbound.stream.alpn
               /\ inbound.stream.security = "reality" =>
                     /\ back.stream.key = inbound.stream.key
                     /\ back.stream.target = inbound.stream.target
               /\ json.sections = {inbound.stream.network}
                      \cup ({inbound.stream.security} \cap {"tls", "reality"})
               /\ inbound.stream.raw.unknown \cap (json.sections \cup {"stream"})
                      \subseteq json.unknown
    BY WireBack
  <1>3. QED
    BY <1>1, <1>2 DEF Sound

\* The types of a submission.
LEMMA SubmitTyped ==
  ASSUME TypeOK, NEW p \in Posts, NEW id \in Ids \cup {0}, NEW inbound \in Inbound,
         NEW by \in {"form", "menu", "switch"}, NEW row \in Rows, NEW history \in PastType,
         Submit(p, id, inbound, by, row, history)
  PROVE  /\ TypeOK' /\ UNCHANGED <<stored, page, form, past, requests>>
         /\ post' = [post EXCEPT ![p] =
                        [phase |-> "posted", id |-> id, by |-> by,
                         inbound |-> inbound, row |-> row, past |-> history]]
PROOF
  <1> DEFINE record == [phase |-> "posted", id |-> id, by |-> by,
                        inbound |-> inbound, row |-> row, past |-> history]
  <1>1. record \in PostType
    BY DEF PostType
  <1>2. /\ post' = [post EXCEPT ![p] = record] /\ loading' \in BOOLEAN
        /\ UNCHANGED <<moves, stored, page, shown, form, requests, keys, past>>
    BY DEF TypeOK, Submit
  <1> HIDE DEF record
  <1>3. TypeOK'
    BY <1>1, <1>2 DEF TypeOK
  <1>4. QED
    BY <1>2, <1>3 DEF record

\* One submission more.
LEMMA SoundMore ==
  ASSUME TypeOK, \A q \in Posts : Sound(post[q]), NEW p \in Posts, NEW record, Sound(record),
         post' = [post EXCEPT ![p] = record]
  PROVE  \A q \in Posts : Sound(post'[q])
PROOF
  BY DEF TypeOK

\* The OK button submits the form, which has kept what it was opened with.
LEMMA OkStep ==
  ASSUME EditorInv, NEW p \in Posts, Ok(p)
  PROVE  EditorInv'
PROOF
  <1>1. /\ form.inbound \in Inbound /\ Normal(form.inbound) /\ past \in PastType
        /\ form.id \in Ids \cup {0}
    BY DEF EditorInv, TypeOK, FormKept
  <1>2. Wire(form.inbound) \in Rows
    BY <1>1, WireValid DEF Rows
  <1>3. Submit(p, form.id, form.inbound, "form", Wire(form.inbound), past)
    BY DEF Ok
  <1> DEFINE record == [phase |-> "posted", id |-> form.id, by |-> "form",
                        inbound |-> form.inbound, row |-> Wire(form.inbound),
                        past |-> past]
  <1>4. /\ TypeOK' /\ UNCHANGED <<stored, page, form, past, requests>>
        /\ post' = [post EXCEPT ![p] = record]
    BY <1>1, <1>2, <1>3, SubmitTyped DEF EditorInv
  <1>5. Sound(record)
    <2>1. /\ record.inbound = form.inbound /\ record.row = Wire(form.inbound)
          /\ record.past = past /\ record.by = "form"
      OBVIOUS
    <2> HIDE DEF record
    <2>2. QED
      BY <1>1, <2>1, SerializedSound DEF EditorInv, FormKept, Excused
  <1> HIDE DEF record
  <1>6. \A q \in Posts : Sound(post'[q])
    BY <1>4, <1>5, SoundMore, AllSound DEF EditorInv
  <1>7. RowsValid' /\ FormKept'
    BY <1>4 DEF EditorInv, RowsValid, FormKept, Excused
  <1>8. QED
    BY <1>4, <1>6, <1>7, AllSound DEF EditorInv

\* The reset of the row's menu and the row's switch submit a listed inbound.
LEMMA MenuStep ==
  ASSUME EditorInv, NEW p \in Posts, ResetTraffic(p) \/ SwitchEnable(p)
  PROVE  EditorInv'
PROOF
  <1>1. PICK id \in Ids, by \in {"menu", "switch"} :
           LET row     == page[id]
               inbound == InboundFromJson(row)
           IN  /\ row # Absent
               /\ Submit(p, id, inbound, by, IF by = "menu" THEN Wire(inbound) ELSE row,
                         [NoPast EXCEPT !.key = inbound.stream.key,
                                        !.unknown = row.json.unknown])
    BY DEF ResetTraffic, SwitchEnable
  <1> DEFINE row == page[id]
             inbound == InboundFromJson(row)
             sent == IF by = "menu" THEN Wire(inbound) ELSE row
             history == [NoPast EXCEPT !.key = inbound.stream.key,
                                       !.unknown = row.json.unknown]
             record == [phase |-> "posted", id |-> id, by |-> by,
                        inbound |-> inbound, row |-> sent, past |-> history]
  <1>2. Submit(p, id, inbound, by, sent, history)
    BY <1>1
  <1>3. row \in Rows /\ row # Absent /\ (Validate(row) \/ row \in Older)
    BY <1>1 DEF EditorInv, TypeOK, RowsValid
  <1>4. row \in Row /\ row.json \in Json
    BY <1>3, RowTyped
  <1>5. /\ inbound \in Inbound /\ Normal(inbound) /\ inbound.protocol = row.protocol
        /\ inbound.stream.key = FromJson(row.json).key
        /\ inbound.stream.raw.unknown = row.json.unknown
    BY <1>4, InboundFromJsonTyped
  <1>6. sent \in Rows
    BY <1>3, <1>5, WireValid DEF Rows
  <1>7. /\ history \in PastType /\ history.key = inbound.stream.key
        /\ history.unknown = row.json.unknown
    <2>1. inbound.stream.key \in 0..MaxKeys /\ row.json.unknown \in SUBSET Objects
      BY <1>4, <1>5 DEF Inbound, Stream, Json
    <2> HIDE DEF inbound, row
    <2>2. QED
      BY <2>1 DEF NoPast, PastType
  <1>8. /\ record.phase = "posted" /\ record.by = by /\ record.inbound = inbound
        /\ record.row = sent /\ record.past = history
    OBVIOUS
  <1>9. sent = IF by = "menu" THEN Wire(inbound) ELSE row
    OBVIOUS
  <1> HIDE DEF row, inbound, sent, history
  <1>10. /\ TypeOK' /\ UNCHANGED <<stored, page, form, past, requests>>
         /\ post' = [post EXCEPT ![p] = record]
    BY <1>2, <1>5, <1>6, <1>7, SubmitTyped DEF EditorInv
  <1> HIDE DEF record
  <1>11. Sound(record)
    <2>1. CASE by = "menu"
      BY <1>5, <1>7, <1>8, <1>9, <2>1, SerializedSound
    <2>2. CASE by = "switch"
      <3>1. record.row = row
        BY <1>8, <1>9, <2>2
      <3>2. history.key \in {0, row.json.key}
        BY <1>4, <1>5, <1>7, FromJsonTyped
      <3>3. QED
        BY <1>3, <1>8, <2>2, <3>1, <3>2 DEF Sound
    <2>3. QED
      BY <2>1, <2>2
  <1>12. \A q \in Posts : Sound(post'[q])
    BY <1>10, <1>11, SoundMore, AllSound DEF EditorInv
  <1>13. RowsValid' /\ FormKept'
    BY <1>10 DEF EditorInv, RowsValid, FormKept, Excused
  <1>14. QED
    BY <1>10, <1>12, <1>13, AllSound DEF EditorInv

\* The server stores what passes its checks.
LEMMA ServerStoresStep ==
  ASSUME EditorInv, NEW p \in Posts, ServerStores(p)
  PROVE  EditorInv'
PROOF
  <1> DEFINE row == post[p].row
  <1>1. PICK id \in Ids : stored' = [stored EXCEPT ![id] = row]
    BY DEF ServerStores
  <1>2. /\ Validate(row)
        /\ post' = [post EXCEPT ![p] = [post[p] EXCEPT !.phase = "stored"]]
        /\ UNCHANGED <<moves, page, shown, loading, form, requests, keys, past>>
    BY DEF ServerStores
  <1>3. row \in Rows
    BY DEF EditorInv, TypeOK, PostType
  <1>4. [post[p] EXCEPT !.phase = "stored"] \in PostType /\ post[p] \in PostType
    BY DEF EditorInv, TypeOK, PostType
  <1> HIDE DEF row
  <1>5. TypeOK'
    BY <1>1, <1>2, <1>3, <1>4 DEF EditorInv, TypeOK
  <1>6. RowsValid' /\ FormKept'
    BY <1>1, <1>2 DEF EditorInv, TypeOK, RowsValid, FormKept, Excused
  <1>7. Sound([post[p] EXCEPT !.phase = "stored"])
    BY <1>4 DEF Sound, PostType
  <1>8. \A q \in Posts : Sound(post'[q])
    BY <1>2, <1>7, SoundMore, AllSound DEF EditorInv
  <1>9. QED
    BY <1>5, <1>6, <1>8, AllSound DEF EditorInv

\* A refusal ends a submission, and so does its answer.
LEMMA EndStep ==
  ASSUME EditorInv, NEW p \in Posts, Refused(p) \/ Answer(p)
  PROVE  EditorInv'
PROOF
  <1>1. PICK phase \in {"rejected", "list"} :
           /\ post' = [post EXCEPT ![p] = [post[p] EXCEPT !.phase = phase]]
           /\ UNCHANGED <<moves, stored, page, requests, keys>>
           /\ \/ UNCHANGED <<shown, form, past, loading>>
              \/ Hide /\ loading' = FALSE
    BY DEF Refused, Answer
  <1>2. [post[p] EXCEPT !.phase = phase] \in PostType /\ post[p] \in PostType
    BY DEF EditorInv, TypeOK, PostType
  <1>3. /\ form' \in [id : Ids \cup {0}, inbound : Inbound] /\ past' \in PastType
        /\ shown' \in BOOLEAN /\ loading' \in BOOLEAN /\ FormKept'
    BY <1>1, HideStep DEF EditorInv, TypeOK, FormKept, Excused
  <1>4. TypeOK'
    BY <1>1, <1>2, <1>3 DEF EditorInv, TypeOK
  <1>5. RowsValid'
    BY <1>1 DEF EditorInv, RowsValid
  <1>6. Sound([post[p] EXCEPT !.phase = phase])
    BY <1>2 DEF Sound, PostType
  <1>7. \A q \in Posts : Sound(post'[q])
    BY <1>1, <1>6, SoundMore, AllSound DEF EditorInv
  <1>8. QED
    BY <1>3, <1>4, <1>5, <1>7, AllSound DEF EditorInv

\* The page lists what is stored; the form closes.
LEMMA CloseStep ==
  ASSUME EditorInv, NEW p \in Posts, Close(p)
  PROVE  EditorInv'
PROOF
  <1>1. /\ post' = [post EXCEPT ![p] = Idle]
        /\ UNCHANGED <<moves, stored, requests, keys>>
        /\ page' = stored \/ page' = page
        /\ \/ UNCHANGED <<shown, form, past>>
           \/ Hide
        /\ loading' \in BOOLEAN
    BY DEF EditorInv, TypeOK, Close
  <1>2. Idle \in PostType
    BY NoFormTyped DEF Idle, PostType, Rows
  <1>3. /\ form' \in [id : Ids \cup {0}, inbound : Inbound] /\ past' \in PastType
        /\ shown' \in BOOLEAN /\ FormKept'
    BY <1>1, HideStep DEF EditorInv, TypeOK, FormKept, Excused
  <1>4. TypeOK'
    BY <1>1, <1>2, <1>3 DEF EditorInv, TypeOK
  <1>5. RowsValid'
    BY <1>1 DEF EditorInv, RowsValid
  <1>6. Sound(Idle)
    BY DEF Sound, Idle
  <1>7. \A q \in Posts : Sound(post'[q])
    BY <1>1, <1>6, SoundMore, AllSound DEF EditorInv
  <1>8. QED
    BY <1>3, <1>4, <1>5, <1>7, AllSound DEF EditorInv

\* The page is loaded with inbounds of an older panel.
LEMMA InitInv == Init => EditorInv
PROOF
  <1> SUFFICES ASSUME Init PROVE EditorInv
    OBVIOUS
  <1>1. \A id \in Ids : /\ stored[id] \in Rows /\ page[id] = stored[id]
                        /\ stored[id] = Absent \/ stored[id] \in Older
    BY OlderAssumption DEF Init, Rows
  <1>2. stored \in [Ids -> Rows] /\ page \in [Ids -> Rows]
    BY <1>1 DEF Init
  <1>3. RowsValid
    BY <1>1 DEF RowsValid
  <1>4. Idle \in PostType
    BY NoFormTyped DEF Idle, PostType, Rows
  <1>5. /\ requests \in [own : 0..MaxRequests, earlier : 0..MaxRequests]
        /\ requests.own + requests.earlier <= MaxRequests /\ requests.own = 0
        /\ keys \in 1..MaxKeys /\ moves \in 0..MaxMoves
    BY EditorAssumption DEF Init
  <1>6. TypeOK
    BY <1>2, <1>4, <1>5, NoFormTyped DEF Init, TypeOK
  <1>7. FormKept
    <2>1. past.unknown = {} /\ past.key = 0
      BY DEF Init, NoPast
    <2>2. QED
      BY <1>5, <2>1, NoFormTyped DEF Init, FormKept
  <1>8. \A p \in Posts : Sound(post[p])
    BY DEF Init, Idle, Sound
  <1>9. QED
    BY <1>3, <1>6, <1>7, <1>8, AllSound DEF EditorInv

\* The steps of the form leave rows and submissions alone.
LEMMA FormStep ==
  ASSUME EditorInv, TypeOK', FormKept', UNCHANGED <<stored, page, post>>
  PROVE  EditorInv'
PROOF
  <1>1. RowsValid'
    BY DEF EditorInv, RowsValid
  <1>2. \A p \in Posts : Sound(post'[p])
    BY AllSound DEF EditorInv
  <1>3. QED
    BY <1>1, <1>2, AllSound DEF EditorInv

\* Every step keeps the invariant.
LEMMA InvStep ==
  ASSUME EditorInv, [Next]_vars
  PROVE  EditorInv'
PROOF
  <1> USE DEF EditorInv
  <1>1. CASE OpenAddInbound
    <2>1. NewInbound("vmess") \in Inbound /\ Normal(NewInbound("vmess"))
      BY NewInboundTyped, EditorAssumption
    <2>2. Show(0, NewInbound("vmess"))
      BY <1>1 DEF OpenAddInbound
    <2>3. QED
      BY <2>1, <2>2, ShowStep, FormStep
  <1>2. CASE OpenEditInbound
    <2>1. PICK id \in Ids :
             /\ page[id] # Absent
             /\ Show(id, InboundFromJson(InboundToJson(InboundFromJson(page[id]))))
      BY <1>2 DEF OpenEditInbound
    <2> DEFINE row == page[id]
               inbound == InboundFromJson(InboundToJson(InboundFromJson(row)))
    <2>2. row \in Rows /\ row # Absent /\ Show(id, inbound)
      BY <2>1 DEF TypeOK
    <2> HIDE DEF row
    <2>3. inbound \in Inbound /\ Normal(inbound)
      BY <2>2, OpenedTyped
    <2> HIDE DEF inbound
    <2>4. QED
      BY <2>2, <2>3, ShowStep, FormStep
  <1>3. CASE Cancel
    <2>1. Hide /\ UNCHANGED <<moves, stored, page, loading, requests, post, keys>>
      BY <1>3 DEF Cancel
    <2>2. /\ form' \in [id : Ids \cup {0}, inbound : Inbound] /\ past' \in PastType
          /\ shown' \in BOOLEAN /\ FormKept'
      BY <2>1, HideStep
    <2>3. TypeOK'
      BY <2>1, <2>2 DEF TypeOK
    <2>4. QED
      BY <2>1, <2>2, <2>3, FormStep
  <1>4. CASE ChooseProtocol
    BY <1>4, ChooseProtocolStep, FormStep
  <1>5. CASE ChooseNetwork \/ ChooseSecurity \/ ChooseAlpn
    BY <1>5, TransportStep, FormStep
  <1>6. CASE GenerateRealityKeyPair
    BY <1>6, GenerateStep, FormStep
  <1>6a. CASE TypeSettings \/ TypeTarget \/ TypeIdle
    BY <1>6a, TypingStep, FormStep
  <1>7. CASE KeysArrive \/ KeysFail
    BY <1>7, KeysStep, FormStep
  <1>8. ASSUME NEW p \in Posts, Ok(p) PROVE EditorInv'
    BY <1>8, OkStep
  <1>9. ASSUME NEW p \in Posts, ResetTraffic(p) \/ SwitchEnable(p) PROVE EditorInv'
    BY <1>9, MenuStep
  <1>10. ASSUME NEW p \in Posts, ServerStores(p) PROVE EditorInv'
    BY <1>10, ServerStoresStep
  <1>11. ASSUME NEW p \in Posts, Refused(p) \/ Answer(p) PROVE EditorInv'
    BY <1>11, EndStep
  <1>12. ASSUME NEW p \in Posts, Close(p) PROVE EditorInv'
    BY <1>12, CloseStep
  <1>13. CASE UNCHANGED vars
    <2>1. TypeOK' /\ FormKept'
      BY <1>13 DEF vars, TypeOK, FormKept, Excused
    <2>2. QED
      BY <1>13, <2>1, FormStep DEF vars
  <1>14. QED
    BY <1>1, <1>2, <1>3, <1>4, <1>5, <1>6, <1>6a, <1>7, <1>8, <1>9, <1>10, <1>11, <1>12,
       <1>13 DEF Next

-----------------------------------------------------------------------------
(* Choices *)

\* The select of the protocol turns a pair the form offers into one that it
\* offers, unless Trojan is chosen.
LEMMA ProtocolSelectable ==
  ASSUME NEW inbound \in Inbound, Selectable(inbound), NEW p \in Protocols, p # "trojan"
  PROVE  Selectable(SetProtocol(inbound, p))
PROOF
  <1> DEFINE changed == [inbound EXCEPT !.protocol = p, !.settings = "right"]
             result == SetProtocol(inbound, p)
             network == inbound.stream.network
             security == inbound.stream.security
  <1>1. /\ changed \in Inbound /\ changed.protocol = p /\ changed.stream = inbound.stream
        /\ inbound.stream \in Stream
    BY InboundTyped DEF Inbound, FormValue
  <1>2. CASE p = "hysteria"
    <2>1. result = NormalizeProtocolStream(changed)
      BY <1>2 DEF SetProtocol
    <2> HIDE DEF changed, result
    <2>2. /\ result.protocol = "hysteria" /\ result.stream.network = "hysteria"
          /\ result.stream.security = "tls"
      BY <1>1, <1>2, <2>1, Normalized DEF Normal
    <2>3. CanEnableStream(result) /\ CanEnableTls(result)
      BY <2>2 DEF CanEnableStream, CanEnableTls
    <2>4. QED
      BY <2>2, <2>3 DEF Selectable, OfferedSecurities, result
  <1>3. CASE p # "hysteria" /\ network = "hysteria"
    <2>1. result = [changed EXCEPT !.stream = NewStream]
      BY <1>3 DEF SetProtocol
    <2>2. /\ result.protocol = p /\ result.stream.network = "tcp"
          /\ result.stream.security = "none"
      BY <1>1, <2>1, NewStreamTyped DEF Inbound
    <2> HIDE DEF result
    <2>3. QED
      BY <1>3, <2>2 DEF Selectable, OfferedSecurities, result
  <1>4. CASE p # "hysteria" /\ network # "hysteria"
    <2>1. /\ security \in {"none", "tls", "reality"} /\ inbound.protocol # "hysteria"
      BY <1>1, <1>4 DEF Selectable, OfferedSecurities
    <2>2. security = "tls" => network \in {"tcp", "ws", "http", "grpc", "httpupgrade", "xhttp"}
      BY <1>4, <2>1 DEF Selectable, OfferedSecurities, CanEnableStream, CanEnableTls,
                        CanEnableReality, Inbound
    <2>3. CASE security = "reality" /\ ~CanEnableReality(changed)
      <3>1. result = [changed EXCEPT !.stream.security = "none"]
        BY <1>4, <2>3 DEF SetProtocol
      <3> HIDE DEF changed, result
      <3>2. /\ result.protocol = p /\ result.stream.network = network
            /\ result.stream.security = "none"
        BY <1>1, <3>1 DEF Inbound, Stream
      <3>3. QED
        BY <1>4, <3>2 DEF Selectable, OfferedSecurities, result
    <2>4. CASE ~(security = "reality" /\ ~CanEnableReality(changed))
      <3>1. result = changed
        BY <1>4, <2>4 DEF SetProtocol
      <3>2. CASE security = "none"
        BY <1>1, <1>4, <3>1, <3>2 DEF Selectable, OfferedSecurities
      <3>3. CASE security = "reality"
        <4>1. CanEnableReality(changed) /\ CanEnableStream(changed)
          BY <2>4, <3>3 DEF CanEnableReality, CanEnableStream
        <4>2. QED
          BY <1>1, <1>4, <3>1, <3>3, <4>1 DEF Selectable, OfferedSecurities
      <3>4. CASE security = "tls"
        <4> DEFINE visible == IF CanEnableStream(changed) THEN changed
                              ELSE [changed EXCEPT !.protocol = "vmess"]
        <4>1. /\ visible.stream = inbound.stream
              /\ visible.protocol \in {"vmess", "vless", "shadowsocks", "trojan"}
          BY <1>1, <1>4 DEF CanEnableStream, Inbound
        <4> HIDE DEF visible
        <4>2. CanEnableTls(visible)
          BY <2>2, <3>4, <4>1 DEF CanEnableTls
        <4>3. changed.stream.security \in OfferedSecurities(visible)
          BY <1>1, <3>4, <4>2 DEF OfferedSecurities
        <4>4. QED
          BY <1>1, <1>4, <3>1, <4>3 DEF Selectable, visible
      <3>5. QED
        BY <2>1, <3>2, <3>3, <3>4
    <2>5. QED
      BY <2>3, <2>4
  <1>5. QED
    BY <1>2, <1>3, <1>4

\* So does the select of the transport.
LEMMA NetworkSelectable ==
  ASSUME NEW inbound \in Inbound, CanEnableStream(inbound), inbound.protocol # "hysteria",
         Selectable(inbound), NEW n \in Networks
  PROVE  Selectable(SetNetwork(inbound, n))
PROOF
  <1> DEFINE changed == [inbound EXCEPT !.stream.network = n]
             plain == [changed EXCEPT !.stream.security = "none"]
             result == SetNetwork(inbound, n)
  <1>1. /\ changed \in Inbound /\ changed.protocol = inbound.protocol
        /\ changed.stream.network = n
        /\ changed.stream.security = inbound.stream.security
        /\ plain.protocol = inbound.protocol /\ plain.stream.network = n
        /\ plain.stream.security = "none"
    BY Names DEF Inbound, Stream
  <1>2. n # "hysteria"
    BY Names
  <1>3. CanEnableStream(changed) /\ CanEnableStream(plain)
    BY <1>1 DEF CanEnableStream
  <1>4. \/ result = plain
        \/ /\ result = changed
           /\ changed.stream.security = "reality" => CanEnableReality(changed)
           /\ changed.stream.security = "tls" => CanEnableTls(changed)
    BY DEF SetNetwork
  <1>4a. inbound.stream.security \in {"none", "tls", "reality"}
    BY DEF Selectable, OfferedSecurities
  <1> HIDE DEF changed, plain, result
  <1>5. CASE result = plain
    BY <1>1, <1>2, <1>3, <1>5 DEF Selectable, OfferedSecurities, result
  <1>6. CASE /\ result = changed
             /\ changed.stream.security = "reality" => CanEnableReality(changed)
             /\ changed.stream.security = "tls" => CanEnableTls(changed)
    BY <1>1, <1>2, <1>3, <1>4a, <1>6 DEF Selectable, OfferedSecurities, result
  <1>7. QED
    BY <1>4, <1>5, <1>6

\* What is offered depends on the protocol and the transport alone.
LEMMA SameSelectable ==
  ASSUME NEW inbound \in Inbound, NEW other \in Inbound, other.protocol = inbound.protocol,
         other.stream.network = inbound.stream.network, Selectable(inbound),
         \/ other.stream.security = inbound.stream.security
         \/ CanEnableStream(inbound)
               /\ other.stream.security \in OfferedSecurities(inbound)
  PROVE  Selectable(other)
PROOF
  <1>1. /\ CanEnableStream(other) <=> CanEnableStream(inbound)
        /\ OfferedSecurities(other) = OfferedSecurities(inbound)
    BY DEF CanEnableStream, OfferedSecurities, CanEnableTls, CanEnableReality
  <1>2. OfferedSecurities([other EXCEPT !.protocol = "vmess"]) =
           OfferedSecurities([inbound EXCEPT !.protocol = "vmess"])
    BY DEF OfferedSecurities, CanEnableTls, CanEnableReality, Inbound
  <1>3. QED
    BY <1>1, <1>2 DEF Selectable

\* A step of an open form that loses a pair the form offers chose Trojan.
LEMMA TrojanStep ==
  ASSUME TypeOK, [Next]_vars, shown, shown', Selectable(form.inbound),
         ~Selectable(form'.inbound)
  PROVE  form.inbound.protocol # "trojan" /\ form'.inbound.protocol = "trojan"
PROOF
  <1>1. form.inbound \in Inbound
    BY DEF TypeOK
  <1>2. CASE ChooseProtocol
    <2>1. PICK p \in Protocols \ {form.inbound.protocol} : Edit(SetProtocol(form.inbound, p))
      BY <1>2 DEF ChooseProtocol
    <2>2. form'.inbound = SetProtocol(form.inbound, p)
      BY <1>1, <2>1, ChoicesTyped, EditStep
    <2>3. p = "trojan"
      BY <1>1, <2>2, ProtocolSelectable
    <2>4. QED
      BY <1>1, <2>1, <2>2, <2>3, ChoicesTyped
  <1>3. CASE ChooseNetwork
    <2>1. PICK n \in Networks : Edit(SetNetwork(form.inbound, n))
      BY <1>3 DEF ChooseNetwork, OfferedNetworks
    <2>2. form'.inbound = SetNetwork(form.inbound, n)
      BY <1>1, <2>1, ChoicesTyped, EditStep
    <2>3. Selectable(form'.inbound)
      BY <1>1, <1>3, <2>2, NetworkSelectable DEF ChooseNetwork
    <2>4. QED
      BY <2>3
  <1>4. CASE ChooseSecurity
    <2>1. PICK s \in OfferedSecurities(form.inbound) :
             Edit([form.inbound EXCEPT !.stream.security = s])
      BY <1>4 DEF ChooseSecurity
    <2> DEFINE inbound == [form.inbound EXCEPT !.stream.security = s]
    <2>2. s \in {"none", "tls", "reality"}
      BY DEF OfferedSecurities
    <2>3. /\ inbound \in Inbound /\ inbound.protocol = form.inbound.protocol
          /\ inbound.stream.network = form.inbound.stream.network
          /\ inbound.stream.security = s
      BY <1>1, <2>2 DEF Inbound, Stream
    <2>4. Edit(inbound) /\ CanEnableStream(form.inbound)
      BY <1>4, <2>1 DEF ChooseSecurity
    <2> HIDE DEF inbound
    <2>5. form'.inbound = inbound
      BY <2>3, <2>4, EditStep
    <2>6. Selectable(inbound)
      BY <1>1, <2>3, <2>4, SameSelectable
    <2>7. QED
      BY <2>5, <2>6
  <1>5. CASE ChooseAlpn
    <2>1. PICK alpn \in {"h2", "h3"} : Edit([form.inbound EXCEPT !.stream.alpn = alpn])
      BY <1>5 DEF ChooseAlpn
    <2> DEFINE inbound == [form.inbound EXCEPT !.stream.alpn = alpn]
    <2>2. /\ inbound \in Inbound /\ inbound.protocol = form.inbound.protocol
          /\ inbound.stream.network = form.inbound.stream.network
          /\ inbound.stream.security = form.inbound.stream.security
      BY <1>1 DEF Inbound, Stream
    <2> HIDE DEF inbound
    <2>3. form'.inbound = inbound
      BY <2>1, <2>2, EditStep DEF inbound
    <2>4. QED
      BY <1>1, <2>2, <2>3, SameSelectable
  <1>6. CASE GenerateRealityKeyPair
    BY <1>1, <1>6, EditStep DEF GenerateRealityKeyPair
  <1>6a. CASE TypeSettings \/ TypeTarget \/ TypeIdle
    <2>1. PICK inbound \in Inbound :
             /\ Edit(inbound) /\ inbound.protocol = form.inbound.protocol
             /\ inbound.stream.network = form.inbound.stream.network
             /\ inbound.stream.security = form.inbound.stream.security
      BY <1>1, <1>6a, Typed
    <2>2. form'.inbound = inbound
      BY <2>1, EditStep
    <2>3. QED
      BY <1>1, <2>1, <2>2, SameSelectable
  <1>7. CASE KeysArrive
    <2>1. \/ form' = form
          \/ keys < MaxKeys /\ form' = [form EXCEPT !.inbound.stream.key = keys + 1]
      BY <1>7 DEF KeysArrive
    <2>2. CASE keys < MaxKeys /\ form' = [form EXCEPT !.inbound.stream.key = keys + 1]
      <3> DEFINE inbound == [form.inbound EXCEPT !.stream.key = keys + 1]
      <3>1. keys + 1 \in 0..MaxKeys
        BY <2>2, EditorAssumption DEF TypeOK
      <3>2. /\ inbound \in Inbound /\ inbound.protocol = form.inbound.protocol
            /\ inbound.stream.network = form.inbound.stream.network
            /\ inbound.stream.security = form.inbound.stream.security
        BY <1>1, <3>1 DEF Inbound, Stream
      <3>3. form'.inbound = inbound
        BY <2>2 DEF TypeOK
      <3> HIDE DEF inbound
      <3>4. QED
        BY <1>1, <3>2, <3>3, SameSelectable
    <2>3. QED
      BY <2>1, <2>2
  <1>8. CASE OpenAddInbound \/ OpenEditInbound
    BY <1>8 DEF OpenAddInbound, OpenEditInbound, Show
  <1>9. CASE Cancel
    BY <1>9 DEF Cancel, Hide
  <1>10. CASE KeysFail
    BY <1>10 DEF KeysFail
  <1>11. ASSUME NEW p \in Posts, Ok(p) \/ ResetTraffic(p) \/ SwitchEnable(p)
         PROVE  FALSE
    BY <1>11 DEF Ok, ResetTraffic, SwitchEnable, Submit
  <1>12. ASSUME NEW p \in Posts, ServerStores(p) \/ Refused(p) PROVE FALSE
    BY <1>12 DEF ServerStores, Refused
  <1>13. ASSUME NEW p \in Posts, Answer(p) \/ Close(p) PROVE FALSE
    BY <1>13 DEF Answer, Close, Hide
  <1>14. CASE UNCHANGED vars
    BY <1>14 DEF vars
  <1>15. QED
    BY <1>2, <1>3, <1>4, <1>5, <1>6, <1>6a, <1>7, <1>8, <1>9, <1>10, <1>11, <1>12,
       <1>13,
       <1>14 DEF Next

-----------------------------------------------------------------------------
(* The theorems *)

\* The invariant holds of every reachable state.
LEMMA Inductive == Spec => []EditorInv
PROOF
  <1>1. EditorInv /\ [Next]_vars => EditorInv'
    BY InvStep
  <1>2. QED
    BY InitInv, <1>1, PTL DEF Spec

\* Every variable keeps its type: no choice makes a transport, a security or a
\* section that does not exist.
THEOREM TypeCorrect == Spec => []TypeOK
PROOF
  <1>1. EditorInv => TypeOK
    BY DEF EditorInv
  <1>2. QED
    BY <1>1, Inductive, PTL

\* Whatever was chosen, and whatever the form was opened on, the server refuses
\* what it submits for a value it holds and for nothing else.
THEOREM OnlyForValues == Spec => []RefusedForValues
PROOF
  <1>1. EditorInv => RefusedForValues
    BY DEF EditorInv
  <1>2. QED
    BY <1>1, Inductive, PTL

\* What a form submits reads back as what it showed.
THEOREM ReadBack == Spec => []SubmissionsReadBack
PROOF
  <1>1. EditorInv => SubmissionsReadBack
    BY DEF EditorInv
  <1>2. QED
    BY <1>1, Inductive, PTL

\* REALITY keys change only on request, by a stray answer or a fresh transport.
THEOREM KeysKept == Spec => []KeysChangeOnRequest
PROOF
  <1>1. EditorInv => KeysChangeOnRequest
    BY DEF EditorInv
  <1>2. QED
    BY <1>1, Inductive, PTL

\* Only the choice of Trojan leaves a pair that the form does not offer.
THEOREM TrojanForces == Spec => OnlyTrojanForces
PROOF
  <1>1. EditorInv /\ [Next]_vars =>
           [shown /\ shown' /\ Selectable(form.inbound) /\ ~Selectable(form'.inbound) =>
              /\ form.inbound.protocol # "trojan"
              /\ form'.inbound.protocol = "trojan"]_vars
    BY TrojanStep DEF EditorInv
  <1>2. QED
    BY <1>1, Inductive, PTL DEF Spec, OnlyTrojanForces
=============================================================================
