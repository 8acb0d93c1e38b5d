------------------------------ MODULE HttpText ------------------------------
(***************************************************************************)
(* The text algorithms of the HTTP client in src/src/uv_io.c: URLs, proxy   *)
(* selection, credentials, the room that JSON escaping and the request      *)
(* buffer need, the search for the end of a header.  Text is a sequence of  *)
(* one-character strings; where only lengths matter, a character is its     *)
(* class: "plain", "short" (a two-character escape) or "ctl" (\u00xx).      *)
(*                                                                         *)
(* The two decoders of src/src/uv_io.c for chunked bodies, at the level of  *)
(* bytes, fed with the same encoded body in reads of any size:              *)
(* process_chunked_body keeps the raw bytes and goes on from               *)
(* chunk_raw_consumed, stream_decode_chunked sees each read once.           *)
(* Bytes are "CR", "LF", hexadecimal digits, ";" and the data byte "x".     *)
(***************************************************************************)
EXTENDS Integers, Sequences, FiniteSets, SequencesExt

Bad == [ok |-> FALSE]

(* First position of a character of C in s[lo .. hi], hi + 1 if there is none. *)
FirstIn(s, lo, hi, C) ==
    IF \E i \in lo .. hi : s[i] \in C
    THEN CHOOSE i \in lo .. hi : s[i] \in C /\ \A j \in lo .. i - 1 : s[j] \notin C
    ELSE hi + 1

(* Last position, lo - 1 if there is none. *)
LastIn(s, lo, hi, C) ==
    IF \E i \in lo .. hi : s[i] \in C
    THEN CHOOSE i \in lo .. hi : s[i] \in C /\ \A j \in i + 1 .. hi : s[j] \notin C
    ELSE lo - 1

DecimalDigits == <<"0", "1", "2", "3", "4", "5", "6", "7", "8", "9">>
IsDecimal(c) == \E i \in 1 .. 10 : DecimalDigits[i] = c
MaxPort == 65535

(* Decimal value, all values above MaxPort being one. *)
Decimal(s) ==
    FoldLeft(LAMBDA v, c :
                 LET w == 10 * v + (CHOOSE i \in 1 .. 10 : DecimalDigits[i] = c) - 1
                 IN  IF w > MaxPort THEN MaxPort + 1 ELSE w, 0, s)

DefaultPort(tls) == IF tls THEN 443 ELSE 80

-----------------------------------------------------------------------------
(* uv_io_parse_url, from behind the scheme *)

Blank == {"CR", "LF", " ", "TAB"}

(* The port behind a colon: the default if it is empty. *)
PortOf(s, tls) ==
    IF s = << >> THEN DefaultPort(tls)
    ELSE IF \A i \in DOMAIN s : IsDecimal(s[i]) THEN Decimal(s) ELSE 0

(* host[:port] or [address][:port]; port 0 stands for an error. *)
HostAndPort(a, tls) ==
    IF Head(a) = "["
    THEN LET c == FirstIn(a, 2, Len(a), {"]"})
         IN  [host |-> SubSeq(a, 2, c - 1),
              port |-> IF c > Len(a) THEN 0
                       ELSE IF c = Len(a) THEN DefaultPort(tls)
                       ELSE IF a[c + 1] # ":" THEN 0
                       ELSE PortOf(SubSeq(a, c + 2, Len(a)), tls)]
    ELSE LET c == FirstIn(a, 1, Len(a), {":"})
         IN  [host |-> SubSeq(a, 1, c - 1),
              port |-> IF c > Len(a) THEN DefaultPort(tls)
                       ELSE PortOf(SubSeq(a, c + 1, Len(a)), tls)]

ParseUrl(s, tls) ==
    LET end == FirstIn(s, 1, Len(s), {"#"}) - 1
        authEnd == FirstIn(s, 1, end, {"/", "?"}) - 1
        hostStart == LastIn(s, 1, authEnd, {"@"}) + 1
        hp == HostAndPort(SubSeq(s, hostStart, authEnd), tls)
    IN  IF \/ \E i \in DOMAIN s : s[i] \in Blank
           \/ hostStart > authEnd
           \/ hp.port \notin 1 .. MaxPort \/ hp.host = << >>
        THEN Bad
        ELSE [ok |-> TRUE, host |-> hp.host, port |-> hp.port,
              path |-> IF authEnd = end THEN <<"/">>
                       ELSE IF s[authEnd + 1] = "/" THEN SubSeq(s, authEnd + 1, end)
                       ELSE <<"/">> \o SubSeq(s, authEnd + 1, end)]

(* Ports in decimal, for the few ports of the checks. *)
PortText(p) ==
    CASE p = 80 -> <<"8", "0">> [] p = 443 -> <<"4", "4", "3">>
      [] p = 8080 -> <<"8", "0", "8", "0">> [] OTHER -> <<"1">>

(* uv_io_http_authority *)
Authority(host, port, default) ==
    LET v6 == \E i \in DOMAIN host : host[i] = ":"
    IN  (IF v6 THEN <<"[">> \o host \o <<"]">> ELSE host)
        \o (IF port # default THEN <<":">> \o PortText(port) ELSE << >>)

(* uv_io_http_proxy_request_target, behind "http://" *)
ProxyRequestTarget(host, port, path) == Authority(host, port, 80) \o path

-----------------------------------------------------------------------------
(* The proxy *)

(* uv_io_no_proxy_entry_match *)
NoProxyEntryMatch(host, port, entry) ==
    LET colon == LastIn(entry, 1, Len(entry), {":"})
        digits == SubSeq(entry, colon + 1, Len(entry))
        hasPort == /\ colon >= 1 /\ digits # << >>
                   /\ \A i \in DOMAIN digits : IsDecimal(digits[i])
                   /\ Decimal(digits) \in 1 .. MaxPort
        name == IF hasPort THEN SubSeq(entry, 1, colon - 1) ELSE entry
        bare == IF Len(name) > 1 /\ Head(name) = "[" /\ Last(name) = "]"
                THEN SubSeq(name, 2, Len(name) - 1) ELSE name
        e == IF bare # << >> /\ Head(bare) = "." THEN Tail(bare) ELSE bare
        n == Len(host) - Len(e)
    IN  \/ entry = <<"*">>
        \/ /\ entry # << >> /\ bare # << >>
           /\ hasPort => port = Decimal(digits)
           /\ n >= 0 /\ SubSeq(host, n + 1, Len(host)) = e
           /\ n = 0 \/ host[n] = "."

(* uv_io_host_in_no_proxy, the list being cut at its commas and trimmed *)
HostInNoProxy(host, port, entries) ==
    \E i \in DOMAIN entries : NoProxyEntryMatch(host, port, entries[i])

(* uv_io_percent_decode: a text of characters and "%" with two hex digits. A    *)
(* decoded character is <<hi, lo>>, one that stood for itself <<c>>.            *)
HexDigits == {"0", "1", "2", "3", "4", "5", "6", "7", "8", "9", "a", "b"}

PercentDecode(s) ==
    LET escaped(i) == /\ s[i] = "%" /\ i + 2 <= Len(s)
                      /\ s[i + 1] \in HexDigits /\ s[i + 2] \in HexDigits
        from[i \in 1 .. Len(s) + 1] ==
            IF i > Len(s) THEN << >>
            ELSE IF escaped(i) THEN <<<<s[i + 1], s[i + 2]>>>> \o from[i + 3]
            ELSE <<<<s[i]>>>> \o from[i + 1]
    IN  from[1]

(* uv_io_parse_proxy_url, from behind "http://" (no other scheme is accepted):  *)
(* strtol takes a sign.                                                         *)
ParseProxyUrl(s) ==
    LET at == FirstIn(s, 1, Len(s), {"@"})
        a == IF at > Len(s) THEN s ELSE SubSeq(s, at + 1, Len(s))
        h == FirstIn(a, 1, Len(a), {":", "/"}) - 1
        digits == LET d == SubSeq(a, h + 2, Len(a))
                  IN  IF d # << >> /\ Head(d) = "+" THEN Tail(d) ELSE d
        numeric == digits # << >> /\ \A i \in DOMAIN digits : IsDecimal(digits[i])
    IN  IF h \notin 1 .. 253 \/ (h < Len(a) /\ (a[h + 1] = "/" \/ ~numeric))
        THEN Bad
        ELSE LET p == IF h = Len(a) THEN 80 ELSE Decimal(digits)
             IN  IF p \notin 1 .. MaxPort THEN Bad
                 ELSE [ok |-> TRUE, host |-> SubSeq(a, 1, h), port |-> p,
                       user |-> IF at > Len(s) THEN << >>
                                ELSE PercentDecode(SubSeq(s, 1, at - 1))]

(* uv_io_base64_encode: bytes to indexes of the table, 64 being the pad. *)
Base64Encode(d) ==
    LET group(i) == [j \in 1 .. 3 |-> IF i + j <= Len(d) THEN d[i + j] ELSE 0]
        bits(g) == <<g[1] \div 4, (g[1] % 4) * 16 + g[2] \div 16,
                     (g[2] % 16) * 4 + g[3] \div 64, g[3] % 64>>
        from[k \in 0 .. Len(d)] ==
            IF 3 * k >= Len(d) THEN << >>
            ELSE LET q == bits(group(3 * k))
                     n == IF Len(d) - 3 * k >= 3 THEN 4 ELSE Len(d) - 3 * k + 1
                 IN  [j \in 1 .. 4 |-> IF j <= n THEN q[j] ELSE 64] \o from[k + 1]
    IN  from[0]

-----------------------------------------------------------------------------
(* Room for JSON *)

EscapedLen == [plain |-> 1, short |-> 2, ctl |-> 6]
NeededLen == [plain |-> 1, short |-> 2, ctl |-> 7]   \* snprintf adds a NUL

(* uv_io_json_escape: the length written, -1 if it does not fit in cap. *)
JsonEscape(src, cap) ==
    LET j == FoldLeft(LAMBDA n, c : IF n < 0 \/ n + NeededLen[c] > cap THEN -1
                                    ELSE n + EscapedLen[c], 0, src)
    IN  IF j < cap THEN j ELSE -1

(* uv_io_build_headers_json: lines are key and value classes; white is the      *)
(* number of characters dropped before the value.  The result is the position   *)
(* of the NUL, -1 if a part does not fit.                                        *)
HeaderBlockLen(lines) ==
    IF lines = << >> THEN 0
    ELSE FoldLeft(LAMBDA n, l : n + Len(l.key) + 1 + l.white + Len(l.val) + 2, 0, lines) - 2

HeadersCap(lines) == HeaderBlockLen(lines) * 6 + 4

BuildHeadersJson(lines) ==
    LET cap == HeadersCap(lines)
        Put(pos, l) ==
            LET k == pos + (IF pos > 1 THEN 2 ELSE 1)
                n == IF pos < 0 THEN -1 ELSE JsonEscape(l.key, cap - k - 1)
                v == k + n + 3
                m == IF n < 0 THEN -1 ELSE JsonEscape(l.val, cap - v - 1)
            IN  IF m < 0 THEN -1 ELSE v + m + 1
        p == FoldLeft(Put, 1, lines)
    IN  IF p < 0 THEN -1 ELSE p + 1

(* uv_io_build_http_json: status has three digits, the literals are constant.   *)
HttpCap(headersLen, body) == 64 + headersLen + Len(body) * 6 + 128
BuildHttpJson(headersLen, body) ==
    LET pos == 24 + headersLen + 9
        n == JsonEscape(body, HttpCap(headersLen, body) - pos - 2)
    IN  IF n < 0 THEN -1 ELSE pos + n + 2

(* uv_io_build_json_array on names with the given escaped lengths, each of       *)
(* which is plain enough to need no more room than it takes.                     *)

ArrayCap(names) == 4 + Len(names) * 256
BuildJsonArray(names) ==
    LET cap == ArrayCap(names)
        Put(pos, n) ==
            LET q == pos + (IF pos > 1 THEN 2 ELSE 1)
            IN  IF pos < 0 \/ n >= cap - q - 2 THEN -1 ELSE q + n + 1
        p == FoldLeft(Put, 1, names)
    IN  IF p < 0 THEN -1 ELSE p + 1

-----------------------------------------------------------------------------
(* The request and the response header *)

(* The buffer of uv_io_http_send_request: r has the lengths of method, path,     *)
(* host, host header, body and the digits of its length, the credentials for the *)
(* proxy (0 if there are none) and of the custom header lines (name and value).  *)

RequestCap(r) ==
    1024 + r.body + r.path + r.host + 64 + (IF r.auth > 0 THEN r.auth + 32 ELSE 0)

(* Custom headers and the body go in while there is room. *)
BuildRequest(r) ==
    LET cap == RequestCap(r)
        line == r.method + 1 + r.path + 11 + 6 + r.hostHdr + 2
        fixed == line + (IF r.body > 0 THEN 16 + r.digits + 2 ELSE 0) + 19
                      + (IF r.auth > 0 THEN r.auth + 23 ELSE 0)
        Put(s, h) == IF s.pos + h + 5 < cap THEN [s EXCEPT !.pos = @ + h + 4]
                     ELSE [s EXCEPT !.dropped = TRUE]
        s0 == FoldLeft(Put, [pos |-> fixed, dropped |-> FALSE], r.headers)
        fits == s0.pos + 2 + r.body < cap
    IN  IF fixed >= cap THEN Bad
        ELSE [ok |-> TRUE, pos |-> s0.pos + 2 + (IF r.body > 0 /\ fits THEN r.body ELSE 0),
              dropped |-> s0.dropped \/ (r.body > 0 /\ ~fits)]

(* The search of uv_io_http_proxy_connect_read_cb for the end of the header in   *)
(* the bytes buf of which the last n are new: it starts 3 before them.  The      *)
(* result is the position of the end, 0 if it is not there.                      *)
EndsAt(buf, i) == /\ i >= 4 /\ buf[i - 3] = "CR" /\ buf[i - 2] = "LF"
                  /\ buf[i - 1] = "CR" /\ buf[i] = "LF"

(* Faulty variant: the search starts with the new bytes. *)
NarrowTunnelSearch(buf, n) ==
    LET hits == {i \in Len(buf) - n + 4 .. Len(buf) : EndsAt(buf, i)}
    IN  IF hits = {} THEN 0 ELSE CHOOSE i \in hits : \A j \in hits : i <= j

TunnelSearch(buf, n) ==
    LET from == IF Len(buf) > n THEN Len(buf) - n - 3 ELSE 0
        hits == {i \in from + 4 .. Len(buf) : EndsAt(buf, i)}
    IN  IF hits = {} THEN 0 ELSE CHOOSE i \in hits : \A j \in hits : i <= j

-----------------------------------------------------------------------------
(* TLS names and protocols of src/src/tcp_io.c *)

(* tls_host_match: the wildcard stands for what is before the first dot. *)
TlsHostMatch(pattern, host) ==
    LET dot == FirstIn(host, 1, Len(host), {"."})
    IN  \/ pattern = host
        \/ /\ Len(pattern) > 1 /\ pattern[1] = "*" /\ pattern[2] = "."
           /\ dot <= Len(host) /\ Tail(pattern) = SubSeq(host, dot, Len(host))

(* tls_sni_cb over the list of tls_certs_from_js: the first name that matches, *)
(* else the last entry without a name; 0 refuses.                              *)
SniPick(names, host) ==
    LET named == {i \in DOMAIN names : names[i] # << >> /\ TlsHostMatch(names[i], host)}
        bare == {i \in DOMAIN names : names[i] = << >>}
    IN  IF named # {} THEN CHOOSE i \in named : \A j \in named : i <= j
        ELSE IF bare # {} THEN CHOOSE i \in bare : \A j \in bare : i >= j
        ELSE 0

AlpnMax == 7        \* entries before the NULL of alpn_protos[8]
AlpnBufLen == 160   \* sizeof alpn_buf

AlpnEmpty == [ok |-> TRUE, at |-> << >>, buf |-> << >>]

(* tls_alpn_add, and the same steps in tls_server_ctx_new: where each protocol *)
(* starts, and the bytes.                                                      *)
TlsAlpnAdd(l, proto) ==
    IF ~l.ok \/ proto = << >> \/ Len(l.at) >= AlpnMax \/ Len(l.buf) + Len(proto) + 1 > AlpnBufLen
    THEN [l EXCEPT !.ok = FALSE]
    ELSE [l EXCEPT !.at = Append(@, Len(l.buf)), !.buf = @ \o proto \o <<"NUL">>]

(* The alpn option: a list of protocols *)
AlpnList(protos) == FoldLeft(TlsAlpnAdd, AlpnEmpty, protos)

-----------------------------------------------------------------------------
(* Chunked bodies *)

CONSTANTS
    Wires,        \* the encoded bodies: records [chunks |-> .., bytes |-> ..]
    MaxRead,      \* bound: bytes a read brings
    SizeBufLen,   \* sizeof(chunk_size_buf) - 1
    MaxChunk      \* PAL_UV_MAX_CHUNK_SIZE

VARIABLES
    wire,         \* the encoded body and what it stands for
    arrived,      \* bytes that have arrived
    cutCrLf,      \* history: a read ended between a CR and its LF
    cutLine,      \* history: a read ended inside a size line
    plain,        \* the decoder of process_chunked_body
    stream        \* the decoder of stream_decode_chunked

chunkVars == <<wire, arrived, cutCrLf, cutLine, plain, stream>>

Digits == <<"0", "1", "2", "3">>
DigitOf(b) == (CHOOSE i \in DOMAIN Digits : Digits[i] = b) - 1
IsDigit(b) == \E i \in DOMAIN Digits : Digits[i] = b

(* strtoul(s, NULL, 16): the leading digits; what is larger than the limit is   *)
(* refused, whether it overflows or not.                                       *)
Saturated(v) == IF v > MaxChunk THEN MaxChunk + 1 ELSE v

StrToUl(s) ==
    LET n == CHOOSE k \in 0 .. Len(s) : /\ \A i \in 1 .. k : IsDigit(s[i])
                                        /\ k < Len(s) => ~IsDigit(s[k + 1])
    IN  FoldLeft(LAMBDA v, b : Saturated(16 * v + DigitOf(b)), 0, SubSeq(s, 1, n))

(* What the decoders keep in op: p is the position in the bytes a call sees,   *)
(* result what it returns ("more" for 0, "done" for 1, "bad" for -1).          *)
Start == [state |-> "size", remaining |-> 0, size_buf |-> << >>, p |-> 0,
          out |-> << >>, result |-> "go"]

At(raw, i) == raw[i + 1]
IsCrLf(raw, i) == i + 1 < Len(raw) /\ At(raw, i) = "CR" /\ At(raw, i + 1) = "LF"

(* CHUNK_STATE_SIZE: the line up to the next CR LF, behind what was saved of   *)
(* it; a line that is not complete is saved if it fits.                        *)
SizeStep(d, raw) ==
    LET ends == {i \in d.p .. Len(raw) - 1 : IsCrLf(raw, i)}
        rest == SubSeq(raw, d.p + 1, Len(raw))
    IN  IF ends = {}
        THEN [d EXCEPT !.result = "more",
                       !.size_buf = IF Len(@) + Len(rest) < SizeBufLen THEN @ \o rest ELSE @]
        ELSE LET eol == CHOOSE i \in ends : \A j \in ends : i <= j
                 size == StrToUl(d.size_buf \o SubSeq(raw, d.p + 1, eol))
             IN  [d EXCEPT !.size_buf = << >>, !.p = eol + 2,
                           !.remaining = size,
                           !.state = IF size > MaxChunk THEN @
                                     ELSE IF size = 0 THEN "done" ELSE "data",
                           !.result = IF size > MaxChunk THEN "bad"
                                      ELSE IF size = 0 THEN "done" ELSE @]

(* CHUNK_STATE_DATA: what is there of the chunk goes to the consumer. *)
DataStep(d, raw) ==
    LET avail == Len(raw) - d.p
        n == IF avail < d.remaining THEN avail ELSE d.remaining
    IN  [d EXCEPT !.out = @ \o SubSeq(raw, d.p + 1, d.p + n), !.p = @ + n,
                  !.remaining = @ - n,
                  !.state = IF d.remaining = n THEN "trailer" ELSE @]

(* CHUNK_STATE_TRAILER: CR LF after the data. *)
TrailerStep(d, raw) ==
    IF Len(raw) - d.p < 2 THEN [d EXCEPT !.result = "more"]
    ELSE IF IsCrLf(raw, d.p) THEN [d EXCEPT !.p = @ + 2, !.state = "size"]
    ELSE [d EXCEPT !.result = "bad"]

(* One turn of the loop. *)
Turn(d, raw) ==
    IF d.result # "go" THEN d
    ELSE IF d.p >= Len(raw) THEN [d EXCEPT !.result = "more"]
    ELSE CASE d.state = "size" -> SizeStep(d, raw)
           [] d.state = "data" -> DataStep(d, raw)
           [] d.state = "trailer" -> TrailerStep(d, raw)

Loop(d, raw) ==
    LET turn[n \in 0 .. 2 * Len(raw) + 1] ==
            IF n = 0 THEN [d EXCEPT !.result = "go"] ELSE Turn(turn[n - 1], raw)
    IN  turn[2 * Len(raw) + 1]

(* process_chunked_body sees all raw bytes and goes on where it stopped; a     *)
(* size line that was not complete has been saved and is seen again.           *)
ProcessChunkedBody(d, raw) == Loop(d, raw)

(* Faulty variant: stream_decode_chunked does not keep the first part of a size line. *)
ForgetfulStreamDecodeChunked(d, data) == Loop([d EXCEPT !.p = 0, !.size_buf = << >>], data)

(* stream_decode_chunked sees the bytes of one read; those it did not use are  *)
(* gone.                                                                       *)
StreamDecodeChunked(d, data) == Loop([d EXCEPT !.p = 0], data)

-----------------------------------------------------------------------------
(* The reference: how chunks are encoded, each with the text of its size line. *)
EncodeChunk(c) ==
    c.line \o <<"CR", "LF">> \o [i \in 1 .. c.size |-> "x"] \o <<"CR", "LF">>

Encode(chunks) ==
    FoldLeft(LAMBDA s, c : s \o EncodeChunk(c), << >>, chunks)
        \o <<"0", "CR", "LF", "CR", "LF">>

BodyLen(chunks) == FoldLeft(LAMBDA n, c : n + c.size, 0, chunks)

(* A read that ends at k parts a CR from its LF. *)
PartsCrLf(k) == k < Len(wire.bytes) /\ wire.bytes[k] = "CR"

(* Positions inside a size line: between the start of a chunk and its data. *)
SizeLinePositions ==
    LET starts == [i \in 1 .. Len(wire.chunks) + 1 |->
                      Len(FoldLeft(LAMBDA s, c : s \o EncodeChunk(c), << >>,
                                   SubSeq(wire.chunks, 1, i - 1)))]
        lens == [i \in DOMAIN starts |->
                    IF i <= Len(wire.chunks) THEN Len(wire.chunks[i].line) + 2 ELSE 3]
    IN  UNION {starts[i] + 1 .. starts[i] + lens[i] - 1 : i \in DOMAIN starts}

-----------------------------------------------------------------------------
ChunkInit ==
    /\ wire \in Wires
    /\ arrived = 0 /\ cutCrLf = FALSE /\ cutLine = FALSE
    /\ plain = [Start EXCEPT !.result = "more"]
    /\ stream = [Start EXCEPT !.result = "more"]

Decode(d, new) == IF d.result = "more" THEN new ELSE d

ReadBody(n) ==
    /\ arrived + n <= Len(wire.bytes)
    /\ plain.result = "more" \/ stream.result = "more"
    /\ arrived' = arrived + n
    /\ cutCrLf' = (cutCrLf \/ PartsCrLf(arrived + n))
    /\ cutLine' = (cutLine \/ arrived + n \in SizeLinePositions)
    /\ plain' = Decode(plain, ProcessChunkedBody(plain, SubSeq(wire.bytes, 1, arrived + n)))
    /\ stream' = Decode(stream,
           StreamDecodeChunked(stream, SubSeq(wire.bytes, arrived + 1, arrived + n)))
    /\ UNCHANGED wire

ChunkNext == \E n \in 1 .. MaxRead : ReadBody(n)

-----------------------------------------------------------------------------
(* What a decoder has given out is right as far as it goes. *)
Decodes(d) ==
    /\ d.result # "bad"
    /\ Len(d.out) <= BodyLen(wire.chunks) /\ \A i \in DOMAIN d.out : d.out[i] = "x"
    /\ d.result = "done" => Len(d.out) = BodyLen(wire.chunks)
    /\ arrived = Len(wire.bytes) => d.result = "done"

WellFormed == wire.bytes = Encode(wire.chunks)

(* Of process_chunked_body: a body that arrives in any number of reads, none of  *)
(* which ends inside a size line, is decoded to the chunks that were encoded and *)
(* found complete when the last chunk is there; the CR LF behind the data may be *)
(* split.                                                                        *)
PlainDecodes == WellFormed /\ ~cutLine => Decodes(plain)

(* Of stream_decode_chunked: the same if no read ends between a CR and its LF;   *)
(* here a size line may be split elsewhere, up to the 15 bytes that are kept.    *)
StreamDecodes == WellFormed /\ ~cutCrLf => Decodes(stream)

(* Known not to hold, see the README. *)
(* Of the comment on chunk_write_pos ("a chunked body split across multiple     *)
(* reads decodes correctly"): wherever the reads end.                           *)
SplitBodyDecodes == WellFormed => Decodes(plain) /\ Decodes(stream)

(* Of process_chunked_body, which compacts the decoded bytes into the buffer it  *)
(* reads the raw ones from: whatever arrives, what is written stays behind what  *)
(* has been read, and a chunk is never larger than the limit.                    *)
CompactionStaysBehind ==
    /\ Len(plain.out) <= plain.p /\ plain.p <= arrived
    /\ plain.state = "data" => plain.remaining \in 1 .. MaxChunk
=============================================================================
