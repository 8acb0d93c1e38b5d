------------------------------- MODULE Codecs -------------------------------
(***************************************************************************)
(* What the conversions of HttpText and DataCodecs promise, each stated     *)
(* against how its input was put together, and what the decoders of chunked *)
(* bodies do.  A state holds one input, the probe; the chunked bodies       *)
(* arrive in reads.                                                         *)
(***************************************************************************)
EXTENDS DataCodecs

CONSTANT Probes   \* inputs, records with a field kind; NoProbe leaves the bodies

VARIABLE probe

NoProbe == [kind |-> "none"]

codecVars == <<probe, chunkVars>>

CodecsInit ==
    /\ ChunkInit
    /\ probe \in Probes
    /\ probe # NoProbe => wire = CHOOSE w \in Wires : TRUE

CodecsNext ==
    /\ probe = NoProbe
    /\ ChunkNext
    /\ UNCHANGED probe

CodecsSpec == CodecsInit /\ [][CodecsNext]_codecVars

-----------------------------------------------------------------------------
(* kind "url": user, host (v6 in brackets), port text, path, fragment *)

Opt(before, s) == IF s = <<"none">> THEN << >> ELSE before \o s
Bracketed(host) == IF \E i \in DOMAIN host : host[i] = ":" THEN <<"[">> \o host \o <<"]">> ELSE host
UrlText(u) == (IF u.user = <<"none">> THEN << >> ELSE u.user \o <<"@">>)
              \o Bracketed(u.host) \o Opt(<<":">>, u.port)
              \o u.path \o Opt(<<"#">>, u.frag)
PortMeant(u) == IF u.port \in {<<"none">>, << >>} THEN DefaultPort(u.tls) ELSE Decimal(u.port)
PortIsGood(u) == \/ u.port \in {<<"none">>, << >>}
                 \/ /\ \A i \in DOMAIN u.port : IsDecimal(u.port[i])
                    /\ PortMeant(u) \in 1 .. MaxPort

(* Of uv_io_parse_url: a URL put together from credentials, host or bracketed   *)
(* address, port, path or bare query and fragment is taken apart into the same  *)
(* host, port and path, and one with an impossible port is refused, whatever    *)
(* the other parts hold.                                                        *)
UrlRoundTrip ==
    probe.kind = "url" =>
        ParseUrl(UrlText(probe), probe.tls) =
            IF ~PortIsGood(probe) THEN Bad
            ELSE [ok |-> TRUE, host |-> probe.host, port |-> PortMeant(probe),
                  path |-> IF probe.path = << >> THEN <<"/">>
                           ELSE IF Head(probe.path) = "/" THEN probe.path
                           ELSE <<"/">> \o probe.path]

(* Of uv_io_http_authority and uv_io_http_proxy_request_target: what is sent as *)
(* Host, or to a proxy, leads back to the origin the URL named.                 *)
AuthorityRoundTrip ==
    probe.kind = "url" /\ PortIsGood(probe) =>
        LET o == ParseUrl(UrlText(probe), probe.tls)
            back == ParseUrl(Authority(o.host, o.port, DefaultPort(probe.tls)) \o o.path, probe.tls)
            target == ParseUrl(ProxyRequestTarget(o.host, o.port, o.path), FALSE)
        IN  back = o /\ (~probe.tls => target = o)

(* Of uv_io_parse_proxy_url: a proxy URL with one user and a plain host names   *)
(* the host, port and credentials, percent-escapes decoded, it was put together *)
(* from.                                                                        *)
ProxyUrlRoundTrip ==
    probe.kind = "proxy" =>
        ParseProxyUrl((IF probe.items = << >> THEN << >>
                       ELSE FoldLeft(LAMBDA s, c : s \o (IF Len(c) = 1 THEN c
                                                         ELSE <<"%", c[1], c[2]>>),
                                     << >>, probe.items) \o <<"@">>)
                      \o probe.host \o Opt(<<":">>, probe.port)) =
            IF probe.port # <<"none">> /\ (probe.port = << >> \/ Decimal(probe.port) \notin 1 .. MaxPort)
            THEN Bad
            ELSE [ok |-> TRUE, host |-> probe.host,
                  port |-> IF probe.port = <<"none">> THEN 80 ELSE Decimal(probe.port),
                  user |-> probe.items]

(* kind "noproxy": labels of the host and of an entry, most significant first *)
Dotted(labels) == Tail(FoldLeft(LAMBDA s, l : <<".">> \o l \o s, << >>, labels))

(* Of uv_io_host_in_no_proxy: an entry covers its own domain and the domains    *)
(* below it, label by label, on its port if it has one; never a name that only  *)
(* ends in the same characters.                                                 *)
NoProxyIsByLabel ==
    probe.kind = "noproxy" =>
        (HostInNoProxy(Dotted(probe.labels), probe.port,
             <<(IF probe.dot THEN <<".">> ELSE << >>) \o Dotted(probe.entry)
               \o Opt(<<":">>, probe.entryPort)>>) <=>
         /\ IsPrefix(probe.entry, probe.labels)
         /\ probe.entryPort # <<"none">> => Decimal(probe.entryPort) = probe.port)

-----------------------------------------------------------------------------
(* Of btoa and of the proxy's credentials: what is encoded passes the check of  *)
(* atob and comes back as the low bytes that went in.                           *)
Base64RoundTrip ==
    probe.kind = "units" =>
        LET t == NativeBtoa(probe.units)
        IN  /\ AtobAccepts(t)
            /\ NativeAtob(t).out = [i \in DOMAIN probe.units |-> probe.units[i] % 256]

(* Of atob: the check in the polyfill is strict enough for the native decoder,  *)
(* whose length would otherwise wrap below zero or leave bytes unset.           *)
AtobStaysInBuffer ==
    probe.kind = "b64" =>
        LET clean == SelectSeq(probe.text, LAMBDA c : c # White)
        IN  AtobAccepts(clean) =>
                /\ NativeAtob(clean).ok /\ NativeAtob(clean).outLen >= 0
                /\ NativeAtob(clean).outLen = Len(NativeAtob(clean).out)

(* kind "sni": labels of a host and of the names of a certificate list *)
Joined(labels) == Reverse(Dotted([i \in DOMAIN labels |-> Reverse(labels[i])]))
CoversLabels(name, host) ==
    \/ name = host
    \/ Head(name) = <<"*">> /\ Len(name) > 1 /\ Len(name) = Len(host) /\ Tail(name) = Tail(host)

(* Of tls_sni_cb: the certificate taken has the host's name, label by label    *)
(* with a wildcard for one label at most, and the default is taken only when   *)
(* no certificate has it.                                                      *)
SniIsByLabel ==
    probe.kind = "sni" =>
        LET p == SniPick(<< << >> >> \o [i \in DOMAIN probe.names |-> Joined(probe.names[i])],
                         Joined(probe.host))
        IN  IF p = 1 THEN \A i \in DOMAIN probe.names : ~CoversLabels(probe.names[i], probe.host)
            ELSE CoversLabels(probe.names[p - 1], probe.host)

(* Of tls_alpn_add: every protocol offered is found again whole at its place,   *)
(* and the list ends inside its arrays, or the list is refused.                 *)
AlpnFits ==
    probe.kind = "alpn" =>
        LET protos == [i \in DOMAIN probe.lens |-> [k \in 1 .. probe.lens[i] |-> "x"]]
            l == AlpnList(protos)
        IN  l.ok => /\ Len(l.at) = Len(protos) /\ Len(l.at) < 8 /\ Len(l.buf) <= AlpnBufLen
                    /\ \A i \in DOMAIN protos :
                          /\ SubSeq(l.buf, l.at[i] + 1, l.at[i] + probe.lens[i]) = protos[i]
                          /\ l.buf[l.at[i] + probe.lens[i] + 1] = "NUL"

(* kind "envelope": the fields, and a byte written over or a cut *)
EnvelopeBytes(e) ==
    LET whole == EnvelopeEncode(e.fields)
    IN  SubSeq([i \in DOMAIN whole |-> IF i = e.at THEN e.byte ELSE whole[i]], 1, e.cut)

(* Of ipc_envelope_decode: whatever byte is damaged and wherever the frame is   *)
(* cut, nothing outside the frame is read, and a payload lies inside it.        *)
EnvelopeInBounds ==
    probe.kind = "envelope" =>
        LET d == EnvelopeDecode(EnvelopeBytes(probe))
        IN  d.inBounds /\ (d.ok => Len(d.payload) <= Len(EnvelopeBytes(probe)))

(* Of the envelope: an undamaged frame is decoded to the fields it was made     *)
(* from, and no cut of it is taken for a frame with another payload.            *)
EnvelopeRoundTrip ==
    probe.kind = "envelope" /\ probe.at = 0 =>
        LET d == EnvelopeDecode(EnvelopeBytes(probe))
            whole == probe.cut >= Len(EnvelopeEncode(probe.fields))
        IN  /\ whole => d.ok /\ \A f \in DOMAIN probe.fields : d[f] = probe.fields[f]
            /\ d.ok /\ ~whole => d.payload = << >>

(* Of sha256: data, mark and length fill whole blocks and none of them is       *)
(* written over another, at every length.                                       *)
PaddingIsWhole ==
    probe.kind = "sha" =>
        LET t == Sha256Tail(probe.len)
            rem == probe.len % 64
        IN  /\ Len(t) % 64 = 0
            /\ \A i \in 1 .. rem : t[i] = 7
            /\ t[rem + 1] = 128
            /\ \A i \in rem + 2 .. Len(t) - 2 : t[i] = 0
            /\ t[Len(t)] + 256 * t[Len(t) - 1] = 8 * probe.len

-----------------------------------------------------------------------------
(* Of uv_io_build_headers_json and uv_io_build_http_json: the room computed     *)
(* before escaping is enough for every header and body, in the worst class of   *)
(* characters too.                                                              *)
JsonFits ==
    probe.kind = "headers" =>
        LET n == BuildHeadersJson(probe.lines)
        IN  /\ n >= 0 /\ n < HeadersCap(probe.lines)
            /\ LET m == BuildHttpJson(n, probe.body)
               IN  m >= 0 /\ m < HttpCap(n, probe.body)

(* Of uv_io_build_json_array: a directory of names that need at most 250        *)
(* characters when escaped is listed whole.                                     *)
ArrayFits ==
    probe.kind = "names" /\ (\A i \in DOMAIN probe.names : probe.names[i] <= 250) =>
        BuildJsonArray(probe.names) \in 0 .. ArrayCap(probe.names) - 1

(* Of uv_io_http_send_request: as long as the custom headers stay below 800     *)
(* bytes nothing is dropped, so the body is as long as Content-Length says.     *)
RequestIsWhole ==
    probe.kind = "request"
        /\ FoldLeft(LAMBDA n, h : n + h + 4, 0, probe.r.headers) < 800 =>
        BuildRequest(probe.r).ok /\ ~BuildRequest(probe.r).dropped
            /\ BuildRequest(probe.r).pos <= RequestCap(probe.r)

(* Of uv_io_http_proxy_connect_read_cb: the end of the proxy's header is found  *)
(* when its last byte arrives, however the header is cut, as long as the first  *)
(* read brings at least 3 bytes.                                                *)
TunnelHeaderFound ==
    probe.kind = "tunnel" =>
        LET buf == probe.head \o <<"CR", "LF", "CR", "LF">> \o probe.rest
            seen(k) == SubSeq(buf, 1, k)
            end == Len(probe.head) + 4
        IN  \A k \in 3 .. end - 1 :
                /\ TunnelSearch(seen(k), k) = 0
                /\ TunnelSearch(buf, Len(buf) - k) = end

(* Of rsa_pkcs8_wrap: the sizes computed first and the bytes written then agree  *)
(* at every length, so that the wrapper starts where the buffer starts, fits the *)
(* 32 bytes that are allowed for it, and each length in it spans what follows.   *)
Pkcs8IsWhole ==
    probe.kind = "pkcs8" =>
        LET w == Pkcs8Wrap(probe.len, probe.len + 32)
            lenAt(p) == IF w.head[p] < 128 THEN <<1, w.head[p]>>
                        ELSE <<w.head[p] - 127,
                               FoldLeft(LAMBDA v, b : 256 * v + b, 0,
                                        SubSeq(w.head, p + 1, p + w.head[p] - 128))>>
            seq == lenAt(2)
            octets == 1 + seq[1] + 3 + 15 + 1
        IN  /\ w.ok /\ w.at = 0 /\ w.total = Len(w.head) + probe.len
            /\ 1 + seq[1] + seq[2] = w.total
            /\ w.head[octets] = 4 /\ octets + lenAt(octets + 1)[1] = Len(w.head)
            /\ lenAt(octets + 1)[2] = probe.len

(* kind "path": components *)
PathText(p) == (IF p.absolute THEN <<"/">> ELSE << >>) \o
    FoldLeft(LAMBDA s, c : IF s = << >> THEN c ELSE s \o <<p.sep>> \o c, << >>, p.parts)

(* Of bridge_validate_path: a path that passes names no parent directory, and    *)
(* one that is refused has a component that ends in two dots.                    *)
NoParentInPath ==
    probe.kind = "path" =>
        IF ValidatePath(PathText(probe)) THEN \A i \in DOMAIN probe.parts : probe.parts[i] # <<".", ".">>
        ELSE PathText(probe) = << >> \/ \E i \in DOMAIN probe.parts :
                 Len(probe.parts[i]) >= 2 /\ IsSuffix(<<".", ".">>, probe.parts[i])

-----------------------------------------------------------------------------
(* Of nativeCompress and nativeDecompress: everything is written inside the      *)
(* buffer, also what deflate-raw writes behind its result, and what was put      *)
(* around the data is taken off again.                                           *)
WrapIsUndone ==
    probe.kind = "wrap" =>
        LET raw == [i \in 1 .. probe.rawLen |-> 8]
            c == NativeCompress(probe.fmt, raw, probe.rawLen + probe.slack, <<1, 2, 3, 4>>, <<5, 6, 7, 8>>, probe.inLen)
            d == NativeDecompress(probe.fmt, c.out)
        IN  /\ c.written <= c.bufSize
            /\ d.ok /\ d.raw = raw
            /\ d.check = CASE probe.fmt = "deflate-raw" -> << >> [] probe.fmt = "deflate" -> <<1, 2, 3, 4>>
                           [] probe.fmt = "gzip" -> <<5, 6, 7, 8>>
            /\ d.size = IF probe.fmt = "gzip" THEN Le32(probe.inLen) ELSE << >>

(* kind "gzip": the optional fields, << -1 >> for none, and the data *)
GzipField(f, before, after) == IF f = <<-1>> THEN << >> ELSE before \o f \o after
GzipBytes(g) ==
    LET has(f, v) == IF f = <<-1>> THEN 0 ELSE v
    IN  <<31, 139, 8, has(g.extra, 4) + has(g.name, 8) + has(g.comment, 16) + has(g.hcrc, 2), 0, 0, 0, 0, 0, 255>>
        \o GzipField(g.extra, Le16(Len(g.extra)), << >>) \o GzipField(g.name, << >>, <<0>>)
        \o GzipField(g.comment, << >>, <<0>>) \o GzipField(g.hcrc, << >>, << >>)
        \o g.data \o <<1, 2, 3, 4, 5, 6, 7, 8>>

(* Of nativeDecompress: whichever optional fields a gzip header has, the data    *)
(* behind it and the checks are found; of a file that is cut short only bytes    *)
(* that are there are taken.                                                     *)
GzipDataFound ==
    probe.kind = "gzip" =>
        LET b == GzipBytes(probe)
            d == NativeDecompress("gzip", SubSeq(b, 1, Len(b) - probe.cut))
        IN  IF probe.cut = 0
            THEN d = [ok |-> TRUE, raw |-> probe.data, check |-> <<1, 2, 3, 4>>, size |-> <<5, 6, 7, 8>>]
            ELSE d.ok => Len(d.raw) + 18 <= Len(b) - probe.cut

(* Of deflatePush: a push with flush of at least one byte, as WSConnection.send  *)
(* makes it, leaves nothing in the compressor, whatever was pushed before and    *)
(* however often the buffer grows, and no push gives up.                         *)
FlushIsWhole ==
    probe.kind = "pushes" =>
        LET none == [in |-> 0, held |-> 0, queue |-> 0]
            run(ps) == FoldLeft(
                LAMBDA s, p : LET r == DeflatePush(s.d, p.n, p.sync)
                              IN  [d |-> r.d, in |-> s.in + p.n, out |-> s.out + r.out, st |-> r.st],
                [d |-> none, in |-> 0, out |-> 0, st |-> "done"], ps)
        IN  \A k \in DOMAIN probe.pushes :
                LET p == probe.pushes[k]
                    s == run(SubSeq(probe.pushes, 1, k))
                IN  /\ p.n > 0 \/ p.sync => s.st = "done"
                    /\ p.n > 0 /\ p.sync => /\ s.d = none
                                             /\ s.out > s.in /\ (s.out - s.in) % 5 = 0

(* Of inflatePush: every push returns all its input decodes to, however often    *)
(* the buffer grows, so that messages of a WebSocket do not run into each other. *)
InflateIsWhole ==
    probe.kind = "inflates" =>
        LET run(ps) == FoldLeft(LAMBDA s, p : InflatePush(s.i, p.n, p.n * p.ratio),
                                [i |-> [todo |-> 0, pend |-> 0, final |-> FALSE, bad |-> FALSE], st |-> "done"], ps)
        IN  \A k \in DOMAIN probe.pushes :
                LET p == probe.pushes[k]
                    s == run(SubSeq(probe.pushes, 1, k))
                IN  s.st = "done" /\ s.i.todo = 0 /\ s.i.pend = 0 /\ s.out = p.n * p.ratio

(* Of raw_inflate: a whole stream is returned whole, one that is cut short or    *)
(* damaged is an error, and neither goes round for ever.                         *)
DecompressIsWhole ==
    probe.kind = "raw" =>
        LET r == RawInflate(probe.n, probe.n * probe.ratio, probe.final, probe.bad)
        IN  IF probe.final /\ ~probe.bad THEN r = [st |-> "done", out |-> probe.n * probe.ratio]
            ELSE r.st = "corrupt"

-----------------------------------------------------------------------------
(* kind "aes": mode, the length of the plain data, tag *)

(* Of js_pal_native_aes_crypt and js_pal_native_aes_kw: whatever the length, the  *)
(* mode and the tag, encryption succeeds within its buffer, and decryption of     *)
(* what it returned succeeds within its own and returns as much as there was.     *)
CipherIsWhole ==
    probe.kind = "aes" =>
        LET kw == probe.mode = "KW"
            enc == IF kw THEN AesKw(TRUE, probe.len) ELSE AesCrypt(probe.mode, TRUE, probe.len, probe.tag, 0)
            dec == IF kw THEN AesKw(FALSE, enc.len)
                   ELSE AesCrypt(probe.mode, FALSE, enc.len, probe.tag, BlockSize - (probe.len % BlockSize))
        IN  (kw => probe.len >= 16 /\ probe.len % 8 = 0) =>
                enc.ok /\ enc.fits /\ dec.ok /\ dec.fits /\ dec.len = probe.len

(* kind "ec": curve, sizes of three numbers *)

(* Of js_pal_native_ecdsa and js_pal_native_ec_generate ("raw r||s (padded)"):    *)
(* the numbers of a signature and the private key come back as they were, also    *)
(* when they are shorter than the field of their curve, and the public key lies   *)
(* where the polyfill cuts.                                                       *)
SignatureRoundTrip ==
    probe.kind = "ec" =>
        LET c == CoordLen(probe.curve)
            number(n, k) == [i \in 1 .. n |-> IF i = 2 THEN 0 ELSE k]
            pub == [i \in 1 .. 2 * c + 1 |-> 4]
            sig == EcdsaSign(number(probe.r, 7), number(probe.s, 9), c)
            back == EcdsaVerifyReads(pub, sig.bytes, c)
            key == UnpackEcKey(EcGenerate(number(probe.d, 5), pub, c).bytes)
        IN  /\ sig.ok /\ back.ok
            /\ back.r = number(probe.r, 7) /\ back.s = number(probe.s, 9)
            /\ MpiRead(key.priv) = number(probe.d, 5) /\ Len(key.priv) = c /\ key.pub = pub

(* kind "sections": sections [id, name, content, wide], asked *)

LebBytes(n, wide) ==
    IF wide THEN <<128 + (n % 128), 128 + (n \div 128), 128, 128, 0>>
    ELSE IF n < 128 THEN <<n>> ELSE <<128 + (n % 128), n \div 128>>
SectionBytes(x) ==
    LET body == LebBytes(Len(x.name), x.wide) \o x.name \o x.content
    IN  <<x.id>> \o LebBytes(Len(body), x.wide) \o body

(* Of wasm3_module_custom_sections: the contents of the custom sections of a      *)
(* module that have the name asked for, all of them and in order, whether their   *)
(* lengths are written in the fewest bytes or in five.                            *)
SectionsFound ==
    probe.kind = "sections" =>
        LET buf == Zeros(8) \o FlattenSeq([i \in DOMAIN probe.sections |-> SectionBytes(probe.sections[i])])
            asked == SelectSeq(probe.sections, LAMBDA x : x.id = 0 /\ x.name = probe.asked)
        IN  CustomSections(buf, probe.asked) = [i \in DOMAIN asked |-> asked[i].content]

(* Chunked bodies, whatever the reads: both decoders give what was encoded *)
(* where their comments promise it, and the one that works in place never  *)
(* overtakes its input.                                                    *)
ChunksDecode ==
    /\ PlainDecodes /\ StreamDecodes /\ CompactionStaysBehind

(* Texts of the network and the file system: parts are found where they were *)
(* put, names match by label, and every buffer that is sized before it is    *)
(* filled holds what goes into it.                                           *)
TextsAreWhole ==
    /\ UrlRoundTrip /\ AuthorityRoundTrip /\ ProxyUrlRoundTrip /\ NoProxyIsByLabel
    /\ SniIsByLabel /\ AlpnFits /\ RequestIsWhole /\ TunnelHeaderFound /\ JsonFits
    /\ ArrayFits /\ NoParentInPath

(* Binary formats: what one side encodes the other decodes, damaged input is   *)
(* not read beyond its end, and the loops that compress and decompress deliver *)
(* everything although their buffer fills up.                                  *)
BytesAreWhole ==
    /\ Base64RoundTrip /\ AtobStaysInBuffer /\ EnvelopeInBounds /\ EnvelopeRoundTrip
    /\ PaddingIsWhole /\ Pkcs8IsWhole /\ CipherIsWhole /\ SignatureRoundTrip
    /\ SectionsFound /\ WrapIsUndone /\ GzipDataFound /\ FlushIsWhole /\ InflateIsWhole
    /\ DecompressIsWhole
=============================================================================
