------------------------------ MODULE MCCodecs ------------------------------
(* The inputs of Codecs for TLC: parts whose lengths lie around the boundaries of *)
(* the buffers and formulas, and texts of short parts.                             *)
EXTENDS Codecs

Chunks == {[line |-> <<"1">>, size |-> 1], [line |-> <<"0", "2">>, size |-> 2],
           [line |-> <<"1", ";", "x">>, size |-> 1]}
ChunkLists == {<<>>} \cup {<<c>> : c \in Chunks} \cup {<<c, d>> : c \in Chunks, d \in Chunks}
MCWires ==
    {[chunks |-> l, bytes |-> Encode(l)] : l \in ChunkLists}
    \cup {[chunks |-> <<>>, bytes |-> b] :
             b \in {<<"1", "CR", "LF", "x", "x", "LF">>, <<"3", "3", "3", "CR", "LF", "x">>,
                    <<"x", "CR", "LF">>, <<"1", "0", "CR", "LF", "x", "CR", "LF", "x">>}}

Ports == {<<"none">>, << >>, <<"8", "0">>, <<"4", "4", "3">>, <<"8", "0", "8", "0">>,
          <<"0">>, <<"6", "5", "5", "3", "6">>}
Urls ==
    [kind : {"url"}, tls : BOOLEAN, user : {<<"none">>, <<"u", ":", "p">>, <<"u", "@", "v">>},
     host : {<<"h">>, <<"h", ".", "i">>, <<"1", ":", ":", "2">>},
     port : Ports \cup {<<"8", "x">>},
     path : {<< >>, <<"/">>, <<"/", "p", "@", ":">>, <<"?", "q", "/", "@">>},
     frag : {<<"none">>, <<"f", "/", "@">>}]
Proxies ==
    [kind : {"proxy"}, host : {<<"h">>, <<"h", ".", "i">>}, port : Ports,
     items : {<< >>} \cup UNION {[1 .. n -> {<<"A">>, <<"4", "0">>, <<"2", "5">>, <<"3", "a">>}] : n \in 1 .. 3}]
Labels == {<<"a">>, <<"b">>, <<"b", "a">>}
NoProxies ==
    [kind : {"noproxy"}, labels : UNION {[1 .. n -> Labels] : n \in 1 .. 3}, port : {80, 443},
     dot : BOOLEAN, entry : UNION {[1 .. n -> Labels] : n \in 1 .. 2},
     entryPort : {<<"none">>, <<"8", "0">>, <<"4", "4", "3">>}]
Names2 == UNION {[1 .. n -> {<<"a">>, <<"b">>, <<"*">>}] : n \in 1 .. 3}
Snis == [kind : {"sni"}, host : UNION {[1 .. n -> {<<"a">>, <<"b">>, <<"b", "a">>}] : n \in 1 .. 3},
         names : {<<n>> : n \in Names2} \cup {<<m, n>> : m \in {<<<<"*">>, <<"a">>>>, <<<<"b">>, <<"a">>>>}, n \in Names2}]
Alpns == [kind : {"alpn"}, lens : UNION {[1 .. n -> {0, 2, 8, 150, 159, 160}] : n \in 0 .. 3}
                                   \cup [1 .. 7 -> {2, 21, 22}] \cup [1 .. 8 -> {2, 18}]]
Units == [kind : {"units"}, units : UNION {[1 .. n -> {0, 1, 127, 129, 255, 256 + 77}] : n \in 0 .. 4}]
Texts == [kind : {"b64"}, text : UNION {[1 .. n -> {0, 63, Pad, White, Illegal}] : n \in 0 .. 5}]
Fields == [source : {<<1, 0, 0, 0>>, <<255, 255, 255, 255>>}, target : {<<2, 0, 0, 0>>},
           kind : {0, 3}, corr : {<<9, 1, 0, 128>>}, payload : {<< >>, <<5, 6>>}]
Envelopes ==
    UNION {[kind : {"envelope"}, fields : {f}, at : 0 .. 48 + Len(f.payload),
            byte : {0, 1, 3, 20, 46, 255},
            cut : {0, 4, 8, 17, 19, 23, 28, 34, 44, 47, 48, 48 + Len(f.payload)}] : f \in Fields}
Classes == {"plain", "short", "ctl"}
Words(n) == UNION {[1 .. k -> Classes] : k \in 0 .. n}
Headers ==
    [kind : {"headers"}, body : Words(3),
     lines : {<< >>} \cup {<<[key |-> k, white |-> w, val |-> v]>> : k \in Words(2), w \in 0 .. 1, v \in Words(2)}
             \cup {<<[key |-> k, white |-> 0, val |-> v], [key |-> v \o k, white |-> 0, val |-> << >>]>> :
                      k \in Words(1), v \in Words(2)}]
Names == [kind : {"names"}, names : UNION {[1 .. n -> {0, 1, 249, 250, 255}] : n \in 0 .. 3}]
Requests ==
    {[kind |-> "request", r |-> [method |-> m, path |-> p, host |-> h, hostHdr |-> h + d, body |-> b,
                                 digits |-> 6, auth |-> a, headers |-> hs]] :
        m \in {3, 7}, p \in {1, 300}, h \in {1, 253}, d \in {0, 8}, b \in {0, 1, 5000}, a \in {0, 100},
        hs \in {<< >>, <<100>>, <<395, 395>>, <<900, 300>>}}
Tunnels ==
    [kind : {"tunnel"}, head : UNION {[1 .. n -> {"x", "CR", "LF"}] : n \in 3 .. 5},
     rest : {<< >>, <<"x">>, <<"CR", "LF", "CR", "LF">>}]
NoEarlyEnd(p) == \A i \in 4 .. Len(p.head) + 3 : ~EndsAt(p.head \o <<"CR", "LF", "CR", "LF">>, i)

Parts == UNION {[1 .. n -> {".", "a"}] : n \in 0 .. 3}
Paths == [kind : {"path"}, absolute : BOOLEAN, sep : {"/", "BS"}, parts : UNION {[1 .. n -> Parts] : n \in 1 .. 2}]
Wraps == [kind : {"wrap"}, fmt : {"deflate-raw", "deflate", "gzip"}, rawLen : 0 .. 3, slack : {8, 128}, inLen : {0, 300}]
Opts == {<<-1>>, << >>, <<1>>, <<1, 0>>}
Gzips == {g \in [kind : {"gzip"}, extra : Opts, name : {<<-1>>, << >>, <<1>>, <<1, 2>>}, comment : {<<-1>>, << >>, <<1>>},
                 hcrc : {<<-1>>, <<7, 0>>}, data : {<< >>, <<9>>, <<0, 9>>}, cut : 0 .. 14] :
             g.cut < Len(GzipBytes(g))}
Pushes == [kind : {"pushes"},
           pushes : UNION {[1 .. n -> [n : {0, 1, 4091, 4096, 9000, 150000}, sync : BOOLEAN]] : n \in 1 .. 3}]
Inflates == [kind : {"inflates"}, pushes : UNION {[1 .. n -> [n : {0, 1, 100, 4096, 9000}, ratio : {1, 4, 60, 1000}]] : n \in 1 .. 2}]
Ciphers == [kind : {"aes"}, mode : {"GCM", "CBC", "CTR", "KW"}, len : 0 .. 34, tag : {1, 12, 16}]
Curves == UNION {[kind : {"ec"}, curve : {c}, r : 1 .. CoordLen(c), s : {1, CoordLen(c) - 1, CoordLen(c)},
                  d : {1, CoordLen(c) - 1, CoordLen(c)}] : c \in {"P-256", "P-384", "P-521"}}
Sections == [kind : {"sections"}, asked : {<< >>, <<5>>},
             sections : UNION {[1 .. n -> [id : {0, 1}, name : {<< >>, <<5>>, <<5, 6>>},
                                           content : {<< >>, <<1, 5>>}, wide : BOOLEAN]] : n \in 0 .. 2}
                        \cup {<<[id |-> 0, name |-> <<5>>, content |-> Zeros(n), wide |-> FALSE]>> : n \in 120 .. 132}]

MCProbes ==
    {NoProbe} \cup Urls \cup Proxies \cup NoProxies \cup Snis \cup Alpns \cup Units \cup Texts \cup Envelopes \cup Headers
    \cup Names \cup Requests \cup {p \in Tunnels : NoEarlyEnd(p)}
    \cup [kind : {"sha"}, len : 0 .. 200]
    \cup [kind : {"pkcs8"}, len : 0 .. 300 \cup {1190, 1192, 2347, 2375, 65000, 65513, 65535, 65536, 70000}]
    \cup Paths \cup Wraps \cup Gzips \cup Pushes \cup Inflates
    \cup Ciphers \cup Curves \cup Sections
    \cup [kind : {"raw"}, n : {0, 1, 63, 64, 65, 5000}, ratio : {1, 3, 4, 5, 1000}, final : BOOLEAN, bad : BOOLEAN]
=============================================================================
