----------------------------- MODULE DataCodecs -----------------------------
(***************************************************************************)
(* Codecs over bytes: nativeBtoa and nativeAtob of src/src/ext_textcodec.c, *)
(* the IPC envelope of src/src/ipc_envelope.c, the padding of the SHA-256   *)
(* in src/src/polyfill_load.c, the DER wrapper of src/src/ext_crypto.c and  *)
(* the check of paths in src/src/bridge.c.  Bytes are 0 .. 255; a base64 text   *)
(* is a sequence of table indexes, with Pad, White and Illegal for what is  *)
(* not in the table.                                                        *)
(*                                                                         *)
(* src/src/ext_compress.c: the headers and trailers around deflate data,    *)
(* and the loops that drive miniz with buffers that grow.  Of the data the   *)
(* loops move only amounts count; the calls of miniz are described by what  *)
(* they consume, emit and keep.                                              *)
(***************************************************************************)
EXTENDS HttpText

Pad == 64
White == 65
Illegal == 66

(* js_pal_native_btoa takes the low byte of each UTF-16 unit. *)
NativeBtoa(units) == Base64Encode([i \in DOMAIN units |-> units[i] % 256])

(* js_pal_native_atob.  outLen is unsigned in the code: below zero it would    *)
(* wrap.                                                                       *)
NativeAtob(text) ==
    LET clean == SelectSeq(text, LAMBDA c : c # White)
        n == Len(clean)
        outLen == (n \div 4) * 3 - (IF n > 0 /\ clean[n] = Pad THEN 1 ELSE 0)
                                 - (IF n > 1 /\ clean[n - 1] = Pad THEN 1 ELSE 0)
        value(c) == IF c = Pad THEN 0 ELSE c
        quad(i) == LET q(k) == value(clean[4 * i + k])
                   IN  <<q(1) * 4 + q(2) \div 16, (q(2) % 16) * 16 + q(3) \div 4,
                         (q(3) % 4) * 64 + q(4)>>
        all == FoldLeft(LAMBDA s, i : s \o quad(i - 1), << >>,
                        [i \in 1 .. n \div 4 |-> i])
    IN  IF \E i \in DOMAIN clean : clean[i] = Illegal THEN Bad
        ELSE [ok |-> TRUE, outLen |-> outLen, out |-> SubSeq(all, 1, outLen)]

(* What the polyfill lets through (polyfill/src/encoding.js): whole groups of  *)
(* four, at most two pads, at the end.                                         *)
AtobAccepts(text) ==
    LET n == Len(text)
    IN  /\ n % 4 = 0 /\ \A i \in 1 .. n - 2 : text[i] < Pad
        /\ n > 0 => text[n] <= Pad /\ (text[n - 1] < Pad \/ (text[n - 1] = Pad /\ text[n] = Pad))

-----------------------------------------------------------------------------
(* The envelope.  A 32-bit field is its four bytes; values of offsets from     *)
(* 2^16 up are larger than any buffer here and count as one, TooBig, and so do *)
(* negative ones.                                                              *)

TooBig == 65536
Le16(v) == <<v % 256, v \div 256>>
Le32(v) == Le16(v) \o <<0, 0>>

Rd16(buf, p) == buf[p + 1] + 256 * buf[p + 2]
Rd32(buf, p) == IF buf[p + 3] # 0 \/ buf[p + 4] # 0 THEN TooBig ELSE Rd16(buf, p)
Bytes4(buf, p) == SubSeq(buf, p + 1, p + 4)

(* ipc_envelope_encode into a buffer that is large enough. *)
EnvelopeEncode(e) ==
    Le32(20) \o Le16(14) \o Le16(24) \o Le16(4) \o Le16(8) \o Le16(12) \o Le16(16) \o Le16(20)
    \o <<0, 0>> \o Le32(16) \o e.source \o e.target \o <<e.kind, 0, 0, 0>>
    \o Le32(8) \o e.corr \o Le32(Len(e.payload)) \o e.payload

Zero4 == <<0, 0, 0, 0>>

(* field_at: the position of a field, -1 if it is absent. *)
FieldAt(buf, table, voff, size) ==
    IF voff = 0 \/ table + voff > Len(buf) - size THEN -1 ELSE table + voff

(* slot_voff *)
SlotVoff(buf, vt, vtLen, id) ==
    IF vtLen < 6 + 2 * id THEN 0 ELSE Rd16(buf, vt + 4 + 2 * id)

VtableFits(buf, vt, vtLen) == vt + vtLen <= Len(buf)

(* ipc_envelope_decode.  reads is what it reads: <<position, size>>.  The       *)
(* bounds of a read are checked before it is made: what is behind a failed      *)
(* check is not evaluated.                                                      *)
EnvelopeDecode(buf) ==
    LET n == Len(buf)
        root == Rd32(buf, 0)
        soff == Rd32(buf, root)
        vt == root - soff
        vtLen == Rd16(buf, vt)
        slotReads == {<<vt + 4 + 2 * id, 2>> : id \in {i \in 0 .. 4 : vtLen >= 6 + 2 * i}}
        inBuf(r) == r[1] >= 0 /\ r[1] + r[2] <= n
        headReads == {<<0, 4>>, <<root, 4>>, <<vt, 2>>} \cup slotReads
        field(id, size) == FieldAt(buf, root, SlotVoff(buf, vt, vtLen, id), size)
        word(p) == IF p < 0 THEN Zero4 ELSE Bytes4(buf, p)
        pl == field(3, 4)
        hdr == pl + Rd32(buf, pl)
        vlen == Rd32(buf, hdr)
        view(payload) ==
            [ok |-> TRUE, inBounds |-> TRUE, source |-> word(field(0, 4)),
             target |-> word(field(1, 4)),
             kind |-> IF field(2, 1) < 0 THEN 0 ELSE buf[field(2, 1) + 1],
             corr |-> word(field(4, 4)), payload |-> payload]
        refused == [ok |-> FALSE, inBounds |-> TRUE]
    IN  IF n < 8 \/ root < 4 \/ root > n - 4 THEN refused
        ELSE IF soff > root \/ vt > n - 4 THEN refused
        ELSE IF ~VtableFits(buf, vt, vtLen) THEN refused
        ELSE IF \E r \in headReads : ~inBuf(r) THEN [ok |-> TRUE, inBounds |-> FALSE]
        ELSE IF pl < 0 THEN view(<< >>)
        ELSE IF Rd32(buf, pl) = 0 \/ Rd32(buf, pl) > n - 4 - pl THEN refused
        ELSE IF vlen > n - 4 - hdr THEN refused
        ELSE view(SubSeq(buf, hdr + 5, hdr + 4 + vlen))

-----------------------------------------------------------------------------
(* sha256 of polyfill_load.c: the blocks of 64 after the whole ones, byte by    *)
(* byte: 7 for the data, 128, zeros and the length in bits (two bytes of it    *)
(* are enough here).                                                            *)

TailLen(rem) == IF rem < 56 THEN 64 ELSE 128

Sha256Tail(len) ==
    LET rem == len % 64
        tailLen == TailLen(rem)
        bits == len * 8
    IN  [i \in 1 .. tailLen |->
            IF i = tailLen THEN bits % 256
            ELSE IF i = tailLen - 1 THEN bits \div 256
            ELSE IF i > tailLen - 8 THEN 0
            ELSE IF i <= rem THEN 7
            ELSE IF i = rem + 1 THEN 128 ELSE 0]

-----------------------------------------------------------------------------
(* rsa_der_len_bytes: how long the encoding of a length is. *)

DerLenBytes(len) == IF len < 128 THEN 1 ELSE IF len < 256 THEN 2 ELSE IF len < 65536 THEN 3 ELSE 4

(* rsa_der_write_len *)
DerWriteLen(len) ==
    IF len < 128 THEN <<len>>
    ELSE IF len < 256 THEN <<129, len>>
    ELSE IF len < 65536 THEN <<130, len \div 256, len % 256>>
    ELSE <<131, len \div 65536, (len \div 256) % 256, len % 256>>

AlgId == <<48, 13, 6, 9, 42, 134, 72, 134, 247, 13, 1, 1, 1, 5, 0>>

(* rsa_pkcs8_wrap of a key of len bytes: the sizes it computes, and the bytes it *)
(* puts, from the back, before the key.  at is where the first of them lies.     *)
Pkcs8Wrap(len, outSize) ==
    LET inner == 3 + Len(AlgId) + 1 + DerLenBytes(len) + len
        total == 1 + DerLenBytes(inner) + inner
        head == <<48>> \o DerWriteLen(inner) \o <<2, 1, 0>> \o AlgId \o <<4>> \o DerWriteLen(len)
    IN  IF total > outSize THEN Bad
        ELSE [ok |-> TRUE, total |-> total, head |-> head, at |-> total - len - Len(head)]

-----------------------------------------------------------------------------
(* bridge_validate_path; BS is a backslash. *)
ValidatePath(p) ==
    /\ p # << >>
    /\ ~\E i \in 1 .. Len(p) - 1 :
           p[i] = "." /\ p[i + 1] = "." /\ (i + 1 < Len(p) => p[i + 2] \in {"/", "BS"})

-----------------------------------------------------------------------------
(* js_pal_native_aes_crypt and js_pal_native_aes_kw, by sizes: what is announced *)
(* to the cipher, what is allocated, what the cipher writes.                     *)

BlockSize == 16

AesOutLen(mode, encrypt, n, tag) ==
    CASE mode = "GCM" -> IF encrypt THEN n + tag ELSE n - tag
      [] mode = "CBC" -> n + BlockSize
      [] OTHER -> n

(* mbedtls: GCM appends and takes off the tag, CBC pads to the next block and    *)
(* puts the padding out before it is taken off.  pad is the padding found.       *)
CipherRun(mode, encrypt, n, tag, pad, outLen) ==
    CASE mode = "GCM" -> LET m == IF encrypt THEN n + tag ELSE n - tag
                         IN  [ok |-> outLen >= m, touched |-> m, len |-> m]
      [] mode = "CBC" -> IF encrypt THEN LET m == (n \div BlockSize + 1) * BlockSize
                                         IN  [ok |-> TRUE, touched |-> m, len |-> m]
                         ELSE [ok |-> n > 0 /\ n % BlockSize = 0, touched |-> n, len |-> n - pad]
      [] OTHER -> [ok |-> TRUE, touched |-> n, len |-> n]

AesCrypt(mode, encrypt, n, tag, pad) ==
    IF tag \notin 1 .. 16 \/ (mode = "GCM" /\ ~encrypt /\ n < tag) THEN Bad
    ELSE LET outLen == AesOutLen(mode, encrypt, n, tag)
             run == CipherRun(mode, encrypt, n, tag, pad, outLen)
         IN  IF ~run.ok THEN Bad
             ELSE [ok |-> TRUE, fits |-> run.touched <= outLen + 16, len |-> run.len]

AesKw(wrap, n) ==
    IF n < 16 \/ n % 8 # 0 THEN Bad
    ELSE LET m == IF wrap THEN n + 8 ELSE n - 8
         IN  [ok |-> TRUE, fits |-> m <= n + 8, len |-> m]

-----------------------------------------------------------------------------
(* Numbers of a curve as big-endian bytes; mpi_write_binary puts no zero first. *)

CoordLen(curve) == CASE curve = "P-256" -> 32 [] curve = "P-384" -> 48 [] curve = "P-521" -> 66
Zeros(n) == [i \in 1 .. n |-> 0]

MpiWritePadded(x, len) == IF Len(x) > len THEN Bad ELSE [ok |-> TRUE, bytes |-> Zeros(len - Len(x)) \o x]

(* mbedtls_mpi_read_binary *)
MpiRead(bytes) ==
    LET nonzero == {i \in DOMAIN bytes : bytes[i] # 0}
    IN  IF nonzero = {} THEN << >> ELSE SubSeq(bytes, Min(nonzero), Len(bytes))

EcdsaSign(r, s, c) ==
    LET a == MpiWritePadded(r, c)
        b == MpiWritePadded(s, c)
    IN  IF ~a.ok \/ ~b.ok THEN Bad ELSE [ok |-> TRUE, bytes |-> a.bytes \o b.bytes]

(* What nativeEcdsaVerify reads of a signature *)
EcdsaVerifyReads(pub, sig, c) ==
    IF Len(pub) # 2 * c + 1 \/ Len(sig) # 2 * c THEN Bad
    ELSE [ok |-> TRUE, r |-> MpiRead(SubSeq(sig, 1, c)), s |-> MpiRead(SubSeq(sig, c + 1, 2 * c))]

(* nativeEcGenerate: the length of the private key in four bytes, the two keys *)
EcGenerate(d, pub, c) ==
    LET k == MpiWritePadded(d, c) IN
    IF ~k.ok THEN Bad ELSE [ok |-> TRUE, bytes |-> <<0, 0, c \div 256, c % 256>> \o k.bytes \o pub]

(* generateKey of crypto-subtle.js *)
UnpackEcKey(packed) ==
    LET n == packed[3] * 256 + packed[4]
    IN  [priv |-> SubSeq(packed, 5, 4 + n), pub |-> SubSeq(packed, 5 + n, Len(packed))]

-----------------------------------------------------------------------------
(* wasm3_module_custom_sections *)

(* The LEB128 number before position end, p being the first byte: at most five   *)
(* bytes, seven bits of each; ends is FALSE when the bytes run out.              *)
Leb(buf, p, end) ==
    LET stop == {k \in 1 .. 5 : p + k - 1 <= end /\ (k = 5 \/ buf[p + k - 1] < 128)}
        n == IF stop = {} THEN end - p + 1 ELSE Min(stop)
        bits(k) == IF k <= n THEN buf[p + k - 1] % 128 ELSE 0
    IN  [ends |-> stop # {}, next |-> p + n,
         val |-> IF bits(3) > 3 \/ bits(4) # 0 \/ bits(5) % 16 # 0 THEN TooBig
                 ELSE bits(1) + 128 * bits(2) + 16384 * bits(3)]

(* Of a custom section of that name, the bytes behind the name *)
SectionContent(buf, p, size, name) ==
    LET sn == Leb(buf, p, p + size - 1)
    IN  IF sn.val = Len(name) /\ sn.next + sn.val - 1 <= p + size - 1
           /\ SubSeq(buf, sn.next, sn.next + sn.val - 1) = name
        THEN <<SubSeq(buf, sn.next + sn.val, p + size - 1)>> ELSE << >>

CustomSections(buf, name) ==
    LET end == Len(buf)
        turn(s, i) ==
            IF s.done \/ s.p + 1 > end THEN [s EXCEPT !.done = TRUE]
            ELSE LET size == Leb(buf, s.p + 1, end) IN
                 IF ~size.ends \/ size.next + size.val - 1 > end THEN [s EXCEPT !.done = TRUE]
                 ELSE [p |-> size.next + size.val, done |-> FALSE,
                       found |-> s.found \o IF buf[s.p] = 0
                                            THEN SectionContent(buf, size.next, size.val, name)
                                            ELSE << >>]
    IN  FoldLeft(turn, [p |-> 9, done |-> FALSE, found |-> << >>], [i \in 1 .. end |-> i]).found

-----------------------------------------------------------------------------
(* Deflate data, its wrappers and the loops that drive miniz *)

CONSTANTS
    LoopGuard,      \* turns after which a loop gives up (100000 in the code)
    PushMin,        \* smallest output buffer of a push
    InflateMin,     \* smallest output buffer of raw_inflate
    Window,         \* bytes miniz decodes before it hands them out
    Block           \* bytes miniz compresses as one block

ASSUME DeflateAssumption ==
    /\ LoopGuard \in Nat /\ {PushMin, InflateMin, Window, Block} \subseteq Nat \ {0}

Ceil(a, b) == (a + b - 1) \div b
Turns == [i \in 1 .. LoopGuard |-> i]

-----------------------------------------------------------------------------
(* The wrappers.  A format has sizes of header and trailer. *)

WrapSizes(fmt) ==
    CASE fmt = "deflate-raw" -> <<0, 0>> [] fmt = "deflate" -> <<2, 4>> [] fmt = "gzip" -> <<10, 8>>

WrapHeader(fmt) ==
    CASE fmt = "deflate-raw" -> << >>
      [] fmt = "deflate" -> <<120, 1>>
      [] fmt = "gzip" -> <<31, 139, 8, 0, 0, 0, 0, 0, 0, 255>>

(* js_pal_native_compress of inLen bytes that deflate to raw.  Every format but *)
(* zlib gets CRC and length written behind the data, deflate-raw too, where     *)
(* they lie behind the result.                                                  *)
NativeCompress(fmt, raw, bound, adler, crc, inLen) ==
    LET trailer == IF fmt = "deflate" THEN adler ELSE crc \o Le32(inLen)
        all == WrapHeader(fmt) \o raw \o trailer
    IN  [bufSize |-> WrapSizes(fmt)[1] + bound + WrapSizes(fmt)[2],
         written |-> Len(all),
         out |-> SubSeq(all, 1, WrapSizes(fmt)[1] + Len(raw) + WrapSizes(fmt)[2])]

Bit(b, v) == (b \div v) % 2 = 1
(* The position behind the NUL that ends a text at off, Len(b) + 1 if none does. *)
PastNul(b, off) ==
    LET nuls == {i \in off + 1 .. Len(b) : b[i] = 0}
    IN  IF nuls = {} THEN Len(b) + 1 ELSE CHOOSE i \in nuls : \A j \in nuls : i <= j

(* Where the deflate data of a gzip file starts, -1 if its header does not end   *)
(* before the trailer.                                                           *)
GzipStart(b) ==
    LET n == Len(b)
        extra == IF ~Bit(b[4], 4) THEN 10
                 ELSE IF 12 > n THEN n + 1 ELSE 12 + Rd16(b, 10)
        name == IF extra > n \/ ~Bit(b[4], 8) THEN extra ELSE PastNul(b, extra)
        comment == IF name > n \/ ~Bit(b[4], 16) THEN name ELSE PastNul(b, name)
        hcrc == IF comment > n \/ ~Bit(b[4], 2) THEN comment ELSE comment + 2
    IN  IF hcrc + 8 > n THEN -1 ELSE hcrc

(* js_pal_native_decompress up to raw_inflate: the deflate data and what the     *)
(* result is checked against.                                                    *)
NativeDecompress(fmt, b) ==
    LET n == Len(b)
    IN  CASE fmt = "deflate-raw" -> [ok |-> TRUE, raw |-> b, check |-> << >>, size |-> << >>]
          [] fmt = "deflate" ->
               IF n < 6 \/ b[1] % 16 # 8 \/ b[1] \div 16 > 7 \/ (b[1] * 256 + b[2]) % 31 # 0 THEN Bad
               ELSE [ok |-> TRUE, raw |-> SubSeq(b, 3, n - 4), check |-> SubSeq(b, n - 3, n), size |-> << >>]
          [] fmt = "gzip" ->
               IF n < 18 \/ b[1] # 31 \/ b[2] # 139 \/ GzipStart(b) = -1 THEN Bad
               ELSE [ok |-> TRUE, raw |-> SubSeq(b, GzipStart(b) + 1, n - 8),
                     check |-> SubSeq(b, n - 7, n - 4), size |-> SubSeq(b, n - 3, n)]

-----------------------------------------------------------------------------
(* mz_deflate with room for output: d has input not taken yet, input taken and   *)
(* not compressed, and output that did not fit.  Output left over comes first;   *)
(* it ends the call if it fills the room or there is no input.  A flush ends     *)
(* what was taken with an empty block of 5 bytes.                                *)
MzDeflate(d, sync, room) ==
    LET left == IF d.queue < room THEN d.queue ELSE room
        r == room - left
        all == d.held + d.in
        blocks == IF all \div Block < Ceil(r, Block) THEN all \div Block ELSE Ceil(r, Block)
        rest == all - blocks * Block
        emitted == blocks * Block + (IF sync THEN rest + 5 ELSE 0)
        fits == IF emitted < r THEN emitted ELSE r
    IN  IF d.queue > 0 /\ (r = 0 \/ d.in = 0)
        THEN [ok |-> TRUE, n |-> left, d |-> [d EXCEPT !.queue = @ - left]]
        ELSE IF d.in = 0 /\ ~sync THEN [ok |-> FALSE, n |-> 0, d |-> d]
        ELSE IF blocks > 0 /\ blocks * Block >= r
        THEN [ok |-> TRUE, n |-> room, d |-> [in |-> rest, held |-> 0, queue |-> blocks * Block - r]]
        ELSE [ok |-> TRUE, n |-> left + fits,
              d |-> [in |-> 0, held |-> IF sync THEN 0 ELSE rest, queue |-> emitted - fits]]

Larger(a, b) == IF a > b THEN a ELSE b

(* Faulty variant: the loop ends as soon as the input is taken. *)
EagerDeflateTurn(s, sync) ==
    LET cap == IF s.out >= s.cap THEN 2 * s.cap ELSE s.cap
        r == MzDeflate(s.d, sync, cap - s.out)
        out == s.out + r.n
    IN  [d |-> r.d, cap |-> cap, out |-> out,
         st |-> IF ~r.ok THEN "error" ELSE IF r.d.in = 0 THEN "done" ELSE "run"]

(* One turn of the loop of js_pal_deflate_push. *)
DeflateTurn(s, sync) ==
    LET cap == IF s.out >= s.cap THEN 2 * s.cap ELSE s.cap
        r == MzDeflate(s.d, sync, cap - s.out)
        out == s.out + r.n
    IN  [d |-> r.d, cap |-> cap, out |-> out,
         st |-> IF ~r.ok THEN "error"
                ELSE IF r.d.in = 0 /\ (~sync \/ out < cap) THEN "done" ELSE "run"]

(* js_pal_deflate_push of n bytes. *)
DeflatePush(d, n, sync) ==
    FoldLeft(LAMBDA s, i : IF s.st = "run" THEN DeflateTurn(s, sync) ELSE s,
             [d |-> [d EXCEPT !.in = n], cap |-> Larger(n + n \div 2 + 64, PushMin), out |-> 0, st |-> "run"],
             Turns)

-----------------------------------------------------------------------------
(* mz_inflate with room for output: todo is what the input decodes to, pend what *)
(* is decoded and not handed out, final that the stream ends with the input, bad  *)
(* that it is damaged.                                                           *)
MzInflate(i, room) ==
    LET taken == IF i.todo < Window * Ceil(room, Window) THEN i.todo ELSE Window * Ceil(room, Window)
        have == IF i.pend > 0 THEN i.pend ELSE taken
        n == IF have < room THEN have ELSE room
        j == [i EXCEPT !.pend = have - n, !.todo = IF i.pend > 0 THEN @ ELSE @ - taken]
    IN  IF i.bad THEN [i |-> i, n |-> 0, ret |-> "data"]
        ELSE [i |-> j, n |-> n,
         ret |-> IF j.todo = 0 /\ j.pend = 0 /\ i.final THEN "end"
                 ELSE IF i.todo = 0 /\ i.pend = 0 THEN "buf" ELSE "ok"]

(* One turn of the loop of js_pal_inflate_push. *)
InflateTurn(s) ==
    LET cap == IF s.out >= s.cap THEN 2 * s.cap ELSE s.cap
        r == MzInflate(s.i, cap - s.out)
    IN  [i |-> r.i, cap |-> cap, out |-> s.out + r.n,
         st |-> IF r.ret = "data" THEN "error"
                ELSE IF r.ret = "end" \/ (r.i.todo = 0 /\ (r.ret = "buf" \/ r.n = 0)) THEN "done" ELSE "run"]

(* js_pal_inflate_push of n bytes that decode to todo. *)
InflatePush(i, n, todo) ==
    FoldLeft(LAMBDA s, k : IF s.st = "run" THEN InflateTurn(s) ELSE s,
             [i |-> [i EXCEPT !.todo = todo], cap |-> Larger(4 * n + 64, PushMin), out |-> 0, st |-> "run"],
             Turns)

(* One turn of the loop of raw_inflate: no progress is an error. *)
InflateStep(s) ==
    LET r == MzInflate(s.i, s.size - s.out)
        out == s.out + r.n
    IN  IF r.ret \in {"buf", "data"}
        THEN [s EXCEPT !.st = IF r.ret = "data" \/ s.i.todo = 0 THEN "corrupt" ELSE "error"]
        ELSE [i |-> r.i, out |-> out, st |-> IF r.ret = "end" THEN "done" ELSE "run",
              size |-> IF r.ret # "end" /\ out = s.size THEN 2 * s.size ELSE s.size]

(* raw_inflate of n bytes that decode to todo; final if the stream is whole. *)
RawInflate(n, todo, final, bad) ==
    LET s == FoldLeft(LAMBDA t, k : IF t.st = "run" THEN InflateStep(t) ELSE t,
                      [i |-> [todo |-> todo, pend |-> 0, final |-> final, bad |-> bad],
                       size |-> Larger(4 * n, InflateMin), out |-> 0, st |-> "run"],
                      Turns)
    IN  [st |-> IF s.st = "run" THEN "corrupt" ELSE s.st, out |-> s.out]
=============================================================================
