---------------------------- MODULE NativeCalls -----------------------------
(***************************************************************************)
(* The deflate and inflate contexts of src/src/ext_compress.c: JS objects   *)
(* of two classes, each with a compress_stream_ctx that deflateFree or       *)
(* inflateFree releases, or the finalizer of the class.                      *)
(*                                                                         *)
(* The native functions of the crypto extension (ext_crypto.c): what each  *)
(* of them holds when one of its steps fails, and the random generator that *)
(* a runtime makes at the first use.                                        *)
(*                                                                         *)
(* A function is the sequence of its steps: one that gets a resource or     *)
(* fails (Get), one that checks or computes or fails (Check), one that      *)
(* initialises (Init) or releases (GiveUp) and cannot fail, and the call of   *)
(* ec_rng (Rng).  A step that fails names what the code releases before it  *)
(* returns.  "ec" stands for the group, the point and the numbers that are  *)
(* initialised and freed together.  Steps that one mode of a function skips *)
(* are steps that succeed.  The calls of a runtime do not overlap.          *)
(***************************************************************************)
EXTENDS Integers, Sequences, FiniteSets

CONSTANTS ZHandles,     \* JS objects
          MaxZStreams   \* bound on the contexts allocated

ASSUME ZAssumption == MaxZStreams \in Nat

ZKinds == {"deflate", "inflate"}

VARIABLES
    zobj,       \* of each object: its class, "none" before and "gone" after, and its opaque, 0 for NULL
    zmem,       \* the contexts: class, inited, how often the stream was ended and the memory freed
    zused       \* history: contexts that a push worked with after they were freed, or of the other class

zVars == <<zobj, zmem, zused>>

ZInit == /\ zobj = [h \in ZHandles |-> [kind |-> "none", opaque |-> 0]]
         /\ zmem = << >> /\ zused = {}

-----------------------------------------------------------------------------
(* JS_GetOpaque: the context, if the object is of the class. *)
Opaque(h, kind) == IF zobj[h].kind = kind THEN zobj[h].opaque ELSE 0

Fresh(kind, inited, ended, freed) == [kind |-> kind, inited |-> inited, ended |-> ended, freed |-> freed]
Released(m) == [m EXCEPT !.ended = @ + (IF m.inited THEN 1 ELSE 0), !.inited = FALSE, !.freed = @ + 1]

(* js_pal_deflate_create, js_pal_inflate_create *)
ZCreate(h, kind) ==
    /\ zobj[h].kind = "none" /\ Len(zmem) < MaxZStreams
    /\ zmem' = Append(zmem, Fresh(kind, TRUE, 0, 0))
    /\ zobj' = [zobj EXCEPT ![h] = [kind |-> kind, opaque |-> Len(zmem')]]
    /\ UNCHANGED zused

(* The stream cannot be set up, or then the object cannot be made. *)
ZCreateFails(kind, inited) ==
    /\ Len(zmem) < MaxZStreams
    /\ zmem' = Append(zmem, IF inited THEN Released(Fresh(kind, TRUE, 0, 0)) ELSE Fresh(kind, FALSE, 0, 1))
    /\ UNCHANGED <<zobj, zused>>

(* compress_get_handle, 0 where it refuses. *)
GetHandle(h, kind) ==
    IF Opaque(h, kind) # 0 /\ zmem[Opaque(h, kind)].inited THEN Opaque(h, kind) ELSE 0

(* deflatePush or inflatePush with any object. *)
ZPush(h, kind) ==
    LET c == GetHandle(h, kind) IN
    /\ c # 0
    /\ zused' = IF zmem[c].freed > 0 \/ zmem[c].kind # kind THEN zused \cup {c} ELSE zused
    /\ UNCHANGED <<zobj, zmem>>

(* js_pal_deflate_free, js_pal_inflate_free with any object, more than once. *)
ZFree(h, kind) ==
    /\ Opaque(h, kind) # 0
    /\ zmem' = [zmem EXCEPT ![Opaque(h, kind)] = Released(@)]
    /\ zobj' = [zobj EXCEPT ![h].opaque = 0]
    /\ UNCHANGED zused

(* compress_deflate_finalizer, compress_inflate_finalizer: nothing refers to the *)
(* object any more.                                                              *)
ZFinalize(h) ==
    /\ zobj[h].kind \in ZKinds
    /\ zmem' = IF zobj[h].opaque = 0 THEN zmem ELSE [zmem EXCEPT ![zobj[h].opaque] = Released(@)]
    /\ zobj' = [zobj EXCEPT ![h] = [kind |-> "gone", opaque |-> 0]]
    /\ UNCHANGED zused

ZNext ==
    \/ \E h \in ZHandles, kind \in ZKinds : ZCreate(h, kind) \/ ZPush(h, kind) \/ ZFree(h, kind)
    \/ \E kind \in ZKinds, inited \in BOOLEAN : ZCreateFails(kind, inited)
    \/ \E h \in ZHandles : ZFinalize(h)

-----------------------------------------------------------------------------
(* Of ext_compress.c ("a handle that goes out of scope cannot leak"): a context  *)
(* is freed once, its stream is ended with it, and it is freed exactly when no   *)
(* object leads to it, whoever frees it first and whatever object a script       *)
(* passes; no push works with a freed one or one of the other class.             *)
StreamEndsOnce ==
    /\ zused = {}
    /\ \A c \in DOMAIN zmem :
          /\ zmem[c].freed <= 1 /\ zmem[c].ended <= zmem[c].freed
          /\ zmem[c].freed = 1 => ~zmem[c].inited
          /\ zmem[c].freed = 0 <=> \E h \in ZHandles : zobj[h].opaque = c

-----------------------------------------------------------------------------
(* The native functions of the crypto extension *)

CONSTANT MaxNatives   \* bound: calls of native functions

VARIABLES
    ncall,        \* the call under way: [fn, at]; fn is "none" between calls
    held,         \* resources the call has got and not released
    left,         \* history: <<function, resource>> still held at a return
    misfreed,     \* history: a resource was released that was not held
    rng,          \* rt->ec_entropy, rt->ec_drbg: "null", "raw" or "init"; ready
    rawFreed,     \* history: mbedtls_entropy_free of memory never initialised
    nativeCalls   \* calls so far

cryptoVars == <<ncall, held, left, misfreed, rng, rawFreed, nativeCalls>>

Get(r, undo) == [kind |-> "get", what |-> {r}, undo |-> undo]
Check(undo) == [kind |-> "check", what |-> {}, undo |-> undo]
Initialise(r) == [kind |-> "init", what |-> {r}, undo |-> {}]
GiveUp(rs) == [kind |-> "drop", what |-> rs, undo |-> {}]
Rng == [kind |-> "rng", what |-> {}, undo |-> {}]

-----------------------------------------------------------------------------
(* A hash's name is matched and let go, then its md_info is looked up. *)
HashName == <<Check({"name"}), GiveUp({"name"}), Check({})>>
Computed == <<Get("out", {}), Check({"out"}), GiveUp({"out"})>>

DigestSteps == <<Get("name", {}), Check({"name"})>> \o HashName \o Computed
HmacSteps == <<Get("name", {}), Check({"name"}), Check({"name"})>> \o HashName \o Computed

(* password, salt, iterations; then the name, dkLen *)
Pbkdf2Steps == <<Check({}), Check({}), Check({}), Get("name", {}), Check({"name"})>>
               \o HashName \o Computed

(* The name is let go once the bytes are taken, and compared after that. *)
HkdfSteps == <<Get("name", {}), Check({"name"}), GiveUp({"name"}), Check({}), Check({}), Check({})>>
             \o Computed

(* Faulty variant: a vector that the cipher refuses leaves the cipher behind. *)
LeakyAesSteps ==
    <<Check({}), Check({}), Check({}), Get("name", {}), Check({"name"}), Check({}),
      Check({"name"}), GiveUp({"name"}), Check({}), Get("cipher", {}), Check({"cipher"}),
      Check({"cipher"}), Check({"cipher"}), Get("out", {"cipher"}),
      Check({"out"}), Check({"out", "cipher"}), GiveUp({"cipher"}), Check({"out"}), GiveUp({"out"})>>

(* data, key, iv; the mode's name, aad, tagLen, mode; key length, setup, setkey, *)
(* padding (CBC), length (GCM); out_buf; iv and reset (CBC, CTR); the operation. *)
AesSteps ==
    <<Check({}), Check({}), Check({}), Get("name", {}), Check({"name"}), Check({}),
      Check({"name"}), GiveUp({"name"}), Check({}), Get("cipher", {}), Check({"cipher"}),
      Check({"cipher"}), Check({"cipher"}), Get("out", {"cipher"}),
      Check({"out", "cipher"}), Check({"out", "cipher"}), GiveUp({"cipher"}), Check({"out"}),
      GiveUp({"out"})>>

AesKwSteps == <<Check({}), Check({}), Check({}), Initialise("kw"), Check({"kw"}), Get("out", {"kw"}),
                GiveUp({"kw"}), Check({"out"}), GiveUp({"out"})>>

MatchedName == <<Get("name", {}), Check({"name"}), GiveUp({"name"})>>

(* A key pair that cannot be made returns without out. *)
EcGenerateSteps == MatchedName \o <<Rng, Initialise("ec"), Get("out", {"ec"}), Check({"ec"}),
                              Check({"ec", "out"}), GiveUp({"out"}), GiveUp({"ec"})>>

EcdhSteps == MatchedName \o <<Check({}), Rng, Initialise("ec"), Check({"ec"}), Check({"ec"}),
                        Get("out", {"ec"}), Check({"out", "ec"}), GiveUp({"out"}), GiveUp({"ec"})>>

(* The hash's name, the curve's, the bytes; the digest, the group *)
EcdsaFirst == MatchedName \o <<Get("name", {}), GiveUp({"name"}), Check({}), Check({}), Rng,
                         Initialise("ec"), Check({"ec"}), Check({"ec"})>>
EcdsaSignSteps == EcdsaFirst \o <<Check({"ec"}), Get("out", {"ec"}), Check({"out", "ec"}),
                                  GiveUp({"out"}), GiveUp({"ec"})>>
EcdsaVerifySteps == EcdsaFirst \o <<Check({"ec"}), GiveUp({"ec"})>>

RsaGenerateSteps ==
    <<Check({}), Check({}), Rng, Initialise("pk"), Check({"pk"}), Get("pub", {"pk"}),
      Get("pk1", {"pub", "pk"}), GiveUp({"pk"}), Check({"pub", "pk1"}), Get("priv", {"pub", "pk1"}),
      Check({"pub", "pk1", "priv"}), Check({"pub", "pk1", "priv"}), GiveUp({"pub", "pk1", "priv"})>>

RsaName == <<Get("name", {}), GiveUp({"name"}), Check({})>>
RsaKey == <<Initialise("pk"), Check({"pk"})>>
RsaOut == <<Get("out", {"pk"}), GiveUp({"pk"}), Check({"out"}), GiveUp({"out"})>>

RsaOaepSteps == <<Check({}), Check({})>> \o RsaName \o <<Rng>> \o RsaKey \o RsaOut
RsaSignSteps == <<Check({})>> \o RsaName \o <<Rng, Check({})>> \o RsaKey \o RsaOut

(* A signature of another length is no error: the answer is false. *)
RsaVerifySteps == <<Check({})>> \o RsaName \o <<Check({})>> \o RsaKey \o <<Check({"pk"}), GiveUp({"pk"})>>

Natives == {"digest", "hmac", "pbkdf2", "hkdf", "aes", "aesKw", "ecGenerate", "ecdh", "ecdsaSign",
            "ecdsaVerify", "rsaGenerate", "rsaOaep", "rsaSign", "rsaVerify"}

Steps == [digest |-> DigestSteps, hmac |-> HmacSteps, pbkdf2 |-> Pbkdf2Steps, hkdf |-> HkdfSteps,
          aes |-> AesSteps, aesKw |-> AesKwSteps, ecGenerate |-> EcGenerateSteps, ecdh |-> EcdhSteps,
          ecdsaSign |-> EcdsaSignSteps, ecdsaVerify |-> EcdsaVerifySteps,
          rsaGenerate |-> RsaGenerateSteps, rsaOaep |-> RsaOaepSteps, rsaSign |-> RsaSignSteps,
          rsaVerify |-> RsaVerifySteps]

-----------------------------------------------------------------------------
NoNative == [fn |-> "none", at |-> 0]
NoRng == [entropy |-> "null", drbg |-> "null", ready |-> FALSE]

CryptoInit ==
    /\ ncall = NoNative /\ held = {} /\ left = {} /\ misfreed = FALSE
    /\ rng = NoRng /\ rawFreed = FALSE /\ nativeCalls = 0

Step == Steps[ncall.fn][ncall.at]
AtStep(kinds) == ncall.fn # "none" /\ Step.kind \in kinds

(* What is still held at a return stays behind. *)
NativeReturns(kept) ==
    /\ ncall' = NoNative /\ held' = {}
    /\ left' = left \cup ({ncall.fn} \X kept)

GoesOn(kept) ==
    IF ncall.at = Len(Steps[ncall.fn]) THEN NativeReturns(kept)
    ELSE ncall' = [ncall EXCEPT !.at = @ + 1] /\ held' = kept /\ UNCHANGED left

CallNative(fn) ==
    /\ ncall.fn = "none" /\ nativeCalls < MaxNatives
    /\ ncall' = [fn |-> fn, at |-> 1] /\ nativeCalls' = nativeCalls + 1
    /\ UNCHANGED <<held, left, misfreed, rng, rawFreed>>

StepSucceeds ==
    /\ AtStep({"get", "check", "init", "drop"})
    /\ IF Step.kind = "drop"
       THEN GoesOn(held \ Step.what) /\ misfreed' = (misfreed \/ ~(Step.what \subseteq held))
       ELSE GoesOn(held \cup Step.what) /\ UNCHANGED misfreed
    /\ UNCHANGED <<rng, rawFreed, nativeCalls>>

StepFails ==
    /\ AtStep({"get", "check"})
    /\ NativeReturns(held \ Step.undo)
    /\ misfreed' = (misfreed \/ ~(Step.undo \subseteq held))
    /\ UNCHANGED <<rng, rawFreed, nativeCalls>>

(* ec_rng, the generator at hand or seeded now *)
EcRngReady ==
    /\ AtStep({"rng"}) /\ GoesOn(held)
    /\ rng' = IF rng.ready THEN rng ELSE [entropy |-> "init", drbg |-> "init", ready |-> TRUE]
    /\ UNCHANGED <<misfreed, rawFreed, nativeCalls>>

(* ec_rng: an allocation fails, or both contexts are initialised and the seed fails. *)
EcRngFails(entropy, drbg) ==
    /\ AtStep({"rng"}) /\ NativeReturns(held) /\ ~rng.ready
    /\ rng.entropy # "null" => entropy
    /\ rng.drbg # "null" => drbg
    /\ LET made(now, got) == IF entropy /\ drbg THEN "init"
                             ELSE IF now = "null" /\ got THEN "raw" ELSE now
       IN  rng' = [rng EXCEPT !.entropy = made(@, entropy), !.drbg = made(@, drbg)]
    /\ UNCHANGED <<misfreed, rawFreed, nativeCalls>>

(* crypto_ext_destroy, for one context of a runtime whose others go on *)
CryptoExtDestroy ==
    /\ ncall.fn = "none" /\ rng' = NoRng
    /\ rawFreed' = (rawFreed \/ "raw" \in {rng.entropy, rng.drbg})
    /\ UNCHANGED <<ncall, held, left, misfreed, nativeCalls>>

CryptoNext ==
    \/ \E fn \in Natives : CallNative(fn)
    \/ StepSucceeds \/ StepFails \/ EcRngReady \/ CryptoExtDestroy
    \/ \E e, d \in BOOLEAN : EcRngFails(e, d)

-----------------------------------------------------------------------------
CryptoTypeOK ==
    /\ ncall.fn \in Natives \cup {"none"}
    /\ ncall.fn # "none" => ncall.at \in 1 .. Len(Steps[ncall.fn])
    /\ held \subseteq {"name", "out", "cipher", "kw", "ec", "pk", "pub", "pk1", "priv"}
    /\ {rng.entropy, rng.drbg} \subseteq {"null", "raw", "init"}

(* Of every native function of ext_crypto.c: whichever of its steps fails, it    *)
(* releases nothing it does not hold, and it returns with nothing held, but for  *)
(* a refused tag length (the mode's name) and a key pair that cannot be made     *)
(* (the buffer).                                                                 *)
ExitsAddUp == ~misfreed /\ left \subseteq {<<"aes", "name">>, <<"ecGenerate", "out">>}

(* Of ec_rng and crypto_ext_destroy ("Per-runtime RNG ... Freed in                *)
(* crypto_ext_destroy"): a generator marked ready is there and was seeded, also   *)
(* for the contexts that live on after one of their runtime was destroyed.        *)
ReadyIsSeeded == rng.ready => rng.entropy = "init" /\ rng.drbg = "init"

(* Known not to hold, see the README. *)
(* No exit leaves anything behind.                                                *)
NothingLeft == left = {}

(* Known not to hold, see the README. *)
(* crypto_ext_destroy frees only contexts that ec_rng has initialised: a failed   *)
(* allocation of the second leaves the first as malloc returned it.               *)
FreedIsInitialised == ~rawFreed
=============================================================================
