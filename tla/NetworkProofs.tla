--------------------------- MODULE NetworkProofs ----------------------------
(***************************************************************************)
(* Proofs about the network: HTTP requests (HttpOp) and the TCP            *)
(* connections of scripts (TcpIo).  The parts are independent of each      *)
(* other.                                                                  *)
(***************************************************************************)
EXTENDS HttpOp, TcpIo, SequenceTheorems, FiniteSetTheorems,
        WellFoundedInduction, TLAPS

-----------------------------------------------------------------------------
(***************************************************************************)
(* Proofs about HttpOp, for any set of requests of any kind.                *)
(*                                                                         *)
(* An operation is unused, or under way, or over, or gone.  While it is     *)
(* under way nothing but the timer of the connection has been closed, and   *)
(* its phase says what libuv will call it back for (Phase).  When it is     *)
(* over its consumer was told (Told), and what keeps it is a close callback *)
(* or the resolver (Kept).  Between the two the counters of closes agree    *)
(* with the handles in libuv's closing queue (Shape).                       *)
(***************************************************************************)

Statuses == {"ok", "error", "cancelled"}

OpRecords ==
    [life : {"unused", "live", "freed"}, mode : {"plain", "stream"},
     scheme : {"http", "https", "tunnel"}, reqs : SUBSET Requests,
     reading : {"off", "tunnel", "hello", "body"},
     inits : SUBSET Handles, armed : SUBSET Handles, closing : SUBSET Handles,
     closes : SUBSET Handles, closes_pending : Nat, closes_uncounted : Nat,
     aborted : BOOLEAN, tearing_down : BOOLEAN, teardown_started : BOOLEAN,
     secured : BOOLEAN, sent : BOOLEAN, framing : Framings \cup {"none"},
     received : 0 .. BodyUnits, last : BOOLEAN, ends : Seq(Statuses), reentered : BOOLEAN]

(* How many handles a set has. *)
Num(S) == (IF "tcp" \in S THEN 1 ELSE 0) + (IF "connect_timer" \in S THEN 1 ELSE 0)
          + (IF "idle_timer" \in S THEN 1 ELSE 0)

Shape(r) ==
    /\ r.closes \subseteq r.closing /\ r.closing \subseteq r.inits
    /\ r.armed \subseteq r.inits \ (r.closing \cup {"tcp"})
    /\ "tcp" \in r.closing => r.reading = "off"
    /\ r.closes_pending + r.closes_uncounted = Num(r.closes) /\ r.closes_uncounted <= 1

Sound(r) ==
    r.mode = "stream" /\ r.scheme = "http" /\ r.ends = <<"ok">>
        => r.framing = "eof" \/ Complete(r)

(* Under way, whatever the phase. *)
Going(r) ==
    /\ r.life = "live" /\ ~r.tearing_down /\ ~r.teardown_started /\ r.ends = << >>
    /\ r.closing \subseteq {"connect_timer"} /\ r.closes_pending = 0

(* libuv has a connection and at most its timer. *)
Wired(r) == "tcp" \in r.inits /\ "idle_timer" \notin r.inits

Phase(r) ==
    \/ r.reqs = {"dns"} /\ r.inits = {} /\ r.reading = "off"
    \/ r.reqs = {"connect"} /\ Wired(r) /\ r.reading = "off"
    \/ r.reqs = {"write"} /\ Wired(r) /\ r.reading = "off" /\ r.armed = {} /\ r.scheme = "http"
    \/ r.reqs \subseteq {"connect_write"} /\ Wired(r) /\ r.reading = "tunnel" /\ r.armed = {}
    \/ r.reqs = {} /\ Wired(r) /\ r.reading = "hello" /\ r.armed = {}
    \/ /\ r.reqs = {} /\ "tcp" \in r.inits /\ r.reading = "body"
       /\ r.armed \subseteq {"idle_timer"}
       /\ r.mode = "plain" => "idle_timer" \notin r.inits

UnderWay(r) == Going(r) /\ Phase(r) /\ ~r.aborted

(* Told once, or again after it aborted inside a callback of its own. *)
Told(r) ==
    \/ Len(r.ends) = 1
    \/ Len(r.ends) = 2 /\ r.ends[1] = "cancelled" /\ r.reentered

Quiet(r) == Told(r) /\ r.armed = {} /\ r.reading = "off" /\ r.inits \subseteq r.closing

(* Who still calls back with an operation that is over. *)
Kept(r) ==
    \/ r.reqs = {"dns"} /\ r.inits = {} /\ r.mode = "stream" /\ r.aborted
    \/ /\ r.closes # {} /\ r.reqs \subseteq {"connect", "write", "connect_write"}
       /\ r.reqs # {} => "tcp" \in r.closes
       /\ r.reqs \subseteq {"connect"} \/ r.aborted

Over(r) == r.life = "live" /\ r.tearing_down /\ Quiet(r) /\ Kept(r)

Gone(r) == r.life = "freed" /\ Quiet(r) /\ r.reqs = {} /\ r.closes = {}

OpInv(r) ==
    /\ r \in OpRecords /\ Shape(r) /\ Sound(r)
    /\ r = Fresh \/ UnderWay(r) \/ Over(r) \/ Gone(r)

Registry ==
    /\ http_ops \in Seq(Ops) /\ active_stream \in Ops \cup {NoOp}
    /\ rt \in {"up", "abort", "down"}
    /\ \A i, j \in DOMAIN http_ops : http_ops[i] = http_ops[j] => i = j
    /\ \A i \in DOMAIN http_ops : Live(http_ops[i]) /\ op[http_ops[i]].mode = "stream"
    /\ active_stream # NoOp => Live(active_stream) /\ op[active_stream].mode = "stream"

HttpInv ==
    /\ op \in [Ops -> OpRecords] /\ \A o \in Ops : OpInv(op[o])
    /\ Registry

-----------------------------------------------------------------------------
(* Counting handles *)

LEMMA NumFacts ==
    ASSUME NEW S \in SUBSET Handles
    PROVE  /\ Num(S) \in 0 .. 3 /\ (Num(S) = 0 <=> S = {})
           /\ \A h \in Handles \ S : Num(S \cup {h}) = Num(S) + 1
           /\ \A h \in S : Num(S \ {h}) = Num(S) - 1
  BY DEF Num, Handles

-----------------------------------------------------------------------------
(* The operators on records, field by field *)

(* What no close changes. *)
Same(q, r) ==
    /\ q.life = r.life /\ q.mode = r.mode /\ q.scheme = r.scheme /\ q.reqs = r.reqs
    /\ q.inits = r.inits /\ q.aborted = r.aborted /\ q.tearing_down = r.tearing_down
    /\ q.teardown_started = r.teardown_started /\ q.framing = r.framing
    /\ q.received = r.received /\ q.last = r.last /\ q.reentered = r.reentered

LEMMA CloseHandleFields ==
    ASSUME NEW r \in OpRecords, NEW h \in Handles
    PROVE  /\ CloseHandle(r, h) \in OpRecords
           /\ Same(CloseHandle(r, h), r) /\ CloseHandle(r, h).ends = r.ends
           /\ CloseHandle(r, h).closing = r.closing \cup {h}
           /\ CloseHandle(r, h).closes = r.closes \cup {h}
           /\ CloseHandle(r, h).armed = r.armed \ {h}
           /\ CloseHandle(r, h).reading = IF h = "tcp" THEN "off" ELSE r.reading
           /\ CloseHandle(r, h).closes_pending =
                 IF r.tearing_down THEN r.closes_pending + 1 ELSE r.closes_pending
           /\ CloseHandle(r, h).closes_uncounted =
                 IF r.tearing_down THEN r.closes_uncounted ELSE r.closes_uncounted + 1
  <1>1. PICK cg \in SUBSET Handles, cs \in SUBSET Handles, ar \in SUBSET Handles :
            cg = r.closing \cup {h} /\ cs = r.closes \cup {h} /\ ar = r.armed \ {h}
    BY DEF OpRecords
  <1>2. PICK rd \in {"off", "tunnel", "hello", "body"} :
            rd = IF h = "tcp" THEN "off" ELSE r.reading
    BY DEF OpRecords
  <1>3. r.closes_pending \in Nat /\ r.closes_uncounted \in Nat
    BY DEF OpRecords
  <1>4. PICK p \in Nat, u \in Nat :
            /\ p = IF r.tearing_down THEN r.closes_pending + 1 ELSE r.closes_pending
            /\ u = IF r.tearing_down THEN r.closes_uncounted ELSE r.closes_uncounted + 1
    BY <1>3
  <1>5. CloseHandle(r, h) = [r EXCEPT !.closing = cg, !.closes = cs, !.armed = ar,
                                      !.reading = rd, !.closes_pending = p,
                                      !.closes_uncounted = u]
    BY <1>1, <1>2, <1>4 DEF CloseHandle
  <1>6. PICK q : q = CloseHandle(r, h)
    OBVIOUS
  <1>7. /\ q \in OpRecords /\ Same(q, r) /\ q.ends = r.ends /\ q.closing = cg
        /\ q.closes = cs /\ q.armed = ar /\ q.reading = rd /\ q.closes_pending = p
        /\ q.closes_uncounted = u
    <2>1. q = [r EXCEPT !.closing = cg, !.closes = cs, !.armed = ar,
                        !.reading = rd, !.closes_pending = p, !.closes_uncounted = u]
      BY <1>5, <1>6
    <2>2. q \in OpRecords
      BY <2>1 DEF OpRecords
    <2>3. /\ q.ends = r.ends /\ q.closing = cg
        /\ q.closes = cs /\ q.armed = ar /\ q.reading = rd /\ q.closes_pending = p
        /\ q.closes_uncounted = u
      BY <2>1 DEF OpRecords
    <2>4. Same(q, r)
      BY <2>1 DEF OpRecords, Same
    <2> QED
      BY <2>2, <2>3, <2>4
  <1> QED
    BY <1>1, <1>2, <1>4, <1>6, <1>7

LEMMA EndFields ==
    ASSUME NEW r \in OpRecords, NEW s \in Statuses
    PROVE  /\ End(r, s) \in OpRecords /\ Same(End(r, s), r)
           /\ End(r, s).ends = Append(r.ends, s)
           /\ End(r, s).closing = r.closing /\ End(r, s).closes = r.closes
           /\ End(r, s).armed = r.armed /\ End(r, s).reading = r.reading
           /\ End(r, s).closes_pending = r.closes_pending
           /\ End(r, s).closes_uncounted = r.closes_uncounted
  <1>1. PICK e \in Seq(Statuses) : e = Append(r.ends, s)
    <2>1. Append(r.ends, s) \in Seq(Statuses)
      BY DEF OpRecords
    <2> QED
      BY <2>1
  <1>2. PICK q : q = [r EXCEPT !.ends = e]
    OBVIOUS
  <1>3. /\ q \in OpRecords /\ Same(q, r) /\ q.ends = e /\ q.closing = r.closing
        /\ q.closes = r.closes /\ q.armed = r.armed /\ q.reading = r.reading
        /\ q.closes_pending = r.closes_pending /\ q.closes_uncounted = r.closes_uncounted
    BY <1>2 DEF OpRecords, Same
  <1> QED
    BY <1>1, <1>2, <1>3 DEF End

(* The flags of a teardown. *)
LEMMA FlagFields ==
    ASSUME NEW r \in OpRecords, NEW q,
           q = [r EXCEPT !.tearing_down = TRUE]
           \/ q = [r EXCEPT !.teardown_started = TRUE, !.tearing_down = TRUE]
    PROVE  /\ q \in OpRecords /\ q.tearing_down
           /\ q.life = r.life /\ q.mode = r.mode /\ q.scheme = r.scheme /\ q.reqs = r.reqs
           /\ q.inits = r.inits /\ q.aborted = r.aborted /\ q.framing = r.framing
           /\ q.received = r.received /\ q.last = r.last /\ q.ends = r.ends
           /\ q.closing = r.closing /\ q.closes = r.closes /\ q.armed = r.armed
           /\ q.reading = r.reading /\ q.closes_pending = r.closes_pending
           /\ q.closes_uncounted = r.closes_uncounted /\ q.reentered = r.reentered
  <1>1. q \in OpRecords
    <2>1. CASE q = [r EXCEPT !.tearing_down = TRUE]
      BY <2>1 DEF OpRecords
    <2>2. CASE q = [r EXCEPT !.teardown_started = TRUE, !.tearing_down = TRUE]
      BY <2>2 DEF OpRecords
    <2> QED
      BY <2>1, <2>2
  <1>2. CASE q = [r EXCEPT !.tearing_down = TRUE]
    <2>1. /\ q.tearing_down
          /\ q.life = r.life /\ q.mode = r.mode /\ q.scheme = r.scheme /\ q.reqs = r.reqs
          /\ q.inits = r.inits /\ q.aborted = r.aborted /\ q.framing = r.framing
          /\ q.received = r.received /\ q.last = r.last /\ q.ends = r.ends
      BY <1>1, <1>2 DEF OpRecords
    <2>2. /\ q.closing = r.closing /\ q.closes = r.closes /\ q.armed = r.armed
          /\ q.reading = r.reading /\ q.closes_pending = r.closes_pending
          /\ q.closes_uncounted = r.closes_uncounted /\ q.reentered = r.reentered
      BY <1>1, <1>2 DEF OpRecords
    <2> QED
      BY <1>1, <2>1, <2>2
  <1>3. CASE q = [r EXCEPT !.teardown_started = TRUE, !.tearing_down = TRUE]
    <2>1. /\ q.tearing_down
          /\ q.life = r.life /\ q.mode = r.mode /\ q.scheme = r.scheme /\ q.reqs = r.reqs
          /\ q.inits = r.inits /\ q.aborted = r.aborted /\ q.framing = r.framing
          /\ q.received = r.received /\ q.last = r.last /\ q.ends = r.ends
      BY <1>1, <1>3 DEF OpRecords
    <2>2. /\ q.closing = r.closing /\ q.closes = r.closes /\ q.armed = r.armed
          /\ q.reading = r.reading /\ q.closes_pending = r.closes_pending
          /\ q.closes_uncounted = r.closes_uncounted /\ q.reentered = r.reentered
      BY <1>1, <1>3 DEF OpRecords
    <2> QED
      BY <1>1, <2>1, <2>2
  <1> QED
    BY <1>2, <1>3

LEMMA CleanupFields ==
    ASSUME NEW r \in OpRecords, NEW q, q = Cleanup(r)
    PROVE  /\ q \in OpRecords /\ q.life = "freed"
           /\ q.mode = r.mode /\ q.scheme = r.scheme /\ q.reqs = r.reqs
           /\ q.inits = r.inits /\ q.framing = r.framing
           /\ q.received = r.received /\ q.last = r.last /\ q.ends = r.ends
           /\ q.closing = r.closing /\ q.closes = r.closes /\ q.armed = r.armed
           /\ q.reading = r.reading /\ q.closes_pending = r.closes_pending
           /\ q.closes_uncounted = r.closes_uncounted /\ q.reentered = r.reentered
  BY DEF OpRecords, Cleanup

LEMMA SoundSame ==
    ASSUME NEW q, NEW r, Sound(r), q.mode = r.mode, q.scheme = r.scheme, q.ends = r.ends,
           q.framing = r.framing, q.received = r.received, q.last = r.last
    PROVE  Sound(q)
  BY DEF Sound, Complete

-----------------------------------------------------------------------------
(* Closing *)

LEMMA CloseShape ==
    ASSUME NEW r \in OpRecords, Shape(r), NEW h \in r.inits \ r.closing,
           r.tearing_down \/ r.closes_uncounted = 0
    PROVE  Shape(CloseHandle(r, h))
  <1>1. h \in Handles /\ r.closes \in SUBSET Handles
        /\ r.closes_pending \in Nat /\ r.closes_uncounted \in Nat
    BY DEF OpRecords
  <1>2. h \notin r.closes /\ Num(r.closes \cup {h}) = Num(r.closes) + 1
    BY <1>1, NumFacts DEF Shape
  <1>3. PICK q : q = CloseHandle(r, h)
    OBVIOUS
  <1>4. /\ q.closing = r.closing \cup {h} /\ q.closes = r.closes \cup {h}
        /\ q.armed = r.armed \ {h} /\ q.inits = r.inits
        /\ q.reading = (IF h = "tcp" THEN "off" ELSE r.reading)
        /\ q.closes_pending =
              (IF r.tearing_down THEN r.closes_pending + 1 ELSE r.closes_pending)
        /\ q.closes_uncounted =
              (IF r.tearing_down THEN r.closes_uncounted ELSE r.closes_uncounted + 1)
    BY <1>1, <1>3, CloseHandleFields DEF Same
  <1>5. q.closes_pending + q.closes_uncounted = Num(q.closes) /\ q.closes_uncounted <= 1
    <2>1. CASE r.tearing_down
      BY <1>1, <1>2, <1>4, <2>1 DEF Shape
    <2>2. CASE ~r.tearing_down
      BY <1>1, <1>2, <1>4, <2>2 DEF Shape
    <2> QED
      BY <2>1, <2>2
  <1>6. /\ q.closes \subseteq q.closing /\ q.closing \subseteq q.inits
        /\ q.armed \subseteq q.inits \ (q.closing \cup {"tcp"})
        /\ "tcp" \in q.closing => q.reading = "off"
    BY <1>4 DEF Shape
  <1> QED
    BY <1>3, <1>5, <1>6 DEF Shape

(* q is r with h closed. *)
Shut(q, r, h) ==
    /\ q \in OpRecords /\ Shape(q) /\ Same(q, r) /\ q.ends = r.ends
    /\ q.closing = r.closing \cup (r.inits \cap {h}) /\ q.reading \in {r.reading, "off"}

LEMMA CloseIfOpenShuts ==
    ASSUME NEW r \in OpRecords, Shape(r), r.tearing_down, NEW h \in Handles
    PROVE  Shut(CloseIfOpen(r, h), r, h)
  <1>1. CASE h \in r.inits \ r.closing
    BY <1>1, CloseShape, CloseHandleFields DEF CloseIfOpen, IsOpen, Shut
  <1>2. CASE h \notin r.inits \ r.closing
    BY <1>2 DEF CloseIfOpen, IsOpen, Shut, Same, Shape
  <1> QED
    BY <1>1, <1>2

(* All that is left to close is the connection. *)
OnlyTcpLeft(r) ==
    /\ r \in OpRecords /\ Shape(r) /\ Sound(r)
    /\ r.life = "live" /\ r.tearing_down /\ Told(r)
    /\ "tcp" \notin r.closing /\ r.inits \subseteq r.closing \cup {"tcp"}

(* What may still be under way to libuv when the connection is closed. *)
Cancels(r) ==
    /\ r.reqs \subseteq {"connect", "write", "connect_write"}
    /\ r.reqs \subseteq {"connect"} \/ r.aborted

LEMMA LastClose ==
    ASSUME NEW r, OnlyTcpLeft(r), "tcp" \in r.inits, Cancels(r)
    PROVE  LET q == CloseHandle(r, "tcp")
           IN  OpInv(q) /\ Over(q) /\ q.mode = r.mode
  <1>1. PICK q : q = CloseHandle(r, "tcp")
    OBVIOUS
  <1>2. "tcp" \in Handles /\ r \in OpRecords /\ Shape(r)
    BY DEF Handles, OnlyTcpLeft
  <1>3. /\ q \in OpRecords /\ Same(q, r) /\ q.ends = r.ends
        /\ q.closing = r.closing \cup {"tcp"}
        /\ q.closes = r.closes \cup {"tcp"} /\ q.armed = r.armed \ {"tcp"} /\ q.reading = "off"
    BY <1>1, <1>2, CloseHandleFields
  <1>4. Shape(q)
    BY <1>1, <1>2, CloseShape DEF OnlyTcpLeft
  <1>5. Sound(q)
    BY <1>3, SoundSame DEF OnlyTcpLeft, Same
  <1>6. q.inits \subseteq q.closing /\ q.armed = {}
    BY <1>3, <1>4 DEF OnlyTcpLeft, Same, Shape
  <1>7. Over(q)
    BY <1>3, <1>6 DEF Over, Quiet, Told, Kept, OnlyTcpLeft, Same, Cancels
  <1> QED
    BY <1>1, <1>3, <1>4, <1>5, <1>7 DEF OpInv, Same

(* Without a connection nothing is left that would call back. *)
LEMMA LastFree ==
    ASSUME NEW r, OnlyTcpLeft(r), "tcp" \notin r.inits, r.closes = {}, r.reqs = {}, r.reading = "off"
    PROVE  LET q == Finalize(r) IN OpInv(q) /\ Gone(q) /\ q.mode = r.mode
  <1>1. r.closes_pending \in Nat /\ r.closes_uncounted \in Nat /\ r \in OpRecords
    BY DEF OnlyTcpLeft, OpRecords
  <1>2. Num(r.closes) = 0
    BY NumFacts
  <1>3. r.closes_pending = 0 /\ r.closes_uncounted = 0
    BY <1>1, <1>2 DEF OnlyTcpLeft, Shape
  <1>4. PICK q : q = Cleanup(r) /\ q = Finalize(r)
    BY <1>3 DEF Finalize
  <1>5. /\ q \in OpRecords /\ q.life = "freed"
        /\ q.mode = r.mode /\ q.scheme = r.scheme /\ q.reqs = r.reqs
        /\ q.inits = r.inits /\ q.framing = r.framing
        /\ q.received = r.received /\ q.last = r.last /\ q.ends = r.ends
        /\ q.closing = r.closing /\ q.closes = r.closes /\ q.armed = r.armed
        /\ q.reading = r.reading /\ q.closes_pending = r.closes_pending
        /\ q.closes_uncounted = r.closes_uncounted /\ q.reentered = r.reentered
    BY <1>1, <1>4, CleanupFields
  <1>6. Shape(q)
    BY <1>5 DEF OnlyTcpLeft, Shape
  <1>7. Sound(q)
    BY <1>5, SoundSame DEF OnlyTcpLeft
  <1>8. q.inits \subseteq q.closing /\ q.armed = {}
    BY <1>5, <1>6 DEF OnlyTcpLeft, Shape
  <1>9. Gone(q)
    BY <1>5, <1>8 DEF Gone, Quiet, Told, OnlyTcpLeft
  <1> QED
    BY <1>4, <1>5, <1>6, <1>7, <1>9 DEF OpInv

-----------------------------------------------------------------------------
(* Ends *)

Ready(r) == r \in OpRecords /\ Shape(r) /\ Going(r)

(* A success is one. *)
Excused(r, s) ==
    s = "ok" => r.mode # "stream" \/ r.scheme # "http" \/ r.framing = "eof" \/ Complete(r)

(* n is what has become of r when its end was told. *)
Ended(n, r) == OpInv(n) /\ (Over(n) \/ Gone(n)) /\ n.mode = r.mode

(* With a connection, or before there is one. *)
Endable(r) ==
    \/ "tcp" \in r.inits /\ Cancels(r)
    \/ r.inits = {} /\ r.reqs = {} /\ r.reading = "off"

LEMMA EndSound ==
    ASSUME NEW e, NEW r, NEW s, Excused(r, s), e.mode = r.mode, e.scheme = r.scheme,
           e.framing = r.framing, e.received = r.received, e.last = r.last, e.ends = <<s>>
    PROVE  Sound(e)
  <1>1. e.ends = <<"ok">> => s = "ok"
    OBVIOUS
  <1> QED
    BY <1>1 DEF Sound, Excused, Complete

Tearing(r) == [r EXCEPT !.tearing_down = TRUE]
Started(r) == [r EXCEPT !.teardown_started = TRUE, !.tearing_down = TRUE]

LEMMA ToldIsLast ==
    ASSUME NEW r, Ready(r), "idle_timer" \notin r.inits, NEW s \in Statuses, Excused(r, s),
           NEW t \in {Tearing(r), Started(r)},
           NEW e, e = End(CloseIfOpen(t, "connect_timer"), s)
    PROVE  /\ OnlyTcpLeft(e) /\ e.mode = r.mode /\ e.reqs = r.reqs /\ e.inits = r.inits
           /\ e.aborted = r.aborted /\ (r.reading = "off" => e.reading = "off")
           /\ (r.inits = {} => e.closes = {})
  <1>1. /\ t \in OpRecords /\ t.tearing_down
        /\ t.life = r.life /\ t.mode = r.mode /\ t.scheme = r.scheme /\ t.reqs = r.reqs
        /\ t.inits = r.inits /\ t.aborted = r.aborted /\ t.framing = r.framing
        /\ t.received = r.received /\ t.last = r.last /\ t.ends = r.ends
        /\ t.closing = r.closing /\ t.closes = r.closes /\ t.armed = r.armed
        /\ t.reading = r.reading /\ t.closes_pending = r.closes_pending
        /\ t.closes_uncounted = r.closes_uncounted /\ t.reentered = r.reentered
    <2>1. /\ r \in OpRecords
          /\ \/ t = [r EXCEPT !.tearing_down = TRUE]
             \/ t = [r EXCEPT !.teardown_started = TRUE, !.tearing_down = TRUE]
      BY DEF Ready, Tearing, Started
    <2> QED
      BY <2>1, FlagFields, ZenonT(30)
  <1>2. Shape(t)
    BY <1>1 DEF Ready, Shape
  <1>3. PICK c : c = CloseIfOpen(t, "connect_timer")
    OBVIOUS
  <1>4. Shut(c, t, "connect_timer")
    BY <1>1, <1>2, <1>3, CloseIfOpenShuts DEF Handles
  <1>5. /\ e \in OpRecords /\ Same(e, c) /\ e.ends = Append(c.ends, s)
        /\ e.closing = c.closing /\ e.closes = c.closes
        /\ e.armed = c.armed /\ e.reading = c.reading
        /\ e.closes_pending = c.closes_pending
        /\ e.closes_uncounted = c.closes_uncounted
    BY <1>3, <1>4, EndFields DEF Shut
  <1>6. e.ends = <<s>> /\ Len(e.ends) = 1
    <2>1. c.ends = << >>
      BY <1>1, <1>4 DEF Shut, Ready, Going
    <2>2. Append(<< >>, s) = <<s>> /\ Len(<<s>>) = 1
      OBVIOUS
    <2> QED
      BY <1>5, <2>1, <2>2
  <1>7. Shape(e)
    BY <1>4, <1>5 DEF Shut, Shape, Same
  <1>8. Sound(e)
    BY <1>1, <1>4, <1>5, <1>6, EndSound DEF Shut, Same
  <1>9. "tcp" \notin e.closing /\ e.inits \subseteq e.closing \cup {"tcp"}
    <2>1. r.inits \subseteq {"tcp", "connect_timer"} /\ r.closing \subseteq {"connect_timer"}
      <3>1. r \in OpRecords /\ Going(r)
        BY DEF Ready
      <3>2. r.inits \subseteq Handles
        BY <3>1 DEF OpRecords
      <3> QED
        BY <3>1, <3>2 DEF Handles, Going
    <2> QED
      BY <1>1, <1>4, <1>5, <2>1 DEF Shut, Same
  <1>10. r.inits = {} => e.closes = {}
    BY <1>1, <1>4, <1>5, <1>7 DEF Shut, Same, Shape
  <1>11. e.life = "live" /\ e.tearing_down
    BY <1>1, <1>4, <1>5, ZenonT(30) DEF Shut, Same, Ready, Going
  <1>12. e.mode = r.mode /\ e.reqs = r.reqs /\ e.inits = r.inits /\ e.aborted = r.aborted
    BY <1>1, <1>4, <1>5 DEF Shut, Same
  <1>13. r.reading = "off" => e.reading = "off"
    BY <1>1, <1>4, <1>5 DEF Shut
  <1> QED
    BY <1>5, <1>6, <1>7, <1>8, <1>9, <1>10, <1>11, <1>12, <1>13 DEF OnlyTcpLeft, Told

LEMMA CloseTcpEnds ==
    ASSUME NEW e, OnlyTcpLeft(e), NEW r, e.mode = r.mode,
           \/ "tcp" \in e.inits /\ Cancels(e)
           \/ "tcp" \notin e.inits /\ e.closes = {} /\ e.reqs = {} /\ e.reading = "off"
    PROVE  Ended(CloseTcpOrFinalize(e), r)
  <1>1. CASE "tcp" \in e.inits
    BY <1>1, LastClose DEF CloseTcpOrFinalize, IsOpen, OnlyTcpLeft, Ended
  <1>2. CASE "tcp" \notin e.inits
    BY <1>2, LastFree DEF CloseTcpOrFinalize, IsOpen, Ended
  <1> QED
    BY <1>1, <1>2

LEMMA FinishErrorEnds ==
    ASSUME NEW r, Ready(r), "idle_timer" \notin r.inits, Endable(r)
    PROVE  Ended(FinishError(r), r)
  <1>0. "error" \in Statuses /\ Excused(r, "error")
    BY DEF Excused, Statuses
  <1>1. PICK t, e : /\ t = Tearing(r)
                    /\ e = End(CloseIfOpen(t, "connect_timer"), "error")
    OBVIOUS
  <1>2. /\ OnlyTcpLeft(e) /\ e.mode = r.mode /\ e.reqs = r.reqs /\ e.inits = r.inits
        /\ e.aborted = r.aborted /\ (r.reading = "off" => e.reading = "off")
        /\ (r.inits = {} => e.closes = {})
    BY <1>0, <1>1, ToldIsLast
  <1>3. Ended(CloseTcpOrFinalize(e), r)
    BY <1>2, CloseTcpEnds DEF Endable, Cancels
  <1> QED
    BY <1>1, <1>3 DEF FinishError, Tearing

LEMMA FinishSuccessEnds ==
    ASSUME NEW r, Ready(r), "idle_timer" \notin r.inits, "tcp" \in r.inits, Cancels(r),
           r.mode = "plain"
    PROVE  Ended(FinishSuccess(r), r)
  <1>0. "ok" \in Statuses /\ Excused(r, "ok")
    BY DEF Excused, Statuses
  <1>1. PICK t, e : /\ t = Tearing(r)
                    /\ e = End(CloseIfOpen(t, "connect_timer"), "ok")
    OBVIOUS
  <1>2. /\ OnlyTcpLeft(e) /\ e.mode = r.mode /\ e.reqs = r.reqs /\ e.inits = r.inits
        /\ e.aborted = r.aborted
    BY <1>0, <1>1, ToldIsLast
  <1>3. CloseIfOpen(e, "tcp") = CloseHandle(e, "tcp")
    BY <1>2 DEF CloseIfOpen, IsOpen, OnlyTcpLeft
  <1>4. Ended(CloseHandle(e, "tcp"), r)
    BY <1>2, LastClose DEF Ended, Cancels
  <1> QED
    BY <1>1, <1>3, <1>4 DEF FinishSuccess, Tearing

LEMMA StreamFinishErrorEnds ==
    ASSUME NEW r, Ready(r), "idle_timer" \notin r.inits, Endable(r)
    PROVE  Ended(StreamFinishError(r), r)
  <1>0. "error" \in Statuses /\ Excused(r, "error")
    BY DEF Excused, Statuses
  <1>1. PICK t, e : /\ t = Started(r)
                    /\ e = End(CloseIfOpen(t, "connect_timer"), "error")
    OBVIOUS
  <1>2. /\ OnlyTcpLeft(e) /\ e.mode = r.mode /\ e.reqs = r.reqs /\ e.inits = r.inits
        /\ e.aborted = r.aborted /\ (r.reading = "off" => e.reading = "off")
        /\ (r.inits = {} => e.closes = {})
    BY <1>0, <1>1, ToldIsLast
  <1>3. Ended(CloseTcpOrFinalize(e), r)
    BY <1>2, CloseTcpEnds DEF Endable, Cancels
  <1> QED
    BY <1>1, <1>3 DEF StreamFinishError, Started, Ready, Going

(* The consumer was told s, and a streaming operation is being torn down. *)
ToldNow(n, r, s) ==
    n.life = "live" /\ n.ends = <<s>> /\ n.reentered = r.reentered /\ n.teardown_started

LEMMA StreamEndEnds ==
    ASSUME NEW r, Ready(r), NEW s \in Statuses, Excused(r, s),
           \/ "tcp" \in r.inits /\ Cancels(r)
           \/ /\ r.inits = {} /\ r.reqs = {"dns"} /\ r.reading = "off"
              /\ r.aborted /\ r.mode = "stream"
    PROVE  /\ Ended(StreamEnd(r, s), r)
           /\ "tcp" \in r.inits => ToldNow(StreamEnd(r, s), r, s)
  <1>1. PICK e : e = End(r, s)
    OBVIOUS
  <1>2. /\ e \in OpRecords /\ Same(e, r) /\ e.ends = Append(r.ends, s)
        /\ e.closing = r.closing /\ e.closes = r.closes
        /\ e.armed = r.armed /\ e.reading = r.reading
        /\ e.closes_pending = r.closes_pending
        /\ e.closes_uncounted = r.closes_uncounted
    BY <1>1, EndFields DEF Ready
  <1>3. e.ends = <<s>> /\ Len(e.ends) = 1
    <2>1. r.ends = << >>
      BY DEF Ready, Going
    <2>2. Append(<< >>, s) = <<s>> /\ Len(<<s>>) = 1
      OBVIOUS
    <2> QED
      BY <1>2, <2>1, <2>2
  <1>4. PICK t : t = Started(e)
    OBVIOUS
  <1>5. /\ t \in OpRecords /\ t.tearing_down
        /\ t.life = e.life /\ t.mode = e.mode /\ t.scheme = e.scheme /\ t.reqs = e.reqs
        /\ t.inits = e.inits /\ t.aborted = e.aborted /\ t.framing = e.framing
        /\ t.received = e.received /\ t.last = e.last /\ t.ends = e.ends
        /\ t.closing = e.closing /\ t.closes = e.closes /\ t.armed = e.armed
        /\ t.reading = e.reading /\ t.closes_pending = e.closes_pending
        /\ t.closes_uncounted = e.closes_uncounted
        /\ t.teardown_started /\ t.reentered = e.reentered
    <2>1. e \in OpRecords /\ t = [e EXCEPT !.teardown_started = TRUE, !.tearing_down = TRUE]
      BY <1>2, <1>4 DEF Started
    <2>2. t \in OpRecords
      BY <2>1 DEF OpRecords
    <2>3. /\ t.tearing_down
          /\ t.life = e.life /\ t.mode = e.mode /\ t.scheme = e.scheme /\ t.reqs = e.reqs
          /\ t.inits = e.inits /\ t.aborted = e.aborted /\ t.framing = e.framing
          /\ t.received = e.received /\ t.last = e.last /\ t.ends = e.ends
      BY <2>1, <2>2 DEF OpRecords
    <2>4. /\ t.closing = e.closing /\ t.closes = e.closes /\ t.armed = e.armed
          /\ t.reading = e.reading /\ t.closes_pending = e.closes_pending
          /\ t.closes_uncounted = e.closes_uncounted
          /\ t.teardown_started /\ t.reentered = e.reentered
      BY <2>1, <2>2 DEF OpRecords
    <2> QED
      BY <2>2, <2>3, <2>4
  <1>6. Shape(t)
    BY <1>2, <1>5 DEF Ready, Shape, Same
  <1>7. PICK i : i = CloseIfOpen(t, "idle_timer")
    OBVIOUS
  <1>8. Shut(i, t, "idle_timer")
    BY <1>5, <1>6, <1>7, CloseIfOpenShuts DEF Handles
  <1>9. PICK c : c = CloseIfOpen(i, "connect_timer")
    OBVIOUS
  <1>10. Shut(c, i, "connect_timer")
    <2>1. i \in OpRecords /\ Shape(i) /\ i.tearing_down
      BY <1>5, <1>8 DEF Shut, Same
    <2> QED
      BY <1>9, <2>1, CloseIfOpenShuts DEF Handles
  <1>11. /\ c \in OpRecords /\ Shape(c) /\ c.ends = <<s>>
         /\ c.life = "live" /\ c.tearing_down
    BY <1>2, <1>3, <1>5, <1>8, <1>10 DEF Shut, Same, Ready, Going
  <1>12. /\ c.mode = r.mode /\ c.scheme = r.scheme /\ c.reqs = r.reqs /\ c.inits = r.inits
         /\ c.aborted = r.aborted /\ c.framing = r.framing /\ c.received = r.received
         /\ c.last = r.last
    BY <1>2, <1>5, <1>8, <1>10 DEF Shut, Same
  <1>13. Sound(c)
    BY <1>11, <1>12, EndSound
  <1>14. "tcp" \notin c.closing /\ c.inits \subseteq c.closing \cup {"tcp"}
    <2>1. r.inits \subseteq {"tcp", "connect_timer", "idle_timer"}
          /\ r.closing \subseteq {"connect_timer"}
      BY DEF Ready, OpRecords, Handles, Going
    <2>2. c.closing = r.closing \cup (r.inits \cap {"idle_timer"})
                      \cup (r.inits \cap {"connect_timer"})
      BY <1>2, <1>5, <1>8, <1>10 DEF Shut, Same
    <2> QED
      BY <1>12, <2>1, <2>2
  <1>15. OnlyTcpLeft(c)
    BY <1>3, <1>2, <1>11, <1>13, <1>14 DEF OnlyTcpLeft, Told
  <1>16. CASE "tcp" \in r.inits
    <2>1. Cancels(c)
      BY <1>12, <1>16 DEF Cancels
    <2>2. Ended(CloseTcpOrFinalize(c), r)
      BY <1>12, <1>15, <1>16, <2>1, CloseTcpEnds
    <2>3. ~e.teardown_started /\ "tcp" \in e.inits
      BY <1>2, <1>16 DEF Same, Ready, Going
    <2>4. StreamEnd(r, s) = CloseTcpOrFinalize(c)
      BY <1>1, <1>4, <1>7, <1>9, <2>3 DEF StreamEnd, StreamCleanup, Started
    <2>5. CloseTcpOrFinalize(c) = CloseHandle(c, "tcp")
      BY <1>12, <1>14, <1>16 DEF CloseTcpOrFinalize, IsOpen
    <2>6. c.reentered = r.reentered /\ c.teardown_started
      BY <1>2, <1>5, <1>8, <1>10 DEF Shut, Same
    <2>7. ToldNow(CloseHandle(c, "tcp"), r, s)
      BY <1>11, <2>6, CloseHandleFields DEF ToldNow, Same, Handles
    <2> QED
      BY <2>2, <2>4, <2>5, <2>7
  <1>17. CASE "tcp" \notin r.inits
    <2>1. /\ r.inits = {} /\ r.reqs = {"dns"} /\ r.reading = "off"
          /\ r.aborted /\ r.mode = "stream"
      BY <1>17
    <2>2. c.reading = "off" /\ c.armed = {}
      BY <1>2, <1>5, <1>8, <1>10, <1>11, <1>12, <2>1 DEF Shut, Shape
    <2>3. Over(c)
      BY <1>3, <1>2, <1>11, <1>12, <2>1, <2>2 DEF Over, Quiet, Told, Kept
    <2>4. Ended(c, r)
      BY <1>11, <1>12, <1>13, <2>3 DEF Ended, OpInv
    <2>5. ~e.teardown_started /\ e.aborted /\ "tcp" \notin e.inits
      BY <1>2, <1>17, <2>1 DEF Same, Ready, Going
    <2>6. StreamEnd(r, s) = c
      BY <1>1, <1>4, <1>7, <1>9, <2>5 DEF StreamEnd, StreamCleanup, Started
    <2> QED
      BY <1>17, <2>4, <2>6
  <1> QED
    BY <1>16, <1>17

-----------------------------------------------------------------------------
(* The registry *)

LEMMA WithoutAt ==
    ASSUME NEW S, NEW s \in Seq(S), NEW i \in DOMAIN s
    PROVE  /\ Without(s, i) \in Seq(S)
           /\ \A j \in DOMAIN Without(s, i) :
                 \E k \in DOMAIN s : /\ k # i /\ Without(s, i)[j] = s[k]
                                     /\ k = IF j < i THEN j ELSE j + 1
           /\ \A j, l \in DOMAIN Without(s, i) :
                 (IF j < i THEN j ELSE j + 1) = (IF l < i THEN l ELSE l + 1) => j = l
  <1>1. /\ Len(s) \in Nat /\ DOMAIN s = 1 .. Len(s) /\ i \in 1 .. Len(s)
        /\ \A k \in 1 .. Len(s) : s[k] \in S
    OBVIOUS
  <1>2. \A j \in 1 .. Len(s) - 1 : (IF j < i THEN j ELSE j + 1) \in (1 .. Len(s)) \ {i}
    BY <1>1
  <1>3. DOMAIN Without(s, i) = 1 .. Len(s) - 1
    BY DEF Without
  <1>4. \A j \in 1 .. Len(s) - 1 : Without(s, i)[j] = s[IF j < i THEN j ELSE j + 1]
    BY DEF Without
  <1>5. Without(s, i) \in [1 .. Len(s) - 1 -> S]
    BY <1>1, <1>2, <1>4 DEF Without
  <1>6. Without(s, i) \in Seq(S)
    <2>1. Len(s) - 1 \in Nat
      BY <1>1
    <2> QED
      BY <1>5, <2>1
  <1>7. \A j, l \in 1 .. Len(s) - 1 :
           (IF j < i THEN j ELSE j + 1) = (IF l < i THEN l ELSE l + 1) => j = l
    BY <1>1
  <1> QED
    BY <1>1, <1>2, <1>3, <1>4, <1>6, <1>7

(* n is what may become of r. *)
Follows(n, r) == OpInv(n) /\ n.life \in {"live", "freed"} /\ n.mode = r.mode

(* One operation changes and leaves the registry when it is freed. *)
LEMMA BecomesKeeps ==
    ASSUME HttpInv, NEW o \in Ops, Live(o), NEW n, Follows(n, op[o]), Becomes(o, n)
    PROVE  HttpInv'
  <1> USE DEF Follows
  <1>1. /\ op' = [op EXCEPT ![o] = n] /\ n \in OpRecords /\ UNCHANGED rt
        /\ op \in [Ops -> OpRecords]
    BY DEF Becomes, OpInv, HttpInv
  <1>2. op' \in [Ops -> OpRecords] /\ op'[o] = n /\ \A p \in Ops \ {o} : op'[p] = op[p]
    BY <1>1
  <1>3. \A p \in Ops : OpInv(op'[p])
    BY <1>2 DEF HttpInv
  <1>4. PICK s \in Seq(Ops) : s = http_ops
    BY DEF HttpInv, Registry
  <1>5. \A p \in Ops \ {o} : Live(p) <=> Live(p)'
    BY <1>2 DEF Live
  <1>6. /\ http_ops' \in Seq(Ops)
        /\ \A i, j \in DOMAIN http_ops' : http_ops'[i] = http_ops'[j] => i = j
        /\ \A i \in DOMAIN http_ops' : \E k \in DOMAIN s : http_ops'[i] = s[k]
        /\ n.life = "freed" => \A i \in DOMAIN http_ops' : http_ops'[i] # o
    <2>1. CASE n.life = "freed" /\ Registered(o)
      <3>1. PICK i \in DOMAIN s : s[i] = o /\ http_ops' = Without(s, i)
        BY <1>4, <2>1 DEF Becomes, Unlink
      <3>2. /\ \A j, k \in DOMAIN s : s[j] = s[k] => j = k
            /\ \A k \in DOMAIN s : k # i => s[k] # o
        BY <1>4, <3>1 DEF HttpInv, Registry
      <3> QED
        BY <3>1, <3>2, WithoutAt
    <2>2. CASE ~(n.life = "freed" /\ Registered(o))
      BY <1>4, <2>2 DEF Becomes, Unlink, Registered, HttpInv, Registry
    <2> QED
      BY <2>1, <2>2
  <1>7. \A k \in DOMAIN s : s[k] \in Ops /\ Live(s[k]) /\ op[s[k]].mode = "stream"
    BY <1>4 DEF HttpInv, Registry
  <1>8. \A i \in DOMAIN http_ops' :
           op'[http_ops'[i]].life = "live" /\ op'[http_ops'[i]].mode = "stream"
    <2> SUFFICES ASSUME NEW i \in DOMAIN http_ops'
                 PROVE  op'[http_ops'[i]].life = "live" /\ op'[http_ops'[i]].mode = "stream"
      OBVIOUS
    <2>1. PICK k \in DOMAIN s : http_ops'[i] = s[k]
      BY <1>6
    <2>2. CASE s[k] = o
      BY <1>2, <1>6, <1>7, <2>1, <2>2 DEF Live
    <2>3. CASE s[k] # o
      BY <1>2, <1>7, <2>1, <2>3 DEF Live
    <2> QED
      BY <2>2, <2>3
  <1>9. /\ active_stream' \in Ops \cup {NoOp}
        /\ active_stream' # NoOp => /\ op'[active_stream'].life = "live"
                                  /\ op'[active_stream'].mode = "stream"
    <2>1. active_stream' \in {active_stream, NoOp}
          /\ (active_stream = o /\ n.life = "freed" => active_stream' = NoOp)
      BY DEF Becomes, Unlink
    <2>2. /\ active_stream \in Ops \cup {NoOp}
          /\ active_stream # NoOp => Live(active_stream) /\ op[active_stream].mode = "stream"
      BY DEF HttpInv, Registry
    <2>3. CASE active_stream = o
      BY <1>2, <2>1, <2>2, <2>3 DEF Live
    <2>4. CASE active_stream # o
      BY <1>2, <2>1, <2>2, <2>4 DEF Live
    <2> QED
      BY <2>3, <2>4
  <1>10. Registry'
    BY <1>1, <1>6, <1>8, <1>9 DEF HttpInv, Registry, Live
  <1> QED
    BY <1>2, <1>3, <1>10 DEF HttpInv

LEMMA EndedFollows ==
    ASSUME NEW n, NEW r, Ended(n, r)
    PROVE  Follows(n, r)
  BY DEF Follows, Ended, Over, Gone

LEMMA UnderWayFollows ==
    ASSUME NEW n \in OpRecords, Shape(n), UnderWay(n), NEW r, n.mode = r.mode
    PROVE  Follows(n, r)
  <1>1. Sound(n)
    <2>1. n.ends = << >> /\ << >> # <<"ok">>
      BY DEF UnderWay, Going
    <2> QED
      BY <2>1 DEF Sound
  <1> QED
    BY <1>1 DEF Follows, OpInv, UnderWay, Going

LEMMA LiveIs ==
    ASSUME HttpInv, NEW o \in Ops, Live(o)
    PROVE  /\ op[o] \in OpRecords /\ Shape(op[o]) /\ Sound(op[o]) /\ OpInv(op[o])
           /\ UnderWay(op[o]) \/ Over(op[o])
  <1>1. op[o] # Fresh /\ ~Gone(op[o])
    BY DEF Live, Fresh, Gone
  <1> QED
    BY <1>1 DEF HttpInv, OpInv


-----------------------------------------------------------------------------
(* What becomes of an operation under way *)

LEMMA FinishErrorFollows ==
    ASSUME NEW r, Ready(r), "idle_timer" \notin r.inits, Endable(r), NEW q, q.mode = r.mode
    PROVE  Follows(FinishError(r), q)
  BY FinishErrorEnds, EndedFollows DEF Follows

LEMMA StreamEndFollows ==
    ASSUME NEW r, Ready(r), NEW s \in Statuses, Excused(r, s), NEW q, q.mode = r.mode,
           \/ "tcp" \in r.inits /\ Cancels(r)
           \/ /\ r.inits = {} /\ r.reqs = {"dns"} /\ r.reading = "off"
              /\ r.aborted /\ r.mode = "stream"
    PROVE  Follows(StreamEnd(r, s), q)
  BY StreamEndEnds, EndedFollows DEF Follows

(* The connection is there and nothing is asked of libuv. *)
Idle(r) ==
    /\ Ready(r) /\ Wired(r) /\ ~r.aborted /\ r.reqs = {} /\ r.armed = {}
    /\ r.scheme # "http" \/ r.reading = "off"

(* r has a new kind of request, or reads, or its handshake is over. *)
LEMMA IdleFields ==
    ASSUME NEW r, Idle(r), NEW n \in OpRecords,
           n.life = r.life, n.mode = r.mode, n.scheme = r.scheme, n.inits = r.inits,
           n.armed = r.armed, n.closing = r.closing, n.closes = r.closes,
           n.closes_pending = r.closes_pending, n.closes_uncounted = r.closes_uncounted,
           n.aborted = r.aborted, n.tearing_down = r.tearing_down,
           n.teardown_started = r.teardown_started, n.ends = r.ends
    PROVE  Shape(n) /\ Going(n) /\ Wired(n) /\ n.armed = {} /\ ~n.aborted
  BY DEF Idle, Ready, Shape, Going, Wired

(* r reads the response, a streamed one under the idle timer. *)
Reads(r) ==
    [r EXCEPT !.reading = "body",
              !.inits = IF r.mode = "stream" THEN @ \cup {"idle_timer"} ELSE @,
              !.armed = IF r.mode = "stream" THEN @ \cup {"idle_timer"} ELSE @]

LEMMA ReadsFollows ==
    ASSUME NEW r, Idle(r), NEW n, n = Reads(r), NEW q, q.mode = r.mode
    PROVE  Follows(n, q)
  <1>1. r \in OpRecords
    BY DEF Idle, Ready
  <1>2. PICK is \in SUBSET Handles, as \in SUBSET Handles :
           /\ is = IF r.mode = "stream" THEN r.inits \cup {"idle_timer"} ELSE r.inits
           /\ as = IF r.mode = "stream" THEN r.armed \cup {"idle_timer"} ELSE r.armed
    BY <1>1 DEF OpRecords, Handles
  <1>3. n = [r EXCEPT !.reading = "body", !.inits = is, !.armed = as]
    BY <1>2 DEF Reads
  <1>4. n \in OpRecords
    BY <1>1, <1>3, ZenonT(30) DEF OpRecords
  <1>5. /\ n.reading = "body" /\ n.inits = is /\ n.armed = as /\ n.mode = r.mode
        /\ n.life = r.life /\ n.reqs = r.reqs
        /\ n.closing = r.closing /\ n.closes = r.closes
        /\ n.closes_pending = r.closes_pending /\ n.closes_uncounted = r.closes_uncounted
        /\ n.aborted = r.aborted /\ n.tearing_down = r.tearing_down
        /\ n.teardown_started = r.teardown_started /\ n.ends = r.ends
    BY <1>1, <1>3 DEF OpRecords
  <1>6. /\ Shape(r) /\ Going(r) /\ Wired(r) /\ ~r.aborted /\ r.reqs = {} /\ r.armed = {}
        /\ r.closing \subseteq {"connect_timer"}
    BY DEF Idle, Ready, Going
  <1>7. as \subseteq {"idle_timer"} /\ "tcp" \in is /\ r.inits \subseteq is
        /\ (r.mode = "plain" => "idle_timer" \notin is) /\ as \subseteq is
    BY <1>2, <1>6 DEF Wired
  <1>8. Shape(n)
    <2>1. n.closes_pending + n.closes_uncounted = Num(n.closes) /\ n.closes_uncounted <= 1
      BY <1>5, <1>6 DEF Shape
    <2>2. n.armed \subseteq n.inits \ (n.closing \cup {"tcp"})
      BY <1>5, <1>6, <1>7
    <2>3. n.closes \subseteq n.closing /\ n.closing \subseteq n.inits /\ "tcp" \notin n.closing
      BY <1>5, <1>6, <1>7 DEF Shape
    <2> QED
      BY <2>1, <2>2, <2>3 DEF Shape
  <1>9. UnderWay(n)
    BY <1>5, <1>6, <1>7 DEF UnderWay, Going, Phase
  <1> QED
    BY <1>4, <1>5, <1>8, <1>9, UnderWayFollows

LEMMA SendFollows ==
    ASSUME NEW r, Idle(r), NEW n \in SendRequest(r), NEW q, q.mode = r.mode
    PROVE  Follows(n, q)
  <1>1. CASE n = FinishError(r)
    BY <1>1, FinishErrorFollows DEF Idle, Wired, Endable, Cancels
  <1>2. CASE r.scheme = "http" /\ n = [r EXCEPT !.reqs = @ \cup {"write"}, !.sent = TRUE]
    <2>1. n = [r EXCEPT !.reqs = {"write"}, !.sent = TRUE] /\ r \in OpRecords
      BY <1>2 DEF Idle, Ready
    <2>2. n \in OpRecords
      BY <2>1 DEF OpRecords, Requests
    <2>3. n.reqs = {"write"} /\ n.reading = "off" /\ n.scheme = "http" /\ n.mode = r.mode
      BY <1>2, <2>1 DEF OpRecords, Idle
    <2>4. /\ n.life = r.life /\ n.mode = r.mode /\ n.scheme = r.scheme /\ n.inits = r.inits
          /\ n.armed = r.armed /\ n.closing = r.closing /\ n.closes = r.closes
          /\ n.closes_pending = r.closes_pending /\ n.closes_uncounted = r.closes_uncounted
          /\ n.aborted = r.aborted /\ n.tearing_down = r.tearing_down
          /\ n.teardown_started = r.teardown_started /\ n.ends = r.ends
      BY <2>1 DEF OpRecords
    <2>5. Shape(n) /\ Going(n) /\ Wired(n) /\ n.armed = {} /\ ~n.aborted
      BY <2>2, <2>4, IdleFields
    <2> QED
      BY <2>2, <2>3, <2>5, UnderWayFollows DEF UnderWay, Phase
  <1>3. CASE /\ r.scheme # "http"
             /\ n = [r EXCEPT !.sent = TRUE, !.reading = "body",
                       !.inits = IF r.mode = "stream" THEN @ \cup {"idle_timer"} ELSE @,
                       !.armed = IF r.mode = "stream" THEN @ \cup {"idle_timer"} ELSE @]
    <2>1. PICK u : u = [r EXCEPT !.sent = TRUE]
      OBVIOUS
    <2>2. r \in OpRecords
      BY DEF Idle, Ready
    <2>3. /\ u \in OpRecords
          /\ u.life = r.life /\ u.mode = r.mode /\ u.scheme = r.scheme /\ u.inits = r.inits
          /\ u.armed = r.armed /\ u.closing = r.closing /\ u.closes = r.closes
          /\ u.closes_pending = r.closes_pending /\ u.closes_uncounted = r.closes_uncounted
          /\ u.aborted = r.aborted /\ u.tearing_down = r.tearing_down
          /\ u.teardown_started = r.teardown_started /\ u.ends = r.ends /\ u.reqs = {}
      BY <2>1, <2>2 DEF OpRecords, Idle
    <2>4. Shape(u) /\ Going(u) /\ Wired(u) /\ u.armed = {} /\ ~u.aborted
      BY <2>3, IdleFields
    <2>5. Idle(u)
      BY <1>3, <2>3, <2>4 DEF Idle, Ready
    <2>6. n = Reads(u)
      BY <1>3, <2>1, <2>2 DEF Reads, OpRecords
    <2> QED
      BY <2>3, <2>5, <2>6, ReadsFollows
  <1> QED
    BY <1>1, <1>2, <1>3 DEF SendRequest

LEMMA TlsFollows ==
    ASSUME NEW r, Idle(r), NEW n \in StartTls(r), NEW q, q.mode = r.mode
    PROVE  Follows(n, q)
  <1>0. r \in OpRecords
    BY DEF Idle, Ready
  <1>1. CASE n = FinishError(r)
    BY <1>1, FinishErrorFollows DEF Idle, Wired, Endable, Cancels
  <1>2. CASE n = [r EXCEPT !.reading = "hello"]
    <2>1. n \in OpRecords /\ n.reading = "hello" /\ n.reqs = {} /\ n.mode = r.mode
      BY <1>0, <1>2 DEF OpRecords, Idle
    <2>2. /\ n.life = r.life /\ n.scheme = r.scheme /\ n.inits = r.inits /\ n.armed = r.armed
          /\ n.aborted = r.aborted /\ n.framing = r.framing /\ n.received = r.received
          /\ n.last = r.last /\ n.ends = r.ends /\ n.closing = r.closing
          /\ n.closes = r.closes /\ n.closes_pending = r.closes_pending
          /\ n.closes_uncounted = r.closes_uncounted
          /\ n.tearing_down = r.tearing_down /\ n.teardown_started = r.teardown_started
      BY <1>0, <1>2 DEF OpRecords
    <2>3. Shape(n) /\ Going(n) /\ Wired(n) /\ n.armed = {} /\ ~n.aborted
      BY <2>1, <2>2, IdleFields
    <2> QED
      BY <2>1, <2>3, UnderWayFollows DEF UnderWay, Phase
  <1>3. CASE n \in SendRequest([r EXCEPT !.reading = "off", !.secured = TRUE])
    <2>1. PICK u : u = [r EXCEPT !.reading = "off", !.secured = TRUE]
      OBVIOUS
    <2>2. /\ u \in OpRecords /\ u.reading = "off" /\ u.reqs = {} /\ u.mode = r.mode
          /\ u.scheme = r.scheme
      BY <1>0, <2>1 DEF OpRecords, Idle
    <2>3. /\ u.life = r.life /\ u.inits = r.inits /\ u.armed = r.armed
          /\ u.aborted = r.aborted /\ u.framing = r.framing /\ u.received = r.received
          /\ u.last = r.last /\ u.ends = r.ends /\ u.closing = r.closing
          /\ u.closes = r.closes /\ u.closes_pending = r.closes_pending
          /\ u.closes_uncounted = r.closes_uncounted
          /\ u.tearing_down = r.tearing_down /\ u.teardown_started = r.teardown_started
      BY <1>0, <2>1 DEF OpRecords
    <2>4. Shape(u) /\ Going(u) /\ Wired(u) /\ u.armed = {} /\ ~u.aborted
      BY <2>2, <2>3, IdleFields
    <2>5. Idle(u) /\ q.mode = u.mode /\ n \in SendRequest(u)
      BY <1>3, <2>1, <2>2, <2>4 DEF Idle, Ready
    <2> QED
      BY <2>5, SendFollows
  <1> QED
    BY <1>1, <1>2, <1>3 DEF StartTls

LEMMA ConnectingFollows ==
    ASSUME NEW r, Ready(r), ~r.aborted, r.inits = {}, r.reqs = {}, r.reading = "off",
           NEW n \in Connecting(r), NEW q, q.mode = r.mode
    PROVE  Follows(n, q)
  <1>0. /\ r \in OpRecords /\ Shape(r) /\ Going(r)
        /\ r.closing = {} /\ r.armed = {} /\ r.closes = {}
        /\ r.closes_pending = 0 /\ r.closes_uncounted = 0
    <2>1. r \in OpRecords /\ Shape(r) /\ Going(r)
      BY DEF Ready
    <2>2. r.closing = {} /\ r.armed = {} /\ r.closes = {}
      BY <2>1 DEF Shape
    <2>3. r.closes_pending \in Nat /\ r.closes_uncounted \in Nat
      BY <2>1 DEF OpRecords
    <2>4. Num(r.closes) = 0
      BY <2>2, NumFacts
    <2> QED
      BY <2>1, <2>2, <2>3, <2>4 DEF Shape
  <1> DEFINE Fail(x) == IF r.mode = "stream" THEN StreamFinishError(x) ELSE FinishError(x)
  <1>1. ASSUME NEW x, Ready(x), "idle_timer" \notin x.inits, Endable(x), x.mode = r.mode
        PROVE  Follows(Fail(x), q)
    <2>1. Ended(Fail(x), x)
      BY <1>1, FinishErrorEnds, StreamFinishErrorEnds
    <2> HIDE DEF Fail
    <2> QED
      BY <1>1, <2>1, EndedFollows DEF Follows
  <1>2. CASE n = Fail(r)
    BY <1>1, <1>2 DEF Endable
  <1>3. PICK t : t = [r EXCEPT !.inits = {"tcp"}]
    OBVIOUS
  <1>4. /\ t \in OpRecords /\ t.inits = {"tcp"} /\ t.reqs = {} /\ t.reading = "off"
        /\ t.mode = r.mode /\ t.life = r.life /\ t.armed = {} /\ t.closing = {} /\ t.closes = {}
        /\ t.closes_pending = 0 /\ t.closes_uncounted = 0 /\ t.aborted = r.aborted
        /\ t.tearing_down = r.tearing_down /\ t.teardown_started = r.teardown_started
        /\ t.ends = r.ends
    BY <1>0, <1>3 DEF OpRecords, Handles
  <1>5. Shape(t) /\ Going(t)
    <2>1. Num(t.closes) = 0
      BY <1>4, NumFacts
    <2> QED
      BY <1>0, <1>4, <2>1 DEF Shape, Going
  <1>6. CASE n = Fail(t)
    <2>1. Ready(t) /\ "idle_timer" \notin t.inits /\ Endable(t)
      BY <1>4, <1>5 DEF Ready, Endable, Cancels
    <2> QED
      BY <1>1, <1>4, <1>6, <2>1
  <1>7. PICK c : c = [t EXCEPT !.reqs = {"connect"}]
    OBVIOUS
  <1>8. /\ c \in OpRecords /\ c.inits = {"tcp"} /\ c.reqs = {"connect"} /\ c.reading = "off"
        /\ c.mode = r.mode /\ c.life = r.life /\ c.armed = {} /\ c.closing = {} /\ c.closes = {}
        /\ c.closes_pending = 0 /\ c.closes_uncounted = 0 /\ c.aborted = r.aborted
        /\ c.tearing_down = r.tearing_down /\ c.teardown_started = r.teardown_started
        /\ c.ends = r.ends
    BY <1>4, <1>7 DEF OpRecords, Requests
  <1>9. Shape(c) /\ Going(c)
    BY <1>5, <1>4, <1>8 DEF Shape, Going
  <1>10. CASE n = c
    BY <1>8, <1>9, <1>10, UnderWayFollows DEF UnderWay, Phase, Wired
  <1>11. PICK w : w = [c EXCEPT !.inits = {"tcp", "connect_timer"}]
    OBVIOUS
  <1>12. /\ w \in OpRecords /\ w.inits = {"tcp", "connect_timer"} /\ w.reqs = {"connect"}
         /\ w.reading = "off"
         /\ w.mode = r.mode /\ w.life = r.life /\ w.armed = {}
         /\ w.closing = {} /\ w.closes = {}
         /\ w.closes_pending = 0 /\ w.closes_uncounted = 0 /\ w.aborted = r.aborted
         /\ w.tearing_down = r.tearing_down /\ w.teardown_started = r.teardown_started
         /\ w.ends = r.ends
    BY <1>8, <1>11 DEF OpRecords, Handles
  <1>13. Shape(w) /\ Going(w)
    BY <1>9, <1>8, <1>12 DEF Shape, Going
  <1>14. CASE n = CloseHandle(w, "connect_timer")
    <2>1. Shape(n)
      BY <1>12, <1>13, <1>14, CloseShape
    <2>2. /\ n \in OpRecords /\ Same(n, w) /\ n.ends = w.ends
          /\ n.closing = w.closing \cup {"connect_timer"}
          /\ n.reading = "off" /\ n.closes_pending = 0
      BY <1>0, <1>12, <1>14, CloseHandleFields DEF Going, Handles
    <2>3. UnderWay(n) /\ n.mode = r.mode
      BY <1>12, <1>13, <2>2 DEF UnderWay, Going, Phase, Wired, Same
    <2> QED
      BY <2>1, <2>2, <2>3, UnderWayFollows
  <1>15. CASE n = [w EXCEPT !.armed = {"connect_timer"}]
    <2>1. /\ n \in OpRecords /\ n.inits = {"tcp", "connect_timer"} /\ n.reqs = {"connect"}
          /\ n.reading = "off"
          /\ n.mode = r.mode /\ n.life = r.life /\ n.armed = {"connect_timer"}
          /\ n.closing = {} /\ n.closes = {}
          /\ n.closes_pending = 0 /\ n.closes_uncounted = 0 /\ n.aborted = r.aborted
          /\ n.tearing_down = r.tearing_down /\ n.teardown_started = r.teardown_started
          /\ n.ends = r.ends
      BY <1>12, <1>15 DEF OpRecords, Handles
    <2>2. Shape(n) /\ Going(n)
      BY <1>13, <1>12, <2>1 DEF Shape, Going
    <2> QED
      BY <2>1, <2>2, UnderWayFollows DEF UnderWay, Phase, Wired
  <1>16. c.inits \cup {"connect_timer"} = {"tcp", "connect_timer"}
    BY <1>8
  <1>17. [c EXCEPT !.inits = @ \cup {"connect_timer"}] = w
    BY <1>11, <1>16
  <1>18. n \in {Fail(r), Fail(t), c, CloseHandle(w, "connect_timer"),
                [w EXCEPT !.armed = {"connect_timer"}]}
    BY <1>3, <1>7, <1>17 DEF Connecting
  <1> QED
    BY <1>2, <1>6, <1>10, <1>14, <1>15, <1>18

-----------------------------------------------------------------------------
(* One lemma for each callback: what it makes of the operation *)

(* Who is in which phase. *)
LEMMA UnderWayReady ==
    ASSUME NEW r \in OpRecords, Shape(r), UnderWay(r)
    PROVE  Ready(r) /\ Phase(r) /\ ~r.aborted /\ r.life = "live"
  BY DEF UnderWay, Going, Ready

(* The request k has called back; and the timer of the connection is stopped. *)
Served(r, k) == [r EXCEPT !.reqs = @ \ {k}]
Stopped(r) == [r EXCEPT !.armed = @ \ {"connect_timer"}]

LEMMA ServedFields ==
    ASSUME NEW r, Ready(r), NEW k
    PROVE  /\ Ready(Served(r, k)) /\ Served(r, k).reqs = r.reqs \ {k}
           /\ Served(r, k).armed = r.armed /\ Served(r, k).inits = r.inits
           /\ Served(r, k).mode = r.mode /\ Served(r, k).scheme = r.scheme
           /\ Served(r, k).reading = r.reading /\ Served(r, k).aborted = r.aborted
  <1>1. r \in OpRecords /\ Shape(r) /\ Going(r)
    BY DEF Ready
  <1>2. PICK qs \in SUBSET Requests : qs = r.reqs \ {k}
    BY <1>1 DEF OpRecords
  <1>3. PICK n : n = Served(r, k)
    OBVIOUS
  <1>4. n = [r EXCEPT !.reqs = qs]
    BY <1>2, <1>3 DEF Served
  <1>5. /\ n \in OpRecords /\ n.reqs = qs /\ n.armed = r.armed
        /\ n.life = r.life /\ n.mode = r.mode /\ n.scheme = r.scheme
        /\ n.inits = r.inits /\ n.closing = r.closing /\ n.closes = r.closes
        /\ n.reading = r.reading
        /\ n.closes_pending = r.closes_pending /\ n.closes_uncounted = r.closes_uncounted
        /\ n.aborted = r.aborted /\ n.tearing_down = r.tearing_down
        /\ n.teardown_started = r.teardown_started /\ n.ends = r.ends
    BY <1>1, <1>4 DEF OpRecords
  <1>6. Shape(n) /\ Going(n)
    BY <1>1, <1>5 DEF Shape, Going
  <1> QED
    BY <1>2, <1>3, <1>5, <1>6 DEF Ready

LEMMA StoppedFields ==
    ASSUME NEW r, Ready(r)
    PROVE  /\ Ready(Stopped(r)) /\ Stopped(r).reqs = r.reqs
           /\ Stopped(r).armed = r.armed \ {"connect_timer"} /\ Stopped(r).inits = r.inits
           /\ Stopped(r).mode = r.mode /\ Stopped(r).scheme = r.scheme
           /\ Stopped(r).reading = r.reading /\ Stopped(r).aborted = r.aborted
  <1>1. r \in OpRecords /\ Shape(r) /\ Going(r)
    BY DEF Ready
  <1>2. PICK as \in SUBSET Handles : as = r.armed \ {"connect_timer"}
    BY <1>1 DEF OpRecords
  <1>3. PICK n : n = Stopped(r)
    OBVIOUS
  <1>4. n = [r EXCEPT !.armed = as]
    BY <1>2, <1>3 DEF Stopped
  <1>5. /\ n \in OpRecords /\ n.reqs = r.reqs /\ n.armed = as
        /\ n.life = r.life /\ n.mode = r.mode /\ n.scheme = r.scheme
        /\ n.inits = r.inits /\ n.closing = r.closing /\ n.closes = r.closes
        /\ n.reading = r.reading
        /\ n.closes_pending = r.closes_pending /\ n.closes_uncounted = r.closes_uncounted
        /\ n.aborted = r.aborted /\ n.tearing_down = r.tearing_down
        /\ n.teardown_started = r.teardown_started /\ n.ends = r.ends
    BY <1>1, <1>4 DEF OpRecords
  <1>6. Shape(n) /\ Going(n)
    BY <1>1, <1>2, <1>5 DEF Shape, Going
  <1> QED
    BY <1>2, <1>3, <1>5, <1>6 DEF Ready

LEMMA GetAddrInfoKeeps ==
    ASSUME HttpInv, NEW o \in Ops, GetAddrInfo(o)
    PROVE  HttpInv'
  <1>1. Live(o) /\ "dns" \in op[o].reqs /\ op[o].mode = "plain"
    BY DEF GetAddrInfo, Called
  <1>2. UnderWay(op[o]) /\ op[o] \in OpRecords /\ Shape(op[o])
    BY <1>1, LiveIs DEF Over, Kept
  <1>3. Ready(op[o]) /\ ~op[o].aborted /\ op[o].inits = {} /\ op[o].reading = "off"
        /\ op[o].reqs = {"dns"}
    BY <1>1, <1>2, UnderWayReady DEF Phase
  <1>4. PICK r : r = [op[o] EXCEPT !.reqs = {}]
    OBVIOUS
  <1>5. Ready(r) /\ r.reqs = {} /\ r.inits = {} /\ r.reading = "off" /\ ~r.aborted
        /\ r.mode = op[o].mode
    <2>1. r = Served(op[o], "dns")
      BY <1>3, <1>4 DEF Served
    <2> QED
      BY <1>3, <2>1, ServedFields
  <1>6. PICK n \in Connecting(r) : Becomes(o, n)
    BY <1>4 DEF GetAddrInfo
  <1>7. Follows(n, op[o])
    BY <1>5, ConnectingFollows
  <1> QED
    BY <1>1, <1>6, <1>7, BecomesKeeps

LEMMA StreamGetAddrInfoKeeps ==
    ASSUME HttpInv, NEW o \in Ops, StreamGetAddrInfo(o)
    PROVE  HttpInv'
  <1>1. Live(o) /\ "dns" \in op[o].reqs /\ op[o].mode = "stream"
    BY DEF StreamGetAddrInfo, Called
  <1>2. /\ op[o] \in OpRecords /\ Shape(op[o]) /\ Sound(op[o])
        /\ UnderWay(op[o]) \/ Over(op[o])
    BY <1>1, LiveIs
  <1>3. PICK r : r = [op[o] EXCEPT !.reqs = {}]
    OBVIOUS
  <1>4. CASE UnderWay(op[o])
    <2>1. Ready(op[o]) /\ ~op[o].aborted /\ op[o].inits = {} /\ op[o].reading = "off"
          /\ op[o].reqs = {"dns"}
      BY <1>1, <1>2, <1>4, UnderWayReady DEF Phase
    <2>2. Ready(r) /\ r.reqs = {} /\ r.inits = {} /\ r.reading = "off" /\ ~r.aborted
          /\ r.mode = op[o].mode
      <3>1. r = Served(op[o], "dns")
        BY <1>3, <2>1 DEF Served
      <3> QED
        BY <2>1, <3>1, ServedFields
    <2>3. PICK n \in Connecting(r) : Becomes(o, n)
      BY <1>3, <2>2 DEF StreamGetAddrInfo
    <2>4. Follows(n, op[o])
      BY <2>2, ConnectingFollows
    <2> QED
      BY <1>1, <2>3, <2>4, BecomesKeeps
  <1>5. CASE Over(op[o])
    <2>1. /\ op[o].inits = {} /\ op[o].aborted /\ op[o].reqs = {"dns"}
          /\ op[o].life = "live" /\ op[o].tearing_down
      BY <1>1, <1>5 DEF Over, Kept
    <2>2. Quiet(op[o])
      BY <1>5 DEF Over
    <2>3. /\ r \in OpRecords /\ r.reqs = {} /\ r.inits = {} /\ r.aborted
          /\ r.life = op[o].life /\ r.mode = op[o].mode /\ r.scheme = op[o].scheme
          /\ r.reading = op[o].reading /\ r.armed = op[o].armed
          /\ r.closing = op[o].closing /\ r.closes = op[o].closes
          /\ r.closes_pending = op[o].closes_pending
          /\ r.closes_uncounted = op[o].closes_uncounted
          /\ r.tearing_down = op[o].tearing_down /\ r.framing = op[o].framing
          /\ r.received = op[o].received /\ r.last = op[o].last /\ r.ends = op[o].ends
          /\ r.reentered = op[o].reentered
      BY <1>2, <1>3, <2>1 DEF OpRecords
    <2>4. Sound(r)
      BY <1>2, <2>3, SoundSame
    <2>5. Shape(r) /\ r.closes = {} /\ r.closing = {}
      BY <1>2, <2>1, <2>3 DEF Shape
    <2>6. OnlyTcpLeft(r) /\ r.reading = "off"
      BY <2>1, <2>2, <2>3, <2>4, <2>5 DEF OnlyTcpLeft, Quiet, Told
    <2>7. LET q == Finalize(r) IN OpInv(q) /\ Gone(q) /\ q.mode = r.mode
      BY <2>3, <2>5, <2>6, LastFree
    <2>8. Follows(Finalize(r), op[o])
      BY <2>3, <2>7 DEF Follows, Gone
    <2>9. Becomes(o, Finalize(r))
      BY <1>3, <2>3 DEF StreamGetAddrInfo
    <2> QED
      BY <1>1, <2>8, <2>9, BecomesKeeps
  <1> QED
    BY <1>2, <1>4, <1>5

(* A cancelled request calls back for an operation that is over. *)
LEMMA CancelledFollows ==
    ASSUME NEW r \in OpRecords, Shape(r), Sound(r), Over(r), NEW k \in Requests \ {"dns"},
           k \in r.reqs, NEW n, n = Served(r, k)
    PROVE  Follows(n, r) /\ n.aborted = r.aborted /\ n.tearing_down
  <1>1. PICK qs \in SUBSET Requests : qs = r.reqs \ {k}
    BY DEF OpRecords
  <1>2. n = [r EXCEPT !.reqs = qs]
    BY <1>1 DEF Served
  <1>3. /\ n \in OpRecords /\ n.reqs = qs /\ n.armed = r.armed
        /\ n.life = r.life /\ n.mode = r.mode /\ n.scheme = r.scheme
        /\ n.inits = r.inits /\ n.closing = r.closing /\ n.closes = r.closes
        /\ n.reading = r.reading /\ n.framing = r.framing
        /\ n.closes_pending = r.closes_pending /\ n.closes_uncounted = r.closes_uncounted
        /\ n.aborted = r.aborted /\ n.tearing_down = r.tearing_down
        /\ n.received = r.received /\ n.last = r.last /\ n.ends = r.ends
        /\ n.reentered = r.reentered
    BY <1>2 DEF OpRecords
  <1>4. Shape(n)
    BY <1>3 DEF Shape
  <1>5. Sound(n)
    BY <1>3, SoundSame
  <1>6. Over(n)
    BY <1>1, <1>3 DEF Over, Quiet, Told, Kept
  <1> QED
    BY <1>3, <1>4, <1>5, <1>6 DEF Follows, OpInv, Over

LEMMA ConnectFailsKeeps ==
    ASSUME HttpInv, NEW o \in Ops, ConnectFails(o)
    PROVE  HttpInv'
  <1>1. Live(o) /\ "connect" \in op[o].reqs /\ "connect" \in Requests \ {"dns"}
    BY DEF ConnectFails, Called, Requests
  <1>2. /\ op[o] \in OpRecords /\ Shape(op[o]) /\ Sound(op[o])
        /\ UnderWay(op[o]) \/ Over(op[o])
    BY <1>1, LiveIs
  <1>3. PICK r : r = Served(op[o], "connect")
    OBVIOUS
  <1>3a. Becomes(o, IF r.aborted \/ r.tearing_down THEN r ELSE FinishError(Stopped(r)))
    BY <1>3 DEF ConnectFails, Served, Stopped
  <1>4. CASE UnderWay(op[o])
    <2>1. /\ Ready(op[o]) /\ ~op[o].aborted /\ Wired(op[o]) /\ op[o].reqs = {"connect"}
      BY <1>1, <1>2, <1>4, UnderWayReady DEF Phase
    <2>2. /\ Ready(r) /\ r.reqs = {} /\ r.inits = op[o].inits /\ r.mode = op[o].mode
          /\ ~r.aborted
      BY <1>3, <2>1, ServedFields
    <2>3. ~r.tearing_down
      BY <2>2 DEF Ready, Going
    <2>4. PICK n : n = Stopped(r)
      OBVIOUS
    <2>5. Ready(n) /\ n.reqs = {} /\ n.inits = op[o].inits /\ n.mode = op[o].mode
      BY <2>2, <2>4, StoppedFields
    <2>6. Follows(FinishError(n), op[o])
      BY <2>1, <2>5, FinishErrorFollows DEF Wired, Endable, Cancels
    <2>7. Becomes(o, FinishError(n))
      BY <1>3a, <2>2, <2>3, <2>4
    <2> QED
      BY <1>1, <2>6, <2>7, BecomesKeeps
  <1>5. CASE Over(op[o])
    <2>1. Follows(r, op[o]) /\ r.tearing_down
      BY <1>1, <1>2, <1>3, <1>5, CancelledFollows
    <2>2. Becomes(o, r)
      BY <1>3a, <2>1
    <2> QED
      BY <1>1, <2>1, <2>2, BecomesKeeps
  <1> QED
    BY <1>2, <1>4, <1>5

LEMMA ConnectedKeeps ==
    ASSUME HttpInv, NEW o \in Ops, Connected(o)
    PROVE  HttpInv'
  <1>1. Live(o) /\ "connect" \in op[o].reqs /\ "tcp" \notin op[o].closing
    BY DEF Connected, Called
  <1>2. UnderWay(op[o]) /\ op[o] \in OpRecords /\ Shape(op[o])
    BY <1>1, LiveIs DEF Over, Kept, Shape
  <1>3. /\ Ready(op[o]) /\ ~op[o].aborted /\ Wired(op[o]) /\ op[o].reqs = {"connect"}
        /\ op[o].reading = "off"
    BY <1>1, <1>2, UnderWayReady DEF Phase
  <1>4. PICK s, r : s = Served(op[o], "connect") /\ r = Stopped(s)
    OBVIOUS
  <1>5. r = [op[o] EXCEPT !.reqs = @ \ {"connect"}, !.armed = @ \ {"connect_timer"}]
    BY <1>2, <1>4 DEF OpRecords, Served, Stopped
  <1>6. /\ Ready(s) /\ s.reqs = {} /\ s.armed = op[o].armed /\ s.inits = op[o].inits
        /\ s.mode = op[o].mode /\ s.reading = "off" /\ ~s.aborted
    BY <1>3, <1>4, ServedFields
  <1>7. /\ Ready(r) /\ r.reqs = {} /\ r.armed = op[o].armed \ {"connect_timer"}
        /\ r.inits = op[o].inits /\ r.mode = op[o].mode /\ r.reading = "off" /\ ~r.aborted
    BY <1>4, <1>6, StoppedFields
  <1>8. r.armed = {}
    BY <1>2, <1>3, <1>7 DEF OpRecords, Shape, Wired, Handles
  <1>9. Idle(r)
    BY <1>3, <1>7, <1>8 DEF Idle, Wired
  <1>10. PICK n : /\ Becomes(o, n)
                  /\ \/ r.scheme = "http" /\ n \in SendRequest(r)
                     \/ r.scheme = "https" /\ n \in StartTls(r)
                     \/ /\ r.scheme \notin {"http", "https"}
                        /\ n \in {FinishError(r), [r EXCEPT !.reqs = @ \cup {"connect_write"},
                                                            !.reading = "tunnel"]}
    BY <1>5 DEF Connected
  <1>11. CASE r.scheme = "http" /\ n \in SendRequest(r)
    <2>1. Follows(n, op[o])
      BY <1>7, <1>9, <1>11, SendFollows
    <2> QED
      BY <1>1, <1>10, <2>1, BecomesKeeps
  <1>12. CASE r.scheme = "https" /\ n \in StartTls(r)
    <2>1. Follows(n, op[o])
      BY <1>7, <1>9, <1>12, TlsFollows
    <2> QED
      BY <1>1, <1>10, <2>1, BecomesKeeps
  <1>13. CASE n = FinishError(r)
    <2>1. Follows(n, op[o])
      BY <1>3, <1>7, <1>13, FinishErrorFollows DEF Wired, Endable, Cancels
    <2> QED
      BY <1>1, <1>10, <2>1, BecomesKeeps
  <1>14. CASE n = [r EXCEPT !.reqs = @ \cup {"connect_write"}, !.reading = "tunnel"]
    <2>1. r \in OpRecords
      BY <1>7 DEF Ready
    <2>2. n = [r EXCEPT !.reqs = {"connect_write"}, !.reading = "tunnel"]
      BY <1>7, <1>14
    <2>3. n \in OpRecords
      BY <2>1, <2>2 DEF OpRecords, Requests
    <2>4. /\ n.reqs = {"connect_write"} /\ n.reading = "tunnel" /\ n.armed = r.armed
          /\ n.life = r.life /\ n.mode = r.mode /\ n.scheme = r.scheme
          /\ n.inits = r.inits /\ n.closing = r.closing /\ n.closes = r.closes
          /\ n.closes_pending = r.closes_pending /\ n.closes_uncounted = r.closes_uncounted
          /\ n.aborted = r.aborted /\ n.tearing_down = r.tearing_down
          /\ n.teardown_started = r.teardown_started /\ n.ends = r.ends
      BY <2>1, <2>2 DEF OpRecords
    <2>5. Shape(n) /\ Going(n) /\ Wired(n) /\ n.armed = {} /\ ~n.aborted
      BY <1>9, <2>3, <2>4, IdleFields
    <2>6. UnderWay(n)
      BY <2>4, <2>5 DEF UnderWay, Phase
    <2>7. Follows(n, op[o])
      BY <1>7, <2>3, <2>4, <2>5, <2>6, UnderWayFollows
    <2> QED
      BY <1>1, <1>10, <2>7, BecomesKeeps
  <1> QED
    BY <1>10, <1>11, <1>12, <1>13, <1>14

LEMMA ConnectTimeoutKeeps ==
    ASSUME HttpInv, NEW o \in Ops, ConnectTimeout(o)
    PROVE  HttpInv'
  <1>1. Live(o) /\ "connect_timer" \in op[o].armed
    BY DEF ConnectTimeout, Called
  <1>2. UnderWay(op[o]) /\ op[o] \in OpRecords /\ Shape(op[o])
    BY <1>1, LiveIs DEF Over, Quiet
  <1>3. /\ Ready(op[o]) /\ ~op[o].aborted /\ Wired(op[o]) /\ op[o].reqs = {"connect"}
    BY <1>1, <1>2, UnderWayReady DEF Phase, Shape
  <1>4. PICK r : r = Stopped(op[o])
    OBVIOUS
  <1>5. Ready(r) /\ r.reqs = op[o].reqs /\ r.inits = op[o].inits /\ r.mode = op[o].mode
    BY <1>3, <1>4, StoppedFields
  <1>6. Follows(FinishError(r), op[o])
    BY <1>3, <1>5, FinishErrorFollows DEF Wired, Endable, Cancels
  <1>7. Becomes(o, FinishError(r))
    BY <1>3, <1>4 DEF ConnectTimeout, Stopped
  <1> QED
    BY <1>1, <1>6, <1>7, BecomesKeeps

LEMMA TunnelReadKeeps ==
    ASSUME HttpInv, EagerProxy = FALSE, NEW o \in Ops, TunnelRead(o)
    PROVE  HttpInv'
  <1>1. Live(o) /\ op[o].reading = "tunnel" /\ "connect_write" \notin op[o].reqs
    BY DEF TunnelRead, Called
  <1>2. UnderWay(op[o]) /\ op[o] \in OpRecords /\ Shape(op[o])
    BY <1>1, LiveIs DEF Over, Quiet
  <1>3. /\ Ready(op[o]) /\ ~op[o].aborted /\ Wired(op[o]) /\ op[o].reqs = {}
        /\ op[o].armed = {}
    BY <1>1, <1>2, UnderWayReady DEF Phase
  <1>4. CASE Becomes(o, FinishError(op[o]))
    <2>1. Follows(FinishError(op[o]), op[o])
      BY <1>3, FinishErrorFollows DEF Wired, Endable, Cancels
    <2> QED
      BY <1>1, <1>4, <2>1, BecomesKeeps
  <1>5. PICK r : r = [op[o] EXCEPT !.reading = "off"]
    OBVIOUS
  <1>6. /\ r \in OpRecords /\ r.reading = "off" /\ r.reqs = {} /\ r.armed = {}
        /\ r.life = op[o].life /\ r.mode = op[o].mode /\ r.scheme = op[o].scheme
        /\ r.inits = op[o].inits /\ r.closing = op[o].closing /\ r.closes = op[o].closes
        /\ r.closes_pending = op[o].closes_pending
        /\ r.closes_uncounted = op[o].closes_uncounted
        /\ r.aborted = op[o].aborted /\ r.tearing_down = op[o].tearing_down
        /\ r.teardown_started = op[o].teardown_started /\ r.ends = op[o].ends
    BY <1>2, <1>3, <1>5 DEF OpRecords
  <1>7. Idle(r)
    <2>1. Shape(op[o]) /\ Going(op[o])
      BY <1>3 DEF Ready
    <2>2. Shape(r)
      BY <1>3, <1>6, <2>1 DEF Shape
    <2>3. Going(r)
      BY <1>6, <2>1 DEF Going
    <2> QED
      BY <1>3, <1>6, <2>2, <2>3 DEF Idle, Ready, Wired
  <1>8. ASSUME NEW n \in StartTls(r), Becomes(o, n) PROVE HttpInv'
    <2>1. Follows(n, op[o])
      BY <1>6, <1>7, <1>8, TlsFollows
    <2> QED
      BY <1>1, <1>8, <2>1, BecomesKeeps
  <1> QED
    BY <1>4, <1>5, <1>8 DEF TunnelRead

LEMMA TunnelWrittenKeeps ==
    ASSUME HttpInv, NEW o \in Ops, TunnelWritten(o)
    PROVE  HttpInv'
  <1>1. Live(o) /\ "connect_write" \in op[o].reqs /\ "connect_write" \in Requests \ {"dns"}
    BY DEF TunnelWritten, Called, Requests
  <1>2. /\ op[o] \in OpRecords /\ Shape(op[o]) /\ Sound(op[o])
        /\ UnderWay(op[o]) \/ Over(op[o])
    BY <1>1, LiveIs
  <1>3. PICK r : r = Served(op[o], "connect_write")
    OBVIOUS
  <1>4. \/ Becomes(o, IF r.aborted THEN r ELSE FinishError(r))
        \/ Becomes(o, r)
    BY <1>3 DEF TunnelWritten, Served
  <1>5. CASE UnderWay(op[o])
    <2>1. /\ Ready(op[o]) /\ ~op[o].aborted /\ Wired(op[o]) /\ op[o].reqs = {"connect_write"}
          /\ op[o].reading = "tunnel" /\ op[o].armed = {}
      BY <1>1, <1>2, <1>5, UnderWayReady DEF Phase
    <2>2. /\ Ready(r) /\ r.reqs = {} /\ r.inits = op[o].inits /\ r.mode = op[o].mode
          /\ ~r.aborted /\ r.reading = "tunnel" /\ r.armed = {}
      BY <1>3, <2>1, ServedFields
    <2>3. CASE Becomes(o, FinishError(r))
      <3>1. Follows(FinishError(r), op[o])
        BY <2>1, <2>2, FinishErrorFollows DEF Wired, Endable, Cancels
      <3> QED
        BY <1>1, <2>3, <3>1, BecomesKeeps
    <2>4. CASE Becomes(o, r)
      <3>1. UnderWay(r) /\ r \in OpRecords /\ Shape(r)
        BY <2>1, <2>2 DEF UnderWay, Phase, Ready, Wired
      <3>2. Follows(r, op[o])
        BY <2>2, <3>1, UnderWayFollows
      <3> QED
        BY <1>1, <2>4, <3>2, BecomesKeeps
    <2> QED
      BY <1>4, <2>2, <2>3, <2>4
  <1>6. CASE Over(op[o])
    <2>1. Follows(r, op[o]) /\ r.aborted = op[o].aborted
      BY <1>1, <1>2, <1>3, <1>6, CancelledFollows
    <2>2. op[o].aborted
      BY <1>1, <1>6 DEF Over, Kept
    <2>3. Becomes(o, r)
      BY <1>4, <2>1, <2>2
    <2> QED
      BY <1>1, <2>1, <2>3, BecomesKeeps
  <1> QED
    BY <1>2, <1>5, <1>6

LEMMA HandshakeReadKeeps ==
    ASSUME HttpInv, NEW o \in Ops, HandshakeRead(o)
    PROVE  HttpInv'
  <1>1. Live(o) /\ op[o].reading = "hello"
    BY DEF HandshakeRead, Called
  <1>2. UnderWay(op[o]) /\ op[o] \in OpRecords /\ Shape(op[o])
    BY <1>1, LiveIs DEF Over, Quiet
  <1>3. /\ Ready(op[o]) /\ ~op[o].aborted /\ Wired(op[o]) /\ op[o].reqs = {}
        /\ op[o].armed = {}
    BY <1>1, <1>2, UnderWayReady DEF Phase
  <1>4. CASE Becomes(o, FinishError(op[o]))
    <2>1. Follows(FinishError(op[o]), op[o])
      BY <1>3, FinishErrorFollows DEF Wired, Endable, Cancels
    <2> QED
      BY <1>1, <1>4, <2>1, BecomesKeeps
  <1>5. CASE Becomes(o, [op[o] EXCEPT !.secured = TRUE])
    <2>1. PICK n : n = [op[o] EXCEPT !.secured = TRUE]
      OBVIOUS
    <2>2. /\ n \in OpRecords /\ n.reading = "hello" /\ n.reqs = {} /\ n.armed = {}
          /\ n.life = op[o].life /\ n.mode = op[o].mode
          /\ n.inits = op[o].inits /\ n.closing = op[o].closing /\ n.closes = op[o].closes
          /\ n.closes_pending = op[o].closes_pending
          /\ n.closes_uncounted = op[o].closes_uncounted
          /\ n.aborted = op[o].aborted /\ n.tearing_down = op[o].tearing_down
          /\ n.teardown_started = op[o].teardown_started /\ n.ends = op[o].ends
      BY <1>1, <1>2, <1>3, <2>1 DEF OpRecords
    <2>3. Shape(n) /\ Going(n)
      BY <1>1, <1>3, <2>2 DEF Shape, Ready, Going
    <2>4. UnderWay(n)
      BY <1>3, <2>2, <2>3 DEF UnderWay, Phase, Wired
    <2>5. Follows(n, op[o])
      BY <2>2, <2>3, <2>4, UnderWayFollows
    <2> QED
      BY <1>1, <1>5, <2>1, <2>5, BecomesKeeps
  <1> QED
    BY <1>4, <1>5 DEF HandshakeRead

LEMMA WrittenKeeps ==
    ASSUME HttpInv, NEW o \in Ops, Written(o)
    PROVE  HttpInv'
  <1>1. Live(o) /\ "write" \in op[o].reqs /\ "write" \in Requests \ {"dns"}
    BY DEF Written, Called, Requests
  <1>2. /\ op[o] \in OpRecords /\ Shape(op[o]) /\ Sound(op[o])
        /\ UnderWay(op[o]) \/ Over(op[o])
    BY <1>1, LiveIs
  <1>3. PICK r : r = Served(op[o], "write")
    OBVIOUS
  <1>4. \/ Becomes(o, IF r.aborted THEN r ELSE FinishError(r))
        \/ "tcp" \notin r.closing /\ Becomes(o, Reads(r))
    BY <1>3 DEF Written, Served, Reads
  <1>5. CASE UnderWay(op[o])
    <2>1. /\ Ready(op[o]) /\ ~op[o].aborted /\ Wired(op[o]) /\ op[o].reqs = {"write"}
          /\ op[o].reading = "off" /\ op[o].armed = {}
      BY <1>1, <1>2, <1>5, UnderWayReady DEF Phase
    <2>2. /\ Ready(r) /\ r.reqs = {} /\ r.inits = op[o].inits /\ r.mode = op[o].mode
          /\ ~r.aborted /\ r.reading = "off" /\ r.armed = {}
      BY <1>3, <2>1, ServedFields
    <2>3. CASE Becomes(o, FinishError(r))
      <3>1. Follows(FinishError(r), op[o])
        BY <2>1, <2>2, FinishErrorFollows DEF Wired, Endable, Cancels
      <3> QED
        BY <1>1, <2>3, <3>1, BecomesKeeps
    <2>4. CASE Becomes(o, Reads(r))
      <3>1. Idle(r)
        BY <2>1, <2>2 DEF Idle, Wired
      <3>2. Follows(Reads(r), op[o])
        BY <2>2, <3>1, ReadsFollows
      <3> QED
        BY <1>1, <2>4, <3>2, BecomesKeeps
    <2> QED
      BY <1>4, <2>2, <2>3, <2>4
  <1>6. CASE Over(op[o])
    <2>1. Follows(r, op[o]) /\ r.aborted = op[o].aborted
      BY <1>1, <1>2, <1>3, <1>6, CancelledFollows
    <2>2. op[o].aborted /\ "tcp" \in op[o].closing
      BY <1>1, <1>2, <1>6 DEF Over, Kept, Shape
    <2>3. r.closing = op[o].closing
      BY <1>2, <1>3 DEF OpRecords, Served
    <2>4. Becomes(o, r)
      BY <1>4, <2>1, <2>2, <2>3
    <2> QED
      BY <1>1, <2>1, <2>4, BecomesKeeps
  <1> QED
    BY <1>2, <1>5, <1>6

-----------------------------------------------------------------------------
(* The response *)

(* The body is read. *)
Body(r) ==
    /\ Ready(r) /\ ~r.aborted /\ "tcp" \in r.inits /\ r.reqs = {} /\ r.reading = "body"
    /\ r.armed \subseteq {"idle_timer"} /\ (r.mode = "plain" => "idle_timer" \notin r.inits)

LEMMA BodyIs ==
    ASSUME HttpInv, NEW o \in Ops, Live(o), op[o].reading = "body"
    PROVE  Body(op[o])
  <1>1. UnderWay(op[o]) /\ op[o] \in OpRecords /\ Shape(op[o])
    BY LiveIs DEF Over, Quiet
  <1> QED
    BY <1>1, UnderWayReady DEF Phase, Body

LEMMA BodyFollows ==
    ASSUME NEW r, Body(r), NEW q, q.mode = r.mode
    PROVE  Follows(r, q)
  <1>1. r \in OpRecords /\ Shape(r) /\ UnderWay(r)
    BY DEF Body, UnderWay, Phase, Ready
  <1> QED
    BY <1>1, UnderWayFollows

LEMMA BodyFails ==
    ASSUME NEW r, Body(r), r.mode = "plain", NEW q, q.mode = r.mode
    PROVE  Follows(FinishError(r), q) /\ Follows(FinishSuccess(r), q)
  <1>1. Follows(FinishError(r), q)
    BY FinishErrorFollows DEF Body, Endable, Cancels
  <1>2. Ended(FinishSuccess(r), r)
    BY FinishSuccessEnds DEF Body, Cancels
  <1> QED
    BY <1>1, <1>2, EndedFollows DEF Follows

LEMMA BodyEnds ==
    ASSUME NEW r, Body(r), NEW s \in Statuses, Excused(r, s), NEW q, q.mode = r.mode
    PROVE  Follows(StreamEnd(r, s), q)
  BY StreamEndFollows DEF Body, Cancels

LEMMA AbsorbBody ==
    ASSUME NEW r, Body(r), NEW a \in Arrivals(r)
    PROVE  Body(Absorb(r, a)) /\ Absorb(r, a).mode = r.mode
  <1>1. r \in OpRecords /\ Shape(r) /\ Going(r) /\ r.received \in 0 .. BodyUnits
    BY DEF Body, Ready, OpRecords
  <1>2. a.framing \in Framings /\ a.units \in 0 .. BodyUnits /\ a.last \in BOOLEAN
        /\ r.received + a.units <= BodyUnits
    BY DEF Arrivals
  <1>3. PICK f \in Framings \cup {"none"}, u \in 0 .. BodyUnits, l \in BOOLEAN :
           f = a.framing /\ u = r.received + a.units /\ l = a.last
    BY <1>1, <1>2, HttpAssumption
  <1>4. PICK n : n = Absorb(r, a)
    OBVIOUS
  <1>5. n = [r EXCEPT !.framing = f, !.received = u, !.last = l]
    BY <1>3, <1>4 DEF Absorb
  <1>6. /\ n \in OpRecords /\ n.reading = r.reading /\ n.reqs = r.reqs /\ n.armed = r.armed
        /\ n.life = r.life /\ n.mode = r.mode
        /\ n.inits = r.inits /\ n.closing = r.closing /\ n.closes = r.closes
        /\ n.closes_pending = r.closes_pending /\ n.closes_uncounted = r.closes_uncounted
        /\ n.aborted = r.aborted /\ n.tearing_down = r.tearing_down
        /\ n.teardown_started = r.teardown_started /\ n.ends = r.ends
    BY <1>1, <1>5 DEF OpRecords
  <1>7. Shape(n) /\ Going(n)
    BY <1>1, <1>6 DEF Shape, Going
  <1> QED
    BY <1>4, <1>6, <1>7 DEF Body, Ready

LEMMA ReadKeeps ==
    ASSUME HttpInv, NEW o \in Ops, Read(o)
    PROVE  HttpInv'
  <1>1. Live(o) /\ op[o].reading = "body" /\ op[o].mode = "plain"
    BY DEF Read, Reading, Called
  <1>2. Body(op[o])
    BY <1>1, BodyIs
  <1>3. ASSUME NEW a \in Arrivals(op[o]), NEW r \in ProcessData(Absorb(op[o], a)), Becomes(o, r)
        PROVE  HttpInv'
    <2>1. PICK b : b = Absorb(op[o], a)
      OBVIOUS
    <2>2. Body(b) /\ b.mode = op[o].mode
      BY <1>2, <2>1, AbsorbBody
    <2>3. r \in {b, FinishSuccess(b), FinishError(b)}
      BY <1>3, <2>1 DEF ProcessData
    <2>4. /\ Follows(b, op[o]) /\ Follows(FinishSuccess(b), op[o])
          /\ Follows(FinishError(b), op[o])
      BY <1>1, <2>2, BodyFollows, BodyFails
    <2>5. Follows(r, op[o])
      BY <2>3, <2>4
    <2> QED
      BY <1>1, <1>3, <2>5, BecomesKeeps
  <1>4. ASSUME NEW r \in {FinishSuccess(op[o]), FinishError(op[o])}, Becomes(o, r)
        PROVE  HttpInv'
    <2>1. Follows(r, op[o])
      BY <1>1, <1>2, <1>4, BodyFails
    <2> QED
      BY <1>1, <1>4, <2>1, BecomesKeeps
  <1>5. ReadEof(op[o]) \in {FinishSuccess(op[o]), FinishError(op[o])}
    BY DEF ReadEof
  <1> QED
    BY <1>3, <1>4, <1>5 DEF Read

(* The operation r is aborted. *)
Withdrawn(r) ==
    [r EXCEPT !.aborted = TRUE, !.framing = "none", !.received = 0, !.last = FALSE]

LEMMA WithdrawnFields ==
    ASSUME NEW r, Ready(r), NEW w, w = Withdrawn(r)
    PROVE  /\ Ready(w) /\ w.aborted /\ w.reading = r.reading /\ w.reqs = r.reqs
           /\ w.inits = r.inits /\ w.mode = r.mode /\ w.reentered = r.reentered
  <1>1. r \in OpRecords /\ Shape(r) /\ Going(r)
    BY DEF Ready
  <1>2. 0 \in 0 .. BodyUnits /\ TRUE \in BOOLEAN /\ FALSE \in BOOLEAN
    BY HttpAssumption
  <1>3. w \in OpRecords
    BY <1>1, <1>2, ZenonT(30) DEF Withdrawn, OpRecords
  <1>4. /\ w.aborted /\ w.reading = r.reading /\ w.reqs = r.reqs
        /\ w.armed = r.armed /\ w.life = r.life /\ w.mode = r.mode
        /\ w.inits = r.inits /\ w.closing = r.closing /\ w.closes = r.closes
        /\ w.closes_pending = r.closes_pending /\ w.closes_uncounted = r.closes_uncounted
        /\ w.tearing_down = r.tearing_down /\ w.teardown_started = r.teardown_started
        /\ w.ends = r.ends /\ w.reentered = r.reentered
    BY <1>1, <1>3 DEF Withdrawn, OpRecords
  <1>5. Shape(w) /\ Going(w)
    BY <1>1, <1>4 DEF Shape, Going
  <1> QED
    BY <1>3, <1>4, <1>5 DEF Ready

(* The consumer aborted inside a callback; its operation may tell it more. *)
Reentered(n, q) ==
    Follows(n, q) /\ Over(n) /\ n.reentered /\ n.teardown_started /\ n.ends = <<"cancelled">>

LEMMA AbortInsideIs ==
    ASSUME NEW r, Body(r), NEW q, q.mode = r.mode
    PROVE  Reentered(AbortInside(r), q)
  <1>1. PICK p : p = [r EXCEPT !.reentered = TRUE]
    OBVIOUS
  <1>2. r \in OpRecords /\ Shape(r) /\ Going(r) /\ "tcp" \in r.inits /\ r.reqs = {}
    BY DEF Body, Ready
  <1>3. /\ p \in OpRecords /\ p.reentered /\ p.reading = r.reading /\ p.reqs = r.reqs
        /\ p.armed = r.armed /\ p.life = r.life /\ p.mode = r.mode
        /\ p.inits = r.inits /\ p.closing = r.closing /\ p.closes = r.closes
        /\ p.closes_pending = r.closes_pending /\ p.closes_uncounted = r.closes_uncounted
        /\ p.tearing_down = r.tearing_down /\ p.teardown_started = r.teardown_started
        /\ p.ends = r.ends
    BY <1>1, <1>2 DEF OpRecords
  <1>4. Ready(p)
    BY <1>2, <1>3 DEF Ready, Shape, Going
  <1>5. PICK w : w = Withdrawn(p)
    OBVIOUS
  <1>6. /\ Ready(w) /\ w.aborted /\ w.reqs = {} /\ "tcp" \in w.inits
        /\ w.mode = r.mode /\ w.reentered
    BY <1>2, <1>3, <1>4, <1>5, WithdrawnFields
  <1>7. Cancels(w) /\ "cancelled" \in Statuses /\ Excused(w, "cancelled")
    BY <1>6 DEF Cancels, Statuses, Excused
  <1>8. PICK n : n = StreamEnd(w, "cancelled")
    OBVIOUS
  <1>9. Ended(n, w) /\ ToldNow(n, w, "cancelled")
    BY <1>6, <1>7, <1>8, StreamEndEnds
  <1>10. Over(n)
    BY <1>9 DEF Ended, Gone, Over, ToldNow
  <1>11. AbortInside(r) = n
    BY <1>1, <1>5, <1>8 DEF AbortInside, AbortOp, Withdrawn
  <1>12. Follows(n, q)
    BY <1>6, <1>9, EndedFollows DEF Follows
  <1> QED
    BY <1>6, <1>9, <1>10, <1>11, <1>12 DEF Reentered, ToldNow

(* An end that comes after it changes nothing but that the consumer is told. *)
LEMMA ToldAgain ==
    ASSUME NEW n, NEW q, Reentered(n, q), NEW s \in Statuses
    PROVE  Follows(StreamEnd(n, s), q)
  <1>1. PICK e : e = End(n, s)
    OBVIOUS
  <1>2. StreamEnd(n, s) = e
    <2>1. n \in OpRecords /\ n.teardown_started
      BY DEF Reentered, Follows, OpInv
    <2>2. e.teardown_started
      BY <1>1, <2>1, EndFields DEF Same
    <2> QED
      BY <1>1, <2>2 DEF StreamEnd, StreamCleanup
  <1>3. n \in OpRecords /\ Shape(n) /\ Over(n) /\ n.mode = q.mode
    BY DEF Reentered, Follows, OpInv
  <1>4. /\ e \in OpRecords /\ Same(e, n) /\ e.ends = Append(n.ends, s)
        /\ e.closing = n.closing /\ e.closes = n.closes
        /\ e.armed = n.armed /\ e.reading = n.reading
        /\ e.closes_pending = n.closes_pending
        /\ e.closes_uncounted = n.closes_uncounted
    BY <1>1, <1>3, EndFields
  <1>5. Len(e.ends) = 2 /\ e.ends[1] = "cancelled"
    <2>1. <<"cancelled">> \in Seq(Statuses)
      BY DEF Statuses
    <2>2. /\ Len(Append(<<"cancelled">>, s)) = 2
          /\ Append(<<"cancelled">>, s)[1] = "cancelled"
      BY <2>1
    <2> QED
      BY <1>4, <2>2 DEF Reentered
  <1>6. Told(e)
    BY <1>4, <1>5 DEF Told, Reentered, Same
  <1>7. Over(e)
    BY <1>3, <1>4, <1>6 DEF Over, Quiet, Kept, Same
  <1>8. Shape(e)
    BY <1>3, <1>4 DEF Shape, Same
  <1>9. Sound(e)
    <2>1. Len(<<"ok">>) = 1
      OBVIOUS
    <2>2. e.ends # <<"ok">>
      BY <1>5, <2>1
    <2> QED
      BY <2>2 DEF Sound
  <1> QED
    BY <1>2, <1>3, <1>4, <1>7, <1>8, <1>9 DEF Follows, OpInv, Over, Same

LEMMA HandedOnIs ==
    ASSUME NEW r, Body(r), NEW a \in Arrivals(r), NEW x \in HandedOn(r, a)
    PROVE  x = Absorb(r, a) \/ Reentered(x, r)
  BY AbortInsideIs DEF HandedOn

LEMMA StreamProcessDataFollows ==
    ASSUME NEW r, Body(r), NEW a \in Arrivals(r), NEW n \in StreamProcessData(r, a)
    PROVE  Follows(n, r)
  <1>1. PICK b : b = Absorb(r, a)
    OBVIOUS
  <1>2. Body(b) /\ b.mode = r.mode
    BY <1>1, AbsorbBody
  <1>3. PICK x \in HandedOn(r, a) :
           \/ n = x
           \/ n = StreamEnd(x, "ok") /\ Complete(b)
           \/ n = StreamEnd(x, "error")
    BY <1>1 DEF StreamProcessData
  <1>4. x = b \/ Reentered(x, r)
    BY <1>1, <1>3, HandedOnIs
  <1>5. "ok" \in Statuses /\ "error" \in Statuses /\ Excused(b, "error")
        /\ (Complete(b) => Excused(b, "ok"))
    BY DEF Statuses, Excused
  <1>6. CASE Reentered(x, r)
    BY <1>3, <1>5, <1>6, ToldAgain DEF Reentered
  <1>7. CASE x = b
    <2>1. CASE n = x
      BY <1>2, <1>7, <2>1, BodyFollows
    <2>2. CASE n = StreamEnd(x, "ok") /\ Complete(b)
      BY <1>2, <1>5, <1>7, <2>2, BodyEnds
    <2>3. CASE n = StreamEnd(x, "error")
      BY <1>2, <1>5, <1>7, <2>3, BodyEnds
    <2> QED
      BY <1>3, <2>1, <2>2, <2>3
  <1> QED
    BY <1>4, <1>6, <1>7

LEMMA StreamReadKeeps ==
    ASSUME HttpInv, NEW o \in Ops, StreamRead(o)
    PROVE  HttpInv'
  <1>1. Live(o) /\ op[o].reading = "body" /\ op[o].mode = "stream"
    BY DEF StreamRead, Reading, Called
  <1>2. Body(op[o])
    BY <1>1, BodyIs
  <1>3. ~op[o].aborted /\ ~op[o].teardown_started
    BY <1>2 DEF Body, Ready, Going
  <1>4. ASSUME NEW a \in Arrivals(op[o]), NEW r \in StreamProcessData(op[o], a),
               Becomes(o, r)
        PROVE  HttpInv'
    BY <1>1, <1>2, <1>4, StreamProcessDataFollows, BecomesKeeps
  <1>5. ASSUME NEW s \in {"ok", "error"},
               s = "ok" => op[o].framing = "eof" \/ Complete(op[o]),
               Becomes(o, StreamEnd(op[o], s))
        PROVE  HttpInv'
    <2>1. Excused(op[o], s) /\ s \in Statuses
      BY <1>5 DEF Excused, Statuses
    <2>2. Follows(StreamEnd(op[o], s), op[o])
      BY <1>2, <2>1, BodyEnds
    <2> QED
      BY <1>1, <1>5, <2>2, BecomesKeeps
  <1>6. \/ \E a \in Arrivals(op[o]) :
              \E r \in StreamProcessData(op[o], a) : Becomes(o, r)
        \/ Becomes(o, StreamReadEof(op[o]))
        \/ Becomes(o, StreamEnd(op[o], "error"))
    BY <1>3 DEF StreamRead
  <1>7. CASE Becomes(o, StreamReadEof(op[o]))
    <2>1. PICK s \in {"ok", "error"} :
             s = IF op[o].framing = "eof" \/ Complete(op[o]) THEN "ok" ELSE "error"
      OBVIOUS
    <2>2. s = "ok" => op[o].framing = "eof" \/ Complete(op[o])
      BY <2>1
    <2> QED
      BY <1>5, <1>7, <2>1, <2>2 DEF StreamReadEof
  <1> QED
    BY <1>4, <1>5, <1>6, <1>7

LEMMA TlsReadKeeps ==
    ASSUME HttpInv, NEW o \in Ops, TlsRead(o)
    PROVE  HttpInv'
  <1>1. Live(o) /\ op[o].reading = "body" /\ op[o].mode = "plain"
        /\ Becomes(o, FinishSuccess(op[o]))
    BY DEF TlsRead, Reading, Called
  <1>2. Follows(FinishSuccess(op[o]), op[o])
    BY <1>1, BodyIs, BodyFails
  <1> QED
    BY <1>1, <1>2, BecomesKeeps

LEMMA TlsStreamReadKeeps ==
    ASSUME HttpInv, NEW o \in Ops, TlsStreamRead(o)
    PROVE  HttpInv'
  <1>1. Live(o) /\ op[o].reading = "body" /\ op[o].scheme # "http"
    BY DEF TlsStreamRead, Reading, Called
  <1>2. Body(op[o])
    BY <1>1, BodyIs
  <1>3. ASSUME NEW s \in Statuses, Becomes(o, StreamEnd(op[o], s))
        PROVE  HttpInv'
    <2>1. Follows(StreamEnd(op[o], s), op[o])
      BY <1>1, <1>2, BodyEnds DEF Excused
    <2> QED
      BY <1>1, <1>3, <2>1, BecomesKeeps
  <1>4. ASSUME NEW a \in Arrivals(op[o]), NEW s \in Statuses, NEW r \in HandedOn(op[o], a),
               r.reentered, Becomes(o, StreamEnd(r, s))
        PROVE  HttpInv'
    <2>1. CASE Reentered(r, op[o])
      BY <1>1, <1>4, <2>1, ToldAgain, BecomesKeeps
    <2>2. CASE r = Absorb(op[o], a)
      <3>1. Body(r) /\ r.mode = op[o].mode
        BY <1>2, <2>2, AbsorbBody
      <3>2. r.scheme = op[o].scheme
        BY <1>2, <2>2 DEF Absorb, Body, Ready, OpRecords
      <3>3. Follows(StreamEnd(r, s), op[o])
        BY <1>1, <3>1, <3>2, BodyEnds DEF Excused
      <3> QED
        BY <1>1, <1>4, <3>3, BecomesKeeps
    <2> QED
      BY <1>2, <1>4, <2>1, <2>2, HandedOnIs
  <1>5. \/ \E s \in Statuses : Becomes(o, StreamEnd(op[o], s))
        \/ \E a \in Arrivals(op[o]), s \in Statuses : \E r \in HandedOn(op[o], a) :
              r.reentered /\ Becomes(o, StreamEnd(r, s))
    BY DEF TlsStreamRead, Statuses
  <1> QED
    BY <1>3, <1>4, <1>5

LEMMA IdleTimeoutKeeps ==
    ASSUME HttpInv, NEW o \in Ops, IdleTimeout(o)
    PROVE  HttpInv'
  <1>1. Live(o) /\ "idle_timer" \in op[o].armed
    BY DEF IdleTimeout, Called
  <1>2. UnderWay(op[o]) /\ op[o] \in OpRecords /\ Shape(op[o])
    BY <1>1, LiveIs DEF Over, Quiet
  <1>3. Body(op[o])
    BY <1>1, <1>2, UnderWayReady DEF Phase, Wired, Shape, Body
  <1>4. Follows(StreamEnd(op[o], "error"), op[o])
    BY <1>3, BodyEnds DEF Excused, Statuses
  <1>5. Becomes(o, StreamEnd(op[o], "error"))
    BY <1>3 DEF IdleTimeout, Body
  <1> QED
    BY <1>1, <1>4, <1>5, BecomesKeeps

-----------------------------------------------------------------------------
(* Aborting and closing *)

LEMMA AbortKeeps ==
    ASSUME HttpInv, LateAbort = FALSE, NEW o \in Ops, Abort(o)
    PROVE  HttpInv'
  <1>1. op[o].ends = << >> /\ Becomes(o, AbortOp(op[o]))
    BY DEF Abort
  <1>2. Live(o) /\ op[o].mode = "stream"
    BY DEF Abort, Registered, HttpInv, Registry
  <1>3. UnderWay(op[o]) /\ op[o] \in OpRecords /\ Shape(op[o])
    <2>1. Len(<< >>) # 1 /\ Len(<< >>) # 2
      OBVIOUS
    <2> QED
      BY <1>1, <1>2, <2>1, LiveIs DEF Over, Quiet, Told
  <1>4. Going(op[o]) /\ Phase(op[o])
    BY <1>3 DEF UnderWay
  <1>5. PICK r : r = Withdrawn(op[o])
    OBVIOUS
  <1>6. Ready(op[o])
    BY <1>3, <1>4 DEF Ready
  <1>7. /\ Ready(r) /\ r.aborted /\ r.reading = op[o].reading /\ r.reqs = op[o].reqs
        /\ r.inits = op[o].inits /\ r.mode = op[o].mode
    BY <1>5, <1>6, WithdrawnFields
  <1>8. \/ "tcp" \in r.inits /\ Cancels(r)
        \/ /\ r.inits = {} /\ r.reqs = {"dns"} /\ r.reading = "off"
           /\ r.aborted /\ r.mode = "stream"
    BY <1>2, <1>4, <1>7 DEF Phase, Wired, Cancels
  <1>9. Follows(StreamEnd(r, "cancelled"), op[o])
    BY <1>7, <1>8, StreamEndFollows DEF Excused, Statuses
  <1>10. Becomes(o, StreamEnd(r, "cancelled"))
    BY <1>1, <1>5 DEF AbortOp, Withdrawn
  <1> QED
    BY <1>2, <1>9, <1>10, BecomesKeeps

(* The handle h has been closed; the counters agree with those that are left. *)
Less(r, h, p, u) ==
    [r EXCEPT !.closes = @ \ {h}, !.closes_pending = p, !.closes_uncounted = u]

LEMMA ClosedFields ==
    ASSUME NEW r \in OpRecords, Shape(r), NEW h \in r.closes, NEW p \in Nat, NEW u \in Nat,
           p + u = r.closes_pending + r.closes_uncounted - 1, u <= 1,
           NEW n, n = Less(r, h, p, u)
    PROVE  /\ n \in OpRecords /\ Shape(n) /\ n.closes = r.closes \ {h}
           /\ n.closes_pending = p /\ n.closes_uncounted = u
           /\ n.life = r.life /\ n.mode = r.mode /\ n.scheme = r.scheme /\ n.reqs = r.reqs
           /\ n.inits = r.inits /\ n.armed = r.armed /\ n.closing = r.closing
           /\ n.reading = r.reading /\ n.aborted = r.aborted
           /\ n.tearing_down = r.tearing_down /\ n.teardown_started = r.teardown_started
           /\ n.framing = r.framing /\ n.received = r.received /\ n.last = r.last
           /\ n.ends = r.ends /\ n.reentered = r.reentered
  <1>1. PICK cs \in SUBSET Handles : cs = r.closes \ {h}
    BY DEF OpRecords
  <1>2. n = [r EXCEPT !.closes = cs, !.closes_pending = p, !.closes_uncounted = u]
    BY <1>1 DEF Less
  <1>3. /\ n \in OpRecords /\ n.closes = cs
        /\ n.closes_pending = p /\ n.closes_uncounted = u
        /\ n.life = r.life /\ n.mode = r.mode /\ n.scheme = r.scheme /\ n.reqs = r.reqs
        /\ n.inits = r.inits /\ n.armed = r.armed /\ n.closing = r.closing
        /\ n.reading = r.reading /\ n.aborted = r.aborted
        /\ n.tearing_down = r.tearing_down /\ n.teardown_started = r.teardown_started
        /\ n.framing = r.framing /\ n.received = r.received /\ n.last = r.last
        /\ n.ends = r.ends /\ n.reentered = r.reentered
    <2>1. n \in OpRecords
      BY <1>2, ZenonT(30) DEF OpRecords
    <2>2. n.closes = cs /\ n.closes_pending = p /\ n.closes_uncounted = u
      BY <1>2, <2>1 DEF OpRecords
    <2>3. /\ n.life = r.life /\ n.mode = r.mode /\ n.scheme = r.scheme /\ n.reqs = r.reqs
          /\ n.inits = r.inits /\ n.armed = r.armed /\ n.closing = r.closing
          /\ n.reading = r.reading /\ n.aborted = r.aborted
      BY <1>2, <2>1 DEF OpRecords
    <2>4. /\ n.tearing_down = r.tearing_down /\ n.teardown_started = r.teardown_started
          /\ n.framing = r.framing /\ n.received = r.received /\ n.last = r.last
          /\ n.ends = r.ends /\ n.reentered = r.reentered
      BY <1>2, <2>1 DEF OpRecords
    <2> QED
      BY <2>1, <2>2, <2>3, <2>4
  <1>4. Num(cs) = Num(r.closes) - 1
    BY <1>1, NumFacts DEF OpRecords
  <1>5. Shape(n)
    <2>a. r.closes_pending + r.closes_uncounted = Num(r.closes)
      BY DEF Shape
    <2>b. r.closes_pending \in Nat /\ r.closes_uncounted \in Nat
      BY DEF OpRecords
    <2>c. p + u = Num(cs)
      BY <1>4, <2>a, <2>b
    <2>1. n.closes_pending + n.closes_uncounted = Num(n.closes) /\ n.closes_uncounted <= 1
      BY <1>3, <2>c
    <2>2. /\ n.closes \subseteq n.closing /\ n.closing \subseteq n.inits
          /\ n.armed \subseteq n.inits \ (n.closing \cup {"tcp"})
          /\ "tcp" \in n.closing => n.reading = "off"
      BY <1>1, <1>3 DEF Shape
    <2> QED
      BY <2>1, <2>2 DEF Shape
  <1> QED
    BY <1>1, <1>3, <1>5

LEMMA CloseDoneFollows ==
    ASSUME NEW r \in OpRecords, Shape(r), Sound(r), UnderWay(r) \/ Over(r),
           NEW h \in r.closes, h = "tcp" => r.reqs = {}
    PROVE  Follows(CloseDone([r EXCEPT !.closes = @ \ {h}]), r)
  <1>0. /\ r.closes_pending \in Nat /\ r.closes_uncounted \in Nat
        /\ r.closes_pending + r.closes_uncounted # 0 /\ r.closes_uncounted <= 1
    BY NumFacts DEF OpRecords, Shape
  <1>1. PICK p \in Nat, u \in Nat :
           IF r.closes_uncounted > 0
           THEN u = r.closes_uncounted - 1 /\ p = r.closes_pending
           ELSE u = r.closes_uncounted /\ p = r.closes_pending - 1
    BY <1>0
  <1>2. p + u = r.closes_pending + r.closes_uncounted - 1 /\ u <= 1
    BY <1>0, <1>1
  <1>3. PICK n : n = Less(r, h, p, u)
    OBVIOUS
  <1>4. /\ n \in OpRecords /\ Shape(n) /\ n.closes = r.closes \ {h}
        /\ n.closes_pending = p /\ n.closes_uncounted = u
        /\ n.life = r.life /\ n.mode = r.mode /\ n.scheme = r.scheme /\ n.reqs = r.reqs
        /\ n.inits = r.inits /\ n.armed = r.armed /\ n.closing = r.closing
        /\ n.reading = r.reading /\ n.aborted = r.aborted
        /\ n.tearing_down = r.tearing_down /\ n.teardown_started = r.teardown_started
        /\ n.framing = r.framing /\ n.received = r.received /\ n.last = r.last
        /\ n.ends = r.ends /\ n.reentered = r.reentered
    BY <1>0, <1>2, <1>3, ClosedFields
  <1>5. Sound(n)
    BY <1>4, SoundSame
  <1>6. p + u = Num(n.closes)
    BY <1>4 DEF Shape
  <1>7. p + u = 0 <=> n.closes = {}
    <2>1. n.closes \in SUBSET Handles
      BY <1>4 DEF OpRecords
    <2>2. Num(n.closes) = 0 <=> n.closes = {}
      BY <2>1, NumFacts
    <2> QED
      BY <1>6, <2>2
  <1>8. PICK c : c = CloseDone([r EXCEPT !.closes = @ \ {h}])
    OBVIOUS
  <1>9. r.tearing_down \/ r.closes_uncounted > 0
    BY <1>0 DEF UnderWay, Going, Over
  <1>10. c = IF n.tearing_down /\ p + u = 0 THEN Cleanup(n) ELSE n
    <2>1. PICK cs \in SUBSET Handles : cs = r.closes \ {h}
      BY DEF OpRecords
    <2>2. PICK z : z = [r EXCEPT !.closes = cs]
      OBVIOUS
    <2>3. /\ z.closes_pending = r.closes_pending /\ z.closes_uncounted = r.closes_uncounted
          /\ z.tearing_down = r.tearing_down
      BY <2>2 DEF OpRecords
    <2>3a. c = CloseDone(z)
      BY <1>8, <2>1, <2>2
    <2>4. CASE r.closes_uncounted > 0
      <3>1. [z EXCEPT !.closes_uncounted = @ - 1] = n
        BY <1>1, <1>3, <2>1, <2>2, <2>4 DEF OpRecords, Less
      <3>2. c = IF n.tearing_down /\ n.closes_uncounted = 0 /\ n.closes_pending = 0
                THEN Cleanup(n) ELSE n
        BY <2>3, <2>3a, <2>4, <3>1 DEF CloseDone
      <3> QED
        BY <1>4, <3>2
    <2>5. CASE ~(r.closes_uncounted > 0)
      <3>1. [z EXCEPT !.closes_pending = @ - 1] = n
        BY <1>0, <1>1, <1>3, <2>1, <2>2, <2>5 DEF OpRecords, Less
      <3>2. c = IF n.closes_pending = 0 THEN Cleanup(n) ELSE n
        BY <1>9, <2>3, <2>3a, <2>5, <3>1 DEF CloseDone
      <3> QED
        BY <1>0, <1>1, <1>4, <1>9, <2>5, <3>2
    <2> QED
      BY <2>4, <2>5
  <1>11. CASE UnderWay(r)
    <2>1. UnderWay(n) /\ ~n.tearing_down
      <3>1. Going(r) /\ Phase(r) /\ ~r.aborted
        BY <1>11 DEF UnderWay
      <3>2. p = 0
        BY <1>0, <1>1, <1>9, <3>1 DEF Going
      <3>3. Going(n)
        BY <1>4, <3>1, <3>2 DEF Going
      <3>4. Phase(n)
        BY <1>4, <3>1 DEF Phase, Wired
      <3> QED
        BY <1>4, <3>1, <3>3, <3>4 DEF UnderWay, Going
    <2>2. Follows(n, r)
      BY <1>4, <2>1, UnderWayFollows
    <2> QED
      BY <1>8, <1>10, <2>1, <2>2
  <1>12. CASE Over(r)
    <2>1. /\ Quiet(r) /\ r.closes # {} /\ (r.reqs # {} => "tcp" \in r.closes)
          /\ r.reqs \subseteq {"connect", "write", "connect_write"}
          /\ (r.reqs \subseteq {"connect"} \/ r.aborted) /\ r.life = "live" /\ r.tearing_down
      BY <1>12 DEF Over, Kept, Shape
    <2>2. Quiet(n)
      BY <1>4, <2>1 DEF Quiet, Told
    <2>3. n.reqs # {} => "tcp" \in n.closes
      BY <1>4, <2>1
    <2>4. CASE n.closes = {}
      <3>1. c = Cleanup(n)
        BY <1>4, <1>7, <1>10, <2>1, <2>4
      <3>2. /\ c \in OpRecords /\ c.life = "freed"
            /\ c.mode = n.mode /\ c.scheme = n.scheme /\ c.reqs = n.reqs
            /\ c.inits = n.inits /\ c.framing = n.framing
            /\ c.received = n.received /\ c.last = n.last /\ c.ends = n.ends
            /\ c.closing = n.closing /\ c.closes = n.closes /\ c.armed = n.armed
            /\ c.reading = n.reading /\ c.closes_pending = n.closes_pending
            /\ c.closes_uncounted = n.closes_uncounted /\ c.reentered = n.reentered
        BY <1>4, <3>1, CleanupFields
      <3>3. Shape(c)
        BY <1>4, <3>2 DEF Shape
      <3>4. Sound(c)
        BY <1>5, <3>2, SoundSame
      <3>5. Gone(c)
        BY <2>2, <2>3, <2>4, <3>2 DEF Gone, Quiet, Told
      <3> QED
        BY <1>4, <1>8, <3>2, <3>3, <3>4, <3>5 DEF Follows, OpInv
    <2>5. CASE n.closes # {}
      <3>1. c = n
        BY <1>7, <1>10, <2>5
      <3>2. Over(n)
        BY <1>4, <2>1, <2>2, <2>3, <2>5 DEF Over, Kept
      <3> QED
        BY <1>4, <1>5, <1>8, <3>1, <3>2 DEF Follows, OpInv, Over
    <2> QED
      BY <2>4, <2>5
  <1> QED
    BY <1>11, <1>12

LEMMA ClosedKeeps ==
    ASSUME HttpInv, NEW o \in Ops, NEW h \in Handles, Closed(o, h)
    PROVE  HttpInv'
  <1>1. /\ Live(o) /\ h \in op[o].closes /\ (h = "tcp" => op[o].reqs = {})
        /\ Becomes(o, CloseDone([op[o] EXCEPT !.closes = @ \ {h}]))
    BY DEF Closed, Called
  <1>2. Follows(CloseDone([op[o] EXCEPT !.closes = @ \ {h}]), op[o])
    BY <1>1, LiveIs, CloseDoneFollows
  <1> QED
    BY <1>1, <1>2, BecomesKeeps

-----------------------------------------------------------------------------
(* Requests and the specification *)

LEMMA FreshFields ==
    /\ Fresh \in OpRecords /\ Fresh.life = "unused" /\ Fresh.reqs = {} /\ Fresh.inits = {}
    /\ Fresh.reading = "off" /\ Fresh.armed = {} /\ Fresh.closing = {} /\ Fresh.closes = {}
    /\ Fresh.closes_pending = 0 /\ Fresh.closes_uncounted = 0 /\ Fresh.ends = << >>
    /\ Fresh.aborted = FALSE /\ Fresh.tearing_down = FALSE /\ Fresh.teardown_started = FALSE
    /\ Shape(Fresh) /\ Sound(Fresh)
  <1>1. Fresh \in OpRecords
    <2>1. /\ {} \in SUBSET Requests /\ {} \in SUBSET Handles /\ << >> \in Seq(Statuses)
          /\ 0 \in 0 .. BodyUnits /\ 0 \in Nat /\ FALSE \in BOOLEAN
      BY HttpAssumption
    <2>2. PICK R \in SUBSET Requests, H \in SUBSET Handles, e \in Seq(Statuses) :
             R = {} /\ H = {} /\ e = << >>
      BY <2>1
    <2>3. Fresh =
            [life |-> "unused", mode |-> "plain", scheme |-> "http", reqs |-> R,
             reading |-> "off", inits |-> H, armed |-> H, closing |-> H, closes |-> H,
             closes_pending |-> 0, closes_uncounted |-> 0,
             aborted |-> FALSE, tearing_down |-> FALSE, teardown_started |-> FALSE,
             secured |-> FALSE, sent |-> FALSE, framing |-> "none", received |-> 0,
             last |-> FALSE, ends |-> e, reentered |-> FALSE]
      BY <2>2 DEF Fresh
    <2> QED
      BY <2>1, <2>3 DEF OpRecords
  <1>2. /\ Fresh.life = "unused" /\ Fresh.reqs = {} /\ Fresh.inits = {}
        /\ Fresh.reading = "off" /\ Fresh.armed = {} /\ Fresh.closing = {} /\ Fresh.closes = {}
        /\ Fresh.closes_pending = 0 /\ Fresh.closes_uncounted = 0 /\ Fresh.ends = << >>
        /\ Fresh.aborted = FALSE /\ Fresh.tearing_down = FALSE
        /\ Fresh.teardown_started = FALSE /\ Fresh.mode = "plain"
    BY DEF Fresh
  <1>3. Shape(Fresh)
    BY <1>2, NumFacts DEF Shape
  <1>4. Sound(Fresh)
    BY <1>2 DEF Sound
  <1> QED
    BY <1>1, <1>2, <1>3, <1>4

(* An operation that was not used yet is. *)
LEMMA NewKeeps ==
    ASSUME HttpInv, NEW o \in Ops, op[o].life = "unused", NEW n, OpInv(n),
           op' = [op EXCEPT ![o] = n], rt' = rt,
           \/ http_ops' = http_ops /\ active_stream' = active_stream
           \/ /\ http_ops' = <<o>> \o http_ops /\ active_stream' = o
              /\ n.life = "live" /\ n.mode = "stream"
    PROVE  HttpInv'
  <1>1. op \in [Ops -> OpRecords] /\ n \in OpRecords
    BY DEF HttpInv, OpInv
  <1>2. op' \in [Ops -> OpRecords] /\ op'[o] = n /\ \A p \in Ops \ {o} : op'[p] = op[p]
    BY <1>1
  <1>3. \A p \in Ops : OpInv(op'[p])
    BY <1>2 DEF HttpInv
  <1>4. PICK s \in Seq(Ops) : s = http_ops
    BY DEF HttpInv, Registry
  <1>5. /\ \A i, j \in DOMAIN s : s[i] = s[j] => i = j
        /\ \A i \in DOMAIN s : s[i] \in Ops \ {o} /\ op'[s[i]].life = "live"
                               /\ op'[s[i]].mode = "stream"
        /\ active_stream \in Ops \cup {NoOp}
        /\ active_stream # NoOp => /\ op'[active_stream].life = "live"
                                   /\ op'[active_stream].mode = "stream"
    BY <1>2, <1>4 DEF HttpInv, Registry, Live
  <1>6. rt' \in {"up", "abort", "down"}
    BY DEF HttpInv, Registry
  <1>7. CASE http_ops' = http_ops /\ active_stream' = active_stream
    BY <1>2, <1>3, <1>4, <1>5, <1>6, <1>7 DEF HttpInv, Registry, Live
  <1>8. CASE /\ http_ops' = <<o>> \o http_ops /\ active_stream' = o
             /\ n.life = "live" /\ n.mode = "stream"
    <2>1. PICK t : t = <<o>> \o s
      OBVIOUS
    <2>2. /\ t \in Seq(Ops) /\ DOMAIN t = 1 .. Len(s) + 1 /\ t[1] = o
          /\ \A i \in DOMAIN t : i # 1 => i - 1 \in DOMAIN s /\ t[i] = s[i - 1]
      BY <2>1
    <2>3. \A i, j \in DOMAIN t : t[i] = t[j] => i = j
      <3> SUFFICES ASSUME NEW i \in DOMAIN t, NEW j \in DOMAIN t, t[i] = t[j]
                   PROVE  i = j
        OBVIOUS
      <3>1. CASE i = 1
        BY <1>5, <2>2, <3>1
      <3>2. CASE j = 1
        BY <1>5, <2>2, <3>2
      <3>3. CASE i # 1 /\ j # 1
        <4>1. i - 1 = j - 1 /\ i \in Nat /\ j \in Nat
          BY <1>5, <2>2, <3>3
        <4> QED
          BY <4>1
      <3> QED
        BY <3>1, <3>2, <3>3
    <2>4. \A i \in DOMAIN t : op'[t[i]].life = "live" /\ op'[t[i]].mode = "stream"
      <3> SUFFICES ASSUME NEW i \in DOMAIN t
                   PROVE  op'[t[i]].life = "live" /\ op'[t[i]].mode = "stream"
        OBVIOUS
      <3>1. CASE i = 1
        BY <1>2, <1>8, <2>2, <3>1
      <3>2. CASE i # 1
        BY <1>5, <2>2, <3>2
      <3> QED
        BY <3>1, <3>2
    <2>5. http_ops' = t /\ active_stream' = o
      BY <1>4, <1>8, <2>1
    <2> QED
      BY <1>2, <1>3, <1>6, <1>8, <2>2, <2>3, <2>4, <2>5 DEF HttpInv, Registry, Live
  <1> QED
    BY <1>7, <1>8

LEMMA UnusedIsFresh ==
    ASSUME HttpInv, NEW o \in Ops, op[o].life = "unused"
    PROVE  op[o] = Fresh
  BY DEF HttpInv, OpInv, UnderWay, Going, Over, Gone

LEMMA RequestFailsKeeps ==
    ASSUME HttpInv, NEW o \in Ops, RequestFails(o)
    PROVE  HttpInv'
  <1>1. /\ op[o].life = "unused" /\ op[o] = Fresh
        /\ op' = [op EXCEPT ![o] = End(Finalize(Fresh), "error")]
        /\ UNCHANGED <<http_ops, active_stream, rt>>
    BY UnusedIsFresh DEF RequestFails
  <1>2. PICK c : c = Cleanup(Fresh) /\ c = Finalize(Fresh)
    BY FreshFields DEF Finalize
  <1>3. /\ c \in OpRecords /\ c.life = "freed"
        /\ c.mode = Fresh.mode /\ c.scheme = Fresh.scheme /\ c.reqs = {}
        /\ c.inits = {} /\ c.ends = << >>
        /\ c.closing = {} /\ c.closes = {} /\ c.armed = {}
        /\ c.reading = "off" /\ c.closes_pending = 0 /\ c.closes_uncounted = 0
    <2>1. PICK f : f = Fresh
      OBVIOUS
    <2>2. f \in OpRecords /\ c = Cleanup(f)
      BY <1>2, <2>1, FreshFields
    <2>3. /\ c \in OpRecords /\ c.life = "freed"
          /\ c.mode = f.mode /\ c.scheme = f.scheme /\ c.reqs = f.reqs
          /\ c.inits = f.inits /\ c.ends = f.ends
          /\ c.closing = f.closing /\ c.closes = f.closes /\ c.armed = f.armed
          /\ c.reading = f.reading /\ c.closes_pending = f.closes_pending
          /\ c.closes_uncounted = f.closes_uncounted
      BY <2>2, CleanupFields
    <2>4. /\ f.reqs = {} /\ f.inits = {} /\ f.ends = << >>
          /\ f.closing = {} /\ f.closes = {} /\ f.armed = {}
          /\ f.reading = "off" /\ f.closes_pending = 0 /\ f.closes_uncounted = 0
      BY <2>1, FreshFields
    <2> QED
      BY <2>1, <2>3, <2>4
  <1>4. PICK e : e = End(c, "error")
    OBVIOUS
  <1>5. /\ e \in OpRecords /\ Same(e, c) /\ e.ends = Append(<< >>, "error")
        /\ e.closing = {} /\ e.closes = {} /\ e.armed = {} /\ e.reading = "off"
        /\ e.closes_pending = 0 /\ e.closes_uncounted = 0
    BY <1>3, <1>4, EndFields DEF Statuses
  <1>6. e.ends = <<"error">> /\ Len(e.ends) = 1 /\ <<"error">> # <<"ok">>
    BY <1>5
  <1>7. Shape(e)
    BY <1>3, <1>5, NumFacts DEF Shape, Same
  <1>8. Sound(e)
    BY <1>6 DEF Sound
  <1>9. Gone(e)
    BY <1>3, <1>5, <1>6 DEF Gone, Quiet, Told, Same
  <1>10. OpInv(e)
    BY <1>5, <1>7, <1>8, <1>9 DEF OpInv
  <1> QED
    BY <1>1, <1>2, <1>4, <1>10, NewKeeps

LEMMA RequestedIs ==
    ASSUME HttpInv, NEW o \in Ops, NEW m \in {"plain", "stream"}, Requested(o, m)
    PROVE  /\ op[o].life = "unused" /\ rt' = rt
           /\ \E n : /\ op' = [op EXCEPT ![o] = n] /\ OpInv(n)
                     /\ n.life = "live" /\ n.mode = m
  <1>1. op[o].life = "unused" /\ op[o] = Fresh /\ rt' = rt
    BY UnusedIsFresh DEF Requested
  <1>2. PICK s \in {k[2] : k \in {j \in Kinds[o] : j[1] = m}} :
           op' = [op EXCEPT ![o] = [@ EXCEPT !.life = "live", !.mode = m,
                                             !.scheme = s, !.reqs = {"dns"}]]
    BY Zenon DEF Requested
  <1>3. s \in {"http", "https", "tunnel"}
    BY HttpAssumption
  <1>4. PICK n : n = [Fresh EXCEPT !.life = "live", !.mode = m, !.scheme = s, !.reqs = {"dns"}]
    OBVIOUS
  <1>5. op' = [op EXCEPT ![o] = n]
    BY <1>1, <1>2, <1>4 DEF HttpInv
  <1>6. PICK Q \in SUBSET Requests : Q = {"dns"}
    BY DEF Requests
  <1>7. n = [Fresh EXCEPT !.life = "live", !.mode = m, !.scheme = s, !.reqs = Q]
    BY <1>4, <1>6
  <1>8. /\ n \in OpRecords /\ n.life = "live" /\ n.mode = m /\ n.reqs = Q
        /\ n.inits = Fresh.inits /\ n.reading = Fresh.reading /\ n.armed = Fresh.armed
        /\ n.closing = Fresh.closing /\ n.closes = Fresh.closes /\ n.ends = Fresh.ends
        /\ n.closes_pending = Fresh.closes_pending
        /\ n.closes_uncounted = Fresh.closes_uncounted /\ n.aborted = Fresh.aborted
        /\ n.tearing_down = Fresh.tearing_down
        /\ n.teardown_started = Fresh.teardown_started
    <2>1. Fresh \in OpRecords
      BY FreshFields
    <2> QED
      BY <1>3, <1>7, <2>1 DEF OpRecords
  <1>9. Shape(n)
    BY <1>8, FreshFields DEF Shape
  <1>10. UnderWay(n)
    BY <1>6, <1>8, FreshFields DEF UnderWay, Going, Phase
  <1>11. OpInv(n)
    BY <1>8, <1>9, <1>10, UnderWayFollows DEF Follows
  <1> QED
    BY <1>1, <1>5, <1>8, <1>11

LEMMA RequestKeeps ==
    ASSUME HttpInv, NEW o \in Ops, Request(o)
    PROVE  HttpInv'
  <1>1. Requested(o, "plain") /\ http_ops' = http_ops /\ active_stream' = active_stream
    BY DEF Request
  <1>2. PICK n : /\ op' = [op EXCEPT ![o] = n] /\ OpInv(n)
    BY <1>1, RequestedIs
  <1>3. op[o].life = "unused" /\ rt' = rt
    BY <1>1, RequestedIs
  <1> QED
    BY <1>1, <1>2, <1>3, NewKeeps

LEMMA RequestStreamKeeps ==
    ASSUME HttpInv, NEW o \in Ops, RequestStream(o)
    PROVE  HttpInv'
  <1>1. Requested(o, "stream") /\ http_ops' = <<o>> \o http_ops /\ active_stream' = o
    BY DEF RequestStream
  <1>2. PICK n : /\ op' = [op EXCEPT ![o] = n] /\ OpInv(n)
                 /\ n.life = "live" /\ n.mode = "stream"
    BY <1>1, RequestedIs
  <1>3. op[o].life = "unused" /\ rt' = rt
    BY <1>1, RequestedIs
  <1> QED
    BY <1>1, <1>2, <1>3, NewKeeps

LEMMA TeardownKeeps ==
    ASSUME HttpInv, Teardown
    PROVE  HttpInv'
  <1>1. op' = op /\ http_ops' = http_ops /\ active_stream' = active_stream
        /\ rt' \in {"up", "abort", "down"}
    BY DEF Teardown
  <1> QED
    BY <1>1 DEF HttpInv, Registry, Live

LEMMA HttpInit ==
    ASSUME Init PROVE HttpInv
  <1>1. op \in [Ops -> OpRecords] /\ \A o \in Ops : op[o] = Fresh
    BY FreshFields DEF Init
  <1>2. \A o \in Ops : OpInv(op[o])
    BY <1>1, FreshFields DEF OpInv
  <1>3. http_ops \in Seq(Ops) /\ DOMAIN http_ops = {}
    BY DEF Init
  <1> QED
    BY <1>1, <1>2, <1>3 DEF Init, HttpInv, Registry

LEMMA StepKeeps ==
    ASSUME HttpInv, EagerProxy = FALSE, NEW o \in Ops, Step(o)
    PROVE  HttpInv'
  BY GetAddrInfoKeeps, StreamGetAddrInfoKeeps, ConnectFailsKeeps, ConnectedKeeps,
     ConnectTimeoutKeeps, TunnelReadKeeps, TunnelWrittenKeeps, HandshakeReadKeeps,
     WrittenKeeps, ReadKeeps, StreamReadKeeps, TlsReadKeeps, TlsStreamReadKeeps,
     IdleTimeoutKeeps, ClosedKeeps DEF Step

(* The inductive invariant: every operation is unused, under way, over or gone,  *)
(* and the registry and active_stream name live streams only.                    *)
THEOREM HttpInvHolds ==
    ASSUME EagerProxy = FALSE, LateAbort = FALSE
    PROVE  Spec => []HttpInv
  <1>1. ASSUME HttpInv, [Next]_vars PROVE HttpInv'
    <2>1. CASE UNCHANGED vars
      BY <1>1, <2>1 DEF vars, HttpInv, Registry, Live
    <2>2. CASE Teardown
      BY <1>1, <2>2, TeardownKeeps
    <2>3. ASSUME NEW o \in Ops,
                 RequestFails(o) \/ Request(o) \/ RequestStream(o) \/ Step(o) \/ Abort(o)
          PROVE  HttpInv'
      BY <1>1, <2>3, RequestFailsKeeps, RequestKeeps, RequestStreamKeeps, StepKeeps,
         AbortKeeps
    <2> QED
      BY <1>1, <2>1, <2>2, <2>3 DEF Next
  <1> QED
    BY <1>1, HttpInit, PTL DEF Spec

LEMMA OverIsTold ==
    ASSUME HttpInv, NEW o \in Ops
    PROVE  /\ op[o] \in OpRecords /\ Shape(op[o]) /\ Sound(op[o])
           /\ op[o].ends = << >> \/ Told(op[o])
           /\ op[o].life = "freed" => Gone(op[o])
           /\ op[o].tearing_down /\ op[o].life # "freed" => Over(op[o])
  BY FreshFields DEF HttpInv, OpInv, UnderWay, Going, Over, Gone, Quiet

LEMMA HttpTypes ==
    ASSUME HttpInv PROVE TypeOK
  <1>1. ASSUME NEW o \in Ops
        PROVE  /\ op[o].life \in {"unused", "live", "freed"}
               /\ op[o].mode \in {"plain", "stream"}
               /\ op[o].scheme \in {"http", "https", "tunnel"}
               /\ op[o].reqs \subseteq Requests
               /\ op[o].reading \in {"off", "tunnel", "hello", "body"}
               /\ op[o].inits \subseteq Handles
               /\ op[o].framing \in Framings \cup {"none"} /\ op[o].received \in 0 .. BodyUnits
               /\ op[o].ends \in Seq({"ok", "error", "cancelled"})
    BY OverIsTold DEF OpRecords, Statuses
  <1>2. ASSUME NEW o \in Ops
        PROVE  /\ op[o].closes \subseteq op[o].closing /\ op[o].closing \subseteq op[o].inits
               /\ op[o].armed \subseteq op[o].inits \ {"tcp"}
    BY OverIsTold DEF Shape
  <1>3. ASSUME NEW o \in Ops
        PROVE  op[o].closes_pending \in 0 .. 3 /\ op[o].closes_uncounted \in 0 .. 1
    <2>1. /\ op[o].closes_pending \in Nat /\ op[o].closes_uncounted \in Nat
          /\ op[o].closes \in SUBSET Handles
      BY OverIsTold DEF OpRecords
    <2>2. op[o].closes_pending + op[o].closes_uncounted \in 0 .. 3
          /\ op[o].closes_uncounted <= 1
      BY <2>1, OverIsTold, NumFacts DEF Shape
    <2> QED
      BY <2>1, <2>2
  <1>4. ASSUME NEW o \in Ops PROVE Len(op[o].ends) <= 2 /\ op[o].reentered \in BOOLEAN
    <2>1. Len(<< >>) = 0
      OBVIOUS
    <2>2. Len(op[o].ends) \in {0, 1, 2}
      BY <2>1, OverIsTold DEF Told
    <2>3. op[o].reentered \in BOOLEAN
      BY OverIsTold DEF OpRecords
    <2>4. \A n \in {0, 1, 2} : n <= 2
      OBVIOUS
    <2> QED
      BY <2>2, <2>3, <2>4
  <1>5. /\ http_ops \in Seq(Ops) /\ active_stream \in Ops \cup {NoOp}
        /\ rt \in {"up", "abort", "down"}
        /\ \A i, j \in DOMAIN http_ops : http_ops[i] = http_ops[j] => i = j
    BY DEF HttpInv, Registry
  <1> QED
    BY <1>1, <1>2, <1>3, <1>4, <1>5 DEF TypeOK

(* An operation is freed by the last callback libuv owes it: whatever the order  *)
(* in which its timers and its connection close and its requests are cancelled,  *)
(* uv_io_http_close_done frees it neither while one of them may still call back  *)
(* nor never, and no list still names it.  A proxy does not answer a CONNECT it  *)
(* has not been sent, and JS does not abort a request whose end it was told.     *)
THEOREM OperationsAreFreed ==
    ASSUME EagerProxy = FALSE, LateAbort = FALSE
    PROVE  Spec => []FreedByTheLast
  <1>1. ASSUME HttpInv PROVE FreedByTheLast
    <2>1. TypeOK
      BY <1>1, HttpTypes
    <2>2. FreedIsUnreferenced
      <3> SUFFICES ASSUME NEW o \in Ops, op[o].life = "freed"
                   PROVE  /\ op[o].reqs = {} /\ op[o].armed = {} /\ op[o].reading = "off"
                          /\ op[o].closes = {} /\ op[o].inits \subseteq op[o].closing
                          /\ active_stream # o /\ ~Registered(o)
        BY DEF FreedIsUnreferenced
      <3>1. Gone(op[o]) /\ o # NoOp
        BY <1>1, OverIsTold, HttpAssumption
      <3>2. active_stream # o /\ ~Registered(o)
        BY <1>1, <3>1 DEF HttpInv, Registry, Live, Registered
      <3> QED
        BY <3>1, <3>2 DEF Gone, Quiet
    <2>3. TornDownIsFreed
      BY <1>1, OverIsTold DEF TornDownIsFreed, Over, Kept
    <2> QED
      BY <2>1, <2>2, <2>3 DEF FreedByTheLast
  <1> QED
    BY <1>1, HttpInvHolds, PTL

(* The consumer hears of the end of its request, although time-out, failure, end *)
(* of file and abort race: before the operation is freed, and twice only if it    *)
(* aborted the request inside a callback and was told of the abort first.         *)
THEOREM ConsumersHearOnce ==
    ASSUME EagerProxy = FALSE, LateAbort = FALSE
    PROVE  Spec => []ToldOnce
  <1>1. ASSUME HttpInv PROVE ToldOnce
    <2>1. EndsOnce
      <3> SUFFICES ASSUME NEW o \in Ops
                   PROVE  Len(op[o].ends) <= 1 \/ (op[o].reentered /\ op[o].ends[1] = "cancelled")
        BY DEF EndsOnce
      <3>1. Len(<< >>) = 0 /\ 0 <= 1 /\ 1 <= 1
        OBVIOUS
      <3> QED
        BY <1>1, <3>1, OverIsTold DEF Told
    <2>2. FreedIsTold
      <3>1. Len(<< >>) # 1 /\ Len(<< >>) # 2
        OBVIOUS
      <3> QED
        BY <1>1, <3>1, OverIsTold DEF FreedIsTold, Gone, Quiet, Told
    <2> QED
      BY <2>1, <2>2 DEF ToldOnce
  <1> QED
    BY <1>1, HttpInvHolds, PTL

(* A streamed response over plain HTTP that is reported as complete is complete: *)
(* uv_io_http_stream_read_cb never takes an early end for success.               *)
THEOREM EarlyEndsAreErrors ==
    ASSUME EagerProxy = FALSE, LateAbort = FALSE
    PROVE  Spec => []SuccessIsComplete
  <1>1. ASSUME HttpInv PROVE SuccessIsComplete
    BY <1>1, OverIsTold DEF SuccessIsComplete, Sound
  <1> QED
    BY <1>1, HttpInvHolds, PTL

-----------------------------------------------------------------------------
(* TCP connections *)

(* Every set of numbers that is not empty has a least one. *)
LEMMA Least ==
    ASSUME NEW S, S \subseteq Nat, S # {}
    PROVE  \E m \in S : \A n \in S : m <= n
  <1>1. PICK m \in S : \A n \in S : ~(<<n, m>> \in OpToRel(<, Nat))
    BY NatLessThanWellFounded, WFMin, Zenon
  <1>2. ASSUME NEW n \in S, ~(m <= n) PROVE FALSE
    <2>1. n \in Nat /\ m \in Nat /\ n < m
      BY <1>2
    <2>2. <<n, m>> \in OpToRel(<, Nat)
      BY <2>1 DEF OpToRel
    <2> QED
      BY <1>1, <1>2, <2>2, Zenon
  <1> QED
    BY <1>2

Data == {"d1", "d2", "d3"}
Ends == {"error", "close"}

ConnRecs ==
    [life : {"unused", "live", "freed"}, role : {"client", "server"}, tls : BOOLEAN,
     tcp : {"none", "open", "closing"}, closed : BOOLEAN, freed : BOOLEAN,
     reqs : SUBSET {"dns", "connect", "write"}, reading : BOOLEAN, handle : BOOLEAN,
     cbs : BOOLEAN, ref : BOOLEAN, up : BOOLEAN, pos : Nat,
     buf : Seq(Data \cup {"hs", "bye"}), consumed : Nat, hs : Nat, done : BOOLEAN,
     told : Seq(Notices), got : Seq(Data),
     dropped : BOOLEAN, cut : BOOLEAN]

NoEnd(s) == \A i \in 1 .. Len(s) : s[i] \notin Ends
EndsLast(s) == \A i \in 1 .. Len(s) - 1 : s[i] \notin Ends

(* Data as far as it goes *)
IsSent(s) == Len(s) <= Len(TcpData) /\ \A i \in 1 .. Len(s) : s[i] = TcpData[i]

(* What was received and not taken yet is where it is in the peer's stream. *)
Wire(r) ==
    /\ r.pos <= Len(PeerStream(r)) /\ Len(r.buf) <= r.pos /\ r.consumed <= Len(r.buf)
    /\ \A i \in 1 .. Len(r.buf) : r.buf[i] = PeerStream(r)[r.pos - Len(r.buf) + i]
    /\ r.tls => /\ r.pos - Len(r.buf) + r.consumed = r.hs + Len(r.got)
                /\ r.hs <= HsUnits /\ (r.done <=> r.hs = HsUnits) /\ (~r.done => r.got = << >>)
    /\ ~r.tls => r.buf = << >> /\ Len(r.got) = r.pos

(* A connection that can still be told something *)
Open(r) ==
    /\ r \in ConnRecs /\ r.life = "live" /\ r.tcp = "open" /\ ~r.closed /\ ~r.freed
    /\ NoEnd(r.told) /\ IsSent(r.got) /\ ~r.dropped

(* The script is told of a connection when it can write. *)
Established(r) ==
    /\ r.reqs \cap {"dns", "connect"} # {} => r.told = << >> /\ ~r.reading
    /\ ~({"dns", "connect"} \subseteq r.reqs)
    /\ "connect" \in Range(r.told) => IF r.tls THEN r.done ELSE r.up

Here(r) == Open(r) /\ r.cbs /\ Wire(r) /\ Established(r)

TornDown(r) ==
    /\ r \in ConnRecs /\ r.closed /\ r.freed /\ ~r.handle /\ ~r.reading /\ ~r.ref
    /\ r.consumed <= Len(r.buf) /\ EndsLast(r.told) /\ IsSent(r.got) /\ ~r.dropped
    /\ \/ r.life = "live" /\ r.tcp = "closing"
       \/ r.life = "freed" /\ r.tcp = "none" /\ r.reqs \subseteq {"dns"}

ConnOk(r) == r = FreshConn \/ Here(r) \/ TornDown(r)

Users == {c \in Conns : conn[c].ref}
Own == IF lsn.tls /\ lsn.st \in {"open", "closing"} THEN 1 ELSE 0

CtxOk ==
    /\ lsn \in [st : {"none", "open", "closing", "closed"}, tls : BOOLEAN, handle : BOOLEAN]
    /\ tls_ctx \in [st : {"none", "live", "freed"}, refs : Nat]
    /\ tls_ctx.refs = Cardinality(Users) + Own
    /\ (tls_ctx.st = "live" <=> tls_ctx.refs > 0)
    /\ lsn.st = "none" => tls_ctx.refs = 0

TcpInv ==
    /\ conn = [c \in Conns |-> conn[c]] /\ \A c \in Conns : ConnOk(conn[c])
    /\ CtxOk

LEMMA FreshIs ==
    /\ FreshConn \in ConnRecs /\ FreshConn.life = "unused" /\ FreshConn.tcp = "none" /\ FreshConn.reqs = {}
    /\ ~FreshConn.handle /\ ~FreshConn.freed /\ ~FreshConn.closed /\ ~FreshConn.reading /\ ~FreshConn.ref
    /\ FreshConn.told = << >> /\ FreshConn.got = << >> /\ ~FreshConn.dropped /\ FreshConn.buf = << >>
    /\ FreshConn.consumed = 0 /\ FreshConn.pos = 0 /\ FreshConn.hs = 0 /\ ~FreshConn.done
  BY DEF FreshConn, ConnRecs

(* A connection with another value in one field *)
LEMMA SetField ==
    ASSUME NEW r \in ConnRecs
    PROVE  /\ \A v \in {"unused", "live", "freed"} : [r EXCEPT !.life = v] \in ConnRecs
           /\ \A v \in {"none", "open", "closing"} : [r EXCEPT !.tcp = v] \in ConnRecs
           /\ \A v \in BOOLEAN : [r EXCEPT !.closed = v] \in ConnRecs
           /\ \A v \in BOOLEAN : [r EXCEPT !.freed = v] \in ConnRecs
           /\ \A v \in SUBSET {"dns", "connect", "write"} : [r EXCEPT !.reqs = v] \in ConnRecs
           /\ \A v \in BOOLEAN : [r EXCEPT !.reading = v] \in ConnRecs
           /\ \A v \in BOOLEAN : [r EXCEPT !.handle = v] \in ConnRecs
           /\ \A v \in BOOLEAN : [r EXCEPT !.cbs = v] \in ConnRecs
           /\ \A v \in BOOLEAN : [r EXCEPT !.ref = v] \in ConnRecs
           /\ \A v \in BOOLEAN : [r EXCEPT !.up = v] \in ConnRecs
           /\ \A v \in Nat : [r EXCEPT !.pos = v] \in ConnRecs
           /\ \A v \in Seq(Data \cup {"hs", "bye"}) : [r EXCEPT !.buf = v] \in ConnRecs
           /\ \A v \in Nat : [r EXCEPT !.consumed = v] \in ConnRecs
           /\ \A v \in Nat : [r EXCEPT !.hs = v] \in ConnRecs
           /\ \A v \in BOOLEAN : [r EXCEPT !.done = v] \in ConnRecs
           /\ \A v \in Seq(Notices) : [r EXCEPT !.told = v] \in ConnRecs
           /\ \A v \in Seq(Data) : [r EXCEPT !.got = v] \in ConnRecs
           /\ \A v \in BOOLEAN : [r EXCEPT !.dropped = v] \in ConnRecs
           /\ \A v \in BOOLEAN : [r EXCEPT !.cut = v] \in ConnRecs
  <1>1. ASSUME NEW v \in {"unused", "live", "freed"} PROVE [r EXCEPT !.life = v] \in ConnRecs
    BY DEF ConnRecs
  <1>2. ASSUME NEW v \in {"none", "open", "closing"} PROVE [r EXCEPT !.tcp = v] \in ConnRecs
    BY DEF ConnRecs
  <1>3. ASSUME NEW v \in BOOLEAN PROVE [r EXCEPT !.closed = v] \in ConnRecs
    BY DEF ConnRecs
  <1>4. ASSUME NEW v \in BOOLEAN PROVE [r EXCEPT !.freed = v] \in ConnRecs
    BY DEF ConnRecs
  <1>5. ASSUME NEW v \in SUBSET {"dns", "connect", "write"} PROVE [r EXCEPT !.reqs = v] \in ConnRecs
    BY DEF ConnRecs
  <1>6. ASSUME NEW v \in BOOLEAN PROVE [r EXCEPT !.reading = v] \in ConnRecs
    BY DEF ConnRecs
  <1>7. ASSUME NEW v \in BOOLEAN PROVE [r EXCEPT !.handle = v] \in ConnRecs
    BY DEF ConnRecs
  <1>8. ASSUME NEW v \in BOOLEAN PROVE [r EXCEPT !.cbs = v] \in ConnRecs
    BY DEF ConnRecs
  <1>9. ASSUME NEW v \in BOOLEAN PROVE [r EXCEPT !.ref = v] \in ConnRecs
    BY DEF ConnRecs
  <1>10. ASSUME NEW v \in BOOLEAN PROVE [r EXCEPT !.up = v] \in ConnRecs
    BY DEF ConnRecs
  <1>11. ASSUME NEW v \in Nat PROVE [r EXCEPT !.pos = v] \in ConnRecs
    BY DEF ConnRecs
  <1>12. ASSUME NEW v \in Seq(Data \cup {"hs", "bye"}) PROVE [r EXCEPT !.buf = v] \in ConnRecs
    BY DEF ConnRecs
  <1>13. ASSUME NEW v \in Nat PROVE [r EXCEPT !.consumed = v] \in ConnRecs
    BY DEF ConnRecs
  <1>14. ASSUME NEW v \in Nat PROVE [r EXCEPT !.hs = v] \in ConnRecs
    BY DEF ConnRecs
  <1>15. ASSUME NEW v \in BOOLEAN PROVE [r EXCEPT !.done = v] \in ConnRecs
    BY DEF ConnRecs
  <1>16. ASSUME NEW v \in Seq(Notices) PROVE [r EXCEPT !.told = v] \in ConnRecs
    BY DEF ConnRecs
  <1>17. ASSUME NEW v \in Seq(Data) PROVE [r EXCEPT !.got = v] \in ConnRecs
    BY DEF ConnRecs
  <1>18. ASSUME NEW v \in BOOLEAN PROVE [r EXCEPT !.dropped = v] \in ConnRecs
    BY DEF ConnRecs
  <1>19. ASSUME NEW v \in BOOLEAN PROVE [r EXCEPT !.cut = v] \in ConnRecs
    BY DEF ConnRecs
  <1> QED
    BY <1>1, <1>2, <1>3, <1>4, <1>5, <1>6, <1>7, <1>8, <1>9, <1>10, <1>11, <1>12, <1>13, <1>14, <1>15, <1>16, <1>17, <1>18, <1>19, Zenon

(* The end of a connection: the fields that tcp_client_free sets *)
LEMMA FreeIs ==
    ASSUME NEW r \in ConnRecs, ~r.freed
    PROVE  LET q == TcpClientFree(r)
           IN  /\ q \in ConnRecs /\ q.freed /\ q.closed /\ ~q.handle /\ ~q.reading /\ ~q.ref
               /\ q.consumed <= Len(q.buf) /\ q.told = r.told /\ q.got = r.got /\ q.dropped = r.dropped
               /\ q.reqs = r.reqs /\ q.tcp = (IF r.tcp = "open" THEN "closing" ELSE r.tcp)
               /\ q.life = (IF r.tcp = "open" THEN r.life ELSE "freed")
  <1> DEFINE q == [r EXCEPT !.freed = TRUE, !.closed = TRUE, !.handle = FALSE, !.cbs = FALSE,
                   !.ref = FALSE, !.reading = FALSE, !.buf = << >>, !.consumed = 0,
                   !.tcp = IF @ = "open" THEN "closing" ELSE @,
                   !.life = IF r.tcp = "open" THEN @ ELSE "freed"]
  <1>1. TcpClientFree(r) = q
    BY DEF TcpClientFree
  <1>2. r.tcp \in {"none", "open", "closing"} /\ r.life \in {"unused", "live", "freed"}
    BY DEF ConnRecs
  <1>3. q \in ConnRecs
    <2>1. PICK t \in {"none", "open", "closing"}, l \in {"unused", "live", "freed"} :
             /\ t = (IF r.tcp = "open" THEN "closing" ELSE r.tcp)
             /\ l = (IF r.tcp = "open" THEN r.life ELSE "freed")
      BY <1>2
    <2>0. TRUE \in BOOLEAN /\ FALSE \in BOOLEAN /\ << >> \in Seq(Data \cup {"hs", "bye"}) /\ 0 \in Nat
      OBVIOUS
    <2> DEFINE r1 == [r EXCEPT !.freed = TRUE, !.closed = TRUE, !.handle = FALSE]
               r2 == [r1 EXCEPT !.cbs = FALSE, !.ref = FALSE, !.reading = FALSE]
               r3 == [r2 EXCEPT !.buf = << >>, !.consumed = 0]
               r4 == [r3 EXCEPT !.tcp = t, !.life = l]
    <2>2. q = r4
      BY <2>1
    <2>3. r1 \in ConnRecs
      BY <2>0, SetField, Zenon
    <2> HIDE DEF q, r1
    <2>4. r2 \in ConnRecs
      BY <2>0, <2>3, SetField, Zenon
    <2> HIDE DEF r2
    <2>5. r3 \in ConnRecs
      BY <2>0, <2>4, SetField, Zenon
    <2> HIDE DEF r3
    <2>6. r4 \in ConnRecs
      BY <2>1, <2>5, SetField, Zenon
    <2> QED
      BY <2>2, <2>6, Zenon
  <1>4. /\ q.freed /\ q.closed /\ ~q.handle /\ ~q.reading /\ ~q.ref
        /\ q.consumed = 0 /\ q.buf = << >> /\ q.told = r.told /\ q.got = r.got /\ q.dropped = r.dropped
        /\ q.reqs = r.reqs /\ q.tcp = (IF r.tcp = "open" THEN "closing" ELSE r.tcp)
        /\ q.life = (IF r.tcp = "open" THEN r.life ELSE "freed")
    BY DEF ConnRecs
  <1> HIDE DEF q
  <1>5. q.consumed <= Len(q.buf)
    BY <1>4
  <1> QED
    BY <1>1, <1>3, <1>4, <1>5, Zenon

(* One more notice *)
LEMMA OneMore ==
    ASSUME NEW s \in Seq(Notices), NoEnd(s), NEW w \in Notices
    PROVE  /\ Append(s, w) \in Seq(Notices) /\ EndsLast(Append(s, w))
           /\ w \notin Ends => NoEnd(Append(s, w))
           /\ \A x : x \in Range(Append(s, w)) <=> x \in Range(s) \/ x = w
  <1>1. /\ Append(s, w) \in Seq(Notices) /\ Len(s) \in Nat /\ Len(Append(s, w)) = Len(s) + 1
        /\ Append(s, w)[Len(s) + 1] = w /\ \A i \in 1 .. Len(s) : Append(s, w)[i] = s[i]
    OBVIOUS
  <1>2. DOMAIN s = 1 .. Len(s) /\ DOMAIN Append(s, w) = 1 .. Len(s) + 1
    BY <1>1
  <1>3. EndsLast(Append(s, w)) /\ (w \notin Ends => NoEnd(Append(s, w)))
    BY <1>1 DEF EndsLast, NoEnd
  <1>4. \A x : x \in Range(Append(s, w)) <=> x \in Range(s) \/ x = w
    BY <1>1, <1>2 DEF Range
  <1> QED
    BY <1>1, <1>3, <1>4

(* The script is told, or cannot be told any more. *)
LEMMA TellIs ==
    ASSUME NEW r \in ConnRecs, NEW w \in Notices
    PROVE  LET q == TcpTell(r, w)
           IN  /\ q \in ConnRecs /\ q.told = (IF r.cbs THEN Append(r.told, w) ELSE r.told)
               /\ q = [r EXCEPT !.told = q.told]
  <1>1. r.told \in Seq(Notices)
    BY DEF ConnRecs
  <1>2. Append(r.told, w) \in Seq(Notices)
    BY <1>1
  <1>3. [r EXCEPT !.told = Append(r.told, w)] \in ConnRecs /\ r = [r EXCEPT !.told = r.told]
    BY <1>2 DEF ConnRecs
  <1>4. [r EXCEPT !.told = Append(r.told, w)].told = Append(r.told, w)
    BY DEF ConnRecs
  <1> QED
    BY <1>3, <1>4 DEF TcpTell

(* What tcp_error and the end of the stream leave *)
LEMMA EndIsGone ==
    ASSUME NEW r, Open(r), NEW w \in Ends
    PROVE  TornDown(TcpClientFree([TcpTell(r, w) EXCEPT !.closed = TRUE]))
  <1> DEFINE s == TcpTell(r, w)
             t == [s EXCEPT !.closed = TRUE]
             q == TcpClientFree(t)
  <1>1. r \in ConnRecs /\ w \in Notices
    BY DEF Open, Ends, Notices
  <1>2. /\ s \in ConnRecs /\ s.told = (IF r.cbs THEN Append(r.told, w) ELSE r.told) /\ s = [r EXCEPT !.told = s.told]
    BY <1>1, TellIs, Zenon
  <1>3. r.told \in Seq(Notices)
    BY <1>1 DEF ConnRecs
  <1>4. EndsLast(s.told)
    <2>1. EndsLast(r.told)
      BY <1>3 DEF Open, NoEnd, EndsLast
    <2> QED
      BY <1>1, <1>2, <1>3, <2>1, OneMore DEF Open
  <1> HIDE DEF s
  <1>5. /\ t \in ConnRecs /\ t.told = s.told /\ t.life = s.life /\ t.tcp = s.tcp /\ t.got = s.got /\ t.dropped = s.dropped
        /\ t.freed = s.freed
    BY <1>2 DEF ConnRecs
  <1>6. s.life = r.life /\ s.tcp = r.tcp /\ s.got = r.got /\ s.dropped = r.dropped /\ s.freed = r.freed
    BY <1>1, <1>2 DEF ConnRecs
  <1> HIDE DEF t
  <1>7. ~t.freed
    BY <1>5, <1>6 DEF Open
  <1>8. /\ q \in ConnRecs /\ q.freed /\ q.closed /\ ~q.handle /\ ~q.reading /\ ~q.ref
        /\ q.consumed <= Len(q.buf) /\ q.told = t.told /\ q.got = t.got /\ q.dropped = t.dropped
        /\ q.reqs = t.reqs /\ q.tcp = (IF t.tcp = "open" THEN "closing" ELSE t.tcp)
        /\ q.life = (IF t.tcp = "open" THEN t.life ELSE "freed")
    BY <1>5, <1>7, FreeIs, Zenon
  <1> HIDE DEF q
  <1>9. TornDown(q)
    BY <1>4, <1>5, <1>6, <1>8 DEF Open, TornDown
  <1> QED
    BY <1>9 DEF q, t, s

LEMMA ErrorIsGone == ASSUME NEW r, Open(r) PROVE TornDown(TcpError(r))
  BY EndIsGone DEF TcpError, Open, Ends

LEMMA ClosedIsGone == ASSUME NEW r, Open(r) PROVE TornDown(TcpClosed(r))
  BY EndIsGone DEF TcpClosed, Open, Ends

(* A script that has a handle closes it, and one that has none does nothing. *)
LEMMA JsCloseIs ==
    ASSUME NEW r, Open(r) PROVE IF r.handle THEN TornDown(JsClose(r)) ELSE JsClose(r) = r
  BY ClosedIsGone DEF JsClose, Open

LEMMA CloseInsideIs ==
    ASSUME NEW r, Open(r) PROVE IF r.handle THEN TornDown(CloseInside(r)) ELSE CloseInside(r) = r
  <1>1. PICK s : s = [r EXCEPT !.cut = r.cbs]
    OBVIOUS
  <1>2. r \in ConnRecs /\ r.cbs \in BOOLEAN
    BY DEF Open, ConnRecs
  <1>3. s \in ConnRecs
    BY <1>1, <1>2, SetField, Zenon
  <1>4. /\ s.life = r.life /\ s.tcp = r.tcp /\ s.closed = r.closed /\ s.freed = r.freed
        /\ s.told = r.told /\ s.got = r.got /\ s.dropped = r.dropped
    BY <1>1, <1>2 DEF ConnRecs
  <1>5. TornDown(TcpClosed(s))
    BY <1>3, <1>4, ClosedIsGone DEF Open
  <1>6. CASE r.handle
    BY <1>1, <1>5, <1>6 DEF CloseInside, Open
  <1>7. CASE ~r.handle
    BY <1>7 DEF CloseInside
  <1> QED
    BY <1>6, <1>7

(* Two sequences one after the other, and a stretch of one *)
IsJoin(s, t, u) ==
    /\ Len(u) = Len(s) + Len(t) /\ \A i \in 1 .. Len(s) : u[i] = s[i]
    /\ \A i \in 1 .. Len(t) : u[Len(s) + i] = t[i]

IsStretch(s, m, n, u) == Len(u) = n - m + 1 /\ \A i \in 1 .. n - m + 1 : u[i] = s[m + i - 1]

LEMMA Joined ==
    ASSUME NEW S, NEW s \in Seq(S), NEW t \in Seq(S)
    PROVE  s \o t \in Seq(S) /\ IsJoin(s, t, s \o t)
  <1>1. Len(s) \in Nat /\ Len(t) \in Nat
    OBVIOUS
  <1>2. /\ s \o t \in Seq(S) /\ Len(s \o t) = Len(s) + Len(t)
        /\ \A i \in 1 .. Len(s) + Len(t) : (s \o t)[i] = IF i <= Len(s) THEN s[i] ELSE t[i - Len(s)]
    BY ConcatProperties, Zenon
  <1>3. ASSUME NEW i \in 1 .. Len(s) PROVE (s \o t)[i] = s[i]
    <2>1. i \in 1 .. Len(s) + Len(t) /\ i <= Len(s)
      BY <1>1, <1>3
    <2> QED
      BY <1>2, <2>1, Zenon
  <1>4. ASSUME NEW i \in 1 .. Len(t) PROVE (s \o t)[Len(s) + i] = t[i]
    <2>1. Len(s) + i \in 1 .. Len(s) + Len(t) /\ ~(Len(s) + i <= Len(s)) /\ Len(s) + i - Len(s) = i
      BY <1>1, <1>4
    <2>2. PICK k : k = Len(s) + i
      OBVIOUS
    <2>3. k \in 1 .. Len(s) + Len(t) /\ ~(k <= Len(s)) /\ k - Len(s) = i
      BY <2>1, <2>2
    <2>4. (s \o t)[k] = t[k - Len(s)]
      BY <1>2, <2>3, Zenon
    <2> QED
      BY <2>2, <2>3, <2>4, Zenon
  <1> QED
    BY <1>2, <1>3, <1>4, Zenon DEF IsJoin

LEMMA Stretch ==
    ASSUME NEW S, NEW s \in Seq(S), NEW m \in Nat, NEW n \in Nat, m >= 1, n >= m - 1, n <= Len(s)
    PROVE  SubSeq(s, m, n) \in Seq(S) /\ IsStretch(s, m, n, SubSeq(s, m, n))
  <1>1. m \in Int /\ n \in Int /\ Len(s) \in Nat
    OBVIOUS
  <1>2. ASSUME NEW i \in m .. n PROVE s[i] \in S
    <2>1. i \in 1 .. Len(s)
      BY <1>1, <1>2
    <2> QED
      BY <2>1, ElementOfSeq
  <1>3. /\ SubSeq(s, m, n) \in Seq(S) /\ Len(SubSeq(s, m, n)) = (IF m <= n THEN n - m + 1 ELSE 0)
        /\ \A i \in 1 .. n - m + 1 : SubSeq(s, m, n)[i] = s[m + i - 1]
    BY <1>1, <1>2, SubSeqProperties
  <1>4. (IF m <= n THEN n - m + 1 ELSE 0) = n - m + 1
    OBVIOUS
  <1> QED
    BY <1>3, <1>4, Zenon DEF IsStretch

(* What the peer sends *)
LEMMA StreamIs ==
    ASSUME NEW r
    PROVE  /\ ~r.tls => PeerStream(r) = TcpData
           /\ r.tls => /\ Len(PeerStream(r)) = HsUnits + Len(TcpData) + 1
                       /\ PeerStream(r) \in Seq(Data \cup {"hs", "bye"})
                       /\ \A i \in 1 .. HsUnits : PeerStream(r)[i] = "hs"
                       /\ \A i \in 1 .. Len(TcpData) : PeerStream(r)[HsUnits + i] = TcpData[i]
                       /\ PeerStream(r)[HsUnits + Len(TcpData) + 1] = "bye"
  <1> DEFINE a == [i \in 1 .. HsUnits |-> "hs"]
  <1>1. HsUnits \in Nat /\ TcpData \in Seq(Data) /\ Len(TcpData) \in Nat
    BY TcpAssumption DEF Data
  <1>2. a \in Seq(Data \cup {"hs", "bye"}) /\ Len(a) = HsUnits /\ \A i \in 1 .. HsUnits : a[i] = "hs"
    <2>1. a \in [1 .. HsUnits -> Data \cup {"hs", "bye"}]
      OBVIOUS
    <2>2. a \in Seq(Data \cup {"hs", "bye"})
      BY <1>1, <2>1
    <2>3. Len(a) = HsUnits
      BY <1>1, <2>2
    <2> QED
      BY <2>2, <2>3
  <1>3. TcpData \in Seq(Data \cup {"hs", "bye"}) /\ <<"bye">> \in Seq(Data \cup {"hs", "bye"})
    BY <1>1
  <1> HIDE DEF a
  <1>4. PICK b : b = a \o TcpData
    OBVIOUS
  <1>5. /\ b \in Seq(Data \cup {"hs", "bye"}) /\ Len(b) = HsUnits + Len(TcpData)
        /\ \A i \in 1 .. HsUnits : b[i] = "hs"
        /\ \A i \in 1 .. Len(TcpData) : b[HsUnits + i] = TcpData[i]
    <2>1. a \o TcpData \in Seq(Data \cup {"hs", "bye"}) /\ IsJoin(a, TcpData, a \o TcpData)
      BY <1>2, <1>3, Joined, Zenon
    <2> QED
      BY <1>1, <1>2, <1>4, <2>1 DEF IsJoin
  <1>6. PICK d : d = b \o <<"bye">>
    OBVIOUS
  <1>7. /\ d \in Seq(Data \cup {"hs", "bye"}) /\ Len(d) = HsUnits + Len(TcpData) + 1
        /\ \A i \in 1 .. Len(b) : d[i] = b[i]
        /\ d[HsUnits + Len(TcpData) + 1] = "bye"
    <2>1. Len(<<"bye">>) = 1 /\ <<"bye">>[1] = "bye" /\ 1 \in 1 .. 1
      OBVIOUS
    <2>2. d \in Seq(Data \cup {"hs", "bye"}) /\ IsJoin(b, <<"bye">>, d)
      BY <1>3, <1>5, <1>6, Joined
    <2> QED
      BY <1>1, <1>5, <2>1, <2>2 DEF IsJoin
  <1>8. /\ \A i \in 1 .. HsUnits : d[i] = "hs"
        /\ \A i \in 1 .. Len(TcpData) : d[HsUnits + i] = TcpData[i]
    BY <1>1, <1>5, <1>7
  <1>9. r.tls => PeerStream(r) = d
    BY <1>4, <1>6 DEF PeerStream, a
  <1> QED
    BY <1>7, <1>8, <1>9 DEF PeerStream

(* What a connection that reads over TLS has *)
TlsReading(r) ==
    /\ Open(r) /\ Wire(r) /\ r.reading /\ r.cbs /\ r.tls /\ r.reqs \cap {"dns", "connect"} = {}
    /\ "connect" \in Range(r.told) => r.done

LEMMA ReadingIsHere == ASSUME NEW r, TlsReading(r) PROVE Here(r)
  BY DEF TlsReading, Here, Established

LEMMA UnreadIs ==
    ASSUME NEW r, Open(r), Wire(r)
    PROVE  /\ Unread(r) \in Seq(Data \cup {"hs", "bye"}) /\ Len(Unread(r)) = Len(r.buf) - r.consumed
           /\ \A i \in 1 .. Len(Unread(r)) : Unread(r)[i] = r.buf[r.consumed + i]
           /\ Len(Unread(r)) \in Nat
  <1>1. r.buf \in Seq(Data \cup {"hs", "bye"}) /\ r.consumed \in Nat /\ r.consumed <= Len(r.buf) /\ Len(r.buf) \in Nat
    BY DEF Open, ConnRecs, Wire
  <1>2. PICK m \in Nat, n \in Nat : m = r.consumed + 1 /\ n = Len(r.buf)
    BY <1>1
  <1>3. m >= 1 /\ n >= m - 1 /\ n <= Len(r.buf) /\ n - m + 1 = Len(r.buf) - r.consumed
    BY <1>1, <1>2
  <1>4. SubSeq(r.buf, m, n) \in Seq(Data \cup {"hs", "bye"}) /\ IsStretch(r.buf, m, n, SubSeq(r.buf, m, n))
    BY <1>1, <1>2, <1>3, Stretch, Zenon
  <1>5. Unread(r) = SubSeq(r.buf, m, n)
    BY <1>2 DEF Unread
  <1>6. Len(SubSeq(r.buf, m, n)) = Len(r.buf) - r.consumed /\ Len(r.buf) - r.consumed \in Nat
    BY <1>1, <1>3, <1>4 DEF IsStretch
  <1>7. ASSUME NEW i \in 1 .. n - m + 1 PROVE SubSeq(r.buf, m, n)[i] = r.buf[r.consumed + i]
    <2>1. m + i - 1 = r.consumed + i
      BY <1>1, <1>2, <1>7
    <2> QED
      BY <1>4, <1>7, <2>1, Zenon DEF IsStretch
  <1> QED
    BY <1>3, <1>4, <1>5, <1>6, <1>7, Zenon

(* The handshake takes what it needs. *)
LEMMA HandshakeKeeps ==
    ASSUME NEW r, TlsReading(r), ~r.done
    PROVE  LET h == Handshake(r)
           IN  TlsReading(h) /\ h.ref = r.ref /\ h.told = r.told /\ h.role = r.role /\ h.handle = r.handle
  <1> DEFINE a == HsUnits - r.hs
             b == Len(Unread(r))
             n == Min({a, b})
             h == [r EXCEPT !.hs = r.hs + n, !.consumed = r.consumed + n, !.done = r.hs + n = HsUnits]
  <1>1. Handshake(r) = h
    BY DEF Handshake
  <1>2. /\ r \in ConnRecs /\ r.hs \in Nat /\ r.consumed \in Nat /\ Len(r.buf) \in Nat /\ r.pos \in Nat
        /\ r.tls /\ HsUnits \in Nat /\ r.hs <= HsUnits /\ r.consumed <= Len(r.buf)
    BY TcpAssumption DEF TlsReading, Open, ConnRecs, Wire
  <1>3. a \in Nat /\ b \in Nat /\ b = Len(r.buf) - r.consumed
    BY <1>2, UnreadIs DEF TlsReading
  <1> HIDE DEF a, b
  <1>4. n \in Nat /\ n <= a /\ n <= b
    <2>1. \E x \in {a, b} : \A y \in {a, b} : x <= y
      BY <1>3
    <2>2. n \in {a, b} /\ \A y \in {a, b} : n <= y
      BY <2>1 DEF Min
    <2> QED
      BY <1>3, <2>2
  <1> HIDE DEF n
  <1>5. h \in ConnRecs
    <2>1. r.hs + n \in Nat /\ r.consumed + n \in Nat
      BY <1>2, <1>4
    <2>2. (r.hs + n = HsUnits) \in BOOLEAN
      BY Zenon
    <2> QED
      BY <1>2, <2>1, <2>2, SetField, Zenon
  <1>6. /\ h.hs = r.hs + n /\ h.consumed = r.consumed + n /\ (h.done <=> r.hs + n = HsUnits)
        /\ h.life = r.life /\ h.tcp = r.tcp /\ h.closed = r.closed /\ h.freed = r.freed /\ h.told = r.told
        /\ h.got = r.got /\ h.dropped = r.dropped /\ h.pos = r.pos /\ h.buf = r.buf /\ h.tls = r.tls
        /\ h.reading = r.reading /\ h.cbs = r.cbs /\ h.reqs = r.reqs /\ h.ref = r.ref /\ h.role = r.role
        /\ h.handle = r.handle
    BY <1>2 DEF ConnRecs
  <1> HIDE DEF h
  <1>7. Open(h)
    BY <1>5, <1>6 DEF TlsReading, Open
  <1>8. Wire(h)
    <2>1. PeerStream(h) = PeerStream(r)
      BY <1>6 DEF PeerStream
    <2>2. r.got = << >>
      BY <1>2 DEF TlsReading, Wire
    <2>3. h.pos - Len(h.buf) + h.consumed = h.hs + Len(h.got)
      BY <1>2, <1>4, <1>6, <2>2 DEF TlsReading, Wire
    <2>4. h.consumed <= Len(h.buf) /\ h.hs <= HsUnits
      <3>1. r.hs + n <= HsUnits
        BY <1>2, <1>3, <1>4 DEF a
      <3>2. r.consumed + n <= Len(r.buf)
        BY <1>2, <1>3, <1>4
      <3> QED
        BY <1>6, <3>1, <3>2
    <2> QED
      BY <1>2, <1>6, <2>1, <2>2, <2>3, <2>4 DEF TlsReading, Wire
  <1>9. "connect" \in Range(h.told) => h.done
    BY <1>6 DEF TlsReading
  <1> QED
    BY <1>1, <1>6, <1>7, <1>8, <1>9 DEF TlsReading
(* A connection that hears of data *)
LEMMA HearIs ==
    ASSUME NEW r, Open(r), r.cbs, NEW data \in Seq(Data), IsSent(r.got \o data)
    PROVE  LET q == Hear(r, data)
           IN  /\ Open(q) /\ q.got = r.got \o data /\ q = [r EXCEPT !.got = q.got, !.told = q.told]
               /\ "connect" \in Range(q.told) => "connect" \in Range(r.told)
  <1> DEFINE n == [i \in DOMAIN data |-> "data"]
             g == r.got \o data
             t == r.told \o n
             q == [r EXCEPT !.got = g, !.told = t]
  <1>1. r \in ConnRecs /\ r.got \in Seq(Data) /\ r.told \in Seq(Notices)
    BY DEF Open, ConnRecs
  <1>2. n \in Seq(Notices) /\ Len(n) \in Nat /\ \A i \in 1 .. Len(n) : n[i] = "data"
    <2>1. DOMAIN data = 1 .. Len(data) /\ Len(data) \in Nat
      OBVIOUS
    <2>2. n \in [1 .. Len(data) -> Notices]
      BY <2>1 DEF Notices
    <2>3. n \in Seq(Notices)
      BY <2>1, <2>2
    <2>4. Len(n) = Len(data)
      BY <2>1, <2>3
    <2> QED
      BY <2>1, <2>3, <2>4
  <1>3. g \in Seq(Data)
    BY <1>1
  <1> HIDE DEF n
  <1>4. t \in Seq(Notices) /\ IsJoin(r.told, n, t)
    BY <1>1, <1>2, Joined
  <1>5. Hear(r, data) = q
    BY DEF Hear, n
  <1> HIDE DEF g, t
  <1>6. q \in ConnRecs
    BY <1>1, <1>3, <1>4, SetField, Zenon
  <1>7. /\ q.got = g /\ q.told = t /\ q.life = r.life /\ q.tcp = r.tcp /\ q.closed = r.closed /\ q.freed = r.freed
        /\ q.dropped = r.dropped
    BY <1>1 DEF ConnRecs
  <1>8. q = [r EXCEPT !.got = q.got, !.told = q.told]
    BY <1>7
  <1> HIDE DEF q
  <1>9. Len(r.told) \in Nat /\ Len(t) = Len(r.told) + Len(n)
    BY <1>1, <1>4 DEF IsJoin
  <1>10. ASSUME NEW i \in 1 .. Len(t) PROVE (i \in 1 .. Len(r.told) /\ t[i] = r.told[i]) \/ t[i] = "data"
    <2>1. CASE i <= Len(r.told)
      <3>1. i \in 1 .. Len(r.told)
        BY <1>9, <1>10, <2>1
      <3> QED
        BY <1>4, <3>1, Zenon DEF IsJoin
    <2>2. CASE ~(i <= Len(r.told))
      <3>1. PICK j \in 1 .. Len(n) : i = Len(r.told) + j
        <4>1. i - Len(r.told) \in 1 .. Len(n) /\ i = Len(r.told) + (i - Len(r.told))
          BY <1>2, <1>9, <1>10, <2>2
        <4> QED
          BY <4>1, Zenon
      <3> QED
        BY <1>2, <1>4, <3>1 DEF IsJoin
    <2> QED
      BY <2>1, <2>2
  <1>11. NoEnd(t)
    <2>1. NoEnd(r.told)
      BY DEF Open
    <2> QED
      BY <1>10, <2>1, Zenon DEF NoEnd, Ends
  <1>12. "connect" \in Range(t) => "connect" \in Range(r.told)
    <2>1. DOMAIN t = 1 .. Len(t) /\ DOMAIN r.told = 1 .. Len(r.told)
      BY <1>1, <1>4
    <2> QED
      BY <1>10, <2>1 DEF Range
  <1>13. Open(q)
    BY <1>6, <1>7, <1>11 DEF Open, g
  <1> QED
    BY <1>5, <1>7, <1>8, <1>12, <1>13 DEF g

(* Units arrive. *)
LEMMA ArriveKeeps ==
    ASSUME NEW r, TlsReading(r), NEW n \in Nat, r.pos + n <= Len(PeerStream(r))
    PROVE  LET new == SubSeq(PeerStream(r), r.pos + 1, r.pos + n)
               q == [[r EXCEPT !.pos = @ + n] EXCEPT !.buf = @ \o new]
           IN  /\ TlsReading(q) /\ q.ref = r.ref /\ q.role = r.role /\ q.told = r.told /\ q.done = r.done
  <1> DEFINE s == PeerStream(r)
             new == SubSeq(s, r.pos + 1, r.pos + n)
             p == r.pos + n
             b == r.buf \o new
             q == [[r EXCEPT !.pos = p] EXCEPT !.buf = b]
  <1>1. /\ r \in ConnRecs /\ r.pos \in Nat /\ r.buf \in Seq(Data \cup {"hs", "bye"}) /\ Len(r.buf) \in Nat
        /\ r.consumed \in Nat /\ r.tls
    BY DEF TlsReading, Open, ConnRecs
  <1>2. s \in Seq(Data \cup {"hs", "bye"}) /\ Len(s) \in Nat
    BY <1>1, StreamIs
  <1>3. PICK m1 \in Nat, m2 \in Nat : m1 = r.pos + 1 /\ m2 = r.pos + n
    BY <1>1
  <1>4. m1 >= 1 /\ m2 >= m1 - 1 /\ m2 <= Len(s) /\ m2 - m1 + 1 = n
    BY <1>1, <1>3
  <1> HIDE DEF s
  <1>5. SubSeq(s, m1, m2) \in Seq(Data \cup {"hs", "bye"}) /\ IsStretch(s, m1, m2, SubSeq(s, m1, m2))
    BY <1>2, <1>3, <1>4, Stretch, Zenon
  <1>6. new \in Seq(Data \cup {"hs", "bye"}) /\ IsStretch(s, m1, m2, new)
    BY <1>3, <1>5
  <1> HIDE DEF new
  <1>7. b \in Seq(Data \cup {"hs", "bye"}) /\ IsJoin(r.buf, new, b)
    BY <1>1, <1>6, Joined, Zenon
  <1>8. Len(new) = n /\ Len(b) = Len(r.buf) + n
    BY <1>4, <1>6, <1>7 DEF IsJoin, IsStretch
  <1> HIDE DEF b
  <1>9. q \in ConnRecs
    <2>1. p \in Nat
      BY <1>1
    <2> HIDE DEF p
    <2> QED
      BY <1>1, <1>7, <2>1, SetField, Zenon
  <1>10. /\ q.pos = r.pos + n /\ q.buf = b /\ q.consumed = r.consumed
         /\ q.life = r.life /\ q.tcp = r.tcp /\ q.closed = r.closed /\ q.freed = r.freed /\ q.told = r.told
         /\ q.got = r.got /\ q.dropped = r.dropped /\ q.tls = r.tls /\ q.hs = r.hs /\ q.done = r.done
         /\ q.reading = r.reading /\ q.cbs = r.cbs /\ q.reqs = r.reqs /\ q.ref = r.ref /\ q.role = r.role
    BY <1>1 DEF ConnRecs
  <1> HIDE DEF q
  <1>11. PeerStream(q) = s
    BY <1>10 DEF PeerStream, s
  <1>12. Len(r.buf) <= r.pos /\ r.consumed <= Len(r.buf)
    BY DEF TlsReading, Wire
  <1>13. q.pos <= Len(s) /\ Len(q.buf) <= q.pos /\ q.consumed <= Len(q.buf) /\ q.pos - Len(q.buf) = r.pos - Len(r.buf)
    <2>1. PICK p1 \in Nat, l1 \in Nat : p1 = r.pos /\ l1 = Len(r.buf)
      BY <1>1
    <2>2. q.pos = p1 + n /\ Len(q.buf) = l1 + n /\ p1 + n <= Len(s)
      BY <1>3, <1>4, <1>8, <1>10, <2>1
    <2>3. l1 <= p1 /\ q.consumed <= l1 /\ q.consumed \in Nat
      BY <1>1, <1>10, <1>12, <2>1
    <2>4. (p1 + n) - (l1 + n) = p1 - l1
      OBVIOUS
    <2>5. q.pos - Len(q.buf) = r.pos - Len(r.buf)
      BY <2>1, <2>2, <2>4
    <2>6. q.consumed <= l1 + n /\ l1 + n <= p1 + n
      BY <2>3
    <2> QED
      BY <2>2, <2>5, <2>6
  <1>14. ASSUME NEW i \in 1 .. Len(q.buf) PROVE q.buf[i] = s[q.pos - Len(q.buf) + i]
    <2>1. CASE i <= Len(r.buf)
      <3>1. i \in 1 .. Len(r.buf)
        BY <1>1, <1>14, <2>1
      <3>2. b[i] = r.buf[i] /\ r.buf[i] = s[r.pos - Len(r.buf) + i]
        BY <1>7, <3>1 DEF IsJoin, TlsReading, Wire, s
      <3> QED
        BY <1>10, <1>13, <3>2
    <2>2. CASE ~(i <= Len(r.buf))
      <3>1. PICK j \in 1 .. n : i = Len(r.buf) + j
        <4>1. i - Len(r.buf) \in 1 .. n /\ i = Len(r.buf) + (i - Len(r.buf))
          BY <1>1, <1>8, <1>10, <1>14, <2>2
        <4> QED
          BY <4>1, Zenon
      <3>2. b[i] = new[j]
        BY <1>7, <1>8, <3>1 DEF IsJoin
      <3>3. new[j] = s[m1 + j - 1]
        BY <1>4, <1>6, <3>1 DEF IsStretch
      <3>4. m1 + j - 1 = q.pos - Len(q.buf) + i
        BY <1>1, <1>3, <1>13, <3>1
      <3> QED
        BY <1>10, <3>2, <3>3, <3>4
    <2> QED
      BY <2>1, <2>2
  <1>15. Wire(q)
    BY <1>1, <1>10, <1>11, <1>13, <1>14 DEF TlsReading, Wire
  <1>16. Open(q)
    BY <1>9, <1>10 DEF TlsReading, Open
  <1> QED
    BY <1>10, <1>15, <1>16 DEF TlsReading, q, b, new, s, p
(* Where a unit of the buffer is in the stream: p were received, c of b in the  *)
(* buffer taken, h of the handshake and g data.                                *)
Taken(p, b, c, g, h) ==
    {p, b, c, g, h} \subseteq Nat /\ p - b + c = h + g /\ c <= b

PlacedAt(p, b, c, g, h, i) ==
    c + i \in 1 .. b /\ p - b + (c + i) = h + g + i /\ h + g + i <= p /\ h + g + i = h + (g + i)

LEMMA PlaceOf ==
    ASSUME NEW p, NEW b, NEW c, NEW g, NEW h, Taken(p, b, c, g, h), NEW i \in 1 .. b - c
    PROVE  PlacedAt(p, b, c, g, h, i)
  BY DEF Taken, PlacedAt

LEMMA PlaceOfData ==
    ASSUME NEW p, NEW b, NEW c, NEW g, NEW h, Taken(p, b, c, g, h), NEW i \in 1 .. b - c,
           NEW t \in Nat, p <= h + t + 1, h + g + i # h + t + 1
    PROVE  g + i \in 1 .. t /\ g + i <= t
  BY DEF Taken

(* The units that a connection with a finished handshake has not read yet *)
LEMMA UnreadIsData ==
    ASSUME NEW r, TlsReading(r), r.done, NEW i \in 1 .. Len(Unread(r)), Unread(r)[i] # "bye"
    PROVE  Len(r.got) + i <= Len(TcpData) /\ Unread(r)[i] = TcpData[Len(r.got) + i] /\ Unread(r)[i] \in Data
  <1>1. /\ r.consumed \in Nat /\ Len(r.buf) \in Nat /\ r.pos \in Nat /\ r.tls /\ r.hs = HsUnits
        /\ Len(r.got) \in Nat /\ HsUnits \in Nat /\ Len(TcpData) \in Nat
        /\ r.pos - Len(r.buf) + r.consumed = HsUnits + Len(r.got) /\ r.consumed <= Len(r.buf)
    BY TcpAssumption DEF TlsReading, Open, ConnRecs, Wire
  <1>2. PICK p, b, c, g, t :
           p = r.pos /\ b = Len(r.buf) /\ c = r.consumed /\ g = Len(r.got) /\ t = Len(TcpData)
    BY Zenon
  <1>3. Taken(p, b, c, g, HsUnits)
    BY <1>1, <1>2 DEF Taken
  <1>4. Len(Unread(r)) = b - c /\ Unread(r)[i] = r.buf[c + i]
    BY <1>2, UnreadIs DEF TlsReading
  <1>5. i \in 1 .. b - c
    BY <1>4, Zenon
  <1>6. c + i \in 1 .. b /\ p - b + (c + i) = HsUnits + g + i /\ HsUnits + g + i <= p /\ HsUnits + g + i = HsUnits + (g + i)
    <2>1. PlacedAt(p, b, c, g, HsUnits, i)
      BY <1>3, <1>5, PlaceOf, Zenon
    <2> QED
      BY <2>1, Zenon DEF PlacedAt
  <1>7. r.buf[c + i] = PeerStream(r)[HsUnits + g + i] /\ p <= Len(PeerStream(r))
    <2>1. /\ \A l \in 1 .. Len(r.buf) : r.buf[l] = PeerStream(r)[r.pos - Len(r.buf) + l]
          /\ r.pos <= Len(PeerStream(r))
      BY DEF TlsReading, Wire
    <2>2. /\ \A l \in 1 .. b : r.buf[l] = PeerStream(r)[p - b + l]
          /\ p <= Len(PeerStream(r))
      BY <1>2, <2>1, Zenon
    <2>3. r.buf[c + i] = PeerStream(r)[p - b + (c + i)]
      BY <1>6, <2>2, Zenon
    <2> QED
      BY <1>6, <2>2, <2>3, Zenon
  <1>8. Len(PeerStream(r)) = HsUnits + t + 1 /\ PeerStream(r)[HsUnits + t + 1] = "bye"
    BY <1>1, <1>2, StreamIs, Zenon
  <1>9. HsUnits + g + i # HsUnits + t + 1
    BY <1>4, <1>7, <1>8, Zenon
  <1>10. t \in Nat /\ p <= HsUnits + t + 1
    BY <1>1, <1>2, <1>7, <1>8, Zenon
  <1>11. g + i \in 1 .. t /\ g + i <= t
    BY <1>3, <1>5, <1>9, <1>10, PlaceOfData, Zenon
  <1>12. PeerStream(r)[HsUnits + (g + i)] = TcpData[g + i]
    BY <1>1, <1>2, <1>11, StreamIs, Zenon
  <1>13. TcpData[g + i] \in Data
    BY <1>2, <1>11, TcpAssumption, ElementOfSeq, Zenon DEF Data
  <1> QED
    BY <1>2, <1>4, <1>6, <1>7, <1>11, <1>12, <1>13, Zenon

(* mbedtls_ssl_read, to the end of the buffer or of the connection *)
LEMMA SslReadIs ==
    ASSUME NEW r, TlsReading(r), r.done, NEW at
    PROVE  LET q == SslRead(r, at)
           IN  TornDown(q) \/ (TlsReading(q) /\ q.ref = r.ref /\ q.done)
  <1> DEFINE units == Unread(r)
             ends == {i \in DOMAIN units : units[i] = "bye" \/ (r.handle /\ units[i] = at)}
             n == IF ends = {} THEN Len(units) ELSE Min(ends)
             m == IF n > 0 /\ units[n] = "bye" THEN n - 1 ELSE n
             data == SubSeq(units, 1, m)
             p == [r EXCEPT !.consumed = r.consumed + n]
             s == Hear(p, data)
  <1>1. SslRead(r, at) = IF ends = {} THEN s
                         ELSE IF units[n] = "bye" THEN TcpClosed(s) ELSE CloseInside(s)
    BY DEF SslRead
  <1>2. /\ r \in ConnRecs /\ r.consumed \in Nat /\ Len(r.buf) \in Nat /\ r.pos \in Nat /\ r.got \in Seq(Data)
        /\ Len(r.got) \in Nat /\ Open(r) /\ Wire(r) /\ r.tls /\ r.consumed <= Len(r.buf) /\ r.cbs
    BY DEF TlsReading, Open, ConnRecs, Wire
  <1>3. /\ Len(units) \in Nat /\ Len(units) = Len(r.buf) - r.consumed /\ DOMAIN units = 1 .. Len(units)
    BY <1>2, UnreadIs
  <1> HIDE DEF units
  <1>4. /\ n \in 0 .. Len(units) /\ (ends # {} => n \in ends)
        /\ \A i \in 1 .. Len(units) : i < n => i \notin ends
    <2>1. CASE ends = {}
      BY <1>3, <2>1
    <2>2. CASE ends # {}
      <3>1. ends \subseteq Nat /\ ends \subseteq 1 .. Len(units)
        BY <1>3
      <3> HIDE DEF ends
      <3>2. \E x \in ends : \A y \in ends : x <= y
        BY <2>2, <3>1, Least
      <3>3. Min(ends) \in ends /\ \A y \in ends : Min(ends) <= y
        BY <3>2 DEF Min
      <3> QED
        <4>1. n = Min(ends)
          BY <2>2
        <4> HIDE DEF n
        <4>2. n \in ends /\ n \in 1 .. Len(units) /\ \A y \in ends : n <= y
          BY <3>1, <3>3, <4>1
        <4>3. ASSUME NEW i \in 1 .. Len(units), i < n PROVE i \notin ends
          BY <1>3, <4>2, <4>3
        <4> QED
          BY <1>3, <4>2, <4>3
    <2> QED
      BY <2>1, <2>2
  <1>5. ends = {} => n = Len(units) /\ \A i \in 1 .. Len(units) : units[i] # "bye"
    BY <1>3
  <1>6. \A i \in 1 .. Len(units) : i \notin ends => units[i] # "bye"
    BY <1>3
  <1>6a. ends # {} /\ units[n] # "bye" => r.handle
    BY <1>4
  <1> HIDE DEF ends, n
  <1>7. m \in 0 .. Len(units) /\ \A i \in 1 .. m : i \in 1 .. Len(units) /\ units[i] # "bye"
    <2>1. CASE n > 0 /\ units[n] = "bye"
      <3>1. m = n - 1
        BY <2>1
      <3> QED
        BY <1>3, <1>4, <1>6, <2>1, <3>1
    <2>2. CASE ~(n > 0 /\ units[n] = "bye")
      <3>1. m = n
        BY <2>2
      <3>2. ASSUME NEW i \in 1 .. m PROVE i \in 1 .. Len(units) /\ units[i] # "bye"
        <4>1. i \in 1 .. Len(units) /\ (i < n \/ i = n)
          BY <1>3, <1>4, <3>1, <3>2
        <4> QED
          BY <1>4, <1>6, <2>2, <3>1, <3>2, <4>1
      <3> QED
        BY <1>4, <3>1, <3>2
    <2> QED
      BY <2>1, <2>2
  <1>8. ends = {} => m = Len(units)
    BY <1>3, <1>5
  <1> HIDE DEF m
  <1>9. /\ data \in Seq(Data) /\ Len(data) = m
        /\ \A i \in 1 .. m : data[i] = TcpData[Len(r.got) + i] /\ Len(r.got) + i <= Len(TcpData)
    <2>1. \A i \in 1 .. m : units[i] = TcpData[Len(r.got) + i] /\ Len(r.got) + i <= Len(TcpData) /\ units[i] \in Data
      BY <1>7, UnreadIsData DEF units
    <2>2. /\ data \in Seq(Data) /\ Len(data) = (IF 1 <= m THEN m - 1 + 1 ELSE 0)
          /\ \A i \in 1 .. m - 1 + 1 : data[i] = units[1 + i - 1]
      <3>1. 1 \in Int /\ m \in Int
        BY <1>3, <1>7
      <3> QED
        BY <2>1, <3>1, SubSeqProperties
    <2>3. Len(data) = m /\ \A i \in 1 .. m : data[i] = units[i]
      BY <1>3, <1>7, <2>2
    <2> QED
      BY <2>1, <2>2, <2>3
  <1> HIDE DEF data
  <1>10. IsSent(r.got \o data) /\ Len(r.got \o data) = Len(r.got) + m
    <2>1. PICK g : g = r.got \o data
      OBVIOUS
    <2>2. g \in Seq(Data) /\ IsJoin(r.got, data, g)
      BY <1>2, <1>9, <2>1, Joined
    <2>3. Len(g) = Len(r.got) + m
      BY <1>9, <2>2 DEF IsJoin
    <2>4. m \in Nat /\ Len(TcpData) \in Nat
      BY <1>3, <1>7, TcpAssumption
    <2>5. Len(g) <= Len(TcpData)
      <3>1. CASE m = 0
        BY <1>2, <2>3, <3>1 DEF Open, IsSent
      <3>2. CASE m # 0
        <4>1. m \in 1 .. m
          BY <2>4, <3>2
        <4> QED
          BY <1>9, <2>3, <4>1
      <3> QED
        BY <3>1, <3>2
    <2>6. ASSUME NEW i \in 1 .. Len(g) PROVE g[i] = TcpData[i]
      <3>1. CASE i <= Len(r.got)
        <4>1. i \in 1 .. Len(r.got)
          BY <1>2, <2>6, <3>1
        <4> QED
          BY <1>2, <2>2, <4>1 DEF IsJoin, Open, IsSent
      <3>2. CASE ~(i <= Len(r.got))
        <4>1. i - Len(r.got) \in 1 .. m /\ i = Len(r.got) + (i - Len(r.got))
          BY <1>2, <2>3, <2>4, <2>6, <3>2
        <4>2. PICK j \in 1 .. m : i = Len(r.got) + j
          BY <4>1, Zenon
        <4>3. g[i] = data[j]
          BY <1>9, <2>2, <4>2 DEF IsJoin
        <4> QED
          BY <1>9, <4>2, <4>3
      <3> QED
        BY <3>1, <3>2
    <2> QED
      BY <2>1, <2>3, <2>5, <2>6 DEF IsSent
  <1>11. p \in ConnRecs
    <2>1. r.consumed + n \in Nat
      BY <1>2, <1>3, <1>4
    <2> QED
      BY <1>2, <2>1, SetField, Zenon
  <1>12. /\ p.consumed = r.consumed + n /\ p.pos = r.pos /\ p.buf = r.buf /\ p.cbs = r.cbs /\ p.got = r.got
         /\ p.life = r.life /\ p.tcp = r.tcp /\ p.closed = r.closed /\ p.freed = r.freed /\ p.told = r.told
         /\ p.dropped = r.dropped /\ p.tls = r.tls /\ p.hs = r.hs /\ p.done = r.done /\ p.reading = r.reading
         /\ p.reqs = r.reqs /\ p.ref = r.ref /\ p.handle = r.handle
    BY <1>2 DEF ConnRecs
  <1> HIDE DEF p
  <1>13. Open(p)
    BY <1>2, <1>11, <1>12 DEF Open
  <1>14. /\ Open(s) /\ s.got = r.got \o data /\ s = [p EXCEPT !.got = s.got, !.told = s.told]
         /\ "connect" \in Range(s.told) => "connect" \in Range(r.told)
    <2>1. IsSent(p.got \o data) /\ p.cbs
      BY <1>2, <1>10, <1>12
    <2> HIDE DEF s
    <2>2. /\ Open(s) /\ s.got = p.got \o data /\ s = [p EXCEPT !.got = s.got, !.told = s.told]
          /\ "connect" \in Range(s.told) => "connect" \in Range(p.told)
      BY <1>9, <1>13, <2>1, HearIs, Zenon DEF s
    <2> QED
      BY <1>12, <2>2
  <1> HIDE DEF s
  <1>15. /\ s.consumed = p.consumed /\ s.pos = p.pos /\ s.buf = p.buf /\ s.cbs = p.cbs
         /\ s.tls = p.tls /\ s.hs = p.hs /\ s.done = p.done /\ s.reading = p.reading
         /\ s.reqs = p.reqs /\ s.ref = p.ref /\ s.handle = p.handle
    BY <1>11, <1>14 DEF ConnRecs
  <1>16. CASE ends = {}
    <2>1. n = Len(units) /\ m = Len(units)
      BY <1>5, <1>8, <1>16
    <2>2. s.consumed = Len(s.buf) /\ Len(s.buf) = Len(r.buf)
      BY <1>2, <1>3, <1>12, <1>15, <2>1
    <2>3. s.pos - Len(s.buf) + s.consumed = s.hs + Len(s.got)
      <3>1. r.pos - Len(r.buf) + r.consumed = r.hs + Len(r.got) /\ r.hs \in Nat
        BY <1>2 DEF Wire, ConnRecs
      <3>2. Len(s.got) = Len(r.got) + m
        BY <1>10, <1>14
      <3>3. m = Len(r.buf) - r.consumed
        BY <1>3, <2>1
      <3> QED
        <4>1. PICK pp \in Nat, bb \in Nat, cc \in Nat, gg \in Nat, hh \in Nat :
                 pp = r.pos /\ bb = Len(r.buf) /\ cc = r.consumed /\ gg = Len(r.got) /\ hh = r.hs
          BY <1>2, <3>1
        <4>2. s.pos = pp /\ Len(s.buf) = bb /\ s.consumed = bb /\ s.hs = hh /\ Len(s.got) = gg + (bb - cc)
          BY <1>12, <1>15, <2>2, <3>2, <3>3, <4>1
        <4>3. pp - bb + cc = hh + gg
          BY <3>1, <4>1
        <4>4. pp - bb + bb = hh + (gg + (bb - cc))
          BY <4>3
        <4> QED
          BY <4>2, <4>4
    <2>4. PeerStream(s) = PeerStream(r)
      BY <1>12, <1>15 DEF PeerStream
    <2>5. Wire(s)
      BY <1>2, <1>12, <1>15, <2>2, <2>3, <2>4 DEF Wire
    <2>6. TlsReading(s) /\ s.ref = r.ref /\ s.done
      BY <1>12, <1>14, <1>15, <2>5 DEF TlsReading
    <2> QED
      BY <1>1, <1>16, <2>6
  <1>17. CASE ends # {}
    <2>1. CASE units[n] = "bye"
      BY <1>1, <1>14, <1>17, <2>1, ClosedIsGone
    <2>2. CASE units[n] # "bye"
      BY <1>1, <1>6a, <1>12, <1>14, <1>15, <1>17, <2>2, CloseInsideIs
    <2> QED
      BY <2>1, <2>2
  <1> QED
    BY <1>16, <1>17

(* What was read is moved to the front of the buffer. *)
LEMMA CompactKeeps ==
    ASSUME NEW r, TlsReading(r), r.done
    PROVE  TlsReading(Compact(r)) /\ Compact(r).ref = r.ref
  <1> DEFINE b == Unread(r)
             q == [[r EXCEPT !.buf = b] EXCEPT !.consumed = 0]
  <1>1. /\ r \in ConnRecs /\ r.consumed \in Nat /\ Len(r.buf) \in Nat /\ r.pos \in Nat /\ r.hs \in Nat
        /\ r.tls /\ r.consumed <= Len(r.buf) /\ Len(r.buf) <= r.pos /\ ~r.closed /\ Open(r) /\ Wire(r)
        /\ r.pos - Len(r.buf) + r.consumed = r.hs + Len(r.got)
        /\ \A i \in 1 .. Len(r.buf) : r.buf[i] = PeerStream(r)[r.pos - Len(r.buf) + i]
    BY DEF TlsReading, Open, ConnRecs, Wire
  <1>2. /\ b \in Seq(Data \cup {"hs", "bye"}) /\ Len(b) = Len(r.buf) - r.consumed
        /\ \A i \in 1 .. Len(b) : b[i] = r.buf[r.consumed + i]
    BY <1>1, UnreadIs
  <1>3. Compact(r) = q
    BY <1>1 DEF Compact
  <1> HIDE DEF b
  <1>4. q \in ConnRecs
    <2>1. 0 \in Nat
      OBVIOUS
    <2> QED
      BY <1>1, <1>2, <2>1, SetField, Zenon
  <1>5. /\ q.pos = r.pos /\ q.buf = b /\ q.consumed = 0
        /\ q.life = r.life /\ q.tcp = r.tcp /\ q.closed = r.closed /\ q.freed = r.freed /\ q.told = r.told
        /\ q.got = r.got /\ q.dropped = r.dropped /\ q.tls = r.tls /\ q.hs = r.hs /\ q.done = r.done
        /\ q.reading = r.reading /\ q.cbs = r.cbs /\ q.reqs = r.reqs /\ q.ref = r.ref
    BY <1>1 DEF ConnRecs
  <1> HIDE DEF q
  <1>6. PeerStream(q) = PeerStream(r)
    BY <1>5 DEF PeerStream
  <1>7. PICK p \in Nat, l \in Nat, c \in Nat : p = r.pos /\ l = Len(r.buf) /\ c = r.consumed
    BY <1>1
  <1>8. Len(q.buf) = l - c /\ c <= l /\ l <= p
    BY <1>1, <1>2, <1>5, <1>7
  <1>9. l - c \in Nat /\ l - c <= p /\ p - (l - c) = p - l + c
    BY <1>8
  <1>10. ASSUME NEW i \in 1 .. Len(q.buf) PROVE q.buf[i] = PeerStream(r)[q.pos - Len(q.buf) + i]
    <2>1. i \in 1 .. l - c /\ b[i] = r.buf[c + i]
      BY <1>2, <1>5, <1>7, <1>8, <1>10
    <2>2. c + i \in 1 .. l /\ p - l + (c + i) = p - (l - c) + i
      BY <1>8, <2>1
    <2>3. r.buf[c + i] = PeerStream(r)[p - l + (c + i)]
      <3>1. \A j \in 1 .. l : r.buf[j] = PeerStream(r)[p - l + j]
        BY <1>1, <1>7, Zenon
      <3> QED
        BY <2>2, <3>1, Zenon
    <2> QED
      BY <1>5, <1>7, <1>8, <2>1, <2>2, <2>3
  <1>11. q.pos - Len(q.buf) + q.consumed = q.hs + Len(q.got)
    <2>1. q.pos - Len(q.buf) + q.consumed = p - (l - c) + 0
      BY <1>5, <1>7, <1>8
    <2>2. p - l + c = r.hs + Len(r.got) /\ p - l + c + 0 = p - l + c /\ p - l + c \in Int
      BY <1>1, <1>7
    <2> QED
      BY <1>5, <1>9, <2>1, <2>2
  <1>12. Wire(q)
    <2>1. q.consumed <= Len(q.buf) /\ Len(q.buf) <= q.pos
      BY <1>5, <1>7, <1>8, <1>9
    <2> QED
      BY <1>1, <1>5, <1>6, <1>10, <1>11, <2>1 DEF Wire
  <1>13. Open(q)
    BY <1>1, <1>4, <1>5 DEF Open
  <1>14. TlsReading(q)
    BY <1>5, <1>12, <1>13 DEF TlsReading
  <1> QED
    BY <1>3, <1>5, <1>14

(* One more notice that is not the end *)
LEMMA OpenTold ==
    ASSUME NEW r, Open(r), NEW w \in Notices, w \notin Ends
    PROVE  LET q == TcpTell(r, w)
           IN  /\ Open(q) /\ q = [r EXCEPT !.told = q.told]
               /\ "connect" \in Range(q.told) => "connect" \in Range(r.told) \/ w = "connect"
  <1> DEFINE q == TcpTell(r, w)
  <1>1. r \in ConnRecs /\ NoEnd(r.told)
    BY DEF Open
  <1>2. r.told \in Seq(Notices)
    BY <1>1 DEF ConnRecs
  <1>3. q \in ConnRecs /\ q.told = (IF r.cbs THEN Append(r.told, w) ELSE r.told) /\ q = [r EXCEPT !.told = q.told]
    BY <1>1, TellIs, Zenon
  <1> HIDE DEF q
  <1>4. /\ q.life = r.life /\ q.tcp = r.tcp /\ q.closed = r.closed /\ q.freed = r.freed
        /\ q.got = r.got /\ q.dropped = r.dropped
    BY <1>1, <1>3 DEF ConnRecs
  <1>5. NoEnd(q.told) /\ ("connect" \in Range(q.told) => "connect" \in Range(r.told) \/ w = "connect")
    BY <1>1, <1>2, <1>3, OneMore
  <1>6. Open(q)
    BY <1>3, <1>4, <1>5 DEF Open
  <1> QED
    BY <1>3, <1>5, <1>6 DEF q

(* A callback tells the script, which may close the connection in it. *)
LEMMA CallbackIs ==
    ASSUME NEW r, Open(r), NEW w \in Notices, w \notin Ends
    PROVE  \A closes \in BOOLEAN : Callback(r, w, closes) = TcpTell(r, w) \/ TornDown(Callback(r, w, closes))
  <1>1. Open(TcpTell(r, w))
    BY OpenTold
  <1>2. CloseInside(TcpTell(r, w)) = TcpTell(r, w) \/ TornDown(CloseInside(TcpTell(r, w)))
    BY <1>1, CloseInsideIs, Zenon
  <1> QED
    BY <1>2, Zenon DEF Callback

(* The read of a TLS connection *)
LEMMA TlsReadIs ==
    ASSUME NEW r, TlsReading(r), NEW at
    PROVE  LET q == TlsReadCb(r, at) IN TornDown(q) \/ (TlsReading(q) /\ q.ref = r.ref)
  <1> DEFINE h == IF r.done THEN r ELSE Handshake(r)
             o == IF h.done /\ ~r.done /\ r.role = "client"
                  THEN Callback(h, "connect", at = "connect") ELSE h
             q == TlsReadCb(r, at)
  <1>1. q = IF ~h.done THEN h ELSE IF o.closed THEN o ELSE Compact(SslRead(o, at))
    BY DEF TlsReadCb
  <1>2. TlsReading(h) /\ h.ref = r.ref
    BY HandshakeKeeps
  <1> HIDE DEF h
  <1>3. CASE ~h.done
    BY <1>1, <1>2, <1>3
  <1>4. CASE h.done
    <2>1. TornDown(o) \/ (TlsReading(o) /\ o.done /\ o.ref = r.ref)
      <3>0. o = h \/ \E closes \in BOOLEAN : o = Callback(h, "connect", closes)
        <4>1. (at = "connect") \in BOOLEAN
          BY Zenon
        <4> QED
          BY <4>1, Zenon
      <3> HIDE DEF o
      <3>1. CASE o = h
        BY <1>2, <1>4, <3>1
      <3>2. ASSUME NEW closes \in BOOLEAN, o = Callback(h, "connect", closes)
            PROVE  TornDown(o) \/ (TlsReading(o) /\ o.done /\ o.ref = r.ref)
        <4>1. Open(h) /\ "connect" \in Notices /\ "connect" \notin Ends
          BY <1>2 DEF TlsReading, Notices, Ends
        <4>2. CASE TornDown(o)
          BY <4>2
        <4>3. CASE o = TcpTell(h, "connect")
          <5>1. Open(o) /\ o = [h EXCEPT !.told = o.told]
            BY <4>1, <4>3, OpenTold, Zenon
          <5>2. h \in ConnRecs
            BY <4>1 DEF Open
          <5>3. /\ o.pos = h.pos /\ o.buf = h.buf /\ o.consumed = h.consumed /\ o.got = h.got /\ o.tls = h.tls
                /\ o.hs = h.hs /\ o.done = h.done /\ o.reading = h.reading /\ o.cbs = h.cbs /\ o.reqs = h.reqs
                /\ o.ref = h.ref
            BY <5>1, <5>2 DEF ConnRecs
          <5>4. PeerStream(o) = PeerStream(h)
            BY <5>3 DEF PeerStream
          <5>5. Wire(o)
            BY <1>2, <5>3, <5>4 DEF TlsReading, Wire
          <5> QED
            BY <1>2, <1>4, <5>1, <5>3, <5>5 DEF TlsReading
        <4>4. o = TcpTell(h, "connect") \/ TornDown(o)
          BY <3>2, <4>1, CallbackIs, Zenon
        <4> QED
          BY <4>2, <4>3, <4>4, Zenon
      <3> QED
        BY <3>0, <3>1, <3>2, Zenon
    <2> HIDE DEF o
    <2>2. CASE TornDown(o)
      BY <1>1, <1>4, <2>2 DEF TornDown
    <2>3. CASE TlsReading(o) /\ o.done /\ o.ref = r.ref
      <3> DEFINE s == SslRead(o, at)
      <3>1. ~o.closed
        BY <2>3 DEF TlsReading, Open
      <3>2. q = Compact(s)
        BY <1>1, <1>4, <3>1
      <3>6. q = TlsReadCb(r, at)
        OBVIOUS
      <3>3. TornDown(s) \/ (TlsReading(s) /\ s.ref = o.ref /\ s.done)
        BY <2>3, SslReadIs, Zenon
      <3> HIDE DEF s, q
      <3>4. CASE TornDown(s)
        <4>1. Compact(s) = s
          BY <3>4 DEF Compact, TornDown
        <4> QED
          BY <3>2, <3>4, <3>6, <4>1, Zenon
      <3>5. CASE TlsReading(s) /\ s.ref = o.ref /\ s.done
        <4>1. TlsReading(Compact(s)) /\ Compact(s).ref = s.ref
          BY <3>5, CompactKeeps, Zenon
        <4> QED
          BY <2>3, <3>2, <3>5, <3>6, <4>1, Zenon
      <3> QED
        BY <3>3, <3>4, <3>5, <3>6, Zenon
    <2> QED
      BY <2>1, <2>2, <2>3
  <1> QED
    BY <1>3, <1>4

(* The script is told of what it may be told. *)
LEMMA HereTold ==
    ASSUME NEW r, Here(r), r.reqs \cap {"dns", "connect"} = {}, NEW w \in Notices, w \notin Ends,
           w = "connect" => IF r.tls THEN r.done ELSE r.up
    PROVE  LET q == TcpTell(r, w) IN Here(q) /\ q.ref = r.ref /\ q = [r EXCEPT !.told = q.told]
  <1> DEFINE q == TcpTell(r, w)
  <1>1. Open(r) /\ r \in ConnRecs
    BY DEF Here, Open
  <1>2. /\ Open(q) /\ q = [r EXCEPT !.told = q.told]
        /\ "connect" \in Range(q.told) => "connect" \in Range(r.told) \/ w = "connect"
    BY <1>1, OpenTold, Zenon
  <1> HIDE DEF q
  <1>3. /\ q.pos = r.pos /\ q.buf = r.buf /\ q.consumed = r.consumed /\ q.got = r.got /\ q.tls = r.tls
        /\ q.hs = r.hs /\ q.done = r.done /\ q.reading = r.reading /\ q.cbs = r.cbs /\ q.reqs = r.reqs
        /\ q.ref = r.ref /\ q.up = r.up
    BY <1>1, <1>2 DEF ConnRecs
  <1>4. PeerStream(q) = PeerStream(r)
    BY <1>3 DEF PeerStream
  <1>5. Wire(q)
    BY <1>3, <1>4 DEF Here, Wire
  <1>6. Established(q)
    BY <1>2, <1>3 DEF Here, Established
  <1>7. Here(q)
    BY <1>2, <1>3, <1>5, <1>6 DEF Here
  <1> QED
    BY <1>2, <1>3, <1>7 DEF q

(* The read of a plain connection *)
LEMMA PlainReadIs ==
    ASSUME NEW r, Here(r), r.reading, ~r.tls, NEW n \in Nat, r.pos + n <= Len(PeerStream(r)), NEW at
    PROVE  LET q == TcpReadCb(r, n, at) IN TornDown(q) \/ (Here(q) /\ q.ref = r.ref)
  <1> DEFINE new == SubSeq(PeerStream(r), r.pos + 1, r.pos + n)
             g == r.got \o new
             p == r.pos + n
             s == [[r EXCEPT !.pos = p] EXCEPT !.got = g]
             q == TcpReadCb(r, n, at)
  <1>1. /\ r \in ConnRecs /\ Open(r) /\ r.cbs /\ r.pos \in Nat /\ r.got \in Seq(Data) /\ Len(r.got) = r.pos
        /\ PeerStream(r) = TcpData /\ TcpData \in Seq(Data) /\ Len(TcpData) \in Nat
        /\ r.buf = << >> /\ r.consumed \in Nat /\ r.consumed <= Len(r.buf)
        /\ r.reqs \cap {"dns", "connect"} = {}
    BY StreamIs, TcpAssumption DEF Here, Open, ConnRecs, Wire, Established, Data
  <1>0. r.pos \in Nat /\ r.pos + n <= Len(TcpData) /\ Len(TcpData) \in Nat /\ Len(r.got) = r.pos
    BY <1>1, Zenon
  <1>l. PICK l \in Nat, k \in Nat : l = r.pos /\ k = Len(TcpData)
    BY <1>0
  <1>k. l + n <= k
    BY <1>0, <1>l
  <1>2. PICK m1 \in Nat, m2 \in Nat : m1 = l + 1 /\ m2 = l + n
    OBVIOUS
  <1>3. m1 >= 1 /\ m2 >= m1 - 1 /\ m2 <= k /\ m2 - m1 + 1 = n
    BY <1>k, <1>2
  <1>4. SubSeq(TcpData, m1, m2) \in Seq(Data) /\ IsStretch(TcpData, m1, m2, SubSeq(TcpData, m1, m2))
    BY <1>1, <1>l, <1>2, <1>3, Stretch, Zenon
  <1>5. new \in Seq(Data) /\ IsStretch(TcpData, m1, m2, new)
    BY <1>1, <1>l, <1>2, <1>4
  <1>6. q = Callback([r EXCEPT !.pos = p, !.got = g], "data", at \in ToSet(new))
    BY <1>1 DEF TcpReadCb
  <1> HIDE DEF new
  <1>7. g \in Seq(Data) /\ IsJoin(r.got, new, g)
    BY <1>1, <1>5, Joined, Zenon
  <1>8. Len(new) = n /\ Len(g) = p /\ Len(r.got) = l /\ p = l + n
    BY <1>0, <1>l, <1>3, <1>5, <1>7 DEF IsJoin, IsStretch
  <1>m. Len(g) = l + n
    BY <1>8
  <1> HIDE DEF g
  <1>9. IsSent(g)
    <2>1. ASSUME NEW i \in 1 .. Len(g) PROVE g[i] = TcpData[i]
      <3>1. CASE i <= Len(r.got)
        <4>1. i \in 1 .. Len(r.got)
          BY <1>1, <2>1, <3>1
        <4> QED
          BY <1>1, <1>7, <4>1 DEF IsJoin, Open, IsSent
      <3>2. CASE ~(i <= Len(r.got))
        <4>1. PICK j \in 1 .. n : i = Len(r.got) + j
          <5>1. ~(i <= l) /\ i \in 1 .. l + n
            BY <1>8, <1>m, <2>1, <3>2
          <5>2. i - l \in 1 .. n /\ i = l + (i - l)
            BY <5>1
          <5> QED
            BY <1>8, <5>2, Zenon
        <4>2. g[i] = new[j]
          BY <1>7, <1>8, <4>1 DEF IsJoin
        <4>3. new[j] = TcpData[m1 + j - 1]
          BY <1>3, <1>5, <4>1 DEF IsStretch
        <4>4. m1 + j - 1 = i
          BY <1>8, <1>2, <4>1
        <4> QED
          BY <4>2, <4>3, <4>4
      <3> QED
        BY <3>1, <3>2
    <2>2. Len(g) <= Len(TcpData)
      BY <1>m, <1>k, <1>l
    <2> QED
      BY <2>1, <2>2 DEF IsSent
  <1>10. s \in ConnRecs
    <2>1. p \in Nat
      BY <1>1
    <2> HIDE DEF p
    <2> QED
      BY <1>1, <1>7, <2>1, SetField, Zenon
  <1>11. /\ s.pos = p /\ s.got = g /\ s.buf = r.buf /\ s.consumed = r.consumed
         /\ s.life = r.life /\ s.tcp = r.tcp /\ s.closed = r.closed /\ s.freed = r.freed /\ s.told = r.told
         /\ s.dropped = r.dropped /\ s.tls = r.tls /\ s.hs = r.hs /\ s.done = r.done /\ s.up = r.up
         /\ s.reading = r.reading /\ s.cbs = r.cbs /\ s.reqs = r.reqs /\ s.ref = r.ref
    BY <1>1 DEF ConnRecs
  <1>12. s = [r EXCEPT !.pos = p, !.got = g]
    OBVIOUS
  <1> HIDE DEF s, p
  <1>13. PeerStream(s) = TcpData
    BY <1>11, StreamIs
  <1>14. Open(s)
    BY <1>1, <1>9, <1>10, <1>11 DEF Open
  <1>15. Wire(s)
    <2>1. s.pos <= Len(TcpData) /\ s.pos \in Nat /\ Len(s.buf) = 0
      BY <1>1, <1>l, <1>k, <1>8, <1>11
    <2>2. ~s.tls /\ s.buf = << >> /\ Len(s.got) = s.pos /\ s.consumed <= Len(s.buf)
      BY <1>1, <1>8, <1>11
    <2> QED
      BY <1>13, <2>1, <2>2 DEF Wire
  <1>16. Here(s) /\ s.reqs \cap {"dns", "connect"} = {}
    BY <1>1, <1>11, <1>14, <1>15 DEF Here, Established
  <1>17. "data" \in Notices /\ "data" \notin Ends /\ "data" # "connect"
    BY DEF Notices, Ends
  <1>18. Here(TcpTell(s, "data")) /\ TcpTell(s, "data").ref = s.ref
    BY <1>16, <1>17, HereTold, Zenon
  <1>19. (at \in ToSet(new)) \in BOOLEAN
    OBVIOUS
  <1>20. q = TcpTell(s, "data") \/ TornDown(q)
    BY <1>6, <1>12, <1>14, <1>17, <1>19, CallbackIs, Zenon
  <1> QED
    BY <1>11, <1>18, <1>20, Zenon

(* The whole of tcp_read_cb *)
LEMMA ReadIs ==
    ASSUME NEW r, Here(r), r.reading, NEW n \in Nat, r.pos + n <= Len(PeerStream(r)), NEW at
    PROVE  LET q == TcpReadCb(r, n, at) IN TornDown(q) \/ (Here(q) /\ q.ref = r.ref)
  <1>1. CASE ~r.tls
    BY <1>1, PlainReadIs, Zenon
  <1>2. CASE r.tls
    <2>1. TlsReading(r)
      BY <1>2 DEF TlsReading, Here, Established
    <2> DEFINE new == SubSeq(PeerStream(r), r.pos + 1, r.pos + n)
               s == [[r EXCEPT !.pos = @ + n] EXCEPT !.buf = @ \o new]
    <2>2. TlsReading(s) /\ s.ref = r.ref
      BY <2>1, ArriveKeeps, Zenon
    <2>3. TcpReadCb(r, n, at) = TlsReadCb(s, at)
      BY <1>2 DEF TcpReadCb
    <2> HIDE DEF s
    <2> QED
      BY <2>2, <2>3, TlsReadIs, ReadingIsHere, Zenon
  <1> QED
    BY <1>1, <1>2

(* One request less *)
LEMMA LessReqs ==
    ASSUME NEW r, Here(r) \/ TornDown(r), NEW x
    PROVE  LET q == [r EXCEPT !.reqs = @ \ {x}]
           IN  /\ (Here(r) => Here(q)) /\ (TornDown(r) => TornDown(q)) /\ q.ref = r.ref /\ q.reqs = r.reqs \ {x}
               /\ q.freed = r.freed /\ q.life = r.life /\ q.told = r.told /\ q.reading = r.reading
  <1> DEFINE q == [r EXCEPT !.reqs = @ \ {x}]
  <1>1. r \in ConnRecs
    BY DEF Here, Open, TornDown
  <1>2. q \in ConnRecs /\ q.reqs = r.reqs \ {x}
    <2>1. r.reqs \ {x} \in SUBSET {"dns", "connect", "write"}
      BY <1>1 DEF ConnRecs
    <2>2. q \in ConnRecs
      BY <1>1, <2>1, SetField
    <2>3. q.reqs = r.reqs \ {x}
      BY <1>1 DEF ConnRecs
    <2> QED
      BY <2>2, <2>3, Zenon
  <1>3. /\ q.pos = r.pos /\ q.got = r.got /\ q.buf = r.buf /\ q.consumed = r.consumed
        /\ q.life = r.life /\ q.tcp = r.tcp /\ q.closed = r.closed /\ q.freed = r.freed /\ q.told = r.told
        /\ q.dropped = r.dropped /\ q.tls = r.tls /\ q.hs = r.hs /\ q.done = r.done /\ q.up = r.up
        /\ q.reading = r.reading /\ q.cbs = r.cbs /\ q.ref = r.ref /\ q.handle = r.handle
    BY <1>1 DEF ConnRecs
  <1> HIDE DEF q
  <1>4. PeerStream(q) = PeerStream(r)
    BY <1>3 DEF PeerStream
  <1>5. Wire(r) => Wire(q)
    BY <1>3, <1>4 DEF Wire
  <1>6. Open(r) => Open(q)
    BY <1>2, <1>3 DEF Open
  <1>7. Established(r) => Established(q)
    BY <1>2, <1>3 DEF Established
  <1>8. Here(r) => Here(q)
    BY <1>3, <1>5, <1>6, <1>7 DEF Here
  <1>9. TornDown(r) => TornDown(q)
    <2>1. ASSUME TornDown(r) PROVE TornDown(q)
      <3>1. r.reqs \subseteq {"dns"} => q.reqs \subseteq {"dns"}
        BY <1>2
      <3> QED
        BY <1>2, <1>3, <2>1, <3>1 DEF TornDown
    <2> QED
      BY <2>1
  <1> QED
    BY <1>2, <1>3, <1>8, <1>9 DEF q

(* A connection in place of another, and what it does to the TLS context *)
LEMMA StoreKeeps ==
    ASSUME TcpInv, NEW c \in Conns, NEW r, ConnOk(r), Store(c, r), UNCHANGED lsn,
           r.ref => conn[c].ref \/ (lsn.st = "open" /\ lsn.tls)
    PROVE  TcpInv'
  <1>1. /\ conn = [x \in Conns |-> conn[x]] /\ \A x \in Conns : ConnOk(conn[x])
        /\ conn' = [conn EXCEPT ![c] = r]
    BY DEF TcpInv, Store
  <1>2. conn'[c] = r /\ \A x \in Conns \ {c} : conn'[x] = conn[x]
    BY <1>1
  <1>3. conn' = [x \in Conns |-> conn'[x]]
    BY <1>1
  <1>4. \A x \in Conns : ConnOk(conn'[x])
    BY <1>1, <1>2, Zenon
  <1>5. /\ Users \subseteq Conns /\ IsFiniteSet(Users) /\ Cardinality(Users) \in Nat
    <2>1. Users \subseteq Conns
      BY DEF Users
    <2> QED
      BY <2>1, TcpAssumption, FS_Subset, FS_CardinalityType
  <1>6. /\ lsn' = lsn /\ Own' = Own /\ Own \in {0, 1}
    BY DEF Own
  <1>7. /\ lsn \in [st : {"none", "open", "closing", "closed"}, tls : BOOLEAN, handle : BOOLEAN]
        /\ tls_ctx \in [st : {"none", "live", "freed"}, refs : Nat]
        /\ tls_ctx.refs = Cardinality(Users) + Own
        /\ (tls_ctx.st = "live" <=> tls_ctx.refs > 0)
        /\ lsn.st = "none" => tls_ctx.refs = 0
    BY DEF TcpInv, CtxOk
  <1>8. r.ref \in BOOLEAN /\ conn[c].ref \in BOOLEAN
    <2>1. ASSUME NEW q, ConnOk(q) PROVE q.ref \in BOOLEAN
      BY <2>1, FreshIs DEF ConnOk, Here, Open, TornDown, ConnRecs
    <2> QED
      BY <1>1, <2>1, Zenon
  <1>9. CASE conn[c].ref /\ ~r.ref
    <2>1. Users' = Users \ {c} /\ c \in Users
      BY <1>2, <1>9 DEF Users
    <2>2. Cardinality(Users') = Cardinality(Users) - 1
      BY <1>5, <2>1, FS_RemoveElement
    <2>3. tls_ctx' = Unref(tls_ctx)
      BY <1>9 DEF Store
    <2>4. /\ tls_ctx'.refs = tls_ctx.refs - 1
          /\ tls_ctx'.st = (IF tls_ctx.refs = 1 THEN "freed" ELSE tls_ctx.st)
          /\ tls_ctx' = [st |-> tls_ctx'.st, refs |-> tls_ctx'.refs]
      BY <1>7, <2>3 DEF Unref
    <2>5. Cardinality(Users) # 0
      BY <1>5, <2>1, FS_EmptySet
    <2>6. tls_ctx.refs \in Nat /\ tls_ctx.refs > 0
      BY <1>5, <1>6, <1>7, <2>5
    <2>7. /\ tls_ctx' \in [st : {"none", "live", "freed"}, refs : Nat]
      <3>1. tls_ctx'.refs \in Nat /\ tls_ctx'.st \in {"none", "live", "freed"}
        BY <1>7, <2>4, <2>6
      <3> QED
        BY <2>4, <3>1
    <2>8. (tls_ctx'.st = "live" <=> tls_ctx'.refs > 0) /\ tls_ctx'.refs = Cardinality(Users') + Own'
      BY <1>5, <1>6, <1>7, <2>2, <2>4, <2>6
    <2>9. lsn.st # "none"
      BY <1>7, <2>6
    <2> QED
      BY <1>3, <1>4, <1>6, <1>7, <2>7, <2>8, <2>9 DEF TcpInv, CtxOk
  <1>10. CASE ~conn[c].ref /\ r.ref
    <2>1. Users' = Users \cup {c} /\ c \notin Users
      BY <1>2, <1>10 DEF Users
    <2>2. Cardinality(Users') = Cardinality(Users) + 1
      BY <1>5, <2>1, FS_AddElement
    <2>3. tls_ctx' = Ref(tls_ctx)
      BY <1>10 DEF Store
    <2>4. /\ tls_ctx'.refs = tls_ctx.refs + 1 /\ tls_ctx'.st = tls_ctx.st
          /\ tls_ctx' = [st |-> tls_ctx'.st, refs |-> tls_ctx'.refs]
      BY <1>7, <2>3 DEF Ref
    <2>5. lsn.st = "open" /\ Own = 1
      BY <1>10 DEF Own
    <2>6. tls_ctx.refs \in Nat /\ tls_ctx.refs > 0
      BY <1>5, <1>7, <2>5
    <2>7. /\ tls_ctx' \in [st : {"none", "live", "freed"}, refs : Nat]
      <3>1. tls_ctx'.refs \in Nat /\ tls_ctx'.st \in {"none", "live", "freed"}
        BY <1>7, <2>4, <2>6
      <3> QED
        BY <2>4, <3>1
    <2>8. (tls_ctx'.st = "live" <=> tls_ctx'.refs > 0) /\ tls_ctx'.refs = Cardinality(Users') + Own'
      BY <1>5, <1>6, <1>7, <2>2, <2>4, <2>5, <2>6
    <2> QED
      BY <1>3, <1>4, <1>6, <1>7, <2>5, <2>7, <2>8 DEF TcpInv, CtxOk
  <1>11. CASE conn[c].ref = r.ref
    <2>1. Users' = Users
      BY <1>2, <1>11 DEF Users
    <2>2. tls_ctx' = tls_ctx
      BY <1>11 DEF Store
    <2> QED
      BY <1>3, <1>4, <1>6, <1>7, <2>1, <2>2 DEF TcpInv, CtxOk
  <1> QED
    BY <1>8, <1>9, <1>10, <1>11

(* A connection that nothing happened to yet *)
New(u, v) ==
    /\ u \in ConnRecs /\ u.life = "live" /\ u.tls = v /\ u.handle /\ u.cbs /\ ~u.closed /\ ~u.freed
    /\ ~u.reading /\ ~u.ref /\ u.told = << >> /\ u.got = << >> /\ ~u.dropped /\ u.buf = << >>
    /\ u.consumed = 0 /\ u.pos = 0 /\ u.hs = 0 /\ ~u.done

(* The connections that an operation can have *)
LEMMA Fields ==
    ASSUME TcpInv, NEW c \in Conns
    PROVE  /\ conn[c] = FreshConn \/ Here(conn[c]) \/ TornDown(conn[c])
           /\ conn[c].reqs # {} => Here(conn[c]) \/ TornDown(conn[c])
           /\ conn[c].reading \/ (conn[c].handle /\ ~conn[c].closed) => Here(conn[c])
           /\ conn[c].tcp = "closing" => TornDown(conn[c])
           /\ conn[c].life = "unused" => conn[c] = FreshConn /\ ~conn[c].ref
  <1>1. conn[c] = FreshConn \/ Here(conn[c]) \/ TornDown(conn[c])
    BY DEF TcpInv, ConnOk
  <1> QED
    BY <1>1, FreshIs DEF Here, Open, TornDown

LEMMA TcpConnectKeeps ==
    ASSUME TcpInv, NEW c \in Conns, NEW t \in Transports, NEW how \in {"ok", "setup", "dns"}, TcpConnect(c, t, how)
    PROVE  TcpInv'
  <1> DEFINE v == (t = "tls")
             s == [FreshConn EXCEPT !.life = "live", !.tls = v, !.handle = TRUE, !.cbs = TRUE]
             i == [s EXCEPT !.tcp = "open"]
             k == [i EXCEPT !.reqs = {"dns"}]
             q == CASE how = "ok" -> k [] how = "setup" -> TcpClientFree(s) [] how = "dns" -> TcpClientFree(TcpError(i))
  <1>1. /\ conn[c].life = "unused" /\ Store(c, q) /\ UNCHANGED lsn
    BY DEF TcpConnect
  <1>2. v \in BOOLEAN
    BY Zenon
  <1> HIDE DEF v
  <1>3. ASSUME NEW u \in {s, i, k}
        PROVE  /\ u \in ConnRecs /\ u.life = "live" /\ u.tls = v /\ u.handle /\ u.cbs /\ ~u.closed /\ ~u.freed
               /\ ~u.reading /\ ~u.ref /\ u.told = << >> /\ u.got = << >> /\ ~u.dropped /\ u.buf = << >>
               /\ u.consumed = 0 /\ u.pos = 0 /\ u.hs = 0 /\ ~u.done
    <2>1. New(s, v)
      <3>1. TRUE \in BOOLEAN /\ "live" \in {"unused", "live", "freed"}
        OBVIOUS
      <3> DEFINE s1 == [FreshConn EXCEPT !.life = "live", !.tls = v]
      <3>2. s1 \in ConnRecs
        <4>1. FreshConn \in ConnRecs
          BY FreshIs
        <4>2. [FreshConn EXCEPT !.life = "live"] \in ConnRecs
          BY <4>1, <3>1, SetField, Zenon
        <4>3. [[FreshConn EXCEPT !.life = "live"] EXCEPT !.tls = v] \in ConnRecs
          BY <1>2, <4>2 DEF ConnRecs
        <4> QED
          BY <4>3
      <3>3. /\ s1.life = "live" /\ s1.tls = v /\ ~s1.closed /\ ~s1.freed
            /\ ~s1.reading /\ ~s1.ref /\ s1.told = << >> /\ s1.got = << >> /\ ~s1.dropped /\ s1.buf = << >>
            /\ s1.consumed = 0 /\ s1.pos = 0 /\ s1.hs = 0 /\ ~s1.done
        BY DEF FreshConn
      <3>4. s = [s1 EXCEPT !.handle = TRUE, !.cbs = TRUE]
        OBVIOUS
      <3> HIDE DEF s1, s
      <3>5. s \in ConnRecs
        BY <3>1, <3>2, <3>4, SetField, Zenon
      <3> QED
        BY <3>2, <3>3, <3>4, <3>5 DEF New, ConnRecs
    <2> HIDE DEF s
    <2>2. New(i, v)
      BY <2>1 DEF ConnRecs, New
    <2> HIDE DEF i
    <2>3. New(k, v)
      BY <2>2 DEF ConnRecs, New
    <2> HIDE DEF k
    <2> QED
      BY <1>3, <2>1, <2>2, <2>3, Zenon DEF New
  <1>4. s.tcp = "none" /\ s.reqs = {} /\ i.tcp = "open" /\ i.reqs = {} /\ k.tcp = "open" /\ k.reqs = {"dns"}
    BY DEF FreshConn
  <1> HIDE DEF s, i, k
  <1>5. NoEnd(<< >>) /\ EndsLast(<< >>) /\ IsSent(<< >>) /\ Len(<< >>) = 0
    <2>1. Len(TcpData) \in Nat
      BY TcpAssumption
    <2> QED
      BY <2>1 DEF NoEnd, EndsLast, IsSent
  <1>6. TornDown(TcpClientFree(s))
    <2>1. s \in ConnRecs /\ ~s.freed
      BY <1>3
    <2> DEFINE f == TcpClientFree(s)
    <2>2. /\ f \in ConnRecs /\ f.freed /\ f.closed /\ ~f.handle /\ ~f.reading /\ ~f.ref
          /\ f.consumed <= Len(f.buf) /\ f.told = s.told /\ f.got = s.got /\ f.dropped = s.dropped
          /\ f.reqs = s.reqs /\ f.tcp = (IF s.tcp = "open" THEN "closing" ELSE s.tcp)
          /\ f.life = (IF s.tcp = "open" THEN s.life ELSE "freed")
      BY <2>1, FreeIs, Zenon
    <2> HIDE DEF f
    <2>3. TornDown(f)
      BY <1>3, <1>4, <1>5, <2>2 DEF TornDown
    <2> QED
      BY <2>3 DEF f
  <1>7. ASSUME NEW u \in {i, k} PROVE Open(u)
    BY <1>3, <1>4, <1>5, <1>7 DEF Open
  <1>8. TornDown(TcpClientFree(TcpError(i)))
    <2>1. TornDown(TcpError(i))
      BY <1>7, ErrorIsGone
    <2> QED
      BY <2>1 DEF TcpClientFree, TornDown
  <1>9. Here(k) /\ ~k.ref
    <2>1. Wire(k)
      <3>1. HsUnits \in Nat /\ HsUnits # 0 /\ Len(TcpData) \in Nat
        BY TcpAssumption
      <3>2. Len(PeerStream(k)) \in Nat
        BY <3>1, StreamIs
      <3> QED
        <4>1. /\ k.buf = << >> /\ k.consumed = 0 /\ k.pos = 0 /\ k.hs = 0 /\ ~k.done /\ k.got = << >>
              /\ Len(k.buf) = 0 /\ Len(k.got) = 0
          BY <1>3, <1>5
        <4>2. /\ k.pos <= Len(PeerStream(k)) /\ Len(k.buf) <= k.pos /\ k.consumed <= Len(k.buf)
              /\ k.hs <= HsUnits /\ k.pos - Len(k.buf) + k.consumed = k.hs + Len(k.got) /\ k.hs # HsUnits
          <5>1. PICK h \in Nat, l \in Nat : h = HsUnits /\ l = Len(PeerStream(k)) /\ h # 0
            BY <3>1, <3>2
          <5>2. 0 <= h /\ 0 <= l
            OBVIOUS
          <5>3. k.pos <= Len(PeerStream(k)) /\ Len(k.buf) <= k.pos /\ k.consumed <= Len(k.buf)
            BY <4>1, <5>1, <5>2
          <5>4. k.hs <= HsUnits /\ k.hs # HsUnits
            BY <4>1, <5>1, <5>2
          <5>5. k.pos - Len(k.buf) + k.consumed = k.hs + Len(k.got)
            <6>1. k.pos = 0 /\ Len(k.buf) = 0 /\ k.consumed = 0 /\ k.hs = 0 /\ Len(k.got) = 0
              BY <4>1, Zenon
            <6>2. 0 - 0 + 0 = 0 + 0
              OBVIOUS
            <6> QED
              BY <6>1, <6>2, Zenon
          <5> QED
            BY <5>3, <5>4, <5>5
        <4>3. \A j \in 1 .. Len(k.buf) : FALSE
          BY <4>1
        <4> QED
          BY <4>1, <4>2, <4>3 DEF Wire
    <2>2. Established(k)
      BY <1>3, <1>4 DEF Established, Range
    <2> QED
      BY <1>3, <1>7, <2>1, <2>2 DEF Here
  <1>10. ConnOk(q) /\ ~q.ref
    BY <1>6, <1>8, <1>9 DEF ConnOk, TornDown
  <1> HIDE DEF q
  <1> QED
    BY <1>1, <1>10, StoreKeeps, Zenon

LEMMA TcpDnsCbKeeps ==
    ASSUME TcpInv, NEW c \in Conns, NEW how \in {"ok", "error", "refused"}, TcpDnsCb(c, how)
    PROVE  TcpInv'
  <1> DEFINE r == [conn[c] EXCEPT !.reqs = @ \ {"dns"}]
             k == [r EXCEPT !.reqs = @ \cup {"connect"}]
             q == IF r.freed THEN r
                  ELSE CASE how = "ok" -> k [] how = "error" -> TcpError(r) [] how = "refused" -> r
  <1>1. "dns" \in conn[c].reqs /\ Store(c, q) /\ UNCHANGED lsn
    BY DEF TcpDnsCb
  <1>2. Here(conn[c]) \/ TornDown(conn[c])
    BY <1>1, Fields
  <1>3. /\ (Here(conn[c]) => Here(r)) /\ (TornDown(conn[c]) => TornDown(r)) /\ r.ref = conn[c].ref
        /\ r.reqs = conn[c].reqs \ {"dns"} /\ r.told = conn[c].told /\ r.reading = conn[c].reading
    BY <1>2, LessReqs, Zenon
  <1>4. Here(r) => r.told = << >> /\ ~r.reading /\ "connect" \notin r.reqs
    BY <1>1, <1>2, <1>3 DEF Here, TornDown, Open, Established
  <1>5. "dns" \notin r.reqs /\ (Here(r) \/ TornDown(r))
    BY <1>2, <1>3
  <1> HIDE DEF r
  <1>6. r \in ConnRecs
    BY <1>5 DEF Here, Open, TornDown
  <1>7. CASE TornDown(r)
    <2>1. q = r
      BY <1>7 DEF TornDown
    <2>2. ConnOk(q) /\ ~q.ref
      BY <1>7, <2>1 DEF ConnOk, TornDown
    <2> HIDE DEF q
    <2> QED
      BY <1>1, <2>2, StoreKeeps, Zenon
  <1>8. CASE Here(r)
    <2>1. r.life = "live" /\ ~r.freed /\ Open(r)
      BY <1>8 DEF Here, Open
    <2>2. q = k \/ q = TcpError(r) \/ q = r
      BY <2>1
    <2>3. TornDown(TcpError(r)) /\ ~TcpError(r).ref
      BY <2>1, ErrorIsGone DEF TornDown
    <2>4. k \in ConnRecs
      <3>1. r.reqs \cup {"connect"} \in SUBSET {"dns", "connect", "write"} 
        BY <1>6 DEF ConnRecs
      <3> QED
        BY <1>6, <3>1, SetField, Zenon
    <2>5. ASSUME NEW u, u = k
          PROVE  /\ u.pos = r.pos /\ u.got = r.got /\ u.buf = r.buf /\ u.consumed = r.consumed
                 /\ u.life = r.life /\ u.tcp = r.tcp /\ u.closed = r.closed /\ u.freed = r.freed /\ u.told = r.told
                 /\ u.dropped = r.dropped /\ u.tls = r.tls /\ u.hs = r.hs /\ u.done = r.done /\ u.up = r.up
                 /\ u.reading = r.reading /\ u.cbs = r.cbs /\ u.ref = r.ref
      BY <1>6, <2>5 DEF ConnRecs
    <2>6. k.reqs = r.reqs \cup {"connect"}
      BY <1>6 DEF ConnRecs
    <2> HIDE DEF k
    <2>7. ASSUME NEW u, u = k PROVE Here(u) /\ u.ref = r.ref
      <3>1. PeerStream(u) = PeerStream(r)
        BY <2>5, <2>7 DEF PeerStream
      <3>2. Wire(u)
        BY <1>8, <2>5, <2>7, <3>1 DEF Here, Wire
      <3>3. u \in ConnRecs
        BY <2>4, <2>7
      <3>4. Open(u)
        BY <2>1, <2>5, <2>7, <3>3 DEF Open
      <3>5. Established(u)
        <4>1. u.told = << >> /\ ~u.reading
          BY <1>4, <1>8, <2>5, <2>7
        <4>2. ~({"dns", "connect"} \subseteq u.reqs)
          BY <1>5, <2>6, <2>7
        <4>3. "connect" \notin Range(u.told)
          BY <4>1 DEF Range
        <4> QED
          BY <4>1, <4>2, <4>3 DEF Established
      <3> QED
        BY <1>8, <2>5, <2>7, <3>2, <3>4, <3>5 DEF Here
    <2>8. ConnOk(q) /\ (q.ref => conn[c].ref)
      BY <1>3, <1>8, <2>2, <2>3, <2>7 DEF ConnOk
    <2> HIDE DEF q
    <2> QED
      BY <1>1, <2>8, StoreKeeps, Zenon
  <1> QED
    BY <1>5, <1>7, <1>8

LEMMA TcpConnectCbKeeps ==
    ASSUME TcpInv, NEW c \in Conns, NEW ok \in BOOLEAN, NEW at, TcpConnectCb(c, ok, at)
    PROVE  TcpInv'
  <1> DEFINE p == [conn[c] EXCEPT !.reqs = @ \ {"connect"}]
             r == [p EXCEPT !.up = ok]
             o == IF r.tls THEN r ELSE Callback(r, "connect", at = "connect")
             k == [o EXCEPT !.reading = TRUE]
             q == IF r.freed THEN r ELSE IF ~ok THEN TcpError(r) ELSE IF o.tcp = "open" THEN k ELSE TcpError(o)
  <1>1. Here(conn[c]) \/ TornDown(conn[c])
    BY Fields DEF TcpConnectCb
  <1>2. "connect" \in conn[c].reqs /\ Store(c, q) /\ UNCHANGED lsn
    <2>1. r = [conn[c] EXCEPT !.reqs = @ \ {"connect"}, !.up = ok]
      OBVIOUS
    <2> QED
      BY <2>1 DEF TcpConnectCb
  <1>3. /\ (Here(conn[c]) => Here(p)) /\ (TornDown(conn[c]) => TornDown(p)) /\ p.ref = conn[c].ref
        /\ p.reqs = conn[c].reqs \ {"connect"} /\ p.told = conn[c].told /\ p.reading = conn[c].reading
    BY <1>1, LessReqs, Zenon
  <1>4. Here(p) => p.told = << >> /\ ~p.reading /\ p.reqs \cap {"dns", "connect"} = {}
    <2>1. Here(p) => Here(conn[c])
      BY <1>1, <1>3 DEF Here, Open, TornDown
    <2> QED
      BY <1>2, <1>3, <2>1 DEF Here, Established
  <1>5. Here(p) \/ TornDown(p)
    BY <1>1, <1>3
  <1> HIDE DEF p
  <1>6. p \in ConnRecs
    BY <1>5 DEF Here, Open, TornDown
  <1>7. /\ r \in ConnRecs /\ r.up = ok
        /\ r.pos = p.pos /\ r.got = p.got /\ r.buf = p.buf /\ r.consumed = p.consumed
        /\ r.life = p.life /\ r.tcp = p.tcp /\ r.closed = p.closed /\ r.freed = p.freed /\ r.told = p.told
        /\ r.dropped = p.dropped /\ r.tls = p.tls /\ r.hs = p.hs /\ r.done = p.done /\ r.reqs = p.reqs
        /\ r.reading = p.reading /\ r.cbs = p.cbs /\ r.ref = p.ref /\ r.handle = p.handle
    BY <1>6 DEF ConnRecs
  <1> HIDE DEF r
  <1>8. CASE TornDown(p)
    <2>1. TornDown(r)
      BY <1>7, <1>8 DEF TornDown
    <2>2. q = r
      BY <2>1 DEF TornDown
    <2>3. ConnOk(q) /\ ~q.ref
      BY <2>1, <2>2 DEF ConnOk, TornDown
    <2> HIDE DEF q
    <2> QED
      BY <1>2, <2>3, StoreKeeps, Zenon
  <1>9. CASE Here(p)
    <2>1. Here(r) /\ Open(r)
      <3>1. PeerStream(r) = PeerStream(p)
        BY <1>7 DEF PeerStream
      <3>2. Wire(r)
        BY <1>7, <1>9, <3>1 DEF Here, Wire
      <3>3. Open(r)
        BY <1>7, <1>9 DEF Here, Open
      <3>4. Established(r)
        BY <1>4, <1>7, <1>9 DEF Established, Range
      <3> QED
        BY <1>7, <1>9, <3>2, <3>3, <3>4 DEF Here
    <2>2. ~r.freed
      BY <2>1 DEF Open
    <2>3. CASE ~ok
      <3>1. q = TcpError(r) /\ TornDown(TcpError(r))
        BY <2>1, <2>2, <2>3, ErrorIsGone
      <3> HIDE DEF q
      <3>2. ConnOk(q) /\ ~q.ref
        BY <3>1 DEF ConnOk, TornDown
      <3> QED
        BY <1>2, <3>2, StoreKeeps, Zenon
    <2>4. CASE ok
      <3>1. TornDown(o) \/ (Here(o) /\ o.ref = r.ref /\ o.reqs = r.reqs /\ o.told \in {r.told, o.told})
        <4>1. CASE r.tls
          BY <2>1, <4>1
        <4>2. CASE ~r.tls
          <5>1. \E closes \in BOOLEAN : o = Callback(r, "connect", closes)
            <6>1. (at = "connect") \in BOOLEAN
              BY Zenon
            <6> QED
              BY <4>2, <6>1, Zenon
          <5> HIDE DEF o
          <5>2. "connect" \in Notices /\ "connect" \notin Ends
            BY DEF Notices, Ends
          <5>3. o = TcpTell(r, "connect") \/ TornDown(o)
            BY <2>1, <5>1, <5>2, CallbackIs, Zenon
          <5>4. r.reqs \cap {"dns", "connect"} = {} /\ r.up
            BY <1>4, <1>7, <1>9, <2>4
          <5>5. /\ Here(TcpTell(r, "connect")) /\ TcpTell(r, "connect").ref = r.ref
                /\ TcpTell(r, "connect") = [r EXCEPT !.told = TcpTell(r, "connect").told]
            BY <2>1, <4>2, <5>2, <5>4, HereTold, Zenon
          <5>6. [r EXCEPT !.told = TcpTell(r, "connect").told].reqs = r.reqs
            BY <1>7 DEF ConnRecs
          <5> QED
            BY <5>3, <5>5, <5>6
        <4> QED
          BY <4>1, <4>2
      <3>2. q = IF o.tcp = "open" THEN k ELSE TcpError(o)
        BY <2>2, <2>4
      <3> HIDE DEF o
      <3>3. CASE TornDown(o)
        <4>1. o.tcp # "open" /\ o.closed
          BY <3>3 DEF TornDown
        <4>2. q = o
          BY <3>2, <4>1 DEF TcpError
        <4> HIDE DEF q
        <4>3. ConnOk(q) /\ ~q.ref
          BY <3>3, <4>2 DEF ConnOk, TornDown
        <4> QED
          BY <1>2, <4>3, StoreKeeps, Zenon
      <3>4. CASE Here(o) /\ o.ref = r.ref /\ o.reqs = r.reqs
        <4>1. Open(o) /\ o \in ConnRecs /\ o.tcp = "open"
          BY <3>4 DEF Here, Open
        <4>2. q = k
          BY <3>2, <4>1
        <4>3. /\ k \in ConnRecs /\ k.reading
              /\ k.pos = o.pos /\ k.got = o.got /\ k.buf = o.buf /\ k.consumed = o.consumed
              /\ k.life = o.life /\ k.tcp = o.tcp /\ k.closed = o.closed /\ k.freed = o.freed /\ k.told = o.told
              /\ k.dropped = o.dropped /\ k.tls = o.tls /\ k.hs = o.hs /\ k.done = o.done /\ k.reqs = o.reqs
              /\ k.up = o.up /\ k.cbs = o.cbs /\ k.ref = o.ref
          BY <4>1 DEF ConnRecs
        <4> HIDE DEF k, q
        <4>4. PeerStream(k) = PeerStream(o)
          BY <4>3 DEF PeerStream
        <4>5. Wire(k)
          BY <3>4, <4>3, <4>4 DEF Here, Wire
        <4>6. Open(k)
          BY <4>1, <4>3 DEF Open
        <4>7. k.reqs \cap {"dns", "connect"} = {}
          BY <1>4, <1>7, <1>9, <3>4, <4>3
        <4>8. Established(k)
          BY <3>4, <4>3, <4>7 DEF Here, Established
        <4>9. Here(k)
          BY <3>4, <4>3, <4>5, <4>6, <4>8 DEF Here
        <4>10. ConnOk(q) /\ (q.ref => conn[c].ref)
          BY <1>3, <1>7, <3>4, <4>2, <4>3, <4>9 DEF ConnOk
        <4> QED
          BY <1>2, <4>10, StoreKeeps, Zenon
      <3> QED
        BY <3>1, <3>3, <3>4
    <2> QED
      BY <2>3, <2>4
  <1> QED
    BY <1>5, <1>8, <1>9

LEMMA TcpReadsKeep ==
    ASSUME TcpInv, NEW c \in Conns,
           \/ \E n \in 1 .. 3, at \in Moments : TcpRead(c, n, at)
           \/ TcpReadEof(c)
           \/ TcpReadError(c)
           \/ TcpClose(c)
    PROVE  TcpInv'
  <1>1. Here(conn[c])
    BY Fields DEF TcpRead, TcpReadEof, TcpReadError, TcpClose
  <1>2. Open(conn[c])
    BY <1>1 DEF Here
  <1>3. \E q : Store(c, q) /\ UNCHANGED lsn /\ (TornDown(q) \/ (Here(q) /\ q.ref = conn[c].ref))
    <2>1. CASE \E n \in 1 .. 3, at \in Moments : TcpRead(c, n, at)
      <3>1. PICK n \in 1 .. 3, at \in Moments : TcpRead(c, n, at)
        BY <2>1
      <3>2. n \in Nat /\ conn[c].reading /\ conn[c].pos + n <= Len(PeerStream(conn[c]))
        BY <3>1 DEF TcpRead
      <3>3. TornDown(TcpReadCb(conn[c], n, at)) \/ (Here(TcpReadCb(conn[c], n, at)) /\ TcpReadCb(conn[c], n, at).ref = conn[c].ref)
        BY <1>1, <3>2, ReadIs, Zenon
      <3> QED
        BY <3>1, <3>3, Zenon DEF TcpRead
    <2>2. CASE TcpReadEof(c)
      BY <1>2, <2>2, ClosedIsGone, Zenon DEF TcpReadEof
    <2>3. CASE TcpReadError(c)
      BY <1>2, <2>3, ErrorIsGone, Zenon DEF TcpReadError
    <2>4. CASE TcpClose(c)
      <3>1. TornDown(JsClose(conn[c]))
        BY <1>2, <2>4, JsCloseIs DEF TcpClose
      <3> QED
        BY <2>4, <3>1, Zenon DEF TcpClose
    <2> QED
      BY <2>1, <2>2, <2>3, <2>4
  <1>4. PICK q : Store(c, q) /\ UNCHANGED lsn /\ (TornDown(q) \/ (Here(q) /\ q.ref = conn[c].ref))
    BY <1>3, Zenon
  <1>5. ConnOk(q) /\ (q.ref => conn[c].ref)
    BY <1>4 DEF ConnOk, TornDown
  <1> QED
    BY <1>4, <1>5, StoreKeeps, Zenon

LEMMA TcpWriteKeeps ==
    ASSUME TcpInv, NEW c \in Conns, TcpWrite(c)
    PROVE  TcpInv'
  <1> DEFINE r == conn[c]
             takes == IF r.tls THEN r.done ELSE "connect" \in r.reqs \/ r.up
             k == [r EXCEPT !.reqs = @ \cup {"write"}]
             f == [r EXCEPT !.dropped = @ \/ "connect" \in Range(r.told)]
             q == IF takes THEN k ELSE f
  <1>1. Here(r) /\ Store(c, q) /\ UNCHANGED lsn
    BY Fields DEF TcpWrite
  <1>2. r \in ConnRecs /\ Open(r)
    BY <1>1 DEF Here, Open
  <1> HIDE DEF r
  <1>3. CASE takes
    <2>1. k \in ConnRecs
      <3>1. r.reqs \cup {"write"} \in SUBSET {"dns", "connect", "write"}
        BY <1>2 DEF ConnRecs
      <3> QED
        BY <1>2, <3>1, SetField
    <2>2. /\ k.reqs = r.reqs \cup {"write"}
          /\ k.pos = r.pos /\ k.got = r.got /\ k.buf = r.buf /\ k.consumed = r.consumed
          /\ k.life = r.life /\ k.tcp = r.tcp /\ k.closed = r.closed /\ k.freed = r.freed /\ k.told = r.told
          /\ k.dropped = r.dropped /\ k.tls = r.tls /\ k.hs = r.hs /\ k.done = r.done /\ k.up = r.up
          /\ k.reading = r.reading /\ k.cbs = r.cbs /\ k.ref = r.ref
      BY <1>2 DEF ConnRecs
    <2>3. q = k
      BY <1>3
    <2> HIDE DEF k, q
    <2>4. PeerStream(k) = PeerStream(r)
      BY <2>2 DEF PeerStream
    <2>5. Wire(k)
      BY <1>1, <2>2, <2>4 DEF Here, Wire
    <2>6. Open(k)
      BY <1>2, <2>1, <2>2 DEF Open
    <2>7. Established(k)
      BY <1>1, <2>2 DEF Here, Established
    <2>8. ConnOk(q) /\ (q.ref => r.ref)
      BY <1>1, <2>2, <2>3, <2>5, <2>6, <2>7 DEF ConnOk, Here
    <2> QED
      BY <1>1, <2>8, StoreKeeps, Zenon DEF r
  <1>4. CASE ~takes
    <2>1. ~r.dropped /\ "connect" \notin Range(r.told)
      BY <1>1, <1>4 DEF Here, Open, Established
    <2>2. f = r
      BY <1>2, <2>1 DEF ConnRecs
    <2>3. q = r
      BY <1>4, <2>2
    <2> HIDE DEF q
    <2>4. ConnOk(q) /\ (q.ref => r.ref)
      BY <1>1, <2>3 DEF ConnOk
    <2> QED
      BY <1>1, <2>4, StoreKeeps, Zenon DEF r
  <1> QED
    BY <1>3, <1>4

LEMMA TcpWriteCbKeeps ==
    ASSUME TcpInv, NEW c \in Conns, TcpWriteCb(c)
    PROVE  TcpInv'
  <1> DEFINE q == [conn[c] EXCEPT !.reqs = @ \ {"write"}]
  <1>1. "write" \in conn[c].reqs /\ Store(c, q) /\ UNCHANGED lsn
    BY DEF TcpWriteCb
  <1>2. Here(conn[c]) \/ TornDown(conn[c])
    BY <1>1, Fields
  <1>3. (Here(conn[c]) => Here(q)) /\ (TornDown(conn[c]) => TornDown(q)) /\ q.ref = conn[c].ref
    BY <1>2, LessReqs, Zenon
  <1> HIDE DEF q
  <1>4. ConnOk(q) /\ (q.ref => conn[c].ref)
    BY <1>2, <1>3 DEF ConnOk
  <1> QED
    BY <1>1, <1>4, StoreKeeps, Zenon

LEMMA TcpCloseCbKeeps ==
    ASSUME TcpInv, NEW c \in Conns, TcpCloseCb(c)
    PROVE  TcpInv'
  <1> DEFINE r == conn[c]
             q == [r EXCEPT !.life = "freed", !.tcp = "none"]
  <1>1. TornDown(r) /\ r.reqs \subseteq {"dns"} /\ Store(c, q) /\ UNCHANGED lsn
    BY Fields DEF TcpCloseCb
  <1> HIDE DEF r
  <1>2. r \in ConnRecs
    BY <1>1 DEF TornDown
  <1>3. /\ q \in ConnRecs /\ q.life = "freed" /\ q.tcp = "none"
        /\ q.closed = r.closed /\ q.freed = r.freed /\ q.handle = r.handle /\ q.reading = r.reading
        /\ q.ref = r.ref /\ q.consumed = r.consumed /\ q.buf = r.buf /\ q.told = r.told /\ q.got = r.got
        /\ q.dropped = r.dropped /\ q.reqs = r.reqs
    BY <1>2 DEF ConnRecs
  <1> HIDE DEF q
  <1>4. ConnOk(q) /\ ~q.ref
    BY <1>1, <1>3 DEF ConnOk, TornDown
  <1> QED
    BY <1>1, <1>4, StoreKeeps, Zenon

(* An accepted connection: nothing was read of it yet. *)
LEMMA TcpAcceptKeeps ==
    ASSUME TcpInv, NEW c \in Conns, NEW how \in {"ok", "setup"}, NEW at, TcpAccept(c, how, at)
    PROVE  TcpInv'
  <1> DEFINE v == lsn.tls
             a == [FreshConn EXCEPT !.life = "live", !.role = "server", !.tls = v]
             s == [a EXCEPT !.tcp = "open", !.up = TRUE, !.ref = v]
             o == [s EXCEPT !.handle = TRUE, !.reading = TRUE]
             j == IF at = "accept" THEN JsClose(o) ELSE o
             k == [j EXCEPT !.cbs = TRUE]
             q == IF how = "setup" THEN TcpClientFree(s) ELSE k
  <1>1. /\ conn[c].life = "unused" /\ lsn.st = "open" /\ Store(c, q) /\ UNCHANGED lsn
    <2>1. s = [FreshConn EXCEPT !.life = "live", !.role = "server", !.tls = lsn.tls,
                                !.tcp = "open", !.up = TRUE, !.ref = lsn.tls]
      OBVIOUS
    <2> HIDE DEF s
    <2>2. /\ conn[c].life = "unused" /\ lsn.st = "open" /\ UNCHANGED lsn
          /\ Store(c, IF how = "setup" THEN TcpClientFree(s) ELSE [j EXCEPT !.cbs = TRUE])
      BY <2>1, Zenon DEF TcpAccept
    <2> QED
      BY <2>2, Zenon
  <1>2. v \in BOOLEAN
    BY DEF TcpInv, CtxOk
  <1> HIDE DEF v
  <1>3. a \in ConnRecs
    <2>1. FreshConn \in ConnRecs
      BY FreshIs
    <2>2. [FreshConn EXCEPT !.life = "live"] \in ConnRecs
      BY <2>1 DEF ConnRecs
    <2>3. [[FreshConn EXCEPT !.life = "live"] EXCEPT !.role = "server", !.tls = v] \in ConnRecs
      BY <1>2, <2>2 DEF ConnRecs
    <2> QED
      BY <2>3
  <1>4. /\ a.life = "live" /\ a.tls = v /\ ~a.closed /\ ~a.freed /\ a.reqs = {}
        /\ ~a.reading /\ a.told = << >> /\ a.got = << >> /\ ~a.dropped /\ a.buf = << >>
        /\ a.consumed = 0 /\ a.pos = 0 /\ a.hs = 0 /\ ~a.done
    BY DEF FreshConn
  <1> HIDE DEF a
  <1>5. /\ s \in ConnRecs /\ s.tcp = "open" /\ s.up /\ s.ref = v
        /\ s.life = "live" /\ s.tls = v /\ ~s.closed /\ ~s.freed /\ s.reqs = {}
        /\ ~s.reading /\ s.told = << >> /\ s.got = << >> /\ ~s.dropped /\ s.buf = << >>
        /\ s.consumed = 0 /\ s.pos = 0 /\ s.hs = 0 /\ ~s.done
    BY <1>2, <1>3, <1>4 DEF ConnRecs
  <1> HIDE DEF s
  <1>6. /\ o \in ConnRecs /\ o.tcp = "open" /\ o.up /\ o.ref = v
        /\ o.life = "live" /\ o.tls = v /\ ~o.closed /\ ~o.freed /\ o.reqs = {}
        /\ o.reading /\ o.told = << >> /\ o.got = << >> /\ ~o.dropped /\ o.buf = << >>
        /\ o.consumed = 0 /\ o.pos = 0 /\ o.hs = 0 /\ ~o.done
    BY <1>5 DEF ConnRecs
  <1> HIDE DEF o
  <1>7. NoEnd(<< >>) /\ IsSent(<< >>) /\ Len(<< >>) = 0
    <2>1. Len(TcpData) \in Nat
      BY TcpAssumption
    <2> QED
      BY <2>1 DEF NoEnd, IsSent
  <1>8. Open(s) /\ Open(o)
    BY <1>5, <1>6, <1>7 DEF Open
  <1>9. CASE how = "setup"
    <2> DEFINE f == TcpClientFree(s)
    <2>1. /\ f \in ConnRecs /\ f.freed /\ f.closed /\ ~f.handle /\ ~f.reading /\ ~f.ref
          /\ f.consumed <= Len(f.buf) /\ f.told = s.told /\ f.got = s.got /\ f.dropped = s.dropped
          /\ f.reqs = s.reqs /\ f.tcp = (IF s.tcp = "open" THEN "closing" ELSE s.tcp)
          /\ f.life = (IF s.tcp = "open" THEN s.life ELSE "freed")
      BY <1>5, FreeIs, Zenon
    <2>2. q = f
      BY <1>9
    <2> HIDE DEF f, q
    <2>3. EndsLast(<< >>)
      BY DEF EndsLast
    <2>4. TornDown(f)
      BY <1>5, <1>7, <2>1, <2>3 DEF TornDown
    <2>5. ConnOk(q) /\ ~q.ref
      BY <2>1, <2>2, <2>4 DEF ConnOk
    <2> QED
      BY <1>1, <2>5, StoreKeeps, Zenon
  <1>10. CASE how = "ok"
    <2>1. j = o \/ TornDown(j)
      BY <1>8, JsCloseIs
    <2>2. q = k
      BY <1>10
    <2> HIDE DEF j
    <2>3. j \in ConnRecs
      BY <1>6, <2>1 DEF TornDown
    <2>4. /\ k \in ConnRecs /\ k.cbs
          /\ k.pos = j.pos /\ k.got = j.got /\ k.buf = j.buf /\ k.consumed = j.consumed
          /\ k.life = j.life /\ k.tcp = j.tcp /\ k.closed = j.closed /\ k.freed = j.freed /\ k.told = j.told
          /\ k.dropped = j.dropped /\ k.tls = j.tls /\ k.hs = j.hs /\ k.done = j.done /\ k.reqs = j.reqs
          /\ k.up = j.up /\ k.reading = j.reading /\ k.ref = j.ref /\ k.handle = j.handle
      BY <2>3 DEF ConnRecs
    <2> HIDE DEF k, q
    <2>5. CASE TornDown(j)
      <3>1. TornDown(k)
        BY <2>4, <2>5 DEF TornDown
      <3>2. ConnOk(q) /\ ~q.ref
        BY <2>2, <3>1 DEF ConnOk, TornDown
      <3> QED
        BY <1>1, <3>2, StoreKeeps, Zenon
    <2>6. CASE j = o
      <3>1. Open(k)
        BY <1>6, <1>7, <2>4, <2>6 DEF Open
      <3>2. Wire(k)
        <4>1. HsUnits \in Nat /\ HsUnits # 0 /\ Len(TcpData) \in Nat
          BY TcpAssumption
        <4>2. Len(PeerStream(k)) \in Nat
          BY <4>1, StreamIs
        <4>3. /\ k.buf = << >> /\ k.consumed = 0 /\ k.pos = 0 /\ k.hs = 0 /\ ~k.done /\ k.got = << >>
              /\ Len(k.buf) = 0 /\ Len(k.got) = 0
          BY <1>6, <1>7, <2>4, <2>6
        <4>4. PICK h \in Nat, l \in Nat : h = HsUnits /\ l = Len(PeerStream(k)) /\ h # 0
          BY <4>1, <4>2
        <4>5. 0 <= h /\ 0 <= l
          OBVIOUS
        <4>6. k.pos <= Len(PeerStream(k)) /\ Len(k.buf) <= k.pos /\ k.consumed <= Len(k.buf)
          BY <4>3, <4>4, <4>5
        <4>7. k.hs <= HsUnits /\ k.hs # HsUnits
          BY <4>3, <4>4, <4>5
        <4>8. k.pos - Len(k.buf) + k.consumed = k.hs + Len(k.got)
          <5>1. k.pos = 0 /\ Len(k.buf) = 0 /\ k.consumed = 0 /\ k.hs = 0 /\ Len(k.got) = 0
            BY <4>3, Zenon
          <5>2. 0 - 0 + 0 = 0 + 0
            OBVIOUS
          <5> QED
            BY <5>1, <5>2, Zenon
        <4>9. \A x \in 1 .. Len(k.buf) : FALSE
          BY <4>3
        <4> QED
          BY <4>3, <4>6, <4>7, <4>8, <4>9 DEF Wire
      <3>3. Established(k)
        BY <1>6, <2>4, <2>6 DEF Established, Range
      <3>4. Here(k)
        BY <2>4, <3>1, <3>2, <3>3 DEF Here
      <3>5. ConnOk(q) /\ (q.ref => lsn.st = "open" /\ lsn.tls)
        BY <1>1, <1>6, <2>2, <2>4, <2>6, <3>4 DEF ConnOk, v
      <3> QED
        BY <1>1, <3>5, StoreKeeps, Zenon
    <2> QED
      BY <2>1, <2>5, <2>6
  <1> QED
    BY <1>9, <1>10

LEMMA ListenerKeeps ==
    ASSUME TcpInv, (\E t \in Transports, ok \in BOOLEAN : TcpListen(t, ok)) \/ TcpCloseListener \/ TcpListenerCloseCb
    PROVE  TcpInv'
  <1>1. conn' = conn /\ Users' = Users
    BY DEF TcpListen, TcpCloseListener, TcpListenerCloseCb, Users
  <1>2. Cardinality(Users) \in Nat
    <2>1. Users \subseteq Conns
      BY DEF Users
    <2> QED
      BY <2>1, TcpAssumption, FS_Subset, FS_CardinalityType
  <1>3. /\ lsn \in [st : {"none", "open", "closing", "closed"}, tls : BOOLEAN, handle : BOOLEAN]
        /\ tls_ctx \in [st : {"none", "live", "freed"}, refs : Nat]
        /\ tls_ctx.refs = Cardinality(Users) + Own
        /\ (tls_ctx.st = "live" <=> tls_ctx.refs > 0)
        /\ lsn.st = "none" => tls_ctx.refs = 0
        /\ conn = [x \in Conns |-> conn[x]] /\ \A x \in Conns : ConnOk(conn[x])
    BY DEF TcpInv, CtxOk
  <1>4. /\ conn' = [x \in Conns |-> conn'[x]] /\ \A x \in Conns : ConnOk(conn'[x])
    BY <1>1, <1>3
  <1>5. CASE \E t \in Transports, ok \in BOOLEAN : TcpListen(t, ok)
    <2>1. PICK t \in Transports, ok \in BOOLEAN : TcpListen(t, ok)
      BY <1>5
    <2>2. PICK tls \in BOOLEAN :
             /\ lsn.st = "none"
             /\ lsn' = [st |-> IF ok THEN "open" ELSE "closing", tls |-> tls, handle |-> ok]
             /\ tls_ctx' = IF tls THEN [st |-> "live", refs |-> 1] ELSE tls_ctx
      <3>1. (t = "tls") \in BOOLEAN
        BY Zenon
      <3> QED
        BY <2>1, <3>1, Zenon DEF TcpListen
    <2>3. Own = 0 /\ Cardinality(Users) = 0 /\ tls_ctx.refs = 0
      BY <1>2, <1>3, <2>2 DEF Own
    <2>4. /\ lsn' \in [st : {"none", "open", "closing", "closed"}, tls : BOOLEAN, handle : BOOLEAN]
          /\ lsn'.st \in {"open", "closing"} /\ lsn'.tls = tls
      BY <2>2
    <2>5. tls_ctx' \in [st : {"none", "live", "freed"}, refs : Nat] /\ (tls_ctx'.st = "live" <=> tls_ctx'.refs > 0)
      BY <1>3, <2>2
    <2>6. Own' = (IF tls THEN 1 ELSE 0)
      BY <2>4 DEF Own
    <2>7. tls_ctx'.refs = Cardinality(Users') + Own'
      BY <1>1, <2>2, <2>3, <2>6
    <2> QED
      BY <1>4, <2>4, <2>5, <2>7 DEF TcpInv, CtxOk
  <1>6. CASE TcpCloseListener
    <2>1. lsn.st = "open" /\ lsn' = [lsn EXCEPT !.st = "closing"] /\ tls_ctx' = tls_ctx
      BY <1>6 DEF TcpCloseListener
    <2>2. /\ lsn' \in [st : {"none", "open", "closing", "closed"}, tls : BOOLEAN, handle : BOOLEAN]
          /\ lsn'.st = "closing" /\ lsn'.tls = lsn.tls
      BY <1>3, <2>1
    <2>3. Own' = Own
      BY <2>1, <2>2 DEF Own
    <2> QED
      BY <1>1, <1>3, <1>4, <2>1, <2>2, <2>3 DEF TcpInv, CtxOk
  <1>7. CASE TcpListenerCloseCb
    <2>1. /\ lsn.st = "closing" /\ lsn' = [lsn EXCEPT !.st = "closed", !.handle = FALSE]
          /\ tls_ctx' = IF lsn.tls THEN Unref(tls_ctx) ELSE tls_ctx
      BY <1>7 DEF TcpListenerCloseCb
    <2>2. /\ lsn' \in [st : {"none", "open", "closing", "closed"}, tls : BOOLEAN, handle : BOOLEAN]
          /\ lsn'.st = "closed" /\ lsn'.tls = lsn.tls
      BY <1>3, <2>1
    <2>3. Own' = 0
      BY <2>2 DEF Own
    <2>4. CASE ~lsn.tls
      <3>1. Own = 0 /\ tls_ctx' = tls_ctx
        BY <2>1, <2>4 DEF Own
      <3> QED
        BY <1>1, <1>3, <1>4, <2>2, <2>3, <3>1 DEF TcpInv, CtxOk
    <2>5. CASE lsn.tls
      <3>1. Own = 1 /\ tls_ctx' = Unref(tls_ctx)
        BY <2>1, <2>5 DEF Own
      <3>2. tls_ctx.refs \in Nat /\ tls_ctx.refs > 0
        BY <1>2, <1>3, <3>1
      <3>3. /\ tls_ctx'.refs = tls_ctx.refs - 1
            /\ tls_ctx'.st = (IF tls_ctx.refs = 1 THEN "freed" ELSE tls_ctx.st)
            /\ tls_ctx' = [st |-> tls_ctx'.st, refs |-> tls_ctx'.refs]
        BY <1>3, <3>1 DEF Unref
      <3>4. tls_ctx' \in [st : {"none", "live", "freed"}, refs : Nat]
        <4>1. tls_ctx'.refs \in Nat /\ tls_ctx'.st \in {"none", "live", "freed"}
          BY <1>3, <3>2, <3>3
        <4> QED
          BY <3>3, <4>1
      <3>5. (tls_ctx'.st = "live" <=> tls_ctx'.refs > 0) /\ tls_ctx'.refs = Cardinality(Users') + Own'
        BY <1>1, <1>2, <1>3, <2>3, <3>1, <3>2, <3>3
      <3> QED
        BY <1>4, <2>2, <3>4, <3>5 DEF TcpInv, CtxOk
    <2> QED
      BY <2>4, <2>5
  <1> QED
    BY <1>5, <1>6, <1>7

LEMMA TcpStart == TcpInit => TcpInv
  <1> SUFFICES ASSUME TcpInit PROVE TcpInv
    OBVIOUS
  <1>1. /\ conn = [c \in Conns |-> FreshConn] /\ lsn = [st |-> "none", tls |-> FALSE, handle |-> FALSE]
        /\ tls_ctx = [st |-> "none", refs |-> 0]
    BY DEF TcpInit
  <1>2. conn = [c \in Conns |-> conn[c]] /\ \A c \in Conns : conn[c] = FreshConn
    BY <1>1
  <1>3. \A c \in Conns : ConnOk(conn[c])
    BY <1>2, Zenon DEF ConnOk
  <1>4. Users = {}
    BY <1>2, FreshIs DEF Users
  <1>5. Cardinality(Users) = 0
    BY <1>4, FS_EmptySet
  <1>6. Own = 0
    BY <1>1 DEF Own
  <1>7. CtxOk
    BY <1>1, <1>5, <1>6 DEF CtxOk
  <1> QED
    BY <1>2, <1>3, <1>7 DEF TcpInv

LEMMA TcpKept == TcpInv /\ [TcpNext]_tcpVars => TcpInv'
  <1> SUFFICES ASSUME TcpInv, [TcpNext]_tcpVars PROVE TcpInv'
    OBVIOUS
  <1>1. CASE UNCHANGED tcpVars
    <2>1. conn' = conn /\ lsn' = lsn /\ tls_ctx' = tls_ctx
      BY <1>1 DEF tcpVars
    <2>2. Users' = Users /\ Own' = Own
      BY <2>1 DEF Users, Own
    <2> QED
      BY <2>1, <2>2 DEF TcpInv, CtxOk
  <1>2. CASE TcpNext
    <2>1. ASSUME NEW c \in Conns,
                 \/ \E t \in Transports, how \in {"ok", "setup", "dns"} : TcpConnect(c, t, how)
                 \/ \E how \in {"ok", "error", "refused"} : TcpDnsCb(c, how)
                 \/ \E ok \in BOOLEAN, at \in {"never", "connect"} : TcpConnectCb(c, ok, at)
                 \/ \E n \in 1..3, at \in Moments : TcpRead(c, n, at)
                 \/ TcpReadEof(c)
                 \/ TcpReadError(c)
                 \/ TcpWrite(c)
                 \/ TcpWriteCb(c)
                 \/ TcpClose(c)
                 \/ TcpCloseCb(c)
                 \/ \E how \in {"ok", "setup"}, at \in {"never", "accept"} : TcpAccept(c, how, at)
          PROVE  TcpInv'
      <3>1. CASE \E t \in Transports, how \in {"ok", "setup", "dns"} : TcpConnect(c, t, how)
        BY <3>1, TcpConnectKeeps, Zenon
      <3>2. CASE \E how \in {"ok", "error", "refused"} : TcpDnsCb(c, how)
        BY <3>2, TcpDnsCbKeeps, Zenon
      <3>3. CASE \E ok \in BOOLEAN, at \in {"never", "connect"} : TcpConnectCb(c, ok, at)
        BY <3>3, TcpConnectCbKeeps, Zenon
      <3>4. CASE \/ \E n \in 1..3, at \in Moments : TcpRead(c, n, at)
                 \/ TcpReadEof(c)
                 \/ TcpReadError(c)
                 \/ TcpClose(c)
        BY <3>4, TcpReadsKeep, Zenon
      <3>5. CASE TcpWrite(c)
        BY <3>5, TcpWriteKeeps, Zenon
      <3>6. CASE TcpWriteCb(c)
        BY <3>6, TcpWriteCbKeeps, Zenon
      <3>7. CASE TcpCloseCb(c)
        BY <3>7, TcpCloseCbKeeps, Zenon
      <3>8. CASE \E how \in {"ok", "setup"}, at \in {"never", "accept"} : TcpAccept(c, how, at)
        BY <3>8, TcpAcceptKeeps, Zenon
      <3> QED
        BY <2>1, <3>1, <3>2, <3>3, <3>4, <3>5, <3>6, <3>7, <3>8, Zenon
    <2> QED
      BY <1>2, <2>1, ListenerKeeps, Zenon DEF TcpNext
  <1> QED
    BY <1>1, <1>2

LEMMA TcpSound == TcpInv => ConnectionsAreSound
  <1> SUFFICES ASSUME TcpInv PROVE ConnectionsAreSound
    OBVIOUS
  <1>1. \A c \in Conns : ConnOk(conn[c])
    BY DEF TcpInv
  <1>2. /\ lsn \in [st : {"none", "open", "closing", "closed"}, tls : BOOLEAN, handle : BOOLEAN]
        /\ tls_ctx \in [st : {"none", "live", "freed"}, refs : Nat]
        /\ tls_ctx.refs = Cardinality(Users) + Own
        /\ (tls_ctx.st = "live" <=> tls_ctx.refs > 0)
    BY DEF TcpInv, CtxOk
  <1>3. ASSUME NEW r, ConnOk(r)
        PROVE  /\ r \in ConnRecs /\ r.consumed <= Len(r.buf) /\ EndsLast(r.told) /\ IsSent(r.got) /\ ~r.dropped
               /\ r.handle => r.life = "live" /\ ~r.freed
               /\ r.life = "freed" => r.reqs \subseteq {"dns"} /\ r.tcp = "none"
    <2>1. CASE r = FreshConn
      <3>1. Len(TcpData) \in Nat /\ Len(<< >>) = 0
        BY TcpAssumption
      <3>2. EndsLast(<< >>) /\ IsSent(<< >>)
        BY <3>1 DEF EndsLast, IsSent
      <3>3. 0 <= 0
        OBVIOUS
      <3> QED
        BY <2>1, <3>1, <3>2, <3>3, FreshIs
    <2>2. CASE Here(r)
      <3>1. r.told \in Seq(Notices) /\ NoEnd(r.told)
        BY <2>2 DEF Here, Open, ConnRecs
      <3>2. EndsLast(r.told)
        BY <3>1 DEF NoEnd, EndsLast
      <3> QED
        BY <2>2, <3>2 DEF Here, Open, Wire
    <2>3. CASE TornDown(r)
      BY <2>3 DEF TornDown
    <2> QED
      BY <1>3, <2>1, <2>2, <2>3 DEF ConnOk
  <1>4. ASSUME NEW c \in Conns
        PROVE  /\ conn[c].life \in {"unused", "live", "freed"} /\ conn[c].tcp \in {"none", "open", "closing"}
               /\ conn[c].reqs \subseteq {"dns", "connect", "write"} /\ conn[c].told \in Seq(Notices)
               /\ conn[c].got \in Seq(Data)
    <2>1. conn[c] \in ConnRecs
      BY <1>1, <1>3, Zenon
    <2> QED
      BY <2>1 DEF ConnRecs
  <1>5. TcpTypeOK
    <2>1. \A c \in Conns : conn[c].consumed <= Len(conn[c].buf)
      BY <1>1, <1>3, Zenon
    <2> QED
      BY <1>2, <1>4, <2>1 DEF TcpTypeOK
  <1>6. EndIsLast
    BY <1>1, <1>3 DEF EndIsLast, EndsLast, Ends
  <1>7. HandleIsLive
    BY <1>1, <1>3, Zenon DEF HandleIsLive
  <1>8. StructOutlivesSocket
    BY <1>1, <1>3, Zenon DEF StructOutlivesSocket
  <1>9. TlsCtxIsHeld
    <2>1. IsFiniteSet(Users) /\ Cardinality(Users) \in Nat /\ (Cardinality(Users) = 0 <=> Users = {})
      <3>1. Users \subseteq Conns
        BY DEF Users
      <3> QED
        BY <3>1, TcpAssumption, FS_Subset, FS_CardinalityType, FS_EmptySet
    <2>2. (Own = 1 /\ lsn.tls /\ lsn.st \in {"open", "closing"}) \/ (Own = 0 /\ ~(lsn.tls /\ lsn.st \in {"open", "closing"}))
      BY DEF Own
    <2>3. (tls_ctx.refs > 0 <=> Users # {} \/ Own = 1)
      BY <1>2, <2>1, <2>2
    <2>4. /\ Users # {} => tls_ctx.st = "live"
          /\ lsn.tls /\ lsn.st \in {"open", "closing"} => tls_ctx.st = "live"
          /\ tls_ctx.st = "live" => Users # {} \/ lsn.st \in {"open", "closing"}
      BY <1>2, <2>2, <2>3
    <2> QED
      BY <2>4, Zenon DEF TlsCtxIsHeld, Users
  <1>10. DataIsPrefix
    <2>1. ASSUME NEW c \in Conns PROVE IsPrefix(conn[c].got, TcpData)
      <3>1. PICK g \in Seq(Data) : g = conn[c].got
        BY <1>4
      <3>2. IsSent(g)
        BY <1>1, <1>3, <3>1, Zenon
      <3>3. TcpData \in Seq(Data) /\ Len(g) \in Nat /\ Len(g) <= Len(TcpData) /\ \A i \in 1 .. Len(g) : g[i] = TcpData[i]
        BY <3>2, TcpAssumption DEF IsSent, Data
      <3>4. PICK l \in Nat : l = Len(g)
        BY <3>3
      <3>5. 1 \in Nat /\ 1 >= 1 /\ l >= 1 - 1 /\ l <= Len(g) /\ l <= Len(TcpData) /\ l - 1 + 1 = l
        BY <3>3, <3>4
      <3>6. SubSeq(g, 1, l) \in Seq(Data) /\ IsStretch(g, 1, l, SubSeq(g, 1, l))
        BY <3>5, Stretch, Zenon
      <3>7. SubSeq(TcpData, 1, l) \in Seq(Data) /\ IsStretch(TcpData, 1, l, SubSeq(TcpData, 1, l))
        BY <3>3, <3>5, Stretch, Zenon
      <3>8. PICK u \in Seq(Data), w \in Seq(Data) : u = SubSeq(g, 1, l) /\ w = SubSeq(TcpData, 1, l)
        BY <3>6, <3>7
      <3>9. Len(u) = l /\ Len(w) = l /\ \A i \in 1 .. l : u[i] = g[1 + i - 1] /\ w[i] = TcpData[1 + i - 1]
        BY <3>5, <3>6, <3>7, <3>8 DEF IsStretch
      <3>10. \A i \in 1 .. l : u[i] = w[i]
        BY <3>3, <3>4, <3>9
      <3>11. u = w
        BY <3>9, <3>10, SeqEqual
      <3> QED
        BY <3>1, <3>3, <3>4, <3>8, <3>11 DEF IsPrefix
    <2> QED
      BY <2>1 DEF DataIsPrefix
  <1>11. WrittenIsTaken
    BY <1>1, <1>3, Zenon DEF WrittenIsTaken
  <1> QED
    BY <1>5, <1>6, <1>7, <1>8, <1>9, <1>10, <1>11 DEF ConnectionsAreSound

(* Of tcp_io.c, for any number of connections, any length of the handshake and *)
(* any data, however reads cut the stream: whatever a script closes from        *)
(* whatever callback, nothing is told after the end, handles, structs and the   *)
(* TLS context live as long as they are needed, the data is a prefix of what    *)
(* the peer sent, and what is written after onconnect is taken by libuv.  That  *)
(* a callback is referenced while it runs and that what was taken is sent are   *)
(* not part of it: the code does not see to it.                                 *)
THEOREM ConnectionsStaySound == TcpSpec => []ConnectionsAreSound
  BY TcpStart, TcpKept, TcpSound, PTL DEF TcpSpec
=============================================================================
