------------------------------- MODULE HttpOp -------------------------------
(***************************************************************************)
(* The HTTP client of src/src/uv_io.c: the life of its operations, from     *)
(* the request through name resolution, connection, proxy tunnel, TLS,      *)
(* writing and reading to the close callbacks that free them; the registry  *)
(* through which JavaScript and the teardown abort streaming operations.    *)
(*                                                                         *)
(* An operation is a record; each C function that works on one is an        *)
(* operator from record to record, so that an action is the callback that   *)
(* libuv makes.  A response is a header, body units and, if it is chunked,  *)
(* the last chunk; how its bytes are decoded is the subject of HttpText.    *)
(***************************************************************************)
EXTENDS Naturals, Sequences, FiniteSets

CONSTANTS
    Ops,           \* the operations
    NoOp,          \* NULL
    Kinds,         \* the <<mode, scheme>> pairs each operation may have: the mode is
                   \* "plain" or "stream", the scheme "http", "https" or "tunnel"
                   \* (https through a proxy)
    BodyUnits,     \* units of body a response announces
    SyncHandshake, \* TRUE if mbedtls_ssl_handshake may succeed at its first call
    EagerProxy,    \* TRUE if a proxy may answer before the CONNECT is written
    LateAbort,     \* TRUE if JS may abort an operation whose end it was told
    BusyTeardown   \* TRUE if the runtime may be torn down with a live stream

ASSUME HttpAssumption ==
    /\ IsFiniteSet(Ops) /\ NoOp \notin Ops
    /\ Kinds \in [Ops -> SUBSET ({"plain", "stream"} \X {"http", "https", "tunnel"})]
    /\ BodyUnits \in Nat \ {0}
    /\ {SyncHandshake, EagerProxy, LateAbort, BusyTeardown} \subseteq BOOLEAN

VARIABLES
    op,            \* the operations
    http_ops,      \* rt->http_ops, newest first
    active_stream, \* rt->active_stream
    rt             \* "up", "abort" (inside uv_io_http_abort) or "down"

vars == <<op, http_ops, active_stream, rt>>

Handles == {"tcp", "connect_timer", "idle_timer"}
Requests == {"dns", "connect", "write", "connect_write"}
Framings == {"chunked", "length", "eof"}

Fresh ==
    [life |-> "unused", mode |-> "plain", scheme |-> "http",
     reqs |-> {},            \* libuv requests that will call back
     reading |-> "off",      \* the read callback: "off", "tunnel", "hello", "body"
     inits |-> {}, armed |-> {}, closing |-> {}, closes |-> {},
     closes_pending |-> 0, closes_uncounted |-> 0,
     aborted |-> FALSE, tearing_down |-> FALSE, teardown_started |-> FALSE,
     secured |-> FALSE,      \* tls_handshake_done
     sent |-> FALSE,         \* the request was handed to libuv
     framing |-> "none", received |-> 0, last |-> FALSE,
     ends |-> << >>,         \* history: the statuses the consumer was told
     reentered |-> FALSE]    \* history: it aborted inside on_headers or on_data

Init ==
    /\ op = [o \in Ops |-> Fresh]
    /\ http_ops = << >>
    /\ active_stream = NoOp
    /\ rt = "up"

-----------------------------------------------------------------------------
(* Closing and freeing *)

(* The consumer's callback: op->cb or stream_ops.on_end. *)
End(r, status) == [r EXCEPT !.ends = Append(@, status)]

(* Faulty variant: one counter for all closes, as if each were a teardown's. *)
OneCounterCloseHandle(r, h) ==
    [r EXCEPT !.closing = @ \cup {h}, !.closes = @ \cup {h}, !.armed = @ \ {h},
              !.reading = IF h = "tcp" THEN "off" ELSE @,
              !.closes_pending = IF r.tearing_down THEN @ + 1 ELSE @]

(* uv_io_http_close_handle, and what uv_close does to the handle. *)
CloseHandle(r, h) ==
    [r EXCEPT !.closing = @ \cup {h}, !.closes = @ \cup {h}, !.armed = @ \ {h},
              !.reading = IF h = "tcp" THEN "off" ELSE @,
              !.closes_pending = IF r.tearing_down THEN @ + 1 ELSE @,
              !.closes_uncounted = IF r.tearing_down THEN @ ELSE @ + 1]

IsOpen(r, h) == h \in r.inits \ r.closing
CloseIfOpen(r, h) == IF IsOpen(r, h) THEN CloseHandle(r, h) ELSE r

(* uv_io_http_cleanup frees; Unlink is its effect on the registry. *)
Cleanup(r) == [r EXCEPT !.life = "freed"]

(* uv_io_http_finalize *)
Finalize(r) ==
    IF r.closes_pending = 0 /\ r.closes_uncounted = 0 THEN Cleanup(r) ELSE r

(* uv_io_http_close_done *)
CloseDone(r) ==
    IF r.closes_uncounted > 0
    THEN LET u == [r EXCEPT !.closes_uncounted = @ - 1]
         IN  IF u.tearing_down /\ u.closes_uncounted = 0 /\ u.closes_pending = 0
             THEN Cleanup(u) ELSE u
    ELSE IF r.tearing_down
         THEN LET p == [r EXCEPT !.closes_pending = @ - 1]
              IN  IF p.closes_pending = 0 THEN Cleanup(p) ELSE p
         ELSE r

CloseTcpOrFinalize(r) ==
    IF IsOpen(r, "tcp") THEN CloseHandle(r, "tcp") ELSE Finalize(r)

(* uv_io_http_finish_error *)
FinishError(r) ==
    CloseTcpOrFinalize(
        End(CloseIfOpen([r EXCEPT !.tearing_down = TRUE], "connect_timer"), "error"))

(* uv_io_http_finish_success *)
FinishSuccess(r) ==
    CloseIfOpen(
        End(CloseIfOpen([r EXCEPT !.tearing_down = TRUE], "connect_timer"), "ok"), "tcp")

(* uv_io_http_stream_cleanup: before the connection exists the callback of     *)
(* uv_getaddrinfo frees an aborted operation.                                  *)
StreamCleanup(r) ==
    LET t == [r EXCEPT !.teardown_started = TRUE, !.tearing_down = TRUE]
        c == CloseIfOpen(CloseIfOpen(t, "idle_timer"), "connect_timer")
    IN  IF r.teardown_started THEN r
        ELSE IF r.aborted /\ "tcp" \notin r.inits THEN c
        ELSE CloseTcpOrFinalize(c)

(* uv_io_http_stream_finish_error *)
StreamFinishError(r) ==
    LET t == [r EXCEPT !.teardown_started = TRUE, !.tearing_down = TRUE]
    IN  IF r.teardown_started THEN r
        ELSE CloseTcpOrFinalize(End(CloseIfOpen(t, "connect_timer"), "error"))

StreamEnd(r, status) == StreamCleanup(End(r, status))

(* uv_io_http_abort_op.  What the operation has of the response is not kept: nobody *)
(* looks at it any more.                                                           *)
AbortOp(r) ==
    StreamEnd([r EXCEPT !.aborted = TRUE,
                        !.framing = "none", !.received = 0, !.last = FALSE], "cancelled")

-----------------------------------------------------------------------------
(* The shared tail of every callback: a freed operation leaves the registry,   *)
(* and a streaming one whose teardown began is not the active stream any more. *)

Live(o) == op[o].life = "live"

Registered(o) == \E i \in DOMAIN http_ops : http_ops[i] = o

Without(s, i) == [j \in 1 .. Len(s) - 1 |-> IF j < i THEN s[j] ELSE s[j + 1]]

Unlink(o, r) ==
    /\ IF r.life = "freed" /\ Registered(o)
       THEN \E i \in DOMAIN http_ops : http_ops[i] = o /\ http_ops' = Without(http_ops, i)
       ELSE UNCHANGED http_ops
    /\ active_stream' = IF active_stream = o /\ (r.life = "freed" \/ r.teardown_started)
                        THEN NoOp ELSE active_stream

Becomes(o, r) ==
    /\ op' = [op EXCEPT ![o] = r]
    /\ Unlink(o, r)
    /\ UNCHANGED rt

(* libuv calls back while the runtime's loop runs. *)
Called(o) == rt = "up" /\ Live(o)

-----------------------------------------------------------------------------
(* uv_io_http_request and uv_io_http_request_stream *)

(* The URL, the proxy or the submission fails: the consumer is told at once    *)
(* and the operation never reaches the registry.                               *)
RequestFails(o) ==
    /\ rt = "up" /\ op[o].life = "unused"
    /\ op' = [op EXCEPT ![o] = End(Finalize(op[o]), "error")]
    /\ UNCHANGED <<http_ops, active_stream, rt>>

Requested(o, m) ==
    /\ rt = "up" /\ op[o].life = "unused"
    /\ \E s \in {k[2] : k \in {j \in Kinds[o] : j[1] = m}} :
         op' = [op EXCEPT ![o] = [@ EXCEPT !.life = "live", !.mode = m,
                                          !.scheme = s, !.reqs = {"dns"}]]
    /\ UNCHANGED rt

Request(o) == Requested(o, "plain") /\ UNCHANGED <<http_ops, active_stream>>

RequestStream(o) ==
    /\ Requested(o, "stream")
    /\ http_ops' = <<o>> \o http_ops
    /\ active_stream' = o

-----------------------------------------------------------------------------
(* Connecting *)

(* The connection is started and its timer of 30 seconds with it. *)
Connecting(r) ==
    LET Fail(x) == IF r.mode = "stream" THEN StreamFinishError(x) ELSE FinishError(x)
        t == [r EXCEPT !.inits = {"tcp"}]
        c == [t EXCEPT !.reqs = {"connect"}]
        w == [c EXCEPT !.inits = @ \cup {"connect_timer"}]
    IN  {Fail(r),                               \* no address, or uv_tcp_init fails
         Fail(t),                               \* uv_tcp_connect fails
         c,                                     \* uv_timer_init fails
         CloseHandle(w, "connect_timer"),       \* uv_timer_start fails
         [w EXCEPT !.armed = {"connect_timer"}]}

(* uv_io_http_getaddrinfo_cb *)
GetAddrInfo(o) ==
    /\ Called(o) /\ "dns" \in op[o].reqs /\ op[o].mode = "plain"
    /\ \E r \in Connecting([op[o] EXCEPT !.reqs = {}]) : Becomes(o, r)

(* uv_io_http_stream_getaddrinfo_cb: an aborted operation is freed here. *)
StreamGetAddrInfo(o) ==
    /\ Called(o) /\ "dns" \in op[o].reqs /\ op[o].mode = "stream"
    /\ LET r == [op[o] EXCEPT !.reqs = {}]
       IN  IF r.aborted THEN Becomes(o, Finalize(r))
           ELSE \E n \in Connecting(r) : Becomes(o, n)

(* uv_io_http_send_request *)
SendRequest(r) ==
    {FinishError(r)} \cup
    (IF r.scheme = "http"
     THEN {[r EXCEPT !.reqs = @ \cup {"write"}, !.sent = TRUE]}
     ELSE {[r EXCEPT !.sent = TRUE, !.reading = "body",
                     !.inits = IF r.mode = "stream" THEN @ \cup {"idle_timer"} ELSE @,
                     !.armed = IF r.mode = "stream" THEN @ \cup {"idle_timer"} ELSE @]})

(* uv_io_http_start_tls *)
StartTls(r) ==
    {FinishError(r), [r EXCEPT !.reading = "hello"]} \cup
    (IF SyncHandshake
     THEN SendRequest([r EXCEPT !.reading = "off", !.secured = TRUE]) ELSE {})

(* Faulty variant: the cancelled connection reports its failure, too. *)
RepeatedConnectFails(o) ==
    /\ Called(o) /\ "connect" \in op[o].reqs
    /\ LET r == [op[o] EXCEPT !.reqs = @ \ {"connect"}]
       IN  Becomes(o, IF r.aborted THEN r
                      ELSE FinishError([r EXCEPT !.armed = @ \ {"connect_timer"}]))

(* uv_io_http_connect_cb.  A connection that is being closed is cancelled.     *)
ConnectFails(o) ==
    /\ Called(o) /\ "connect" \in op[o].reqs
    /\ LET r == [op[o] EXCEPT !.reqs = @ \ {"connect"}]
       IN  Becomes(o, IF r.aborted \/ r.tearing_down THEN r
                      ELSE FinishError([r EXCEPT !.armed = @ \ {"connect_timer"}]))

Connected(o) ==
    /\ Called(o) /\ "connect" \in op[o].reqs /\ "tcp" \notin op[o].closing
    /\ LET r == [op[o] EXCEPT !.reqs = @ \ {"connect"}, !.armed = @ \ {"connect_timer"}]
       IN  \E n \in CASE r.scheme = "http" -> SendRequest(r)
                      [] r.scheme = "https" -> StartTls(r)
                      [] OTHER -> {FinishError(r),
                                   [r EXCEPT !.reqs = @ \cup {"connect_write"},
                                             !.reading = "tunnel"]} :
             Becomes(o, n)

(* uv_io_http_connect_timer_cb *)
ConnectTimeout(o) ==
    /\ Called(o) /\ "connect_timer" \in op[o].armed
    /\ Becomes(o, IF op[o].aborted THEN op[o]
                  ELSE FinishError([op[o] EXCEPT !.armed = @ \ {"connect_timer"}]))

(* uv_io_http_proxy_connect_read_cb: the tunnel is refused or the proxy ends,  *)
(* or TLS starts in it.                                                        *)
TunnelRead(o) ==
    /\ Called(o) /\ op[o].reading = "tunnel"
    /\ EagerProxy \/ "connect_write" \notin op[o].reqs
    /\ \/ Becomes(o, FinishError(op[o]))
       \/ \E n \in StartTls([op[o] EXCEPT !.reading = "off"]) : Becomes(o, n)

(* uv_io_http_connect_write_cb *)
TunnelWritten(o) ==
    /\ Called(o) /\ "connect_write" \in op[o].reqs
    /\ LET r == [op[o] EXCEPT !.reqs = @ \ {"connect_write"}]
       IN  \/ Becomes(o, IF r.aborted THEN r ELSE FinishError(r))
           \/ "tcp" \notin r.closing /\ Becomes(o, r)

(* tls_handshake_read_cb: when the handshake is complete only the flag is set. *)
HandshakeRead(o) ==
    /\ Called(o) /\ op[o].reading = "hello"
    /\ \/ Becomes(o, FinishError(op[o]))
       \/ Becomes(o, [op[o] EXCEPT !.secured = TRUE])

-----------------------------------------------------------------------------
(* The request is written: uv_io_http_write_cb *)

(* Faulty variant: no idle timer. *)
UntimedWritten(o) ==
    /\ Called(o) /\ "write" \in op[o].reqs
    /\ LET r == [op[o] EXCEPT !.reqs = @ \ {"write"}]
       IN  \/ Becomes(o, IF r.aborted THEN r ELSE FinishError(r))
           \/ /\ "tcp" \notin r.closing
              /\ Becomes(o, [r EXCEPT !.reading = "body"])

Written(o) ==
    /\ Called(o) /\ "write" \in op[o].reqs
    /\ LET r == [op[o] EXCEPT !.reqs = @ \ {"write"}]
           s == r.mode = "stream"
       IN  \/ Becomes(o, IF r.aborted THEN r ELSE FinishError(r))
           \/ /\ "tcp" \notin r.closing
              /\ Becomes(o, [r EXCEPT
                   !.reading = "body",
                   !.inits = IF s THEN @ \cup {"idle_timer"} ELSE @,
                   !.armed = IF s THEN @ \cup {"idle_timer"} ELSE @])

-----------------------------------------------------------------------------
(* The response *)

(* What a read may bring: the rest of the header, some units, the last chunk.  *)
Arrivals(r) ==
    {a \in [framing : Framings, units : 0 .. BodyUnits, last : BOOLEAN] :
        /\ r.framing # "none" => a.framing = r.framing
        /\ r.received + a.units <= BodyUnits
        /\ a.last => a.framing = "chunked"}

Absorb(r, a) == [r EXCEPT !.framing = a.framing, !.received = @ + a.units, !.last = a.last]

(* The last chunk or the announced number of bytes. *)
Complete(r) ==
    \/ r.framing = "chunked" /\ r.last
    \/ r.framing = "length" /\ r.received = BodyUnits

(* uv_io_http_process_data: the body is complete, not yet complete, or cannot    *)
(* be parsed.                                                                   *)
ProcessData(r) ==
    {IF Complete(r) THEN FinishSuccess(r) ELSE r} \cup
    (IF r.framing = "chunked" THEN {FinishError(r)} ELSE {})

(* on_headers and on_data run JS, which may abort the operation there and then:   *)
(* uv_io_http_abort_op tells the end, and bridge_stream_on_end frees the consumer. *)
AbortInside(r) == AbortOp([r EXCEPT !.reentered = TRUE])

(* The operation after the consumer was handed what a read brought. *)
HandedOn(r, a) ==
    {Absorb(r, a)} \cup
    (IF r.framing = "none" \/ a.units > 0 THEN {AbortInside(r)} ELSE {})

(* uv_io_http_stream_process_data.  It does not look at aborted again, so that an  *)
(* operation that was aborted inside may be told its end a second time.            *)
StreamProcessData(r, a) ==
    UNION {{IF Complete(Absorb(r, a)) THEN StreamEnd(x, "ok") ELSE x} \cup
           (IF a.framing = "chunked" THEN {StreamEnd(x, "error")} ELSE {}) :
              x \in HandedOn(r, a)}

(* uv_io_http_read_cb on UV_EOF: a chunked body must be complete, one with a     *)
(* Content-Length need not be.                                                  *)
ReadEof(r) ==
    IF r.framing = "none" \/ (r.framing = "chunked" /\ ~r.last)
    THEN FinishError(r) ELSE FinishSuccess(r)

(* Faulty variant: Content-Length is not looked at when the connection ends. *)
LaxStreamReadEof(r) ==
    StreamEnd(r, IF r.framing = "none" \/ (r.framing = "chunked" /\ ~r.last)
                 THEN "error" ELSE "ok")

(* uv_io_http_stream_read_cb on UV_EOF *)
StreamReadEof(r) ==
    StreamEnd(r, IF r.framing = "eof" \/ Complete(r) THEN "ok" ELSE "error")

Reading(o, m) == Called(o) /\ op[o].reading = "body" /\ op[o].mode = m

(* uv_io_http_read_cb: data, the end of the connection, an error *)
Read(o) ==
    /\ Reading(o, "plain")
    /\ \/ \E a \in Arrivals(op[o]) : \E r \in ProcessData(Absorb(op[o], a)) : Becomes(o, r)
       \/ Becomes(o, ReadEof(op[o]))
       \/ Becomes(o, FinishError(op[o]))

(* uv_io_http_stream_read_cb *)
StreamRead(o) ==
    /\ Reading(o, "stream")
    /\ IF op[o].aborted \/ op[o].teardown_started THEN Becomes(o, op[o])
       ELSE \/ \E a \in Arrivals(op[o]) :
                  \E r \in StreamProcessData(op[o], a) : Becomes(o, r)
            \/ Becomes(o, StreamReadEof(op[o]))
            \/ Becomes(o, StreamEnd(op[o], "error"))

(* tls_read_cb where it differs from Read: after the peer's close_notify, alone   *)
(* or behind data, what has arrived is a success.                               *)
TlsRead(o) ==
    /\ Reading(o, "plain") /\ op[o].scheme # "http"
    /\ Becomes(o, FinishSuccess(op[o]))

(* tls_stream_read_cb where it differs from StreamRead: the same, once there is   *)
(* a header; and a close_notify or an error is reported behind data that the      *)
(* consumer aborted on.                                                           *)
TlsStreamRead(o) ==
    /\ Reading(o, "stream") /\ op[o].scheme # "http"
    /\ ~op[o].aborted /\ ~op[o].teardown_started
    /\ \/ Becomes(o, StreamEnd(op[o], IF op[o].framing = "none" THEN "error" ELSE "ok"))
       \/ \E a \in Arrivals(op[o]), status \in {"ok", "error"} : \E r \in HandedOn(op[o], a) :
             /\ r.reentered /\ ~Complete(Absorb(op[o], a))
             /\ Becomes(o, StreamEnd(r, status))

(* uv_io_http_idle_timer_cb *)
IdleTimeout(o) ==
    /\ Called(o) /\ "idle_timer" \in op[o].armed
    /\ Becomes(o, IF op[o].aborted THEN op[o] ELSE StreamEnd(op[o], "error"))

-----------------------------------------------------------------------------
(* Aborting and closing *)

(* uv_io_http_abort_by_id, from JS: an operation that has left the registry is  *)
(* not found.                                                                   *)
Abort(o) ==
    /\ rt = "up" /\ Registered(o)
    /\ LateAbort \/ op[o].ends = << >>
    /\ Len(op[o].ends) < 2
    /\ Becomes(o, AbortOp(op[o]))

(* uv_io_http_close_cb, uv_io_http_timer_close_cb, uv_io_http_stream_close_cb.   *)
(* libuv cancels the requests of a connection before it calls back.              *)
Closed(o, h) ==
    /\ Called(o) /\ h \in op[o].closes
    /\ h = "tcp" => op[o].reqs = {}
    /\ Becomes(o, CloseDone([op[o] EXCEPT !.closes = @ \ {h}]))

(* Step 1.5 of qz_thread_teardown: with an active stream, uv_io_http_abort      *)
(* aborts the head of the registry until the registry is empty.                 *)
Teardown ==
    /\ rt = "up"
    /\ BusyTeardown \/ \A o \in Ops : Live(o) => op[o].mode = "plain"
    /\ rt' = IF active_stream = NoOp THEN "down" ELSE "abort"
    /\ UNCHANGED <<op, http_ops, active_stream>>

TeardownAbort ==
    /\ rt = "abort"
    /\ IF http_ops = << >>
       THEN rt' = "down" /\ UNCHANGED <<op, http_ops, active_stream>>
       ELSE LET o == Head(http_ops)
                r == AbortOp(op[o])
            IN  /\ Len(op[o].ends) < 2
                /\ op' = [op EXCEPT ![o] = r] /\ Unlink(o, r) /\ UNCHANGED rt

Step(o) ==
    \/ GetAddrInfo(o) \/ StreamGetAddrInfo(o) \/ ConnectFails(o) \/ Connected(o)
    \/ ConnectTimeout(o) \/ TunnelRead(o) \/ TunnelWritten(o) \/ HandshakeRead(o)
    \/ Written(o) \/ Read(o) \/ StreamRead(o) \/ TlsRead(o) \/ TlsStreamRead(o)
    \/ IdleTimeout(o)
    \/ \E h \in Handles : Closed(o, h)

Next ==
    \/ \E o \in Ops : RequestFails(o) \/ Request(o) \/ RequestStream(o) \/ Step(o) \/ Abort(o)
    \/ Teardown

Spec == Init /\ [][Next]_vars

(* The specification with the loop of the teardown. *)
BusyNext == Next \/ TeardownAbort
BusySpec == Init /\ [][BusyNext]_vars

(* The resolver answers, the kernel connects or the timer of 30 s fires, writes  *)
(* complete, the idle timer fires, closed handles call back.  Nothing is assumed *)
(* of the peer.                                                                  *)
Progress(o) ==
    \/ GetAddrInfo(o) \/ StreamGetAddrInfo(o) \/ ConnectFails(o) \/ Connected(o)
    \/ Written(o) \/ TunnelWritten(o) \/ IdleTimeout(o)
    \/ \E h \in Handles : Closed(o, h)

Fairness == \A o \in Ops : WF_vars(Progress(o))

LiveSpec == Spec /\ Fairness
-----------------------------------------------------------------------------
TypeOK ==
    /\ \A o \in Ops :
         /\ op[o].life \in {"unused", "live", "freed"}
         /\ op[o].mode \in {"plain", "stream"} /\ op[o].scheme \in {"http", "https", "tunnel"}
         /\ op[o].reqs \subseteq Requests
         /\ op[o].reading \in {"off", "tunnel", "hello", "body"}
         /\ op[o].closes \subseteq op[o].closing /\ op[o].closing \subseteq op[o].inits
         /\ op[o].inits \subseteq Handles /\ op[o].armed \subseteq op[o].inits \ {"tcp"}
         /\ op[o].closes_pending \in 0 .. 3 /\ op[o].closes_uncounted \in 0 .. 1
         /\ op[o].framing \in Framings \cup {"none"} /\ op[o].received \in 0 .. BodyUnits
         /\ op[o].ends \in Seq({"ok", "error", "cancelled"}) /\ Len(op[o].ends) <= 2
         /\ op[o].reentered \in BOOLEAN
    /\ http_ops \in Seq(Ops)
    /\ \A i, j \in DOMAIN http_ops : http_ops[i] = http_ops[j] => i = j
    /\ active_stream \in Ops \cup {NoOp}
    /\ rt \in {"up", "abort", "down"}

(* When an operation is freed, libuv has nothing left that would call back with *)
(* it (a request, a timer, a read, a handle in its closing queue) and neither    *)
(* the registry nor active_stream names it: the reference counts of              *)
(* uv_io_http_close_handle and uv_io_http_close_done are right.                  *)
FreedIsUnreferenced ==
    \A o \in Ops : op[o].life = "freed" =>
        /\ op[o].reqs = {} /\ op[o].armed = {} /\ op[o].reading = "off"
        /\ op[o].closes = {} /\ op[o].inits \subseteq op[o].closing
        /\ active_stream # o /\ ~Registered(o)

(* No operation is lost: one whose teardown has begun is freed once libuv has    *)
(* made its last callback for it.                                               *)
TornDownIsFreed ==
    \A o \in Ops : op[o].tearing_down /\ op[o].reqs = {} /\ op[o].closes = {}
                   => op[o].life = "freed"

(* The consumer hears of the end of its request once at most (bridge.c frees its *)
(* callbacks when it does), unless it aborted the request inside a callback of its *)
(* own: then it has heard of the abort, and may hear of one more end.              *)
EndsOnce ==
    \A o \in Ops : Len(op[o].ends) <= 1 \/ (op[o].reentered /\ op[o].ends[1] = "cancelled")

(* A freed operation has told its consumer. *)
FreedIsTold == \A o \in Ops : op[o].life = "freed" => op[o].ends # << >>

(* An operation is freed by the last callback libuv owes it, not before and not *)
(* never, in whatever order its handles close and its requests are cancelled.   *)
FreedByTheLast ==
    /\ TypeOK /\ FreedIsUnreferenced /\ TornDownIsFreed

(* The consumer hears of the end: always before the operation is freed, and     *)
(* never twice although time-out, failure, end of file and abort race, unless it  *)
(* aborted inside a callback.                                                     *)
ToldOnce ==
    /\ EndsOnce /\ FreedIsTold

(* Known not to hold, see the README. *)
(* Of bridge.c ("uv_io guarantees on_end fires exactly once per op"): a consumer is *)
(* told the end once at most.  The second call uses the consumer freed by the first. *)
NeverToldTwice == \A o \in Ops : Len(op[o].ends) <= 1

(* A streamed response over plain HTTP that is reported as complete is complete: *)
(* a connection that ends early is never taken for success.                      *)
SuccessIsComplete ==
    \A o \in Ops : op[o].mode = "stream" /\ op[o].scheme = "http" /\ op[o].ends = <<"ok">>
                   => op[o].framing = "eof" \/ Complete(op[o])

(* A streamed request over plain HTTP comes to an end, whatever the peer does:   *)
(* a silent peer runs into the timer of the connection or the idle timer.        *)
StreamEnds ==
    \A o \in Ops : (Live(o) /\ op[o].mode = "stream" /\ op[o].scheme = "http")
                   ~> (op[o].ends # << >> \/ rt = "down")

(* Known not to hold, see the README. *)
(* Once the TLS session is there the request is sent (or the request ends). *)
SecuredIsSent ==
    \A o \in Ops : op[o].secured ~> (op[o].sent \/ op[o].ends # << >> \/ rt = "down")
=============================================================================
