------------------------------- MODULE TcpIo -------------------------------
(***************************************************************************)
(* The TCP functions of src/src/tcp_io.c: connections that scripts open     *)
(* with tcpConnect or accept through tcpListen, plain or over TLS; the      *)
(* callbacks that libuv makes and the scripts' own calls from inside them;  *)
(* the TLS context that a listener shares with the connections it accepts.  *)
(*                                                                         *)
(* A connection is a record and each C function that works on one is an     *)
(* operator from record to record.  What the peer sends is a sequence of    *)
(* units: the handshake, data, and the closing alert of TLS.                *)
(***************************************************************************)
EXTENDS Naturals, Sequences, FiniteSets, SequencesExt

CONSTANTS
    Conns,         \* the connections
    Transports,    \* the transports in use: a subset of {"plain", "tls"}
    HsUnits,       \* units of a peer's handshake
    TcpData        \* the data units that a peer sends, in order

ASSUME TcpAssumption ==
    /\ IsFiniteSet(Conns)
    /\ Transports \subseteq {"plain", "tls"}
    /\ HsUnits \in Nat \ {0}
    /\ TcpData \in Seq({"d1", "d2", "d3"})

VARIABLES
    conn,          \* the connections: qz_tcp_client_t and the script's view of it
    lsn,           \* the listener: qz_tcp_listener_t
    tls_ctx        \* qz_tls_server_ctx_t of the listener

tcpVars == <<conn, lsn, tls_ctx>>

FreshConn ==
    [life |-> "unused",      \* the struct: "unused", "live" or "freed"
     role |-> "client", tls |-> FALSE,
     tcp |-> "none",         \* the handle: "none", "open", "closing"
     closed |-> FALSE, freed |-> FALSE,
     reqs |-> {},            \* libuv requests that will call back
     reading |-> FALSE,
     handle |-> FALSE,       \* the wrapper of the JS handle points to the struct
     cbs |-> FALSE,          \* the struct holds JS callbacks
     ref |-> FALSE,          \* the struct counts in tls_ctx.refs
     up |-> FALSE,           \* the connection is established
     pos |-> 0,              \* units that the peer has delivered
     buf |-> << >>, consumed |-> 0, hs |-> 0, done |-> FALSE,
     told |-> << >>,         \* history: the callbacks made
     got |-> << >>,          \* history: the data handed to ondata
     dropped |-> FALSE,      \* history: a write after onconnect was not taken
     cut |-> FALSE]          \* history: a callback was released while it ran

TcpInit ==
    /\ conn = [c \in Conns |-> FreshConn]
    /\ lsn = [st |-> "none", tls |-> FALSE, handle |-> FALSE]
    /\ tls_ctx = [st |-> "none", refs |-> 0]

-----------------------------------------------------------------------------
(* Teardown *)

TcpTell(r, what) == IF r.cbs THEN [r EXCEPT !.told = Append(@, what)] ELSE r

(* tcp_client_free: without a socket the struct goes at once, otherwise when   *)
(* the close is done.                                                         *)
TcpClientFree(r) ==
    IF r.freed THEN r
    ELSE [r EXCEPT !.freed = TRUE, !.closed = TRUE, !.handle = FALSE, !.cbs = FALSE,
                   !.ref = FALSE, !.reading = FALSE, !.buf = << >>, !.consumed = 0,
                   !.tcp = IF @ = "open" THEN "closing" ELSE @,
                   !.life = IF r.tcp = "open" THEN @ ELSE "freed"]

(* tcp_error *)
TcpError(r) ==
    IF r.closed THEN r ELSE TcpClientFree([TcpTell(r, "error") EXCEPT !.closed = TRUE])

(* The end of the stream, and tcpClose: onclose is called once. *)
TcpClosed(r) ==
    TcpClientFree(IF r.closed THEN r ELSE [TcpTell(r, "close") EXCEPT !.closed = TRUE])

(* js_pal_tcp_close, which finds a detached handle or a closed connection.     *)
JsClose(r) == IF r.handle /\ ~r.closed THEN TcpClosed(r) ELSE r

(* The same from ondata or onconnect.  tcp_client_free gives up the references to   *)
(* the callbacks, and JS_Call was given none of its own to the one that runs.       *)
CloseInside(r) ==
    IF r.handle /\ ~r.closed THEN TcpClosed([r EXCEPT !.cut = r.cbs]) ELSE r

(* A callback in which the script may close the connection. *)
Callback(r, what, closes) ==
    IF closes THEN CloseInside(TcpTell(r, what)) ELSE TcpTell(r, what)

-----------------------------------------------------------------------------
(* Reading *)

PeerStream(r) ==
    IF r.tls THEN [i \in 1..HsUnits |-> "hs"] \o TcpData \o <<"bye">> ELSE TcpData

Unread(r) == SubSeq(r.buf, r.consumed + 1, Len(r.buf))

(* mbedtls_ssl_handshake takes from the buffer, through tls_recv_cb, as much   *)
(* of the handshake as there is.                                              *)
Handshake(r) ==
    LET n == Min({HsUnits - r.hs, Len(Unread(r))})
    IN  [r EXCEPT !.hs = @ + n, !.consumed = @ + n, !.done = r.hs + n = HsUnits]

(* The script hears of each unit of data. *)
Hear(r, data) ==
    IF r.cbs THEN [r EXCEPT !.got = @ \o data, !.told = @ \o [i \in DOMAIN data |-> "data"]]
    ELSE r

(* mbedtls_ssl_read in tcp_read_cb, unit by unit to the closing alert or the   *)
(* end of the buffer; the script may close the connection when it gets the     *)
(* unit "at".                                                                 *)
SslRead(r, at) ==
    LET units == Unread(r)
        ends == {i \in DOMAIN units : units[i] = "bye" \/ (r.handle /\ units[i] = at)}
        n == IF ends = {} THEN Len(units) ELSE Min(ends)
        data == SubSeq(units, 1, IF n > 0 /\ units[n] = "bye" THEN n - 1 ELSE n)
        s == Hear([r EXCEPT !.consumed = @ + n], data)
    IN  IF ends = {} THEN s
        ELSE IF units[n] = "bye" THEN TcpClosed(s) ELSE CloseInside(s)

(* The end of tcp_read_cb moves what is left to the front of the buffer. *)
Compact(r) == IF r.closed THEN r ELSE [r EXCEPT !.buf = Unread(r), !.consumed = 0]

(* The TLS part of tcp_read_cb, after the bytes read were appended; a client  *)
(* is told of its connection when the handshake is done.                      *)
TlsReadCb(r, at) ==
    LET h == IF r.done THEN r ELSE Handshake(r)
        o == IF h.done /\ ~r.done /\ r.role = "client"
             THEN Callback(h, "connect", at = "connect") ELSE h
    IN  IF ~h.done THEN h
        ELSE IF o.closed THEN o
        ELSE Compact(SslRead(o, at))

(* tcp_read_cb with the next n units of the stream *)
TcpReadCb(r, n, at) ==
    LET new == SubSeq(PeerStream(r), r.pos + 1, r.pos + n)
        s == [r EXCEPT !.pos = @ + n]
    IN  IF r.tls THEN TlsReadCb([s EXCEPT !.buf = @ \o new], at)
        ELSE Callback([s EXCEPT !.got = IF r.cbs THEN @ \o new ELSE @], "data", at \in ToSet(new))

-----------------------------------------------------------------------------
(* What libuv and the scripts do *)

Ref(x) == [x EXCEPT !.refs = @ + 1]

(* tls_server_ctx_unref *)
Unref(x) ==
    [x EXCEPT !.refs = @ - 1, !.st = IF x.refs = 1 THEN "freed" ELSE @]

Store(c, r) ==
    /\ conn' = [conn EXCEPT ![c] = r]
    /\ tls_ctx' = IF conn[c].ref /\ ~r.ref THEN Unref(tls_ctx)
                  ELSE IF ~conn[c].ref /\ r.ref THEN Ref(tls_ctx)
                  ELSE tls_ctx

Moments == {"never", "connect", "accept"} \cup Range(TcpData)

(* js_pal_tcp_connect: "ok" starts the name resolution, "setup" fails in the   *)
(* TLS setup or in uv_tcp_init, "dns" in uv_getaddrinfo.                       *)
TcpConnect(c, transport, how) ==
    LET s == [FreshConn EXCEPT !.life = "live", !.tls = transport = "tls",
                               !.handle = TRUE, !.cbs = TRUE]
        i == [s EXCEPT !.tcp = "open"]
    IN  /\ conn[c].life = "unused"
        /\ Store(c, CASE how = "ok"    -> [i EXCEPT !.reqs = {"dns"}]
                      [] how = "setup" -> TcpClientFree(s)
                      [] how = "dns"   -> TcpClientFree(TcpError(i)))
        /\ UNCHANGED lsn

(* tcp_dns_cb: "ok" connects, "error" reports the failure and "refused" is a   *)
(* connect that uv_tcp_connect rejects, of which nobody is told.              *)
TcpDnsCb(c, how) ==
    LET r == [conn[c] EXCEPT !.reqs = @ \ {"dns"}]
    IN  /\ "dns" \in conn[c].reqs
        /\ Store(c, IF r.freed THEN r
                    ELSE CASE how = "ok"      -> [r EXCEPT !.reqs = @ \cup {"connect"}]
                           [] how = "error"   -> TcpError(r)
                           [] how = "refused" -> r)
        /\ UNCHANGED lsn

(* tcp_connect_cb; uv_read_start fails on a handle that is closing. *)
TcpConnectCb(c, ok, at) ==
    LET r == [conn[c] EXCEPT !.reqs = @ \ {"connect"}, !.up = ok]
        o == IF r.tls THEN r ELSE Callback(r, "connect", at = "connect")
    IN  /\ "connect" \in conn[c].reqs
        /\ ok => conn[c].tcp = "open"       \* a closing handle cancels it
        /\ Store(c, IF r.freed THEN r
                    ELSE IF ~ok THEN TcpError(r)
                    ELSE IF o.tcp = "open" THEN [o EXCEPT !.reading = TRUE]
                    ELSE TcpError(o))
        /\ UNCHANGED lsn

(* tcp_read_cb: n units, the end of the stream, or an error *)
TcpRead(c, n, at) ==
    /\ conn[c].reading
    /\ conn[c].pos + n <= Len(PeerStream(conn[c]))
    /\ Store(c, TcpReadCb(conn[c], n, at))
    /\ UNCHANGED lsn

TcpReadEof(c) ==
    /\ conn[c].reading
    /\ Store(c, TcpClosed(conn[c]))
    /\ UNCHANGED lsn

(* A failed read, or a handshake that the peer spoils *)
TcpReadError(c) ==
    /\ conn[c].reading
    /\ Store(c, TcpError(conn[c]))
    /\ UNCHANGED lsn

(* js_pal_tcp_write: a plain write needs a socket, one over TLS a handshake    *)
(* that is done; other data is dropped without a word.                        *)
TcpWrite(c) ==
    LET r == conn[c]
        takes == IF r.tls THEN r.done ELSE "connect" \in r.reqs \/ r.up
    IN  /\ r.handle /\ ~r.closed /\ r.tcp = "open" /\ "write" \notin r.reqs
        /\ Store(c, IF takes THEN [r EXCEPT !.reqs = @ \cup {"write"}]
                    ELSE [r EXCEPT !.dropped = @ \/ "connect" \in Range(r.told)])
        /\ UNCHANGED lsn

(* tcp_write_cb and tls_write_cb do the same whatever the status says: sent, or    *)
(* failed because the peer is gone, or cancelled because the handle is closing.    *)
TcpWriteCb(c) ==
    /\ "write" \in conn[c].reqs
    /\ Store(c, [conn[c] EXCEPT !.reqs = @ \ {"write"}])
    /\ UNCHANGED lsn

(* js_pal_tcp_close outside of the callbacks *)
TcpClose(c) ==
    /\ conn[c].handle /\ ~conn[c].closed
    /\ Store(c, JsClose(conn[c]))
    /\ UNCHANGED lsn

(* Faulty variant: the struct is freed with its requests still to call back. *)
HastyTcpCloseCb(c) ==
    /\ conn[c].tcp = "closing" /\ conn[c].life = "live"
    /\ Store(c, [conn[c] EXCEPT !.life = "freed", !.tcp = "none"])
    /\ UNCHANGED lsn

(* tcp_close_cb, which libuv calls after the callbacks of the handle's own     *)
(* requests; the name resolution is not one of them.                          *)
TcpCloseCb(c) ==
    /\ conn[c].tcp = "closing" /\ conn[c].life = "live"
    /\ conn[c].reqs \subseteq {"dns"}
    /\ Store(c, [conn[c] EXCEPT !.life = "freed", !.tcp = "none"])
    /\ UNCHANGED lsn

-----------------------------------------------------------------------------
(* The listener *)

(* js_pal_tcp_listen: the TLS context may fail to build, the port to bind.     *)
TcpListen(transport, ok) ==
    LET tls == transport = "tls"
    IN  /\ lsn.st = "none"
        /\ lsn' = [st |-> IF ok THEN "open" ELSE "closing", tls |-> tls, handle |-> ok]
        /\ tls_ctx' = IF tls THEN [st |-> "live", refs |-> 1] ELSE tls_ctx
        /\ UNCHANGED conn

(* tcp_listen_on_connection: "setup" is a failure before the script sees the   *)
(* connection; its callbacks are read from the handle after onconnection.      *)
TcpAccept(c, how, at) ==
    LET s == [FreshConn EXCEPT !.life = "live", !.role = "server", !.tls = lsn.tls,
                               !.tcp = "open", !.up = TRUE, !.ref = lsn.tls]
        o == [s EXCEPT !.handle = TRUE, !.reading = TRUE]
        j == IF at = "accept" THEN JsClose(o) ELSE o
    IN  /\ conn[c].life = "unused"
        /\ lsn.st = "open"
        /\ Store(c, IF how = "setup" THEN TcpClientFree(s)
                    ELSE [j EXCEPT !.cbs = TRUE])
        /\ UNCHANGED lsn

(* js_pal_tcp_close_listener *)
TcpCloseListener ==
    /\ lsn.handle /\ lsn.st = "open"
    /\ lsn' = [lsn EXCEPT !.st = "closing"]
    /\ UNCHANGED <<conn, tls_ctx>>

(* tcp_listener_close_cb *)
TcpListenerCloseCb ==
    /\ lsn.st = "closing"
    /\ lsn' = [lsn EXCEPT !.st = "closed", !.handle = FALSE]
    /\ tls_ctx' = IF lsn.tls THEN Unref(tls_ctx) ELSE tls_ctx
    /\ UNCHANGED conn

TcpNext ==
    \/ \E c \in Conns :
          \/ \E t \in Transports, how \in {"ok", "setup", "dns"} : TcpConnect(c, t, how)
          \/ \E how \in {"ok", "error", "refused"} : TcpDnsCb(c, how)
          \/ \E ok \in BOOLEAN, at \in {"never", "connect"} : TcpConnectCb(c, ok, at)
          \/ \E n \in 1..3, at \in Moments : TcpRead(c, n, at)
          \/ TcpReadEof(c)
          \/ TcpReadError(c)
          \/ TcpWrite(c)
          \/ TcpWriteCb(c)
          \/ TcpClose(c)
          \/ TcpCloseCb(c)
          \/ \E how \in {"ok", "setup"}, at \in {"never", "accept"} : TcpAccept(c, how, at)
    \/ \E t \in Transports, ok \in BOOLEAN : TcpListen(t, ok)
    \/ TcpCloseListener
    \/ TcpListenerCloseCb

TcpSpec == TcpInit /\ [][TcpNext]_tcpVars

(* libuv makes the callbacks of the requests it took and of the handles it     *)
(* closes.                                                                    *)
TcpFairness ==
    \A c \in Conns :
        /\ WF_tcpVars(\E how \in {"ok", "error", "refused"} : TcpDnsCb(c, how))
        /\ WF_tcpVars(\E ok \in BOOLEAN, at \in {"never", "connect"} : TcpConnectCb(c, ok, at))
        /\ WF_tcpVars(TcpWriteCb(c))
        /\ WF_tcpVars(TcpCloseCb(c))

-----------------------------------------------------------------------------
(* Properties *)

Notices == {"connect", "data", "error", "close"}

(* The fields of a connection, the listener and the TLS context have their     *)
(* types, and the read offset stays inside of the buffer.                      *)
TcpTypeOK ==
    /\ \A c \in Conns :
          LET r == conn[c]
          IN  /\ r.life \in {"unused", "live", "freed"}
              /\ r.tcp \in {"none", "open", "closing"}
              /\ r.reqs \subseteq {"dns", "connect", "write"}
              /\ r.told \in Seq(Notices)
              /\ r.consumed <= Len(r.buf)
    /\ lsn.st \in {"none", "open", "closing", "closed"}
    /\ tls_ctx.st \in {"none", "live", "freed"} /\ tls_ctx.refs \in Nat

(* A script learns of the end of a connection at most once, by onerror or by   *)
(* onclose, and hears nothing of the connection after that, whichever of its   *)
(* callbacks closed it.                                                       *)
EndIsLast ==
    \A c \in Conns : \A i \in 1..Len(conn[c].told) - 1 :
        conn[c].told[i] \notin {"error", "close"}

(* A JS handle never leads to a connection that has been torn down: a script   *)
(* may keep and use it for ever.                                              *)
HandleIsLive ==
    \A c \in Conns : conn[c].handle => conn[c].life = "live" /\ ~conn[c].freed

(* The struct of a connection outlives the requests of its own socket, and a   *)
(* socket that is open or closing belongs to a struct that exists.             *)
StructOutlivesSocket ==
    \A c \in Conns :
        conn[c].life = "freed" => conn[c].reqs \subseteq {"dns"} /\ conn[c].tcp = "none"

(* The TLS context of a listener lives as long as the listener or a connection *)
(* that it accepted needs it, and no longer.                                  *)
TlsCtxIsHeld ==
    LET users == {c \in Conns : conn[c].ref}
    IN  /\ users # {} => tls_ctx.st = "live"
        /\ lsn.tls /\ lsn.st \in {"open", "closing"} => tls_ctx.st = "live"
        /\ tls_ctx.st = "live" => users # {} \/ lsn.st \in {"open", "closing"}

(* The data that a script receives is what the peer sent, without a gap or a   *)
(* repetition, however the reads cut the stream and the handshake.             *)
DataIsPrefix ==
    \A c \in Conns : IsPrefix(conn[c].got, TcpData)

(* What a script writes after onconnect is handed to libuv, never dropped by   *)
(* js_pal_tcp_write: over TLS onconnect waits for the end of the handshake.    *)
WrittenIsTaken == \A c \in Conns : ~conn[c].dropped

(* Connections whose callbacks may close them: nothing is reported after the *)
(* end, handle, struct and TLS context live as long as something uses them,  *)
(* what is read is a prefix of what was sent, and what is written after the  *)
(* connect is taken by libuv.  Not part of it: that a callback outlives its   *)
(* own run (RunningCallbackHeld) and that what was taken arrives              *)
(* (WrittenIsSent).                                                          *)
ConnectionsAreSound ==
    /\ TcpTypeOK /\ EndIsLast /\ HandleIsLive /\ StructOutlivesSocket /\ TlsCtxIsHeld
    /\ DataIsPrefix /\ WrittenIsTaken

(* A struct that was torn down is freed in the end.                            *)
TornDownGoes == \A c \in Conns : conn[c].freed ~> conn[c].life = "freed"

(* Known not to hold, see the README. *)
(* A connection that was torn down holds no callback of the script.  A script  *)
(* that closes a connection in onconnection breaks it: the callbacks are       *)
(* stored after the struct was torn down, and nothing releases them.           *)
CallbacksReleased == \A c \in Conns : conn[c].freed => ~conn[c].cbs

(* Known not to hold, see the README. *)
(* A callback of a connection is referenced for as long as it runs, as          *)
(* bridge.c demands where it calls into scripts.                                *)
RunningCallbackHeld == \A c \in Conns : ~conn[c].cut

(* Known not to hold, see the README. *)
(* What libuv has taken of a script's writes is sent or fails before the        *)
(* connection is closed: the close cancels what is still queued.               *)
WrittenIsSent ==
    [][\A c \in Conns :
          "write" \in conn[c].reqs /\ "write" \notin conn'[c].reqs => conn[c].tcp = "open"]_tcpVars

(* Known not to hold, see the README. *)
(* The result of a name resolution finds the struct that asked for it: the      *)
(* request is a member of that struct.                                         *)
DnsFindsConn == \A c \in Conns : conn[c].life = "freed" => "dns" \notin conn[c].reqs
=============================================================================
