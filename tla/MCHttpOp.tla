------------------------------ MODULE MCHttpOp ------------------------------
(* HttpOp for TLC: a plain request, one in a tunnel or an HTTPS stream, beside *)
(* an HTTP stream.                                                             *)
EXTENDS HttpOp

CONSTANTS o1, o2

MCOps == {o1, o2}
MCKinds == [o \in MCOps |->
    IF o = o1 THEN {<<"plain", "http">>, <<"plain", "tunnel">>, <<"stream", "https">>}
              ELSE {<<"stream", "http">>}]
=============================================================================
