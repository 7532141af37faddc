---------------------------- MODULE MCHttpSession ----------------------------
(***************************************************************************)
(* A small instance of HttpSession.                                        *)
(***************************************************************************)
EXTENDS HttpSession

M(headers, length, route, fault) ==
    [headers |-> headers, length |-> length, route |-> route, fault |-> fault]

\* With and without headers and body, each outcome of dispatch, each fault.
SomeKinds == {M(0, 0, "none", "none"), M(1, 2, "handler", "none"),
              M(2, 0, "method", "none"), M(0, 1, "handler", "line"),
              M(1, 0, "handler", "header")}
=============================================================================
