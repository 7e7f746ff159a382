----------------------------- MODULE MCATChannel -----------------------------
(***************************************************************************)
(* Two threads share the line: the worker and an HTTP handler.             *)
(***************************************************************************)
EXTENDS ATChannel

CONSTANTS worker_, http

TwoCallers == {worker_, http}
Every == {"error", "timeout", "close"}
OnlyError == {"error"}
=============================================================================
