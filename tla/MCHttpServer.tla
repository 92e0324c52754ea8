----------------------------- MODULE MCHttpServer -----------------------------
(* One connection, every stream of up to four lines, cut in every way.       *)
EXTENDS HttpServer

const_Line == {<<"GET1.1">>, <<"GET1.0">>, <<"GET?">>, <<"none", LF>>,
               <<"close", CR>>, <<"Keep-Alive">>, <<>>}
const_SizeClass == {2, 3, 4, 6, 8, 12, 16}
================================================================================
