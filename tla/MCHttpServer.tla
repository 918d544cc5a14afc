---------------------------- MODULE MCHttpServer ----------------------------
(***************************************************************************)
(* A small instance of the web server: a buffer of four bytes, so parts of *)
(* three; a page of one full part, and one of two and a byte.              *)
(***************************************************************************)
EXTENDS HttpServerProps, TLC

Lengths == "part" :> 3 @@ "long" :> 7
SomePages == DOMAIN Lengths

NoParameters == <<>>
Valid == "net" :> 2 @@ "mode" :> 257 @@ "baud" :> 2 @@ "spec" :> 1 @@ "filt" :> 65536
Invalid == "mode" :> 2 @@ "baud" :> 3 @@ "spec" :> 2 @@ "filt" :> 65536
SomeChanges == {NoParameters, Valid, Invalid}
=============================================================================
