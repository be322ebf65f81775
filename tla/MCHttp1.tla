------------------------------- MODULE MCHttp1 -------------------------------
(* Instances of Http1Connection.  Seconds and bytes are scaled down; the   *)
(* order of the limits, interval < read timeout < request limit, is kept.  *)
EXTENDS Http1Connection

(* A short request, one whose headers take several windows, an upload.     *)
MCRequests == {[headers |-> 4, body |-> 0],
               [headers |-> 6, body |-> 0],
               [headers |-> 4, body |-> 5]}
=============================================================================
