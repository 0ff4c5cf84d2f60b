---------------------------- MODULE MCWebRequest ----------------------------
(* WebRequest for TLC: two reports come while the request is sent, one of them
   with the status that was awaited before. *)
EXTENDS WebRequest

OnTheWay == <<"HANDLE_CREATED", "OTHER">>
=============================================================================
