-------------------------------- MODULE Server --------------------------------
(***************************************************************************)
(* What an onion holds besides its handlers: the listen points with their  *)
(* names, protocols and descriptors, the connections accepted from them,   *)
(* the sessions and the client data, from onion_new to onion_free, as      *)
(* operators on a record.                                                  *)
(*                                                                         *)
(* Everything that is allocated has a number; made is the last one and     *)
(* gone lists what was freed, in order; loaded are the credentials with    *)
(* certificates.                                                           *)
(***************************************************************************)
EXTENDS Integers, Sequences, SequencesExt, FiniteSets

CONSTANT Null

Text(object) == IF object = Null THEN Null ELSE object.text
Released(s, object) == IF object = Null THEN s ELSE [s EXCEPT !.gone = Append(@, object.id)]
Allocated(s, text) == [id |-> s.made + 1, text |-> text]

\* onion_new: the poller, the sessions, no listen point yet
NewServer ==
  [points |-> <<>>, conns |-> {}, sessions |-> [id |-> 1, text |-> "sessions"], data |-> Null,
   loaded |-> {}, listening |-> FALSE, polled |-> {}, open |-> {}, foreign |-> {}, made |-> 1, gone |-> <<>>]
-----------------------------------------------------------------------------
(* Listen points *)

\* The descriptor of a point that has never listened is the zero of calloc.
NewPoint(s, kind) ==
  [id |-> s.made + 1, text |-> kind, host |-> Null, port |-> Null, fd |-> 0,
   own |-> IF kind = "https" THEN [id |-> s.made + 2, text |-> "credentials"] ELSE Null]
MadePoint(s, kind) == [s EXCEPT !.made = @ + (IF kind = "https" THEN 2 ELSE 1)]

Named(s, i, field, text) ==
  IF text = Null THEN s
  ELSE [s EXCEPT !.points[i][field] = Allocated(s, text), !.made = @ + 1]

\* A protocol that could not be made is refused.
AddListenPoint(s, host, port, kind) ==
  IF kind = Null THEN s
  ELSE LET i == Len(s.points) + 1
           added == [MadePoint(s, kind) EXCEPT !.points = Append(@, NewPoint(s, kind))]
       IN Named(Named(added, i, "host", host), i, "port", port)

SetPort(s, port) ==
  IF s.points = <<>> THEN AddListenPoint(s, Null, port, "http")
  ELSE Named(Released(s, s.points[1].port), 1, "port", port)
SetHostname(s, host) ==
  IF s.points = <<>> THEN AddListenPoint(s, host, Null, "http")
  ELSE Named(Released(s, s.points[1].host), 1, "host", host)

\* What is closed without having been opened here belongs to somebody else.
Close(s, fd) ==
  [s EXCEPT !.open = @ \ {fd}, !.foreign = IF fd >= 0 /\ fd \notin s.open THEN @ \union {fd} ELSE @]
HttpsListenStop(s, i) == [Close(s, s.points[i].fd) EXCEPT !.points[i].fd = -1]
ListenStop(s, i) ==
  IF s.points[i].text = "https" \/ s.points[i].fd >= 0 THEN HttpsListenStop(s, i) ELSE s

FreePoint(s, i) ==
  LET p == s.points[i]
      objects == <<p.own, p.host, p.port, p>>
  IN FoldLeft(Released, ListenStop(s, i), objects)

\* onion_set_certificate: a first listen point that speaks HTTP is replaced by one of
\* HTTPS under the same names; one that speaks something else stays.
Promoted(s) ==
  LET old == s.points[1]
      freed == FreePoint(s, 1)
      new == [MadePoint(freed, "https") EXCEPT !.points[1] = NewPoint(freed, "https")]
  IN Named(Named(new, 1, "port", Text(old.port)), 1, "host", Text(old.host))
\* onion_https_set_certificate_argv: one of the types it knows is loaded into the credentials
\* of the point, whatever gnutls makes of the file.
LoadCertificate(s, type) ==
  IF s.points[1].text = "https" /\ type \in {"CRL", "KEY", "TRUST", "PKCS12"}
    THEN [s EXCEPT !.loaded = @ \union {s.points[1].own.id}] ELSE s
SetCertificate(s, type) ==
  CASE s.points = <<>> -> LoadCertificate(AddListenPoint(s, Null, Null, "https"), type)
    [] s.points # <<>> /\ s.points[1].text = "http" -> LoadCertificate(Promoted(s), type)
    [] OTHER -> LoadCertificate(s, type)
-----------------------------------------------------------------------------
(* onion_listen *)

WithPoint(s) == IF s.points = <<>> THEN AddListenPoint(s, Null, Null, "http") ELSE s

\* The points in bound find an address; the others keep the descriptor they had.  With
\* one that listens all are handed to the poller.
ListenAt(s, bound) ==
  LET Fd(i) == IF i \in bound THEN 10 + i ELSE s.points[i].fd
      opened == [s EXCEPT !.points = [i \in DOMAIN @ |-> [@[i] EXCEPT !.fd = Fd(i)]],
                          !.open = @ \union {Fd(i) : i \in bound}]
  IN IF bound = {} THEN s
     ELSE [opened EXCEPT !.listening = TRUE, !.polled = {Fd(i) : i \in DOMAIN s.points}]
-----------------------------------------------------------------------------
(* Connections: the request onion_request_new makes for one, with its       *)
(* socket and, over HTTPS, its TLS session.                                 *)

NewConnection(s, client, i) ==
  [id |-> s.made + 1, text |-> client, point |-> s.points[i].id, fd |-> 100 + s.made,
   own |-> IF s.points[i].text = "https" THEN [id |-> s.made + 2, text |-> "tls"] ELSE Null]
CloseSocket(s, conn) == IF conn.fd >= 0 THEN Close(s, conn.fd) ELSE s
\* onion_https_close; without TLS there is only the socket.
CloseConnection(s, conn) == CloseSocket(Released(s, conn.own), conn)
FreeConnection(s, conn) ==
  [Released(CloseConnection(s, conn), conn) EXCEPT !.conns = @ \ {conn}]

Accepted(s, client, i) ==
  LET conn == NewConnection(s, client, i)
  IN [MadePoint(s, s.points[i].text) EXCEPT !.conns = @ \union {conn}, !.open = @ \union {conn.fd}]
\* The handshake fails, or accept does: the request is freed with what it still has.
Shaken(s, conn) ==
  IF conn.own = Null THEN s ELSE Released(CloseSocket([s EXCEPT !.open = @ \union {conn.fd}], conn), conn.own)
Refused(s, client, i) ==
  LET conn == NewConnection(s, client, i)
  IN FreeConnection(Shaken(MadePoint(s, s.points[i].text), conn), [conn EXCEPT !.fd = -1, !.own = Null])
-----------------------------------------------------------------------------
(* Client data and sessions *)

\* frees: whether the server is given a function that frees the data
SetClientData(s, frees) ==
  LET new == Released(s, s.data)
  IN IF frees THEN [new EXCEPT !.data = Allocated(s, "data"), !.made = @ + 1] ELSE [new EXCEPT !.data = Null]
SetSessionBackend(s) ==
  [Released(s, s.sessions) EXCEPT !.sessions = Allocated(s, "sessions"), !.made = @ + 1]
-----------------------------------------------------------------------------
(* onion_free *)

StopListening(s) ==
  IF s.listening THEN [FoldLeft(ListenStop, s, [i \in DOMAIN s.points |-> i]) EXCEPT !.listening = FALSE] ELSE s
\* onion_poller_free shuts every slot down that is still in its chain.
FreePoller(s) == FoldLeft(FreeConnection, s, SetToSeq(s.conns))
FreeServer(s) ==
  LET quiet == FreePoller(StopListening(s))
      pointless == FoldLeft(FreePoint, quiet, [i \in DOMAIN s.points |-> i])
  IN [Released(Released(pointless, s.sessions), s.data) EXCEPT !.points = <<>>, !.data = Null]
=============================================================================
