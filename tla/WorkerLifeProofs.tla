-------------------------- MODULE WorkerLifeProofs --------------------------
(***************************************************************************)
(* Proofs about WorkerLife for any number of workers, clients, renewals    *)
(* and failures: the reference counts of the SSL contexts are exact, every *)
(* context in use has a certificate and a key that match, the expiry shown *)
(* is that of the certificate served, and a queued client is lost only     *)
(* for the reasons LostOnlyToDrain names.  The invariant and the steps     *)
(* that change contexts are in WorkerLifeContexts; here are the signals,   *)
(* the clients, and the theorems.                                          *)
(***************************************************************************)
EXTENDS WorkerLifeContexts

(* Signals and errors that change neither contexts nor clients, and the    *)
(* renewal of the files.                                                   *)
LEMMA QuietSteps ==
    ASSUME IInv, TypeOK', UNCHANGED <<tls_enabled, life, tls, listeners, client>>
    PROVE  IInv'
<1>1. Stages'
  BY ZenonT(30) DEF IInv, Stages, Stage, Good
<1>2. QED
  BY <1>1, Quiet

LEMMA SignalsKeep ==
    ASSUME IInv, NEW w \in Workers,
           \/ signal_cb(w)
           \/ accept_error_cb(w)
           \/ signal_reload_cb(w) /\ life'[w] # "reload_key"
           \/ \E sig \in Signals : sig \in handled[w] /\ kill(w, sig)
    PROVE  IInv'
<1>0. TypeOK
  BY DEF IInv
<1>1. CASE signal_cb(w)
  <2>1. TypeOK'
    BY <1>0, <1>1 DEF signal_cb, worker_check_drain, TypeOK, files
  <2>2. QED
    BY <1>1, <2>1, QuietSteps, ZenonT(30) DEF signal_cb
<1>2. CASE accept_error_cb(w)
  <2>1. TypeOK'
    BY <1>0, <1>2, WorkerLifeAssumption DEF accept_error_cb, Fails, TypeOK, files
  <2>2. QED
    BY <1>2, <2>1, QuietSteps DEF accept_error_cb
<1>3. CASE signal_reload_cb(w) /\ life'[w] # "reload_key"
  <2>1. UNCHANGED <<life, tls>> /\ (UNCHANGED failures \/ Fails)
    BY <1>0, <1>3 DEF signal_reload_cb, TypeOK
  <2>2. TypeOK'
    BY <1>0, <1>3, <2>1, WorkerLifeAssumption, SMTT(30)
       DEF signal_reload_cb, Fails, TypeOK, files
  <2>3. QED
    BY <1>3, <2>1, <2>2, QuietSteps, ZenonT(30) DEF signal_reload_cb
<1>4. ASSUME NEW sig \in Signals, sig \in handled[w], kill(w, sig)
      PROVE  IInv'
  <2>1. TypeOK'
    BY <1>0, <1>4, ZenonT(30) DEF kill, TypeOK, files
  <2>2. QED
    BY <1>4, <2>1, QuietSteps, ZenonT(30) DEF kill
<1>5. QED
  BY <1>1, <1>2, <1>3, <1>4

LEMMA RenewalKeeps ==
    ASSUME IInv,
           \/ renewal_starts
           \/ \E v \in {renewal, Unreadable} : cert_written(v) \/ key_written(v)
    PROVE  IInv'
<1>1. TypeOK'
  BY WorkerLifeAssumption
     DEF IInv, TypeOK, renewal_starts, cert_written, key_written, procs, Version
<1>2. QED
  BY <1>1, QuietSteps DEF renewal_starts, cert_written, key_written, procs

(* Clients that come and go without a connection.                          *)
LEMMA ClientsKeep ==
    ASSUME IInv, NEW c \in Clients, NEW w \in Workers,
           \/ \E port \in Ports : connect(c, w, port) \/ connection_refused(c, port)
           \/ accept_turns_away(w, c) \/ accept_fails(w, c)
    PROVE  IInv'
<1>0. TypeOK
  BY DEF IInv
<1>1. \A st \in {"served", "reset", "refused"} :
        Gone(st) \in Client /\ Gone(st).state = st
  BY DEF Gone, Client, Ports
<1>2. ASSUME NEW port \in Ports, connect(c, w, port)
      PROVE  IInv'
  <2>. DEFINE r == [state |-> "queued", worker |-> w, port |-> port, ctx |-> NULL]
  <2>1. r \in Client
    BY DEF Client
  <2>2. client' = [client EXCEPT ![c] = r] /\ port \in listeners[w]
        /\ client[c].state = "new" /\ UNCHANGED <<tls_enabled, files, procs, failures>>
    BY <1>2, SMTT(30) DEF connect
  <2>3. client'[c] = r /\ \A d \in Clients \ {c} : client'[d] = client[d]
    BY <1>0, <2>2 DEF TypeOK
  <2>4. TypeOK'
    BY <1>0, <2>1, <2>2 DEF TypeOK, files, procs
  <2>5. /\ client'[c].state = "queued" /\ client'[c].worker = w
        /\ client'[c].port = port
    BY <2>3, SMTT(30)
  <2>6. UNCHANGED <<tls_enabled, life, tls, listeners>>
    BY <2>2, ZenonT(30) DEF procs
  <2>. HIDE DEF r
  <2>7. client[c].state # "open" /\ client'[c].state # "open"
        /\ (client'[c].port = "tls" => "tls" \in listeners[client'[c].worker])
    BY <2>2, <2>5, ZenonT(30)
  <2>8. QED
    BY <2>3, <2>4, <2>5, <2>6, <2>7, QuietClient, ZenonT(30)
<1>3. ASSUME NEW port \in Ports,
             \/ connection_refused(c, port)
             \/ accept_turns_away(w, c)
             \/ accept_fails(w, c)
      PROVE  IInv'
  <2>1. /\ \E st \in {"served", "reset", "refused"} :
              client' = [client EXCEPT ![c] = Gone(st)]
        /\ client[c].state # "open"
        /\ UNCHANGED <<tls_enabled, files, procs>>
        /\ UNCHANGED failures \/ Fails
    BY <1>3, ZenonT(30)
       DEF connection_refused, accept_turns_away, accept_fails, Accepts
  <2>2. /\ client' \in [Clients -> Client]
        /\ client'[c].state \in {"served", "reset", "refused"}
        /\ \A d \in Clients \ {c} : client'[d] = client[d]
    BY <1>0, <1>1, <2>1 DEF TypeOK
  <2>3. TypeOK'
    BY <1>0, <2>1, <2>2, WorkerLifeAssumption DEF TypeOK, Fails, files, procs
  <2>4. QED
    BY <2>1, <2>2, <2>3, QuietClient, ZenonT(30) DEF procs
<1>4. QED
  BY <1>2, <1>3 DEF Ports

(* A connection is accepted: a TLS one takes a reference to the context.   *)
LEMMA AcceptKeeps ==
    ASSUME IInv, NEW w \in Workers, NEW c \in Clients, accept_cb(w, c)
    PROVE  IInv'
<1>0. /\ TypeOK /\ RefsExact /\ Stage(w) /\ Connection(c) /\ life[w] = "serving"
      /\ client[c].worker = w /\ client[c].state = "queued"
      /\ client[c].port \in Ports /\ client[c] \in Client
  BY DEF IInv, Stages, Connections, accept_cb, Accepts, TypeOK, Client
<1>. DEFINE k0 == IF client[c].port = "tls" THEN tls[w].ctx ELSE NULL
<1>1. /\ client' = [client EXCEPT ![c].state = "open", ![c].ctx = k0]
      /\ UNCHANGED <<tls_enabled, files, life, listeners, handled, usr1, usr2,
                     draining, stopping, failures>>
  BY DEF accept_cb
<1>2. /\ client'[c].state = "open" /\ client'[c].worker = w
      /\ client'[c].port = client[c].port /\ client'[c].ctx = k0
      /\ \A d \in Clients \ {c} : client'[d] = client[d]
  BY <1>0, <1>1 DEF TypeOK, Client
<1>3. client[c].port = "tls" =>
        "tls" \in listeners[w] /\ k0 \in CtxId /\ Good(w, k0) /\ k0 = tls[w].ctx
  BY <1>0, TypeOf, ZenonT(30) DEF Connection, Stage
<1>4. client' \in [Clients -> Client]
  BY <1>0, <1>1, <1>3, ZenonT(30) DEF TypeOK, Client, Ports
<1>5. \A v \in Workers, k \in CtxId :
        Users(v, k)' = IF v = w /\ k = k0 THEN Users(v, k) \cup {c} ELSE Users(v, k)
  BY <1>0, <1>2, SMTT(30) DEF Users, Of
<1>6. CASE client[c].port = "http"
  <2>1. k0 = NULL /\ UNCHANGED tls
    BY <1>6 DEF accept_cb
  <2>2. \A v \in Workers, k \in CtxId : Users(v, k)' = Users(v, k)
    BY <1>5, <2>1, WorkerLifeAssumption, SMTT(30)
  <2>3. TypeOK'
    BY <1>0, <1>1, <1>4, <2>1 DEF TypeOK, files
  <2>4. RefsExact' /\ ExpiryShown'
    BY <2>1, <2>2, SMTT(30) DEF IInv, RefsExact, ExpiryShown
  <2>5. Stages'
    BY <1>1, <2>1, ZenonT(30) DEF IInv, Stages, Stage, Good
  <2>6. Connections'
    <3>1. SUFFICES ASSUME NEW d \in Clients PROVE Connection(d)'
      BY DEF Connections
    <3>2. CASE d = c
      BY <1>2, <1>6, <2>1, <3>2 DEF Connection
    <3>3. CASE d # c
      BY <1>1, <1>2, <2>1, <3>3, ZenonT(30)
         DEF IInv, Connections, Connection, Good
    <3>4. QED
      BY <3>2, <3>3
  <2>7. QED
    BY <2>3, <2>4, <2>5, <2>6 DEF IInv
<1>7. CASE client[c].port = "tls"
  <2>. DEFINE t == tls_create_ssl(tls[w])
  <2>1. k0 \in CtxId /\ Good(w, k0) /\ k0 = tls[w].ctx /\ "tls" \in listeners[w]
    BY <1>3, <1>7, SMTT(30)
  <2>. HIDE DEF k0
  <2>2. tls' = [tls EXCEPT ![w] = t]
    BY <1>7 DEF accept_cb
  <2>3. /\ t.ctx = tls[w].ctx /\ t.new_ctx = tls[w].new_ctx
        /\ t.cert_expiry = tls[w].cert_expiry /\ t \in TLSContext
        /\ t.ctxs[k0].refs = tls[w].ctxs[k0].refs + 1
        /\ \A k \in CtxId : /\ t.ctxs[k].cert = tls[w].ctxs[k].cert
                            /\ t.ctxs[k].key = tls[w].ctxs[k].key
                            /\ k # k0 => t.ctxs[k].refs = tls[w].ctxs[k].refs
    <3>. DEFINE ctxs == SSL_new(tls[w].ctxs, k0)
    <3>1. tls[w].ctxs \in Contexts
      BY <1>0, TypeOf
    <3>2. /\ ctxs \in Contexts
          /\ ctxs[k0].refs = tls[w].ctxs[k0].refs + 1
          /\ \A k \in CtxId : /\ ctxs[k].cert = tls[w].ctxs[k].cert
                              /\ ctxs[k].key = tls[w].ctxs[k].key
                              /\ k # k0 => ctxs[k].refs = tls[w].ctxs[k].refs
      BY <2>1, <3>1, SMTT(30) DEF SSL_new, Contexts
    <3>3. t = [tls[w] EXCEPT !.ctxs = ctxs]
      BY <2>1 DEF tls_create_ssl
    <3>. HIDE DEF ctxs, t
    <3>4. t.ctxs = ctxs /\ t.ctx = tls[w].ctx /\ t.new_ctx = tls[w].new_ctx
          /\ t.cert_expiry = tls[w].cert_expiry /\ t \in TLSContext
      BY <1>0, <3>2, <3>3, TlsTyped, ZenonT(30) DEF TLSContext, Contexts
    <3>5. QED
      BY <3>2, <3>4, SMTT(30)
  <2>. HIDE DEF t
  <2>4. tls'[w] = t /\ \A v \in Workers \ {w} : tls'[v] = tls[v]
    BY <1>0, <2>2 DEF TypeOK
  <2>5. TypeOK'
    BY <1>0, <1>1, <1>4, <2>2, <2>3 DEF TypeOK, files
  <2>6. ASSUME NEW v \in Workers, NEW k \in CtxId
        PROVE  tls'[v].ctxs[k].refs = Cardinality(Users(v, k)')
                                      + (IF tls'[v].ctx = k THEN 1 ELSE 0)
                                      + (IF tls'[v].new_ctx = k THEN 1 ELSE 0)
    <3>1. tls[v].ctxs[k].refs = Cardinality(Users(v, k))
                                + (IF tls[v].ctx = k THEN 1 ELSE 0)
                                + (IF tls[v].new_ctx = k THEN 1 ELSE 0)
      BY <1>0, SMTT(30) DEF RefsExact
    <3>2. CASE v = w /\ k = k0
      <4>1. Users(v, k)' = Users(v, k) \cup {c} /\ c \notin Users(v, k)
        BY <1>0, <1>5, <3>2, SMTT(30) DEF Users, Of
      <4>2. Cardinality(Users(v, k)') = Cardinality(Users(v, k)) + 1
        BY <4>1, UsersCounted, FS_AddElement, ZenonT(30)
      <4>3. Cardinality(Users(v, k)) \in Nat
        BY UsersCounted
      <4>4. QED
        BY <2>3, <2>4, <3>1, <3>2, <4>2, <4>3, SMTT(30)
    <3>3. CASE ~(v = w /\ k = k0)
      <4>1. Users(v, k)' = Users(v, k)
        BY <1>5, <3>3
      <4>2. QED
        BY <2>3, <2>4, <3>1, <3>3, <4>1, ZenonT(30)
    <3>4. QED
      BY <3>2, <3>3, SMTT(30)
  <2>7. RefsExact'
    BY <2>6 DEF RefsExact
  <2>8. ExpiryShown'
    <3>1. ASSUME NEW v \in Workers, tls'[v].cert_expiry # 0
          PROVE  tls'[v].ctx # NULL /\ tls'[v].cert_expiry = tls'[v].ctxs[tls'[v].ctx].cert + 1
      <4>1. tls'[v].ctx \in CtxId \cup {NULL} /\ tls'[v].ctx = tls[v].ctx
            /\ tls'[v].cert_expiry = tls[v].cert_expiry
        BY <1>0, <2>3, <2>4, TypeOf, SMTT(30)
      <4>2. QED
        BY <2>3, <2>4, <3>1, <4>1, SMTT(30) DEF IInv, ExpiryShown
    <3>2. QED
      BY <3>1 DEF ExpiryShown
  <2>9. Stage(w)'
    <3>1. tls[w].ctx \in CtxId /\ tls[w].new_ctx = NULL
      BY <1>0, <2>1, SMTT(30) DEF Stage
    <3>2. tls'[w].ctx = tls[w].ctx /\ tls'[w].new_ctx = NULL
          /\ tls'[w].cert_expiry = tls[w].cert_expiry
      BY <2>3, <2>4, <3>1, ZenonT(30)
    <3>3. /\ tls'[w].ctxs[tls[w].ctx].cert = tls[w].ctxs[tls[w].ctx].cert
          /\ tls'[w].ctxs[tls[w].ctx].key = tls[w].ctxs[tls[w].ctx].key
      BY <2>3, <2>4, <3>1, ZenonT(30)
    <3>4. Good(w, tls[w].ctx) => Good(w, tls[w].ctx)'
      BY <3>2, <3>3 DEF Good
    <3>5. QED
      BY <1>0, <1>1, <3>1, <3>2, <3>3, <3>4 DEF Stage
  <2>10. Stages'
    BY <1>1, <2>4, <2>9, OtherStage DEF IInv, Stages
  <2>11. \A v \in Workers, k \in CtxId : Good(v, k) => Good(v, k)'
    BY <2>3, <2>4, SMTT(30) DEF Good
  <2>12. Connections'
    <3>1. SUFFICES ASSUME NEW d \in Clients PROVE Connection(d)'
      BY DEF Connections
    <3>2. CASE d = c
      BY <1>0, <1>1, <1>2, <1>7, <2>1, <2>11, <3>2, WorkerLifeAssumption DEF Connection
    <3>3. CASE d # c
      <4>1. client'[d] = client[d] /\ Connection(d) /\ client[d].ctx \in CtxId \cup {NULL}
        BY <1>0, <1>2, <3>3, ZenonT(30) DEF IInv, Connections, TypeOK, Client
      <4>2. QED
        BY <1>1, <2>11, <4>1, ZenonT(30) DEF Connection
    <3>4. QED
      BY <3>2, <3>3
  <2>13. QED
    BY <2>5, <2>7, <2>8, <2>10, <2>12 DEF IInv
<1>8. QED
  BY <1>0, <1>6, <1>7, ZenonT(30) DEF Ports

(* A connection ends: a TLS one gives its reference back.                  *)
LEMMA FreeKeeps ==
    ASSUME IInv, NEW w \in Workers, NEW c \in Clients, connection_free(w, c)
    PROVE  IInv'
<1>0. /\ TypeOK /\ RefsExact /\ Stage(w) /\ Connection(c) /\ life[w] = "serving"
      /\ client[c].worker = w /\ client[c].state = "open"
      /\ client[c].port \in Ports
  BY SMTT(30) DEF IInv, Stages, Connections, connection_free, Of, TypeOK, Client
<1>. DEFINE k0 == client[c].ctx
<1>1. /\ client' = [client EXCEPT ![c] = Gone("served")]
      /\ stopping' \in [Workers -> BOOLEAN]
      /\ UNCHANGED <<tls_enabled, files, life, listeners, handled, usr1, usr2,
                     draining, failures>>
  BY <1>0 DEF connection_free, worker_check_drain, TypeOK
<1>2. Gone("served") \in Client /\ Gone("served").state = "served"
  BY DEF Gone, Client, Ports
<1>3. /\ client'[c].state = "served" /\ client' \in [Clients -> Client]
      /\ \A d \in Clients \ {c} : client'[d] = client[d]
  BY <1>0, <1>1, <1>2 DEF TypeOK
<1>4. \A v \in Workers, k \in CtxId :
        Users(v, k)' = IF v = w /\ k = k0 THEN Users(v, k) \ {c} ELSE Users(v, k)
  BY <1>0, <1>3 DEF Users, Of
<1>5. CASE client[c].port = "http"
  <2>1. k0 = NULL /\ UNCHANGED tls
    BY <1>0, <1>5, ZenonT(30) DEF connection_free, Connection
  <2>2. \A v \in Workers, k \in CtxId : Users(v, k)' = Users(v, k)
    BY <1>4, <2>1, WorkerLifeAssumption
  <2>3. TypeOK'
    BY <1>0, <1>1, <1>3, <2>1 DEF TypeOK, files
  <2>4. RefsExact' /\ ExpiryShown'
    BY <2>1, <2>2, SMTT(30) DEF IInv, RefsExact, ExpiryShown
  <2>5. Stages'
    BY <1>1, <2>1, ZenonT(30) DEF IInv, Stages, Stage, Good
  <2>6. Connections'
    BY <1>1, <1>3, <2>1, ZenonT(30) DEF IInv, Connections, Connection, Good
  <2>7. QED
    BY <2>3, <2>4, <2>5, <2>6 DEF IInv
<1>6. CASE client[c].port = "tls"
  <2>. DEFINE t == SSL_free(tls[w], k0)
              ctxs == SSL_CTX_free(tls[w].ctxs, k0)
  <2>1. k0 \in CtxId /\ c \in Users(w, k0)
    BY <1>0, <1>6 DEF Connection, Users, Of, TypeOK, Client
  <2>2. tls' = [tls EXCEPT ![w] = t] /\ t = [tls[w] EXCEPT !.ctxs = ctxs]
    BY <1>6 DEF connection_free, SSL_free
  <2>. HIDE DEF k0, t
  <2>3. tls[w].ctxs \in Contexts /\ tls[w].ctxs[k0].refs > 0
    BY <1>0, <2>1, TypeOf, InUse, ZenonT(30)
  <2>4. /\ ctxs \in Contexts
        /\ ctxs[k0].refs = tls[w].ctxs[k0].refs - 1
        /\ tls[w].ctxs[k0].refs > 1 => /\ ctxs[k0].cert = tls[w].ctxs[k0].cert
                                       /\ ctxs[k0].key = tls[w].ctxs[k0].key
        /\ \A k \in CtxId \ {k0} : ctxs[k] = tls[w].ctxs[k]
    BY <2>1, <2>3, FreeContext, SMTT(30)
  <2>. HIDE DEF ctxs
  <2>5. /\ t.ctx = tls[w].ctx /\ t.new_ctx = tls[w].new_ctx
        /\ t.cert_expiry = tls[w].cert_expiry /\ t.ctxs = ctxs /\ t \in TLSContext
    BY <1>0, <2>2, <2>4, TlsTyped, ZenonT(30) DEF TLSContext, Contexts
  <2>6. tls'[w] = t /\ \A v \in Workers \ {w} : tls'[v] = tls[v]
    BY <1>0, <2>2 DEF TypeOK
  <2>7. TypeOK'
    BY <1>0, <1>1, <1>3, <2>2, <2>5 DEF TypeOK, files
  <2>8. /\ Cardinality(Users(w, k0)) \in Nat /\ Cardinality(Users(w, k0)) > 0
        /\ Cardinality(Users(w, k0) \ {c}) = Cardinality(Users(w, k0)) - 1
    BY <2>1, UsersCounted, FS_EmptySet, FS_RemoveElement
  <2>9. ASSUME NEW v \in Workers, NEW k \in CtxId
        PROVE  tls'[v].ctxs[k].refs = Cardinality(Users(v, k)')
                                      + (IF tls'[v].ctx = k THEN 1 ELSE 0)
                                      + (IF tls'[v].new_ctx = k THEN 1 ELSE 0)
    <3>1. tls[v].ctxs[k].refs = Cardinality(Users(v, k))
                                + (IF tls[v].ctx = k THEN 1 ELSE 0)
                                + (IF tls[v].new_ctx = k THEN 1 ELSE 0)
      BY <1>0, SMTT(30) DEF RefsExact
    <3>2. CASE v = w /\ k = k0
      <4>1. Users(v, k)' = Users(w, k0) \ {c}
        BY <1>4, <3>2
      <4>2. QED
        BY <2>4, <2>5, <2>6, <2>8, <3>1, <3>2, <4>1, SMTT(30)
    <3>3. CASE ~(v = w /\ k = k0)
      <4>1. Users(v, k)' = Users(v, k)
        BY <1>4, <3>3
      <4>2. /\ tls'[v].ctxs[k].refs = tls[v].ctxs[k].refs
            /\ tls'[v].ctx = tls[v].ctx /\ tls'[v].new_ctx = tls[v].new_ctx
        <5>1. CASE v = w
          BY <2>4, <2>5, <2>6, <3>3, <5>1, SMTT(30)
        <5>2. CASE v # w
          BY <2>6, <5>2
        <5>3. QED
          BY <5>1, <5>2
      <4>3. QED
        BY <3>1, <4>1, <4>2, SMTT(30)
    <3>4. QED
      BY <3>2, <3>3, SMTT(30)
  <2>10. RefsExact'
    BY <2>9 DEF RefsExact
  <2>11. ASSUME NEW v \in Workers, NEW k \in CtxId,
                tls[v].ctx = k \/ Users(v, k)' # {}
         PROVE  tls'[v].ctxs[k].cert = tls[v].ctxs[k].cert
                /\ tls'[v].ctxs[k].key = tls[v].ctxs[k].key
    <3>1. CASE v = w /\ k = k0
      <4>1. tls[w].ctxs[k0].refs > 1
        <5>1. CASE tls[w].ctx = k0
          BY <1>0, <2>1, <2>8, <5>1, SMTT(30) DEF RefsExact
        <5>2. CASE Users(w, k0) \ {c} # {}
          <6>1. Cardinality(Users(w, k0) \ {c}) # 0
            BY <5>2, UsersCounted, FS_RemoveElement, FS_EmptySet, ZenonT(30)
          <6>2. QED
            BY <1>0, <2>1, <2>8, <6>1, SMTT(30) DEF RefsExact
        <5>3. QED
          BY <1>4, <2>11, <3>1, <5>1, <5>2, SMTT(30)
      <4>2. QED
        BY <2>4, <2>5, <2>6, <3>1, <4>1, SMTT(30)
    <3>2. CASE ~(v = w /\ k = k0)
      BY <2>4, <2>5, <2>6, <3>2, SMTT(30)
    <3>3. QED
      BY <3>1, <3>2, SMTT(30)
  <2>12. ExpiryShown'
    <3>1. ASSUME NEW v \in Workers, tls'[v].cert_expiry # 0
          PROVE  tls'[v].ctx # NULL /\ tls'[v].cert_expiry = tls'[v].ctxs[tls'[v].ctx].cert + 1
      <4>1. tls'[v].ctx \in CtxId \cup {NULL} /\ tls'[v].ctx = tls[v].ctx
            /\ tls'[v].cert_expiry = tls[v].cert_expiry
        BY <1>0, <2>5, <2>6, TypeOf, SMTT(30)
      <4>2. QED
        BY <2>11, <3>1, <4>1, SMTT(30) DEF IInv, ExpiryShown
    <3>2. QED
      BY <3>1 DEF ExpiryShown
  <2>13. Stage(w)'
    <3>1. tls[w].new_ctx = NULL /\ tls'[w].ctx = tls[w].ctx /\ tls'[w].new_ctx = NULL
      BY <1>0, <2>5, <2>6, ZenonT(30) DEF Stage
    <3>2. ASSUME tls[w].ctx # NULL
          PROVE  Good(w, tls[w].ctx)'
      <4>1. tls[w].ctx \in CtxId
        BY <1>0, <3>2, TypeOf, SMTT(30)
      <4>2. Good(w, tls[w].ctx)
        BY <1>0, <3>2, SMTT(30) DEF Stage
      <4>3. /\ tls'[w].ctxs[tls[w].ctx].cert = tls[w].ctxs[tls[w].ctx].cert
            /\ tls'[w].ctxs[tls[w].ctx].key = tls[w].ctxs[tls[w].ctx].key
        BY <2>11, <4>1, SMTT(30)
      <4>4. QED
        BY <3>1, <4>2, <4>3, ZenonT(30) DEF Good
    <3>3. /\ life'[w] = "serving" /\ life[w] = "serving"
          /\ tls_enabled' = tls_enabled /\ listeners'[w] = listeners[w]
      BY <1>0, <1>1, ZenonT(30)
    <3>4. /\ tls_enabled /\ "serving" \in HasTls <=> tls[w].ctx # NULL
          /\ "tls" \in listeners[w] => tls[w].ctx # NULL
      BY <1>0, <3>3, ZenonT(30) DEF Stage
    <3>5. QED
      BY <3>1, <3>2, <3>3, <3>4, SMTT(30) DEF Stage
  <2>14. Stages'
    BY <1>1, <2>6, <2>13, OtherStage, ZenonT(30) DEF IInv, Stages
  <2>15. Connections'
    <3>1. SUFFICES ASSUME NEW d \in Clients PROVE Connection(d)'
      BY DEF Connections
    <3>2. CASE d = c
      BY <1>3, <3>2 DEF Connection
    <3>3. CASE d # c
      <4>1. client'[d] = client[d] /\ Connection(d) /\ client[d].ctx \in CtxId \cup {NULL}
        BY <1>0, <1>3, <3>3, ZenonT(30) DEF IInv, Connections, TypeOK, Client
      <4>2. CASE client[d].state = "open" /\ client[d].ctx # NULL
        <5>1. client[d].worker \in Workers /\ d \in Users(client[d].worker, client[d].ctx)'
          BY <4>1, <4>2, SMTT(30) DEF Connection, Users, Of
        <5>2. Good(client[d].worker, client[d].ctx)'
          BY <2>11, <4>1, <4>2, <5>1, ZenonT(30) DEF Connection, Good
        <5>3. QED
          BY <1>1, <4>1, <4>2, <5>2, SMTT(30) DEF Connection
      <4>3. CASE ~(client[d].state = "open" /\ client[d].ctx # NULL)
        BY <1>1, <4>1, <4>3, ZenonT(30) DEF Connection
      <4>4. QED
        BY <4>2, <4>3, SMTT(30)
    <3>4. QED
      BY <3>2, <3>3
  <2>16. QED
    BY <2>7, <2>10, <2>12, <2>14, <2>15 DEF IInv
<1>7. QED
  BY <1>0, <1>5, <1>6, ZenonT(30) DEF Ports
-----------------------------------------------------------------------------
LEMMA InitHolds == Init => IInv
<1>. SUFFICES ASSUME Init PROVE IInv
  OBVIOUS
<1>1. Gone("new") \in Client /\ Gone("new").state = "new"
  BY DEF Gone, Client, Ports
<1>2. NoTls \in TLSContext /\ NoTls.ctx = NULL /\ NoTls.new_ctx = NULL
      /\ NoTls.cert_expiry = 0 /\ \A k \in CtxId : NoTls.ctxs[k].refs = 0
  BY WorkerLifeAssumption DEF NoTls, TLSContext, Empty, Unreadable, Version
<1>3. TypeOK
  BY <1>1, <1>2, WorkerLifeAssumption DEF Init, TypeOK, Version
<1>4. \A w, k : Users(w, k) = {}
  BY <1>1 DEF Init, Users, Of
<1>5. RefsExact /\ ExpiryShown
  <2>1. Cardinality({}) = 0
    BY FS_EmptySet
  <2>2. \A w \in Workers : tls[w] = NoTls
    BY DEF Init
  <2>3. QED
    BY <1>2, <1>4, <2>1, <2>2, WorkerLifeAssumption DEF RefsExact, ExpiryShown
<1>6. Stages
  BY <1>2, SMTT(30) DEF Init, Stages, Stage, HasTls, Running
<1>7. Connections
  BY <1>1 DEF Init, Connections, Connection
<1>8. QED
  BY <1>3, <1>5, <1>6, <1>7 DEF IInv

LEMMA WorkerSteps ==
    ASSUME IInv, NEW w \in Workers,
           \/ fork_worker(w) \/ StartupStep(w)
           \/ \E sig \in Signals : kill(w, sig)
           \/ signal_cb(w) \/ ReloadStep(w)
           \/ accept_error_cb(w) \/ worker_exit(w)
    PROVE  IInv'
<1>0. failures \in 0..MaxFailures /\ (Fails => failures' \in 0..MaxFailures)
  BY WorkerLifeAssumption DEF IInv, TypeOK, Fails
<1>1. CASE \/ fork_worker(w) \/ worker_init(w) \/ create_reuseport_socket(w)
           \/ create_tls_reuseport_socket(w)
           \/ \E sigs \in SUBSET Signals : setup_worker_signals(w, sigs)
  BY <1>1, QuietStartup
<1>2. CASE tls_context_init_cert(w)
  BY <1>2, InitCertKeeps
<1>3. CASE \E known \in BOOLEAN : tls_context_init_key(w, known)
  BY <1>3, InitKeyKeeps
<1>4. CASE startup_fails(w)
  <2>1. Exit(w) /\ UNCHANGED <<tls_enabled, files>> /\ failures' \in 0..MaxFailures
    BY <1>0, <1>4 DEF startup_fails
  <2>2. QED
    BY <2>1, ExitKeeps
<1>5. ASSUME NEW sig \in Signals, kill(w, sig)
      PROVE  IInv'
  <2>1. CASE sig \in handled[w]
    BY <1>5, <2>1, SignalsKeep
  <2>2. CASE sig \notin handled[w]
    <3>1. Exit(w) /\ UNCHANGED <<tls_enabled, files>> /\ failures' = failures
      BY <1>5, <2>2, SMTT(30) DEF kill
    <3>2. QED
      BY <1>0, <3>1, ExitKeeps
  <2>3. QED
    BY <2>1, <2>2
<1>6. CASE signal_cb(w) \/ accept_error_cb(w)
  BY <1>6, SignalsKeep, SMTT(30)
<1>7. CASE signal_reload_cb(w)
  BY <1>7, SignalsKeep, ReloadCertKeeps
<1>8. ASSUME NEW known \in BOOLEAN, tls_context_reload(w, known)
      PROVE  IInv'
  <2>1. CASE tls' = [tls EXCEPT ![w] = tls_reload_fails(tls[w])]
             /\ (UNCHANGED failures \/ Fails)
    BY <1>0, <1>8, <2>1, ReloadFailsKeeps, ZenonT(30) DEF tls_context_reload
  <2>2. CASE /\ key_matches(tls[w], tls[w].new_ctx, key_file) /\ UNCHANGED failures
             /\ tls' = [tls EXCEPT ![w] = tls_reload_swap(tls[w], key_file, known)]
    BY <1>8, <2>2, ReloadSwapKeeps, ZenonT(30) DEF tls_context_reload
  <2>3. QED
    BY <1>8, <2>1, <2>2 DEF tls_context_reload
<1>9. CASE worker_exit(w)
  <2>1. Exit(w) /\ UNCHANGED <<tls_enabled, files>> /\ failures' = failures
    BY <1>9 DEF worker_exit
  <2>2. QED
    BY <1>0, <2>1, ExitKeeps
<1>10. QED
  BY <1>1, <1>2, <1>3, <1>4, <1>5, <1>6, <1>7, <1>8, <1>9 DEF StartupStep, ReloadStep

LEMMA NextKeeps == IInv /\ [Next]_vars => IInv'
<1>. SUFFICES ASSUME IInv, [Next]_vars PROVE IInv'
  OBVIOUS
<1>1. ASSUME NEW w \in Workers,
             \/ fork_worker(w) \/ StartupStep(w)
             \/ \E sig \in Signals : kill(w, sig)
             \/ signal_cb(w) \/ ReloadStep(w)
             \/ accept_error_cb(w) \/ worker_exit(w)
      PROVE  IInv'
  BY <1>1, WorkerSteps
<1>2. ASSUME NEW w \in Workers, NEW c \in Clients,
             \/ AcceptStep(w, c) \/ connection_free(w, c)
             \/ \E port \in Ports : connect(c, w, port)
      PROVE  IInv'
  BY <1>2, ClientsKeep, AcceptKeeps, FreeKeeps DEF AcceptStep
<1>3. ASSUME NEW c \in Clients, NEW port \in Ports, connection_refused(c, port)
      PROVE  IInv'
  <2>1. CASE \E w \in Workers : TRUE
    BY <1>3, <2>1, ClientsKeep
  <2>2. CASE Workers = {}
    <3>1. UNCHANGED <<tls_enabled, life, tls, listeners>> /\ client[c].state = "new"
          /\ client' = [client EXCEPT ![c] = Gone("refused")]
      BY <1>3 DEF connection_refused, procs
    <3>2. Gone("refused") \in Client /\ Gone("refused").state = "refused"
      BY DEF Gone, Client, Ports
    <3>3. TypeOK'
      BY <1>3, <3>2 DEF connection_refused, procs, files, IInv, TypeOK
    <3>4. client'[c].state = "refused" /\ \A d \in Clients \ {c} : client'[d] = client[d]
      BY <3>1, <3>2 DEF IInv, TypeOK
    <3>5. QED
      BY <3>1, <3>3, <3>4, QuietClient
  <2>3. QED
    BY <2>1, <2>2
<1>4. CASE \/ renewal_starts
           \/ \E v \in {renewal, Unreadable} : cert_written(v) \/ key_written(v)
  BY <1>4, RenewalKeeps
<1>5. CASE UNCHANGED vars
  <2>1. TypeOK'
    BY <1>5 DEF vars, procs, files, IInv, TypeOK
  <2>2. QED
    BY <1>5, <2>1, QuietSteps DEF vars, procs
<1>6. QED
  BY <1>1, <1>2, <1>3, <1>4, <1>5 DEF Next, Done

(* Every reachable state satisfies the inductive invariant.                *)
THEOREM LifeInvariant == Spec => []IInv
BY InitHolds, NextKeeps, PTL DEF Spec

(* However many connections, reloads and failures there are, OpenSSL's     *)
(* counts are those of the pointers the worker holds: no context is freed  *)
(* while a connection or the listener uses it, and none leaks.             *)
THEOREM RefsExactAlways == Spec => []RefsExact
<1>1. IInv => RefsExact
  BY DEF IInv
<1>2. QED
  BY <1>1, LifeInvariant, PTL

(* A worker with a TLS socket has a context, and every context in use has  *)
(* a certificate with the key that belongs to it, in whatever order the    *)
(* two files are replaced.                                                 *)
THEOREM TlsReadyAlways == Spec => []TlsReady
<1>1. IInv => TlsReady
  <2>. SUFFICES ASSUME IInv PROVE TlsReady
    OBVIOUS
  <2>1. ASSUME NEW w \in Workers, NEW k \in CtxId, Users(w, k) # {}
        PROVE  Good(w, k)
    BY <2>1, UsersGood DEF IInv
  <2>2. QED
    BY <2>1, ZenonT(30) DEF IInv, TlsReady, Stages, Stage, Good
<1>2. QED
  BY <1>1, LifeInvariant, PTL

(* The expiry reported is 0 or that of the certificate that is served.     *)
THEOREM ExpiryShownAlways == Spec => []ExpiryShown
<1>1. IInv => ExpiryShown
  BY DEF IInv
<1>2. QED
  BY <1>1, LifeInvariant, PTL

-----------------------------------------------------------------------------
(* Clients that are lost.                                                  *)

(* Why a process may stop: it drains or something failed; and why a signal *)
(* may find no handler in its loop.                                        *)
Excused(w) ==
    /\ stopping[w] => draining[w] \/ failures > 0
    /\ life[w] \in Running /\ handled[w] # Signals => failures > 0

Excuses == \A w \in Workers : Excused(w)

LEMMA FailuresGrow ==
    ASSUME TypeOK, failures' = failures \/ Fails
    PROVE  failures \in Nat /\ failures' \in Nat /\ failures' >= failures
<1>1. failures \in 0..MaxFailures
  BY ZenonT(30) DEF TypeOK
<1>2. failures \in Nat
  BY <1>1, WorkerLifeAssumption, SMTT(20)
<1>3. QED
  BY <1>2, SMTT(20) DEF Fails

(* A step that leaves this part of the other workers alone.                *)
LEMMA ExcuseOthers ==
    ASSUME TypeOK, Excuses, NEW w \in Workers, failures' = failures \/ Fails,
           Excused(w)',
           \A v \in Workers \ {w} :
               /\ stopping'[v] = stopping[v] /\ draining'[v] = draining[v]
               /\ life'[v] = life[v] /\ handled'[v] = handled[v]
    PROVE  Excuses'
<1>1. failures \in Nat /\ failures' \in Nat /\ failures' >= failures
  BY FailuresGrow
<1>2. ASSUME NEW v \in Workers \ {w}
      PROVE  Excused(v)'
  BY <1>1, <1>2, SMTT(20) DEF Excuses, Excused
<1>3. QED
  BY <1>2, ZenonT(30) DEF Excuses

(* A step that leaves it alone in all of them.                             *)
LEMMA ExcuseQuiet ==
    ASSUME TypeOK, Excuses, failures' = failures \/ Fails,
           UNCHANGED <<life, handled, draining, stopping>>
    PROVE  Excuses'
<1>1. failures \in Nat /\ failures' \in Nat /\ failures' >= failures
  BY FailuresGrow
<1>2. QED
  BY <1>1, SMTT(20) DEF Excuses, Excused

LEMMA ExitExcused ==
    ASSUME TypeOK, Excuses, NEW w \in Workers, failures' = failures \/ Fails, Exit(w)
    PROVE  Excuses'
<1>1. Excused(w)'
  BY ZenonT(30) DEF TypeOK, Exit, Excused, Running
<1>2. QED
  BY <1>1, ExcuseOthers, ZenonT(30) DEF Exit, TypeOK

LEMMA WorkerExcused ==
    ASSUME TypeOK, Excuses, NEW w \in Workers,
           \/ fork_worker(w) \/ StartupStep(w)
           \/ \E sig \in Signals : kill(w, sig)
           \/ signal_cb(w) \/ ReloadStep(w)
           \/ accept_error_cb(w) \/ worker_exit(w)
    PROVE  Excuses'
<1>1. ASSUME NEW from, NEW to \in Starting, Proceed(w, from, to)
      PROVE  Excuses'
  <2>1. to \notin Running
    BY <1>1, ZenonT(30) DEF Starting, Running
  <2>2. Excused(w)'
    BY <1>1, <2>1, ZenonT(30) DEF Proceed, TypeOK, Excuses, Excused
  <2>3. QED
    BY <1>1, <2>2, ExcuseOthers, ZenonT(30) DEF Proceed, TypeOK
<1>2. CASE \/ fork_worker(w) \/ worker_init(w) \/ create_reuseport_socket(w)
           \/ tls_context_init_cert(w) \/ create_tls_reuseport_socket(w)
           \/ \E known \in BOOLEAN : tls_context_init_key(w, known)
  <2>1. \E from : \E to \in Starting : Proceed(w, from, to)
    BY <1>2, ZenonT(30)
       DEF fork_worker, worker_init, create_reuseport_socket, tls_context_init_cert,
           create_tls_reuseport_socket, tls_context_init_key, Starting
  <2>2. QED
    BY <1>1, <2>1, ZenonT(30)
<1>3. ASSUME NEW sigs \in SUBSET Signals, setup_worker_signals(w, sigs)
      PROVE  Excuses'
  <2>1. /\ handled'[w] = sigs /\ stopping' = stopping /\ draining' = draining
        /\ failures' = failures \/ Fails
        /\ sigs = Signals \/ failures' = failures + 1
    BY <1>3, ZenonT(30) DEF setup_worker_signals, TypeOK, Fails
  <2>2. failures \in Nat
    BY <2>1, FailuresGrow, ZenonT(30)
  <2>3. Excused(w)'
    BY <2>1, <2>2, SMTT(20) DEF Excuses, Excused, Fails
  <2>4. QED
    BY <1>3, <2>1, <2>3, ExcuseOthers, ZenonT(30) DEF setup_worker_signals, TypeOK
<1>4. CASE startup_fails(w) \/ worker_exit(w)
  BY <1>4, ExitExcused, ZenonT(30) DEF startup_fails, worker_exit
<1>5. ASSUME NEW sig \in Signals, kill(w, sig)
      PROVE  Excuses'
  BY <1>5, ExitExcused, ExcuseQuiet, ZenonT(30) DEF kill
<1>6. CASE signal_cb(w)
  <2>1. draining'[w]
    BY <1>6, ZenonT(30) DEF signal_cb, TypeOK
  <2>2. Excused(w)'
    BY <1>6, <2>1, ZenonT(30) DEF signal_cb, Excuses, Excused
  <2>3. QED
    BY <1>6, <2>2, ExcuseOthers, ZenonT(30) DEF signal_cb, worker_check_drain, TypeOK
<1>7. CASE ReloadStep(w)
  <2>1. /\ life[w] \in Running /\ life'[w] \in Running
        /\ \A v \in Workers \ {w} : life'[v] = life[v]
        /\ failures' = failures \/ Fails
        /\ UNCHANGED <<handled, draining, stopping>>
    <3>1. CASE signal_reload_cb(w)
      BY <3>1, ZenonT(30) DEF signal_reload_cb, Running, TypeOK
    <3>2. ASSUME NEW known \in BOOLEAN, tls_context_reload(w, known)
          PROVE  /\ life[w] = "reload_key" /\ life' = [life EXCEPT ![w] = "serving"]
                 /\ failures' = failures \/ Fails
                 /\ UNCHANGED <<handled, draining, stopping>>
      BY <3>2, ZenonT(30) DEF tls_context_reload
    <3>3. QED
      BY <1>7, <3>1, <3>2, ZenonT(30) DEF ReloadStep, Running, TypeOK
  <2>2. failures \in Nat
    BY <2>1, FailuresGrow, ZenonT(30)
  <2>3. Excused(w)'
    BY <2>1, <2>2, SMTT(20) DEF Excuses, Excused, Fails
  <2>4. QED
    BY <2>1, <2>3, ExcuseOthers, ZenonT(30)
<1>8. CASE accept_error_cb(w)
  <2>1. failures \in Nat /\ failures' = failures + 1
    BY <1>8, FailuresGrow, ZenonT(30) DEF accept_error_cb, Fails
  <2>2. Excused(w)'
    BY <2>1, SMTT(20) DEF Excused
  <2>3. QED
    BY <1>8, <2>2, ExcuseOthers, ZenonT(30) DEF accept_error_cb, TypeOK
<1>9. QED
  BY <1>2, <1>3, <1>4, <1>5, <1>6, <1>7, <1>8, ZenonT(30) DEF StartupStep

LEMMA NextExcused ==
    ASSUME TypeOK, Excuses, [Next]_vars
    PROVE  Excuses'
<1>1. ASSUME NEW w \in Workers,
             \/ fork_worker(w) \/ StartupStep(w)
             \/ \E sig \in Signals : kill(w, sig)
             \/ signal_cb(w) \/ ReloadStep(w)
             \/ accept_error_cb(w) \/ worker_exit(w)
      PROVE  Excuses'
  BY <1>1, WorkerExcused, ZenonT(30)
<1>2. ASSUME NEW w \in Workers, NEW c \in Clients, connection_free(w, c)
      PROVE  Excuses'
  <2>1. Excused(w)'
    BY <1>2, ZenonT(30) DEF connection_free, worker_check_drain, TypeOK, Excuses, Excused
  <2>2. QED
    BY <1>2, <2>1, ExcuseOthers, ZenonT(30) DEF connection_free, worker_check_drain, TypeOK
<1>3. ASSUME NEW w \in Workers, NEW c \in Clients,
             AcceptStep(w, c) \/ \E port \in Ports : connect(c, w, port)
      PROVE  Excuses'
  BY <1>3, ExcuseQuiet, ZenonT(30)
     DEF AcceptStep, accept_cb, accept_turns_away, accept_fails, connect, procs
<1>4. CASE \/ \E c \in Clients, port \in Ports : connection_refused(c, port)
           \/ renewal_starts \/ UNCHANGED vars
           \/ \E v \in {renewal, Unreadable} : cert_written(v) \/ key_written(v)
  BY <1>4, ExcuseQuiet, ZenonT(30)
     DEF connection_refused, renewal_starts, cert_written, key_written, procs, vars
<1>5. QED
  BY <1>1, <1>2, <1>3, <1>4, ZenonT(30) DEF Next, Done

(* The exit of a process resets its own clients only.                      *)
LEMMA ExitLoses ==
    ASSUME TypeOK, NEW w \in Workers, NEW v \in Workers, Exit(w), NEW c \in Clients,
           c \in Of(v, "queued"), client'[c].state = "reset"
    PROVE  v = w
BY ZenonT(30) DEF Exit, Of

(* What LostOnlyToDrain asks of the worker that loses a client.            *)
MayLose(w) ==
    \/ draining[w]
    \/ life[w] \in Starting
    \/ failures > 0 /\ (stopping[w] \/ handled[w] # Signals)
    \/ failures' # failures /\ life'[w] = "serving"

(* The steps of a worker that can end it.                                  *)
LEMMA EndMayLose ==
    ASSUME TypeOK, Excuses, NEW w \in Workers,
           \/ startup_fails(w) \/ worker_exit(w)
           \/ \E sig \in Signals : sig \notin handled[w] /\ kill(w, sig)
    PROVE  MayLose(w)
<1>1. CASE startup_fails(w)
  BY <1>1, ZenonT(30) DEF startup_fails, MayLose
<1>2. CASE worker_exit(w)
  BY <1>2, ZenonT(30) DEF worker_exit, Excuses, Excused, MayLose
<1>3. ASSUME NEW sig \in Signals, sig \notin handled[w], kill(w, sig)
      PROVE  MayLose(w)
  BY <1>3, ZenonT(30) DEF kill, Excuses, Excused, MayLose
<1>4. QED
  BY <1>1, <1>2, <1>3, ZenonT(30)

LEMMA LossStep ==
    ASSUME TypeOK, Excuses, Next, NEW c \in Clients, NEW w \in Workers,
           c \in Of(w, "queued"), client'[c].state = "reset"
    PROVE  MayLose(w)
<1>1. client[c].worker = w /\ client[c].state = "queued" /\ client' # client
      /\ client'[c].state \notin {"queued", "open", "served", "refused"}
  BY ZenonT(30) DEF Of
<1>2. client \in [Clients -> Client]
  BY ZenonT(30) DEF TypeOK
<1>3. ASSUME NEW v \in Workers,
             \/ startup_fails(v) \/ worker_exit(v)
             \/ \E sig \in Signals : sig \notin handled[v] /\ kill(v, sig)
      PROVE  MayLose(w)
  <2>1. Exit(v)
    BY <1>3, ZenonT(30) DEF startup_fails, worker_exit, kill
  <2>2. QED
    BY <1>3, <2>1, ExitLoses, EndMayLose, ZenonT(30)
<1>4. ASSUME NEW v \in Workers, NEW d \in Clients, accept_fails(v, d)
      PROVE  MayLose(w)
  <2>1. d = c
    BY <1>1, <1>2, <1>4, ZenonT(30) DEF accept_fails
  <2>2. life'[w] = "serving" /\ failures' = failures + 1 /\ failures \in Nat
    BY <1>1, <1>4, <2>1, FailuresGrow, ZenonT(30) DEF accept_fails, Accepts, Fails, procs
  <2>3. QED
    BY <2>2, SMTT(20) DEF MayLose
<1>5. ASSUME NEW v \in Workers, NEW d \in Clients,
             \/ accept_cb(v, d) \/ accept_turns_away(v, d) \/ connection_free(v, d)
             \/ \E port \in Ports : connect(d, v, port) \/ connection_refused(d, port)
      PROVE  FALSE
  <2>1. client'[c].state \in {client[c].state, "open", "served", "queued", "refused"}
    BY <1>2, <1>5, SMTT(20) DEF accept_cb, accept_turns_away, connection_free, connect,
                      connection_refused, Gone, Client
  <2>2. QED
    BY <1>1, <2>1, ZenonT(30)
<1>6. ASSUME NEW v \in Workers,
             \/ fork_worker(v)
             \/ StartupStep(v) /\ ~startup_fails(v)
             \/ \E sig \in Signals : sig \in handled[v] /\ kill(v, sig)
             \/ signal_cb(v) \/ ReloadStep(v) \/ accept_error_cb(v)
      PROVE  client' = client
  <2>1. CASE fork_worker(v) \/ (StartupStep(v) /\ ~startup_fails(v))
    BY <2>1, ZenonT(30)
       DEF fork_worker, StartupStep, worker_init, create_reuseport_socket,
           tls_context_init_cert, tls_context_init_key, create_tls_reuseport_socket,
           setup_worker_signals, Proceed
  <2>2. CASE \E sig \in Signals : sig \in handled[v] /\ kill(v, sig)
    BY <2>2, ZenonT(30) DEF kill
  <2>3. CASE signal_cb(v) \/ ReloadStep(v) \/ accept_error_cb(v)
    BY <2>3, ZenonT(30) DEF signal_cb, ReloadStep, signal_reload_cb, tls_context_reload,
                            accept_error_cb
  <2>4. QED
    BY <1>6, <2>1, <2>2, <2>3, ZenonT(30)
<1>7. CASE \/ renewal_starts \/ Done
           \/ \E v \in {renewal, Unreadable} : cert_written(v) \/ key_written(v)
  BY <1>1, <1>7, ZenonT(30) DEF renewal_starts, Done, cert_written, key_written, vars
<1>8. QED
  <2>1. ASSUME NEW v \in Workers,
               \/ fork_worker(v) \/ StartupStep(v)
               \/ \E sig \in Signals : kill(v, sig)
               \/ signal_cb(v) \/ ReloadStep(v)
               \/ accept_error_cb(v) \/ worker_exit(v)
        PROVE  MayLose(w)
    BY <1>1, <1>3, <1>6, <2>1, ZenonT(30) DEF StartupStep
  <2>2. ASSUME NEW v \in Workers, NEW d \in Clients,
               \/ AcceptStep(v, d) \/ connection_free(v, d)
               \/ \E port \in Ports : connect(d, v, port)
        PROVE  MayLose(w)
    BY <1>4, <1>5, <2>2, ZenonT(30) DEF AcceptStep
  <2>3. ASSUME NEW d \in Clients, NEW port \in Ports, connection_refused(d, port)
        PROVE  MayLose(w)
    BY <1>5, <2>3, ZenonT(30)
  <2>4. QED
    BY <1>7, <2>1, <2>2, <2>3, ZenonT(30) DEF Next

(* A queued client is reset by its worker's end only if the worker drains, *)
(* never reached its loop, or met a failure.                               *)
THEOREM LostOnlyToDrainAlways == Spec => LostOnlyToDrain
<1>1. Init => Excuses
  BY ZenonT(30) DEF Init, Excuses, Excused, Running
<1>2. TypeOK /\ Excuses /\ [Next]_vars => Excuses'
  BY NextExcused, ZenonT(30)
<1>3. TypeOK /\ Excuses /\ [Next]_vars =>
         [\A c \in Clients : \A w \in Workers :
            (c \in Of(w, "queued") /\ client'[c].state = "reset")
            => \/ draining[w]
               \/ life[w] \in Starting
               \/ failures > 0 /\ (stopping[w] \/ handled[w] # Signals)
               \/ failures' # failures /\ life'[w] = "serving"]_vars
  <2>. SUFFICES ASSUME TypeOK, Excuses, Next, NEW c \in Clients, NEW w \in Workers,
                       c \in Of(w, "queued"), client'[c].state = "reset"
                PROVE  MayLose(w)
    BY ZenonT(30) DEF MayLose
  <2>1. QED
    BY LossStep, ZenonT(30)
<1>4. IInv => TypeOK
  BY DEF IInv
<1>5. QED
  BY LifeInvariant, <1>1, <1>2, <1>3, <1>4, PTL DEF Spec, LostOnlyToDrain
=============================================================================
