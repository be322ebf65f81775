------------------------- MODULE WorkerLifeContexts -------------------------
(***************************************************************************)
(* The inductive invariant of WorkerLife, and that the steps that make,    *)
(* swap and drop SSL contexts keep it: the stages of worker_main, the      *)
(* reload of the certificate and the end of a process.                     *)
(*                                                                         *)
(* The properties of WorkerLife are not inductive by themselves: what a    *)
(* context may be used for depends on how far worker_main is (Stages), and *)
(* what closing a connection gives back on the port it came in by          *)
(* (Connections).                                                          *)
(***************************************************************************)
EXTENDS WorkerLife, FiniteSetTheorems, TLAPS

Good(w, k) == /\ tls[w].ctxs[k].cert # Unreadable
              /\ tls[w].ctxs[k].cert = tls[w].ctxs[k].key

HasTls == {"tls_key", "tls_bind", "signals"} \cup Running

(* What holds of a worker and its context at each stage of worker_main.    *)
Stage(w) ==
    /\ life[w] \in {"tls_cert", "tls_key", "tls_bind", "reload_key"} => tls_enabled
    /\ tls[w].ctx # NULL <=> tls_enabled /\ life[w] \in HasTls
    /\ tls[w].new_ctx # NULL <=> life[w] = "reload_key"
    /\ tls[w].new_ctx # NULL => /\ tls[w].ctx # tls[w].new_ctx
                                /\ tls[w].ctxs[tls[w].new_ctx].cert # Unreadable
    /\ life[w] = "tls_key" => /\ tls[w].ctxs[tls[w].ctx].cert # Unreadable
                              /\ tls[w].cert_expiry = 0
    /\ tls[w].ctx # NULL /\ life[w] # "tls_key" => Good(w, tls[w].ctx)
    /\ "tls" \in listeners[w] => tls[w].ctx # NULL /\ life[w] # "tls_key"

(* An open TLS connection has a context with a matching pair, and a client *)
(* waits on a TLS socket only where there is one.                          *)
Connection(c) ==
    /\ client[c].state = "open" => (client[c].port = "tls" <=> client[c].ctx # NULL)
    /\ client[c].state \in {"queued", "open"} =>
          /\ client[c].worker \in Workers
          /\ client[c].port = "tls" => "tls" \in listeners[client[c].worker]
    /\ client[c].state = "open" /\ client[c].ctx # NULL =>
          Good(client[c].worker, client[c].ctx)

Stages      == \A w \in Workers : Stage(w)
Connections == \A c \in Clients : Connection(c)

IInv == TypeOK /\ RefsExact /\ ExpiryShown /\ Stages /\ Connections
-----------------------------------------------------------------------------
(* What the OpenSSL operators do to the contexts of one worker.            *)

Contexts == [CtxId -> [cert : Version \cup {Unreadable},
                       key : Version \cup {Unreadable}, refs : Nat]]

(* A new context takes memory nobody uses and leaves the others alone.     *)
LEMMA NewContext ==
    ASSUME NEW ctxs \in Contexts, unused(ctxs) # {}, NEW cert \in Version
    PROVE  /\ fresh(ctxs) \in CtxId
           /\ ctxs[fresh(ctxs)].refs = 0
           /\ SSL_CTX_new(ctxs, cert) \in Contexts
           /\ SSL_CTX_new(ctxs, cert)[fresh(ctxs)] =
                 [cert |-> cert, key |-> Unreadable, refs |-> 1]
           /\ \A k \in CtxId \ {fresh(ctxs)} : SSL_CTX_new(ctxs, cert)[k] = ctxs[k]
<1>1. \E k \in CtxId : ctxs[k].refs = 0
  BY DEF unused
<1>2. fresh(ctxs) \in CtxId /\ ctxs[fresh(ctxs)].refs = 0
  BY <1>1 DEF fresh
<1>. HIDE DEF fresh
<1>3. QED
  BY <1>2 DEF SSL_CTX_new, Contexts

(* Freeing drops one reference, and forgets the context with the last one. *)
LEMMA FreeContext ==
    ASSUME NEW ctxs \in Contexts, NEW k \in CtxId, ctxs[k].refs > 0
    PROVE  /\ SSL_CTX_free(ctxs, k) \in Contexts
           /\ SSL_CTX_free(ctxs, k)[k].refs = ctxs[k].refs - 1
           /\ ctxs[k].refs > 1 =>
                 /\ SSL_CTX_free(ctxs, k)[k].cert = ctxs[k].cert
                 /\ SSL_CTX_free(ctxs, k)[k].key = ctxs[k].key
           /\ \A j \in CtxId \ {k} : SSL_CTX_free(ctxs, k)[j] = ctxs[j]
<1>1. CASE ctxs[k].refs = 1
  BY <1>1 DEF SSL_CTX_free, Contexts, Empty, Unreadable
<1>2. CASE ctxs[k].refs # 1
  BY <1>2 DEF SSL_CTX_free, Contexts
<1>3. QED
  BY <1>1, <1>2

LEMMA UsersCounted ==
    ASSUME NEW w, NEW k
    PROVE  IsFiniteSet(Users(w, k)) /\ Cardinality(Users(w, k)) \in Nat
<1>1. Users(w, k) \subseteq Clients
  BY DEF Users, Of
<1>2. QED
  BY <1>1, WorkerLifeAssumption, FS_Subset, FS_CardinalityType

LEMMA TypeOf ==
    ASSUME TypeOK, NEW w \in Workers
    PROVE  /\ tls[w].ctxs \in Contexts
           /\ tls[w].ctx \in CtxId \cup {NULL}
           /\ tls[w].new_ctx \in CtxId \cup {NULL}
           /\ tls[w].cert_expiry \in 0..MaxRenewals + 1
<1>1. tls[w] \in TLSContext
  BY DEF TypeOK
<1>2. QED
  BY <1>1 DEF TLSContext, Contexts

LEMMA TlsTyped ==
    ASSUME TypeOK, NEW w \in Workers
    PROVE  tls[w] \in TLSContext
BY DEF TypeOK

(* Whoever counts on a context is counted: it has been neither freed nor   *)
(* handed out again.                                                       *)
LEMMA InUse ==
    ASSUME TypeOK, RefsExact, NEW w \in Workers, NEW k \in CtxId,
           tls[w].ctx = k \/ tls[w].new_ctx = k \/ Users(w, k) # {}
    PROVE  tls[w].ctxs[k].refs > 0
<1>1. Users(w, k) # {} => Cardinality(Users(w, k)) # 0
  BY UsersCounted, FS_EmptySet
<1>2. Cardinality(Users(w, k)) \in Nat
  BY UsersCounted
<1>3. QED
  BY <1>1, <1>2 DEF RefsExact
(* And memory that is not in use has nobody who counts on it.              *)
LEMMA NotInUse ==
    ASSUME TypeOK, RefsExact, NEW w \in Workers, NEW k \in CtxId,
           tls[w].ctxs[k].refs = 0
    PROVE  /\ tls[w].ctx # k /\ tls[w].new_ctx # k
           /\ Users(w, k) = {} /\ Cardinality(Users(w, k)) = 0
<1>1. tls[w].ctx # k /\ tls[w].new_ctx # k /\ Users(w, k) = {}
  BY InUse
<1>2. QED
  BY <1>1, FS_EmptySet

-----------------------------------------------------------------------------
(* What a step leaves alone.                                               *)

LEMMA OtherStage ==
    ASSUME NEW v \in Workers, Stage(v), tls_enabled' = tls_enabled,
           life'[v] = life[v], tls'[v] = tls[v], listeners'[v] = listeners[v]
    PROVE  Stage(v)'
BY DEF Stage, Good

(* A step that touches neither contexts nor clients.                       *)
LEMMA Quiet ==
    ASSUME IInv, TypeOK', UNCHANGED <<tls_enabled, tls, client>>, Stages',
           \A v \in Workers : "tls" \in listeners[v] => "tls" \in listeners'[v]
    PROVE  IInv'
<1>1. RefsExact' /\ ExpiryShown'
  BY DEF IInv, RefsExact, ExpiryShown, Users, Of
<1>2. Connections'
  BY ZenonT(30) DEF IInv, Connections, Connection, Good
<1>3. QED
  BY <1>1, <1>2 DEF IInv

(* A step that moves one client, which has no connection before or after.  *)
LEMMA QuietClient ==
    ASSUME IInv, TypeOK', UNCHANGED <<tls_enabled, life, tls, listeners>>,
           NEW c \in Clients, \A d \in Clients \ {c} : client'[d] = client[d],
           client[c].state # "open", client'[c].state # "open",
           client'[c].state = "queued" =>
              /\ client'[c].worker \in Workers
              /\ client'[c].port = "tls" => "tls" \in listeners[client'[c].worker]
    PROVE  IInv'
<1>1. \A w, k : Users(w, k)' = Users(w, k)
  BY DEF Users, Of
<1>2. RefsExact' /\ ExpiryShown'
  BY <1>1 DEF IInv, RefsExact, ExpiryShown
<1>3. Stages'
  BY DEF IInv, Stages, Stage, Good
<1>4. Connections'
  BY ZenonT(30) DEF IInv, Connections, Connection, Good
<1>5. QED
  BY <1>2, <1>3, <1>4 DEF IInv

(* What has to hold of the new context t of a worker whose users stay.     *)
CountsUsers(w, t) ==
    \A k \in CtxId : t.ctxs[k].refs = Cardinality(Users(w, k))
                                      + (IF t.ctx = k THEN 1 ELSE 0)
                                      + (IF t.new_ctx = k THEN 1 ELSE 0)
KeepsPairs(w, t) ==
    \A k \in CtxId : Users(w, k) # {} =>
        t.ctxs[k].cert = tls[w].ctxs[k].cert /\ t.ctxs[k].key = tls[w].ctxs[k].key
ShowsExpiry(t) ==
    t.cert_expiry # 0 => t.ctx # NULL /\ t.cert_expiry = t.ctxs[t.ctx].cert + 1

(* A step that changes the context of one worker and no client.            *)
LEMMA OwnContext ==
    ASSUME IInv, TypeOK', UNCHANGED <<tls_enabled, listeners, client>>,
           NEW w \in Workers,
           \A v \in Workers \ {w} : life'[v] = life[v] /\ tls'[v] = tls[v],
           Stage(w)', CountsUsers(w, tls'[w]), KeepsPairs(w, tls'[w]),
           ShowsExpiry(tls'[w])
    PROVE  IInv'
<1>1. \A v, k : Users(v, k)' = Users(v, k)
  BY DEF Users, Of
<1>2. RefsExact'
  BY <1>1 DEF IInv, RefsExact, CountsUsers
<1>3. ExpiryShown'
  BY DEF IInv, ExpiryShown, ShowsExpiry
<1>4. Stages'
  BY OtherStage DEF IInv, Stages
<1>5. ASSUME NEW c \in Clients
      PROVE  Connection(c)'
  <2>1. Connection(c) /\ client'[c] = client[c]
    BY DEF IInv, Connections
  <2>2. client[c].ctx \in CtxId \cup {NULL}
    BY DEF IInv, TypeOK, Client
  <2>3. CASE client[c].state = "open" /\ client[c].ctx # NULL /\ client[c].worker = w
    <3>1. c \in Users(w, client[c].ctx)
      BY <2>3 DEF Users, Of
    <3>2. tls'[w].ctxs[client[c].ctx].cert = tls[w].ctxs[client[c].ctx].cert
          /\ tls'[w].ctxs[client[c].ctx].key = tls[w].ctxs[client[c].ctx].key
      BY <2>2, <2>3, <3>1, SMTT(30) DEF KeepsPairs
    <3>3. QED
      BY <2>1, <2>3, <3>2, ZenonT(30) DEF Connection, Good
  <2>4. CASE ~(client[c].state = "open" /\ client[c].ctx # NULL /\ client[c].worker = w)
    BY <2>1, <2>4, ZenonT(30) DEF Connection, Good
  <2>5. QED
    BY <2>3, <2>4
<1>6. QED
  BY <1>2, <1>3, <1>4, <1>5 DEF IInv, Connections

(* The end of a process takes its context and its clients with it.         *)
LEMMA ExitKeeps ==
    ASSUME IInv, NEW w \in Workers, Exit(w), UNCHANGED <<tls_enabled, files>>,
           failures' \in 0..MaxFailures
    PROVE  IInv'
<1>0. TypeOK
  BY DEF IInv
<1>1. /\ life'[w] = "exited" /\ tls'[w] = NoTls /\ listeners'[w] = {}
      /\ \A v \in Workers \ {w} : /\ life'[v] = life[v] /\ tls'[v] = tls[v]
                                  /\ listeners'[v] = listeners[v]
  BY <1>0 DEF Exit, TypeOK
<1>2. \A c \in Clients : client'[c] = IF client[c].worker = w
                                      THEN Gone("reset") ELSE client[c]
  BY DEF Exit
<1>3. NoTls \in TLSContext
  BY WorkerLifeAssumption DEF NoTls, TLSContext, Empty, Unreadable, Version
<1>4. Gone("reset") \in Client
  BY DEF Gone, Client, Ports
<1>5. TypeOK'
  BY <1>0, <1>3, <1>4 DEF Exit, TypeOK, files
<1>6. \A k : Users(w, k)' = {}
  BY <1>2 DEF Users, Of, Gone
<1>7. \A v \in Workers \ {w}, k \in CtxId : Users(v, k)' = Users(v, k)
  BY <1>2, <1>4 DEF Users, Of, Gone
<1>8. RefsExact'
  <2>1. Cardinality({}) = 0
    BY FS_EmptySet
  <2>2. \A k \in CtxId : NoTls.ctxs[k].refs = 0 /\ NoTls.ctx # k /\ NoTls.new_ctx # k
    BY WorkerLifeAssumption DEF NoTls, Empty
  <2>3. SUFFICES ASSUME NEW v \in Workers, NEW k \in CtxId
                 PROVE  tls'[v].ctxs[k].refs = Cardinality(Users(v, k)')
                                               + (IF tls'[v].ctx = k THEN 1 ELSE 0)
                                               + (IF tls'[v].new_ctx = k THEN 1 ELSE 0)
    BY DEF RefsExact
  <2>4. CASE v = w
    <3>1. Cardinality(Users(v, k)') = 0
      BY <1>6, <2>1, <2>4
    <3>2. QED
      BY <1>1, <2>2, <2>4, <3>1
  <2>5. CASE v # w
    BY <1>1, <1>7, <2>5 DEF IInv, RefsExact
  <2>6. QED
    BY <2>4, <2>5
<1>9. ExpiryShown'
  BY <1>1 DEF IInv, ExpiryShown, NoTls
<1>10. Stage(w)'
  BY <1>1 DEF Stage, NoTls, HasTls, Running
<1>11. Stages'
  BY <1>1, <1>10, OtherStage DEF IInv, Stages
<1>12. Connections'
  <2>1. SUFFICES ASSUME NEW c \in Clients PROVE Connection(c)'
    BY DEF Connections
  <2>2. CASE client[c].worker = w
    <3>1. client'[c].state = "reset"
      BY <1>2, <2>2 DEF Gone
    <3>2. QED
      BY <3>1 DEF Connection
  <2>3. CASE client[c].worker # w
    <3>1. client'[c] = client[c] /\ Connection(c)
      BY <1>2, <2>3 DEF IInv, Connections, Gone
    <3>2. client[c].worker \in Workers =>
             /\ tls'[client[c].worker] = tls[client[c].worker]
             /\ listeners'[client[c].worker] = listeners[client[c].worker]
      BY <1>1, <2>3
    <3>3. QED
      BY <3>1, <3>2 DEF Connection, Good
  <2>4. QED
    BY <2>2, <2>3
<1>13. QED
  BY <1>5, <1>8, <1>9, <1>11, <1>12 DEF IInv
-----------------------------------------------------------------------------
(* The actions, one by one.                                                *)

(* Steps of worker_main that touch no context.                             *)
LEMMA QuietStartup ==
    ASSUME IInv, NEW w \in Workers,
           \/ fork_worker(w) \/ worker_init(w) \/ create_reuseport_socket(w)
           \/ create_tls_reuseport_socket(w)
           \/ \E sigs \in SUBSET Signals : setup_worker_signals(w, sigs)
    PROVE  IInv'
<1>0. TypeOK /\ Stages
  BY DEF IInv
<1>1. TypeOK'
  <2>1. CASE fork_worker(w) \/ worker_init(w)
    BY <1>0, <2>1 DEF fork_worker, worker_init, Proceed, TypeOK, Starting, files
  <2>2. CASE create_reuseport_socket(w) \/ create_tls_reuseport_socket(w)
    BY <1>0, <2>2 DEF create_reuseport_socket, create_tls_reuseport_socket, Proceed,
                      TypeOK, Starting, Ports, files
  <2>3. ASSUME NEW sigs \in SUBSET Signals, setup_worker_signals(w, sigs)
        PROVE  TypeOK'
    BY <1>0, <2>3, WorkerLifeAssumption
       DEF setup_worker_signals, TypeOK, Running, Fails, files
  <2>4. QED
    BY <2>1, <2>2, <2>3
<1>2. /\ UNCHANGED <<tls_enabled, tls, client>>
      /\ \A v \in Workers : "tls" \in listeners[v] => "tls" \in listeners'[v]
      /\ \A v \in Workers \ {w} : life'[v] = life[v] /\ listeners'[v] = listeners[v]
  BY <1>0 DEF fork_worker, worker_init, create_reuseport_socket,
         create_tls_reuseport_socket, setup_worker_signals, Proceed, TypeOK
<1>3. Stage(w)'
  <2>1. CASE fork_worker(w) \/ worker_init(w)
    BY <1>0, <2>1, ZenonT(30)
       DEF fork_worker, worker_init, Proceed, Stages, Stage, Good, TypeOK,
                      HasTls, Running
  <2>2. CASE create_reuseport_socket(w)
    BY <1>0, <2>2, ZenonT(30)
       DEF create_reuseport_socket, Proceed, Stages, Stage, Good, TypeOK,
                      HasTls, Running
  <2>3. CASE create_tls_reuseport_socket(w)
    BY <1>0, <2>3, ZenonT(30)
       DEF create_tls_reuseport_socket, Proceed, Stages, Stage, Good, TypeOK,
                      HasTls, Running
  <2>4. ASSUME NEW sigs \in SUBSET Signals, setup_worker_signals(w, sigs)
        PROVE  Stage(w)'
    BY <1>0, <2>4, ZenonT(30)
       DEF setup_worker_signals, Stages, Stage, Good, TypeOK, HasTls, Running
  <2>5. QED
    BY <2>1, <2>2, <2>3, <2>4
<1>4. Stages'
  BY <1>0, <1>2, <1>3, OtherStage, SMTT(90) DEF Stages
<1>5. QED
  BY <1>1, <1>2, <1>4, Quiet

(* The first context takes the certificate.                                *)
LEMMA InitCertKeeps ==
    ASSUME IInv, NEW w \in Workers, tls_context_init_cert(w)
    PROVE  IInv'
<1>0. TypeOK /\ RefsExact /\ Stage(w) /\ life[w] = "tls_cert"
  BY DEF IInv, Stages, tls_context_init_cert, Proceed
<1>. DEFINE t == tls_init_cert(tls[w], cert_file)
            k0 == fresh(tls[w].ctxs)
<1>1. cert_file \in Version /\ unused(tls[w].ctxs) # {} /\ cert_file # Unreadable
  BY <1>0 DEF tls_context_init_cert, TypeOK
<1>2. /\ k0 \in CtxId /\ tls[w].ctxs[k0].refs = 0
      /\ SSL_CTX_new(tls[w].ctxs, cert_file) \in Contexts
      /\ SSL_CTX_new(tls[w].ctxs, cert_file)[k0] =
            [cert |-> cert_file, key |-> Unreadable, refs |-> 1]
      /\ \A k \in CtxId \ {k0} : SSL_CTX_new(tls[w].ctxs, cert_file)[k] = tls[w].ctxs[k]
  BY <1>0, <1>1, TypeOf, NewContext
<1>. HIDE DEF k0
<1>3. /\ t = [tls[w] EXCEPT !.ctx = k0, !.ctxs = SSL_CTX_new(tls[w].ctxs, cert_file)]
      /\ tls' = [tls EXCEPT ![w] = t]
      /\ life' = [life EXCEPT ![w] = "tls_key"]
      /\ UNCHANGED <<tls_enabled, files, listeners, handled, usr1, usr2, draining,
                     stopping, client, failures>>
  BY DEF tls_context_init_cert, tls_init_cert, Proceed, k0
<1>. HIDE DEF t
<1>4. /\ t.ctx = k0 /\ t.new_ctx = tls[w].new_ctx /\ t.cert_expiry = tls[w].cert_expiry
      /\ t.ctxs = SSL_CTX_new(tls[w].ctxs, cert_file)
      /\ t \in TLSContext
  BY <1>0, <1>2, <1>3, TlsTyped, ZenonT(30) DEF TLSContext, Contexts
<1>5. TypeOK'
  BY <1>0, <1>3, <1>4 DEF TypeOK, files, Starting
<1>6. /\ tls[w].ctx = NULL /\ tls[w].new_ctx = NULL /\ tls[w].cert_expiry = 0
      /\ tls_enabled
  BY <1>0 DEF Stage, HasTls, Running, IInv, ExpiryShown
<1>7. /\ \A k \in CtxId : t.ctxs[k].refs = Cardinality(Users(w, k))
                                           + (IF t.ctx = k THEN 1 ELSE 0)
                                           + (IF t.new_ctx = k THEN 1 ELSE 0)
      /\ Users(w, k0) = {}
  <2>1. Cardinality(Users(w, k0)) = 0 /\ Users(w, k0) = {}
    BY <1>0, <1>2, NotInUse
  <2>2. QED
    BY <1>0, <1>2, <1>4, <1>6, <2>1, WorkerLifeAssumption, UsersCounted, SMTT(60) DEF RefsExact
<1>8. Stage(w)'
  BY <1>0, <1>1, <1>2, <1>3, <1>4, <1>6, WorkerLifeAssumption
     DEF Stage, HasTls, Running, TypeOK
<1>9. \A k \in CtxId : Users(w, k) # {} =>
        t.ctxs[k].cert = tls[w].ctxs[k].cert /\ t.ctxs[k].key = tls[w].ctxs[k].key
  BY <1>2, <1>4, <1>7
<1>10. /\ tls'[w] = t
       /\ \A v \in Workers \ {w} : life'[v] = life[v] /\ tls'[v] = tls[v]
  BY <1>0, <1>3 DEF TypeOK
<1>11. tls'[w].cert_expiry = 0 /\ UNCHANGED <<tls_enabled, listeners, client>>
  BY <1>3, <1>4, <1>6, <1>10
<1>12. CountsUsers(w, tls'[w]) /\ KeepsPairs(w, tls'[w]) /\ ShowsExpiry(tls'[w])
  BY <1>7, <1>9, <1>10, <1>11 DEF CountsUsers, KeepsPairs, ShowsExpiry
<1>13. QED
  BY <1>5, <1>8, <1>10, <1>11, <1>12, OwnContext

(* A key loaded into a context leaves the counts and the others alone.     *)
LEMMA UseKey ==
    ASSUME NEW ctxs \in Contexts, NEW k \in CtxId, NEW key \in Version
    PROVE  /\ SSL_CTX_use_key(ctxs, k, key) \in Contexts
           /\ SSL_CTX_use_key(ctxs, k, key)[k].key = key
           /\ SSL_CTX_use_key(ctxs, k, key)[k].cert = ctxs[k].cert
           /\ SSL_CTX_use_key(ctxs, k, key)[k].refs = ctxs[k].refs
           /\ \A j \in CtxId \ {k} : SSL_CTX_use_key(ctxs, k, key)[j] = ctxs[j]
BY DEF SSL_CTX_use_key, Contexts

(* Users of a context whose certificate is k's have k's key.               *)
LEMMA UsersGood ==
    ASSUME Connections, NEW w \in Workers, NEW k \in CtxId, Users(w, k) # {}
    PROVE  Good(w, k)
<1>1. PICK c \in Clients : client[c].worker = w /\ client[c].state = "open" /\ client[c].ctx = k
  BY DEF Users, Of
<1>2. QED
  BY <1>1, WorkerLifeAssumption DEF Connections, Connection

(* ... then the key, which has to match.                                   *)
LEMMA InitKeyKeeps ==
    ASSUME IInv, NEW w \in Workers, NEW known \in BOOLEAN, tls_context_init_key(w, known)
    PROVE  IInv'
<1>0. TypeOK /\ RefsExact /\ Stage(w) /\ Connections /\ life[w] = "tls_key"
  BY DEF IInv, Stages, tls_context_init_key, Proceed
<1>. DEFINE t == tls_init_key(tls[w], key_file, known)
            k0 == tls[w].ctx
            ctxs == SSL_CTX_use_key(tls[w].ctxs, k0, key_file)
<1>1. /\ k0 \in CtxId /\ tls[w].ctxs[k0].cert # Unreadable
      /\ tls_enabled /\ tls[w].new_ctx = NULL
  BY <1>0, TypeOf DEF Stage, HasTls
<1>2. key_file \in Version /\ tls[w].ctxs[k0].cert = key_file
  BY <1>0 DEF tls_context_init_key, key_matches, TypeOK
<1>3. /\ ctxs \in Contexts
      /\ ctxs[k0].key = key_file /\ ctxs[k0].cert = key_file
      /\ ctxs[k0].refs = tls[w].ctxs[k0].refs
      /\ \A k \in CtxId \ {k0} : ctxs[k] = tls[w].ctxs[k]
  <2>1. tls[w].ctxs \in Contexts
    BY <1>0, TypeOf
  <2>. HIDE DEF k0
  <2>2. QED
    BY <1>1, <1>2, <2>1, UseKey
<1>. HIDE DEF ctxs
<1>4. /\ t = [tls[w] EXCEPT !.ctxs = ctxs, !.cert_expiry = not_after(key_file, known)]
      /\ tls' = [tls EXCEPT ![w] = t]
      /\ life' = [life EXCEPT ![w] = "tls_bind"]
      /\ UNCHANGED <<tls_enabled, files, listeners, handled, usr1, usr2, draining,
                     stopping, client, failures>>
  BY <1>2 DEF tls_context_init_key, tls_init_key, Proceed, ctxs
<1>. HIDE DEF t
<1>5. not_after(key_file, known) \in {0, key_file + 1}
      /\ not_after(key_file, known) \in 0..MaxRenewals + 1
  BY <1>2, WorkerLifeAssumption DEF not_after, Version
<1>6. /\ t.ctx = k0 /\ t.new_ctx = NULL /\ t.cert_expiry \in {0, key_file + 1}
      /\ t.ctxs = ctxs
      /\ t \in TLSContext
  BY <1>0, <1>1, <1>3, <1>4, <1>5, TlsTyped, ZenonT(30) DEF TLSContext, Contexts
<1>7. TypeOK'
  BY <1>0, <1>4, <1>6 DEF TypeOK, files, Starting
<1>8. /\ tls'[w] = t
      /\ \A v \in Workers \ {w} : life'[v] = life[v] /\ tls'[v] = tls[v]
      /\ life'[w] = "tls_bind"
  BY <1>0, <1>4 DEF TypeOK
<1>9. \A k \in CtxId :
        t.ctxs[k].refs = Cardinality(Users(w, k)) + (IF t.ctx = k THEN 1 ELSE 0)
                         + (IF t.new_ctx = k THEN 1 ELSE 0)
  <2>1. \A k \in CtxId : t.ctxs[k].refs = tls[w].ctxs[k].refs
    BY <1>3, <1>6, ZenonT(30)
  <2>2. t.ctx = tls[w].ctx /\ t.new_ctx = tls[w].new_ctx
    BY <1>1, <1>6
  <2>3. QED
    BY <1>0, <2>1, <2>2, ZenonT(30) DEF RefsExact
<1>10. \A k \in CtxId : Users(w, k) # {} =>
        t.ctxs[k].cert = tls[w].ctxs[k].cert /\ t.ctxs[k].key = tls[w].ctxs[k].key
  BY <1>0, <1>1, <1>2, <1>3, <1>6, UsersGood, SMTT(90) DEF Good
<1>11. Stage(w)'
  <2>1. t.ctx # NULL /\ t.ctxs[t.ctx].cert = key_file /\ t.ctxs[t.ctx].key = key_file
    BY <1>1, <1>3, <1>6, WorkerLifeAssumption
  <2>2. key_file # Unreadable
    BY <1>1, <1>2
  <2>3. tls_enabled' /\ "tls" \notin listeners'[w]
    BY <1>0, <1>1, <1>4 DEF Stage
  <2>4. QED
    BY <1>6, <1>8, <2>1, <2>2, <2>3 DEF Stage, Good, HasTls
<1>12. t.cert_expiry # 0 => t.ctx # NULL /\ t.cert_expiry = t.ctxs[t.ctx].cert + 1
  BY <1>1, <1>3, <1>6, WorkerLifeAssumption
<1>13. UNCHANGED <<tls_enabled, listeners, client>>
  BY <1>4
<1>. HIDE DEF k0
<1>14. CountsUsers(w, tls'[w]) /\ KeepsPairs(w, tls'[w]) /\ ShowsExpiry(tls'[w])
  BY <1>8, <1>9, <1>10, <1>12 DEF CountsUsers, KeepsPairs, ShowsExpiry
<1>15. QED
  BY <1>7, <1>8, <1>11, <1>13, <1>14, OwnContext

(* signal_reload_cb, when the certificate was read.                        *)
LEMMA ReloadCertKeeps ==
    ASSUME IInv, NEW w \in Workers, signal_reload_cb(w), life'[w] = "reload_key"
    PROVE  IInv'
<1>0. TypeOK /\ RefsExact /\ Stage(w) /\ ExpiryShown /\ life[w] = "serving"
  BY DEF IInv, Stages, signal_reload_cb
<1>. DEFINE t == tls_reload_cert(tls[w], cert_file)
            k0 == fresh(tls[w].ctxs)
<1>1. /\ cert_file \in Version /\ unused(tls[w].ctxs) # {} /\ cert_file # Unreadable
      /\ tls_enabled
      /\ tls' = [tls EXCEPT ![w] = t] /\ life' = [life EXCEPT ![w] = "reload_key"]
      /\ usr2' = [usr2 EXCEPT ![w] = FALSE]
      /\ UNCHANGED <<tls_enabled, files, listeners, handled, usr1, draining,
                     stopping, client, failures>>
  BY <1>0 DEF signal_reload_cb, TypeOK
<1>2. /\ k0 \in CtxId /\ tls[w].ctxs[k0].refs = 0
      /\ SSL_CTX_new(tls[w].ctxs, cert_file) \in Contexts
      /\ SSL_CTX_new(tls[w].ctxs, cert_file)[k0] =
            [cert |-> cert_file, key |-> Unreadable, refs |-> 1]
      /\ \A k \in CtxId \ {k0} : SSL_CTX_new(tls[w].ctxs, cert_file)[k] = tls[w].ctxs[k]
  BY <1>0, <1>1, TypeOf, NewContext, SMTT(90)
<1>. HIDE DEF k0
<1>3. t = [tls[w] EXCEPT !.new_ctx = k0, !.ctxs = SSL_CTX_new(tls[w].ctxs, cert_file)]
  BY DEF tls_reload_cert, k0
<1>. HIDE DEF t
<1>4. /\ t.new_ctx = k0 /\ t.ctx = tls[w].ctx /\ t.cert_expiry = tls[w].cert_expiry
      /\ t.ctxs = SSL_CTX_new(tls[w].ctxs, cert_file)
      /\ t \in TLSContext
  BY <1>0, <1>2, <1>3, TlsTyped, ZenonT(30) DEF TLSContext, Contexts
<1>5. TypeOK'
  BY <1>0, <1>1, <1>4 DEF TypeOK, files, Running
<1>6. /\ tls[w].new_ctx = NULL /\ tls[w].ctx \in CtxId /\ tls[w].ctx # k0
      /\ Good(w, tls[w].ctx)
  <2>1. tls[w].ctx # k0
    BY <1>0, <1>2, NotInUse, SMTT(90)
  <2>2. tls[w].ctx \in CtxId \cup {NULL}
    BY <1>0, TypeOf
  <2>3. QED
    BY <1>0, <1>1, <2>1, <2>2 DEF Stage, HasTls, Running
<1>7. /\ tls'[w] = t
      /\ \A v \in Workers \ {w} : life'[v] = life[v] /\ tls'[v] = tls[v]
  BY <1>0, <1>1 DEF TypeOK
<1>8. Cardinality(Users(w, k0)) = 0 /\ Users(w, k0) = {}
  BY <1>0, <1>2, NotInUse, SMTT(90)
<1>9. \A k \in CtxId :
        t.ctxs[k].refs = Cardinality(Users(w, k)) + (IF t.ctx = k THEN 1 ELSE 0)
                         + (IF t.new_ctx = k THEN 1 ELSE 0)
  BY <1>0, <1>2, <1>4, <1>6, <1>8, WorkerLifeAssumption, UsersCounted, SMTT(90)
     DEF RefsExact
<1>10. \A k \in CtxId : Users(w, k) # {} =>
        t.ctxs[k].cert = tls[w].ctxs[k].cert /\ t.ctxs[k].key = tls[w].ctxs[k].key
  BY <1>2, <1>4, <1>8, ZenonT(30)
<1>11. Stage(w)'
  <2>1. tls'[w].ctx = tls[w].ctx /\ tls'[w].new_ctx = k0
    BY <1>4, <1>7, ZenonT(30)
  <2>2. tls[w].ctx # NULL /\ k0 # NULL
    BY <1>2, <1>6, WorkerLifeAssumption, ZenonT(30)
  <2>3. /\ tls'[w].ctxs[k0].cert # Unreadable
        /\ tls'[w].ctxs[tls[w].ctx] = tls[w].ctxs[tls[w].ctx]
    BY <1>1, <1>2, <1>4, <1>6, <1>7, SMTT(60)
  <2>4. Good(w, tls[w].ctx)'
    BY <1>6, <2>1, <2>3, ZenonT(30) DEF Good
  <2>5. life'[w] = "reload_key" /\ tls_enabled'
    BY <1>0, <1>1 DEF TypeOK
  <2>6. QED
    BY <1>6, <2>1, <2>2, <2>3, <2>4, <2>5 DEF Stage, HasTls, Running
<1>12. t.cert_expiry # 0 => t.ctx # NULL /\ t.cert_expiry = t.ctxs[t.ctx].cert + 1
  <2>1. t.ctxs[t.ctx] = tls[w].ctxs[tls[w].ctx]
    BY <1>2, <1>4, <1>6, ZenonT(30)
  <2>2. QED
    BY <1>0, <1>4, <2>1, ZenonT(30) DEF ExpiryShown
<1>13. CountsUsers(w, tls'[w]) /\ KeepsPairs(w, tls'[w]) /\ ShowsExpiry(tls'[w])
  BY <1>7, <1>9, <1>10, <1>12, ZenonT(30)
     DEF CountsUsers, KeepsPairs, ShowsExpiry
<1>14. QED
  BY <1>1, <1>5, <1>7, <1>11, <1>13, OwnContext

(* The rest of the reload, when it fails: the new context is gone again.   *)
LEMMA ReloadFailsKeeps ==
    ASSUME IInv, NEW w \in Workers, life[w] = "reload_key",
           life' = [life EXCEPT ![w] = "serving"],
           tls' = [tls EXCEPT ![w] = tls_reload_fails(tls[w])],
           failures' \in 0..MaxFailures,
           UNCHANGED <<tls_enabled, files, listeners, handled, usr1, usr2, draining,
                       stopping, client>>
    PROVE  IInv'
<1>0. TypeOK /\ RefsExact /\ Stage(w) /\ ExpiryShown
  BY DEF IInv, Stages
<1>. DEFINE t == tls_reload_fails(tls[w])
            n == tls[w].new_ctx
            ctxs == SSL_CTX_free(tls[w].ctxs, n)
<1>1. /\ n \in CtxId /\ tls[w].ctx \in CtxId /\ tls[w].ctx # n /\ tls_enabled
      /\ Good(w, tls[w].ctx)
  BY <1>0, TypeOf DEF Stage, HasTls, Running
<1>2. tls[w].ctxs \in Contexts /\ tls[w].ctxs[n].refs > 0
  BY <1>0, <1>1, TypeOf, InUse, SMTT(30)
<1>3. t = [tls[w] EXCEPT !.new_ctx = NULL, !.ctxs = ctxs]
  BY DEF tls_reload_fails
<1>. HIDE DEF t, n
<1>4. /\ ctxs \in Contexts
      /\ ctxs[n].refs = tls[w].ctxs[n].refs - 1
      /\ tls[w].ctxs[n].refs > 1 => /\ ctxs[n].cert = tls[w].ctxs[n].cert
                                    /\ ctxs[n].key = tls[w].ctxs[n].key
      /\ \A k \in CtxId \ {n} : ctxs[k] = tls[w].ctxs[k]
  BY <1>1, <1>2, FreeContext, ZenonT(30)
<1>. HIDE DEF ctxs
<1>5. /\ t.new_ctx = NULL /\ t.ctx = tls[w].ctx /\ t.cert_expiry = tls[w].cert_expiry
      /\ t.ctxs = ctxs /\ t \in TLSContext
  BY <1>0, <1>3, <1>4, TlsTyped, ZenonT(30) DEF TLSContext, Contexts
<1>6. /\ tls'[w] = t /\ life'[w] = "serving"
      /\ \A v \in Workers \ {w} : life'[v] = life[v] /\ tls'[v] = tls[v]
  BY <1>0 DEF TypeOK, t
<1>7. TypeOK'
  BY <1>0, <1>5 DEF TypeOK, files, Running, t
<1>8. Cardinality(Users(w, n)) \in Nat
      /\ (Users(w, n) # {} => Cardinality(Users(w, n)) # 0)
  BY UsersCounted, FS_EmptySet
<1>9. \A k \in CtxId :
        t.ctxs[k].refs = Cardinality(Users(w, k)) + (IF t.ctx = k THEN 1 ELSE 0)
                         + (IF t.new_ctx = k THEN 1 ELSE 0)
  <2>1. tls[w].ctxs[n].refs = Cardinality(Users(w, n)) + 1
    BY <1>0, <1>1, <1>8 DEF RefsExact, n
  <2>2. ASSUME NEW k \in CtxId, k # n
        PROVE  tls[w].ctxs[k].refs = Cardinality(Users(w, k))
                                     + (IF tls[w].ctx = k THEN 1 ELSE 0)
    <3>1. Cardinality(Users(w, k)) \in Nat
      BY UsersCounted
    <3>2. QED
      BY <1>0, <1>1, <2>2, <3>1 DEF RefsExact, n
  <2>3. ASSUME NEW k \in CtxId
        PROVE  t.ctxs[k].refs = Cardinality(Users(w, k))
                                + (IF t.ctx = k THEN 1 ELSE 0)
                                + (IF t.new_ctx = k THEN 1 ELSE 0)
    <3>1. Cardinality(Users(w, k)) \in Nat
      BY UsersCounted
    <3>2. QED
      BY <1>1, <1>4, <1>5, <1>8, <2>1, <2>2, <3>1, WorkerLifeAssumption,
         SMTT(90)
  <2>4. QED
    BY <2>3
<1>10. \A k \in CtxId : Users(w, k) # {} =>
        t.ctxs[k].cert = tls[w].ctxs[k].cert /\ t.ctxs[k].key = tls[w].ctxs[k].key
  <2>1. Users(w, n) # {} => tls[w].ctxs[n].refs > 1
    BY <1>0, <1>1, <1>8, SMTT(90) DEF RefsExact, n
  <2>2. QED
    BY <1>4, <1>5, <2>1, SMTT(90)
<1>11. Stage(w)'
  <2>1. tls'[w].ctx = tls[w].ctx /\ tls'[w].new_ctx = NULL
    BY <1>5, <1>6, ZenonT(30)
  <2>2. tls[w].ctx # NULL
    BY <1>1, WorkerLifeAssumption, ZenonT(30)
  <2>3. tls'[w].ctxs[tls[w].ctx] = tls[w].ctxs[tls[w].ctx]
    BY <1>1, <1>4, <1>5, <1>6
  <2>4. Good(w, tls[w].ctx)'
    BY <1>1, <2>1, <2>3, ZenonT(30) DEF Good
  <2>5. life'[w] = "serving" /\ tls_enabled'
    BY <1>1, <1>6
  <2>6. QED
    BY <2>1, <2>2, <2>4, <2>5 DEF Stage, HasTls, Running
<1>12. t.cert_expiry # 0 => t.ctx # NULL /\ t.cert_expiry = t.ctxs[t.ctx].cert + 1
  BY <1>0, <1>1, <1>4, <1>5, ZenonT(30) DEF ExpiryShown
<1>13. CountsUsers(w, tls'[w]) /\ KeepsPairs(w, tls'[w]) /\ ShowsExpiry(tls'[w])
  BY <1>6, <1>9, <1>10, <1>12, SMTT(90) DEF CountsUsers, KeepsPairs, ShowsExpiry
<1>14. QED
  BY <1>6, <1>7, <1>11, <1>13, OwnContext

(* ... and when it succeeds: the contexts are swapped, the old one lives   *)
(* on only if a connection uses it.                                        *)
LEMMA ReloadSwapKeeps ==
    ASSUME IInv, NEW w \in Workers, NEW known \in BOOLEAN, life[w] = "reload_key",
           key_matches(tls[w], tls[w].new_ctx, key_file),
           life' = [life EXCEPT ![w] = "serving"],
           tls' = [tls EXCEPT ![w] = tls_reload_swap(tls[w], key_file, known)],
           UNCHANGED <<tls_enabled, files, listeners, handled, usr1, usr2, draining,
                       stopping, client, failures>>
    PROVE  IInv'
<1>0. TypeOK /\ RefsExact /\ Stage(w) /\ Connections
  BY DEF IInv, Stages
<1>. DEFINE t == tls_reload_swap(tls[w], key_file, known)
            n == tls[w].new_ctx
            o == tls[w].ctx
            keyed == SSL_CTX_use_key(tls[w].ctxs, n, key_file)
            ctxs == SSL_CTX_free(keyed, o)
<1>1. /\ n \in CtxId /\ o \in CtxId /\ o # n /\ tls_enabled
      /\ tls[w].ctxs[n].cert # Unreadable
  BY <1>0, TypeOf, ZenonT(30) DEF Stage, HasTls, Running
<1>2. /\ tls[w].ctxs \in Contexts /\ tls[w].ctxs[o].refs > 0
      /\ key_file \in Version /\ tls[w].ctxs[n].cert = key_file
  BY <1>0, <1>1, TypeOf, InUse, ZenonT(30) DEF key_matches, TypeOK
<1>3. t = [tls[w] EXCEPT !.ctx = n, !.new_ctx = NULL,
                         !.cert_expiry = not_after(key_file, known), !.ctxs = ctxs]
  BY <1>2 DEF tls_reload_swap
<1>. HIDE DEF t, n, o
<1>4. /\ keyed \in Contexts
      /\ keyed[n].key = key_file /\ keyed[n].cert = key_file
      /\ keyed[n].refs = tls[w].ctxs[n].refs
      /\ \A k \in CtxId \ {n} : keyed[k] = tls[w].ctxs[k]
  BY <1>1, <1>2, UseKey, SMTT(90)
<1>. HIDE DEF keyed
<1>5. keyed[o].refs > 0
  BY <1>1, <1>2, <1>4, SMTT(30)
<1>6. /\ ctxs \in Contexts
      /\ ctxs[o].refs = keyed[o].refs - 1
      /\ keyed[o].refs > 1 => ctxs[o].cert = keyed[o].cert /\ ctxs[o].key = keyed[o].key
      /\ \A k \in CtxId \ {o} : ctxs[k] = keyed[k]
  BY <1>1, <1>4, <1>5, FreeContext, ZenonT(30)
<1>. HIDE DEF ctxs
<1>7. not_after(key_file, known) \in {0, key_file + 1}
      /\ not_after(key_file, known) \in 0..MaxRenewals + 1
  BY <1>2, WorkerLifeAssumption, SMTT(90) DEF not_after, Version
<1>8. /\ t.ctx = n /\ t.new_ctx = NULL /\ t.cert_expiry \in {0, key_file + 1}
      /\ t.ctxs = ctxs /\ t \in TLSContext
  BY <1>0, <1>1, <1>3, <1>6, <1>7, TlsTyped, ZenonT(30) DEF TLSContext, Contexts
<1>9. /\ tls'[w] = t /\ life'[w] = "serving"
      /\ \A v \in Workers \ {w} : life'[v] = life[v] /\ tls'[v] = tls[v]
  BY <1>0, SMTT(30) DEF TypeOK, t
<1>10. TypeOK'
  BY <1>0, <1>8 DEF TypeOK, files, Running, t
<1>11. ASSUME NEW k \in CtxId
       PROVE  t.ctxs[k].refs = Cardinality(Users(w, k)) + (IF t.ctx = k THEN 1 ELSE 0)
                               + (IF t.new_ctx = k THEN 1 ELSE 0)
  <2>1. Cardinality(Users(w, k)) \in Nat
    BY UsersCounted
  <2>2. tls[w].ctxs[k].refs = Cardinality(Users(w, k)) + (IF o = k THEN 1 ELSE 0)
                              + (IF n = k THEN 1 ELSE 0)
    BY <1>0 DEF RefsExact, o, n
  <2>3. CASE k = o
    BY <1>1, <1>4, <1>6, <1>8, <2>1, <2>2, <2>3, WorkerLifeAssumption, SMTT(90)
  <2>4. CASE k # o
    BY <1>1, <1>4, <1>6, <1>8, <2>1, <2>2, <2>4, WorkerLifeAssumption, SMTT(90)
  <2>5. QED
    BY <2>3, <2>4, SMTT(90)
<1>12. ASSUME NEW k \in CtxId, Users(w, k) # {}
       PROVE  t.ctxs[k].cert = tls[w].ctxs[k].cert /\ t.ctxs[k].key = tls[w].ctxs[k].key
  <2>1. CASE k = n
    BY <1>0, <1>1, <1>2, <1>4, <1>6, <1>8, <1>12, <2>1, UsersGood, ZenonT(30)
       DEF Good
  <2>2. CASE k = o
    <3>1. Cardinality(Users(w, o)) \in Nat /\ Cardinality(Users(w, o)) # 0
      BY <1>12, <2>2, UsersCounted, FS_EmptySet
    <3>2. tls[w].ctxs[o].refs = Cardinality(Users(w, o)) + 1
      BY <1>0, <1>1, <3>1, SMTT(90) DEF RefsExact, o, n
    <3>3. keyed[o].refs > 1
      BY <1>1, <1>4, <3>1, <3>2, SMTT(90)
    <3>4. QED
      BY <1>1, <1>4, <1>6, <1>8, <2>2, <3>3, ZenonT(30)
  <2>3. CASE k # n /\ k # o
    BY <1>4, <1>6, <1>8, <2>3, SMTT(90)
  <2>4. QED
    BY <2>1, <2>2, <2>3, ZenonT(30)
<1>13. t.ctx # NULL /\ t.ctxs[t.ctx].cert = key_file /\ t.ctxs[t.ctx].key = key_file
  BY <1>1, <1>4, <1>6, <1>8, WorkerLifeAssumption, SMTT(90)
<1>14. Stage(w)'
  <2>1. key_file # Unreadable
    BY <1>1, <1>2, SMTT(30)
  <2>2. QED
    BY <1>1, <1>8, <1>9, <1>13, <2>1, ZenonT(30)
       DEF Stage, Good, HasTls, Running
<1>15. t.cert_expiry # 0 => t.ctx # NULL /\ t.cert_expiry = t.ctxs[t.ctx].cert + 1
  BY <1>8, <1>13
<1>16. UNCHANGED <<tls_enabled, listeners, client>>
  BY <1>0
<1>17. CountsUsers(w, tls'[w]) /\ KeepsPairs(w, tls'[w]) /\ ShowsExpiry(tls'[w])
  BY <1>9, <1>11, <1>12, <1>15, ZenonT(30)
     DEF CountsUsers, KeepsPairs, ShowsExpiry
<1>18. QED
  BY <1>9, <1>10, <1>14, <1>16, <1>17, OwnContext
=============================================================================
