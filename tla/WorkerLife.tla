----------------------------- MODULE WorkerLife -----------------------------
(***************************************************************************)
(* The worker processes from fork to exit (worker.c: worker_main, the      *)
(* signal callbacks, worker_cleanup), with the TLS context each keeps      *)
(* (TlsContext), the certificate files somebody renews meanwhile, and the  *)
(* listening sockets, on which the kernel queues clients from listen() to  *)
(* the exit of the process, whether or not the worker accepts them.        *)
(*                                                                         *)
(* What a worker does with an accepted connection is the module Worker;    *)
(* here a connection is open until it is freed.                            *)
(***************************************************************************)
EXTENDS TlsContext, FiniteSets

CONSTANTS Workers,        \* worker processes, of one or several generations
          Clients,        \* clients; each connects once
          MaxFailures     \* bound: allocations and system calls that fail

ASSUME WorkerLifeAssumption ==
    /\ IsFiniteSet(Clients)
    /\ MaxRenewals \in Nat
    /\ MaxFailures \in Nat
    /\ NULL \notin CtxId

VARIABLES
    tls_enabled,          \* config->tls_enabled
    cert_file, key_file,  \* the version in each file, or Unreadable
    renewal,              \* the last renewal that was started
    life,                 \* how far each process is
    tls,                  \* worker->tls
    listeners,            \* the listening sockets of each process
    handled,              \* the signals it has a handler for
    usr1, usr2,           \* signals that are pending
    draining, stopping,   \* worker->draining; event_base_loopexit was called
    client,               \* the clients, as they and the kernel see them
    failures

procs == <<life, tls, listeners, handled, usr1, usr2, draining, stopping>>
files == <<cert_file, key_file, renewal>>
vars  == <<tls_enabled, files, procs, client, failures>>

(* In worker_main up to setup_worker_signals; in the event loop, or in     *)
(* tls_context_reload between its two reads.                               *)
Starting == {"init", "bind", "tls_cert", "tls_key", "tls_bind", "signals"}
Running  == {"serving", "reload_key"}
Ports    == {"http", "tls"}
Signals  == {"USR1", "USR2"}

Client == [state : {"new", "queued", "open", "served", "reset", "refused"},
           worker : Workers \cup {NULL}, port : Ports,
           ctx : CtxId \cup {NULL}]
Gone(state) ==
    [state |-> state, worker |-> NULL, port |-> "http", ctx |-> NULL]

TypeOK ==
    /\ tls_enabled \in BOOLEAN
    /\ cert_file \in Version \cup {Unreadable}
    /\ key_file \in Version \cup {Unreadable}
    /\ renewal \in Version
    /\ life \in [Workers -> Starting \cup Running \cup {"unborn", "exited"}]
    /\ tls \in [Workers -> TLSContext]
    /\ listeners \in [Workers -> SUBSET Ports]
    /\ handled \in [Workers -> SUBSET Signals]
    /\ usr1 \in [Workers -> BOOLEAN]
    /\ usr2 \in [Workers -> BOOLEAN]
    /\ draining \in [Workers -> BOOLEAN]
    /\ stopping \in [Workers -> BOOLEAN]
    /\ client \in [Clients -> Client]
    /\ failures \in 0..MaxFailures

Init ==
    /\ tls_enabled \in BOOLEAN
    /\ cert_file = 0
    /\ key_file = 0
    /\ renewal = 0
    /\ life = [w \in Workers |-> "unborn"]
    /\ tls = [w \in Workers |-> NoTls]
    /\ listeners = [w \in Workers |-> {}]
    /\ handled = [w \in Workers |-> {}]
    /\ usr1 = [w \in Workers |-> FALSE]
    /\ usr2 = [w \in Workers |-> FALSE]
    /\ draining = [w \in Workers |-> FALSE]
    /\ stopping = [w \in Workers |-> FALSE]
    /\ client = [c \in Clients |-> Gone("new")]
    /\ failures = 0

Of(w, state) ==
    {c \in Clients : client[c].worker = w /\ client[c].state = state}

(* A call that can fail does.                                              *)
Fails == failures < MaxFailures /\ failures' = failures + 1

-----------------------------------------------------------------------------
(* The end of a process, for whatever reason: the kernel closes its        *)
(* sockets and resets the clients, the queued ones included.               *)
Exit(w) ==
    /\ life' = [life EXCEPT ![w] = "exited"]
    /\ tls' = [tls EXCEPT ![w] = NoTls]
    /\ listeners' = [listeners EXCEPT ![w] = {}]
    /\ handled' = [handled EXCEPT ![w] = {}]
    /\ usr1' = [usr1 EXCEPT ![w] = FALSE]
    /\ usr2' = [usr2 EXCEPT ![w] = FALSE]
    /\ draining' = [draining EXCEPT ![w] = FALSE]
    /\ stopping' = [stopping EXCEPT ![w] = FALSE]
    /\ client' = [c \in Clients |->
                     IF client[c].worker = w THEN Gone("reset") ELSE client[c]]

(* The next stage of worker_main.                                          *)
Proceed(w, from, to) ==
    /\ life[w] = from
    /\ life' = [life EXCEPT ![w] = to]
    /\ UNCHANGED <<tls_enabled, files, handled, usr1, usr2, draining, stopping,
                   client, failures>>

(* The master forks the process.                                           *)
fork_worker(w) == Proceed(w, "unborn", "init") /\ UNCHANGED <<tls, listeners>>

(* Slots, rate limiter, access lists, static files, event base, RPC.       *)
worker_init(w) == Proceed(w, "init", "bind") /\ UNCHANGED <<tls, listeners>>

(* From here on the kernel queues clients for this process.                *)
create_reuseport_socket(w) ==
    /\ Proceed(w, "bind", IF tls_enabled THEN "tls_cert" ELSE "signals")
    /\ listeners' = [listeners EXCEPT ![w] = @ \cup {"http"}]
    /\ UNCHANGED tls

tls_context_init_cert(w) ==
    /\ cert_file # Unreadable
    /\ unused(tls[w].ctxs) # {}
    /\ Proceed(w, "tls_cert", "tls_key")
    /\ tls' = [tls EXCEPT ![w] = tls_init_cert(@, cert_file)]
    /\ UNCHANGED listeners

tls_context_init_key(w, known) ==
    /\ Proceed(w, "tls_key", "tls_bind")
    /\ key_matches(tls[w], tls[w].ctx, key_file)
    /\ tls' = [tls EXCEPT ![w] = tls_init_key(@, key_file, known)]
    /\ UNCHANGED listeners

create_tls_reuseport_socket(w) ==
    /\ Proceed(w, "tls_bind", "signals")
    /\ listeners' = [listeners EXCEPT ![w] = @ \cup {"tls"}]
    /\ UNCHANGED tls

(* Faulty variant: SIGUSR2 keeps its default action.                       *)
FaultySignals(w, sigs) ==
    /\ life[w] = "signals"
    /\ life' = [life EXCEPT ![w] = "serving"]
    /\ handled' = [handled EXCEPT ![w] = sigs \ {"USR2"}]
    /\ IF sigs = Signals THEN UNCHANGED failures ELSE Fails
    /\ UNCHANGED <<tls_enabled, files, tls, listeners, usr1, usr2, draining,
                   stopping, client>>

(* Both handlers, the cleanup timer, seccomp; then the loop is entered.    *)
(* A handler there is no memory for is left out.                           *)
setup_worker_signals(w, sigs) ==
    /\ life[w] = "signals"
    /\ life' = [life EXCEPT ![w] = "serving"]
    /\ handled' = [handled EXCEPT ![w] = sigs]
    /\ IF sigs = Signals THEN UNCHANGED failures ELSE Fails
    /\ UNCHANGED <<tls_enabled, files, tls, listeners, usr1, usr2, draining,
                   stopping, client>>

(* exit(1): a call of the stage failed, or the files are not usable.       *)
startup_fails(w) ==
    /\ life[w] \in Starting \ {"signals"}
    /\ \/ Fails
       \/ /\ \/ life[w] = "tls_cert" /\ cert_file = Unreadable
             \/ life[w] = "tls_key" /\ ~key_matches(tls[w], tls[w].ctx, key_file)
          /\ UNCHANGED failures
    /\ Exit(w)
    /\ UNCHANGED <<tls_enabled, files>>

-----------------------------------------------------------------------------
(* Signals.  Without a handler a signal has its default action, which ends *)
(* the process.                                                            *)

kill(w, sig) ==
    /\ life[w] \in Starting \cup Running
    /\ \/ /\ sig \notin handled[w]
          /\ Exit(w)
       \/ /\ sig \in handled[w]
          /\ usr1' = [usr1 EXCEPT ![w] = @ \/ sig = "USR1"]
          /\ usr2' = [usr2 EXCEPT ![w] = @ \/ sig = "USR2"]
          /\ UNCHANGED <<life, tls, listeners, handled, draining, stopping,
                         client>>
    /\ UNCHANGED <<tls_enabled, files, failures>>

(* worker_check_drain: the listeners are disabled, not closed; the loop    *)
(* stops when no connection is left.                                       *)
worker_check_drain(w, d, open) ==
    stopping' = [stopping EXCEPT ![w] = @ \/ (d /\ open = {})]

signal_cb(w) ==
    /\ life[w] = "serving"
    /\ usr1[w]
    /\ usr1' = [usr1 EXCEPT ![w] = FALSE]
    /\ draining' = [draining EXCEPT ![w] = TRUE]
    /\ worker_check_drain(w, TRUE, Of(w, "open"))
    /\ UNCHANGED <<tls_enabled, files, life, tls, listeners, handled, usr2,
                   client, failures>>

(* signal_reload_cb up to the first read.  Nothing else runs in this       *)
(* process until it returns; the files may change.                         *)
signal_reload_cb(w) ==
    /\ life[w] = "serving"
    /\ usr2[w]
    /\ usr2' = [usr2 EXCEPT ![w] = FALSE]
    /\ \/ /\ tls_enabled /\ cert_file # Unreadable
          /\ unused(tls[w].ctxs) # {}
          /\ life' = [life EXCEPT ![w] = "reload_key"]
          /\ tls' = [tls EXCEPT ![w] = tls_reload_cert(@, cert_file)]
          /\ UNCHANGED failures
       \/ /\ UNCHANGED <<life, tls>>
          /\ \/ tls_enabled /\ Fails
             \/ /\ ~tls_enabled \/ cert_file = Unreadable
                /\ UNCHANGED failures
    /\ UNCHANGED <<tls_enabled, files, listeners, handled, usr1, draining,
                   stopping, client>>

(* Faulty variant: a signal that arrives during the reload is lost.        *)
FaultyReload(w, known) ==
    /\ life[w] = "reload_key"
    /\ life' = [life EXCEPT ![w] = "serving"]
    /\ IF key_matches(tls[w], tls[w].new_ctx, key_file)
       THEN tls' = [tls EXCEPT ![w] = tls_reload_swap(@, key_file, known)]
       ELSE tls' = [tls EXCEPT ![w] = tls_reload_fails(@)]
    /\ usr2' = [usr2 EXCEPT ![w] = FALSE]
    /\ UNCHANGED <<tls_enabled, files, listeners, handled, usr1, draining,
                   stopping, client, failures>>

(* The second read, and the rest of tls_context_reload.                    *)
tls_context_reload(w, known) ==
    LET ok == key_matches(tls[w], tls[w].new_ctx, key_file)
    IN  /\ life[w] = "reload_key"
        /\ life' = [life EXCEPT ![w] = "serving"]
        /\ \/ /\ ok
              /\ tls' = [tls EXCEPT ![w] = tls_reload_swap(@, key_file, known)]
              /\ UNCHANGED failures
           \/ /\ tls' = [tls EXCEPT ![w] = tls_reload_fails(@)]
              /\ \/ ~ok /\ UNCHANGED failures
                 \/ ok /\ Fails
        /\ UNCHANGED <<tls_enabled, files, listeners, handled, usr1, usr2,
                       draining, stopping, client>>
-----------------------------------------------------------------------------
(* Clients.  The kernel hands a new client to any socket that listens on   *)
(* the port; if there is none it refuses.                                  *)

connect(c, w, port) ==
    /\ client[c].state = "new"
    /\ port \in listeners[w]
    /\ client' = [client EXCEPT ![c] = [state |-> "queued", worker |-> w,
                                       port |-> port, ctx |-> NULL]]
    /\ UNCHANGED <<tls_enabled, files, procs, failures>>

connection_refused(c, port) ==
    /\ client[c].state = "new"
    /\ \A w \in Workers : port \notin listeners[w]
    /\ client' = [client EXCEPT ![c] = Gone("refused")]
    /\ UNCHANGED <<tls_enabled, files, procs, failures>>

Accepts(w, c) ==
    /\ life[w] = "serving"
    /\ ~draining[w]
    /\ client[c].worker = w
    /\ client[c].state = "queued"

(* accept_cb and tls_accept_cb.  A client that is not admitted (403, 429,  *)
(* 503) is answered and closed at once.                                    *)
accept_cb(w, c) ==
    /\ Accepts(w, c)
    /\ client' = [client EXCEPT ![c].state = "open",
                               ![c].ctx = IF client[c].port = "tls"
                                          THEN tls[w].ctx ELSE NULL]
    /\ tls' = IF client[c].port = "tls"
              THEN [tls EXCEPT ![w] = tls_create_ssl(@)] ELSE tls
    /\ UNCHANGED <<tls_enabled, files, life, listeners, handled, usr1, usr2,
                   draining, stopping, failures>>

accept_turns_away(w, c) ==
    /\ Accepts(w, c)
    /\ client' = [client EXCEPT ![c] = Gone("served")]
    /\ UNCHANGED <<tls_enabled, files, procs, failures>>

(* No memory for the SSL object, the bufferevent or the connection: the    *)
(* client is closed and what was made for it is freed.                     *)
accept_fails(w, c) ==
    /\ Accepts(w, c)
    /\ Fails
    /\ client' = [client EXCEPT ![c] = Gone("reset")]
    /\ UNCHANGED <<tls_enabled, files, procs>>

(* Faulty variant: the drain is not checked when a connection ends.        *)
FaultyConnectionFree(w, c) ==
    /\ life[w] = "serving"
    /\ c \in Of(w, "open")
    /\ client' = [client EXCEPT ![c] = Gone("served")]
    /\ tls' = IF client[c].port = "tls"
              THEN [tls EXCEPT ![w] = SSL_free(@, client[c].ctx)] ELSE tls
    /\ UNCHANGED <<tls_enabled, files, life, listeners, handled, usr1, usr2,
                   draining, stopping, failures>>

(* A connection ends; its SSL object is freed with the bufferevent.        *)
connection_free(w, c) ==
    /\ life[w] = "serving"
    /\ c \in Of(w, "open")
    /\ client' = [client EXCEPT ![c] = Gone("served")]
    /\ tls' = IF client[c].port = "tls"
              THEN [tls EXCEPT ![w] = SSL_free(@, client[c].ctx)] ELSE tls
    /\ worker_check_drain(w, draining[w], Of(w, "open") \ {c})
    /\ UNCHANGED <<tls_enabled, files, life, listeners, handled, usr1, usr2,
                   draining, failures>>

(* A fatal accept error stops the loop with connections open.              *)
accept_error_cb(w) ==
    /\ life[w] = "serving"
    /\ ~draining[w]
    /\ Fails
    /\ stopping' = [stopping EXCEPT ![w] = TRUE]
    /\ UNCHANGED <<tls_enabled, files, life, tls, listeners, handled, usr1, usr2,
                   draining, client>>

(* event_base_dispatch returns: worker_cleanup, exit(0).                   *)
worker_exit(w) ==
    /\ life[w] = "serving"
    /\ stopping[w]
    /\ Exit(w)
    /\ UNCHANGED <<tls_enabled, files, failures>>
-----------------------------------------------------------------------------
(* The renewal of the certificate: each file is rewritten by itself, and   *)
(* may be seen half written.                                               *)

renewal_starts ==
    /\ renewal < MaxRenewals
    /\ cert_file = renewal
    /\ key_file = renewal
    /\ renewal' = renewal + 1
    /\ UNCHANGED <<tls_enabled, cert_file, key_file, procs, client, failures>>

cert_written(v) ==
    /\ cert_file # renewal
    /\ v \in {renewal, Unreadable}
    /\ cert_file' = v
    /\ UNCHANGED <<tls_enabled, key_file, renewal, procs, client, failures>>

key_written(v) ==
    /\ key_file # renewal
    /\ v \in {renewal, Unreadable}
    /\ key_file' = v
    /\ UNCHANGED <<tls_enabled, cert_file, renewal, procs, client, failures>>

(* Every process is gone and every client has its outcome.                 *)
Done ==
    /\ \A w \in Workers : life[w] = "exited"
    /\ UNCHANGED vars

StartupStep(w) ==
    \/ worker_init(w)
    \/ create_reuseport_socket(w)
    \/ tls_context_init_cert(w)
    \/ \E known \in BOOLEAN : tls_context_init_key(w, known)
    \/ create_tls_reuseport_socket(w)
    \/ \E sigs \in SUBSET Signals : setup_worker_signals(w, sigs)
    \/ startup_fails(w)

ReloadStep(w) ==
    \/ signal_reload_cb(w)
    \/ \E known \in BOOLEAN : tls_context_reload(w, known)

AcceptStep(w, c) ==
    accept_cb(w, c) \/ accept_turns_away(w, c) \/ accept_fails(w, c)

Next ==
    \/ \E w \in Workers :
          \/ fork_worker(w)
          \/ StartupStep(w)
          \/ \E sig \in Signals : kill(w, sig)
          \/ signal_cb(w)
          \/ ReloadStep(w)
          \/ \E c \in Clients : AcceptStep(w, c) \/ connection_free(w, c)
          \/ \E c \in Clients, port \in Ports : connect(c, w, port)
          \/ accept_error_cb(w)
          \/ worker_exit(w)
    \/ \E c \in Clients, port \in Ports : connection_refused(c, port)
    \/ renewal_starts
    \/ \E v \in {renewal, Unreadable} : cert_written(v) \/ key_written(v)
    \/ Done

Spec == Init /\ [][Next]_vars

-----------------------------------------------------------------------------
(* Fairness.  worker_main runs on; libevent runs every callback whose      *)
(* event is ready before it waits again, but a reload may be running when  *)
(* it becomes ready, hence strong fairness.  Nothing is assumed of         *)
(* clients, signals or files; in particular a connection need not end,     *)
(* since a client that goes on asking over it keeps it alive, and reading  *)
(* and writing do not ask whether the worker drains.                       *)
Fairness ==
    \A w \in Workers :
        /\ WF_vars(StartupStep(w))
        /\ SF_vars(signal_cb(w))
        /\ SF_vars(signal_reload_cb(w))
        /\ WF_vars(\E known \in BOOLEAN : tls_context_reload(w, known))
        /\ SF_vars(worker_exit(w))
        /\ \A c \in Clients : SF_vars(AcceptStep(w, c))

FairSpec == Spec /\ Fairness
-----------------------------------------------------------------------------
(* Properties.                                                             *)

Users(w, k) == {c \in Of(w, "open") : client[c].ctx = k}

(* OpenSSL's count of every SSL_CTX is the number of those who will drop   *)
(* it: tls->ctx, the context a reload is building, and each open TLS       *)
(* connection.  So no connection accepted before a reload is left with a   *)
(* context that was freed under it, and no reload, however it fails,       *)
(* leaks one.                                                              *)
RefsExact ==
    \A w \in Workers, k \in CtxId :
        tls[w].ctxs[k].refs = Cardinality(Users(w, k))
                              + (IF tls[w].ctx = k THEN 1 ELSE 0)
                              + (IF tls[w].new_ctx = k THEN 1 ELSE 0)

(* A TLS socket exists only where there is a context to accept with, and   *)
(* the certificate of every context in use, by the listener or by an open  *)
(* connection, belongs to its key, although the two files are rewritten    *)
(* one after the other while workers start and reload.                     *)
TlsReady ==
    \A w \in Workers :
        /\ "tls" \in listeners[w] => tls[w].ctx # NULL
        /\ \A k \in CtxId :
              ("tls" \in listeners[w] /\ tls[w].ctx = k) \/ Users(w, k) # {}
              => /\ tls[w].ctxs[k].cert # Unreadable
                 /\ tls[w].ctxs[k].cert = tls[w].ctxs[k].key

(* The expiry in the health report and the metrics is that of the          *)
(* certificate new connections get, or 0; a reload that fails after it     *)
(* read the new certificate does not show the new date.                    *)
ExpiryShown ==
    \A w \in Workers :
        tls[w].cert_expiry # 0 =>
            /\ tls[w].ctx # NULL
            /\ tls[w].cert_expiry = tls[w].ctxs[tls[w].ctx].cert + 1

(* "New connections get the new cert": a SIGUSR2 that is pending once the  *)
(* last renewal is on disk leads to a worker that serves it, also when the *)
(* signal arrives in the middle of an earlier reload, if nothing fails any *)
(* more.                                                                   *)
RenewalServed ==
    \A w \in Workers :
        (/\ usr2[w] /\ tls_enabled /\ failures = MaxFailures
         /\ cert_file = MaxRenewals /\ key_file = MaxRenewals)
        ~> (\/ life[w] = "exited"
            \/ tls[w].ctx # NULL /\ tls[w].ctxs[tls[w].ctx].cert = MaxRenewals)

(* A drain that was asked for ends the process, in whatever stage the      *)
(* signal finds it and however it meets reloads, accepts and closing       *)
(* connections, if each of its clients ends its connection some time: a    *)
(* worker that drains waits for its clients, and only for them.            *)
ClientsLeave(w) == \A c \in Clients : c \in Of(w, "open") ~> c \notin Of(w, "open")

DrainEnds ==
    \A w \in Workers : ClientsLeave(w) => (usr1[w] ~> life[w] = "exited")

(* A client whose connection the kernel took is reset unanswered with its  *)
(* whole process only when that process drains, which keeps its sockets    *)
(* open until it exits, has not entered its loop, had a fatal accept       *)
(* error, or found no memory for a signal handler; otherwise only its own  *)
(* accept failed.  A reload of the certificate, however it fails, costs    *)
(* nobody a connection.                                                    *)
LostOnlyToDrain ==
    [][\A c \in Clients : \A w \in Workers :
          (c \in Of(w, "queued") /\ client'[c].state = "reset")
          => \/ draining[w]
             \/ life[w] \in Starting
             \/ failures > 0 /\ (stopping[w] \/ handled[w] # Signals)
             \/ failures' # failures /\ life'[w] = "serving"]_vars
=============================================================================
