----------------------------- MODULE TlsContext -----------------------------
(***************************************************************************)
(* The TLS context of one worker (tls.c) and the OpenSSL objects behind    *)
(* it, as operators on a record:                                           *)
(*   ctx          TLSContext.ctx, NULL or one of CtxId;                    *)
(*   cert_expiry  TLSContext.cert_expiry;                                  *)
(*   new_ctx      the local variable of tls_context_reload;                *)
(*   ctxs         the SSL_CTX objects: the certificate and the key loaded  *)
(*                into each, and the references OpenSSL counts (0: freed). *)
(* A certificate and a key match when they come from the same renewal, so  *)
(* both are represented by its number.                                     *)
(***************************************************************************)
EXTENDS Integers

CONSTANTS CtxId,          \* memory for SSL_CTX objects
          MaxRenewals,    \* bound: certificate renewals
          NULL

Version    == 0..MaxRenewals
Unreadable == -1          \* a file that is missing, or being rewritten
Empty      == [cert |-> Unreadable, key |-> Unreadable, refs |-> 0]

TLSContext ==
    [ctx : CtxId \cup {NULL}, cert_expiry : 0..MaxRenewals + 1,
     new_ctx : CtxId \cup {NULL},
     ctxs : [CtxId -> [cert : Version \cup {Unreadable},
                       key : Version \cup {Unreadable}, refs : Nat]]]

NoTls == [ctx |-> NULL, cert_expiry |-> 0, new_ctx |-> NULL,
          ctxs |-> [k \in CtxId |-> Empty]]

-----------------------------------------------------------------------------
(* OpenSSL.  An SSL_CTX lives while somebody holds a reference: whoever    *)
(* created it, and every SSL object made from it.                          *)

(* Memory that is not in use; which of it is handed out does not matter.   *)
unused(ctxs) == {k \in CtxId : ctxs[k].refs = 0}

fresh(ctxs)  == CHOOSE k \in CtxId : ctxs[k].refs = 0

SSL_CTX_new(ctxs, cert) ==
    [ctxs EXCEPT ![fresh(ctxs)] =
        [cert |-> cert, key |-> Unreadable, refs |-> 1]]

SSL_CTX_free(ctxs, k) ==
    IF ctxs[k].refs = 1 THEN [ctxs EXCEPT ![k] = Empty]
                        ELSE [ctxs EXCEPT ![k].refs = @ - 1]

SSL_new(ctxs, k) == [ctxs EXCEPT ![k].refs = @ + 1]

SSL_CTX_use_key(ctxs, k, key) == [ctxs EXCEPT ![k].key = key]

(* The expiry of a certificate; 0 when ASN1_TIME_diff cannot tell.         *)
not_after(cert, known) == IF known THEN cert + 1 ELSE 0

-----------------------------------------------------------------------------
(* tls_context_init: the certificate is read first, then the key; on any   *)
(* failure the caller exits.                                               *)
tls_init_cert(t, cert) ==
    [t EXCEPT !.ctx = fresh(t.ctxs), !.ctxs = SSL_CTX_new(t.ctxs, cert)]

tls_init_key(t, key, known) ==
    [t EXCEPT !.ctxs = SSL_CTX_use_key(t.ctxs, t.ctx, key),
              !.cert_expiry = not_after(t.ctxs[t.ctx].cert, known)]

(* tls_context_reload: the same two reads into a new context ...           *)
tls_reload_cert(t, cert) ==
    [t EXCEPT !.new_ctx = fresh(t.ctxs), !.ctxs = SSL_CTX_new(t.ctxs, cert)]

(* Faulty variants: the new context is not freed; the expiry shown remains *)
(* that of the old certificate.                                            *)
FaultyReloadFails(t) == [t EXCEPT !.new_ctx = NULL]
FaultyReloadSwap(t, key, known) ==
    [t EXCEPT !.ctx = t.new_ctx,
              !.new_ctx = NULL,
              !.ctxs = SSL_CTX_free(SSL_CTX_use_key(t.ctxs, t.new_ctx, key),
                                    t.ctx)]

(* ... which is freed when one of them fails, leaving everything as it was *)
tls_reload_fails(t) ==
    [t EXCEPT !.new_ctx = NULL, !.ctxs = SSL_CTX_free(t.ctxs, t.new_ctx)]

(* ... and otherwise replaces the old one, whose reference is dropped.     *)
tls_reload_swap(t, key, known) ==
    [t EXCEPT !.ctx = t.new_ctx,
              !.new_ctx = NULL,
              !.cert_expiry = not_after(t.ctxs[t.new_ctx].cert, known),
              !.ctxs = SSL_CTX_free(SSL_CTX_use_key(t.ctxs, t.new_ctx, key),
                                    t.ctx)]

(* Faulty variant: the key is not checked against the certificate.         *)
FaultyKeyMatches(t, k, key) == key # Unreadable

(* SSL_CTX_check_private_key of the context k with the key just read.      *)
key_matches(t, k, key) == key # Unreadable /\ t.ctxs[k].cert = key

(* Faulty variant: the SSL object does not keep its context alive.         *)
FaultyCreateSsl(t) == t

(* tls_create_ssl takes a reference; freeing the SSL object, which         *)
(* bufferevent_free does for a connection, gives it back.                  *)
tls_create_ssl(t) == [t EXCEPT !.ctxs = SSL_new(t.ctxs, t.ctx)]
SSL_free(t, k)    == [t EXCEPT !.ctxs = SSL_CTX_free(t.ctxs, k)]
=============================================================================
