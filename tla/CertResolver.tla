---------------------------- MODULE CertResolver ----------------------------
(***************************************************************************)
(* The certificates of the HTTPS listener                                  *)
(* (images/dataplane/src/certs.rs): the map built from a snapshot's        *)
(* server_tls list, and the two lookups DynResolver::resolve makes in it.  *)
(*                                                                         *)
(* A bundle is [sni, cert, chain, key]: the names it is for, the           *)
(* certificate, whether cert_pem holds an X.509 block and whether key_pem  *)
(* holds a key rustls can sign with.  A name is a model value; Star maps a *)
(* name with a dot to the wildcard of its parent domain.                   *)
(***************************************************************************)
EXTENDS Naturals, Sequences, FiniteSetsExt

CONSTANTS
    ServerTls,    \* ServerTls[k]: the server_tls list of the k-th snapshot
    Star,         \* Star[n]: "*." and what follows the first dot of n
    NoName,       \* hello.server_name() is None, or n has no dot
    DefaultCert   \* the self-signed certificate of make_dummy_cert

\* The lists are sequences of bundles, and no bundle is for a missing name.
ASSUME CertConstants ==
    /\ ServerTls \in Seq(Range(ServerTls))
    /\ \A k \in DOMAIN ServerTls : ServerTls[k] \in Seq(Range(ServerTls[k]))
    /\ \A k \in DOMAIN ServerTls : \A b \in Range(ServerTls[k]) : NoName \notin b.sni

Names == DOMAIN Star

\* The bundles that certificates_from_snap does not skip.
Usable(b) == b.chain /\ b.key

\* Mutated certificates_from_snap: an entry that is there already is kept.
InsertNew(map, b) ==
    [h \in b.sni \union DOMAIN map |-> IF h \in DOMAIN map THEN map[h] ELSE b.cert]

\* HashMap::insert for every name of a bundle: it replaces an entry that is there.
Insert(map, b) ==
    [h \in b.sni \union DOMAIN map |-> IF h \in b.sni THEN b.cert ELSE map[h]]

\* The loop of certificates_from_snap over the bundles.
CertificatesFromSnap(tls) ==
    LET map[i \in 0 .. Len(tls)] ==
          IF i = 0 THEN << >>
          ELSE IF Usable(tls[i]) THEN Insert(map[i - 1], tls[i]) ELSE map[i - 1]
    IN  map[Len(tls)]

\* Map[k]: what the resolver holds once snapshot k is stored; empty at start.
Map == [k \in 0 .. Len(ServerTls) |-> IF k = 0 THEN << >> ELSE CertificatesFromSnap(ServerTls[k])]

Certs == {DefaultCert} \union UNION {{b.cert : b \in Range(ServerTls[k])} : k \in DOMAIN ServerTls}

----------------------------------------------------------------------------
(* What a name is entitled to, said without the map *)

\* The bundles of snapshot k that can serve the entry h.
For(k, h) == {i \in DOMAIN ServerTls[k] : Usable(ServerTls[k][i]) /\ h \in ServerTls[k][i].sni}

\* Snapshot k has a certificate for the entry h.
Has(k, h) == k > 0 /\ For(k, h) # {}

\* The certificate of the last of them.
CertOf(k, h) == ServerTls[k][Max(For(k, h))].cert

=============================================================================
