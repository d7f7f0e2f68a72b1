---------------------------- MODULE CertificatePins ----------------------------
(***************************************************************************)
(* The store of trusted self-signed certificates (TOFUStore) with its      *)
(* file, the one default store of a process, and the verification of a     *)
(* connection against it.                                                  *)
(*                                                                         *)
(* A certificate names the host it is for and how its chain verifies; its  *)
(* fingerprint is the certificate itself.  Each call holds store.mu and is *)
(* one action.                                                             *)
(***************************************************************************)
EXTENDS Naturals, FiniteSets

CONSTANTS Hosts,   \* normalized host names
          Serials, \* distinguish the certificates of a host
          NoPin

Certificates == [host : Hosts, serial : Serials, selfSigned : BOOLEAN]

ASSUME PinsAssumption == NoPin \notin Certificates

VARIABLES
    tofuStore,  \* defaultTOFUStoreState: "unopened", "open" or "failed"
    pins,       \* store.pins
    pinFile,    \* the pins in the file, if it is good
    fileIs,     \* the file: "missing", "broken" or "good"
    expired,    \* certificates that are no longer valid
    reviewed,   \* the certificate that was inspected last, or NoPin
    connection  \* the last TLS handshake: the certificate, whether it was
                \* accepted, and the pin of its host at that time

pinVars == <<tofuStore, pins, pinFile, fileIs, expired, reviewed, connection>>

Unpinned == [h \in Hosts |-> NoPin]
PinTables == {p \in [Hosts -> Certificates \cup {NoPin}] :
                 \A h \in Hosts : p[h] # NoPin => p[h].host = h /\ p[h].selfSigned}
NoConnection == [certificate |-> NoPin, accepted |-> FALSE, pin |-> NoPin]

PinsInit ==
    /\ tofuStore = "unopened" /\ pins = Unpinned
    /\ pinFile = Unpinned /\ fileIs \in {"missing", "broken"}
    /\ expired = {} /\ reviewed = NoPin /\ connection = NoConnection

-----------------------------------------------------------------------------
(* DefaultTOFUStore opens the store once, whatever comes of it: a file     *)
(* that is missing is written, which may fail, and one that cannot be      *)
(* decoded is an error.                                                    *)
OpenStore == \E written \in BOOLEAN :
    /\ tofuStore = "unopened"
    /\ \/ /\ fileIs = "good"
          /\ tofuStore' = "open" /\ pins' = pinFile
          /\ UNCHANGED fileIs
       \/ /\ fileIs = "missing"
          /\ tofuStore' = IF written THEN "open" ELSE "failed"
          /\ fileIs' = IF written THEN "good" ELSE "missing"
          /\ UNCHANGED pins
       \/ /\ fileIs = "broken"
          /\ tofuStore' = "failed"
          /\ UNCHANGED <<pins, fileIs>>
    /\ UNCHANGED <<pinFile, expired, reviewed, connection>>

\* Faulty form of the next definition: a refused change stays in memory.
PersistedOrKept(table, written) ==
    /\ pins' = table
    /\ pinFile' = IF written THEN table ELSE pinFile

(* A temporary file is written, synced and renamed; a change that cannot   *)
(* be saved is taken back.                                                 *)
PersistedOrUndone(table, written) ==
    /\ pins' = IF written THEN table ELSE pins
    /\ pinFile' = IF written THEN table ELSE pinFile

(* certificateFingerprint: only self-signed certificates for the host that *)
(* are valid now have one.                                                 *)
Pinnable(c, h) == c.selfSigned /\ c.host = h /\ c \notin expired

(* InspectTOFUCertificate makes a connection of its own that verifies      *)
(* nothing, to show the certificate to the user.                           *)
Inspect == \E c \in Certificates :
    /\ Pinnable(c, c.host)
    /\ reviewed' = c
    /\ UNCHANGED <<tofuStore, pins, pinFile, fileIs, expired, connection>>

(* A host that has another pin is refused.                                 *)
TrustCertificate == \E written \in BOOLEAN :
    LET h == reviewed.host IN
    /\ tofuStore = "open" /\ reviewed # NoPin
    /\ Pinnable(reviewed, h)
    /\ pins[h] = NoPin
    /\ PersistedOrUndone([pins EXCEPT ![h] = reviewed], written)
    /\ UNCHANGED <<tofuStore, fileIs, expired, reviewed, connection>>

RemoveCertificate == \E h \in Hosts, written \in BOOLEAN :
    /\ tofuStore = "open" /\ pins[h] # NoPin
    /\ PersistedOrUndone([pins EXCEPT ![h] = NoPin], written)
    /\ UNCHANGED <<tofuStore, fileIs, expired, reviewed, connection>>

-----------------------------------------------------------------------------
(* verifyCertificateChain.  x509 accepts chains to a known root, which a   *)
(* self-signed certificate is not; and without the store there is no HTTPS *)
(* at all, not even to hosts with such chains.                             *)
IsTrusted(h, c) == Pinnable(c, h) /\ pins[h] = c

Accepts(h, c) ==
    /\ tofuStore = "open"
    /\ c.host = h /\ c \notin expired
    /\ c.selfSigned => IsTrusted(h, c)

Handshake == \E h \in Hosts, c \in Certificates :
    /\ tofuStore # "unopened"
    /\ connection' = [certificate |-> c, accepted |-> Accepts(h, c), pin |-> pins[h]]
    /\ UNCHANGED <<tofuStore, pins, pinFile, fileIs, expired, reviewed>>

CertificateExpires == \E c \in Certificates :
    /\ expired' = expired \cup {c}
    /\ UNCHANGED <<tofuStore, pins, pinFile, fileIs, reviewed, connection>>

(* The browser ends, at any time, and starts again. *)
RestartPins ==
    /\ tofuStore' = "unopened" /\ pins' = Unpinned
    /\ reviewed' = NoPin /\ connection' = NoConnection
    /\ UNCHANGED <<pinFile, fileIs, expired>>

PinsNext ==
    \/ OpenStore \/ Inspect \/ TrustCertificate \/ RemoveCertificate
    \/ Handshake \/ CertificateExpires \/ RestartPins

PinsSpec == PinsInit /\ [][PinsNext]_pinVars

-----------------------------------------------------------------------------
PinsTypeOK ==
    /\ tofuStore \in {"unopened", "open", "failed"}
    /\ pins \in PinTables
    /\ pinFile \in PinTables /\ fileIs \in {"missing", "broken", "good"}
    /\ expired \subseteq Certificates
    /\ reviewed \in Certificates \cup {NoPin}

(* A user who was told that a certificate is trusted, or no longer is,     *)
(* finds it so after the next start, and one who was told that this failed *)
(* finds it as it was before: an open store and its file agree, through    *)
(* refused saves and restarts.  And a self-signed certificate was accepted *)
(* only as the pin of its host.                                            *)
PinsAreOnDisk ==
    /\ tofuStore = "open" => fileIs = "good" /\ pinFile = pins
    /\ connection.accepted /\ connection.certificate.selfSigned
           => connection.pin = connection.certificate
=============================================================================
