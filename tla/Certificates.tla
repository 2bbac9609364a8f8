---------------------------- MODULE Certificates ----------------------------
(***************************************************************************)
(* The certificates of encrypted listeners, made by the program itself,    *)
(* and what an encrypted upstream server's certificate is held against.    *)
(*                                                                         *)
(* At a start every encrypted listener prepares its certificate in turn:   *)
(* it takes what is configured, reuses a valid pair or makes a new one,    *)
(* the root key first, then the key, then the certificate.  The program    *)
(* may end between two of these, or in the midst of a write, which leaves  *)
(* the file empty or cut off.  Time passes; the clock is not set back.     *)
(***************************************************************************)
EXTENDS Integers, Sequences, Absent

CONSTANTS
  CertSetups,  \* [generate, own: paths are configured, listeners: <<[cert, key]>>]
  Validity,    \* for how long a new certificate holds
  CertHorizon, \* bound on time
  MaxKeys,     \* bound on the keys ever made
  Peers        \* what upstream servers present and are configured with

ASSUME CertAssumption == Validity \in Nat /\ CertHorizon \in Nat /\ MaxKeys \in Nat

VARIABLES
  certSetup,   \* the configuration
  today,       \* the clock
  pem,         \* path -> contents
  made,        \* keys made so far
  maker,       \* the start under way: [pc, at, key, root]
  served,      \* listener -> [cert, key] it serves with, "failed" or Null
  peer         \* the last upstream handshake: [peer, ok]

certVars == <<certSetup, today, pem, made, maker, served, peer>>

Listeners == DOMAIN certSetup.listeners
ROOT == "root"
CertPaths == {ROOT} \union {l.cert: l \in {certSetup.listeners[i]: i \in Listeners}}
                    \union {l.key: l \in {certSetup.listeners[i]: i \in Listeners}}

Empty == [kind |-> "empty"]       \* truncated, nothing written yet
Cut == [kind |-> "cut"]           \* the write did not get to the end
KeyText(k) == [kind |-> "key", key |-> k]
CertText(k, root) ==
  [kind |-> "cert", key |-> k, root |-> root, from |-> today, until |-> today + Validity]

\* What the files may hold, when all is written or when it is not.
KeyFile == [kind : {"key"}, key : Nat]
CertFile == [kind : {"cert"}, key : Nat, root : Nat, from : Nat, until : Nat]
ASSUME CertNullAssumption == Null \notin {Empty, Cut} \union KeyFile \union CertFile

\* Listeners have their own certificate and key, or share both.
ASSUME CertPathAssumption ==
  \A c \in CertSetups:
    /\ c.listeners \in Seq([cert: STRING, key: STRING]) /\ c.listeners # <<>>
    /\ \A i, j \in DOMAIN c.listeners:
         LET l == c.listeners[i]
             m == c.listeners[j]
         IN  /\ ROOT \notin {l.cert, l.key} /\ l.cert # m.key
             /\ l.cert = m.cert <=> l.key = m.key

Present(p) == pem[p] # Null
Pair == certSetup.listeners[maker.at]

Resting == [pc |-> "off", at |-> 0, key |-> Null, root |-> Null]

(***************************************************************************)
(* Whether the certificate is generated at all.                            *)
(***************************************************************************)
Generates ==
  \/ certSetup.generate = "yes"
  \/ certSetup.generate = "auto" /\ ~certSetup.own

(***************************************************************************)
(* The next listener, or the end of the start.                             *)
(***************************************************************************)
NextListener(outcome) ==
  /\ served' = [served EXCEPT ![maker.at] = outcome]
  /\ maker' = IF maker.at < Len(certSetup.listeners)
              THEN [Resting EXCEPT !.pc = "look", !.at = maker.at + 1]
              ELSE [Resting EXCEPT !.pc = "up"]

StartUp ==
  /\ maker.pc = "off"
  /\ maker' = [Resting EXCEPT !.pc = "look", !.at = 1]
  /\ served' = [i \in Listeners |-> Null]
  /\ UNCHANGED <<certSetup, today, pem, made, peer>>

(***************************************************************************)
(* An existing pair: a certificate file that cannot be read is an error,   *)
(* one without a certificate, or with one out of its time, is replaced.    *)
(***************************************************************************)
InTime(c) == c.from <= today /\ today <= c.until

LookAtPair ==
  /\ maker.pc = "look"
  /\ \/ /\ ~Generates
        /\ maker' = [maker EXCEPT !.pc = "load"] /\ UNCHANGED served
     \/ /\ Generates /\ Present(Pair.cert) /\ Present(Pair.key)
        /\ \/ pem[Pair.cert].kind = "cut" /\ NextListener("failed")
           \/ /\ pem[Pair.cert].kind = "cert" /\ InTime(pem[Pair.cert])
              /\ maker' = [maker EXCEPT !.pc = "load"] /\ UNCHANGED served
           \/ /\ \/ pem[Pair.cert].kind = "empty"
                 \/ pem[Pair.cert].kind = "cert" /\ ~InTime(pem[Pair.cert])
              /\ maker' = [maker EXCEPT !.pc = "root"] /\ UNCHANGED served
     \/ /\ Generates /\ ~(Present(Pair.cert) /\ Present(Pair.key))
        /\ maker' = [maker EXCEPT !.pc = "root"] /\ UNCHANGED served
  /\ UNCHANGED <<certSetup, today, pem, made, peer>>

ReadsRoot == Present(ROOT)

TakeRoot ==
  /\ maker.pc = "root"
  /\ IF ReadsRoot
     THEN /\ IF pem[ROOT].kind = "key"
             THEN maker' = [maker EXCEPT !.pc = "key", !.root = pem[ROOT].key] /\ UNCHANGED served
             ELSE NextListener("failed")
          /\ UNCHANGED <<pem, made>>
     ELSE /\ made < MaxKeys
          /\ made' = made + 1
          /\ pem' = [pem EXCEPT ![ROOT] = KeyText(made + 1)]
          /\ maker' = [maker EXCEPT !.pc = "key", !.root = made + 1]
          /\ UNCHANGED served
  /\ UNCHANGED <<certSetup, today, peer>>

(***************************************************************************)
(* The new pair: the key is written, then the certificate.                 *)
(***************************************************************************)
WriteOrderCertFirst == <<"cert", "key">>
WriteOrder == <<"key", "cert">>

Contents(part, k) == IF part = "key" THEN KeyText(k) ELSE CertText(k, maker.root)

WriteFirst ==
  /\ maker.pc = "key"
  /\ made < MaxKeys
  /\ made' = made + 1
  /\ pem' = [pem EXCEPT ![Pair[WriteOrder[1]]] = Contents(WriteOrder[1], made + 1)]
  /\ maker' = [maker EXCEPT !.pc = "cert", !.key = made + 1]
  /\ UNCHANGED <<certSetup, today, served, peer>>

WriteSecond ==
  /\ maker.pc = "cert"
  /\ pem' = [pem EXCEPT ![Pair[WriteOrder[2]]] = Contents(WriteOrder[2], maker.key)]
  /\ maker' = [maker EXCEPT !.pc = "load"]
  /\ UNCHANGED <<certSetup, today, made, served, peer>>

(***************************************************************************)
(* TlsServerCertResolver::load: both files must be whole and match.        *)
(***************************************************************************)
Whole(p, kind) == Present(p) /\ pem[p].kind = kind
Loads ==
  /\ Whole(Pair.cert, "cert") /\ Whole(Pair.key, "key")
  /\ pem[Pair.cert].key = pem[Pair.key].key
LoadPair ==
  /\ maker.pc = "load"
  /\ NextListener(IF Loads THEN pem[Pair.cert] ELSE "failed")
  /\ UNCHANGED <<certSetup, today, pem, made, peer>>

(***************************************************************************)
(* The program ends, regularly, or in the midst of a write.                *)
(***************************************************************************)
Writing ==
  CASE maker.pc = "root" /\ ~ReadsRoot -> {ROOT}
    [] maker.pc = "key" -> {Pair[WriteOrder[1]]}
    [] maker.pc = "cert" -> {Pair[WriteOrder[2]]}
    [] OTHER -> {}
EndProgram ==
  /\ maker.pc # "off"
  /\ \/ UNCHANGED pem
     \/ \E p \in Writing, rest \in {Empty, Cut}: pem' = [pem EXCEPT ![p] = rest]
  /\ maker' = Resting
  /\ served' = [i \in Listeners |-> Null]
  /\ UNCHANGED <<certSetup, today, made, peer>>

DayPasses ==
  /\ today < CertHorizon
  /\ today' = today + 1
  /\ UNCHANGED <<certSetup, pem, made, maker, served, peer>>

(***************************************************************************)
(* Upstream servers.  Trusted roots are the built-in and the system's and  *)
(* those of the one path that reaches the builder; a pin is compared with  *)
(* the key presented before the chain is looked at.                        *)
(***************************************************************************)
CaPath(p) == IF p.caFile # Null THEN p.caFile ELSE p.caPath
Roots(p) == {"system"} \union ({CaPath(p)} \ {Null})
WebPki(p) == p.issuer \in Roots(p) /\ p.nameMatches
Verified(p) == p.verify => WebPki(p)
Pinned(p) == p.pin # Null => p.pin = p.spki
AcceptsPeer(p) == Pinned(p) /\ Verified(p)

ConnectPeer(p) ==
  /\ maker.pc = "up"
  /\ peer' = [peer |-> p, ok |-> AcceptsPeer(p)]
  /\ UNCHANGED <<certSetup, today, pem, made, maker, served>>

CertInit ==
  /\ certSetup \in CertSetups
  /\ today = 0
  /\ pem = [p \in CertPaths |-> Null]
  /\ made = 0
  /\ maker = Resting
  /\ served = [i \in Listeners |-> Null]
  /\ peer = Null

CertNext ==
  \/ StartUp \/ LookAtPair \/ TakeRoot \/ WriteFirst \/ WriteSecond \/ LoadPair
  \/ EndProgram \/ DayPasses
  \/ \E p \in Peers: ConnectPeer(p)

CertSpec == CertInit /\ [][CertNext]_certVars

-----------------------------------------------------------------------------
(***************************************************************************)
(* Wherever the program ended, a pair that a later start takes to be       *)
(* usable is one: a certificate within its time is never beside another    *)
(* key, or a broken one (prepare_server_certificate looks at the           *)
(* certificate only).                                                      *)
(***************************************************************************)
ReusedPairMatches ==
  (maker.pc = "load" /\ Generates) => Loads

=============================================================================
