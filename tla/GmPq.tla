-------------------------------- MODULE GmPq --------------------------------
(***************************************************************************)
(* The gm-pq-stack handshake as operators on terms: the symmetric state    *)
(* and the messages of both roles (handshake/mod.rs), cookies (cookie.rs), *)
(* tickets and their cache (psk.rs), and the replay window of a session    *)
(* (session.rs).                                                           *)
(*                                                                         *)
(* A chaining key is the sequence of what was mixed into it, a transcript  *)
(* hash the sequence of what was hashed: equal exactly when the inputs     *)
(* are.  A key encapsulation names its recipient and stands for its own    *)
(* secret; decapsulated with another key it gives another secret, as       *)
(* ML-KEM's implicit rejection does.  A sealed box opens with its key and  *)
(* associated data only.                                                   *)
(***************************************************************************)
EXTENDS Naturals, Sequences, FiniteSets, Functions

CONSTANTS
  CookieTtl,   \* CookieIssuer.ttl_secs, in ticks
  TicketTtl,   \* ServerConfig.ticket_ttl_secs, in ticks
  WindowSize,  \* session.rs: WINDOW_SIZE
  Noise        \* what damage makes of a field

ASSUME GmPqConstants == {CookieTtl, TicketTtl} \subseteq Nat /\ WindowSize \in Nat \ {0}

(* The two ends of a handshake. *)
Sides == {"client", "server"}
Other(x) == IF x = "client" THEN "server" ELSE "client"

(* Every name is a tuple whose first element is a tag: of an ephemeral key, a
   static key, or the randomness of an encapsulation. *)
-----------------------------------------------------------------------------
(* handshake/mod.rs: SymmetricState. *)
NewState == [ck |-> <<>>, h |-> <<>>]
MixHash(ss, x) == [ss EXCEPT !.h = Append(@, x)]
MixKey(ss, ikm) == [ss EXCEPT !.ck = Append(@, ikm)]
NewWithPsk(psk) == MixKey(NewState, <<[to |-> <<"psk">>, rnd |-> <<"psk", psk>>]>>)
EncryptionKey(ss, info) == <<info, ss.ck>>

(* split: the keys by direction and the session's identity. *)
Split(ss) == [i2r |-> <<"i2r", ss.ck>>, r2i |-> <<"r2i", ss.ck>>, id |-> ss.h]

Encapsulate(pk, rnd) == [to |-> pk, rnd |-> rnd]
Decapsulate(pk, ct) == IF ct.to = pk THEN ct ELSE [to |-> <<"rejected">>, rnd |-> <<"rejected", pk, ct.rnd>>]

Seal(key, seq, aad, text) == [key |-> key, seq |-> seq, aad |-> aad, text |-> text]
Opens(key, aad, box) == box.key = key /\ box.aad = aad

-----------------------------------------------------------------------------
(* The initiator.  The static key of the responder, its own key pk and its
   signature are in the boxes. *)
WriteMsg1(ss, e) == MixHash(ss, e)
SealEarlyData(ss) == Seal(EncryptionKey(ss, "early"), 0, ss.h, "probe")

(* read_msg2: the state in which the box of message 2 is opened. *)
ReadMsg2(ss, e, m) == MixKey(MixHash(MixHash(ss, m.e), m.ct), <<Decapsulate(e, m.ct)>>)
Msg2Opens(ss, e, m) ==
  LET s == ReadMsg2(ss, e, m) IN Opens(EncryptionKey(s, "static"), s.h, m.box)

(* write_msg3: the state before its box is sealed, the message and the session. *)
Msg3State(ss, e, m, rnd) ==
  LET s == MixHash(ReadMsg2(ss, e, m), <<"enc", m.box.text>>)
      se == Encapsulate(m.e, <<"se", rnd>>)
      st == Encapsulate(m.box.text, <<"ss", rnd>>)
  IN  MixHash(MixHash(MixKey(s, <<se, st>>), se), st)
WriteMsg3(s, m, rnd, pk) ==
  [t |-> "MSG3", se |-> Encapsulate(m.e, <<"se", rnd>>), st |-> Encapsulate(m.box.text, <<"ss", rnd>>),
   box |-> Seal(EncryptionKey(s, "static"), 0, s.h, [pk |-> pk, signed |-> s.h])]
Msg3Session(s, pk) == Split(MixHash(s, <<"enc", pk>>))

-----------------------------------------------------------------------------
(* The responder. *)
ReadMsg1(ss, e) == MixHash(ss, e)
EarlyOpens(ss, box) == Opens(EncryptionKey(ss, "early"), ss.h, box)

(* write_msg2: the state in which its box is sealed, and the one after. *)
Msg2State(ss, peer, e, rnd) ==
  LET ct == Encapsulate(peer, rnd) IN MixKey(MixHash(MixHash(ss, e), ct), <<ct>>)
WriteMsg2(s, peer, e, rnd, pk, flag) ==
  [t |-> "MSG2", early |-> flag, e |-> e, ct |-> Encapsulate(peer, rnd),
   box |-> Seal(EncryptionKey(s, "static"), 0, s.h, pk)]
AfterMsg2(s, pk) == MixHash(s, <<"enc", pk>>)

(* read_msg3_with_auth: box, then signature. *)
ReadMsg3(ss, e, pk, m) ==
  MixHash(MixHash(MixKey(ss, <<Decapsulate(e, m.se), Decapsulate(pk, m.st)>>), m.se), m.st)
Msg3Opens(ss, e, pk, m) ==
  LET s == ReadMsg3(ss, e, pk, m)
  IN  Opens(EncryptionKey(s, "static"), s.h, m.box) /\ m.box.text.signed = s.h
AfterMsg3(ss, e, pk, m) == Split(MixHash(ReadMsg3(ss, e, pk, m), <<"enc", m.box.text.pk>>))

-----------------------------------------------------------------------------
(* trust.rs: PinFileAnchor. *)
Verify(pins, pk) == pk \in pins

(* cookie.rs.  secret is the issuer's. *)
Cookie(secret, e, now) == [secret |-> secret, e |-> e, ts |-> now]
CookieOk(secret, e, cookie, now) ==
  now - cookie.ts <= CookieTtl /\ cookie.secret = secret /\ cookie.e = e

(* psk.rs.  The ticket is sealed with the issuer's key. *)
Ticket(key, id, pk, now) == [key |-> key, id |-> id, fp |-> pk, exp |-> now + TicketTtl]
TicketOpens(key, ticket, now) == ticket.key = key /\ now <= ticket.exp

(* Mutant: every look empties the cache. *)
Purged_All(seen, now) == [id \in {} |-> 0]

(* TicketCache: check_and_insert purges, looks and records. *)
Purged(seen, now) == [id \in {i \in DOMAIN seen : seen[i] > now} |-> seen[id]]
IsReplay(seen, id, now) == id \in DOMAIN Purged(seen, now)
Recorded(seen, id, exp, now) ==
  [i \in DOMAIN Purged(seen, now) \cup {id} |-> IF i = id THEN exp ELSE seen[i]]

-----------------------------------------------------------------------------
(* session.rs: ReplayWindow.  bits holds the i with bit i of the bitmap set. *)
NewWindow == [init |-> FALSE, highest |-> 0, bits |-> {}]

(* Mutant: a shift by the whole width keeps the old bits. *)
Shifted_Wraps(bits, by) == {0} \cup {(i + by) % WindowSize : i \in bits}

Shifted(bits, by) == {0} \cup {i + by : i \in {j \in bits : j + by < WindowSize}}
Accepts(w, seq) ==
  \/ ~w.init
  \/ seq > w.highest
  \/ w.highest - seq < WindowSize /\ w.highest - seq \notin w.bits
CheckAndMark(w, seq) ==
  IF ~Accepts(w, seq) THEN w
  ELSE IF ~w.init THEN [init |-> TRUE, highest |-> seq, bits |-> {0}]
  ELSE IF seq > w.highest
       THEN [w EXCEPT !.highest = seq, !.bits = Shifted(@, seq - w.highest)]
       ELSE [w EXCEPT !.bits = @ \cup {w.highest - seq}]
=============================================================================
