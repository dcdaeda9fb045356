------------------------------ MODULE BusFrame ------------------------------
(***************************************************************************)
(* What crosses the wire between two backends: how a frame of a document   *)
(* and a kick are put into bytes, what the subscriber's callback is given, *)
(* and who handles it.  The in-memory bus hands the bytes on as they are.  *)
(* RedisCollaborationBus listens to ioredis's "message" event, which       *)
(* decodes the bytes as UTF-8, and takes the low byte of every character;  *)
(* of a kick it decodes those again.                                       *)
(* The other modules take a frame as what was sent.                        *)
(*                                                                         *)
(* A header's JSON text is abstracted to three ASCII characters.           *)
(***************************************************************************)
EXTENDS Naturals, Sequences, SequencesExt

CONSTANTS
  Instances,     \* ids, one letter each
  Rids,          \* ids of restores, one letter each
  Bytes,         \* those that payloads are made of, see Lead
  MaxPayload,    \* bound: bytes of a payload
  None

Letters == 65..90
Dash == 45                    \* no such field
Newline == 10
Continuation == 128..191
Lead == 194..223              \* of a character of two bytes

VARIABLES
  redis,         \* the Redis bus, or the in-memory one
  sent,          \* the last frame, or kick
  wire,          \* bytes at each subscriber, to be looked at
  handled        \* what each handler was called with

vars == <<redis, sent, wire, handled>>

Kinds == <<"doc-update", "awareness", "sync-step1", "sync-step2", "persisted",
           "restore-prepare", "restore-commit", "restore-abort">>
Payloads(kind) ==
  IF kind \in {"restore-prepare", "restore-abort"} THEN {<<>>} ELSE BoundedSeq(Bytes, MaxPayload)
Headers == [i : Instances, t : Instances \cup {Dash}, rid : Rids \cup {Dash}]
Targets(kind) == IF kind = "sync-step2" THEN Instances ELSE {Dash}
RidsOf(kind) == IF kind \in {"restore-prepare", "restore-commit", "restore-abort"} THEN Rids ELSE {Dash}

Init ==
  /\ redis \in BOOLEAN
  /\ sent = None
  /\ wire = [j \in Instances |-> None] /\ handled = [j \in Instances |-> None]

-----------------------------------------------------------------------------
(* Bytes. *)

Json(h) == <<h.i, h.t, h.rid>>
BigEndian(n) == <<0, 0, n \div 256, n % 256>>

Encoded(f) ==
  <<CHOOSE k \in DOMAIN Kinds : Kinds[k] = f.kind>>
    \o BigEndian(Len(Json(f.header))) \o Json(f.header) \o f.payload

HeaderLength(b) == b[4] * 256 + b[5]
HeaderText(b) == SubSeq(b, 6, Min({5 + HeaderLength(b), Len(b)}))
Decoded(b) ==
  [kind |-> Kinds[b[1]],
   header |-> CHOOSE h \in Headers : Json(h) = HeaderText(b),
   payload |-> SubSeq(b, 6 + HeaderLength(b), Len(b))]

\* Too short, of an unknown kind, or with a header that is not one.
Bad(b) ==
  \/ Len(b) < 5 \/ b[1] \notin DOMAIN Kinds
  \/ ~\E h \in Headers : Json(h) = HeaderText(b)

\* Bytes decoded as UTF-8, with characters of one and of two bytes: what is no
\* character becomes U+FFFD.
FromUtf8(b) ==
  LET from[k \in 1..(Len(b) + 1)] ==
        IF k > Len(b) THEN <<>>
        ELSE IF b[k] < 128 THEN <<b[k]>> \o from[k + 1]
        ELSE IF b[k] \in Lead /\ k < Len(b) /\ b[k + 1] \in Continuation
        THEN <<(b[k] % 32) * 64 + (b[k + 1] % 64)>> \o
             (IF k + 2 > Len(b) THEN <<>> ELSE from[k + 2])
        ELSE <<65533>> \o from[k + 1]
  IN from[1]
ToUtf8(text) ==
  FlattenSeq([n \in DOMAIN text |->
    IF text[n] < 128 THEN <<text[n]>> ELSE <<192 + (text[n] \div 64), 128 + (text[n] % 64)>>])

\* Buffer.from(message, 'binary'), of a message that was decoded as UTF-8: the low
\* byte of every character.
ThroughText(b) == [n \in DOMAIN FromUtf8(b) |-> FromUtf8(b)[n] % 256]

Delivered(b) == IF redis THEN ThroughText(b) ELSE b

-----------------------------------------------------------------------------
(* Redis sends a frame to every subscriber, the in-memory bus not to the   *)
(* publisher.                                                              *)
Subscribers(i) == IF redis THEN Instances ELSE Instances \ {i}
Idle == \A j \in Instances : wire[j] = None

Broadcast(i, what, b) ==
  /\ Idle
  /\ sent' = what
  /\ wire' = [j \in Instances |-> IF j \in Subscribers(i) THEN [channel |-> what.channel, raw |-> Delivered(b)]
                                                          ELSE None]
  /\ handled' = [j \in Instances |-> None]
  /\ UNCHANGED redis

Publish(i) ==
  \E k \in DOMAIN Kinds : \E t \in Targets(Kinds[k]), rid \in RidsOf(Kinds[k]) :
    \E payload \in Payloads(Kinds[k]) :
      LET f == [kind |-> Kinds[k], header |-> [i |-> i, t |-> t, rid |-> rid], payload |-> payload]
      IN Broadcast(i, [channel |-> "doc", frame |-> f], Encoded(f))

\* A reason may be any text: also a character of two bytes, and one whose low byte is
\* that of a line break.
Chars == {Newline, 65, 233, 266}
Reasons == BoundedSeq(Chars, 2)
KickText(i, reason) == <<i, Newline>> \o reason

\* The in-memory bus calls the others' handlers itself.
PublishKick(i) ==
  redis /\ \E reason \in Reasons :
    Broadcast(i, [channel |-> "kick", from |-> i, reason |-> reason], ToUtf8(KickText(i, reason)))

\* A frame of one's own is ignored, a reply is for whom it names.
ForMe(j, f) == f.header.i # j /\ (f.kind = "sync-step2" => f.header.t = j)

OnMessage(j) ==
  /\ wire[j] # None /\ wire[j].channel = "doc"
  /\ wire' = [wire EXCEPT ![j] = None]
  /\ handled' = [handled EXCEPT ![j] =
       IF Bad(wire[j].raw) \/ ~ForMe(j, Decoded(wire[j].raw)) THEN None ELSE Decoded(wire[j].raw)]
  /\ UNCHANGED <<redis, sent>>

LastBreak(text) == SelectLastInSeq(text, LAMBDA c : c = Newline)   \* mutant
Break(text) == SelectInSeq(text, LAMBDA c : c = Newline)

OnKickMessage(j) ==
  /\ wire[j] # None /\ wire[j].channel = "kick"
  /\ wire' = [wire EXCEPT ![j] = None]
  /\ handled' = [handled EXCEPT ![j] =
       LET text == FromUtf8(wire[j].raw) IN
       IF SubSeq(text, 1, Break(text) - 1) = <<j>> THEN None
       ELSE [from |-> SubSeq(text, 1, Break(text) - 1),
             reason |-> SubSeq(text, Break(text) + 1, Len(text))]]
  /\ UNCHANGED <<redis, sent>>

Next == \E i \in Instances : Publish(i) \/ PublishKick(i) \/ OnMessage(i) \/ OnKickMessage(i)
Spec == Init /\ [][Next]_vars

-----------------------------------------------------------------------------
(* Properties. *)

Frame == sent # None /\ sent.channel = "doc"
For == IF sent.frame.kind = "sync-step2" THEN {sent.frame.header.t} ELSE Instances

Ascii == 0..127

\* When a message has reached every subscriber, those it is for, other than its
\* publisher, have handled it, and nobody else has: a frame with its kind, publisher
\* and restore (and payload, on the in-memory bus), a kick with its publisher, and with
\* its reason if that is ASCII text, line breaks included; another text is altered, but
\* the kick is carried out (decodeBusMessage, onMessage, onKickMessage).
Routed == Idle =>
  /\ Frame => \A j \in Instances :
       IF j \in For \ {sent.frame.header.i}
       THEN /\ handled[j] # None /\ handled[j].kind = sent.frame.kind
            /\ handled[j].header = sent.frame.header
            /\ ~redis => handled[j].payload = sent.frame.payload
       ELSE handled[j] = None
  /\ sent # None /\ ~Frame => \A j \in Instances :
       IF j = sent.from THEN handled[j] = None
       ELSE /\ handled[j] # None /\ handled[j].from = <<sent.from>>
            /\ Range(sent.reason) \subseteq Ascii => handled[j].reason = sent.reason

\* A frame is handled with the bytes that were published, as CollaborationBus promises
\* of both buses.
PayloadArrives ==
  Frame => \A j \in Instances : handled[j] # None => handled[j].payload = sent.frame.payload

=============================================================================
