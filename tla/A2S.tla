--------------------------------- MODULE A2S ----------------------------------
(***************************************************************************)
(* One A2S_INFO query (supervisor/a2s.go): QueryA2SInfo sends a request    *)
(* over UDP, answers a challenge by a second request, and parses the last  *)
(* datagram it read.  Both datagrams are read into one buffer, under one   *)
(* deadline.                                                               *)
(*                                                                         *)
(* Whatever listens on the port, and the network, may send any Message at  *)
(* any time: an answer of a server, possibly cut short, a challenge, also  *)
(* one that comes twice, or something else.  Bytes are their values.       *)
(***************************************************************************)
EXTENDS Naturals, Sequences, SequencesExt

CONSTANTS
  Infos,    \* what servers say: protocol, name, map, folder, game, rest
  Tokens,   \* the bytes that follow the type of a challenge
  Junk,     \* datagrams that are neither an answer nor a challenge
  BufSize,  \* bytes of the read buffer (1400)
  Timeout,  \* DST_HEALTH_TIMEOUT, in ticks of clock
  None, IOError, ParseError  \* no deadline or result yet, and the errors

Byte == 0..255
Text == Seq(Byte \ {0})

Header       == <<255, 255, 255, 255>>
ChallengeTag == 65
InfoTag      == 73

\* rest is appid (two bytes), players, max players, and what may follow.
ASSUME A2SAssumption ==
  /\ \A f \in Infos :
       /\ f.protocol \in Byte
       /\ {f.name, f.map, f.folder, f.game} \subseteq Text
       /\ f.rest \in Seq(Byte) /\ Len(f.rest) >= 4
  /\ Tokens \subseteq Seq(Byte)
  /\ \A d \in Junk : /\ d \in Seq(Byte)
                     /\ ~IsPrefix(Append(Header, ChallengeTag), d)
                     /\ ~IsPrefix(Append(Header, InfoTag), d)
  /\ BufSize \in Nat /\ BufSize >= 9
  /\ Timeout \in Nat \ {0}

\* An unset deadline is no time, an error no reader.
ASSUME NoneAssumption == None \notin Nat /\ None \notin Seq(Byte)

VARIABLES
  at,        \* where QueryA2SInfo is
  clock,     \* ticks since the call
  deadline,  \* the deadline of the connection, None before it is set
  buf,       \* the bytes of buf written so far
  n,         \* what the last Read returned
  requests,  \* requests sent: the token of each, << >> for the first
  result,    \* the A2SInfo or the error returned, None before
  read       \* the messages read (history)

vars == <<at, clock, deadline, buf, n, requests, result, read>>

-----------------------------------------------------------------------------
(* What may arrive (external).                                             *)

InfoBytes(f) ==
  Header \o <<InfoTag, f.protocol>> \o f.name \o <<0>> \o f.map \o <<0>>
         \o f.folder \o <<0>> \o f.game \o <<0>> \o f.rest

ChallengeBytes(t) == Header \o <<ChallengeTag>> \o t

Messages ==
  (UNION {{[kind |-> "info", of |-> f, len |-> k] : k \in 0..Len(InfoBytes(f))}
            : f \in Infos})
  \cup {[kind |-> "challenge", of |-> t, len |-> Len(t) + 5] : t \in Tokens}
  \cup {[kind |-> "junk", of |-> d, len |-> Len(d)] : d \in Junk}

Bytes(m) ==
  CASE m.kind = "info"      -> SubSeq(InfoBytes(m.of), 1, m.len)
    [] m.kind = "challenge" -> ChallengeBytes(m.of)
    [] m.kind = "junk"      -> m.of

-----------------------------------------------------------------------------
(* parseA2SInfo.  A reader is what is left of the datagram; None after an  *)
(* error.                                                                  *)

\* ReadByte and binary.Read of k bytes.
Skip(r, k) == IF r = None \/ Len(r) < k THEN None ELSE SubSeq(r, k + 1, Len(r))

Zero(r) == SelectInSeq(r, LAMBDA b : b = 0)

\* readString: the string, and the reader behind its terminator (skipString).
String(r) == SubSeq(r, 1, Zero(r) - 1)

SkipString(r) == IF r = None \/ Zero(r) = 0 THEN None ELSE Skip(r, Zero(r))

ParseInfo(data) ==
  IF Len(data) < 6 \/ ~IsPrefix(Header, data) \/ data[5] # InfoTag
    THEN ParseError
  ELSE LET name == Skip(data, 6)
           map  == SkipString(name)
           game == SkipString(SkipString(map))
           rest == Skip(SkipString(game), 2)
       IN  IF rest = None \/ Len(rest) < 2 THEN ParseError
           ELSE [name |-> String(name), map |-> String(map),
                 players |-> rest[1], maxPlayers |-> rest[2]]

-----------------------------------------------------------------------------
\* Bound: ticks for which a query is watched, more than two timeouts.
MaxClock == 3 * Timeout

InfoResults ==
  [name : Text, map : Text, players : Byte, maxPlayers : Byte]

\* Types; no Read writes past the end of buf, at most one challenge is answered,
\* and a result is made of text without zero bytes and of single bytes.
TypeOK ==
  /\ at \in {"dial", "write", "read", "rewrite", "reread", "done"}
  /\ clock \in 0..MaxClock
  /\ deadline \in Nat \cup {None}
  /\ buf \in Seq(Byte) /\ Len(buf) <= BufSize
  /\ n \in 0..Len(buf)
  /\ requests \in Seq(Seq(Byte)) /\ Len(requests) <= 2
  /\ result \in InfoResults \cup {None, IOError, ParseError}
  /\ read \in Seq(Messages) /\ Len(read) <= 2

Init ==
  /\ at = "dial"
  /\ clock = 0
  /\ deadline = None
  /\ buf = << >> /\ n = 0
  /\ requests = << >>
  /\ result = None
  /\ read = << >>

(* net.DialTimeout and SetDeadline.                                        *)
Dial ==
  /\ at = "dial"
  /\ at' = "write"
  /\ deadline' = clock + Timeout
  /\ UNCHANGED <<clock, buf, n, requests, result, read>>

(* conn.Write of the first request.                                        *)
Request ==
  /\ at = "write"
  /\ at' = "read"
  /\ requests' = <<<< >>>>
  /\ UNCHANGED <<clock, deadline, buf, n, result, read>>

Expired == deadline # None /\ clock >= deadline

\* Mutant of Filled: the datagram is not cut to the buffer.
FilledPastEnd(d) == d \o SubSeq(buf, Len(d) + 1, Len(buf))

\* The buffer after a Read of d: d over the first bytes, old ones behind it.
Filled(d) ==
  LET k == IF Len(d) < BufSize THEN Len(d) ELSE BufSize
  IN  SubSeq(d, 1, k) \o SubSeq(buf, k + 1, Len(buf))

Received(m) ==
  /\ ~Expired
  /\ buf' = Filled(Bytes(m))
  /\ n' = IF Len(Bytes(m)) < BufSize THEN Len(Bytes(m)) ELSE BufSize
  /\ read' = Append(read, m)

\* Mutant of IsChallenge: more than nine bytes are wanted.
IsLongChallenge(data) ==
  Len(data) > 9 /\ IsPrefix(Append(Header, ChallengeTag), data)

IsChallenge(data) ==
  Len(data) >= 9 /\ IsPrefix(Append(Header, ChallengeTag), data)

(* The first Read: a challenge is answered, anything else is parsed.       *)
Read(m) ==
  /\ at = "read"
  /\ Received(m)
  /\ LET resp == SubSeq(buf', 1, n') IN
       IF IsChallenge(resp)
         THEN at' = "rewrite" /\ UNCHANGED result
         ELSE at' = "done" /\ result' = ParseInfo(resp)
  /\ UNCHANGED <<clock, deadline, requests>>

\* Mutant of Answer: the deadline is set anew for the second read.
AnswerRenewsDeadline ==
  /\ at = "rewrite"
  /\ at' = "reread"
  /\ deadline' = clock + Timeout
  /\ requests' = Append(requests, SubSeq(buf, 6, 9))
  /\ UNCHANGED <<clock, buf, n, result, read>>

(* The request with resp[5:9] appended.                                    *)
Answer ==
  /\ at = "rewrite"
  /\ at' = "reread"
  /\ requests' = Append(requests, SubSeq(buf, 6, 9))
  /\ UNCHANGED <<clock, deadline, buf, n, result, read>>

\* Mutant of Reread: the whole buffer is parsed, not buf[:n].
RereadWholeBuffer(m) ==
  /\ at = "reread"
  /\ Received(m)
  /\ at' = "done"
  /\ result' = ParseInfo(buf')
  /\ UNCHANGED <<clock, deadline, requests>>

(* The second Read: whatever came is parsed, another challenge too.        *)
Reread(m) ==
  /\ at = "reread"
  /\ Received(m)
  /\ at' = "done"
  /\ result' = ParseInfo(SubSeq(buf', 1, n'))
  /\ UNCHANGED <<clock, deadline, requests>>

(* Every call returns an error after the deadline, and may do so before it *)
(* (nobody listens on the port).                                           *)
Fails ==
  /\ at # "done"
  /\ at' = "done"
  /\ result' = IOError
  /\ UNCHANGED <<clock, deadline, buf, n, requests, read>>

(* Time passes while a Read waits.                                         *)
Tick ==
  /\ at \in {"read", "reread"} /\ ~Expired
  /\ clock < MaxClock
  /\ clock' = clock + 1
  /\ UNCHANGED <<at, deadline, buf, n, requests, result, read>>

Next ==
  \/ Dial \/ Request \/ Answer \/ Fails \/ Tick
  \/ \E m \in Messages : Read(m) \/ Reread(m)

Spec == Init /\ [][Next]_vars

-----------------------------------------------------------------------------
\* What a sender says in message m, as far as the message got and the buffer
\* holds it: everything up to max players must be there.
Said(m) ==
  IF /\ m.kind = "info"
     /\ LET needed == Len(InfoBytes(m.of)) - Len(m.of.rest) + 4
        IN  needed <= m.len /\ needed <= BufSize
    THEN [name |-> m.of.name, map |-> m.of.map, players |-> m.of.rest[3],
          maxPlayers |-> m.of.rest[4]]
    ELSE ParseError

\* What QueryA2SInfo makes of the datagrams is what the sender of the last one
\* said: a complete answer is never refused, one that was cut short, at any
\* byte, never yields an A2SInfo, zero bytes among the numbers end no string,
\* and the first datagram never shows through behind the second, which is
\* read into the same buffer (a2s.go:46-71, 79-134).
ResultIsWhatWasSaid ==
  at = "done" /\ result # IOError => result = Said(Last(read))

\* A complete challenge, of nine bytes or more, is answered once, by its own
\* four bytes, before anything is parsed; nothing else is answered
\* (a2s.go:55-72).
ChallengeEchoed ==
  LET challenged == /\ read # << >> /\ read[1].kind = "challenge"
                    /\ Len(read[1].of) >= 4
  IN  /\ Len(requests) = 2 =>
           challenged /\ requests[2] = SubSeq(read[1].of, 1, 4)
      /\ challenged /\ at = "done" /\ result # IOError => Len(requests) = 2

\* The probe that waits for the query is back within DST_HEALTH_TIMEOUT, also
\* when nobody answers or a challenge makes it read twice (a2s.go:39): time
\* does not pass the deadline in a Read, which returns an error then.
WithinTimeout == clock <= Timeout

=============================================================================
