------------------------- MODULE Can2040FrameProofs -------------------------
(***************************************************************************)
(* The frames the CAN driver reports received: each at most once and in    *)
(* the order of the wire, always; and only frames that were acknowledged   *)
(* and ended undisturbed, as long as the rx fifo has not overrun on a bus  *)
(* with faults.                                                            *)
(*                                                                         *)
(* What the predicates below say of the wire, they say of a record l, the  *)
(* value of line in the state or in the next one.                          *)
(***************************************************************************)
EXTENDS Can2040QueueProofs

-----------------------------------------------------------------------------
(* What the words on their way to the parser tell of the frames.           *)

(* Fields that end a frame, and those that end one that was disturbed.     *)
Closing == {"eof1", "over", "rxover", "err", "pas"} \cup Passive
Flags == {"err", "pas"}

Latest(l) == Len(l.frames)
Calm(l) == l.phase \in {"idle", "flag"}

(* No overrun so far; no fault, or overflow of the idle counter, so far.   *)
Whole(l) == l.overruns = Overruns
Intact(l) == l.faults = Faults

(* Frame n, if it was acknowledged, was recessive up to bit 6 of its end.  *)
Ended(l, n) == l.frames[n].ok # "no" \/ l.frames[n].ack = "none"

(* What is sampled and not parsed yet.                                     *)
Stream(w) == w.pio.fifo \o w.pio.isr

(* If frame n is over without having ended, the parser will be told of it  *)
(* by an error flag or a passive line, unless that was lost in an overrun. *)
Flagged(s, n) == \E i \in DOMAIN s : s[i].n = n /\ s[i].k \in Flags
Told(l, s, n) == \/ n = Latest(l) /\ ~Calm(l)
                 \/ Ended(l, n)
                 \/ ~Intact(l) /\ (Whole(l) => Flagged(s, n))

(* A field is that of a frame on the wire, which went on as it says.       *)
OldToken(l, t) ==
  /\ t.n <= Latest(l)
  /\ t.k \in Closing => t.n < Latest(l) \/ Calm(l)
  /\ t.k \in {"eof1"} \cup Passive => t.n < Latest(l) \/ l.phase = "idle"
  /\ t.k = "ack" => l.frames[t.n].ack # "none"
  /\ t.k \in {"eof1", "over", "rxover"} => Ended(l, t.n)

Ordered(s) ==
  /\ \A i, j \in DOMAIN s : i < j => s[i].n <= s[j].n
  /\ \A i, j \in DOMAIN s : i < j /\ s[i].k \in Closing /\ s[j].k \notin Passive => s[i].n < s[j].n

(* The fields come in the order of their frames, and nothing of a frame    *)
(* comes after the field that ends it.                                     *)
Tidy(l, s) ==
  /\ \A i \in DOMAIN s : OldToken(l, s[i])
  /\ Ordered(s)
  /\ \A i \in DOMAIN s : s[i].k \notin Flags \cup Passive => Told(l, s, s[i].n)

Receiving(r) == r \in {"RX_ACK", "RX_EOF"}
Mid(p) == p \notin {"START", "DISCARD"}

(* The frame being parsed is not later than the fields to come.            *)
Behind(l, w) ==
  /\ Tidy(l, Stream(w))
  /\ w.cd.parse_msg <= Latest(l)
  /\ \A i \in DOMAIN Stream(w) : w.cd.parse_msg <= Stream(w)[i].n

(* The parser waits for a later frame, or knows how its frame will end.    *)
Follow(l, w) ==
  /\ Behind(l, w)
  /\ w.cd.parse_state = "START" =>
       /\ \A i \in DOMAIN Stream(w) : Stream(w)[i].k \notin Passive => w.cd.parse_msg < Stream(w)[i].n
       /\ l.phase # "idle" => w.cd.parse_msg < Latest(l)
  /\ Mid(w.cd.parse_state) => Told(l, Stream(w), w.cd.parse_msg)
  /\ w.cd.report_state = "RX_EOF" => l.frames[w.cd.parse_msg].ack # "none"

(* What was reported is earlier than what is being received.               *)
Reported(l, w) ==
  /\ Increasing(w.log.rx)
  /\ \A i \in DOMAIN w.log.rx :
       /\ w.log.rx[i] \in DOMAIN l.frames /\ w.log.rx[i] <= w.cd.parse_msg
       /\ Intact(l) \/ Whole(l) => l.frames[w.log.rx[i]].ok # "no"
  /\ Receiving(w.cd.report_state) \/ w.cd.parse_state = "HEADER" =>
       \A i \in DOMAIN w.log.rx : w.log.rx[i] < w.cd.parse_msg

KnownIn(l, s) == \A i \in DOMAIN s : s[i].k \notin Passive => s[i].n \in DOMAIN l.frames

-----------------------------------------------------------------------------
(* How the wire goes on.                                                   *)

(* From l to m a frame is added or goes on: acks and ends stay as they     *)
(* are, and an end may still be outstanding only for a frame in progress.  *)
Goes(l, m) ==
  /\ Latest(m) \in {Latest(l), Latest(l) + 1}
  /\ \A n \in DOMAIN l.frames :
       /\ l.frames[n].ack # "none" => m.frames[n].ack # "none"
       /\ l.frames[n].ok # "no" => m.frames[n].ok # "no"
       /\ Ended(l, n) => \/ Ended(m, n)
                         \/ n = Latest(l) /\ Latest(m) = Latest(l) /\ ~Calm(l) /\ ~Calm(m)
  /\ Latest(m) = Latest(l) => (Calm(l) => Calm(m)) /\ (l.phase = "idle" => m.phase = "idle")
  /\ Latest(m) # Latest(l) => l.phase = "idle"
  /\ (Intact(m) => Intact(l)) /\ (Whole(m) => Whole(l))

(* The field t that is sampled next.                                       *)
NewToken(l, m, t) ==
  /\ t.n = Latest(m) /\ OldToken(m, t)
  /\ t.k \notin Passive => ~Calm(l) \/ Latest(m) # Latest(l)
  /\ t.k \notin Flags \cup Passive => ~Calm(m) \/ Ended(m, t.n)

(* s becomes r: a field is added, or an overrun loses the last ones.       *)
Carried(l, m, s, r) ==
  /\ \A i \in DOMAIN r : \/ i \in DOMAIN s /\ r[i] = s[i]
                         \/ i = Len(s) + 1 /\ NewToken(l, m, r[i])
  /\ Whole(m) => DOMAIN s \subseteq DOMAIN r
  /\ Latest(m) = Latest(l) /\ ~Calm(l) /\ Calm(m) => Told(m, r, Latest(l))

\* What is told of a frame stays told while the wire goes on.
LEMMA ToldGoes ==
  ASSUME NEW l \in LineStates, NEW m \in LineStates, NEW s \in Seq(Tokens), NEW r \in Seq(Tokens),
         Goes(l, m), Carried(l, m, s, r), NEW n \in DOMAIN l.frames, Told(l, s, n)
  PROVE  Told(m, r, n)
<1>1. CASE n = Latest(l) /\ ~Calm(l)
  <2>1. Latest(m) = Latest(l)
    BY <1>1 DEF Goes, Calm
  <2>2. CASE Calm(m)
    BY <1>1, <2>1, <2>2 DEF Carried
  <2>3. CASE ~Calm(m)
    BY <1>1, <2>1, <2>3 DEF Told
  <2> QED
    BY <2>2, <2>3
<1>2. CASE Ended(l, n)
  BY <1>2 DEF Goes, Told
<1>3. CASE ~Intact(l) /\ (Whole(l) => Flagged(s, n))
  <2>1. ~Intact(m) /\ (Whole(m) => Whole(l))
    BY <1>3 DEF Goes
  <2>2. ASSUME Whole(m) PROVE Flagged(r, n)
    <3>1. PICK i \in DOMAIN s : s[i].n = n /\ s[i].k \in Flags
      BY <1>3, <2>1, <2>2 DEF Flagged
    <3>2. i \in DOMAIN r /\ i # Len(s) + 1
      BY <2>2, <3>1 DEF Carried
    <3>3. r[i] = s[i]
      BY <3>2 DEF Carried
    <3> QED
      BY <3>1, <3>2, <3>3 DEF Flagged
  <2> QED
    BY <2>1, <2>2 DEF Told
<1> QED
  BY <1>1, <1>2, <1>3 DEF Told

\* So does what a field says of its frame.
LEMMA OldTokenGoes ==
  ASSUME NEW l \in LineStates, NEW m \in LineStates, Goes(l, m),
         NEW t \in Tokens, OldToken(l, t), t.k \notin Passive => t.n \in DOMAIN l.frames
  PROVE  OldToken(m, t)
<1>0. Latest(l) \in Nat /\ Latest(m) \in Nat /\ t.n \in Nat
  BY DEF LineStates, Latest, Tokens
<1>1. t.n <= Latest(m)
  BY <1>0 DEF Goes, OldToken
<1>2. t.n < Latest(l) => t.n < Latest(m)
  BY <1>0 DEF Goes
<1>3. Latest(m) # Latest(l) => t.n < Latest(m)
  BY <1>0 DEF Goes, OldToken
<1>4. t.k \in Closing => t.n < Latest(m) \/ Calm(m)
  BY <1>2, <1>3 DEF Goes, OldToken
<1>5. t.k \in {"eof1"} \cup Passive => t.n < Latest(m) \/ m.phase = "idle"
  BY <1>2, <1>3 DEF Goes, OldToken
<1>6. t.k = "ack" => m.frames[t.n].ack # "none"
  BY DEF Goes, OldToken, Passive
<1>7. ASSUME t.k \in {"eof1", "over", "rxover"} PROVE Ended(m, t.n)
  <2>1. Ended(l, t.n) /\ t.n \in DOMAIN l.frames
    BY <1>7 DEF OldToken, Passive
  <2>2. t.n < Latest(l) \/ Calm(l)
    BY <1>7 DEF OldToken, Closing, Passive
  <2> QED
    BY <1>0, <2>1, <2>2 DEF Goes
<1> QED
  BY <1>1, <1>4, <1>5, <1>6, <1>7 DEF OldToken

\* The words on their way stay in order, each true of its frame.
LEMMA TidyGoes ==
  ASSUME NEW l \in LineStates, NEW m \in LineStates, NEW s \in Seq(Tokens), NEW r \in Seq(Tokens),
         Goes(l, m), Carried(l, m, s, r), KnownIn(l, s), Tidy(l, s)
  PROVE  Tidy(m, r)
<1>a. /\ Latest(l) \in Nat /\ Latest(m) \in Nat /\ DOMAIN s = 1..Len(s) /\ Len(s) \in Nat
      /\ DOMAIN r \subseteq Nat
  BY DEF LineStates, Latest
<1>b. (\A i \in DOMAIN s : s[i] \in Tokens) /\ (\A i \in DOMAIN r : r[i] \in Tokens)
  OBVIOUS
<1>c. \A t \in Tokens : t.n \in Nat
  BY DEF Tokens
<1>0. /\ Latest(l) \in Nat /\ Latest(m) \in Nat /\ DOMAIN s = 1..Len(s) /\ Len(s) \in Nat
      /\ DOMAIN r \subseteq Nat
      /\ \A i \in DOMAIN s : s[i] \in Tokens /\ s[i].n \in Nat /\ s[i].n <= Latest(l)
      /\ \A i \in DOMAIN r : r[i] \in Tokens /\ r[i].n \in Nat
  BY <1>a, <1>b, <1>c DEF Tidy, OldToken
<1>1. \A i \in DOMAIN r : \/ i \in DOMAIN s /\ r[i] = s[i]
                          \/ i = Len(s) + 1 /\ NewToken(l, m, r[i])
  BY DEF Carried
<1>2. Latest(l) <= Latest(m)
  BY <1>0 DEF Goes
<1>3. \A i \in DOMAIN r : OldToken(m, r[i])
  BY <1>0, <1>1, OldTokenGoes DEF KnownIn, Tidy, NewToken
<1>4. ASSUME NEW i \in DOMAIN r, NEW j \in DOMAIN r, i < j
      PROVE  /\ r[i].n <= r[j].n
             /\ r[i].k \in Closing /\ r[j].k \notin Passive => r[i].n < r[j].n
  <2>1. i \in DOMAIN s /\ r[i] = s[i]
    BY <1>0, <1>1, <1>4
  <2>2. CASE j \in DOMAIN s /\ r[j] = s[j]
    BY <1>4, <2>1, <2>2 DEF Tidy, Ordered
  <2>3. CASE NewToken(l, m, r[j])
    <3>1. r[i].n <= Latest(l) /\ r[j].n = Latest(m)
      BY <1>0, <2>1, <2>3 DEF NewToken
    <3>2. ASSUME r[i].k \in Closing, r[j].k \notin Passive PROVE r[i].n < r[j].n
      <4>1. r[i].n < Latest(l) \/ Calm(l)
        BY <2>1, <3>2 DEF Tidy, OldToken
      <4>2. ~Calm(l) \/ Latest(m) # Latest(l)
        BY <2>3, <3>2 DEF NewToken
      <4> QED
        BY <1>0, <1>2, <3>1, <4>1, <4>2
    <3> QED
      BY <1>0, <1>2, <3>1, <3>2
  <2> QED
    BY <1>1, <2>2, <2>3
<1>5. Ordered(r)
  BY <1>4 DEF Ordered
<1>6. ASSUME NEW i \in DOMAIN r, r[i].k \notin Flags \cup Passive PROVE Told(m, r, r[i].n)
  <2>1. CASE i \in DOMAIN s /\ r[i] = s[i]
    <3>1. r[i].n \in DOMAIN l.frames /\ Told(l, s, r[i].n)
      BY <1>6, <2>1 DEF Tidy, KnownIn
    <3> QED
      BY <3>1, ToldGoes
  <2>2. CASE NewToken(l, m, r[i])
    BY <1>6, <2>2 DEF NewToken, Told
  <2> QED
    BY <1>1, <2>1, <2>2
<1> QED
  BY <1>3, <1>5, <1>6 DEF Tidy

\* The parser stays behind the wire.
LEMMA FollowGoes ==
  ASSUME NEW l \in LineStates, NEW m \in LineStates, NEW w \in Worlds, NEW v \in Worlds,
         Goes(l, m), Carried(l, m, Stream(w), Stream(v)), KnownIn(l, Stream(w)), Follow(l, w),
         v.cd = w.cd, Mid(w.cd.parse_state) => w.cd.parse_msg \in DOMAIN l.frames,
         w.cd.report_state = "RX_EOF" => w.cd.parse_msg \in DOMAIN l.frames
  PROVE  Follow(m, v)
<1> DEFINE s == Stream(w)
           r == Stream(v)
           n == w.cd.parse_msg
<1>0. /\ s \in Seq(Tokens) /\ r \in Seq(Tokens) /\ n \in Nat
      /\ Latest(l) \in Nat /\ Latest(m) \in Nat
  BY DEF Worlds, PioStates, CdStates, Stream, LineStates, Latest
<1>1. Tidy(m, r)
  BY <1>0, TidyGoes DEF Follow, Behind
<1>2. Latest(l) <= Latest(m) /\ n <= Latest(l)
  BY <1>0 DEF Goes, Follow, Behind
<1> HIDE DEF s, r
<1>3. \A i \in DOMAIN r : \/ i \in DOMAIN s /\ r[i] = s[i]
                          \/ r[i].n = Latest(m) /\ NewToken(l, m, r[i])
  BY DEF Carried, NewToken, s, r
<1>4. \A i \in DOMAIN r : n <= r[i].n
  BY <1>0, <1>2, <1>3 DEF Follow, Behind, s
<1>5. ASSUME w.cd.parse_state = "START"
      PROVE  /\ \A i \in DOMAIN r : r[i].k \notin Passive => n < r[i].n
             /\ m.phase # "idle" => n < Latest(m)
  <2>1. /\ \A i \in DOMAIN s : s[i].k \notin Passive => n < s[i].n
        /\ l.phase # "idle" => n < Latest(l)
    BY <1>5 DEF Follow, Behind, s
  <2>2. ~Calm(l) \/ Latest(m) # Latest(l) => n < Latest(m)
    BY <1>0, <1>2, <2>1 DEF Calm
  <2>3. m.phase # "idle" => n < Latest(m)
    BY <1>0, <1>2, <2>1 DEF Goes
  <2> QED
    BY <1>3, <2>1, <2>2, <2>3 DEF NewToken
<1>6. Mid(w.cd.parse_state) => Told(m, r, n)
  <2>1. Carried(l, m, s, r)
    BY DEF s, r
  <2> QED
    BY <1>0, <2>1, ToldGoes DEF Follow, Behind, s
<1>7. w.cd.report_state = "RX_EOF" => m.frames[n].ack # "none"
  BY DEF Goes, Follow, Behind
<1> QED
  BY <1>0, <1>1, <1>2, <1>4, <1>5, <1>6, <1>7 DEF Follow, Behind, r

\* What was reported stays acknowledged and ended.
LEMMA ReportedGoes ==
  ASSUME NEW l \in LineStates, NEW m \in LineStates, NEW w, Goes(l, m), Reported(l, w)
  PROVE  Reported(m, w)
<1>1. DOMAIN l.frames \subseteq DOMAIN m.frames
  BY DEF Goes, LineStates, Latest
<1> QED
  BY <1>1 DEF Goes, Reported
-----------------------------------------------------------------------------
(* The wire goes on that way.                                              *)

(* Overload and error flags are pushed before the line is idle again, the  *)
(* "tx" machine acknowledges in the ack slot only, and an idle line is not *)
(* signalled while a frame is on the wire.                                 *)
WireInv(l, p) ==
  /\ l.overruns <= Overruns /\ l.faults <= Faults
  /\ l.phase \in {"sof", "body", "crc"} => l.frames[Latest(l)].ack = "none"
  /\ l.phase \in {"eof6", "eof7"} => Ended(l, Latest(l))
  /\ \A i \in DOMAIN p.isr : p.isr[i].k \in Flags => l.phase = "flag"
  /\ p.txsm = "acking" => l.phase = "crc"
  /\ "MAYTX" \in p.irqs => l.phase = "idle"

\* The elements of a sequence with one more at its end.
LEMMA AppendAt ==
  ASSUME NEW S, NEW s \in Seq(S), NEW t \in S
  PROVE  /\ Append(s, t) \in Seq(S) /\ DOMAIN s \subseteq DOMAIN Append(s, t)
         /\ \A i \in DOMAIN Append(s, t) : \/ i \in DOMAIN s /\ Append(s, t)[i] = s[i]
                                           \/ i = Len(s) + 1 /\ Append(s, t)[i] = t
OBVIOUS

\* A word appended to the shift register is appended to the stream.
LEMMA JoinAppend ==
  ASSUME NEW a \in Seq(Tokens), NEW b \in Seq(Tokens), NEW t \in Tokens
  PROVE  a \o Append(b, t) = Append(a \o b, t)
OBVIOUS

\* A stream with nothing behind it.
LEMMA JoinEmpty ==
  ASSUME NEW a \in Seq(Tokens)
  PROVE  a \o <<>> = a
OBVIOUS

\* A field is sampled.
LEMMA AppendCarried ==
  ASSUME NEW l, NEW m, NEW s \in Seq(Tokens), NEW t \in Tokens, NewToken(l, m, t),
         Latest(m) = Latest(l) /\ ~Calm(l) /\ Calm(m) =>
            \/ Ended(m, Latest(l))
            \/ ~Intact(m) /\ t.n = Latest(l) /\ t.k \in Flags
  PROVE  Carried(l, m, s, Append(s, t))
<1> DEFINE r == Append(s, t)
<1>1. /\ r \in Seq(Tokens) /\ DOMAIN s \subseteq DOMAIN r
      /\ \A i \in DOMAIN r : \/ i \in DOMAIN s /\ r[i] = s[i]
                             \/ i = Len(s) + 1 /\ r[i] = t
  BY AppendAt
<1>2. Len(s) + 1 \in DOMAIN r /\ r[Len(s) + 1] = t
  OBVIOUS
<1> HIDE DEF r
<1>3. t.n = Latest(l) /\ t.k \in Flags => Flagged(r, Latest(l))
  BY <1>2 DEF Flagged
<1>4. Latest(m) = Latest(l) /\ ~Calm(l) /\ Calm(m) => Told(m, r, Latest(l))
  BY <1>3 DEF Told
<1>5. Carried(l, m, s, r)
  BY <1>1, <1>4 DEF Carried
<1> QED
  BY <1>5 DEF r

\* No field is sampled.
LEMMA SameCarried ==
  ASSUME NEW l, NEW m, NEW s,
         Latest(m) = Latest(l) /\ ~Calm(l) /\ Calm(m) => Ended(m, Latest(l))
  PROVE  Carried(l, m, s, s)
BY DEF Carried, Told

\* A frame goes on without a change to what is known of the frames.
LEMMA PhaseGoes ==
  ASSUME NEW l \in LineStates, NEW m, m.frames = l.frames,
         Calm(l) => Calm(m), l.phase = "idle" => m.phase = "idle",
         m.faults <= l.faults, m.overruns <= l.overruns, m.faults \in Nat, m.overruns \in Nat,
         l.faults <= Faults, l.overruns <= Overruns
  PROVE  Goes(l, m)
<1>1. l.faults \in Nat /\ l.overruns \in Nat /\ Latest(l) \in Nat /\ Latest(m) = Latest(l)
  BY DEF LineStates, Latest
<1>2. (Intact(m) => Intact(l)) /\ (Whole(m) => Whole(l))
  BY <1>1, PioAssumption DEF Intact, Whole
<1> QED
  BY <1>1, <1>2 DEF Goes, Ended

\* The ack or the end of the frame on the wire is seen.
LEMMA FrameGoes ==
  ASSUME NEW l \in LineStates, NEW m, NEW f, Latest(l) \in DOMAIN l.frames,
         m.frames = [l.frames EXCEPT ![Latest(l)] = f],
         l.frames[Latest(l)].ack # "none" => f.ack # "none",
         l.frames[Latest(l)].ok # "no" => f.ok # "no",
         ~Calm(l), ~Calm(m),
         m.faults <= l.faults, m.overruns = l.overruns, m.faults \in Nat,
         l.faults <= Faults
  PROVE  Goes(l, m)
<1>1. l.faults \in Nat /\ l.frames \in Seq(Frames) /\ Latest(l) \in Nat
  BY DEF LineStates, Latest
<1>2. (Intact(m) => Intact(l)) /\ (Whole(m) => Whole(l))
  BY <1>1, PioAssumption DEF Intact, Whole
<1>3. Latest(m) = Latest(l)
  BY <1>1 DEF Latest
<1>4. \A n \in DOMAIN l.frames : m.frames[n] = IF n = Latest(l) THEN f ELSE l.frames[n]
  BY <1>1
<1> QED
  BY <1>2, <1>3, <1>4 DEF Goes, Ended, Calm

\* A frame starts.
LEMMA StartGoes ==
  ASSUME NEW l \in LineStates, NEW m, NEW f, m.frames = Append(l.frames, f),
         l.phase = "idle", m.faults = l.faults, m.overruns = l.overruns
  PROVE  Goes(l, m) /\ Latest(m) = Latest(l) + 1 /\ m.frames[Latest(m)] = f
<1>1. l.frames \in Seq(Frames) /\ Latest(l) \in Nat
  BY DEF LineStates, Latest
<1>2. Latest(m) = Latest(l) + 1
  BY <1>1 DEF Latest
<1>3. (\A n \in DOMAIN l.frames : m.frames[n] = l.frames[n]) /\ m.frames[Latest(m)] = f
  BY <1>1 DEF Latest
<1>4. (Intact(m) => Intact(l)) /\ (Whole(m) => Whole(l))
  BY DEF Intact, Whole
<1> QED
  BY <1>1, <1>2, <1>3, <1>4 DEF Goes, Ended

(* What a step of the wire does to frames, stream and WireInv.             *)
Onward ==
  /\ Goes(line, line')
  /\ Carried(line, line', pio.fifo \o pio.isr, pio'.fifo \o pio'.isr)
  /\ WireInv(line', pio')

\* The parts of a typed wire.
LEMMA WireParts ==
  ASSUME WireTyped
  PROVE  /\ pio \in PioStates /\ line \in LineStates
         /\ pio.fifo \in Seq(Tokens) /\ pio.isr \in Seq(Tokens)
         /\ line.frames \in Seq(Frames) /\ line.faults \in Nat /\ line.overruns \in Nat
         /\ Last = Latest(line) /\ Last \in Nat /\ DOMAIN line.frames = 1..Last
         /\ line.phase # "idle" => Last \in DOMAIN line.frames /\ Frame \in Frames
<1>1. pio \in PioStates /\ line \in LineStates
  BY DEF WireTyped
<1>2. line.phase # "idle" => Last \in DOMAIN line.frames /\ Frame \in Frames
  BY <1>1, FrameUpdateType DEF WireTyped, FrameThere
<1> QED
  BY <1>1, <1>2 DEF PioStates, LineStates, Last, Latest

\* A step that samples field k of frame n.
LEMMA SampleStep ==
  ASSUME WireTyped, WireInv(line, pio), line' \in LineStates, Goes(line, line'),
         NEW k \in Kinds, NEW n \in Nat, pio'.fifo = pio.fifo, pio'.isr = Sampled(k, n),
         NewToken(line, line', [k |-> k, n |-> n]),
         Latest(line') = Latest(line) /\ ~Calm(line) /\ Calm(line') =>
            Ended(line', Latest(line)) \/ (~Intact(line') /\ n = Latest(line) /\ k \in Flags),
         line.phase # "flag" \/ pio.isr = <<>>, k \in Flags => line'.phase = "flag",
         line'.overruns <= Overruns /\ line'.faults <= Faults,
         line'.phase \in {"sof", "body", "crc"} => line'.frames[Latest(line')].ack = "none",
         line'.phase \in {"eof6", "eof7"} => Ended(line', Latest(line')),
         pio'.txsm = "acking" => line'.phase = "crc",
         "MAYTX" \in pio'.irqs => line'.phase = "idle"
  PROVE  Onward
<1> DEFINE t == [k |-> k, n |-> n]
<1>0. pio.fifo \in Seq(Tokens) /\ pio.isr \in Seq(Tokens)
  BY WireParts
<1>1. t \in Tokens /\ pio'.isr = Append(pio.isr, t) /\ t.k = k /\ t.n = n /\ NewToken(line, line', t)
  BY DEF Sampled, Tokens
<1> HIDE DEF t
<1>2. pio'.fifo \o pio'.isr = Append(pio.fifo \o pio.isr, t)
  <2>1. pio.fifo \o Append(pio.isr, t) = Append(pio.fifo \o pio.isr, t)
    BY <1>0, <1>1, JoinAppend
  <2> QED
    BY <1>1, <2>1
<1>3. pio.fifo \o pio.isr \in Seq(Tokens)
  BY <1>0
<1>4. Carried(line, line', pio.fifo \o pio.isr, pio'.fifo \o pio'.isr)
  BY <1>1, <1>2, <1>3, AppendCarried
<1>5. \A i \in DOMAIN pio'.isr : pio'.isr[i].k \in Flags => line'.phase = "flag"
  <2>1. \A i \in DOMAIN pio'.isr : \/ i \in DOMAIN pio.isr /\ pio'.isr[i] = pio.isr[i]
                                   \/ pio'.isr[i] = t
    BY <1>0, <1>1, AppendAt
  <2>2. \A i \in DOMAIN pio.isr : pio.isr[i].k \notin Flags
    BY DEF WireInv
  <2> QED
    BY <1>1, <2>1, <2>2
<1> QED
  BY <1>4, <1>5 DEF Onward, WireInv

\* Header and data, or the crc, of the frame on the wire: nothing is known of its end yet.
LEMMA BodyOnward ==
  ASSUME WireTyped, WireInv(line, pio), line' \in LineStates, NEW k \in Kinds \ (Closing \cup {"ack"}),
         line'.frames = line.frames, line'.overruns = line.overruns, line'.faults <= line.faults,
         ~Calm(line), ~Calm(line'),
         line'.phase \in {"sof", "body", "crc"} => line.phase \in {"sof", "body", "crc"},
         line'.phase \notin {"eof6", "eof7"},
         pio'.fifo = pio.fifo, pio'.isr = Sampled(k, Last),
         pio'.txsm = "acking" => line'.phase = "crc",
         "MAYTX" \in pio'.irqs => "MAYTX" \in pio.irqs
  PROVE  Onward
<1>0. /\ Latest(line') = Latest(line) /\ Last = Latest(line) /\ Last \in Nat /\ line \in LineStates
      /\ line.faults \in Nat /\ line'.faults \in Nat /\ line.overruns \in Nat
  BY WireParts DEF Latest, LineStates
<1>1. Goes(line, line') /\ line'.overruns <= Overruns /\ line'.faults <= Faults
  <2>1. line.overruns <= Overruns /\ line.faults <= Faults
    BY DEF WireInv
  <2>2. /\ line'.overruns <= Overruns /\ line'.faults <= Faults
        /\ line'.overruns <= line.overruns /\ line'.overruns \in Nat /\ line.phase # "idle"
    BY <1>0, <2>1, PioAssumption DEF Calm
  <2> QED
    BY <1>0, <2>1, <2>2, PhaseGoes
<1>2. NewToken(line, line', [k |-> k, n |-> Last])
  <2>1. OldToken(line', [k |-> k, n |-> Last])
    BY <1>0 DEF OldToken, Closing, Passive
  <2> QED
    BY <1>0, <2>1 DEF NewToken
<1>3. k \notin Flags /\ line.phase # "flag" /\ line.phase # "idle"
  BY DEF Flags, Closing, Passive, Calm
<1> QED
  BY <1>0, <1>1, <1>2, <1>3, SampleStep DEF WireInv, Kinds

\* Header and data.
LEMMA SendBodyOnward ==
  ASSUME WireTyped, WireInv(line, pio), line' \in LineStates, NEW k \in {"body", "rsv"}, SendBody(k)
  PROVE  Onward
<1>0. pio \in PioStates /\ line \in LineStates /\ line.faults \in Nat
  BY WireParts
<1>1. /\ line.phase = "sof" /\ line'.phase = "body" /\ line'.frames = line.frames
      /\ line'.overruns = line.overruns /\ line'.faults <= line.faults
  BY <1>0 DEF SendBody, LineStates
<1>2. /\ pio'.fifo = pio.fifo /\ pio'.isr = Sampled(k, Last) /\ pio'.txsm = pio.txsm
      /\ pio'.irqs = pio.irqs
  BY <1>0 DEF SendBody, PioStates
<1>3. pio.txsm # "acking" /\ k \in Kinds \ (Closing \cup {"ack"})
  BY <1>1 DEF WireInv, Kinds, Closing, Passive
<1> QED
  BY <1>1, <1>2, <1>3, BodyOnward DEF Calm

\* The crc.
LEMMA SendCrcOnward ==
  ASSUME WireTyped, WireInv(line, pio), line' \in LineStates, NEW k \in {"crc", "badcrc"}, SendCrc(k)
  PROVE  Onward
<1>0. pio \in PioStates /\ line \in LineStates /\ line.faults \in Nat
  BY WireParts
<1>1. /\ line.phase = "body" /\ line'.phase = "crc" /\ line'.frames = line.frames
      /\ line'.overruns = line.overruns /\ line'.faults <= line.faults
  BY <1>0 DEF SendCrc, LineStates
<1>2. /\ pio'.fifo = pio.fifo /\ pio'.isr = Sampled(k, Last)
      /\ "MAYTX" \in pio'.irqs => "MAYTX" \in pio.irqs
  <2>1. PICK left \in BOOLEAN :
          /\ k = "crc" =>
               pio' = [pio EXCEPT !.isr = Sampled("crc", Last), !.irqs = MatchIrqs("inject"),
                                  !.txsm = MatchTxSm("inject"), !.match = MatchLeft("inject"),
                                  !.sync = "count", !.flevel = left]
          /\ k # "crc" =>
               pio' = [pio EXCEPT !.isr = Sampled(k, Last), !.sync = "count", !.flevel = left]
    BY <1>0, SendCrcIs
  <2>2. "MAYTX" \in MatchIrqs("inject") => "MAYTX" \in pio.irqs
    BY DEF MatchIrqs
  <2> QED
    BY <1>0, <2>1, <2>2 DEF PioStates
<1>3. k \in Kinds \ (Closing \cup {"ack"})
  BY DEF Kinds, Closing, Passive
<1> QED
  BY <1>1, <1>2, <1>3, BodyOnward DEF Calm

\* The ack slot: whether the frame was acknowledged is known from here on.
LEMMA AckSlotOnward ==
  ASSUME WireTyped, WireInv(line, pio), line' \in LineStates,
         NEW others \in BOOLEAN, NEW txend \in {"conflict", "drained"}, AckSlot(others, txend)
  PROVE  Onward
<1> DEFINE us == pio.txsm = "acking"
           a == IF us THEN "us" ELSE IF others THEN "other" ELSE "none"
           f == [Frame EXCEPT !.ack = a]
           k == IF us \/ others THEN "ack" ELSE "noack"
<1>0. /\ pio \in PioStates /\ line \in LineStates /\ line.faults \in Nat /\ line.overruns \in Nat
      /\ Last = Latest(line) /\ Last \in Nat /\ line.frames \in Seq(Frames)
      /\ line.phase = "crc" /\ Last \in DOMAIN line.frames /\ Frame \in Frames
      /\ Frame.ack = "none"
  BY WireParts DEF AckSlot, WireInv, Frame
<1>1. /\ f.ack = a /\ f.ok = Frame.ok
      /\ line'.phase = "ack" /\ line'.frames = [line.frames EXCEPT ![Last] = f]
      /\ line'.overruns = line.overruns /\ line'.faults <= line.faults /\ line'.faults \in Nat
  <2>1. f.ack = a /\ f.ok = Frame.ok
    BY <1>0 DEF Frames
  <2>2. line'.frames = [line.frames EXCEPT ![Last] = f] /\ line'.phase = "ack"
    BY <1>0 DEF AckSlot, LineStates, Frame
  <2>3. line'.overruns = line.overruns /\ line'.faults <= line.faults /\ line'.faults \in Nat
    BY <1>0 DEF AckSlot, LineStates
  <2> QED
    BY <2>1, <2>2, <2>3
<1>2. /\ pio'.fifo = pio.fifo /\ pio'.isr = Sampled(k, Last)
      /\ pio'.txsm # "acking"
      /\ "MAYTX" \in pio'.irqs => "MAYTX" \in pio.irqs
  <2>1. /\ pio'.fifo = pio.fifo /\ pio'.isr = Sampled(k, Last)
        /\ pio'.irqs = IF us THEN pio.irqs \cup {"ACKDONE"} ELSE pio.irqs
        /\ pio'.txsm = CASE us -> "ackhold" [] pio.txsm = "sending" -> txend [] OTHER -> pio.txsm
    BY <1>0 DEF AckSlot, PioStates
  <2> QED
    BY <2>1
<1>3. k = "ack" => a # "none"
  OBVIOUS
<1>4. k \in {"ack", "noack"}
  OBVIOUS
<1> HIDE DEF f, a, k
<1>5. Goes(line, line')
  BY <1>0, <1>1, FrameGoes DEF Calm, WireInv, Frame
<1>6. Latest(line') = Last /\ line'.frames[Last] = f
  BY <1>0, <1>1 DEF Latest
<1>7. NewToken(line, line', [k |-> k, n |-> Last])
  <2>1. OldToken(line', [k |-> k, n |-> Last])
    BY <1>0, <1>1, <1>3, <1>4, <1>6 DEF OldToken, Closing, Passive
  <2> QED
    BY <1>0, <1>1, <1>6, <2>1 DEF NewToken, Calm
<1>8. line'.overruns <= Overruns /\ line'.faults <= Faults
  BY <1>0, <1>1, PioAssumption DEF WireInv
<1>9. /\ ~Calm(line') /\ line.phase # "flag" /\ k \in Kinds /\ k \notin Flags
      /\ "MAYTX" \notin pio'.irqs
  BY <1>0, <1>1, <1>2, <1>4 DEF WireInv, Kinds, Calm, Flags
<1> QED
  BY <1>0, <1>1, <1>2, <1>5, <1>7, <1>8, <1>9, SampleStep

\* Bits 1 to 4 of the end of a frame.
LEMMA EofBit4Onward ==
  ASSUME WireTyped, WireInv(line, pio), line' \in LineStates, EofBit4
  PROVE  Onward
<1>0. pio \in PioStates /\ line \in LineStates /\ line.faults \in Nat
  BY WireParts
<1>1. /\ line.phase = "ack" /\ line'.phase = "eof4" /\ line'.frames = line.frames
      /\ line'.overruns = line.overruns /\ line'.faults <= line.faults
  BY <1>0 DEF EofBit4, LineStates
<1>2. /\ pio'.fifo = pio.fifo /\ pio'.isr = Sampled("eof0", Last) /\ pio'.txsm = pio.txsm
      /\ pio'.irqs = pio.irqs
  BY <1>0 DEF EofBit4, PioStates
<1>3. pio.txsm # "acking" /\ "eof0" \in Kinds \ (Closing \cup {"ack"})
  BY <1>1 DEF WireInv, Kinds, Closing, Passive
<1> QED
  BY <1>1, <1>2, <1>3, BodyOnward DEF Calm

\* A step that samples nothing and changes what is known of the end of the frame.
LEMMA EndOnward ==
  ASSUME WireTyped, WireInv(line, pio), line' \in LineStates,
         NEW ok \in {"rx", "tx"}, NEW phase \in {"eof6", "eof7"}, line.phase \in {"eof4", "eof6"},
         line' = [line EXCEPT !.phase = phase,
                    !.frames[Last].ok = IF Frame.ack = "none" THEN @ ELSE ok],
         pio'.fifo = pio.fifo, pio'.isr = pio.isr,
         pio'.txsm # "acking", "MAYTX" \in pio'.irqs => "MAYTX" \in pio.irqs
  PROVE  Onward
<1> DEFINE f == [Frame EXCEPT !.ok = IF Frame.ack = "none" THEN Frame.ok ELSE ok]
<1>0. /\ line \in LineStates /\ line.faults \in Nat /\ line.overruns \in Nat
      /\ Last = Latest(line) /\ Last \in Nat /\ line.frames \in Seq(Frames)
      /\ Last \in DOMAIN line.frames /\ Frame \in Frames /\ Frame = line.frames[Last]
  BY WireParts DEF Frame
<1>1. /\ f.ack = Frame.ack /\ f.ok = IF Frame.ack = "none" THEN Frame.ok ELSE ok
      /\ line'.phase = phase /\ line'.frames = [line.frames EXCEPT ![Last] = f]
      /\ line'.overruns = line.overruns /\ line'.faults = line.faults
  BY <1>0 DEF LineStates, Frames
<1> HIDE DEF f
<1>2. ~Calm(line) /\ ~Calm(line')
  BY <1>1 DEF Calm
<1>3. Goes(line, line')
  <2>1. /\ line'.faults <= line.faults /\ line'.faults \in Nat /\ line.faults <= Faults
        /\ f.ack = line.frames[Latest(line)].ack
        /\ line.frames[Latest(line)].ok # "no" => f.ok # "no"
    BY <1>0, <1>1 DEF WireInv
  <2> QED
    BY <1>0, <1>1, <1>2, <2>1, FrameGoes
<1>4. Latest(line') = Last /\ line'.frames[Last] = f
  BY <1>0, <1>1 DEF Latest
<1>5. Ended(line', Latest(line'))
  BY <1>1, <1>4 DEF Ended
<1>6. Carried(line, line', pio.fifo \o pio.isr, pio'.fifo \o pio'.isr)
  BY <1>2, SameCarried
<1>7. WireInv(line', pio')
  BY <1>1, <1>2, <1>5 DEF WireInv, Calm
<1> QED
  BY <1>3, <1>6, <1>7 DEF Onward

\* A field that ends the frame on the wire, or a disturbance.
LEMMA CloseOnward ==
  ASSUME WireTyped, WireInv(line, pio), line' \in LineStates, NEW k \in Closing, ~Calm(line),
         line'.frames = line.frames, line'.overruns = line.overruns, line'.faults <= line.faults,
         Calm(line'), k \in Flags => line'.phase = "flag", k \in {"eof1"} \cup Passive => line'.phase = "idle",
         Ended(line, Last) \/ (~Intact(line') /\ k \in Flags),
         pio'.fifo = pio.fifo, pio'.isr = Sampled(k, Last),
         pio'.txsm # "acking", "MAYTX" \in pio'.irqs => "MAYTX" \in pio.irqs
  PROVE  Onward
<1>0. /\ Latest(line') = Latest(line) /\ Last = Latest(line) /\ Last \in Nat /\ line \in LineStates
      /\ line.faults \in Nat /\ line'.faults \in Nat /\ line.overruns \in Nat
      /\ line.faults <= Faults /\ line.overruns <= Overruns
      /\ line.phase # "flag" /\ line.phase # "idle"
  BY WireParts DEF Latest, LineStates, WireInv, Calm
<1>1. line'.overruns <= Overruns /\ line'.faults <= Faults /\ line'.overruns <= line.overruns
  BY <1>0, PioAssumption
<1>2. Goes(line, line')
  BY <1>0, <1>1, PhaseGoes
<1>3. Ended(line', Last) <=> Ended(line, Last)
  BY DEF Ended
<1>4. NewToken(line, line', [k |-> k, n |-> Last])
  <2>1. k \in {"eof1", "over", "rxover"} => k \notin Flags
    BY DEF Flags
  <2>2. OldToken(line', [k |-> k, n |-> Last])
    BY <1>0, <1>3, <2>1 DEF OldToken, Closing, Passive
  <2> QED
    BY <1>0, <1>3, <2>2 DEF NewToken
<1>5. k \in Kinds /\ "MAYTX" \notin pio'.irqs
  BY <1>0 DEF Kinds, Closing, Passive, WireInv
<1>6. line'.phase \notin {"sof", "body", "crc", "eof6", "eof7"}
  BY DEF Calm
<1> QED
  BY <1>0, <1>1, <1>2, <1>3, <1>4, <1>5, <1>6, SampleStep

\* A step that samples nothing, starts nothing and leaves the frames alone.
LEMMA QuietOnward ==
  ASSUME WireTyped, WireInv(line, pio), line' \in LineStates,
         line'.frames = line.frames, line'.overruns = line.overruns, line'.faults = line.faults,
         line'.phase = line.phase \/ (line'.phase = "idle" /\ (line.phase = "eof7" \/ pio.isr = <<>>)),
         ~Calm(line) /\ Calm(line') => Ended(line, Last),
         pio'.fifo \o pio'.isr = pio.fifo \o pio.isr, pio'.isr \in {pio.isr, <<>>},
         pio'.txsm = pio.txsm, pio.txsm = "acking" => line'.phase = "crc",
         "MAYTX" \in pio'.irqs => "MAYTX" \in pio.irqs \/ line.phase = "idle"
  PROVE  Onward
<1>0. /\ Latest(line') = Latest(line) /\ Last = Latest(line) /\ line \in LineStates
      /\ line.faults \in Nat /\ line.overruns \in Nat
      /\ line.faults <= Faults /\ line.overruns <= Overruns
  BY WireParts DEF Latest, WireInv
<1>1. /\ Calm(line) => Calm(line')
      /\ line.phase = "idle" => line'.phase = "idle"
  BY DEF Calm
<1>2. line'.faults <= line.faults /\ line'.overruns <= line.overruns
  BY <1>0
<1>3. Goes(line, line')
  BY <1>0, <1>1, <1>2, PhaseGoes
<1>4. Carried(line, line', pio.fifo \o pio.isr, pio'.fifo \o pio'.isr)
  BY <1>0, SameCarried DEF Ended
<1>5. \A i \in DOMAIN pio'.isr : pio'.isr[i].k \in Flags => line'.phase = "flag"
  BY DEF WireInv
<1>6. WireInv(line', pio')
  BY <1>0, <1>5 DEF WireInv, Ended
<1> QED
  BY <1>3, <1>4, <1>6 DEF Onward

\* Bits 5 to 7 of the end of a frame, and the intermission.
LEMMA EofOnward ==
  ASSUME WireTyped, WireInv(line, pio), line' \in LineStates,
         pio.txsm = "ackarmed" => pio.match.kind \in {"none", "inject"},
         EofBit6 \/ EofBit7 \/ Intermission \/ RecoverLine
  PROVE  Onward
<1>0. pio \in PioStates /\ line \in LineStates /\ Last = Latest(line)
  BY WireParts
<1>1. ASSUME NEW kind \in {"rxend", "txend"}
      PROVE  /\ "MAYTX" \in MatchIrqs(kind) => "MAYTX" \in pio.irqs
             /\ MatchTxSm(kind) = pio.txsm
  BY <1>1 DEF MatchIrqs, MatchTxSm, Matches
<1>2. CASE EofBit6
  <2>1. /\ pio'.fifo = pio.fifo /\ pio'.isr = pio.isr /\ pio'.txsm = pio.txsm
        /\ pio'.irqs = MatchIrqs("rxend")
    BY <1>0, <1>2 DEF EofBit6, PioStates
  <2>2. line.phase = "eof4" /\ pio.txsm # "acking"
    BY <1>2 DEF EofBit6, WireInv
  <2> QED
    BY <1>1, <1>2, <2>1, <2>2, EndOnward DEF EofBit6
<1>3. CASE EofBit7
  <2>1. line.phase = "eof6" /\ pio.txsm # "acking"
    BY <1>3 DEF EofBit7, WireInv
  <2>2. /\ pio'.fifo = pio.fifo /\ pio'.isr = pio.isr /\ pio'.txsm = pio.txsm
        /\ "MAYTX" \in pio'.irqs => "MAYTX" \in pio.irqs
    <3>1. CASE Frame.ack # "none"
      <4>1. /\ pio'.fifo = pio.fifo /\ pio'.isr = pio.isr /\ pio'.txsm = pio.txsm
            /\ pio'.irqs = MatchIrqs("txend")
        BY <1>0, <1>3, <3>1 DEF EofBit7, PioStates
      <4> QED
        BY <1>1, <4>1
    <3>2. CASE Frame.ack = "none"
      BY <1>3, <3>2 DEF EofBit7
    <3> QED
      BY <3>1, <3>2
  <2> QED
    BY <1>3, <2>1, <2>2, EndOnward DEF EofBit7
<1>4. CASE Intermission
  <2>1. /\ line.phase = "eof7" /\ line'.phase = "idle" /\ line'.frames = line.frames
        /\ line'.overruns = line.overruns /\ line'.faults = line.faults
    BY <1>0, <1>4 DEF Intermission, LineStates
  <2>2. /\ pio'.fifo = pio.fifo /\ pio'.txsm = pio.txsm /\ pio'.irqs = pio.irqs
        /\ pio'.isr = IF Unsynced THEN pio.isr ELSE Sampled("eof1", Last)
    BY <1>0, <1>4 DEF Intermission, PioStates
  <2>3. Ended(line, Last) /\ pio.txsm # "acking" /\ ~Calm(line) /\ Calm(line')
    BY <1>0, <2>1 DEF WireInv, Calm
  <2>4. CASE Unsynced
    BY <2>1, <2>2, <2>3, <2>4, QuietOnward
  <2>5. CASE ~Unsynced
    <3>1. "eof1" \in Closing /\ "eof1" \notin Flags /\ line'.faults <= line.faults
      BY <1>0, <2>1 DEF Closing, Passive, Flags, LineStates
    <3> QED
      BY <2>1, <2>2, <2>3, <2>5, <3>1, CloseOnward
  <2> QED
    BY <2>4, <2>5
<1>5. CASE RecoverLine
  <2>1. /\ line.phase = "flag" /\ line'.phase = "idle" /\ line'.frames = line.frames
        /\ line'.overruns = line.overruns /\ line'.faults = line.faults
    BY <1>0, <1>5 DEF RecoverLine, LineStates
  <2>2. /\ pio'.fifo = pio.fifo /\ pio'.txsm = pio.txsm /\ pio'.irqs = pio.irqs
        /\ pio'.isr = IF Unsynced THEN pio.isr ELSE Sampled("idle", Last)
        /\ pio.isr = <<>>
    BY <1>0, <1>5 DEF RecoverLine, PioStates
  <2>3. pio.txsm # "acking" /\ Calm(line) /\ Calm(line')
    BY <1>0, <2>1 DEF WireInv, Calm
  <2>4. CASE Unsynced
    BY <2>1, <2>2, <2>3, <2>4, QuietOnward
  <2>5. CASE ~Unsynced
    <3>1. /\ Latest(line') = Last /\ Last \in Nat /\ line.faults \in Nat /\ line.overruns \in Nat
          /\ line.faults <= Faults /\ line.overruns <= Overruns
      BY <2>1, WireParts DEF Latest, WireInv
    <3>2. line'.faults <= line.faults /\ line'.overruns <= line.overruns
      BY <2>1, <3>1
    <3>3. Goes(line, line')
      BY <1>0, <2>1, <2>3, <3>1, <3>2, PhaseGoes
    <3>4. OldToken(line', [k |-> "idle", n |-> Last])
      BY <2>1, <3>1 DEF OldToken, Calm
    <3>5. NewToken(line, line', [k |-> "idle", n |-> Last])
      BY <3>1, <3>4 DEF NewToken, Passive
    <3>6. "idle" \in Kinds /\ "idle" \notin Flags /\ "MAYTX" \notin pio.irqs
      BY <2>1 DEF Kinds, Flags, WireInv
    <3> QED
      BY <2>1, <2>2, <2>3, <2>5, <3>1, <3>3, <3>5, <3>6, SampleStep
  <2> QED
    BY <2>4, <2>5
<1> QED
  BY <1>2, <1>3, <1>4, <1>5

\* An overload flag after the end of a frame, and a frame that is disturbed.
LEMMA FlagOnward ==
  ASSUME WireTyped, WireInv(line, pio), line' \in LineStates,
         Overload \/ \E k \in {"err", "pas"} : Disturb(k)
  PROVE  Onward
<1>0. /\ pio \in PioStates /\ line \in LineStates /\ Last = Latest(line)
      /\ line.faults \in Nat /\ Frame = line.frames[Last] /\ line.faults <= Faults
  BY WireParts DEF Frame, WireInv
<1>1. CASE Overload
  <2> DEFINE k == IF line.phase = "eof6" THEN "rxover" ELSE "over"
  <2>1. /\ line.phase \in {"eof6", "eof7"} /\ line'.phase = "flag" /\ line'.frames = line.frames
        /\ line'.overruns = line.overruns /\ line'.faults = line.faults - 1
    BY <1>0, <1>1 DEF Overload, LineStates
  <2>2. /\ pio'.fifo = pio.fifo /\ pio'.txsm = pio.txsm /\ pio'.irqs = pio.irqs
        /\ pio'.isr = Sampled(k, Last)
    BY <1>0, <1>1 DEF Overload, PioStates
  <2>3. k \in Closing /\ k \notin Flags /\ k \notin {"eof1"} \cup Passive
    BY DEF Closing, Passive, Flags
  <2>4. Ended(line, Last) /\ pio.txsm # "acking" /\ ~Calm(line) /\ Calm(line')
    BY <1>0, <2>1 DEF WireInv, Calm
  <2>5. line'.faults <= line.faults
    BY <1>0, <2>1
  <2> HIDE DEF k
  <2> QED
    BY <2>1, <2>2, <2>3, <2>4, <2>5, CloseOnward
<1>2. ASSUME NEW k \in {"err", "pas"}, Disturb(k) PROVE Onward
  <2> DEFINE silent == Frame.src = "own" /\ pio.txsm # "sending" /\ line.phase \in {"sof", "body"}
             unacked == Frame.src = "peer" /\ Frame.ack = "none" /\ line.phase = "ack"
             free == (silent /\ k = "pas") \/ (unacked /\ k = "err")
  <2>1. /\ line.phase \in {"sof", "body", "crc", "ack", "eof4"} /\ line'.phase = "flag"
        /\ line'.frames = line.frames /\ line'.overruns = line.overruns
        /\ line'.faults = IF free THEN line.faults ELSE line.faults - 1
        /\ free \/ line.faults > 0
    BY <1>0, <1>2 DEF Disturb, LineStates
  <2>2. /\ pio'.fifo = pio.fifo /\ pio'.irqs = pio.irqs /\ pio'.isr = Sampled(k, Last)
        /\ pio'.txsm = IF pio.txsm \in {"sending", "acking"} THEN "conflict" ELSE pio.txsm
    BY <1>0, <1>2 DEF Disturb, PioStates
  <2>3. k \in Closing /\ k \in Flags /\ k \notin {"eof1"} \cup Passive
    BY DEF Closing, Passive, Flags
  <2>4. free => Ended(line, Last)
    BY <1>0, <2>1 DEF WireInv, Ended
  <2> HIDE DEF free
  <2>5. Ended(line, Last) \/ (~Intact(line') /\ k \in Flags)
    <3>1. ~free => line'.faults < Faults /\ line'.faults \in Nat
      BY <1>0, <2>1, PioAssumption
    <3> QED
      BY <2>3, <2>4, <3>1, PioAssumption DEF Intact
  <2>6. line'.faults <= line.faults /\ pio'.txsm # "acking" /\ ~Calm(line) /\ Calm(line')
    BY <1>0, <2>1, <2>2 DEF Calm
  <2> QED
    BY <2>1, <2>2, <2>3, <2>5, <2>6, CloseOnward
<1> QED
  BY <1>1, <1>2

\* A frame starts.
LEMMA StartOnward ==
  ASSUME WireTyped, WireInv(line, pio), line' \in LineStates,
         StartOwn \/ \E m \in PeerMsgs : StartPeer(m) \/ LoseArbitration(m)
  PROVE  Onward
<1>0. /\ pio \in PioStates /\ line \in LineStates /\ Last = Latest(line) /\ Last \in Nat
      /\ line.overruns <= Overruns /\ line.faults <= Faults
  BY WireParts DEF WireInv
<1>1. ASSUME NEW src, NEW m, NEW txsm, NEW left, line.phase = "idle", NewFrame(src, m),
             StartOfFrame(txsm, left), txsm # "acking"
      PROVE  Onward
  <2> DEFINE f == [src |-> src, msg |-> m, ack |-> "none", ok |-> "no"]
  <2>1. /\ line'.phase = "sof" /\ line'.frames = Append(line.frames, f)
        /\ line'.overruns = line.overruns /\ line'.faults = line.faults
    BY <1>0, <1>1 DEF NewFrame, LineStates
  <2>2. /\ pio'.fifo = pio.fifo /\ pio'.isr = Sampled("sof", Last + 1) /\ pio'.txsm = txsm
        /\ "MAYTX" \notin pio'.irqs
    BY <1>0, <1>1 DEF StartOfFrame, PioStates
  <2>3. f.ack = "none"
    OBVIOUS
  <2> HIDE DEF f
  <2>4. Goes(line, line') /\ Latest(line') = Last + 1 /\ line'.frames[Latest(line')] = f
    BY <1>0, <1>1, <2>1, StartGoes
  <2>5. NewToken(line, line', [k |-> "sof", n |-> Last + 1])
    <3>1. OldToken(line', [k |-> "sof", n |-> Last + 1])
      BY <1>0, <2>4 DEF OldToken, Closing, Passive
    <3> QED
      BY <1>0, <2>1, <2>4, <3>1 DEF NewToken, Calm
  <2>6. "sof" \in Kinds /\ "sof" \notin Flags /\ Last + 1 \in Nat
    BY <1>0 DEF Kinds, Flags
  <2> QED
    BY <1>0, <1>1, <2>1, <2>2, <2>3, <2>4, <2>5, <2>6, SampleStep
<1>2. CASE StartOwn
  BY <1>1, <1>2 DEF StartOwn
<1>3. ASSUME NEW m \in PeerMsgs, StartPeer(m) PROVE Onward
  <2>1. pio.txsm # "acking"
    BY <1>3 DEF StartPeer, WireInv
  <2> QED
    BY <1>1, <1>3, <2>1 DEF StartPeer
<1>4. ASSUME NEW m \in PeerMsgs, LoseArbitration(m) PROVE Onward
  BY <1>1, <1>4 DEF LoseArbitration
<1> QED
  BY <1>2, <1>3, <1>4

\* What is joined to a sequence comes behind its elements.
LEMMA JoinFront ==
  ASSUME NEW a \in Seq(Tokens), NEW b \in Seq(Tokens), NEW i \in DOMAIN a
  PROVE  i \in DOMAIN (a \o b) /\ (a \o b)[i] = a[i]
OBVIOUS

\* An idle line is sensed, sampled bits reach the rx fifo, or an overrun loses them.
LEMMA FifoOnward ==
  ASSUME WireTyped, WireInv(line, pio), line' \in LineStates,
         IdleBits \/ SignalMayTx \/ CounterWraps \/ LongIdle \/ Push \/ Overrun
  PROVE  Onward
<1>0. /\ pio \in PioStates /\ line \in LineStates /\ Last = Latest(line) /\ Last \in Nat
      /\ pio.fifo \in Seq(Tokens) /\ pio.isr \in Seq(Tokens)
      /\ line.overruns \in Nat /\ line.faults \in Nat
      /\ line.overruns <= Overruns /\ line.faults <= Faults
  BY WireParts DEF WireInv
<1>j. \A a \in Seq(Tokens) : a \o <<>> = a
  BY JoinEmpty
<1>1. ASSUME NEW k \in Passive, line.phase = "idle", line'.phase = "idle",
             line'.frames = line.frames, line'.overruns = line.overruns,
             line'.faults <= line.faults, line'.faults \in Nat,
             pio'.isr = <<>>, pio'.txsm = pio.txsm, pio'.irqs = pio.irqs,
             pio'.fifo = pio.fifo \o Sampled(k, Last)
      PROVE  Onward
  <2> DEFINE t == [k |-> k, n |-> Last]
  <2>1. pio'.fifo = pio.fifo \o Append(pio.isr, t) /\ Latest(line') = Latest(line)
    BY <1>1 DEF Sampled, Latest
  <2>2. t \in Tokens /\ t.k = k /\ t.n = Last
    BY <1>0 DEF Tokens, Kinds, Passive
  <2> HIDE DEF t
  <2>3. pio.fifo \o Append(pio.isr, t) = Append(pio.fifo \o pio.isr, t)
    BY <1>0, <2>2, JoinAppend
  <2>4. pio'.fifo \in Seq(Tokens)
    <3>1. pio.fifo \o pio.isr \in Seq(Tokens)
      BY <1>0
    <3> QED
      BY <2>1, <2>2, <2>3, <3>1, AppendAt
  <2>5. pio'.fifo \o pio'.isr = Append(pio.fifo \o pio.isr, t)
    BY <1>1, <1>j, <2>1, <2>3, <2>4
  <2>6. OldToken(line', t)
    BY <1>0, <1>1, <2>1, <2>2 DEF OldToken, Calm, Closing, Passive, Flags
  <2>7. NewToken(line, line', t)
    BY <1>0, <1>1, <2>1, <2>2, <2>6 DEF NewToken, Calm, Passive, Flags
  <2>8. Calm(line)
    BY <1>1 DEF Calm
  <2>9. Carried(line, line', pio.fifo \o pio.isr, pio'.fifo \o pio'.isr)
    <3>1. pio.fifo \o pio.isr \in Seq(Tokens)
      BY <1>0
    <3> QED
      BY <2>2, <2>5, <2>7, <2>8, <3>1, AppendCarried
  <2>10. Goes(line, line')
    BY <1>0, <1>1, <2>8, PhaseGoes DEF Calm
  <2>11. WireInv(line', pio')
    BY <1>0, <1>1, <2>1, PioAssumption DEF WireInv
  <2> QED
    BY <2>9, <2>10, <2>11 DEF Onward
<1>5. CASE IdleBits
  <2>1. /\ line' = line /\ line.phase = "idle" /\ pio'.isr = <<>> /\ pio'.txsm = pio.txsm
        /\ pio'.irqs = pio.irqs /\ pio'.fifo = pio.fifo \o Sampled("idle", Last)
    BY <1>0, <1>5 DEF IdleBits, PioStates
  <2> QED
    BY <1>0, <1>1, <2>1 DEF Passive
<1>6. CASE LongIdle
  <2>1. /\ line' = line /\ line.phase = "idle" /\ pio'.isr = <<>> /\ pio'.txsm = pio.txsm
        /\ pio'.irqs = pio.irqs /\ pio'.fifo = pio.fifo \o Sampled("long", Last)
    BY <1>0, <1>6 DEF LongIdle, PioStates
  <2> QED
    BY <1>0, <1>1, <2>1 DEF Passive
<1>7. CASE CounterWraps
  <2>1. /\ line.phase = "idle" /\ line'.phase = "idle" /\ line'.frames = line.frames
        /\ line'.overruns = line.overruns /\ line'.faults = line.faults - 1 /\ line.faults > 0
        /\ pio'.isr = <<>> /\ pio'.txsm = pio.txsm
        /\ pio'.irqs = pio.irqs /\ pio'.fifo = pio.fifo \o Sampled("idle", Last)
    BY <1>0, <1>7 DEF CounterWraps, PioStates, LineStates
  <2> QED
    BY <1>0, <1>1, <2>1 DEF Passive
<1>2. CASE SignalMayTx
  <2>1. /\ line' = line /\ line.phase = "idle" /\ pio'.isr = pio.isr /\ pio'.txsm = pio.txsm
        /\ pio'.fifo = pio.fifo
    BY <1>0, <1>2 DEF SignalMayTx, PioStates
  <2>2. pio.txsm # "acking"
    BY <2>1 DEF WireInv
  <2> QED
    BY <2>1, <2>2, QuietOnward
<1>3. CASE Push
  <2>1. /\ line' = line /\ pio'.isr = <<>> /\ pio'.txsm = pio.txsm /\ pio'.irqs = pio.irqs
        /\ pio'.fifo = pio.fifo \o pio.isr
    BY <1>0, <1>3 DEF Push, PioStates
  <2>2. pio'.fifo \o pio'.isr = pio.fifo \o pio.isr
    <3>1. pio.fifo \o pio.isr \in Seq(Tokens)
      BY <1>0
    <3> QED
      BY <1>j, <2>1, <3>1
  <2>3. pio.txsm = "acking" => line'.phase = "crc"
    BY <2>1 DEF WireInv
  <2> QED
    BY <2>1, <2>2, <2>3, QuietOnward
<1>4. CASE Overrun
  <2>1. /\ line'.phase = line.phase /\ line'.frames = line.frames /\ line'.faults = line.faults
        /\ line'.overruns = line.overruns - 1 /\ line.overruns > 0
        /\ pio'.isr = <<>> /\ pio'.txsm = pio.txsm /\ pio'.irqs = pio.irqs /\ pio'.fifo = pio.fifo
    BY <1>0, <1>4 DEF Overrun, PioStates, LineStates
  <2>2. line'.overruns <= line.overruns /\ line'.overruns \in Nat /\ line'.overruns < Overruns
    BY <1>0, <2>1, PioAssumption
  <2>3. ~Whole(line') /\ Latest(line') = Latest(line) /\ (Calm(line') <=> Calm(line))
    BY <2>1, <2>2, PioAssumption DEF Whole, Latest, Calm
  <2>4. Goes(line, line')
    BY <1>0, <2>1, <2>2, <2>3, PhaseGoes
  <2>5. pio'.fifo \o pio'.isr = pio.fifo
    BY <1>0, <1>j, <2>1
  <2>6. \A i \in DOMAIN pio.fifo : i \in DOMAIN (pio.fifo \o pio.isr)
                                   /\ pio.fifo[i] = (pio.fifo \o pio.isr)[i]
    BY <1>0, JoinFront
  <2>7. Carried(line, line', pio.fifo \o pio.isr, pio'.fifo \o pio'.isr)
    BY <2>3, <2>5, <2>6 DEF Carried
  <2>8. WireInv(line', pio')
    BY <1>0, <2>1, <2>2, <2>3, PioAssumption DEF WireInv, Ended, Latest
  <2> QED
    BY <2>4, <2>7, <2>8 DEF Onward
<1> QED
  BY <1>2, <1>3, <1>4, <1>5, <1>6, <1>7

\* Every step of the wire goes on that way.
LEMMA WireOnward ==
  ASSUME WireTyped, WireInv(line, pio), WireNext,
         pio.txsm = "ackarmed" => pio.match.kind \in {"none", "inject"}
  PROVE  Onward
<1>1. line' \in LineStates
  BY WireType DEF WireTyped
<1>2. CASE FrameStep
  BY <1>1, <1>2, SendBodyOnward, SendCrcOnward, AckSlotOnward, EofBit4Onward, EofOnward, FlagOnward
     DEF FrameStep
<1> QED
  BY <1>1, <1>2, StartOnward, FifoOnward DEF WireNext
-----------------------------------------------------------------------------
(* The registers of an ack and of an end of frame.                         *)

(* The handler set the key "inject" with the "tx" machine in ackarmed and  *)
(* with the mask of an ack; ACKDONE is up only while "tx" holds the line.  *)
Registers(w) ==
  /\ "RX_DATA" \in w.pio.inte
  /\ "ACKDONE" \in w.pio.inte => "TXPENDING" \notin w.pio.inte
  /\ "ACKDONE" \in w.pio.irqs => w.pio.txsm = "ackhold"
  /\ w.pio.txsm = "ackarmed" => w.pio.match.kind \in {"none", "inject"}
  /\ w.cd.tx_state = "QUEUED" => w.pio.txsm \notin {"ackarmed", "acking"}
  /\ w.pio.match.kind = "inject" =>
       /\ Receiving(w.cd.report_state) /\ w.pio.txsm = "ackarmed"
       /\ w.pio.inte = {"MAYTX", "ACKDONE", "RX_DATA"}

(* The driver asked, or is about to, for an interrupt about the ack or the *)
(* end of the frame it receives.                                           *)
Asked(w, mask) ==
  /\ Receiving(w.cd.report_state)
  /\ "ACKDONE" \in w.pio.inte \/ "MATCHED" \in w.pio.inte \cup mask

(* Then the key is one of that frame, and the flag tells the truth of it.  *)
Acks(l, w, mask) ==
  LET n == w.cd.parse_msg IN
  /\ Asked(w, mask) =>
       /\ w.pio.match \in {NoKey, [kind |-> "inject", n |-> n], [kind |-> "rxend", n |-> n]}
       /\ w.pio.match.kind = "rxend" => l.frames[n].ack # "none"
       /\ "MATCHED" \in w.pio.irqs => l.frames[n].ok # "no"
  /\ Receiving(w.cd.report_state) /\ "ACKDONE" \in w.pio.inte =>
       /\ w.pio.txsm = "acking" => n = Latest(l)
       /\ "ACKDONE" \in w.pio.irqs => l.frames[n].ack # "none"

(* A step of the wire leaves the ack and the end of frame alone, ...       *)
Aside ==
  /\ pio'.match = pio.match
  /\ "ACKDONE" \in pio'.irqs <=> "ACKDONE" \in pio.irqs
  /\ "MATCHED" \in pio'.irqs <=> "MATCHED" \in pio.irqs
  /\ \/ pio'.txsm = pio.txsm
     \/ /\ pio.txsm \in {"armed", "sending", "acking"}
        /\ pio'.txsm \in {"sending", "conflict", "drained"}

(* ... or it matches the key, ...                                          *)
Matched(kind) ==
  /\ line.phase # "idle" /\ Matches(kind) /\ pio'.match = NoKey
  /\ pio'.irqs = MatchIrqs(kind)
  /\ pio'.txsm = IF kind = "inject" THEN MatchTxSm(kind) ELSE pio.txsm
  /\ kind = "rxend" => line'.frames[Last].ok # "no" \/ line.frames[Last].ack = "none"

(* ... or this node acknowledges a frame.                                  *)
Acknowledged ==
  /\ pio.txsm = "acking" /\ pio'.txsm = "ackhold" /\ pio'.match = pio.match
  /\ pio'.irqs = pio.irqs \cup {"ACKDONE"}
  /\ line'.frames[Last].ack # "none"

\* Those are the cases.
LEMMA WireCases ==
  ASSUME WireTyped, WireNext
  PROVE  Aside \/ Acknowledged \/ \E kind \in {"inject", "rxend", "txend"} : Matched(kind)
<1> DEFINE Cases == Aside \/ Acknowledged \/ \E kind \in {"inject", "rxend", "txend"} : Matched(kind)
<1> SUFFICES Cases
  OBVIOUS
<1>0. /\ pio \in PioStates /\ line \in LineStates /\ Frame = line.frames[Last]
      /\ line.phase # "idle" => Last \in DOMAIN line.frames /\ Frame \in Frames
  BY WireParts DEF Frame
<1>a. ASSUME pio'.match = pio.match, pio'.irqs = pio.irqs \/ pio'.irqs = pio.irqs \ {"MAYTX"}
                                       \/ pio'.irqs = pio.irqs \cup {"MAYTX"},
             \/ pio'.txsm = pio.txsm
             \/ /\ pio.txsm \in {"armed", "sending", "acking"}
                /\ pio'.txsm \in {"sending", "conflict", "drained"}
      PROVE  Aside
  BY <1>a DEF Aside
<1>m. ASSUME NEW kind, ~Matches(kind)
      PROVE  MatchIrqs(kind) = pio.irqs /\ MatchTxSm(kind) = pio.txsm /\ MatchLeft(kind) = pio.match
  BY <1>m DEF MatchIrqs, MatchTxSm, MatchLeft
<1>n. ASSUME NEW kind, Matches(kind) PROVE MatchLeft(kind) = NoKey
  BY <1>n DEF MatchLeft
<1>1. ASSUME NEW txsm, NEW left, StartOfFrame(txsm, left)
      PROVE  /\ pio'.match = pio.match /\ pio'.irqs = pio.irqs \ {"MAYTX"} /\ pio'.txsm = txsm
  BY <1>0, <1>1 DEF StartOfFrame, PioStates
<1>2. CASE StartOwn
  BY <1>a, <1>1, <1>2 DEF StartOwn
<1>3. ASSUME NEW m \in PeerMsgs, StartPeer(m) \/ LoseArbitration(m) PROVE Cases
  BY <1>a, <1>1, <1>3 DEF StartPeer, LoseArbitration
<1>4. ASSUME NEW k \in {"body", "rsv"}, SendBody(k) PROVE Cases
  <2>1. pio'.match = pio.match /\ pio'.irqs = pio.irqs /\ pio'.txsm = pio.txsm
    BY <1>0, <1>4 DEF SendBody, PioStates
  <2> QED
    BY <1>a, <2>1
<1>5. ASSUME NEW k \in {"crc", "badcrc"}, SendCrc(k) PROVE Cases
  <2>0. PICK left \in BOOLEAN :
          /\ k = "crc" =>
               pio' = [pio EXCEPT !.isr = Sampled("crc", Last), !.irqs = MatchIrqs("inject"),
                                  !.txsm = MatchTxSm("inject"), !.match = MatchLeft("inject"),
                                  !.sync = "count", !.flevel = left]
          /\ k # "crc" =>
               pio' = [pio EXCEPT !.isr = Sampled(k, Last), !.sync = "count", !.flevel = left]
    BY <1>0, <1>5, SendCrcIs
  <2>1. CASE k = "crc"
    <3>1. /\ pio'.match = MatchLeft("inject") /\ pio'.irqs = MatchIrqs("inject")
          /\ pio'.txsm = MatchTxSm("inject")
      BY <1>0, <2>0, <2>1 DEF PioStates
    <3>2. CASE Matches("inject")
      BY <1>5, <1>n, <3>1, <3>2 DEF Matched, SendCrc
    <3>3. CASE ~Matches("inject")
      BY <1>a, <1>m, <3>1, <3>3
    <3> QED
      BY <3>2, <3>3
  <2>2. CASE k # "crc"
    <3>1. pio'.match = pio.match /\ pio'.irqs = pio.irqs /\ pio'.txsm = pio.txsm
      BY <1>0, <2>0, <2>2 DEF PioStates
    <3> QED
      BY <1>a, <3>1
  <2> QED
    BY <2>1, <2>2
<1>6. ASSUME NEW others \in BOOLEAN, NEW txend \in {"conflict", "drained"}, AckSlot(others, txend)
      PROVE  Cases
  <2>1. /\ pio'.match = pio.match
        /\ pio'.irqs = IF pio.txsm = "acking" THEN pio.irqs \cup {"ACKDONE"} ELSE pio.irqs
        /\ pio'.txsm = CASE pio.txsm = "acking" -> "ackhold"
                         [] pio.txsm = "sending" -> txend [] OTHER -> pio.txsm
    BY <1>0, <1>6 DEF AckSlot, PioStates
  <2>2. CASE pio.txsm = "acking"
    <3>1. line'.frames = [line.frames EXCEPT ![Last].ack = "us"] /\ line.phase = "crc"
      BY <1>0, <1>6, <2>2 DEF AckSlot, LineStates
    <3>2. line'.frames[Last].ack = "us"
      BY <1>0, <3>1 DEF LineStates, Frames
    <3> QED
      BY <2>1, <2>2, <3>2 DEF Acknowledged
  <2>3. CASE pio.txsm # "acking"
    BY <1>a, <2>1, <2>3
  <2> QED
    BY <2>2, <2>3
<1>7. CASE EofBit4 \/ Intermission \/ Overload \/ RecoverLine
  <2>1. pio'.match = pio.match /\ pio'.irqs = pio.irqs /\ pio'.txsm = pio.txsm
    <3>1. CASE EofBit4
      BY <1>0, <3>1 DEF EofBit4, PioStates
    <3>2. CASE Intermission
      BY <1>0, <3>2 DEF Intermission, PioStates
    <3>3. CASE Overload
      BY <1>0, <3>3 DEF Overload, PioStates
    <3>4. CASE RecoverLine
      BY <1>0, <3>4 DEF RecoverLine, PioStates
    <3> QED
      BY <1>7, <3>1, <3>2, <3>3, <3>4
  <2> QED
    BY <1>a, <2>1
<1>8. CASE EofBit6
  <2>1. /\ pio'.match = MatchLeft("rxend") /\ pio'.irqs = MatchIrqs("rxend")
        /\ pio'.txsm = pio.txsm
    BY <1>0, <1>8 DEF EofBit6, PioStates
  <2>2. line'.frames[Last].ok # "no" \/ line.frames[Last].ack = "none"
    <3>1. line'.frames = [line.frames EXCEPT ![Last].ok = IF Frame.ack = "none" THEN @ ELSE "rx"]
      BY <1>0, <1>8 DEF EofBit6, LineStates
    <3>2. line.phase # "idle"
      BY <1>8 DEF EofBit6
    <3> QED
      BY <1>0, <3>1, <3>2 DEF LineStates, Frames
  <2>3. CASE Matches("rxend")
    BY <1>8, <1>n, <2>1, <2>2, <2>3 DEF Matched, EofBit6
  <2>4. CASE ~Matches("rxend")
    BY <1>a, <1>m, <2>1, <2>4
  <2> QED
    BY <2>3, <2>4
<1>9. CASE EofBit7
  <2>1. CASE Frame.ack # "none"
    <3>1. /\ pio'.match = MatchLeft("txend") /\ pio'.irqs = MatchIrqs("txend")
          /\ pio'.txsm = pio.txsm
      BY <1>0, <1>9, <2>1 DEF EofBit7, PioStates
    <3>2. CASE Matches("txend")
      BY <1>9, <1>n, <3>1, <3>2 DEF Matched, EofBit7
    <3>3. CASE ~Matches("txend")
      BY <1>a, <1>m, <3>1, <3>3
    <3> QED
      BY <3>2, <3>3
  <2>2. CASE Frame.ack = "none"
    BY <1>a, <1>9, <2>2 DEF EofBit7
  <2> QED
    BY <2>1, <2>2
<1>10. ASSUME NEW k \in {"err", "pas"}, Disturb(k) PROVE Cases
  <2>1. /\ pio'.match = pio.match /\ pio'.irqs = pio.irqs
        /\ pio'.txsm = IF pio.txsm \in {"sending", "acking"} THEN "conflict" ELSE pio.txsm
    BY <1>0, <1>10 DEF Disturb, PioStates
  <2> QED
    BY <1>a, <2>1
<1>11. CASE IdleBits \/ SignalMayTx \/ CounterWraps \/ LongIdle \/ Push \/ Overrun
  <2>1. /\ pio'.match = pio.match /\ pio'.txsm = pio.txsm
        /\ pio'.irqs = pio.irqs \/ pio'.irqs = pio.irqs \cup {"MAYTX"}
    <3>1. CASE IdleBits
      BY <1>0, <3>1 DEF IdleBits, PioStates
    <3>2. CASE SignalMayTx
      BY <1>0, <3>2 DEF SignalMayTx, PioStates
    <3>3. CASE Push
      BY <1>0, <3>3 DEF Push, PioStates
    <3>4. CASE Overrun
      BY <1>0, <3>4 DEF Overrun, PioStates
    <3>5. CASE CounterWraps
      BY <1>0, <3>5 DEF CounterWraps, PioStates
    <3>6. CASE LongIdle
      BY <1>0, <3>6 DEF LongIdle, PioStates
    <3> QED
      BY <1>11, <3>1, <3>2, <3>3, <3>4, <3>5, <3>6
  <2> QED
    BY <1>a, <2>1
<1>12. CASE FrameStep
  BY <1>4, <1>5, <1>6, <1>7, <1>8, <1>9, <1>10, <1>12 DEF FrameStep
<1> QED
  BY <1>2, <1>3, <1>11, <1>12 DEF WireNext

\* A step of the wire keeps Registers and Acks.
LEMMA AcksGo ==
  ASSUME WireTyped, WireInv(line, pio), WireNext, Goes(line, line'), NEW mask \in SUBSET AllIrqs,
         Registers(World), Acks(line, World, mask), UNCHANGED <<cd, log>>,
         Receiving(cd.report_state) => cd.parse_msg \in DOMAIN line.frames
  PROVE  Registers(World') /\ Acks(line', World', mask)
<1> DEFINE n == cd.parse_msg
<1>0. /\ pio'.inte = pio.inte /\ Last = Latest(line)
      /\ World.cd = cd /\ World.pio = pio /\ World'.cd = cd /\ World'.pio = pio'
  BY WireKeeps, WireParts DEF World
<1>1. Asked(World', mask) <=> Asked(World, mask)
  BY <1>0 DEF Asked
<1>2. /\ Asked(World, mask) =>
            /\ pio.match \in {NoKey, [kind |-> "inject", n |-> n], [kind |-> "rxend", n |-> n]}
            /\ pio.match.kind = "rxend" => line.frames[n].ack # "none"
            /\ "MATCHED" \in pio.irqs => line.frames[n].ok # "no"
      /\ Receiving(cd.report_state) /\ "ACKDONE" \in pio.inte =>
            /\ pio.txsm = "acking" => n = Latest(line)
            /\ "ACKDONE" \in pio.irqs => line.frames[n].ack # "none"
  BY <1>0 DEF Acks
<1>3. Receiving(cd.report_state) =>
         /\ line.frames[n].ack # "none" => line'.frames[n].ack # "none"
         /\ line.frames[n].ok # "no" => line'.frames[n].ok # "no"
  BY DEF Goes
<1>4. pio.txsm = "acking" => Latest(line') = Latest(line)
  BY DEF WireInv, Goes
<1>5. NoKey.kind = "none"
  BY DEF NoKey
<1>6. Asked(World, mask) => Receiving(cd.report_state)
  BY <1>0 DEF Asked
<1>7. CASE Aside
  <2>1. Registers(World')
    BY <1>0, <1>7 DEF Registers, Aside
  <2>2. Acks(line', World', mask)
    BY <1>0, <1>1, <1>2, <1>3, <1>4, <1>6, <1>7 DEF Acks, Aside
  <2> QED
    BY <2>1, <2>2
<1>8. CASE Acknowledged
  <2>1. Registers(World')
    BY <1>0, <1>8 DEF Registers, Acknowledged
  <2>2. Acks(line', World', mask)
    BY <1>0, <1>1, <1>2, <1>3, <1>4, <1>6, <1>8 DEF Acks, Acknowledged
  <2> QED
    BY <2>1, <2>2
<1>9. ASSUME Matched("inject") PROVE Registers(World') /\ Acks(line', World', mask)
  <2>1. /\ pio.match.kind = "inject" /\ pio.match.n = Last /\ pio'.match = NoKey
        /\ pio.txsm = "ackarmed" => pio'.txsm = "acking" /\ pio'.irqs = pio.irqs
    BY <1>9 DEF Matched, Matches, MatchIrqs, MatchTxSm
  <2>2. /\ Receiving(cd.report_state) /\ pio.txsm = "ackarmed"
        /\ pio.inte = {"MAYTX", "ACKDONE", "RX_DATA"}
    BY <1>0, <2>1 DEF Registers
  <2>3. Asked(World, mask) /\ n = Last
    <3>1. Asked(World, mask)
      BY <1>0, <2>2 DEF Asked
    <3> QED
      BY <1>2, <1>5, <2>1, <3>1
  <2>4. Latest(line') = Latest(line)
    BY <1>9 DEF Goes, Matched
  <2>5. Registers(World')
    BY <1>0, <1>5, <2>1, <2>2 DEF Registers
  <2>6. Acks(line', World', mask)
    BY <1>0, <1>1, <1>2, <1>3, <1>5, <2>1, <2>2, <2>3, <2>4 DEF Acks
  <2> QED
    BY <2>5, <2>6
<1>10. ASSUME Matched("rxend") PROVE Registers(World') /\ Acks(line', World', mask)
  <2>1. /\ pio.match.kind = "rxend" /\ pio.match.n = Last /\ pio'.match = NoKey
        /\ pio'.txsm = pio.txsm
        /\ pio.txsm # "ackarmed" => pio'.irqs = pio.irqs \cup {"MATCHED"}
        /\ line'.frames[Last].ok # "no" \/ line.frames[Last].ack = "none"
    BY <1>10 DEF Matched, Matches, MatchIrqs
  <2>2. pio.txsm # "ackarmed"
    BY <1>0, <2>1 DEF Registers
  <2>3. Asked(World, mask) => n = Last /\ line.frames[n].ack # "none"
    BY <1>2, <1>5, <2>1
  <2>4. Registers(World')
    BY <1>0, <1>5, <2>1, <2>2 DEF Registers
  <2>5. Acks(line', World', mask)
    BY <1>0, <1>1, <1>2, <1>3, <1>4, <1>5, <1>6, <2>1, <2>2, <2>3 DEF Acks
  <2> QED
    BY <2>4, <2>5
<1>11. ASSUME Matched("txend") PROVE Registers(World') /\ Acks(line', World', mask)
  <2>1. /\ pio.match.kind = "txend" /\ pio'.match = NoKey /\ pio'.txsm = pio.txsm
        /\ pio.txsm # "ackarmed" => pio'.irqs = pio.irqs \cup {"MATCHED"}
    BY <1>11 DEF Matched, Matches, MatchIrqs
  <2>2. pio.txsm # "ackarmed"
    BY <1>0, <2>1 DEF Registers
  <2>3. ~Asked(World, mask)
    BY <1>2, <1>5, <2>1
  <2>4. Registers(World')
    BY <1>0, <1>5, <2>1, <2>2 DEF Registers
  <2>5. Acks(line', World', mask)
    BY <1>0, <1>1, <1>2, <1>3, <1>4, <1>5, <2>1, <2>2, <2>3 DEF Acks
  <2> QED
    BY <2>4, <2>5
<1> QED
  BY <1>7, <1>8, <1>9, <1>10, <1>11, WireCases
-----------------------------------------------------------------------------
(* The invariant.                                                          *)

(* The handler drops no flag between reading and serving it; it comes to   *)
(* MAYTX with nothing left to parse, and then the frame whose report it    *)
(* ends was valid.                                                         *)
Served ==
  /\ irq.pc \in {"out", "loop"} => irq.mask = {}
  /\ "ACKDONE" \notin irq.mask
  /\ pio.match.kind = "inject" => irq.pc \in {"out", "loop"}
  /\ irq.pc = "loop" =>
       /\ irq.ints \cap {"ACKDONE", "MATCHED"} \subseteq pio.irqs
       /\ /\ "MAYTX" \in irq.ints /\ "RX_DATA" \notin irq.ints
          /\ cd.report_state = "RX_EOF" /\ (Intact(line) \/ Whole(line))
          => line.frames[cd.parse_msg].ok # "no"

FrameInv ==
  /\ QueueInv /\ WireInv(line, pio) /\ Follow(line, World) /\ Reported(line, World)
  /\ Registers(World) /\ Acks(line, World, irq.mask) /\ Served

\* The words on their way, in the rx fifo and in the shift register, are of frames of the wire.
LEMMA StreamKnown ==
  ASSUME QueueInv
  PROVE  KnownIn(line, Stream(World)) /\ Stream(World) \in Seq(Tokens)
<1>1. pio.fifo \in Seq(Tokens) /\ pio.isr \in Seq(Tokens) /\ Stream(World) = pio.fifo \o pio.isr
  BY QueueTypes DEF PioStates, Stream
<1>2. Known(pio.fifo) /\ Known(pio.isr)
  BY QueueTypes DEF Sent
<1>3. \A i \in DOMAIN (pio.fifo \o pio.isr) :
         \/ i \in DOMAIN pio.fifo /\ (pio.fifo \o pio.isr)[i] = pio.fifo[i]
         \/ /\ i - Len(pio.fifo) \in DOMAIN pio.isr
            /\ (pio.fifo \o pio.isr)[i] = pio.isr[i - Len(pio.fifo)]
  BY <1>1, JoinedAt
<1>4. KnownIn(line, pio.fifo \o pio.isr)
  BY <1>2, <1>3 DEF Known, KnownIn
<1>5. pio.fifo \o pio.isr \in Seq(Tokens)
  BY <1>1
<1> QED
  BY <1>1, <1>4, <1>5

\* A step of the wire keeps FrameInv.
LEMMA WireFrameStep == FrameInv /\ Wire => FrameInv'
<1> SUFFICES ASSUME FrameInv, Wire PROVE FrameInv'
  OBVIOUS
<1>1. WireTyped /\ WireNext /\ UNCHANGED <<cd, app, log>> /\ QueueInv'
  BY QueueStep DEF FrameInv, QueueInv, DriverInv, TypeOK, WireTyped, Wire, Next
<1>2. irq'.pc = irq.pc /\ irq'.ints = irq.ints /\ irq'.mask = irq.mask /\ irq.mask \in SUBSET AllIrqs
  <2>1. irq \in IrqStates
    BY DEF FrameInv, QueueInv, DriverInv, TypeOK
  <2> QED
    BY <2>1 DEF Wire, IrqStates
<1>3. /\ World \in Worlds /\ World' \in Worlds /\ line \in LineStates /\ line' \in LineStates
      /\ World.cd = cd /\ World'.cd = cd /\ World.pio = pio /\ World'.pio = pio'
      /\ World.log = log /\ World'.log = log
      /\ Stream(World) = pio.fifo \o pio.isr /\ Stream(World') = pio'.fifo \o pio'.isr
  <2>1. TypeOK /\ TypeOK'
    BY <1>1 DEF FrameInv, QueueInv, DriverInv
  <2>2. World \in Worlds /\ World' \in Worlds /\ line \in LineStates /\ line' \in LineStates
    BY <2>1 DEF TypeOK, World, Worlds
  <2> QED
    BY <1>1, <2>2 DEF World, Stream
<1>4. /\ cd.report_state # "IDLE" => cd.parse_msg \in DOMAIN line.frames
      /\ Mid(cd.parse_state) => cd.parse_msg \in DOMAIN line.frames
  BY <1>3, QueueTypes DEF FrameInv, Sent, Mid
<1>5. Onward
  BY <1>1, <1>3, WireOnward DEF FrameInv, Registers
<1>6. Follow(line', World')
  <2>1. KnownIn(line, Stream(World))
    BY StreamKnown DEF FrameInv
  <2> QED
    BY <1>3, <1>4, <1>5, <2>1, FollowGoes DEF FrameInv, Onward
<1>7. Reported(line', World')
  <2>1. Reported(line', World)
    BY <1>3, <1>5, ReportedGoes DEF FrameInv, Onward
  <2> QED
    BY <1>3, <2>1 DEF Reported
<1>8. Registers(World') /\ Acks(line', World', irq.mask)
  <2>1. Receiving(cd.report_state) => cd.parse_msg \in DOMAIN line.frames
    BY <1>4 DEF Receiving
  <2> QED
    BY <1>1, <1>2, <1>5, <2>1, AcksGo DEF FrameInv, Onward
<1>9. Served'
  <2>1. /\ pio'.match.kind = "inject" => pio.match.kind = "inject"
        /\ {"ACKDONE", "MATCHED"} \cap pio.irqs \subseteq pio'.irqs
    <3>1. ASSUME NEW kind, Matched(kind)
          PROVE  /\ pio'.match.kind # "inject"
                 /\ {"ACKDONE", "MATCHED"} \cap pio.irqs \subseteq pio'.irqs
      BY <3>1 DEF Matched, MatchIrqs, NoKey
    <3>2. CASE Aside \/ Acknowledged
      BY <3>2 DEF Aside, Acknowledged
    <3> QED
      BY <1>1, <3>1, <3>2, WireCases
  <2>2. /\ Intact(line') \/ Whole(line') => Intact(line) \/ Whole(line)
        /\ cd.report_state = "RX_EOF" /\ line.frames[cd.parse_msg].ok # "no"
             => line'.frames[cd.parse_msg].ok # "no"
    BY <1>4, <1>5 DEF Onward, Goes
  <2> QED
    BY <1>1, <1>2, <2>1, <2>2 DEF FrameInv, Served
<1> QED
  BY <1>1, <1>2, <1>3, <1>5, <1>6, <1>7, <1>8, <1>9 DEF FrameInv, Onward, World
-----------------------------------------------------------------------------
(* The parser takes a field.                                               *)

(* What is known of field t when it was taken, and of those behind it.     *)
Taken(l, w, t) ==
  /\ Behind(l, w)
  /\ OldToken(l, t) /\ w.cd.parse_msg <= t.n
  /\ \A i \in DOMAIN Stream(w) :
       /\ t.n <= Stream(w)[i].n
       /\ t.k \in Closing /\ Stream(w)[i].k \notin Passive => t.n < Stream(w)[i].n
  /\ t.k \notin Flags \cup Passive => Told(l, Stream(w), t.n)
  /\ w.cd.parse_state = "START" /\ t.k \notin Passive => w.cd.parse_msg < t.n
  /\ Mid(w.cd.parse_state) /\ t.k \notin Flags => Told(l, Stream(w), w.cd.parse_msg)
  /\ w.cd.report_state = "RX_EOF" => l.frames[w.cd.parse_msg].ack # "none"

\* The first word of the stream and the words behind it.
LEMMA JoinTail ==
  ASSUME NEW a \in Seq(Tokens), NEW b \in Seq(Tokens), a # <<>>
  PROVE  /\ Tail(a) \o b \in Seq(Tokens) /\ a \o b \in Seq(Tokens)
         /\ 1 \in DOMAIN (a \o b) /\ (a \o b)[1] = Head(a) /\ Head(a) \in Tokens
         /\ \A i \in DOMAIN (Tail(a) \o b) :
              i \in Nat /\ i >= 1 /\ i + 1 \in DOMAIN (a \o b) /\ (a \o b)[i + 1] = (Tail(a) \o b)[i]
         /\ \A j \in DOMAIN (a \o b) :
              j = 1 \/ (j - 1 \in DOMAIN (Tail(a) \o b) /\ (Tail(a) \o b)[j - 1] = (a \o b)[j])
<1> DEFINE c == Tail(a)
           h == Head(a)
<1>1. c \in Seq(Tokens) /\ h \in Tokens /\ a = <<h>> \o c
  OBVIOUS
<1> HIDE DEF c, h
<1>2. /\ c \o b \in Seq(Tokens) /\ a \o b = <<h>> \o (c \o b)
  BY <1>1
<1> DEFINE q == c \o b
<1>3. q \in Seq(Tokens) /\ a \o b = <<h>> \o q
  BY <1>2
<1> HIDE DEF q
<1>4. /\ <<h>> \o q \in Seq(Tokens) /\ 1 \in DOMAIN (<<h>> \o q) /\ (<<h>> \o q)[1] = h
      /\ \A i \in DOMAIN q : i \in Nat /\ i >= 1 /\ i + 1 \in DOMAIN (<<h>> \o q)
                                                  /\ (<<h>> \o q)[i + 1] = q[i]
      /\ \A j \in DOMAIN (<<h>> \o q) : j = 1 \/ (j - 1 \in DOMAIN q /\ q[j - 1] = (<<h>> \o q)[j])
  BY <1>1, <1>3
<1> QED
  BY <1>1, <1>3, <1>4 DEF q, c, h

\* The first word of the rx fifo is taken.
LEMMA HeadTaken ==
  ASSUME NEW l \in LineStates, NEW w \in Worlds, NEW u \in Worlds, Follow(l, w),
         w.pio.fifo # <<>>, u.cd = w.cd, u.pio.fifo = Tail(w.pio.fifo), u.pio.isr = w.pio.isr
  PROVE  Taken(l, u, Head(w.pio.fifo))
<1> DEFINE s == Stream(w)
           q == Stream(u)
           t == Head(w.pio.fifo)
           n == w.cd.parse_msg
<1>1. /\ s \in Seq(Tokens) /\ q \in Seq(Tokens) /\ t \in Tokens
      /\ 1 \in DOMAIN s /\ s[1] = t
      /\ \A i \in DOMAIN q : i \in Nat /\ i >= 1 /\ i + 1 \in DOMAIN s /\ s[i + 1] = q[i]
      /\ \A j \in DOMAIN s : j = 1 \/ (j - 1 \in DOMAIN q /\ q[j - 1] = s[j])
  <2> DEFINE a == w.pio.fifo
             b == w.pio.isr
  <2>1. /\ a \in Seq(Tokens) /\ b \in Seq(Tokens) /\ a # <<>>
        /\ s = a \o b /\ q = Tail(a) \o b /\ t = Head(a)
    BY DEF Worlds, PioStates, Stream
  <2> HIDE DEF a, b, s, q, t
  <2>2. /\ Tail(a) \o b \in Seq(Tokens) /\ a \o b \in Seq(Tokens)
        /\ 1 \in DOMAIN (a \o b) /\ (a \o b)[1] = Head(a) /\ Head(a) \in Tokens
        /\ \A i \in DOMAIN (Tail(a) \o b) :
             i \in Nat /\ i >= 1 /\ i + 1 \in DOMAIN (a \o b) /\ (a \o b)[i + 1] = (Tail(a) \o b)[i]
        /\ \A j \in DOMAIN (a \o b) :
             j = 1 \/ (j - 1 \in DOMAIN (Tail(a) \o b) /\ (Tail(a) \o b)[j - 1] = (a \o b)[j])
    BY <2>1, JoinTail
  <2> QED
    BY <2>1, <2>2
<1>2. /\ \A i \in DOMAIN s : OldToken(l, s[i])
      /\ \A i, j \in DOMAIN s : i < j => s[i].n <= s[j].n
      /\ \A i, j \in DOMAIN s : i < j /\ s[i].k \in Closing /\ s[j].k \notin Passive => s[i].n < s[j].n
      /\ \A i \in DOMAIN s : s[i].k \notin Flags \cup Passive => Told(l, s, s[i].n)
      /\ n <= Latest(l)
      /\ \A i \in DOMAIN s : n <= s[i].n
  BY DEF Follow, Behind, Tidy, Ordered
<1>3. /\ w.cd.parse_state = "START" => \A i \in DOMAIN s : s[i].k \notin Passive => n < s[i].n
      /\ Mid(w.cd.parse_state) => Told(l, s, n)
      /\ w.cd.report_state = "RX_EOF" => l.frames[n].ack # "none"
  BY DEF Follow
<1> HIDE DEF s, q, t
<1>4. ASSUME NEW m, Told(l, s, m), ~(t.k \in Flags /\ t.n = m) PROVE Told(l, q, m)
  <2>1. Flagged(s, m) => Flagged(q, m)
    BY <1>1, <1>4 DEF Flagged
  <2> QED
    BY <1>4, <2>1 DEF Told
<1>5. \A i \in DOMAIN q : /\ OldToken(l, q[i]) /\ n <= q[i].n /\ t.n <= q[i].n
                          /\ t.k \in Closing /\ q[i].k \notin Passive => t.n < q[i].n
  <2> SUFFICES ASSUME NEW i \in DOMAIN q
               PROVE  /\ OldToken(l, q[i]) /\ n <= q[i].n /\ t.n <= q[i].n
                      /\ t.k \in Closing /\ q[i].k \notin Passive => t.n < q[i].n
    OBVIOUS
  <2>1. i + 1 \in DOMAIN s /\ s[i + 1] = q[i] /\ 1 < i + 1
    BY <1>1
  <2> QED
    BY <1>1, <1>2, <2>1
<1>6. Ordered(q)
  <2> SUFFICES ASSUME NEW i \in DOMAIN q, NEW j \in DOMAIN q, i < j
               PROVE  /\ q[i].n <= q[j].n
                      /\ q[i].k \in Closing /\ q[j].k \notin Passive => q[i].n < q[j].n
    BY DEF Ordered
  <2>1. /\ i + 1 \in DOMAIN s /\ s[i + 1] = q[i] /\ j + 1 \in DOMAIN s /\ s[j + 1] = q[j]
        /\ i + 1 < j + 1
    BY <1>1
  <2> QED
    BY <1>2, <2>1
<1>7. ASSUME NEW i \in DOMAIN q, q[i].k \notin Flags \cup Passive PROVE Told(l, q, q[i].n)
  <2>1. i + 1 \in DOMAIN s /\ s[i + 1] = q[i]
    BY <1>1
  <2>2. Told(l, s, q[i].n)
    BY <1>2, <1>7, <2>1
  <2>3. t.k \in Flags => t.n < q[i].n
    BY <1>5, <1>7 DEF Flags, Closing, Passive
  <2>4. t.n \in Nat /\ q[i].n \in Nat
    <3>1. t \in Tokens /\ q[i] \in Tokens
      BY <1>1, <1>7
    <3> QED
      BY <3>1 DEF Tokens
  <2>5. ~(t.k \in Flags /\ t.n = q[i].n)
    BY <2>3, <2>4
  <2> QED
    BY <1>4, <2>2, <2>5
<1>8. Tidy(l, q)
  BY <1>5, <1>6, <1>7 DEF Tidy
<1>9. /\ OldToken(l, t) /\ n <= t.n
      /\ t.k \notin Flags \cup Passive => Told(l, q, t.n)
      /\ w.cd.parse_state = "START" /\ t.k \notin Passive => n < t.n
      /\ Mid(w.cd.parse_state) /\ t.k \notin Flags => Told(l, q, n)
  BY <1>1, <1>2, <1>3, <1>4
<1> QED
  BY <1>2, <1>3, <1>5, <1>8, <1>9 DEF Taken, Behind, q, t

(* What holds of the world after a field, if it held before.               *)
Parsed(w) ==
  /\ Follow(line, w) /\ Reported(line, w) /\ Registers(w) /\ Acks(line, w, {})
  /\ WireInv(line, w.pio)

\* Discarding a frame, and its report with it.
LEMMA DiscardParsed ==
  ASSUME NEW w \in Worlds, Behind(line, w), Reported(line, w), Registers(w), WireInv(line, w.pio)
  PROVE  Parsed(data_state_go_discard(w))
<1> DEFINE v == data_state_go_discard(w)
<1>1. /\ v \in Worlds
      /\ v.cd = [w.cd EXCEPT !.parse_state = "DISCARD", !.report_state = "IDLE"]
      /\ v.log.rx = w.log.rx
      /\ v.pio.inte = {"MAYTX", "TXPENDING", "RX_DATA"}
      /\ v.pio.match = w.pio.match \/ v.pio.match = NoKey
      /\ w.cd.report_state # "IDLE" => v.pio.match = NoKey
      /\ ~w.pio.stall => /\ v.pio.fifo = w.pio.fifo /\ v.pio.isr = w.pio.isr
                         /\ v.pio.irqs = w.pio.irqs /\ v.pio.txsm = w.pio.txsm
      /\ w.pio.stall => /\ v.pio.fifo = <<>> /\ v.pio.isr = <<>>
                        /\ v.pio.irqs = {"TXPENDING"} /\ v.pio.txsm = Halted(w.pio.txsm)
  BY DiscardFields
<1> HIDE DEF v
<1>2. /\ v.cd.parse_state = "DISCARD" /\ v.cd.report_state = "IDLE"
      /\ v.cd.parse_msg = w.cd.parse_msg /\ v.cd.tx_state = w.cd.tx_state
  BY <1>1 DEF Worlds, CdStates
<1>3. Stream(v) = Stream(w) \/ Stream(v) = <<>>
  <2>1. w.pio.stall \in BOOLEAN
    BY DEF Worlds, PioStates
  <2>2. <<>> \o <<>> = <<>>
    BY JoinEmpty, EmptyType
  <2> QED
    BY <1>1, <2>1, <2>2 DEF Stream
<1>4. Follow(line, v)
  <2>1. Behind(line, v)
    BY <1>2, <1>3 DEF Behind, Tidy, Ordered
  <2> QED
    BY <1>2, <2>1 DEF Follow, Mid
<1>5. Reported(line, v)
  BY <1>1, <1>2 DEF Reported, Receiving
<1>6. /\ "ACKDONE" \in v.pio.irqs => "ACKDONE" \in w.pio.irqs /\ v.pio.txsm = w.pio.txsm
      /\ v.pio.txsm = w.pio.txsm \/ v.pio.txsm = "off"
      /\ "MAYTX" \in v.pio.irqs => "MAYTX" \in w.pio.irqs
      /\ v.pio.isr = w.pio.isr \/ v.pio.isr = <<>>
  <2>1. w.pio.stall \in BOOLEAN
    BY DEF Worlds, PioStates
  <2> QED
    BY <1>1, <2>1 DEF Halted
<1>7. NoKey.kind = "none"
  BY DEF NoKey
<1>8. v.pio.match.kind # "inject"
  <2>1. w.cd.report_state = "IDLE" => w.pio.match.kind # "inject"
    BY DEF Registers, Receiving
  <2> QED
    BY <1>1, <1>7, <2>1
<1>9. Registers(v)
  BY <1>1, <1>2, <1>6, <1>7, <1>8 DEF Registers
<1>10. Acks(line, v, {})
  BY <1>2 DEF Acks, Asked, Receiving
<1>11. WireInv(line, v.pio)
  BY <1>6 DEF WireInv
<1> QED
  BY <1>4, <1>5, <1>9, <1>10, <1>11 DEF Parsed, v

\* A valid end of frame: a complete report becomes a callback.
LEMMA EofSuccessKept ==
  ASSUME NEW w \in Worlds, NEW t \in Tokens, Taken(line, w, t), Reported(line, w), Registers(w),
         WireInv(line, w.pio), t.n = w.cd.parse_msg, t.k \in {"eof1", "over", "rxover"},
         t.n \in DOMAIN line.frames, w.cd.parse_state = "EOF1"
  PROVE  LET e == report_note_eof_success(w) IN
         /\ e \in Worlds /\ Behind(line, e) /\ Reported(line, e) /\ Registers(e)
         /\ WireInv(line, e.pio) /\ Stream(e) = Stream(w)
         /\ e.cd.report_state = "IDLE" /\ e.cd.parse_msg = w.cd.parse_msg
<1> DEFINE e == report_note_eof_success(w)
           n == w.cd.parse_msg
<1>1. /\ e \in Worlds
      /\ e.cd = [w.cd EXCEPT !.report_state = "IDLE",
                   !.tx_pull_pos = IF w.cd.report_state = "TX_EOF"
                                   THEN Next1(w.cd.tx_pull_pos) ELSE w.cd.tx_pull_pos]
      /\ e.pio = IF w.cd.report_state = "IDLE" THEN w.pio
                 ELSE [w.pio EXCEPT !.match = NoKey, !.inte = {"TXPENDING"} \cup {"RX_DATA"}]
      /\ e.log.rx = IF w.cd.report_state = "RX_EOF" THEN Append(w.log.rx, n) ELSE w.log.rx
  BY EofSuccessFields
<1> HIDE DEF e
<1>2. /\ e.cd.report_state = "IDLE" /\ e.cd.parse_msg = n /\ e.cd.tx_state = w.cd.tx_state
      /\ e.cd.parse_state = w.cd.parse_state
  BY <1>1 DEF Worlds, CdStates
<1>3. /\ e.pio.fifo = w.pio.fifo /\ e.pio.isr = w.pio.isr /\ e.pio.irqs = w.pio.irqs
      /\ e.pio.txsm = w.pio.txsm
      /\ w.cd.report_state = "IDLE" => e.pio.match = w.pio.match /\ e.pio.inte = w.pio.inte
      /\ w.cd.report_state # "IDLE" => e.pio.match = NoKey /\ e.pio.inte = {"TXPENDING", "RX_DATA"}
  BY <1>1 DEF Worlds, PioStates
<1>4. Stream(e) = Stream(w) /\ Behind(line, e)
  BY <1>2, <1>3 DEF Stream, Taken, Behind
<1>5. WireInv(line, e.pio)
  BY <1>3 DEF WireInv
<1>6. NoKey.kind = "none"
  BY DEF NoKey
<1>7. Registers(e)
  BY <1>2, <1>3, <1>6 DEF Registers, Receiving
<1>8. Increasing(e.log.rx) /\ \A i \in DOMAIN e.log.rx :
        /\ e.log.rx[i] \in DOMAIN line.frames /\ e.log.rx[i] <= n
        /\ Intact(line) \/ Whole(line) => line.frames[e.log.rx[i]].ok # "no"
  <2>1. CASE w.cd.report_state # "RX_EOF"
    BY <1>1, <2>1 DEF Reported
  <2>2. CASE w.cd.report_state = "RX_EOF"
    <3>1. line.frames[n].ok # "no"
      BY <2>2 DEF Taken, OldToken, Ended
    <3>2. \A i \in DOMAIN w.log.rx : w.log.rx[i] < n
      BY <2>2 DEF Reported, Receiving
    <3>3. w.log.rx \in Seq(Nat) /\ n \in Nat /\ e.log.rx = Append(w.log.rx, n)
      BY <1>1, <2>2 DEF Worlds, LogStates, CdStates
    <3>4. \A i \in DOMAIN e.log.rx : \/ i \in DOMAIN w.log.rx /\ e.log.rx[i] = w.log.rx[i]
                                     \/ i = Len(w.log.rx) + 1 /\ e.log.rx[i] = n
      BY <3>3, AppendAt
    <3>5. /\ DOMAIN w.log.rx = 1..Len(w.log.rx) /\ Len(w.log.rx) \in Nat
          /\ DOMAIN e.log.rx = 1..(Len(w.log.rx) + 1)
      BY <3>3
    <3>6. Increasing(e.log.rx)
      BY <3>2, <3>4, <3>5 DEF Reported, Increasing
    <3>7. n <= n
      BY <3>3
    <3> QED
      BY <3>1, <3>4, <3>6, <3>7 DEF Reported
  <2> QED
    BY <2>1, <2>2
<1>9. Reported(line, e)
  BY <1>2, <1>8 DEF Reported, Receiving
<1> QED
  BY <1>1, <1>2, <1>4, <1>5, <1>7, <1>9 DEF e

\* The parser takes one word of the rx fifo.
LEMMA ProcessRxParsed ==
  ASSUME NEW w \in Worlds, NEW t \in Tokens, NEW again \in BOOLEAN, ParserInv(w),
         Taken(line, w, t), Reported(line, w), Registers(w), Acks(line, w, {}),
         WireInv(line, w.pio), line \in LineStates,
         Mid(w.cd.parse_state) => w.cd.parse_msg \in DOMAIN line.frames
  PROVE  Parsed(process_rx(w, t, again))
<1> DEFINE v == process_rx(w, t, again)
           s == w.cd.parse_state
           n == w.cd.parse_msg
           q == Stream(w)
<1>0. /\ w.cd \in CdStates /\ w.pio \in PioStates /\ t.n \in Nat /\ n \in Nat
      /\ Latest(line) \in Nat /\ q \in Seq(Tokens)
  BY DEF Worlds, CdStates, PioStates, Tokens, LineStates, Latest, Stream
<1>1. /\ Behind(line, w) /\ OldToken(line, t) /\ n <= t.n /\ t.n <= Latest(line)
      /\ \A i \in DOMAIN q : /\ t.n <= q[i].n /\ q[i].n \in Nat
                             /\ t.k \in Closing /\ q[i].k \notin Passive => t.n < q[i].n
  <2>1. \A i \in DOMAIN q : q[i] \in Tokens
    BY <1>0
  <2>2. \A x \in Tokens : x.n \in Nat
    BY DEF Tokens
  <2> QED
    BY <2>1, <2>2 DEF Taken, OldToken
<1>2. s \in {"DISCARD", "START", "HEADER"} => w.cd.report_state = "IDLE"
  BY DEF ParserInv
<1>3. w.cd.report_state = "IDLE" => w.pio.match.kind # "inject"
  BY DEF Registers, Receiving
<1> HIDE DEF q
<1>4. ASSUME NEW p \in {"CRC", "ACK", "EOF0", "EOF1"}, Mid(s), s # "HEADER", t.k \notin Closing,
             v \in Worlds, v.pio = w.pio, v.log = w.log,
             v.cd = [w.cd EXCEPT !.parse_state = p, !.report_state = v.cd.report_state],
             Receiving(v.cd.report_state) <=> Receiving(w.cd.report_state),
             v.cd.report_state = "RX_EOF" =>
                w.cd.report_state = "RX_EOF" \/ line.frames[n].ack # "none"
      PROVE  Parsed(v)
  <2>1. /\ v.cd.parse_state = p /\ v.cd.parse_msg = n /\ v.cd.tx_state = w.cd.tx_state
        /\ Stream(v) = Stream(w)
    BY <1>0, <1>4 DEF CdStates, Stream
  <2>2. Told(line, Stream(v), n)
    BY <1>4, <2>1 DEF Taken, Closing, Passive, Flags
  <2>3. Follow(line, v)
    BY <1>1, <1>4, <2>1, <2>2 DEF Follow, Behind, Mid, Taken
  <2>4. Reported(line, v)
    BY <1>4, <2>1 DEF Reported
  <2>5. Registers(v)
    BY <1>4, <2>1 DEF Registers
  <2>6. Acks(line, v, {})
    BY <1>4, <2>1 DEF Acks, Asked
  <2> QED
    BY <1>4, <2>3, <2>4, <2>5, <2>6 DEF Parsed
<1>5. CASE v = data_state_go_discard(w)
  BY <1>1, <1>5, DiscardParsed
<1>6. CASE s = "DISCARD" /\ v = w
  <2>1. Follow(line, w)
    BY <1>1, <1>2, <1>6 DEF Follow, Mid
  <2> QED
    BY <1>6, <2>1 DEF Parsed
<1>7. ASSUME NEW e \in Worlds, Behind(line, e), Reported(line, e), Registers(e),
             WireInv(line, e.pio), Stream(e) = Stream(w),
             e.cd.report_state = "IDLE", e.cd.parse_msg = n, t.k \in {"idle", "eof1"}
      PROVE  Parsed(GoNext(e, "START"))
  <2> DEFINE g == GoNext(e, "START")
  <2>1. /\ g \in Worlds /\ g.cd = [e.cd EXCEPT !.parse_state = "START"] /\ g.pio = e.pio
        /\ g.log = e.log
    BY <1>7, GoNextFields
  <2> HIDE DEF g
  <2>2. /\ g.cd.parse_state = "START" /\ g.cd.report_state = "IDLE" /\ g.cd.parse_msg = n
        /\ g.cd.tx_state = e.cd.tx_state /\ Stream(g) = q
    BY <1>7, <2>1 DEF Worlds, CdStates, Stream, q
  <2>3. /\ \A i \in DOMAIN q : q[i].k \notin Passive => n < q[i].n
        /\ line.phase # "idle" => n < Latest(line)
    BY <1>0, <1>1, <1>7 DEF OldToken, Closing, Passive
  <2>4. Follow(line, g)
    BY <1>1, <2>2, <2>3 DEF Follow, Behind, Mid, q
  <2>5. Reported(line, g)
    BY <1>7, <2>1, <2>2 DEF Reported, Receiving
  <2>6. Registers(g)
    BY <1>7, <2>1, <2>2 DEF Registers, Receiving
  <2>7. Acks(line, g, {})
    BY <2>2 DEF Acks, Asked, Receiving
  <2> QED
    BY <1>7, <2>1, <2>4, <2>5, <2>6, <2>7 DEF Parsed, g
<1>8. CASE s = "START" /\ t.k = "idle" /\ v = GoNext(w, "START")
  BY <1>1, <1>2, <1>7, <1>8
<1>15. CASE t.k \in {"idle", "eof1"} /\ ~w.pio.stall /\ v = GoNext(data_state_go_discard(w), "START")
  <2> DEFINE e == data_state_go_discard(w)
  <2>1. /\ e \in Worlds
        /\ e.cd = [w.cd EXCEPT !.parse_state = "DISCARD", !.report_state = "IDLE"]
        /\ e.pio.fifo = w.pio.fifo /\ e.pio.isr = w.pio.isr
    BY <1>15, DiscardFields
  <2>2. Parsed(e)
    BY <1>1, DiscardParsed
  <2>3. v = GoNext(e, "START")
    BY <1>15
  <2> HIDE DEF e, v
  <2>4. e.cd.report_state = "IDLE" /\ e.cd.parse_msg = n /\ Stream(e) = Stream(w)
    BY <1>0, <2>1 DEF CdStates, Stream
  <2> QED
    BY <1>7, <1>15, <2>1, <2>2, <2>3, <2>4 DEF Parsed, Follow, v
<1>16. CASE s \in {"DISCARD", "START"} /\ v = data_state_go_discard(Restart(w))
  <2> DEFINE u == Restart(w)
  <2>1. /\ u \in Worlds /\ u.cd = w.cd /\ u.log = w.log
        /\ u.pio.fifo = <<>> /\ u.pio.isr = <<>> /\ u.pio.match = NoKey
        /\ u.pio.irqs = {"TXPENDING"} /\ u.pio.txsm = Halted(w.pio.txsm)
        /\ u.pio.inte = w.pio.inte
    BY RestartFields
  <2>2. v = data_state_go_discard(u)
    BY <1>16
  <2> HIDE DEF u, v
  <2>3. Stream(u) = <<>> /\ NoKey.kind = "none"
    BY <2>1, JoinEmpty, EmptyType DEF Stream, NoKey
  <2>4. Behind(line, u)
    BY <1>1, <2>1, <2>3 DEF Behind, Tidy, Ordered
  <2>5. Reported(line, u)
    BY <2>1 DEF Reported
  <2>6. Registers(u)
    BY <2>1, <2>3 DEF Registers, Halted
  <2>7. WireInv(line, u.pio)
    BY <2>1 DEF WireInv, Halted
  <2> QED
    BY <2>1, <2>2, <2>4, <2>5, <2>6, <2>7, DiscardParsed DEF v
<1>9. CASE /\ s = "START" /\ t.k \notin {"err", "pas", "idle", "long"}
           /\ v = data_state_update_start(w, t.n)
  <2>1. /\ v \in Worlds /\ v.cd = [w.cd EXCEPT !.parse_state = "HEADER", !.parse_msg = t.n]
        /\ v.pio = [w.pio EXCEPT !.inte = {"MAYTX"} \cup {"RX_DATA"}] /\ v.log = w.log
    <3> DEFINE d == data_state_update_start(w, t.n)
    <3>1. /\ d \in Worlds /\ d.cd = [w.cd EXCEPT !.parse_state = "HEADER", !.parse_msg = t.n]
          /\ d.pio = [w.pio EXCEPT !.inte = {"MAYTX"} \cup {"RX_DATA"}] /\ d.log = w.log
      BY <1>0, UpdateStartFields
    <3>2. v = d
      BY <1>9
    <3> QED
      BY <3>1, <3>2
  <2> HIDE DEF v
  <2>2. /\ v.cd.parse_state = "HEADER" /\ v.cd.parse_msg = t.n /\ v.cd.tx_state = w.cd.tx_state
        /\ v.cd.report_state = "IDLE"
    BY <1>0, <1>2, <1>9, <2>1 DEF CdStates
  <2>3. /\ v.pio.fifo = w.pio.fifo /\ v.pio.isr = w.pio.isr /\ v.pio.irqs = w.pio.irqs
        /\ v.pio.txsm = w.pio.txsm /\ v.pio.match = w.pio.match
        /\ v.pio.inte = {"MAYTX", "RX_DATA"}
    BY <1>0, <2>1 DEF PioStates
  <2>4. Stream(v) = q
    BY <2>3 DEF Stream, q
  <2>5. Told(line, q, t.n) /\ n < t.n
    BY <1>9 DEF Taken, Flags, Passive, q
  <2>6. Follow(line, v)
    BY <1>1, <2>2, <2>4, <2>5 DEF Follow, Behind, q
  <2>7. Reported(line, v)
    <3>1. \A i \in DOMAIN w.log.rx : w.log.rx[i] \in Nat /\ w.log.rx[i] <= n
      <4>1. w.log.rx \in Seq(Nat)
        BY DEF Worlds, LogStates
      <4> QED
        BY <4>1 DEF Reported
    <3>2. \A i \in DOMAIN w.log.rx : w.log.rx[i] < t.n /\ w.log.rx[i] <= t.n
      BY <1>0, <2>5, <3>1
    <3> QED
      BY <2>1, <2>2, <3>2 DEF Reported
  <2>8. Registers(v)
    BY <1>2, <1>3, <1>9, <2>2, <2>3 DEF Registers
  <2>9. Acks(line, v, {})
    BY <2>2 DEF Acks, Asked, Receiving
  <2>10. WireInv(line, v.pio)
    BY <2>3 DEF WireInv
  <2> QED
    BY <2>6, <2>7, <2>8, <2>9, <2>10 DEF Parsed, v
<1>10. ASSUME s = "HEADER", t.n = n, t.k = "body",
              v = GoNext(report_note_crc_start(w, tx_check_local_message(w) = 1), "CRC")
       PROVE  Parsed(v)
  <2> DEFINE own == tx_check_local_message(w) = 1
  <2>1. /\ v \in Worlds /\ v.log = w.log
        /\ own => /\ v.cd = [w.cd EXCEPT !.parse_state = "CRC", !.report_state = "TX_ACK",
                                         !.tx_state = "CONFIRM_TX"]
                  /\ v.pio = [w.pio EXCEPT !.match = [kind |-> "txend", n |-> n]]
        /\ ~own => /\ v.cd = [w.cd EXCEPT !.parse_state = "CRC", !.report_state = "RX_ACK"]
                   /\ v.pio = [w.pio EXCEPT !.irqs = w.pio.irqs \cup {"TXPENDING"},
                                            !.inte = {"MAYTX", "TXPENDING"} \cup {"RX_DATA"}]
    BY <1>10, CrcStartFields
  <2>2. own => w.cd.tx_state = "QUEUED"
    BY DEF tx_check_local_message
  <2> HIDE DEF v, own
  <2>3. /\ v.cd.parse_state = "CRC" /\ v.cd.parse_msg = n
        /\ v.cd.report_state = IF own THEN "TX_ACK" ELSE "RX_ACK"
        /\ v.cd.tx_state = IF own THEN "CONFIRM_TX" ELSE w.cd.tx_state
    BY <1>0, <2>1 DEF CdStates
  <2>4. /\ v.pio.fifo = w.pio.fifo /\ v.pio.isr = w.pio.isr /\ v.pio.txsm = w.pio.txsm
        /\ v.pio.irqs = IF own THEN w.pio.irqs ELSE w.pio.irqs \cup {"TXPENDING"}
        /\ v.pio.inte = IF own THEN w.pio.inte ELSE {"MAYTX", "TXPENDING", "RX_DATA"}
        /\ v.pio.match = IF own THEN [kind |-> "txend", n |-> n] ELSE w.pio.match
    BY <1>0, <2>1 DEF PioStates
  <2>5. Stream(v) = q
    BY <2>4 DEF Stream, q
  <2>6. Told(line, q, n)
    BY <1>10 DEF Taken, Flags, q, Mid
  <2>7. Follow(line, v)
    BY <1>1, <1>10, <2>3, <2>5, <2>6 DEF Follow, Behind, q
  <2>8. Reported(line, v)
    BY <1>10, <2>1, <2>3 DEF Reported
  <2>9. Registers(v)
    BY <1>2, <1>3, <1>10, <2>2, <2>3, <2>4 DEF Registers
  <2>10. Acks(line, v, {})
    BY <2>3, <2>4 DEF Acks, Asked, Receiving
  <2>11. WireInv(line, v.pio)
    BY <2>4 DEF WireInv
  <2> QED
    BY <2>7, <2>8, <2>9, <2>10, <2>11 DEF Parsed
<1>11. ASSUME s = "CRC", t.n = n, t.k = "crc", v = GoNext(report_note_crc_success(w), "ACK")
       PROVE  Parsed(v)
  <2> DEFINE c == report_note_crc_success(w)
  <2>1. /\ c \in Worlds /\ c.cd = w.cd /\ c.log = w.log
        /\ c.pio = IF w.cd.report_state = "TX_ACK"
                   THEN [w.pio EXCEPT !.inte = {"MAYTX", "MATCHED"} \cup {"RX_DATA"}] ELSE w.pio
    BY CrcSuccessFields
  <2>2. v = GoNext(c, "ACK")
    BY <1>11
  <2> HIDE DEF c, v
  <2>3. /\ v \in Worlds /\ v.cd = [w.cd EXCEPT !.parse_state = "ACK"] /\ v.log = w.log
        /\ v.pio = c.pio
    BY <2>1, <2>2, GoNextFields
  <2>4. CASE w.cd.report_state # "TX_ACK"
    <3>1. /\ v.pio = w.pio /\ v.cd.report_state = w.cd.report_state
          /\ v.cd = [w.cd EXCEPT !.parse_state = "ACK", !.report_state = v.cd.report_state]
      BY <1>0, <2>1, <2>3, <2>4 DEF CdStates
    <3> QED
      BY <1>4, <1>11, <2>3, <3>1 DEF Mid, Closing, Passive, v
  <2>5. CASE w.cd.report_state = "TX_ACK"
    <3>1. /\ v.cd.parse_state = "ACK" /\ v.cd.parse_msg = n /\ v.cd.report_state = "TX_ACK"
          /\ v.cd.tx_state = w.cd.tx_state
      BY <1>0, <2>3, <2>5 DEF CdStates
    <3>2. /\ v.pio.fifo = w.pio.fifo /\ v.pio.isr = w.pio.isr /\ v.pio.txsm = w.pio.txsm
          /\ v.pio.irqs = w.pio.irqs /\ v.pio.match = w.pio.match
          /\ v.pio.inte = {"MAYTX", "MATCHED", "RX_DATA"}
      BY <1>0, <2>1, <2>3, <2>5 DEF PioStates
    <3>3. Stream(v) = q
      BY <3>2 DEF Stream, q
    <3>4. Told(line, q, n)
      BY <1>11 DEF Taken, Flags, q, Mid
    <3>5. Follow(line, v)
      BY <1>1, <1>11, <3>1, <3>3, <3>4 DEF Follow, Behind, q
    <3>6. Reported(line, v)
      BY <1>11, <2>3, <3>1 DEF Reported, Receiving
    <3>7. Registers(v)
      BY <2>5, <3>1, <3>2 DEF Registers, Receiving
    <3>8. Acks(line, v, {})
      BY <3>1 DEF Acks, Asked, Receiving
    <3>9. WireInv(line, v.pio)
      BY <3>2 DEF WireInv
    <3> QED
      BY <3>5, <3>6, <3>7, <3>8, <3>9 DEF Parsed
  <2> QED
    BY <2>4, <2>5
<1>12. ASSUME s = "ACK", t.n = n, t.k = "ack", v = GoNext(report_note_ack_success(w), "EOF0")
       PROVE  Parsed(v)
  <2> DEFINE a == report_note_ack_success(w)
             r == IF w.cd.report_state = "IDLE" THEN "IDLE" ELSE WithEof(w.cd.report_state)
  <2>1. a \in Worlds /\ a.cd = [w.cd EXCEPT !.report_state = r] /\ a.pio = w.pio /\ a.log = w.log
    BY AckSuccessFields
  <2>2. v = GoNext(a, "EOF0")
    BY <1>12
  <2>3. /\ r \in {"IDLE", "RX_EOF", "TX_EOF"}
        /\ Receiving(r) <=> Receiving(w.cd.report_state)
    BY <1>0 DEF WithEof, InTx, Receiving, CdStates
  <2>4. line.frames[n].ack # "none"
    BY <1>1, <1>12 DEF OldToken
  <2> HIDE DEF a, r, v
  <2>5. /\ v \in Worlds /\ v.cd = [a.cd EXCEPT !.parse_state = "EOF0"] /\ v.log = w.log
        /\ v.pio = w.pio
    BY <2>1, <2>2, GoNextFields
  <2>6. /\ v.cd.report_state = r
        /\ v.cd = [w.cd EXCEPT !.parse_state = "EOF0", !.report_state = v.cd.report_state]
    BY <1>0, <2>1, <2>3, <2>5 DEF CdStates
  <2> QED
    BY <1>4, <1>12, <2>3, <2>4, <2>5, <2>6 DEF Mid, Closing, Passive, v
<1>13. ASSUME s = "EOF0", t.n = n, t.k = "eof0", v = GoNext(w, "EOF1")
       PROVE  Parsed(v)
  <2>1. /\ v \in Worlds /\ v.cd = [w.cd EXCEPT !.parse_state = "EOF1"] /\ v.log = w.log
        /\ v.pio = w.pio
    BY <1>13, GoNextFields
  <2> HIDE DEF v
  <2>2. /\ v.cd.report_state = w.cd.report_state
        /\ v.cd = [w.cd EXCEPT !.parse_state = "EOF1", !.report_state = v.cd.report_state]
    BY <1>0, <2>1 DEF CdStates
  <2> QED
    BY <1>4, <1>13, <2>1, <2>2 DEF Mid, Closing, Passive, v
<1>14. ASSUME s = "EOF1", t.n = n, t.k \in {"eof1", "over", "rxover"}
       PROVE  LET e == report_note_eof_success(w) IN
              /\ t.k = "eof1" => Parsed(GoNext(e, "START"))
              /\ Parsed(data_state_go_discard(e))
  <2> DEFINE e == report_note_eof_success(w)
  <2>1. /\ e \in Worlds /\ Behind(line, e) /\ Reported(line, e) /\ Registers(e)
        /\ WireInv(line, e.pio) /\ Stream(e) = Stream(w)
        /\ e.cd.report_state = "IDLE" /\ e.cd.parse_msg = n
    <3>1. t.n \in DOMAIN line.frames
      BY <1>14 DEF Mid
    <3> QED
      BY <1>14, <3>1, EofSuccessKept
  <2> HIDE DEF e
  <2>2. t.k = "eof1" => Parsed(GoNext(e, "START"))
    BY <1>7, <2>1
  <2>3. Parsed(data_state_go_discard(e))
    BY <2>1, DiscardParsed
  <2> QED
    BY <2>2, <2>3 DEF e
<1> HIDE DEF v
<1> QED
  BY <1>5, <1>6, <1>8, <1>9, <1>10, <1>11, <1>12, <1>13, <1>14, <1>15, <1>16, ProcessRxCases DEF v

\* Once nothing is left to parse and the line is idle, a frame that was received up to its ack
\* has ended.
LEMMA Finished ==
  ASSUME NEW w \in Worlds, WireInv(line, w.pio), Follow(line, w), ParserInv(w),
         w.pio.fifo = <<>>, "MAYTX" \in w.pio.irqs, w.cd.report_state = "RX_EOF",
         Intact(line) \/ Whole(line)
  PROVE  line.frames[w.cd.parse_msg].ok # "no"
<1>1. Mid(w.cd.parse_state)
  BY DEF ParserInv, Mid
<1>2. Told(line, Stream(w), w.cd.parse_msg) /\ line.frames[w.cd.parse_msg].ack # "none"
  BY <1>1 DEF Follow
<1>3. line.phase = "idle" /\ \A i \in DOMAIN w.pio.isr : w.pio.isr[i].k \notin Flags
  BY DEF WireInv
<1>4. Stream(w) = w.pio.isr
  <2>1. w.pio.isr \in Seq(Tokens)
    BY DEF Worlds, PioStates
  <2> QED
    BY <2>1 DEF Stream
<1> QED
  BY <1>2, <1>3, <1>4 DEF Told, Calm, Ended, Flagged

\* Flags that the handler read are up, and what it reads next holds of them.
LEMMA FlagsRead ==
  ASSUME NEW w \in Worlds, WireInv(line, w.pio), Follow(line, w), ParserInv(w), Registers(w),
         "MAYTX" \in Ints(w.pio), "RX_DATA" \notin Ints(w.pio), w.cd.report_state = "RX_EOF",
         Intact(line) \/ Whole(line)
  PROVE  line.frames[w.cd.parse_msg].ok # "no"
<1>1. w.pio.fifo = <<>> /\ "MAYTX" \in w.pio.irqs
  BY DEF Registers, Ints, Intr
<1> QED
  BY <1>1, Finished

\* Entering the handler keeps FrameInv.
LEMMA IrqEnterFrame == FrameInv /\ IrqEnter => FrameInv'
<1> SUFFICES ASSUME FrameInv, IrqEnter PROVE FrameInv'
  OBVIOUS
<1>1. QueueInv'
  BY QueueStep DEF FrameInv, Next, Handler
<1>2. /\ UNCHANGED <<line, pio, cd, app, log>> /\ irq'.pc = "loop" /\ irq'.ints = Ints(pio)
      /\ irq'.mask = {} /\ irq.mask = {}
  BY DEF IrqEnter, FrameInv, Served
<1>3. World \in Worlds /\ World.pio = pio /\ World.cd = cd /\ ParserInv(World)
  BY QueueTypes DEF FrameInv
<1>4. Served'
  <2>1. Ints(pio) \cap {"ACKDONE", "MATCHED"} \subseteq pio.irqs
    BY DEF Ints, Intr
  <2> QED
    BY <1>2, <1>3, <2>1, FlagsRead DEF FrameInv, Served
<1>5. World' = World
  BY <1>2 DEF World
<1>6. /\ Follow(line', World') /\ Reported(line', World') /\ Registers(World')
      /\ Acks(line', World', irq'.mask) /\ WireInv(line', pio')
  BY <1>2, <1>5 DEF FrameInv
<1> QED
  BY <1>1, <1>4, <1>6 DEF FrameInv

\* The handler's loop over the rx fifo keeps FrameInv.
LEMMA ProcessRxFrame == FrameInv /\ (\E again \in BOOLEAN : ProcessRx(again)) => FrameInv'
<1> SUFFICES ASSUME FrameInv, NEW again \in BOOLEAN, ProcessRx(again) PROVE FrameInv'
  OBVIOUS
<1> DEFINE u == [World EXCEPT !.pio.fifo = Tail(pio.fifo)]
           t == Head(pio.fifo)
           v == process_rx(u, t, again)
<1>0. /\ QueueInv' /\ World \in Worlds /\ World.pio = pio /\ World.cd = cd /\ World.log = log
      /\ ParserInv(World) /\ Sent(World) /\ pio \in PioStates /\ line \in LineStates /\ QueueInv
  BY QueueStep, QueueTypes DEF FrameInv, QueueInv, DriverInv, TypeOK, Next, Handler
<1>1. pio.fifo # <<>> /\ pio.fifo \in Seq(Tokens) /\ irq.pc = "loop"
  BY <1>0 DEF QueueInv, DriverInv, HandlerInv, PioStates, ProcessRx
<1>2. t \in Tokens /\ Tail(pio.fifo) \in Seq(Tokens)
  BY <1>1
<1>3. /\ u \in Worlds /\ u.cd = cd /\ u.log = log /\ u.pio = [pio EXCEPT !.fifo = Tail(pio.fifo)]
  BY <1>0, <1>2 DEF Worlds, PioStates
<1>4. /\ u.pio.fifo = Tail(pio.fifo) /\ u.pio.isr = pio.isr /\ u.pio.irqs = pio.irqs
      /\ u.pio.inte = pio.inte /\ u.pio.match = pio.match /\ u.pio.txsm = pio.txsm
  BY <1>0, <1>3 DEF PioStates
<1>5. /\ cd' = v.cd /\ pio' = v.pio /\ log' = v.log /\ UNCHANGED <<line, app>>
      /\ irq' = IF Ints(v.pio) = {} THEN Idle ELSE [irq EXCEPT !.ints = Ints(v.pio)]
  BY DEF ProcessRx, Becomes, World
<1> HIDE DEF u, t
<1>6. ParserInv(u)
  BY <1>0, <1>3, <1>4 DEF ParserInv
<1>7. Taken(line, u, t)
  BY <1>0, <1>1, <1>3, <1>4, HeadTaken DEF FrameInv, t
<1>8. /\ Reported(line, u) /\ Registers(u) /\ Acks(line, u, {}) /\ WireInv(line, u.pio)
  <2>1. irq.mask = {}
    BY <1>1 DEF FrameInv, Served
  <2>2. Reported(line, u)
    BY <1>0, <1>3 DEF FrameInv, Reported
  <2>3. Registers(u)
    BY <1>0, <1>3, <1>4 DEF FrameInv, Registers
  <2>4. Acks(line, u, {})
    BY <1>0, <1>3, <1>4, <2>1 DEF FrameInv, Acks, Asked
  <2>5. WireInv(line, u.pio)
    BY <1>4 DEF FrameInv, WireInv
  <2> QED
    BY <2>2, <2>3, <2>4, <2>5
<1>9. Mid(u.cd.parse_state) => u.cd.parse_msg \in DOMAIN line.frames
  BY <1>0, <1>3 DEF Sent, Mid
<1>10. Parsed(v)
  BY <1>0, <1>2, <1>3, <1>6, <1>7, <1>8, <1>9, ProcessRxParsed
<1> HIDE DEF v
<1>11. World' = [cd |-> v.cd, pio |-> v.pio, log |-> v.log]
  BY <1>5 DEF World
<1>12. /\ World'.cd = v.cd /\ World'.pio = v.pio /\ World'.log = v.log
       /\ Stream(World') = Stream(v)
  BY <1>11 DEF Stream
<1>13. /\ Follow(line', World') /\ Reported(line', World') /\ Registers(World')
       /\ Acks(line', World', {}) /\ WireInv(line', pio')
  <2>1. Follow(line', World')
    BY <1>5, <1>10, <1>12 DEF Parsed, Follow, Behind
  <2>2. Reported(line', World')
    BY <1>5, <1>10, <1>12 DEF Parsed, Reported
  <2>3. Registers(World')
    BY <1>10, <1>12 DEF Parsed, Registers
  <2>4. Acks(line', World', {})
    BY <1>5, <1>10, <1>12 DEF Parsed, Acks, Asked
  <2>5. WireInv(line', pio')
    BY <1>5, <1>10 DEF Parsed
  <2> QED
    BY <2>1, <2>2, <2>3, <2>4, <2>5
<1>14. irq'.mask = {} /\ irq'.pc \in {"out", "loop"} /\ (irq'.pc = "loop" => irq'.ints = Ints(pio'))
  <2>1. irq \in IrqStates /\ irq.mask = {}
    BY <1>0, <1>1 DEF QueueInv, DriverInv, TypeOK, FrameInv, Served
  <2> QED
    BY <1>1, <1>5, <2>1 DEF Idle, IrqStates
<1>15. Served'
  <2>1. Ints(pio') \cap {"ACKDONE", "MATCHED"} \subseteq pio'.irqs
    BY DEF Ints, Intr
  <2>2. /\ World' \in Worlds /\ ParserInv(World') /\ World'.cd = cd' /\ World'.pio = pio'
    <3>1. TypeOK' /\ ParserInv(World)'
      BY <1>0 DEF QueueInv, DriverInv, HandlerInv
    <3> QED
      BY <1>5, <1>12, <3>1 DEF TypeOK, Worlds, World
  <2>3. /\ "MAYTX" \in Ints(pio') /\ "RX_DATA" \notin Ints(pio')
        /\ cd'.report_state = "RX_EOF" /\ (Intact(line) \/ Whole(line))
        => line.frames[cd'.parse_msg].ok # "no"
    BY <1>5, <1>13, <2>2, FlagsRead
  <2> QED
    BY <1>5, <1>14, <2>1, <2>3 DEF Served
<1> QED
  BY <1>0, <1>13, <1>14, <1>15 DEF FrameInv
-----------------------------------------------------------------------------
(* The other interrupts of the handler.                                    *)

\* A step that leaves parser, report, stream and line alone disturbs registers at most.
LEMMA ParseKept ==
  ASSUME FrameInv, QueueInv', line' = line, log'.rx = log.rx,
         cd'.parse_state = cd.parse_state, cd'.parse_msg = cd.parse_msg,
         cd'.report_state = cd.report_state, pio'.fifo = pio.fifo, pio'.isr = pio.isr,
         pio'.txsm = pio.txsm \/ pio'.txsm # "acking",
         "MAYTX" \in pio'.irqs => "MAYTX" \in pio.irqs,
         Registers(World'), Acks(line, World', irq'.mask), Served'
  PROVE  FrameInv'
<1>1. /\ World.cd = cd /\ World.pio = pio /\ World.log = log
      /\ World'.cd = cd' /\ World'.pio = pio' /\ World'.log = log'
  BY DEF World
<1>2. Stream(World') = Stream(World)
  BY <1>1 DEF Stream
<1>3. Follow(line', World')
  BY <1>1, <1>2 DEF FrameInv, Follow, Behind
<1>4. Reported(line', World')
  BY <1>1 DEF FrameInv, Reported
<1>5. WireInv(line', pio')
  BY DEF FrameInv, WireInv
<1>6. Acks(line', World', irq'.mask)
  OBVIOUS
<1> QED
  BY <1>3, <1>4, <1>5, <1>6 DEF FrameInv

\* The parts of a state in which FrameInv holds.
LEMMA FrameParts ==
  ASSUME FrameInv
  PROVE  /\ cd \in CdStates /\ pio \in PioStates /\ log \in LogStates /\ irq \in IrqStates
         /\ World.cd = cd /\ World.pio = pio /\ World.log = log /\ NoKey.kind = "none"
         /\ Registers(World) /\ Acks(line, World, irq.mask) /\ Served
         /\ cd.report_state = "IDLE" => pio.match.kind # "inject"
         /\ pio.match.kind = "inject" => irq.pc \in {"out", "loop"}
<1>1. QueueInv /\ irq \in IrqStates
  BY DEF FrameInv, QueueInv, DriverInv, TypeOK
<1>2. /\ Registers(World) /\ Acks(line, World, irq.mask) /\ Served
  BY DEF FrameInv
<1> QED
  BY <1>1, <1>2, QueueTypes DEF Registers, Receiving, Served, NoKey, World

\* report_line_ackdone keeps FrameInv.
LEMMA AckDoneFrame == FrameInv /\ report_line_ackdone => FrameInv'
<1> SUFFICES ASSUME FrameInv, report_line_ackdone PROVE FrameInv'
  OBVIOUS
<1>0. QueueInv' /\ DriverInv
  BY QueueStep DEF FrameInv, QueueInv, Next, Handler
<1>1. /\ UNCHANGED <<line, cd, app, log>> /\ irq'.pc = "sched" /\ irq'.mask = {"MAYTX", "MATCHED"}
      /\ pio'.match = [kind |-> "rxend", n |-> cd.parse_msg] /\ pio'.inte = pio.inte
      /\ pio'.irqs = pio.irqs /\ pio'.txsm = pio.txsm /\ pio'.fifo = pio.fifo /\ pio'.isr = pio.isr
  BY FrameParts DEF report_line_ackdone, pio_match_check, Schedule, PioStates, IrqStates
<1>2. "ACKDONE" \in pio.inte /\ "ACKDONE" \in pio.irqs /\ irq.mask = {}
  BY <1>0, FrameParts, ServesEnabled DEF report_line_ackdone, Serves, Served
<1>3. pio.txsm = "ackhold"
  BY <1>2, FrameParts DEF Registers
<1>4. World'.cd = cd /\ World'.pio = pio' /\ World'.log = log
  BY <1>1 DEF World
<1>5. Registers(World')
  BY <1>1, <1>3, <1>4, FrameParts DEF Registers
<1>6. Acks(line, World', irq'.mask)
  BY <1>1, <1>2, <1>3, <1>4, FrameParts DEF Acks, Asked
<1>7. Served'
  BY <1>1 DEF Served
<1> QED
  BY <1>0, <1>1, <1>5, <1>6, <1>7, ParseKept

\* The end of a report with MATCHED or MAYTX keeps FrameInv, if the frame was valid.
LEMMA ReportFrame ==
  ASSUME FrameInv, QueueInv', NEW r \in {cd.report_state, WithEof(cd.report_state)},
         cd.report_state # "IDLE", irq.pc = "loop", Schedule({}),
         Becomes(report_handle_eof(SetReport(World, r))), UNCHANGED <<line, app>>,
         r = "RX_EOF" /\ (Intact(line) \/ Whole(line)) => line.frames[cd.parse_msg].ok # "no"
  PROVE  FrameInv'
<1> DEFINE w == SetReport(World, r)
           v == report_handle_eof(w)
           n == cd.parse_msg
<1>0. /\ World \in Worlds /\ ParserInv(World) /\ n \in DOMAIN line.frames /\ n \in Nat
      /\ Follow(line, World) /\ Reported(line, World) /\ WireInv(line, pio)
  BY QueueTypes DEF FrameInv, CdStates
<1>1. /\ r \in {"IDLE", "RX_ACK", "RX_EOF", "TX_ACK", "TX_EOF"}
      /\ r = "RX_EOF" => Receiving(cd.report_state)
  BY FrameParts DEF CdStates, WithEof, InTx, Receiving
<1>2. w \in Worlds /\ w.cd = [cd EXCEPT !.report_state = r] /\ w.pio = pio /\ w.log = log
  BY <1>0, <1>1, FrameParts, SetReportWorld DEF SetReport, World
<1>3. w.cd.report_state = r /\ w.cd.parse_msg = n
  BY <1>2, FrameParts DEF CdStates
<1>4. /\ v.cd = [w.cd EXCEPT !.report_state = "IDLE",
                   !.tx_pull_pos = IF w.cd.report_state = "TX_EOF"
                                   THEN Next1(w.cd.tx_pull_pos) ELSE w.cd.tx_pull_pos]
      /\ v.pio = [w.pio EXCEPT !.match = NoKey]
      /\ v.log.rx = IF w.cd.report_state = "RX_EOF"
                    THEN Append(w.log.rx, w.cd.parse_msg) ELSE w.log.rx
  BY <1>2, HandleEofFields
<1>5. cd' = v.cd /\ pio' = v.pio /\ log' = v.log
  BY DEF Becomes
<1> HIDE DEF v, w
<1>6. /\ cd'.report_state = "IDLE" /\ cd'.parse_state = cd.parse_state /\ cd'.parse_msg = n
      /\ cd'.tx_state = cd.tx_state
  BY <1>2, <1>4, <1>5, FrameParts DEF CdStates
<1>7. /\ pio'.match = NoKey /\ pio'.inte = pio.inte /\ pio'.irqs = pio.irqs /\ pio'.txsm = pio.txsm
      /\ pio'.fifo = pio.fifo /\ pio'.isr = pio.isr
  BY <1>2, <1>4, <1>5, FrameParts DEF PioStates
<1>8. log'.rx = IF r = "RX_EOF" THEN Append(log.rx, n) ELSE log.rx
  BY <1>2, <1>3, <1>4, <1>5
<1>9. /\ World'.cd = cd' /\ World'.pio = pio' /\ World'.log = log'
      /\ Stream(World') = Stream(World)
  BY <1>7 DEF World, Stream
<1>10. Follow(line, World')
  BY <1>0, <1>6, <1>9, FrameParts DEF Follow, Behind
<1>11. Increasing(log'.rx) /\ \A i \in DOMAIN log'.rx :
         /\ log'.rx[i] \in DOMAIN line.frames /\ log'.rx[i] <= n
         /\ Intact(line) \/ Whole(line) => line.frames[log'.rx[i]].ok # "no"
  <2>0. /\ Increasing(log.rx)
        /\ \A i \in DOMAIN log.rx :
             /\ log.rx[i] \in DOMAIN line.frames /\ log.rx[i] <= n
             /\ Intact(line) \/ Whole(line) => line.frames[log.rx[i]].ok # "no"
    BY <1>0, FrameParts DEF Reported
  <2>1. CASE r # "RX_EOF"
    BY <1>8, <2>0, <2>1
  <2>2. CASE r = "RX_EOF"
    <3>1. \A i \in DOMAIN log.rx : log.rx[i] < n
      BY <1>0, <1>1, <2>2, FrameParts DEF Reported
    <3>2. log.rx \in Seq(Nat) /\ log'.rx = Append(log.rx, n)
      BY <1>8, <2>2, FrameParts DEF LogStates
    <3>3. \A i \in DOMAIN log'.rx : \/ i \in DOMAIN log.rx /\ log'.rx[i] = log.rx[i]
                                    \/ i = Len(log.rx) + 1 /\ log'.rx[i] = n
      BY <1>0, <3>2, AppendAt
    <3>4. /\ DOMAIN log.rx = 1..Len(log.rx) /\ Len(log.rx) \in Nat
          /\ DOMAIN log'.rx = 1..(Len(log.rx) + 1) /\ n <= n
      BY <1>0, <3>2
    <3>5. Increasing(log'.rx)
      BY <2>0, <3>1, <3>3, <3>4 DEF Increasing
    <3> QED
      BY <1>0, <2>0, <2>2, <3>3, <3>4, <3>5
  <2> QED
    BY <2>1, <2>2
<1>12. Reported(line, World')
  <2>1. cd.parse_state # "HEADER"
    BY <1>0, FrameParts DEF ParserInv
  <2> QED
    BY <1>6, <1>9, <1>11, <2>1 DEF Reported, Receiving
<1>13. Registers(World')
  BY <1>6, <1>7, <1>9, FrameParts DEF Registers
<1>14. irq'.pc = "sched" /\ irq'.mask = {}
  BY FrameParts DEF Schedule, IrqStates
<1>15. Acks(line, World', irq'.mask)
  BY <1>6, <1>9 DEF Acks, Asked, Receiving
<1>16. WireInv(line, pio')
  BY <1>0, <1>7 DEF WireInv
<1>17. Served'
  BY <1>14, <1>7, FrameParts DEF Served
<1>18. line' = line
  OBVIOUS
<1>19. /\ Follow(line', World') /\ Reported(line', World') /\ WireInv(line', pio')
       /\ Acks(line', World', irq'.mask)
  BY <1>10, <1>12, <1>15, <1>16, <1>18
<1> QED
  BY <1>13, <1>17, <1>19 DEF FrameInv

\* report_line_matched keeps FrameInv: a match means that ack and end of frame are there.
LEMMA MatchedFrame == FrameInv /\ report_line_matched => FrameInv'
<1> SUFFICES ASSUME FrameInv, report_line_matched PROVE FrameInv'
  OBVIOUS
<1>0. QueueInv' /\ DriverInv
  BY QueueStep DEF FrameInv, QueueInv, Next, Handler
<1>1. /\ UNCHANGED <<line, app>> /\ irq.pc = "loop" /\ Schedule({}) /\ irq.mask = {}
      /\ irq'.pc = "sched" /\ irq'.mask = {}
  BY FrameParts DEF report_line_matched, Serves, Schedule, Served, IrqStates
<1>2. CASE cd.report_state = "IDLE"
  <2>1. UNCHANGED <<cd, pio, log>>
    BY <1>2 DEF report_line_matched
  <2>2. World' = World
    BY <2>1 DEF World
  <2>3. Served'
    BY <1>1, <1>2, <2>1, FrameParts DEF Served
  <2> QED
    BY <1>0, <1>1, <2>1, <2>2, <2>3, FrameParts, ParseKept
<1>3. CASE cd.report_state # "IDLE"
  <2>1. "MATCHED" \in pio.inte /\ "MATCHED" \in pio.irqs
    BY <1>0, FrameParts, ServesEnabled DEF report_line_matched, Serves, Served
  <2>2. WithEof(cd.report_state) = "RX_EOF" => line.frames[cd.parse_msg].ok # "no"
    <3>1. WithEof(cd.report_state) = "RX_EOF" => Receiving(cd.report_state)
      BY <1>3, FrameParts DEF WithEof, InTx, Receiving, CdStates
    <3> QED
      BY <2>1, <3>1, FrameParts DEF Acks, Asked
  <2>3. Becomes(report_handle_eof(SetReport(World, WithEof(cd.report_state))))
    BY <1>3 DEF report_line_matched
  <2> QED
    BY <1>0, <1>1, <1>3, <2>2, <2>3, ReportFrame
<1> QED
  BY <1>2, <1>3

\* report_line_maytx keeps FrameInv: the line is idle, and nothing is left to parse.
LEMMA MayTxFrame == FrameInv /\ report_line_maytx => FrameInv'
<1> SUFFICES ASSUME FrameInv, report_line_maytx PROVE FrameInv'
  OBVIOUS
<1>0. QueueInv' /\ DriverInv
  BY QueueStep DEF FrameInv, QueueInv, Next, Handler
<1>1. /\ UNCHANGED <<line, app>> /\ irq.pc = "loop" /\ Schedule({}) /\ irq.mask = {}
      /\ irq'.pc = "sched" /\ irq'.mask = {}
  BY FrameParts DEF report_line_maytx, Serves, Schedule, Served, IrqStates
<1>2. CASE cd.report_state = "IDLE"
  <2>1. UNCHANGED <<cd, pio, log>>
    BY <1>2 DEF report_line_maytx
  <2>2. World' = World
    BY <2>1 DEF World
  <2>3. Served'
    BY <1>1, <1>2, <2>1, FrameParts DEF Served
  <2> QED
    BY <1>0, <1>1, <2>1, <2>2, <2>3, FrameParts, ParseKept
<1>3. CASE cd.report_state # "IDLE"
  <2>1. cd.report_state = "RX_EOF" /\ (Intact(line) \/ Whole(line))
          => line.frames[cd.parse_msg].ok # "no"
    BY <1>1, FrameParts DEF report_line_maytx, Serves, Served
  <2>2. SetReport(World, cd.report_state) = World
    BY FrameParts DEF SetReport, World, CdStates
  <2>3. Becomes(report_handle_eof(SetReport(World, cd.report_state)))
    BY <1>3, <2>2 DEF report_line_maytx
  <2> QED
    BY <1>0, <1>1, <1>3, <2>1, <2>3, ReportFrame
<1> QED
  BY <1>2, <1>3
-----------------------------------------------------------------------------
(* The handler in tx_schedule_transmit, and the main loop.                 *)

\* What Registers and Acks speak of is left alone.
LEMMA RegistersKept ==
  ASSUME FrameInv, cd'.parse_msg = cd.parse_msg, cd'.report_state = cd.report_state,
         cd'.tx_state \in {cd.tx_state, "IDLE"},
         pio'.inte = pio.inte, pio'.match = pio.match, pio'.txsm = pio.txsm,
         pio'.irqs \cap {"MATCHED", "ACKDONE"} = pio.irqs \cap {"MATCHED", "ACKDONE"},
         NEW mask, Acks(line, World, mask)
  PROVE  Registers(World') /\ Acks(line, World', mask)
<1>1. /\ World.cd = cd /\ World.pio = pio /\ World'.cd = cd' /\ World'.pio = pio'
  BY DEF World
<1>2. /\ "MATCHED" \in pio'.irqs <=> "MATCHED" \in pio.irqs
      /\ "ACKDONE" \in pio'.irqs <=> "ACKDONE" \in pio.irqs
  OBVIOUS
<1>3. Registers(World')
  BY <1>1, <1>2 DEF FrameInv, Registers
<1>4. Acks(line, World', mask)
  BY <1>1, <1>2 DEF Acks, Asked
<1> QED
  BY <1>3, <1>4

\* The handler returns from tx_schedule_transmit with its mask, and TXPENDING in it or not.
LEMMA ReturnFrame ==
  ASSUME FrameInv, QueueInv', irq.pc \in {"sched", "reread"}, UNCHANGED <<line, log>>, Return,
         cd'.parse_state = cd.parse_state, cd'.parse_msg = cd.parse_msg,
         cd'.report_state = cd.report_state,
         pio'.fifo = pio.fifo, pio'.isr = pio.isr, pio'.match = pio.match,
         pio'.irqs \subseteq pio.irqs \cup {"TXPENDING"},
         pio'.inte \in {irq.mask \cup {"RX_DATA"}, irq.mask \cup {"TXPENDING", "RX_DATA"}},
         \/ pio'.txsm = pio.txsm /\ cd'.tx_state = cd.tx_state
         \/ pio'.txsm = "armed" /\ "ACKDONE" \notin pio'.irqs
  PROVE  FrameInv'
<1>1. /\ World.cd = cd /\ World.pio = pio /\ World'.cd = cd' /\ World'.pio = pio'
  BY DEF World
<1>2. /\ irq'.pc = "out" /\ irq'.mask = {} /\ irq'.ints = {}
  BY DEF Return, Idle
<1>3. /\ "ACKDONE" \notin irq.mask /\ pio.match.kind # "inject"
  BY FrameParts DEF Served
<1>4. /\ "ACKDONE" \notin pio'.inte /\ "RX_DATA" \in pio'.inte
      /\ "MATCHED" \in pio'.inte => "MATCHED" \in irq.mask
      /\ "MATCHED" \in pio'.irqs => "MATCHED" \in pio.irqs
      /\ "ACKDONE" \in pio'.irqs => "ACKDONE" \in pio.irqs
      /\ "MAYTX" \in pio'.irqs => "MAYTX" \in pio.irqs
  BY <1>3
<1>5. Registers(World')
  BY <1>1, <1>3, <1>4, FrameParts DEF Registers
<1>6. Acks(line, World', irq'.mask)
  BY <1>1, <1>2, <1>3, <1>4, FrameParts DEF Acks, Asked
<1>7. Served'
  BY <1>2, <1>3 DEF Served
<1>8. pio'.txsm = pio.txsm \/ pio'.txsm # "acking"
  OBVIOUS
<1> QED
  BY <1>4, <1>5, <1>6, <1>7, <1>8, ParseKept

\* tx_inject_ack keeps FrameInv.
LEMMA InjectAckFrame == FrameInv /\ tx_inject_ack => FrameInv'
<1> SUFFICES ASSUME FrameInv, tx_inject_ack PROVE FrameInv'
  OBVIOUS
<1>0. QueueInv'
  BY QueueStep DEF FrameInv, Next, Handler
<1>1. /\ cd' = [cd EXCEPT !.tx_state = "ACKING_RX"] /\ cd.report_state = "RX_ACK"
      /\ pio' = pio_irq_set(pio_tx_inject_ack(pio, cd.parse_msg), {"MAYTX", "ACKDONE"})
      /\ irq' = Idle /\ UNCHANGED <<line, app, log>>
  BY DEF tx_inject_ack, AckRequested, Return
<1>2. /\ cd'.parse_state = cd.parse_state /\ cd'.parse_msg = cd.parse_msg
      /\ cd'.report_state = "RX_ACK" /\ cd'.tx_state = "ACKING_RX"
  BY <1>1, FrameParts DEF CdStates
<1>3. /\ pio'.fifo = pio.fifo /\ pio'.isr = pio.isr /\ pio'.txsm = "ackarmed"
      /\ pio'.irqs = pio.irqs \ {"MATCHED", "ACKDONE"}
      /\ pio'.match = [kind |-> "inject", n |-> cd.parse_msg]
      /\ pio'.inte = {"MAYTX", "ACKDONE", "RX_DATA"}
  BY <1>1, FrameParts DEF pio_irq_set, pio_tx_inject_ack, pio_match_check, pio_tx_reset, PioStates
<1>4. World'.cd = cd' /\ World'.pio = pio'
  BY DEF World
<1>5. irq'.pc = "out" /\ irq'.mask = {}
  BY <1>1 DEF Idle
<1>6. Registers(World')
  BY <1>2, <1>3, <1>4 DEF Registers, Receiving
<1>7. Acks(line, World', irq'.mask)
  BY <1>2, <1>3, <1>4 DEF Acks, Asked
<1>8. Served'
  BY <1>5 DEF Served
<1> QED
  BY <1>0, <1>1, <1>2, <1>3, <1>6, <1>7, <1>8, ParseKept

\* report_line_txpending keeps FrameInv: a frame is not waiting for its ack then.
LEMMA TxPendingFrame == FrameInv /\ report_line_txpending => FrameInv'
<1> SUFFICES ASSUME FrameInv, report_line_txpending PROVE FrameInv'
  OBVIOUS
<1>0. QueueInv' /\ DriverInv
  BY QueueStep DEF FrameInv, QueueInv, Next, Handler
<1>1. /\ UNCHANGED <<line, pio, cd, app, log>> /\ irq.pc = "loop" /\ irq.mask = {}
      /\ irq'.pc = "sched" /\ irq'.mask = pio.inte \ {"TXPENDING"}
  BY FrameParts DEF report_line_txpending, Serves, Schedule, Served, IrqStates
<1>2. "TXPENDING" \in pio.inte
  BY <1>0, ServesEnabled DEF report_line_txpending
<1>3. "ACKDONE" \notin pio.inte /\ pio.match.kind # "inject"
  BY <1>2, FrameParts DEF Registers
<1>4. Acks(line, World, irq'.mask)
  BY <1>1, FrameParts DEF Acks, Asked, World
<1>5. Registers(World') /\ Acks(line, World', irq'.mask)
  BY <1>1, <1>4, RegistersKept
<1>6. Served'
  BY <1>1, <1>3 DEF Served
<1> QED
  BY <1>0, <1>1, <1>5, <1>6, ParseKept

\* The head of the queue goes to the "tx" machine.
LEMMA SendHeadFrame ==
  ASSUME FrameInv, QueueInv', irq.pc \in {"sched", "reread"}, UNCHANGED <<line, app, log>>,
         NEW p \in {pio, pio_signal_set_txpending(pio)}, SendHead(p)
  PROVE  FrameInv'
<1>1. /\ p \in PioStates /\ p.fifo = pio.fifo /\ p.isr = pio.isr /\ p.match = pio.match
      /\ p.irqs \subseteq pio.irqs \cup {"TXPENDING"}
  BY FrameParts DEF pio_signal_set_txpending, PioStates, SmIrqs
<1>2. /\ cd' = [cd EXCEPT !.tx_state = "QUEUED"] /\ Return
      /\ pio' = pio_irq_set(pio_tx_send(p, SlotMsg(cd)), irq.mask)
  BY DEF SendHead
<1>3. /\ cd'.parse_state = cd.parse_state /\ cd'.parse_msg = cd.parse_msg
      /\ cd'.report_state = cd.report_state
  BY <1>2, FrameParts DEF CdStates
<1>4. /\ pio'.fifo = p.fifo /\ pio'.isr = p.isr /\ pio'.match = p.match /\ pio'.txsm = "armed"
      /\ pio'.irqs = p.irqs \ {"MATCHED", "ACKDONE"} /\ pio'.inte = irq.mask \cup {"RX_DATA"}
  BY <1>1, <1>2 DEF pio_irq_set, pio_tx_send, pio_tx_reset, PioStates
<1>5. pio'.irqs \subseteq pio.irqs \cup {"TXPENDING"} /\ "ACKDONE" \notin pio'.irqs
  BY <1>1, <1>4
<1> QED
  BY <1>1, <1>2, <1>3, <1>4, <1>5, ReturnFrame

\* tx_schedule_transmit keeps FrameInv.
LEMMA ScheduleFrame ==
  FrameInv /\ (\/ ScheduleBusy \/ ScheduleSend \/ ScheduleEmpty \/ ScheduleClear
               \/ RereadEmpty \/ RereadRaced) => FrameInv'
<1> SUFFICES ASSUME FrameInv, \/ ScheduleBusy \/ ScheduleSend \/ ScheduleEmpty \/ ScheduleClear
                              \/ RereadEmpty \/ RereadRaced
             PROVE FrameInv'
  OBVIOUS
<1>0. QueueInv'
  BY QueueStep DEF FrameInv, Next, Handler
<1>1. CASE ScheduleBusy
  <2>1. irq.pc = "sched" /\ pio' = pio_irq_set(pio, irq.mask) /\ Return /\ UNCHANGED <<line, cd, app, log>>
    BY <1>1 DEF ScheduleBusy
  <2>2. pio' = [pio EXCEPT !.inte = irq.mask \cup {"RX_DATA"}]
    BY <2>1 DEF pio_irq_set
  <2>3. /\ pio'.fifo = pio.fifo /\ pio'.isr = pio.isr /\ pio'.match = pio.match
        /\ pio'.irqs = pio.irqs /\ pio'.txsm = pio.txsm /\ pio'.inte = irq.mask \cup {"RX_DATA"}
    BY <2>2, FrameParts DEF PioStates
  <2> QED
    BY <1>0, <2>1, <2>3, ReturnFrame
<1>2. CASE RereadEmpty
  <2>1. /\ irq.pc = "reread" /\ pio' = pio_irq_set(pio, irq.mask \cup {"TXPENDING"}) /\ Return
        /\ UNCHANGED <<line, cd, app, log>>
    BY <1>2 DEF RereadEmpty
  <2>2. pio' = [pio EXCEPT !.inte = irq.mask \cup {"TXPENDING", "RX_DATA"}]
    <3>1. (irq.mask \cup {"TXPENDING"}) \cup {"RX_DATA"} = irq.mask \cup {"TXPENDING", "RX_DATA"}
      OBVIOUS
    <3> QED
      BY <2>1, <3>1 DEF pio_irq_set
  <2>3. /\ pio'.fifo = pio.fifo /\ pio'.isr = pio.isr /\ pio'.match = pio.match
        /\ pio'.irqs = pio.irqs /\ pio'.txsm = pio.txsm
        /\ pio'.inte = irq.mask \cup {"TXPENDING", "RX_DATA"}
    BY <2>2, FrameParts DEF PioStates
  <2> QED
    BY <1>0, <2>1, <2>3, ReturnFrame
<1>3. CASE ScheduleSend \/ RereadRaced
  BY <1>0, <1>3, SendHeadFrame DEF ScheduleSend, RereadRaced
<1>4. CASE ScheduleEmpty
  <2>1. /\ irq.pc = "sched" /\ cd' = [cd EXCEPT !.tx_state = "IDLE"] /\ irq'.pc = "clear"
        /\ irq'.mask = irq.mask /\ UNCHANGED <<line, pio, app, log>>
    BY <1>4, FrameParts DEF ScheduleEmpty, IrqStates
  <2>2. /\ cd'.parse_state = cd.parse_state /\ cd'.parse_msg = cd.parse_msg
        /\ cd'.report_state = cd.report_state /\ cd'.tx_state = "IDLE"
    BY <2>1, FrameParts DEF CdStates
  <2>3. Registers(World') /\ Acks(line, World', irq'.mask)
    <3>1. Acks(line, World, irq'.mask)
      BY <2>1, FrameParts
    <3> QED
      BY <2>1, <2>2, <3>1, RegistersKept
  <2>4. Served'
    BY <2>1, FrameParts DEF Served
  <2> QED
    BY <1>0, <2>1, <2>2, <2>3, <2>4, ParseKept
<1>5. CASE ScheduleClear
  <2>1. /\ irq.pc = "clear" /\ pio' = pio_signal_clear_txpending(pio) /\ irq'.pc = "reread"
        /\ irq'.mask = irq.mask /\ UNCHANGED <<line, cd, app, log>>
    BY <1>5, FrameParts DEF ScheduleClear, IrqStates
  <2>2. /\ pio'.fifo = pio.fifo /\ pio'.isr = pio.isr /\ pio'.match = pio.match
        /\ pio'.irqs = pio.irqs \ {"TXPENDING"} /\ pio'.txsm = pio.txsm /\ pio'.inte = pio.inte
    BY <2>1, FrameParts DEF pio_signal_clear_txpending, PioStates
  <2>3. Registers(World') /\ Acks(line, World', irq'.mask)
    <3>1. Acks(line, World, irq'.mask)
      BY <2>1, FrameParts
    <3>2. pio'.irqs \cap {"MATCHED", "ACKDONE"} = pio.irqs \cap {"MATCHED", "ACKDONE"}
      BY <2>2
    <3> QED
      BY <2>1, <2>2, <3>1, <3>2, RegistersKept
  <2>4. Served'
    BY <2>1, <2>2, FrameParts DEF Served
  <2> QED
    BY <1>0, <2>1, <2>2, <2>3, <2>4, ParseKept
<1> QED
  BY <1>1, <1>2, <1>3, <1>4, <1>5

\* A step of the main loop keeps FrameInv: it changes the queue, or raises TXPENDING.
LEMMA MainFrame == FrameInv /\ Main => FrameInv'
<1> SUFFICES ASSUME FrameInv, Main PROVE FrameInv'
  OBVIOUS
<1>0. QueueInv'
  BY QueueStep DEF FrameInv, Next
<1>1. /\ UNCHANGED <<line, irq, log>> /\ pio' \in {pio, pio_signal_set_txpending(pio)}
      /\ \/ cd' = cd
         \/ \E q : cd' = [cd EXCEPT !.tx_queue = q]
         \/ \E q : cd' = [cd EXCEPT !.tx_push_pos = q]
  BY DEF Main, TransmitBegin, TransmitFull, TransmitCopy, TransmitSubmit, TransmitWake
<1>2. /\ cd'.parse_state = cd.parse_state /\ cd'.parse_msg = cd.parse_msg
      /\ cd'.report_state = cd.report_state /\ cd'.tx_state = cd.tx_state
  BY <1>1, FrameParts DEF CdStates
<1>3. /\ pio'.fifo = pio.fifo /\ pio'.isr = pio.isr /\ pio'.match = pio.match
      /\ pio'.txsm = pio.txsm /\ pio'.inte = pio.inte
      /\ pio.irqs \subseteq pio'.irqs /\ pio'.irqs \subseteq pio.irqs \cup {"TXPENDING"}
  BY <1>1, FrameParts DEF pio_signal_set_txpending, PioStates
<1>4. Registers(World') /\ Acks(line, World', irq'.mask)
  <2>1. Acks(line, World, irq'.mask)
    BY <1>1, FrameParts
  <2>2. pio'.irqs \cap {"MATCHED", "ACKDONE"} = pio.irqs \cap {"MATCHED", "ACKDONE"}
    BY <1>3
  <2> QED
    BY <1>1, <1>2, <1>3, <2>1, <2>2, RegistersKept
<1>5. Served'
  BY <1>1, <1>2, <1>3, FrameParts DEF Served
<1>6. "MAYTX" \in pio'.irqs => "MAYTX" \in pio.irqs
  BY <1>3
<1> QED
  BY <1>0, <1>1, <1>2, <1>3, <1>4, <1>5, <1>6, ParseKept

\* FrameInv holds when the driver has started.
LEMMA FrameInit == Init => FrameInv
<1> SUFFICES ASSUME Init PROVE FrameInv
  OBVIOUS
<1>1. QueueInv
  BY QueueInit
<1>2. /\ line.phase = "idle" /\ line.frames = <<>> /\ line.faults = Faults /\ line.overruns = Overruns
      /\ pio.irqs = {"TXPENDING"} /\ pio.inte = {"MAYTX", "TXPENDING", "RX_DATA"}
      /\ pio.fifo = <<>> /\ pio.isr = <<>> /\ pio.match = NoKey /\ pio.txsm = "off"
      /\ cd.parse_state = "DISCARD" /\ cd.parse_msg = 0 /\ cd.report_state = "IDLE"
      /\ irq.pc = "out" /\ irq.mask = {} /\ log.rx = <<>>
  BY DEF Init, PioInit, Idle
<1>3. World.cd = cd /\ World.pio = pio /\ World.log = log /\ NoKey.kind = "none"
  BY DEF World, NoKey
<1>4. Stream(World) = <<>> /\ DOMAIN Stream(World) = {} /\ Latest(line) = 0
  <2>1. Stream(World) = <<>> \o <<>> /\ Latest(line) = Len(<<>>)
    BY <1>2, <1>3 DEF Stream, Latest
  <2>2. <<>> \o <<>> = <<>> /\ Len(<<>>) = 0 /\ DOMAIN <<>> = {}
    OBVIOUS
  <2> QED
    BY <2>1, <2>2
<1>5. WireInv(line, pio)
  BY <1>2, <1>4, PioAssumption DEF WireInv, Calm
<1>6. Follow(line, World)
  BY <1>2, <1>3, <1>4 DEF Follow, Behind, Tidy, Ordered, Mid
<1>7. Reported(line, World)
  <2>1. DOMAIN log.rx = {}
    BY <1>2
  <2> QED
    BY <1>3, <2>1 DEF Reported, Increasing
<1>8. Registers(World) /\ Acks(line, World, irq.mask) /\ Served
  BY <1>2, <1>3 DEF Registers, Acks, Asked, Receiving, Served
<1> QED
  BY <1>1, <1>5, <1>6, <1>7, <1>8 DEF FrameInv

\* A stuttering step keeps FrameInv.
LEMMA FrameStutter == FrameInv /\ UNCHANGED vars => FrameInv'
<1> SUFFICES ASSUME FrameInv, UNCHANGED vars PROVE FrameInv'
  OBVIOUS
<1>1. QueueInv'
  BY QueueStep DEF FrameInv
<1>2. UNCHANGED <<line, pio, cd, irq, app, log>>
  BY DEF vars
<1>3. Registers(World') /\ Acks(line, World', irq'.mask)
  BY <1>2, RegistersKept DEF FrameInv
<1>4. Served'
  BY <1>2 DEF FrameInv, Served
<1> QED
  BY <1>1, <1>2, <1>3, <1>4, ParseKept

\* Every step keeps FrameInv.
LEMMA FrameKept == FrameInv /\ [Next]_vars => FrameInv'
BY WireFrameStep, IrqEnterFrame, ProcessRxFrame, AckDoneFrame, MatchedFrame, MayTxFrame,
   InjectAckFrame, TxPendingFrame, ScheduleFrame, MainFrame, FrameStutter DEF Next, Handler

\* FrameInv holds in every reachable state.
LEMMA FrameInvariant == Spec => []FrameInv
BY FrameInit, FrameKept, PTL DEF Spec

(* The frames that the driver reports received come in the order of the    *)
(* wire, and none comes twice, whichever of the parser, the MATCHED and    *)
(* the MAYTX interrupt reports it, whatever the wire does and however many *)
(* rx words an overrun loses.                                              *)
THEOREM ReceivedInOrder == Spec => []Increasing(log.rx)
<1>1. FrameInv => Increasing(log.rx)
  BY DEF FrameInv, Reported, World
<1> QED
  BY <1>1, FrameInvariant, PTL

(* Faults of the bus (or overflows of the idle counter, which count among  *)
(* them) and overruns of the rx fifo have not come together.               *)
Unmixed == Whole(line) \/ Intact(line)

(* While faults of the bus and overruns of the rx fifo have not come       *)
(* together, what the driver reports received was acknowledged and         *)
(* recessive up to bit 6 of its end of frame.                              *)
THEOREM OnceAndValid == Spec => [](Unmixed => RxOnceAndValid)
<1>1. FrameInv => (Unmixed => RxOnceAndValid)
  <2>1. World.log = log
    BY DEF World
  <2> QED
    BY <2>1 DEF FrameInv, Reported, Unmixed, RxOnceAndValid, Elements
<1> QED
  BY <1>1, FrameInvariant, PTL

(* The same without a condition on the state, for a node that is always    *)
(* fast enough or for a bus without faults that is never idle too long.    *)
COROLLARY ReceivedOnceAndValid ==
  ASSUME Overruns = 0 \/ Faults = 0
  PROVE  Spec => []RxOnceAndValid
<1>1. FrameInv => RxOnceAndValid
  <2> SUFFICES ASSUME FrameInv PROVE RxOnceAndValid
    OBVIOUS
  <2>1. World.log = log /\ line \in LineStates
    BY DEF World, FrameInv, QueueInv, DriverInv, TypeOK
  <2>2. Whole(line) \/ Intact(line)
    BY <2>1 DEF FrameInv, WireInv, Whole, Intact, LineStates
  <2> QED
    BY <2>1, <2>2 DEF FrameInv, Reported, RxOnceAndValid, Elements
<1> QED
  BY <1>1, FrameInvariant, PTL
=============================================================================
