-------------------------- MODULE ConnectionProofs --------------------------
(***************************************************************************)
(* For any table of delays, any bounds, any terminal and any way its bytes *)
(* are cut into chunks: the entry's part of a connection does nothing to   *)
(* the listener that Listener does not allow, no event falls between the   *)
(* stream and the sweep unless it is outrun or out of the search window,   *)
(* the log that is sent again is never news, the listener knocks again     *)
(* within the longest of its pauses, and whoever stops to try has asked    *)
(* the user for credentials.                                               *)
(***************************************************************************)
EXTENDS Connection, WellFoundedInduction, SequenceTheorems, TLAPS

-----------------------------------------------------------------------------
(* The composition implements the component.                               *)

\* Every step of the composition is one of the listener's, or leaves it alone.
LEMMA StepIsListeners == [Next]_cvars => [ListenerNext]_vars
<1> SUFFICES ASSUME [Next]_cvars PROVE ListenerNext \/ UNCHANGED vars
  OBVIOUS
<1>1. CASE Emit \/ Expire \/ EmitFiller \/ ChangeMood \/ LoopNext
  BY <1>1 DEF ListenerNext
<1>2. CASE LiveEvent
  BY <1>2 DEF LiveEvent, ListenerNext
<1>3. CASE Sweep
  BY <1>3 DEF Sweep, ListenerNext
<1>4. CASE SetUp
  <2>1. CASE Loaded
    BY <2>1 DEF Loaded, ListenerNext
  <2>2. CASE UNCHANGED vars
    BY <2>2
  <2> QED BY <1>4, <2>1, <2>2 DEF SetUp
<1>5. CASE Unload
  BY <1>5 DEF Unload, ListenerNext
<1>6. CASE Reauthenticate
  BY <1>6 DEF Reauthenticate, ListenerNext
<1>7. CASE Poll \/ UNCHANGED cvars
  BY <1>7 DEF Poll, cvars
<1> QED BY <1>1, <1>2, <1>3, <1>4, <1>5, <1>6, <1>7 DEF Next

-----------------------------------------------------------------------------
(* The bytes.  Tokens, streams and their ends.                             *)

\* An event and one of the four parts of its section.
Tokens == Nat \X Nat

\* t is s without its first d tokens.
Suffix(t, s, d) ==
    /\ d \in Nat /\ Len(s) = d + Len(t)
    /\ \A i \in 1..Len(t) : t[i] = s[d + i]

\* After the first half of a boundary comes the second, after the body of an
\* event the next boundary, and nothing ends within a boundary.
Framed(s) ==
    /\ \A i \in 1..Len(s) - 1 : s[i][2] = 1 => s[i + 1][2] = 2
    /\ \A i \in 1..Len(s) - 1 : s[i][2] = 4 /\ s[i][1] # 0 => s[i + 1][2] = 1
    /\ Len(s) # 0 => s[Len(s)][2] # 1

\* An event ends at i.
EndsAt(s, i) == s[i][2] = 4 /\ s[i][1] # 0

\* Newer events follow older ones.
Ordered(s) ==
    \A i, j \in 1..Len(s) :
        i < j /\ EndsAt(s, i) /\ EndsAt(s, j) => s[i][1] < s[j][1]

\* What is live and still to come is newer than n.
NewerThan(s, b, n) ==
    \A i \in 1..Len(s) : EndsAt(s, i) /\ s[i][1] > b => s[i][1] > n

\* Nothing is of an event that the terminal has not emitted.
Known(s, m) == \A i \in 1..Len(s) : s[i][1] <= m

\* What holds of a stream holds of its end.
LEMMA SuffixKeeps ==
    ASSUME NEW s \in Seq(Tokens), NEW t \in Seq(Tokens), NEW d, Suffix(t, s, d),
           NEW b, NEW n, NEW m
    PROVE  /\ Framed(s) => Framed(t)
           /\ Ordered(s) => Ordered(t)
           /\ NewerThan(s, b, n) => NewerThan(t, b, n)
           /\ Known(s, m) => Known(t, m)
<1>0. /\ Len(s) \in Nat /\ Len(t) \in Nat /\ d \in Nat /\ Len(s) = d + Len(t)
      /\ \A i \in 1..Len(t) : d + i \in 1..Len(s) /\ t[i] = s[d + i]
  BY DEF Suffix
<1>1. ASSUME Framed(s) PROVE Framed(t)
  <2>1. ASSUME NEW i \in 1..Len(t) - 1
        PROVE  /\ d + i \in 1..Len(s) - 1 /\ t[i] = s[d + i]
               /\ t[i + 1] = s[(d + i) + 1]
    <3>1. i + 1 \in 1..Len(t) /\ i \in 1..Len(t) /\ d + (i + 1) = (d + i) + 1
      BY <1>0
    <3> QED BY <1>0, <3>1
  <2>2. Len(t) # 0 => t[Len(t)] = s[Len(s)] /\ Len(s) # 0
    BY <1>0
  <2> QED BY <1>1, <2>1, <2>2 DEF Framed
<1>2. ASSUME Ordered(s) PROVE Ordered(t)
  <2> SUFFICES ASSUME NEW i \in 1..Len(t), NEW j \in 1..Len(t), i < j,
                      EndsAt(t, i), EndsAt(t, j)
               PROVE  t[i][1] < t[j][1]
    BY DEF Ordered
  <2>1. d + i < d + j
    BY <1>0
  <2> QED BY <1>0, <1>2, <2>1 DEF Ordered, EndsAt
<1>3. ASSUME NewerThan(s, b, n) PROVE NewerThan(t, b, n)
  BY <1>0, <1>3 DEF NewerThan, EndsAt
<1>4. ASSUME Known(s, m) PROVE Known(t, m)
  BY <1>0, <1>4 DEF Known
<1> QED BY <1>1, <1>2, <1>3, <1>4

\* A set of numbers has a least one.
LEMMA LeastNat ==
    ASSUME NEW S, S \subseteq Nat, S # {}
    PROVE  \E m \in S : \A x \in S : m <= x
<1> DEFINE R == OpToRel(<, Nat)
<1>1. PICK m \in S : \A x \in S : ~ (<<x, m>> \in R)
  <2> HIDE DEF R
  <2>1. IsWellFoundedOn(R, Nat)
    BY NatLessThanWellFounded DEF R
  <2> QED BY <2>1, WFMin
<1>2. \A x \in S : ~ (x < m)
  BY <1>1 DEF OpToRel
<1> QED BY <1>2

\* The delimiter at which split_stream_buffer cuts is the last one.
LEMMA LastDelimiterIs ==
    ASSUME NEW s \in Seq(Tokens)
    PROVE  /\ LastDelimiter(s) \in 0..Len(s)
           /\ LastDelimiter(s) # 0 => LastDelimiter(s) \in Delimiters(s)
           /\ \A j \in Delimiters(s) : j <= LastDelimiter(s)
<1>0. Len(s) \in Nat /\ Delimiters(s) \subseteq 2..Len(s)
  BY DEF Delimiters
<1>1. CASE Delimiters(s) = {}
  BY <1>0, <1>1 DEF LastDelimiter
<1>2. CASE Delimiters(s) # {}
  <2> DEFINE B == {Len(s) - i : i \in Delimiters(s)}
  <2>1. B \subseteq Nat /\ B # {}
    BY <1>0, <1>2
  <2>2. PICK m \in B : \A x \in B : m <= x
    <3> HIDE DEF B
    <3> QED BY <2>1, LeastNat
  <2>3. PICK i \in Delimiters(s) : m = Len(s) - i
    BY <2>2
  <2>4. \A j \in Delimiters(s) : j <= i
    <3> SUFFICES ASSUME NEW j \in Delimiters(s) PROVE j <= i
      OBVIOUS
    <3>1. Len(s) - i <= Len(s) - j
      BY <2>2, <2>3
    <3> QED BY <1>0, <3>1
  <2>5. LastDelimiter(s) \in Delimiters(s)
        /\ \A j \in Delimiters(s) : j <= LastDelimiter(s)
    BY <1>2, <2>4 DEF LastDelimiter
  <2> QED BY <1>0, <2>5
<1> QED BY <1>1, <1>2

\* The log the terminal sends again is well formed and in order.
LEMMA ReplayFramed ==
    ASSUME NEW n \in Nat
    PROVE  /\ Replay(n) \in Seq(Tokens)
           /\ Framed(Replay(n)) /\ Ordered(Replay(n))
           /\ \A i \in 1..Len(Replay(n)) : Replay(n)[i][1] <= n
<1> DEFINE e(i) == (i + 3) \div 4
           k(i) == 1 + ((i - 1) % 4)
           s == Replay(n)
<1>1. ASSUME NEW i \in 1..4 * n
      PROVE  /\ e(i) \in Nat /\ k(i) \in Nat /\ e(i) \in 1..n /\ k(i) \in 1..4
             /\ i = 4 * (e(i) - 1) + k(i)
  OBVIOUS
<1>2. s = [i \in 1..4 * n |-> <<e(i), k(i)>>]
  BY DEF Replay
<1> HIDE DEF e, k
<1>3. s \in Seq(Tokens) /\ Len(s) = 4 * n
  <2>1. s \in [1..4 * n -> Tokens] /\ 4 * n \in Nat
    BY <1>1, <1>2 DEF Tokens
  <2> QED BY <1>2, <2>1
<1>4. ASSUME NEW i \in 1..Len(s)
      PROVE  /\ s[i][1] \in 1..n /\ s[i][2] \in 1..4
             /\ i = 4 * (s[i][1] - 1) + s[i][2]
  BY <1>1, <1>2, <1>3, <1>4
<1> HIDE DEF s
<1>5. ASSUME NEW i \in 1..Len(s) - 1
      PROVE  /\ s[i][2] = 1 => s[i + 1][2] = 2
             /\ s[i][2] = 4 => s[i + 1][2] = 1
  <2> DEFINE a == s[i][1]
             b == s[i][2]
             c == s[i + 1][1]
             d == s[i + 1][2]
  <2>1. i \in 1..Len(s) /\ i + 1 \in 1..Len(s)
    BY <1>3
  <2>2. a \in Nat /\ b \in 1..4 /\ i = 4 * (a - 1) + b
    BY <1>4, <2>1
  <2>3. c \in Nat /\ d \in 1..4 /\ i + 1 = 4 * (c - 1) + d
    BY <1>4, <2>1
  <2> HIDE DEF a, b, c, d
  <2>4. (b = 1 => d = 2) /\ (b = 4 => d = 1)
    BY <2>2, <2>3
  <2> QED BY <2>4 DEF b, d
<1>6. Len(s) # 0 => s[Len(s)][2] # 1
  <2> SUFFICES ASSUME Len(s) # 0, s[Len(s)][2] = 1 PROVE FALSE
    OBVIOUS
  <2>1. Len(s) \in 1..Len(s)
    BY <1>3
  <2> DEFINE m == s[Len(s)][1]
  <2>2. m \in Nat /\ 4 * n = 4 * (m - 1) + 1
    BY <1>3, <1>4, <2>1
  <2> HIDE DEF m
  <2> QED BY <2>2
<1>7. ASSUME NEW i \in 1..Len(s), NEW j \in 1..Len(s), i < j,
             s[i][2] = 4, s[j][2] = 4
      PROVE  s[i][1] < s[j][1]
  <2>1. /\ i = 4 * (s[i][1] - 1) + 4 /\ j = 4 * (s[j][1] - 1) + 4
        /\ s[i][1] \in Nat /\ s[j][1] \in Nat
    BY <1>4, <1>7, SMTT(30)
  <2> QED BY <1>7, <2>1
<1> QED BY <1>3, <1>4, <1>5, <1>6, <1>7, SMTT(30) DEF Framed, Ordered, EndsAt, s

-----------------------------------------------------------------------------
(* Reading and splitting.                                                  *)

\* Where the tokens of two sequences are in their concatenation.
LEMMA ConcatIs ==
    ASSUME NEW a \in Seq(Tokens), NEW b \in Seq(Tokens)
    PROVE  /\ a \o b \in Seq(Tokens) /\ Len(a \o b) = Len(a) + Len(b)
           /\ Len(a) \in Nat /\ Len(b) \in Nat
           /\ \A i \in 1..Len(a) : (a \o b)[i] = a[i]
           /\ \A i \in 1..Len(b) : (a \o b)[Len(a) + i] = b[i]
OBVIOUS

\* event_listener.py:125: what is kept of a buffer that is too long is its end.
LEMMA TrimmedIs ==
    ASSUME NEW s \in Seq(Tokens)
    PROVE  /\ Trimmed(s) \in Seq(Tokens)
           /\ \E c \in Nat : /\ Suffix(Trimmed(s), s, c)
                             /\ c = 0 \/ c = Len(s) - MaxBuffer
<1>0. Len(s) \in Nat /\ MaxBuffer \in Nat
  BY ListenerAssumption
<1>1. CASE Len(s) > MaxBuffer
  <2> DEFINE c == Len(s) - MaxBuffer
             t == SubSeq(s, c + 1, Len(s))
  <2>1. c \in Nat /\ c + 1 \in 1..Len(s) + 1
    BY <1>0, <1>1
  <2>2. /\ t \in Seq(Tokens) /\ Len(t) = Len(s) - c
        /\ \A i \in 1..Len(t) : t[i] = s[c + i]
    BY <1>0, <2>1
  <2>3. Trimmed(s) = t
    BY <1>0, <1>1 DEF Trimmed
  <2> HIDE DEF t
  <2>4. Suffix(t, s, c)
    BY <1>0, <2>1, <2>2 DEF Suffix
  <2> QED BY <2>1, <2>2, <2>3, <2>4
<1>2. CASE ~ (Len(s) > MaxBuffer)
  <2>1. Trimmed(s) = s /\ Suffix(s, s, 0)
    BY <1>0, <1>2 DEF Trimmed, Suffix
  <2> QED BY <2>1
<1> QED BY <1>1, <1>2

\* event_parser.py:94: no token is lost when the buffer is split, and what stays
\* in it holds no delimiter.
LEMMA SplitIs ==
    ASSUME NEW s \in Seq(Tokens)
    PROVE  LET d == LastDelimiter(s) IN
           /\ d \in 0..Len(s) /\ (d # 0 => s[d][2] = 2)
           /\ Complete(s) \in Seq(Tokens) /\ Len(Complete(s)) = d
           /\ \A i \in 1..d : Complete(s)[i] = s[i]
           /\ Remainder(s) \in Seq(Tokens) /\ Suffix(Remainder(s), s, d)
           /\ Delimiters(Remainder(s)) = {}
<1> DEFINE d == LastDelimiter(s)
           a == Complete(s)
           b == Remainder(s)
<1>1. /\ Len(s) \in Nat /\ d \in 0..Len(s)
      /\ d # 0 => d \in Delimiters(s)
      /\ \A j \in Delimiters(s) : j <= d
  BY LastDelimiterIs
<1>2. /\ a \in Seq(Tokens) /\ Len(a) = d
      /\ \A i \in 1..d : a[i] = s[i]
  <2>1. a = SubSeq(s, 1, d)
    BY DEF Complete
  <2> HIDE DEF d, a
  <2> QED BY <1>1, <2>1
<1>3. /\ b \in Seq(Tokens) /\ Len(b) = Len(s) - d
      /\ \A i \in 1..Len(b) : b[i] = s[d + i]
  <2>1. b = SubSeq(s, d + 1, Len(s))
    BY DEF Remainder
  <2> HIDE DEF d, b
  <2> QED BY <1>1, <2>1
<1>4. Delimiters(b) = {}
  <2> SUFFICES ASSUME NEW i \in Delimiters(b) PROVE FALSE
    OBVIOUS
  <2> HIDE DEF d, b
  <2>1. /\ i \in 2..Len(b) /\ b[i - 1][2] = 1 /\ b[i][2] = 2
    BY DEF Delimiters
  <2>2. /\ d + i \in 2..Len(s) /\ b[i] = s[d + i]
        /\ b[i - 1] = s[(d + i) - 1]
    BY <1>1, <1>3, <2>1
  <2>3. d + i \in Delimiters(s)
    BY <2>1, <2>2 DEF Delimiters
  <2> QED BY <1>1, <2>1, <2>3
<1>5. Suffix(b, s, d)
  <2> HIDE DEF d, b
  <2> QED BY <1>1, <1>3 DEF Suffix
<1>6. d # 0 => s[d][2] = 2
  BY <1>1 DEF Delimiters
<1> HIDE DEF a, b, d
<1>7. /\ d \in 0..Len(s) /\ (d # 0 => s[d][2] = 2)
      /\ a \in Seq(Tokens) /\ Len(a) = d
      /\ \A i \in 1..d : a[i] = s[i]
      /\ b \in Seq(Tokens) /\ Suffix(b, s, d) /\ Delimiters(b) = {}
  BY <1>1, <1>2, <1>3, <1>4, <1>5, <1>6
<1> QED BY <1>7 DEF a, b, d

\* One read: the bytes that were split are what c tokens less of the stream
\* begins with, and d of them are sections.
ReadOf(n, c, d, bytes) ==
    LET t == buffer \o wire
        u == (buffer \o wire)'
    IN  /\ n \in 1..MaxChunk /\ n <= Len(wire)
        /\ c = 0 \/ c = Len(buffer) + n - MaxBuffer
        /\ c + Len(bytes) = Len(buffer) + n
        /\ \A i \in 1..Len(bytes) : bytes[i] = t[c + i]
        /\ d \in 0..Len(bytes) /\ (d # 0 => bytes[d][2] = 2)
        /\ todo' = Dispatch(Complete(bytes))
        /\ Complete(bytes) \in Seq(Tokens) /\ Len(Complete(bytes)) = d
        /\ \A i \in 1..d : Complete(bytes)[i] = bytes[i]
        /\ u \in Seq(Tokens) /\ Suffix(u, t, c + d)
        /\ buffer' \in Seq(Tokens) /\ wire' \in Seq(Tokens)
        /\ Delimiters(buffer)' = {}

\* Every Read is one of those.
LEMMA ReadSplits ==
    ASSUME buffer \in Seq(Tokens), wire \in Seq(Tokens), Read
    PROVE  \E n, c, d \in Nat, bytes \in Seq(Tokens) : ReadOf(n, c, d, bytes)
<1> DEFINE t == buffer \o wire
<1>1. PICK n \in 1..MaxChunk :
        /\ n <= Len(wire)
        /\ wire' = SubSeq(wire, n + 1, Len(wire))
        /\ todo' = Dispatch(Complete(Trimmed(buffer \o SubSeq(wire, 1, n))))
        /\ buffer' = Remainder(Trimmed(buffer \o SubSeq(wire, 1, n)))
  BY DEF Read
<1> DEFINE raw == buffer \o SubSeq(wire, 1, n)
           bytes == Trimmed(raw)
           d == LastDelimiter(bytes)
<1>2. Len(buffer) \in Nat /\ Len(wire) \in Nat /\ n \in Nat
  BY ListenerAssumption
<1>3. /\ raw \in Seq(Tokens) /\ Len(raw) = Len(buffer) + n
      /\ \A i \in 1..Len(raw) : raw[i] = t[i]
  <2> DEFINE w == SubSeq(wire, 1, n)
  <2>1. w \in Seq(Tokens) /\ Len(w) = n /\ \A i \in 1..n : w[i] = wire[i]
    BY <1>1, <1>2
  <2> HIDE DEF w
  <2>2. raw = buffer \o w
    BY DEF w
  <2>3. /\ \A i \in 1..Len(buffer) : raw[i] = buffer[i] /\ t[i] = buffer[i]
        /\ \A i \in 1..n : raw[Len(buffer) + i] = w[i]
                           /\ t[Len(buffer) + i] = wire[i]
    BY <1>1, <1>2, <2>1, <2>2
  <2>4. raw \in Seq(Tokens) /\ Len(raw) = Len(buffer) + n
    BY <2>1, <2>2
  <2>5. ASSUME NEW i \in 1..Len(raw) PROVE raw[i] = t[i]
    <3>1. CASE i <= Len(buffer)
      BY <2>3, <3>1
    <3>2. CASE ~ (i <= Len(buffer))
      <4>1. i - Len(buffer) \in 1..n /\ i = Len(buffer) + (i - Len(buffer))
        BY <1>2, <2>4, <3>2
      <4> QED BY <2>1, <2>3, <4>1, ZenonT(30)
    <3> QED BY <3>1, <3>2
  <2> QED BY <2>4, <2>5
<1> HIDE DEF raw
<1>4. PICK c \in Nat : /\ Suffix(bytes, raw, c)
                       /\ c = 0 \/ c = Len(raw) - MaxBuffer
  BY <1>3, TrimmedIs
<1>a. Len(raw) = Len(buffer) + n
  BY <1>3
<1>b. c = 0 \/ c = Len(raw) - MaxBuffer
  BY <1>4
<1>5. bytes \in Seq(Tokens)
  BY <1>3, TrimmedIs
<1>6. todo' = Dispatch(Complete(bytes)) /\ buffer' = Remainder(bytes)
  BY <1>1 DEF raw
<1> HIDE DEF bytes
<1>7. /\ d \in 0..Len(bytes) /\ (d # 0 => bytes[d][2] = 2)
      /\ Complete(bytes) \in Seq(Tokens) /\ Len(Complete(bytes)) = d
      /\ \A i \in 1..d : Complete(bytes)[i] = bytes[i]
      /\ buffer' \in Seq(Tokens) /\ Suffix(buffer', bytes, d)
      /\ Delimiters(buffer') = {}
  BY <1>5, <1>6, SplitIs
<1> HIDE DEF d
<1>8. /\ wire' \in Seq(Tokens) /\ Len(wire') = Len(wire) - n
      /\ \A i \in 1..Len(wire') : wire'[i] = wire[n + i]
  BY <1>1, <1>2
<1>9. /\ c + Len(bytes) = Len(buffer) + n
      /\ \A i \in 1..Len(bytes) : bytes[i] = t[c + i]
  <2>1. Len(bytes) \in Nat
    BY <1>5
  <2>2. c + Len(bytes) = Len(raw)
    BY <1>4 DEF Suffix
  <2>3. ASSUME NEW i \in 1..Len(bytes) PROVE bytes[i] = t[c + i]
    <3>1. c + i \in 1..Len(raw) /\ bytes[i] = raw[c + i]
      BY <1>4, <2>1, <2>2 DEF Suffix
    <3> QED BY <1>3, <3>1
  <2> QED BY <1>3, <2>2, <2>3
<1> DEFINE u == buffer' \o wire'
<1>10. Suffix(u, t, c + d)
  <2>1. /\ Len(u) = Len(buffer') + Len(wire')
        /\ Len(t) = Len(buffer) + Len(wire)
        /\ Len(buffer') \in Nat /\ Len(wire') \in Nat
        /\ \A i \in 1..Len(buffer') : u[i] = buffer'[i]
        /\ \A i \in 1..Len(wire') : u[Len(buffer') + i] = wire'[i]
        /\ \A i \in 1..Len(wire) : t[Len(buffer) + i] = wire[i]
    BY <1>7, <1>8, ConcatIs
  <2>2. /\ Len(bytes) = d + Len(buffer') /\ d \in Nat
        /\ \A i \in 1..Len(buffer') : buffer'[i] = bytes[d + i]
    BY <1>7 DEF Suffix
  <2> HIDE DEF u, t
  <2>a. /\ c + Len(bytes) = Len(buffer) + n
        /\ Len(wire') = Len(wire) - n
        /\ Len(u) = Len(buffer') + Len(wire')
        /\ Len(t) = Len(buffer) + Len(wire)
        /\ Len(bytes) = d + Len(buffer')
    BY <1>8, <1>9, <2>1, <2>2
  <2>b. /\ c \in Nat /\ d \in Nat /\ n \in Nat
        /\ Len(wire') \in Nat /\ Len(buffer') \in Nat
        /\ Len(buffer) \in Nat /\ Len(wire) \in Nat /\ Len(bytes) \in Nat
    BY <1>2, <1>5, <2>1, <2>2
  <2>3. Len(t) = (c + d) + Len(u) /\ c + d \in Nat
    BY <2>a, <2>b, SMTT(30)
  <2>4. ASSUME NEW i \in 1..Len(u) PROVE u[i] = t[(c + d) + i]
    <3>1. CASE i <= Len(buffer')
      <4>1. i \in 1..Len(buffer') /\ d + i \in 1..Len(bytes)
        BY <2>1, <2>2, <3>1
      <4>2. c + (d + i) = (c + d) + i
        BY <2>2
      <4> QED BY <1>9, <2>1, <2>2, <4>1, <4>2
    <3>2. CASE ~ (i <= Len(buffer'))
      <4> DEFINE j == i - Len(buffer')
      <4>1. j \in 1..Len(wire') /\ i = Len(buffer') + j
        BY <2>1, <3>2
      <4> HIDE DEF j
      <4>2. u[i] = wire'[j]
        BY <2>1, <4>1
      <4>3. wire'[j] = wire[n + j] /\ n + j \in 1..Len(wire)
        BY <1>1, <1>2, <1>8, <4>1
      <4>4. t[Len(buffer) + (n + j)] = wire[n + j]
        BY <2>1, <4>3
      <4>5. Len(buffer) + (n + j) = (c + d) + i
        <5>1. i \in Int /\ j \in Int /\ i = Len(buffer') + j
          BY <2>a, <2>b, <4>1
        <5>2. c + (d + Len(buffer')) = Len(buffer) + n
          BY <2>a
        <5> QED BY <2>b, <5>1, <5>2
      <4> QED BY <4>2, <4>3, <4>4, <4>5
    <3> QED BY <3>1, <3>2
  <2> QED BY <2>3, <2>4 DEF Suffix
<1>11. u \in Seq(Tokens)
  BY <1>7, <1>8
<1>12. c = 0 \/ c = Len(buffer) + n - MaxBuffer
  <2>1. /\ Len(raw) \in Nat /\ Len(buffer) \in Nat /\ n \in Nat
        /\ MaxBuffer \in Nat
    BY <1>2, <1>3, ListenerAssumption
  <2> QED BY <1>a, <1>b, <2>1
<1>13. d \in Nat
  BY <1>5, <1>7
<1>14. ReadOf(n, c, d, bytes)
  BY <1>1, <1>6, <1>7, <1>8, <1>9, <1>10, <1>11, <1>12 DEF ReadOf
<1> QED BY <1>2, <1>4, <1>5, <1>13, <1>14

-----------------------------------------------------------------------------
(* What is known of a stream, whatever is appended to it or taken from it. *)

\* What the sections not dispatched (d), the buffer (b) and the wire (w) hold of
\* a connection that was opened when the terminal had `from` events, when n was
\* the last one handled and m the last one emitted.
Sound(d, b, w, from, n, m) ==
    /\ d \in Seq(Tokens) /\ b \in Seq(Tokens) /\ w \in Seq(Tokens)
    /\ Delimiters(b) = {} /\ Framed(b \o w)
    /\ Ordered(d \o (b \o w)) /\ NewerThan(d \o (b \o w), from, n)
    /\ Known(d \o (b \o w), m)

\* The tokens of a section.
LEMMA SectionIs ==
    ASSUME NEW e \in Nat, NEW size \in Nat
    PROVE  /\ Section(e, size) \in Seq(Tokens)
           /\ Len(Section(e, size)) = size + 2
           /\ \A k \in 1..size + 2 : Section(e, size)[k] = <<e, k>>
<1>1. Section(e, size) \in [1..size + 2 -> Tokens] /\ size + 2 \in Nat
  BY DEF Section, Tokens
<1> QED BY <1>1 DEF Section

\* One more section at the end of a stream.
LEMMA AppendFramed ==
    ASSUME NEW s \in Seq(Tokens), Framed(s), NEW e \in Nat,
           NEW size \in Nat \ {0}, e # 0 => size = 2
    PROVE  Framed(s \o Section(e, size))
<1> DEFINE x == Section(e, size)
           t == s \o x
<1>1. /\ x \in Seq(Tokens) /\ Len(x) = size + 2 /\ Len(s) \in Nat
      /\ \A k \in 1..size + 2 : x[k][1] = e /\ x[k][2] = k
  <2>1. size \in Nat /\ Len(s) \in Nat
    OBVIOUS
  <2>2. /\ x \in Seq(Tokens) /\ Len(x) = size + 2
        /\ \A k \in 1..size + 2 : x[k] = <<e, k>>
    BY <2>1, SectionIs
  <2> HIDE DEF x
  <2> QED BY <2>1, <2>2
<1> HIDE DEF x
<1>2. /\ Len(t) = Len(s) + (size + 2)
      /\ \A i \in 1..Len(s) : t[i] = s[i]
      /\ \A k \in 1..size + 2 : t[Len(s) + k] = x[k]
  <2>1. 1..Len(x) = 1..size + 2
    BY <1>1
  <2>2. /\ Len(t) = Len(s) + Len(x)
        /\ \A i \in 1..Len(s) : t[i] = s[i]
        /\ \A k \in 1..Len(x) : t[Len(s) + k] = x[k]
    BY <1>1, ConcatIs
  <2> HIDE DEF t
  <2> QED BY <1>1, <2>1, <2>2
<1> HIDE DEF t
<1>3. ASSUME NEW i \in 1..Len(t) - 1
      PROVE  /\ t[i][2] = 1 => t[i + 1][2] = 2
             /\ t[i][2] = 4 /\ t[i][1] # 0 => t[i + 1][2] = 1
  <2>1. CASE i < Len(s)
    <3>1. i \in 1..Len(s) - 1 /\ i \in 1..Len(s) /\ i + 1 \in 1..Len(s)
      BY <1>1, <2>1
    <3> QED BY <1>2, <3>1 DEF Framed
  <2>2. CASE i = Len(s)
    <3>1. i \in 1..Len(s) /\ 1 \in 1..size + 2 /\ Len(s) # 0
      BY <1>1, <2>2
    <3>2. t[i] = s[Len(s)] /\ t[i + 1][2] = 1
      BY <1>1, <1>2, <2>2, <3>1
    <3> QED BY <3>1, <3>2 DEF Framed
  <2>3. CASE i > Len(s)
    <3> DEFINE k == i - Len(s)
    <3>1. /\ k \in 1..size + 2 /\ k + 1 \in 1..size + 2
          /\ i = Len(s) + k /\ i + 1 = Len(s) + (k + 1)
      BY <1>1, <1>2, <2>3
    <3> HIDE DEF k
    <3>2. t[i][2] = k /\ t[i][1] = e /\ t[i + 1][2] = k + 1
      BY <1>1, <1>2, <3>1
    <3> QED BY <3>1, <3>2
  <2> QED BY <1>1, <2>1, <2>2, <2>3
<1>4. Len(t) # 0 /\ t[Len(t)][2] # 1
  <2>1. size + 2 \in 1..size + 2 /\ size + 2 # 1
    OBVIOUS
  <2> QED BY <1>1, <1>2, <2>1
<1> QED BY <1>3, <1>4 DEF Framed, t, x

\* A section that is no event, or the next one, keeps the order.
LEMMA AppendOrdered ==
    ASSUME NEW s \in Seq(Tokens), NEW from, NEW n \in Nat, NEW m \in Nat,
           n <= m,
           Ordered(s), NewerThan(s, from, n), Known(s, m),
           NEW e \in Nat, NEW size \in Nat, e \in {0, m + 1}
    PROVE  LET t == s \o Section(e, size)
               k == IF e = 0 THEN m ELSE e
           IN  Ordered(t) /\ NewerThan(t, from, n) /\ Known(t, k)
<1> DEFINE x == Section(e, size)
           t == s \o x
           k == IF e = 0 THEN m ELSE e
<1>1. /\ x \in Seq(Tokens) /\ Len(x) = size + 2 /\ Len(s) \in Nat
      /\ \A j \in 1..size + 2 : x[j][1] = e /\ x[j][2] = j
  <2>1. size \in Nat /\ Len(s) \in Nat
    OBVIOUS
  <2>2. /\ x \in Seq(Tokens) /\ Len(x) = size + 2
        /\ \A j \in 1..size + 2 : x[j] = <<e, j>>
    BY <2>1, SectionIs
  <2> HIDE DEF x
  <2> QED BY <2>1, <2>2
<1> HIDE DEF x
<1>2. /\ Len(t) = Len(s) + (size + 2)
      /\ \A i \in 1..Len(s) : t[i] = s[i] /\ s[i] \in Tokens
      /\ \A j \in 1..size + 2 : t[Len(s) + j] = x[j]
  <2>1. 1..Len(x) = 1..size + 2 /\ \A i \in 1..Len(s) : s[i] \in Tokens
    BY <1>1
  <2>2. /\ Len(t) = Len(s) + Len(x)
        /\ \A i \in 1..Len(s) : t[i] = s[i]
        /\ \A j \in 1..Len(x) : t[Len(s) + j] = x[j]
    BY <1>1, ConcatIs
  <2> HIDE DEF t
  <2> QED BY <1>1, <2>1, <2>2
<1> HIDE DEF t
<1>3. ASSUME NEW i \in 1..Len(t), ~ (i <= Len(s))
      PROVE  t[i][1] = e /\ t[i][2] = i - Len(s)
  <2>1. i - Len(s) \in 1..size + 2 /\ i = Len(s) + (i - Len(s))
    BY <1>1, <1>2, <1>3
  <2> QED BY <1>1, <1>2, <2>1
<1>4. ASSUME NEW i \in 1..Len(t), i <= Len(s)
      PROVE  i \in 1..Len(s) /\ t[i] = s[i] /\ t[i][1] \in Nat /\ t[i][1] <= m
  <2>1. i \in 1..Len(s)
    BY <1>1, <1>4
  <2>2. s[i][1] \in Nat /\ s[i][1] <= m
    BY <1>2, <2>1 DEF Known, Tokens
  <2> QED BY <1>2, <2>1, <2>2
<1>5. ASSUME NEW i \in 1..Len(t), NEW j \in 1..Len(t), i < j,
             EndsAt(t, i), EndsAt(t, j)
      PROVE  t[i][1] < t[j][1]
  <2>1. CASE j <= Len(s)
    <3>1. i <= Len(s)
      BY <1>1, <1>2, <1>5, <2>1
    <3> QED BY <1>4, <1>5, <2>1, <3>1 DEF Ordered, EndsAt
  <2>2. CASE ~ (j <= Len(s)) /\ i <= Len(s)
    <3>1. t[j][1] = m + 1
      BY <1>3, <1>5, <2>2 DEF EndsAt
    <3> QED BY <1>4, <2>2, <3>1
  <2>3. CASE ~ (j <= Len(s)) /\ ~ (i <= Len(s))
    <3>1. i - Len(s) = 4 /\ j - Len(s) = 4
      BY <1>3, <1>5, <2>3 DEF EndsAt
    <3> QED BY <1>1, <1>5, <3>1
  <2> QED BY <2>1, <2>2, <2>3
<1>6. ASSUME NEW i \in 1..Len(t), EndsAt(t, i), t[i][1] > from
      PROVE  t[i][1] > n
  <2>1. CASE i <= Len(s)
    BY <1>4, <1>6, <2>1 DEF NewerThan, EndsAt
  <2>2. CASE ~ (i <= Len(s))
    BY <1>3, <1>6, <2>2 DEF EndsAt
  <2> QED BY <2>1, <2>2
<1>7. ASSUME NEW i \in 1..Len(t) PROVE t[i][1] <= k
  BY <1>3, <1>4, <1>7
<1> HIDE DEF k
<1>8. Ordered(t) /\ NewerThan(t, from, n) /\ Known(t, k)
  BY <1>5, <1>6, <1>7 DEF Ordered, NewerThan, Known
<1> QED BY <1>8 DEF t, x, k

\* Concatenation is associative, of tokens.
LEMMA ConcatThree ==
    ASSUME NEW a \in Seq(Tokens), NEW b \in Seq(Tokens), NEW c \in Seq(Tokens)
    PROVE  a \o (b \o c) = (a \o b) \o c
BY ConcatAssociative, SMTT(30)

\* The terminal sends one more section.
LEMMA AppendSound ==
    ASSUME NEW d, NEW b, NEW w, NEW from, NEW n \in Nat, NEW m \in Nat, n <= m,
           Sound(d, b, w, from, n, m),
           NEW e \in Nat, NEW size \in Nat \ {0}, e \in {0, m + 1},
           e # 0 => size = 2
    PROVE  Sound(d, b, w \o Section(e, size), from, n,
                 IF e = 0 THEN m ELSE e)
<1> DEFINE x == Section(e, size)
<1>1. x \in Seq(Tokens)
  BY SectionIs
<1>2. d \in Seq(Tokens) /\ b \in Seq(Tokens) /\ w \in Seq(Tokens)
  BY DEF Sound
<1>3. b \o w \in Seq(Tokens) /\ d \o (b \o w) \in Seq(Tokens)
      /\ w \o x \in Seq(Tokens)
  BY <1>1, <1>2, ConcatProperties
<1>4. /\ b \o (w \o x) = (b \o w) \o x
      /\ d \o (b \o (w \o x)) = (d \o (b \o w)) \o x
  <2> HIDE DEF x
  <2> DEFINE z == b \o w
  <2>1. b \o (w \o x) = (b \o w) \o x
    BY <1>1, <1>2, ConcatThree, SMTT(30)
  <2>2. d \o (z \o x) = (d \o z) \o x
    <3>1. z \in Seq(Tokens)
      BY <1>3
    <3> HIDE DEF z
    <3>2. d \in Seq(Tokens) /\ x \in Seq(Tokens)
      BY <1>1, <1>2
    <3> QED BY <3>1, <3>2, ConcatThree
  <2> QED BY <2>1, <2>2
<1>5. Framed((b \o w) \o x)
  BY <1>3, AppendFramed DEF Sound
<1>6. LET t == (d \o (b \o w)) \o x
          k == IF e = 0 THEN m ELSE e
      IN  Ordered(t) /\ NewerThan(t, from, n) /\ Known(t, k)
  BY <1>3, AppendOrdered DEF Sound
<1>7. Delimiters(b) = {}
  BY DEF Sound
<1> HIDE DEF x
<1>8. Sound(d, b, w \o x, from, n, IF e = 0 THEN m ELSE e)
  BY <1>2, <1>3, <1>4, <1>5, <1>6, <1>7 DEF Sound
<1> QED BY <1>8 DEF x

\* Taking from the front commutes with appending.
LEMMA SuffixConcat ==
    ASSUME NEW s \in Seq(Tokens), NEW t \in Seq(Tokens), NEW d, Suffix(t, s, d),
           NEW r \in Seq(Tokens)
    PROVE  Suffix(t \o r, s \o r, d)
<1> DEFINE a == t \o r
           b == s \o r
<1>1. /\ Len(a) = Len(t) + Len(r) /\ Len(b) = Len(s) + Len(r)
      /\ Len(t) \in Nat /\ Len(s) \in Nat /\ Len(r) \in Nat
      /\ \A i \in 1..Len(t) : a[i] = t[i]
      /\ \A i \in 1..Len(r) : a[Len(t) + i] = r[i]
      /\ \A i \in 1..Len(s) : b[i] = s[i]
      /\ \A i \in 1..Len(r) : b[Len(s) + i] = r[i]
  BY ConcatIs
<1>2. /\ d \in Nat /\ Len(s) = d + Len(t)
      /\ \A i \in 1..Len(t) : t[i] = s[d + i]
  BY DEF Suffix
<1> HIDE DEF a, b
<1>3. ASSUME NEW i \in 1..Len(a) PROVE a[i] = b[d + i]
  <2>1. CASE i <= Len(t)
    <3>1. i \in 1..Len(t) /\ d + i \in 1..Len(s)
      BY <1>1, <1>2, <2>1
    <3> QED BY <1>1, <1>2, <3>1
  <2>2. CASE ~ (i <= Len(t))
    <3> DEFINE j == i - Len(t)
    <3>1. j \in 1..Len(r) /\ i = Len(t) + j /\ d + i = Len(s) + j
      BY <1>1, <1>2, <2>2
    <3> HIDE DEF j
    <3> QED BY <1>1, <3>1
  <2> QED BY <2>1, <2>2
<1>4. Len(b) = d + Len(a)
  BY <1>1, <1>2
<1>5. Suffix(a, b, d)
  BY <1>2, <1>3, <1>4 DEF Suffix
<1> QED BY <1>5 DEF a, b

\* What is read, cut off or dispatched leaves the rest as it was.
LEMMA SuffixSound ==
    ASSUME NEW d, NEW b, NEW w, NEW from, NEW n, NEW m,
           Sound(d, b, w, from, n, m),
           NEW x \in Seq(Tokens), NEW y \in Seq(Tokens), NEW z \in Seq(Tokens),
           Delimiters(y) = {},
           NEW j, Suffix(y \o z, b \o w, j),
           NEW k, Suffix(x \o (y \o z), d \o (b \o w), k)
    PROVE  Sound(x, y, z, from, n, m)
<1>1. d \in Seq(Tokens) /\ b \in Seq(Tokens) /\ w \in Seq(Tokens)
  BY DEF Sound
<1>2. /\ b \o w \in Seq(Tokens) /\ y \o z \in Seq(Tokens)
      /\ d \o (b \o w) \in Seq(Tokens) /\ x \o (y \o z) \in Seq(Tokens)
  BY <1>1, ConcatProperties
<1>3. Framed(y \o z)
  BY <1>2, SuffixKeeps DEF Sound
<1>4. /\ Ordered(x \o (y \o z)) /\ NewerThan(x \o (y \o z), from, n)
      /\ Known(x \o (y \o z), m)
  BY <1>2, SuffixKeeps DEF Sound
<1> QED BY <1>3, <1>4 DEF Sound

\* A closed stream holds nothing.
LEMMA SoundEmpty ==
    ASSUME NEW from, NEW n, NEW m
    PROVE  Sound(<<>>, <<>>, <<>>, from, n, m)
<1>1. /\ <<>> \in Seq(Tokens) /\ <<>> \o <<>> = <<>> /\ Len(<<>>) = 0
  OBVIOUS
<1>2. /\ Framed(<<>>) /\ Ordered(<<>>) /\ NewerThan(<<>>, from, n)
      /\ Known(<<>>, m) /\ Delimiters(<<>>) = {}
  BY <1>1 DEF Framed, Ordered, NewerThan, Known, Delimiters
<1> QED BY <1>1, <1>2 DEF Sound

\* A stream that has just been opened holds the log and no news.
LEMMA ReplaySound ==
    ASSUME NEW n \in Nat, NEW m
    PROVE  Sound(<<>>, <<>>, Replay(n), n, m, n)
<1> DEFINE r == Replay(n)
<1>1. /\ r \in Seq(Tokens) /\ Framed(r) /\ Ordered(r) /\ Known(r, n)
  BY ReplayFramed DEF Known
<1>2. NewerThan(r, n, m)
  <2>1. ASSUME NEW i \in 1..Len(r) PROVE r[i][1] \in Nat /\ r[i][1] <= n
    BY <1>1 DEF Known, Tokens
  <2> HIDE DEF r
  <2> QED BY <2>1 DEF NewerThan
<1> HIDE DEF r
<1>3. <<>> \in Seq(Tokens) /\ <<>> \o (<<>> \o r) = r /\ <<>> \o r = r
  BY <1>1, ConcatEmptySeq
<1>4. Delimiters(<<>>) = {}
  BY DEF Delimiters
<1>5. Sound(<<>>, <<>>, r, n, m, n)
  BY <1>1, <1>2, <1>3, <1>4 DEF Sound
<1> QED BY <1>5 DEF r

\* How much of the split bytes is dispatched at once.
LEMMA DispatchIs ==
    ASSUME NEW s \in Seq(Tokens)
    PROVE  /\ Dispatch(s) \in Seq(Tokens)
           /\ Dispatch(s) = s \/ (Dispatch(s) = <<>> /\ News(s) = {})
BY DEF Dispatch

\* A chunk is read and split.
LEMMA ReadSound ==
    ASSUME Sound(todo, buffer, wire, base, latest, emitted), Read
    PROVE  Sound(todo', buffer', wire', base, latest, emitted)
<1> DEFINE r == buffer \o wire
           u == buffer' \o wire'
<1>1. buffer \in Seq(Tokens) /\ wire \in Seq(Tokens) /\ todo = <<>>
  BY DEF Sound, Read
<1>2. PICK n, c, d \in Nat, bytes \in Seq(Tokens) : ReadOf(n, c, d, bytes)
  BY <1>1, ReadSplits
<1> DEFINE a == Complete(bytes)
<1>3. /\ c + Len(bytes) = Len(buffer) + n /\ n <= Len(wire)
      /\ \A i \in 1..Len(bytes) : bytes[i] = r[c + i]
      /\ d \in 0..Len(bytes)
      /\ todo' = Dispatch(a) /\ a \in Seq(Tokens) /\ Len(a) = d
      /\ \A i \in 1..d : a[i] = bytes[i]
      /\ u \in Seq(Tokens) /\ Suffix(u, r, c + d)
      /\ buffer' \in Seq(Tokens) /\ wire' \in Seq(Tokens)
      /\ Delimiters(buffer') = {}
  BY <1>2 DEF ReadOf
<1>4. r \in Seq(Tokens) /\ todo \o r = r
  BY <1>1, ConcatProperties, ConcatEmptySeq
<1> HIDE DEF r, u, a
<1>5. Suffix(a \o u, r, c)
  <2> DEFINE v == a \o u
  <2>1. /\ Len(v) = d + Len(u) /\ Len(u) \in Nat /\ Len(bytes) \in Nat
        /\ \A i \in 1..d : v[i] = a[i]
        /\ \A i \in 1..Len(u) : v[d + i] = u[i]
    <3>1. a \in Seq(Tokens) /\ u \in Seq(Tokens) /\ Len(a) = d
      BY <1>3
    <3>2. /\ Len(v) = Len(a) + Len(u) /\ Len(u) \in Nat
          /\ \A i \in 1..Len(a) : v[i] = a[i]
          /\ \A i \in 1..Len(u) : v[Len(a) + i] = u[i]
      BY <3>1, ConcatIs
    <3> HIDE DEF v
    <3> QED BY <3>1, <3>2
  <2>2. /\ Len(r) = (c + d) + Len(u)
        /\ \A i \in 1..Len(u) : u[i] = r[(c + d) + i]
    BY <1>3 DEF Suffix
  <2> HIDE DEF v
  <2>3. Len(r) = c + Len(v)
    BY <2>1, <2>2
  <2>4. ASSUME NEW i \in 1..Len(v) PROVE v[i] = r[c + i]
    <3>1. CASE i <= d
      <4>1. i \in 1..d /\ i \in 1..Len(bytes)
        BY <1>3, <2>1, <3>1
      <4> QED BY <1>3, <2>1, <4>1
    <3>2. CASE ~ (i <= d)
      <4> DEFINE j == i - d
      <4>1. j \in 1..Len(u) /\ i = d + j /\ (c + d) + j = c + i
        BY <2>1, <3>2
      <4> HIDE DEF j
      <4> QED BY <2>1, <2>2, <4>1
    <3> QED BY <3>1, <3>2
  <2>5. Suffix(v, r, c)
    BY <2>3, <2>4 DEF Suffix
  <2> QED BY <2>5 DEF v
<1>6. todo' \in Seq(Tokens) /\ (todo' = a \/ todo' = <<>>)
  BY <1>3, DispatchIs
<1>7. \E k : Suffix(todo' \o u, todo \o r, k)
  <2>1. CASE todo' = a
    BY <1>4, <1>5, <2>1
  <2>2. CASE todo' = <<>>
    <3>1. todo' \o u = u
      BY <1>3, <2>2, ConcatEmptySeq
    <3> QED BY <1>3, <1>4, <3>1
  <2> QED BY <1>6, <2>1, <2>2
<1>8. PICK k : Suffix(todo' \o u, todo \o r, k)
  BY <1>7
<1>9. /\ Suffix(buffer' \o wire', buffer \o wire, c + d)
      /\ Suffix(todo' \o (buffer' \o wire'), todo \o (buffer \o wire), k)
  BY <1>3, <1>8 DEF u, r
<1> QED BY <1>3, <1>6, <1>9, SuffixSound

\* event_listener.py:124: no news is lost by that, whichever token the chunk
\* ends with, also when the buffer is trimmed: no body is cut off.
LEMMA ReadKeeps ==
    ASSUME Sound(todo, buffer, wire, base, latest, emitted), Read,
           base \in Nat, NEW e \in Nat, IsLive(e), Holds(buffer \o wire, e)
    PROVE  Holds(todo', e) \/ Holds(buffer' \o wire', e)
<1> DEFINE r == buffer \o wire
           u == buffer' \o wire'
<1>1. /\ buffer \in Seq(Tokens) /\ wire \in Seq(Tokens)
      /\ Delimiters(buffer) = {} /\ Framed(r)
  BY DEF Sound
<1>2. PICK n, c, d \in Nat, bytes \in Seq(Tokens) : ReadOf(n, c, d, bytes)
  BY <1>1, ReadSplits
<1> DEFINE a == Complete(bytes)
<1>3. /\ n \in 1..MaxChunk /\ n <= Len(wire)
      /\ c = 0 \/ c = Len(buffer) + n - MaxBuffer
      /\ c + Len(bytes) = Len(buffer) + n
      /\ \A i \in 1..Len(bytes) : bytes[i] = r[c + i]
      /\ d \in 0..Len(bytes) /\ (d # 0 => bytes[d][2] = 2)
      /\ todo' = Dispatch(a) /\ Len(a) = d
      /\ \A i \in 1..d : a[i] = bytes[i]
      /\ u \in Seq(Tokens) /\ Suffix(u, r, c + d)
  BY <1>2 DEF ReadOf
<1>4. PICK p \in 2..Len(r) : r[p - 1] = <<e, 3>> /\ r[p] = <<e, 4>>
  BY DEF Holds
<1>5. /\ Len(r) = Len(buffer) + Len(wire)
      /\ Len(buffer) \in Nat /\ Len(wire) \in Nat /\ Len(bytes) \in Nat
      /\ \A i \in 1..Len(buffer) : r[i] = buffer[i]
  BY <1>1, ConcatIs
<1>6. e # 0
  BY DEF IsLive
<1> HIDE DEF r, u
\* The body is in the part of the buffer that is kept.
<1>7. Len(buffer) <= p + 1
  <2> SUFFICES ASSUME ~ (Len(buffer) <= p + 1) PROVE FALSE
    OBVIOUS
  <2>1. /\ p \in 1..Len(r) - 1 /\ p + 1 \in 1..Len(r) - 1
        /\ p + 1 \in 1..Len(buffer) /\ p + 2 \in 2..Len(buffer)
        /\ p + 2 \in 1..Len(buffer)
        /\ (p + 1) + 1 = p + 2 /\ (p + 2) - 1 = p + 1
    BY <1>4, <1>5
  <2>2. r[p + 1][2] = 1
    BY <1>1, <1>4, <1>6, <2>1, SMTT(30) DEF Framed
  <2>3. r[p + 2][2] = 2
    BY <1>1, <2>1, <2>2 DEF Framed
  <2>4. buffer[(p + 2) - 1][2] = 1 /\ buffer[p + 2][2] = 2
    BY <1>5, <2>1, <2>2, <2>3
  <2>5. p + 2 \in Delimiters(buffer)
    BY <2>1, <2>4 DEF Delimiters
  <2> QED BY <1>1, <2>5
<1>8. c + 2 <= p
  <2>1. /\ MaxChunk \in Nat /\ MaxBuffer \in Nat
        /\ MaxBuffer >= MaxChunk + 3
    BY ListenerAssumption, BufferAssumption
  <2>2. n <= MaxChunk /\ n \in Nat /\ p >= 2 /\ p \in Nat
    BY <1>3, <1>4, <1>5, <2>1
  <2>3. CASE c = 0
    BY <2>2, <2>3
  <2>4. CASE c = Len(buffer) + n - MaxBuffer
    BY <1>5, <1>7, <2>1, <2>2, <2>4
  <2> QED BY <1>3, <2>3, <2>4
<1> DEFINE q == p - c
<1>9. q \in Nat /\ q >= 2 /\ p = c + q /\ p - 1 = c + (q - 1)
  BY <1>4, <1>5, <1>8
<1> HIDE DEF q
<1>10. CASE q <= d
  <2>1. q \in 2..d /\ q - 1 \in 1..d /\ q \in 1..d
    BY <1>9, <1>10
  <2>2. q \in 1..Len(bytes) /\ q - 1 \in 1..Len(bytes)
    BY <1>3, <1>5, <2>1, SMTT(30)
  <2>3. a[q] = <<e, 4>> /\ a[q - 1] = <<e, 3>>
    BY <1>3, <1>4, <1>9, <2>1, <2>2
  <2>4. q \in News(a)
    <3>1. q \in 2..Len(a)
      BY <1>3, <2>1
    <3>2. a[q - 1][2] = 3 /\ a[q][2] = 4 /\ a[q][1] = e
      BY <2>3
    <3> HIDE DEF a
    <3> QED BY <3>1, <3>2 DEF News
  <2>5. todo' = a
    BY <1>3, <2>4 DEF Dispatch
  <2>6. Holds(a, e)
    BY <1>3, <2>1, <2>3 DEF Holds
  <2> QED BY <2>5, <2>6
<1>11. CASE q = d + 1
  <2>1. d # 0 /\ q - 1 = d /\ d \in 1..Len(bytes)
    BY <1>3, <1>5, <1>9, <1>11
  <2>2. bytes[d] = <<e, 3>>
    BY <1>3, <1>4, <1>9, <2>1
  <2> QED BY <1>3, <2>1, <2>2
<1>12. CASE q >= d + 2
  <2> DEFINE j == q - d
  <2>1. /\ Len(r) = (c + d) + Len(u) /\ Len(u) \in Nat
        /\ \A i \in 1..Len(u) : u[i] = r[(c + d) + i]
    BY <1>3 DEF Suffix
  <2>2. /\ j \in 2..Len(u) /\ j \in 1..Len(u) /\ j - 1 \in 1..Len(u)
        /\ (c + d) + j = p /\ (c + d) + (j - 1) = p - 1
    <3>1. d \in Nat /\ c \in Nat /\ p \in Nat /\ p <= Len(r)
      BY <1>3, <1>4, <1>5
    <3>2. /\ j \in Nat /\ j >= 2 /\ (c + d) + j = p
          /\ (c + d) + (j - 1) = p - 1
      BY <1>9, <1>12, <3>1
    <3> HIDE DEF j
    <3>3. j <= Len(u)
      BY <2>1, <3>1, <3>2
    <3> QED BY <2>1, <3>2, <3>3, SMTT(30)
  <2> HIDE DEF j
  <2>3. u[j] = <<e, 4>> /\ u[j - 1] = <<e, 3>>
    BY <1>4, <2>1, <2>2
  <2>4. Holds(u, e)
    BY <2>2, <2>3 DEF Holds
  <2> QED BY <2>4 DEF u
<1> QED BY <1>9, <1>10, <1>11, <1>12

-----------------------------------------------------------------------------
(* The live events.                                                        *)

\* The next live event is newer than all that were handled before, and older
\* than all that follow.
LEMMA HandleSound ==
    ASSUME Sound(todo, buffer, wire, base, latest, emitted), base \in Nat,
           NEW i \in News(todo),
           todo' = Dispatch(SubSeq(todo, i + 1, Len(todo)))
    PROVE  /\ todo[i][1] \in Nat /\ todo[i][1] > latest
           /\ todo[i][1] <= emitted
           /\ Sound(todo', buffer, wire, base, todo[i][1], emitted)
           /\ Sound(todo', buffer, wire, base, latest, emitted)
<1> DEFINE r == buffer \o wire
           s == todo \o r
           rest == SubSeq(todo, i + 1, Len(todo))
           m == todo[i][1]
<1>1. /\ todo \in Seq(Tokens) /\ buffer \in Seq(Tokens) /\ wire \in Seq(Tokens)
      /\ Delimiters(buffer) = {}
      /\ Ordered(s) /\ NewerThan(s, base, latest) /\ Known(s, emitted)
  BY DEF Sound
<1>2. /\ i \in 2..Len(todo) /\ todo[i][2] = 4 /\ todo[i][1] > base
      /\ Len(todo) \in Nat
  BY <1>1 DEF News, IsLive
<1>3. r \in Seq(Tokens) /\ s \in Seq(Tokens)
  BY <1>1, ConcatProperties
<1> HIDE DEF r
<1>4. /\ Len(s) = Len(todo) + Len(r) /\ Len(r) \in Nat
      /\ \A j \in 1..Len(todo) : s[j] = todo[j]
  BY <1>1, <1>3, ConcatIs
<1> HIDE DEF s
<1>5. /\ i \in 1..Len(todo) /\ i \in 1..Len(s) /\ s[i] = todo[i]
      /\ m \in Nat /\ m # 0 /\ EndsAt(s, i)
  <2>1. i \in 1..Len(todo) /\ i \in 1..Len(s) /\ s[i] = todo[i]
    BY <1>2, <1>4
  <2>2. todo[i] \in Tokens
    BY <1>1, <2>1
  <2>3. m \in Nat /\ m # 0
    BY <1>2, <2>2 DEF Tokens
  <2> QED BY <1>2, <2>1, <2>3 DEF EndsAt
<1>6. m > latest /\ m <= emitted
  BY <1>1, <1>2, <1>5 DEF NewerThan, Known
<1>7. /\ rest \in Seq(Tokens) /\ Suffix(rest, todo, i)
  <2>0. todo \in Seq(Tokens) /\ i \in 2..Len(todo) /\ Len(todo) \in Nat
    BY <1>1, <1>2
  <2>1. /\ rest \in Seq(Tokens) /\ Len(rest) = Len(todo) - i
        /\ \A j \in 1..Len(rest) : rest[j] = todo[i + j]
    BY <2>0
  <2> HIDE DEF rest
  <2> QED BY <1>2, <2>1 DEF Suffix
<1>8. <<>> \in Seq(Tokens) /\ Suffix(<<>>, todo, Len(todo))
  BY <1>2 DEF Suffix
<1>9. todo' \in Seq(Tokens) /\ \E k \in i..Len(todo) : Suffix(todo', todo, k)
  <2>1. todo' = rest \/ todo' = <<>>
    BY <1>7, DispatchIs
  <2>2. i \in i..Len(todo) /\ Len(todo) \in i..Len(todo)
    BY <1>2
  <2> HIDE DEF rest
  <2> QED BY <1>7, <1>8, <2>1, <2>2
<1> HIDE DEF rest
<1>10. PICK k \in i..Len(todo) : Suffix(todo', todo, k)
  BY <1>9
<1> DEFINE t == todo' \o r
<1>11. t \in Seq(Tokens) /\ Suffix(t, s, k)
  BY <1>1, <1>3, <1>9, <1>10, SuffixConcat, ConcatProperties DEF s
<1>12. Suffix(r, r, 0)
  BY <1>4 DEF Suffix
<1>13. Sound(todo', buffer, wire, base, latest, emitted)
  <2>1. /\ Suffix(buffer \o wire, buffer \o wire, 0)
        /\ Suffix(todo' \o (buffer \o wire), todo \o (buffer \o wire), k)
    BY <1>11, <1>12 DEF r, s
  <2> QED BY <1>1, <1>9, <2>1, SuffixSound
<1> HIDE DEF t
<1>14. NewerThan(t, base, m)
  <2>1. ASSUME NEW j \in 1..Len(t), EndsAt(t, j) PROVE t[j][1] > m
    <3>1. /\ t[j] = s[k + j] /\ k + j \in 1..Len(s) /\ i < k + j
      BY <1>2, <1>3, <1>4, <1>5, <1>10, <1>11, SMTT(30) DEF Suffix
    <3>2. EndsAt(s, k + j)
      BY <2>1, <3>1 DEF EndsAt
    <3>3. s[i][1] < s[k + j][1]
      BY <1>1, <1>5, <3>1, <3>2 DEF Ordered
    <3>4. s[k + j][1] \in Nat
      BY <1>3, <3>1, SMTT(30) DEF Tokens
    <3> QED BY <1>5, <3>1, <3>3, <3>4
  <2> QED BY <2>1 DEF NewerThan
<1>15. Sound(todo', buffer, wire, base, m, emitted)
  BY <1>13, <1>14 DEF Sound, t, r
<1> HIDE DEF m
<1>16. m \in Nat /\ m > latest /\ m <= emitted
  BY <1>5, <1>6
<1> QED BY <1>13, <1>15, <1>16 DEF m

\* The sections behind the one that was handled are still to be dispatched.
LEMMA HandleKeeps ==
    ASSUME todo \in Seq(Tokens), NEW i \in News(todo), Proceed(i),
           NEW e, IsLive(e), Holds(todo, e)
    PROVE  e = todo[i][1] \/ Holds(todo', e)
<1> DEFINE rest == SubSeq(todo, i + 1, Len(todo))
<1>1. PICK p \in 2..Len(todo) : todo[p - 1] = <<e, 3>> /\ todo[p] = <<e, 4>>
  BY DEF Holds
<1>2. /\ i \in 2..Len(todo) /\ todo[i - 1][2] = 3 /\ todo[i][2] = 4
      /\ Len(todo) \in Nat
  BY DEF News
<1>3. p \in News(todo)
  BY <1>1 DEF News
<1>4. i <= p /\ todo' = Dispatch(rest)
  BY <1>3 DEF Proceed
<1>5. CASE i = p
  BY <1>1, <1>5
<1>6. CASE i # p
  <2>1. p - 1 # i
    BY <1>1, <1>2
  <2> DEFINE q == p - i
  <2>2. /\ i \in Nat /\ p \in Nat /\ p <= Len(todo)
    BY <1>1, <1>2
  <2>3. q \in Nat /\ q >= 2 /\ i + q = p /\ i + (q - 1) = p - 1
    BY <1>4, <1>6, <2>1, <2>2
  <2> HIDE DEF q
  <2>4. /\ rest \in Seq(Tokens) /\ Len(rest) = Len(todo) - i
        /\ \A j \in 1..Len(rest) : rest[j] = todo[i + j]
    BY <1>2
  <2>5. /\ q \in 2..Len(rest) /\ q \in 1..Len(rest) /\ q - 1 \in 1..Len(rest)
    BY <1>2, <2>2, <2>3, <2>4
  <2> HIDE DEF rest
  <2>6. rest[q] = <<e, 4>> /\ rest[q - 1] = <<e, 3>>
    BY <1>1, <2>3, <2>4, <2>5
  <2>7. q \in News(rest)
    BY <2>5, <2>6 DEF News
  <2>8. todo' = rest
    BY <1>4, <2>7 DEF Dispatch
  <2>9. Holds(rest, e)
    BY <2>5, <2>6 DEF Holds
  <2> QED BY <2>8, <2>9
<1> QED BY <1>5, <1>6

-----------------------------------------------------------------------------
(* The pauses.                                                             *)

\* Why BackSoon is inductive: a terminal that serves waits only as long as the
\* task sleeps, and the task began to sleep before.
Waiting ==
    /\ mood # "serves" => waited = 0
    /\ pc \in {"off", "reading"} => waited = 0
    /\ pc = "sleeping" => \E p \in Pauses : waited + nap <= p

WaitInv == TypeOK /\ Waiting /\ BackSoon

\* Every delay the code can choose is one of the pauses.
LEMMA PausesAreNatural ==
    /\ Pauses \subseteq Nat /\ BusyWait \in Pauses /\ LockWait \in Pauses
    /\ CrashWait \in Pauses
    /\ \A a \in 0..Len(Backoff) :
          Backoff[IF a < Len(Backoff) THEN a + 1 ELSE Len(Backoff)] \in Pauses
<1>1. \A i \in 1..Len(Backoff) : Backoff[i] \in Range(Backoff)
  BY ListenerAssumption DEF Range
<1> QED BY <1>1, ListenerAssumption DEF Pauses, Range

\* The listener starts off, with no pause to wait for.
LEMMA InitWait == Init => WaitInv
<1>1. Len(Backoff) \in Nat /\ BusyWait \in Nat /\ BusyWait \in Pauses
  BY ListenerAssumption, PausesAreNatural
<1> QED
  BY <1>1, ListenerAssumption
  DEF Init, WaitInv, TypeOK, Waiting, BackSoon, Moods, NoSweep

\* A pause begins: whatever its length, it is one of the table.
LEMMA SleepWaits ==
    ASSUME WaitInv, NEW s, NEW p \in Pauses, Sleep(s, p),
           waited' = 0
    PROVE  /\ Waiting' /\ BackSoon'
           /\ pc' = "sleeping" /\ state' = s /\ nap' \in Nat
BY PausesAreNatural DEF Sleep, Waiting, BackSoon

\* No step makes the listener sleep past the longest pause.
LEMMA WaitStep == WaitInv /\ [ListenerNext]_vars => WaitInv'
<1> SUFFICES ASSUME WaitInv, [ListenerNext]_vars PROVE WaitInv'
  OBVIOUS
<1>0. TypeOK /\ Waiting /\ BackSoon
  BY DEF WaitInv
<1>a. Len(Backoff) \in Nat \ {0} /\ MaxFaults \in Nat /\ MaxFillers \in Nat
  BY ListenerAssumption
<1>b. \E p \in Pauses : 0 <= p
  BY PausesAreNatural
<1>c. Fault => faults' \in 0..MaxFaults
  BY <1>0, <1>a DEF Fault, TypeOK
<1> USE DEF device, stream, task, reading, database, sweep, Moods, NoSweep
\* Steps that leave the task and the clocks alone.
<1>1. ASSUME UNCHANGED <<task, waited, mood>>,
             emitted' \in 0..LastEvent, emitted <= emitted',
             fillers' \in 0..MaxFillers, UNCHANGED base,
             expired' \in 0..emitted',
             sweepFrom' \in NoSweep..LastEvent + 1, sweepTo' \in 0..emitted',
             overlooked' \in 0..1,
             faults' \in 0..MaxFaults
      PROVE  WaitInv'
  <2>1. TypeOK'
    BY <1>0, <1>1 DEF TypeOK
  <2>2. Waiting' /\ BackSoon'
    BY <1>0, <1>1 DEF Waiting, BackSoon
  <2> QED BY <2>1, <2>2 DEF WaitInv
<1>2. CASE Emit
  <2>1. emitted' \in 0..LastEvent /\ emitted <= emitted'
    BY <1>0, <1>2, ListenerAssumption DEF Emit, TypeOK
  <2>2. sweepTo \in 0..emitted' /\ expired \in 0..emitted'
    BY <1>0, <2>1 DEF TypeOK
  <2>3. UNCHANGED <<expired, mood, fillers, base, task, waited, sweep, faults>>
    BY <1>2 DEF Emit
  <2> QED BY <1>0, <1>1, <2>1, <2>2, <2>3 DEF TypeOK
<1>25. CASE Expire
  <2>1. expired' \in 0..emitted
    BY <1>0, <1>25 DEF Expire, TypeOK
  <2>2. UNCHANGED <<emitted, mood, fillers, base, task, waited, sweep, faults>>
    BY <1>25 DEF Expire
  <2> QED BY <1>0, <1>1, <2>1, <2>2 DEF TypeOK
<1>3. CASE EmitFiller
  <2>1. fillers' \in 0..MaxFillers
    BY <1>0, <1>3, <1>a DEF EmitFiller, TypeOK
  <2>2. UNCHANGED <<device, base, task, waited, sweep, faults>>
    BY <1>3 DEF EmitFiller
  <2> QED BY <1>0, <1>1, <2>1, <2>2 DEF TypeOK
<1>4. CASE ChangeMood
  <2>1. TypeOK' /\ waited' = 0 /\ UNCHANGED <<pc, nap>>
    BY <1>0, <1>4, <1>c DEF ChangeMood, TypeOK
  <2>2. pc = "sleeping" => \E p \in Pauses : 0 + nap <= p
    BY <1>0, PausesAreNatural DEF TypeOK, Waiting
  <2> QED BY <1>b, <2>1, <2>2 DEF WaitInv, Waiting, BackSoon
<1>5. CASE Start
  <2>1. TypeOK' /\ waited' = 0 /\ pc' = "opening"
    BY <1>0, <1>5, <1>a DEF Start, Reopen, TypeOK, Waiting
  <2> QED BY <1>b, <2>1 DEF WaitInv, Waiting, BackSoon
<1>6. ASSUME Halt, mood' \in Moods, faults' \in 0..MaxFaults PROVE WaitInv'
  <2>1. TypeOK' /\ waited' = 0 /\ pc' = "off"
    BY <1>0, <1>6, <1>a, ListenerAssumption DEF Halt, Closed, TypeOK
  <2> QED BY <1>b, <2>1 DEF WaitInv, Waiting, BackSoon
<1>7. CASE Stop
  BY <1>0, <1>6, <1>7, <1>c DEF Stop, TypeOK
<1>8. CASE NewCredentials
  BY <1>0, <1>6, <1>8 DEF NewCredentials, TypeOK
<1>9. CASE Connect
  <2>1. TypeOK' /\ waited' = 0 /\ pc' = "reading"
    BY <1>0, <1>9, ListenerAssumption DEF Connect, SweepBegins, TypeOK
  <2> QED BY <1>b, <2>1 DEF WaitInv, Waiting, BackSoon
\* Steps after which the task sleeps.
<1>10. ASSUME NEW s \in {state, "degraded"}, NEW p \in Pauses, Sleep(s, p),
              waited' = 0, UNCHANGED <<device, sweep>>,
              fillers' \in 0..MaxFillers, base' \in 0..emitted,
              attempt' \in 0..Len(Backoff), faults' \in 0..MaxFaults
       PROVE  WaitInv'
  <2>1. /\ Waiting' /\ BackSoon'
        /\ pc' = "sleeping" /\ state' = s /\ nap' \in Nat
    BY <1>10, SleepWaits
  <2>2. TypeOK'
    BY <1>0, <1>10, <2>1 DEF TypeOK
  <2> QED BY <2>1, <2>2 DEF WaitInv
<1>11. CASE Busy \/ LockedOut
  <2>1. waited = 0
    BY <1>0, <1>11 DEF Busy, LockedOut, Waiting
  <2> QED
    BY <1>0, <1>10, <1>11, <2>1, PausesAreNatural DEF Busy, LockedOut, TypeOK
<1>12. ASSUME BackOff
       PROVE  /\ Delay \in Pauses /\ Sleep(state, Delay)
              /\ attempt' \in 0..Len(Backoff)
  <2>1. Delay \in Pauses
    BY <1>0, PausesAreNatural DEF Delay, TypeOK
  <2> QED BY <1>0, <1>12, <1>a, <2>1 DEF BackOff, TypeOK
<1>13. CASE OpenFails
  <2>1. waited = 0
    BY <1>0, <1>13 DEF OpenFails, Waiting
  <2>2. BackOff
    BY <1>13 DEF OpenFails
  <2> QED BY <1>0, <1>10, <1>12, <1>13, <2>1, <2>2 DEF OpenFails, TypeOK
<1>14. CASE Tick
  <2>1. PICK p \in Pauses : waited + nap <= p
    BY <1>0, <1>14 DEF Tick, Waiting
  <2>2. /\ nap' \in Nat /\ waited' \in Nat
        /\ waited' + nap' <= p /\ waited' <= p
        /\ (mood # "serves" => waited' = 0)
    BY <1>0, <1>14, <2>1, PausesAreNatural DEF Tick, TypeOK
  <2>3. TypeOK'
    BY <1>0, <1>14, <2>2 DEF Tick, TypeOK
  <2> QED BY <1>14, <2>2, <2>3 DEF Tick, WaitInv, Waiting, BackSoon
<1>15. CASE Wake
  <2>1. TypeOK' /\ pc' = "opening" /\ UNCHANGED <<mood, waited>>
    BY <1>0, <1>15, <1>a DEF Wake, Reopen, TypeOK
  <2> QED BY <1>0, <2>1 DEF WaitInv, Waiting, BackSoon
<1>16. CASE Read
  <2>1. UNCHANGED <<device, fillers, base, task, waited, sweep, faults>>
    BY <1>16 DEF Read
  <2> QED BY <1>0, <1>1, <2>1 DEF TypeOK
<1>17. CASE HandleFails
  BY <1>0, <1>1, <1>17, <1>c DEF HandleFails, TypeOK
<1>18. CASE EndOfStream
  <2>1. TypeOK' /\ waited' = 0 /\ pc' = "opening"
    BY <1>0, <1>18, <1>a, <1>c DEF EndOfStream, Closed, Reopen, TypeOK, Waiting
  <2> QED BY <1>b, <2>1 DEF WaitInv, Waiting, BackSoon
<1>19. CASE StreamFails
  <2>1. BackOff /\ waited' = 0
    BY <1>0, <1>19 DEF StreamFails, Waiting
  <2> QED
    BY <1>0, <1>10, <1>12, <1>19, <1>a, <1>c, <2>1
    DEF StreamFails, Closed, TypeOK
<1>20. CASE StreamCrashes
  <2>1. waited' = 0
    BY <1>0, <1>20 DEF StreamCrashes, Waiting
  <2> QED
    BY <1>0, <1>10, <1>20, <1>a, <1>c, <2>1, PausesAreNatural
    DEF StreamCrashes, Closed, TypeOK
<1>21. CASE Handle
  <2>1. UNCHANGED <<device, stream, task, waited, sweep, faults>>
    BY <1>21 DEF Handle
  <2> QED BY <1>0, <1>1, <2>1 DEF TypeOK
<1>22. CASE SweepStarts \/ SweepEnds
  <2>1. /\ sweepFrom' \in {0, NoSweep} /\ sweepTo' = 0
        /\ overlooked' \in {0, overlooked}
        /\ UNCHANGED <<device, fillers, base, task, waited, faults>>
    BY <1>22 DEF SweepStarts, SweepBegins, SweepEnds
  <2>2. sweepFrom' \in NoSweep..LastEvent + 1 /\ sweepTo' \in 0..emitted
    BY <1>0, <2>1, ListenerAssumption DEF TypeOK
  <2> QED BY <1>0, <1>1, <2>1, <2>2 DEF TypeOK
<1>26. CASE SweepResumes
  <2>1. /\ emitted \in 0..LastEvent /\ expired \in 0..emitted
        /\ LastEvent \in Nat /\ SweepLimit \in Nat
    BY <1>0, ListenerAssumption DEF TypeOK
  <2>2. PICK begin \in 1..LastEvent :
          sweepFrom' = IF begin > expired THEN begin ELSE expired + 1
    BY <1>26 DEF SweepResumes
  <2>3. sweepFrom' \in 1..LastEvent + 1
    BY <2>1, <2>2
  <2>4. sweepTo' \in 0..emitted /\ overlooked' \in 0..1
    BY <1>26, <2>1, <2>3 DEF SweepResumes
  <2>5. UNCHANGED <<device, fillers, base, task, waited, faults>>
    BY <1>26 DEF SweepResumes
  <2> QED BY <1>0, <1>1, <2>3, <2>4, <2>5 DEF TypeOK
<1>27. CASE SweepStores
  <2>1. sweepFrom' \in NoSweep..LastEvent + 1
    BY <1>0, <1>27, ListenerAssumption DEF SweepStores, TypeOK
  <2>2. UNCHANGED <<device, fillers, base, task, waited, sweepTo, overlooked,
                    faults>>
    BY <1>27 DEF SweepStores
  <2> QED BY <1>0, <1>1, <2>1, <2>2 DEF TypeOK
<1>23. CASE SweepFails
  <2>1. faults' \in 0..MaxFaults
    BY <1>0, <1>23, <1>c DEF SweepFails, Unanswered, TypeOK
  <2> QED BY <1>0, <1>1, <1>23, <2>1, ListenerAssumption DEF SweepFails, TypeOK
<1>24. CASE UNCHANGED vars
  BY <1>0, <1>1, <1>24 DEF vars, TypeOK
<1> QED
  BY <1>2, <1>3, <1>4, <1>5, <1>7, <1>8, <1>9, <1>11, <1>13, <1>14, <1>15,
     <1>16, <1>17, <1>18, <1>19, <1>20, <1>21, <1>22, <1>23, <1>24, <1>25,
     <1>26, <1>27
  DEF ListenerNext, LoopNext

-----------------------------------------------------------------------------
(* The stream and the sweeps.                                              *)

\* Why NothingFallsBetween and LiveOnce are inductive: what is between the
\* terminal and async_handle is sound, and nothing is when it is not connected.
StreamInv ==
    /\ latest \in 0..emitted /\ stored \subseteq 1..emitted
    /\ Sound(todo, buffer, wire, base, latest, emitted)
    /\ ~ Connected => todo = <<>> /\ buffer = <<>> /\ wire = <<>>

\* e is stored, or a sweep will see to it, or none will.
Covered(e) == e \in stored \/ Swept(e) \/ Outrun(e)

\* e is live and in the stream, whole.
Coming(e) == IsLive(e) /\ (Holds(todo, e) \/ Holds(buffer \o wire, e))

\* What is in the stream stays in it when a section is added at the end.
LEMMA HoldsAppend ==
    ASSUME NEW s \in Seq(Tokens), NEW x \in Seq(Tokens), NEW e, Holds(s, e)
    PROVE  Holds(s \o x, e)
<1> DEFINE t == s \o x
<1>1. PICK i \in 2..Len(s) : s[i - 1] = <<e, 3>> /\ s[i] = <<e, 4>>
  BY DEF Holds
<1>2. /\ Len(t) = Len(s) + Len(x) /\ Len(s) \in Nat /\ Len(x) \in Nat
      /\ \A j \in 1..Len(s) : t[j] = s[j]
  BY ConcatIs
<1> HIDE DEF t
<1>3. i \in 2..Len(t) /\ i \in 1..Len(s) /\ i - 1 \in 1..Len(s)
  BY <1>1, <1>2
<1>4. Holds(t, e)
  BY <1>1, <1>2, <1>3 DEF Holds
<1> QED BY <1>4 DEF t

\* A new event is in the stream it was appended to.
LEMMA HoldsNew ==
    ASSUME NEW s \in Seq(Tokens), NEW e \in Nat
    PROVE  Holds(s \o Section(e, 2), e)
<1> DEFINE x == Section(e, 2)
           t == s \o x
<1>1. /\ x \in Seq(Tokens) /\ Len(x) = 4 /\ Len(s) \in Nat
      /\ \A k \in 1..4 : x[k] = <<e, k>>
  <2>1. 2 \in Nat /\ 2 + 2 = 4
    OBVIOUS
  <2>2. /\ x \in Seq(Tokens) /\ Len(x) = 2 + 2
        /\ \A k \in 1..2 + 2 : x[k] = <<e, k>>
    BY SectionIs
  <2> HIDE DEF x
  <2> QED BY <2>1, <2>2
<1> HIDE DEF x
<1>2. /\ Len(t) = Len(s) + Len(x)
      /\ \A k \in 1..Len(x) : t[Len(s) + k] = x[k]
  BY <1>1, ConcatIs
<1> HIDE DEF t
<1>3. /\ Len(s) + 4 \in 2..Len(t) /\ (Len(s) + 4) - 1 = Len(s) + 3
      /\ 3 \in 1..Len(x) /\ 4 \in 1..Len(x)
  BY <1>1, <1>2
<1>4. t[(Len(s) + 4) - 1] = <<e, 3>> /\ t[Len(s) + 4] = <<e, 4>>
  BY <1>1, <1>2, <1>3
<1>5. Holds(t, e)
  BY <1>3, <1>4 DEF Holds
<1> QED BY <1>5 DEF t, x

\* The inductive invariant of the listener.
ListenInv == WaitInv /\ StreamInv /\ NothingFallsBetween

\* There is no stream in the beginning.
LEMMA StreamInit == Init => StreamInv /\ NothingFallsBetween
<1> SUFFICES ASSUME Init PROVE StreamInv /\ NothingFallsBetween
  OBVIOUS
<1>1. /\ todo = <<>> /\ buffer = <<>> /\ wire = <<>> /\ stored = {}
      /\ latest = 0 /\ emitted \in 0..1 /\ pc = "off"
  BY DEF Init
<1>2. Sound(todo, buffer, wire, base, latest, emitted)
  BY <1>1, SoundEmpty
<1> QED BY <1>1, <1>2 DEF StreamInv, Connected, NothingFallsBetween

\* event_reconciler.py:91: where a sweep resumes it leaves out only what has
\* left the window, or is outrun; up to its limit it will read the rest.
LEMMA ResumesWell ==
    ASSUME emitted \in Nat, expired \in 0..emitted, stored \subseteq 1..emitted,
           SweepResumes, overlooked' = 0,
           NEW e \in expired + 1..emitted
    PROVE  Swept(e)' \/ Outrun(e)'
<1>1. PICK begin \in 1..LastEvent :
        /\ ResumesAt(begin)
        /\ sweepFrom' = IF begin > expired THEN begin ELSE expired + 1
  BY DEF SweepResumes
<1>2. sweepTo' = emitted /\ stored' = stored
  BY DEF SweepResumes, database
<1>3. begin \in Nat \ {0} /\ SerialOverlap \in Nat \ {0}
  BY ListenerAssumption
<1>4. CASE begin <= e
  BY <1>1, <1>2, <1>3, <1>4 DEF Swept
<1>5. CASE ~ (begin <= e)
  <2>1. stored # {}
    BY <1>1, <1>3, <1>5 DEF ResumesAt
  <2>2. PICK max \in stored : begin <= OverlapBegin(max)
    BY <1>1, <2>1 DEF ResumesAt
  <2>3. max \in Nat /\ OverlapBegin(max) \in Nat
    BY <1>3 DEF OverlapBegin
  <2>4. e < OverlapBegin(max)
    BY <1>3, <1>5, <2>2, <2>3
  <2>5. e <= max - SerialOverlap
    BY <1>3, <2>3, <2>4 DEF OverlapBegin
  <2> QED BY <1>2, <2>5 DEF Outrun
<1> QED BY <1>4, <1>5

\* What lies above the larger of two bounds lies above the smaller.
LEMMA IntervalGrows ==
    ASSUME NEW a \in Int, NEW b \in Int, NEW c \in Int, b >= a,
           NEW e \in b + 1..c
    PROVE  e \in a + 1..c
OBVIOUS

\* No step of the listener loses an event, and only a live one that was handled
\* moves latest.
LEMMA StreamStep ==
    ASSUME WaitInv, StreamInv, NothingFallsBetween, [ListenerNext]_vars
    PROVE  /\ StreamInv' /\ NothingFallsBetween'
           /\ latest' = latest \/ latest' > latest
<1>0. TypeOK
  BY DEF WaitInv
<1>a. /\ base \in Nat /\ emitted \in Nat /\ base <= emitted
      /\ latest \in Nat /\ latest <= emitted
      /\ Sound(todo, buffer, wire, base, latest, emitted)
      /\ pc # "reading" => todo = <<>> /\ buffer = <<>> /\ wire = <<>>
      /\ sweepFrom \in Int /\ sweepTo \in Int
      /\ expired \in 0..emitted /\ stored \subseteq 1..emitted
  BY <1>0 DEF TypeOK, StreamInv, Connected, NoSweep
<1>b. /\ todo \in Seq(Tokens) /\ buffer \in Seq(Tokens) /\ wire \in Seq(Tokens)
      /\ buffer \o wire \in Seq(Tokens)
  BY <1>a, ConcatProperties DEF Sound
<1>c. ASSUME Connected, overlooked = 0, NEW e \in expired + 1..emitted
      PROVE  Covered(e) \/ Coming(e)
  BY <1>c DEF NothingFallsBetween, Covered, Coming
\* Enough for the property after a step.
<1>d. ASSUME \/ ~ Connected'
             \/ overlooked' # 0
             \/ \A e \in (expired + 1..emitted)' : Covered(e)' \/ Coming(e)'
      PROVE  NothingFallsBetween'
  BY <1>d DEF NothingFallsBetween, Covered, Coming
<1>e. ASSUME NEW e, Covered(e), UNCHANGED sweep, stored \subseteq stored'
      PROVE  Covered(e)'
  <2>1. UNCHANGED <<sweepFrom, sweepTo>>
    BY <1>e DEF sweep
  <2>2. Swept(e) => Swept(e)'
    BY <2>1 DEF Swept
  <2>3. Outrun(e) => Outrun(e)'
    BY <1>e DEF Outrun
  <2> QED BY <1>e, <2>2, <2>3 DEF Covered
<1>f. \A e : Holds(buffer \o wire, e)' = Holds(buffer' \o wire', e)
  BY DEF Holds
<1>g. \A e : Holds(todo, e)' = Holds(todo', e)
  BY DEF Holds
<1>h. \A e : base' = base => IsLive(e)' = IsLive(e)
  BY DEF IsLive
<1> USE DEF device, stream, task, reading, database, sweep
\* Steps that leave the stream alone.
<1>1. ASSUME UNCHANGED <<emitted, stream, reading, latest>>,
             pc' = "reading" <=> pc = "reading",
             expired' \in expired..emitted, stored' \subseteq 1..emitted,
             \/ overlooked' # 0
             \/ \A e \in expired + 1..emitted : Covered(e)'
             \/ overlooked = 0 /\ \A e \in Int : Covered(e) => Covered(e)'
      PROVE  StreamInv' /\ NothingFallsBetween' /\ latest' = latest
  <2>1. StreamInv'
    BY <1>a, <1>1 DEF StreamInv, Connected
  <2>2. ASSUME Connected', overlooked' = 0, NEW e \in (expired + 1..emitted)'
        PROVE  Covered(e)' \/ Coming(e)'
    <3>1. Connected /\ e \in expired + 1..emitted
      <4>1. emitted' = emitted /\ expired' \in expired..emitted
        BY <1>1
      <4>2. /\ expired \in Int /\ emitted \in Int /\ expired' \in Int
            /\ expired' >= expired
        BY <1>a, <4>1
      <4>3. e \in expired' + 1..emitted'
        BY <2>2
      <4>4. e \in expired' + 1..emitted
        BY <4>1, <4>3
      <4>6. e \in expired + 1..emitted
        BY <4>2, <4>4, IntervalGrows
      <4> QED BY <1>1, <2>2, <4>6 DEF Connected
    <3>2. CASE \A f \in expired + 1..emitted : Covered(f)'
      BY <3>1, <3>2
    <3>3. CASE overlooked = 0 /\ \A f \in Int : Covered(f) => Covered(f)'
      <4>1. Covered(e) \/ Coming(e)
        BY <1>c, <3>1, <3>3
      <4>2. Coming(e) => Coming(e)'
        BY <1>1 DEF Coming, IsLive, Holds
      <4> QED BY <3>3, <4>1, <4>2
    <3> QED BY <1>1, <2>2, <3>2, <3>3
  <2>3. NothingFallsBetween'
    BY <1>d, <2>2
  <2> QED BY <1>1, <2>1, <2>3
\* Steps that close the stream.
<1>2. ASSUME Closed, UNCHANGED <<emitted, latest, stored>>, pc' # "reading"
      PROVE  StreamInv' /\ NothingFallsBetween' /\ latest' = latest
  <2>1. todo' = <<>> /\ buffer' = <<>> /\ wire' = <<>> /\ ~ Connected'
    BY <1>2 DEF Closed, Connected
  <2>2. Sound(todo', buffer', wire', base', latest', emitted')
    BY <2>1, SoundEmpty
  <2>3. latest' \in 0..emitted' /\ stored' \subseteq 1..emitted'
    BY <1>a, <1>2
  <2> QED BY <1>2, <2>1, <2>2, <2>3 DEF StreamInv, NothingFallsBetween
\* Steps that add a section to it.
<1>3. ASSUME NEW e \in Nat, NEW size \in Nat \ {0}, e \in {0, emitted + 1},
             e # 0 => size = 2,
             emitted' = IF e = 0 THEN emitted ELSE e,
             wire' = IF Connected THEN wire \o Section(e, size) ELSE wire,
             UNCHANGED <<expired, base, pc, buffer, todo, latest, stored, sweep>>
      PROVE  StreamInv' /\ NothingFallsBetween' /\ latest' = latest
  <2>a. /\ emitted' \in Nat /\ emitted <= emitted'
        /\ stored' \subseteq 1..emitted'
    BY <1>a, <1>3
  <2>1. CASE ~ Connected
    <3>1. todo' = <<>> /\ buffer' = <<>> /\ wire' = <<>> /\ ~ Connected'
      BY <1>a, <1>3, <2>1 DEF Connected
    <3>2. Sound(todo', buffer', wire', base', latest', emitted')
      BY <3>1, SoundEmpty
    <3>3. latest' \in 0..emitted'
      BY <1>a, <1>3, <2>a
    <3> QED BY <1>3, <2>a, <3>1, <3>2, <3>3 DEF StreamInv, NothingFallsBetween
  <2>2. CASE Connected
    <3>a. wire' = wire \o Section(e, size)
      BY <1>3, <2>2
    <3>b. Section(e, size) \in Seq(Tokens)
      BY SectionIs
    <3>2. Sound(todo, buffer, wire', base, latest, emitted')
      <4>1. Sound(todo, buffer, wire \o Section(e, size), base, latest,
                  IF e = 0 THEN emitted ELSE e)
        BY <1>a, <1>3, AppendSound
      <4> QED BY <1>3, <3>a, <4>1
    <3>3. StreamInv'
      BY <1>a, <1>3, <2>2, <2>a, <3>2 DEF StreamInv, Connected
    <3>4. buffer' \o wire' = (buffer \o wire) \o Section(e, size)
      <4>1. buffer \o (wire \o Section(e, size))
            = (buffer \o wire) \o Section(e, size)
        BY <1>b, <3>b, ConcatThree, SMTT(30)
      <4>2. buffer' = buffer
        BY <1>3
      <4> QED BY <3>a, <4>1, <4>2
    <3>5. ASSUME overlooked' = 0, NEW f \in (expired + 1..emitted)'
          PROVE  Covered(f)' \/ Coming(f)'
      <4>1. CASE f \in expired + 1..emitted
        <5>1. Covered(f) \/ Coming(f)
          BY <1>3, <1>c, <2>2, <3>5, <4>1
        <5>2. Covered(f) => Covered(f)'
          BY <1>3, <1>e
        <5>3. ASSUME Holds(buffer \o wire, f)
              PROVE  Holds(buffer' \o wire', f)
          BY <1>b, <3>b, <3>4, <5>3, HoldsAppend
        <5>4. todo' = todo /\ base' = base
          BY <1>3
        <5>5. Coming(f) => Coming(f)'
          BY <1>f, <1>g, <1>h, <5>3, <5>4 DEF Coming
        <5> QED BY <5>1, <5>2, <5>5
      <4>2. CASE ~ (f \in expired + 1..emitted)
        <5>1. f = emitted + 1 /\ f = e /\ size = 2
          BY <1>a, <1>3, <3>5, <4>2
        <5>2. Holds(buffer' \o wire', f)
          BY <1>b, <3>4, <5>1, <1>3, HoldsNew
        <5>3. IsLive(f)'
          BY <1>a, <1>3, <5>1 DEF IsLive
        <5> QED BY <1>f, <5>2, <5>3 DEF Coming
      <4> QED BY <4>1, <4>2
    <3>6. NothingFallsBetween'
      BY <1>d, <3>5
    <3> QED BY <1>3, <3>3, <3>6
  <2> QED BY <2>1, <2>2
<1>4. CASE Emit
  <2>1. /\ emitted' = emitted + 1
        /\ wire' = IF Connected THEN wire \o Section(emitted + 1, 2) ELSE wire
        /\ UNCHANGED <<expired, base, pc, buffer, todo, latest, stored, sweep>>
    BY <1>4 DEF Emit
  <2>2. emitted + 1 \in Nat /\ emitted + 1 # 0 /\ 2 \in Nat \ {0}
    BY <1>a
  <2> QED BY <1>3, <2>1, <2>2
<1>5. CASE EmitFiller
  <2>1. PICK n \in FillerSizes : wire' = wire \o Section(0, n)
    BY <1>5 DEF EmitFiller
  <2>2. /\ n \in Nat \ {0} /\ Connected /\ 0 \in Nat
        /\ UNCHANGED <<emitted, expired, base, pc, buffer, todo, latest, stored,
                       sweep>>
    BY <1>5, ListenerAssumption DEF EmitFiller
  <2> QED BY <1>3, <2>1, <2>2
<1>6. CASE Connect
  <2>1. /\ pc' = "reading" /\ base' = emitted /\ wire' = Replay(emitted)
        /\ UNCHANGED <<emitted, reading, latest, stored>>
        /\ todo = <<>> /\ buffer = <<>>
    BY <1>6, <1>a DEF Connect
  <2>2. sweepFrom' = 0 \/ overlooked' # 0
    BY <1>6 DEF Connect, SweepBegins
  <2>3. Sound(todo', buffer', wire', base', latest', emitted')
    BY <1>a, <2>1, ReplaySound
  <2>4. StreamInv'
    BY <1>a, <2>1, <2>3 DEF StreamInv, Connected
  <2>5. \A e : sweepFrom' = 0 => Covered(e)'
    BY DEF Covered, Swept
  <2>6. NothingFallsBetween'
    BY <1>d, <2>2, <2>5
  <2> QED BY <2>1, <2>4, <2>6
<1>7. CASE Read
  <2>1. /\ pc = "reading" /\ todo = <<>>
        /\ UNCHANGED <<emitted, expired, base, pc, latest, stored, sweep>>
    BY <1>7 DEF Read
  <2>2. Sound(todo', buffer', wire', base', latest', emitted')
    BY <1>7, <1>a, <2>1, ReadSound
  <2>3. StreamInv'
    BY <1>a, <2>1, <2>2 DEF StreamInv, Connected
  <2>4. ASSUME overlooked' = 0, NEW e \in (expired + 1..emitted)'
        PROVE  Covered(e)' \/ Coming(e)'
    <3>1. /\ e \in expired + 1..emitted /\ e \in Nat
          /\ overlooked = 0 /\ Connected
      BY <1>a, <2>1, <2>4 DEF Connected
    <3>2. ~ Holds(todo, e)
      BY <2>1 DEF Holds
    <3>3. Covered(e) \/ (IsLive(e) /\ Holds(buffer \o wire, e))
      BY <1>c, <3>1, <3>2 DEF Coming
    <3>4. ASSUME IsLive(e), Holds(buffer \o wire, e)
          PROVE  Holds(todo', e) \/ Holds(buffer' \o wire', e)
      BY <1>7, <1>a, <3>1, <3>4, ReadKeeps
    <3>5. Covered(e) => Covered(e)'
      BY <1>e, <2>1
    <3>6. base' = base
      BY <2>1
    <3> QED BY <1>f, <1>g, <1>h, <3>3, <3>4, <3>5, <3>6 DEF Coming
  <2>5. NothingFallsBetween'
    BY <1>d, <2>4
  <2> QED BY <2>1, <2>3, <2>5
<1>8. ASSUME NEW i \in News(todo), Proceed(i), pc = "reading",
             UNCHANGED <<emitted, stream, pc, buffer>>
      PROVE  /\ todo[i][1] \in Nat /\ todo[i][1] > latest
             /\ todo[i][1] <= emitted
             /\ Sound(todo', buffer, wire, base, todo[i][1], emitted)
             /\ Sound(todo', buffer, wire, base, latest, emitted)
  BY <1>8, <1>a, HandleSound DEF Proceed
<1>9. CASE Handle
  <2>1. PICK i \in News(todo) :
          /\ Proceed(i) /\ stored' = stored \cup {todo[i][1]}
          /\ latest' = todo[i][1]
    BY <1>9 DEF Handle
  <2>2. /\ pc = "reading"
        /\ UNCHANGED <<emitted, expired, stream, pc, buffer, sweep>>
    BY <1>9 DEF Handle
  <2>3. /\ latest' \in Nat /\ latest' > latest /\ latest' <= emitted
        /\ Sound(todo', buffer, wire, base, latest', emitted)
    BY <1>8, <2>1, <2>2
  <2>a. stored' \subseteq 1..emitted
    <3>1. todo[i][1] \in 1..emitted
      BY <1>a, <2>1, <2>3
    <3> QED BY <1>a, <2>1, <3>1
  <2>4. StreamInv'
    BY <1>a, <2>2, <2>3, <2>a DEF StreamInv, Connected
  <2>5. ASSUME overlooked' = 0, NEW e \in (expired + 1..emitted)'
        PROVE  Covered(e)' \/ Coming(e)'
    <3>1. e \in expired + 1..emitted /\ overlooked = 0 /\ Connected
      BY <2>2, <2>5 DEF Connected
    <3>2. Covered(e) \/ Coming(e)
      BY <1>c, <3>1
    <3>3. ASSUME IsLive(e), Holds(todo, e)
          PROVE  e = todo[i][1] \/ Holds(todo', e)
      BY <1>b, <2>1, <3>3, HandleKeeps
    <3>4. Covered(e) => Covered(e)'
      BY <1>e, <2>1, <2>2
    <3>5. e = todo[i][1] => Covered(e)'
      BY <2>1 DEF Covered
    <3>6. /\ base' = base
          /\ Holds(buffer' \o wire', e) = Holds(buffer \o wire, e)
      BY <2>2 DEF Holds
    <3> QED
      BY <1>f, <1>g, <1>h, <3>2, <3>3, <3>4, <3>5, <3>6 DEF Coming
  <2>6. NothingFallsBetween'
    BY <1>d, <2>5
  <2> QED BY <2>3, <2>4, <2>6
<1>10. CASE HandleFails
  <2>1. PICK i \in News(todo) : Proceed(i)
    BY <1>10 DEF HandleFails
  <2>2. /\ pc = "reading" /\ overlooked' = 1
        /\ UNCHANGED <<emitted, stream, pc, buffer, latest, stored>>
    BY <1>10 DEF HandleFails
  <2>3. Sound(todo', buffer, wire, base, latest, emitted)
    BY <1>8, <2>1, <2>2
  <2>4. StreamInv'
    BY <1>a, <2>2, <2>3 DEF StreamInv, Connected
  <2> QED BY <2>2, <2>4 DEF NothingFallsBetween
<1>11. CASE \/ ChangeMood \/ Start \/ Busy \/ LockedOut \/ OpenFails
            \/ Tick \/ Wake \/ Expire \/ UNCHANGED vars
  <2>1. /\ UNCHANGED <<emitted, stream, reading, database, sweep>>
        /\ pc' = "reading" <=> pc = "reading"
    BY <1>11
    DEF ChangeMood, Start, Busy, LockedOut, OpenFails, Tick, Wake, Expire,
        Reopen, BackOff, Sleep, vars
  <2>2. expired' \in expired..emitted
    BY <1>11, <1>a
    DEF ChangeMood, Start, Busy, LockedOut, OpenFails, Tick, Wake, Expire, vars
  <2>3. \A e \in Int : Covered(e) => Covered(e)'
    BY <1>e, <2>1
  <2>4. \/ overlooked' # 0
        \/ overlooked = 0 /\ \A e \in Int : Covered(e) => Covered(e)'
    BY <2>1, <2>3
  <2> QED BY <1>1, <1>a, <2>1, <2>2, <2>4
<1>12. CASE \/ Stop \/ NewCredentials
            \/ EndOfStream \/ StreamFails \/ StreamCrashes
  <2>1. Closed /\ UNCHANGED <<emitted, latest, stored>> /\ pc' # "reading"
    BY <1>12
    DEF Stop, NewCredentials, Halt, EndOfStream, StreamFails, StreamCrashes,
        BackOff, Sleep, Reopen
  <2> QED BY <1>2, <2>1
\* The sweep's own steps.
<1>13. ASSUME \/ SweepStarts \/ SweepResumes \/ SweepStores \/ SweepEnds
              \/ SweepFails
       PROVE  /\ UNCHANGED <<emitted, stream, reading, latest, pc, expired>>
              /\ expired' \in expired..emitted
  <2>1. UNCHANGED <<emitted, stream, reading, latest, pc, expired>>
    BY <1>13
    DEF SweepStarts, SweepResumes, SweepStores, SweepEnds, SweepFails
  <2> QED BY <1>a, <2>1
<1>14. CASE SweepStarts
  <2>1. stored' = stored /\ \A e : Covered(e)'
    BY <1>14 DEF SweepStarts, SweepBegins, Covered, Swept
  <2> QED BY <1>1, <1>13, <1>14, <1>a, <2>1
<1>15. CASE SweepResumes
  <2>1. stored' = stored
    BY <1>15 DEF SweepResumes
  <2>2. overlooked' = 0 => \A e \in expired + 1..emitted : Covered(e)'
    BY <1>15, <1>a, ResumesWell DEF Covered
  <2> QED BY <1>1, <1>13, <1>15, <1>a, <2>1, <2>2
<1>16. CASE SweepStores
  <2>1. /\ sweepFrom > 0 /\ sweepFrom <= sweepTo /\ sweepFrom' = sweepFrom + 1
        /\ stored' = stored \cup {sweepFrom} /\ sweepTo' = sweepTo
        /\ overlooked' = overlooked
    BY <1>16, <1>a DEF SweepStores
  <2>2. stored' \subseteq 1..emitted
    <3>1. sweepTo <= emitted
      BY <1>0 DEF TypeOK
    <3> QED BY <1>a, <2>1, <3>1
  <2>3. ASSUME NEW e \in Int, Covered(e) PROVE Covered(e)'
    <3>1. Outrun(e) => Outrun(e)'
      BY <2>1 DEF Outrun
    <3>2. Swept(e) => e = sweepFrom \/ Swept(e)'
      BY <1>a, <2>1 DEF Swept
    <3>3. e = sweepFrom \/ e \in stored => e \in stored'
      BY <2>1
    <3> QED BY <2>3, <3>1, <3>2, <3>3 DEF Covered
  <2> QED BY <1>1, <1>13, <1>16, <1>a, <2>1, <2>2, <2>3
<1>17. CASE SweepEnds
  <2>1. /\ sweepFrom > sweepTo /\ stored' = stored
        /\ overlooked' = overlooked
    BY <1>17 DEF SweepEnds
  <2>2. sweepFrom # 0
    <3>1. sweepTo >= 0
      BY <1>0 DEF TypeOK
    <3> QED BY <1>a, <2>1, <3>1
  <2>3. ASSUME NEW e \in Int, Covered(e) PROVE Covered(e)'
    <3>1. ~ Swept(e)
      BY <1>a, <2>1, <2>2 DEF Swept
    <3>2. Outrun(e) => Outrun(e)'
      BY <2>1 DEF Outrun
    <3> QED BY <2>1, <2>3, <3>1, <3>2 DEF Covered
  <2> QED BY <1>1, <1>13, <1>17, <1>a, <2>1, <2>3
<1>18. CASE SweepFails
  <2>1. stored' = stored /\ overlooked' # 0
    BY <1>18 DEF SweepFails
  <2> QED BY <1>1, <1>13, <1>18, <1>a, <2>1
<1> QED
  BY <1>4, <1>5, <1>6, <1>7, <1>9, <1>10, <1>11, <1>12, <1>14, <1>15, <1>16,
     <1>17, <1>18
  DEF ListenerNext, LoopNext

\* The listener keeps all of it.
LEMMA Listens == ListenerSpec => []ListenInv
<1>1. Init => ListenInv
  BY InitWait, StreamInit DEF ListenInv
<1>2. ListenInv /\ [ListenerNext]_vars => ListenInv'
  BY WaitStep, StreamStep DEF ListenInv
<1> QED BY <1>1, <1>2, PTL DEF ListenerSpec

-----------------------------------------------------------------------------
(* The entry.                                                              *)

EntryInv == PanelTypeOK /\ AskedFor

\* No step ends polling or setup without the question to the user.
LEMMA EntryStep == EntryInv /\ [Next]_cvars => EntryInv'
<1> SUFFICES ASSUME EntryInv, [Next]_cvars PROVE EntryInv'
  OBVIOUS
<1>0. PanelTypeOK /\ AskedFor
  BY DEF EntryInv
<1> USE DEF panel
<1>1. ASSUME UNCHANGED <<entry, polled, polling, reauth>>,
             shown' \in {"unavailable", "degraded", "connected"},
             pc' = "off" <=> pc = "off"
      PROVE  EntryInv'
  BY <1>0, <1>1 DEF EntryInv, PanelTypeOK, AskedFor
<1>2. \A s, q : Written(s, q) \in {"unavailable", "degraded", "connected"}
  BY DEF Written, NativeValue
<1>3. CASE (Emit \/ Expire \/ EmitFiller \/ ChangeMood) /\ UNCHANGED panel
  BY <1>0, <1>1, <1>3
  DEF Emit, Expire, EmitFiller, ChangeMood, device, stream, task, PanelTypeOK
<1>4. CASE LoopNext /\ UNCHANGED panel
  <2>1. \/ pc # "off" /\ pc' # "off"
        \/ UNCHANGED pc
    BY <1>4
    DEF LoopNext, Connect, Busy, LockedOut, OpenFails, BackOff, Sleep, Tick,
        Wake, Reopen, Read, HandleFails, EndOfStream, StreamFails,
        StreamCrashes, task, stream
  <2> QED BY <1>0, <1>1, <1>4, <2>1 DEF PanelTypeOK
<1>5. CASE LiveEvent
  BY <1>1, <1>2, <1>5 DEF LiveEvent, Handle, Write, task
<1>6. CASE Sweep
  <2>1. UNCHANGED pc
    BY <1>6
    DEF Sweep, SweepStarts, SweepResumes, SweepStores, SweepEnds, SweepFails, task
  <2> QED BY <1>0, <1>1, <1>2, <1>6, <2>1 DEF Sweep, Write, PanelTypeOK
<1>7. CASE SetUp
  <2>1. CASE Loaded
    <3>1. pc' = "opening"
      BY <2>1 DEF Loaded, Start, Reopen
    <3> QED
      BY <1>0, <1>2, <2>1, <3>1 DEF Loaded, EntryInv, PanelTypeOK, AskedFor
  <2>2. CASE Refused /\ UNCHANGED <<vars, polled, polling, shown>>
    <3>1. UNCHANGED pc
      BY <2>2 DEF vars, task
    <3> QED
      BY <1>0, <1>7, <2>2, <3>1
      DEF SetUp, Refused, EntryInv, PanelTypeOK, AskedFor
  <2> QED BY <1>7, <2>1, <2>2 DEF SetUp
<1>8. ASSUME Halt, Away, reauth' \in BOOLEAN PROVE EntryInv'
  BY <1>0, <1>8 DEF Halt, Away, EntryInv, PanelTypeOK, AskedFor
<1>9. CASE Unload
  BY <1>0, <1>8, <1>9 DEF Unload, Stop, PanelTypeOK
<1>10. CASE Reauthenticate
  BY <1>8, <1>10 DEF Reauthenticate, NewCredentials
<1>11. CASE Poll
  <2>1. UNCHANGED <<pc, entry>> /\ entry = "loaded"
    BY <1>11 DEF Poll, vars, task
  <2>2. /\ polled' \in {"ok", "failed"} /\ polling' \in BOOLEAN
        /\ reauth' \in BOOLEAN /\ (~ polling' => reauth')
    BY <1>0, <1>11 DEF Poll, PollOutcome, PanelTypeOK
  <2>3. shown' \in {"unavailable", "degraded", "connected"}
    BY <1>0, <1>2, <1>11 DEF Poll, PanelTypeOK
  <2> QED BY <1>0, <2>1, <2>2, <2>3 DEF EntryInv, PanelTypeOK, AskedFor
<1>12. CASE UNCHANGED cvars
  BY <1>0, <1>1, <1>12 DEF cvars, vars, task, PanelTypeOK
<1> QED
  BY <1>3, <1>4, <1>5, <1>6, <1>7, <1>9, <1>10, <1>11, <1>12 DEF Next

-----------------------------------------------------------------------------
\* __init__.py, coordinator.py, sensor.py: setting up, polling and showing do
\* nothing to the listener that its own specification does not allow.
THEOREM Refines == Spec => ListenerSpec
<1>1. ConnectionInit => Init
  BY DEF ConnectionInit
<1> QED BY <1>1, StepIsListeners, PTL DEF Spec, ListenerSpec

\* event_listener.py:117, event_reconciler.py:91, :115 and :123: for any sizes of
\* sections, chunks and buffer, any overlap and any limit of a sweep, an event of
\* the search window that is not in the database while the stream is open is
\* ahead of the running sweep, live and still to come, or outrun by rows at least
\* SerialOverlap newer; also inside an entry.
THEOREM NothingIsMissed == Spec => []NothingFallsBetween
<1>1. ListenInv => NothingFallsBetween
  BY DEF ListenInv
<1> QED BY <1>1, Listens, Refines, PTL

\* event_listener.py:141: over all connections the listener hands on each event
\* once and in order, however often the terminal sends its log again.
THEOREM NewsOnce == Spec => LiveOnce
<1>1. ListenInv /\ [ListenerNext]_vars => [latest' > latest]_latest
  BY StreamStep DEF ListenInv
<1> QED BY <1>1, Listens, Refines, PTL DEF ListenerSpec, LiveOnce

\* The task, the pauses and the sweeps keep their shape.
THEOREM TypeCorrect == ListenerSpec => []TypeOK
<1>1. WaitInv => TypeOK
  BY DEF WaitInv
<1> QED BY <1>1, InitWait, WaitStep, PTL DEF ListenerSpec

\* event_listener.py:99: whatever failed before, and however often, a terminal
\* that serves is asked again within the longest pause; also inside an entry.
THEOREM NeverLongAway == Spec => []BackSoon
<1>1. WaitInv => BackSoon
  BY DEF WaitInv
<1> QED BY <1>1, InitWait, WaitStep, Refines, PTL DEF ListenerSpec

\* coordinator.py, __init__.py:91: polls and setups end only with a form for the
\* user.
THEOREM UserIsAsked == Spec => []AskedFor
<1>1. ConnectionInit => EntryInv
  BY DEF ConnectionInit, Init, EntryInv, PanelTypeOK, AskedFor
<1>2. EntryInv => AskedFor
  BY DEF EntryInv
<1> QED BY <1>1, <1>2, EntryStep, PTL DEF Spec

=============================================================================
