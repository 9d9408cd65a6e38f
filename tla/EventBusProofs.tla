---------------------------- MODULE EventBusProofs ----------------------------
(***************************************************************************)
(* What the clients of an event bus see of the session, for any agents,    *)
(* sockets and limits, and any number of emissions, resets and buses.      *)
(*                                                                         *)
(* What a client shows is a function of the events it hears, one after the *)
(* other.  A bus keeps the newest of what that function shows of its log;  *)
(* replaying its history and then the tails of those who speak shows just  *)
(* that, so a new subscriber mirrors the log as far back as the bus does.  *)
(* From then on both hear the same, and two pictures of which one is an    *)
(* end of the other stay so.  A socket whose queue overflowed is promised  *)
(* less: the newest emission is still among what it hears, for a queue     *)
(* drops its oldest event.                                                 *)
(***************************************************************************)
EXTENDS EventBus, Integers, FiniteSetTheorems, WellFoundedInduction, TLAPS

\* The types of the events, an event, and what a client shows.
Kinds == Terminal \cup Turn \cup {"token", "session_reset", "step", "_disconnected"}
Event ==
  [type : Kinds, agent : Agents \cup {Nobody}, ids : Seq(Nat)]
Pictured == [told : Seq(Nat), text : [Agents -> Seq(Nat)]]

\* A nonempty set of numbers has a least one.
LEMMA Least == ASSUME NEW S \in SUBSET Nat, S # {} PROVE \E n \in S : \A m \in S : n <= m
<1>1. PICK n \in S : \A m \in S : ~(<<m, n>> \in OpToRel(<, Nat))
  BY NatLessThanWellFounded, WFMin
<1>2. \A m \in S : ~(m < n)
  BY <1>1 DEF OpToRel
<1>3. QED
  BY <1>2

\* What holds at zero, and at the next number wherever it holds, holds up to any.
LEMMA Upto ==
  ASSUME NEW L \in Nat, NEW S, 0 \in S, \A n \in 0 .. (L - 1) : n \in S => n + 1 \in S
  PROVE  0 .. L \subseteq S
<1> SUFFICES ASSUME (0 .. L) \ S # {} PROVE FALSE
  OBVIOUS
<1>1. PICK n \in (0 .. L) \ S : \A m \in (0 .. L) \ S : n <= m
  <2>1. (0 .. L) \ S \in SUBSET Nat
    OBVIOUS
  <2> QED
    BY ONLY <2>1, (0 .. L) \ S # {}, Least
<1>2. n # 0 /\ n \in Nat /\ n <= L /\ n \notin S
  BY <1>1
<1>3. n - 1 \in 0 .. (L - 1) /\ n - 1 \in 0 .. L /\ ~(n <= n - 1) /\ (n - 1) + 1 = n
  BY <1>2
<1>4. n - 1 \in S
  BY <1>1, <1>3
<1> QED
  BY <1>2, <1>3, <1>4

\* A client hears one event after the other.
IsTelling(p, events) ==
  /\ p = [n \in 0 .. Len(events) |-> p[n]]
  /\ p[0] = Nothing
  /\ \A n \in 1 .. Len(events) : p[n] = Heard(p[n - 1], events[n])

\* Whatever is told, there is what the client shows after each event of it...
LEMMA TellingExists ==
  ASSUME NEW events, Len(events) \in Nat PROVE \E p : IsTelling(p, events)
<1> DEFINE next(p, n) == IF n = 0 THEN Nothing ELSE Heard(p[n - 1], events[n])
           S == {m \in Nat : \E p : p = [n \in 0 .. m |-> next(p, n)]}
<1>1. 0 \in S
  <2> DEFINE p == [n \in 0 .. 0 |-> Nothing]
  <2>1. p = [n \in 0 .. 0 |-> next(p, n)]
    OBVIOUS
  <2> QED
    BY <2>1
<1>2. ASSUME NEW m \in 0 .. (Len(events) - 1), m \in S PROVE m + 1 \in S
  <2>1. PICK p : p = [n \in 0 .. m |-> next(p, n)]
    BY <1>2
  <2> DEFINE q == [n \in 0 .. (m + 1) |-> IF n <= m THEN p[n] ELSE next(p, n)]
  <2>2. m \in Nat /\ m + 1 \in Nat
    OBVIOUS
  <2>3. ASSUME NEW n \in 0 .. (m + 1) PROVE q[n] = next(q, n)
    <3>1. CASE n = 0
      <4>1. q[n] = p[n] /\ p[n] = Nothing
        BY <2>1, <3>1
      <4> QED
        BY <3>1, <4>1
    <3>2. CASE n # 0
      <4>1. n - 1 \in 0 .. m /\ n - 1 \in 0 .. (m + 1) /\ n - 1 <= m
        BY <3>2
      <4>2. q[n - 1] = p[n - 1]
        BY <4>1
      <4>3. q[n] = next(p, n)
        <5>1. CASE n <= m
          BY <2>1, <5>1
        <5>2. CASE ~(n <= m)
          BY <5>2
        <5> QED
          BY <5>1, <5>2
      <4> HIDE DEF q
      <4> QED
        BY <3>2, <4>2, <4>3
    <3> QED
      BY <3>1, <3>2
  <2>4. q = [n \in 0 .. (m + 1) |-> next(q, n)]
    <3>1. q = [n \in 0 .. (m + 1) |-> q[n]]
      OBVIOUS
    <3> HIDE DEF q, next
    <3> QED
      BY <2>3, <3>1
  <2> HIDE DEF q, next
  <2> QED
    BY <2>2, <2>4
<1> HIDE DEF S, next
<1>3. Len(events) \in S
  <2>1. 0 .. Len(events) \subseteq S
    BY <1>1, <1>2, Upto
  <2> QED
    BY <2>1
<1>4. PICK p : p = [n \in 0 .. Len(events) |-> next(p, n)]
  BY <1>3 DEF S
<1>5. \A n \in 0 .. Len(events) : p[n] = next(p, n)
  BY <1>4
<1>6. /\ p = [n \in 0 .. Len(events) |-> p[n]] /\ p[0] = Nothing
      /\ \A n \in 1 .. Len(events) : p[n] = Heard(p[n - 1], events[n])
  BY <1>4, <1>5 DEF next
<1> QED
  BY <1>6 DEF IsTelling

\* ...and what it shows after the last is the picture.
LEMMA PictureTold ==
  ASSUME NEW events, Len(events) \in Nat, NEW p, IsTelling(p, events)
  PROVE  Picture(events) = p[Len(events)]
<1> DEFINE L == Len(events)
           shows(q) == q = [n \in 0 .. L |-> IF n = 0 THEN Nothing ELSE Heard(q[n - 1], events[n])]
           q == CHOOSE q : shows(q)
<1>1. Picture(events) = q[L]
  BY DEF Picture
<1>2. p = [n \in 0 .. L |-> p[n]] /\ p[0] = Nothing
      /\ \A n \in 1 .. L : p[n] = Heard(p[n - 1], events[n])
  BY DEF IsTelling
<1>3. shows(p)
  <2>1. \A n \in 0 .. L : p[n] = IF n = 0 THEN Nothing ELSE Heard(p[n - 1], events[n])
    BY <1>2
  <2> QED
    BY <1>2, <2>1
<1>4. shows(q)
  BY <1>3
<1> HIDE DEF q
<1> DEFINE S == {n \in 0 .. L : p[n] = q[n]}
<1>5. \A n \in 0 .. L : q[n] = IF n = 0 THEN Nothing ELSE Heard(q[n - 1], events[n])
  BY <1>4
<1>6. 0 \in S
  BY <1>2, <1>5
<1>7. ASSUME NEW n \in 0 .. (L - 1), n \in S PROVE n + 1 \in S
  <2>1. n + 1 \in 1 .. L /\ (n + 1) - 1 = n /\ n + 1 # 0 /\ n + 1 \in 0 .. L
    OBVIOUS
  <2>2. p[n + 1] = Heard(p[n], events[n + 1])
    BY <1>2, <2>1
  <2>3. q[n + 1] = Heard(q[n], events[n + 1])
    BY <1>5, <2>1
  <2> QED
    BY <1>7, <2>1, <2>2, <2>3
<1>8. L \in S
  <2>1. L \in Nat
    OBVIOUS
  <2> HIDE DEF S, L
  <2>2. 0 .. L \subseteq S
    BY <1>6, <1>7, <2>1, Upto
  <2> QED
    BY <2>1, <2>2
<1> QED
  BY <1>1, <1>8

\* Who heard nothing shows nothing, ...
LEMMA PictureOfNothing == Picture(<<>>) = Nothing
<1>1. Len(<<>>) = 0
  OBVIOUS
<1>2. PICK p : IsTelling(p, <<>>)
  BY <1>1, TellingExists
<1> QED
  BY <1>1, <1>2, PictureTold DEF IsTelling

\* ...and one event more changes the picture as that event does.
LEMMA PictureGrows ==
  ASSUME NEW events \in Seq(Event), NEW e \in Event
  PROVE  Picture(Append(events, e)) = Heard(Picture(events), e)
<1> DEFINE more == Append(events, e)
           L == Len(events)
<1>1. /\ L \in Nat /\ Len(more) = L + 1 /\ more[L + 1] = e
      /\ \A n \in 1 .. L : more[n] = events[n]
  OBVIOUS
<1>2. PICK p : IsTelling(p, more)
  BY <1>1, TellingExists
<1> HIDE DEF more, L
<1>3. /\ p[0] = Nothing
      /\ \A n \in 1 .. (L + 1) : p[n] = Heard(p[n - 1], more[n])
  BY <1>1, <1>2 DEF IsTelling
<1> DEFINE q == [n \in 0 .. L |-> p[n]]
<1>4. IsTelling(q, events)
  <2>1. q[0] = Nothing
    BY <1>1, <1>3
  <2>2. ASSUME NEW n \in 1 .. L PROVE q[n] = Heard(q[n - 1], events[n])
    <3>1. n \in 0 .. L /\ n - 1 \in 0 .. L /\ n \in 1 .. (L + 1)
      BY <1>1
    <3>2. q[n] = p[n] /\ q[n - 1] = p[n - 1]
      BY <3>1
    <3> HIDE DEF q
    <3> QED
      BY <1>1, <1>3, <3>1, <3>2
  <2>3. q = [n \in 0 .. L |-> q[n]]
    OBVIOUS
  <2> HIDE DEF q
  <2> QED
    BY <2>1, <2>2, <2>3 DEF IsTelling, L
<1>5. q[L] = p[L]
  BY <1>1
<1> HIDE DEF q
<1>6. Picture(events) = p[L]
  BY <1>1, <1>4, <1>5, PictureTold DEF L
<1>7. Picture(more) = p[L + 1]
  BY <1>1, <1>2, PictureTold
<1>8. L + 1 \in 1 .. (L + 1) /\ (L + 1) - 1 = L
  BY <1>1
<1> QED
  BY <1>1, <1>3, <1>6, <1>7, <1>8 DEF more

\* A picture is a sequence of emissions and the text of each agent.
LEMMA NothingIsPictured == Nothing \in Pictured
BY DEF Nothing, Pictured

\* It stays one with each event that is heard...
LEMMA HeardIsPictured ==
  ASSUME NEW p \in Pictured, NEW e \in Event PROVE Heard(p, e) \in Pictured
<1>1. /\ p.told \in Seq(Nat) /\ \A a \in Agents : p.text[a] \in Seq(Nat)
      /\ e.ids \in Seq(Nat)
  BY DEF Pictured, Event
<1>2. p.told \o e.ids \in Seq(Nat) /\ \A a \in Agents : p.text[a] \o e.ids \in Seq(Nat)
  BY <1>1
<1>3. CASE e.type = "session_reset"
  <2>1. Heard(p, e) = [told |-> e.ids, text |-> [a \in Agents |-> <<>>]]
    BY <1>3 DEF Heard, Nothing
  <2>2. [a \in Agents |-> <<>>] \in [Agents -> Seq(Nat)]
    OBVIOUS
  <2> QED
    BY ONLY <1>1, <2>1, <2>2 DEF Pictured
<1>4. CASE e.type # "session_reset"
  <2>1. Heard(p, e).told \in Seq(Nat) /\ DOMAIN Heard(p, e) = {"told", "text"}
    BY <1>1, <1>2, <1>4 DEF Heard
  <2>2. Heard(p, e).text \in [Agents -> Seq(Nat)]
    BY <1>1, <1>2, <1>4 DEF Heard
  <2>3. Heard(p, e) = [told |-> Heard(p, e).told, text |-> Heard(p, e).text]
    BY <1>4 DEF Heard
  <2> QED
    BY <2>1, <2>2, <2>3 DEF Pictured
<1> QED
  BY <1>3, <1>4

\* ...and is one all along.
LEMMA TellingIsPictured ==
  ASSUME NEW events \in Seq(Event), NEW p, IsTelling(p, events)
  PROVE  \A n \in 0 .. Len(events) : p[n] \in Pictured
<1>1. Len(events) \in Nat /\ \A n \in 1 .. Len(events) : events[n] \in Event
  OBVIOUS
<1> DEFINE S == {n \in 0 .. Len(events) : p[n] \in Pictured}
<1>2. 0 \in S
  BY <1>1, NothingIsPictured DEF IsTelling
<1>3. ASSUME NEW n \in 0 .. (Len(events) - 1), n \in S PROVE n + 1 \in S
  <2>1. n + 1 \in 1 .. Len(events) /\ (n + 1) - 1 = n /\ n + 1 \in 0 .. Len(events)
    BY <1>1
  <2>2. p[n + 1] = Heard(p[n], events[n + 1]) /\ events[n + 1] \in Event
    BY <1>1, <2>1 DEF IsTelling
  <2> QED
    BY <1>3, <2>1, <2>2, HeardIsPictured
<1>4. 0 .. Len(events) \subseteq S
  <2> HIDE DEF S
  <2> QED
    BY <1>1, <1>2, <1>3, Upto
<1> QED
  BY <1>4

\* So what any events show is a picture.
LEMMA PictureIsPictured ==
  ASSUME NEW events \in Seq(Event) PROVE Picture(events) \in Pictured
<1>1. Len(events) \in Nat /\ Len(events) \in 0 .. Len(events)
  OBVIOUS
<1>2. PICK p : IsTelling(p, events)
  BY <1>1, TellingExists
<1> QED
  BY <1>1, <1>2, TellingIsPictured, PictureTold

-----------------------------------------------------------------------------
(* Ends of sequences. *)

\* s is an end of t, and holds the newest n of it.
EndOf(s, t) == Len(s) <= Len(t) /\ \A i \in 1 .. Len(s) : s[i] = t[Len(t) - Len(s) + i]
Reaches(s, t, n) == EndOf(s, t) /\ Len(s) >= Len(Newest(n, t))

\* Sequences of one length with the same elements are the same.
LEMMA SameSeq ==
  ASSUME NEW S, NEW s \in Seq(S), NEW t \in Seq(S), Len(s) = Len(t),
         \A i \in 1 .. Len(t) : s[i] = t[i]
  PROVE  s = t
OBVIOUS

\* The newest n elements are an end of the sequence.
LEMMA NewestIs ==
  ASSUME NEW S, NEW t \in Seq(S), NEW n \in Nat
  PROVE  /\ Newest(n, t) \in Seq(S)
         /\ Len(Newest(n, t)) = IF Len(t) > n THEN n ELSE Len(t)
         /\ EndOf(Newest(n, t), t)
<1>1. CASE Len(t) > n
  <2>1. Newest(n, t) = SubSeq(t, Len(t) - n + 1, Len(t))
    BY <1>1 DEF Newest
  <2> QED
    <3> DEFINE u == SubSeq(t, Len(t) - n + 1, Len(t))
    <3>1. Len(t) \in Nat /\ Len(t) - n + 1 \in 1 .. (Len(t) + 1)
      BY ONLY <1>1, t \in Seq(S), n \in Nat
    <3>2. /\ u \in Seq(S) /\ Len(u) = n
          /\ \A i \in 1 .. n : u[i] = t[Len(t) - n + 1 + i - 1]
      BY ONLY <1>1, <3>1, t \in Seq(S), n \in Nat
    <3> HIDE DEF u
    <3>3. n <= Len(t) /\ \A i \in 1 .. n : Len(t) - n + 1 + i - 1 = Len(t) - n + i
      BY ONLY <1>1, <3>1, n \in Nat
    <3>4. EndOf(u, t)
      BY ONLY <3>2, <3>3 DEF EndOf
    <3> QED
      BY ONLY <1>1, <2>1, <3>2, <3>4 DEF u
<1>2. CASE ~(Len(t) > n)
  BY <1>2 DEF Newest, EndOf
<1> QED
  BY <1>1, <1>2

\* An end is a suffix as the library defines it.
LEMMA EndIsSuffix ==
  ASSUME NEW S, NEW s \in Seq(S), NEW t \in Seq(S), EndOf(s, t) PROVE IsSuffix(s, t)
<1> DEFINE r == Reverse(s)
           u == Reverse(t)
<1>1. /\ r \in Seq(S) /\ u \in Seq(S) /\ Len(r) = Len(s) /\ Len(u) = Len(t)
      /\ \A i \in 1 .. Len(s) : r[i] = s[Len(s) - i + 1]
      /\ \A i \in 1 .. Len(t) : u[i] = t[Len(t) - i + 1]
  BY DEF Reverse
<1>2. Len(s) <= Len(t) /\ Len(s) \in Nat /\ Len(t) \in Nat
  BY DEF EndOf
<1>3. ASSUME NEW i \in 1 .. Len(s) PROVE r[i] = u[i]
  <2>1. i \in 1 .. Len(t) /\ Len(s) - i + 1 \in 1 .. Len(s)
        /\ Len(t) - Len(s) + (Len(s) - i + 1) = Len(t) - i + 1
    BY <1>2
  <2>2. s[Len(s) - i + 1] = t[Len(t) - Len(s) + (Len(s) - i + 1)]
    BY <2>1 DEF EndOf
  <2> HIDE DEF r, u
  <2> QED
    BY <1>1, <2>1, <2>2
<1> HIDE DEF r, u
<1>4. SubSeq(r, 1, Len(r)) = SubSeq(u, 1, Len(r))
  BY <1>1, <1>2, <1>3
<1> QED
  BY <1>1, <1>2, <1>4 DEF IsSuffix, IsPrefix, r, u

\* Every sequence reaches as far back as itself...
LEMMA ReachesItself ==
  ASSUME NEW S, NEW t \in Seq(S), NEW n \in Nat PROVE Reaches(t, t, n)
BY NewestIs DEF Reaches, EndOf

\* ...and an end still does when both go on with the same element.
LEMMA ReachesOn ==
  ASSUME NEW S, NEW s \in Seq(S), NEW t \in Seq(S), NEW n \in Nat, NEW x \in S,
         Reaches(s, t, n)
  PROVE  Reaches(s \o <<x>>, t \o <<x>>, n)
<1> DEFINE s1 == s \o <<x>>
           t1 == t \o <<x>>
<1>1. /\ s1 \in Seq(S) /\ t1 \in Seq(S)
      /\ Len(s1) = Len(s) + 1 /\ Len(t1) = Len(t) + 1
      /\ s1[Len(s) + 1] = x /\ t1[Len(t) + 1] = x
      /\ \A i \in 1 .. Len(s) : s1[i] = s[i]
      /\ \A i \in 1 .. Len(t) : t1[i] = t[i]
  OBVIOUS
<1>2. Len(s) \in Nat /\ Len(t) \in Nat /\ Len(s) <= Len(t)
  BY DEF Reaches, EndOf
<1> HIDE DEF s1, t1
<1>3. ASSUME NEW i \in 1 .. Len(s1) PROVE s1[i] = t1[Len(t1) - Len(s1) + i]
  <2>1. CASE i \in 1 .. Len(s)
    <3>1. /\ Len(t) - Len(s) + i \in 1 .. Len(t)
          /\ Len(t1) - Len(s1) + i = Len(t) - Len(s) + i
      BY <1>1, <1>2, <2>1
    <3>2. s[i] = t[Len(t) - Len(s) + i]
      BY <2>1 DEF Reaches, EndOf
    <3> QED
      BY <1>1, <2>1, <3>1, <3>2
  <2>2. CASE i = Len(s) + 1
    <3>1. Len(t1) - Len(s1) + i = Len(t) + 1
      BY <1>1, <1>2, <2>2
    <3> QED
      BY <1>1, <2>2, <3>1
  <2> QED
    BY <1>1, <1>2, <2>1, <2>2
<1>4. Len(s1) >= Len(Newest(n, t1))
  <2>1. Len(Newest(n, t1)) = IF Len(t1) > n THEN n ELSE Len(t1)
    BY <1>1, NewestIs
  <2>2. Len(s) >= IF Len(t) > n THEN n ELSE Len(t)
    BY NewestIs DEF Reaches
  <2> QED
    BY <1>1, <1>2, <2>1, <2>2
<1> QED
  <2>1. Len(s1) <= Len(t1)
    BY <1>1, <1>2
  <2>2. EndOf(s1, t1)
    BY ONLY <1>3, <2>1 DEF EndOf
  <2> QED
    BY ONLY <1>4, <2>2 DEF Reaches, s1, t1

\* The newest of what is appended to the newest.
LEMMA NewestOfNewest ==
  ASSUME NEW S, NEW t \in Seq(S), NEW n \in Nat \ {0}, NEW x \in S
  PROVE  Newest(n, Newest(n, t) \o <<x>>) = Newest(n, t \o <<x>>)
<1> DEFINE u == Newest(n, t)
           u1 == u \o <<x>>
           t1 == t \o <<x>>
<1>1. /\ u \in Seq(S) /\ Len(u) = (IF Len(t) > n THEN n ELSE Len(t)) /\ Reaches(u, t, n)
  BY NewestIs DEF Reaches
<1> HIDE DEF u
<1>2. Reaches(u1, t1, n) /\ u1 \in Seq(S) /\ t1 \in Seq(S)
      /\ Len(u1) = Len(u) + 1 /\ Len(t1) = Len(t) + 1
  BY <1>1, ReachesOn
<1> HIDE DEF u1, t1
<1>3. /\ Newest(n, u1) \in Seq(S) /\ EndOf(Newest(n, u1), u1)
      /\ Len(Newest(n, u1)) = IF Len(u1) > n THEN n ELSE Len(u1)
  BY <1>2, NewestIs
<1>4. /\ Newest(n, t1) \in Seq(S) /\ EndOf(Newest(n, t1), t1)
      /\ Len(Newest(n, t1)) = IF Len(t1) > n THEN n ELSE Len(t1)
  BY <1>2, NewestIs
<1> DEFINE a == Newest(n, u1)
           b == Newest(n, t1)
<1> HIDE DEF a, b
<1>5. Len(t) \in Nat /\ Len(a) = Len(b) /\ Len(a) \in Nat
  BY <1>1, <1>2, <1>3, <1>4 DEF a, b
<1>6. ASSUME NEW i \in 1 .. Len(a) PROVE a[i] = b[i]
  <2>1. a[i] = u1[Len(u1) - Len(a) + i] /\ b[i] = t1[Len(t1) - Len(b) + i]
        /\ Len(a) <= Len(u1)
    BY <1>3, <1>4, <1>5 DEF EndOf, a, b
  <2>2. Len(u1) - Len(a) + i \in 1 .. Len(u1)
    BY <1>2, <1>1, <1>5, <2>1
  <2>3. u1[Len(u1) - Len(a) + i] = t1[Len(t1) - Len(u1) + (Len(u1) - Len(a) + i)]
    BY <1>2, <2>2 DEF Reaches, EndOf
  <2>4. Len(t1) - Len(u1) + (Len(u1) - Len(a) + i) = Len(t1) - Len(b) + i
    <3>1. Len(t1) \in Nat /\ Len(u1) \in Nat /\ Len(a) \in Nat /\ Len(a) = Len(b) /\ i \in Int
      BY <1>2, <1>5
    <3> QED
      BY ONLY <3>1
  <2> QED
    BY <2>1, <2>3, <2>4
<1>7. a = b
  BY <1>3, <1>4, <1>5, <1>6 DEF a, b
<1> QED
  BY <1>7 DEF a, b, u1, t1, u

-----------------------------------------------------------------------------
(* What one emission does to a picture and to a bus. *)

\* The limits of the three deques are positive.
LEMMA Limits ==
  /\ HistoryLimit \in Nat \ {0} /\ QueueLimit \in Nat \ {0} /\ TailLimit \in Nat \ {0}
  /\ HistoryLimit \in Nat /\ QueueLimit \in Nat /\ TailLimit \in Nat
BY BusAssumption

\* A picture shows the end of another, as far back as a bus remembers.
Mirrors(mine, true) ==
  /\ Reaches(mine.told, true.told, HistoryLimit)
  /\ \A a \in Agents : Reaches(mine.text[a], true.text[a], TailLimit)

\* The parts of a picture.
LEMMA PictureFields ==
  ASSUME NEW p \in Pictured
  PROVE  p.told \in Seq(Nat) /\ \A a \in Agents : p.text[a] \in Seq(Nat)
BY DEF Pictured

\* A picture mirrors itself...
LEMMA MirrorsItself == ASSUME NEW p \in Pictured PROVE Mirrors(p, p)
<1>1. Reaches(p.told, p.told, HistoryLimit)
  BY PictureFields, Limits, ReachesItself
<1>2. ASSUME NEW a \in Agents PROVE Reaches(p.text[a], p.text[a], TailLimit)
  BY PictureFields, Limits, ReachesItself
<1> QED
  BY <1>1, <1>2 DEF Mirrors

\* A reset is heard alike by everyone.
LEMMA ResetIsHeard ==
  ASSUME NEW p, NEW q, NEW e \in Event, e.type = "session_reset"
  PROVE  /\ Heard(p, e) = Heard(q, e)
         /\ Heard(p, e).told = e.ids
         /\ \A a \in Agents : Heard(p, e).text[a] = <<>>
BY DEF Heard, Nothing

\* What the picture is after any other event.
LEMMA HeardFields ==
  ASSUME NEW p \in Pictured, NEW e \in Event, e.type # "session_reset"
  PROVE  /\ Heard(p, e).told = IF e.type = "token" THEN p.told ELSE p.told \o e.ids
         /\ \A a \in Agents :
              Heard(p, e).text[a] =
                IF e.type \in Terminal \/ (e.type \in Turn /\ e.agent = a) THEN <<>>
                ELSE IF e.type = "token" /\ e.agent = a THEN p.text[a] \o e.ids
                ELSE p.text[a]
BY DEF Heard

\* ...and two that mirror each other still do when both hear the same emission.
LEMMA MirrorStep ==
  ASSUME NEW m \in Pictured, NEW t \in Pictured, NEW e \in Event, NEW x \in Nat,
         e.ids = <<x>>, Mirrors(m, t)
  PROVE  Mirrors(Heard(m, e), Heard(t, e))
<1>1. CASE e.type = "session_reset"
  <2>1. Heard(m, e) = Heard(t, e) /\ Heard(t, e) \in Pictured
    BY <1>1, ResetIsHeard, HeardIsPictured
  <2> QED
    BY <2>1, MirrorsItself
<1>2. CASE e.type # "session_reset"
  <2>1. Reaches(m.told \o <<x>>, t.told \o <<x>>, HistoryLimit)
    BY PictureFields, Limits, ReachesOn DEF Mirrors
  <2>2. Reaches(Heard(m, e).told, Heard(t, e).told, HistoryLimit)
    BY <1>2, <2>1, HeardFields DEF Mirrors
  <2>3. ASSUME NEW a \in Agents
        PROVE  Reaches(Heard(m, e).text[a], Heard(t, e).text[a], TailLimit)
    <3>1. Reaches(m.text[a], t.text[a], TailLimit)
      BY DEF Mirrors
    <3>2. Reaches(m.text[a] \o <<x>>, t.text[a] \o <<x>>, TailLimit)
      BY <3>1, PictureFields, Limits, ReachesOn
    <3>3. Reaches(<<>>, <<>>, TailLimit)
      <4>1. <<>> \in Seq(Nat)
        OBVIOUS
      <4> QED
        BY <4>1, Limits, ReachesItself
    <3> QED
      BY <1>2, <3>1, <3>2, <3>3, HeardFields
  <2> QED
    BY <2>2, <2>3 DEF Mirrors
<1> QED
  BY <1>1, <1>2

\* A bus holds the newest of what was emitted on it since its last reset, and
\* of the text of each agent; the last emission is the end of one of them.
BusRecord == [history : Seq(Event), streams : [Agents -> Seq(Nat)]]
Latest(seq, n) == Len(seq) > 0 /\ seq[Len(seq)] = n
Holds(history, seq) ==
  /\ Len(history) = Len(seq)
  /\ \A i \in 1 .. Len(history) :
       /\ history[i].ids = <<seq[i]>> /\ history[i].type # "token"
       /\ history[i].type = "session_reset" => i = 1
Keeps(bus, events) ==
  /\ bus \in BusRecord /\ events \in Seq(Event)
  /\ Holds(bus.history, Newest(HistoryLimit, Picture(events).told))
  /\ \A a \in Agents : bus.streams[a] = Newest(TailLimit, Picture(events).text[a])
  /\ \/ events = <<>>
     \/ Latest(Picture(events).told, Len(events))
     \/ \E a \in Agents : Latest(Picture(events).text[a], Len(events))

\* A history goes on with an event that is no token...
LEMMA HoldsOn ==
  ASSUME NEW h \in Seq(Event), NEW s \in Seq(Nat), Holds(h, s), NEW e \in Event, NEW x \in Nat,
         e.ids = <<x>>, e.type \notin {"token", "session_reset"}
  PROVE  Holds(Append(h, e), s \o <<x>>)
<1> DEFINE h1 == Append(h, e)
           s1 == s \o <<x>>
<1>1. /\ Len(h1) = Len(h) + 1 /\ Len(s1) = Len(s) + 1 /\ Len(h) \in Nat
      /\ h1[Len(h) + 1] = e /\ s1[Len(s) + 1] = x
      /\ \A i \in 1 .. Len(h) : h1[i] = h[i]
      /\ \A i \in 1 .. Len(s) : s1[i] = s[i]
  OBVIOUS
<1> HIDE DEF h1, s1
<1>2. ASSUME NEW i \in 1 .. Len(h1)
      PROVE  /\ h1[i].ids = <<s1[i]>> /\ h1[i].type # "token"
             /\ h1[i].type = "session_reset" => i = 1
  <2>1. CASE i \in 1 .. Len(h)
    BY <1>1, <2>1 DEF Holds
  <2>2. CASE i = Len(h) + 1
    BY <1>1, <2>2 DEF Holds
  <2> QED
    BY <1>1, <2>1, <2>2
<1> QED
  BY <1>1, <1>2 DEF Holds, h1, s1

\* ...and may forget its oldest events.
LEMMA HoldsNewest ==
  ASSUME NEW h \in Seq(Event), NEW s \in Seq(Nat), Holds(h, s), NEW n \in Nat
  PROVE  Holds(Newest(n, h), Newest(n, s))
<1> DEFINE h1 == Newest(n, h)
           s1 == Newest(n, s)
<1>1. /\ h1 \in Seq(Event) /\ EndOf(h1, h) /\ Len(h1) = IF Len(h) > n THEN n ELSE Len(h)
      /\ s1 \in Seq(Nat) /\ EndOf(s1, s) /\ Len(s1) = IF Len(s) > n THEN n ELSE Len(s)
  BY NewestIs
<1>2. Len(h) = Len(s) /\ Len(h) \in Nat
  BY DEF Holds
<1> HIDE DEF h1, s1
<1>3. ASSUME NEW i \in 1 .. Len(h1)
      PROVE  /\ h1[i].ids = <<s1[i]>> /\ h1[i].type # "token"
             /\ h1[i].type = "session_reset" => i = 1
  <2> DEFINE j == Len(h) - Len(h1) + i
  <2>1. h1[i] = h[j] /\ s1[i] = s[j] /\ Len(h1) <= Len(h) /\ Len(h1) \in Nat
    BY <1>1, <1>2 DEF EndOf
  <2>2. j \in 1 .. Len(h) /\ (j = 1 => i = 1)
    BY <1>2, <2>1
  <2> HIDE DEF j
  <2> QED
    BY <2>1, <2>2 DEF Holds
<1> QED
  <2>1. Len(h1) = Len(s1)
    BY ONLY <1>1, <1>2
  <2> QED
    BY ONLY <1>3, <2>1 DEF Holds, h1, s1

\* A new bus holds all of nothing.
LEMMA EmptyKeeps == Keeps(EmptyBus, <<>>)
<1>1. EmptyBus \in BusRecord /\ EmptyBus.history = <<>> /\ \A a \in Agents : EmptyBus.streams[a] = <<>>
  BY DEF EmptyBus, BusRecord
<1>2. Picture(<<>>).told = <<>> /\ \A a \in Agents : Picture(<<>>).text[a] = <<>>
  BY PictureOfNothing DEF Nothing
<1>3. Newest(HistoryLimit, <<>>) = <<>> /\ Newest(TailLimit, <<>>) = <<>>
  BY Limits DEF Newest
<1>4. Holds(<<>>, <<>>)
  BY DEF Holds
<1>5. <<>> \in Seq(Event)
  OBVIOUS
<1> HIDE DEF EmptyBus
<1> QED
  BY <1>1, <1>2, <1>3, <1>4, <1>5 DEF Keeps

\* What emit leaves is the record of a bus...
LEMMA RecordedIsBus ==
  ASSUME NEW bus \in BusRecord, NEW e \in Event PROVE Recorded(bus, e) \in BusRecord
<1>1. bus.history \in Seq(Event) /\ (\A a \in Agents : bus.streams[a] \in Seq(Nat)) /\ e.ids \in Seq(Nat)
  BY DEF BusRecord, Event
<1>2. Newest(HistoryLimit, Append(bus.history, e)) \in Seq(Event)
  <2>1. Append(bus.history, e) \in Seq(Event)
    BY <1>1
  <2> QED
    BY ONLY <2>1, Limits, NewestIs
<1>3. ASSUME NEW a \in Agents PROVE Newest(TailLimit, bus.streams[a] \o e.ids) \in Seq(Nat)
  <2>1. bus.streams[a] \o e.ids \in Seq(Nat)
    BY <1>1
  <2> QED
    BY <2>1, Limits, NewestIs
<1>4. Recorded(bus, e).history \in Seq(Event)
  BY <1>1, <1>2 DEF Recorded
<1>5. Recorded(bus, e).streams \in [Agents -> Seq(Nat)]
  BY <1>1, <1>3 DEF Recorded
<1>6. Recorded(bus, e) = [history |-> Recorded(bus, e).history, streams |-> Recorded(bus, e).streams]
  BY DEF Recorded
<1> QED
  BY <1>4, <1>5, <1>6 DEF BusRecord

\* ...at the end of which stands the emission...
LEMMA AppendIsLatest ==
  ASSUME NEW s \in Seq(Nat), NEW x \in Nat PROVE Latest(s \o <<x>>, x)
BY DEF Latest

\* ...and which keeps the newest of what was told, that emission included.
LEMMA RecordedKeeps ==
  ASSUME NEW bus, NEW events, Keeps(bus, events), NEW e \in Event,
         e.ids = <<Len(events) + 1>>, e.type # "session_reset",
         e.type = "token" => e.agent \in Agents
  PROVE  Keeps(Recorded(bus, e), Append(events, e))
<1> DEFINE x == Len(events) + 1
           all == Append(events, e)
           old == Picture(events)
           new == Picture(all)
           bus1 == Recorded(bus, e)
<1>1. bus \in BusRecord /\ events \in Seq(Event) /\ x \in Nat /\ Len(all) = x /\ all \in Seq(Event)
  BY DEF Keeps
<1>2. bus1 \in BusRecord
  BY <1>1, RecordedIsBus
<1>3. old \in Pictured /\ new = Heard(old, e)
  BY <1>1, PictureIsPictured, PictureGrows
<1>4. /\ bus.history \in Seq(Event) /\ \A a \in Agents : bus.streams[a] \in Seq(Nat)
      /\ old.told \in Seq(Nat) /\ \A a \in Agents : old.text[a] \in Seq(Nat)
  BY <1>1, <1>3, PictureFields DEF BusRecord
<1> HIDE DEF x, all, old, new
<1>5. Holds(bus1.history, Newest(HistoryLimit, new.told))
  <2>1. Holds(bus.history, Newest(HistoryLimit, old.told))
    BY DEF Keeps, old
  <2>2. CASE e.type = "token"
    <3>1. bus1.history = bus.history /\ new.told = old.told
      BY <1>3, <2>2, HeardFields DEF Recorded
    <3> QED
      BY <2>1, <3>1
  <2>3. CASE e.type # "token"
    <3>1. /\ bus1.history = Newest(HistoryLimit, Append(bus.history, e))
          /\ new.told = old.told \o <<x>>
      BY <1>3, <2>3, HeardFields DEF Recorded, x
    <3> DEFINE kept == Newest(HistoryLimit, old.told)
    <3>2. kept \in Seq(Nat)
      BY <1>4, Limits, NewestIs
    <3>3. Newest(HistoryLimit, kept \o <<x>>) = Newest(HistoryLimit, new.told)
      BY <1>1, <1>4, <3>1, Limits, NewestOfNewest
    <3> HIDE DEF kept
    <3>4. Holds(Append(bus.history, e), kept \o <<x>>)
      BY <1>1, <1>4, <2>1, <2>3, <3>2, HoldsOn DEF x, kept
    <3>5. Append(bus.history, e) \in Seq(Event) /\ kept \o <<x>> \in Seq(Nat)
      BY <1>1, <1>4, <3>2
    <3>6. Holds(Newest(HistoryLimit, Append(bus.history, e)), Newest(HistoryLimit, kept \o <<x>>))
      BY <3>4, <3>5, Limits, HoldsNewest
    <3> QED
      BY <3>1, <3>3, <3>6
  <2> QED
    BY <2>2, <2>3
<1>6. ASSUME NEW a \in Agents PROVE bus1.streams[a] = Newest(TailLimit, new.text[a])
  <2>1. bus.streams[a] = Newest(TailLimit, old.text[a])
    BY DEF Keeps, old
  <2>2. Newest(TailLimit, <<>>) = <<>>
    BY Limits DEF Newest
  <2>3. CASE e.type \in Terminal \/ (e.type \in Turn /\ e.agent = a)
    <3>1. bus1.streams[a] = <<>> /\ new.text[a] = <<>>
      BY <1>3, <2>3, HeardFields DEF Recorded, Terminal, Turn
    <3> QED
      BY <2>2, <3>1
  <2>4. CASE e.type = "token" /\ e.agent = a
    <3>1. /\ bus1.streams[a] = Newest(TailLimit, bus.streams[a] \o <<x>>)
          /\ new.text[a] = old.text[a] \o <<x>>
      BY <1>3, <2>4, HeardFields DEF Recorded, x, Terminal, Turn
    <3> QED
      BY <1>1, <1>4, <2>1, <3>1, Limits, NewestOfNewest
  <2>5. CASE ~(e.type \in Terminal \/ (e.type \in Turn /\ e.agent = a)) /\ ~(e.type = "token" /\ e.agent = a)
    <3>1. bus1.streams[a] = bus.streams[a] /\ new.text[a] = old.text[a]
      BY <1>3, <2>5, HeardFields DEF Recorded
    <3> QED
      BY <2>1, <3>1
  <2> QED
    BY <2>3, <2>4, <2>5
<1>7. Latest(new.told, x) \/ \E a \in Agents : Latest(new.text[a], x)
  <2>1. CASE e.type = "token"
    <3>1. e.agent \in Agents /\ new.text[e.agent] = old.text[e.agent] \o <<x>>
      <4>1. e.agent \in Agents /\ e.ids = <<x>>
        BY <2>1 DEF x
      <4>2. ~(e.type \in Terminal \/ (e.type \in Turn /\ e.agent = e.agent)) /\ e.type # "session_reset"
        BY <2>1 DEF Terminal, Turn
      <4>3. new.text[e.agent] = old.text[e.agent] \o e.ids
        BY <1>3, <2>1, <4>1, <4>2, HeardFields
      <4> QED
        BY ONLY <4>1, <4>3
    <3>2. Latest(new.text[e.agent], x)
      BY <1>1, <1>4, <3>1, AppendIsLatest
    <3> QED
      BY <3>1, <3>2
  <2>2. CASE e.type # "token"
    <3>1. new.told = old.told \o <<x>>
      BY <1>3, <2>2, HeardFields DEF x
    <3> QED
      BY <1>1, <1>4, <3>1, AppendIsLatest
  <2> QED
    BY <2>1, <2>2
<1> HIDE DEF bus1
<1> QED
  BY <1>1, <1>2, <1>5, <1>6, <1>7 DEF Keeps, new, all, bus1

\* After a reset a bus keeps the reset alone, and that is all there is to show.
LEMMA ResetKeeps ==
  ASSUME NEW events \in Seq(Event), NEW e \in Event, e.ids = <<Len(events) + 1>>,
         e.type = "session_reset"
  PROVE  Keeps(Recorded(EmptyBus, e), Append(events, e))
<1> DEFINE x == Len(events) + 1
           all == Append(events, e)
           new == Picture(all)
           bus1 == Recorded(EmptyBus, e)
<1>1. x \in Nat /\ Len(all) = x /\ all \in Seq(Event)
  OBVIOUS
<1>2. bus1 \in BusRecord
  BY EmptyKeeps, RecordedIsBus DEF Keeps
<1>3. new.told = <<x>> /\ \A a \in Agents : new.text[a] = <<>>
  BY PictureGrows, ResetIsHeard
<1>4. bus1.history = <<e>> /\ \A a \in Agents : bus1.streams[a] = <<>>
  <2>1. Append(<<>>, e) = <<e>> /\ Len(<<e>>) = 1
    OBVIOUS
  <2>2. Newest(HistoryLimit, <<e>>) = <<e>>
    BY <2>1, Limits DEF Newest
  <2> QED
    BY <2>1, <2>2 DEF Recorded, EmptyBus, Terminal, Turn
<1>5. Newest(HistoryLimit, <<x>>) = <<x>> /\ Newest(TailLimit, <<>>) = <<>>
  BY Limits DEF Newest
<1> HIDE DEF x, all, new, bus1
<1>6. Holds(<<e>>, <<x>>)
  BY DEF Holds, x
<1>7. Latest(new.told, x)
  BY <1>1, <1>3 DEF Latest
<1> QED
  BY <1>1, <1>2, <1>3, <1>4, <1>5, <1>6, <1>7 DEF Keeps, new, all, bus1

-----------------------------------------------------------------------------
(* Queues. *)

\* A connection.
Socket ==
  [pc : {"off", "greeting", "open", "gone", "closed"}, bus : Nat,
   queue : Seq(Event), heard : Seq(Event), lost : BOOLEAN]

\* Connections with the same fields are the same.
LEMMA SameSocket ==
  ASSUME NEW k \in Socket, NEW l \in Socket, k.pc = l.pc, k.bus = l.bus,
         k.queue = l.queue, k.heard = l.heard, k.lost = l.lost
  PROVE  k = l
BY DEF Socket

\* A queue takes an event; it drops one only when it is full.
LEMMA Enqueued ==
  ASSUME NEW k \in Socket, NEW e \in Event, Len(k.queue) <= QueueLimit
  PROVE  /\ Enqueue(k, e) \in Socket
         /\ Enqueue(k, e).pc = k.pc /\ Enqueue(k, e).bus = k.bus /\ Enqueue(k, e).heard = k.heard
         /\ Len(k.queue) < QueueLimit =>
              Enqueue(k, e).queue = Append(k.queue, e) /\ Enqueue(k, e).lost = k.lost
         /\ Len(k.queue) = QueueLimit =>
              /\ Len(Enqueue(k, e).queue) = QueueLimit /\ Enqueue(k, e).lost = TRUE
              /\ Enqueue(k, e).queue[QueueLimit] = e
              /\ \A i \in 1 .. (QueueLimit - 1) : Enqueue(k, e).queue[i] = k.queue[i + 1]
<1> DEFINE q == k.queue
           n == QueueLimit - 1
           q1 == Newest(n, q)
           r == Enqueue(k, e)
<1>1. q \in Seq(Event) /\ k.lost \in BOOLEAN /\ n \in Nat /\ n + 1 = QueueLimit
  BY Limits DEF Socket
<1>2. q1 \in Seq(Event) /\ Len(q1) = (IF Len(q) > n THEN n ELSE Len(q)) /\ EndOf(q1, q)
  BY <1>1, NewestIs
<1>3. r = [k EXCEPT !.queue = Append(q1, e), !.lost = k.lost \/ Len(q) >= QueueLimit]
  BY DEF Enqueue
<1>4. (k.lost \/ Len(q) >= QueueLimit) \in BOOLEAN
  OBVIOUS
<1>5. Append(q1, e) \in Seq(Event)
  BY <1>2
<1>6. /\ r.queue = Append(q1, e) /\ r.lost = (k.lost \/ Len(q) >= QueueLimit)
      /\ r.pc = k.pc /\ r.bus = k.bus /\ r.heard = k.heard /\ r \in Socket
  <2> HIDE DEF q1, q
  <2> QED
    BY <1>3, <1>4, <1>5 DEF Socket
<1> HIDE DEF r
<1>7. CASE Len(q) < QueueLimit
  <2>1. Len(q) \in Nat /\ ~(Len(q) >= QueueLimit) /\ ~(Len(q) > n)
    BY <1>1, <1>7
  <2>2. q1 = q
    BY <1>1, <2>1 DEF Newest
  <2>3. r.lost = k.lost
    BY <1>1, <1>6, <2>1
  <2> QED
    BY <1>6, <1>7, <2>1, <2>2, <2>3 DEF r
<1>8. CASE Len(q) = QueueLimit
  <2>1. Len(q1) = n /\ \A i \in 1 .. n : q1[i] = q[i + 1]
    <3>1. Len(q1) = n
      BY <1>1, <1>2, <1>8
    <3>2. \A i \in 1 .. n : Len(q) - Len(q1) + i = i + 1
      BY <1>1, <1>8, <3>1
    <3> QED
      BY <1>2, <3>1, <3>2 DEF EndOf
  <2> DEFINE s == Append(q1, e)
  <2>2. Len(s) = n + 1 /\ s[n + 1] = e /\ \A i \in 1 .. n : s[i] = q1[i]
    BY <1>2, <2>1
  <2> HIDE DEF s, q1, q, n
  <2>3. r.lost = TRUE
    <3>1. Len(q) >= QueueLimit
      BY ONLY <1>8, Limits
    <3>2. r.lost = (k.lost \/ Len(q) >= QueueLimit)
      BY <1>6
    <3> QED
      BY ONLY <3>1, <3>2, Zenon
  <2> QED
    BY <1>1, <1>6, <1>8, <2>1, <2>2, <2>3 DEF r, s, q, n
<1>9. Len(q) < QueueLimit \/ Len(q) = QueueLimit
  BY <1>1
<1> QED
  BY <1>6, <1>7, <1>8, <1>9 DEF r

Width(n) == IF n > QueueLimit THEN QueueLimit ELSE n

\* A queue that was empty holds the newest of what was put into it.
LEMMA FilledIs ==
  ASSUME NEW k \in Socket, k.queue = <<>>, k.lost = FALSE, NEW events \in Seq(Event)
  PROVE  LET n == Len(events)
             r == Filled(k, events)
         IN  /\ r \in Socket /\ r.pc = k.pc /\ r.bus = k.bus /\ r.heard = k.heard
             /\ Len(r.queue) = Width(n)
             /\ \A i \in 1 .. Width(n) : r.queue[i] = events[n - Width(n) + i]
             /\ r.lost = (n > QueueLimit)
<1> DEFINE L == Len(events)
           q == CHOOSE q : q = [n \in 0 .. L |-> IF n = 0 THEN k ELSE Enqueue(q[n - 1], events[n])]
           window(n) == [i \in 1 .. Width(n) |-> events[n - Width(n) + i]]
           p == [n \in 0 .. L |-> [k EXCEPT !.queue = window(n), !.lost = (n > QueueLimit)]]
<1>1. Filled(k, events) = q[L]
  BY DEF Filled
<1>2. L \in Nat /\ \A n \in 1 .. L : events[n] \in Event
  OBVIOUS
<1>3. ASSUME NEW n \in 0 .. L
      PROVE  /\ window(n) \in Seq(Event) /\ Len(window(n)) = Width(n) /\ Width(n) <= QueueLimit
             /\ Width(n) \in Nat
             /\ p[n] \in Socket /\ p[n].queue = window(n) /\ p[n].lost = (n > QueueLimit)
             /\ p[n].pc = k.pc /\ p[n].bus = k.bus /\ p[n].heard = k.heard
  <2>1. Width(n) \in Nat /\ Width(n) <= n /\ Width(n) <= QueueLimit
    BY <1>2, Limits DEF Width
  <2>2. \A i \in 1 .. Width(n) : n - Width(n) + i \in 1 .. L
    BY <1>2, <2>1
  <2>3. window(n) \in Seq(Event) /\ Len(window(n)) = Width(n)
    <3>1. \A i \in 1 .. Width(n) : events[n - Width(n) + i] \in Event
      BY ONLY <1>2, <2>2
    <3> DEFINE w == Width(n)
               at(i) == events[n - w + i]
    <3>2. w \in Nat /\ \A i \in 1 .. w : at(i) \in Event
      BY ONLY <2>1, <3>1
    <3> HIDE DEF w, at
    <3>3. [i \in 1 .. w |-> at(i)] \in Seq(Event) /\ Len([i \in 1 .. w |-> at(i)]) = w
      BY ONLY <3>2
    <3> QED
      BY ONLY <3>3 DEF w, at
  <2>4. p[n] = [k EXCEPT !.queue = window(n), !.lost = (n > QueueLimit)]
    OBVIOUS
  <2>5. (n > QueueLimit) \in BOOLEAN
    OBVIOUS
  <2> HIDE DEF window, p
  <2>6. /\ p[n] \in Socket /\ p[n].queue = window(n) /\ p[n].lost = (n > QueueLimit)
        /\ p[n].pc = k.pc /\ p[n].bus = k.bus /\ p[n].heard = k.heard
    BY <2>3, <2>4, <2>5 DEF Socket
  <2> QED
    BY <2>1, <2>3, <2>6
<1>4. p[0] = k
  <2>1. window(0) = <<>> /\ ~(0 > QueueLimit) /\ 0 \in 0 .. L
    BY <1>2, Limits DEF Width
  <2>2. p[0] \in Socket /\ p[0].queue = <<>> /\ p[0].lost = FALSE
        /\ p[0].pc = k.pc /\ p[0].bus = k.bus /\ p[0].heard = k.heard
    <3> HIDE DEF p, window, L
    <3>1. /\ p[0] \in Socket /\ p[0].queue = window(0) /\ p[0].lost = (0 > QueueLimit)
          /\ p[0].pc = k.pc /\ p[0].bus = k.bus /\ p[0].heard = k.heard
      BY ONLY <1>3, <2>1
    <3>2. (0 > QueueLimit) = FALSE
      BY ONLY <2>1
    <3> QED
      BY ONLY <2>1, <3>1, <3>2
  <2> HIDE DEF p, window
  <2> QED
    BY <2>2 DEF Socket
<1>5. ASSUME NEW n \in 1 .. L PROVE p[n] = Enqueue(p[n - 1], events[n])
  <2> DEFINE m == n - 1
             e == events[n]
             r == Enqueue(p[m], e)
  <2>1. m \in 0 .. L /\ n \in 0 .. L /\ n = m + 1 /\ e \in Event /\ m \in Nat /\ n \in Nat
    BY <1>2
  <2>2. /\ p[m] \in Socket /\ p[m].queue = window(m) /\ Len(window(m)) = Width(m)
        /\ window(m) \in Seq(Event)
        /\ p[m].lost = (m > QueueLimit) /\ Width(m) <= QueueLimit
        /\ p[m].pc = k.pc /\ p[m].bus = k.bus /\ p[m].heard = k.heard
    BY <1>3, <2>1
  <2>3. /\ p[n] \in Socket /\ p[n].queue = window(n) /\ Len(window(n)) = Width(n)
        /\ window(n) \in Seq(Event)
        /\ p[n].lost = (n > QueueLimit) /\ Width(n) <= QueueLimit
        /\ p[n].pc = k.pc /\ p[n].bus = k.bus /\ p[n].heard = k.heard
    BY <1>3, <2>1
  <2>4. /\ \A i \in 1 .. Width(n) : window(n)[i] = events[n - Width(n) + i]
        /\ \A i \in 1 .. Width(m) : window(m)[i] = events[m - Width(m) + i]
    OBVIOUS
  <2> HIDE DEF p, window, r, m, e
  <2>5. /\ r \in Socket /\ r.pc = k.pc /\ r.bus = k.bus /\ r.heard = k.heard
        /\ Width(m) < QueueLimit => r.queue = Append(window(m), e) /\ r.lost = p[m].lost
        /\ Width(m) = QueueLimit =>
             /\ Len(r.queue) = QueueLimit /\ r.lost = TRUE /\ r.queue[QueueLimit] = e
             /\ \A i \in 1 .. (QueueLimit - 1) : r.queue[i] = window(m)[i + 1]
    <3>1. p[m] \in Socket /\ e \in Event /\ Len(p[m].queue) <= QueueLimit
      BY ONLY <2>1, <2>2
    <3>2. /\ r \in Socket /\ r.pc = p[m].pc /\ r.bus = p[m].bus /\ r.heard = p[m].heard
          /\ Len(p[m].queue) < QueueLimit => r.queue = Append(p[m].queue, e) /\ r.lost = p[m].lost
          /\ Len(p[m].queue) = QueueLimit =>
               /\ Len(r.queue) = QueueLimit /\ r.lost = TRUE /\ r.queue[QueueLimit] = e
               /\ \A i \in 1 .. (QueueLimit - 1) : r.queue[i] = p[m].queue[i + 1]
      BY ONLY <3>1, Enqueued DEF r
    <3> QED
      BY ONLY <2>2, <3>2
  <2>6. r.queue \in Seq(Event)
    BY <2>5 DEF Socket
  <2>7. CASE m < QueueLimit
    <3>1. Width(m) = m /\ Width(n) = n /\ ~(m > QueueLimit) /\ ~(n > QueueLimit) /\ Width(m) < QueueLimit
      BY <2>1, <2>7, Limits DEF Width
    <3>2. r.queue = Append(window(m), e) /\ r.lost = (n > QueueLimit)
      BY <2>2, <2>5, <3>1
    <3>3. Len(r.queue) = n /\ r.queue[n] = e /\ \A i \in 1 .. m : r.queue[i] = window(m)[i]
      BY <2>1, <2>2, <3>1, <3>2
    <3>4. ASSUME NEW i \in 1 .. n PROVE r.queue[i] = window(n)[i]
      <4>1. n - n + i = i /\ (i = n \/ (i \in 1 .. m /\ m - m + i = i))
        BY <2>1
      <4>2. window(n)[i] = events[i]
        BY <2>4, <3>1, <4>1
      <4>3. ASSUME i \in 1 .. m PROVE window(m)[i] = events[i]
        <5>1. m - m + i = i /\ i \in 1 .. Width(m)
          BY ONLY <2>1, <3>1, <4>3
        <5>2. window(m)[i] = events[m - Width(m) + i]
          BY ONLY <2>4, <5>1
        <5> QED
          BY ONLY <3>1, <5>1, <5>2
      <4> QED
        BY <3>3, <4>1, <4>2, <4>3 DEF e
    <3>5. r.queue = window(n)
      BY <2>3, <2>6, <3>1, <3>3, <3>4
    <3> QED
      <4>1. r.queue = p[n].queue /\ r.lost = p[n].lost
        BY ONLY <2>3, <3>2, <3>5
      <4>2. r = p[n]
        <5>1. r \in Socket /\ p[n] \in Socket
          BY ONLY <2>3, <2>5
        <5>2. r.pc = p[n].pc /\ r.bus = p[n].bus /\ r.heard = p[n].heard
          BY ONLY <2>3, <2>5
        <5> QED
          BY ONLY <4>1, <5>1, <5>2, SameSocket
      <4> QED
        BY ONLY <4>2 DEF r, m, e
  <2>8. CASE ~(m < QueueLimit)
    <3>1. Width(m) = QueueLimit /\ Width(n) = QueueLimit /\ n > QueueLimit
      BY <2>1, <2>8, Limits DEF Width
    <3>2. /\ Len(r.queue) = QueueLimit /\ r.lost = TRUE /\ r.queue[QueueLimit] = e
          /\ \A i \in 1 .. (QueueLimit - 1) : r.queue[i] = window(m)[i + 1]
      BY <2>5, <3>1
    <3>3. ASSUME NEW i \in 1 .. QueueLimit PROVE r.queue[i] = window(n)[i]
      <4>1. window(n)[i] = events[n - QueueLimit + i]
        BY <2>4, <3>1
      <4>2. CASE i = QueueLimit
        <5>1. n - QueueLimit + i = n
          BY <2>1, <4>2, Limits
        <5> QED
          BY <3>2, <4>1, <4>2, <5>1 DEF e
      <4>3. CASE i # QueueLimit
        <5>1. /\ i \in 1 .. (QueueLimit - 1) /\ i + 1 \in 1 .. QueueLimit
              /\ m - QueueLimit + (i + 1) = n - QueueLimit + i
          BY <2>1, <4>3, Limits
        <5>2. window(m)[i + 1] = events[m - QueueLimit + (i + 1)]
          BY <2>4, <3>1, <5>1
        <5> QED
          BY <3>2, <4>1, <5>1, <5>2
      <4> QED
        BY <4>2, <4>3
    <3>4. r.queue = window(n)
      BY <2>3, <2>6, <3>1, <3>2, <3>3
    <3> QED
      <4>1. r.queue = p[n].queue /\ r.lost = p[n].lost
        BY ONLY <2>3, <3>1, <3>2, <3>4
      <4>2. r = p[n]
        <5>1. r \in Socket /\ p[n] \in Socket
          BY ONLY <2>3, <2>5
        <5>2. r.pc = p[n].pc /\ r.bus = p[n].bus /\ r.heard = p[n].heard
          BY ONLY <2>3, <2>5
        <5> QED
          BY ONLY <4>1, <5>1, <5>2, SameSocket
      <4> QED
        BY ONLY <4>2 DEF r, m, e
  <2> QED
    BY <2>7, <2>8
<1>6. \A n \in 0 .. L : p[n] = IF n = 0 THEN k ELSE Enqueue(p[n - 1], events[n])
  <2> HIDE DEF p
  <2>1. \A n \in 0 .. L : n # 0 => n \in 1 .. L
    BY <1>2
  <2> QED
    BY <1>4, <1>5, <2>1
<1>7. p = [n \in 0 .. L |-> IF n = 0 THEN k ELSE Enqueue(p[n - 1], events[n])]
  <2>1. p = [n \in 0 .. L |-> p[n]]
    OBVIOUS
  <2> HIDE DEF p
  <2> QED
    BY <1>6, <2>1
<1> HIDE DEF p, window
<1>8. \A n \in 0 .. L : q[n] = IF n = 0 THEN k ELSE Enqueue(q[n - 1], events[n])
  BY <1>7
<1> HIDE DEF q
<1> DEFINE S == {n \in 0 .. L : p[n] = q[n]}
<1>9. 0 \in S
  BY <1>2, <1>4, <1>8
<1>10. ASSUME NEW n \in 0 .. (L - 1), n \in S PROVE n + 1 \in S
  <2>1. n + 1 \in 1 .. L /\ (n + 1) - 1 = n /\ n + 1 # 0 /\ n + 1 \in 0 .. L
    BY <1>2
  <2>2. p[n + 1] = Enqueue(p[n], events[n + 1])
    BY <1>5, <2>1
  <2>3. q[n + 1] = Enqueue(q[n], events[n + 1])
    BY <1>8, <2>1
  <2> QED
    BY <1>10, <2>1, <2>2, <2>3
<1>11. L \in S
  <2> HIDE DEF S, L
  <2>1. 0 .. L \subseteq S
    BY <1>2, <1>9, <1>10, Upto
  <2> QED
    BY <1>2, <2>1
<1>12. q[L] = p[L] /\ L \in 0 .. L
  BY <1>2, <1>11
<1>13. \A i \in 1 .. Width(L) : window(L)[i] = events[L - Width(L) + i]
  BY DEF window
<1> QED
  BY <1>1, <1>3, <1>12, <1>13

-----------------------------------------------------------------------------
(* A late subscriber. *)

\* A late subscriber gets one event for each agent that is speaking, with its tail.
\* There are fewer of them than a queue takes: the assumption on Agents is used here.
LEMMA JoinedIs ==
  ASSUME NEW bus \in BusRecord
  PROVE  LET j == Joined(bus)
             s == Speakers(bus)
         IN  /\ j \in Seq(Event) /\ Len(j) < QueueLimit
             /\ \A i \in 1 .. Len(j) : /\ s[i] \in Agents /\ bus.streams[s[i]] # <<>>
                                       /\ j[i].type = "token" /\ j[i].agent = s[i]
                                       /\ j[i].ids = bus.streams[s[i]]
             /\ \A i, l \in 1 .. Len(j) : s[i] = s[l] => i = l
             /\ \A a \in Agents : bus.streams[a] # <<>> => \E i \in 1 .. Len(j) : s[i] = a
<1> DEFINE S == {a \in Agents : bus.streams[a] # <<>>}
           n == Cardinality(S)
           s == Speakers(bus)
           j == Joined(bus)
<1>1. IsFiniteSet(S) /\ n \in Nat /\ n <= Cardinality(Agents) /\ Cardinality(Agents) \in Nat
      /\ Cardinality(Agents) < QueueLimit
  <2>1. IsFiniteSet(Agents) /\ S \in SUBSET Agents
    BY BusAssumption
  <2>2. IsFiniteSet(S) /\ n <= Cardinality(Agents)
    BY <2>1, FS_Subset
  <2> QED
    BY <2>1, <2>2, FS_CardinalityType, BusAssumption
<1>2. s \in [1 .. n -> S] /\ IsInjective(s)
  <2>1. ExistsBijection(1 .. n, S)
    BY <1>1, FS_CardinalityType
  <2>2. PICK f : f \in [1 .. n -> S] /\ IsInjective(f)
    BY <2>1 DEF ExistsBijection, Bijection, Injection
  <2> HIDE DEF S
  <2>3. s = CHOOSE g \in [1 .. n -> S] : IsInjective(g)
    BY DEF Speakers, SetToSeq, S
  <2> HIDE DEF s
  <2> QED
    BY <2>2, <2>3
<1>3. \A a \in S : \E i \in 1 .. n : s[i] = a
  <2>1. s \in Injection(1 .. n, S)
    BY <1>2 DEF Injection
  <2>2. Cardinality(1 .. n) = n
    BY <1>1, FS_Interval
  <2> HIDE DEF S, s
  <2>3. s \in Surjection(1 .. n, S)
    BY <1>1, <2>1, <2>2, FS_Injection DEF n
  <2> QED
    BY <2>3 DEF Surjection
<1>4. j = [i \in 1 .. n |-> [type |-> "token", agent |-> s[i], ids |-> bus.streams[s[i]]]]
  BY <1>2 DEF Joined
<1>5. \A a \in S : a \in Agents /\ bus.streams[a] # <<>> /\ bus.streams[a] \in Seq(Nat)
  BY DEF BusRecord
<1> HIDE DEF S, s, n, j
<1>6. /\ \A i \in 1 .. n : j[i] = [type |-> "token", agent |-> s[i], ids |-> bus.streams[s[i]]]
      /\ \A i \in 1 .. n : j[i] \in Event
      /\ j = [i \in 1 .. n |-> j[i]]
  <2>1. \A i \in 1 .. n : j[i] = [type |-> "token", agent |-> s[i], ids |-> bus.streams[s[i]]]
    BY ONLY <1>4
  <2>2. j = [i \in 1 .. n |-> j[i]]
    BY ONLY <1>4
  <2>3. ASSUME NEW i \in 1 .. n PROVE j[i] \in Event
    <3>1. s[i] \in Agents /\ bus.streams[s[i]] \in Seq(Nat)
      BY ONLY <1>2, <1>5
    <3> QED
      <4>1. j[i] = [type |-> "token", agent |-> s[i], ids |-> bus.streams[s[i]]]
        BY ONLY <2>1
      <4>2. s[i] \in Agents \cup {Nobody}
        BY ONLY <3>1
      <4>3. "token" \in Kinds
        BY DEF Kinds
      <4> QED
        BY ONLY <3>1, <4>1, <4>2, <4>3 DEF Event
  <2> QED
    BY ONLY <2>1, <2>2, <2>3
<1>7. j \in Seq(Event) /\ Len(j) = n
  BY <1>1, <1>6
<1>8. \A i, l \in 1 .. n : s[i] = s[l] => i = l
  BY <1>2 DEF IsInjective
<1>9. \A a \in Agents : bus.streams[a] # <<>> => \E i \in 1 .. n : s[i] = a
  BY <1>3 DEF S
<1>10. Len(j) < QueueLimit
  BY <1>1, <1>7, Limits
<1>11. \A i \in 1 .. n : /\ s[i] \in Agents /\ bus.streams[s[i]] # <<>>
                         /\ j[i].type = "token" /\ j[i].agent = s[i]
                         /\ j[i].ids = bus.streams[s[i]]
  BY <1>2, <1>5, <1>6
<1> QED
  BY <1>7, <1>8, <1>9, <1>10, <1>11 DEF j, s

\* The history tells the newest of what was told, and no text...
LEMMA HistoryTells ==
  ASSUME NEW history \in Seq(Event), NEW kept \in Seq(Nat), Holds(history, kept),
         NEW rest \in Seq(Event), NEW p, IsTelling(p, history \o rest)
  PROVE  /\ p[Len(history)].told = kept
         /\ \A a \in Agents : p[Len(history)].text[a] = <<>>
<1> DEFINE h == Len(history)
           all == history \o rest
           S == {n \in 0 .. h : /\ p[n].told = SubSeq(kept, 1, n)
                                /\ \A a \in Agents : p[n].text[a] = <<>>}
<1>1. /\ all \in Seq(Event) /\ Len(all) = h + Len(rest) /\ h \in Nat /\ Len(rest) \in Nat
      /\ h = Len(kept)
      /\ \A n \in 1 .. h : all[n] = history[n]
  BY DEF Holds
<1> HIDE DEF all
<1>2. \A n \in 0 .. Len(all) : p[n] \in Pictured
  BY <1>1, TellingIsPictured DEF all
<1>3. 0 \in S
  <2>1. p[0] = Nothing
    BY DEF IsTelling
  <2>2. SubSeq(kept, 1, 0) = <<>>
    OBVIOUS
  <2> QED
    <3>1. p[0].told = <<>> /\ \A a \in Agents : p[0].text[a] = <<>>
      BY ONLY <2>1 DEF Nothing
    <3>2. 0 \in 0 .. h
      BY ONLY <1>1
    <3> HIDE DEF h
    <3> QED
      BY ONLY <2>2, <3>1, <3>2 DEF S
<1>4. ASSUME NEW n \in 0 .. (h - 1), n \in S PROVE n + 1 \in S
  <2> DEFINE e == history[n + 1]
  <2>1. /\ n + 1 \in 1 .. Len(all) /\ n + 1 \in 1 .. h /\ (n + 1) - 1 = n
        /\ n \in 0 .. Len(all) /\ n + 1 \in 0 .. h
    BY <1>1
  <2>2. p[n + 1] = Heard(p[n], e) /\ e \in Event /\ p[n] \in Pictured
    <3>1. all[n + 1] = e /\ e \in Event
      BY ONLY <1>1, <2>1, history \in Seq(Event)
    <3>2. p[n + 1] = Heard(p[(n + 1) - 1], all[n + 1])
      BY ONLY <2>1, IsTelling(p, history \o rest) DEF IsTelling, all
    <3> QED
      BY ONLY <1>2, <2>1, <3>1, <3>2
  <2>3. e.ids = <<kept[n + 1]>> /\ e.type # "token" /\ (e.type = "session_reset" => n + 1 = 1)
    BY <2>1 DEF Holds
  <2>4. p[n].told = SubSeq(kept, 1, n) /\ \A a \in Agents : p[n].text[a] = <<>>
    BY <1>4
  <2>5. SubSeq(kept, 1, n + 1) = SubSeq(kept, 1, n) \o <<kept[n + 1]>>
    BY <1>1, <2>1
  <2> HIDE DEF e
  <2>6. CASE e.type = "session_reset"
    <3>1. n = 0
      BY <2>3, <2>6
    <3>2. SubSeq(kept, 1, 0) \o <<kept[n + 1]>> = <<kept[n + 1]>>
      <4>1. SubSeq(kept, 1, 0) = <<>>
        OBVIOUS
      <4>2. \A v : <<>> \o <<v>> = <<v>>
        OBVIOUS
      <4> QED
        BY ONLY <4>1, <4>2
    <3>3. p[n + 1].told = e.ids /\ \A a \in Agents : p[n + 1].text[a] = <<>>
      BY <2>2, <2>6, ResetIsHeard
    <3> QED
      BY <2>1, <2>3, <2>5, <3>1, <3>2, <3>3
  <2>7. CASE e.type # "session_reset"
    <3>1. p[n + 1].told = SubSeq(kept, 1, n) \o <<kept[n + 1]>>
      <4>1. p[n + 1].told = p[n].told \o e.ids
        <5>1. Heard(p[n], e).told = p[n].told \o e.ids
          BY <2>2, <2>3, <2>7, HeardFields
        <5> QED
          BY ONLY <2>2, <5>1
      <4> QED
        BY ONLY <2>3, <2>4, <4>1
    <3>2. \A a \in Agents : p[n + 1].text[a] = <<>>
      <4> SUFFICES ASSUME NEW a \in Agents PROVE p[n + 1].text[a] = <<>>
        OBVIOUS
      <4>1. Heard(p[n], e).text[a] = <<>> \/ Heard(p[n], e).text[a] = p[n].text[a]
        BY <2>2, <2>3, <2>7, HeardFields
      <4> QED
        BY ONLY <2>2, <2>4, <4>1
    <3> QED
      BY <2>1, <2>5, <3>1, <3>2
  <2> QED
    BY <2>6, <2>7
<1>5. 0 .. h \subseteq S
  <2> HIDE DEF S, h
  <2> QED
    BY <1>1, <1>3, <1>4, Upto
<1>6. SubSeq(kept, 1, h) = kept /\ h \in 0 .. h
  BY <1>1
<1>7. h \in S
  BY <1>5, <1>6
<1> QED
  BY <1>6, <1>7

\* ...and the joined tails tell the text of each agent that is speaking.
LEMMA ReplayTells ==
  ASSUME NEW bus, NEW events, Keeps(bus, events)
  PROVE  LET all == bus.history \o Joined(bus)
         IN  /\ Picture(all).told = Newest(HistoryLimit, Picture(events).told)
             /\ \A a \in Agents : Picture(all).text[a] = Newest(TailLimit, Picture(events).text[a])
<1> DEFINE h == Len(bus.history)
           j == Joined(bus)
           s == Speakers(bus)
           all == bus.history \o j
           kept == Newest(HistoryLimit, Picture(events).told)
           said(n, a) == IF \E i \in 1 .. n : s[i] = a THEN bus.streams[a] ELSE <<>>
<1>1. /\ bus \in BusRecord /\ bus.history \in Seq(Event) /\ Holds(bus.history, kept)
      /\ \A a \in Agents : bus.streams[a] = Newest(TailLimit, Picture(events).text[a])
      /\ \A a \in Agents : bus.streams[a] \in Seq(Nat)
      /\ kept \in Seq(Nat)
  <2>1. bus \in BusRecord /\ Picture(events).told \in Seq(Nat)
    BY PictureIsPictured, PictureFields DEF Keeps
  <2> QED
    BY <2>1, Limits, NewestIs DEF Keeps, BusRecord
<1>2. /\ j \in Seq(Event)
      /\ \A i \in 1 .. Len(j) : /\ s[i] \in Agents /\ j[i].type = "token" /\ j[i].agent = s[i]
                                /\ j[i].ids = bus.streams[s[i]]
      /\ \A i, l \in 1 .. Len(j) : s[i] = s[l] => i = l
      /\ \A a \in Agents : bus.streams[a] # <<>> => \E i \in 1 .. Len(j) : s[i] = a
  BY <1>1, JoinedIs
<1> HIDE DEF j, s, kept
<1>3. /\ all \in Seq(Event) /\ Len(all) = h + Len(j) /\ h \in Nat /\ Len(j) \in Nat
      /\ \A n \in 1 .. Len(j) : all[h + n] = j[n]
  BY <1>1, <1>2
<1>4. PICK p : IsTelling(p, all)
  <2>1. Len(all) \in Nat
    BY ONLY <1>3
  <2> HIDE DEF all
  <2> QED
    BY ONLY <2>1, TellingExists
<1>5. p[h].told = kept /\ \A a \in Agents : p[h].text[a] = <<>>
  BY <1>1, <1>2, <1>4, HistoryTells
<1> HIDE DEF all, h
<1>6. \A n \in 0 .. Len(all) : p[n] \in Pictured
  BY <1>3, <1>4, TellingIsPictured
<1> DEFINE S == {n \in 0 .. Len(j) : /\ p[h + n].told = kept
                                     /\ \A a \in Agents : p[h + n].text[a] = said(n, a)}
<1>7. 0 \in S
  <2>1. \A a \in Agents : said(0, a) = <<>>
    OBVIOUS
  <2>2. h + 0 = h /\ 0 \in 0 .. Len(j)
    BY <1>3
  <2> HIDE DEF said
  <2> QED
    BY <1>5, <2>1, <2>2
<1>8. ASSUME NEW n \in 0 .. (Len(j) - 1), n \in S PROVE n + 1 \in S
  <2> DEFINE e == j[n + 1]
  <2>1. /\ n + 1 \in 1 .. Len(j) /\ n + 1 \in 0 .. Len(j) /\ n \in Nat
        /\ h + n \in 0 .. Len(all) /\ h + (n + 1) \in 1 .. Len(all)
        /\ (h + (n + 1)) - 1 = h + n
    BY <1>3
  <2>2. e \in Event /\ e.type = "token" /\ e.agent = s[n + 1] /\ e.ids = bus.streams[s[n + 1]]
        /\ s[n + 1] \in Agents
    BY <1>2, <2>1
  <2>3. p[h + (n + 1)] = Heard(p[h + n], e) /\ p[h + n] \in Pictured
    BY <1>3, <1>4, <1>6, <2>1 DEF IsTelling
  <2>4. p[h + n].told = kept /\ \A a \in Agents : p[h + n].text[a] = said(n, a)
    BY <1>8
  <2> HIDE DEF e
  <2>5. p[h + (n + 1)].told = kept
    BY <2>2, <2>3, <2>4, HeardFields
  <2>6. ASSUME NEW a \in Agents PROVE p[h + (n + 1)].text[a] = said(n + 1, a)
    <3>1. CASE s[n + 1] = a
      <4>1. ~\E i \in 1 .. n : s[i] = a
        BY <1>2, <2>1, <3>1
      <4>2. said(n, a) = <<>> /\ said(n + 1, a) = bus.streams[a]
        BY <2>1, <3>1, <4>1
      <4>3. p[h + (n + 1)].text[a] = p[h + n].text[a] \o e.ids
        BY <2>2, <2>3, <3>1, HeardFields DEF Terminal, Turn
      <4>4. <<>> \o bus.streams[a] = bus.streams[a]
        BY <1>1
      <4> HIDE DEF said
      <4> QED
        BY <2>2, <2>4, <3>1, <4>2, <4>3, <4>4
    <3>2. CASE s[n + 1] # a
      <4>1. (\E i \in 1 .. (n + 1) : s[i] = a) <=> \E i \in 1 .. n : s[i] = a
        BY <2>1, <3>2
      <4>2. said(n + 1, a) = said(n, a)
        BY <4>1
      <4>3. p[h + (n + 1)].text[a] = p[h + n].text[a]
        BY <2>2, <2>3, <3>2, HeardFields DEF Terminal, Turn
      <4> HIDE DEF said
      <4> QED
        BY <2>4, <4>2, <4>3
    <3> QED
      BY <3>1, <3>2
  <2> HIDE DEF said
  <2> QED
    BY <2>1, <2>5, <2>6
<1>9. Len(j) \in S
  <2>1. Len(j) \in 0 .. Len(j)
    BY <1>3
  <2> HIDE DEF S
  <2>2. 0 .. Len(j) \subseteq S
    BY <1>3, <1>7, <1>8, Upto
  <2> QED
    BY <2>1, <2>2
<1>10. Picture(all) = p[h + Len(j)]
  BY <1>3, <1>4, PictureTold
<1>11. \A a \in Agents : said(Len(j), a) = bus.streams[a]
  BY <1>2
<1> HIDE DEF said
<1>12. /\ Picture(all).told = kept
       /\ \A a \in Agents : Picture(all).text[a] = Newest(TailLimit, Picture(events).text[a])
  BY <1>1, <1>9, <1>10, <1>11
<1> QED
  BY <1>12 DEF all, kept, j

\* The newest of a sequence ends as the sequence does.
LEMMA NewestIsLatest ==
  ASSUME NEW t \in Seq(Nat), NEW n \in Nat \ {0}, NEW x, Latest(t, x)
  PROVE  Latest(Newest(n, t), x)
<1> DEFINE u == Newest(n, t)
<1>1. /\ u \in Seq(Nat) /\ EndOf(u, t) /\ Len(u) = IF Len(t) > n THEN n ELSE Len(t)
  BY NewestIs
<1> HIDE DEF u
<1>2. Len(t) \in Nat /\ Len(t) > 0 /\ t[Len(t)] = x
  BY DEF Latest
<1>3. Len(u) \in 1 .. Len(u) /\ Len(u) > 0 /\ Len(t) - Len(u) + Len(u) = Len(t)
  BY <1>1, <1>2
<1>4. u[Len(u)] = t[Len(t)]
  BY ONLY <1>1, <1>3 DEF EndOf
<1> QED
  BY <1>2, <1>3, <1>4 DEF Latest, u

\* What a socket has heard and will hear tells what its bus told.
Delivered(k, events) ==
  IF k.lost
  THEN \E i \in 1 .. Len(k.heard \o k.queue) : Len(events) \in Range((k.heard \o k.queue)[i].ids)
  ELSE Mirrors(Picture(k.heard \o k.queue), Picture(events))

\* The newest emission is among the last that are replayed.
LEMMA ReplayIsLatest ==
  ASSUME NEW bus, NEW events, Keeps(bus, events), events # <<>>
  PROVE  LET h == Len(bus.history)
             j == Len(Joined(bus))
             all == bus.history \o Joined(bus)
         IN  \E i \in h .. (h + j) : i \in 1 .. Len(all) /\ Len(events) \in Range(all[i].ids)
<1> DEFINE h == Len(bus.history)
           J == Joined(bus)
           all == bus.history \o J
           x == Len(events)
           told == Picture(events).told
           kept == Newest(HistoryLimit, told)
<1>1. /\ bus \in BusRecord /\ events \in Seq(Event) /\ bus.history \in Seq(Event)
      /\ Holds(bus.history, kept)
      /\ \A a \in Agents : bus.streams[a] = Newest(TailLimit, Picture(events).text[a])
      /\ Latest(told, x) \/ \E a \in Agents : Latest(Picture(events).text[a], x)
  BY DEF Keeps, BusRecord
<1>2. told \in Seq(Nat) /\ \A a \in Agents : Picture(events).text[a] \in Seq(Nat)
  BY <1>1, PictureIsPictured, PictureFields
<1> DEFINE s == Speakers(bus)
<1>3. /\ J \in Seq(Event)
      /\ \A i \in 1 .. Len(J) : J[i].ids = bus.streams[s[i]]
      /\ \A a \in Agents : bus.streams[a] # <<>> => \E i \in 1 .. Len(J) : s[i] = a
  BY <1>1, JoinedIs
<1> HIDE DEF s, J
<1>4. /\ h \in Nat /\ Len(J) \in Nat /\ Len(all) = h + Len(J)
      /\ \A i \in 1 .. h : all[i] = bus.history[i]
      /\ \A i \in 1 .. Len(J) : all[h + i] = J[i]
  BY <1>1, <1>3
<1> HIDE DEF all, x, told
<1>5. CASE Latest(told, x)
  <2>1. Latest(kept, x)
    BY <1>2, <1>5, Limits, NewestIsLatest
  <2> HIDE DEF kept, h
  <2>2. Len(kept) = h /\ \A i \in 1 .. h : bus.history[i].ids = <<kept[i]>>
    BY <1>1 DEF Holds, h
  <2>3. h > 0 /\ kept[h] = x
    BY <2>1, <2>2 DEF Latest
  <2>4. h \in 1 .. h /\ h \in 1 .. Len(all) /\ h \in h .. (h + Len(J))
    BY <1>4, <2>3
  <2>5. all[h].ids = <<x>>
    BY <1>4, <2>2, <2>3, <2>4
  <2>6. x \in Range(<<x>>)
    BY DEF Range
  <2> QED
    BY <2>4, <2>5, <2>6 DEF all, x, h, J
<1>6. ASSUME NEW a \in Agents, Latest(Picture(events).text[a], x)
      PROVE  \E i \in h .. (h + Len(J)) : i \in 1 .. Len(all) /\ x \in Range(all[i].ids)
  <2>1. Latest(bus.streams[a], x)
    BY <1>1, <1>2, <1>6, Limits, NewestIsLatest
  <2>2. bus.streams[a] \in Seq(Nat)
    BY <1>1 DEF BusRecord
  <2>3. bus.streams[a] # <<>> /\ x \in Range(bus.streams[a])
    BY <2>1, <2>2 DEF Latest, Range
  <2>4. PICK i \in 1 .. Len(J) : s[i] = a
    BY <1>3, <2>3
  <2> HIDE DEF h
  <2>5. h + i \in h .. (h + Len(J)) /\ h + i \in 1 .. Len(all)
    BY <1>4, <2>4
  <2>6. all[h + i].ids = bus.streams[a]
    BY <1>3, <1>4, <2>4
  <2> QED
    BY <2>3, <2>5, <2>6
<1> QED
  BY <1>1, <1>5, <1>6 DEF all, x, J

\* A connection that is new subscribes to a bus that keeps what was told.
IsSubscribing(k, b, bus, events, new) ==
  /\ k \in Socket /\ k.queue = <<>> /\ k.heard = <<>> /\ k.lost = FALSE
  /\ b \in Nat /\ Keeps(bus, events) /\ new = Subscribe(k, b, bus)

\* So whoever subscribes will hear what the bus has told, however little its queue takes.
LEMMA SubscribeIs ==
  ASSUME NEW k, NEW b, NEW bus, NEW events, NEW new, IsSubscribing(k, b, bus, events, new)
  PROVE  /\ new \in Socket /\ new.pc = "open" /\ new.bus = b /\ Len(new.queue) <= QueueLimit
         /\ Delivered(new, events)
<1> SUFFICES
      ASSUME k \in Socket, k.queue = <<>>, k.heard = <<>>, k.lost = FALSE,
             b \in Nat, Keeps(bus, events), new = Subscribe(k, b, bus)
      PROVE  /\ new \in Socket /\ new.pc = "open" /\ new.bus = b /\ Len(new.queue) <= QueueLimit
             /\ Delivered(new, events)
  BY DEF IsSubscribing
<1> DEFINE k1 == [k EXCEPT !.pc = "open", !.bus = b]
           all == bus.history \o Joined(bus)
           n == Len(all)
           r == Filled(k1, all)
<1>1. /\ k1 \in Socket /\ k1.queue = <<>> /\ k1.heard = <<>> /\ k1.lost = FALSE
      /\ k1.pc = "open" /\ k1.bus = b
  BY DEF Socket
<1>2. /\ bus \in BusRecord /\ bus.history \in Seq(Event) /\ events \in Seq(Event)
      /\ Joined(bus) \in Seq(Event) /\ Len(Joined(bus)) < QueueLimit
  <2>1. bus \in BusRecord
    BY DEF Keeps
  <2> QED
    BY <2>1, JoinedIs DEF BusRecord, Keeps
<1>3. /\ all \in Seq(Event) /\ n \in Nat /\ n = Len(bus.history) + Len(Joined(bus))
      /\ Len(bus.history) \in Nat /\ Len(Joined(bus)) \in Nat
  BY <1>2
<1> HIDE DEF k1, all
<1>4. /\ r \in Socket /\ r.pc = "open" /\ r.bus = b /\ r.heard = <<>>
      /\ Len(r.queue) = Width(n)
      /\ \A i \in 1 .. Width(n) : r.queue[i] = all[n - Width(n) + i]
      /\ r.lost = (n > QueueLimit)
  BY <1>1, <1>3, FilledIs
<1>5. Width(n) <= QueueLimit /\ Width(n) \in Nat
  BY <1>3, Limits DEF Width
<1>6. new = r
  BY DEF Subscribe, k1, all
<1> HIDE DEF r
<1>7. r.heard \o r.queue = r.queue /\ r.queue \in Seq(Event)
  BY <1>4 DEF Socket
<1>8. Delivered(r, events)
  <2>1. CASE n > QueueLimit
    <3>1. events # <<>>
      <4>1. SUFFICES ASSUME events = <<>> PROVE FALSE
        OBVIOUS
      <4>2. Picture(events).told = <<>>
        BY <4>1, PictureOfNothing DEF Nothing
      <4>3. Newest(HistoryLimit, <<>>) = <<>>
        BY Limits DEF Newest
      <4>4. Len(bus.history) = 0
        BY <4>2, <4>3 DEF Keeps, Holds
      <4> QED
        BY <1>2, <1>3, <2>1, <4>4, Limits
    <3>2. PICK i \in Len(bus.history) .. (Len(bus.history) + Len(Joined(bus))) :
            i \in 1 .. n /\ Len(events) \in Range(all[i].ids)
      BY <3>1, ReplayIsLatest DEF all
    <3> DEFINE l == i - (n - QueueLimit)
    <3>3. /\ Width(n) = QueueLimit /\ l \in 1 .. Width(n) /\ n - Width(n) + l = i
      <4>1. Width(n) = QueueLimit
        BY ONLY <2>1 DEF Width
      <4> DEFINE h == Len(bus.history)
                 j == Len(Joined(bus))
      <4>2. h \in Nat /\ j \in Nat /\ n = h + j /\ j < QueueLimit /\ i \in h .. (h + j)
        BY <1>2, <1>3
      <4> HIDE DEF h, j, n
      <4> QED
        BY ONLY <2>1, <4>1, <4>2, Limits
    <3> HIDE DEF l
    <3>4. r.queue[l] = all[i] /\ l \in 1 .. Len(r.queue)
      BY <1>4, <3>3
    <3>5. r.lost = TRUE
      BY <1>4, <2>1
    <3> QED
      BY <1>7, <3>2, <3>4, <3>5 DEF Delivered
  <2>2. CASE ~(n > QueueLimit)
    <3>1. Width(n) = n /\ \A i \in 1 .. n : n - n + i = i
      BY <1>3, <2>2 DEF Width
    <3>2. Len(r.queue) = Len(all) /\ \A i \in 1 .. Len(all) : r.queue[i] = all[i]
      BY <1>4, <3>1
    <3>3. r.queue = all
      BY ONLY <1>3, <1>7, <3>2, SameSeq
    <3> DEFINE mine == Picture(all)
               true == Picture(events)
    <3>4. /\ mine.told = Newest(HistoryLimit, true.told)
          /\ \A a \in Agents : mine.text[a] = Newest(TailLimit, true.text[a])
      BY ReplayTells DEF all
    <3>5. true.told \in Seq(Nat) /\ \A a \in Agents : true.text[a] \in Seq(Nat)
      BY <1>2, PictureIsPictured, PictureFields
    <3> HIDE DEF mine, true
    <3>6. Reaches(mine.told, true.told, HistoryLimit)
      BY <3>4, <3>5, Limits, NewestIs DEF Reaches
    <3>7. \A a \in Agents : Reaches(mine.text[a], true.text[a], TailLimit)
      BY <3>4, <3>5, Limits, NewestIs DEF Reaches
    <3>8. Mirrors(mine, true)
      BY <3>6, <3>7 DEF Mirrors
    <3>9. ~r.lost
      BY <1>4, <2>2
    <3> QED
      BY <1>7, <3>3, <3>8, <3>9 DEF Delivered, mine, true
  <2> QED
    BY <2>1, <2>2
<1> QED
  BY <1>4, <1>5, <1>6, <1>8

\* An emission reaches whoever subscribed...
LEMMA EnqueueDelivers ==
  ASSUME NEW k \in Socket, Len(k.queue) <= QueueLimit, NEW events \in Seq(Event),
         Delivered(k, events), NEW e \in Event, e.ids = <<Len(events) + 1>>
  PROVE  Delivered(Enqueue(k, e), Append(events, e))
<1> DEFINE r == Enqueue(k, e)
           x == Len(events) + 1
           all == k.heard \o k.queue
           then == r.heard \o r.queue
<1>1. /\ r \in Socket /\ r.heard = k.heard
      /\ Len(k.queue) < QueueLimit => r.queue = Append(k.queue, e) /\ r.lost = k.lost
      /\ Len(k.queue) = QueueLimit =>
           Len(r.queue) = QueueLimit /\ r.lost = TRUE /\ r.queue[QueueLimit] = e
  BY Enqueued
<1>2. /\ k.heard \in Seq(Event) /\ k.queue \in Seq(Event) /\ r.queue \in Seq(Event)
      /\ Len(k.queue) \in Nat /\ x \in Nat /\ Len(Append(events, e)) = x
      /\ k.lost \in BOOLEAN
  BY <1>1 DEF Socket
<1>3. Len(r.queue) > 0 /\ r.queue[Len(r.queue)] = e
  <2>1. CASE Len(k.queue) < QueueLimit
    <3>1. r.queue = Append(k.queue, e)
      BY <1>1, <2>1
    <3> QED
      BY ONLY <1>2, <3>1
  <2>2. CASE Len(k.queue) = QueueLimit
    BY <1>1, <2>2, Limits
  <2> QED
    BY <1>2, <2>1, <2>2, Limits
<1> HIDE DEF r
<1>4. CASE r.lost
  <2>1. Len(then) \in 1 .. Len(then) /\ then[Len(then)] = e
    <3> DEFINE u == k.heard
               v == r.queue
    <3>1. u \in Seq(Event) /\ v \in Seq(Event) /\ Len(v) > 0 /\ v[Len(v)] = e
      BY <1>2, <1>3
    <3>2. then = u \o v
      BY <1>1
    <3> HIDE DEF u, v, then
    <3>3. Len(u \o v) = Len(u) + Len(v) /\ Len(u) \in Nat /\ Len(v) \in Nat
      BY ONLY <3>1
    <3>4. (u \o v)[Len(u) + Len(v)] = v[Len(v)]
      BY ONLY <3>1, <3>3
    <3> QED
      BY ONLY <3>1, <3>2, <3>3, <3>4
  <2>2. x \in Range(e.ids)
    BY DEF Range
  <2> HIDE DEF then, x
  <2> QED
    BY <1>2, <1>4, <2>1, <2>2 DEF Delivered, then, r
<1>5. CASE ~r.lost
  <2>1. Len(k.queue) < QueueLimit /\ ~k.lost /\ r.queue = Append(k.queue, e)
    BY <1>1, <1>2, <1>5, Limits
  <2>2. all \in Seq(Event) /\ then = Append(all, e)
    <3> DEFINE u == k.heard
               v == k.queue
    <3>1. u \in Seq(Event) /\ v \in Seq(Event) /\ then = u \o Append(v, e)
      BY <1>1, <1>2, <2>1
    <3> HIDE DEF u, v, then
    <3>2. u \o Append(v, e) = Append(u \o v, e) /\ u \o v \in Seq(Event)
      BY ONLY <3>1
    <3> QED
      BY ONLY <3>1, <3>2 DEF u, v
  <2>3. Mirrors(Picture(all), Picture(events))
    BY <2>1 DEF Delivered
  <2> HIDE DEF all, then
  <2>4. Mirrors(Heard(Picture(all), e), Heard(Picture(events), e))
    <3>1. Picture(all) \in Pictured /\ Picture(events) \in Pictured
      BY <2>2, PictureIsPictured
    <3> QED
      BY <1>2, <2>3, <3>1, MirrorStep
  <2>5. Picture(then) = Heard(Picture(all), e) /\ Picture(Append(events, e)) = Heard(Picture(events), e)
    BY <2>2, PictureGrows
  <2> QED
    BY <1>5, <2>4, <2>5 DEF Delivered, then, r
<1> QED
  BY <1>4, <1>5

\* ...and so does a reset, whatever was lost before.
LEMMA ResetDelivers ==
  ASSUME NEW k \in Socket, NEW events \in Seq(Event), NEW e \in Event,
         e.ids = <<Len(events) + 1>>, e.type = "session_reset"
  PROVE  LET r == [Enqueue([k EXCEPT !.queue = <<>>], e) EXCEPT !.lost = FALSE]
         IN  /\ r \in Socket /\ r.pc = k.pc /\ r.bus = k.bus /\ Len(r.queue) <= QueueLimit
             /\ Delivered(r, Append(events, e))
<1> DEFINE k0 == [k EXCEPT !.queue = <<>>]
           k1 == Enqueue(k0, e)
           r == [k1 EXCEPT !.lost = FALSE]
<1>1. k0 \in Socket /\ k0.queue = <<>> /\ k0.pc = k.pc /\ k0.bus = k.bus /\ k0.heard = k.heard
  <2>1. <<>> \in Seq(Event)
    OBVIOUS
  <2> QED
    BY <2>1 DEF Socket
<1> HIDE DEF k0
<1>2. Len(k0.queue) = 0 /\ 0 < QueueLimit /\ 0 <= QueueLimit
  BY <1>1, Limits
<1>3. /\ k1 \in Socket /\ k1.pc = k.pc /\ k1.bus = k.bus /\ k1.heard = k.heard
      /\ k1.queue = Append(<<>>, e)
  <2>1. k0 \in Socket /\ Len(k0.queue) <= QueueLimit /\ Len(k0.queue) < QueueLimit
    BY ONLY <1>1, <1>2
  <2>2. /\ k1 \in Socket /\ k1.pc = k0.pc /\ k1.bus = k0.bus /\ k1.heard = k0.heard
        /\ k1.queue = Append(k0.queue, e)
    BY ONLY <2>1, e \in Event, Enqueued
  <2> QED
    BY ONLY <1>1, <2>2
<1> HIDE DEF k1
<1>4. /\ r \in Socket /\ r.pc = k.pc /\ r.bus = k.bus /\ r.heard = k.heard
      /\ r.queue = <<e>> /\ r.lost = FALSE
  <2>1. Append(<<>>, e) = <<e>>
    OBVIOUS
  <2>2. /\ r \in Socket /\ r.pc = k1.pc /\ r.bus = k1.bus /\ r.heard = k1.heard
        /\ r.queue = k1.queue /\ r.lost = FALSE
    BY ONLY <1>3 DEF Socket
  <2> QED
    BY ONLY <1>3, <2>1, <2>2
<1>5. Len(<<e>>) <= QueueLimit
  BY Limits
<1>6. k.heard \in Seq(Event) /\ k.heard \o <<e>> = Append(k.heard, e)
  BY DEF Socket
<1>7. Picture(k.heard \o <<e>>) = Picture(Append(events, e))
  <2>1. /\ Picture(Append(k.heard, e)) = Heard(Picture(k.heard), e)
        /\ Picture(Append(events, e)) = Heard(Picture(events), e)
    BY <1>6, PictureGrows
  <2> QED
    BY <1>6, <2>1, ResetIsHeard
<1>8. Mirrors(Picture(Append(events, e)), Picture(Append(events, e)))
  <2>1. Append(events, e) \in Seq(Event)
    OBVIOUS
  <2> QED
    BY <2>1, PictureIsPictured, MirrorsItself
<1> HIDE DEF r
<1>9. Delivered(r, Append(events, e))
  BY <1>4, <1>7, <1>8 DEF Delivered
<1> QED
  BY <1>4, <1>5, <1>9 DEF r, k1, k0

-----------------------------------------------------------------------------
(* What a client sees.  The task's steps come first, the sockets' after them. *)

\* Every bus keeps the newest of what was emitted on it...
BusesSound(bs, ls) ==
  /\ bs \in Seq(BusRecord) /\ ls \in Seq(Seq(Event)) /\ Len(bs) = Len(ls)
  /\ \A b \in 1 .. Len(ls) : Keeps(bs[b], ls[b])

\* ...and whoever listens to it has heard or will hear what it told.
SocketSound(k, ls) ==
  /\ k \in Socket
  /\ k.pc \in {"off", "greeting"} => k.queue = <<>> /\ k.heard = <<>> /\ k.lost = FALSE
  /\ k.pc \in {"greeting", "open", "gone"} => k.bus \in 1 .. Len(ls)
  /\ k.pc \in {"open", "gone"} => Len(k.queue) <= QueueLimit
  /\ k.pc = "open" => Delivered(k, ls[k.bus])

SocketsSound(ks, ls) ==
  /\ ks = [s \in Sockets |-> ks[s]]
  /\ \A s \in Sockets : SocketSound(ks[s], ls)

\* The inductive invariant.
BusInv ==
  /\ BusesSound(buses, log) /\ SocketsSound(sock, log)
  /\ cur \in 0 .. Len(log) /\ live \in 0 .. Len(log)

\* A bus more changes nothing for anybody.
LEMMA RegisteredSound ==
  ASSUME NEW bs, NEW ls, BusesSound(bs, ls), NEW ks, SocketsSound(ks, ls)
  PROVE  LET bs1 == Append(bs, EmptyBus)
             ls1 == Append(ls, <<>>)
         IN  BusesSound(bs1, ls1) /\ SocketsSound(ks, ls1) /\ Len(ls1) = Len(ls) + 1
<1> DEFINE bs1 == Append(bs, EmptyBus)
           ls1 == Append(ls, <<>>)
           L == Len(ls)
<1>1. bs \in Seq(BusRecord) /\ ls \in Seq(Seq(Event)) /\ Len(bs) = L /\ L \in Nat
  BY DEF BusesSound
<1>2. EmptyBus \in BusRecord /\ <<>> \in Seq(Event)
  BY EmptyKeeps DEF Keeps
<1>3. /\ bs1 \in Seq(BusRecord) /\ ls1 \in Seq(Seq(Event)) /\ Len(bs1) = L + 1 /\ Len(ls1) = L + 1
      /\ bs1[L + 1] = EmptyBus /\ ls1[L + 1] = <<>>
      /\ \A b \in 1 .. L : bs1[b] = bs[b] /\ ls1[b] = ls[b]
  BY ONLY <1>1, <1>2
<1> HIDE DEF bs1, ls1
<1>4. ASSUME NEW b \in 1 .. Len(ls1) PROVE Keeps(bs1[b], ls1[b])
  <2>1. CASE b \in 1 .. L
    BY <1>3, <2>1 DEF BusesSound
  <2>2. CASE b = L + 1
    BY <1>3, <2>2, EmptyKeeps
  <2> HIDE DEF L
  <2>3. b \in 1 .. L \/ b = L + 1
    BY ONLY <1>1, <1>3, b \in 1 .. Len(ls1)
  <2> QED
    BY ONLY <2>1, <2>2, <2>3
<1>5. BusesSound(bs1, ls1)
  BY ONLY <1>3, <1>4 DEF BusesSound
<1>6. ASSUME NEW s \in Sockets PROVE SocketSound(ks[s], ls1)
  <2> DEFINE k == ks[s]
  <2>1. SocketSound(k, ls)
    BY DEF SocketsSound
  <2> HIDE DEF k
  <2>2. k.bus \in 1 .. L => k.bus \in 1 .. Len(ls1) /\ ls1[k.bus] = ls[k.bus]
    BY <1>1, <1>3
  <2> QED
    BY <2>1, <2>2 DEF SocketSound, k
<1>7. SocketsSound(ks, ls1)
  BY ONLY SocketsSound(ks, ls), <1>6 DEF SocketsSound
<1> QED
  BY ONLY <1>3, <1>5, <1>7 DEF bs1, ls1

\* One bus and who listens to it move on together.
IsOnward(bs, ls, ks, b, bus, events, bs1, ls1, ks1) ==
  /\ BusesSound(bs, ls) /\ SocketsSound(ks, ls) /\ b \in 1 .. Len(ls) /\ Keeps(bus, events)
  /\ bs1 = [bs EXCEPT ![b] = bus] /\ ls1 = [ls EXCEPT ![b] = events]
  /\ ks1 = [s \in Sockets |-> ks1[s]]
  /\ \A s \in Sockets :
       IF Subscribed(ks[s], b)
       THEN /\ ks1[s] \in Socket /\ ks1[s].pc = ks[s].pc /\ ks1[s].bus = ks[s].bus
            /\ Len(ks1[s].queue) <= QueueLimit
            /\ ks[s].pc = "open" => Delivered(ks1[s], events)
       ELSE ks1[s] = ks[s]

\* Those who listen are served, and the others listen to buses that stood still.
LEMMA OnwardSound ==
  ASSUME NEW bs, NEW ls, NEW ks, NEW b, NEW bus, NEW events, NEW bs1, NEW ls1, NEW ks1,
         IsOnward(bs, ls, ks, b, bus, events, bs1, ls1, ks1)
  PROVE  BusesSound(bs1, ls1) /\ SocketsSound(ks1, ls1) /\ Len(ls1) = Len(ls)
<1> DEFINE L == Len(ls)
<1> SUFFICES
      ASSUME BusesSound(bs, ls), SocketsSound(ks, ls), b \in 1 .. Len(ls), Keeps(bus, events),
             bs1 = [bs EXCEPT ![b] = bus], ls1 = [ls EXCEPT ![b] = events],
             ks1 = [s \in Sockets |-> ks1[s]],
             \A s \in Sockets :
               IF Subscribed(ks[s], b)
               THEN /\ ks1[s] \in Socket /\ ks1[s].pc = ks[s].pc /\ ks1[s].bus = ks[s].bus
                    /\ Len(ks1[s].queue) <= QueueLimit
                    /\ ks[s].pc = "open" => Delivered(ks1[s], events)
               ELSE ks1[s] = ks[s]
      PROVE  BusesSound(bs1, ls1) /\ SocketsSound(ks1, ls1) /\ Len(ls1) = Len(ls)
  BY DEF IsOnward
<1>1. bs \in Seq(BusRecord) /\ ls \in Seq(Seq(Event)) /\ Len(bs) = L /\ L \in Nat
  BY DEF BusesSound
<1>2. bus \in BusRecord /\ events \in Seq(Event)
  BY DEF Keeps
<1>3. /\ bs1 \in Seq(BusRecord) /\ ls1 \in Seq(Seq(Event)) /\ Len(bs1) = L /\ Len(ls1) = L
      /\ bs1[b] = bus /\ ls1[b] = events
      /\ \A c \in 1 .. L : c # b => bs1[c] = bs[c] /\ ls1[c] = ls[c]
  BY ONLY <1>1, <1>2, b \in 1 .. Len(ls), bs1 = [bs EXCEPT ![b] = bus], ls1 = [ls EXCEPT ![b] = events]
<1>4. ASSUME NEW c \in 1 .. L PROVE Keeps(bs1[c], ls1[c])
  <2>1. CASE c = b
    BY ONLY <1>3, <2>1, Keeps(bus, events)
  <2>2. CASE c # b
    BY <1>3, <2>2 DEF BusesSound
  <2> QED
    BY ONLY <2>1, <2>2
<1>5. BusesSound(bs1, ls1)
  BY ONLY <1>3, <1>4 DEF BusesSound
<1>6. ASSUME NEW s \in Sockets PROVE SocketSound(ks1[s], ls1)
  <2> DEFINE k == ks[s]
             k1 == ks1[s]
  <2>1. /\ SocketSound(k, ls) /\ k \in Socket
        /\ IF Subscribed(k, b)
           THEN /\ k1 \in Socket /\ k1.pc = k.pc /\ k1.bus = k.bus /\ Len(k1.queue) <= QueueLimit
                /\ k.pc = "open" => Delivered(k1, events)
           ELSE k1 = k
    BY DEF SocketsSound, SocketSound
  <2> HIDE DEF k, k1, L
  <2>2. CASE Subscribed(k, b)
    <3>1. /\ k1 \in Socket /\ k1.pc = k.pc /\ k1.bus = k.bus /\ Len(k1.queue) <= QueueLimit
          /\ k.pc = "open" => Delivered(k1, events)
      BY <2>1, <2>2
    <3>2. k.pc \in {"open", "gone"} /\ k.bus = b
      BY ONLY <2>2 DEF Subscribed
    <3>3. k1.bus \in 1 .. Len(ls1) /\ ls1[k1.bus] = events
      BY ONLY <1>3, <3>1, <3>2, b \in 1 .. Len(ls) DEF L
    <3>4. k1.pc \notin {"off", "greeting"}
      BY ONLY <3>1, <3>2
    <3>5. k1.pc = "open" => Delivered(k1, ls1[k1.bus])
      BY ONLY <3>1, <3>3
    <3>6. SocketSound(k1, ls1)
      BY ONLY <3>1, <3>3, <3>4, <3>5 DEF SocketSound
    <3> QED
      BY <3>6 DEF k1
  <2>3. CASE ~Subscribed(k, b)
    <3>1. k1 = k /\ (k.pc \in {"open", "gone"} => k.bus # b)
      BY ONLY <2>1, <2>3 DEF Subscribed
    <3>2. k.bus \in 1 .. L => k.bus \in 1 .. Len(ls1)
      BY ONLY <1>3
    <3>3. k.bus \in 1 .. L /\ k.bus # b => ls1[k.bus] = ls[k.bus]
      BY ONLY <1>3
    <3>4. SocketSound(k, ls1)
      BY ONLY <2>1, <3>1, <3>2, <3>3 DEF SocketSound, L
    <3> QED
      BY <3>1, <3>4 DEF k1
  <2> QED
    BY ONLY <2>2, <2>3
<1>7. SocketsSound(ks1, ls1)
  BY ONLY ks1 = [s \in Sockets |-> ks1[s]], <1>6 DEF SocketsSound
<1> QED
  BY ONLY <1>3, <1>5, <1>7 DEF L

\* The event that is told, and who hears it.
IsTold(bs, ls, ks, b, e, bs1, ls1, ks1) ==
  /\ BusesSound(bs, ls) /\ SocketsSound(ks, ls) /\ b \in 1 .. Len(ls)
  /\ e \in Event /\ e.ids = <<Len(ls[b]) + 1>>
  /\ e.type # "session_reset" /\ (e.type = "token" => e.agent \in Agents)
  /\ ls1 = [ls EXCEPT ![b] = Append(@, e)] /\ bs1 = [bs EXCEPT ![b] = Recorded(@, e)]
  /\ ks1 = [s \in Sockets |-> IF Subscribed(ks[s], b) THEN Enqueue(ks[s], e) ELSE ks[s]]

\* An emission leaves every bus and every socket sound...
LEMMA ToldSound ==
  ASSUME NEW bs, NEW ls, NEW ks, NEW b, NEW e, NEW bs1, NEW ls1, NEW ks1,
         IsTold(bs, ls, ks, b, e, bs1, ls1, ks1)
  PROVE  BusesSound(bs1, ls1) /\ SocketsSound(ks1, ls1) /\ Len(ls1) = Len(ls)
<1> SUFFICES
      ASSUME BusesSound(bs, ls), SocketsSound(ks, ls), b \in 1 .. Len(ls),
             e \in Event, e.ids = <<Len(ls[b]) + 1>>,
             e.type # "session_reset", e.type = "token" => e.agent \in Agents,
             ls1 = [ls EXCEPT ![b] = Append(@, e)], bs1 = [bs EXCEPT ![b] = Recorded(@, e)],
             ks1 = [s \in Sockets |-> IF Subscribed(ks[s], b) THEN Enqueue(ks[s], e) ELSE ks[s]]
      PROVE  BusesSound(bs1, ls1) /\ SocketsSound(ks1, ls1) /\ Len(ls1) = Len(ls)
  BY DEF IsTold
<1> DEFINE events == Append(ls[b], e)
           bus == Recorded(bs[b], e)
<1>1. /\ Keeps(bs[b], ls[b]) /\ b \in 1 .. Len(bs)
  BY DEF BusesSound
<1>2. Keeps(bus, events)
  BY <1>1, RecordedKeeps
<1>3. ks1 = [s \in Sockets |-> ks1[s]]
  OBVIOUS
<1>4. ASSUME NEW s \in Sockets
      PROVE  IF Subscribed(ks[s], b)
             THEN /\ ks1[s] \in Socket /\ ks1[s].pc = ks[s].pc /\ ks1[s].bus = ks[s].bus
                  /\ Len(ks1[s].queue) <= QueueLimit
                  /\ ks[s].pc = "open" => Delivered(ks1[s], events)
             ELSE ks1[s] = ks[s]
  <2> DEFINE k == ks[s]
             r == Enqueue(k, e)
  <2>1. SocketSound(k, ls) /\ ks1[s] = IF Subscribed(k, b) THEN r ELSE k
    BY DEF SocketsSound
  <2> HIDE DEF k
  <2>2. ASSUME Subscribed(k, b)
        PROVE  /\ r \in Socket /\ r.pc = k.pc /\ r.bus = k.bus /\ Len(r.queue) <= QueueLimit
               /\ k.pc = "open" => Delivered(r, events)
    <3>1. /\ k \in Socket /\ Len(k.queue) <= QueueLimit /\ k.queue \in Seq(Event)
          /\ k.pc = "open" => Delivered(k, ls[b])
      BY ONLY <2>1, <2>2 DEF SocketSound, Subscribed, Socket
    <3>2. /\ r \in Socket /\ r.pc = k.pc /\ r.bus = k.bus
          /\ Len(k.queue) < QueueLimit => r.queue = Append(k.queue, e)
          /\ Len(k.queue) = QueueLimit => Len(r.queue) = QueueLimit
      BY ONLY <3>1, e \in Event, Enqueued
    <3>3. Len(r.queue) <= QueueLimit
      <4>1. Len(Append(k.queue, e)) = Len(k.queue) + 1 /\ Len(k.queue) \in Nat
        BY ONLY <3>1
      <4> HIDE DEF r
      <4> QED
        BY ONLY <3>1, <3>2, <4>1, Limits
    <3>4. ls[b] \in Seq(Event)
      BY ONLY <1>1 DEF Keeps
    <3>5. k.pc = "open" => Delivered(r, events)
      BY ONLY <3>1, <3>4, e \in Event, e.ids = <<Len(ls[b]) + 1>>, EnqueueDelivers
    <3> QED
      BY ONLY <3>2, <3>3, <3>5
  <2> HIDE DEF r, events
  <2> QED
    BY ONLY <2>1, <2>2 DEF k
<1>5. ls1 = [ls EXCEPT ![b] = events] /\ bs1 = [bs EXCEPT ![b] = bus]
  BY <1>1
<1> HIDE DEF events, bus
<1>6. IsOnward(bs, ls, ks, b, bus, events, bs1, ls1, ks1)
  BY ONLY BusesSound(bs, ls), SocketsSound(ks, ls), b \in 1 .. Len(ls),
     <1>2, <1>3, <1>4, <1>5 DEF IsOnward
<1> QED
  BY ONLY <1>6, OnwardSound

\* A reset of a bus.
IsReset(bs, ls, ks, b, e, bs1, ls1, ks1) ==
  /\ BusesSound(bs, ls) /\ SocketsSound(ks, ls) /\ b \in 1 .. Len(ls)
  /\ e \in Event /\ e.ids = <<Len(ls[b]) + 1>> /\ e.type = "session_reset"
  /\ ls1 = [ls EXCEPT ![b] = Append(@, e)] /\ bs1 = [bs EXCEPT ![b] = Recorded(EmptyBus, e)]
  /\ ks1 = [s \in Sockets |->
                  IF Subscribed(ks[s], b)
                  THEN [Enqueue([ks[s] EXCEPT !.queue = <<>>], e) EXCEPT !.lost = FALSE]
                  ELSE ks[s]]

\* ...and so does a reset.
LEMMA ResetSound ==
  ASSUME NEW bs, NEW ls, NEW ks, NEW b, NEW e, NEW bs1, NEW ls1, NEW ks1,
         IsReset(bs, ls, ks, b, e, bs1, ls1, ks1)
  PROVE  BusesSound(bs1, ls1) /\ SocketsSound(ks1, ls1) /\ Len(ls1) = Len(ls)
<1> SUFFICES
      ASSUME BusesSound(bs, ls), SocketsSound(ks, ls), b \in 1 .. Len(ls),
             e \in Event, e.ids = <<Len(ls[b]) + 1>>, e.type = "session_reset",
             ls1 = [ls EXCEPT ![b] = Append(@, e)], bs1 = [bs EXCEPT ![b] = Recorded(EmptyBus, e)],
             ks1 = [s \in Sockets |->
                  IF Subscribed(ks[s], b)
                  THEN [Enqueue([ks[s] EXCEPT !.queue = <<>>], e) EXCEPT !.lost = FALSE]
                  ELSE ks[s]]
      PROVE  BusesSound(bs1, ls1) /\ SocketsSound(ks1, ls1) /\ Len(ls1) = Len(ls)
  BY DEF IsReset
<1> DEFINE events == Append(ls[b], e)
           bus == Recorded(EmptyBus, e)
           r(k) == [Enqueue([k EXCEPT !.queue = <<>>], e) EXCEPT !.lost = FALSE]
<1>1. ls[b] \in Seq(Event)
  BY DEF BusesSound, Keeps
<1>2. Keeps(bus, events)
  BY <1>1, ResetKeeps
<1>3. ks1 = [s \in Sockets |-> ks1[s]]
  OBVIOUS
<1>4. ASSUME NEW s \in Sockets
      PROVE  IF Subscribed(ks[s], b)
             THEN /\ ks1[s] \in Socket /\ ks1[s].pc = ks[s].pc /\ ks1[s].bus = ks[s].bus
                  /\ Len(ks1[s].queue) <= QueueLimit
                  /\ ks[s].pc = "open" => Delivered(ks1[s], events)
             ELSE ks1[s] = ks[s]
  <2> DEFINE k == ks[s]
  <2>1. k \in Socket /\ ks1[s] = IF Subscribed(k, b) THEN r(k) ELSE k
    BY DEF SocketsSound, SocketSound
  <2> HIDE DEF k
  <2>2. /\ r(k) \in Socket /\ r(k).pc = k.pc /\ r(k).bus = k.bus /\ Len(r(k).queue) <= QueueLimit
        /\ Delivered(r(k), events)
    BY ONLY <1>1, <2>1, e \in Event, e.ids = <<Len(ls[b]) + 1>>, e.type = "session_reset", ResetDelivers
  <2> HIDE DEF r, events
  <2> QED
    BY ONLY <2>1, <2>2 DEF k
<1>5. ls1 = [ls EXCEPT ![b] = events] /\ bs1 = [bs EXCEPT ![b] = bus]
  BY <1>1
<1> HIDE DEF events, bus
<1>6. IsOnward(bs, ls, ks, b, bus, events, bs1, ls1, ks1)
  BY ONLY BusesSound(bs, ls), SocketsSound(ks, ls), b \in 1 .. Len(ls),
     <1>2, <1>3, <1>4, <1>5 DEF IsOnward
<1> QED
  BY ONLY <1>6, OnwardSound

\* One socket moves while the buses stand still.
LEMMA OneSocketSound ==
  ASSUME NEW ls, NEW ks, SocketsSound(ks, ls), NEW s \in Sockets, NEW k, SocketSound(k, ls)
  PROVE  SocketsSound([ks EXCEPT ![s] = k], ls)
BY DEF SocketsSound

\* At the start there is no bus and no connection.
LEMMA BusBegins == BusInit => BusInv
<1> SUFFICES ASSUME BusInit PROVE BusInv
  OBVIOUS
<1>1. buses = <<>> /\ log = <<>> /\ cur = 0 /\ live = 0 /\ sock = [s \in Sockets |-> Offline]
  BY DEF BusInit
<1>2. BusesSound(<<>>, <<>>)
  BY DEF BusesSound
<1>3. Offline \in Socket
  <2>1. <<>> \in Seq(Event)
    OBVIOUS
  <2> QED
    BY <2>1 DEF Offline, Socket
<1>4. SocketSound(Offline, <<>>)
  BY <1>3 DEF SocketSound, Offline
<1>5. SocketsSound(sock, <<>>)
  BY <1>1, <1>4 DEF SocketsSound
<1> QED
  BY <1>1, <1>2, <1>5 DEF BusInv

\* The bus of the session is there once it is registered.
LEMMA RegisteredIs ==
  ASSUME BusInv
  PROVE  LET bs == Registered(buses, EmptyBus)
             ls == Registered(log, <<>>)
         IN  /\ BusesSound(bs, ls) /\ SocketsSound(sock, ls)
             /\ Bus \in 1 .. Len(ls) /\ Len(ls) \in Nat /\ Len(log) \in Nat /\ Len(log) <= Len(ls)
<1>1. /\ BusesSound(buses, log) /\ SocketsSound(sock, log) /\ cur \in 0 .. Len(log)
      /\ Len(buses) = Len(log) /\ Len(log) \in Nat
  BY DEF BusInv, BusesSound
<1>2. CASE Bus > Len(log)
  <2>1. Registered(buses, EmptyBus) = Append(buses, EmptyBus) /\ Registered(log, <<>>) = Append(log, <<>>)
    BY <1>1, <1>2 DEF Registered
  <2>2. /\ BusesSound(Append(buses, EmptyBus), Append(log, <<>>))
        /\ SocketsSound(sock, Append(log, <<>>)) /\ Len(Append(log, <<>>)) = Len(log) + 1
    BY ONLY <1>1, RegisteredSound
  <2>3. Bus = Len(log) + 1
    BY <1>1, <1>2 DEF Bus
  <2>4. Bus \in 1 .. (Len(log) + 1) /\ Len(log) + 1 \in Nat /\ Len(log) <= Len(log) + 1
    BY ONLY <1>1, <2>3
  <2> QED
    BY ONLY <1>1, <2>1, <2>2, <2>4
<1>3. CASE ~(Bus > Len(log))
  <2>1. Registered(buses, EmptyBus) = buses /\ Registered(log, <<>>) = log
    BY <1>1, <1>3 DEF Registered
  <2>2. Bus \in 1 .. Len(log) /\ Len(log) <= Len(log)
    BY <1>1, <1>3 DEF Bus
  <2> QED
    BY ONLY <1>1, <2>1, <2>2
<1> QED
  BY ONLY <1>2, <1>3

\* Emit as the steps of the model do it...
LEMMA EmitStep ==
  ASSUME BusInv, NEW b, b \in 1 .. Len(log), NEW type \in Kinds \ {"session_reset"},
         NEW agent \in Agents \cup {Nobody}, type = "token" => agent \in Agents,
         Emit(b, type, agent)
  PROVE  BusesSound(buses', log') /\ SocketsSound(sock', log') /\ Len(log') = Len(log)
<1> DEFINE e == [type |-> type, agent |-> agent, ids |-> <<Len(log[b]) + 1>>]
<1>1. /\ log' = [log EXCEPT ![b] = Append(@, e)]
      /\ buses' = [buses EXCEPT ![b] = Recorded(@, e)]
      /\ sock' = [s \in Sockets |-> IF Subscribed(sock[s], b) THEN Enqueue(sock[s], e) ELSE sock[s]]
  BY DEF Emit
<1>2. BusesSound(buses, log) /\ SocketsSound(sock, log)
  BY DEF BusInv
<1>3. e \in Event
  <2>1. Len(log[b]) + 1 \in Nat
    BY <1>2 DEF BusesSound
  <2>2. <<Len(log[b]) + 1>> \in Seq(Nat)
    BY ONLY <2>1
  <2> QED
    BY <2>2 DEF Event
<1>4. /\ e.ids = <<Len(log[b]) + 1>> /\ e.type # "session_reset"
      /\ e.type = "token" => e.agent \in Agents
  OBVIOUS
<1> HIDE DEF e
<1>5. IsTold(buses, log, sock, b, e, buses', log', sock')
  BY ONLY <1>1, <1>2, <1>3, <1>4, b \in 1 .. Len(log) DEF IsTold
<1> QED
  BY ONLY <1>5, ToldSound

\* ...and reset, which makes the bus of the session when there is none.
LEMMA ResetStep ==
  ASSUME BusInv, NEW b, b \in 1 .. Len(Registered(log, <<>>)), Reset(b)
  PROVE  /\ BusesSound(buses', log') /\ SocketsSound(sock', log')
         /\ Len(log') = Len(Registered(log, <<>>))
<1> DEFINE ls == Registered(log, <<>>)
           bs == Registered(buses, EmptyBus)
           e == [type |-> "session_reset", agent |-> Nobody, ids |-> <<Len(ls[b]) + 1>>]
<1>1. /\ log' = [ls EXCEPT ![b] = Append(@, e)]
      /\ buses' = [bs EXCEPT ![b] = Recorded(EmptyBus, e)]
      /\ sock' = [s \in Sockets |->
                    IF Subscribed(sock[s], b)
                    THEN [Enqueue([sock[s] EXCEPT !.queue = <<>>], e) EXCEPT !.lost = FALSE]
                    ELSE sock[s]]
  BY DEF Reset
<1>2. BusesSound(bs, ls) /\ SocketsSound(sock, ls)
  BY RegisteredIs
<1> HIDE DEF ls, bs
<1>3. e \in Event
  <2>1. Len(ls[b]) + 1 \in Nat
    BY <1>2 DEF BusesSound, ls
  <2>2. <<Len(ls[b]) + 1>> \in Seq(Nat)
    BY ONLY <2>1
  <2> QED
    BY <2>2 DEF Event, Kinds
<1>4. e.ids = <<Len(ls[b]) + 1>> /\ e.type = "session_reset" /\ b \in 1 .. Len(ls)
  BY DEF ls
<1> HIDE DEF e
<1>5. BusesSound(buses', log') /\ SocketsSound(sock', log') /\ Len(log') = Len(ls)
  <2>1. IsReset(bs, ls, sock, b, e, buses', log', sock')
    BY ONLY <1>1, <1>2, <1>3, <1>4 DEF IsReset
  <2> QED
    BY ONLY <2>1, ResetSound
<1> QED
  BY ONLY <1>5 DEF ls

\* A run is launched: the bus is reset.
LEMMA LaunchKeeps == ASSUME BusInv, Launch PROVE BusInv'
<1>1. Reset(Bus) /\ cur' = Bus /\ live' = Bus
  BY DEF Launch
<1> DEFINE L == Len(Registered(log, <<>>))
<1>2. Bus \in 1 .. L /\ L \in Nat
  BY RegisteredIs
<1>3. BusesSound(buses', log') /\ SocketsSound(sock', log') /\ Len(log') = L
  BY <1>1, <1>2, ResetStep
<1>4. cur' \in 0 .. Len(log') /\ live' \in 0 .. Len(log')
  BY <1>1, <1>2, <1>3
<1> QED
  BY ONLY <1>3, <1>4 DEF BusInv

\* A new bus is registered.
LEMMA StartKeeps == ASSUME BusInv, NEW valid \in BOOLEAN, StartSession(valid) PROVE BusInv'
<1>1. /\ buses' = Append(buses, EmptyBus) /\ log' = Append(log, <<>>) /\ sock' = sock
      /\ cur' = Len(log) + 1 /\ (live' = cur' \/ live' = live)
  BY DEF StartSession
<1>2. /\ BusesSound(buses, log) /\ SocketsSound(sock, log) /\ Len(log) \in Nat
      /\ live \in 0 .. Len(log)
  BY DEF BusInv, BusesSound
<1>3. BusesSound(buses', log') /\ SocketsSound(sock', log') /\ Len(log') = Len(log) + 1
  BY ONLY <1>1, <1>2, RegisteredSound
<1>4. cur' \in 0 .. Len(log') /\ live' \in 0 .. Len(log')
  BY <1>1, <1>2, <1>3
<1> QED
  BY ONLY <1>3, <1>4 DEF BusInv

\* A turn starts, streams or ends.
LEMMA SpeakKeeps ==
  ASSUME BusInv, NEW a \in Agents, NEW type \in Turn \cup {"token"}, Speak(a, type) PROVE BusInv'
<1>1. Emit(live, type, a) /\ cur' = cur /\ live' = live /\ live # 0
  BY DEF Speak
<1>2. cur \in 0 .. Len(log) /\ live \in 0 .. Len(log) /\ live \in 1 .. Len(log)
  BY <1>1 DEF BusInv
<1>3. type \in Kinds \ {"session_reset"} /\ a \in Agents \cup {Nobody}
  BY DEF Kinds, Turn
<1>4. BusesSound(buses', log') /\ SocketsSound(sock', log') /\ Len(log') = Len(log)
  BY <1>1, <1>2, <1>3, EmitStep
<1> QED
  BY ONLY <1>1, <1>2, <1>4 DEF BusInv

\* Any other event, on the live bus or on the registered one.
LEMMA TellKeeps == ASSUME BusInv, Tell PROVE BusInv'
<1>1. PICK b \in {live, cur} \ {0} : Emit(b, "step", Nobody)
  BY DEF Tell
<1>2. cur' = cur /\ live' = live
  BY DEF Tell
<1>3. cur \in 0 .. Len(log) /\ live \in 0 .. Len(log) /\ b \in 1 .. Len(log)
  BY <1>1 DEF BusInv
<1>4. "step" \in Kinds \ {"session_reset"} /\ Nobody \in Agents \cup {Nobody} /\ "step" # "token"
  BY DEF Kinds
<1>5. BusesSound(buses', log') /\ SocketsSound(sock', log') /\ Len(log') = Len(log)
  BY <1>1, <1>3, <1>4, EmitStep
<1> QED
  BY ONLY <1>2, <1>3, <1>5 DEF BusInv

\* The task ends by itself.
LEMMA FinishKeeps ==
  ASSUME BusInv, NEW type \in {"completed", "error"}, Finish(type) PROVE BusInv'
<1>1. Emit(live, type, Nobody) /\ cur' = cur /\ live' = 0 /\ live # 0
  BY DEF Finish
<1>2. cur \in 0 .. Len(log) /\ live \in 1 .. Len(log) /\ 0 \in 0 .. Len(log)
  BY <1>1 DEF BusInv, BusesSound
<1>3. type \in Kinds \ {"session_reset"} /\ Nobody \in Agents \cup {Nobody} /\ type # "token"
  BY DEF Kinds, Terminal
<1>4. BusesSound(buses', log') /\ SocketsSound(sock', log') /\ Len(log') = Len(log)
  BY <1>1, <1>2, <1>3, EmitStep
<1> QED
  BY ONLY <1>1, <1>2, <1>4 DEF BusInv

\* The session is stopped, which is told if there is a bus.
LEMMA CancelKeeps == ASSUME BusInv, Cancel PROVE BusInv'
<1>1. cur' = cur /\ live' = live
  BY DEF Cancel
<1>2. cur \in 0 .. Len(log) /\ live \in 0 .. Len(log)
  BY DEF BusInv
<1>3. CASE cur = 0
  <2>1. buses' = buses /\ log' = log /\ sock' = sock
    BY <1>3 DEF Cancel
  <2> QED
    BY ONLY BusInv, <1>1, <2>1 DEF BusInv
<1>4. CASE cur # 0
  <2>1. Emit(cur, "pipeline_cancelled", Nobody) /\ cur \in 1 .. Len(log)
    BY <1>2, <1>4 DEF Cancel
  <2>2. /\ "pipeline_cancelled" \in Kinds \ {"session_reset"} /\ Nobody \in Agents \cup {Nobody}
        /\ "pipeline_cancelled" # "token"
    BY DEF Kinds, Terminal
  <2>3. BusesSound(buses', log') /\ SocketsSound(sock', log') /\ Len(log') = Len(log)
    BY <2>1, <2>2, EmitStep
  <2> QED
    BY ONLY <1>1, <1>2, <2>3 DEF BusInv
<1> QED
  BY ONLY <1>3, <1>4

\* The cancelled task says so on the bus it has.
LEMMA CancelledKeeps == ASSUME BusInv, CancelledTold PROVE BusInv'
<1>1. Emit(live, "pipeline_cancelled", Nobody) /\ cur' = cur /\ live' = 0 /\ live # 0
  BY DEF CancelledTold
<1>2. cur \in 0 .. Len(log) /\ live \in 1 .. Len(log) /\ 0 \in 0 .. Len(log)
  BY <1>1 DEF BusInv, BusesSound
<1>3. /\ "pipeline_cancelled" \in Kinds \ {"session_reset"} /\ Nobody \in Agents \cup {Nobody}
      /\ "pipeline_cancelled" # "token"
  BY DEF Kinds, Terminal
<1>4. BusesSound(buses', log') /\ SocketsSound(sock', log') /\ Len(log') = Len(log)
  BY <1>1, <1>2, <1>3, EmitStep
<1> QED
  BY ONLY <1>1, <1>2, <1>4 DEF BusInv

\* A run is started over a socket: the bus of that socket is reset.
LEMMA SocketStartKeeps == ASSUME BusInv, NEW s \in Sockets, StartOverSocket(s) PROVE BusInv'
<1>1. Reset(sock[s].bus) /\ cur' = cur /\ live' = sock[s].bus /\ sock[s].pc = "open"
  BY DEF StartOverSocket
<1> DEFINE L == Len(Registered(log, <<>>))
<1>2. L \in Nat /\ Len(log) \in Nat /\ Len(log) <= L
  BY RegisteredIs
<1>3. sock[s].bus \in 1 .. Len(log) /\ cur \in 0 .. Len(log)
  BY <1>1 DEF BusInv, SocketsSound, SocketSound
<1> HIDE DEF L
<1>4. sock[s].bus \in 1 .. L /\ sock[s].bus \in 0 .. L /\ cur \in 0 .. L
  BY ONLY <1>2, <1>3
<1>5. BusesSound(buses', log') /\ SocketsSound(sock', log') /\ Len(log') = L
  BY <1>1, <1>4, ResetStep DEF L
<1> QED
  BY ONLY <1>1, <1>4, <1>5 DEF BusInv

\* A client connects, and subscribes at once unless it is greeted first.
LEMMA ConnectKeeps == ASSUME BusInv, NEW s \in Sockets, Connect(s) PROVE BusInv'
<1> DEFINE k == sock[s]
           b == Bus
           ls == Registered(log, <<>>)
           bs == Registered(buses, EmptyBus)
           k1 == IF status = "completed" THEN [k EXCEPT !.pc = "greeting", !.bus = b]
                 ELSE Subscribe(k, b, bs[b])
<1>1. /\ k.pc = "off" /\ cur' = b /\ live' = live /\ buses' = bs /\ log' = ls
      /\ sock' = [sock EXCEPT ![s] = k1]
  BY DEF Connect
<1>2. /\ BusesSound(bs, ls) /\ SocketsSound(sock, ls) /\ b \in 1 .. Len(ls)
      /\ Len(ls) \in Nat /\ Len(log) \in Nat /\ Len(log) <= Len(ls)
  BY RegisteredIs
<1>3. live \in 0 .. Len(log)
  BY DEF BusInv
<1> HIDE DEF ls, bs, b, k
<1>4. k \in Socket /\ k.queue = <<>> /\ k.heard = <<>> /\ k.lost = FALSE
  BY <1>1, <1>2 DEF SocketsSound, SocketSound, k
<1>5. Keeps(bs[b], ls[b]) /\ b \in Nat
  BY <1>2 DEF BusesSound
<1>6. SocketSound(k1, ls)
  <2>1. CASE status = "completed"
    <3>1. /\ k1 \in Socket /\ k1.pc = "greeting" /\ k1.bus = b
          /\ k1.queue = k.queue /\ k1.heard = k.heard /\ k1.lost = k.lost
      BY <1>4, <1>5, <2>1 DEF Socket
    <3> HIDE DEF k1
    <3> QED
      BY ONLY <1>2, <1>4, <3>1 DEF SocketSound
  <2>2. CASE status # "completed"
    <3>1. k1 = Subscribe(k, b, bs[b])
      BY <2>2
    <3>2. /\ k1 \in Socket /\ k1.pc = "open" /\ k1.bus = b /\ Len(k1.queue) <= QueueLimit
          /\ Delivered(k1, ls[b])
      <4> HIDE DEF k1
      <4>1. IsSubscribing(k, b, bs[b], ls[b], k1)
        BY ONLY <1>4, <1>5, <3>1 DEF IsSubscribing
      <4> QED
        BY ONLY <4>1, SubscribeIs
    <3> HIDE DEF k1
    <3> QED
      BY ONLY <1>2, <3>2 DEF SocketSound
  <2> QED
    BY ONLY <2>1, <2>2
<1> HIDE DEF k1
<1>7. SocketsSound(sock', ls)
  BY ONLY <1>1, <1>2, <1>6, s \in Sockets, OneSocketSound
<1>8. cur' \in 0 .. Len(ls) /\ live' \in 0 .. Len(ls)
  BY ONLY <1>1, <1>2, <1>3
<1> QED
  BY ONLY <1>1, <1>2, <1>7, <1>8 DEF BusInv

\* A step of one socket alone.
LEMMA OneSocketKeeps ==
  ASSUME BusInv, NEW s \in Sockets, NEW k, SocketSound(k, log), sock' = [sock EXCEPT ![s] = k],
         UNCHANGED <<buses, log, cur, live>>
  PROVE  BusInv'
<1>1. BusesSound(buses, log) /\ SocketsSound(sock, log) /\ cur \in 0 .. Len(log) /\ live \in 0 .. Len(log)
  BY DEF BusInv
<1>2. SocketsSound([sock EXCEPT ![s] = k], log)
  BY ONLY <1>1, s \in Sockets, SocketSound(k, log), OneSocketSound
<1>3. SocketsSound(sock', log')
  BY <1>2
<1> QED
  BY <1>1, <1>3 DEF BusInv

\* It subscribes to what the bus has told by then.
LEMMA GreetKeeps == ASSUME BusInv, NEW s \in Sockets, Greet(s) PROVE BusInv'
<1> DEFINE k == sock[s]
           k1 == Subscribe(k, k.bus, buses[k.bus])
<1>1. /\ k.pc = "greeting" /\ sock' = [sock EXCEPT ![s] = k1]
      /\ UNCHANGED <<buses, log, cur, live>> /\ k1 = Subscribe(k, k.bus, buses[k.bus])
  BY DEF Greet
<1>2. SocketSound(k, log) /\ BusesSound(buses, log)
  BY DEF BusInv, SocketsSound
<1> HIDE DEF k
<1>3. /\ k \in Socket /\ k.queue = <<>> /\ k.heard = <<>> /\ k.lost = FALSE /\ k.bus \in 1 .. Len(log)
  BY <1>1, <1>2 DEF SocketSound
<1>4. Keeps(buses[k.bus], log[k.bus]) /\ k.bus \in Nat
  BY <1>2, <1>3 DEF BusesSound
<1> HIDE DEF k1
<1>5. /\ k1 \in Socket /\ k1.pc = "open" /\ k1.bus = k.bus /\ Len(k1.queue) <= QueueLimit
      /\ Delivered(k1, log[k.bus])
  <2>1. IsSubscribing(k, k.bus, buses[k.bus], log[k.bus], k1)
    BY ONLY <1>1, <1>3, <1>4 DEF IsSubscribing
  <2> QED
    BY ONLY <2>1, SubscribeIs
<1>6. SocketSound(k1, log)
  BY ONLY <1>3, <1>5 DEF SocketSound
<1> QED
  BY <1>1, <1>6, OneSocketKeeps

\* A connection that is closed.
LEMMA ClosedIs == ASSUME NEW ls PROVE SocketSound([Offline EXCEPT !.pc = "closed"], ls)
<1> DEFINE k == [Offline EXCEPT !.pc = "closed"]
<1>1. <<>> \in Seq(Event)
  OBVIOUS
<1>2. k \in Socket /\ k.pc = "closed"
  BY <1>1 DEF Offline, Socket
<1> HIDE DEF k
<1>3. SocketSound(k, ls)
  BY ONLY <1>2 DEF SocketSound
<1> QED
  BY <1>3 DEF k

\* What was queued is heard, so that nothing changes in what is heard in all.
LEMMA DeliverKeeps == ASSUME BusInv, NEW s \in Sockets, Deliver(s) PROVE BusInv'
<1> DEFINE k == sock[s]
           e == Head(k.queue)
           k2 == [k EXCEPT !.queue = Tail(@), !.heard = Append(@, e)]
           k1 == IF e.type = "error" THEN [Offline EXCEPT !.pc = "closed"] ELSE k2
<1>1. /\ k.pc = "open" /\ k.queue # <<>> /\ sock' = [sock EXCEPT ![s] = k1]
      /\ UNCHANGED <<buses, log, cur, live>>
  BY DEF Deliver
<1>2. SocketSound(k, log)
  BY DEF BusInv, SocketsSound
<1> HIDE DEF k
<1>3. /\ k \in Socket /\ k.bus \in 1 .. Len(log) /\ Len(k.queue) <= QueueLimit
      /\ Delivered(k, log[k.bus]) /\ k.queue \in Seq(Event) /\ k.heard \in Seq(Event)
  BY <1>1, <1>2 DEF SocketSound, Socket
<1> DEFINE q == k.queue
           h == k.heard
<1>4. /\ Tail(q) \in Seq(Event) /\ e \in Event /\ Len(Tail(q)) <= Len(q) /\ Len(q) \in Nat
      /\ Len(Tail(q)) \in Nat /\ Append(h, e) \in Seq(Event)
      /\ Append(h, e) \o Tail(q) = h \o q
  <2>1. q \in Seq(Event) /\ q # <<>> /\ h \in Seq(Event) /\ e = Head(q)
    BY <1>1, <1>3
  <2> HIDE DEF q, h, e
  <2>2. /\ Tail(q) \in Seq(Event) /\ e \in Event /\ Len(Tail(q)) = Len(q) - 1
        /\ Len(q) \in Nat \ {0} /\ e = q[1]
        /\ \A i \in 1 .. Len(Tail(q)) : Tail(q)[i] = q[i + 1]
    BY ONLY <2>1
  <2>3. /\ Append(h, e) \in Seq(Event) /\ Len(Append(h, e)) = Len(h) + 1 /\ Len(h) \in Nat
        /\ Append(h, e)[Len(h) + 1] = e
        /\ \A i \in 1 .. Len(h) : Append(h, e)[i] = h[i]
    BY ONLY <2>1, <2>2
  <2> DEFINE t == Tail(q)
             g == Append(h, e)
             x == g \o t
             y == h \o q
  <2> HIDE DEF t, g
  <2>4. /\ x \in Seq(Event) /\ Len(x) = Len(g) + Len(t)
        /\ \A i \in 1 .. Len(g) : x[i] = g[i]
        /\ \A i \in 1 .. Len(t) : x[Len(g) + i] = t[i]
    <3>1. g \in Seq(Event) /\ t \in Seq(Event)
      BY ONLY <2>2, <2>3 DEF g, t
    <3> QED
      BY ONLY <3>1
  <2>5. /\ y \in Seq(Event) /\ Len(y) = Len(h) + Len(q)
        /\ \A i \in 1 .. Len(h) : y[i] = h[i]
        /\ \A i \in 1 .. Len(q) : y[Len(h) + i] = q[i]
    BY ONLY <2>1
  <2> HIDE DEF x, y
  <2>6. /\ Len(g) = Len(h) + 1 /\ Len(t) = Len(q) - 1 /\ Len(h) \in Nat /\ Len(q) \in Nat \ {0}
    BY ONLY <2>2, <2>3 DEF g, t
  <2>7. Len(x) = Len(y) /\ Len(y) \in Nat
    BY ONLY <2>4, <2>5, <2>6
  <2>8. ASSUME NEW i \in 1 .. Len(y) PROVE x[i] = y[i]
    <3>1. CASE i \in 1 .. Len(h)
      <4>1. i \in 1 .. Len(g)
        BY ONLY <2>6, <3>1
      <4>2. x[i] = g[i] /\ y[i] = h[i] /\ g[i] = h[i]
        BY ONLY <2>3, <2>4, <2>5, <3>1, <4>1 DEF g
      <4> QED
        BY ONLY <4>2
    <3>2. CASE i = Len(h) + 1
      <4>1. i \in 1 .. Len(g) /\ 1 \in 1 .. Len(q)
        BY ONLY <2>6, <3>2
      <4>2. x[i] = g[i] /\ y[i] = q[1] /\ g[i] = e
        BY ONLY <2>3, <2>4, <2>5, <3>2, <4>1 DEF g
      <4> QED
        BY ONLY <2>2, <4>2
    <3>3. CASE i > Len(h) + 1
      <4> DEFINE j == i - Len(g)
      <4>1. /\ j \in 1 .. Len(t) /\ j + 1 \in 1 .. Len(q) /\ i = Len(g) + j /\ i = Len(h) + (j + 1)
        BY ONLY <2>5, <2>6, <3>3, i \in 1 .. Len(y)
      <4> HIDE DEF j
      <4>2. x[i] = t[j] /\ y[i] = q[j + 1]
        BY ONLY <2>4, <2>5, <4>1
      <4>3. t[j] = q[j + 1]
        BY ONLY <2>2, <4>1 DEF t
      <4> QED
        BY ONLY <4>2, <4>3
    <3> QED
      BY ONLY <2>6, <2>7, <3>1, <3>2, <3>3, i \in 1 .. Len(y)
  <2>9. x = y
    BY ONLY <2>4, <2>5, <2>7, <2>8, SameSeq
  <2> QED
    BY ONLY <2>2, <2>3, <2>9 DEF x, y, g, t
<1>5. CASE e.type = "error"
  <2>1. SocketSound(k1, log)
    BY <1>5, ClosedIs
  <2> HIDE DEF k1
  <2> QED
    BY <1>1, <2>1, OneSocketKeeps
<1>6. CASE e.type # "error"
  <2>1. k1 = k2
    BY <1>6
  <2> HIDE DEF e, k1
  <2>2. /\ k2 \in Socket /\ k2.pc = "open" /\ k2.bus = k.bus /\ k2.lost = k.lost
        /\ k2.queue = Tail(k.queue) /\ k2.heard = Append(k.heard, e)
    BY <1>1, <1>3, <1>4 DEF Socket
  <2> HIDE DEF k2
  <2>3. Len(k2.queue) <= QueueLimit
    <3>1. \A x, y \in Nat : x <= y /\ y <= QueueLimit => x <= QueueLimit
      BY ONLY Limits
    <3> QED
      BY ONLY <1>3, <1>4, <2>2, <3>1
  <2>4. k2.heard \o k2.queue = k.heard \o k.queue
    BY ONLY <1>4, <2>2
  <2>5. Delivered(k2, log[k.bus])
    BY ONLY <1>3, <2>2, <2>4 DEF Delivered
  <2>6. SocketSound(k2, log)
    BY ONLY <1>3, <2>2, <2>3, <2>5 DEF SocketSound
  <2> QED
    BY <1>1, <2>1, <2>6, OneSocketKeeps
<1> QED
  BY ONLY <1>5, <1>6

\* Nothing is owed to who left.
LEMMA ClientGoneKeeps == ASSUME BusInv, NEW s \in Sockets, ClientGone(s) PROVE BusInv'
<1> DEFINE k == sock[s]
           e == [type |-> "_disconnected", agent |-> Nobody, ids |-> <<>>]
           k2 == Enqueue(k, e)
           k1 == [k2 EXCEPT !.pc = "gone"]
<1>1. /\ k.pc = "open" /\ sock' = [sock EXCEPT ![s] = k1]
      /\ UNCHANGED <<buses, log, cur, live>>
  BY DEF ClientGone
<1>2. SocketSound(k, log)
  BY DEF BusInv, SocketsSound
<1> HIDE DEF k
<1>3. k \in Socket /\ k.bus \in 1 .. Len(log) /\ Len(k.queue) <= QueueLimit /\ k.queue \in Seq(Event)
  BY <1>1, <1>2 DEF SocketSound, Socket
<1>4. e \in Event
  <2>1. <<>> \in Seq(Nat)
    OBVIOUS
  <2> QED
    BY <2>1 DEF Event, Kinds
<1> HIDE DEF e
<1>5. /\ k2 \in Socket /\ k2.bus = k.bus
      /\ Len(k.queue) < QueueLimit => k2.queue = Append(k.queue, e)
      /\ Len(k.queue) = QueueLimit => Len(k2.queue) = QueueLimit
  BY ONLY <1>3, <1>4, Enqueued
<1>6. Len(k2.queue) <= QueueLimit
  <2>1. Len(Append(k.queue, e)) = Len(k.queue) + 1 /\ Len(k.queue) \in Nat
    BY ONLY <1>3, <1>4
  <2> HIDE DEF k2
  <2> QED
    BY ONLY <1>3, <1>5, <2>1, Limits
<1> HIDE DEF k2
<1>7. k1 \in Socket /\ k1.pc = "gone" /\ k1.bus = k.bus /\ k1.queue = k2.queue
  BY ONLY <1>5 DEF Socket
<1> HIDE DEF k1
<1>8. SocketSound(k1, log)
  BY ONLY <1>3, <1>6, <1>7 DEF SocketSound
<1> QED
  BY <1>1, <1>8, OneSocketKeeps

\* A connection that ends listens to no bus.
LEMMA UnsubscribeKeeps == ASSUME BusInv, NEW s \in Sockets, Unsubscribe(s) PROVE BusInv'
<1> DEFINE k == [Offline EXCEPT !.pc = "closed"]
<1>1. sock' = [sock EXCEPT ![s] = k] /\ UNCHANGED <<buses, log, cur, live>>
  BY DEF Unsubscribe
<1>2. SocketSound(k, log)
  BY ClosedIs
<1> HIDE DEF k
<1> QED
  BY <1>1, <1>2, OneSocketKeeps

\* Every step keeps the invariant.
LEMMA BusKeeps == BusInv /\ [BusNext]_busVars => BusInv'
<1> SUFFICES ASSUME BusInv, [BusNext]_busVars PROVE BusInv'
  OBVIOUS
<1>1. CASE Launch
  BY <1>1, LaunchKeeps
<1>2. CASE Tell
  BY <1>2, TellKeeps
<1>3. CASE Cancel
  BY <1>3, CancelKeeps
<1>4. CASE CancelledTold
  BY <1>4, CancelledKeeps
<1>5. CASE \E valid \in BOOLEAN : StartSession(valid)
  BY <1>5, StartKeeps
<1>6. CASE \E a \in Agents, type \in Turn \cup {"token"} : Speak(a, type)
  BY <1>6, SpeakKeeps
<1>7. CASE \E type \in {"completed", "error"} : Finish(type)
  BY <1>7, FinishKeeps
<1>8. ASSUME NEW s \in Sockets,
             \/ StartOverSocket(s) \/ Connect(s) \/ Greet(s) \/ Deliver(s)
             \/ ClientGone(s) \/ Unsubscribe(s)
      PROVE  BusInv'
  BY <1>8, SocketStartKeeps, ConnectKeeps, GreetKeeps, DeliverKeeps, ClientGoneKeeps, UnsubscribeKeeps
<1>9. CASE UNCHANGED busVars
  BY <1>9 DEF busVars, BusInv
<1> QED
  BY <1>1, <1>2, <1>3, <1>4, <1>5, <1>6, <1>7, <1>8, <1>9 DEF BusNext

\* What is kept of the buses and the sockets is what Delivery asks for.
LEMMA BusDelivers == BusInv => Delivery
<1> SUFFICES ASSUME BusInv, NEW s \in Sockets, sock[s].pc = "open"
             PROVE  LET all == sock[s].heard \o sock[s].queue
                        mine == Picture(all)
                        true == Picture(log[sock[s].bus])
                    IN  IF sock[s].lost
                        THEN \E i \in DOMAIN all : Len(log[sock[s].bus]) \in Range(all[i].ids)
                        ELSE /\ IsSuffix(mine.told, true.told)
                             /\ Len(mine.told) >= Len(Newest(HistoryLimit, true.told))
                             /\ \A a \in Agents :
                                  /\ IsSuffix(mine.text[a], true.text[a])
                                  /\ Len(mine.text[a]) >= Len(Newest(TailLimit, true.text[a]))
  BY DEF Delivery
<1> DEFINE k == sock[s]
           all == k.heard \o k.queue
           events == log[k.bus]
           mine == Picture(all)
           true == Picture(events)
<1>1. SocketSound(k, log) /\ BusesSound(buses, log)
  BY DEF BusInv, SocketsSound
<1> HIDE DEF k
<1>2. /\ k \in Socket /\ k.bus \in 1 .. Len(log) /\ Delivered(k, events)
      /\ k.heard \in Seq(Event) /\ k.queue \in Seq(Event)
  BY <1>1 DEF SocketSound, Socket, k
<1>3. all \in Seq(Event) /\ DOMAIN all = 1 .. Len(all)
  BY ONLY <1>2
<1>4. events \in Seq(Event)
  BY <1>1, <1>2 DEF BusesSound
<1> HIDE DEF all, events
<1>5. CASE k.lost
  <2>1. \E i \in DOMAIN all : Len(events) \in Range(all[i].ids)
    BY ONLY <1>2, <1>3, <1>5 DEF Delivered, all
  <2> QED
    BY <1>5, <2>1 DEF k, all, events
<1>6. CASE ~k.lost
  <2>1. Mirrors(mine, true)
    BY ONLY <1>2, <1>6 DEF Delivered, all
  <2>2. mine \in Pictured /\ true \in Pictured
    BY ONLY <1>3, <1>4, PictureIsPictured
  <2> HIDE DEF mine, true
  <2>3. /\ mine.told \in Seq(Nat) /\ true.told \in Seq(Nat)
        /\ \A a \in Agents : mine.text[a] \in Seq(Nat) /\ true.text[a] \in Seq(Nat)
    BY ONLY <2>2, PictureFields
  <2>4. IsSuffix(mine.told, true.told) /\ Len(mine.told) >= Len(Newest(HistoryLimit, true.told))
    <3>1. Reaches(mine.told, true.told, HistoryLimit)
      BY ONLY <2>1 DEF Mirrors
    <3> QED
      BY ONLY <2>3, <3>1, EndIsSuffix DEF Reaches
  <2>5. ASSUME NEW a \in Agents
        PROVE  /\ IsSuffix(mine.text[a], true.text[a])
               /\ Len(mine.text[a]) >= Len(Newest(TailLimit, true.text[a]))
    <3>1. Reaches(mine.text[a], true.text[a], TailLimit)
      BY ONLY <2>1, a \in Agents DEF Mirrors
    <3>2. mine.text[a] \in Seq(Nat) /\ true.text[a] \in Seq(Nat)
      BY ONLY <2>3, a \in Agents
    <3> QED
      BY ONLY <3>1, <3>2, EndIsSuffix DEF Reaches
  <2> QED
    BY <1>6, <2>4, <2>5 DEF k, all, events, mine, true
<1> QED
  BY ONLY <1>5, <1>6

\* Whenever a client connected and whatever it has been sent, it sees the
\* session: what was told since the last reset and the end of what each agent
\* is saying; after a loss, the newest of it at least (SessionEventBus, events.py:32-81,
\* and the socket's loop in routes.py).  Assumed: fewer agents than a queue takes.
THEOREM SubscribersSeeTheSession == BusSpec => []Delivery
<1>1. BusSpec => []BusInv
  BY BusBegins, BusKeeps, PTL DEF BusSpec
<1> QED
  BY <1>1, BusDelivers, PTL
===============================================================================
