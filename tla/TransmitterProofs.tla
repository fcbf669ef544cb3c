-------------------------- MODULE TransmitterProofs --------------------------
(***************************************************************************)
(* For any number of transmitters and destinations, any sampling rate,     *)
(* length of a day and page size that libogg fits on a page: positions are *)
(* the clock's but for what the sound cards and missed callbacks make of   *)
(* it, transmitters agree on them, and pages follow on.  And for the main  *)
(* thread of each program: encoder, bitrate and terminal agree with what   *)
(* main, its keys and SIGINT have done.                                    *)
(***************************************************************************)
EXTENDS TxClock, TxMain, SequenceTheorems, TLAPS

-----------------------------------------------------------------------------
(* Quotient and remainder of the time, and that they are the only ones.    *)
LEMMA Division ==
  ASSUME NEW n \in Nat, NEW m \in Nat \ {0}
  PROVE  /\ n \div m \in Nat
         /\ n % m \in 0 .. m - 1
         /\ n = m * (n \div m) + (n % m)
BY SMT

LEMMA ProductAtLeast ==
  ASSUME NEW m \in Nat \ {0}, NEW k \in Nat \ {0}
  PROVE  m * k \in Nat /\ m * k >= m
BY SMT

LEMMA Remainder ==
  ASSUME NEW n \in Nat, NEW m \in Nat \ {0}, NEW k \in Nat,
         NEW s \in 0 .. m - 1, n = m * k + s
  PROVE  n \div m = k /\ n % m = s
<1> DEFINE q == n \div m
<1>1. q \in Nat /\ n % m \in 0 .. m - 1 /\ n = m * q + (n % m)
  BY Division
<1>2. ~ q > k
  <2> SUFFICES ASSUME q > k PROVE FALSE
    OBVIOUS
  <2>1. q - k \in Nat \ {0} /\ m * q = m * k + m * (q - k)
    BY <1>1, SMT
  <2>2. m * (q - k) >= m
    BY <2>1, ProductAtLeast
  <2>3. QED
    BY <1>1, <2>1, <2>2, SMT
<1>3. ~ k > q
  <2> SUFFICES ASSUME k > q PROVE FALSE
    OBVIOUS
  <2>1. k - q \in Nat \ {0} /\ m * k = m * q + m * (k - q)
    BY <1>1, SMT
  <2>2. m * (k - q) >= m
    BY <2>1, ProductAtLeast
  <2>3. QED
    BY <1>1, <2>1, <2>2, SMT
<1>4. q = k
  BY <1>1, <1>2, <1>3
<1>5. QED
  BY <1>1, <1>4

(* A tick later the second is the same, or a new one begins.               *)
LEMMA NextTick ==
  ASSUME NEW n \in Nat, NEW next \in Nat, NEW m \in Nat \ {0},
         next = n + 1, next % m # 0
  PROVE  next % m = (n % m) + 1 /\ next \div m = n \div m
<1> DEFINE q == n \div m
           s == n % m
<1>1. q \in Nat /\ s \in 0 .. m - 1 /\ n = m * q + s
  BY Division
<1> HIDE DEF q, s
<1>2. q + 1 \in Nat /\ m * (q + 1) = m * q + m
  BY <1>1, SMT
<1>3. s # m - 1
  <2> SUFFICES ASSUME s = m - 1 PROVE FALSE
    OBVIOUS
  <2>1. next = m * (q + 1) + 0 /\ 0 \in 0 .. m - 1
    BY <1>1, <1>2
  <2>2. QED
    BY <1>2, <2>1, Remainder
<1>4. next = m * q + (s + 1) /\ s + 1 \in 0 .. m - 1
  BY <1>1, <1>3
<1>5. next % m = s + 1 /\ next \div m = q
  BY <1>1, <1>4, Remainder
<1>6. QED
  BY <1>5 DEF q, s

(* The seconds since midnight, in ticks, and the ticks of this second are   *)
(* the ticks since midnight.                                                *)
LEMMA TimeOfDay ==
  ASSUME NEW n \in Nat
  PROVE  /\ DayTicks \in Nat \ {0}
         /\ n % DayTicks \in 0 .. n
         /\ ((n \div PerSecond) % DaySeconds) * PerSecond + (n % PerSecond) = n % DayTicks
<1> DEFINE second == n \div PerSecond
           day == second \div DaySeconds
           ofDay == second % DaySeconds
           ofSecond == n % PerSecond
<1>1. DayTicks \in Nat \ {0} /\ DayTicks = DaySeconds * PerSecond
  BY ProductAtLeast, ClockAssumption DEF DayTicks
<1>2. second \in Nat /\ ofSecond \in 0 .. PerSecond - 1
      /\ n = PerSecond * second + ofSecond
  BY Division, ClockAssumption
<1>3. day \in Nat /\ ofDay \in 0 .. DaySeconds - 1
      /\ second = DaySeconds * day + ofDay
  BY <1>2, Division, ClockAssumption
<1>4. n = DayTicks * day + (ofDay * PerSecond + ofSecond)
  <2> HIDE DEF day, ofDay, second, ofSecond
  <2>1. PerSecond * second = PerSecond * (DaySeconds * day) + PerSecond * ofDay
    BY <1>3, ClockAssumption, SMT
  <2>2. PerSecond * (DaySeconds * day) = (DaySeconds * PerSecond) * day
    BY <1>3, ClockAssumption, SMT
  <2>3. PerSecond * ofDay = ofDay * PerSecond
    BY <1>3, ClockAssumption, SMT
  <2>4. QED
    BY <1>1, <1>2, <1>3, <2>1, <2>2, <2>3, ClockAssumption, SMT
<1>5. ofDay * PerSecond + ofSecond \in 0 .. DayTicks - 1
  <2> HIDE DEF day, ofDay, second, ofSecond
  <2>1. ofDay * PerSecond \in Nat /\ ofDay * PerSecond <= (DaySeconds - 1) * PerSecond
    BY <1>3, ClockAssumption, SMT
  <2>2. (DaySeconds - 1) * PerSecond = DayTicks - PerSecond
    BY <1>1, ClockAssumption, SMT
  <2>3. QED
    BY <1>1, <1>2, <2>1, <2>2, ClockAssumption, SMT
<1>6. n % DayTicks = ofDay * PerSecond + ofSecond
  BY <1>1, <1>3, <1>4, <1>5, Remainder
<1>7. n % DayTicks \in 0 .. n
  <2> DEFINE q == n \div DayTicks
             s == n % DayTicks
  <2>1. q \in Nat /\ s \in 0 .. DayTicks - 1 /\ n = DayTicks * q + s
    BY <1>1, Division
  <2> HIDE DEF q, s
  <2>2. DayTicks * q \in Nat
    BY <1>1, <2>1, SMT
  <2>3. s \in 0 .. n
    BY <1>1, <2>1, <2>2
  <2>4. QED
    BY <2>3 DEF s
<1>8. QED
  BY <1>1, <1>6, <1>7

-----------------------------------------------------------------------------
(* The difference of local time does not show within a second. *)
LEMMA SameInSecond ==
  ASSUME NEW n \in Nat, NEW m \in Nat \ {0}, NEW o \in Nat,
         NEW local, local = n + o * m
  PROVE  local \in Nat /\ local % m = n % m
<1> DEFINE q == n \div m
           s == n % m
<1>1. q \in Nat /\ s \in 0 .. m - 1 /\ n = m * q + s
  BY Division
<1> HIDE DEF q, s
<1>2. m * (q + o) = m * q + o * m /\ o * m \in Nat /\ q + o \in Nat
  BY <1>1, SMT
<1> DEFINE product == m * (q + o)
           offsetTicks == o * m
<1>3. local = product + s /\ local \in Nat
  <2>1. m * q \in Int /\ product = m * q + offsetTicks /\ offsetTicks \in Nat
        /\ local = n + offsetTicks
    BY <1>1, <1>2, SMT
  <2> HIDE DEF product, offsetTicks
  <2>2. QED
    BY <1>1, <2>1
<1>4. local % m = s
  BY <1>1, <1>2, <1>3, Remainder
<1>5. QED
  BY <1>3, <1>4 DEF s

LEMMA LocalTime ==
  ASSUME TypeOK
  PROVE  /\ now \in Nat /\ localNow \in Nat
         /\ localNow % PerSecond = now % PerSecond
         /\ SecondsSinceMidnight \in 0 .. DaySeconds - 1
<1>1. now \in Nat /\ offset \in Nat /\ PerSecond \in Nat \ {0}
  BY ClockAssumption DEF TypeOK
<1>2. localNow = now + offset * PerSecond
  BY DEF localNow
<1>3. \A local : local = now + offset * PerSecond =>
        local \in Nat /\ local % PerSecond = now % PerSecond
  BY <1>1, SameInSecond, Zenon
<1>4. localNow \in Nat /\ localNow % PerSecond = now % PerSecond
  BY <1>2, <1>3, Zenon
<1> DEFINE second == localNow \div PerSecond
<1>5. second \in Nat
  BY <1>4, Division, ClockAssumption
<1>6. second % DaySeconds \in 0 .. DaySeconds - 1
  <2> HIDE DEF second
  <2>1. QED
    BY <1>5, Division, ClockAssumption
<1>7. QED
  BY <1>1, <1>4, <1>6 DEF SecondsSinceMidnight

(* The bounds that the ranges of TypeOK are made of. *)
LEMMA Bounds == DayTicks \in Nat \ {0} /\ Positions \subseteq Nat /\ 0 \in Positions
                /\ 0 \in 0 .. PageSize - 1 /\ 0 \in 0 .. 2 * PageSize - 2
<1>1. DayTicks \in Nat \ {0}
  BY TimeOfDay
<1>2. QED
  BY <1>1, ClockAssumption, PageAssumption DEF Positions

LEMMA Ranges ==
  ASSUME TypeOK, NEW x \in Senders
  PROVE  midnight[x] \in Int /\ behind[x] \in Int /\ ssmSamples[x] \in Nat
<1>1. ssmSamples[x] \in Positions /\ midnight[x] \in 1 - DayTicks .. MaxTicks
      /\ behind[x] \in Int
  BY DEF TypeOK
<1>2. midnight[x] \in Int
  <2>1. DayTicks \in Int /\ MaxTicks \in Int
    BY Bounds, ClockAssumption
  <2>2. QED
    BY <1>1, <2>1
<1>3. QED
  BY <1>1, <1>2, Bounds

Pages == [pagesize : 0 .. PageSize - 1, pending : 0 .. 2 * PageSize - 2,
          begun : BOOLEAN, position : Positions]

LEMMA InitIInv == Init => IInv
<1> SUFFICES ASSUME Init PROVE IInv
  OBVIOUS
<1>1. TypeOK
  BY Bounds, ClockAssumption, PageAssumption DEF Init, TypeOK, NoPage
<1>2. OnTheClock /\ StartPending /\ Uncounted
  BY DEF Init, OnTheClock, StartPending, Uncounted
<1>3. PagesCounted
  BY PageAssumption DEF Init, PagesCounted, PageCounted, NoPage
<1>4. QED
  BY <1>1, <1>2, <1>3 DEF IInv

-----------------------------------------------------------------------------
(* How far apart two pages may be. *)
Late == IF 2 * PageSize - 1 <= PageLimit THEN 0 ELSE PageSize - 1

Follows(last, new) == last # 0 /\ new \notin {0, last} => new - last \in PageSize .. PageSize + Late

LEMMA CountsRound ==
  ASSUME NEW n \in 0 .. PageSize - 1
  PROVE  (n + 1) % PageSize = IF n = PageSize - 1 THEN 0 ELSE n + 1
<1>1. CASE n = PageSize - 1
  <2>1. n + 1 = PageSize * 1 + 0 /\ n + 1 \in Nat /\ 0 \in 0 .. PageSize - 1
    BY <1>1, PageAssumption
  <2>2. QED
    BY <1>1, <2>1, Remainder, PageAssumption
<1>2. CASE n # PageSize - 1
  <2>1. n + 1 = PageSize * 0 + (n + 1) /\ n + 1 \in Nat /\ n + 1 \in 0 .. PageSize - 1
    BY <1>2, PageAssumption
  <2>2. QED
    BY <1>2, <2>1, Remainder, PageAssumption
<1>3. QED
  BY <1>1, <1>2

(* What one more packet makes of a page, with and without a flush.          *)
Packed(e) == [e EXCEPT !.pagesize = (e.pagesize + 1) % PageSize, !.pending = @ + 1]

Sent(e, samples, fits) ==
  IF Packed(e).pagesize = 0 THEN ogg_stream_flush(Packed(e), samples, fits) ELSE Packed(e)

LEMMA PacketAdded ==
  ASSUME NEW e \in Pages, PageCounted(e), NEW samples \in Positions,
         e.pending < samples,
         e.position # 0 => e.position + e.pending + 1 = samples,
         NEW fits \in PageLimit .. PageLimit + PageSize - 1
  PROVE  /\ Sent(e, samples, fits) \in Pages /\ PageCounted(Sent(e, samples, fits))
         /\ Sent(e, samples, fits).pending <= samples
         /\ Sent(e, samples, fits).position # 0 =>
              Sent(e, samples, fits).position + Sent(e, samples, fits).pending = samples
         /\ Follows(e.position, Sent(e, samples, fits).position)
<1> DEFINE f == Packed(e)
           g == Sent(e, samples, fits)
<1>0. /\ f = [e EXCEPT !.pagesize = (e.pagesize + 1) % PageSize, !.pending = @ + 1]
      /\ g = IF f.pagesize = 0 THEN ogg_stream_flush(f, samples, fits) ELSE f
  BY DEF Packed, Sent
<1> SUFFICES /\ g \in Pages /\ PageCounted(g) /\ g.pending <= samples
             /\ g.position # 0 => g.position + g.pending = samples
             /\ Follows(e.position, g.position)
  OBVIOUS
<1> HIDE DEF f, g
<1>1. /\ e.pagesize \in 0 .. PageSize - 1 /\ e.pending \in 0 .. 2 * PageSize - 2
      /\ e.begun \in BOOLEAN /\ e.position \in Nat /\ e.position \in Positions
      /\ samples \in Nat
  BY Bounds DEF Pages
<1>2. /\ e.pending - e.pagesize \in 0 .. PageSize - 1
      /\ ~ e.begun => e.pending = e.pagesize /\ e.position = 0
      /\ e.position # 0 /\ 2 * PageSize - 1 <= PageLimit => e.pending = e.pagesize
  BY DEF PageCounted
<1>3. /\ f.pagesize = IF e.pagesize = PageSize - 1 THEN 0 ELSE e.pagesize + 1
      /\ f.pending = e.pending + 1 /\ f.begun = e.begun /\ f.position = e.position
  BY <1>0, <1>1, CountsRound DEF Pages
<1>4. CASE e.pagesize # PageSize - 1
  <2>1. g = f /\ f.pagesize = e.pagesize + 1
    BY <1>0, <1>1, <1>3, <1>4
  <2>2. g.pending \in 0 .. 2 * PageSize - 2 /\ g.pagesize \in 0 .. PageSize - 1
    BY <1>1, <1>2, <1>3, <1>4, <2>1, PageAssumption
  <2>3. g \in Pages
    BY <1>0, <1>1, <2>1, <2>2 DEF Pages
  <2>4. PageCounted(g)
    BY <1>1, <1>2, <1>3, <2>1 DEF PageCounted
  <2>5. QED
    BY <1>1, <1>3, <2>1, <2>3, <2>4 DEF Follows
<1>5. CASE e.pagesize = PageSize - 1
  <2> DEFINE left == IF ~ e.begun THEN e.pending
                     ELSE IF e.pending + 1 <= fits THEN 0 ELSE e.pending + 1 - fits
             new == IF e.begun THEN samples - left ELSE 0
             ofFlush == IF ~ f.begun THEN f.pending - 1
                        ELSE IF f.pending <= fits THEN 0 ELSE f.pending - fits
  <2>1. g = [f EXCEPT !.begun = TRUE, !.pending = left, !.position = new]
    <3>1. ofFlush = left
      BY <1>1, <1>3
    <3>2. g = [f EXCEPT !.begun = TRUE, !.pending = ofFlush,
                        !.position = IF f.begun THEN samples - ofFlush ELSE 0]
      BY <1>0, <1>3, <1>5 DEF ogg_stream_flush
    <3> HIDE DEF left, ofFlush
    <3>3. QED
      BY <1>3, <3>1, <3>2
  <2>2. left \in 0 .. PageSize - 1 /\ left <= e.pending
    BY <1>1, <1>2, <1>5, PageAssumption
  <2>3. new \in Nat /\ new <= samples /\ (new # 0 => e.begun /\ new + left = samples)
    BY <1>1, <2>2
  <2>4. e.begun /\ 2 * PageSize - 1 <= PageLimit => left = 0
    BY <1>1, PageAssumption
  <2>5. Follows(e.position, new)
    <3> SUFFICES ASSUME e.position # 0, new \notin {0, e.position}
                 PROVE  new - e.position \in PageSize .. PageSize + Late
      BY DEF Follows
    <3>1. e.begun /\ new - e.position = e.pending + 1 - left
      BY <1>1, <1>2, <2>2, <2>3
    <3>2. CASE e.pending + 1 <= fits
      BY <1>1, <1>2, <1>5, <3>1, <3>2, PageAssumption DEF Late
    <3>3. CASE e.pending + 1 > fits
      BY <1>1, <1>2, <1>5, <3>1, <3>3, PageAssumption DEF Late
    <3>4. QED
      BY <1>1, <3>2, <3>3, PageAssumption
  <2> HIDE DEF left, new
  <2>6. g.pagesize = 0 /\ g.pending = left /\ g.begun = TRUE /\ g.position = new
    BY <1>0, <1>1, <1>3, <1>5, <2>1 DEF Pages
  <2>7. g \in Pages
    <3>1. left \in 0 .. 2 * PageSize - 2
      BY <2>2, PageAssumption
    <3>2. new \in Positions
      BY <2>3, ClockAssumption, Bounds DEF Positions
    <3>3. QED
      BY <1>0, <1>1, <1>3, <1>5, <2>1, <3>1, <3>2, Bounds DEF Pages
  <2>8. PageCounted(g)
    BY <2>2, <2>3, <2>4, <2>6 DEF PageCounted
  <2>9. QED
    BY <1>1, <2>2, <2>3, <2>5, <2>6, <2>7, <2>8
<1>6. QED
  BY <1>4, <1>5

(* A transmission adds a packet to every listed destination's page.         *)
LEMMA Transmitted ==
  ASSUME TypeOK, PagesCounted, Uncounted, NEW x \in Senders,
         NEW samples \in Positions, samples # 0,
         TransmitAll(x, samples),
         running[x] => samples = ssmSamples[x] + 1,
         running'[x], \A y \in Senders \ {x} : running'[y] = running[y],
         listed' = listed
  PROVE  /\ ssmSamples' \in [Senders -> Positions] /\ ssmSamples'[x] = samples
         /\ \A y \in Senders \ {x} : ssmSamples'[y] = ssmSamples[y]
         /\ page' \in [Senders -> [Dests -> Pages]]
         /\ PagesCounted'
         /\ \A y \in Senders, d \in Dests : Follows(page[y][d].position, page'[y][d].position)
<1> PICK fits \in [Dests -> PageLimit .. PageLimit + PageSize - 1] :
      /\ ssmSamples' = [ssmSamples EXCEPT ![x] = samples]
      /\ page' = [page EXCEPT ![x] =
                    [d \in Dests |->
                       LET e == ogg_stream_packetin(x, d)
                       IN IF d \notin listed[x] THEN @[d]
                          ELSE IF e.pagesize = 0 THEN ogg_stream_flush(e, samples, fits[d])
                          ELSE e]]
  BY DEF TransmitAll
<1>1. page \in [Senders -> [Dests -> Pages]] /\ ssmSamples \in [Senders -> Positions]
  BY DEF TypeOK, Pages
<1>2. samples \in Nat /\ samples > 0 /\ ssmSamples[x] \in Nat
  <2>1. ssmSamples[x] \in Positions
    BY <1>1
  <2>2. samples \in Nat /\ ssmSamples[x] \in Nat
    BY <2>1, Bounds
  <2>3. QED
    BY <2>2
<1> DEFINE new == [d \in Dests |-> IF d \notin listed[x] THEN page[x][d]
                                   ELSE Sent(page[x][d], samples, fits[d])]
<1>3. page' = [page EXCEPT ![x] = new]
  BY <1>1 DEF Sent, Packed, ogg_stream_packetin, CountPacket
<1> DEFINE g(d) == Sent(page[x][d], samples, fits[d])
<1>4. ASSUME NEW d \in Dests
      PROVE  /\ g(d) \in Pages /\ PageCounted(g(d)) /\ g(d).pending <= samples
             /\ g(d).position # 0 => g(d).position + g(d).pending = samples
             /\ Follows(page[x][d].position, g(d).position)
  <2> DEFINE e == page[x][d]
  <2>1. e \in Pages /\ PageCounted(e)
    BY <1>1 DEF PagesCounted
  <2>2. e.pending < samples
    <3>1. e.pending <= ssmSamples[x] /\ e.pending \in Nat
      BY <2>1, PageAssumption DEF PagesCounted, Pages
    <3>2. running[x] \/ ssmSamples[x] = 0
      BY DEF Uncounted
    <3>3. QED
      BY <1>2, <3>1, <3>2
  <2>3. e.position # 0 => e.position + e.pending + 1 = samples
    <3>1. e.position # 0 => running[x] /\ e.position + e.pending = ssmSamples[x]
      BY DEF PagesCounted
    <3>2. QED
      BY <1>2, <3>1
  <2>4. fits[d] \in PageLimit .. PageLimit + PageSize - 1
    OBVIOUS
  <2> HIDE DEF e
  <2>5. QED
    BY <2>1, <2>2, <2>3, <2>4, PacketAdded DEF e
<1>5. new \in [Dests -> Pages]
  BY <1>1, <1>4
<1>6. \A d \in Dests : new[d] = IF d \notin listed[x] THEN page[x][d] ELSE g(d)
  OBVIOUS
<1> HIDE DEF new, g
<1>7. /\ page'[x] = new /\ page' \in [Senders -> [Dests -> Pages]]
      /\ \A y \in Senders \ {x} : page'[y] = page[y]
  BY <1>1, <1>3, <1>5
<1>8. /\ ssmSamples' \in [Senders -> Positions] /\ ssmSamples'[x] = samples
      /\ \A y \in Senders \ {x} : ssmSamples'[y] = ssmSamples[y]
  BY <1>1
<1>9. ASSUME NEW y \in Senders, NEW d \in Dests
      PROVE  /\ PageCounted(page'[y][d])
             /\ page'[y][d].pending <= ssmSamples'[y]
             /\ page'[y][d].position # 0 =>
                  /\ running'[y] /\ d \in listed'[y]
                  /\ page'[y][d].position + page'[y][d].pending = ssmSamples'[y]
             /\ Follows(page[y][d].position, page'[y][d].position)
  <2>1. /\ PageCounted(page[y][d])
        /\ page[y][d].pending <= ssmSamples[y]
        /\ page[y][d].position # 0 =>
             /\ running[y] /\ d \in listed[y]
             /\ page[y][d].position + page[y][d].pending = ssmSamples[y]
    BY DEF PagesCounted
  <2>2. CASE y # x
    BY <1>7, <1>8, <2>1, <2>2 DEF Follows
  <2>3. CASE y = x /\ d \in listed[x]
    <3>1. page'[x][d] = g(d)
      BY <1>6, <1>7, <2>3
    <3>2. QED
      BY <1>4, <1>8, <2>3, <3>1
  <2>4. CASE y = x /\ d \notin listed[x]
    <3>1. page'[x][d] = page[x][d] /\ page[x][d].position = 0
      BY <1>6, <1>7, <2>1, <2>4
    <3>2. page[x][d].pending \in Nat /\ ssmSamples[x] <= samples
      <4>1. page[x][d].pending \in Nat
        BY <1>1, PageAssumption DEF Pages
      <4>2. running[x] \/ ssmSamples[x] = 0
        BY DEF Uncounted
      <4>3. QED
        BY <1>2, <4>1, <4>2
    <3>3. page[x][d].pending <= samples
      BY <1>2, <2>1, <2>4, <3>2
    <3>4. QED
      BY <1>8, <2>1, <2>4, <3>1, <3>3 DEF Follows
  <2>5. QED
    BY <2>2, <2>3, <2>4
<1>10. PagesCounted'
  BY <1>9 DEF PagesCounted, PageCounted
<1>11. QED
  BY <1>7, <1>8, <1>9, <1>10

-----------------------------------------------------------------------------
(* The step of each action, and of the property about pages along with it.  *)
Contiguous ==
  \A x \in Senders, d \in Dests : Follows(page[x][d].position, page'[x][d].position)

(* Steps that leave the pages alone. *)
LEMMA PagesLeft ==
  ASSUME PagesCounted, UNCHANGED <<running, ssmSamples, listed, page>>
  PROVE  PagesCounted' /\ Contiguous
BY DEF PagesCounted, PageCounted, Contiguous, Follows

LEMMA LocalLeft ==
  ASSUME UNCHANGED <<now, offset>>
  PROVE  localNow' = localNow /\ SecondsSinceMidnight' = SecondsSinceMidnight
         /\ Midnight' = Midnight
BY DEF localNow, SecondsSinceMidnight, Midnight

LEMMA FirstStep ==
  ASSUME IInv, NEW x \in Senders, FirstCallback(x) PROVE IInv' /\ Contiguous
<1>1. TypeOK /\ SecondsSinceMidnight \in 0 .. DaySeconds - 1
  BY LocalTime DEF IInv
<1>2. ssm' \in [Senders -> 0 .. DaySeconds - 1] /\ ssm'[x] = SecondsSinceMidnight
      /\ \A y \in Senders \ {x} : ssm'[y] = ssm[y]
  BY <1>1 DEF FirstCallback, TypeOK
<1>3. due' = due \ {x} /\ ~ running[x]
      /\ UNCHANGED <<now, offset, running, ssmSamples, behind, midnight, listed, page>>
  BY DEF FirstCallback
<1>4. TypeOK'
  BY <1>1, <1>2, <1>3 DEF TypeOK, Positions
<1>5. OnTheClock'
  BY <1>3 DEF IInv, OnTheClock
<1>6. StartPending'
  BY <1>1, <1>2, <1>3, LocalLeft DEF IInv, StartPending, PassedBoundary
<1>7. Uncounted' /\ PagesCounted' /\ Contiguous
  BY <1>3, PagesLeft DEF IInv, Uncounted
<1>8. QED
  BY <1>4, <1>5, <1>6, <1>7 DEF IInv

LEMMA WaitingStep ==
  ASSUME IInv, NEW x \in Senders, WaitingCallback(x) PROVE IInv' /\ Contiguous
<1>1. due' = due \ {x} /\ ~ running[x] /\ ~ PassedBoundary(x, SecondsSinceMidnight)
      /\ UNCHANGED <<now, offset, ssm, running, ssmSamples, behind, midnight, listed, page>>
  BY DEF WaitingCallback, clock
<1>2. TypeOK' /\ OnTheClock'
  BY <1>1 DEF IInv, TypeOK, OnTheClock
<1>3. StartPending'
  BY <1>1, LocalLeft DEF IInv, StartPending, PassedBoundary
<1>4. Uncounted' /\ PagesCounted' /\ Contiguous
  BY <1>1, PagesLeft DEF IInv, Uncounted
<1>5. QED
  BY <1>2, <1>3, <1>4 DEF IInv

(* What the second of the start has been missed of is what the position, a  *)
(* full second, is behind.                                                  *)
LEMMA StartingStep ==
  ASSUME IInv, NEW x \in Senders, StartingCallback(x) PROVE IInv' /\ Contiguous
<1> DEFINE samples == StartPosition(x, SecondsSinceMidnight) + 1
           ofDay == localNow % DayTicks
           ofSecond == localNow % PerSecond
<1>1. /\ x \in due /\ ~ running[x] /\ ssm[x] # 0
      /\ PassedBoundary(x, SecondsSinceMidnight)
      /\ due' = due \ {x} /\ UNCHANGED <<now, offset, behind, listed>>
      /\ running' = [running EXCEPT ![x] = TRUE]
      /\ ssm' = [ssm EXCEPT ![x] = SecondsSinceMidnight]
      /\ midnight' = [midnight EXCEPT ![x] = Midnight]
      /\ TransmitAll(x, samples)
  BY DEF StartingCallback
<1>2. /\ TypeOK /\ now \in 0 .. MaxTicks /\ MaxTicks \in Nat
      /\ DayTicks \in Nat \ {0} /\ PerSecond \in Nat \ {0}
      /\ localNow \in Nat /\ SecondsSinceMidnight \in 0 .. DaySeconds - 1
  BY LocalTime, Bounds, ClockAssumption DEF IInv, TypeOK
<1>3. behind[x] = ofSecond
  <2>1. ofSecond \in Nat
    BY <1>2, Division
  <2>2. behind[x] = ofSecond + 0
    BY <1>1 DEF IInv, StartPending
  <2> HIDE DEF ofSecond
  <2>3. QED
    BY <2>1, <2>2
<1>4. /\ ofDay \in 0 .. DayTicks - 1 /\ ofSecond \in Nat
      /\ SecondsSinceMidnight * PerSecond + ofSecond = ofDay
  <2>1. ofDay \in 0 .. DayTicks - 1
    BY <1>2, Division
  <2>2. ofSecond \in Nat
    BY <1>2, Division
  <2>3. SecondsSinceMidnight * PerSecond + ofSecond = ofDay
    BY <1>2, TimeOfDay DEF SecondsSinceMidnight
  <2>4. QED
    BY <2>1, <2>2, <2>3
<1> DEFINE start == SecondsSinceMidnight * PerSecond
<1>5. start \in Nat /\ samples = start + 1
  <2>1. start \in Nat
    BY <1>2, SMT
  <2>2. QED
    BY <2>1 DEF StartPosition
<1>6. Midnight = now - ofDay
  BY DEF Midnight
<1> HIDE DEF samples, ofDay, ofSecond, start
<1>7. start + ofSecond = ofDay
  BY <1>4 DEF start
<1>8. samples \in Positions /\ samples # 0
  BY <1>2, <1>4, <1>5, <1>7, ClockAssumption DEF Positions
<1>9. Midnight \in 1 - DayTicks .. MaxTicks /\ Midnight + samples + behind[x] = now + 1
  BY <1>2, <1>3, <1>4, <1>5, <1>6, <1>7
<1>10. running'[x] /\ midnight'[x] = Midnight
       /\ \A y \in Senders \ {x} : running'[y] = running[y] /\ ssm'[y] = ssm[y]
                                  /\ midnight'[y] = midnight[y]
  BY <1>1, <1>2 DEF TypeOK
<1>11. /\ ssmSamples' \in [Senders -> Positions] /\ ssmSamples'[x] = samples
       /\ \A y \in Senders \ {x} : ssmSamples'[y] = ssmSamples[y]
       /\ page' \in [Senders -> [Dests -> Pages]]
       /\ PagesCounted' /\ Contiguous
  BY <1>1, <1>2, <1>8, <1>10, Transmitted DEF IInv, Contiguous
<1>12. TypeOK'
  <2>1. ssm' \in [Senders -> 0 .. DaySeconds - 1]
    BY <1>1, <1>2 DEF TypeOK
  <2>2. midnight' \in [Senders -> 1 - DayTicks .. MaxTicks] /\ running' \in [Senders -> BOOLEAN]
    BY <1>1, <1>2, <1>9 DEF TypeOK
  <2>3. QED
    BY <1>1, <1>2, <1>11, <2>1, <2>2 DEF TypeOK, Pages, Positions
<1>13. OnTheClock'
  BY <1>1, <1>9, <1>10, <1>11 DEF IInv, OnTheClock
<1>14. StartPending'
  BY <1>1, <1>10, LocalLeft DEF IInv, StartPending, PassedBoundary
<1>15. Uncounted'
  BY <1>10, <1>11 DEF IInv, Uncounted
<1>16. QED
  BY <1>11, <1>12, <1>13, <1>14, <1>15 DEF IInv

LEMMA RunningStep ==
  ASSUME IInv, NEW x \in Senders, RunningCallback(x) PROVE IInv' /\ Contiguous
<1> DEFINE samples == ssmSamples[x] + 1
<1>1. /\ x \in due /\ running[x] /\ due' = due \ {x}
      /\ UNCHANGED <<now, offset, ssm, running, behind, midnight, listed>>
      /\ TransmitAll(x, samples)
  BY DEF RunningCallback
<1>2. TypeOK /\ DayTicks \in Nat \ {0}
  BY Bounds DEF IInv
<1>3. /\ now \in 0 .. MaxTicks /\ MaxTicks \in Nat /\ MaxAhead \in Nat
      /\ midnight[x] \in 1 - DayTicks .. MaxTicks
      /\ behind[x] \in Int /\ behind[x] >= -MaxAhead
      /\ ssmSamples[x] \in Nat
  BY <1>2, Bounds, ClockAssumption DEF TypeOK
<1>4. midnight[x] + ssmSamples[x] + behind[x] = now
  BY <1>1, <1>3 DEF IInv, OnTheClock
<1>5. samples \in Positions /\ samples # 0
  BY <1>2, <1>3, <1>4 DEF Positions
<1>6. /\ ssmSamples' \in [Senders -> Positions] /\ ssmSamples'[x] = samples
      /\ \A y \in Senders \ {x} : ssmSamples'[y] = ssmSamples[y]
      /\ page' \in [Senders -> [Dests -> Pages]]
      /\ PagesCounted' /\ Contiguous
  <2> HIDE DEF samples
  <2>1. running'[x] /\ \A y \in Senders \ {x} : running'[y] = running[y]
    BY <1>1
  <2>2. samples = ssmSamples[x] + 1
    BY DEF samples
  <2>3. QED
    BY <1>1, <1>2, <1>5, <2>1, <2>2, Transmitted DEF IInv, Contiguous
<1>7. TypeOK'
  BY <1>1, <1>2, <1>6 DEF TypeOK, Pages, Positions
<1>8. OnTheClock'
  <2>1. midnight[x] + ssmSamples'[x] + behind[x] = now + 1
    BY <1>3, <1>4, <1>6
  <2>2. \A y \in Senders \ {x} :
          /\ running'[y] = running[y] /\ midnight'[y] = midnight[y] /\ behind'[y] = behind[y]
          /\ ssmSamples'[y] = ssmSamples[y] /\ (y \in due' <=> y \in due)
    BY <1>1, <1>6
  <2>3. x \notin due' /\ now' = now /\ midnight'[x] = midnight[x] /\ behind'[x] = behind[x]
    BY <1>1
  <2>4. QED
    <3> SUFFICES ASSUME NEW y \in Senders, running'[y]
                 PROVE  midnight'[y] + ssmSamples'[y] + behind'[y]
                          = now' + (IF y \in due' THEN 0 ELSE 1)
      BY DEF OnTheClock
    <3>1. CASE y = x
      BY <2>1, <2>3, <3>1
    <3>2. CASE y # x
      <4>1. midnight[y] + ssmSamples[y] + behind[y] = now + (IF y \in due THEN 0 ELSE 1)
        BY <2>2, <3>2 DEF IInv, OnTheClock
      <4>2. QED
        BY <2>2, <2>3, <3>2, <4>1
    <3>3. QED
      BY <3>1, <3>2
<1>9. StartPending' /\ Uncounted'
  BY <1>1, <1>6, LocalLeft DEF IInv, StartPending, Uncounted, PassedBoundary
<1>10. QED
  BY <1>6, <1>7, <1>8, <1>9 DEF IInv

(* Missed and further callbacks: what is due and what was counted move      *)
(* together.                                                                *)
LEMMA MissStep ==
  ASSUME IInv, NEW x \in Senders, MissCallback(x) \/ FurtherCallback(x)
  PROVE  IInv' /\ Contiguous
<1> DEFINE left(y) == behind[y] + (IF y \in due THEN 1 ELSE 0)
<1>1. UNCHANGED <<now, offset, ssm, running, ssmSamples, midnight, listed, page>>
  BY DEF MissCallback, FurtherCallback
<1>2. /\ TypeOK /\ MaxAhead \in Nat
      /\ \A y \in Senders : behind[y] \in Int /\ behind[y] >= -MaxAhead
  BY ClockAssumption DEF IInv, TypeOK
<1>3. /\ due' \subseteq Senders /\ behind' \in [Senders -> Int]
      /\ \A y \in Senders : behind'[y] >= -MaxAhead
      /\ \A y \in Senders : behind'[y] + (IF y \in due' THEN 1 ELSE 0) = left(y)
  <2>1. CASE MissCallback(x)
    <3>1. x \in due /\ due' = due \ {x} /\ behind' = [behind EXCEPT ![x] = @ + 1]
      BY <2>1 DEF MissCallback
    <3>2. behind'[x] = behind[x] + 1 /\ \A y \in Senders \ {x} : behind'[y] = behind[y]
      BY <1>2, <3>1 DEF TypeOK
    <3>3. QED
      BY <1>2, <3>1, <3>2 DEF TypeOK
  <2>2. CASE FurtherCallback(x)
    <3>1. x \notin due /\ due' = due \cup {x} /\ behind' = [behind EXCEPT ![x] = @ - 1]
          /\ behind[x] > -MaxAhead
      BY <2>2 DEF FurtherCallback
    <3>2. behind'[x] = behind[x] - 1 /\ \A y \in Senders \ {x} : behind'[y] = behind[y]
      BY <1>2, <3>1 DEF TypeOK
    <3>3. QED
      BY <1>2, <3>1, <3>2 DEF TypeOK
  <2>3. QED
    BY <2>1, <2>2
<1>4. TypeOK'
  BY <1>1, <1>2, <1>3 DEF TypeOK, Positions
<1>5. OnTheClock'
  <2> SUFFICES ASSUME NEW y \in Senders, running'[y]
               PROVE  midnight'[y] + ssmSamples'[y] + behind'[y]
                        = now' + (IF y \in due' THEN 0 ELSE 1)
    BY DEF OnTheClock
  <2>1. midnight[y] + ssmSamples[y] + behind[y] = now + (IF y \in due THEN 0 ELSE 1)
    BY <1>1 DEF IInv, OnTheClock
  <2>2. now \in Int /\ midnight[y] \in Int /\ ssmSamples[y] \in Int
        /\ behind[y] \in Int /\ behind'[y] \in Int
    BY <1>2, <1>3, Ranges, ClockAssumption DEF TypeOK
  <2>3. behind'[y] + (IF y \in due' THEN 1 ELSE 0) = behind[y] + (IF y \in due THEN 1 ELSE 0)
    BY <1>3
  <2>4. QED
    BY <1>1, <2>1, <2>2, <2>3
<1>6. StartPending'
  <2> SUFFICES ASSUME NEW y \in Senders, ~ running'[y], ssm'[y] # 0,
                      PassedBoundary(y, SecondsSinceMidnight)'
               PROVE  behind'[y] = (localNow' % PerSecond) + (IF y \in due' THEN 0 ELSE 1)
    BY DEF StartPending
  <2> DEFINE ofSecond == localNow % PerSecond
  <2>1. behind[y] = ofSecond + (IF y \in due THEN 0 ELSE 1)
    BY <1>1, LocalLeft DEF IInv, StartPending, PassedBoundary
  <2>2. ofSecond \in Nat /\ localNow' % PerSecond = ofSecond
    BY <1>1, <1>2, LocalTime, LocalLeft, Division, ClockAssumption
  <2> HIDE DEF ofSecond
  <2>3. behind'[y] + (IF y \in due' THEN 1 ELSE 0) = behind[y] + (IF y \in due THEN 1 ELSE 0)
        /\ behind'[y] \in Int
    BY <1>3
  <2>4. QED
    BY <2>1, <2>2, <2>3
<1>7. Uncounted' /\ PagesCounted' /\ Contiguous
  BY <1>1, PagesLeft DEF IInv, Uncounted
<1>8. QED
  BY <1>4, <1>5, <1>6, <1>7 DEF IInv

(* SEND and STOP touch the page of one destination only. *)
LEMMA DestinationStep ==
  ASSUME IInv, NEW x \in Senders, NEW d \in Dests,
         control_send(x, d) \/ control_stop(x, d)
  PROVE  IInv' /\ Contiguous
<1>1. /\ UNCHANGED <<now, offset, due, ssm, running, ssmSamples, behind, midnight>>
      /\ page' = [page EXCEPT ![x][d] = NoPage]
      /\ \/ listed' = [listed EXCEPT ![x] = @ \cup {d}]
         \/ listed' = [listed EXCEPT ![x] = @ \ {d}]
  BY DEF control_send, control_stop, clock
<1>2. TypeOK /\ page \in [Senders -> [Dests -> Pages]] /\ NoPage \in Pages
  BY Bounds DEF IInv, TypeOK, Pages, NoPage
<1>3. page' \in [Senders -> [Dests -> Pages]] /\ listed' \in [Senders -> SUBSET Dests]
  <2>1. page' \in [Senders -> [Dests -> Pages]]
    <3> DEFINE new == [page[x] EXCEPT ![d] = NoPage]
    <3>1. new \in [Dests -> Pages] /\ page' = [page EXCEPT ![x] = new]
      BY <1>1, <1>2
    <3> HIDE DEF new
    <3>2. QED
      BY <1>2, <3>1
  <2>2. listed' \in [Senders -> SUBSET Dests]
    <3>1. listed \in [Senders -> SUBSET Dests]
      BY <1>2 DEF TypeOK
    <3>2. QED
      BY <1>1, <3>1
  <2>3. QED
    BY <2>1, <2>2
<1>4. /\ page'[x][d] = NoPage
      /\ \A y \in Senders, e \in Dests : y # x \/ e # d =>
           /\ page'[y][e] = page[y][e]
           /\ e \in listed'[y] <=> e \in listed[y]
  BY <1>1, <1>2 DEF TypeOK
<1>5. TypeOK' /\ OnTheClock' /\ Uncounted'
  BY <1>1, <1>2, <1>3 DEF IInv, TypeOK, OnTheClock, Uncounted, Pages, Positions
<1>6. StartPending'
  BY <1>1, LocalLeft DEF IInv, StartPending, PassedBoundary
<1>7. PagesCounted'
  <2> SUFFICES ASSUME NEW y \in Senders, NEW e \in Dests
               PROVE  /\ PageCounted(page'[y][e])
                      /\ page'[y][e].pending <= ssmSamples'[y]
                      /\ page'[y][e].position # 0 =>
                           /\ running'[y] /\ e \in listed'[y]
                           /\ page'[y][e].position + page'[y][e].pending = ssmSamples'[y]
    BY DEF PagesCounted, PageCounted
  <2>1. CASE y = x /\ e = d
    <3>1. ssmSamples[x] \in Nat
      BY <1>2, Bounds DEF TypeOK
    <3>2. QED
      BY <1>1, <1>4, <2>1, <3>1, PageAssumption DEF NoPage, PageCounted
  <2>2. CASE y # x \/ e # d
    BY <1>1, <1>4, <2>2 DEF IInv, PagesCounted
  <2>3. QED
    BY <2>1, <2>2
<1>8. Contiguous
  BY <1>4 DEF Contiguous, Follows, NoPage
<1>9. QED
  BY <1>5, <1>6, <1>7, <1>8 DEF IInv

LEMMA RestartStep ==
  ASSUME IInv, NEW x \in Senders, Restart(x) PROVE IInv' /\ Contiguous
<1>1. /\ TypeOK /\ 0 \in Positions /\ 0 \in 0 .. DaySeconds - 1
      /\ 0 \in 1 - DayTicks .. MaxTicks /\ NoPage \in Pages /\ MaxAhead \in Nat
  BY Bounds, ClockAssumption DEF IInv, Pages, NoPage
<1>2. /\ now' = now /\ offset' = offset /\ due' = due
      /\ ssm'[x] = 0 /\ ~ running'[x] /\ ssmSamples'[x] = 0 /\ behind'[x] = 0
      /\ \A d \in Dests : page'[x][d] = NoPage
      /\ \A y \in Senders \ {x} :
           /\ ssm'[y] = ssm[y] /\ running'[y] = running[y]
           /\ ssmSamples'[y] = ssmSamples[y] /\ behind'[y] = behind[y]
           /\ midnight'[y] = midnight[y] /\ listed'[y] = listed[y]
           /\ page'[y] = page[y]
  BY <1>1 DEF Restart, TypeOK
<1>3. TypeOK'
  <2>1. page' \in [Senders -> [Dests -> Pages]]
    BY <1>1 DEF Restart, TypeOK, Pages
  <2>2. behind' \in [Senders -> Int] /\ \A y \in Senders : behind'[y] >= -MaxAhead
    <3>1. behind' \in [Senders -> Int]
      BY <1>1 DEF Restart, TypeOK
    <3>2. QED
      BY <1>1, <1>2, <3>1 DEF TypeOK
  <2>3. QED
    BY <1>1, <2>1, <2>2 DEF Restart, TypeOK, Pages, Positions
<1>4. OnTheClock' /\ Uncounted'
  BY <1>2 DEF IInv, OnTheClock, Uncounted
<1>5. StartPending'
  BY <1>2, LocalLeft DEF IInv, StartPending, PassedBoundary
<1>6. PagesCounted' /\ Contiguous
  BY <1>2, PageAssumption DEF IInv, PagesCounted, PageCounted, Contiguous, Follows, NoPage
<1>7. QED
  BY <1>3, <1>4, <1>5, <1>6 DEF IInv

(* A second that begins finds nothing missed in it. *)
LEMMA TickStep ==
  ASSUME IInv, Tick PROVE IInv' /\ Contiguous
<1>1. /\ due = {} /\ now < MaxTicks /\ now' = now + 1 /\ due' = Senders
      /\ offset' \in IF now' % PerSecond = 0 THEN Offsets ELSE {offset}
      /\ behind' = [x \in Senders |->
                      IF ~ running[x] /\ now' % PerSecond = 0 THEN 0 ELSE behind[x]]
      /\ UNCHANGED <<ssm, running, ssmSamples, midnight, listed, page>>
  BY DEF Tick
<1>2. /\ TypeOK /\ now \in Nat /\ now' \in 0 .. MaxTicks /\ MaxAhead \in Nat
      /\ offset \in Nat /\ offset' \in Offsets /\ offset' \in Nat /\ PerSecond \in Nat \ {0}
  BY <1>1, ClockAssumption DEF IInv, TypeOK
<1>3. TypeOK'
  <2>1. behind' \in [Senders -> Int] /\ \A x \in Senders : behind'[x] >= -MaxAhead
    BY <1>1, <1>2 DEF TypeOK
  <2>2. QED
    BY <1>1, <1>2, <2>1 DEF TypeOK, Positions
<1>4. OnTheClock'
  <2>1. \A x \in Senders : /\ midnight[x] \in Int /\ ssmSamples[x] \in Nat
                          /\ behind[x] \in Int
    BY <1>2, Ranges
  <2>2. \A x \in Senders : running[x] =>
          midnight[x] + ssmSamples[x] + behind[x] = now + 1
    BY <1>1 DEF IInv, OnTheClock
  <2>3. SUFFICES ASSUME NEW x \in Senders, running'[x]
                 PROVE  midnight'[x] + ssmSamples'[x] + behind'[x]
                          = now' + (IF x \in due' THEN 0 ELSE 1)
    BY DEF OnTheClock
  <2>4. behind'[x] = behind[x] /\ x \in due' /\ running[x]
    BY <1>1, <2>3
  <2>5. QED
    BY <1>1, <1>2, <2>1, <2>2, <2>4
<1>5. localNow' \in Nat /\ localNow' % PerSecond = now' % PerSecond
  <2>1. localNow' = now' + offset' * PerSecond /\ now' \in Nat
    BY <1>2 DEF localNow
  <2>2. \A n \in Nat, o \in Nat : \A local : local = n + o * PerSecond =>
          local \in Nat /\ local % PerSecond = n % PerSecond
    BY <1>2, SameInSecond, Zenon
  <2>3. QED
    BY <1>2, <2>1, <2>2, Zenon
<1>6. StartPending'
  <2>1. CASE now' % PerSecond = 0
    BY <1>1, <1>5, <2>1 DEF StartPending
  <2>2. CASE now' % PerSecond # 0
    <3>1. localNow \in Nat /\ localNow' = localNow + 1
      <4>1. offset' = offset
        BY <1>1, <2>2
      <4> DEFINE shift == offset * PerSecond
      <4>2. shift \in Nat /\ localNow = now + shift /\ localNow' = now' + shift
        BY <1>2, <4>1, SMT DEF localNow
      <4> HIDE DEF shift
      <4>3. QED
        BY <1>1, <1>2, <4>2
    <3>2. /\ localNow' % PerSecond = (localNow % PerSecond) + 1
          /\ localNow' \div PerSecond = localNow \div PerSecond
      BY <1>2, <1>5, <2>2, <3>1, NextTick
    <3>3. SecondsSinceMidnight' = SecondsSinceMidnight
      BY <3>2 DEF SecondsSinceMidnight
    <3>4. localNow % PerSecond \in Nat
      BY <1>2, <3>1, Division
    <3>5. QED
      BY <1>1, <2>2, <3>2, <3>3, <3>4 DEF IInv, StartPending, PassedBoundary
  <2>3. QED
    BY <2>1, <2>2
<1>7. Uncounted' /\ PagesCounted' /\ Contiguous
  BY <1>1, PagesLeft DEF IInv, Uncounted
<1>8. QED
  BY <1>3, <1>4, <1>6, <1>7 DEF IInv

LEMMA Step == IInv /\ [Next]_vars => IInv' /\ Contiguous
<1> SUFFICES ASSUME IInv, [Next]_vars PROVE IInv' /\ Contiguous
  OBVIOUS
<1>1. CASE Next
  BY <1>1, FirstStep, WaitingStep, StartingStep, RunningStep, MissStep,
     DestinationStep, RestartStep, TickStep DEF Next, Callback
<1>2. CASE UNCHANGED vars
  <2>1. UNCHANGED <<now, offset, due, ssm, running, ssmSamples, behind, midnight,
                    listed, page>>
    BY <1>2 DEF vars, clock
  <2>2. PagesCounted' /\ Contiguous
    BY <2>1, PagesLeft DEF IInv
  <2>3. StartPending'
    BY <2>1, LocalLeft DEF IInv, StartPending, PassedBoundary
  <2>4. TypeOK' /\ OnTheClock' /\ Uncounted'
    BY <2>1 DEF IInv, TypeOK, OnTheClock, Uncounted, Positions
  <2>5. QED
    BY <2>2, <2>3, <2>4 DEF IInv
<1>3. QED
  BY <1>1, <1>2

-----------------------------------------------------------------------------
(* The inductive invariant, however transmitters start, miss or gain        *)
(* callbacks and serve destinations, for all page sizes that libogg fits on *)
(* a page.                                                                  *)
THEOREM Inductive == Spec => []IInv
<1>1. IInv /\ [Next]_vars => IInv'
  BY Step
<1>2. QED
  BY InitIInv, <1>1, PTL DEF Spec

(* Positions, counts and times stay in their ranges; the position is        *)
(* bounded only because it follows the clock, and a page never holds more   *)
(* than two pages' packets.                                                 *)
THEOREM TypeCorrect == Spec => []TypeOK
<1>1. IInv => TypeOK
  BY DEF IInv
<1>2. QED
  BY Inductive, <1>1, PTL

(* A transmitter is away from the clock it started by only as far as its    *)
(* card and the callbacks missed have taken it since, on whichever callback *)
(* and in whichever second it started.                                      *)
THEOREM FollowsTheClock == Spec => []OnTheClock
<1>1. IInv => OnTheClock
  BY DEF IInv
<1>2. QED
  BY Inductive, <1>1, PTL

(* Two transmitters that started by the same midnight and are equally many  *)
(* callbacks behind stamp the same moment alike.                            *)
THEOREM StampAlike == Spec => []InStep
<1>1. IInv => InStep
  <2> SUFFICES ASSUME IInv, NEW x \in Senders, NEW y \in Senders,
                      running[x], running[y], midnight[x] = midnight[y],
                      behind[x] = behind[y], x \in due <=> y \in due
               PROVE  ssmSamples[x] = ssmSamples[y]
    BY DEF InStep
  <2>1. /\ midnight[x] \in Int /\ behind[x] \in Int
        /\ ssmSamples[x] \in Nat /\ ssmSamples[y] \in Nat
    BY Ranges DEF IInv
  <2>2. midnight[x] + ssmSamples[x] + behind[x] = midnight[y] + ssmSamples[y] + behind[y]
    BY DEF IInv, OnTheClock
  <2>3. QED
    BY <2>1, <2>2
<1>2. QED
  BY Inductive, <1>1, PTL

(* From its second page on, a destination is never sent pages that overlap, *)
(* nor with a gap but for what the first page left behind.                  *)
THEOREM PagesFollowOn == Spec => PagesContiguous
<1>1. IInv /\ [Next]_vars => [Contiguous]_vars
  BY Step
<1>2. Spec => [][Contiguous]_vars
  BY Inductive, <1>1, PTL DEF Spec
<1>3. QED
  BY <1>2 DEF Contiguous, Follows, Late, PagesContiguous

-----------------------------------------------------------------------------
(* The main thread of the three programs.                                  *)
Programs == {"ogg", "rawudp", "net"}

Calls == {"open", "create", "settings", "init", "start",
          "raw", "getchar", "cooked", "switch", "sleep",
          "ogg_destroy", "destroy", "stop", "close", "exit"}

IsPlan(plan) == plan \in Seq(Calls) /\ Len(plan) \in Nat \ {0}

(* What is left of a plan before its k-th call. *)
Rest(plan, k) == SubSeq(plan, k, Len(plan))

(* After 'q', and after SIGINT. *)
ShutdownPlans(p) == {cleanup[p] \o <<"exit">>, sig_handler[p]}

(* The inductive invariant: where main is in which of its plans, and what   *)
(* that says of stream, encoder, terminal and bitrate.                      *)
InForce == Accepted(arg_bitrate) => bitrate = Clamped(arg_bitrate)

Bitrates == /\ program = "rawudp" \/ adjusted => InForce
            /\ program = "ogg" /\ ~ adjusted => bitrate = OPUS_AUTO

StartingUp ==
  \E k \in 1 .. Len(Startup[program]) :
    /\ todo = Rest(Startup[program], k)
    /\ stream \in {"none", "ready"} /\ tty = "cooked" /\ misused = FALSE /\ adjusted = FALSE
    /\ program # "net" /\ k >= 3 => oe = "ready"
    /\ k = 5 => Bitrates

Looping ==
  \E k \in 1 .. Len(Loop[program]) :
    /\ todo = Rest(Loop[program], k)
    /\ stream = "started" /\ misused = FALSE
    /\ program # "net" => oe = "ready"
    /\ Bitrates

(* The cleanup of gsp-opus-tx-net closes the stream by its first two calls. *)
ShuttingDown ==
  \E plan \in ShutdownPlans(program) : \E k \in 1 .. Len(plan) :
    /\ todo = Rest(plan, k)
    /\ program = "ogg" /\ k >= 6 => tty = "cooked"
    /\ program = "net" /\ twice = FALSE =>
         /\ k = 1 => stream \notin {"closing", "gone"}
         /\ k = 2 => stream # "gone"

HandlingElsewhere ==
  handler # <<>> =>
    /\ shutdown = TRUE /\ twice = TRUE
    /\ \E k \in 1 .. Len(sig_handler[program]) :
         /\ handler = Rest(sig_handler[program], k)
         /\ program = "ogg" /\ k >= 6 => tty = "cooked"

EndsWell ==
  /\ ended \in {"no", "exited", "killed", "hung"}
  /\ signalled \/ unsafe \/ ended \in {"killed", "hung"} => shutdown = TRUE
  /\ program = "net" /\ ended = "killed" => twice = TRUE
  /\ ended = "exited" => tty = "cooked"

MainInv ==
  /\ program \in Programs
  /\ shutdown \in BOOLEAN /\ twice \in BOOLEAN
  /\ program # "ogg" => tty = "cooked"
  /\ shutdown = FALSE => StartingUp \/ Looping
  /\ shutdown = TRUE => ShuttingDown
  /\ HandlingElsewhere
  /\ EndsWell

-----------------------------------------------------------------------------
(* The plans, call by call: all the proofs need of them.                   *)
(* Start-up opens first and starts last, with the encoder made in between. *)
LEMMA StartupPlan ==
  ASSUME NEW p \in Programs
  PROVE  LET plan == Startup[p] IN
         /\ IsPlan(plan)
         /\ \A k \in 1 .. Len(plan) :
              /\ plan[k] \in {"open", "create", "settings", "init", "start"}
              /\ plan[k] = "open" <=> k = 1
              /\ plan[k] = "start" <=> k = Len(plan)
              /\ p # "net" /\ k = 2 => plan[k] = "create"
              /\ p = "rawudp" /\ k = 4 => plan[k] = "settings"
              /\ p = "ogg" /\ k = 4 => plan[k] = "init"
              /\ p = "net" => Len(plan) = 2
              /\ p # "net" => Len(plan) = 5
<1>1. CASE p = "ogg"
  <2>1. Startup[p] = <<"open", "create", "settings", "init", "start">>
    BY <1>1 DEF Startup
  <2>2. QED
    BY <1>1, <2>1 DEF IsPlan, Calls
<1>2. CASE p = "rawudp"
  <2>1. Startup[p] = <<"open", "create", "init", "settings", "start">>
    BY <1>2 DEF Startup
  <2>2. QED
    BY <1>2, <2>1 DEF IsPlan, Calls
<1>3. CASE p = "net"
  <2>1. Startup[p] = <<"open", "start">>
    BY <1>3 DEF Startup
  <2>2. QED
    BY <1>3, <2>1 DEF IsPlan, Calls
<1>4. QED
  BY <1>1, <1>2, <1>3 DEF Programs

(* The loop of gsp-opus-tx-ogg ends in the switch, with a cooked terminal.  *)
LEMMA LoopPlan ==
  ASSUME NEW p \in Programs
  PROVE  LET plan == Loop[p] IN
         /\ IsPlan(plan)
         /\ \A k \in 1 .. Len(plan) :
              /\ plan[k] \in {"raw", "getchar", "cooked", "switch", "sleep"}
              /\ p = "ogg" => /\ plan[k] = "getchar" => k = 2
                              /\ plan[k] = "switch" => k = Len(plan)
                              /\ k = 3 => plan[k] = "cooked"
                              /\ k = 4 => plan[k] = "switch"
                              /\ Len(plan) = 4
              /\ p # "ogg" => plan[k] \notin {"raw", "cooked"}
              /\ p = "rawudp" => plan[k] = "sleep"
<1>1. CASE p = "ogg"
  <2>1. Loop[p] = <<"raw", "getchar", "cooked", "switch">>
    BY <1>1 DEF Loop
  <2>2. QED
    BY <1>1, <2>1 DEF IsPlan, Calls
<1>2. CASE p = "rawudp"
  <2>1. Loop[p] = <<"sleep">>
    BY <1>2 DEF Loop
  <2>2. QED
    BY <1>2, <2>1 DEF IsPlan, Calls
<1>3. CASE p = "net"
  <2>1. Loop[p] = <<"getchar", "switch">>
    BY <1>3 DEF Loop
  <2>2. QED
    BY <1>3, <2>1 DEF IsPlan, Calls
<1>4. QED
  BY <1>1, <1>2, <1>3 DEF Programs

(* A shutdown ends in exit, puts the terminal of gsp-opus-tx-ogg back as    *)
(* its fifth call, and first closes the stream in gsp-opus-tx-net, where it *)
(* touches no encoder.                                                      *)
LEMMA ShutdownPlan ==
  ASSUME NEW p \in Programs, NEW plan \in ShutdownPlans(p)
  PROVE  /\ IsPlan(plan)
         /\ \A k \in 1 .. Len(plan) :
              /\ plan[k] \in {"ogg_destroy", "destroy", "stop", "close", "cooked", "exit"}
              /\ plan[k] = "exit" <=> k = Len(plan)
              /\ p = "net" => /\ plan[k] \notin {"ogg_destroy", "destroy"}
                              /\ plan[k] = "stop" <=> k = 1
                              /\ plan[k] = "close" <=> k = 2
              /\ p = "ogg" => /\ Len(plan) \geq 6
                              /\ k = 5 => plan[k] = "cooked"
                              /\ k \geq 6 => plan[k] \in {"cooked", "exit"}
              /\ p = "rawudp" => plan[k] # "cooked"
<1> DEFINE c == cleanup[p]
           e == c \o <<"exit">>
           h == c \o <<"cooked", "exit">>
<1>1. CASE p = "ogg"
  <2>1. c = <<"ogg_destroy", "destroy", "stop", "close", "cooked">>
    BY <1>1 DEF cleanup
  <2>2. plan \in {e, h}
    BY <1>1 DEF sig_handler, ShutdownPlans
  <2>3. e = <<"ogg_destroy", "destroy", "stop", "close", "cooked">> \o <<"exit">>
    BY <2>1
  <2>4. h = <<"ogg_destroy", "destroy", "stop", "close", "cooked">> \o <<"cooked", "exit">>
    BY <2>1
  <2> HIDE DEF e, h
  <2>5. CASE plan = e
    BY <1>1, <2>3, <2>5 DEF IsPlan, Calls
  <2>6. CASE plan = h
    BY <1>1, <2>4, <2>6 DEF IsPlan, Calls
  <2>7. QED
    BY <2>2, <2>5, <2>6
<1>2. CASE p = "rawudp"
  <2>1. c = <<"ogg_destroy", "destroy", "stop", "close">>
    BY <1>2 DEF cleanup
  <2>2. plan = e
    BY <1>2 DEF sig_handler, ShutdownPlans
  <2>3. e = <<"ogg_destroy", "destroy", "stop", "close">> \o <<"exit">>
    BY <2>1
  <2> HIDE DEF e
  <2>4. QED
    BY <1>2, <2>2, <2>3 DEF IsPlan, Calls
<1>3. CASE p = "net"
  <2>1. c = <<"stop", "close", "cooked">>
    BY <1>3 DEF cleanup
  <2>2. plan \in {e, h}
    BY <1>3 DEF sig_handler, ShutdownPlans
  <2>3. e = <<"stop", "close", "cooked">> \o <<"exit">>
    BY <2>1
  <2>4. h = <<"stop", "close", "cooked">> \o <<"cooked", "exit">>
    BY <2>1
  <2> HIDE DEF e, h
  <2>5. CASE plan = e
    BY <1>3, <2>3, <2>5 DEF IsPlan, Calls
  <2>6. CASE plan = h
    BY <1>3, <2>4, <2>6 DEF IsPlan, Calls
  <2>7. QED
    BY <2>2, <2>5, <2>6
<1>4. QED
  BY <1>1, <1>2, <1>3 DEF Programs

(* Main works through a plan one call at a time, *)
LEMMA RestFacts ==
  ASSUME NEW plan, IsPlan(plan), NEW k \in 1 .. Len(plan)
  PROVE  /\ Head(Rest(plan, k)) = plan[k]
         /\ Len(Rest(plan, k)) > 1 <=> k # Len(plan)
         /\ Tail(Rest(plan, k)) = Rest(plan, k + 1)
         /\ Rest(plan, 1) = plan
<1>1. plan \in Seq(Calls) /\ Len(plan) \in Nat
  BY DEF IsPlan, Calls
<1>2. \A i \in k .. Len(plan) : plan[i] \in Calls
  BY <1>1
<1>3. Len(Rest(plan, k)) = Len(plan) - k + 1
  BY <1>1, <1>2, SubSeqProperties DEF Rest
<1>4. QED
  BY <1>1, <1>3, HeadTailOfSubSeq, SubSeqFull DEF Rest

(* ... and goes from its end to the loop. *)
LEMMA ReturnFacts ==
  ASSUME NEW plan, IsPlan(plan), NEW k \in 1 .. Len(plan),
         todo = Rest(plan, k)
  PROVE  /\ Head(todo) = plan[k]
         /\ Return /\ k = Len(plan) => todo' = Loop[program]
         /\ Return /\ k # Len(plan) => todo' = Rest(plan, k + 1)
<1>1. /\ Head(todo) = plan[k]
      /\ Len(todo) > 1 <=> k # Len(plan)
      /\ Tail(todo) = Rest(plan, k + 1)
  BY RestFacts
<1>2. QED
  BY <1>1 DEF Return

(* The loop begins with its first call. *)
LEMMA EntersLoop ==
  ASSUME program \in Programs
  PROVE  /\ IsPlan(Loop[program])
         /\ 1 \in 1 .. Len(Loop[program])
         /\ Rest(Loop[program], 1) = Loop[program]
<1>1. IsPlan(Loop[program])
  BY LoopPlan
<1>2. 1 \in 1 .. Len(Loop[program])
  BY <1>1 DEF IsPlan
<1>3. QED
  BY <1>1, <1>2, RestFacts

(* 'q' and SIGINT begin a shutdown with its first call. *)
LEMMA EntersShutdown ==
  ASSUME program \in Programs, UNCHANGED <<program, tty, stream>>,
         todo' \in ShutdownPlans(program),
         twice' = FALSE => stream \in {"none", "ready", "started"}
  PROVE  ShuttingDown'
<1> DEFINE plan == todo'
<1>1. IsPlan(plan)
  BY ShutdownPlan
<1>2. 1 \in 1 .. Len(plan) /\ plan = Rest(plan, 1)
  BY <1>1, RestFacts DEF IsPlan
<1>3. plan \in ShutdownPlans(program)'
  BY DEF ShutdownPlans
<1>4. QED
  BY <1>2, <1>3 DEF ShuttingDown

(* The initial states satisfy the invariant. *)
LEMMA MainStarts == MainInit => MainInv
<1> SUFFICES ASSUME MainInit PROVE MainInv
  OBVIOUS
<1>1. program \in Programs
  BY DEF MainInit, Programs
<1>2. IsPlan(Startup[program])
  BY <1>1, StartupPlan
<1>3. 1 \in 1 .. Len(Startup[program]) /\ todo = Rest(Startup[program], 1)
  BY <1>2, RestFacts DEF IsPlan, MainInit
<1>4. StartingUp
  BY <1>3 DEF MainInit, StartingUp
<1>5. QED
  BY <1>1, <1>4 DEF MainInv, MainInit, EndsWell, HandlingElsewhere

(* The calls that main and the other handler share, and what they leave     *)
(* alone.                                                                   *)
LEMMA SharedCallFacts ==
  ASSUME NEW call, SharedCall(call)
  PROVE  /\ call \in {"raw", "cooked", "ogg_destroy", "destroy", "stop", "close"}
         /\ UNCHANGED <<arg_bitrate, bitrate>>
         /\ tty' = IF call \in {"raw", "cooked"} THEN call ELSE tty
         /\ ended' \in {"no", "killed"}
         /\ call \in {"raw", "cooked"} => ended' = "no" /\ UNCHANGED <<stream, oe, misused>>
         /\ call = "stop" /\ stream \notin {"closing", "gone"} => ended' = "no"
         /\ call = "close" /\ stream # "gone" => ended' = "no"
         /\ call = "stop" /\ stream # "gone" => stream' # "gone"
<1>1. CASE Stty(call)
  BY <1>1 DEF Stty, Shell, MayDie
<1>2. CASE OggDestroy(call)
  BY <1>2 DEF OggDestroy, MayDie, setup
<1>3. CASE Destroy(call)
  BY <1>3 DEF Destroy, MayDie
<1>4. CASE StopStream(call)
  BY <1>4 DEF StopStream, MayDie
<1>5. CASE CloseStream(call)
  BY <1>5 DEF CloseStream, MayDie
<1>6. QED
  BY <1>1, <1>2, <1>3, <1>4, <1>5 DEF SharedCall

(* Steps that neither the other handler nor what it relies on takes part in.*)
LEMMA HandlerLeft ==
  ASSUME HandlingElsewhere, UNCHANGED <<program, handler>>,
         shutdown = TRUE => shutdown' = TRUE, twice = TRUE => twice' = TRUE,
         tty = "cooked" => tty' = "cooked"
  PROVE  HandlingElsewhere'
BY DEF HandlingElsewhere

(* Before the shutdown there is none. *)
LEMMA NoHandler ==
  ASSUME HandlingElsewhere, shutdown = FALSE, handler' = handler
  PROVE  handler = <<>> /\ HandlingElsewhere'
BY DEF HandlingElsewhere

(* During start-up no call of main and no callback breaks the invariant. *)
LEMMA StartupStep ==
  ASSUME MainInv, shutdown = FALSE, StartingUp, MainStep \/ BeginEncode \/ EndEncode
  PROVE  MainInv'
<1>1. program \in Programs /\ EndsWell /\ HandlingElsewhere /\ twice \in BOOLEAN
  BY DEF MainInv
<1> DEFINE plan == Startup[program]
<1>2. PICK k \in 1 .. Len(plan) :
    /\ todo = Rest(plan, k)
    /\ stream \in {"none", "ready"} /\ tty = "cooked" /\ misused = FALSE /\ adjusted = FALSE
    /\ program # "net" /\ k >= 3 => oe = "ready"
    /\ k = 5 => Bitrates
  BY DEF StartingUp
<1>3. /\ IsPlan(plan)
      /\ plan[k] \in {"open", "create", "settings", "init", "start"}
      /\ plan[k] = "open" <=> k = 1
      /\ plan[k] = "start" <=> k = Len(plan)
      /\ program # "net" => Len(plan) = 5 /\ (k = 2 => plan[k] = "create")
      /\ program = "net" => Len(plan) = 2
      /\ program = "rawudp" /\ k = 4 => plan[k] = "settings"
      /\ program = "ogg" /\ k = 4 => plan[k] = "init"
  BY <1>1, StartupPlan
<1> HIDE DEF plan
<1>4. /\ Head(todo) = plan[k]
      /\ Return /\ k = Len(plan) => todo' = Loop[program]
      /\ Return /\ k # Len(plan) => todo' = Rest(plan, k + 1)
  BY <1>2, <1>3, ReturnFacts
<1>5. Len(plan) \in Nat
  BY <1>3 DEF IsPlan
<1>6. CASE Fails
  <2>1. UNCHANGED <<program, todo, handler, tty, stream, oe, arg_bitrate, bitrate, adjusted,
                    shutdown, twice, signalled, unsafe, misused>> /\ ended' = "exited"
    BY <1>6 DEF Fails, setup, history
  <2>2. StartingUp'
    BY <1>2, <2>1 DEF StartingUp, Bitrates, InForce, plan
  <2>3. HandlingElsewhere'
    BY <1>1, <2>1, NoHandler
  <2>4. QED
    BY <1>1, <1>2, <2>1, <2>2, <2>3 DEF MainInv, EndsWell
<1>7. CASE OpenStream \/ Initialize \/ Settings
  <2>1. k # Len(plan) /\ Return /\ stream' \in {"none", "ready"}
    BY <1>2, <1>3, <1>4, <1>7 DEF OpenStream, Initialize, Settings, Does, Goes
  <2>2. program' \in Programs /\ program' = program /\ plan' = plan /\ handler' = handler
    BY <1>1, <1>7 DEF OpenStream, Initialize, Settings, Goes, plan
  <2>3. k + 1 \in 1 .. Len(plan) /\ todo' = Rest(plan, k + 1)
    BY <1>4, <1>5, <2>1
  <2>4. tty' = "cooked" /\ misused' = FALSE /\ adjusted' = FALSE
    BY <1>2, <1>7 DEF OpenStream, Initialize, Settings, Goes, history
  <2>5. program # "net" /\ k + 1 >= 3 => oe' = "ready"
    BY <1>2, <1>3, <1>4, <1>7 DEF OpenStream, Initialize, Settings, Does, Goes
  <2>6. k + 1 = 5 => Bitrates'
    <3> SUFFICES ASSUME k + 1 = 5 PROVE Bitrates'
      OBVIOUS
    <3>1. k = 4 /\ program # "net"
      BY <1>3, <1>5, <2>3
    <3>2. CASE program = "rawudp"
      <4>1. Settings
        BY <1>3, <1>4, <1>7, <3>1, <3>2 DEF OpenStream, Initialize, Does
      <4>2. InForce'
        BY <4>1 DEF Settings, SetBitrate, InForce
      <4>3. QED
        BY <2>2, <2>4, <3>2, <4>2 DEF Bitrates
    <3>3. CASE program # "rawudp"
      <4>1. program = "ogg"
        BY <1>1, <3>1, <3>3 DEF Programs
      <4>2. Initialize
        BY <1>3, <1>4, <1>7, <3>1, <4>1 DEF OpenStream, Settings, Does
      <4>3. bitrate' = OPUS_AUTO
        BY <4>2 DEF Initialize
      <4>4. QED
        BY <2>2, <2>4, <4>1, <4>3 DEF Bitrates
    <3>4. QED
      BY <3>2, <3>3
  <2>7. StartingUp'
    BY <2>1, <2>2, <2>3, <2>4, <2>5, <2>6 DEF StartingUp, plan
  <2>8. UNCHANGED <<shutdown, twice, signalled, unsafe, ended>>
    BY <1>7 DEF OpenStream, Initialize, Settings, Goes, history
  <2>9. HandlingElsewhere'
    BY <1>1, <2>2, NoHandler
  <2>10. QED
    BY <1>1, <2>2, <2>4, <2>7, <2>8, <2>9 DEF MainInv, EndsWell
<1>8. CASE StartStream
  <2>1. k = Len(plan) /\ Return /\ stream' = "started"
    BY <1>3, <1>4, <1>8 DEF StartStream, Does, Goes
  <2>2. UNCHANGED <<program, handler, shutdown, twice, signalled, unsafe, ended, oe, tty, misused,
                    adjusted, arg_bitrate, bitrate>>
    BY <1>8 DEF StartStream, Goes, history
  <2>3. program # "net" => oe = "ready"
    BY <1>2, <1>3, <2>1
  <2>4. Bitrates'
    <3>1. Bitrates
      BY <1>1, <1>2, <1>3, <2>1 DEF Bitrates, Programs
    <3>2. QED
      BY <2>2, <3>1 DEF Bitrates, InForce
  <2>5. Looping'
    <3>1. 1 \in 1 .. Len(Loop[program]) /\ todo' = Rest(Loop[program], 1)
      BY <1>1, <1>4, <2>1, EntersLoop
    <3>2. QED
      BY <3>1, <1>2, <2>1, <2>2, <2>3, <2>4 DEF Looping
  <2>6. HandlingElsewhere'
    BY <1>1, <2>2, NoHandler
  <2>7. QED
    BY <1>1, <1>2, <2>2, <2>5, <2>6 DEF MainInv, EndsWell
<1>9. CASE EndEncode
  <2>1. UNCHANGED <<program, todo, handler, tty, stream, oe, arg_bitrate, bitrate, adjusted,
                    shutdown, twice, signalled, unsafe, misused, ended>>
    BY <1>9 DEF EndEncode, setup, history
  <2>2. StartingUp'
    BY <1>2, <2>1 DEF StartingUp, Bitrates, InForce, plan
  <2>3. HandlingElsewhere'
    BY <1>1, <2>1, NoHandler
  <2>4. QED
    BY <1>1, <1>2, <2>1, <2>2, <2>3 DEF MainInv, EndsWell
<1>10. QED
  <2>1. ~ MainCall
    BY <1>3, <1>4, SharedCallFacts DEF MainCall
  <2>2. MainStep => Fails \/ OpenStream \/ Initialize \/ Settings \/ StartStream
    BY <1>3, <1>4, <2>1 DEF MainStep, Does, Sleep, Getchar, OtherBitrate, OtherKey, Quit,
                            MainExit
  <2>3. ~ BeginEncode
    BY <1>2 DEF BeginEncode
  <2>4. QED
    BY <1>6, <1>7, <1>8, <1>9, <2>2, <2>3

(* In the loop neither does a call of main, with its keys, nor a callback. *)
LEMMA LoopStep ==
  ASSUME MainInv, shutdown = FALSE, Looping, MainStep \/ BeginEncode \/ EndEncode
  PROVE  MainInv'
<1>1. program \in Programs /\ EndsWell /\ HandlingElsewhere /\ twice \in BOOLEAN
      /\ (program # "ogg" => tty = "cooked")
  BY DEF MainInv
<1> DEFINE plan == Loop[program]
<1>2. PICK k \in 1 .. Len(plan) :
    /\ todo = Rest(plan, k)
    /\ stream = "started" /\ misused = FALSE
    /\ program # "net" => oe = "ready"
    /\ Bitrates
  BY DEF Looping
<1>3. /\ IsPlan(plan)
      /\ plan[k] \in {"raw", "getchar", "cooked", "switch", "sleep"}
      /\ program # "ogg" => plan[k] \notin {"raw", "cooked"}
  BY <1>1, LoopPlan
<1>4. 1 \in 1 .. Len(plan) /\ plan = Rest(plan, 1)
  BY <1>1, EntersLoop
<1> HIDE DEF plan
<1>5. Len(plan) \in Nat
  BY <1>3 DEF IsPlan
<1>6. /\ Head(todo) = plan[k]
      /\ Return => \E n \in 1 .. Len(plan) : todo' = Rest(plan, n)
  <2>1. /\ Head(todo) = plan[k]
        /\ Return /\ k = Len(plan) => todo' = plan
        /\ Return /\ k # Len(plan) => todo' = Rest(plan, k + 1)
    BY <1>2, <1>3, ReturnFacts DEF plan
  <2>2. CASE k = Len(plan)
    BY <1>4, <2>1, <2>2
  <2>3. CASE k # Len(plan)
    <3>1. k + 1 \in 1 .. Len(plan)
      BY <1>5, <2>3
    <3>2. QED
      BY <2>1, <2>3, <3>1
  <2>4. QED
    BY <2>2, <2>3
(* Main goes on in the loop, with the bitrate as it is to be. *)
<1>7. ASSUME Return, Bitrates',
             UNCHANGED <<program, handler, stream, oe, misused, shutdown, twice, signalled, unsafe>>,
             ended' = "no", program # "ogg" => tty' = "cooked"
      PROVE  MainInv'
  <2>1. plan' = plan
    BY <1>7 DEF plan
  <2>2. Looping'
    BY <1>2, <1>6, <1>7, <2>1 DEF Looping, plan
  <2>3. HandlingElsewhere'
    BY <1>1, <1>7, NoHandler
  <2>4. QED
    BY <1>1, <1>7, <2>2, <2>3 DEF MainInv, EndsWell
<1>8. CASE Sleep \/ Getchar \/ OtherKey
  <2>1. /\ Return /\ ended = "no"
        /\ UNCHANGED <<program, handler, stream, oe, tty, misused, adjusted, arg_bitrate,
                       bitrate, shutdown, twice, signalled, unsafe, ended>>
    BY <1>8 DEF Sleep, Getchar, OtherKey, Does, Goes, setup, history
  <2>2. Bitrates'
    BY <1>2, <2>1 DEF Bitrates, InForce
  <2>3. QED
    BY <1>1, <1>7, <2>1, <2>2
<1>9. CASE OtherBitrate
  <2>1. /\ Return /\ ended = "no" /\ adjusted' = TRUE
        /\ UNCHANGED <<program, handler, stream, oe, tty, misused,
                       shutdown, twice, signalled, unsafe, ended>>
    BY <1>9 DEF OtherBitrate, Does
  <2>2. Bitrates'
    BY <1>9, <2>1 DEF OtherBitrate, SetBitrate, Bitrates, InForce
  <2>3. QED
    BY <1>1, <1>7, <2>1, <2>2
<1>10. CASE MainCall
  <2>1. /\ Return /\ SharedCall(plan[k])
        /\ UNCHANGED <<program, handler, adjusted, shutdown, twice, signalled, unsafe>>
    BY <1>6, <1>10 DEF MainCall, history
  <2>2. plan[k] \in {"raw", "cooked"}
    BY <1>3, <2>1, SharedCallFacts
  <2>3. /\ ended' = "no" /\ UNCHANGED <<stream, oe, misused, arg_bitrate, bitrate>>
        /\ program = "ogg"
    BY <1>3, <2>1, <2>2, SharedCallFacts
  <2>4. Bitrates'
    BY <1>2, <2>1, <2>3 DEF Bitrates, InForce
  <2>5. QED
    BY <1>7, <2>1, <2>3, <2>4
<1>11. CASE Quit
  <2>1. todo' \in ShutdownPlans(program) /\ shutdown' = TRUE
    BY <1>11 DEF Quit, ShutdownPlans
  <2>2. UNCHANGED <<program, handler, stream, tty, twice, signalled, unsafe, ended>>
    BY <1>11 DEF Quit, setup
  <2>3. ShuttingDown'
    BY <1>1, <1>2, <2>1, <2>2, EntersShutdown
  <2>4. HandlingElsewhere'
    BY <1>1, <2>2, NoHandler
  <2>5. QED
    BY <1>1, <2>1, <2>2, <2>3, <2>4 DEF MainInv, EndsWell
<1>12. CASE BeginEncode \/ EndEncode
  <2>1. /\ UNCHANGED <<program, todo, handler, arg_bitrate, bitrate, stream, oe, tty, adjusted,
                       shutdown, twice, signalled, unsafe>>
        /\ misused' = FALSE /\ ended' = ended
    <3>1. CASE BeginEncode
      BY <1>2, <3>1 DEF BeginEncode, MayDie, setup, history
    <3>2. CASE EndEncode
      BY <1>2, <3>2 DEF EndEncode, setup, history
    <3>3. QED
      BY <1>12, <3>1, <3>2
  <2>2. Looping'
    BY <1>2, <2>1 DEF Looping, Bitrates, InForce, plan
  <2>3. HandlingElsewhere'
    BY <1>1, <2>1, NoHandler
  <2>4. QED
    BY <1>1, <2>1, <2>2, <2>3 DEF MainInv, EndsWell
<1>13. QED
  <2>1. MainStep => Sleep \/ Getchar \/ OtherBitrate \/ OtherKey \/ Quit \/ MainCall
    BY <1>3, <1>6 DEF MainStep, Does, Fails, OpenStream, StartStream, Initialize, Settings,
                      MainExit
  <2>2. QED
    BY <1>8, <1>9, <1>10, <1>11, <1>12, <2>1

(* Nor during a shutdown, where anything may happen to the encoder. *)
LEMMA ShutdownStep ==
  ASSUME MainInv, shutdown = TRUE,
         MainStep \/ HandlerCall \/ HandlerExit \/ BeginEncode \/ EndEncode
  PROVE  MainInv'
<1>1. /\ program \in Programs /\ twice \in BOOLEAN
      /\ EndsWell /\ HandlingElsewhere
      /\ program # "ogg" => tty = "cooked"
  BY DEF MainInv
<1>2. PICK plan \in ShutdownPlans(program) : \E k \in 1 .. Len(plan) :
    /\ todo = Rest(plan, k)
    /\ program = "ogg" /\ k >= 6 => tty = "cooked"
    /\ program = "net" /\ twice = FALSE =>
         /\ k = 1 => stream \notin {"closing", "gone"}
         /\ k = 2 => stream # "gone"
  BY DEF MainInv, ShuttingDown
<1>2a. PICK k \in 1 .. Len(plan) :
    /\ todo = Rest(plan, k)
    /\ program = "ogg" /\ k >= 6 => tty = "cooked"
    /\ program = "net" /\ twice = FALSE =>
         /\ k = 1 => stream \notin {"closing", "gone"}
         /\ k = 2 => stream # "gone"
  BY <1>2
<1>3. /\ IsPlan(plan)
      /\ plan[k] \in {"ogg_destroy", "destroy", "stop", "close", "cooked", "exit"}
      /\ plan[k] = "exit" <=> k = Len(plan)
      /\ program = "net" => /\ plan[k] \notin {"ogg_destroy", "destroy"}
                            /\ plan[k] = "stop" <=> k = 1
                            /\ plan[k] = "close" <=> k = 2
      /\ program = "ogg" => /\ Len(plan) \geq 6
                            /\ k = 5 => plan[k] = "cooked"
                            /\ k \geq 6 => plan[k] \in {"cooked", "exit"}
      /\ program = "rawudp" => plan[k] # "cooked"
  BY <1>1, ShutdownPlan
<1>4. Len(plan) \in Nat
  BY <1>3 DEF IsPlan
<1>5. /\ Head(todo) = plan[k]
      /\ Return /\ k # Len(plan) => todo' = Rest(plan, k + 1)
  BY <1>2a, <1>3, ReturnFacts
<1>6. CASE BeginEncode \/ EndEncode
  <2>1. /\ UNCHANGED <<program, todo, handler, stream, tty, shutdown, twice, signalled, unsafe>>
        /\ ended' = ended \/ (ended' = "killed" /\ program # "net")
        /\ ended' \in {"no", "exited", "killed", "hung"}
    <3>1. CASE BeginEncode
      BY <3>1 DEF BeginEncode, MayDie, setup, history
    <3>2. CASE EndEncode
      BY <3>2 DEF EndEncode, setup, history
    <3>3. QED
      BY <1>6, <3>1, <3>2
  <2>2. ShuttingDown'
    BY <1>2a, <2>1 DEF ShuttingDown, ShutdownPlans
  <2>3. HandlingElsewhere'
    BY <1>1, <2>1, HandlerLeft
  <2>4. EndsWell'
    BY <1>1, <2>1 DEF EndsWell
  <2>5. QED
    BY <1>1, <2>1, <2>2, <2>3, <2>4 DEF MainInv
<1>7. CASE MainExit \/ HandlerExit
  <2>1. /\ UNCHANGED <<program, todo, handler, stream, tty, shutdown, twice, signalled, unsafe>>
        /\ ended' = "exited"
    BY <1>7 DEF MainExit, HandlerExit, Exit, setup, history
  <2>2. tty = "cooked"
    <3>1. CASE MainExit
      <4>1. k = Len(plan)
        BY <1>3, <1>5, <3>1 DEF MainExit, Does
      <4>2. QED
        BY <1>1, <1>2a, <1>3, <4>1
    <3>2. CASE HandlerExit
      <4> DEFINE theirs == sig_handler[program]
      <4>1. handler # <<>> /\ Head(handler) = "exit"
        BY <3>2 DEF HandlerExit
      <4>2. PICK n \in 1 .. Len(theirs) :
              /\ handler = Rest(theirs, n)
              /\ program = "ogg" /\ n >= 6 => tty = "cooked"
        BY <1>1, <4>1 DEF HandlingElsewhere
      <4>3. theirs \in ShutdownPlans(program)
        BY DEF ShutdownPlans
      <4> HIDE DEF theirs
      <4>4. /\ IsPlan(theirs)
            /\ theirs[n] = "exit" <=> n = Len(theirs)
            /\ program = "ogg" => Len(theirs) >= 6
        BY <1>1, <4>3, ShutdownPlan
      <4>5. Head(handler) = theirs[n]
        BY <4>2, <4>4, RestFacts
      <4>6. QED
        BY <1>1, <4>1, <4>2, <4>4, <4>5
    <3>3. QED
      BY <1>7, <3>1, <3>2
  <2>3. ShuttingDown'
    BY <1>2a, <2>1 DEF ShuttingDown, ShutdownPlans
  <2>4. HandlingElsewhere'
    BY <1>1, <2>1, HandlerLeft
  <2>5. QED
    BY <1>1, <2>1, <2>2, <2>3, <2>4 DEF MainInv, EndsWell
<1>8. CASE MainCall
  <2>1. /\ Return /\ SharedCall(plan[k]) /\ ended = "no"
        /\ UNCHANGED <<program, handler, shutdown, twice, signalled, unsafe>>
    BY <1>5, <1>8 DEF MainCall, history
  <2>2. /\ plan[k] \in {"cooked", "ogg_destroy", "destroy", "stop", "close"}
        /\ k # Len(plan)
    BY <1>3, <2>1, SharedCallFacts
  <2>3. k + 1 \in 1 .. Len(plan) /\ todo' = Rest(plan, k + 1)
    BY <1>4, <1>5, <2>1, <2>2
  <2>4. /\ ended' \in {"no", "killed"}
        /\ program = "net" /\ twice = FALSE => ended' = "no"
    BY <1>2a, <1>3, <2>1, <2>2, SharedCallFacts
  <2>5. tty' = IF plan[k] = "cooked" THEN "cooked" ELSE tty
    BY <2>1, <2>2, SharedCallFacts
  <2>6. (program # "ogg" => tty' = "cooked") /\ (program = "ogg" /\ k + 1 >= 6 => tty' = "cooked")
        /\ (tty = "cooked" => tty' = "cooked")
    BY <1>1, <1>2a, <1>3, <2>2, <2>5
  <2>7. program = "net" /\ twice = FALSE /\ k = 1 => stream' # "gone"
    BY <1>2a, <1>3, <2>1, SharedCallFacts
  <2>8. ShuttingDown'
    <3>1. plan \in ShutdownPlans(program)' /\ k + 1 # 1
      BY <2>1 DEF ShutdownPlans
    <3>2. k + 1 = 2 => k = 1
      OBVIOUS
    <3>3. QED
      BY <2>1, <2>3, <2>6, <2>7, <3>1, <3>2 DEF ShuttingDown
  <2>9. HandlingElsewhere'
    BY <1>1, <2>1, <2>6, HandlerLeft
  <2>10. QED
    BY <1>1, <2>1, <2>4, <2>6, <2>8, <2>9 DEF MainInv, EndsWell
<1>9. CASE HandlerCall
  <2> DEFINE theirs == sig_handler[program]
  <2>1. /\ handler # <<>> /\ SharedCall(Head(handler)) /\ ended = "no"
        /\ handler' = Tail(handler)
        /\ UNCHANGED <<program, todo, shutdown, twice, signalled, unsafe>>
    BY <1>9 DEF HandlerCall, history
  <2>2. PICK n \in 1 .. Len(theirs) :
          /\ handler = Rest(theirs, n)
          /\ program = "ogg" /\ n >= 6 => tty = "cooked"
    BY <1>1, <2>1 DEF HandlingElsewhere
  <2>3. twice = TRUE /\ theirs' = theirs /\ theirs \in ShutdownPlans(program)
    BY <1>1, <2>1 DEF HandlingElsewhere, ShutdownPlans
  <2> HIDE DEF theirs
  <2>4. /\ IsPlan(theirs)
        /\ theirs[n] = "exit" <=> n = Len(theirs)
        /\ theirs[n] # "raw"
        /\ program = "ogg" /\ n = 5 => theirs[n] = "cooked"
    BY <1>1, <2>3, ShutdownPlan
  <2>5. /\ Head(handler) = theirs[n] /\ handler' = Rest(theirs, n + 1)
        /\ Len(theirs) \in Nat
    BY <2>1, <2>2, <2>4, RestFacts DEF IsPlan
  <2>6. /\ theirs[n] # "exit" /\ tty' = (IF theirs[n] = "cooked" THEN "cooked" ELSE tty)
        /\ ended' \in {"no", "killed"}
    BY <2>1, <2>4, <2>5, SharedCallFacts
  <2>7. n + 1 \in 1 .. Len(theirs)
    BY <2>4, <2>5, <2>6
  <2>8. (tty = "cooked" => tty' = "cooked") /\ (program = "ogg" /\ n + 1 >= 6 => tty' = "cooked")
    BY <2>2, <2>4, <2>6
  <2>9. HandlingElsewhere'
    BY <2>1, <2>3, <2>5, <2>7, <2>8 DEF HandlingElsewhere, theirs
  <2>10. ShuttingDown'
    BY <1>2a, <2>1, <2>3, <2>8 DEF ShuttingDown, ShutdownPlans
  <2>11. QED
    BY <1>1, <2>1, <2>3, <2>6, <2>8, <2>9, <2>10 DEF MainInv, EndsWell
<1>10. QED
  <2>1. MainStep => MainExit \/ MainCall
    BY <1>3, <1>5 DEF MainStep, Does, Fails, OpenStream, StartStream, Initialize, Settings,
                      Sleep, Getchar, OtherBitrate, OtherKey, Quit
  <2>2. QED
    BY <1>6, <1>7, <1>8, <1>9, <2>1

(* SIGINT, a hang and the steps above: every step keeps the invariant. *)
LEMMA MainKeeps == MainInv /\ [MainNext]_mainVars => MainInv'
<1> SUFFICES ASSUME MainInv, [MainNext]_mainVars PROVE MainInv'
  OBVIOUS
<1>1. /\ program \in Programs /\ shutdown \in BOOLEAN /\ twice \in BOOLEAN
      /\ HandlingElsewhere /\ EndsWell
  BY DEF MainInv
<1>2. CASE MainStep \/ BeginEncode \/ EndEncode
  BY <1>2, StartupStep, LoopStep, ShutdownStep DEF MainInv
<1>3. CASE HandlerCall \/ HandlerExit
  <2>1. shutdown = TRUE
    BY <1>1, <1>3 DEF HandlerCall, HandlerExit, HandlingElsewhere
  <2>2. QED
    BY <1>3, <2>1, ShutdownStep
<1>4. CASE Sigint
  <2>1. todo' \in ShutdownPlans(program) /\ shutdown' = TRUE /\ twice' = shutdown
    BY <1>4 DEF Sigint, ShutdownPlans
  <2>2. UNCHANGED <<program, handler, stream, tty, ended>>
    BY <1>4 DEF Sigint, setup
  <2>3. twice' = FALSE => stream \in {"none", "ready", "started"}
    <3>1. SUFFICES ASSUME shutdown = FALSE PROVE stream \in {"none", "ready", "started"}
      BY <2>1
    <3>2. QED
      BY <3>1 DEF MainInv, StartingUp, Looping
  <2>4. ShuttingDown'
    BY <1>1, <2>1, <2>2, <2>3, EntersShutdown
  <2>5. HandlingElsewhere'
    BY <1>1, <2>1, <2>2 DEF HandlingElsewhere
  <2>6. program = "net" /\ ended = "killed" => twice' = TRUE
    BY <1>4 DEF Sigint
  <2>7. QED
    BY <1>1, <2>1, <2>2, <2>4, <2>5, <2>6 DEF MainInv, EndsWell
<1>5. CASE SigintElsewhere
  <2>1. /\ handler' = sig_handler[program] /\ twice' = TRUE /\ handler = <<>>
        /\ UNCHANGED <<program, todo, tty, shutdown, signalled, unsafe>>
        /\ signalled /\ ended' = "no"
    BY <1>5 DEF SigintElsewhere, setup
  <2>2. shutdown = TRUE
    BY <1>1, <2>1 DEF EndsWell
  <2>3. ShuttingDown'
    BY <2>1, <2>2 DEF MainInv, ShuttingDown, ShutdownPlans
  <2>4. HandlingElsewhere'
    <3> DEFINE theirs == sig_handler[program]
    <3>1. theirs \in ShutdownPlans(program) /\ theirs' = theirs
      BY <2>1 DEF ShutdownPlans
    <3> HIDE DEF theirs
    <3>2. 1 \in 1 .. Len(theirs) /\ theirs = Rest(theirs, 1)
      <4>1. IsPlan(theirs)
        BY <1>1, <3>1, ShutdownPlan
      <4>2. 1 \in 1 .. Len(theirs)
        BY <4>1 DEF IsPlan
      <4>3. QED
        BY <4>1, <4>2, RestFacts
    <3>3. handler' = theirs
      BY <2>1 DEF theirs
    <3>4. QED
      BY <2>1, <2>2, <3>1, <3>2, <3>3 DEF HandlingElsewhere, theirs
  <2>5. QED
    BY <1>1, <2>1, <2>2, <2>3, <2>4 DEF MainInv, EndsWell
<1>6. CASE Hang
  <2>1. /\ UNCHANGED <<program, todo, handler, stream, tty, shutdown, twice, signalled, unsafe>>
        /\ unsafe \/ handler # <<>>
        /\ ended' = "hung"
    BY <1>6 DEF Hang, setup, history
  <2>2. shutdown = TRUE
    BY <1>1, <2>1 DEF EndsWell, HandlingElsewhere
  <2>3. ShuttingDown'
    BY <2>1, <2>2 DEF MainInv, ShuttingDown, ShutdownPlans
  <2>4. HandlingElsewhere'
    BY <1>1, <2>1, HandlerLeft
  <2>5. QED
    BY <1>1, <2>1, <2>2, <2>3, <2>4 DEF MainInv, EndsWell
<1>7. CASE UNCHANGED mainVars
  <2>1. UNCHANGED <<program, todo, handler, arg_bitrate, bitrate, stream, oe, tty, adjusted,
                    shutdown, twice, signalled, unsafe, misused, ended>>
    BY <1>7 DEF mainVars, setup, history
  <2>2. (StartingUp => StartingUp') /\ (Looping => Looping')
    BY <2>1 DEF StartingUp, Looping, Bitrates, InForce
  <2>3. ShuttingDown => ShuttingDown'
    BY <2>1 DEF ShuttingDown, ShutdownPlans
  <2>4. HandlingElsewhere'
    BY <1>1, <2>1, HandlerLeft
  <2>5. QED
    BY <1>1, <2>1, <2>2, <2>3, <2>4 DEF MainInv, EndsWell
<1>8. QED
  BY <1>2, <1>3, <1>4, <1>5, <1>6, <1>7 DEF MainNext

(* Where main is, what it has set up and how it ended always agree, in all  *)
(* three programs, whatever keys and up to two SIGINTs come when.           *)
THEOREM MainInductive == MainSpec => []MainInv
BY MainStarts, MainKeeps, PTL DEF MainSpec

(* The invariant implies the two properties. *)
LEMMA MainSafe == MainInv => SafeUntilShutdown
<1> SUFFICES ASSUME MainInv PROVE SafeUntilShutdown
  OBVIOUS
<1>1. misused \/ ended \in {"killed", "hung"} => shutdown = TRUE
  BY DEF MainInv, EndsWell, StartingUp, Looping
<1>2. QED
  BY <1>1 DEF MainInv, EndsWell, SafeUntilShutdown

LEMMA MainInForce == MainInv => BitrateInForce
<1> SUFFICES ASSUME MainInv, stream = "started", Head(todo) \in {"raw", "getchar", "sleep"}
             PROVE  Bitrates
  BY DEF BitrateInForce, Bitrates, InForce
<1>1. program \in Programs
  BY DEF MainInv
<1>2. shutdown = FALSE
  <2>1. SUFFICES ASSUME ShuttingDown PROVE FALSE
    BY DEF MainInv
  <2>2. PICK plan \in ShutdownPlans(program) : \E k \in 1 .. Len(plan) : todo = Rest(plan, k)
    BY <2>1 DEF ShuttingDown
  <2>2a. PICK k \in 1 .. Len(plan) : todo = Rest(plan, k)
    BY <2>2
  <2>3. IsPlan(plan) /\ plan[k] \in {"ogg_destroy", "destroy", "stop", "close", "cooked", "exit"}
    BY <1>1, ShutdownPlan
  <2>4. QED
    BY <2>2a, <2>3, RestFacts
<1>3. QED
  BY <1>2 DEF MainInv, StartingUp, Looping

(* From the first call until 'q' or SIGINT the callback meets only an       *)
(* encoder that is there; and gsp-opus-tx-net is not killed by its cleanup, *)
(* unless that is begun twice.                                              *)
THEOREM UntilShutdown == MainSpec => []SafeUntilShutdown
BY MainInductive, MainSafe, PTL

(* When main waits, the encoder has the bitrate last asked for, as far as   *)
(* Opus goes and if it takes it; gsp-opus-tx-ogg, until the first '+' or    *)
(* '-', the one of opus_encoder_init whatever -r said.                      *)
THEOREM LastRateInForce == MainSpec => []BitrateInForce
BY MainInductive, MainInForce, PTL

(* A process that exits leaves the terminal as it was: exit of main, exit   *)
(* of either handler whatever it interrupted, and exit on an error of       *)
(* start-up.                                                                *)
THEOREM LeavesTerminal == MainSpec => [](ended = "exited" => tty = "cooked")
<1>1. MainInv => (ended = "exited" => tty = "cooked")
  BY DEF MainInv, EndsWell
<1>2. QED
  BY MainInductive, <1>1, PTL
=============================================================================
