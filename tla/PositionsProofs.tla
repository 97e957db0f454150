---------------------------- MODULE PositionsProofs ----------------------------
(***************************************************************************)
(* What a key shows of the position, for all intervals and durations, any  *)
(* step of the clock and any number of moves.                              *)
(***************************************************************************)
EXTENDS Positions, TLAPS

(* What the plugin has differs from the state of the bridge in nothing but *)
(* the position; last_tick is never in the future.                         *)
Linked ==
    /\ got.track = store.track /\ got.status = store.status
    /\ adapter = "mock" => age >= 0

TypeInv == TypeOK /\ Linked

Now == Regime(status, position, age)

LEMMA SmallerIs ==
    ASSUME NEW a \in Int, NEW b \in Int
    PROVE  /\ Smaller(a, b) \in Int
           /\ Smaller(a, b) <= a /\ Smaller(a, b) <= b
           /\ Smaller(a, b) = a \/ Smaller(a, b) = b
BY DEF Smaller

LEMMA PeriodIs == TypeOK => Period \in Nat \ {0} /\ QuietLongEnough \in Nat
BY PositionsAssumption DEF Period, QuietLongEnough

(* A sample is a state; in the regimes "live" and "bare" its position is   *)
(* where the player is, or its report.                                     *)
LEMMA SampleIs ==
    ASSUME NEW t \in 0..(Tracks - 1), NEW s \in Statuses, NEW p \in 0..Duration, NEW a \in Int
    PROVE  /\ Sample(t, s, p, a) \in Records
           /\ Sample(t, s, p, a).track = t /\ Sample(t, s, p, a).status = s
           /\ Regime(s, p, a) = "live" /\ (adapter = "mock" => a = 0) =>
                 Sample(t, s, p, a).position = Smaller(p + a, Duration)
           /\ Regime(s, p, a) = "bare" => Sample(t, s, p, a).position = p
<1> DEFINE q == IF adapter = "mock" THEN Smaller(p, Duration)
                ELSE ReadPosition(p, a, s)
<1>1. Sample(t, s, p, a) = [track |-> t, status |-> s, position |-> q]
  BY DEF Sample
<1>2. q \in Positions
  BY PositionsAssumption
     DEF Positions, NoPosition, ReadPosition, ExtrapolatePosition, Smaller, Fresh
<1>3. Regime(s, p, a) = "live" /\ (adapter = "mock" => a = 0) => q = Smaller(p + a, Duration)
  BY DEF Regime, Fresh, ReadPosition, ExtrapolatePosition
<1>4. Regime(s, p, a) = "bare" => q = p
  BY PositionsAssumption DEF Regime, Fresh, ReadPosition, ExtrapolatePosition, Smaller
<1> HIDE DEF q
<1> QED
  BY <1>1, <1>2, <1>3, <1>4 DEF Records

(* What apply does to the two states.                                      *)
LEMMA ApplyIs ==
    ASSUME TypeInv, NEW r \in Records, Apply(r)
    PROVE  /\ store' = r
           /\ got' \in Records /\ since' \in Int
           /\ got'.track = r.track /\ got'.status = r.status
           /\ \/ got' = r /\ since' = 0
              \/ got' = got /\ since' = since
<1>1. CASE Significant(store, r)
  BY <1>1 DEF Apply, Records
<1>2. CASE ~Significant(store, r)
  <2>1. store.track = r.track /\ store.status = r.status
    BY <1>2 DEF Significant
  <2> QED
    BY <1>2, <2>1 DEF Apply, TypeInv, TypeOK, Linked
<1> QED
  BY <1>1, <1>2

-----------------------------------------------------------------------------
LEMMA TypeStep == TypeInv /\ [Next]_vars => TypeInv'
<1> SUFFICES ASSUME TypeInv, [Next]_vars PROVE TypeInv'
  OBVIOUS
<1>t. TypeOK /\ Linked
  BY DEF TypeInv
<1>p. adapter' = adapter => Period' = Period /\ QuietLongEnough' = QuietLongEnough
  BY DEF Period, QuietLongEnough
<1>n. Period \in Nat \ {0} /\ QuietLongEnough \in Nat
  BY <1>t, PeriodIs
<1>1. CASE UNCHANGED vars
  BY <1>t, <1>1, <1>p DEF vars, player, TypeInv, TypeOK, Linked
<1>2. CASE Report
  <2>1. position' \in 0..Duration /\ age' \in Int
    BY <1>t, <1>2, PositionsAssumption DEF Report, Head, Regime, Fresh, Smaller, TypeOK
  <2> QED
    BY <1>t, <1>2, <1>p, <2>1 DEF Report, TypeInv, TypeOK, Linked
<1>3. ASSUME NEW t \in 0..(Tracks - 1), NEW s \in Statuses, NEW p \in 0..Duration, Move(t, s, p)
      PROVE TypeInv'
  BY <1>t, <1>3, <1>p, <1>n, PositionsAssumption DEF Move, Disturb, TypeInv, TypeOK, Linked
<1>4. ASSUME NEW d \in Int, ClockStep(d) PROVE TypeInv'
  BY <1>t, <1>4, <1>p, <1>n, PositionsAssumption DEF ClockStep, Disturb, TypeInv, TypeOK, Linked
<1>5. CASE CommandMock
  <2>1. /\ track' \in 0..(Tracks - 1) /\ status' \in Statuses /\ position' \in 0..Duration
    <3>1. track' \in 0..(Tracks - 1)
      BY <1>t, <1>5, PositionsAssumption DEF CommandMock, Toggle, Skip, Back, Stop, Seek, TypeOK
    <3>2. status' \in Statuses
      BY <1>t, <1>5 DEF CommandMock, Toggle, Skip, Back, Stop, Seek, TypeOK, Statuses
    <3>3. position' \in 0..Duration
      BY <1>t, <1>5, PositionsAssumption
         DEF CommandMock, Toggle, Skip, Back, Stop, Seek, SeekTarget, TypeOK, Smaller
    <3> QED
      BY <3>1, <3>2, <3>3
  <2> QED
    BY <1>t, <1>5, <1>p, <1>n, <2>1, PositionsAssumption
       DEF CommandMock, Accepted, Disturb, TypeInv, TypeOK, Linked
<1>6. CASE CommandWindows
  BY <1>t, <1>6, <1>p, <1>n, PositionsAssumption
     DEF CommandWindows, Accepted, Disturb, TypeInv, TypeOK, Linked
<1>7. CASE Poll
  <2> DEFINE r == Sample(track, status, position, age)
  <2>1. r \in Records
    BY <1>t, SampleIs DEF TypeOK
  <2> HIDE DEF r
  <2>2. Apply(r)
    BY <1>7 DEF Poll, r
  <2>3. /\ store' = r /\ got' \in Records /\ since' \in Int
        /\ got'.track = r.track /\ got'.status = r.status
    BY <2>1, <2>2, ApplyIs
  <2> QED
    BY <1>t, <1>7, <1>p, <1>n, <2>1, <2>3, PositionsAssumption
       DEF Poll, player, TypeInv, TypeOK, Linked, Period
<1>8. CASE TickPassed
  <2>1. track' \in 0..(Tracks - 1) /\ Advanced \in 0..Duration
    BY <1>t, <1>8, PositionsAssumption DEF TickPassed, Advanced, TrackEnds, TypeOK, Linked
  <2> DEFINE r == Sample(track', status, Advanced, 0)
  <2>2. r \in Records
    BY <1>t, <2>1, SampleIs DEF TypeOK
  <2> HIDE DEF r
  <2>3. Apply(r)
    BY <1>8 DEF TickPassed, r
  <2>4. /\ store' = r /\ got' \in Records /\ since' \in Int
        /\ got'.track = r.track /\ got'.status = r.status
    BY <2>2, <2>3, ApplyIs
  <2> QED
    BY <1>t, <1>8, <1>p, <1>n, <2>1, <2>2, <2>4, PositionsAssumption
       DEF TickPassed, TypeInv, TypeOK, Linked, Period
<1>9. CASE Republish
  BY <1>t, <1>9, <1>p, <1>n, PositionsAssumption DEF Republish, player, TypeInv, TypeOK, Linked
<1>10. CASE Answer
  BY <1>t, <1>10, <1>p, PositionsAssumption DEF Answer, player, TypeInv, TypeOK, Linked
<1>11. CASE Elapse
  <2>1. age' \in Int /\ (adapter = "mock" => age' >= 0) /\ since' \in Int
    BY <1>t, <1>11, PositionsAssumption DEF Elapse, Smaller, TypeOK, Linked
  <2>2. quiet' \in 0..QuietLongEnough
    BY <1>t, <1>11, <1>n DEF Elapse, Smaller, TypeOK
  <2>3. answerIn' \in {NoAnswer} \union 0..Settle
    BY <1>t, <1>11, PositionsAssumption DEF Elapse, TypeOK, NoAnswer
  <2>4. pollIn' \in 0..Period /\ republishIn' \in 0..RepublishInterval
    BY <1>t, <1>11, <1>n, PositionsAssumption DEF Elapse, TypeOK
  <2> QED
    BY <1>t, <1>11, <1>p, <2>1, <2>2, <2>3, <2>4 DEF Elapse, TypeInv, TypeOK, Linked
<1> QED
  BY <1>1, <1>2, <1>3, <1>4, <1>5, <1>6, <1>7, <1>8, <1>9, <1>10, <1>11, PositionsAssumption DEF Next

LEMMA InitTyped == Init => TypeInv
<1> SUFFICES ASSUME Init PROVE TypeInv
  OBVIOUS
<1>1. adapter \in {"windows", "mock"} /\ track \in 0..(Tracks - 1) /\ status \in Statuses
      /\ position \in 0..Duration /\ age = 0
  BY DEF Init
<1>2. store \in Records /\ got = store
  BY <1>1, SampleIs DEF Init
<1> QED
  BY <1>1, <1>2, PositionsAssumption
     DEF Init, TypeInv, TypeOK, Linked, Period, QuietLongEnough, NoAnswer

LEMMA TypeInvariant == Spec => []TypeInv
BY InitTyped, TypeStep, PTL DEF Spec

(* The types of the player, of both states and of the delays: no position  *)
(* beyond the end of the track reaches the plugin.                         *)
THEOREM TypeCorrect == Spec => []TypeOK
<1>1. TypeInv => TypeOK
  BY DEF TypeInv
<1> QED
  BY <1>1, TypeInvariant, PTL

-----------------------------------------------------------------------------
(* How long ago the last sample was taken, and the last state sent again.  *)
SampleAge == Period - pollIn
RepublishAge == RepublishInterval - republishIn

(* What a sample taken since the last disturbance says.                    *)
Sampled ==
    quiet > SampleAge =>
        /\ store.track = track /\ store.status = status
        /\ Now = "live" => /\ 0 <= store.position
                           /\ Head - SampleAge <= store.position /\ store.position <= Head
        /\ Now = "bare" => store.position = position

(* What the plugin makes of a state sent when such a sample was certain.   *)
Sent ==
    quiet > Period + RepublishAge =>
        /\ Now # "other" => 0 <= since /\ since <= RepublishAge
        /\ Now = "live" => /\ 0 <= got.position
                           /\ Head - Period <= got.position + since
                           /\ Smaller(got.position + since, Duration) <= Head
        /\ Now = "bare" => got.position = position

IInv == TypeInv /\ Sampled /\ Sent

(* A disturbance makes both hold for want of time.                         *)
LEMMA Disturbed == TypeInv' /\ quiet' = 0 => Sampled' /\ Sent'
<1> SUFFICES ASSUME TypeInv', quiet' = 0 PROVE Sampled' /\ Sent'
  OBVIOUS
<1>1. /\ Period' \in Nat /\ pollIn' \in Int /\ pollIn' <= Period'
      /\ republishIn' \in Int /\ republishIn' <= RepublishInterval
  BY PositionsAssumption DEF TypeInv, TypeOK, Period
<1>2. ~(0 > Period' - pollIn') /\ ~(0 > Period' + (RepublishInterval - republishIn'))
  <2>1. \A n \in Nat, x, y, z \in Int : x <= n /\ y <= z => ~(0 > n - x) /\ ~(0 > n + (z - y))
    OBVIOUS
  <2>2. RepublishInterval \in Int
    BY PositionsAssumption
  <2> QED
    BY <1>1, <2>1, <2>2
<1>3. ~(quiet' > SampleAge') /\ ~(quiet' > Period' + RepublishAge')
  BY <1>2, quiet' = 0 DEF SampleAge, RepublishAge
<1> QED
  BY <1>3 DEF Sampled, Sent

(* A report only says where the player is.                                 *)
LEMMA ReportMoves ==
    TypeInv /\ Report => /\ Head' = Head /\ Now' = "live" /\ Now = "live"
                         /\ adapter = "windows" /\ adapter' = adapter
<1> SUFFICES ASSUME TypeInv, Report PROVE /\ Head' = Head /\ Now' = "live" /\ Now = "live"
                                          /\ adapter = "windows" /\ adapter' = adapter
  OBVIOUS
<1>1. position \in 0..Duration /\ age \in Int
  BY DEF TypeInv, TypeOK
<1>2. /\ adapter = "windows" /\ adapter' = adapter /\ status' = status /\ status = "playing"
      /\ position # 0 /\ 0 <= age /\ Now = "live"
      /\ position' = Smaller(position + age, Duration) /\ age' = 0
  BY DEF Report, Regime, Fresh, Head, Now
<1>3. position' \in Int /\ position' > 0 /\ Smaller(position' + 0, Duration) = position'
  BY <1>1, <1>2, PositionsAssumption DEF Smaller
<1>4. Now' = "live"
  BY <1>2, <1>3, PositionsAssumption DEF Now, Regime, Fresh
<1>5. Head' = Head
  BY <1>2, <1>3 DEF Head
<1> QED
  BY <1>2, <1>4, <1>5

(* While the regime lasts, the player goes on by one.                      *)
LEMMA ElapseMoves ==
    TypeInv /\ Elapse /\ Now' = Now /\ Now = "live" => /\ age' = age + 1
                                                       /\ Head' = Smaller(position + age + 1, Duration)
<1> SUFFICES ASSUME TypeInv, Elapse, Now' = Now, Now = "live"
             PROVE  age' = age + 1 /\ Head' = Smaller(position + age + 1, Duration)
  OBVIOUS
<1>1. position \in Int /\ age \in Int /\ position' = position /\ adapter' = adapter
      /\ adapter \in {"windows", "mock"}
  BY DEF TypeInv, TypeOK, Elapse
<1>2. CASE adapter = "mock"
  BY <1>1, <1>2 DEF Elapse, Head
<1>3. CASE adapter = "windows"
  <2>1. age' = Smaller(age + 1, MaxExtrapolation + 1)
    BY <1>3 DEF Elapse
  <2>2. age' <= MaxExtrapolation
    BY <1>1, <1>3 DEF Now, Regime, Fresh
  <2>3. age' = age + 1
    BY <1>1, <2>1, <2>2, PositionsAssumption DEF Smaller
  <2> QED
    BY <1>1, <2>3 DEF Head
<1> QED
  BY <1>1, <1>2, <1>3

LEMMA RegimeIs == /\ Now \in {"live", "bare", "other"}
                  /\ Now # "other" => status = "playing"
                  /\ Now = "bare" => adapter # "mock"
BY DEF Now, Regime

LEMMA IntsIs ==
    ASSUME TypeInv
    PROVE  /\ Period \in Nat \ {0} /\ SampleAge \in 0..Period /\ RepublishAge \in 0..RepublishInterval
           /\ position \in 0..Duration /\ age \in Int /\ Head \in Int /\ Head <= Duration
           /\ quiet \in Nat /\ since \in Int /\ quiet <= Period + RepublishInterval + 1
           /\ store.position \in -1..Duration /\ got.position \in -1..Duration
<1>1. TypeOK
  BY DEF TypeInv
<1>2. Period \in Nat \ {0}
  BY <1>1, PeriodIs
<1>3. store.position \in -1..Duration /\ got.position \in -1..Duration
  BY <1>1 DEF TypeOK, Records, Positions, NoPosition
<1> QED
  BY <1>1, <1>2, <1>3, PositionsAssumption
     DEF TypeOK, SampleAge, RepublishAge, Head, Smaller, QuietLongEnough

-----------------------------------------------------------------------------
(* One step that samples the player.                                       *)
LEMMA SampleStep ==
    ASSUME IInv, TypeInv', NEW r \in Records, Apply(r),
           adapter' = adapter, pollIn' = Period, republishIn' = republishIn, quiet' = quiet,
           Now' = Now, Head' = Head,
           r.track = track', r.status = status',
           Now = "live" => r.position = Head,
           Now = "bare" => r.position = position /\ position' = position
    PROVE  Sampled' /\ Sent'
<1>1. /\ store' = r
      /\ \/ got' = r /\ since' = 0
         \/ got' = got /\ since' = since
  BY ApplyIs DEF IInv
<1>2. Period' = Period /\ SampleAge' = 0 /\ RepublishAge' = RepublishAge
  BY IntsIs DEF IInv, Period, SampleAge, RepublishAge
<1>r. r.position \in Int /\ (Now = "live" => 0 <= r.position)
  <2>1. r.position \in Int
    BY DEF Records, Positions, NoPosition
  <2>2. Now = "live" => age >= 0
    BY DEF IInv, TypeInv, Linked, Now, Regime, Fresh
  <2>3. Now = "live" => 0 <= Head
    BY <2>2, IntsIs, PositionsAssumption DEF IInv, Head, Smaller
  <2> QED
    BY <2>1, <2>3
<1>3. Sampled'
  BY <1>1, <1>2, <1>r, IntsIs DEF IInv, Sampled
<1>4. ASSUME quiet' > Period' + RepublishAge'
      PROVE  /\ Now' # "other" => 0 <= since' /\ since' <= RepublishAge'
             /\ Now' = "live" => /\ 0 <= got'.position
                                 /\ Head' - Period' <= got'.position + since'
                                 /\ Smaller(got'.position + since', Duration) <= Head'
             /\ Now' = "bare" => got'.position = position'
  <2>1. CASE got' = r /\ since' = 0
    BY <1>2, <1>r, <2>1, IntsIs, PositionsAssumption DEF IInv, Smaller
  <2>2. CASE got' = got /\ since' = since
    BY <1>2, <1>4, <2>2 DEF IInv, Sent
  <2> QED
    BY <1>1, <2>1, <2>2
<1> QED
  BY <1>3, <1>4 DEF Sent

(* One step that sends the kept state, and touches nothing else.           *)
LEMMA SendStep ==
    ASSUME IInv, UNCHANGED <<adapter, player, pollIn, store, quiet>>,
           got' = store, since' = 0, republishIn' \in 0..RepublishInterval
    PROVE  Sampled' /\ Sent'
<1>1. /\ Period' = Period /\ SampleAge' = SampleAge /\ Now' = Now /\ Head' = Head
      /\ RepublishAge' = RepublishInterval - republishIn'
      /\ track' = track /\ status' = status /\ position' = position
  BY DEF Period, SampleAge, RepublishAge, Now, Regime, Head, player
<1>2. RepublishAge' \in Nat
  <2>1. \A n \in Nat : \A x \in 0..n : n - x \in Nat
    OBVIOUS
  <2>2. RepublishInterval \in Nat
    BY PositionsAssumption
  <2> QED
    BY <1>1, <2>1, <2>2
<1>3. Sampled'
  BY <1>1 DEF IInv, Sampled
<1>4. ASSUME quiet' > Period' + RepublishAge'
      PROVE  /\ Now' # "other" => 0 <= since' /\ since' <= RepublishAge'
             /\ Now' = "live" => /\ 0 <= got'.position
                                 /\ Head' - Period' <= got'.position + since'
                                 /\ Smaller(got'.position + since', Duration) <= Head'
             /\ Now' = "bare" => got'.position = position'
  <2>1. quiet > SampleAge
    BY <1>1, <1>2, <1>4, IntsIs DEF IInv
  <2>2. /\ Now = "live" => /\ 0 <= store.position
                           /\ Head - SampleAge <= store.position /\ store.position <= Head
        /\ Now = "bare" => store.position = position
    BY <2>1 DEF IInv, Sampled
  <2>3. got'.position = store.position /\ since' = 0
    OBVIOUS
  <2>4. ASSUME Now = "live"
        PROVE  /\ Head - Period <= store.position + 0
               /\ Smaller(store.position + 0, Duration) <= Head
    BY <2>2, <2>4, IntsIs, PositionsAssumption DEF IInv, Smaller
  <2>5. 0 <= since' /\ since' <= RepublishAge'
    BY <1>2, <2>3
  <2> QED
    BY <1>1, <2>2, <2>3, <2>4, <2>5
<1> QED
  BY <1>3, <1>4 DEF Sent

(* Time goes on by one for the player, both ages and the plugin.           *)
LEMMA ElapseStep ==
    ASSUME IInv, TypeInv', Elapse, Now' = Now
    PROVE  Sampled' /\ Sent'
<1>1. /\ Period' = Period /\ SampleAge' = SampleAge + 1 /\ RepublishAge' = RepublishAge + 1
      /\ track' = track /\ status' = status /\ position' = position
      /\ store' = store /\ got' = got
  <2>1. pollIn \in Int /\ republishIn \in Int /\ Period \in Int /\ RepublishInterval \in Int
    BY IntsIs, PositionsAssumption DEF IInv, TypeInv, TypeOK
  <2>2. pollIn' = pollIn - 1 /\ republishIn' = republishIn - 1 /\ adapter' = adapter
    BY DEF Elapse
  <2>3. Period' = Period
    BY <2>2 DEF Period
  <2>4. SampleAge' = Period - (pollIn - 1) /\ RepublishAge' = RepublishInterval - (republishIn - 1)
    BY <2>2, <2>3 DEF SampleAge, RepublishAge
  <2> QED
    BY <2>1, <2>3, <2>4 DEF SampleAge, RepublishAge, Elapse
<1>2. quiet' = Smaller(quiet + 1, Period + RepublishInterval + 1)
  <2>1. Now' = Regime(status, position, age')
    BY DEF Elapse, Now, Regime
  <2>2. Regime(status, position, age') = Regime(status, position, age)
    BY <2>1 DEF Now
  <2> QED
    BY <2>2 DEF Elapse, QuietLongEnough
<1>3. /\ quiet' > SampleAge' => quiet > SampleAge
      /\ quiet' > Period' + RepublishAge' => quiet > Period + RepublishAge
      /\ Period + RepublishAge >= SampleAge
  <2>1. /\ Period \in Nat /\ RepublishInterval \in Nat /\ quiet \in Nat
        /\ SampleAge \in Int /\ SampleAge <= Period
        /\ RepublishAge \in Int /\ 0 <= RepublishAge /\ RepublishAge <= RepublishInterval
        /\ quiet <= Period + RepublishInterval + 1
    BY IntsIs, PositionsAssumption DEF IInv
  <2>2. \/ quiet' = quiet + 1
        \/ quiet' = quiet /\ quiet = Period + RepublishInterval + 1
    <3>1. \A n \in Nat : \A q \in Int : n <= q => Smaller(n + 1, q) = n + 1 \/ (n = q /\ Smaller(n + 1, q) = n)
      BY DEF Smaller
    <3>2. Period + RepublishInterval + 1 \in Int
      BY <2>1
    <3> QED
      BY <1>2, <2>1, <3>1, <3>2
  <2>3. quiet' \in Int
    BY <2>1, <2>2
  <2>4. quiet' > SampleAge + 1 => quiet > SampleAge
    BY <2>1, <2>2, <2>3
  <2>5. quiet' > Period + (RepublishAge + 1) => quiet > Period + RepublishAge
    BY <2>1, <2>2, <2>3
  <2>6. Period + RepublishAge >= SampleAge
    BY <2>1
  <2> QED
    BY <1>1, <2>4, <2>5, <2>6
<1>4. Now = "live" => age' = age + 1 /\ Head' = Smaller(position + age + 1, Duration)
  BY ElapseMoves DEF IInv
<1>5. Now = "live" => /\ Head' \in Int /\ Head <= Head' /\ Head' <= Head + 1
                      /\ Head' = Head + 1 \/ Head' = Duration
  BY <1>4, IntsIs, PositionsAssumption DEF IInv, Smaller, Head
<1>6. ASSUME quiet' > SampleAge'
      PROVE  /\ store'.track = track' /\ store'.status = status'
             /\ Now' = "live" => /\ 0 <= store'.position
                                 /\ Head' - SampleAge' <= store'.position /\ store'.position <= Head'
             /\ Now' = "bare" => store'.position = position'
  <2>1. /\ store.track = track /\ store.status = status
        /\ Now = "live" => /\ 0 <= store.position
                           /\ Head - SampleAge <= store.position /\ store.position <= Head
        /\ Now = "bare" => store.position = position
    BY <1>3, <1>6 DEF IInv, Sampled
  <2> QED
    BY <1>1, <1>5, <2>1, IntsIs DEF IInv
<1>7. ASSUME quiet' > Period' + RepublishAge'
      PROVE  /\ Now' # "other" => 0 <= since' /\ since' <= RepublishAge'
             /\ Now' = "live" => /\ 0 <= got'.position
                                 /\ Head' - Period' <= got'.position + since'
                                 /\ Smaller(got'.position + since', Duration) <= Head'
             /\ Now' = "bare" => got'.position = position'
  <2>1. quiet > Period + RepublishAge
    BY <1>3, <1>7
  <2>2. quiet > SampleAge
    BY <1>3, <2>1, IntsIs DEF IInv
  <2>3. Now # "other" => since' = since + 1
    <3>1. Now # "other" => got.status = "playing"
      BY <2>2, RegimeIs DEF IInv, Sampled, TypeInv, Linked
    <3> QED
      BY <3>1 DEF Elapse
  <2>4. /\ Now # "other" => 0 <= since /\ since <= RepublishAge
        /\ Now = "live" => /\ 0 <= got.position
                           /\ Head - Period <= got.position + since
                           /\ Smaller(got.position + since, Duration) <= Head
        /\ Now = "bare" => got.position = position
    BY <2>1 DEF IInv, Sent
  <2>5. Now # "other" => 0 <= since' /\ since' <= RepublishAge'
    BY <1>1, <2>3, <2>4, IntsIs DEF IInv
  <2>6. ASSUME Now = "live"
        PROVE  /\ Head' - Period <= got.position + (since + 1)
               /\ Smaller(got.position + (since + 1), Duration) <= Head'
    BY <1>5, <2>4, <2>6, IntsIs, RegimeIs, PositionsAssumption DEF IInv, Smaller
  <2> QED
    BY <1>1, <2>3, <2>4, <2>5, <2>6, RegimeIs
<1> QED
  BY <1>6, <1>7 DEF Sampled, Sent

-----------------------------------------------------------------------------
LEMMA InductiveStep == IInv /\ [Next]_vars => IInv'
<1> SUFFICES ASSUME IInv, [Next]_vars PROVE Sampled' /\ Sent'
  BY TypeStep DEF IInv
<1>t. TypeOK /\ Linked /\ TypeInv' /\ TypeInv /\ Sampled /\ Sent
  BY TypeStep DEF IInv, TypeInv
<1>1. CASE UNCHANGED vars
  BY <1>t, <1>1 DEF vars, player, Sampled, Sent, SampleAge, RepublishAge, Period, Head, Now, Regime
<1>2. CASE Report
  <2>1. Head' = Head /\ Now' = "live" /\ Now = "live"
    BY <1>t, <1>2, ReportMoves
  <2>2. Period' = Period /\ SampleAge' = SampleAge /\ RepublishAge' = RepublishAge
    BY <1>2 DEF Report, Period, SampleAge, RepublishAge
  <2> QED
    BY <1>t, <1>2, <2>1, <2>2 DEF Report, Sampled, Sent
<1>3. CASE quiet' = 0
  BY <1>t, <1>3, Disturbed
<1>4. CASE Poll
  <2> DEFINE r == Sample(track, status, position, age)
  <2>1. /\ r \in Records /\ r.track = track /\ r.status = status
        /\ Now = "live" /\ adapter = "windows" => r.position = Head
        /\ Now = "bare" => r.position = position
    BY <1>t, SampleIs DEF TypeOK, Now, Head
  <2> HIDE DEF r
  <2>2. /\ Apply(r) /\ adapter = "windows" /\ adapter' = adapter /\ pollIn' = Period
        /\ republishIn' = republishIn /\ quiet' = quiet
        /\ track' = track /\ status' = status /\ position' = position /\ age' = age
    BY <1>4 DEF Poll, r, player, Period
  <2>3. Now' = Now /\ Head' = Head
    BY <2>2 DEF Now, Regime, Head
  <2> QED
    BY <1>t, <2>1, <2>2, <2>3, SampleStep
<1>5. CASE TickPassed /\ ~TrackEnds
  <2>1. track' \in 0..(Tracks - 1) /\ status \in Statuses /\ Advanced \in 0..Duration
        /\ track' = track /\ status' = status /\ adapter = "mock" /\ adapter' = adapter
        /\ position' = Advanced /\ age' = 0
    BY <1>t, <1>5, PositionsAssumption DEF TickPassed, Advanced, TrackEnds, TypeOK, Linked
  <2>2. Now' = Now /\ Now # "bare"
    BY <2>1 DEF Now, Regime
  <2>3. Now = "live" => Advanced = position + age /\ Head = Advanced /\ Smaller(Advanced + 0, Duration) = Advanced
    BY <1>t, <1>5, <2>1, PositionsAssumption DEF Now, Regime, Advanced, TrackEnds, Head, Smaller, TypeOK
  <2> DEFINE r == Sample(track', status, Advanced, 0)
  <2>4. /\ r \in Records /\ r.track = track' /\ r.status = status
        /\ Now = "live" => r.position = Head
    <3>1. Now = "live" => Regime(status, Advanced, 0) = "live"
      BY <2>1 DEF Now, Regime
    <3> QED
      BY <2>1, <2>3, <3>1, SampleIs
  <2> HIDE DEF r
  <2>5. /\ Apply(r) /\ pollIn' = Period /\ republishIn' = republishIn /\ quiet' = quiet
    BY <1>5, <2>1 DEF TickPassed, r, Period
  <2>6. Now = "live" => Head' = Head
    BY <2>1, <2>3 DEF Head
  <2>7. CASE Now = "live"
    BY <1>t, <2>1, <2>2, <2>4, <2>5, <2>6, <2>7, SampleStep
  <2>8. CASE Now = "other"
    <3>1. store' = r /\ Period' = Period /\ SampleAge' = 0
      BY <1>t, <2>1, <2>4, <2>5, IntsIs, ApplyIs DEF Period, SampleAge
    <3> QED
      BY <2>1, <2>2, <2>4, <2>8, <3>1 DEF Sampled, Sent
  <2> QED
    BY <2>2, <2>7, <2>8, RegimeIs
<1>6. CASE Republish
  <2>1. CASE store.status = "playing"
    BY <1>t, <1>6, <2>1, SendStep, PositionsAssumption DEF Republish
  <2>2. CASE store.status # "playing"
    <3>1. /\ Period' = Period /\ SampleAge' = SampleAge /\ Now' = Now /\ Head' = Head
          /\ RepublishAge' \in Int /\ RepublishAge' >= 0 /\ quiet' = quiet
      BY <1>6, PositionsAssumption
         DEF Republish, player, Period, SampleAge, RepublishAge, Now, Regime, Head
    <3>2. Sampled'
      BY <1>t, <1>6, <3>1 DEF Republish, player, Sampled
    <3>3. ASSUME quiet' > Period' + RepublishAge' PROVE Now' = "other"
      BY <1>t, <2>2, <3>1, <3>3, IntsIs, RegimeIs DEF Sampled
    <3> QED
      BY <3>2, <3>3 DEF Sent
  <2> QED
    BY <2>1, <2>2
<1>7. CASE Answer
  BY <1>t, <1>7, SendStep DEF Answer, TypeOK
<1>8. CASE Elapse
  <2>1. Now' = Regime(status, position, age')
    BY <1>8 DEF Elapse, Now, Regime
  <2>2. CASE Now' = Now
    BY <1>t, <1>8, <2>2, ElapseStep
  <2>3. CASE Now' # Now
    BY <1>3, <1>8, <2>1, <2>3 DEF Elapse, Now
  <2> QED
    BY <2>2, <2>3
<1>9. CASE TickPassed /\ TrackEnds
  BY <1>3, <1>9 DEF TickPassed
<1>10. ASSUME NEW t, NEW s, NEW p, Move(t, s, p) PROVE quiet' = 0
  BY <1>10 DEF Move, Disturb
<1>11. ASSUME NEW d, ClockStep(d) PROVE quiet' = 0
  BY <1>11 DEF ClockStep, Disturb
<1>12. CASE CommandMock \/ CommandWindows
  BY <1>3, <1>12 DEF CommandMock, CommandWindows, Accepted, Disturb
<1> QED
  BY <1>1, <1>2, <1>3, <1>4, <1>5, <1>6, <1>7, <1>8, <1>9, <1>10, <1>11, <1>12 DEF Next

LEMMA InductiveInvariant == Spec => []IInv
<1>1. Init => IInv
  <2> SUFFICES ASSUME Init PROVE IInv
    OBVIOUS
  <2>1. TypeInv
    BY InitTyped
  <2>2. quiet = 0 /\ ~(quiet > SampleAge) /\ ~(quiet > Period + RepublishAge)
    BY <2>1, IntsIs DEF Init
  <2> QED
    BY <2>1, <2>2 DEF IInv, Sampled, Sent
<1> QED
  BY <1>1, InductiveStep, PTL DEF Spec

LEMMA ShownIs ==
    ASSUME IInv, quiet = QuietLongEnough, Now # "other"
    PROVE  /\ got.track = track
           /\ Now = "live" => Head - Period <= Shown /\ Shown <= Head
           /\ Now = "bare" => position <= Shown /\ Shown <= position + RepublishInterval
<1>1. quiet > Period + RepublishAge /\ quiet > SampleAge
  BY IntsIs, PositionsAssumption DEF IInv, QuietLongEnough
<1>2. /\ store.track = track /\ store.status = status
      /\ 0 <= since /\ since <= RepublishAge
      /\ Now = "live" => /\ 0 <= got.position
                         /\ Head - Period <= got.position + since
                         /\ Smaller(got.position + since, Duration) <= Head
      /\ Now = "bare" => got.position = position
  BY <1>1 DEF IInv, Sampled, Sent
<1>3. got.track = track /\ got.status = "playing"
  BY <1>2, RegimeIs DEF IInv, TypeInv, Linked
<1>4. got.position # NoPosition /\ got.position \in Int /\ got.position >= 0
  BY <1>2, IntsIs, RegimeIs DEF IInv, NoPosition
<1>5. Shown = Smaller(got.position + since, Duration)
  BY <1>2, <1>3, <1>4, IntsIs DEF Shown, IInv
<1>6. Now = "live" => Head - Period <= Shown /\ Shown <= Head
  BY <1>2, <1>4, <1>5, IntsIs, PositionsAssumption DEF IInv, Smaller
<1>7. Now = "bare" => position <= Shown /\ Shown <= position + RepublishInterval
  BY <1>2, <1>4, <1>5, IntsIs, PositionsAssumption DEF IInv, Smaller
<1> QED
  BY <1>3, <1>6, <1>7

(* For all intervals, and however commands, answers, polls, republications *)
(* and acts of the user interleave: a while after the last of them, what a *)
(* key shows of a track that plays is behind the player by one sampling    *)
(* period at most, and not ahead.                                          *)
THEOREM ShownFollowsPlayer == Spec => []Recalibrated
<1>1. IInv => Recalibrated
  BY ShownIs DEF Recalibrated, Now
<1> QED
  BY <1>1, InductiveInvariant, PTL

(* A player that has stopped reporting makes what is shown exceed its last *)
(* report by one republication interval at most.                           *)
THEOREM ReportNotExceeded == Spec => []NotInvented
<1>1. IInv => NotInvented
  BY ShownIs DEF NotInvented, Now
<1> QED
  BY <1>1, InductiveInvariant, PTL
=============================================================================
