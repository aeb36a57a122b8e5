-------------------------- MODULE RekeyTimingProofs --------------------------
(***************************************************************************)
(* Theorems about RekeyTiming: how old a key may be when it is erased, and  *)
(* for how long the two ends may use different keys, for all intervals,     *)
(* margins and bounds.                                                     *)
(***************************************************************************)
EXTENDS RekeyTiming, SequenceTheorems, TLAPS

-----------------------------------------------------------------------------
(* The inductive invariant.                                                *)

\* What a broken connection may cost at most: a whole negotiation and the wait.
Detour == MaxPrepare + MaxConfirm + RetryDelay

\* What comes between a key of the server and its next negotiation.
Pause == LongerOf(interval["server"], RetryDelay)

\* The age of the server's key, stage by stage, as long as nobody has hung.
ServerAge ==
  LET n == breaks["server"]
      age == since["server"]
  IN  age # None /\ ~hung["server"] =>
        /\ stage = "sleep" => age <= elapsed
        /\ stage = "prepare" => age <= Pause + n * Detour + elapsed
        /\ stage = "confirm" => age <= Pause + n * Detour + MaxPrepare + elapsed
        /\ stage = "down" => age <= Pause + n * Detour - RetryDelay + elapsed

\* The age of the client's key.
ClientAge ==
  LET n == breaks["client"]
      i == interval["server"]
      age == since["client"]
  IN  age # None /\ ~hung["client"] =>
        /\ stage = "confirm" => age <= elapsed
        /\ stage = "sleep" => age <= MaxConfirm + elapsed
        /\ stage = "prepare"
             => age <= MaxConfirm + i + n * (MaxPrepare + RetryDelay) + elapsed
        /\ stage = "down"
             => age <= MaxConfirm + i + n * (MaxPrepare + RetryDelay) - RetryDelay
                         + elapsed

\* What a stage begins with; an acknowledgement is late only while the ends have
\* different keys, and every one of them has cost a connection.
StageInv ==
  /\ frozen => /\ stage \in {"prepare", "confirm"}
               /\ hung["server"] /\ hung["client"]
               /\ ~same => hung["split"]
  /\ stage = "sleep" => same
  /\ stage = "confirm" => ~same
  /\ stage \in {"prepare", "down"} /\ ~same => breaks["split"] > 0
  /\ same => late = <<>> /\ breaks["split"] = 0
  /\ Len(late) <= breaks["split"]

\* How long the two ends have been apart: the age of the server's key, and a
\* lifetime for every key that it got late; or, as long as nobody has hung, what
\* the stages add up to.
ApartInv ==
  LET n == breaks["split"]
      age == since["server"]
  IN  /\ same \/ ~BothInUse => apart = 0
      /\ ~same /\ age # None
           => apart <= age + (n - Len(late)) * Lifetime("server")
      /\ ~hung["split"] /\ ~same =>
           /\ stage = "confirm" => apart <= n * Detour + elapsed
           /\ stage = "prepare" => apart <= n * Detour - MaxPrepare + elapsed
           /\ stage = "down" => apart <= n * Detour - MaxPrepare - RetryDelay + elapsed

IInv == TypeOK /\ StageInv /\ ServerAge /\ ClientAge /\ ApartInv

-----------------------------------------------------------------------------
(* Type correctness.                                                       *)

\* A late acknowledgement is no older than a confirmation may take, or lost.
LateAge == 0 .. MaxConfirm \cup {None}

\* A late confirmation takes itself and what is older out of the sequence.
LEMMA LateTaken ==
  ASSUME late \in Seq(LateAge), NEW i \in DOMAIN late, LateConfirm(i)
  PROVE  /\ late' \in Seq(LateAge)
         /\ i \in 1 .. Len(late)
         /\ Len(late') = Len(late) - i
<1>1. i \in 1 .. Len(late) /\ Len(late) \in Nat
  OBVIOUS
<1>2. late' = SubSeq(late, i + 1, Len(late))
  BY DEF LateConfirm
<1>3. /\ SubSeq(late, i + 1, Len(late)) \in Seq(LateAge)
      /\ Len(SubSeq(late, i + 1, Len(late)))
           = IF i + 1 <= Len(late) THEN Len(late) - (i + 1) + 1 ELSE 0
  <2>1. \A j \in i + 1 .. Len(late) : late[j] \in LateAge
    BY <1>1
  <2> QED
    BY <1>1, <2>1, SubSeqProperties
<1> QED
  BY <1>1, <1>2, <1>3

\* A connection that breaks adds at most what the client acknowledged on it.
LEMMA LateAdded ==
  ASSUME late \in Seq(LateAge), elapsed \in 0 .. Limit, Reset
  PROVE  /\ late' \in Seq(LateAge)
         /\ Len(late') \in {Len(late), Len(late) + 1}
         /\ stage # "confirm" => late' = late
<1>1. CASE stage = "confirm"
  <2>1. elapsed \in LateAge /\ None \in LateAge
    BY <1>1, TimingAssumption DEF Limit, LateAge
  <2>2. late' \in {Append(late, elapsed), Append(late, None)}
    BY <1>1 DEF Reset
  <2>3. \A a \in LateAge : /\ Append(late, a) \in Seq(LateAge)
                           /\ Len(Append(late, a)) = Len(late) + 1
    BY AppendProperties
  <2> QED
    BY <1>1, <2>1, <2>2, <2>3
<1>2. CASE stage # "confirm"
  <2>1. late' = late
    BY <1>2 DEF Reset
  <2> QED
    BY <1>2, <2>1
<1> QED
  BY <1>1, <1>2

\* Time passes for the late acknowledgements too, up to their limit.
LEMMA LateTicks ==
  ASSUME late \in Seq(LateAge), Tick
  PROVE  late' \in Seq(LateAge) /\ Len(late') = Len(late)
<1>1. CASE frozen
  BY <1>1 DEF Tick
<1>2. CASE ~frozen
  <2>1. late' = [i \in 1 .. Len(late) |-> Older(late[i])]
    BY <1>2 DEF Tick
  <2>2. \A i \in 1 .. Len(late) : late[i] \in LateAge /\ (late[i] # None => late[i] < MaxConfirm)
    BY <1>2 DEF Tick
  <2>3. \A i \in 1 .. Len(late) : Older(late[i]) \in LateAge
    BY <2>2, TimingAssumption DEF Older, LateAge
  <2>4. Len(late) \in Nat
    OBVIOUS
  <2> QED
    BY <2>1, <2>3, <2>4
<1> QED
  BY <1>1, <1>2

\* The initial states have the types.
LEMMA TypeInitially == Init => TypeOK
<1> SUFFICES ASSUME Init PROVE TypeOK
  OBVIOUS
<1> USE TimingAssumption DEF Init
<1>1. elapsed \in 0 .. Limit /\ stage \in {"prepare", "confirm", "sleep", "down"}
  BY DEF Limit
<1>2. late \in Seq(0 .. MaxConfirm \cup {None})
  OBVIOUS
<1>3. /\ since \in [End -> Nat \cup {None}]
      /\ \A e \in End : since[e] # None => since[e] <= Lifetime(e)
  OBVIOUS
<1>4. breaks \in [Count -> 0 .. MaxBreaks] /\ hung \in [Count -> BOOLEAN]
  OBVIOUS
<1> QED
  BY <1>1, <1>2, <1>3, <1>4 DEF TypeOK

\* The types of what a new key changes.
RenewedTypes ==
  /\ since \in [End -> Nat \cup {None}]
  /\ \A f \in End : since[f] # None => since[f] <= Lifetime(f)
  /\ same \in BOOLEAN
  /\ apart \in Nat
  /\ breaks \in [Count -> 0 .. MaxBreaks]
  /\ hung \in [Count -> BOOLEAN]

\* A new key keeps them.
LEMMA RenewTypes ==
  ASSUME TypeOK, NEW e \in End, NEW agreed \in BOOLEAN, Renew(e, agreed),
         interval' = interval
  PROVE  RenewedTypes'
<1> USE TimingAssumption DEF TypeOK, Renew
<1>1. since' \in [End -> Nat \cup {None}] /\ same' \in BOOLEAN /\ apart' \in Nat
  OBVIOUS
<1>2. ASSUME NEW f \in End, since'[f] # None PROVE since'[f] <= Lifetime(f)'
  <2>a. interval[f] \in Nat
    OBVIOUS
  <2>1. Lifetime(f)' = Lifetime(f) /\ Lifetime(f) \in Nat
    BY <2>a DEF Lifetime, EraseAfter
  <2>2. since'[f] = 0 \/ since'[f] = since[f]
    OBVIOUS
  <2> QED
    BY <1>2, <2>1, <2>2
<1>3. breaks' \in [Count -> 0 .. MaxBreaks]
  OBVIOUS
<1>4. hung' \in [Count -> BOOLEAN]
  OBVIOUS
<1> QED
  BY <1>1, <1>2, <1>3, <1>4 DEF RenewedTypes

\* Every step keeps the type invariant: a stage is left when its time is over, and
\* a key is erased when its lifetime is.
LEMMA TypePreserved == TypeOK /\ [Next]_vars => TypeOK'
<1> SUFFICES ASSUME TypeOK, [Next]_vars PROVE TypeOK'
  OBVIOUS
<1>a. late \in Seq(LateAge) /\ elapsed \in 0 .. Limit
  BY DEF TypeOK, LateAge
<1>b. "server" \in End /\ "client" \in End
  BY DEF End
<1> USE TimingAssumption
<1>1. CASE Acknowledge
  <2>1. /\ interval' = interval /\ frozen' = frozen /\ late' = late
        /\ stage' = "confirm" /\ elapsed' = 0
        /\ Renew("client", FALSE)
    BY <1>1 DEF Acknowledge, Enter
  <2>2. RenewedTypes'
    BY <2>1, <1>b, RenewTypes
  <2>3. elapsed' \in 0 .. Limit'
    BY <2>1 DEF Limit
  <2> QED
    BY <2>1, <2>2, <2>3 DEF TypeOK, RenewedTypes
<1>2. CASE Confirm
  <2>1. /\ interval' = interval /\ frozen' = frozen /\ late' = <<>>
        /\ stage' = "sleep" /\ elapsed' = 0
        /\ Renew("server", TRUE)
    BY <1>2 DEF Confirm, Enter
  <2>2. elapsed' \in 0 .. Limit'
    BY <2>1, <1>b DEF TypeOK, Limit
  <2>3. RenewedTypes'
    BY <2>1, <1>b, RenewTypes
  <2>4. late' \in Seq(0 .. MaxConfirm \cup {None})
    BY <2>1
  <2> QED
    BY <2>1, <2>2, <2>3, <2>4 DEF TypeOK, RenewedTypes
<1>3. ASSUME NEW i \in DOMAIN late, LateConfirm(i) PROVE TypeOK'
  <2> DEFINE agreed == i = Len(late) /\ stage # "confirm"
  <2>1. /\ UNCHANGED <<interval, stage, elapsed, frozen>>
        /\ Renew("server", agreed)
        /\ agreed \in BOOLEAN
    BY <1>3 DEF LateConfirm
  <2>2. late' \in Seq(LateAge)
    BY <1>a, <1>3, LateTaken
  <2>3. elapsed' \in 0 .. Limit'
    BY <1>a, <2>1 DEF Limit
  <2> HIDE DEF agreed
  <2>4. RenewedTypes'
    BY <2>1, <1>b, RenewTypes
  <2> QED
    BY <2>1, <2>2, <2>3, <2>4 DEF TypeOK, RenewedTypes, LateAge
<1>4. CASE Wake
  BY <1>4 DEF Wake, Enter, TypeOK, Limit, Lifetime, EraseAfter
<1>5. CASE Reconnect
  BY <1>5 DEF Reconnect, Enter, TypeOK, Limit, Lifetime, EraseAfter
<1>6. CASE Reset
  <2>1. late' \in Seq(LateAge)
    BY <1>a, <1>6, LateAdded
  <2>2. breaks' \in [Count -> 0 .. MaxBreaks]
    BY <1>6 DEF Reset, Break, TypeOK
  <2>3. /\ stage' = "down" /\ elapsed' = 0 /\ frozen' = FALSE
        /\ UNCHANGED <<interval, since, same, apart, hung>>
    BY <1>6 DEF Reset, Enter
  <2>4. elapsed' \in 0 .. Limit'
    BY <2>3 DEF Limit
  <2> QED
    BY <2>1, <2>2, <2>3, <2>4 DEF TypeOK, Lifetime, EraseAfter, LateAge
<1>7. CASE Hang
  <2>1. hung' \in [Count -> BOOLEAN]
    BY <1>7 DEF Hang, TypeOK, Counting
  <2> QED
    BY <1>7, <2>1 DEF Hang, TypeOK, Limit, Lifetime, EraseAfter
<1>8. CASE Resume
  BY <1>8 DEF Resume, TypeOK, Limit, Lifetime, EraseAfter
<1>9. ASSUME NEW e \in End, Erase(e) PROVE TypeOK'
  BY <1>9 DEF Erase, TypeOK, Limit, Lifetime, EraseAfter
<1>10. CASE Tick
  <2>1. late' \in Seq(LateAge)
    BY <1>a, <1>10, LateTicks
  <2>2. elapsed' \in 0 .. Limit'
    BY <1>a, <1>b, <1>10 DEF Tick, Limit, TypeOK
  <2>3. /\ since' \in [End -> Nat \cup {None}]
        /\ \A e \in End : since'[e] # None => since'[e] <= Lifetime(e)'
    <3>1. ASSUME NEW e \in End
          PROVE  /\ since'[e] \in Nat \cup {None}
                 /\ since'[e] # None => since'[e] <= Lifetime(e)'
      <4>1. Lifetime(e)' = Lifetime(e) /\ Lifetime(e) \in Nat
        <5>1. interval[e] \in Nat /\ interval' = interval
          BY <1>10 DEF Tick, TypeOK
        <5> QED
          BY <5>1 DEF Lifetime, EraseAfter
      <4>2. since'[e] = Older(since[e]) /\ since[e] \in Nat \cup {None}
        BY <1>10 DEF Tick, TypeOK
      <4>3. since[e] # None => since[e] < Lifetime(e)
        BY <1>10 DEF Tick
      <4> QED
        BY <4>1, <4>2, <4>3 DEF Older
    <3>2. since' = [e \in End |-> Older(since[e])]
      BY <1>10 DEF Tick
    <3> QED
      BY <3>1, <3>2
  <2> QED
    BY <1>10, <2>1, <2>2, <2>3 DEF Tick, TypeOK, LateAge
<1>11. CASE UNCHANGED vars
  BY <1>11 DEF vars, TypeOK, Limit, Lifetime, EraseAfter
<1> QED
  BY <1>1, <1>2, <1>3, <1>4, <1>5, <1>6, <1>7, <1>8, <1>9, <1>10, <1>11
     DEF Next, Negotiate

\* Type correctness; in particular no stage and no key outlives its bound.
THEOREM TypeCorrect == Spec => []TypeOK
<1>1. Init => TypeOK
  BY TypeInitially
<1>2. TypeOK /\ [Next]_vars => TypeOK'
  BY TypePreserved
<1> QED
  BY <1>1, <1>2, PTL DEF Spec

-----------------------------------------------------------------------------
(* The invariant is inductive.                                             *)

\* What one more broken connection adds to a multiple of a number.
LEMMA OneMore == \A n, d \in Nat : /\ (n + 1) * d = n * d + d
                                 /\ n * d \in Nat
                                 /\ 0 * d = 0
OBVIOUS

\* A multiple is a natural number, and at least the number.
LEMMA Multiple == \A n, d \in Nat : n * d \in Nat /\ (n > 0 => n * d >= d)
<1> SUFFICES ASSUME NEW n \in Nat, NEW d \in Nat
             PROVE n * d \in Nat /\ (n > 0 => n * d >= d)
  OBVIOUS
<1>1. n > 0 => n * d = (n - 1) * d + d /\ (n - 1) * d \in Nat
  BY OneMore
<1> QED
  BY <1>1, OneMore

\* Multiples grow with the factor.
LEMMA MoreIsMore == \A m, n, d \in Nat : m <= n => m * d <= n * d
<1> SUFFICES ASSUME NEW m \in Nat, NEW n \in Nat, NEW d \in Nat, m <= n
             PROVE m * d <= n * d
  OBVIOUS
<1>1. n - m \in Nat /\ n = m + (n - m)
  OBVIOUS
<1>2. \A k \in Nat : (m + k) * d = m * d + k * d
  OBVIOUS
<1>3. (n - m) * d \in Nat /\ m * d \in Nat
  BY <1>1, Multiple
<1>4. n * d = m * d + (n - m) * d
  BY <1>1, <1>2
<1> QED
  BY <1>3, <1>4

\* The counters, intervals and lifetimes are natural numbers.
LEMMA Numbers ==
  ASSUME TypeOK
  PROVE  /\ breaks["server"] \in Nat
         /\ breaks["client"] \in Nat
         /\ breaks["split"] \in Nat
         /\ interval["server"] \in Nat
         /\ Detour \in Nat
         /\ MaxPrepare + RetryDelay \in Nat
         /\ Pause \in Nat /\ Pause >= interval["server"] /\ Pause >= RetryDelay
         /\ Lifetime("server") \in Nat
         /\ elapsed \in Nat
<1>1. /\ breaks["server"] \in 0 .. MaxBreaks
      /\ breaks["client"] \in 0 .. MaxBreaks
      /\ breaks["split"] \in 0 .. MaxBreaks
      /\ interval["server"] \in Intervals
  BY DEF TypeOK, End, Count
<1>2. breaks["server"] \in Nat /\ breaks["client"] \in Nat /\ breaks["split"] \in Nat
  BY <1>1, TimingAssumption
<1>3. interval["server"] \in Nat
  BY <1>1, TimingAssumption
<1>4. Detour \in Nat /\ MaxPrepare + RetryDelay \in Nat
  BY TimingAssumption DEF Detour
<1>5. Pause \in Nat /\ Pause >= interval["server"] /\ Pause >= RetryDelay
  BY <1>3, TimingAssumption DEF Pause, LongerOf
<1>6. Lifetime("server") \in Nat
  BY <1>3, TimingAssumption DEF Lifetime, EraseAfter
<1>7. elapsed \in Nat
  BY <1>3, TimingAssumption DEF TypeOK, Limit
<1> QED
  BY <1>2, <1>3, <1>4, <1>5, <1>6, <1>7

\* What a new key of end e does to the counters.
LEMMA Renewed ==
  ASSUME TypeOK, NEW e \in End, NEW agreed \in BOOLEAN, Renew(e, agreed)
  PROVE  /\ since'[e] = 0 /\ breaks'[e] = 0 /\ hung'[e] = frozen
         /\ \A f \in End \ {e} : /\ since'[f] = since[f]
                                 /\ breaks'[f] = breaks[f]
                                 /\ hung'[f] = hung[f]
         /\ same' = agreed
         /\ agreed => apart' = 0 /\ breaks'["split"] = 0
         /\ ~agreed => /\ apart' = apart
                       /\ breaks'["split"] = breaks["split"]
                       /\ hung'["split"] = hung["split"]
<1> USE DEF Renew
<1>1. /\ "split" \in Count /\ "split" \notin End
      /\ End \subseteq Count
  BY DEF Count, End
<1>2. /\ since'[e] = 0
      /\ \A f \in End \ {e} : since'[f] = since[f]
  BY DEF TypeOK
<1>3. /\ breaks'[e] = 0
      /\ \A f \in End \ {e} : breaks'[f] = breaks[f]
      /\ breaks'["split"] = IF agreed THEN 0 ELSE breaks["split"]
  BY <1>1
<1>4. hung' = [x \in Count |-> IF x = e THEN frozen
                              ELSE hung[x] /\ ~(x = "split" /\ agreed)]
  OBVIOUS
<1>5. hung'[e] = frozen
  BY <1>1, <1>4
<1>6. ASSUME NEW x \in Count, x # e, x = "split" => ~agreed
      PROVE hung'[x] = hung[x]
  <2>1. hung'[x] = (hung[x] /\ ~(x = "split" /\ agreed))
    BY <1>4, <1>6
  <2>2. hung[x] \in BOOLEAN
    BY DEF TypeOK
  <2> QED
    BY <1>6, <2>1, <2>2
<1>7. \A f \in End \ {e} : hung'[f] = hung[f]
  BY <1>1, <1>6
<1>8. ~agreed => hung'["split"] = hung["split"]
  BY <1>1, <1>6
<1> QED
  BY <1>2, <1>3, <1>5, <1>7, <1>8

\* What the server's key from a lost connection does.
LEMMA LateRenewed ==
  ASSUME TypeOK, NEW i \in DOMAIN late, LateConfirm(i)
  PROVE  /\ UNCHANGED <<interval, stage, elapsed, frozen>>
         /\ i \in 1 .. Len(late)
         /\ Len(late') = Len(late) - i
         /\ since'["server"] = 0 /\ breaks'["server"] = 0 /\ hung'["server"] = frozen
         /\ since'["client"] = since["client"]
         /\ breaks'["client"] = breaks["client"]
         /\ hung'["client"] = hung["client"]
         /\ \/ /\ same' = TRUE
               /\ stage # "confirm"
               /\ late' = <<>>
               /\ apart' = 0
               /\ breaks'["split"] = 0
            \/ /\ same' = FALSE
               /\ apart' = apart
               /\ breaks'["split"] = breaks["split"]
               /\ hung'["split"] = hung["split"]
<1> DEFINE agreed == i = Len(late) /\ stage # "confirm"
<1>1. /\ UNCHANGED <<interval, stage, elapsed, frozen>>
      /\ Renew("server", agreed)
      /\ agreed \in BOOLEAN
  BY DEF LateConfirm
<1>2. late \in Seq(LateAge)
  BY DEF TypeOK, LateAge
<1>3. late' \in Seq(LateAge) /\ i \in 1 .. Len(late) /\ Len(late') = Len(late) - i
  BY <1>2, LateTaken
<1>4. agreed => late' = <<>>
  <2>1. agreed => Len(late') = 0
    BY <1>2, <1>3
  <2> QED
    BY <2>1, <1>3, EmptySeq
<1>5. agreed => stage # "confirm"
  OBVIOUS
<1>6. "server" \in End /\ "client" \in End \ {"server"}
  BY DEF End
<1> HIDE DEF agreed
<1>7. CASE agreed
  BY <1>1, <1>3, <1>4, <1>5, <1>6, <1>7, Renewed
<1>8. CASE ~agreed
  BY <1>1, <1>3, <1>6, <1>8, Renewed
<1> QED
  BY <1>7, <1>8

\* What an acknowledgement does.
LEMMA Acknowledged ==
  ASSUME TypeOK, Acknowledge
  PROVE  /\ stage = "prepare" /\ ~frozen
         /\ stage' = "confirm" /\ elapsed' = 0
         /\ UNCHANGED <<interval, frozen, late>>
         /\ since'["client"] = 0 /\ breaks'["client"] = 0 /\ hung'["client"] = frozen
         /\ since'["server"] = since["server"]
         /\ breaks'["server"] = breaks["server"]
         /\ hung'["server"] = hung["server"]
         /\ same' = FALSE
         /\ apart' = apart
         /\ breaks'["split"] = breaks["split"]
         /\ hung'["split"] = hung["split"]
<1>1. /\ stage = "prepare" /\ ~frozen
      /\ stage' = "confirm" /\ elapsed' = 0
      /\ UNCHANGED <<interval, frozen, late>>
      /\ Renew("client", FALSE)
  BY DEF Acknowledge, Enter
<1>2. "client" \in End /\ "server" \in End \ {"client"} /\ FALSE \in BOOLEAN
  BY DEF End
<1> QED
  BY <1>1, <1>2, Renewed

\* What a confirmation does.
LEMMA Confirmed ==
  ASSUME TypeOK, Confirm
  PROVE  /\ stage = "confirm" /\ ~frozen
         /\ stage' = "sleep" /\ elapsed' = 0 /\ late' = <<>>
         /\ UNCHANGED <<interval, frozen>>
         /\ since'["server"] = 0 /\ breaks'["server"] = 0 /\ hung'["server"] = frozen
         /\ since'["client"] = since["client"]
         /\ breaks'["client"] = breaks["client"]
         /\ hung'["client"] = hung["client"]
         /\ same' = TRUE
         /\ apart' = 0
         /\ breaks'["split"] = 0
<1>1. /\ stage = "confirm" /\ ~frozen
      /\ stage' = "sleep" /\ elapsed' = 0 /\ late' = <<>>
      /\ UNCHANGED <<interval, frozen>>
      /\ Renew("server", TRUE)
  BY DEF Confirm, Enter
<1>2. "server" \in End /\ "client" \in End \ {"server"} /\ TRUE \in BOOLEAN
  BY DEF End
<1> QED
  BY <1>1, <1>2, Renewed

\* What a lost connection does.
LEMMA Broken ==
  ASSUME TypeOK, Reset
  PROVE  /\ stage \in {"prepare", "confirm", "sleep"}
         /\ stage' = "down" /\ elapsed' = 0 /\ frozen' = FALSE
         /\ UNCHANGED <<interval, since, same, apart, hung>>
         /\ breaks'["server"] = breaks["server"] + 1
         /\ breaks'["client"] = breaks["client"] + 1
         /\ breaks'["split"] = IF same THEN breaks["split"] ELSE breaks["split"] + 1
         /\ Len(late') \in {Len(late), Len(late) + 1}
         /\ stage # "confirm" => late' = late
<1>1. /\ stage # "down" /\ stage' = "down" /\ elapsed' = 0 /\ frozen' = FALSE
      /\ UNCHANGED <<interval, since, same, apart, hung>>
  BY DEF Reset, Enter
<1>2. stage \in {"prepare", "confirm", "sleep"}
  BY <1>1 DEF TypeOK
<1>3. /\ breaks'["server"] = breaks["server"] + 1
      /\ breaks'["client"] = breaks["client"] + 1
      /\ breaks'["split"] = IF same THEN breaks["split"] ELSE breaks["split"] + 1
  BY DEF Reset, Break, Counting, Count, End
<1>4. late \in Seq(LateAge) /\ elapsed \in 0 .. Limit
  BY DEF TypeOK, LateAge
<1>5. Len(late') \in {Len(late), Len(late) + 1} /\ (stage # "confirm" => late' = late)
  BY <1>4, LateAdded
<1> QED
  BY <1>1, <1>2, <1>3, <1>5

\* What the passing of time does.
LEMMA Ticked ==
  ASSUME TypeOK, Tick
  PROVE  /\ UNCHANGED <<interval, stage, frozen, same, breaks, hung>>
         /\ ~frozen => elapsed' = elapsed + 1
         /\ Len(late') = Len(late)
         /\ late = <<>> => late' = <<>>
         /\ \A e \in End : since'[e] = IF since[e] = None THEN None ELSE since[e] + 1
         /\ apart' = IF BothInUse /\ ~same THEN apart + 1 ELSE 0
<1>1. late \in Seq(LateAge)
  BY DEF TypeOK, LateAge
<1>2. late' \in Seq(LateAge) /\ Len(late') = Len(late)
  BY <1>1, LateTicks
<1>3. late = <<>> => late' = <<>>
  <2>1. late = <<>> => Len(late') = 0
    BY <1>2
  <2> QED
    BY <1>2, <2>1, EmptySeq
<1>4. /\ UNCHANGED <<interval, stage, frozen, same, breaks, hung>>
      /\ ~frozen => elapsed' = elapsed + 1
      /\ apart' = IF BothInUse /\ ~same THEN apart + 1 ELSE 0
  BY DEF Tick
<1>5. \A e \in End : since'[e] = IF since[e] = None THEN None ELSE since[e] + 1
  BY DEF Tick, Older
<1> QED
  BY <1>2, <1>3, <1>4, <1>5

\* The invariant holds before the first negotiation.
LEMMA InitiallyIInv == Init => IInv
<1> SUFFICES ASSUME Init PROVE IInv
  OBVIOUS
<1>1. TypeOK
  BY TypeInitially
<1>2. StageInv
  BY DEF Init, StageInv, Count, End
<1>3. ServerAge /\ ClientAge /\ ApartInv
  BY DEF Init, ServerAge, ClientAge, ApartInv, End
<1> QED
  BY <1>1, <1>2, <1>3 DEF IInv

\* Every stage begins with its counters.
LEMMA StagePreserved == IInv /\ [Next]_vars => StageInv'
<1> SUFFICES ASSUME IInv, [Next]_vars PROVE StageInv'
  OBVIOUS
<1>a. TypeOK /\ StageInv
  BY DEF IInv
<1>b. Len(late) \in Nat /\ breaks["split"] \in Nat
  BY <1>a, Numbers DEF TypeOK
<1>c. same \in BOOLEAN /\ frozen \in BOOLEAN
  BY <1>a DEF TypeOK
<1>1. CASE Acknowledge
  <2>1. stage = "prepare" => (same => late = <<>>) /\ Len(late) <= breaks["split"]
    BY <1>a DEF StageInv
  <2> QED
    BY <1>1, <1>a, <2>1, Acknowledged DEF StageInv
<1>2. CASE Confirm
  <2>1. Len(<<>>) = 0
    OBVIOUS
  <2> QED
    BY <1>2, <1>a, <2>1, Confirmed DEF StageInv
<1>3. ASSUME NEW i \in DOMAIN late, LateConfirm(i) PROVE StageInv'
  <2>1. ~same
    <3>1. i \in 1 .. Len(late)
      BY <1>3, <1>a, LateRenewed
    <3>2. late # <<>>
      BY <3>1
    <3> QED
      BY <1>a, <3>2 DEF StageInv
  <2>2. Len(late') \in Nat /\ Len(late') <= Len(late)
    <3>1. i \in 1 .. Len(late) /\ Len(late') = Len(late) - i
      BY <1>3, <1>a, LateRenewed
    <3> QED
      BY <1>b, <3>1
  <2>3. CASE same'
    <3>1. /\ same' = TRUE /\ stage # "confirm" /\ late' = <<>> /\ breaks'["split"] = 0
          /\ UNCHANGED <<stage, frozen>>
          /\ hung'["server"] = frozen /\ hung'["client"] = hung["client"]
      BY <1>3, <1>a, <2>3, LateRenewed
    <3>2. Len(late') = 0
      BY <3>1
    <3> QED
      BY <1>a, <3>1, <3>2 DEF StageInv
  <2>4. CASE ~same'
    <3>1. /\ same' = FALSE /\ breaks'["split"] = breaks["split"]
          /\ hung'["split"] = hung["split"]
          /\ UNCHANGED <<stage, frozen>>
          /\ hung'["server"] = frozen /\ hung'["client"] = hung["client"]
      BY <1>3, <1>a, <2>4, LateRenewed
    <3>2. Len(late') <= breaks'["split"]
      BY <1>a, <1>b, <2>2, <3>1 DEF StageInv
    <3> QED
      BY <1>a, <2>1, <3>1, <3>2 DEF StageInv
  <2> QED
    BY <2>3, <2>4
<1>4. CASE Wake
  BY <1>4, <1>a DEF Wake, Enter, StageInv
<1>5. CASE Reconnect
  BY <1>5, <1>a DEF Reconnect, Enter, StageInv
<1>6. CASE Reset
  <2>1. CASE same
    <3>1. stage # "confirm" /\ late = <<>> /\ breaks["split"] = 0
      BY <1>a, <2>1 DEF StageInv
    <3>2. late' = <<>> /\ breaks'["split"] = 0 /\ same' = same
      BY <1>6, <1>a, <2>1, <3>1, Broken
    <3>3. Len(late') = 0
      BY <3>2
    <3> QED
      BY <1>6, <1>a, <2>1, <3>2, <3>3, Broken DEF StageInv
  <2>2. CASE ~same
    <3>1. /\ breaks'["split"] = breaks["split"] + 1
          /\ Len(late') \in {Len(late), Len(late) + 1}
          /\ same' = same
          /\ stage' = "down" /\ frozen' = FALSE
      BY <1>6, <1>a, <2>2, Broken
    <3>2. Len(late') <= breaks'["split"] /\ breaks'["split"] > 0
      BY <1>a, <1>b, <3>1 DEF StageInv
    <3> QED
      BY <2>2, <3>1, <3>2 DEF StageInv
  <2> QED
    BY <2>1, <2>2
<1>7. CASE Hang
  <2>1. /\ hung'["server"] /\ hung'["client"]
        /\ ~same => hung'["split"]
    BY <1>7 DEF Hang, Counting, Count, End
  <2>2. /\ stage \in {"prepare", "confirm"}
        /\ UNCHANGED <<stage, late, same, breaks>>
    BY <1>7 DEF Hang
  <2> QED
    BY <1>a, <2>1, <2>2 DEF StageInv
<1>8. CASE Resume
  BY <1>8, <1>a DEF Resume, StageInv
<1>9. ASSUME NEW e \in End, Erase(e) PROVE StageInv'
  BY <1>9, <1>a DEF Erase, StageInv
<1>10. CASE Tick
  BY <1>10, <1>a, Ticked DEF StageInv
<1>11. CASE UNCHANGED vars
  BY <1>11, <1>a DEF vars, StageInv
<1> QED
  BY <1>1, <1>2, <1>3, <1>4, <1>5, <1>6, <1>7, <1>8, <1>9, <1>10, <1>11
     DEF Next, Negotiate

\* The age of a key is what the stages since then add up to.
LEMMA AgePreserved == IInv /\ [Next]_vars => ServerAge' /\ ClientAge'
<1> SUFFICES ASSUME IInv, [Next]_vars PROVE ServerAge' /\ ClientAge'
  OBVIOUS
<1> DEFINE n == breaks["server"]
           m == breaks["client"]
           d == MaxPrepare + RetryDelay
<1>t. TypeOK /\ StageInv /\ ServerAge /\ ClientAge
  BY DEF IInv
<1>a. /\ n \in Nat /\ m \in Nat /\ Detour \in Nat /\ d \in Nat /\ elapsed \in Nat
      /\ interval["server"] \in Nat
      /\ Pause \in Nat /\ Pause >= interval["server"] /\ Pause >= RetryDelay
  BY <1>t, Numbers
<1>b. /\ (n + 1) * Detour = n * Detour + Detour
      /\ n * Detour \in Nat
      /\ 0 * Detour = 0
  BY <1>a, OneMore
<1>c. /\ (m + 1) * d = m * d + d
      /\ m * d \in Nat
      /\ 0 * d = 0
  BY <1>a, OneMore
<1>d. /\ since["server"] \in Nat \cup {None} /\ since["client"] \in Nat \cup {None}
      /\ stage \in {"prepare", "confirm", "sleep", "down"}
      /\ elapsed <= Limit
      /\ None \notin Nat
      /\ RetryDelay \in Nat /\ MaxPrepare \in Nat /\ MaxConfirm \in Nat
  BY <1>t, <1>a, TimingAssumption DEF TypeOK, End, Limit
<1>e. interval' = interval => Pause' = Pause
  BY DEF Pause
<1>f. interval' = interval
  BY DEF Next, Negotiate, Acknowledge, Confirm, LateConfirm, Wake, Reconnect, Reset, Hang,
         Resume, Erase, Tick, vars
<1> HIDE DEF n, m, d
<1>1. CASE Acknowledge
  <2>1. ServerAge'
    BY <1>1, <1>a, <1>b, <1>d, <1>e, <1>t, Acknowledged DEF ServerAge, Limit, n
  <2>2. ClientAge'
    BY <1>1, <1>t, Acknowledged DEF ClientAge
  <2> QED
    BY <2>1, <2>2
<1>2. CASE Confirm
  <2>1. ServerAge'
    BY <1>2, <1>t, Confirmed DEF ServerAge
  <2>2. ClientAge'
    <3>1. /\ stage = "confirm" /\ stage' = "sleep" /\ elapsed' = 0
          /\ since'["client"] = since["client"] /\ hung'["client"] = hung["client"]
      BY <1>2, <1>t, Confirmed
    <3>2. elapsed <= MaxConfirm
      BY <1>d, <3>1 DEF Limit
    <3>3. since["client"] # None /\ ~hung["client"] => since["client"] <= elapsed
      BY <1>t, <3>1 DEF ClientAge
    <3>4. since["client"] # None /\ ~hung["client"] => since["client"] <= MaxConfirm + 0
      BY <1>a, <1>d, <3>2, <3>3
    <3> QED
      BY <3>1, <3>4 DEF ClientAge
  <2> QED
    BY <2>1, <2>2
<1>3. ASSUME NEW i \in DOMAIN late, LateConfirm(i) PROVE ServerAge' /\ ClientAge'
  <2>1. stage # "sleep"
    <3>1. i \in 1 .. Len(late)
      BY <1>3, <1>t, LateRenewed
    <3>2. late # <<>>
      BY <3>1
    <3> QED
      BY <1>t, <3>2 DEF StageInv
  <2>2. ServerAge'
    <3>1. /\ since'["server"] = 0 /\ breaks'["server"] = 0
          /\ UNCHANGED <<interval, stage, elapsed>>
      BY <1>3, <1>t, LateRenewed
    <3> QED
      BY <1>a, <1>b, <1>d, <1>e, <2>1, <3>1 DEF ServerAge
  <2>3. ClientAge'
    BY <1>3, <1>t, LateRenewed DEF ClientAge
  <2> QED
    BY <2>2, <2>3
<1>4. CASE Wake
  <2>1. /\ stage = "sleep" /\ elapsed = interval["server"]
        /\ stage' = "prepare" /\ elapsed' = 0
        /\ UNCHANGED <<interval, since, breaks, hung>>
    BY <1>4 DEF Wake, Enter
  <2>2. ServerAge'
    BY <2>1, <1>a, <1>b, <1>d, <1>e, <1>t DEF ServerAge, n
  <2>3. ClientAge'
    BY <2>1, <1>a, <1>c, <1>d, <1>t DEF ClientAge, m, d
  <2> QED
    BY <2>2, <2>3
<1>5. CASE Reconnect
  <2>1. /\ stage = "down" /\ elapsed = RetryDelay
        /\ stage' = "prepare" /\ elapsed' = 0
        /\ UNCHANGED <<interval, since, breaks, hung>>
    BY <1>5 DEF Reconnect, Enter
  <2>2. ServerAge'
    BY <2>1, <1>a, <1>b, <1>d, <1>e, <1>t DEF ServerAge, n
  <2>3. ClientAge'
    BY <2>1, <1>a, <1>c, <1>d, <1>t DEF ClientAge, m, d
  <2> QED
    BY <2>2, <2>3
<1>6. CASE Reset
  <2>1. /\ stage \in {"prepare", "confirm", "sleep"}
        /\ stage' = "down" /\ elapsed' = 0
        /\ breaks'["server"] = n + 1 /\ breaks'["client"] = m + 1
        /\ UNCHANGED <<interval, since, hung>>
    BY <1>6, <1>t, Broken DEF n, m
  <2>2. ASSUME since["server"] # None, ~hung["server"]
        PROVE since["server"] <= Pause + n * Detour + Detour - RetryDelay
    BY <2>1, <1>a, <1>b, <1>d, <1>t, <2>2 DEF Limit, Detour, ServerAge, n
  <2>3. ASSUME since["client"] # None, ~hung["client"]
        PROVE since["client"] <= MaxConfirm + interval["server"] + m * d + MaxPrepare
    BY <2>1, <1>a, <1>c, <1>d, <1>t, <2>3 DEF Limit, ClientAge, m, d
  <2>4. ServerAge'
    BY <2>1, <2>2, <1>a, <1>b, <1>d, <1>e DEF ServerAge
  <2>5. ClientAge'
    BY <2>1, <2>3, <1>a, <1>c, <1>d DEF ClientAge, d
  <2> QED
    BY <2>4, <2>5
<1>7. CASE Hang
  <2>1. hung'["server"] /\ hung'["client"]
    BY <1>7 DEF Hang, Counting, Count, End
  <2> QED
    BY <2>1 DEF ServerAge, ClientAge
<1>8. CASE Resume
  BY <1>8, <1>e, <1>t DEF Resume, ServerAge, ClientAge
<1>9. ASSUME NEW e \in End, Erase(e) PROVE ServerAge' /\ ClientAge'
  <2>1. /\ UNCHANGED <<interval, stage, elapsed, breaks, hung>>
        /\ since'["server"] \in {None, since["server"]}
        /\ since'["client"] \in {None, since["client"]}
    BY <1>9, <1>t DEF Erase, TypeOK, End
  <2> QED
    BY <2>1, <1>e, <1>t DEF ServerAge, ClientAge
<1>10. CASE Tick
  <2>1. CASE frozen
    <3>1. hung'["server"] /\ hung'["client"]
      BY <1>10, <1>t, <2>1, Ticked DEF StageInv
    <3> QED
      BY <3>1 DEF ServerAge, ClientAge
  <2>2. CASE ~frozen
    <3>1. /\ UNCHANGED <<interval, stage, breaks, hung>>
          /\ elapsed' = elapsed + 1
          /\ since'["server"] = IF since["server"] = None THEN None ELSE since["server"] + 1
          /\ since'["client"] = IF since["client"] = None THEN None ELSE since["client"] + 1
      BY <1>10, <1>t, <2>2, Ticked DEF End
    <3>2. ServerAge'
      BY <3>1, <1>a, <1>b, <1>d, <1>e, <1>t DEF ServerAge, n
    <3>3. ClientAge'
      BY <3>1, <1>a, <1>c, <1>d, <1>t DEF ClientAge, m, d
    <3> QED
      BY <3>2, <3>3
  <2> QED
    BY <2>1, <2>2
<1>11. CASE UNCHANGED vars
  BY <1>11, <1>e, <1>t DEF vars, ServerAge, ClientAge
<1> QED
  BY <1>1, <1>2, <1>3, <1>4, <1>5, <1>6, <1>7, <1>8, <1>9, <1>10, <1>11
     DEF Next, Negotiate

\* The first bound of ApartInv: lifetimes.
ApartByKeys ==
  ~same /\ since["server"] # None
    => apart <= since["server"] + (breaks["split"] - Len(late)) * Lifetime("server")

\* The second one: the stages since the ends have parted.
ApartByStages ==
  LET n == breaks["split"]
  IN  ~hung["split"] /\ ~same =>
        /\ stage = "confirm" => apart <= n * Detour + elapsed
        /\ stage = "prepare" => apart <= n * Detour - MaxPrepare + elapsed
        /\ stage = "down" => apart <= n * Detour - MaxPrepare - RetryDelay + elapsed

\* The time apart is bounded by the age of the server's key and a lifetime for every
\* key that it got late, each of which has cost a connection.
LEMMA ByKeysPreserved == IInv /\ [Next]_vars => ApartByKeys'
<1> SUFFICES ASSUME IInv, [Next]_vars, ~same', since'["server"] # None
             PROVE apart' <= since'["server"]
                     + (breaks'["split"] - Len(late')) * Lifetime("server")'
  BY DEF ApartByKeys
<1> DEFINE n == breaks["split"]
           L == Lifetime("server")
           age == since["server"]
           k == n - Len(late)
<1>t. TypeOK /\ StageInv /\ ApartInv
  BY DEF IInv
<1>a. /\ n \in Nat /\ L \in Nat /\ Len(late) \in Nat
      /\ Len(late) <= n
      /\ age \in Nat \cup {None} /\ None \notin Nat
      /\ age # None => age <= L
      /\ apart \in Nat
  BY <1>t, Numbers, TimingAssumption DEF TypeOK, StageInv, End
<1>b. k \in Nat /\ k * L \in Nat /\ (k + 1) * L = k * L + L
  <2>1. k \in Nat /\ L \in Nat
    BY <1>a
  <2> HIDE DEF k, L
  <2> QED
    BY <2>1, OneMore
<1>c. /\ same => apart = 0 /\ k = 0
      /\ age = None => apart = 0
      /\ ~same /\ age # None => apart <= age + k * L
  <2>1. same => apart = 0 /\ n = 0
    BY <1>t DEF ApartInv, StageInv
  <2>2. age = None => apart = 0
    BY <1>t DEF ApartInv, BothInUse, End
  <2>3. ~same /\ age # None => apart <= age + k * L
    BY <1>t DEF ApartInv
  <2> QED
    BY <1>a, <2>1, <2>2, <2>3
<1>d. interval' = interval
  BY DEF Next, Negotiate, Acknowledge, Confirm, LateConfirm, Wake, Reconnect, Reset, Hang,
         Resume, Erase, Tick, vars
<1>e. Lifetime("server")' = L
  BY <1>d DEF Lifetime, EraseAfter
<1> HIDE DEF n, L, age, k
<1>f. ASSUME apart' = apart, since'["server"] = age, ~same, breaks'["split"] - Len(late') = k
      PROVE apart' <= since'["server"]
              + (breaks'["split"] - Len(late')) * Lifetime("server")'
  BY <1>f, <1>c, <1>e
<1>1. CASE Acknowledge
  <2>1. /\ since'["server"] = age /\ apart' = apart
        /\ breaks'["split"] - Len(late') = k
    BY <1>1, <1>t, Acknowledged DEF age, k, n
  <2>2. CASE same
    BY <2>1, <2>2, <1>a, <1>b, <1>c, <1>e
  <2>3. CASE ~same
    BY <2>1, <2>3, <1>f
  <2> QED
    BY <2>2, <2>3
<1>2. CASE Confirm
  BY <1>2, <1>t, Confirmed
<1>3. ASSUME NEW i \in DOMAIN late, LateConfirm(i)
      PROVE apart' <= since'["server"]
              + (breaks'["split"] - Len(late')) * Lifetime("server")'
  <2>1. /\ since'["server"] = 0
        /\ i \in 1 .. Len(late) /\ Len(late') = Len(late) - i
        /\ apart' = apart /\ breaks'["split"] = n
    BY <1>3, <1>t, LateRenewed DEF n
  <2>2. ~same
    <3>1. late # <<>>
      BY <2>1
    <3> QED
      BY <1>t, <3>1 DEF StageInv
  <2>3. breaks'["split"] - Len(late') = k + i /\ i \in Nat /\ k + 1 <= k + i
    BY <2>1, <1>a, <1>b DEF k
  <2>4. apart <= (k + 1) * L
    BY <1>a, <1>b, <1>c, <2>2
  <2>5. (k + 1) * L <= (k + i) * L /\ (k + 1) * L \in Nat /\ (k + i) * L \in Nat
    BY <1>a, <1>b, <2>3, MoreIsMore, Multiple
  <2>6. apart' <= (k + i) * L
    BY <1>a, <2>1, <2>4, <2>5
  <2> QED
    BY <1>e, <2>1, <2>3, <2>5, <2>6
<1>4. CASE Wake
  BY <1>4, <1>f DEF Wake, age, k, n
<1>5. CASE Reconnect
  BY <1>5, <1>f DEF Reconnect, age, k, n
<1>6. CASE Reset
  <2>1. /\ ~same /\ apart' = apart /\ since'["server"] = age
        /\ breaks'["split"] = n + 1
        /\ Len(late') \in {Len(late), Len(late) + 1}
    BY <1>6, <1>t, Broken DEF age, n
  <2>2. breaks'["split"] - Len(late') \in {k, k + 1}
    BY <2>1, <1>a DEF k
  <2>3. CASE breaks'["split"] - Len(late') = k
    BY <2>1, <2>3, <1>f
  <2>4. CASE breaks'["split"] - Len(late') = k + 1
    <3>1. apart' <= since'["server"] + (k + 1) * L
      BY <1>a, <1>b, <1>c, <2>1
    <3> QED
      BY <1>e, <2>4, <3>1
  <2> QED
    BY <2>2, <2>3, <2>4
<1>7. CASE Hang
  BY <1>7, <1>f DEF Hang, age, k, n
<1>8. CASE Resume
  BY <1>8, <1>f DEF Resume, age, k, n
<1>9. ASSUME NEW e \in End, Erase(e)
      PROVE apart' <= since'["server"]
              + (breaks'["split"] - Len(late')) * Lifetime("server")'
  <2>1. /\ apart' = 0
        /\ since'["server"] = age
        /\ breaks'["split"] - Len(late') = k
    BY <1>9, <1>t DEF Erase, TypeOK, End, age, k, n
  <2> QED
    BY <1>a, <1>b, <1>e, <2>1
<1>10. CASE Tick
  <2>1. /\ since'["server"] = age + 1 /\ age # None /\ ~same
        /\ breaks'["split"] - Len(late') = k
        /\ apart' \in {0, apart + 1}
    BY <1>10, <1>t, Ticked DEF age, k, n, End
  <2> QED
    BY <1>a, <1>b, <1>c, <1>e, <2>1
<1>11. CASE UNCHANGED vars
  BY <1>11, <1>f DEF vars, age, k, n
<1> QED
  BY <1>1, <1>2, <1>3, <1>4, <1>5, <1>6, <1>7, <1>8, <1>9, <1>10, <1>11
     DEF Next, Negotiate

\* The time apart is what the broken confirmations add up to.
LEMMA ByStagesPreserved == IInv /\ [Next]_vars => ApartByStages'
<1> SUFFICES ASSUME IInv, [Next]_vars, ~hung'["split"], ~same'
             PROVE ApartByStages'
  BY DEF ApartByStages
<1> DEFINE n == breaks["split"]
<1>t. TypeOK /\ StageInv
  BY DEF IInv
<1>s. ApartByStages /\ (same => apart = 0 /\ n = 0)
  BY <1>t DEF IInv, ApartInv, ApartByStages, StageInv
<1>a. /\ n \in Nat /\ Detour \in Nat /\ elapsed \in Nat /\ apart \in Nat
      /\ stage \in {"prepare", "confirm", "sleep", "down"}
      /\ elapsed <= Limit
      /\ RetryDelay \in Nat /\ MaxPrepare \in Nat /\ MaxConfirm \in Nat
      /\ Detour = MaxPrepare + MaxConfirm + RetryDelay
  BY <1>t, Numbers, TimingAssumption DEF TypeOK, Detour, Limit
<1>b. /\ (n + 1) * Detour = n * Detour + Detour
      /\ n * Detour \in Nat
      /\ n > 0 => n * Detour >= Detour
  BY <1>a, OneMore, Multiple
<1>c. stage \in {"prepare", "down"} /\ ~same => n > 0
  BY <1>t DEF StageInv
<1> HIDE DEF n
<1>1. CASE Acknowledge
  <2>1. /\ stage = "prepare" /\ stage' = "confirm" /\ elapsed' = 0 /\ apart' = apart
        /\ breaks'["split"] = n /\ hung'["split"] = hung["split"]
    BY <1>1, <1>t, Acknowledged DEF n
  <2>2. apart <= n * Detour
    <3>1. CASE same
      BY <1>a, <1>b, <1>s, <3>1
    <3>2. CASE ~same
      <4>1. apart <= n * Detour - MaxPrepare + elapsed
        BY <1>s, <2>1, <3>2 DEF ApartByStages, n
      <4>2. elapsed <= MaxPrepare
        BY <1>a, <2>1 DEF Limit
      <4> QED
        BY <1>a, <1>b, <4>1, <4>2
    <3> QED
      BY <3>1, <3>2
  <2> QED
    BY <1>a, <1>b, <2>1, <2>2 DEF ApartByStages
<1>2. CASE Confirm
  BY <1>2, <1>t, Confirmed
<1>3. ASSUME NEW i \in DOMAIN late, LateConfirm(i) PROVE ApartByStages'
  <2>1. ~same
    <3>1. i \in 1 .. Len(late)
      BY <1>3, <1>t, LateRenewed
    <3>2. late # <<>>
      BY <3>1
    <3> QED
      BY <1>t, <3>2 DEF StageInv
  <2>2. /\ UNCHANGED <<stage, elapsed, apart>>
        /\ breaks'["split"] = breaks["split"] /\ hung'["split"] = hung["split"]
    BY <1>3, <1>t, LateRenewed
  <2> QED
    BY <1>s, <2>1, <2>2 DEF ApartByStages
<1>4. CASE Wake
  <2>1. stage = "sleep" /\ same' = same
    BY <1>4 DEF Wake
  <2> QED
    BY <1>t, <2>1 DEF StageInv
<1>5. CASE Reconnect
  <2>1. /\ stage = "down" /\ elapsed = RetryDelay
        /\ stage' = "prepare" /\ elapsed' = 0
        /\ UNCHANGED <<same, apart, breaks, hung>>
    BY <1>5 DEF Reconnect, Enter
  <2> QED
    BY <1>a, <1>b, <1>s, <2>1 DEF ApartByStages, n
<1>6. CASE Reset
  <2>1. /\ stage \in {"prepare", "confirm", "sleep"}
        /\ stage' = "down" /\ elapsed' = 0
        /\ ~same /\ UNCHANGED <<apart, hung>>
        /\ breaks'["split"] = n + 1
    BY <1>6, <1>t, Broken DEF n
  <2>2. stage # "sleep"
    BY <1>t, <2>1 DEF StageInv
  <2>3. apart <= n * Detour + MaxConfirm
    <3>1. CASE stage = "confirm"
      <4>1. apart <= n * Detour + elapsed /\ elapsed <= MaxConfirm
        BY <1>a, <1>s, <2>1, <3>1 DEF ApartByStages, n, Limit
      <4> QED
        BY <1>a, <1>b, <4>1
    <3>2. CASE stage = "prepare"
      <4>1. apart <= n * Detour - MaxPrepare + elapsed /\ elapsed <= MaxPrepare
        BY <1>a, <1>s, <2>1, <3>2 DEF ApartByStages, n, Limit
      <4> QED
        BY <1>a, <1>b, <4>1
    <3> QED
      BY <2>1, <2>2, <3>1, <3>2
  <2>4. apart' <= (n + 1) * Detour - MaxPrepare - RetryDelay + 0
    BY <1>a, <1>b, <2>1, <2>3
  <2> QED
    BY <2>1, <2>4 DEF ApartByStages
<1>7. CASE Hang
  <2>1. ~same => hung'["split"]
    BY <1>7 DEF Hang, Counting, Count
  <2> QED
    BY <1>7, <2>1 DEF Hang
<1>8. CASE Resume
  BY <1>8, <1>s DEF Resume, ApartByStages
<1>9. ASSUME NEW e \in End, Erase(e) PROVE ApartByStages'
  <2>1. /\ apart' = 0
        /\ UNCHANGED <<stage, elapsed, same, breaks, hung>>
    BY <1>9 DEF Erase
  <2>2. stage \in {"prepare", "down"} => n * Detour >= Detour
    BY <1>b, <1>c, <2>1
  <2> QED
    BY <1>a, <1>b, <2>1, <2>2 DEF ApartByStages, n
<1>10. CASE Tick
  <2>1. ~frozen
    BY <1>10, <1>t, Ticked DEF StageInv
  <2>2. /\ UNCHANGED <<stage, same, breaks, hung>>
        /\ elapsed' = elapsed + 1
        /\ apart' \in {0, apart + 1}
    BY <1>10, <1>t, <2>1, Ticked
  <2>3. apart' <= apart + 1
    BY <1>a, <2>2
  <2>4. apart' \in Nat
    BY <1>a, <2>2
  <2> QED
    BY <1>a, <1>b, <1>s, <2>2, <2>3, <2>4 DEF ApartByStages, n
<1>11. CASE UNCHANGED vars
  BY <1>11, <1>s DEF vars, ApartByStages
<1> QED
  BY <1>1, <1>2, <1>3, <1>4, <1>5, <1>6, <1>7, <1>8, <1>9, <1>10, <1>11
     DEF Next, Negotiate

\* Both bounds, and that nobody is apart who has the same key or none.
LEMMA ApartPreserved == IInv /\ [Next]_vars => ApartInv'
<1> SUFFICES ASSUME IInv, [Next]_vars PROVE ApartInv'
  OBVIOUS
<1>t. TypeOK /\ StageInv /\ (same \/ ~BothInUse => apart = 0)
  BY DEF IInv, ApartInv
<1>1. (same \/ ~BothInUse => apart = 0)'
  <2>a. \A e \in End : since[e] \in Nat \cup {None}
    BY <1>t DEF TypeOK
  <2>1. CASE Acknowledge
    <3>1. /\ same' = FALSE /\ apart' = apart /\ since'["client"] = 0
          /\ since'["server"] = since["server"]
      BY <2>1, <1>t, Acknowledged
    <3>2. ~BothInUse' => ~BothInUse
      BY <3>1, TimingAssumption DEF BothInUse, End
    <3> QED
      BY <1>t, <3>1, <3>2
  <2>2. CASE Confirm
    BY <2>2, <1>t, Confirmed
  <2>3. ASSUME NEW i \in DOMAIN late, LateConfirm(i)
        PROVE same' \/ ~BothInUse' => apart' = 0
    <3>1. /\ since'["server"] = 0 /\ since'["client"] = since["client"]
          /\ same' => apart' = 0
          /\ ~same' => apart' = apart
      BY <2>3, <1>t, LateRenewed
    <3>2. ~BothInUse' => ~BothInUse
      BY <3>1, TimingAssumption DEF BothInUse, End
    <3> QED
      BY <1>t, <3>1, <3>2
  <2>4. CASE Tick
    <3>1. /\ same' = same
          /\ \A e \in End : since'[e] = IF since[e] = None THEN None ELSE since[e] + 1
          /\ apart' = IF BothInUse /\ ~same THEN apart + 1 ELSE 0
      BY <2>4, <1>t, Ticked
    <3>2. BothInUse' = BothInUse
      BY <2>a, <3>1, TimingAssumption DEF BothInUse
    <3> QED
      BY <3>1, <3>2
  <2>5. ASSUME NEW e \in End, Erase(e) PROVE apart' = 0
    BY <2>5 DEF Erase
  <2>6. CASE Wake \/ Reconnect \/ Reset \/ Hang \/ Resume \/ UNCHANGED vars
    BY <2>6, <1>t DEF Wake, Reconnect, Reset, Hang, Resume, vars, BothInUse
  <2> QED
    BY <2>1, <2>2, <2>3, <2>4, <2>5, <2>6 DEF Next, Negotiate
<1>2. ApartByKeys' /\ ApartByStages'
  BY ByKeysPreserved, ByStagesPreserved
<1> QED
  BY <1>1, <1>2 DEF ApartInv, ApartByKeys, ApartByStages

\* The whole invariant is inductive.
THEOREM Invariance == Spec => []IInv
<1>1. Init => IInv
  BY InitiallyIInv
<1>2. IInv /\ [Next]_vars => IInv'
  BY TypePreserved, StagePreserved, AgePreserved, ApartPreserved DEF IInv
<1> QED
  BY <1>1, <1>2, PTL DEF Spec

-----------------------------------------------------------------------------
(* What follows from it.                                                   *)

\* For all intervals and margins, a switch erases a key only if somebody has hung or
\* the server's interval, the negotiation and the reconnections since that key
\* add up to that end's own deadline.
THEOREM GoodKeysKept == Spec => KeptWhileRekeying
<1>1. IInv /\ [Next]_vars =>
        [\A e \in End :
           since[e] # None /\ since'[e] = None
             => hung[e] \/ Gap(e, breaks[e]) >= EraseAfter(e)]_vars
  <2> SUFFICES ASSUME IInv, Next, NEW e \in End, since[e] # None, since'[e] = None,
                      ~hung[e]
               PROVE Gap(e, breaks[e]) >= EraseAfter(e)
    BY DEF vars
  <2> USE TimingAssumption
  <2>a. since[e] \in Nat /\ interval[e] \in Nat
    BY DEF IInv, TypeOK
  <2>b. TypeOK
    BY DEF IInv
  <2>1. since[e] >= EraseAfter(e)
    <3>1. PICK f \in End : Erase(f)
      <4>1. CASE Acknowledge
        BY <4>1, <2>b, Acknowledged DEF End
      <4>2. CASE Confirm
        BY <4>2, <2>b, Confirmed DEF End
      <4>3. ASSUME NEW i \in DOMAIN late, LateConfirm(i) PROVE FALSE
        <5>1. since'["server"] = 0 /\ since'["client"] = since["client"]
          BY <4>3, <2>b, LateRenewed
        <5>2. e = "server" \/ e = "client"
          BY DEF End
        <5> QED
          BY <5>1, <5>2
      <4>4. CASE Tick
        BY <4>4, <2>a, <2>b, Ticked
      <4>5. CASE Wake \/ Reconnect \/ Reset \/ Hang \/ Resume
        BY <4>5 DEF Wake, Reconnect, Reset, Hang, Resume
      <4> QED
        BY <4>1, <4>2, <4>3, <4>4, <4>5 DEF Next, Negotiate
    <3>2. f = e
      BY <3>1 DEF Erase, IInv, TypeOK
    <3> QED
      BY <3>1, <3>2 DEF Erase
  <2>2. since[e] <= Gap(e, breaks[e])
    <3>1. /\ breaks["server"] \in Nat /\ breaks["client"] \in Nat
          /\ interval["server"] \in Nat /\ Pause \in Nat /\ Detour \in Nat
          /\ Pause >= interval["server"]
      BY <2>b, Numbers
    <3>2. stage \in {"prepare", "confirm", "sleep", "down"}
      BY <2>b DEF TypeOK
    <3>3. elapsed \in Nat /\ elapsed <= Limit
      BY <2>b, Numbers DEF TypeOK
    <3>4. CASE e = "server"
      <4> DEFINE n == breaks["server"]
      <4>1. Gap(e, n) = Pause + n * Detour + MaxPrepare + MaxConfirm
        BY <3>1, <3>4 DEF Gap, Detour, Pause
      <4>2. n * Detour \in Nat
        BY <3>1, Multiple
      <4> QED
        BY <3>1, <3>2, <3>3, <3>4, <4>1, <4>2, <2>a DEF IInv, ServerAge, Limit
    <3>5. CASE e = "client"
      <4> DEFINE n == breaks["client"]
      <4>1. Gap(e, n) = interval["server"] + MaxConfirm
                          + n * (MaxPrepare + RetryDelay) + MaxPrepare
        BY <3>1, <3>5 DEF Gap
      <4>2. n * (MaxPrepare + RetryDelay) \in Nat
        BY <3>1, Multiple
      <4> QED
        BY <3>1, <3>2, <3>3, <3>5, <4>1, <4>2, <2>a DEF IInv, ClientAge, Limit
    <3> QED
      BY <3>4, <3>5 DEF End
  <2>3. EraseAfter(e) \in Nat
    BY <2>a DEF EraseAfter
  <2>4. Gap(e, breaks[e]) \in Nat
    <3>1. /\ breaks["server"] \in Nat /\ breaks["client"] \in Nat
          /\ interval["server"] \in Nat /\ Pause \in Nat
      BY <2>b, Numbers
    <3>2. \A n \in Nat : /\ (n + 1) * (MaxPrepare + MaxConfirm) \in Nat
                         /\ (n + 1) * MaxPrepare \in Nat
                         /\ n * RetryDelay \in Nat
      BY Multiple
    <3> QED
      BY <3>1, <3>2 DEF Gap, Pause, End
  <2>5. ASSUME NEW a \in Nat, NEW b \in Nat, NEW c \in Nat, a >= b, a <= c
        PROVE c >= b
    BY <2>5
  <2> QED
    BY <2>1, <2>2, <2>3, <2>4, <2>5, <2>a
<1> QED
  BY <1>1, Invariance, PTL DEF Spec, KeptWhileRekeying

\* For all intervals and bounds, and with keys that the server gets from connections
\* the client has lost, the two ends use different keys no longer than the
\* reconnections since they parted take if nobody hangs, and in any case no longer
\* than the lifetimes of the keys that the server had meanwhile.
THEOREM ApartForAWhile == Spec => []SplitBounded
<1>1. IInv => SplitBounded
  <2> SUFFICES ASSUME IInv, BothInUse, ~same
               PROVE LET n == breaks["split"]
                     IN  /\ apart <= (n + 1) * Lifetime("server")
                         /\ \/ hung["split"]
                            \/ apart <= (n + 1) * MaxConfirm
                                          + n * (RetryDelay + MaxPrepare)
    BY DEF SplitBounded
  <2> DEFINE n == breaks["split"]
             L == Lifetime("server")
  <2> USE TimingAssumption
  <2>t. TypeOK /\ StageInv /\ ApartInv
    BY DEF IInv
  <2>a. /\ n \in Nat /\ elapsed \in Nat /\ apart \in Nat /\ Detour \in Nat /\ L \in Nat
        /\ Len(late) \in Nat /\ Len(late) <= n
    BY <2>t, Numbers DEF TypeOK, StageInv
  <2>1. apart <= (n + 1) * L
    <3>1. since["server"] \in Nat /\ since["server"] <= L
      BY <2>t DEF TypeOK, BothInUse, End
    <3>2. apart <= since["server"] + (n - Len(late)) * L
      BY <2>t, <3>1 DEF ApartInv
    <3>3. n - Len(late) \in Nat /\ n - Len(late) <= n
      BY <2>a
    <3>4. (n - Len(late)) * L <= n * L /\ (n - Len(late)) * L \in Nat /\ n * L \in Nat
      BY <2>a, <3>3, MoreIsMore, Multiple
    <3>5. (n + 1) * L = n * L + L
      BY <2>a, OneMore
    <3> HIDE DEF n, L
    <3> QED
      BY <2>a, <3>1, <3>2, <3>4, <3>5
  <2>2. ASSUME ~hung["split"]
        PROVE apart <= (n + 1) * MaxConfirm + n * (RetryDelay + MaxPrepare)
    <3>1. (n + 1) * MaxConfirm + n * (RetryDelay + MaxPrepare) = n * Detour + MaxConfirm
      BY <2>a DEF Detour
    <3>2. stage \in {"prepare", "confirm", "down"}
      BY <2>t DEF TypeOK, StageInv
    <3>3. /\ stage = "confirm" => elapsed <= MaxConfirm
          /\ stage = "prepare" => elapsed <= MaxPrepare
          /\ stage = "down" => elapsed <= RetryDelay
      BY <2>t, <3>2 DEF TypeOK, Limit
    <3>4. n * Detour \in Nat
      BY <2>a, Multiple
    <3>5. /\ stage = "confirm" => apart <= n * Detour + elapsed
          /\ stage = "prepare" => apart <= n * Detour - MaxPrepare + elapsed
          /\ stage = "down" => apart <= n * Detour - MaxPrepare - RetryDelay + elapsed
      BY <2>2, <2>t DEF ApartInv
    <3>6. apart <= n * Detour + MaxConfirm
      <4> DEFINE d == n * Detour
      <4>1. d \in Nat
        BY <3>4
      <4> HIDE DEF d
      <4> QED
        BY <2>a, <3>2, <3>3, <3>5, <4>1
    <3> QED
      BY <3>1, <3>6
  <2> QED
    BY <2>1, <2>2
<1> QED
  BY <1>1, Invariance, PTL

=============================================================================
