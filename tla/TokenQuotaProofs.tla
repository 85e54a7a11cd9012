-------------------------- MODULE TokenQuotaProofs --------------------------
(***************************************************************************)
(* Proofs about TokenQuota, for any tokens, calls and limits.              *)
(*                                                                         *)
(* The counter of a bucket is at least every slot it has given, so the     *)
(* next slot it gives is new.  The daily check breaks that for the buckets *)
(* it deletes; CallOK therefore speaks of the days from lastCheck on, and  *)
(* says that every call still counting is of such a day.  The rows of the  *)
(* days under retention are counted in RowInv, and the last part maps the  *)
(* two quotas to Slots.                                                    *)
(***************************************************************************)
EXTENDS TokenQuota, FiniteSetTheorems, TLAPS

USE DEF Phase

CallOK(k) ==
    /\ pc[k] \in Counting => stamp[k].day >= lastCheck
    /\ pc[k] \in {"idle", "authenticated", "minute"} => minuteSlot[k] = 0
    /\ pc[k] \in {"idle", "authenticated", "minute", "day"} => daySlot[k] = 0
    /\ pc[k] = "day" => minuteSlot[k] > 0
    /\ stamp[k].day >= lastCheck =>
         /\ minuteSlot[k] <= minuteCount[caller[k]][stamp[k]]
         /\ daySlot[k] <= dayCount[caller[k]][stamp[k].day]
         /\ pc[k] = "refused" => rejected[caller[k]][stamp[k].day] > 0

CheckOK ==
    /\ lastCheck <= now.day
    /\ \A d \in reported : d < lastCheck
    /\ check.phase = "mail" =>
         /\ check.day = lastCheck - 1 /\ check.day >= 0
         /\ \A k \in Call :
                /\ pc[k] = "refused"
                /\ caller[k] \in Token
                /\ stamp[k].day = check.day
                => caller[k] \in check.notable

IInv ==
    /\ TypeOK
    /\ CheckOK
    /\ \A k \in Call : CallOK(k)
    /\ MinuteQuota
    /\ DayQuota
    /\ RefusalsReported

(* The initial state satisfies the invariant.                              *)
LEMMA InitInv == Init => IInv
  <1> SUFFICES ASSUME Init PROVE IInv
    OBVIOUS
  <1> USE TokenQuotaAssumption
  <1>1. now \in Stamp
    BY DEF Init, Stamp, Day, Minute
  <1>2. TypeOK
    <2>1. tokens \in [Token -> [active : BOOLEAN, perMinute : LimitValue,
                                perDay : LimitValue]]
      BY DEF Init, LimitValue
    <2>2. /\ minuteCount \in [Key -> [Stamp -> Nat]]
          /\ dayCount \in [Key -> [Day -> Nat]]
          /\ rejected \in [Key -> [Day -> Nat]]
      BY DEF Init
    <2>3. /\ pc \in [Call -> Phase]
          /\ caller \in [Call -> Key]
          /\ limits \in [Call -> LimitPair]
          /\ stamp \in [Call -> Stamp]
          /\ minuteSlot \in [Call -> Nat]
          /\ daySlot \in [Call -> Nat]
      BY <1>1 DEF Init, Key, LimitPair
    <2>4. /\ check \in [phase : {"idle", "mail", "delete"}, day : Day \cup {-1},
                        notable : SUBSET Token]
          /\ lastCheck \in Day
          /\ told \subseteq Token \X Day
          /\ reported \subseteq Day
      BY DEF Init, Day
    <2> QED BY <1>1, <2>1, <2>2, <2>3, <2>4 DEF TypeOK
  <1>3. CheckOK
    BY DEF Init, CheckOK
  <1>4. ASSUME NEW k \in Call PROVE CallOK(k)
    BY <1>2 DEF Init, CallOK, Counting, TypeOK, Stamp
  <1>5. MinuteQuota /\ DayQuota /\ RefusalsReported
    BY DEF Init, MinuteQuota, DayQuota, RefusalsReported
  <1> QED BY <1>2, <1>3, <1>4, <1>5 DEF IInv

(* The limits of a call are numbers.                                       *)
LEMMA LimitsType ==
    ASSUME TypeOK, NEW c \in Key
    PROVE  LimitsFor(c) \in LimitPair
  BY TokenQuotaAssumption DEF TypeOK, LimitsFor, LimitPair, LimitValue, Key

(* Adding one to a row of a table of counters.                             *)
LEMMA BumpType ==
    ASSUME NEW A, NEW B, NEW f \in [A -> [B -> Nat]], NEW a \in A, NEW b \in B,
           NEW n \in Nat
    PROVE  [f EXCEPT ![a][b] = n] \in [A -> [B -> Nat]]
  OBVIOUS

(* Every step of a call keeps each variable in its type.                   *)
LEMMA CountType ==
    ASSUME TypeOK, NEW k \in Call, Count(k)
    PROVE  TypeOK'
  <1> USE DEF TypeOK
  <1>0. /\ caller[k] \in Key /\ stamp[k] \in Stamp /\ stamp[k].day \in Day
        /\ minuteCount[caller[k]][stamp[k]] \in Nat
        /\ dayCount[caller[k]][stamp[k].day] \in Nat
        /\ rejected[caller[k]][stamp[k].day] \in Nat
    <2>1. caller[k] \in Key /\ stamp[k] \in Stamp
      OBVIOUS
    <2>2. stamp[k].day \in Day
      BY <2>1 DEF Stamp
    <2> QED BY <2>1, <2>2
  <1>1. ASSUME NEW c \in Key, Authenticate(k, c) PROVE TypeOK'
    <2>1. limits' \in [Call -> LimitPair]
      BY <1>1, LimitsType DEF Authenticate
    <2>2. caller' \in [Call -> Key]
      BY <1>1 DEF Authenticate
    <2>3. pc' \in [Call -> Phase]
      BY <1>1 DEF Authenticate, Goto, Answered
    <2> QED BY <1>1, <2>1, <2>2, <2>3 DEF Authenticate, usage, cron
  <1>2. CASE CheckQuota(k)
    <2>1. stamp' \in [Call -> Stamp]
      BY <1>2 DEF CheckQuota
    <2>2. pc' \in [Call -> Phase]
      BY <1>2 DEF CheckQuota, Goto, Counting
    <2> QED BY <1>2, <2>1, <2>2 DEF CheckQuota, usage, cron
  <1>3. CASE TakeMinute(k)
    <2>1. minuteCount' \in [Key -> [Stamp -> Nat]]
      BY <1>0, <1>3, BumpType DEF TakeMinute
    <2>2. minuteSlot' \in [Call -> Nat]
      BY <1>0, <1>3 DEF TakeMinute
    <2>3. pc' \in [Call -> Phase]
      BY <1>3 DEF TakeMinute, Goto, Unavailable, Answered, Counting
    <2> QED BY <1>3, <2>1, <2>2, <2>3 DEF TakeMinute, cron
  <1>4. CASE MinuteIsFull(k) \/ DayIsFull(k) \/ StatementFails(k)
    BY <1>4 DEF MinuteIsFull, DayIsFull, StatementFails, Goto, Unavailable,
       Answered, Counting, usage, cron
  <1>5. CASE TakeDay(k)
    <2>1. dayCount' \in [Key -> [Day -> Nat]]
      BY <1>0, <1>5, BumpType DEF TakeDay
    <2>2. daySlot' \in [Call -> Nat]
      BY <1>0, <1>5 DEF TakeDay
    <2>3. pc' \in [Call -> Phase]
      BY <1>5 DEF TakeDay, Goto, Unavailable, Answered
    <2> QED BY <1>5, <2>1, <2>2, <2>3 DEF TakeDay, cron
  <1>6. CASE Reject(k)
    <2>1. rejected' \in [Key -> [Day -> Nat]]
      BY <1>0, <1>6, BumpType DEF Reject
    <2>2. pc' \in [Call -> Phase]
      BY <1>6 DEF Reject, Goto, Unavailable, Answered
    <2> QED BY <1>6, <2>1, <2>2 DEF Reject, cron
  <1> QED BY <1>1, <1>2, <1>3, <1>4, <1>5, <1>6, Count(k) DEF Count

(* The clock moves on within its bounds.                                   *)
LEMMA TickType ==
    ASSUME TypeOK, Tick
    PROVE  now' \in Stamp /\ now'.day >= now.day
  <1>1. now \in Stamp /\ now.day \in Nat /\ now.minute \in Nat
    BY DEF TypeOK, Stamp, Day, Minute
  <1>2. CASE now.minute < LastMinute
    <2>1. now' = [now EXCEPT !.minute = @ + 1]
      BY <1>2 DEF Tick
    <2>2. now' = [day |-> now.day, minute |-> now.minute + 1]
      BY <1>1, <2>1 DEF Stamp
    <2> QED BY <1>1, <1>2, <2>2, TokenQuotaAssumption DEF Stamp, Day, Minute
  <1>3. CASE ~(now.minute < LastMinute)
    <2>1. now' = [day |-> now.day + 1, minute |-> 0] /\ now'.day <= LastDay
      BY <1>3 DEF Tick
    <2> QED BY <1>1, <2>1, TokenQuotaAssumption DEF Stamp, Day, Minute
  <1> QED BY <1>2, <1>3

(* The operator's commands keep the table in its type.                     *)
LEMMA AdminType ==
    ASSUME TypeOK, NEW c \in Token, Administer(c)
    PROVE  TypeOK'
  <1> USE DEF TypeOK
  <1>1. CASE Revoke(c)
    <2>1. tokens' \in [Token -> [active : BOOLEAN, perMinute : LimitValue,
                                 perDay : LimitValue]]
      BY <1>1 DEF Revoke
    <2> QED BY <1>1, <2>1 DEF Revoke, usage, calls, cron
  <1>2. ASSUME NEW m \in LimitValue, NEW d \in LimitValue, SetLimits(c, m, d)
        PROVE  TypeOK'
    <2>1. tokens' \in [Token -> [active : BOOLEAN, perMinute : LimitValue,
                                 perDay : LimitValue]]
      BY <1>2 DEF SetLimits
    <2> QED BY <1>2, <2>1 DEF SetLimits, usage, calls, cron
  <1> QED BY <1>1, <1>2, Administer(c) DEF Administer

(* So does each step of the daily check.                                   *)
LEMMA CheckType ==
    ASSUME TypeOK, CheckOK, CheckReads \/ CheckMails \/ CheckDeletes
    PROVE  TypeOK'
  <1> USE TokenQuotaAssumption DEF TypeOK
  <1>0. now.day \in Day /\ lastCheck \in Day /\ Day \subseteq Nat
    BY DEF Stamp, Day
  <1>1. CASE CheckReads
    <2>1. lastCheck' \in Day /\ now.day > lastCheck
      BY <1>0, <1>1 DEF CheckReads
    <2>2. ReportDay(now.day) \in Day
      BY <1>0, <2>1 DEF ReportDay, Day
    <2>3. check' \in [phase : {"idle", "mail", "delete"}, day : Day \cup {-1},
                      notable : SUBSET Token]
      BY <1>1, <2>2 DEF CheckReads
    <2> QED BY <1>1, <2>1, <2>3 DEF CheckReads, usage, calls
  <1>2. CASE CheckMails
    <2>1. /\ check.day = lastCheck - 1 /\ check.day >= 0
          /\ check.notable \subseteq Token
      BY <1>2 DEF CheckMails, CheckOK
    <2>2. check.day \in Day
      BY <1>0, <2>1 DEF Day
    <2>3. told' \subseteq Token \X Day /\ reported' \subseteq Day
      BY <1>2, <2>1, <2>2 DEF CheckMails
    <2>4. check' \in [phase : {"idle", "mail", "delete"}, day : Day \cup {-1},
                      notable : SUBSET Token]
      BY <1>2 DEF CheckMails
    <2> QED BY <1>2, <2>3, <2>4 DEF CheckMails, usage, calls
  <1>3. CASE CheckDeletes
    <2>1. /\ minuteCount' \in [Key -> [Stamp -> Nat]]
          /\ dayCount' \in [Key -> [Day -> Nat]]
          /\ rejected' \in [Key -> [Day -> Nat]]
      <3>1. CASE UNCHANGED usage
        BY <3>1 DEF usage
      <3>2. CASE ~UNCHANGED usage
        <4>1. /\ minuteCount' = [c \in Key |-> [t \in Stamp |->
                    IF t.day < lastCheck THEN 0 ELSE minuteCount[c][t]]]
              /\ dayCount' = [c \in Key |-> [d \in Day |->
                    IF d < lastCheck - RetentionDays THEN 0 ELSE dayCount[c][d]]]
              /\ rejected' = [c \in Key |-> [d \in Day |->
                    IF d < lastCheck - RetentionDays THEN 0 ELSE rejected[c][d]]]
          BY <1>3, <3>2 DEF CheckDeletes
        <4> QED BY <4>1
      <3> QED BY <3>1, <3>2
    <2>2. check' \in [phase : {"idle", "mail", "delete"}, day : Day \cup {-1},
                      notable : SUBSET Token]
      BY <1>3 DEF CheckDeletes
    <2> QED BY <1>3, <2>1, <2>2 DEF CheckDeletes, calls
  <1> QED BY <1>1, <1>2, <1>3

(* Every step keeps each variable in its type.                             *)
LEMMA TypeStep == TypeOK /\ CheckOK /\ [Next]_vars => TypeOK'
  <1> SUFFICES ASSUME TypeOK, CheckOK, [Next]_vars PROVE TypeOK'
    OBVIOUS
  <1>1. CASE Tick
    BY <1>1, TickType DEF Tick, TypeOK, usage, calls, cron
  <1>2. CASE UNCHANGED vars
    BY <1>2 DEF TypeOK, vars, usage, calls, cron
  <1> QED BY <1>1, <1>2, CountType, AdminType, CheckType DEF Next

(* A call's step leaves every other call alone, and no counter falls.      *)
LEMMA CountFrame ==
    ASSUME TypeOK, NEW k \in Call, Count(k)
    PROVE  /\ UNCHANGED <<now, lastCheck, check, told, reported>>
           /\ \A j \in Call \ {k} :
                  /\ pc'[j] = pc[j] /\ caller'[j] = caller[j]
                  /\ limits'[j] = limits[j] /\ stamp'[j] = stamp[j]
                  /\ minuteSlot'[j] = minuteSlot[j] /\ daySlot'[j] = daySlot[j]
           /\ \A c \in Key : \A t \in Stamp : minuteCount'[c][t] >= minuteCount[c][t]
           /\ \A c \in Key : \A d \in Day : /\ dayCount'[c][d] >= dayCount[c][d]
                                            /\ rejected'[c][d] >= rejected[c][d]
  <1> USE DEF TypeOK
  <1>0. /\ \A c \in Key : \A t \in Stamp : minuteCount[c][t] \in Nat
        /\ \A c \in Key : \A d \in Day : dayCount[c][d] \in Nat /\ rejected[c][d] \in Nat
    OBVIOUS
  <1>1. ASSUME NEW c \in Key, Authenticate(k, c)
        PROVE  /\ UNCHANGED <<minuteCount, dayCount, rejected>>
               /\ UNCHANGED <<now, stamp, minuteSlot, daySlot, cron>>
               /\ \A j \in Call \ {k} : /\ pc'[j] = pc[j] /\ caller'[j] = caller[j]
                                        /\ limits'[j] = limits[j]
    BY <1>1 DEF Authenticate, Goto, usage
  <1>2. CASE CheckQuota(k)
    BY <1>0, <1>2 DEF CheckQuota, Goto, usage, cron
  <1>3. CASE TakeMinute(k)
    BY <1>0, <1>3 DEF TakeMinute, Goto, Unavailable, cron
  <1>4. CASE MinuteIsFull(k) \/ DayIsFull(k) \/ StatementFails(k)
    BY <1>0, <1>4 DEF MinuteIsFull, DayIsFull, StatementFails, Goto, Unavailable,
       usage, cron
  <1>5. CASE TakeDay(k)
    BY <1>0, <1>5 DEF TakeDay, Goto, Unavailable, cron
  <1>6. CASE Reject(k)
    BY <1>0, <1>6 DEF Reject, Goto, Unavailable, cron
  <1>7. ASSUME NEW c \in Key, Authenticate(k, c)
        PROVE  /\ UNCHANGED <<now, lastCheck, check, told, reported>>
               /\ \A j \in Call \ {k} :
                      /\ pc'[j] = pc[j] /\ caller'[j] = caller[j]
                      /\ limits'[j] = limits[j] /\ stamp'[j] = stamp[j]
                      /\ minuteSlot'[j] = minuteSlot[j]
                      /\ daySlot'[j] = daySlot[j]
               /\ \A e \in Key : \A t \in Stamp :
                      minuteCount'[e][t] >= minuteCount[e][t]
               /\ \A e \in Key : \A d \in Day :
                      /\ dayCount'[e][d] >= dayCount[e][d]
                      /\ rejected'[e][d] >= rejected[e][d]
    BY <1>0, <1>1, <1>7 DEF cron
  <1> QED BY <1>2, <1>3, <1>4, <1>5, <1>6, <1>7, Count(k) DEF Count

(* CallOK, over the steps of the calls.                                    *)
LEMMA CallStep ==
    ASSUME TypeOK, TypeOK', CheckOK, \A j \in Call : CallOK(j),
           NEW k \in Call, Count(k), NEW j \in Call
    PROVE  CallOK(j)'
  <1> USE DEF TypeOK
  <1>0. /\ now.day \in Nat /\ lastCheck \in Nat /\ lastCheck <= now.day
        /\ CallOK(j) /\ lastCheck' = lastCheck
        /\ stamp[j] \in Stamp /\ stamp[j].day \in Nat /\ stamp[j].day \in Day
    <2>0. now \in Stamp /\ stamp[j] \in Stamp
      OBVIOUS
    <2>1. Day \subseteq Nat /\ now.day \in Day /\ stamp[j].day \in Day
      BY <2>0 DEF Stamp, Day
    <2> QED BY <2>1, CountFrame DEF CheckOK
  <1>1. CASE j # k
    <2>1. /\ pc'[j] = pc[j] /\ caller'[j] = caller[j] /\ stamp'[j] = stamp[j]
          /\ minuteSlot'[j] = minuteSlot[j] /\ daySlot'[j] = daySlot[j]
      BY <1>1, CountFrame
    <2>2. /\ minuteCount'[caller[j]][stamp[j]] >= minuteCount[caller[j]][stamp[j]]
          /\ dayCount'[caller[j]][stamp[j].day] >= dayCount[caller[j]][stamp[j].day]
          /\ rejected'[caller[j]][stamp[j].day] >= rejected[caller[j]][stamp[j].day]
      <3>1. caller[j] \in Key
        OBVIOUS
      <3> QED BY <1>0, <3>1, CountFrame
    <2>3. /\ minuteCount[caller[j]][stamp[j]] \in Nat
          /\ minuteCount'[caller[j]][stamp[j]] \in Nat
          /\ dayCount[caller[j]][stamp[j].day] \in Nat
          /\ dayCount'[caller[j]][stamp[j].day] \in Nat
          /\ rejected[caller[j]][stamp[j].day] \in Nat
          /\ rejected'[caller[j]][stamp[j].day] \in Nat
          /\ minuteSlot[j] \in Nat /\ daySlot[j] \in Nat
      BY <1>0
    <2> QED BY <1>0, <2>1, <2>2, <2>3 DEF CallOK
  <1>2. CASE j = k
    <2> USE <1>2
    <2>1. ASSUME NEW c \in Key, Authenticate(k, c) PROVE CallOK(j)'
      <3>1. /\ minuteSlot'[j] = 0 /\ daySlot'[j] = 0 /\ pc'[j] \notin Counting
            /\ pc'[j] # "refused" /\ pc'[j] # "day"
        BY <1>0, <2>1 DEF Authenticate, Goto, CallOK, Counting
      <3>2. /\ minuteCount'[caller'[j]][stamp'[j]] \in Nat
            /\ dayCount'[caller'[j]][stamp'[j].day] \in Nat
        <4>1. stamp'[j] \in Stamp /\ caller'[j] \in Key
          OBVIOUS
        <4>2. stamp'[j].day \in Day
          BY <4>1 DEF Stamp
        <4> QED BY <4>1, <4>2
      <3> QED BY <3>1, <3>2 DEF CallOK
    <2>2. CASE CheckQuota(k)
      <3>1. /\ minuteSlot'[j] = 0 /\ daySlot'[j] = 0 /\ stamp'[j].day = now.day
            /\ pc'[j] # "refused" /\ pc'[j] # "day"
        BY <1>0, <2>2 DEF CheckQuota, Goto, CallOK
      <3>2. /\ minuteCount'[caller'[j]][stamp'[j]] \in Nat
            /\ dayCount'[caller'[j]][stamp'[j].day] \in Nat
        <4>1. stamp'[j] \in Stamp /\ caller'[j] \in Key
          OBVIOUS
        <4>2. stamp'[j].day \in Day
          BY <4>1 DEF Stamp
        <4> QED BY <4>1, <4>2
      <3> QED BY <1>0, <3>1, <3>2 DEF CallOK
    <2>3. CASE TakeMinute(k)
      <3>1. /\ minuteCount'[caller[j]][stamp[j]] = minuteSlot'[j]
            /\ minuteSlot'[j] > 0 /\ daySlot'[j] = daySlot[j] /\ daySlot[j] = 0
            /\ pc'[j] \in {"reject", "day", "unavailable"}
        BY <1>0, <2>3 DEF TakeMinute, Goto, Unavailable, CallOK
      <3>2. /\ UNCHANGED <<caller, stamp, dayCount>>
            /\ pc[j] \in Counting
        BY <2>3 DEF TakeMinute, Counting
      <3>3. dayCount[caller[j]][stamp[j].day] \in Nat
        BY <1>0
      <3> QED BY <1>0, <3>1, <3>2, <3>3 DEF CallOK
    <2>4. CASE MinuteIsFull(k) \/ DayIsFull(k) \/ StatementFails(k)
      <3>1. /\ UNCHANGED <<caller, stamp, minuteSlot, daySlot, minuteCount,
                           dayCount, rejected>>
            /\ pc[j] \in Counting /\ pc'[j] \in {"reject", "unavailable"}
        BY <2>4 DEF MinuteIsFull, DayIsFull, StatementFails, Goto, Unavailable,
           Counting, usage
      <3> QED BY <1>0, <3>1 DEF CallOK
    <2>5. CASE TakeDay(k)
      <3>1. /\ dayCount'[caller[j]][stamp[j].day] = daySlot'[j]
            /\ pc'[j] \in {"allowed", "unavailable"}
        BY <1>0, <2>5 DEF TakeDay, Goto, Unavailable
      <3>2. /\ UNCHANGED <<caller, stamp, minuteCount, minuteSlot>>
            /\ daySlot'[j] \in Nat
        BY <2>5 DEF TakeDay
      <3> QED BY <1>0, <3>1, <3>2 DEF CallOK, Counting
    <2>6. CASE Reject(k)
      <3>1. /\ rejected'[caller[j]][stamp[j].day] > 0
            /\ pc'[j] \in {"refused", "unavailable"}
        BY <1>0, <2>6 DEF Reject, Goto, Unavailable
      <3>2. UNCHANGED <<caller, stamp, minuteCount, dayCount, minuteSlot, daySlot>>
        BY <2>6 DEF Reject
      <3> QED BY <1>0, <3>1, <3>2 DEF CallOK, Counting
    <2> QED BY <2>1, <2>2, <2>3, <2>4, <2>5, <2>6, Count(k) DEF Count
  <1> QED BY <1>1, <1>2

(* A slot a call takes is above every slot its bucket gave before.         *)
LEMMA MinuteStep ==
    ASSUME TypeOK, TypeOK', \A j \in Call : CallOK(j), MinuteQuota,
           NEW k \in Call, Count(k)
    PROVE  MinuteQuota'
  <1> USE DEF TypeOK
  <1>0. ASSUME NEW i \in Call
        PROVE  /\ stamp[i] \in Stamp /\ stamp[i].day \in Nat /\ lastCheck \in Nat
               /\ minuteSlot[i] \in Nat /\ minuteSlot'[i] \in Nat
               /\ limits[i].perMinute \in Nat /\ limits'[i].perMinute \in Nat
               /\ minuteCount[caller[i]][stamp[i]] \in Nat
    <2>1. /\ stamp[i] \in Stamp /\ limits[i] \in LimitPair
          /\ limits'[i] \in LimitPair /\ caller[i] \in Key
      OBVIOUS
    <2>2. Day \subseteq Nat /\ lastCheck \in Day
      BY DEF Day
    <2>3. stamp[i].day \in Day
      BY <2>1 DEF Stamp
    <2>4. limits[i].perMinute \in Nat /\ limits'[i].perMinute \in Nat
      BY <2>1 DEF LimitPair
    <2>5. minuteCount[caller[i]][stamp[i]] \in Nat
      BY <2>1
    <2>6. minuteSlot[i] \in Nat /\ minuteSlot'[i] \in Nat
      OBVIOUS
    <2> QED BY <2>1, <2>2, <2>3, <2>4, <2>5, <2>6
  <1>1. CASE TakeMinute(k)
    <2>1. /\ UNCHANGED <<caller, stamp, limits, lastCheck>>
          /\ \A j \in Call \ {k} : minuteSlot'[j] = minuteSlot[j] /\ pc'[j] = pc[j]
          /\ minuteSlot'[k] = minuteCount[caller[k]][stamp[k]] + 1
          /\ minuteSlot'[k] <= limits[k].perMinute
          /\ pc[k] = "minute" /\ pc'[k] # "allowed"
      BY <1>0, <1>1 DEF TakeMinute, Goto, Unavailable, cron
    <2>2. ASSUME NEW j \in Call \ {k}, SameMinute(j, k), minuteSlot[j] > 0
          PROVE  minuteSlot[j] < minuteSlot'[k]
      <3>1. stamp[j].day >= lastCheck
        BY <2>1, <2>2 DEF SameMinute, CallOK, Counting
      <3>2. minuteSlot[j] <= minuteCount[caller[k]][stamp[k]]
        BY <2>2, <3>1 DEF SameMinute, CallOK
      <3> QED BY <1>0, <2>1, <3>2
    <2>3. ASSUME NEW i \in Call
          PROVE  /\ pc'[i] = "allowed" => minuteSlot'[i] > 0
                 /\ minuteSlot'[i] <= limits'[i].perMinute
                 /\ \A j \in Call \ {i} :
                        SameMinute(j, i)' /\ minuteSlot'[i] > 0
                            => minuteSlot'[j] # minuteSlot'[i]
      <3>1. CASE i = k
        BY <1>0, <2>1, <2>2, <3>1 DEF SameMinute
      <3>2. CASE i # k
        BY <1>0, <2>1, <2>2, <3>2 DEF SameMinute, MinuteQuota
      <3> QED BY <3>1, <3>2
    <2> QED BY <2>3 DEF MinuteQuota
  <1>2. ASSUME ~TakeMinute(k)
        PROVE  /\ minuteSlot' = minuteSlot
               /\ minuteSlot[k] = 0 \/ UNCHANGED <<caller, stamp, limits>>
               /\ minuteSlot[k] = 0 => pc'[k] # "allowed" \/ pc[k] = "allowed"
    <2>1. CallOK(k)
      OBVIOUS
    <2>2. ASSUME NEW c \in Key, Authenticate(k, c)
          PROVE  minuteSlot' = minuteSlot /\ minuteSlot[k] = 0 /\ pc'[k] # "allowed"
      BY <2>1, <2>2 DEF Authenticate, Goto, CallOK
    <2>3. CASE CheckQuota(k)
      BY <2>1, <2>3 DEF CheckQuota, Goto, CallOK
    <2>4. CASE \/ MinuteIsFull(k) \/ TakeDay(k) \/ DayIsFull(k) \/ Reject(k)
               \/ StatementFails(k)
      <3>1. minuteSlot' = minuteSlot /\ UNCHANGED <<caller, stamp, limits>>
        BY <2>4 DEF MinuteIsFull, TakeDay, DayIsFull, Reject, StatementFails
      <3>2. minuteSlot[k] = 0 => pc'[k] # "allowed"
        BY <1>0, <2>1, <2>4 DEF MinuteIsFull, TakeDay, DayIsFull, Reject,
           StatementFails, Goto, Unavailable, CallOK
      <3> QED BY <3>1, <3>2
    <2> QED BY <1>2, <2>2, <2>3, <2>4, Count(k) DEF Count
  <1>3. CASE ~TakeMinute(k)
    <2>1. ASSUME NEW i \in Call
          PROVE  /\ pc'[i] = "allowed" => minuteSlot'[i] > 0
                 /\ minuteSlot'[i] <= limits'[i].perMinute
                 /\ \A j \in Call \ {i} :
                        SameMinute(j, i)' /\ minuteSlot'[i] > 0
                            => minuteSlot'[j] # minuteSlot'[i]
      <3>1. /\ pc'[i] = "allowed" => minuteSlot[i] > 0
            /\ minuteSlot[i] <= limits'[i].perMinute
        <4>1. /\ pc[i] = "allowed" => minuteSlot[i] > 0
              /\ minuteSlot[i] <= limits[i].perMinute
          BY DEF MinuteQuota
        <4>2. CASE i = k
          <5>1. CASE minuteSlot[k] = 0
            BY <1>0, <1>2, <1>3, <4>1, <4>2, <5>1
          <5>2. CASE minuteSlot[k] # 0
            BY <1>0, <1>2, <1>3, <4>1, <4>2, <5>2
          <5> QED BY <5>1, <5>2
        <4>3. CASE i # k
          BY <4>1, <4>3, CountFrame
        <4> QED BY <4>2, <4>3
      <3>2. ASSUME NEW j \in Call \ {i}, SameMinute(j, i)', minuteSlot[i] > 0
            PROVE  minuteSlot[j] # minuteSlot[i]
        <4>1. CASE minuteSlot[k] = 0 /\ (i = k \/ j = k)
          BY <1>0, <3>2, <4>1
        <4>2. CASE ~(minuteSlot[k] = 0 /\ (i = k \/ j = k))
          BY <1>2, <1>3, <3>2, <4>2, CountFrame DEF SameMinute, MinuteQuota
        <4> QED BY <4>1, <4>2
      <3> QED BY <1>2, <1>3, <3>1, <3>2
    <2> QED BY <2>1 DEF MinuteQuota
  <1> QED BY <1>1, <1>3

(* The same, of the days.                                                  *)
LEMMA DayStep ==
    ASSUME TypeOK, TypeOK', \A j \in Call : CallOK(j), DayQuota,
           NEW k \in Call, Count(k)
    PROVE  DayQuota'
  <1> USE DEF TypeOK
  <1>0. ASSUME NEW i \in Call
        PROVE  /\ stamp[i] \in Stamp /\ stamp[i].day \in Nat /\ lastCheck \in Nat
               /\ daySlot[i] \in Nat /\ daySlot'[i] \in Nat
               /\ limits[i].perDay \in Nat /\ limits'[i].perDay \in Nat
               /\ dayCount[caller[i]][stamp[i].day] \in Nat
    <2>1. /\ stamp[i] \in Stamp /\ limits[i] \in LimitPair
          /\ limits'[i] \in LimitPair /\ caller[i] \in Key
      OBVIOUS
    <2>2. Day \subseteq Nat /\ lastCheck \in Day
      BY DEF Day
    <2>3. stamp[i].day \in Day
      BY <2>1 DEF Stamp
    <2>4. limits[i].perDay \in Nat /\ limits'[i].perDay \in Nat
      BY <2>1 DEF LimitPair
    <2>5. dayCount[caller[i]][stamp[i].day] \in Nat
      BY <2>1, <2>3
    <2>6. daySlot[i] \in Nat /\ daySlot'[i] \in Nat
      OBVIOUS
    <2> QED BY <2>1, <2>2, <2>3, <2>4, <2>5, <2>6
  <1>1. CASE TakeDay(k)
    <2>1. /\ UNCHANGED <<caller, stamp, limits, lastCheck>>
          /\ \A j \in Call \ {k} : daySlot'[j] = daySlot[j] /\ pc'[j] = pc[j]
          /\ daySlot'[k] = dayCount[caller[k]][stamp[k].day] + 1
          /\ daySlot'[k] <= limits[k].perDay
          /\ pc[k] = "day"
      BY <1>0, <1>1 DEF TakeDay, Goto, Unavailable, cron
    <2>2. ASSUME NEW j \in Call \ {k}, SameDay(j, k), daySlot[j] > 0
          PROVE  daySlot[j] < daySlot'[k]
      <3>1. stamp[j].day >= lastCheck
        BY <2>1, <2>2 DEF SameDay, CallOK, Counting
      <3>2. daySlot[j] <= dayCount[caller[k]][stamp[k].day]
        BY <2>2, <3>1 DEF SameDay, CallOK
      <3> QED BY <1>0, <2>1, <3>2
    <2>3. ASSUME NEW i \in Call
          PROVE  /\ pc'[i] = "allowed" => daySlot'[i] > 0
                 /\ daySlot'[i] <= limits'[i].perDay
                 /\ \A j \in Call \ {i} :
                        SameDay(j, i)' /\ daySlot'[i] > 0
                            => daySlot'[j] # daySlot'[i]
      <3>1. CASE i = k
        BY <1>0, <2>1, <2>2, <3>1 DEF SameDay
      <3>2. CASE i # k
        BY <1>0, <2>1, <2>2, <3>2 DEF SameDay, DayQuota
      <3> QED BY <3>1, <3>2
    <2> QED BY <2>3 DEF DayQuota
  <1>2. ASSUME ~TakeDay(k)
        PROVE  /\ daySlot' = daySlot
               /\ daySlot[k] = 0 \/ UNCHANGED <<caller, stamp, limits>>
               /\ daySlot[k] = 0 => pc'[k] # "allowed" \/ pc[k] = "allowed"
    <2>1. CallOK(k)
      OBVIOUS
    <2>2. ASSUME NEW c \in Key, Authenticate(k, c)
          PROVE  daySlot' = daySlot /\ daySlot[k] = 0 /\ pc'[k] # "allowed"
      BY <2>1, <2>2 DEF Authenticate, Goto, CallOK
    <2>3. CASE CheckQuota(k)
      BY <2>1, <2>3 DEF CheckQuota, Goto, CallOK
    <2>4. CASE \/ MinuteIsFull(k) \/ TakeMinute(k) \/ DayIsFull(k) \/ Reject(k)
               \/ StatementFails(k)
      <3>1. daySlot' = daySlot /\ UNCHANGED <<caller, stamp, limits>>
        BY <2>4 DEF MinuteIsFull, TakeMinute, DayIsFull, Reject, StatementFails
      <3>2. daySlot[k] = 0 => pc'[k] # "allowed"
        BY <1>0, <2>1, <2>4 DEF MinuteIsFull, TakeMinute, DayIsFull, Reject,
           StatementFails, Goto, Unavailable, CallOK
      <3> QED BY <3>1, <3>2
    <2> QED BY <1>2, <2>2, <2>3, <2>4, Count(k) DEF Count
  <1>3. CASE ~TakeDay(k)
    <2>1. ASSUME NEW i \in Call
          PROVE  /\ pc'[i] = "allowed" => daySlot'[i] > 0
                 /\ daySlot'[i] <= limits'[i].perDay
                 /\ \A j \in Call \ {i} :
                        SameDay(j, i)' /\ daySlot'[i] > 0
                            => daySlot'[j] # daySlot'[i]
      <3>1. /\ pc'[i] = "allowed" => daySlot[i] > 0
            /\ daySlot[i] <= limits'[i].perDay
        <4>1. /\ pc[i] = "allowed" => daySlot[i] > 0
              /\ daySlot[i] <= limits[i].perDay
          BY DEF DayQuota
        <4>2. CASE i = k
          <5>1. CASE daySlot[k] = 0
            BY <1>0, <1>2, <1>3, <4>1, <4>2, <5>1
          <5>2. CASE daySlot[k] # 0
            BY <1>0, <1>2, <1>3, <4>1, <4>2, <5>2
          <5> QED BY <5>1, <5>2
        <4>3. CASE i # k
          BY <4>1, <4>3, CountFrame
        <4> QED BY <4>2, <4>3
      <3>2. ASSUME NEW j \in Call \ {i}, SameDay(j, i)', daySlot[i] > 0
            PROVE  daySlot[j] # daySlot[i]
        <4>1. CASE daySlot[k] = 0 /\ (i = k \/ j = k)
          BY <1>0, <3>2, <4>1
        <4>2. CASE ~(daySlot[k] = 0 /\ (i = k \/ j = k))
          BY <1>2, <1>3, <3>2, <4>2, CountFrame DEF SameDay, DayQuota
        <4> QED BY <4>1, <4>2
      <3> QED BY <1>2, <1>3, <3>1, <3>2
    <2> QED BY <2>1 DEF DayQuota
  <1> QED BY <1>1, <1>3

(* A call refused after a day's check read its rows is not of that day.    *)
LEMMA ReportStep ==
    ASSUME TypeOK, CheckOK, \A j \in Call : CallOK(j), RefusalsReported,
           NEW k \in Call, Count(k)
    PROVE  CheckOK' /\ RefusalsReported'
  <1> USE DEF TypeOK
  <1>0. /\ stamp[k].day \in Nat /\ lastCheck \in Nat /\ check.day \in Int
        /\ \A d \in reported : d \in Nat
    <2>1. Day \subseteq Nat /\ stamp[k] \in Stamp
      BY DEF Day
    <2>2. stamp[k].day \in Day
      BY <2>1 DEF Stamp
    <2>3. check.day \in Day \cup {-1}
      OBVIOUS
    <2>4. lastCheck \in Day /\ \A d \in reported : d \in Day
      OBVIOUS
    <2>5. \A d \in Day : d \in Nat
      BY <2>1
    <2>6. check.day \in Int
      BY <2>3, <2>5
    <2> QED BY <2>2, <2>4, <2>5, <2>6
  <1>1. /\ UNCHANGED <<now, lastCheck, check, told, reported>>
        /\ \A j \in Call \ {k} : /\ pc'[j] = pc[j] /\ caller'[j] = caller[j]
                                 /\ stamp'[j] = stamp[j]
    BY CountFrame
  <1>2. ASSUME pc'[k] = "refused"
        PROVE  /\ pc[k] = "reject" /\ stamp[k].day >= lastCheck
               /\ caller'[k] = caller[k] /\ stamp'[k] = stamp[k]
    <2>1. Reject(k)
      BY <1>2, Count(k) DEF Count, Authenticate, CheckQuota, TakeMinute,
         MinuteIsFull, TakeDay, DayIsFull, StatementFails, Goto, Unavailable
    <2> QED BY <2>1 DEF Reject, CallOK, Counting
  <1>3. CheckOK'
    <2>1. ASSUME check.phase = "mail", NEW j \in Call, pc'[j] = "refused",
                 caller'[j] \in Token, stamp'[j].day = check.day
          PROVE  caller'[j] \in check.notable
      <3>1. CASE j = k
        BY <1>0, <1>2, <2>1, <3>1 DEF CheckOK
      <3>2. CASE j # k
        BY <1>1, <2>1, <3>2 DEF CheckOK
      <3> QED BY <3>1, <3>2
    <2> QED BY <1>1, <2>1 DEF CheckOK
  <1>4. ASSUME NEW j \in Call, pc'[j] = "refused", caller'[j] \in Token,
               stamp'[j].day \in reported
        PROVE  <<caller'[j], stamp'[j].day>> \in told
    <2>1. CASE j = k
      BY <1>0, <1>2, <1>4, <2>1 DEF CheckOK
    <2>2. CASE j # k
      BY <1>1, <1>4, <2>2 DEF RefusalsReported
    <2> QED BY <2>1, <2>2
  <1> QED BY <1>1, <1>3, <1>4 DEF RefusalsReported

(* The operator and the clock disturb nothing the invariant speaks of.     *)
LEMMA QuietStep ==
    ASSUME IInv, TypeOK', UNCHANGED <<usage, calls, cron>>, now'.day >= now.day
    PROVE  IInv'
  <1> USE DEF IInv, usage, calls, cron
  <1>0. now.day \in Int /\ now'.day \in Int /\ lastCheck \in Int
    BY DEF TypeOK, Stamp, Day
  <1>1. CheckOK'
    BY <1>0 DEF CheckOK
  <1>2. ASSUME NEW k \in Call PROVE CallOK(k)'
    BY DEF CallOK
  <1>3. MinuteQuota' /\ DayQuota' /\ RefusalsReported'
    BY DEF MinuteQuota, DayQuota, RefusalsReported, SameMinute, SameDay
  <1> QED BY <1>1, <1>2, <1>3

(* The daily check reads the rows of a day no call will be refused on any  *)
(* more, and deletes rows of no call still counting.                       *)
LEMMA CronStep ==
    ASSUME IInv, TypeOK', CheckReads \/ CheckMails \/ CheckDeletes
    PROVE  IInv'
  <1> USE TokenQuotaAssumption DEF IInv
  <1>0. /\ lastCheck \in Nat /\ now.day \in Nat /\ lastCheck' \in Nat
        /\ \A k \in Call : /\ stamp[k].day \in Nat /\ stamp[k].day \in Day
                           /\ stamp[k] \in Stamp /\ caller[k] \in Key
        /\ \A d \in reported : d \in Nat
    <2>1. Day \subseteq Nat
      BY DEF Day
    <2>2. \A t \in Stamp : t.day \in Day
      BY DEF Stamp
    <2> QED BY <2>1, <2>2 DEF TypeOK
  <1>1. MinuteQuota' /\ DayQuota'
    <2>1. UNCHANGED calls
      BY DEF CheckReads, CheckMails, CheckDeletes
    <2> QED BY <2>1 DEF calls, MinuteQuota, DayQuota, SameMinute, SameDay
  <1>2. CASE CheckReads
    <2>1. /\ lastCheck' = now.day /\ now.day > lastCheck
          /\ UNCHANGED <<now, usage, calls, told, reported>>
      BY <1>2 DEF CheckReads
    <2>2. ASSUME NEW k \in Call PROVE CallOK(k)'
      BY <1>0, <1>2, <2>1 DEF CheckReads, NoneLeftBehind, CallOK, usage, calls
    <2>3. CheckOK'
      <3>1. ASSUME check'.phase = "mail"
            PROVE  /\ check'.day = now.day - 1
                   /\ check'.notable = {c \in Token : Notable(c, now.day - 1)}
        BY <1>2, <3>1 DEF CheckReads, ReportDay
      <3>2. ASSUME check'.phase = "mail", NEW k \in Call, pc[k] = "refused",
                   caller[k] \in Token, stamp[k].day = now.day - 1
            PROVE  caller[k] \in check'.notable
        <4>1. rejected[caller[k]][stamp[k].day] > 0
          BY <1>0, <2>1, <3>2 DEF CallOK
        <4> QED BY <3>1, <3>2, <4>1 DEF Notable
      <3>3. \A d \in reported : d < now.day
        BY <1>0, <2>1 DEF CheckOK
      <3> QED BY <1>0, <2>1, <3>1, <3>2, <3>3 DEF CheckOK, calls
    <2>4. RefusalsReported'
      BY <2>1 DEF RefusalsReported, calls
    <2> QED BY <1>1, <2>2, <2>3, <2>4
  <1>3. CASE CheckMails
    <2>1. /\ check.day = lastCheck - 1 /\ check.phase = "mail"
          /\ UNCHANGED <<now, usage, calls, lastCheck>>
          /\ check'.phase = "delete"
      BY <1>3 DEF CheckMails, CheckOK, TypeOK
    <2>2. ASSUME NEW k \in Call PROVE CallOK(k)'
      BY <2>1 DEF CallOK, usage, calls
    <2>3. /\ reported \subseteq reported'
          /\ \A d \in reported' : d \in reported \/ d = lastCheck - 1
      BY <1>3 DEF CheckMails
    <2>4. CheckOK'
      BY <1>0, <2>1, <2>3 DEF CheckOK
    <2>5. ASSUME NEW k \in Call, pc[k] = "refused", caller[k] \in Token,
                 stamp[k].day \in reported'
          PROVE  <<caller[k], stamp[k].day>> \in told'
      <3>1. CASE stamp[k].day \in reported
        BY <1>3, <2>5, <3>1 DEF CheckMails, RefusalsReported
      <3>2. CASE stamp[k].day \notin reported
        <4>1. stamp[k].day = check.day /\ caller[k] \in check.notable
          BY <2>1, <2>3, <2>5, <3>2 DEF CheckOK
        <4>2. told' = told \cup {<<c, check.day>> : c \in check.notable}
          BY <1>3, <2>5, <3>2 DEF CheckMails
        <4> QED BY <4>1, <4>2
      <3> QED BY <3>1, <3>2
    <2>6. RefusalsReported'
      BY <2>1, <2>5 DEF RefusalsReported, calls
    <2> QED BY <1>1, <2>2, <2>4, <2>6
  <1>4. CASE CheckDeletes
    <2>1. /\ check'.phase = "idle"
          /\ UNCHANGED <<now, calls, lastCheck, told, reported>>
      BY <1>4 DEF CheckDeletes, TypeOK
    <2>2. ASSUME NEW k \in Call, stamp[k].day >= lastCheck
          PROVE  /\ minuteCount'[caller[k]][stamp[k]]
                        = minuteCount[caller[k]][stamp[k]]
                 /\ dayCount'[caller[k]][stamp[k].day]
                        = dayCount[caller[k]][stamp[k].day]
                 /\ rejected'[caller[k]][stamp[k].day]
                        = rejected[caller[k]][stamp[k].day]
      BY <1>0, <1>4, <2>2 DEF CheckDeletes, usage
    <2>3. ASSUME NEW k \in Call PROVE CallOK(k)'
      BY <2>1, <2>2 DEF CallOK, calls
    <2>4. CheckOK' /\ RefusalsReported'
      BY <2>1 DEF CheckOK, RefusalsReported, calls
    <2> QED BY <1>1, <2>3, <2>4
  <1> QED BY <1>2, <1>3, <1>4

(* The invariant the theorems follow from.                                 *)
LEMMA Inductive == Spec => []IInv
  <1>1. IInv /\ [Next]_vars => IInv'
    <2> SUFFICES ASSUME IInv, [Next]_vars PROVE IInv'
      OBVIOUS
    <2>0. TypeOK'
      BY TypeStep DEF IInv
    <2>1. ASSUME NEW k \in Call, Count(k) PROVE IInv'
      <3>1. \A j \in Call : CallOK(j)'
        BY <2>0, <2>1, CallStep DEF IInv
      <3> QED BY <2>0, <2>1, <3>1, MinuteStep, DayStep, ReportStep DEF IInv
    <2>2. ASSUME NEW c \in Token, Administer(c) PROVE IInv'
      <3>1. UNCHANGED <<usage, calls, cron>> /\ now' = now
        BY <2>2 DEF Administer, Revoke, SetLimits
      <3>2. now'.day >= now.day
        BY <3>1 DEF IInv, TypeOK, Stamp, Day
      <3> QED BY <2>0, <3>1, <3>2, QuietStep
    <2>3. CASE Tick
      BY <2>0, <2>3, TickType, QuietStep DEF Tick, IInv
    <2>4. CASE CheckReads \/ CheckMails \/ CheckDeletes
      BY <2>0, <2>4, CronStep
    <2>5. CASE UNCHANGED vars
      <3>1. UNCHANGED <<usage, calls, cron>> /\ now' = now
        BY <2>5 DEF vars
      <3>2. now'.day >= now.day
        BY <3>1 DEF IInv, TypeOK, Stamp, Day
      <3> QED BY <2>0, <3>1, <3>2, QuietStep
    <2> QED BY <2>1, <2>2, <2>3, <2>4, <2>5 DEF Next
  <1> QED BY InitInv, <1>1, PTL DEF Spec

(* Every variable keeps its type.                                          *)
THEOREM TypeCorrect == Spec => []TypeOK
  <1>1. IInv => TypeOK
    BY DEF IInv
  <1> QED BY Inductive, <1>1, PTL

(* No minute lets more calls of a token through than the limit they read,  *)
(* however many calls run at once and whatever fails.                      *)
THEOREM MinuteLimitHolds == Spec => []MinuteQuota
  <1>1. IInv => MinuteQuota
    BY DEF IInv
  <1> QED BY Inductive, <1>1, PTL

(* No UTC day does either.                                                 *)
THEOREM DayLimitHolds == Spec => []DayQuota
  <1>1. IInv => DayQuota
    BY DEF IInv
  <1> QED BY Inductive, <1>1, PTL

(* A day's check that mails leaves no refused client token of that day     *)
(* unreported.                                                             *)
THEOREM RefusalsAreReported == Spec => []RefusalsReported
  <1>1. IInv => RefusalsReported
    BY DEF IInv
  <1> QED BY Inductive, <1>1, PTL

-----------------------------------------------------------------------------
(* The day's rows.  A call that has been answered does not change any      *)
(* more, so a row only gains the call that takes or is refused.            *)

Made(c, d, S) == {k \in Call : caller[k] = c /\ stamp[k].day = d /\ pc[k] \in S}

Counted(c, d) == {k \in Made(c, d, Answered) : daySlot[k] > 0}

Turned == {"refused", "unavailable"}

RowOK(c, d) ==
    /\ IsFiniteSet(Counted(c, d))
    /\ IsFiniteSet(Made(c, d, Turned))
    /\ dayCount[c][d] = Cardinality(Counted(c, d))
    /\ Cardinality(Made(c, d, {"refused"})) <= rejected[c][d]
    /\ rejected[c][d] <= Cardinality(Made(c, d, Turned))

CallTaken(k) ==
    /\ pc[k] = "reject" => daySlot[k] = 0
    /\ pc[k] \in Answered /\ daySlot[k] > 0 => minuteSlot[k] > 0

Kept == {e \in Day : e >= lastCheck - RetentionDays}

RowInv ==
    /\ \A k \in Call : CallTaken(k)
    /\ \A c \in Key : \A d \in Kept : RowOK(c, d)

LEMMA InitRows == Init => RowInv
  <1> SUFFICES ASSUME Init PROVE RowInv
    OBVIOUS
  <1>1. ASSUME NEW k \in Call PROVE CallTaken(k)
    BY DEF Init, CallTaken
  <1>2. ASSUME NEW c \in Key, NEW d \in Day PROVE RowOK(c, d)
    <2>1. /\ Counted(c, d) = {} /\ Made(c, d, Turned) = {}
          /\ Made(c, d, {"refused"}) = {}
      BY DEF Init, Counted, Made, Turned, Answered
    <2>2. dayCount[c][d] = 0 /\ rejected[c][d] = 0
      BY DEF Init
    <2> QED BY <2>1, <2>2, FS_EmptySet DEF RowOK
  <1> QED BY <1>1, <1>2 DEF RowInv, Kept

(* A step of a call leaves all other calls in their rows.                  *)
LEMMA OthersStay ==
    ASSUME TypeOK, TypeOK', NEW k \in Call, Count(k), pc[k] \notin Answered,
           NEW c \in Key, NEW d \in Day, NEW S \in SUBSET Answered
    PROVE  /\ k \notin Made(c, d, S)
           /\ Made(c, d, S)' = IF caller'[k] = c /\ stamp'[k].day = d /\ pc'[k] \in S
                               THEN Made(c, d, S) \cup {k} ELSE Made(c, d, S)
           /\ k \notin Counted(c, d)
           /\ Counted(c, d)' = IF /\ caller'[k] = c /\ stamp'[k].day = d
                                  /\ pc'[k] \in Answered /\ daySlot'[k] > 0
                               THEN Counted(c, d) \cup {k} ELSE Counted(c, d)
  <1>1. \A j \in Call \ {k} :
            /\ pc'[j] = pc[j] /\ caller'[j] = caller[j] /\ stamp'[j] = stamp[j]
            /\ daySlot'[j] = daySlot[j]
    BY CountFrame
  <1>2. k \notin Made(c, d, S) /\ k \notin Counted(c, d)
    BY DEF Made, Counted
  <1>3. ASSUME NEW j \in Call
        PROVE  j \in Made(c, d, S)' <=>
                   \/ j \in Made(c, d, S)
                   \/ j = k /\ caller'[k] = c /\ stamp'[k].day = d /\ pc'[k] \in S
    BY <1>1, <1>2 DEF Made
  <1>4. ASSUME NEW j \in Call
        PROVE  j \in Counted(c, d)' <=>
                   \/ j \in Counted(c, d)
                   \/ /\ j = k /\ caller'[k] = c /\ stamp'[k].day = d
                      /\ pc'[k] \in Answered /\ daySlot'[k] > 0
    BY <1>1, <1>2 DEF Made, Counted
  <1>5. /\ Made(c, d, S) \subseteq Call /\ Made(c, d, S)' \subseteq Call
        /\ Counted(c, d) \subseteq Call /\ Counted(c, d)' \subseteq Call
    BY DEF Made, Counted
  <1> QED BY <1>2, <1>3, <1>4, <1>5

(* So a set of answered calls grows by the call or not at all.             *)
LEMMA AtMostOneJoins ==
    ASSUME TypeOK, TypeOK', NEW k \in Call, Count(k), pc[k] \notin Answered,
           NEW c \in Key, NEW d \in Day, NEW S \in SUBSET Answered,
           IsFiniteSet(Made(c, d, S)), IsFiniteSet(Counted(c, d))
    PROVE  /\ IsFiniteSet(Made(c, d, S)') /\ IsFiniteSet(Counted(c, d)')
           /\ Cardinality(Made(c, d, S)) \in Nat
           /\ Cardinality(Counted(c, d)) \in Nat
           /\ Cardinality(Made(c, d, S)') = Cardinality(Made(c, d, S)) +
                  IF caller'[k] = c /\ stamp'[k].day = d /\ pc'[k] \in S THEN 1 ELSE 0
           /\ Cardinality(Counted(c, d)') = Cardinality(Counted(c, d)) +
                  IF /\ caller'[k] = c /\ stamp'[k].day = d
                     /\ pc'[k] \in Answered /\ daySlot'[k] > 0 THEN 1 ELSE 0
  <1>1. /\ Cardinality(Made(c, d, S)) \in Nat
        /\ Cardinality(Counted(c, d)) \in Nat
    BY FS_CardinalityType
  <1>2. /\ IsFiniteSet(Made(c, d, S) \cup {k})
        /\ IsFiniteSet(Counted(c, d) \cup {k})
        /\ Cardinality(Made(c, d, S) \cup {k}) =
               IF k \in Made(c, d, S) THEN Cardinality(Made(c, d, S))
               ELSE Cardinality(Made(c, d, S)) + 1
        /\ Cardinality(Counted(c, d) \cup {k}) =
               IF k \in Counted(c, d) THEN Cardinality(Counted(c, d))
               ELSE Cardinality(Counted(c, d)) + 1
    BY FS_AddElement
  <1>3. /\ k \notin Made(c, d, S)
        /\ Made(c, d, S)' = IF caller'[k] = c /\ stamp'[k].day = d /\ pc'[k] \in S
                            THEN Made(c, d, S) \cup {k} ELSE Made(c, d, S)
    BY OthersStay
  <1>4. /\ k \notin Counted(c, d)
        /\ Counted(c, d)' = IF /\ caller'[k] = c /\ stamp'[k].day = d
                               /\ pc'[k] \in Answered /\ daySlot'[k] > 0
                            THEN Counted(c, d) \cup {k} ELSE Counted(c, d)
    BY OthersStay
  <1>5. /\ IsFiniteSet(Made(c, d, S)')
        /\ Cardinality(Made(c, d, S)') = Cardinality(Made(c, d, S)) +
               IF caller'[k] = c /\ stamp'[k].day = d /\ pc'[k] \in S THEN 1 ELSE 0
    BY <1>1, <1>2, <1>3
  <1>6. /\ IsFiniteSet(Counted(c, d)')
        /\ Cardinality(Counted(c, d)') = Cardinality(Counted(c, d)) +
               IF /\ caller'[k] = c /\ stamp'[k].day = d
                  /\ pc'[k] \in Answered /\ daySlot'[k] > 0 THEN 1 ELSE 0
    BY <1>1, <1>2, <1>4
  <1> QED BY <1>1, <1>5, <1>6

(* What a step of a call does to its day's row.                            *)
LEMMA RowEffect ==
    ASSUME IInv, TypeOK', RowInv, NEW k \in Call, Count(k)
    PROVE  /\ pc[k] \notin Answered
           /\ CallTaken(k)'
           /\ \/ /\ UNCHANGED <<dayCount, rejected>> /\ daySlot'[k] = 0
                 /\ pc'[k] # "refused"
              \/ /\ dayCount' = [dayCount EXCEPT ![caller[k]][stamp[k].day] = @ + 1]
                 /\ daySlot'[k] > 0 /\ pc'[k] \in Answered \ {"refused"}
                 /\ UNCHANGED <<caller, stamp, rejected>>
              \/ /\ rejected' = [rejected EXCEPT ![caller[k]][stamp[k].day] = @ + 1]
                 /\ daySlot'[k] = 0 /\ pc'[k] \in Turned
                 /\ UNCHANGED <<caller, stamp, dayCount>>
  <1> USE DEF IInv, TypeOK
  <1>0. CallOK(k) /\ CallTaken(k) /\ daySlot[k] \in Nat /\ minuteSlot[k] \in Nat
    BY DEF RowInv
  <1>1. ASSUME NEW c \in Key, Authenticate(k, c)
        PROVE  /\ pc[k] = "idle" /\ daySlot'[k] = 0
               /\ pc'[k] \notin {"refused", "reject"}
               /\ UNCHANGED <<dayCount, rejected>>
    BY <1>0, <1>1 DEF Authenticate, Goto, CallOK, usage
  <1>2. ASSUME CheckQuota(k) \/ MinuteIsFull(k) \/ DayIsFull(k)
               \/ StatementFails(k) \/ TakeMinute(k)
        PROVE  /\ pc[k] \in Counting \cup {"authenticated"}
               /\ daySlot[k] = 0 /\ daySlot'[k] = 0
               /\ pc'[k] # "refused"
               /\ UNCHANGED <<dayCount, rejected>>
    BY <1>0, <1>2 DEF CheckQuota, MinuteIsFull, DayIsFull, StatementFails,
       TakeMinute, Goto, Unavailable, CallOK, CallTaken, Counting, usage
  <1>3. CASE TakeDay(k)
    <2>1. stamp[k] \in Stamp /\ caller[k] \in Key
      OBVIOUS
    <2>2. stamp[k].day \in Day
      BY <2>1 DEF Stamp
    <2>3. dayCount[caller[k]][stamp[k].day] \in Nat
      BY <2>1, <2>2
    <2>4. /\ dayCount' = [dayCount EXCEPT ![caller[k]][stamp[k].day] = @ + 1]
          /\ daySlot'[k] > 0 /\ minuteSlot'[k] > 0
          /\ UNCHANGED <<caller, stamp, rejected>>
      BY <1>0, <1>3, <2>3 DEF TakeDay, CallOK
    <2>5. pc[k] = "day" /\ pc'[k] \in Answered \ {"refused"}
      BY <1>3 DEF TakeDay, Goto, Unavailable, Answered
    <2> QED BY <2>4, <2>5 DEF CallTaken, Answered
  <1>4. CASE Reject(k)
    <2>1. pc[k] = "reject" /\ pc'[k] \in Turned
      BY <1>4 DEF Reject, Goto, Unavailable, Turned
    <2>2. daySlot[k] = 0 /\ daySlot' = daySlot
      BY <1>0, <1>4, <2>1 DEF Reject, CallTaken
    <2>3. /\ rejected' = [rejected EXCEPT ![caller[k]][stamp[k].day] = @ + 1]
          /\ UNCHANGED <<caller, stamp, dayCount>>
      BY <1>4 DEF Reject
    <2>4. CallTaken(k)'
      BY <2>2 DEF CallTaken
    <2> QED BY <2>1, <2>2, <2>3, <2>4 DEF Answered
  <1>5. CASE \E c \in Key : Authenticate(k, c)
    BY <1>1, <1>5 DEF Answered, CallTaken
  <1>6. CASE CheckQuota(k) \/ MinuteIsFull(k) \/ DayIsFull(k)
             \/ StatementFails(k) \/ TakeMinute(k)
    BY <1>2, <1>6 DEF Answered, Counting, CallTaken
  <1> QED BY <1>3, <1>4, <1>5, <1>6, Count(k) DEF Count

LEMMA CountRows ==
    ASSUME IInv, TypeOK', RowInv, NEW k \in Call, Count(k)
    PROVE  RowInv'
  <1> USE DEF IInv
  <1>1. ASSUME NEW j \in Call PROVE CallTaken(j)'
    <2>1. CASE j = k
      BY <2>1, RowEffect
    <2>2. CASE j # k
      BY <2>2, CountFrame DEF CallTaken, RowInv
    <2> QED BY <2>1, <2>2
  <1>2. Kept' = Kept
    BY CountFrame DEF Kept
  <1>3. ASSUME NEW c \in Key, NEW d \in Kept PROVE RowOK(c, d)'
    <2>1. RowOK(c, d) /\ d \in Day /\ pc[k] \notin Answered
      BY RowEffect DEF RowInv, Kept
    <2>2. Turned \subseteq Answered /\ {"refused"} \subseteq Answered
      BY DEF Turned, Answered
    <2>3. /\ IsFiniteSet(Made(c, d, Turned)) /\ IsFiniteSet(Counted(c, d))
          /\ IsFiniteSet(Made(c, d, {"refused"}))
      <3>1. Made(c, d, {"refused"}) \subseteq Made(c, d, Turned)
        BY DEF Made, Turned
      <3> QED BY <2>1, <3>1, FS_Subset DEF RowOK
    <2>4. /\ IsFiniteSet(Made(c, d, Turned)') /\ IsFiniteSet(Counted(c, d)')
          /\ Cardinality(Made(c, d, Turned)) \in Nat
          /\ Cardinality(Counted(c, d)) \in Nat
          /\ Cardinality(Made(c, d, Turned)') = Cardinality(Made(c, d, Turned)) +
                 IF caller'[k] = c /\ stamp'[k].day = d /\ pc'[k] \in Turned
                 THEN 1 ELSE 0
          /\ Cardinality(Counted(c, d)') = Cardinality(Counted(c, d)) +
                 IF /\ caller'[k] = c /\ stamp'[k].day = d
                    /\ pc'[k] \in Answered /\ daySlot'[k] > 0 THEN 1 ELSE 0
      BY <2>1, <2>2, <2>3, AtMostOneJoins
    <2>5. /\ Cardinality(Made(c, d, {"refused"})) \in Nat
          /\ Cardinality(Made(c, d, {"refused"})') =
                 Cardinality(Made(c, d, {"refused"})) +
                 IF caller'[k] = c /\ stamp'[k].day = d /\ pc'[k] = "refused"
                 THEN 1 ELSE 0
      BY <2>1, <2>2, <2>3, AtMostOneJoins
    <2>6. /\ caller[k] \in Key /\ stamp[k].day \in Day
          /\ dayCount \in [Key -> [Day -> Nat]] /\ rejected \in [Key -> [Day -> Nat]]
          /\ dayCount[c][d] \in Nat /\ rejected[c][d] \in Nat
      <3>1. stamp[k] \in Stamp
        BY DEF TypeOK
      <3> QED BY <2>1, <3>1 DEF TypeOK, Stamp
    <2>7. CASE /\ UNCHANGED <<dayCount, rejected>> /\ daySlot'[k] = 0
               /\ pc'[k] # "refused"
      BY <2>1, <2>4, <2>5, <2>6, <2>7 DEF RowOK
    <2>8. CASE /\ dayCount' = [dayCount EXCEPT ![caller[k]][stamp[k].day] = @ + 1]
               /\ daySlot'[k] > 0 /\ pc'[k] \in Answered \ {"refused"}
               /\ UNCHANGED <<caller, stamp, rejected>>
      BY <2>1, <2>4, <2>5, <2>6, <2>8 DEF RowOK
    <2>9. CASE /\ rejected' = [rejected EXCEPT ![caller[k]][stamp[k].day] = @ + 1]
               /\ daySlot'[k] = 0 /\ pc'[k] \in Turned
               /\ UNCHANGED <<caller, stamp, dayCount>>
      BY <2>1, <2>4, <2>5, <2>6, <2>9 DEF RowOK
    <2> QED BY <2>7, <2>8, <2>9, RowEffect
  <1> QED BY <1>1, <1>2, <1>3 DEF RowInv

(* No other step changes a row that is kept, or a call.                    *)
LEMMA QuietRows ==
    ASSUME IInv, RowInv, UNCHANGED calls, lastCheck' \in Nat,
           lastCheck' >= lastCheck,
           \A c \in Key : \A d \in Kept : /\ dayCount'[c][d] = dayCount[c][d]
                                         /\ rejected'[c][d] = rejected[c][d]
    PROVE  RowInv'
  <1>1. Kept' \subseteq Kept
    <2>1. lastCheck \in Nat /\ \A e \in Day : e \in Nat
      BY DEF IInv, TypeOK, Day
    <2> QED BY <2>1, TokenQuotaAssumption DEF Kept
  <1>2. \A k \in Call : CallTaken(k)'
    BY DEF RowInv, CallTaken, calls
  <1>3. ASSUME NEW c \in Key, NEW d \in Kept' PROVE RowOK(c, d)'
    <2>1. RowOK(c, d) /\ d \in Kept
      BY <1>1 DEF RowInv
    <2>2. /\ Counted(c, d)' = Counted(c, d)
          /\ Made(c, d, Turned)' = Made(c, d, Turned)
          /\ Made(c, d, {"refused"})' = Made(c, d, {"refused"})
      BY DEF Counted, Made, calls
    <2> QED BY <2>1, <2>2 DEF RowOK
  <1> QED BY <1>2, <1>3 DEF RowInv

LEMMA RowStep == IInv /\ IInv' /\ RowInv /\ [Next]_vars => RowInv'
  <1> SUFFICES ASSUME IInv, IInv', RowInv, [Next]_vars PROVE RowInv'
    OBVIOUS
  <1>0. /\ lastCheck \in Nat /\ lastCheck' \in Nat /\ now.day \in Nat
        /\ TypeOK'
    <2>1. now \in Stamp /\ lastCheck \in Day /\ lastCheck' \in Day
      BY DEF IInv, TypeOK
    <2> QED BY <2>1 DEF IInv, Stamp, Day
  <1>1. CASE \E k \in Call : Count(k)
    BY <1>0, <1>1, CountRows
  <1>2. CASE \/ \E c \in Token : Administer(c)
             \/ Tick \/ CheckReads \/ CheckMails \/ UNCHANGED vars
    <2>1. UNCHANGED <<usage, calls>>
      BY <1>2 DEF Administer, Revoke, SetLimits, Tick, CheckReads, CheckMails, vars
    <2>2. lastCheck' = lastCheck \/ CheckReads
      BY <1>2 DEF Administer, Revoke, SetLimits, Tick, CheckMails, vars, cron
    <2>3. lastCheck' >= lastCheck
      BY <1>0, <2>2 DEF CheckReads
    <2> QED BY <1>0, <2>1, <2>3, QuietRows DEF usage
  <1>3. CASE CheckDeletes
    <2>1. UNCHANGED calls /\ lastCheck' = lastCheck
      BY <1>3 DEF CheckDeletes
    <2>2. ASSUME NEW c \in Key, NEW d \in Kept
          PROVE  dayCount'[c][d] = dayCount[c][d] /\ rejected'[c][d] = rejected[c][d]
      BY <1>0, <1>3, TokenQuotaAssumption DEF CheckDeletes, usage, Kept, Day
    <2> QED BY <1>0, <2>1, <2>2, QuietRows
  <1> QED BY <1>1, <1>2, <1>3 DEF Next

(* The day's row counts each call that got through its minute and its day  *)
(* once, and records each refusal it answered with a 429, for any number   *)
(* of calls, whatever statements fail and whatever the daily check deletes.*)
THEOREM DayRowsAreTruthful == Spec => []DayRowTruthful
  <1>1. RowInv => DayRowTruthful
    <2> SUFFICES ASSUME RowInv, NEW c \in Key, NEW d \in Kept
                 PROVE  LET made(S) == {k \in Call : /\ caller[k] = c
                                                     /\ stamp[k].day = d
                                                     /\ pc[k] \in S}
                            counted == {k \in made(Answered) : daySlot[k] > 0}
                        IN  /\ dayCount[c][d] = Cardinality(counted)
                            /\ \A k \in counted : minuteSlot[k] > 0
                            /\ Cardinality(made({"refused"})) <= rejected[c][d]
                            /\ rejected[c][d] <=
                                   Cardinality(made({"refused", "unavailable"}))
      BY DEF DayRowTruthful, Kept
    <2>1. RowOK(c, d)
      BY DEF RowInv
    <2>2. \A k \in Counted(c, d) : minuteSlot[k] > 0
      BY DEF RowInv, CallTaken, Counted, Made
    <2> QED BY <2>1, <2>2 DEF RowOK, Counted, Made, Turned
  <1> QED BY <1>1, Inductive, InitRows, RowStep, PTL DEF Spec

-----------------------------------------------------------------------------
(* TokenQuota implements Slots twice: once for its minutes, once for its   *)
(* days.  A step of a call is an Ask when it reads its limits or is        *)
(* stamped, and a Take when its upsert takes effect; all else stutters.    *)

(* What a step does to the claims: nothing, or something to one call that  *)
(* holds no slot yet, or the slot of one call changes and nothing else.    *)
Claims == <<caller, limits, stamp, minuteSlot, daySlot>>

Asks(k) ==
    /\ minuteSlot[k] = 0 /\ daySlot[k] = 0
    /\ \A j \in Call \ {k} : /\ caller'[j] = caller[j]
                             /\ limits'[j] = limits[j] /\ stamp'[j] = stamp[j]
    /\ UNCHANGED <<minuteSlot, daySlot>>

TakesMinute(k) ==
    /\ minuteSlot[k] = 0
    /\ minuteSlot' = [minuteSlot EXCEPT ![k] = minuteSlot'[k]]
    /\ minuteSlot'[k] > 0
    /\ UNCHANGED <<caller, limits, stamp, daySlot>>

TakesDay(k) ==
    /\ daySlot[k] = 0
    /\ daySlot' = [daySlot EXCEPT ![k] = daySlot'[k]]
    /\ daySlot'[k] > 0
    /\ UNCHANGED <<caller, limits, stamp, minuteSlot>>

LEMMA ClaimStep ==
    ASSUME IInv, [Next]_vars
    PROVE  \/ UNCHANGED Claims
           \/ \E k \in Call : Asks(k) \/ TakesMinute(k) \/ TakesDay(k)
  <1> USE DEF IInv, TypeOK, Claims
  <1>1. ASSUME NEW k \in Call, Count(k)
        PROVE  \/ UNCHANGED Claims
               \/ Asks(k) \/ TakesMinute(k) \/ TakesDay(k)
    <2>0. CallOK(k)
      OBVIOUS
    <2>1. ASSUME NEW c \in Key, Authenticate(k, c) PROVE Asks(k)
      BY <2>0, <2>1 DEF Authenticate, Asks, CallOK
    <2>2. ASSUME CheckQuota(k) PROVE Asks(k)
      BY <2>0, <2>2 DEF CheckQuota, Asks, CallOK
    <2>3. ASSUME TakeMinute(k) PROVE TakesMinute(k)
      <3>1. minuteCount[caller[k]][stamp[k]] \in Nat
        OBVIOUS
      <3> QED BY <2>0, <2>3, <3>1 DEF TakeMinute, TakesMinute, CallOK
    <2>4. ASSUME TakeDay(k) PROVE TakesDay(k)
      <3>1. stamp[k].day \in Day
        BY DEF Stamp
      <3>2. dayCount[caller[k]][stamp[k].day] \in Nat
        BY <3>1
      <3> QED BY <2>0, <2>4, <3>2 DEF TakeDay, TakesDay, CallOK
    <2>5. ASSUME MinuteIsFull(k) \/ DayIsFull(k) \/ Reject(k) \/ StatementFails(k)
          PROVE  UNCHANGED Claims
      BY <2>5 DEF MinuteIsFull, DayIsFull, Reject, StatementFails
    <2> QED BY <1>1, <2>1, <2>2, <2>3, <2>4, <2>5 DEF Count
  <1>2. ASSUME NEW c \in Token, Administer(c) PROVE UNCHANGED Claims
    BY <1>2 DEF Administer, Revoke, SetLimits, calls
  <1>3. ASSUME Tick \/ CheckReads \/ CheckMails \/ CheckDeletes PROVE UNCHANGED Claims
    BY <1>3 DEF Tick, CheckReads, CheckMails, CheckDeletes, calls
  <1>4. ASSUME UNCHANGED vars PROVE UNCHANGED Claims
    BY <1>4 DEF vars, calls
  <1> QED BY <1>1, <1>2, <1>3, <1>4 DEF Next

(* The initial state is one of both quotas.                                *)
LEMMA InitialSlots == Init => MinuteSlots!Init /\ DaySlots!Init
  <1> SUFFICES ASSUME Init PROVE MinuteSlots!Init /\ DaySlots!Init
    OBVIOUS
  <1>1. TypeOK
    BY InitInv DEF IInv
  <1>2. /\ [k \in Call |-> limits[k].perMinute] \in [Call -> Nat]
        /\ [k \in Call |-> limits[k].perDay] \in [Call -> Nat]
        /\ [k \in Call |-> <<caller[k], stamp[k]>>] \in [Call -> Key \X Stamp]
        /\ [k \in Call |-> <<caller[k], stamp[k].day>>] \in [Call -> Key \X Day]
    BY <1>1 DEF TypeOK, LimitPair, Stamp
  <1> QED BY <1>2 DEF Init, MinuteSlots!Init, DaySlots!Init

(* A step of the quotas is one of the minutes' and one of the days'.       *)
LEMMA MinuteSlotStep ==
    ASSUME IInv, IInv', [Next]_vars
    PROVE  [MinuteSlots!Next]_<<[k \in Call |-> limits[k].perMinute],
               [k \in Call |-> <<caller[k], stamp[k]>>], minuteSlot>>
  <1> DEFINE limit == [k \in Call |-> limits[k].perMinute]
             bucket == [k \in Call |-> <<caller[k], stamp[k]>>]
  <1>1. /\ limit' \in [Call -> Nat]
        /\ bucket' \in [Call -> Key \X Stamp]
    BY DEF IInv, TypeOK, LimitPair
  <1>2. ASSUME UNCHANGED Claims PROVE UNCHANGED <<limit, bucket, minuteSlot>>
    BY <1>2 DEF Claims
  <1>3. ASSUME NEW k \in Call, Asks(k) PROVE MinuteSlots!Ask(k)
    <2>1. \A j \in Call \ {k} : limit'[j] = limit[j] /\ bucket'[j] = bucket[j]
      BY <1>3 DEF Asks
    <2> HIDE DEF limit, bucket
    <2> QED BY <1>1, <1>3, <2>1 DEF Asks, MinuteSlots!Ask, limit, bucket
  <1>4. ASSUME NEW k \in Call, TakesMinute(k) PROVE MinuteSlots!Take(k)
    <2>1. UNCHANGED <<limit, bucket>>
      BY <1>4 DEF TakesMinute
    <2>2. minuteSlot'[k] \in Nat /\ minuteSlot'[k] > 0
      BY <1>4 DEF TakesMinute, IInv, TypeOK
    <2>3. minuteSlot'[k] <= limits[k].perMinute /\ limits[k].perMinute \in Nat
      BY <1>4 DEF TakesMinute, IInv, MinuteQuota, TypeOK, LimitPair
    <2>4. ASSUME NEW j \in Call \ {k}, bucket[j] = bucket[k]
          PROVE  minuteSlot[j] # minuteSlot'[k]
      <3>1. SameMinute(j, k)'
        BY <1>4, <2>4 DEF TakesMinute, SameMinute
      <3>2. minuteSlot'[j] = minuteSlot[j]
        BY <1>4 DEF TakesMinute, IInv, TypeOK
      <3> QED BY <2>2, <3>1, <3>2 DEF IInv, MinuteQuota
    <2> QED BY <1>4, <2>1, <2>2, <2>3, <2>4 DEF TakesMinute, MinuteSlots!Take
  <1>5. ASSUME NEW k \in Call, TakesDay(k) PROVE UNCHANGED <<limit, bucket, minuteSlot>>
    BY <1>5 DEF TakesDay
  <1> QED BY ClaimStep, <1>2, <1>3, <1>4, <1>5 DEF MinuteSlots!Next

LEMMA DaySlotStep ==
    ASSUME IInv, IInv', [Next]_vars
    PROVE  [DaySlots!Next]_<<[k \in Call |-> limits[k].perDay],
               [k \in Call |-> <<caller[k], stamp[k].day>>], daySlot>>
  <1> DEFINE limit == [k \in Call |-> limits[k].perDay]
             bucket == [k \in Call |-> <<caller[k], stamp[k].day>>]
  <1>1. /\ limit' \in [Call -> Nat]
        /\ bucket' \in [Call -> Key \X Day]
    BY DEF IInv, TypeOK, LimitPair, Stamp
  <1>2. ASSUME UNCHANGED Claims PROVE UNCHANGED <<limit, bucket, daySlot>>
    BY <1>2 DEF Claims
  <1>3. ASSUME NEW k \in Call, Asks(k) PROVE DaySlots!Ask(k)
    <2>1. \A j \in Call \ {k} : limit'[j] = limit[j] /\ bucket'[j] = bucket[j]
      BY <1>3 DEF Asks
    <2> QED BY <1>1, <1>3, <2>1 DEF Asks, DaySlots!Ask
  <1>4. ASSUME NEW k \in Call, TakesDay(k) PROVE DaySlots!Take(k)
    <2>1. UNCHANGED <<limit, bucket>>
      BY <1>4 DEF TakesDay
    <2>2. daySlot'[k] \in Nat /\ daySlot'[k] > 0
      BY <1>4 DEF TakesDay, IInv, TypeOK
    <2>3. daySlot'[k] <= limits[k].perDay /\ limits[k].perDay \in Nat
      BY <1>4 DEF TakesDay, IInv, DayQuota, TypeOK, LimitPair
    <2>4. ASSUME NEW j \in Call \ {k}, bucket[j] = bucket[k]
          PROVE  daySlot[j] # daySlot'[k]
      <3>1. SameDay(j, k)'
        BY <1>4, <2>4 DEF TakesDay, SameDay
      <3>2. daySlot'[j] = daySlot[j]
        BY <1>4 DEF TakesDay, IInv, TypeOK
      <3> QED BY <2>2, <3>1, <3>2 DEF IInv, DayQuota
    <2> QED BY <1>4, <2>1, <2>2, <2>3, <2>4 DEF TakesDay, DaySlots!Take
  <1>5. ASSUME NEW k \in Call, TakesMinute(k) PROVE UNCHANGED <<limit, bucket, daySlot>>
    BY <1>5 DEF TakesMinute
  <1> QED BY ClaimStep, <1>2, <1>3, <1>4, <1>5 DEF DaySlots!Next

(* The conditional upserts implement two abstract quotas: in a minute and  *)
(* in a day a call is given a slot once, within the limit it read, that no *)
(* other call was given, and it is never taken back.  (take, checkQuota.)  *)
THEOREM QuotasImplementSlots == Spec => QuotasAreKept
  <1>1. IInv /\ IInv' /\ [Next]_vars =>
            /\ [MinuteSlots!Next]_<<[k \in Call |-> limits[k].perMinute],
                   [k \in Call |-> <<caller[k], stamp[k]>>], minuteSlot>>
            /\ [DaySlots!Next]_<<[k \in Call |-> limits[k].perDay],
                   [k \in Call |-> <<caller[k], stamp[k].day>>], daySlot>>
    BY MinuteSlotStep, DaySlotStep
  <1> QED BY Inductive, InitialSlots, <1>1, PTL
          DEF Spec, QuotasAreKept, MinuteSlots!Spec, DaySlots!Spec
=============================================================================
