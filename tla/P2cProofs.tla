----------------------------- MODULE P2cProofs ------------------------------
(***************************************************************************)
(* Theorems about P2c, for any finite set of callers, any number of        *)
(* connections, pickers and picks, and any forcePick and initSuccess.      *)
(***************************************************************************)
EXTENDS P2c, FiniteSetTheorems, TLAPS

-----------------------------------------------------------------------------
(* Type correctness, one group of variables at a time.                     *)

ClockTyped ==
  /\ now \in Nat /\ now >= Epoch /\ built \in 0..MaxBuilds /\ picks \in 0..MaxPicks
  /\ size \in [1..MaxBuilds -> 0..MaxConns]

CallTyped(k) ==
  /\ rpc[k] \in Picking => draw[k].picker \in 1..built
  /\ rpc[k] = "choose" => draw[k].pair \in Pairs /\ draw[k].start \in Epoch..now
  /\ rpc[k] \in {"calling"} \cup Ending => on[k] \in SubConns /\ answer[k].start <= now
  /\ rpc[k] \in Ending => answer[k].end \in answer[k].start..now
  /\ rpc[k] = "storeSuccess" => answer[k].old <= InitSuccess

CallsTyped ==
  /\ rpc \in [Rpcs -> {"idle", "calling"} \cup Picking \cup Ending]
  /\ draw \in [Rpcs -> Draws]
  /\ on \in [Rpcs -> {<<>>} \cup SubConns]
  /\ answer \in [Rpcs -> Answers]

LoadTyped == inflight \in [SubConns -> Int] /\ lag \in [SubConns -> Nat]

SuccessTyped == success \in [SubConns -> 0..InitSuccess] /\ failed \subseteq SubConns

TimesTyped == last \in [SubConns -> 0..now] /\ pick \in [SubConns -> 0..now]

PassedTyped == passed \in [SubConns -> [SubConns -> Nat]]

LEMMA Parts ==
  TypeOK <=> /\ ClockTyped /\ CallsTyped /\ \A k \in Rpcs : CallTyped(k)
             /\ LoadTyped /\ SuccessTyped /\ TimesTyped /\ PassedTyped
BY DEF TypeOK, ClockTyped, CallsTyped, CallTyped, LoadTyped, SuccessTyped, TimesTyped, PassedTyped

LEMMA FromParts ==
  /\ ClockTyped' /\ CallsTyped' /\ \A k \in Rpcs : CallTyped(k)'
  /\ LoadTyped' /\ SuccessTyped' /\ TimesTyped' /\ PassedTyped'
  => TypeOK'
BY DEF TypeOK, ClockTyped, CallsTyped, CallTyped, LoadTyped, SuccessTyped, TimesTyped, PassedTyped

LEMMA Bounds ==
  /\ MaxConns \in Nat /\ MaxBuilds \in Nat /\ MaxPicks \in Nat /\ ForcePick \in Nat
  /\ InitSuccess \in Nat \ {0} /\ Epoch \in Nat /\ IsFiniteSet(Rpcs)
BY P2cAssumption DEF Epoch

LEMMA TypedInit == Init => TypeOK
<1> SUFFICES ASSUME Init PROVE TypeOK
  OBVIOUS
<1> USE Bounds
<1>1. ClockTyped /\ PassedTyped /\ LoadTyped /\ SuccessTyped
  BY DEF Init, ClockTyped, PassedTyped, LoadTyped, SuccessTyped
<1>2. TimesTyped
  BY DEF Init, TimesTyped
<1>3. CallsTyped
  <2>1. NoDraw \in Draws     BY DEF NoDraw, Draws
  <2>2. NoAnswer \in Answers BY DEF NoAnswer, Answers, Weights
  <2> QED BY <2>1, <2>2 DEF Init, CallsTyped
<1>4. \A k \in Rpcs : CallTyped(k)
  BY DEF Init, CallTyped, Picking, Ending
<1> QED BY <1>1, <1>2, <1>3, <1>4, Parts

\* What changes nothing but the part of one goroutine keeps the others' types.
LEMMA OthersTyped ==
  ASSUME TypeOK, NEW k \in Rpcs, CallTyped(k)', UNCHANGED <<now, built>>,
         \A j \in Rpcs \ {k} : /\ rpc'[j] = rpc[j] /\ draw'[j] = draw[j]
                               /\ on'[j] = on[j] /\ answer'[j] = answer[j]
  PROVE  \A j \in Rpcs : CallTyped(j)'
<1> SUFFICES ASSUME NEW j \in Rpcs, j # k PROVE CallTyped(j)'
  OBVIOUS
<1>1. CallTyped(j)
  BY Parts
<1> QED BY <1>1 DEF CallTyped

LEMMA RecordsTyped ==
  ASSUME TypeOK, NEW k \in Rpcs
  PROVE  /\ draw[k] \in Draws /\ answer[k] \in Answers
         /\ rpc[k] = "choose" =>
              /\ draw[k].picker \in 1..MaxBuilds /\ draw[k].pair \in Pairs
              /\ <<draw[k].picker, draw[k].pair[1]>> \in SubConns
              /\ <<draw[k].picker, draw[k].pair[2]>> \in SubConns
<1>1. draw[k] \in Draws /\ answer[k] \in Answers
  BY Parts DEF CallsTyped
<1>2. ASSUME rpc[k] = "choose"
      PROVE  draw[k].picker \in 1..MaxBuilds /\ draw[k].pair \in Pairs
  BY <1>2, Bounds, Parts DEF CallTyped, ClockTyped, Picking
<1> QED BY <1>1, <1>2 DEF Pairs, SubConns

LEMMA LoadInt == ASSUME TypeOK, NEW s \in SubConns PROVE Load(s) \in Int
<1>1. lag[s] \in Nat /\ inflight[s] \in Int
  BY Parts DEF LoadTyped
<1>2. Root(lag[s] + 1) \in Nat
  <2> DEFINE n == lag[s] + 1
  <2>0. n \in Nat
    BY <1>1
  <2>1. IsFiniteSet(1..n)
    <3> HIDE DEF n
    <3> QED BY <2>0, FS_Interval
  <2>2. IsFiniteSet({r \in 1..n : r * r <= n})
    BY <2>1, FS_Subset
  <2> QED BY <2>2, FS_CardinalityType DEF Root
<1> QED BY <1>1, <1>2 DEF Load

LEMMA TypedTick == ASSUME TypeOK, Tick PROVE TypeOK'
<1>1. ClockTyped /\ CallsTyped /\ LoadTyped /\ SuccessTyped /\ TimesTyped /\ PassedTyped
  BY Parts
<1>2. now \in Nat /\ now' = now + 1
  BY <1>1 DEF Tick, ClockTyped
<1>3. ClockTyped' /\ CallsTyped' /\ LoadTyped' /\ SuccessTyped' /\ PassedTyped'
  BY <1>1, <1>2, Bounds DEF Tick, ClockTyped, CallsTyped, LoadTyped, SuccessTyped, PassedTyped, connVars
<1>4. TimesTyped'
  BY <1>1, <1>2 DEF Tick, TimesTyped, connVars
<1>5. ASSUME NEW k \in Rpcs PROVE CallTyped(k)'
  <2>1. answer[k] \in Answers
    BY RecordsTyped
  <2>2. answer[k].start \in Nat /\ answer[k].end \in Nat
    BY <2>1 DEF Answers
  <2>3. CallTyped(k) /\ Epoch \in Nat
    BY Parts, Bounds
  <2> QED BY <1>2, <2>2, <2>3 DEF Tick, CallTyped
<1> QED BY <1>3, <1>4, <1>5, FromParts

LEMMA TypedBuild == ASSUME TypeOK, NEW n \in 0..MaxConns, Build(n) PROVE TypeOK'
<1>1. ClockTyped /\ CallsTyped /\ LoadTyped /\ SuccessTyped /\ TimesTyped /\ PassedTyped
  BY Parts
<1>2. ClockTyped'
  BY <1>1, Bounds DEF Build, ClockTyped
<1>3. CallsTyped' /\ LoadTyped' /\ SuccessTyped' /\ TimesTyped' /\ PassedTyped'
  BY <1>1 DEF Build, CallsTyped, LoadTyped, SuccessTyped, TimesTyped, PassedTyped, connVars
<1>4. ASSUME NEW k \in Rpcs PROVE CallTyped(k)'
  <2>1. CallTyped(k)
    BY Parts
  <2>2. built \in Int /\ built' = built + 1
    BY <1>1, Bounds DEF Build, ClockTyped
  <2> QED BY <2>1, <2>2 DEF Build, CallTyped
<1> QED BY <1>2, <1>3, <1>4, FromParts

LEMMA TypedUse == ASSUME TypeOK, NEW k \in Rpcs, UsePicker(k) PROVE TypeOK'
<1>1. ClockTyped /\ CallsTyped /\ LoadTyped /\ SuccessTyped /\ TimesTyped /\ PassedTyped
  BY Parts
<1>2. ClockTyped'
  BY <1>1, Bounds DEF UsePicker, ClockTyped
<1>3. LoadTyped' /\ SuccessTyped' /\ TimesTyped' /\ PassedTyped'
  BY <1>1 DEF UsePicker, LoadTyped, SuccessTyped, TimesTyped, PassedTyped, connVars
<1> DEFINE r == [NoDraw EXCEPT !.picker = built]
<1>4. r \in Draws /\ r.picker = built
  BY <1>1, Bounds DEF ClockTyped, NoDraw, Draws
<1>5. draw' = [draw EXCEPT ![k] = r] /\ rpc' = [rpc EXCEPT ![k] = "pick"]
  BY DEF UsePicker
<1>6. CallsTyped'
  BY <1>1, <1>4, <1>5 DEF UsePicker, CallsTyped, Picking
<1>7. CallTyped(k)'
  BY <1>1, <1>4, <1>5, Bounds DEF UsePicker, CallTyped, CallsTyped, ClockTyped, Picking, Ending
<1>8. \A j \in Rpcs : CallTyped(j)'
  BY <1>1, <1>5, <1>7, OthersTyped DEF UsePicker, CallsTyped
<1> QED BY <1>2, <1>3, <1>6, <1>8, FromParts

LEMMA TypedDraw == ASSUME TypeOK, NEW k \in Rpcs, NEW p \in Pairs, Draw(k, p) PROVE TypeOK'
<1>1. ClockTyped /\ CallsTyped /\ LoadTyped /\ SuccessTyped /\ TimesTyped /\ PassedTyped
  BY Parts
<1>2. ClockTyped' /\ LoadTyped' /\ SuccessTyped' /\ TimesTyped' /\ PassedTyped'
  BY <1>1 DEF Draw, ClockTyped, LoadTyped, SuccessTyped, TimesTyped, PassedTyped, connVars
<1>3. draw[k].picker \in 1..built /\ built \in 0..MaxBuilds
  BY <1>1, Parts DEF Draw, CallTyped, ClockTyped, Picking
<1>4. <<draw[k].picker, p[1]>> \in SubConns
  BY <1>3, Bounds DEF SubConns, Pairs
<1> DEFINE r == [draw[k] EXCEPT !.pair = p, !.start = now, !.load = Load(<<draw[k].picker, p[1]>>)]
<1>5. r \in Draws /\ r.picker = draw[k].picker /\ r.pair = p /\ r.start = now
  BY <1>1, <1>4, RecordsTyped, LoadInt DEF Draws, ClockTyped
<1>6. draw' = [draw EXCEPT ![k] = r] /\ rpc' = [rpc EXCEPT ![k] = "choose"]
  BY DEF Draw
<1>7. CallsTyped'
  BY <1>1, <1>5, <1>6 DEF Draw, CallsTyped, Picking
<1>8. CallTyped(k)'
  BY <1>1, <1>3, <1>5, <1>6, Bounds DEF Draw, CallTyped, CallsTyped, ClockTyped, Picking, Ending
<1>9. \A j \in Rpcs : CallTyped(j)'
  BY <1>1, <1>6, <1>8, OthersTyped DEF Draw, CallsTyped
<1> QED BY <1>2, <1>7, <1>9, FromParts

\* choose takes the first or the second candidate, and an overdue candidate is
\* passed over for an overdue one only.
ChooseTakes(k, s, other) ==
  /\ rpc[k] = "choose" /\ s[1] = draw[k].picker
  /\ Take(k, s, other, draw[k].start)
  /\ other # s /\ Overdue(other, draw[k].start) => Overdue(s, draw[k].start)
  /\ draw' = [draw EXCEPT ![k] = NoDraw]
  /\ UNCHANGED <<now, size, built, picks, lag, success, last, failed>>

LEMMA ChooseIsTake ==
  ASSUME TypeOK, NEW k \in Rpcs, Choose(k)
  PROVE  \E s, other \in SubConns : ChooseTakes(k, s, other)
<1> DEFINE a == <<draw[k].picker, draw[k].pair[1]>>
           b == <<draw[k].picker, draw[k].pair[2]>>
           heavy == IF draw[k].load > Load(b) THEN a ELSE b
           light == IF heavy = a THEN b ELSE a
           s == Taken(heavy, light, draw[k].start)
           other == IF s = a THEN b ELSE a
<1>1. a \in SubConns /\ b \in SubConns
  BY RecordsTyped DEF Choose
<1>2. heavy \in {a, b} /\ light \in {a, b} /\ (light = heavy => a = b)
  OBVIOUS
<1>3. s \in {heavy, light} /\ (s # heavy => ~Overdue(heavy, draw[k].start))
  BY DEF Taken
<1>4. s \in {a, b} /\ other \in {a, b} /\ s[1] = draw[k].picker
  <2>1. s \in {a, b} /\ other \in {a, b}
    BY <1>2, <1>3
  <2>2. a[1] = draw[k].picker /\ b[1] = draw[k].picker
    OBVIOUS
  <2> QED BY <2>1, <2>2
<1>5. other # s /\ Overdue(other, draw[k].start) => Overdue(s, draw[k].start)
  <2>1. ASSUME other # s, Overdue(other, draw[k].start), ~Overdue(s, draw[k].start) PROVE FALSE
    <3>1. ~Overdue(heavy, draw[k].start)
      BY <1>3, <2>1
    <3>2. heavy # other
      BY <2>1, <3>1
    <3>3. heavy = s
      BY <1>2, <1>4, <2>1, <3>2
    <3>4. light = other
      BY <1>2, <1>4, <2>1, <3>3
    <3>5. s = heavy /\ light # heavy
      BY <2>1, <3>3, <3>4
    <3>6. Taken(heavy, light, draw[k].start) = light
      BY <3>1 DEF Taken
    <3> QED BY <3>5, <3>6
  <2> QED BY <2>1
<1>6. Take(k, s, other, draw[k].start) /\ rpc[k] = "choose"
      /\ draw' = [draw EXCEPT ![k] = NoDraw]
      /\ UNCHANGED <<now, size, built, picks, lag, success, last, failed>>
  BY DEF Choose
<1> HIDE DEF s, other
<1>7. ChooseTakes(k, s, other)
  BY <1>4, <1>5, <1>6 DEF ChooseTakes
<1> QED BY <1>1, <1>4, <1>7

LEMMA TypedChoose == ASSUME TypeOK, NEW k \in Rpcs, Choose(k) PROVE TypeOK'
<1>1. ClockTyped /\ CallsTyped /\ LoadTyped /\ SuccessTyped /\ TimesTyped /\ PassedTyped
  BY Parts
<1>2. PICK s \in SubConns, other \in SubConns : ChooseTakes(k, s, other)
  BY ChooseIsTake
<1>3. ClockTyped' /\ SuccessTyped'
  BY <1>1, <1>2 DEF ChooseTakes, Take, ClockTyped, SuccessTyped
<1>4. LoadTyped'
  BY <1>1, <1>2 DEF ChooseTakes, Take, LoadTyped
<1>0. draw[k].start \in 0..now
  BY <1>1, <1>2, Parts, Bounds DEF ChooseTakes, CallTyped, ClockTyped
<1>5. TimesTyped'
  BY <1>0, <1>1, <1>2 DEF ChooseTakes, Take, TimesTyped, ClockTyped
<1>6. PassedTyped'
  <2>1. ASSUME NEW x \in SubConns PROVE passed'[x] \in [SubConns -> Nat]
    <3>1. passed[x] \in [SubConns -> Nat] /\ passed[x][s] + 1 \in Nat
      BY <1>1 DEF PassedTyped
    <3>2. [passed[x] EXCEPT ![s] = passed[x][s] + 1] \in [SubConns -> Nat]
      BY <3>1
    <3>3. passed'[x] \in {[d \in SubConns |-> 0], [passed[x] EXCEPT ![s] = passed[x][s] + 1], passed[x]}
      BY <1>2 DEF ChooseTakes, Take
    <3> QED BY <3>1, <3>2, <3>3
  <2>2. passed' = [x \in SubConns |-> passed'[x]]
    BY <1>2 DEF ChooseTakes, Take
  <2> QED BY <2>1, <2>2 DEF PassedTyped
<1> DEFINE r == [NoAnswer EXCEPT !.start = now]
<1>7. r \in Answers /\ r.start = now
  BY <1>1 DEF ClockTyped, NoAnswer, Answers, Weights
<1>8. /\ answer' = [answer EXCEPT ![k] = r] /\ rpc' = [rpc EXCEPT ![k] = "calling"]
      /\ on' = [on EXCEPT ![k] = s] /\ draw' = [draw EXCEPT ![k] = NoDraw]
      /\ UNCHANGED <<now, built>>
  BY <1>2 DEF ChooseTakes, Take
<1>9. CallsTyped'
  <2>1. NoDraw \in Draws
    BY Bounds DEF NoDraw, Draws
  <2> QED BY <1>1, <1>7, <1>8, <2>1 DEF CallsTyped
<1>10. CallTyped(k)'
  BY <1>1, <1>7, <1>8 DEF CallTyped, CallsTyped, ClockTyped, Picking, Ending
<1>11. \A j \in Rpcs : CallTyped(j)'
  BY <1>1, <1>8, <1>10, OthersTyped DEF CallsTyped
<1> QED BY <1>3, <1>4, <1>5, <1>6, <1>9, <1>11, FromParts

LEMMA TypedFinish == ASSUME TypeOK, NEW k \in Rpcs, NEW good \in BOOLEAN, Finish(k, good) PROVE TypeOK'
<1>1. ClockTyped /\ CallsTyped /\ LoadTyped /\ SuccessTyped /\ TimesTyped /\ PassedTyped
  BY Parts
<1>2. on[k] \in SubConns /\ answer[k].start <= now
  BY Parts DEF Finish, CallTyped
<1>3. ClockTyped' /\ TimesTyped' /\ PassedTyped'
  BY <1>1 DEF Finish, ClockTyped, TimesTyped, PassedTyped
<1>4. LoadTyped' /\ SuccessTyped'
  BY <1>1, <1>2 DEF Finish, LoadTyped, SuccessTyped
<1> DEFINE r == [answer[k] EXCEPT !.end = now, !.sample = IF good THEN InitSuccess ELSE 0]
<1>5. r \in Answers /\ r.start = answer[k].start /\ r.end = now
  BY <1>1, RecordsTyped DEF ClockTyped, Answers
<1>6. answer' = [answer EXCEPT ![k] = r] /\ rpc' = [rpc EXCEPT ![k] = "swap"]
  BY DEF Finish
<1>7. CallsTyped'
  BY <1>1, <1>5, <1>6 DEF Finish, CallsTyped, Ending
<1>8. CallTyped(k)'
  <2>1. answer[k].start \in Nat /\ now \in Nat
    BY <1>1, RecordsTyped DEF ClockTyped, Answers
  <2> QED BY <1>1, <1>2, <1>5, <1>6, <2>1 DEF Finish, CallTyped, CallsTyped, Picking, Ending
<1>9. \A j \in Rpcs : CallTyped(j)'
  BY <1>1, <1>6, <1>8, OthersTyped DEF Finish, CallsTyped
<1> QED BY <1>3, <1>4, <1>7, <1>9, FromParts

LEMMA BlendBetween ==
  ASSUME NEW old \in Nat, NEW new \in Nat, NEW w, NEW v \in Blend(old, new, w)
  PROVE  /\ v \in Nat
         /\ v <= old \/ v <= new
         /\ v >= old \/ v >= new \/ (old = new /\ v = old - 1)
BY DEF Blend

\* The callback's steps keep the values that k has read in their ranges.
LEMMA EndingTyped ==
  ASSUME TypeOK, NEW k \in Rpcs, rpc[k] \in Ending
  PROVE  /\ on[k] \in SubConns /\ answer[k] \in Answers
         /\ answer[k].start \in Nat /\ answer[k].end \in Nat /\ answer[k].old \in Nat
         /\ answer[k].start <= answer[k].end /\ answer[k].end <= now
         /\ answer[k].sample \in 0..InitSuccess /\ now \in Nat
<1>1. CallTyped(k) /\ answer[k] \in Answers /\ now \in Nat
  BY Parts, RecordsTyped DEF ClockTyped
<1>2. answer[k].start \in Nat /\ answer[k].end \in Nat /\ answer[k].old \in Nat /\ answer[k].sample \in 0..InitSuccess
  BY <1>1, Bounds DEF Answers
<1> QED BY <1>1, <1>2 DEF CallTyped

LEMMA TypedDone == ASSUME TypeOK, NEW k \in Rpcs, DoneStep(k) PROVE TypeOK'
<1>1. ClockTyped /\ CallsTyped /\ LoadTyped /\ SuccessTyped /\ TimesTyped /\ PassedTyped /\ CallTyped(k)
  BY Parts
<1>0. rpc[k] \in Ending
  BY DEF DoneStep, SwapLast, LoadLag, StoreLag, LoadSuccess, StoreSuccess, Ending
<1>2. /\ on[k] \in SubConns /\ answer[k] \in Answers
      /\ answer[k].start \in Nat /\ answer[k].end \in Nat /\ answer[k].old \in Nat
      /\ answer[k].start <= answer[k].end /\ answer[k].end <= now
      /\ answer[k].sample \in 0..InitSuccess /\ now \in Nat
  BY <1>0, EndingTyped
<1>3. ClockTyped' /\ PassedTyped' /\ failed' = failed
  BY <1>1 DEF DoneStep, SwapLast, LoadLag, StoreLag, LoadSuccess, StoreSuccess, ClockTyped, PassedTyped, connVars
<1>4. CASE SwapLast(k)
  <2> DEFINE r == [answer[k] EXCEPT !.w = IF answer[k].end > last[on[k]] THEN "some" ELSE "one"]
  <2>1. r \in Answers /\ r.start = answer[k].start /\ r.end = answer[k].end /\ r.old = answer[k].old
    BY <1>2 DEF Answers, Weights
  <2>2. answer' = [answer EXCEPT ![k] = r] /\ rpc' = [rpc EXCEPT ![k] = "loadLag"] /\ UNCHANGED <<draw, on, now, built>>
    BY <1>4 DEF SwapLast
  <2>3. LoadTyped' /\ SuccessTyped'
    BY <1>1, <1>4 DEF SwapLast, LoadTyped, SuccessTyped
  <2>4. TimesTyped'
    BY <1>1, <1>2, <1>4 DEF SwapLast, TimesTyped
  <2>5. CallsTyped'
    BY <1>1, <2>1, <2>2 DEF CallsTyped, Ending
  <2>6. CallTyped(k)'
    BY <1>1, <1>2, <2>1, <2>2 DEF CallTyped, CallsTyped, Picking, Ending
  <2>7. \A j \in Rpcs : CallTyped(j)'
    BY <1>1, <2>2, <2>6, OthersTyped DEF CallsTyped
  <2> QED BY <1>3, <2>3, <2>4, <2>5, <2>7, FromParts
<1>5. CASE LoadLag(k)
  <2>0. lag[on[k]] \in Nat
    BY <1>1, <1>2 DEF LoadTyped
  <2> DEFINE r == [answer[k] EXCEPT !.old = lag[on[k]], !.w = IF lag[on[k]] = 0 THEN "zero" ELSE answer[k].w]
  <2>1. r \in Answers /\ r.start = answer[k].start /\ r.end = answer[k].end
    BY <1>2, <2>0 DEF Answers, Weights
  <2>2. answer' = [answer EXCEPT ![k] = r] /\ rpc' = [rpc EXCEPT ![k] = "storeLag"] /\ UNCHANGED <<draw, on, now, built>>
    BY <1>5 DEF LoadLag
  <2>3. LoadTyped' /\ SuccessTyped' /\ TimesTyped'
    BY <1>1, <1>5 DEF LoadLag, LoadTyped, SuccessTyped, TimesTyped, connVars
  <2>4. CallsTyped'
    BY <1>1, <2>1, <2>2 DEF CallsTyped, Ending
  <2>5. CallTyped(k)'
    BY <1>1, <1>2, <2>1, <2>2 DEF CallTyped, CallsTyped, Picking, Ending
  <2>6. \A j \in Rpcs : CallTyped(j)'
    BY <1>1, <2>2, <2>5, OthersTyped DEF CallsTyped
  <2> QED BY <1>3, <2>3, <2>4, <2>6, FromParts
<1>6. CASE StoreLag(k)
  <2>1. rpc' = [rpc EXCEPT ![k] = "loadSuccess"] /\ UNCHANGED <<draw, on, answer, now, built>>
    BY <1>6 DEF StoreLag
  <2>2. PICK v \in Blend(answer[k].old, answer[k].end - answer[k].start, answer[k].w) :
          lag' = [lag EXCEPT ![on[k]] = v]
    BY <1>6 DEF StoreLag
  <2>3. v \in Nat
    <3>1. answer[k].end - answer[k].start \in Nat   BY <1>2
    <3> QED BY <1>2, <3>1, BlendBetween
  <2>4. LoadTyped'
    BY <1>1, <1>6, <2>2, <2>3 DEF StoreLag, LoadTyped
  <2>5. SuccessTyped' /\ TimesTyped'
    BY <1>1, <1>6 DEF StoreLag, SuccessTyped, TimesTyped
  <2>6. CallsTyped'
    BY <1>1, <2>1 DEF CallsTyped, Ending
  <2>7. CallTyped(k)'
    BY <1>1, <1>2, <2>1 DEF CallTyped, CallsTyped, Picking, Ending
  <2>8. \A j \in Rpcs : CallTyped(j)'
    BY <1>1, <2>1, <2>7, OthersTyped DEF CallsTyped
  <2> QED BY <1>3, <2>4, <2>5, <2>6, <2>8, FromParts
<1>7. CASE LoadSuccess(k)
  <2>0. success[on[k]] \in 0..InitSuccess
    BY <1>1, <1>2 DEF SuccessTyped
  <2> DEFINE r == [answer[k] EXCEPT !.old = success[on[k]]]
  <2>1. r \in Answers /\ r.start = answer[k].start /\ r.end = answer[k].end /\ r.old <= InitSuccess
    BY <1>2, <2>0, Bounds DEF Answers
  <2>2. answer' = [answer EXCEPT ![k] = r] /\ rpc' = [rpc EXCEPT ![k] = "storeSuccess"] /\ UNCHANGED <<draw, on, now, built>>
    BY <1>7 DEF LoadSuccess
  <2>3. LoadTyped' /\ SuccessTyped' /\ TimesTyped'
    BY <1>1, <1>7 DEF LoadSuccess, LoadTyped, SuccessTyped, TimesTyped, connVars
  <2>4. CallsTyped'
    BY <1>1, <2>1, <2>2 DEF CallsTyped, Ending
  <2>5. CallTyped(k)'
    BY <1>1, <1>2, <2>1, <2>2 DEF CallTyped, CallsTyped, Picking, Ending
  <2>6. \A j \in Rpcs : CallTyped(j)'
    BY <1>1, <2>2, <2>5, OthersTyped DEF CallsTyped
  <2> QED BY <1>3, <2>3, <2>4, <2>6, FromParts
<1>8. CASE StoreSuccess(k)
  <2>1. /\ rpc' = [rpc EXCEPT ![k] = "idle"] /\ answer' = [answer EXCEPT ![k] = NoAnswer]
        /\ on' = [on EXCEPT ![k] = <<>>] /\ UNCHANGED <<draw, now, built>>
    BY <1>8 DEF StoreSuccess
  <2>2. PICK v \in Blend(answer[k].old, answer[k].sample, answer[k].w) : success' = [success EXCEPT ![on[k]] = v]
    BY <1>8 DEF StoreSuccess
  <2>3. v \in 0..InitSuccess
    <3>1. answer[k].old <= InitSuccess
      BY <1>1, <1>8 DEF StoreSuccess, CallTyped
    <3>2. answer[k].sample \in Nat /\ answer[k].sample <= InitSuccess
      BY <1>2, Bounds
    <3>3. v \in Nat /\ (v <= answer[k].old \/ v <= answer[k].sample)
      BY <1>2, <3>2, BlendBetween
    <3> QED BY <1>2, <3>1, <3>2, <3>3, Bounds
  <2>4. SuccessTyped'
    BY <1>1, <1>3, <2>2, <2>3 DEF SuccessTyped
  <2>5. LoadTyped' /\ TimesTyped'
    BY <1>1, <1>8 DEF StoreSuccess, LoadTyped, TimesTyped
  <2>6. CallsTyped'
    <3>1. NoAnswer \in Answers  BY Bounds DEF NoAnswer, Answers, Weights
    <3> QED BY <1>1, <2>1, <3>1 DEF CallsTyped
  <2>7. CallTyped(k)'
    BY <1>1, <2>1 DEF CallTyped, CallsTyped, Picking, Ending
  <2>8. \A j \in Rpcs : CallTyped(j)'
    BY <1>1, <2>1, <2>7, OthersTyped DEF CallsTyped
  <2> QED BY <1>3, <2>4, <2>5, <2>6, <2>8, FromParts
<1> QED BY <1>4, <1>5, <1>6, <1>7, <1>8 DEF DoneStep

LEMMA TypedStep == TypeOK /\ [Next]_vars => TypeOK'
<1> SUFFICES ASSUME TypeOK, [Next]_vars PROVE TypeOK'
  OBVIOUS
<1>1. CASE UNCHANGED vars
  <2>1. UNCHANGED <<now, size, built, picks, rpc, draw, on, answer, passed, failed>>
        /\ UNCHANGED <<inflight, lag, success, last, pick>>
    BY <1>1 DEF vars, connVars
  <2>2. ClockTyped' /\ CallsTyped' /\ LoadTyped' /\ SuccessTyped' /\ TimesTyped' /\ PassedTyped'
    BY <2>1, Parts DEF ClockTyped, CallsTyped, LoadTyped, SuccessTyped, TimesTyped, PassedTyped
  <2>3. \A k \in Rpcs : CallTyped(k)'
    BY <2>1, Parts DEF CallTyped
  <2> QED BY <2>2, <2>3, FromParts
<1>2. CASE Tick BY <1>2, TypedTick
<1>3. CASE \E n \in 0..MaxConns : Build(n) BY <1>3, TypedBuild
<1>4. ASSUME NEW k \in Rpcs, PickStep(k) PROVE TypeOK'
  BY <1>4, TypedUse, TypedDraw, TypedChoose DEF PickStep
<1>5. ASSUME NEW k \in Rpcs, DoneStep(k) PROVE TypeOK'
  BY <1>5, TypedDone
<1>6. ASSUME NEW k \in Rpcs, NEW good \in BOOLEAN, Finish(k, good) PROVE TypeOK'
  BY <1>6, TypedFinish
<1> QED BY <1>1, <1>2, <1>3, <1>4, <1>5, <1>6 DEF Next

\* Every variable of pickers, subConns and calls keeps its type (p2c.go); in
\* particular the unsigned averages never go below zero.
THEOREM TypeCorrect == Spec => []TypeOK
BY TypedInit, TypedStep, PTL DEF Spec

-----------------------------------------------------------------------------
(* Calls in progress.                                                      *)

Calling(s) == {k \in Rpcs : rpc[k] = "calling" /\ on[k] = s}

LEMMA CallingFinite == \A s \in SubConns : IsFiniteSet(Calling(s))
<1> TAKE s \in SubConns
<1>1. Calling(s) \subseteq Rpcs
  BY DEF Calling
<1> QED BY <1>1, Bounds, FS_Subset

\* The steps between a pick and the end of the call.
Quiet ==
  \/ Tick
  \/ \E n \in 0..MaxConns : Build(n)
  \/ \E k \in Rpcs : UsePicker(k)
  \/ \E k \in Rpcs, p \in Pairs : Draw(k, p)
  \/ \E k \in Rpcs : DoneStep(k)
  \/ UNCHANGED vars

LEMMA Steps ==
  ASSUME [Next]_vars
  PROVE  \/ Quiet
         \/ \E k \in Rpcs : Choose(k)
         \/ \E k \in Rpcs, good \in BOOLEAN : Finish(k, good)
BY DEF Next, PickStep, Quiet

LEMMA QuietCalls ==
  ASSUME TypeOK, Quiet
  PROVE  inflight' = inflight /\ \A s \in SubConns : Calling(s)' = Calling(s)
<1> USE DEF Calling
<1>0. rpc \in [Rpcs -> {"idle", "calling"} \cup Picking \cup Ending] /\ on \in [Rpcs -> {<<>>} \cup SubConns]
  BY Parts DEF CallsTyped
<1>1. CASE Tick \/ (\E n \in 0..MaxConns : Build(n)) \/ UNCHANGED vars
  BY <1>1 DEF Tick, Build, vars, connVars
<1>2. ASSUME NEW k \in Rpcs, UsePicker(k) \/ (\E p \in Pairs : Draw(k, p)) \/ DoneStep(k)
      PROVE  inflight' = inflight /\ \A s \in SubConns : Calling(s)' = Calling(s)
  <2>1. inflight' = inflight
    BY <1>2 DEF UsePicker, Draw, DoneStep, SwapLast, LoadLag, StoreLag, LoadSuccess, StoreSuccess, connVars
  <2>2. rpc[k] # "calling" /\ rpc'[k] # "calling"
    BY <1>0, <1>2 DEF UsePicker, Draw, DoneStep, SwapLast, LoadLag, StoreLag, LoadSuccess, StoreSuccess
  <2>3. \A j \in Rpcs \ {k} : rpc'[j] = rpc[j] /\ on'[j] = on[j]
    BY <1>0, <1>2 DEF UsePicker, Draw, DoneStep, SwapLast, LoadLag, StoreLag, LoadSuccess, StoreSuccess
  <2> QED BY <2>1, <2>2, <2>3
<1> QED BY <1>1, <1>2 DEF Quiet

LEMMA CountStep == TypeOK /\ InflightExact /\ [Next]_vars => InflightExact'
<1> SUFFICES ASSUME TypeOK, InflightExact, [Next]_vars PROVE InflightExact'
  OBVIOUS
<1>0. /\ rpc \in [Rpcs -> {"idle", "calling"} \cup Picking \cup Ending]
      /\ on \in [Rpcs -> {<<>>} \cup SubConns] /\ inflight \in [SubConns -> Int]
  BY Parts DEF CallsTyped, LoadTyped
<1>1. \A s \in SubConns : inflight[s] = Cardinality(Calling(s))
  BY DEF InflightExact, Calling
<1> SUFFICES ASSUME NEW x \in SubConns PROVE inflight'[x] = Cardinality(Calling(x)')
  BY DEF InflightExact, Calling
<1>2. CASE Quiet
  BY <1>1, <1>2, QuietCalls
<1>3. ASSUME NEW k \in Rpcs, Choose(k) PROVE inflight'[x] = Cardinality(Calling(x)')
  <2>1. PICK s \in SubConns, other \in SubConns : ChooseTakes(k, s, other)
    BY <1>3, ChooseIsTake
  <2>2. /\ rpc[k] = "choose" /\ rpc' = [rpc EXCEPT ![k] = "calling"]
        /\ on' = [on EXCEPT ![k] = s] /\ inflight' = [inflight EXCEPT ![s] = inflight[s] + 1]
    BY <2>1 DEF ChooseTakes, Take
  <2>3. CASE x = s
    <3>1. k \notin Calling(x) /\ Calling(x)' = Calling(x) \cup {k}
      BY <1>0, <2>2, <2>3 DEF Calling
    <3>2. Cardinality(Calling(x)') = Cardinality(Calling(x)) + 1
      BY <3>1, CallingFinite, FS_AddElement
    <3> QED BY <1>0, <1>1, <2>2, <2>3, <3>2
  <2>4. CASE x # s
    <3>1. Calling(x)' = Calling(x)
      BY <1>0, <2>2, <2>4 DEF Calling
    <3> QED BY <1>0, <1>1, <2>2, <2>4, <3>1
  <2> QED BY <2>3, <2>4
<1>4. ASSUME NEW k \in Rpcs, NEW good \in BOOLEAN, Finish(k, good)
      PROVE  inflight'[x] = Cardinality(Calling(x)')
  <2>1. /\ rpc[k] = "calling" /\ rpc' = [rpc EXCEPT ![k] = "swap"] /\ on' = on
        /\ inflight' = [inflight EXCEPT ![on[k]] = inflight[on[k]] - 1]
    BY <1>4 DEF Finish
  <2>2. on[k] \in SubConns
    BY <2>1, Parts DEF CallTyped
  <2>3. CASE x = on[k]
    <3>1. k \in Calling(x) /\ Calling(x)' = Calling(x) \ {k}
      BY <1>0, <2>1, <2>3 DEF Calling
    <3>2. Cardinality(Calling(x)') = Cardinality(Calling(x)) - 1
      BY <3>1, CallingFinite, FS_RemoveElement
    <3> QED BY <1>0, <1>1, <2>1, <2>3, <3>2
  <2>4. CASE x # on[k]
    <3>1. Calling(x)' = Calling(x)
      BY <1>0, <2>1, <2>4 DEF Calling
    <3> QED BY <1>0, <1>1, <2>1, <2>2, <2>4, <3>1
  <2> QED BY <2>3, <2>4
<1> QED BY <1>2, <1>3, <1>4, Steps

LEMMA CountInit == Init => InflightExact
<1> SUFFICES ASSUME Init, NEW s \in SubConns
             PROVE  inflight[s] = Cardinality({k \in Rpcs : rpc[k] = "calling" /\ on[k] = s})
  BY DEF InflightExact
<1>1. {k \in Rpcs : rpc[k] = "calling" /\ on[k] = s} = {}
  BY DEF Init
<1>2. inflight[s] = 0
  BY DEF Init
<1> QED BY <1>1, <1>2, FS_EmptySet

\* inflight of every subConn, of the picker in use and of replaced ones, is the
\* number of its calls in progress (Pick, buildDoneFunc).
THEOREM CountsCalls == Spec => []InflightExact
<1>1. Spec => [](TypeOK /\ InflightExact)
  BY TypedInit, TypedStep, CountInit, CountStep, PTL DEF Spec
<1> QED BY <1>1, PTL

-----------------------------------------------------------------------------
(* The picks that passed over an overdue connection.                       *)

\* The mutex: one goroutine at a time is in choose of a picker, and no subConn of
\* that picker was picked later than when it began.
OneChooses ==
  \A j, k \in Rpcs :
    rpc[j] = "choose" /\ rpc[k] = "choose" /\ draw[j].picker = draw[k].picker => j = k

StartsLater ==
  \A k \in Rpcs : rpc[k] = "choose" =>
    \A s \in SubConns : s[1] = draw[k].picker => pick[s] <= draw[k].start

Serial == OneChooses /\ StartsLater

\* The steps that leave the choosing goroutines and the picks alone.
LEMMA QuietPicks ==
  ASSUME TypeOK, [Next]_vars, ~(\E k \in Rpcs : Choose(k) \/ \E p \in Pairs : Draw(k, p))
  PROVE  /\ pick' = pick /\ passed' = passed
         /\ \A k \in Rpcs : rpc'[k] = "choose" => rpc[k] = "choose" /\ draw'[k] = draw[k]
<1>0. /\ rpc \in [Rpcs -> {"idle", "calling"} \cup Picking \cup Ending]
      /\ draw \in [Rpcs -> Draws]
  BY Parts DEF CallsTyped
<1>1. CASE Tick \/ (\E n \in 0..MaxConns : Build(n)) \/ UNCHANGED vars
  BY <1>1 DEF Tick, Build, vars, connVars
<1>2. ASSUME NEW k \in Rpcs,
             UsePicker(k) \/ DoneStep(k) \/ \E good \in BOOLEAN : Finish(k, good)
      PROVE  /\ pick' = pick /\ passed' = passed
             /\ \A j \in Rpcs : rpc'[j] = "choose" => rpc[j] = "choose" /\ draw'[j] = draw[j]
  <2>1. pick' = pick /\ passed' = passed
    BY <1>2 DEF UsePicker, Finish, DoneStep, SwapLast, LoadLag, StoreLag, LoadSuccess, StoreSuccess, connVars
  <2>2. rpc'[k] # "choose"
    BY <1>0, <1>2 DEF UsePicker, Finish, DoneStep, SwapLast, LoadLag, StoreLag, LoadSuccess, StoreSuccess
  <2>3. \A j \in Rpcs \ {k} : rpc'[j] = rpc[j] /\ draw'[j] = draw[j]
    BY <1>0, <1>2 DEF UsePicker, Finish, DoneStep, SwapLast, LoadLag, StoreLag, LoadSuccess, StoreSuccess
  <2> QED BY <2>1, <2>2, <2>3
<1> QED BY <1>1, <1>2 DEF Next, PickStep

LEMMA SerialStep == TypeOK /\ Serial /\ [Next]_vars => Serial'
<1> SUFFICES ASSUME TypeOK, Serial, [Next]_vars PROVE Serial'
  OBVIOUS
<1>0. /\ rpc \in [Rpcs -> {"idle", "calling"} \cup Picking \cup Ending]
      /\ draw \in [Rpcs -> Draws] /\ pick \in [SubConns -> 0..now]
  BY Parts DEF CallsTyped, TimesTyped
<1>1. CASE ~(\E k \in Rpcs : Choose(k) \/ \E p \in Pairs : Draw(k, p))
  BY <1>1, QuietPicks DEF Serial, OneChooses, StartsLater
<1>2. ASSUME NEW k \in Rpcs, NEW p \in Pairs, Draw(k, p) PROVE Serial'
  <2>1. /\ rpc' = [rpc EXCEPT ![k] = "choose"] /\ pick' = pick
        /\ \A j \in Rpcs \ {k} : draw'[j] = draw[j]
        /\ \A j \in Rpcs : rpc[j] = "choose" => draw[j].picker # draw[k].picker
    BY <1>0, <1>2 DEF Draw, Locked, connVars
  <2>2. draw'[k].picker = draw[k].picker /\ draw'[k].start = now
    BY <1>0, <1>2 DEF Draw, Draws
  <2>3. OneChooses'
    BY <1>0, <2>1, <2>2 DEF Serial, OneChooses
  <2>4. StartsLater'
    BY <1>0, <2>1, <2>2 DEF Serial, StartsLater
  <2> QED BY <2>3, <2>4 DEF Serial
<1>3. ASSUME NEW k \in Rpcs, Choose(k) PROVE Serial'
  <2>1. PICK s \in SubConns, other \in SubConns : ChooseTakes(k, s, other)
    BY <1>3, ChooseIsTake
  <2>2. /\ rpc' = [rpc EXCEPT ![k] = "calling"] /\ draw' = [draw EXCEPT ![k] = NoDraw]
        /\ pick' = [pick EXCEPT ![s] = draw[k].start]
        /\ rpc[k] = "choose" /\ s[1] = draw[k].picker
    BY <2>1 DEF ChooseTakes, Take
  <2>3. OneChooses'
    BY <1>0, <2>2 DEF Serial, OneChooses
  <2>4. ASSUME NEW j \in Rpcs, rpc'[j] = "choose", NEW x \in SubConns, x[1] = draw'[j].picker
        PROVE  pick'[x] <= draw'[j].start
    <3>1. j # k /\ rpc[j] = "choose" /\ draw'[j] = draw[j]
      BY <1>0, <2>2, <2>4
    <3>2. draw[j].picker # draw[k].picker
      BY <2>2, <3>1 DEF Serial, OneChooses
    <3>3. x # s /\ pick'[x] = pick[x]
      BY <1>0, <2>2, <2>4, <3>1, <3>2
    <3> QED BY <2>4, <3>1, <3>3 DEF Serial, StartsLater
  <2>5. StartsLater'
    BY <2>4 DEF StartsLater
  <2> QED BY <2>3, <2>5 DEF Serial
<1> QED BY <1>1, <1>2, <1>3

\* One more pick, forcePick + 1 later, is within the bound.
LEMMA OneMore ==
  ASSUME NEW n \in Nat, NEW f \in Nat, NEW e \in Nat, NEW from \in Nat, NEW to \in Nat,
         n > 0 => (n - 1) * (f + 1) <= from - e, e <= to, to - from > f
  PROVE  n * (f + 1) <= to - e
<1>1. CASE n = 0
  BY <1>1
<1>2. CASE n > 0
  <2>1. n * (f + 1) = (n - 1) * (f + 1) + (f + 1)
    <3> DEFINE m == n - 1
    <3>1. m \in Nat /\ n = m + 1
      BY <1>2
    <3>2. (m + 1) * (f + 1) = m * (f + 1) + (f + 1)
      BY <3>1
    <3> QED BY <3>1, <3>2
  <2>2. (n - 1) * (f + 1) \in Int
    BY <1>2
  <2> QED BY <1>2, <2>1, <2>2
<1> QED BY <1>1, <1>2

LEMMA PassedStep == TypeOK /\ Serial /\ PassedOverBound /\ [Next]_vars => PassedOverBound'
<1> SUFFICES ASSUME TypeOK, Serial, PassedOverBound, [Next]_vars PROVE PassedOverBound'
  OBVIOUS
<1>0. pick \in [SubConns -> 0..now] /\ passed \in [SubConns -> [SubConns -> Nat]] /\ now \in Nat
  BY Parts DEF TimesTyped, PassedTyped, ClockTyped
<1>1. CASE ~(\E k \in Rpcs : Choose(k) \/ \E p \in Pairs : Draw(k, p))
  BY <1>1, QuietPicks DEF PassedOverBound
<1>2. ASSUME NEW k \in Rpcs, NEW p \in Pairs, Draw(k, p) PROVE PassedOverBound'
  BY <1>2 DEF Draw, connVars, PassedOverBound
<1>3. ASSUME NEW k \in Rpcs, Choose(k) PROVE PassedOverBound'
  <2> DEFINE t == draw[k].start
  <2>1. PICK s \in SubConns, other \in SubConns : ChooseTakes(k, s, other)
    BY <1>3, ChooseIsTake
  <2>2. /\ rpc[k] = "choose" /\ s[1] = draw[k].picker
        /\ pick' = [pick EXCEPT ![s] = t]
        /\ other # s /\ Overdue(other, t) => Overdue(s, t)
        /\ passed' = [x \in SubConns |->
             CASE x = s -> [d \in SubConns |-> 0]
               [] x = other /\ x # s /\ Overdue(x, t) -> [passed[x] EXCEPT ![s] = passed[x][s] + 1]
               [] OTHER -> passed[x]]
    BY <2>1 DEF ChooseTakes, Take
  <2>3. t \in Epoch..now /\ pick[s] <= t /\ pick[s] \in Nat /\ t \in Nat
    BY <1>0, <2>2, Parts, Bounds DEF CallTyped, Serial, StartsLater
  <2> HIDE DEF t
  <2> SUFFICES ASSUME NEW x \in SubConns, NEW d \in SubConns, passed'[x][d] > 0
               PROVE  (passed'[x][d] - 1) * (ForcePick + 1) <= pick'[d] - Epoch
    BY DEF PassedOverBound
  <2>4. passed[x][d] \in Nat /\ pick[d] \in Nat
    BY <1>0
  <2>5. passed[x][d] > 0 => (passed[x][d] - 1) * (ForcePick + 1) <= pick[d] - Epoch
    BY DEF PassedOverBound
  <2>6. x # s
    BY <2>2
  <2>7. CASE x = other /\ Overdue(x, t) /\ d = s
    <3>1. passed'[x][d] = passed[x][d] + 1 /\ pick'[d] = t
      BY <1>0, <2>2, <2>6, <2>7
    <3>2. t - pick[d] > ForcePick
      BY <2>2, <2>6, <2>7 DEF Overdue
    <3>3. passed[x][d] * (ForcePick + 1) <= t - Epoch
      BY <2>3, <2>4, <2>5, <3>2, Bounds, OneMore
    <3> QED BY <2>4, <3>1, <3>3
  <2>8. CASE ~(x = other /\ Overdue(x, t) /\ d = s)
    <3>1. passed'[x][d] = passed[x][d]
      BY <1>0, <2>2, <2>6, <2>8
    <3>2. pick'[d] \in Nat /\ pick[d] <= pick'[d]
      BY <1>0, <2>2, <2>3, <2>4
    <3>3. (passed[x][d] - 1) * (ForcePick + 1) <= pick[d] - Epoch
      BY <2>5, <3>1
    <3>4. (passed[x][d] - 1) * (ForcePick + 1) \in Int
      BY <2>4, Bounds
    <3> QED BY <2>4, <3>1, <3>2, <3>3, <3>4, Bounds
  <2> QED BY <2>7, <2>8
<1> QED BY <1>1, <1>2, <1>3

LEMMA PassedInit == Init => Serial /\ PassedOverBound
BY DEF Init, Serial, OneChooses, StartsLater, PassedOverBound

\* Whatever the loads are, of two candidates one is preferred to the other while
\* that one is overdue at most once in each forcePick (choose).
THEOREM ForcedPicks == Spec => []PassedOverBound
<1>1. Spec => [](TypeOK /\ Serial /\ PassedOverBound)
  BY TypedInit, TypedStep, PassedInit, SerialStep, PassedStep, PTL DEF Spec
<1> QED BY <1>1, PTL

-----------------------------------------------------------------------------
(* The success of connections that never failed.                           *)

\* What the callback of a call on such a connection is about to blend.
Unblemished ==
  \A k \in Rpcs : rpc[k] \in Ending /\ on[k] \notin failed =>
    /\ answer[k].sample = InitSuccess
    /\ rpc[k] = "storeSuccess" => answer[k].old >= InitSuccess - 1

LEMMA HealthStep ==
  TypeOK /\ Unblemished /\ HealthyUnlessFailed /\ [Next]_vars => Unblemished' /\ HealthyUnlessFailed'
<1> SUFFICES ASSUME TypeOK, Unblemished, HealthyUnlessFailed, [Next]_vars
             PROVE  Unblemished' /\ HealthyUnlessFailed'
  OBVIOUS
<1>0. /\ rpc \in [Rpcs -> {"idle", "calling"} \cup Picking \cup Ending]
      /\ on \in [Rpcs -> {<<>>} \cup SubConns] /\ answer \in [Rpcs -> Answers]
      /\ success \in [SubConns -> 0..InitSuccess] /\ failed \subseteq SubConns
  BY Parts DEF CallsTyped, SuccessTyped
<1> DEFINE Kept(j) == rpc'[j] = rpc[j] /\ on'[j] = on[j] /\ answer'[j] = answer[j]
<1>1. CASE Tick \/ (\E n \in 0..MaxConns : Build(n)) \/ UNCHANGED vars
  <2>1. UNCHANGED <<rpc, on, answer, failed, success>>
    BY <1>1 DEF Tick, Build, vars, connVars
  <2> QED BY <2>1 DEF Unblemished, HealthyUnlessFailed
<1>2. ASSUME NEW k \in Rpcs, UsePicker(k) \/ (\E p \in Pairs : Draw(k, p)) \/ Choose(k)
      PROVE  Unblemished' /\ HealthyUnlessFailed'
  <2>1. UNCHANGED <<failed, success>> /\ rpc'[k] \notin Ending
    BY <1>0, <1>2 DEF UsePicker, Draw, Choose, Take, Ending, connVars
  <2>2. \A j \in Rpcs \ {k} : Kept(j)
    BY <1>0, <1>2 DEF UsePicker, Draw, Choose, Take
  <2> QED BY <2>1, <2>2 DEF Unblemished, HealthyUnlessFailed
<1>3. ASSUME NEW k \in Rpcs, NEW good \in BOOLEAN, Finish(k, good)
      PROVE  Unblemished' /\ HealthyUnlessFailed'
  <2>1. /\ success' = success /\ failed' = IF good THEN failed ELSE failed \cup {on[k]}
        /\ rpc'[k] = "swap" /\ on'[k] = on[k]
    BY <1>0, <1>3 DEF Finish
  <2>2. answer'[k].sample = IF good THEN InitSuccess ELSE 0
    BY <1>0, <1>3 DEF Finish, Answers
  <2>3. \A j \in Rpcs \ {k} : Kept(j)
    BY <1>0, <1>3 DEF Finish
  <2>4. Unblemished'
    BY <2>1, <2>2, <2>3 DEF Unblemished
  <2>5. HealthyUnlessFailed'
    BY <2>1 DEF HealthyUnlessFailed
  <2> QED BY <2>4, <2>5
<1>4. ASSUME NEW k \in Rpcs, DoneStep(k) PROVE Unblemished' /\ HealthyUnlessFailed'
  <2>1. failed' = failed /\ \A j \in Rpcs \ {k} : Kept(j)
    BY <1>0, <1>4 DEF DoneStep, SwapLast, LoadLag, StoreLag, LoadSuccess, StoreSuccess
  <2>2. rpc[k] \in Ending
    BY <1>4 DEF DoneStep, SwapLast, LoadLag, StoreLag, LoadSuccess, StoreSuccess, Ending
  <2>3. /\ on[k] \in SubConns /\ answer[k] \in Answers
        /\ answer[k].old \in Nat /\ answer[k].sample \in Nat
    BY <2>2, EndingTyped, Bounds
  <2>4. on[k] \notin failed => answer[k].sample = InitSuccess /\ success[on[k]] >= InitSuccess - 1
    BY <2>2, <2>3 DEF Unblemished, HealthyUnlessFailed
  <2>5. CASE SwapLast(k) \/ LoadLag(k) \/ StoreLag(k)
    <3>1. /\ success' = success /\ on'[k] = on[k] /\ rpc'[k] # "storeSuccess"
          /\ answer'[k].sample = answer[k].sample
      BY <1>0, <2>3, <2>5 DEF SwapLast, LoadLag, StoreLag, Answers, connVars
    <3>2. Unblemished'
      BY <2>1, <2>4, <3>1 DEF Unblemished
    <3> QED BY <2>1, <3>1, <3>2 DEF HealthyUnlessFailed
  <2>6. CASE LoadSuccess(k)
    <3>1. /\ success' = success /\ on'[k] = on[k] /\ answer'[k].old = success[on[k]]
          /\ answer'[k].sample = answer[k].sample
      BY <1>0, <2>3, <2>6 DEF LoadSuccess, Answers, connVars
    <3>2. Unblemished'
      BY <2>1, <2>4, <3>1 DEF Unblemished
    <3> QED BY <2>1, <3>1, <3>2 DEF HealthyUnlessFailed
  <2>7. CASE StoreSuccess(k)
    <3>1. rpc'[k] = "idle" /\ rpc[k] = "storeSuccess"
      BY <1>0, <2>7 DEF StoreSuccess
    <3>2. Unblemished'
      BY <2>1, <3>1 DEF Unblemished, Ending
    <3>3. PICK v \in Blend(answer[k].old, answer[k].sample, answer[k].w) :
            success' = [success EXCEPT ![on[k]] = v]
      BY <2>7 DEF StoreSuccess
    <3>4. ASSUME on[k] \notin failed PROVE v >= InitSuccess - 1
      <4>1. answer[k].old >= InitSuccess - 1 /\ answer[k].old <= InitSuccess
        BY <2>2, <3>1, <3>4, Parts DEF Unblemished, CallTyped
      <4>2. v \in Nat /\ (v >= answer[k].old \/ v >= InitSuccess \/ (answer[k].old = InitSuccess /\ v = InitSuccess - 1))
        BY <2>3, <2>4, <3>3, <3>4, BlendBetween
      <4> QED BY <2>3, <4>1, <4>2, Bounds
    <3>5. HealthyUnlessFailed'
      BY <1>0, <2>1, <2>3, <3>3, <3>4 DEF HealthyUnlessFailed
    <3> QED BY <3>2, <3>5
  <2> QED BY <1>4, <2>5, <2>6, <2>7 DEF DoneStep
<1> QED BY <1>1, <1>2, <1>3, <1>4, Steps DEF Quiet

LEMMA HealthInit == Init => Unblemished /\ HealthyUnlessFailed
BY Bounds DEF Init, Unblemished, HealthyUnlessFailed, Ending

\* A connection that never failed keeps its success, up to one unit of rounding,
\* however its callbacks interleave (buildDoneFunc).
THEOREM StaysHealthy == Spec => []HealthyUnlessFailed
<1>1. Spec => [](TypeOK /\ Unblemished /\ HealthyUnlessFailed)
  BY TypedInit, TypedStep, HealthInit, HealthStep, PTL DEF Spec
<1> QED BY <1>1, PTL

-----------------------------------------------------------------------------
(* The latencies.                                                          *)

\* No call starts before the clock does, and what a callback is about to blend
\* is a latency that was stored before.
LatencyRead(k) ==
  /\ rpc[k] \in {"calling"} \cup Ending => answer[k].start >= Epoch
  /\ rpc[k] = "storeLag" => answer[k].old <= now - Epoch

LatenciesRead == \A k \in Rpcs : LatencyRead(k)

LEMMA LagStep ==
  TypeOK /\ LatenciesRead /\ LagWithinTime /\ [Next]_vars => LatenciesRead' /\ LagWithinTime'
<1> SUFFICES ASSUME TypeOK, LatenciesRead, LagWithinTime, [Next]_vars
             PROVE  LatenciesRead' /\ LagWithinTime'
  OBVIOUS
<1>0. /\ rpc \in [Rpcs -> {"idle", "calling"} \cup Picking \cup Ending]
      /\ on \in [Rpcs -> {<<>>} \cup SubConns] /\ answer \in [Rpcs -> Answers]
      /\ lag \in [SubConns -> Nat] /\ now \in Nat /\ now >= Epoch /\ Epoch \in Nat
  BY Parts, Bounds DEF CallsTyped, LoadTyped, ClockTyped
<1> DEFINE Kept(j) == rpc'[j] = rpc[j] /\ answer'[j] = answer[j]
<1>1. CASE Tick
  <2>1. now' = now + 1 /\ UNCHANGED <<rpc, answer, lag>>
    BY <1>1 DEF Tick, connVars
  <2>2. \A k \in Rpcs : answer[k].old \in Nat
    BY <1>0 DEF Answers
  <2> QED BY <1>0, <2>1, <2>2 DEF LatenciesRead, LatencyRead, LagWithinTime
<1>2. CASE (\E n \in 0..MaxConns : Build(n)) \/ UNCHANGED vars
  <2>1. UNCHANGED <<now, rpc, answer, lag>>
    BY <1>2 DEF Build, vars, connVars
  <2> QED BY <2>1 DEF LatenciesRead, LatencyRead, LagWithinTime
<1>3. ASSUME NEW k \in Rpcs, UsePicker(k) \/ (\E p \in Pairs : Draw(k, p))
      PROVE  LatenciesRead' /\ LagWithinTime'
  <2>1. UNCHANGED <<now, answer, lag>> /\ rpc'[k] \in Picking
    BY <1>0, <1>3 DEF UsePicker, Draw, Picking, connVars
  <2>2. \A j \in Rpcs \ {k} : Kept(j)
    BY <1>0, <1>3 DEF UsePicker, Draw
  <2> QED BY <2>1, <2>2 DEF LatenciesRead, LatencyRead, LagWithinTime, Picking, Ending
<1>4. ASSUME NEW k \in Rpcs, Choose(k) PROVE LatenciesRead' /\ LagWithinTime'
  <2>1. /\ UNCHANGED <<now, lag>> /\ rpc' = [rpc EXCEPT ![k] = "calling"]
        /\ answer' = [answer EXCEPT ![k] = [NoAnswer EXCEPT !.start = now]]
    BY <1>4 DEF Choose, Take
  <2>2. answer'[k].start = now /\ rpc'[k] = "calling"
    BY <1>0, <2>1 DEF NoAnswer
  <2>3. \A j \in Rpcs \ {k} : Kept(j)
    BY <1>0, <2>1
  <2> QED BY <1>0, <2>1, <2>2, <2>3 DEF LatenciesRead, LatencyRead, LagWithinTime
<1>5. ASSUME NEW k \in Rpcs, NEW good \in BOOLEAN, Finish(k, good)
      PROVE  LatenciesRead' /\ LagWithinTime'
  <2>1. UNCHANGED <<now, lag>> /\ rpc[k] = "calling" /\ rpc'[k] = "swap"
    BY <1>0, <1>5 DEF Finish
  <2>2. answer'[k].start = answer[k].start
    BY <1>0, <1>5 DEF Finish, Answers
  <2>3. \A j \in Rpcs \ {k} : Kept(j)
    BY <1>0, <1>5 DEF Finish
  <2> QED BY <2>1, <2>2, <2>3 DEF LatenciesRead, LatencyRead, LagWithinTime
<1>6. ASSUME NEW k \in Rpcs, DoneStep(k) PROVE LatenciesRead' /\ LagWithinTime'
  <2>1. now' = now /\ \A j \in Rpcs \ {k} : Kept(j)
    BY <1>0, <1>6 DEF DoneStep, SwapLast, LoadLag, StoreLag, LoadSuccess, StoreSuccess
  <2>2. rpc[k] \in Ending
    BY <1>6 DEF DoneStep, SwapLast, LoadLag, StoreLag, LoadSuccess, StoreSuccess, Ending
  <2>3. /\ on[k] \in SubConns /\ answer[k] \in Answers
        /\ answer[k].start \in Nat /\ answer[k].end \in Nat /\ answer[k].old \in Nat
        /\ answer[k].start <= answer[k].end /\ answer[k].end <= now
    BY <2>2, EndingTyped
  <2>4. answer[k].start >= Epoch /\ (rpc[k] = "storeLag" => answer[k].old <= now - Epoch)
    BY <2>2 DEF LatenciesRead, LatencyRead
  <2>5. CASE SwapLast(k) \/ LoadSuccess(k)
    <3>1. lag' = lag /\ rpc'[k] \in {"loadLag", "storeSuccess"} /\ answer'[k].start = answer[k].start
      BY <1>0, <2>3, <2>5 DEF SwapLast, LoadSuccess, Answers, connVars
    <3> QED BY <2>1, <2>4, <3>1 DEF LatenciesRead, LatencyRead, LagWithinTime
  <2>6. CASE LoadLag(k)
    <3>1. lag' = lag /\ answer'[k].start = answer[k].start /\ answer'[k].old = lag[on[k]]
      BY <1>0, <2>3, <2>6 DEF LoadLag, Answers, connVars
    <3>2. lag[on[k]] <= now - Epoch
      BY <1>0, <2>3 DEF LagWithinTime
    <3> QED BY <2>1, <2>4, <3>1, <3>2 DEF LatenciesRead, LatencyRead, LagWithinTime
  <2>7. CASE StoreLag(k)
    <3> DEFINE new == answer[k].end - answer[k].start
    <3>1. PICK v \in Blend(answer[k].old, new, answer[k].w) : lag' = [lag EXCEPT ![on[k]] = v]
      BY <2>7 DEF StoreLag
    <3>2. new \in Nat /\ new <= now - Epoch /\ answer[k].old <= now - Epoch
      BY <1>0, <2>3, <2>4, <2>7 DEF StoreLag
    <3>3. v \in Nat /\ (v <= answer[k].old \/ v <= new)
      <4> HIDE DEF new
      <4> QED BY <2>3, <3>1, <3>2, BlendBetween
    <3>4. v \in 0..(now - Epoch)
      <4> HIDE DEF new
      <4> QED BY <1>0, <2>3, <3>2, <3>3
    <3>5. LagWithinTime'
      BY <1>0, <2>1, <3>1, <3>4 DEF LagWithinTime
    <3>6. rpc'[k] = "loadSuccess" /\ answer' = answer
      BY <1>0, <2>7 DEF StoreLag
    <3> QED BY <2>1, <2>4, <3>5, <3>6 DEF LatenciesRead, LatencyRead
  <2>8. CASE StoreSuccess(k)
    <3>1. lag' = lag /\ rpc'[k] = "idle"
      BY <1>0, <2>8 DEF StoreSuccess
    <3> QED BY <2>1, <3>1 DEF LatenciesRead, LatencyRead, LagWithinTime, Ending
  <2> QED BY <1>6, <2>5, <2>6, <2>7, <2>8 DEF DoneStep
<1> QED BY <1>1, <1>2, <1>3, <1>4, <1>5, <1>6, Steps DEF Quiet

LEMMA LagInit == Init => LatenciesRead /\ LagWithinTime
BY Bounds DEF Init, LatenciesRead, LatencyRead, LagWithinTime, Ending

\* No average latency exceeds the time since the program started, and none
\* wraps below zero, however callbacks interleave (buildDoneFunc).
THEOREM LagStaysWithinTime == Spec => []LagWithinTime
<1>1. Spec => [](TypeOK /\ LatenciesRead /\ LagWithinTime)
  BY TypedInit, TypedStep, LagInit, LagStep, PTL DEF Spec
<1> QED BY <1>1, PTL

\* Both averages of a connection stay within what was observed (buildDoneFunc).
THEOREM AveragesStayWithin == Spec => []AveragesHold
<1>1. HealthyUnlessFailed /\ LagWithinTime => AveragesHold
  BY DEF AveragesHold
<1> QED BY StaysHealthy, LagStaysWithinTime, <1>1, PTL
=============================================================================
